------------------------------ MODULE MCSpool ------------------------------
(* Spool instances.  u1, u2 are uploads; s1 and link are dropped by hand    *)
(* under one name, link a symlink; u1's run may leave a descendant.         *)
EXTENDS Spool, TLC

CONSTANTS u1, u2, s1, link

TwoUploads  == {u1, u2}
Dropped     == {s1, link}
OneUpload   == {u1}
OneDropped  == {s1}
Nothing     == {}
UploadNames == u1 :> "a" @@ u2 :> "b"
OneName     == s1 :> "d" @@ link :> "d"
=============================================================================
