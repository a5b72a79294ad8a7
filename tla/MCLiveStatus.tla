--------------------------- MODULE MCLiveStatus ---------------------------
(* LiveStatus instances: pages and sockets as model values.                *)
EXTENDS LiveStatus
CONSTANTS t1, s1, s2
=============================================================================
