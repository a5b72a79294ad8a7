---------------------------- MODULE MCAutoFeeder ----------------------------
(* AutoFeeder instances: hashes are small numbers, None is a model value.    *)
EXTENDS AutoFeeder
=============================================================================
