------------------------------ MODULE MCBreach ------------------------------
(* The monitor beside a batch of two samples. *)
EXTENDS Host
CONSTANTS x, y
TwoSamples == <<x, y>>
=============================================================================
