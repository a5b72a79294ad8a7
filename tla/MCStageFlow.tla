---------------------------- MODULE MCStageFlow -----------------------------
(* Instances of StageFlow.  A sample whose memory CAPE dumps leaves little   *)
(* to Ghidra here, and one with much for Ghidra has no dump: the stages meet *)
(* in the report's sections, not in their inner steps.                       *)
EXTENDS FlowGraph

Behaviour(p, b, t) == [pids |-> p, buffers |-> b, trigger |-> t]

Dumped == [kind : {"script"}, windows : {TRUE}, binary : {FALSE}, dumps : {TRUE},
           behaviour : {Behaviour(2, FALSE, TRUE), Behaviour(0, TRUE, TRUE)},
           extracts : {{}}]

Unpacked(k, x) ==
  [kind |-> k, windows |-> TRUE, binary |-> k # "office", dumps |-> FALSE,
   behaviour |-> Behaviour(1, "region" \in x, TRUE), extracts |-> x]

Elf == [kind : {"native"}, windows : {FALSE}, binary : {TRUE}, dumps : {FALSE},
        behaviour : {NoIntel}, extracts : {{}}]

MCSamples ==
  Dumped \cup Elf
    \cup {Unpacked("office", {"labelled", "dropped"}), Unpacked("powershell", {"region"}),
          Unpacked("go", {"dropped"}), Unpacked("native", {"labelled"})}
=============================================================================
