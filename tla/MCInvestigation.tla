--------------------------- MODULE MCInvestigation --------------------------
(***************************************************************************)
(* An instance of Investigation: two turns that may overlap, a third       *)
(* message that meets the turn limit, two tool calls per answer and three  *)
(* per turn.  Beside it an instance of Panel, for which a behaviour is one *)
(* of three scenes: the panel is closed and opened, another tab creates    *)
(* sessions, and sessions end and pins are saved.  Each of these disturbs  *)
(* an exchange by itself; all at once multiply.                            *)
(***************************************************************************)
EXTENDS Investigation, Panel, TLC

CONSTANTS m1, m2, m3, a, b, Parts

Messages == {m1, m2, m3}
Lines == {a, b}
Symmetry == Permutations(Messages) \cup Permutations(Lines)

VARIABLE part

AtMostSent(n) == Cardinality({m \in Asked : post'[m].at # "unsent"}) <= n
OneMount == mount' = 1 /\ open'
NoneEnds == (\A s \in Sessions : status'[s] # "completed") /\ pins' = pins

Scene ==
  \/ part = "reopened" /\ <<status, pins>>' = <<status, pins>>
  \/ part = "tabs" /\ OneMount /\ NoneEnds
  \/ part = "ends" /\ OneMount /\ AtMostSent(1)

MCInit == Init /\ PanelInit /\ part \in Parts /\ (part = "turns" \/ key)

MCNext ==
  /\ UNCHANGED part
  /\ \/ part = "turns" /\ Next /\ UNCHANGED panel
     \/ PanelNext /\ Scene /\ UNCHANGED vars

MCSpec == MCInit /\ [][MCNext]_<<vars, panel, part>>
=============================================================================
