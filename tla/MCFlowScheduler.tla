--------------------------- MODULE MCFlowScheduler ---------------------------
(* Instances of FlowScheduler for TLC.                                     *)
EXTENDS FlowScheduler

CONSTANTS d, a, b, b1

\* Flow d belongs to another firm than the others.
MCFirm == [f \in Flow |-> IF f = d THEN "firm2" ELSE "firm1"]

\* Every poll but b1 is one of replica a.
MCHome == [t \in Tick |-> IF t = b1 THEN b ELSE a]
==============================================================================
