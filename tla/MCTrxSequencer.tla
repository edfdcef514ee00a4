--------------------------- MODULE MCTrxSequencer ---------------------------
(* Instances of TrxSequencer for TLC.                                        *)
EXTENDS TrxSequencer

CONSTANTS s1, s2, r1

\* Two savepoint blocks and, where the instance has it, one role window.
Kinds == [s \in Scope |-> IF s = r1 THEN "role" ELSE "savepoint"]
=============================================================================
