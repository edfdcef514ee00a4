------------------------ MODULE MCRequestTransaction ------------------------
(* Instances of RequestTransaction for TLC.                                  *)
EXTENDS RequestTransaction

CONSTANTS r1, r2, j1, j2, j3, w1

\* Two jobs and the joined work for the first request, a job for the second.
Jobs == [j \in Job |-> IF j = j3 THEN r2 ELSE r1]
Works == [w \in Work |-> r1]
=============================================================================
