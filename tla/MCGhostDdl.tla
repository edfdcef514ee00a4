------------------------------ MODULE MCGhostDdl ------------------------------
(* Instances of GhostDdl for TLC.                                          *)
EXTENDS GhostDdl

\* A row may be inserted behind the copy's cursor, and the table may be emptied.
MCStored == [r \in Row |-> IF r = 1 THEN None ELSE "v"]
==============================================================================
