------------------------------ MODULE LiveTable ------------------------------
(***************************************************************************)
(* What an online schema change promises of a table (docs/engine/          *)
(* ghost-ddl.md): it answers writes one row at a time, and at some moment  *)
(* its shape moves to the next one without a row being touched.            *)
(***************************************************************************)
EXTENDS Integers

CONSTANTS
  Row,     \* ids
  Value,   \* what a row may hold
  None     \* the row is not in the table

VARIABLES
  rows,    \* rows[r]: what the table answers for r
  shape    \* schema changes the table has been through

vars == <<rows, shape>>

Init ==
  /\ rows \in [Row -> Value \union {None}]
  /\ shape = 0

\* An INSERT, UPDATE or DELETE commits.
Write(r, v) ==
  /\ rows' = [rows EXCEPT ![r] = v]
  /\ UNCHANGED shape

\* The schema change takes effect.
Migrate ==
  /\ shape' = shape + 1
  /\ UNCHANGED rows

Next ==
  \/ \E r \in Row, v \in Value \union {None} : Write(r, v)
  \/ Migrate

Spec == Init /\ [][Next]_vars
==============================================================================
