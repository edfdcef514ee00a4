--------------------------- MODULE MCAdvisoryLock ---------------------------
(* Instances of AdvisoryLock for TLC.                                        *)
EXTENDS AdvisoryLock, TLC

CONSTANTS c1, c2, c3, c4, p1, p2, k1, k2, k3

\* The part of f that concerns the calls of this instance.
Of(f) == [c \in Call |-> f[c]]

NoParents == [c \in Call |-> None]

\* Two replicas, one key, one call of each kind.
TwoReplicas == Of(c1 :> p1 @@ c2 :> p2 @@ c3 :> p1 @@ c4 :> p2)
OneKey == [c \in Call |-> k1]
Kinds == Of(c1 :> "wait" @@ c2 :> "try" @@ c3 :> "xact" @@ c4 :> "session")

\* One process; three holders with keys of their own, and a fourth that gives up
\* when the key it shares with the first is taken.
OneProcess == [c \in Call |-> p1]
AllHolders == Of(c1 :> "wait" @@ c2 :> "wait" @@ c3 :> "wait" @@ c4 :> "try")
OwnKeys == Of(c1 :> k1 @@ c2 :> k2 @@ c3 :> k3 @@ c4 :> k1)

\* c2 is made by the work of c1, as a schema apply by an extension load.
Nested == [c \in Call |-> IF c = c2 THEN c1 ELSE None]
=============================================================================
