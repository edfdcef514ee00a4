---------------------------- MODULE MCQueryCache ----------------------------
(* Two tenants' lists of one user and a time-travel count of the same user. *)
EXTENDS QueryCache, TLC

CONSTANTS p, q, k, i1, i2, u

MCOrder == (p :> <<i1, u>>) @@ (q :> <<i2, u>>) @@ (k :> <<u>>)
=============================================================================
