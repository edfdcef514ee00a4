---------------------------- MODULE MCWorkerTxn ----------------------------
(* One request, its own transaction or a joined one, with one service call. *)
EXTENDS WorkerTxn
=============================================================================
