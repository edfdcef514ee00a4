----------------------------- MODULE AdvisoryLock -----------------------------
(***************************************************************************)
(* Cross-replica mutual exclusion for work that runs on the pool           *)
(* (db/advisory-lock.ts): withAdvisoryLock, tryAdvisoryLock,               *)
(* withXactAdvisoryLock and withSessionAdvisoryLock of several engine      *)
(* processes on one Postgres.                                              *)
(*                                                                         *)
(* The first two hold the lock in a transaction of their own, beside the   *)
(* work, so a call costs two pooled connections; the holders of a process  *)
(* are capped below its pool.  A call may be made by the work of another   *)
(* (ParentOf): an extension load applies a schema, which may run a ghost   *)
(* DDL, each under a lock of its own.                                      *)
(***************************************************************************)
EXTENDS Integers, Sequences, FiniteSets

CONSTANTS
  Proc,        \* engine processes
  Call,        \* calls of the four functions
  Key,         \* advisory keys
  None,        \* no call
  PoolMax,     \* activePoolMax(): connections of each process
  ProcOf,      \* ProcOf[c]: the process that makes call c
  KeyOf,       \* KeyOf[c]: its key
  ModeOf,      \* ModeOf[c]: "wait", "try", "xact" or "session"
  ParentOf,    \* ParentOf[c]: the call whose work makes call c, or None
  MayTimeout,  \* whether a wait is bounded (maxWait, or the session's timeouts)
  MayRefuse,   \* whether a wait for a pooled connection runs into its deadline
  MaxDeaths    \* bound: backends that are dead and not yet given back

ASSUME ConstantsAssumption ==
  /\ IsFiniteSet(Call)
  /\ PoolMax \in Nat /\ PoolMax >= 2     \* resolvePoolMax: never below 2
  /\ ProcOf \in [Call -> Proc] /\ KeyOf \in [Call -> Key]
  /\ ModeOf \in [Call -> {"wait", "try", "xact", "session"}]
  /\ ParentOf \in [Call -> Call \union {None}] /\ None \notin Call
  /\ MayTimeout \in BOOLEAN /\ MayRefuse \in BOOLEAN /\ MaxDeaths \in Nat

VARIABLES
  pc,        \* pc[c]: where call c is
  holding,   \* holding[p]: holder slots taken in process p
  waiting,   \* waiting[p]: the calls queued for a slot, in order
  holder,    \* holder[k]: the call whose backend has the lock, or None
  pinned,    \* calls whose transaction or session pins a pooled connection
  dead,      \* calls whose pinned backend has died
  lost,      \* calls whose heartbeat noticed that
  threw,     \* calls whose work threw
  outcome,   \* outcome[c]: what the caller is told
  overlap    \* history: pairs of calls on one key whose works ran side by side

vars == <<pc, holding, waiting, holder, pinned, dead, lost, threw, outcome, overlap>>

Holders == {c \in Call : ModeOf[c] \in {"wait", "try"}}

\* One below the pool, so that the holders' work finds a connection.
Cap == IF PoolMax - 1 > 1 THEN PoolMax - 1 ELSE 1

\* The work of c is going on: it asks for a connection, uses it, has used it.
InWork(c) == pc[c] \in {"working", "running", "worked"}

\* A pooled connection is pinned by a transaction or used by a work's statement.
FreeConnection(p) ==
  Cardinality({c \in pinned : ProcOf[c] = p})
    + Cardinality({c \in Call : ProcOf[c] = p /\ pc[c] = "running"}) < PoolMax

Children(c) == {d \in Call : ParentOf[d] = c}

-----------------------------------------------------------------------------
Init ==
  /\ pc = [c \in Call |-> "idle"]
  /\ holding = [p \in Proc |-> 0]
  /\ waiting = [p \in Proc |-> <<>>]
  /\ holder = [k \in Key |-> None]
  /\ pinned = {}
  /\ dead = {}
  /\ lost = {}
  /\ threw = {}
  /\ outcome = [c \in Call |-> "none"]
  /\ overlap = {}

\* One pass of takeHolderSlot's loop: take a slot, or queue (again) for one.
TakeHolderSlot(c) ==
  LET p == ProcOf[c] IN
  IF holding[p] >= Cap
  THEN /\ waiting' = [waiting EXCEPT ![p] = Append(@, c)]
       /\ pc' = [pc EXCEPT ![c] = "queued"]
       /\ UNCHANGED holding
  ELSE /\ holding' = [holding EXCEPT ![p] = @ + 1]
       /\ pc' = [pc EXCEPT ![c] = "ready"]
       /\ UNCHANGED waiting

\* The end of a call; a holder's finally gives its slot and wakes the first
\* in the queue, which then runs takeHolderSlot's test again.
GiveHolderSlot(c) ==
  LET p == ProcOf[c] IN
  IF c \notin Holders
  THEN pc' = [pc EXCEPT ![c] = "done"] /\ UNCHANGED <<holding, waiting>>
  ELSE /\ holding' = [holding EXCEPT ![p] = @ - 1]
       /\ IF waiting[p] = <<>>
          THEN pc' = [pc EXCEPT ![c] = "done"] /\ UNCHANGED waiting
          ELSE /\ pc' = [pc EXCEPT ![c] = "done", ![Head(waiting[p])] = "woken"]
               /\ waiting' = [waiting EXCEPT ![p] = Tail(@)]

\* The call ends with o: its transaction or session, if any, ends with it.
EndCall(c, o) ==
  /\ outcome' = [outcome EXCEPT ![c] = o]
  /\ pinned' = pinned \ {c}
  /\ dead' = dead \ {c}
  /\ GiveHolderSlot(c)

\* The caller asks: hold, or the entry of the two variants without a holder.
Ask(c) ==
  /\ pc[c] = "idle"
  /\ ParentOf[c] # None => pc[ParentOf[c]] = "worked"
  /\ IF c \in Holders
     THEN TakeHolderSlot(c)
     ELSE pc' = [pc EXCEPT ![c] = "ready"] /\ UNCHANGED <<holding, waiting>>
  /\ UNCHANGED <<holder, pinned, dead, lost, threw, outcome, overlap>>

\* A woken caller goes round takeHolderSlot's loop; another may have come first.
Resume(c) ==
  /\ pc[c] = "woken"
  /\ TakeHolderSlot(c)
  /\ UNCHANGED <<holder, pinned, dead, lost, threw, outcome, overlap>>

\* The holder's (or the work's own) transaction gets its pooled connection.
Begin(c) ==
  /\ pc[c] = "ready"
  /\ FreeConnection(ProcOf[c])
  /\ pc' = [pc EXCEPT ![c] = "begun"]
  /\ pinned' = pinned \union {c}
  /\ UNCHANGED <<holding, waiting, holder, dead, lost, threw, outcome, overlap>>

\* PoolBusyError: no connection within the pool's deadline.
BeginRefused(c) ==
  /\ MayRefuse
  /\ pc[c] = "ready"
  /\ ~FreeConnection(ProcOf[c])
  /\ EndCall(c, "error")
  /\ UNCHANGED <<holder, lost, threw, overlap>>

\* tryOnce takes the lock; the work starts beside it.
Try(c) ==
  /\ pc[c] = "begun"
  /\ c \notin dead
  /\ holder[KeyOf[c]] = None
  /\ holder' = [holder EXCEPT ![KeyOf[c]] = c]
  /\ pc' = [pc EXCEPT ![c] = "working"]
  /\ overlap' = overlap \union
       {{c, d} : d \in {x \in Call : KeyOf[x] = KeyOf[c] /\ InWork(x)}}
  /\ UNCHANGED <<holding, waiting, pinned, dead, lost, threw, outcome>>

\* The try's statement fails on a dead backend: the error ends the call.
TryFails(c) ==
  /\ pc[c] = "begun"
  /\ c \in dead
  /\ EndCall(c, "error")
  /\ UNCHANGED <<holder, lost, threw, overlap>>

\* Another backend has the lock: the try variant gives up.
MissTry(c) ==
  /\ pc[c] = "begun" /\ c \notin dead
  /\ holder[KeyOf[c]] # None
  /\ ModeOf[c] = "try"
  /\ EndCall(c, "missed")
  /\ UNCHANGED <<holder, lost, threw, overlap>>

\* Another backend has the lock: a waiter's transaction ends with the miss and
\* it tries again after POLL_MS; a session waiter keeps its connection.
MissWait(c) ==
  /\ pc[c] = "begun" /\ c \notin dead
  /\ holder[KeyOf[c]] # None
  /\ ModeOf[c] \in {"wait", "xact"}
  /\ pc' = [pc EXCEPT ![c] = "ready"]
  /\ pinned' = pinned \ {c}
  /\ UNCHANGED <<holding, waiting, holder, dead, lost, threw, outcome, overlap>>

\* A miss past the bound: AdvisoryLockTimeout, or the session's own SQLSTATE.
MissTimeout(c) ==
  /\ MayTimeout
  /\ pc[c] = "begun" /\ c \notin dead
  /\ holder[KeyOf[c]] # None
  /\ ModeOf[c] # "try"
  /\ EndCall(c, "timeout")
  /\ UNCHANGED <<holder, lost, threw, overlap>>

\* The work's statement gets a connection of the pool; the work of the variants
\* without a holder runs on the connection that has the lock.
WorkStatement(c) ==
  /\ pc[c] = "working"
  /\ IF c \in Holders
     THEN FreeConnection(ProcOf[c]) /\ pc' = [pc EXCEPT ![c] = "running"]
     ELSE pc' = [pc EXCEPT ![c] = "worked"]
  /\ UNCHANGED <<holding, waiting, holder, pinned, dead, lost, threw, outcome, overlap>>

WorkStatementDone(c) ==
  /\ pc[c] = "running"
  /\ pc' = [pc EXCEPT ![c] = "worked"]
  /\ UNCHANGED <<holding, waiting, holder, pinned, dead, lost, threw, outcome, overlap>>

\* PoolBusyError in the work: it throws.
WorkRefused(c) ==
  /\ MayRefuse
  /\ pc[c] = "working" /\ c \in Holders
  /\ ~FreeConnection(ProcOf[c])
  /\ pc' = [pc EXCEPT ![c] = "closing"]
  /\ threw' = threw \union {c}
  /\ UNCHANGED <<holding, waiting, holder, pinned, dead, lost, outcome, overlap>>

\* fn returns: a failed call inside it fails it.
WorkReturns(c) ==
  /\ pc[c] = "worked"
  /\ \A d \in Children(c) : pc[d] = "done" /\ outcome[d] \in {"ran", "missed"}
  /\ pc' = [pc EXCEPT ![c] = "closing"]
  /\ UNCHANGED <<holding, waiting, holder, pinned, dead, lost, threw, outcome, overlap>>

\* fn throws, before or after the calls it makes, or because one of them did.
WorkThrows(c) ==
  /\ pc[c] = "worked"
  /\ \A d \in Children(c) : pc[d] \in {"idle", "done"}
  /\ pc' = [pc EXCEPT ![c] = "closing"]
  /\ threw' = threw \union {c}
  /\ UNCHANGED <<holding, waiting, holder, pinned, dead, lost, outcome, overlap>>

\* The backend is killed, or the network drops it: the server frees its lock.
BackendDies(c) ==
  /\ c \in pinned \ dead
  /\ Cardinality(dead) < MaxDeaths
  /\ dead' = dead \union {c}
  /\ holder' = [k \in Key |-> IF holder[k] = c THEN None ELSE holder[k]]
  /\ UNCHANGED <<pc, holding, waiting, pinned, lost, threw, outcome, overlap>>

\* A beat on the dead holder fails while the work runs.
Beat(c) ==
  /\ c \in Holders /\ InWork(c)
  /\ c \in dead \ lost
  /\ lost' = lost \union {c}
  /\ UNCHANGED <<pc, holding, waiting, holder, pinned, dead, threw, outcome, overlap>>

\* Mutant: the COMMIT of a dead holder is taken for a success.
AnswerIgnoringCommit(c) ==
  IF c \in threw THEN "failed" ELSE IF c \in lost THEN "lost" ELSE "ran"

\* What the caller is told: fn's own error, AdvisoryLockLost, the error of a
\* COMMIT on a dead backend, or fn's value.
Answer(c) ==
  CASE c \in threw -> "failed"
    [] c \notin threw /\ c \in lost -> "lost"
    [] c \notin threw /\ c \notin lost /\ c \in dead -> "error"
    [] OTHER -> "ran"

\* Mutant: the connection goes back to the pool with the lock still on it.
CloseKeepsLock(c) ==
  /\ pc[c] = "closing"
  /\ EndCall(c, Answer(c))
  /\ UNCHANGED <<holder, lost, threw, overlap>>

\* The transaction (or session) ends after the work and frees the lock with it.
Close(c) ==
  /\ pc[c] = "closing"
  /\ EndCall(c, Answer(c))
  /\ holder' = [k \in Key |-> IF holder[k] = c THEN None ELSE holder[k]]
  /\ UNCHANGED <<lost, threw, overlap>>

Step(c) ==
  \/ Ask(c) \/ Resume(c) \/ Begin(c) \/ BeginRefused(c)
  \/ Try(c) \/ TryFails(c) \/ MissTry(c) \/ MissWait(c) \/ MissTimeout(c)
  \/ WorkStatement(c) \/ WorkStatementDone(c) \/ WorkRefused(c)
  \/ WorkReturns(c) \/ WorkThrows(c) \/ Close(c)

Environment(c) == BackendDies(c) \/ Beat(c)

Done == \A c \in Call : pc[c] = "done" \/ (pc[c] = "idle" /\ ParentOf[c] # None)

\* Every call has ended (a child whose parent's work threw first is never made).
Terminated == Done /\ UNCHANGED vars

Next == (\E c \in Call : Step(c) \/ Environment(c)) \/ Terminated

Spec == Init /\ [][Next]_vars

\* The event loop runs what is ready; the pool serves waiters in turn, so a
\* waiter whose connection or lock comes free again and again gets it.
Fairness ==
  \A c \in Call :
    /\ SF_vars(Begin(c)) /\ SF_vars(Try(c)) /\ SF_vars(WorkStatement(c))
    /\ WF_vars(\/ Ask(c) \/ Resume(c) \/ TryFails(c) \/ MissTry(c) \/ MissWait(c)
               \/ WorkStatementDone(c) \/ WorkReturns(c) \/ WorkThrows(c) \/ Close(c))

FairSpec == Spec /\ Fairness

-----------------------------------------------------------------------------
\* Between taking a holder slot and giving it back.
SlotStates == {"ready", "begun", "working", "running", "worked", "closing"}

\* Between taking the lock and ending the transaction that has it.
LockStates == {"working", "running", "worked", "closing"}

\* The type of the state; the counter of slots stays within the cap that
\* takeHolderSlot tests, whoever gives slots back.
TypeOK ==
  /\ pc \in [Call -> SlotStates \union {"idle", "queued", "woken", "done"}]
  /\ \A c \in Call : pc[c] \in {"queued", "woken"} => c \in Holders
  /\ holding \in [Proc -> 0 .. Cap]
  /\ waiting \in [Proc -> Seq(Holders)]
  /\ holder \in [Key -> Call \union {None}]
  /\ pinned \subseteq Call /\ dead \subseteq pinned
  /\ lost \subseteq Holders /\ threw \subseteq Call
  /\ outcome \in [Call -> {"none", "ran", "missed", "timeout", "error", "failed", "lost"}]
  /\ overlap \subseteq SUBSET Call

\* "Its caller must not be told it ran alone": when the works of two calls on
\* one key ran side by side (a holder died under one and another process took
\* the lock), they are not both told that they ran.
OverlapIsReported ==
  \A c, d \in Call :
    {c, d} \in overlap /\ c # d => ~(outcome[c] = "ran" /\ outcome[d] = "ran")

\* Holders never take the whole pool: one connection is left for their work,
\* whatever ends the calls (a miss, a timeout, a refused connection, a throw).
HoldersLeaveRoom ==
  \A p \in Proc :
    Cardinality({c \in pinned \intersect Holders : ProcOf[c] = p}) < PoolMax

\* The inductive invariant behind the safety properties.  The queue holds each
\* queued caller once, the counter counts the slots out, and a call between
\* taking the lock and its end has the lock unless its backend died.
QueueOK ==
  \A p \in Proc :
    \A i \in 1 .. Len(waiting[p]) :
      /\ ProcOf[waiting[p][i]] = p
      /\ pc[waiting[p][i]] = "queued"
      /\ \A j \in 1 .. Len(waiting[p]) : waiting[p][i] = waiting[p][j] => i = j

SlotHolders(p) == {c \in Holders : ProcOf[c] = p /\ pc[c] \in SlotStates}

SlotsOK == \A p \in Proc : holding[p] = Cardinality(SlotHolders(p))

LockOK ==
  \A c \in Call :
    /\ c \in pinned <=> pc[c] \in {"begun"} \union LockStates
    /\ pc[c] \in LockStates => c \in dead \/ holder[KeyOf[c]] = c

\* The work of c has lost its lock, and its caller is or will be told.
Tainted(c) ==
  \/ pc[c] \in LockStates /\ c \in dead
  \/ pc[c] = "done" /\ outcome[c] # "ran"

OneOfTwoTainted ==
  \A c, d \in Call : {c, d} \in overlap /\ c # d => Tainted(c) \/ Tainted(d)

OutcomeAtEnd == \A c \in Call : outcome[c] # "none" => pc[c] = "done"

IInv == TypeOK /\ QueueOK /\ SlotsOK /\ LockOK /\ OneOfTwoTainted /\ OutcomeAtEnd

\* Every call comes back to its caller: no cycle of holders waiting for
\* connections or slots that only another of them would free.
EveryCallEnds == <>(\A c \in Call : ParentOf[c] = None => pc[c] = "done")

=============================================================================
