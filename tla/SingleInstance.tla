--------------------------- MODULE SingleInstance ---------------------------
(***************************************************************************)
(* Single-instance mode: production without Valkey, where the engine       *)
(* processes find out through one Postgres table, zv_instances, that a     *)
(* newer one serves, and the older ones drain and retire.                  *)
(*                                                                         *)
(* A process is known by the UUID it draws when its heartbeat starts, so a *)
(* restarted process is another member of Instance and its predecessor's   *)
(* row stays behind.  Time is counted in heartbeat intervals: in every     *)
(* round each beating process runs one beat, in any order, and Tick ends   *)
(* the round.  Names that AdvisoryLock has as well begin with Beat here,   *)
(* for ReplicaProofs extends both.                                         *)
(***************************************************************************)
EXTENDS Integers, FiniteSets

CONSTANTS
  Instance,    \* the engine processes that are ever started
  LiveFor,     \* rounds after which a row no longer counts (LIVE_SECONDS)
  GoneAfter,   \* rounds after which a row is deleted by others ('1 hour')
  Grace,       \* rounds a superseded process keeps serving (GRACE_MS)
  MaxOutage,   \* longest run of rounds without a successful beat of a process
  MaxInsert,   \* bound: rows inserted in one behaviour
  MayCrash     \* whether a process may be killed

ASSUME BeatAssumption ==
  /\ IsFiniteSet(Instance)
  /\ LiveFor \in Nat \ {0} /\ GoneAfter \in Nat /\ LiveFor < GoneAfter
  /\ Grace \in Nat /\ MaxOutage \in Nat /\ MaxInsert \in Nat
  /\ MayCrash \in BOOLEAN

VARIABLES
  phase,     \* phase[i]: what process i does
  started,   \* started[i]: place of row i in the order (started_at, instance_id); 0: no row
  age,       \* age[i]: rounds since the last successful beat of i
  due,       \* the processes whose interval has fired in this round
  grace,     \* grace[i]: rounds left on i's grace timer
  inserts,   \* rows inserted so far
  first      \* history: first[i] is the place of the first row i inserted, 0: none

beatVars == <<phase, started, age, due, grace, inserts, first>>

Phase == {"unborn", "serving", "draining", "retired", "crashed"}
MaxAge == GoneAfter + 1

Running == {i \in Instance : phase[i] \in {"serving", "draining", "retired"}}

\* The processes that answer requests: a draining one still does.
Answering == {i \in Instance : phase[i] \in {"serving", "draining"}}

-----------------------------------------------------------------------------
BeatInit ==
  /\ phase = [i \in Instance |-> "unborn"]
  /\ started = [i \in Instance |-> 0]
  /\ age = [i \in Instance |-> 0]
  /\ due = {}
  /\ grace = [i \in Instance |-> 0]
  /\ inserts = 0
  /\ first = [i \in Instance |-> 0]

\* The server listens, then startHeartbeat draws a UUID and beats at once.
StartHeartbeat(i) ==
  /\ phase[i] = "unborn"
  /\ phase' = [phase EXCEPT ![i] = "serving"]
  /\ due' = due \union {i}
  /\ UNCHANGED <<started, age, grace, inserts, first>>

\* The rows the statement of i deletes on its way: others', past an hour.
GoneRows(i) ==
  {j \in Instance \ {i} : started[j] # 0 /\ age[j] > GoneAfter}

\* started_at after the upsert: the column default on INSERT, kept on CONFLICT.
Upserted(i) == IF started[i] = 0 THEN inserts + 1 ELSE started[i]

\* Mutant: the row comparison is reversed, an older row counts as newer.
SeesOlder(i) ==
  \E j \in Instance \ {i} :
    started[j] # 0 /\ age[j] < LiveFor /\ started[j] < Upserted(i)

\* Mutant: the comparison with the live window is reversed.
SeesNewerStale(i) ==
  \E j \in Instance \ {i} :
    started[j] # 0 /\ age[j] >= LiveFor /\ started[j] > Upserted(i)

\* The statement's answer.  Its SELECT reads the snapshot from before the
\* DELETE, in which a deleted row was not live anyway.
SeesNewer(i) ==
  \E j \in Instance \ {i} :
    /\ started[j] # 0
    /\ age[j] < LiveFor
    /\ started[j] > Upserted(i)

\* The single statement of beat(db, instanceId).
WriteBeat(i) ==
  /\ started[i] = 0 => inserts < MaxInsert
  /\ started' = [j \in Instance |->
                   IF j = i THEN Upserted(i)
                   ELSE IF j \in GoneRows(i) THEN 0 ELSE started[j]]
  /\ age' = [age EXCEPT ![i] = 0]
  /\ inserts' = IF started[i] = 0 THEN inserts + 1 ELSE inserts
  /\ first' = [first EXCEPT ![i] = IF @ = 0 THEN Upserted(i) ELSE @]

\* tick: beat, and on a newer live instance stop the interval, arm the timer.
TickBeat(i) ==
  /\ i \in due
  /\ phase[i] = "serving"
  /\ WriteBeat(i)
  /\ due' = due \ {i}
  /\ IF SeesNewer(i)
     THEN /\ phase' = [phase EXCEPT ![i] = "draining"]
          /\ grace' = [grace EXCEPT ![i] = Grace]
     ELSE UNCHANGED <<phase, grace>>

\* Mutant: a beat that fails counts as superseded and retires the process.
TickFailsRetires(i) ==
  /\ i \in due
  /\ phase[i] = "serving"
  /\ age[i] < MaxOutage
  /\ due' = due \ {i}
  /\ phase' = [phase EXCEPT ![i] = "retired"]
  /\ UNCHANGED <<started, age, grace, inserts, first>>

\* tick, catch branch: the statement never ran, the next beat retries.
TickFails(i) ==
  /\ i \in due
  /\ phase[i] = "serving"
  /\ age[i] < MaxOutage
  /\ due' = due \ {i}
  /\ UNCHANGED <<phase, started, age, grace, inserts, first>>

\* tick, catch branch: the statement committed and its answer was lost.
TickAnswerLost(i) ==
  /\ i \in due
  /\ phase[i] = "serving"
  /\ WriteBeat(i)
  /\ due' = due \ {i}
  /\ UNCHANGED <<phase, grace>>

\* The grace timer fires: retired = true; everything but health is refused.
Retire(i) ==
  /\ phase[i] = "draining"
  /\ grace[i] = 0
  /\ phase' = [phase EXCEPT ![i] = "retired"]
  /\ UNCHANGED <<started, age, due, grace, inserts, first>>

Crash(i) ==
  /\ MayCrash
  /\ i \in Running
  /\ phase' = [phase EXCEPT ![i] = "crashed"]
  /\ due' = due \ {i}
  /\ UNCHANGED <<started, age, grace, inserts, first>>

\* A heartbeat interval passes: every row ages, every serving process is due.
Tick ==
  /\ due = {}
  /\ \A i \in Instance : phase[i] = "draining" => grace[i] > 0
  /\ age' = [i \in Instance |->
               IF phase[i] = "unborn" \/ age[i] = MaxAge THEN age[i] ELSE age[i] + 1]
  /\ grace' = [i \in Instance |->
                 IF phase[i] = "draining" THEN grace[i] - 1 ELSE grace[i]]
  /\ due' = {i \in Instance : phase[i] = "serving"}
  /\ UNCHANGED <<phase, started, inserts, first>>

BeatNext ==
  \/ \E i \in Instance :
       \/ StartHeartbeat(i)
       \/ TickBeat(i)
       \/ TickFails(i)
       \/ TickAnswerLost(i)
       \/ Retire(i)
       \/ Crash(i)
  \/ Tick

BeatSpec == BeatInit /\ [][BeatNext]_beatVars

\* Timers fire and a due beat is eventually attempted; of the beats a process
\* attempts for ever, some get the statement's answer.
BeatFairness ==
  /\ WF_beatVars(Tick)
  /\ \A i \in Instance :
       /\ WF_beatVars(Retire(i))
       /\ SF_beatVars(TickBeat(i))

BeatFairSpec == BeatSpec /\ BeatFairness

-----------------------------------------------------------------------------
\* The type of the state.
BeatTypeOK ==
  /\ phase \in [Instance -> Phase]
  /\ started \in [Instance -> 0 .. MaxInsert]
  /\ age \in [Instance -> 0 .. MaxAge]
  /\ due \subseteq {i \in Instance : phase[i] = "serving"}
  /\ grace \in [Instance -> 0 .. Grace]
  /\ inserts \in 0 .. MaxInsert
  /\ first \in [Instance -> 0 .. MaxInsert]

\* Retirement never leaves the deployment without a server: while no process
\* was killed and one runs, one serves and is not on its way out.  tick decides
\* from rows others wrote at other times, and a chain of processes may each
\* have retired in favour of the next.
NoBlackout ==
  (Running # {} /\ \A i \in Instance : phase[i] # "crashed")
    => \E i \in Instance : phase[i] = "serving"

\* "The newest instance wins": tick makes a process drain only for one that
\* wrote its first heartbeat after it.
DrainsForANewer ==
  \A i \in Instance :
    (phase[i] = "serving" /\ phase'[i] = "draining")
      => \E j \in Instance : first'[j] > first'[i]

NewestWins == [][DrainsForANewer]_beatVars

\* The inductive invariant behind both, for outages a row survives.  A serving
\* process keeps the row it first inserted, and whoever drained did so for a
\* process with a later first row that has not drained itself.
RowsKept ==
  \A i \in Instance :
    /\ started[i] \in {0, first[i]}
    /\ first[i] <= inserts
    /\ phase[i] = "unborn" => first[i] = 0 /\ age[i] = 0
    /\ phase[i] = "serving" =>
         /\ started[i] = first[i]
         /\ age[i] <= GoneAfter
         /\ i \notin due => age[i] < GoneAfter

DrainedForASuccessor ==
  \A i \in Instance :
    phase[i] \in {"draining", "retired"} =>
      \E j \in Instance :
        phase[j] \in {"serving", "crashed"} /\ first[j] > first[i]

BeatInv == BeatTypeOK /\ RowsKept /\ DrainedForASuccessor

\* No serving process has been without a beat for as long as a row counts.
BeatsInTime == \A i \in Instance : phase[i] = "serving" => age[i] < LiveFor

\* The reason for the mode: however starts, failed beats and kills interleave,
\* once no outage lasts as long as the live window any more, at most one process
\* goes on answering requests, so no other one's caches go stale.
EventuallyOneAnswers == <>[]BeatsInTime => <>[](Cardinality(Answering) <= 1)

=============================================================================
