--------------------------- MODULE WebhookDelivery ---------------------------
(***************************************************************************)
(* The delivery of webhooks, from packages/engine/src/lib/webhooks.ts,     *)
(* lib/webhook-worker.ts and the dead-letter routes of routes/webhooks.ts. *)
(*                                                                         *)
(* A write that matched webhooks is announced by one trigger: it commits a *)
(* delivery row per webhook, then queues one payload per webhook on the    *)
(* cache ('webhook:queue'), or, with no cache, delivers each in process.   *)
(* Every replica polls the queue on a timer, and the timer does not wait   *)
(* for the pass before: any number of passes overlap.  A pass pops a       *)
(* batch, posts it, files each failure under 'webhook:retry' or in the     *)
(* dead-letter list, then moves retries that are due back to the queue.    *)
(* An administrator may replay the dead letters.                           *)
(*                                                                         *)
(* A payload is named by its webhook: the matched set of one trigger.      *)
(* The receiver is the environment: any POST may be answered well or       *)
(* badly, or time out.  Signing, headers, URL checks and metrics are left  *)
(* out, and so are the dead letters of other firms, which a replay skips.  *)
(***************************************************************************)
EXTENDS Naturals, Sequences, FiniteSets

CONSTANTS
    Hooks,          \* the active webhooks the write matched
    Unlogged,       \* of these, the ones whose delivery row was refused
    Deployments,    \* with a cache (TRUE), without (FALSE), or either
    Passes,         \* _process calls that may be under way at one time
    Replayers,      \* POST /dlq/replay requests that may be under way
    RetryAttempts,  \* zvd_webhooks.retry_attempts
    Batch,          \* the 10 of LMPOP COUNT and of ZRANGEBYSCORE LIMIT
    DlqMax,         \* WEBHOOK_DLQ_MAX
    MaxReplays,     \* bound: replays ever started
    MaxFaults,      \* bound: faults that happen
    Faults          \* of "cacheError" (a command of the cache fails),
                    \* "crash" (a process dies)

ASSUME DeliveryAssumption ==
    /\ Unlogged \subseteq Hooks
    /\ Deployments \subseteq BOOLEAN
    /\ RetryAttempts \in Nat
    /\ IsFiniteSet(Passes)
    /\ Batch \in Nat \ {0} /\ DlqMax \in Nat \ {0}
    /\ MaxReplays \in Nat /\ MaxFaults \in Nat
    /\ Faults \subseteq {"cacheError", "crash"}

VARIABLES
    toQueue,    \* webhooks the trigger's loop has still to queue
    queue,      \* 'webhook:queue': payloads, oldest first
    retry,      \* 'webhook:retry': a sorted set, so one of each member
    due,        \* the members of retry whose score the clock has passed
    dlq,        \* 'webhook:dlq': newest first; stamp stands for failedAt
    pass,       \* the state of each _process call
    direct,     \* the no-cache deliveries: _deliverWithRetries
    replay,     \* the state of each replay request
    outcomes,   \* recordOutcome calls sent and not yet carried out
    row,        \* zvd_webhook_deliveries, by payload: is delivered_at set?
    stamp,      \* the next failedAt
    replays,    \* replays started so far
    hasCache,   \* does this deployment have a cache (Valkey)?
    faults,     \* faults so far
    posts,      \* history: POSTs sent, by webhook
    received,   \* history: webhooks with a POST that was answered well
    trimmed,    \* history: webhooks LTRIM dropped an entry of
    untrimmed,  \* history: LPUSHes since the last LTRIM whose own never came
    lost        \* history: webhooks whose payload a fault took

queueVars == <<toQueue, queue, retry, due, dlq>>
rowVars   == <<outcomes, row>>
pastVars  == <<posts, received>>
trimVars  == <<trimmed, untrimmed>>
setVars   == <<hasCache, faults>>
vars == <<queueVars, pass, direct, replay, rowVars, stamp, replays, setVars, pastVars,
          trimVars, lost>>

Attempt == 0 .. RetryAttempts
Payload == [hook : Hooks, attempt : Attempt]

\* A payload that a pass popped: still to post, answered badly and to be filed,
\* filed as dead letter but not trimmed, or finished with.
ItemState == {"post", "failed", "trim", "done"}

Idle == [pc |-> "idle", items |-> <<>>, due |-> {}, claimed |-> <<>>]

NoDelivery == [pc |-> "none", attempt |-> 0]

NoReplay == [pc |-> "none", raw |-> <<>>]

Init ==
    /\ toQueue = Hooks
    /\ queue = <<>> /\ retry = {} /\ due = {} /\ dlq = <<>>
    /\ pass = [p \in Passes |-> Idle]
    /\ direct = [h \in Hooks |-> NoDelivery]
    /\ replay = [r \in Replayers |-> NoReplay]
    /\ outcomes = {}
    /\ row = [h \in Hooks |-> FALSE]
    /\ stamp = 0 /\ replays = 0
    /\ hasCache \in Deployments /\ faults = 0
    /\ posts = [h \in Hooks |-> 0]
    /\ received = {} /\ trimmed = {} /\ untrimmed = 0 /\ lost = {}

-----------------------------------------------------------------------------
(* trigger: the rows are committed (Init), the loop queues one by one.     *)

\* A payload is queued on the cache, or handed to _deliverWithRetries.
TriggerNext(h) ==
    /\ h \in toQueue
    /\ toQueue' = toQueue \ {h}
    /\ IF hasCache
       THEN /\ queue' = Append(queue, [hook |-> h, attempt |-> 0])
            /\ UNCHANGED direct
       ELSE /\ direct' = [direct EXCEPT ![h].pc = "post"]
            /\ UNCHANGED queue
    /\ UNCHANGED <<retry, due, dlq, pass, replay, rowVars, stamp, replays,
                   setVars, pastVars, trimVars, lost>>

\* One failed RPUSH leaves the loop by its catch: the webhooks that come
\* after it are not queued either.  So it is when the process dies here.
TriggerFails ==
    /\ (hasCache /\ "cacheError" \in Faults) \/ "crash" \in Faults
    /\ toQueue # {}
    /\ lost' = lost \union toQueue
    /\ toQueue' = {}
    /\ UNCHANGED <<queue, retry, due, dlq, pass, direct, replay, rowVars, stamp,
                   replays, hasCache, pastVars, trimVars>>

-----------------------------------------------------------------------------
(* deliver: a POST, its answer, and an outcome write nobody waits for.     *)

\* A POST of h and what becomes of it.  Nothing reads what is in flight, so
\* the two are one step; its sender may die before it.
Delivered(h, ok) ==
    /\ posts' = [posts EXCEPT ![h] = @ + 1]
    /\ received' = IF ok THEN received \union {h} ELSE received
    /\ outcomes' = IF h \in Unlogged THEN outcomes
                   ELSE outcomes \union {[hook |-> h, ok |-> ok]}
    /\ UNCHANGED row

\* The update of one outcome is carried out, in a transaction of its own:
\* whichever of several comes last is what the row says.
RecordOutcome(o) ==
    /\ o \in outcomes
    /\ outcomes' = outcomes \ {o}
    /\ row' = [row EXCEPT ![o.hook] = o.ok]
    /\ UNCHANGED <<queueVars, pass, direct, replay, stamp, replays, setVars,
                   pastVars, trimVars, lost>>

\* It fails, with its process or alone, and is not tried again.
OutcomeLost(o) ==
    /\ outcomes' = outcomes \ {o}
    /\ UNCHANGED <<queueVars, pass, direct, replay, row, stamp, replays, hasCache,
                   pastVars, trimVars, lost>>

-----------------------------------------------------------------------------
(* _deliverWithRetries: the path without a cache.                          *)

\* The attempts are counted from 0 and one that is equal to the maximum
\* is still made: retry_attempts retries after the first attempt.
DirectDeliver(h, ok) ==
    /\ direct[h].pc = "post"
    /\ Delivered(h, ok)
    /\ direct' = [direct EXCEPT ![h] =
            IF ok \/ @.attempt >= RetryAttempts
            THEN [@ EXCEPT !.pc = "done"]
            ELSE [pc |-> "post", attempt |-> @.attempt + 1]]
    /\ UNCHANGED <<queueVars, pass, replay, stamp, replays, setVars, trimVars,
                   lost>>

\* The process dies: the payload was in its memory only.
DirectCrash(h) ==
    /\ "crash" \in Faults
    /\ direct[h].pc = "post"
    /\ direct' = [direct EXCEPT ![h].pc = "done"]
    /\ lost' = lost \union {h}
    /\ UNCHANGED <<queueVars, pass, replay, rowVars, stamp, replays, hasCache,
                   pastVars, trimVars>>

-----------------------------------------------------------------------------
(* _process: one pass of the worker.                                       *)

\* LMPOP takes up to Batch payloads, in one command.  (A server without LMPOP is
\* asked for one after the other; that loop is left out.)
Pop(p) ==
    LET n == IF Len(queue) < Batch THEN Len(queue) ELSE Batch
    IN  /\ hasCache
        /\ pass[p].pc = "idle"
        /\ pass' = [pass EXCEPT ![p].pc = "deliver",
                ![p].items = [i \in 1 .. n |-> [load |-> queue[i], st |-> "post"]]]
        /\ queue' = SubSeq(queue, n + 1, Len(queue))
        /\ UNCHANGED <<toQueue, retry, due, dlq, direct, replay, rowVars, stamp,
                       replays, setVars, pastVars, trimVars, lost>>

\* The payloads of a pass are delivered side by side (Promise.all).
Deliver(p, i, ok) ==
    /\ pass[p].items[i].st = "post"
    /\ Delivered(pass[p].items[i].load.hook, ok)
    /\ pass' = [pass EXCEPT ![p].items[i].st = IF ok THEN "done" ELSE "failed"]
    /\ UNCHANGED <<queueVars, direct, replay, stamp, replays, setVars, trimVars,
                   lost>>

\* Mutant: the last retry is one too many.
FileRetryOneMore(p, i) ==
    LET load == pass[p].items[i].load
        again == [load EXCEPT !.attempt = @ + 1]
    IN  /\ pass[p].items[i].st = "failed"
        /\ load.attempt <= RetryAttempts
        /\ retry' = retry \union {again}
        /\ due' = due \ {again}
        /\ pass' = [pass EXCEPT ![p].items[i].st = "done"]
        /\ UNCHANGED <<toQueue, queue, dlq, direct, replay, rowVars, stamp,
                       replays, setVars, pastVars, trimVars, lost>>

\* Mutant: the attempt is not counted.
FileRetryUncounted(p, i) ==
    LET load == pass[p].items[i].load
    IN  /\ pass[p].items[i].st = "failed"
        /\ load.attempt < RetryAttempts
        /\ retry' = retry \union {load}
        /\ due' = due \ {load}
        /\ pass' = [pass EXCEPT ![p].items[i].st = "done"]
        /\ UNCHANGED <<toQueue, queue, dlq, direct, replay, rowVars, stamp,
                       replays, setVars, pastVars, trimVars, lost>>

\* Retries left: ZADD.  A member that is there already only gets the new
\* score, so it is not due any more.
FileRetry(p, i) ==
    LET load == pass[p].items[i].load
        again == [load EXCEPT !.attempt = @ + 1]
    IN  /\ pass[p].items[i].st = "failed"
        /\ load.attempt < RetryAttempts
        /\ retry' = retry \union {again}
        /\ due' = due \ {again}
        /\ pass' = [pass EXCEPT ![p].items[i].st = "done"]
        /\ UNCHANGED <<toQueue, queue, dlq, direct, replay, rowVars, stamp,
                       replays, setVars, pastVars, trimVars, lost>>

\* Retries exhausted: LPUSH on the dead-letter list ...
DeadLetter(p, i) ==
    LET load == pass[p].items[i].load
    IN  /\ pass[p].items[i].st = "failed"
        /\ load.attempt >= RetryAttempts
        /\ dlq' = <<[hook |-> load.hook, stamp |-> stamp]>> \o dlq
        /\ stamp' = stamp + 1
        /\ pass' = [pass EXCEPT ![p].items[i].st = "trim"]
        /\ UNCHANGED <<toQueue, queue, retry, due, direct, replay, rowVars,
                       replays, setVars, pastVars, trimVars, lost>>

\* Mutant: LTRIM 0 DLQ_MAX, which keeps one more.
TrimOneMore(p, i) ==
    /\ pass[p].items[i].st = "trim"
    /\ dlq' = SubSeq(dlq, 1, IF Len(dlq) < DlqMax + 1 THEN Len(dlq) ELSE DlqMax + 1)
    /\ trimmed' = trimmed \union {dlq[k].hook : k \in (DlqMax + 2) .. Len(dlq)}
    /\ untrimmed' = 0
    /\ pass' = [pass EXCEPT ![p].items[i].st = "done"]
    /\ UNCHANGED <<toQueue, queue, retry, due, direct, replay, rowVars, stamp,
                   replays, setVars, pastVars, lost>>

\* ... and LTRIM to the newest DlqMax, a command of its own.
Trim(p, i) ==
    /\ pass[p].items[i].st = "trim"
    /\ dlq' = SubSeq(dlq, 1, IF Len(dlq) < DlqMax THEN Len(dlq) ELSE DlqMax)
    /\ trimmed' = trimmed \union {dlq[k].hook : k \in (DlqMax + 1) .. Len(dlq)}
    /\ untrimmed' = 0
    /\ pass' = [pass EXCEPT ![p].items[i].st = "done"]
    /\ UNCHANGED <<toQueue, queue, retry, due, direct, replay, rowVars, stamp,
                   replays, setVars, pastVars, lost>>

\* The cache refuses the ZADD or the LPUSH of a failed payload, which is
\* gone then.  The first rejects the pass, the second is caught and logged.
FilingFails(p, i) ==
    LET load == pass[p].items[i].load
    IN  /\ "cacheError" \in Faults
        /\ pass[p].items[i].st = "failed"
        /\ lost' = lost \union {load.hook}
        /\ pass' = [pass EXCEPT ![p].items[i].st = "done",
                ![p].pc = IF load.attempt < RetryAttempts THEN "broken" ELSE @]
        /\ UNCHANGED <<queueVars, direct, replay, rowVars, stamp, replays,
                       hasCache, pastVars, trimVars>>

\* It refuses the LTRIM, which is caught and logged too.
TrimFails(p, i) ==
    /\ "cacheError" \in Faults
    /\ pass[p].items[i].st = "trim"
    /\ untrimmed' = untrimmed + 1
    /\ pass' = [pass EXCEPT ![p].items[i].st = "done"]
    /\ UNCHANGED <<queueVars, direct, replay, rowVars, stamp, replays, hasCache,
                   pastVars, trimmed, lost>>

\* The payloads of a rejected pass go on; what is due it never reads.
PassBroken(p) ==
    /\ pass[p].pc = "broken"
    /\ \A i \in DOMAIN pass[p].items : pass[p].items[i].st = "done"
    /\ pass' = [pass EXCEPT ![p] = Idle]
    /\ UNCHANGED <<queueVars, direct, replay, rowVars, stamp, replays, setVars,
                   pastVars, trimVars, lost>>

\* Mutant: the retries that are due are never read.
ReadDueNever(p) ==
    /\ pass[p].pc = "deliver"
    /\ \A i \in DOMAIN pass[p].items : pass[p].items[i].st = "done"
    /\ pass' = [pass EXCEPT ![p] = Idle]
    /\ UNCHANGED <<queueVars, direct, replay, rowVars, stamp, replays, setVars,
                   pastVars, trimVars, lost>>

\* Once every payload is finished with, ZRANGEBYSCORE reads what is due,
\* lowest score first and at most Batch of it.
ReadDue(p) ==
    /\ pass[p].pc = "deliver"
    /\ \A i \in DOMAIN pass[p].items : pass[p].items[i].st = "done"
    /\ \E read \in SUBSET due :
          /\ Cardinality(read) = IF Cardinality(due) < Batch THEN Cardinality(due) ELSE Batch
          /\ pass' = [pass EXCEPT ![p] =
                IF read = {} THEN Idle ELSE [Idle EXCEPT !.pc = "due", !.due = read]]
    /\ UNCHANGED <<queueVars, direct, replay, rowVars, stamp, replays, setVars,
                   pastVars, trimVars, lost>>

\* What a pass goes on to after one of the retries it read.
AfterDue(p, rest) == [pass EXCEPT ![p] =
    IF rest = {} THEN Idle ELSE [Idle EXCEPT !.pc = "due", !.due = rest]]

\* Mutant: the answer of ZREM is not read.
ClaimDueUnread(p, load) ==
    /\ pass[p].pc = "due"
    /\ load \in pass[p].due
    /\ retry' = retry \ {load} /\ due' = due \ {load}
    /\ pass' = [pass EXCEPT ![p].pc = "push", ![p].claimed = <<load>>,
                            ![p].due = @ \ {load}]
    /\ UNCHANGED <<toQueue, queue, dlq, direct, replay, rowVars, stamp, replays,
                   setVars, pastVars, trimVars, lost>>

\* ZREM is the claim: its answer says whether this pass removed the member.
ClaimDue(p, load) ==
    /\ pass[p].pc = "due"
    /\ load \in pass[p].due /\ load \in retry
    /\ retry' = retry \ {load} /\ due' = due \ {load}
    /\ pass' = [pass EXCEPT ![p].pc = "push", ![p].claimed = <<load>>,
                            ![p].due = @ \ {load}]
    /\ UNCHANGED <<toQueue, queue, dlq, direct, replay, rowVars, stamp, replays,
                   setVars, pastVars, trimVars, lost>>

\* It answers 0: another pass owns this one.
ClaimMissed(p, load) ==
    /\ pass[p].pc = "due"
    /\ load \in pass[p].due /\ load \notin retry
    /\ pass' = AfterDue(p, pass[p].due \ {load})
    /\ UNCHANGED <<queueVars, direct, replay, rowVars, stamp, replays, setVars,
                   pastVars, trimVars, lost>>

\* RPUSH of the claimed retry.  Like every command it is carried out once: a client
\* that resends one whose answer it lost is left out.
PushDue(p) ==
    /\ pass[p].pc = "push"
    /\ queue' = queue \o pass[p].claimed
    /\ pass' = AfterDue(p, pass[p].due)
    /\ UNCHANGED <<toQueue, retry, due, dlq, direct, replay, rowVars, stamp,
                   replays, setVars, pastVars, trimVars, lost>>

\* The clock passes the score of a retry: 1s, 2s, 4s after its failure.
ComesDue(load) ==
    /\ load \in retry \ due
    /\ due' = due \union {load}
    /\ UNCHANGED <<toQueue, queue, retry, dlq, pass, direct, replay, rowVars,
                   stamp, replays, setVars, pastVars, trimVars, lost>>

\* What a pass has taken off the cache and not put back.
Holds(p) ==
    {pass[p].items[i].load.hook :
        i \in {j \in DOMAIN pass[p].items : pass[p].items[j].st \in {"post", "failed"}}}
    \union {pass[p].claimed[i].hook : i \in DOMAIN pass[p].claimed}

\* The payloads it has dead-lettered and not trimmed for.
Untrimmed(p) == {i \in DOMAIN pass[p].items : pass[p].items[i].st = "trim"}

\* The process dies in the middle of a pass, or the cache refuses ZREM or
\* RPUSH, which rejects it.
PassDies(p) ==
    /\ \/ "crash" \in Faults /\ pass[p].pc # "idle"
       \/ "cacheError" \in Faults /\ pass[p].pc \in {"due", "push"}
    /\ lost' = lost \union Holds(p)
    /\ pass' = [pass EXCEPT ![p] = Idle]
    /\ untrimmed' = untrimmed + Cardinality(Untrimmed(p))
    /\ UNCHANGED <<queueVars, direct, replay, rowVars, stamp, replays, hasCache,
                   pastVars, trimmed>>

-----------------------------------------------------------------------------
(* POST /dlq/replay                                                        *)

\* LRANGE 0 -1.
ReplayRead(r) ==
    /\ hasCache
    /\ replay[r].pc = "none" /\ replays < MaxReplays
    /\ dlq # <<>>
    /\ replay' = [replay EXCEPT ![r] = [pc |-> "push", raw |-> dlq]]
    /\ replays' = replays + 1
    /\ UNCHANGED <<queueVars, pass, direct, rowVars, stamp, setVars, pastVars,
                   trimVars, lost>>

\* RPUSH of the next entry, with the whole retry budget ...
ReplayPush(r) ==
    /\ replay[r].pc = "push"
    /\ queue' = Append(queue, [hook |-> Head(replay[r].raw).hook, attempt |-> 0])
    /\ replay' = [replay EXCEPT ![r].pc = "remove"]
    /\ UNCHANGED <<toQueue, retry, due, dlq, pass, direct, rowVars, stamp,
                   replays, setVars, pastVars, trimVars, lost>>

\* LREM 1: the first e of s goes, and s stays as it is when there is none.
FirstRemoved(s, e) ==
    IF \E n \in DOMAIN s : s[n] = e
    THEN LET n == CHOOSE n \in DOMAIN s : s[n] = e /\ \A m \in 1 .. n - 1 : s[m] # e
         IN  [k \in 1 .. Len(s) - 1 |-> IF k < n THEN s[k] ELSE s[k + 1]]
    ELSE s

\* ... then LREM 1 of it, whose answer is not read.
ReplayRemove(r) ==
    LET rest == Tail(replay[r].raw)
    IN  /\ replay[r].pc = "remove"
        /\ dlq' = FirstRemoved(dlq, Head(replay[r].raw))
        /\ replay' = [replay EXCEPT ![r] =
                IF rest = <<>> THEN NoReplay ELSE [pc |-> "push", raw |-> rest]]
        /\ UNCHANGED <<toQueue, queue, retry, due, pass, direct, rowVars, stamp,
                       replays, setVars, pastVars, trimVars, lost>>

\* The request ends half way.  Between the two commands it leaves its entry
\* both queued and listed ("torn").
ReplayStops(r) ==
    /\ Faults # {}
    /\ replay[r].pc \in {"push", "remove"}
    /\ replay' = [replay EXCEPT ![r] =
            IF @.pc = "push" THEN NoReplay ELSE [@ EXCEPT !.pc = "torn"]]
    /\ UNCHANGED <<queueVars, pass, direct, rowVars, stamp, replays, hasCache,
                   pastVars, trimVars, lost>>

-----------------------------------------------------------------------------

Trigger == \E h \in Hooks : TriggerNext(h)

Direct(h) == \E ok \in BOOLEAN : DirectDeliver(h, ok)

Item(p, i) ==
    \/ FileRetry(p, i) \/ DeadLetter(p, i) \/ Trim(p, i)
    \/ \E ok \in BOOLEAN : Deliver(p, i, ok)

Process(p) ==
    \/ Pop(p) \/ ReadDue(p) \/ PushDue(p) \/ PassBroken(p)
    \/ \E i \in DOMAIN pass[p].items : Item(p, i)
    \/ \E load \in pass[p].due : ClaimDue(p, load) \/ ClaimMissed(p, load)

Replay(r) == ReplayRead(r) \/ ReplayPush(r) \/ ReplayRemove(r)

Fault ==
    /\ faults < MaxFaults
    /\ faults' = faults + 1
    /\ \/ TriggerFails
       \/ \E h \in Hooks : DirectCrash(h)
       \/ \E p \in Passes :
             \/ PassDies(p)
             \/ \E i \in DOMAIN pass[p].items : FilingFails(p, i) \/ TrimFails(p, i)
       \/ \E r \in Replayers : ReplayStops(r)
       \/ \E o \in outcomes : OutcomeLost(o)

\* Without a cache nothing is polled for: all is delivered or given up.
Terminated ==
    /\ ~hasCache /\ toQueue = {} /\ outcomes = {}
    /\ \A h \in Hooks : direct[h].pc \in {"none", "done"}
    /\ UNCHANGED vars

Next ==
    \/ Trigger
    \/ \E h \in Hooks : Direct(h)
    \/ \E p \in Passes : Process(p)
    \/ \E r \in Replayers : Replay(r)
    \/ \E o \in outcomes : RecordOutcome(o)
    \/ \E load \in retry : ComesDue(load)
    \/ Fault
    \/ Terminated

Spec == Init /\ [][Next]_vars

\* The loops go on: the trigger's, every pass the timer started and the
\* passes it will start, the replays begun; a POST is answered or times out
\* (AbortSignal.timeout); the clock passes every score.  Nobody has to ask
\* for a replay, and no endpoint has to answer well.
FairSpec ==
    /\ Spec
    /\ WF_vars(Trigger)
    /\ \A h \in Hooks : WF_vars(Direct(h))
    /\ \A p \in Passes : WF_vars(Process(p))
    /\ \A r \in Replayers : WF_vars(ReplayPush(r) \/ ReplayRemove(r))
    /\ WF_vars(\E load \in retry : ComesDue(load))

-----------------------------------------------------------------------------
(* Properties.                                                             *)

Entry == [hook : Hooks, stamp : Nat]

\* The type of the state.
TypeOK ==
    /\ toQueue \subseteq Hooks
    /\ queue \in Seq(Payload)
    /\ due \subseteq retry /\ retry \subseteq Payload
    /\ dlq \in Seq(Entry)
    /\ pass \in [Passes -> [pc : {"idle", "deliver", "broken", "due", "push"},
                             items : Seq([load : Payload, st : ItemState]),
                             due : SUBSET Payload, claimed : Seq(Payload)]]
    /\ direct \in [Hooks -> [pc : {"none", "post", "done"}, attempt : Attempt]]
    /\ replay \in [Replayers -> [pc : {"none", "push", "remove", "torn"},
                                 raw : Seq(Entry)]]
    /\ outcomes \subseteq [hook : Hooks \ Unlogged, ok : BOOLEAN]
    /\ row \in [Hooks -> BOOLEAN]
    /\ stamp \in Nat /\ replays \in 0 .. MaxReplays /\ hasCache \in BOOLEAN
    /\ faults \in 0 .. MaxFaults
    /\ posts \in [Hooks -> Nat]
    /\ received \subseteq Hooks /\ trimmed \subseteq Hooks /\ lost \subseteq Hooks
    /\ untrimmed \in Nat

\* Is the entry one that a replay has queued and not yet removed?
Replaced(e) ==
    \E r \in Replayers : replay[r].pc \in {"remove", "torn"} /\ Head(replay[r].raw) = e

\* Where the payloads of h are that will still be posted with no one asking.
Travelling(h) ==
    {<<"queue", i>> : i \in {j \in DOMAIN queue : queue[j].hook = h}}
    \union {<<"retry", load.attempt>> : load \in {l \in retry : l.hook = h}}
    \union (UNION {
        {<<"item", p, i>> : i \in {j \in DOMAIN pass[p].items :
             /\ pass[p].items[j].load.hook = h
             /\ pass[p].items[j].st \in {"post", "failed"}}}
        \union {<<"claimed", p>> : i \in {j \in DOMAIN pass[p].claimed :
             pass[p].claimed[j].hook = h}} : p \in Passes})
    \union {<<"direct", k>> : k \in {l \in {h} : direct[l].pc = "post"}}

\* Those, and the dead letters of h that a replay may still queue.
Copies(h) ==
    Travelling(h) \union
    {<<"dlq", i>> : i \in {j \in DOMAIN dlq : dlq[j].hook = h /\ ~Replaced(dlq[j])}}

\* A webhook is one payload, in one place, until its endpoint answers well,
\* and then it is none: no pass of any replica ever makes a second one, for
\* the receiver has no key to tell a repeated delivery by.
OneCopy ==
    \A h \in Hooks :
        Cardinality(Copies(h)) + Cardinality({h} \intersect received) <= 1

\* No payload falls out of the worker: it is delivered, it is on its way,
\* it is a dead letter, or newer dead letters pushed it off the list.  Only
\* a fault takes one.
NothingVanishes ==
    hasCache => \A h \in Hooks \ (toQueue \union received \union trimmed \union lost) :
                    Copies(h) # {}

\* Through every command of every pass and replay a payload is neither doubled
\* nor lost (webhook-worker.ts, POST /dlq/replay).
KeptOnce == OneCopy /\ NothingVanishes

\* The dead-letter list exceeds its maximum by no more than the entries whose
\* LTRIM is still to come, or was lost since the last one.
DlqBounded ==
    Len(dlq) <= DlqMax + untrimmed
        + Cardinality({x \in Passes \X (1 .. Batch) : x[2] \in Untrimmed(x[1])})

\* However passes interleave, a payload is posted once and retried at most
\* RetryAttempts times, for the trigger and again for every replay.
AttemptsBounded ==
    \A h \in Hooks : posts[h] <= (RetryAttempts + 1) * (1 + replays)

\* However often processes and the cache fail, once they do not any more every
\* payload comes to rest: delivered, dead-lettered, given up or lost.
EveryPayloadSettles == <>[](toQueue = {} /\ \A h \in Hooks : Travelling(h) = {})

=============================================================================
