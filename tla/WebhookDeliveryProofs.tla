------------------------ MODULE WebhookDeliveryProofs ------------------------
(***************************************************************************)
(* Proofs about WebhookDelivery, for any number of webhooks, passes,       *)
(* retries, replays and faults.                                            *)
(***************************************************************************)
EXTENDS WebhookDelivery, TLAPS, FiniteSetTheorems, SequenceTheorems, NaturalsInduction,
        WellFoundedInduction

(***************************************************************************)
(* POST /dlq/replay pushes before it removes and does not read the answer  *)
(* of LREM, so two of them at one time queue a dead letter twice: what is  *)
(* said of copies and of attempts holds for one request at a time.         *)
(***************************************************************************)
OneReplayer == \A r, q \in Replayers : r = q

\* The places a webhook's payload can be in.
Kind == {"toQueue", "queue", "retry", "item", "claimed", "direct", "dlq", "received"}

\* Item i of pass p is still to be posted or to be filed.
Live(p, i) ==
    i \in DOMAIN pass[p].items /\ pass[p].items[i].st \in {"post", "failed"}

\* Entry k of what replay r read is still to be queued.
Unpushed(r, k) ==
    /\ k \in DOMAIN replay[r].raw
    /\ replay[r].pc = "push" \/ (replay[r].pc = "remove" /\ k > 1)

\* The webhooks with a payload in each place.
Queued == {h \in Hooks : \E i \in DOMAIN queue : queue[i].hook = h}
Retried == {h \in Hooks : \E l \in retry : l.hook = h}
LiveIn(p) == {h \in Hooks : \E i \in DOMAIN pass[p].items :
                                Live(p, i) /\ pass[p].items[i].load.hook = h}
ClaimedBy(p) == {h \in Hooks : \E i \in DOMAIN pass[p].claimed : pass[p].claimed[i].hook = h}
Listed == {h \in Hooks : \E i \in DOMAIN dlq : dlq[i].hook = h /\ ~Replaced(dlq[i])}

In(h, k) ==
    \/ k = "toQueue" /\ h \in toQueue
    \/ k = "queue" /\ h \in Queued
    \/ k = "retry" /\ h \in Retried
    \/ k = "item" /\ \E p \in Passes : h \in LiveIn(p)
    \/ k = "claimed" /\ \E p \in Passes : h \in ClaimedBy(p)
    \/ k = "direct" /\ direct[h].pc = "post"
    \/ k = "dlq" /\ h \in Listed
    \/ k = "received" /\ h \in received

\* The webhooks a replay has still to queue.
Pending == {h \in Hooks : \E r \in Replayers : \E k \in DOMAIN replay[r].raw :
                              Unpushed(r, k) /\ replay[r].raw[k].hook = h}

\* A payload is in one place; what is to be replayed is a dead letter at most.
Apart ==
    /\ \A h \in Hooks : \A k, m \in Kind : In(h, k) /\ In(h, m) => k = m
    /\ \A h \in Pending : \A k \in Kind : In(h, k) => k = "dlq"

\* With a cache it is somewhere, unless it was trimmed or lost.
Covered == hasCache =>
    \A h \in Hooks : h \in trimmed \/ h \in lost \/ \E k \in Kind : In(h, k)

\* In the place it is in, a payload is once.
QueueOnce == \A i, j \in DOMAIN queue : queue[i].hook = queue[j].hook => i = j
RetryOnce == \A l, m \in retry : l.hook = m.hook => l = m
ItemOnce ==
    \A p, q \in Passes : \A i \in DOMAIN pass[p].items, j \in DOMAIN pass[q].items :
        Live(p, i) /\ Live(q, j) /\ pass[p].items[i].load.hook = pass[q].items[j].load.hook
            => p = q /\ i = j
ClaimOnce ==
    \A p, q \in Passes : \A h \in Hooks : h \in ClaimedBy(p) /\ h \in ClaimedBy(q) => p = q
DlqOnce ==
    /\ \A i, j \in DOMAIN dlq :
          dlq[i].hook = dlq[j].hook /\ ~Replaced(dlq[i]) /\ ~Replaced(dlq[j]) => i = j
    /\ \A i, j \in DOMAIN dlq : dlq[i].stamp = dlq[j].stamp => i = j
    /\ \A i \in DOMAIN dlq : dlq[i].stamp < stamp

\* A replay has every webhook once and, of those that are still listed, the
\* entry that is listed.
RawOnce == \A r \in Replayers :
    /\ \A k, m \in DOMAIN replay[r].raw :
          replay[r].raw[k].hook = replay[r].raw[m].hook => k = m
    /\ \A k \in DOMAIN replay[r].raw : replay[r].raw[k].stamp < stamp
    /\ \A k \in DOMAIN replay[r].raw, i \in DOMAIN dlq :
          Unpushed(r, k) /\ dlq[i].hook = replay[r].raw[k].hook /\ ~Replaced(dlq[i])
              => dlq[i] = replay[r].raw[k]
RawThere == \A r \in Replayers : replay[r].pc # "none" => replay[r].raw # <<>>
DirectOnly == \A h \in Hooks : direct[h].pc # "none" => ~hasCache

\* A pass has a batch of items at most, none before LMPOP and after ZRANGEBYSCORE;
\* it has a claim between ZREM and RPUSH only.
PassKept == \A p \in Passes :
    /\ Len(pass[p].items) <= Batch
    /\ pass[p].pc \in {"deliver", "broken"} \/ Len(pass[p].items) = 0
    /\ Len(pass[p].claimed) <= 1
    /\ pass[p].pc = "push" \/ Len(pass[p].claimed) = 0

\* A payload of h whose attempt is a can be posted until its attempts are used
\* up without exceeding the budget of the trigger and of the replays so far.
Round == RetryAttempts + 1
Budget == Round * (1 + replays)
Fits(h, a) == posts[h] + Round <= Budget + a

PostsFit == \A h \in Hooks : posts[h] <= Budget
TriggerFits == \A h \in toQueue : Fits(h, 0)
QueueFits == \A i \in DOMAIN queue : Fits(queue[i].hook, queue[i].attempt)
RetryFits == \A l \in retry : Fits(l.hook, l.attempt)
ItemFits == \A p \in Passes : \A i \in DOMAIN pass[p].items :
    LET load == pass[p].items[i].load IN
    /\ pass[p].items[i].st = "post" => Fits(load.hook, load.attempt)
    /\ pass[p].items[i].st = "failed" => Fits(load.hook, load.attempt + 1)
ClaimFits == \A p \in Passes : \A i \in DOMAIN pass[p].claimed :
    Fits(pass[p].claimed[i].hook, pass[p].claimed[i].attempt)
DirectFits == \A h \in Hooks : direct[h].pc = "post" => Fits(h, direct[h].attempt)
PendingFits == \A h \in Pending : Fits(h, 0)

Budgeted ==
    /\ PostsFit /\ TriggerFits /\ QueueFits /\ RetryFits /\ ItemFits /\ ClaimFits
    /\ DirectFits /\ PendingFits

Once == QueueOnce /\ RetryOnce /\ ItemOnce /\ ClaimOnce /\ DlqOnce /\ RawOnce /\ DirectOnly

\* The inductive invariant of KeptOnce and AttemptsBounded.
Kept == Apart /\ Covered /\ Once /\ Budgeted
IInv == TypeOK /\ RawThere /\ PassKept /\ Kept

\* The inductive invariant of DlqBounded.
BoundInv == TypeOK /\ RawThere /\ PassKept /\ DlqBounded

-----------------------------------------------------------------------------
(* The passes.                                                             *)

ItemRec == [load : Payload, st : ItemState]
Pass == [pc : {"idle", "deliver", "broken", "due", "push"}, items : Seq(ItemRec),
         due : SUBSET Payload, claimed : Seq(Payload)]

\* A step gives item i of pass p the state st and does nothing else to items
\* and claims; it may break the pass.
ItemMoves(p, i, st) ==
    /\ pass' \in [Passes -> Pass]
    /\ \A q \in Passes :
          /\ pass'[q].due = pass[q].due /\ pass'[q].claimed = pass[q].claimed
          /\ q # p => pass'[q] = pass[q]
          /\ pass'[q].pc \in {pass[q].pc, "broken"}
          /\ DOMAIN pass'[q].items = DOMAIN pass[q].items
          /\ Len(pass'[q].items) = Len(pass[q].items)
          /\ \A j \in DOMAIN pass[q].items :
                /\ pass'[q].items[j].load = pass[q].items[j].load
                /\ pass'[q].items[j].st =
                      IF q = p /\ j = i THEN st ELSE pass[q].items[j].st

\* The update of one item is what ItemMoves says.
LEMMA ItemSet ==
    ASSUME TypeOK, NEW p \in Passes, NEW i \in DOMAIN pass[p].items, NEW st \in ItemState,
           NEW c \in {pass[p].pc, "broken"},
           pass' = [pass EXCEPT ![p] = [pass[p] EXCEPT
                       !.items = [pass[p].items EXCEPT ![i].st = st], !.pc = c]]
    PROVE  ItemMoves(p, i, st)
<1> DEFINE its == pass[p].items
           new == [its EXCEPT ![i].st = st]
<1>1. pass \in [Passes -> Pass] BY DEF TypeOK, Pass, ItemRec
<1>2. pass[p] \in Pass BY <1>1
<1>3. its \in Seq(ItemRec) /\ pass[p].due \in SUBSET Payload /\ pass[p].claimed \in Seq(Payload)
  BY <1>2 DEF Pass
<1>4. i \in 1 .. Len(its) /\ DOMAIN its = 1 .. Len(its) /\ its[i] \in ItemRec
  BY <1>3
<1>5. [its[i] EXCEPT !.st = st] \in ItemRec BY <1>4 DEF ItemRec
<1>6. new = [its EXCEPT ![i] = [its[i] EXCEPT !.st = st]] OBVIOUS
<1>7. /\ new \in Seq(ItemRec) /\ Len(new) = Len(its) /\ DOMAIN new = DOMAIN its
      /\ \A j \in DOMAIN its : new[j] = IF j = i THEN [its[i] EXCEPT !.st = st] ELSE its[j]
  BY <1>3, <1>4, <1>5, <1>6, ExceptSeq, LenProperties
<1>8. \A j \in DOMAIN its : /\ new[j].load = its[j].load
                            /\ new[j].st = IF j = i THEN st ELSE its[j].st
  BY <1>3, <1>4, <1>7, ElementOfSeq DEF ItemRec
<1>9. pass' = [pass EXCEPT ![p] = [pass[p] EXCEPT !.items = new, !.pc = c]] OBVIOUS
<1> HIDE DEF new
<1>10. [pass[p] EXCEPT !.items = new, !.pc = c] \in Pass
  <2>1. c \in {"idle", "deliver", "broken", "due", "push"} BY <1>2 DEF Pass
  <2> QED BY <1>2, <1>7, <2>1 DEF Pass
<1>11. pass' \in [Passes -> Pass] BY <1>1, <1>9, <1>10
<1>12. \A q \in Passes : q # p => pass'[q] = pass[q] BY <1>1, <1>9
<1>13. pass'[p] = [pass[p] EXCEPT !.items = new, !.pc = c] BY <1>1, <1>9
<1>14. /\ pass'[p].due = pass[p].due /\ pass'[p].claimed = pass[p].claimed
       /\ pass'[p].items = new
       /\ pass'[p].pc = c
  BY <1>2, <1>13 DEF Pass
<1> QED BY <1>7, <1>8, <1>11, <1>12, <1>14 DEF ItemMoves

\* So it is of the actions that touch the item alone ...
LEMMA ItemUpdate ==
    ASSUME TypeOK, NEW p \in Passes, NEW i \in DOMAIN pass[p].items, NEW st \in ItemState,
           pass' = [pass EXCEPT ![p].items[i].st = st]
    PROVE  ItemMoves(p, i, st)
<1>1. pass \in [Passes -> Pass] BY DEF TypeOK, Pass, ItemRec
<1>2. pass[p] \in Pass BY <1>1
<1> DEFINE new == [pass[p].items EXCEPT ![i].st = st]
<1>3. pass' = [pass EXCEPT ![p] = [pass[p] EXCEPT !.items = new]] OBVIOUS
<1> HIDE DEF new
<1>4. [pass[p] EXCEPT !.items = new] = [pass[p] EXCEPT !.items = new, !.pc = pass[p].pc]
  BY <1>2 DEF Pass
<1>5. pass[p].pc \in {pass[p].pc, "broken"} OBVIOUS
<1> QED BY <1>3, <1>4, <1>5, ItemSet DEF new

\* ... and of the one that changes the pc with it.
LEMMA ItemUpdateBreaks ==
    ASSUME TypeOK, NEW p \in Passes, NEW i \in DOMAIN pass[p].items, NEW st \in ItemState,
           NEW b \in BOOLEAN,
           pass' = [pass EXCEPT ![p].items[i].st = st, ![p].pc = IF b THEN "broken" ELSE @]
    PROVE  ItemMoves(p, i, st)
<1>1. pass \in [Passes -> Pass] BY DEF TypeOK, Pass, ItemRec
<1>2. pass[p] \in Pass BY <1>1
<1> DEFINE new == [pass[p].items EXCEPT ![i].st = st]
           c == IF b THEN "broken" ELSE pass[p].pc
<1>3. pass' = [pass EXCEPT ![p] = [pass[p] EXCEPT !.items = new, !.pc = c]]
  BY <1>1
<1>4. c \in {pass[p].pc, "broken"} OBVIOUS
<1> HIDE DEF new, c
<1> QED BY <1>3, <1>4, ItemSet DEF new

\* A step puts record w in the place of pass p.
LEMMA PassSet ==
    ASSUME TypeOK, NEW p \in Passes, NEW w \in Pass, pass' = [pass EXCEPT ![p] = w]
    PROVE  /\ pass' \in [Passes -> Pass]
           /\ pass'[p] = w /\ \A q \in Passes : q # p => pass'[q] = pass[q]
BY DEF TypeOK, Pass, ItemRec

\* What a pass may be reset to.
LEMMA PassKinds ==
    /\ Idle \in Pass
    /\ \A d \in SUBSET Payload : [Idle EXCEPT !.pc = "due", !.due = d] \in Pass
BY EmptySeq DEF Idle, Pass

\* LMPOP: what is popped becomes the items of the pass, the rest stays queued.
LEMMA Popped ==
    ASSUME TypeOK, DeliveryAssumption, NEW p \in Passes, Pop(p)
    PROVE  \E n \in 0 .. Len(queue) :
             /\ n <= Batch
             /\ pass'[p].items \in Seq(ItemRec)
             /\ pass' = [pass EXCEPT ![p] = [pass[p] EXCEPT !.pc = "deliver", !.items = pass'[p].items]]
             /\ Len(pass'[p].items) = n /\ DOMAIN pass'[p].items = 1 .. n
             /\ \A i \in 1 .. n : /\ pass'[p].items[i].load = queue[i]
                                  /\ pass'[p].items[i].st = "post"
             /\ queue' \in Seq(Payload) /\ Len(queue') = Len(queue) - n
             /\ \A i \in 1 .. Len(queue) - n : queue'[i] = queue[i + n]
<1> DEFINE n == IF Len(queue) < Batch THEN Len(queue) ELSE Batch
           its == [i \in 1 .. n |-> [load |-> queue[i], st |-> "post"]]
<1>1. queue \in Seq(Payload) /\ Batch \in Nat BY DEF TypeOK, DeliveryAssumption
<1>2. n \in 0 .. Len(queue) /\ n <= Batch BY <1>1
<1>3. \A i \in 1 .. Len(queue) : queue[i] \in Payload BY <1>1
<1>4. pass' = [pass EXCEPT ![p].pc = "deliver", ![p].items = its] /\ queue' = SubSeq(queue, n + 1, Len(queue))
  BY DEF Pop
<1> HIDE DEF n
<1>5. \A i \in 1 .. n : [load |-> queue[i], st |-> "post"] \in ItemRec
  BY <1>2, <1>3 DEF ItemRec, ItemState
<1>6. its \in Seq(ItemRec) /\ Len(its) = n /\ DOMAIN its = 1 .. n
  BY <1>2, <1>5
<1>7. \A i \in 1 .. n : its[i].load = queue[i] /\ its[i].st = "post" OBVIOUS
<1> HIDE DEF its
<1>8. pass \in [Passes -> Pass] BY DEF TypeOK, Pass, ItemRec
<1>9. pass' = [pass EXCEPT ![p] = [pass[p] EXCEPT !.pc = "deliver", !.items = its]]
  BY <1>4, <1>8
<1>10. [pass[p] EXCEPT !.pc = "deliver", !.items = its].items = its
  BY <1>8 DEF Pass
<1>11. pass'[p].items = its BY <1>8, <1>9, <1>10
<1>12. /\ queue' \in Seq(Payload) /\ Len(queue') = Len(queue) - n
       /\ \A i \in 1 .. Len(queue) - n : queue'[i] = queue[i + n]
  <2>1. \A i \in n + 1 .. Len(queue) : queue[i] \in Payload BY <1>2, <1>3
  <2>2. /\ SubSeq(queue, n + 1, Len(queue)) \in Seq(Payload)
        /\ Len(SubSeq(queue, n + 1, Len(queue))) =
              IF n + 1 <= Len(queue) THEN Len(queue) - (n + 1) + 1 ELSE 0
        /\ \A i \in 1 .. Len(queue) - (n + 1) + 1 :
              SubSeq(queue, n + 1, Len(queue))[i] = queue[n + 1 + i - 1]
    BY <1>1, <1>2, <2>1, SubSeqProperties
  <2>3. Len(queue) \in Nat /\ n \in Nat BY <1>1, <1>2
  <2> QED BY <1>2, <1>4, <2>2, <2>3
<1>13. /\ pass'[p].items \in Seq(ItemRec)
       /\ Len(pass'[p].items) = n /\ DOMAIN pass'[p].items = 1 .. n
  BY <1>6, <1>11
<1>14. \A i \in 1 .. n : pass'[p].items[i].load = queue[i] /\ pass'[p].items[i].st = "post"
  BY <1>7, <1>11
<1>15. pass' = [pass EXCEPT ![p] = [pass[p] EXCEPT !.pc = "deliver", !.items = pass'[p].items]]
  BY <1>9, <1>11
<1> QED BY ZenonT(60), <1>2, <1>12, <1>13, <1>14, <1>15

\* What LREM 1 of e leaves of s, and f says where in s it was: all that is
\* not e, and, when e is there at most once, nothing else.
Leaves(s, e, f) ==
    /\ f \in [DOMAIN FirstRemoved(s, e) -> DOMAIN s]
    /\ \A i \in DOMAIN FirstRemoved(s, e) : FirstRemoved(s, e)[i] = s[f[i]]
    /\ \A i, j \in DOMAIN FirstRemoved(s, e) : f[i] = f[j] => i = j
    /\ \A k \in DOMAIN s : s[k] # e => \E i \in DOMAIN FirstRemoved(s, e) : f[i] = k
    /\ (\A k, m \in DOMAIN s : s[k] = e /\ s[m] = e => k = m)
          => \A i \in DOMAIN FirstRemoved(s, e) : s[f[i]] # e

LEMMA Removed ==
    ASSUME NEW S, NEW s \in Seq(S), NEW e
    PROVE  /\ FirstRemoved(s, e) \in Seq(S)
           /\ Len(FirstRemoved(s, e)) <= Len(s)
           /\ \E f : Leaves(s, e, f)
<1>1. CASE ~ \E n \in DOMAIN s : s[n] = e
  <2>1. FirstRemoved(s, e) = s BY <1>1 DEF FirstRemoved
  <2> DEFINE g == [i \in DOMAIN s |-> i]
  <2>2. g \in [DOMAIN s -> DOMAIN s] /\ \A i \in DOMAIN s : g[i] = i OBVIOUS
  <2> HIDE DEF g
  <2>3. /\ \A i \in DOMAIN s : s[i] = s[g[i]]
        /\ \A i, j \in DOMAIN s : g[i] = g[j] => i = j
        /\ \A k \in DOMAIN s : s[k] # e => \E i \in DOMAIN s : g[i] = k
        /\ \A i \in DOMAIN s : s[g[i]] # e
    BY <1>1, <2>2
  <2>4. Len(s) <= Len(s) BY LenProperties
  <2>5. Leaves(s, e, g) BY <2>1, <2>2, <2>3 DEF Leaves
  <2> QED BY <2>1, <2>4, <2>5
<1>2. CASE \E n \in DOMAIN s : s[n] = e
  <2> DEFINE D == {n \in DOMAIN s : s[n] = e}
             n == CHOOSE n \in DOMAIN s : s[n] = e /\ \A m \in 1 .. n - 1 : s[m] # e
             r == FirstRemoved(s, e)
             L == Len(s) - 1
             f == [i \in 1 .. L |-> IF i < n THEN i ELSE i + 1]
  <2>1. DOMAIN s = 1 .. Len(s) /\ Len(s) \in Nat /\ \A k \in 1 .. Len(s) : s[k] \in S OBVIOUS
  <2>2. \E k \in D : \A m \in D : k <= m
    <3>1. D \subseteq Nat /\ D # {} BY <1>2, <2>1
    <3>2. PICK k \in D : \A m \in D : ~ (<<m, k>> \in OpToRel(<, Nat))
      BY <3>1, WFMin, NatLessThanWellFounded
    <3>3. \A m \in D : m \in Nat BY <3>1
    <3>4. \A m \in D : ~ (m < k) BY <3>2, <3>3 DEF OpToRel
    <3> QED BY <3>3, <3>4
  <2>3. n \in DOMAIN s /\ s[n] = e /\ \A m \in 1 .. n - 1 : s[m] # e
    <3>1. \E k \in DOMAIN s : s[k] = e /\ \A m \in 1 .. k - 1 : s[m] # e
      BY <2>1, <2>2
    <3> QED BY <3>1
  <2>4. r = [k \in 1 .. L |-> IF k < n THEN s[k] ELSE s[k + 1]]
    BY <1>2 DEF FirstRemoved
  <2> HIDE DEF n, r
  <2>5. n \in 1 .. Len(s) /\ L \in Nat BY <2>1, <2>3
  <2>6. \A k \in 1 .. L : (IF k < n THEN s[k] ELSE s[k + 1]) \in S BY <2>1, <2>5
  <2>7. r \in Seq(S) /\ Len(r) = L /\ DOMAIN r = 1 .. L BY <2>4, <2>5, <2>6
  <2>8. f \in [1 .. L -> DOMAIN s] BY <2>1, <2>5
  <2>9. \A i \in 1 .. L : r[i] = s[f[i]] BY <2>4
  <2>10. \A i, j \in 1 .. L : f[i] = f[j] => i = j BY <2>5
  <2>11. \A k \in DOMAIN s : s[k] # e => \E i \in 1 .. L : f[i] = k
    <3> SUFFICES ASSUME NEW k \in DOMAIN s, s[k] # e PROVE \E i \in 1 .. L : f[i] = k
      OBVIOUS
    <3>1. CASE k < n BY <3>1, <2>1, <2>5
    <3>2. CASE k > n
      <4>1. k - 1 \in 1 .. L /\ f[k - 1] = k BY <3>2, <2>1, <2>5
      <4> QED BY <4>1
    <3>3. k # n BY <2>3
    <3> QED BY <3>1, <3>2, <3>3, <2>1, <2>5
  <2>12. \A i \in 1 .. L : f[i] # n BY <2>5
  <2> HIDE DEF f, L
  <2>13. (\A k, m \in DOMAIN s : s[k] = e /\ s[m] = e => k = m)
            => \A i \in 1 .. L : s[f[i]] # e
    BY <2>3, <2>8, <2>12
  <2>14. Len(r) <= Len(s) BY <2>1, <2>7 DEF L
  <2>15. FirstRemoved(s, e) = r BY DEF r
  <2>16. f \in [DOMAIN r -> DOMAIN s] BY <2>7, <2>8
  <2>17. \A i \in DOMAIN r : i \in 1 .. L BY <2>7
  <2>18. \A k \in DOMAIN s : s[k] # e => \E i \in DOMAIN r : f[i] = k BY <2>7, <2>11
  <2> HIDE DEF r
  <2>19. Leaves(s, e, f)
    <3>1. /\ \A i \in DOMAIN r : r[i] = s[f[i]]
          /\ \A i, j \in DOMAIN r : f[i] = f[j] => i = j
          /\ (\A k, m \in DOMAIN s : s[k] = e /\ s[m] = e => k = m)
                => \A i \in DOMAIN r : s[f[i]] # e
      BY <2>9, <2>10, <2>13, <2>17
    <3> QED BY <2>15, <2>16, <2>18, <3>1 DEF Leaves
  <2> QED BY <2>7, <2>14, <2>15, <2>19
<1> QED BY <1>1, <1>2

-----------------------------------------------------------------------------
(* Types.                                                                  *)

LEMMA InitType == ASSUME DeliveryAssumption, Init PROVE TypeOK
<1>1. <<>> \in Seq(Payload) /\ <<>> \in Seq(Entry) /\ <<>> \in Seq(ItemRec) BY EmptySeq
<1>2. pass \in [Passes -> Pass] BY PassKinds DEF Init
<1>3. replay \in [Replayers -> [pc : {"none", "push", "remove", "torn"}, raw : Seq(Entry)]]
  BY <1>1 DEF Init, NoReplay
<1>4. direct \in [Hooks -> [pc : {"none", "post", "done"}, attempt : Attempt]]
  BY DEF Init, NoDelivery, Attempt, DeliveryAssumption
<1>5. pass \in [Passes -> [pc : {"idle", "deliver", "broken", "due", "push"},
                         items : Seq([load : Payload, st : ItemState]),
                         due : SUBSET Payload, claimed : Seq(Payload)]]
  BY <1>2 DEF Pass, ItemRec
<1>6. toQueue \subseteq Hooks /\ due \subseteq retry /\ retry \subseteq Payload
  BY DEF Init
<1>7. outcomes \subseteq [hook : Hooks \ Unlogged, ok : BOOLEAN] /\ row \in [Hooks -> BOOLEAN]
  BY DEF Init
<1>8. stamp \in Nat /\ replays \in 0 .. MaxReplays /\ hasCache \in BOOLEAN /\ faults \in 0 .. MaxFaults
  BY DEF Init, DeliveryAssumption
<1>9. /\ posts \in [Hooks -> Nat] /\ untrimmed \in Nat
      /\ received \subseteq Hooks /\ trimmed \subseteq Hooks /\ lost \subseteq Hooks
  BY DEF Init
<1>10. queue \in Seq(Payload) /\ dlq \in Seq(Entry) BY <1>1 DEF Init
<1> QED BY <1>3, <1>4, <1>5, <1>6, <1>7, <1>8, <1>9, <1>10 DEF TypeOK

\* What the variables a step leaves alone keep of their types.
LEMMA PayloadOf ==
    ASSUME TypeOK, NEW p \in Passes, NEW i \in DOMAIN pass[p].items
    PROVE  /\ pass[p].items[i] \in ItemRec
           /\ pass[p].items[i].load \in Payload
           /\ pass[p].items[i].load.hook \in Hooks
           /\ pass[p].items[i].load.attempt \in Attempt
<1>1. pass[p] \in Pass BY DEF TypeOK, Pass, ItemRec
<1>2. pass[p].items \in Seq(ItemRec) BY <1>1 DEF Pass
<1>3. pass[p].items[i] \in ItemRec BY <1>2, ElementOfSeq, LenProperties
<1> QED BY <1>3 DEF ItemRec, Payload

\* FilingFails, for what it does to the pass.
LEMMA FilingMoves ==
    ASSUME TypeOK, NEW p \in Passes, NEW i \in DOMAIN pass[p].items, FilingFails(p, i)
    PROVE  ItemMoves(p, i, "done")
<1> DEFINE b == pass[p].items[i].load.attempt < RetryAttempts
<1>1. pass' = [pass EXCEPT ![p].items[i].st = "done", ![p].pc = IF b THEN "broken" ELSE @]
  BY DEF FilingFails
<1>2. b \in BOOLEAN OBVIOUS
<1> HIDE DEF b
<1> QED BY <1>1, <1>2, ItemUpdateBreaks DEF ItemState

\* The dead letters a pass has not trimmed for are finitely many.
LEMMA UntrimmedFinite ==
    ASSUME TypeOK, NEW p \in Passes PROVE IsFiniteSet(Untrimmed(p))
<1>1. pass[p].items \in Seq(ItemRec) BY DEF TypeOK, ItemRec
<1>2. DOMAIN pass[p].items = 1 .. Len(pass[p].items) /\ Len(pass[p].items) \in Nat
  BY <1>1, LenProperties
<1>3. IsFiniteSet(1 .. Len(pass[p].items)) BY <1>2, FS_Interval
<1>4. Untrimmed(p) \subseteq 1 .. Len(pass[p].items) BY <1>2 DEF Untrimmed
<1> QED BY <1>3, <1>4, FS_Subset

LEMMA DeliveredType ==
    ASSUME TypeOK, NEW h \in Hooks, NEW ok \in BOOLEAN, Delivered(h, ok)
    PROVE  /\ posts' \in [Hooks -> Nat] /\ received' \subseteq Hooks
           /\ outcomes' \subseteq [hook : Hooks \ Unlogged, ok : BOOLEAN]
           /\ row' \in [Hooks -> BOOLEAN]
<1>1. posts \in [Hooks -> Nat] /\ received \subseteq Hooks /\ row \in [Hooks -> BOOLEAN]
      /\ outcomes \subseteq [hook : Hooks \ Unlogged, ok : BOOLEAN]
  BY DEF TypeOK
<1>2. posts' \in [Hooks -> Nat] BY <1>1 DEF Delivered
<1>3. received' \subseteq Hooks BY <1>1 DEF Delivered
<1>4. outcomes' \subseteq [hook : Hooks \ Unlogged, ok : BOOLEAN] BY <1>1 DEF Delivered
<1>5. row' \in [Hooks -> BOOLEAN] BY <1>1 DEF Delivered
<1> QED BY <1>2, <1>3, <1>4, <1>5

\* Every step keeps the types.
LEMMA TypeStep ==
    ASSUME DeliveryAssumption, TypeOK, RawThere, [Next]_vars
    PROVE  TypeOK'
<1> USE DEF TypeOK
<1>0. pass \in [Passes -> Pass] /\ (pass' \in [Passes -> Pass] =>
        pass' \in [Passes -> [pc : {"idle", "deliver", "broken", "due", "push"},
                             items : Seq([load : Payload, st : ItemState]),
                             due : SUBSET Payload, claimed : Seq(Payload)]])
  BY DEF Pass, ItemRec
<1>1. ASSUME NEW h \in Hooks, TriggerNext(h) PROVE TypeOK'
  <2>1. [hook |-> h, attempt |-> 0] \in Payload BY DEF Payload, Attempt, DeliveryAssumption
  <2>2. direct' \in [Hooks -> [pc : {"none", "post", "done"}, attempt : Attempt]]
    <3>0. direct[h] \in [pc : {"none", "post", "done"}, attempt : Attempt] OBVIOUS
    <3>1. [direct[h] EXCEPT !.pc = "post"] \in [pc : {"none", "post", "done"}, attempt : Attempt]
      BY <3>0
    <3>2. direct' = direct \/ direct' = [direct EXCEPT ![h] = [direct[h] EXCEPT !.pc = "post"]]
      BY <1>1 DEF TriggerNext
    <3> QED BY <3>1, <3>2
  <2>3. queue' \in Seq(Payload)
    <3>1. queue' = queue \/ queue' = Append(queue, [hook |-> h, attempt |-> 0])
      BY <1>1 DEF TriggerNext
    <3>2. Append(queue, [hook |-> h, attempt |-> 0]) \in Seq(Payload)
      BY <2>1, AppendProperties
    <3> QED BY <3>1, <3>2
  <2> QED BY <1>1, <2>2, <2>3 DEF TriggerNext, rowVars, setVars, pastVars, trimVars
<1>2. ASSUME NEW h \in Hooks, NEW ok \in BOOLEAN, DirectDeliver(h, ok) PROVE TypeOK'
  <2>1. direct' \in [Hooks -> [pc : {"none", "post", "done"}, attempt : Attempt]]
    <3>1. direct[h] \in [pc : {"none", "post", "done"}, attempt : Attempt] OBVIOUS
    <3>2. direct[h].attempt < RetryAttempts =>
            [pc |-> "post", attempt |-> direct[h].attempt + 1]
              \in [pc : {"none", "post", "done"}, attempt : Attempt]
      BY <3>1 DEF Attempt, DeliveryAssumption
    <3>3. direct[h].attempt >= RetryAttempts \/ direct[h].attempt < RetryAttempts
      BY <3>1 DEF Attempt, DeliveryAssumption
    <3>4. [direct[h] EXCEPT !.pc = "done"] \in [pc : {"none", "post", "done"}, attempt : Attempt]
      BY <3>1
    <3> QED BY <1>2, <3>2, <3>3, <3>4 DEF DirectDeliver
  <2>2. Delivered(h, ok) BY <1>2 DEF DirectDeliver
  <2>3. /\ posts' \in [Hooks -> Nat] /\ received' \subseteq Hooks
        /\ outcomes' \subseteq [hook : Hooks \ Unlogged, ok : BOOLEAN]
        /\ row' \in [Hooks -> BOOLEAN]
    <3>1. TypeOK OBVIOUS
    <3> HIDE DEF TypeOK
    <3> QED BY <2>2, <3>1, DeliveredType
  <2> QED BY <1>2, <2>1, <2>3 DEF DirectDeliver, queueVars, setVars, trimVars
<1>3. ASSUME NEW p \in Passes, Pop(p) PROVE TypeOK'
  <2>1. PICK n \in 0 .. Len(queue) :
             /\ pass'[p].items \in Seq(ItemRec)
             /\ pass' = [pass EXCEPT ![p] =
                           [pass[p] EXCEPT !.pc = "deliver", !.items = pass'[p].items]]
             /\ queue' \in Seq(Payload)
    BY <1>3, Popped
  <2>2. [pass[p] EXCEPT !.pc = "deliver", !.items = pass'[p].items] \in Pass
    <3> DEFINE its == pass'[p].items
    <3> HIDE DEF its
    <3>1. pass[p] \in Pass BY <1>0
    <3>2. its \in Seq(ItemRec) BY <2>1 DEF its
    <3>3. [pass[p] EXCEPT !.pc = "deliver", !.items = its] \in Pass BY <3>1, <3>2 DEF Pass
    <3> QED BY <3>3 DEF its
  <2>3. pass' \in [Passes -> Pass] BY <1>0, <2>1, <2>2
  <2> QED BY <1>0, <1>3, <2>1, <2>3 DEF Pop, rowVars, setVars, pastVars, trimVars
<1>4. ASSUME NEW p \in Passes, ReadDue(p) PROVE TypeOK'
  <2>1. PICK read \in SUBSET due : pass' = [pass EXCEPT ![p] =
            IF read = {} THEN Idle ELSE [Idle EXCEPT !.pc = "due", !.due = read]]
    BY <1>4 DEF ReadDue
  <2>2. pass' \in [Passes -> Pass] BY <1>0, <2>1, PassKinds
  <2> QED BY <1>0, <1>4, <2>2 DEF ReadDue, queueVars, rowVars, setVars, pastVars, trimVars
<1>5. ASSUME NEW p \in Passes, PushDue(p) PROVE TypeOK'
  <2>1. pass[p] \in Pass BY <1>0
  <2>2. pass[p].claimed \in Seq(Payload) /\ pass[p].due \in SUBSET Payload BY <2>1 DEF Pass
  <2>3. queue' \in Seq(Payload) BY <1>5, <2>2, ConcatProperties DEF PushDue
  <2>4. pass' \in [Passes -> Pass] BY <1>0, <1>5, <2>2, PassKinds DEF PushDue, AfterDue
  <2> QED BY <1>0, <1>5, <2>3, <2>4 DEF PushDue, rowVars, setVars, pastVars, trimVars
<1>6. ASSUME NEW p \in Passes, PassBroken(p) PROVE TypeOK'
  <2>1. pass' \in [Passes -> Pass] BY <1>0, <1>6, PassKinds DEF PassBroken
  <2> QED BY <1>0, <1>6, <2>1 DEF PassBroken, queueVars, rowVars, setVars, pastVars, trimVars
<1>7. ASSUME NEW p \in Passes, NEW i \in DOMAIN pass[p].items, FileRetry(p, i) PROVE TypeOK'
  <2>1. ItemMoves(p, i, "done") BY <1>7, ItemUpdate DEF FileRetry, ItemState
  <2>2. [pass[p].items[i].load EXCEPT !.attempt = @ + 1] \in Payload
    <3> DEFINE load == pass[p].items[i].load
    <3>1. load \in Payload /\ load.attempt \in Attempt BY PayloadOf
    <3>2. load.attempt < RetryAttempts BY <1>7 DEF FileRetry
    <3> HIDE DEF load
    <3>3. load.attempt + 1 \in Attempt BY <3>1, <3>2 DEF Attempt, DeliveryAssumption
    <3>4. [load EXCEPT !.attempt = @ + 1] \in Payload BY <3>1, <3>3 DEF Payload
    <3> QED BY <3>4 DEF load
  <2>3. pass' \in [Passes -> Pass] BY <2>1 DEF ItemMoves
  <2>4. due' \subseteq retry' /\ retry' \subseteq Payload BY <1>7, <2>2 DEF FileRetry
  <2>5. UNCHANGED <<toQueue, queue, dlq, direct, replay, outcomes, row, stamp, replays,
                    hasCache, faults, posts, received, trimmed, untrimmed, lost>>
    BY <1>7 DEF FileRetry, rowVars, setVars, pastVars, trimVars
  <2> QED BY <1>0, <2>3, <2>4, <2>5
<1>8. ASSUME NEW p \in Passes, NEW i \in DOMAIN pass[p].items, DeadLetter(p, i) PROVE TypeOK'
  <2>1. ItemMoves(p, i, "trim") BY <1>8, ItemUpdate DEF DeadLetter, ItemState
  <2>2. [hook |-> pass[p].items[i].load.hook, stamp |-> stamp] \in Entry
    BY PayloadOf DEF Entry
  <2>3. <<[hook |-> pass[p].items[i].load.hook, stamp |-> stamp]>> \in Seq(Entry)
    BY <2>2
  <2>4. dlq' \in Seq(Entry) BY <1>8, <2>3, ConcatProperties DEF DeadLetter
  <2>5. pass' \in [Passes -> Pass] BY <2>1 DEF ItemMoves
  <2>6. stamp' \in Nat BY <1>8 DEF DeadLetter
  <2>7. UNCHANGED <<toQueue, queue, retry, due, direct, replay, outcomes, row, replays,
                    hasCache, faults, posts, received, trimmed, untrimmed, lost>>
    BY <1>8 DEF DeadLetter, rowVars, setVars, pastVars, trimVars
  <2> QED BY <1>0, <2>4, <2>5, <2>6, <2>7
<1>9. ASSUME NEW p \in Passes, NEW i \in DOMAIN pass[p].items, Trim(p, i) PROVE TypeOK'
  <2>1. ItemMoves(p, i, "done") BY <1>9, ItemUpdate DEF Trim, ItemState
  <2>2. \A k \in 1 .. Len(dlq) : dlq[k] \in Entry BY ElementOfSeq
  <2>3. DlqMax \in Nat /\ Len(dlq) \in Nat BY DEF DeliveryAssumption
  <2>4. dlq' \in Seq(Entry) BY <1>9, <2>2, <2>3, SubSeqProperties DEF Trim
  <2>5. trimmed' \subseteq Hooks
    <3>1. \A k \in 1 .. Len(dlq) : dlq[k].hook \in Hooks BY <2>2 DEF Entry
    <3>2. \A k \in (DlqMax + 1) .. Len(dlq) : k \in 1 .. Len(dlq) BY <2>3
    <3> QED BY <1>9, <3>1, <3>2 DEF Trim
  <2> QED BY <1>0, <1>9, <2>1, <2>4, <2>5 DEF ItemMoves, Trim, rowVars, setVars, pastVars
<1>10. ASSUME NEW p \in Passes, NEW i \in DOMAIN pass[p].items, NEW ok \in BOOLEAN,
             Deliver(p, i, ok) PROVE TypeOK'
  <2>1. ItemMoves(p, i, IF ok THEN "done" ELSE "failed")
    BY <1>10, ItemUpdate DEF Deliver, ItemState
  <2>2. pass' \in [Passes -> Pass] BY <2>1 DEF ItemMoves
  <2>3. Delivered(pass[p].items[i].load.hook, ok) BY <1>10 DEF Deliver
  <2>4. /\ posts' \in [Hooks -> Nat] /\ received' \subseteq Hooks
        /\ outcomes' \subseteq [hook : Hooks \ Unlogged, ok : BOOLEAN]
        /\ row' \in [Hooks -> BOOLEAN]
    <3>1. pass[p].items[i].load.hook \in Hooks BY PayloadOf
    <3>2. TypeOK OBVIOUS
    <3> HIDE DEF TypeOK
    <3> QED BY <2>3, <3>1, <3>2, DeliveredType
  <2> QED BY <1>0, <1>10, <2>2, <2>4 DEF Deliver, queueVars, setVars, trimVars
<1>11. ASSUME NEW p \in Passes, NEW load \in pass[p].due, ClaimDue(p, load) PROVE TypeOK'
  <2>1. pass[p] \in Pass /\ load \in Payload /\ <<load>> \in Seq(Payload)
    BY <1>0, <1>11 DEF Pass, ClaimDue
  <2>2. [pass[p] EXCEPT !.pc = "push", !.claimed = <<load>>, !.due = @ \ {load}] \in Pass
    BY <2>1 DEF Pass
  <2>3. pass' = [pass EXCEPT ![p] =
                  [pass[p] EXCEPT !.pc = "push", !.claimed = <<load>>, !.due = @ \ {load}]]
    BY <1>0, <1>11 DEF ClaimDue
  <2>4. pass' \in [Passes -> Pass] BY <1>0, <2>2, <2>3
  <2> QED BY <1>0, <1>11, <2>4 DEF ClaimDue, rowVars, setVars, pastVars, trimVars
<1>12. ASSUME NEW p \in Passes, NEW load \in pass[p].due, ClaimMissed(p, load) PROVE TypeOK'
  <2>1. pass[p].due \ {load} \in SUBSET Payload BY <1>0 DEF Pass
  <2>2. pass' \in [Passes -> Pass] BY <1>0, <1>12, <2>1, PassKinds DEF ClaimMissed, AfterDue
  <2> QED BY <1>0, <1>12, <2>2 DEF ClaimMissed, queueVars, rowVars, setVars, pastVars, trimVars
<1>13. ASSUME NEW r \in Replayers, ReplayRead(r) PROVE TypeOK'
  <2>1. [pc |-> "push", raw |-> dlq] \in
          [pc : {"none", "push", "remove", "torn"}, raw : Seq(Entry)] OBVIOUS
  <2>2. replays' \in 0 .. MaxReplays BY <1>13 DEF ReplayRead, DeliveryAssumption
  <2> QED BY <1>13, <2>1, <2>2 DEF ReplayRead, queueVars, rowVars, setVars, pastVars, trimVars
<1>14. ASSUME NEW r \in Replayers, ReplayPush(r) PROVE TypeOK'
  <2>1. replay[r].raw \in Seq(Entry) /\ replay[r].raw # <<>> BY <1>14 DEF RawThere, ReplayPush
  <2>2. [hook |-> Head(replay[r].raw).hook, attempt |-> 0] \in Payload
    <3>1. Head(replay[r].raw) \in Entry BY <2>1, HeadTailProperties
    <3>2. Head(replay[r].raw).hook \in Hooks BY <3>1 DEF Entry
    <3> QED BY <3>2 DEF Payload, Attempt, DeliveryAssumption
  <2>3. queue' \in Seq(Payload) BY <1>14, <2>2, AppendProperties DEF ReplayPush
  <2>4. [replay[r] EXCEPT !.pc = "remove"] \in
          [pc : {"none", "push", "remove", "torn"}, raw : Seq(Entry)]
    <3>1. replay[r] \in [pc : {"none", "push", "remove", "torn"}, raw : Seq(Entry)] OBVIOUS
    <3> QED BY <3>1
  <2> QED BY <1>14, <2>3, <2>4 DEF ReplayPush, rowVars, setVars, pastVars, trimVars
<1>15. ASSUME NEW r \in Replayers, ReplayRemove(r) PROVE TypeOK'
  <2>1. replay[r].raw \in Seq(Entry) /\ replay[r].raw # <<>> BY <1>15 DEF RawThere, ReplayRemove
  <2>2. dlq' \in Seq(Entry) BY <1>15, Removed DEF ReplayRemove
  <2>3. Tail(replay[r].raw) \in Seq(Entry) BY <2>1, HeadTailProperties
  <2>4. replay' \in [Replayers -> [pc : {"none", "push", "remove", "torn"}, raw : Seq(Entry)]]
    BY <1>15, <2>3, EmptySeq DEF ReplayRemove, NoReplay
  <2> QED BY <1>15, <2>2, <2>4 DEF ReplayRemove, rowVars, setVars, pastVars, trimVars
<1>16. ASSUME NEW o \in outcomes, RecordOutcome(o) PROVE TypeOK'
  <2>1. o.hook \in Hooks /\ o.ok \in BOOLEAN OBVIOUS
  <2> QED BY <1>16, <2>1 DEF RecordOutcome, queueVars, setVars, pastVars, trimVars
<1>17. ASSUME NEW load \in retry, ComesDue(load) PROVE TypeOK'
  BY <1>17 DEF ComesDue, rowVars, setVars, pastVars, trimVars
<1>18. ASSUME Fault PROVE TypeOK'
  <2>1. faults' \in 0 .. MaxFaults BY <1>18 DEF Fault, DeliveryAssumption
  <2>2. CASE TriggerFails
    BY <2>1, <2>2 DEF TriggerFails, rowVars, pastVars, trimVars
  <2>3. ASSUME NEW h \in Hooks, DirectCrash(h) PROVE TypeOK'
    <3>1. direct[h] \in [pc : {"none", "post", "done"}, attempt : Attempt] OBVIOUS
    <3>2. [direct[h] EXCEPT !.pc = "done"] \in [pc : {"none", "post", "done"}, attempt : Attempt]
      BY <3>1
    <3>3. direct' \in [Hooks -> [pc : {"none", "post", "done"}, attempt : Attempt]]
      BY <2>3, <3>2 DEF DirectCrash
    <3> QED BY <2>1, <2>3, <3>3 DEF DirectCrash, queueVars, rowVars, pastVars, trimVars
  <2>4. ASSUME NEW p \in Passes, PassDies(p) PROVE TypeOK'
    <3>1. pass' \in [Passes -> Pass] BY <1>0, <2>4, PassKinds DEF PassDies
    <3>2. lost' \subseteq Hooks
      <4>1. \A i \in DOMAIN pass[p].items : pass[p].items[i].load.hook \in Hooks BY PayloadOf
      <4>2. pass[p].claimed \in Seq(Payload) BY <1>0 DEF Pass
      <4>3. \A i \in DOMAIN pass[p].claimed : pass[p].claimed[i].hook \in Hooks
        <5>1. \A i \in DOMAIN pass[p].claimed : pass[p].claimed[i] \in Payload BY <4>2
        <5> QED BY <5>1 DEF Payload
      <4>4. Holds(p) \subseteq Hooks BY <4>1, <4>3 DEF Holds
      <4> QED BY <2>4, <4>4 DEF PassDies
    <3>3. untrimmed' \in Nat
      <4>1. IsFiniteSet(Untrimmed(p)) BY UntrimmedFinite
      <4>2. Cardinality(Untrimmed(p)) \in Nat BY <4>1, FS_CardinalityType
      <4> QED BY <2>4, <4>2 DEF PassDies
    <3> QED BY <1>0, <2>1, <2>4, <3>1, <3>2, <3>3 DEF PassDies, queueVars, rowVars, pastVars
  <2>5. ASSUME NEW p \in Passes, NEW i \in DOMAIN pass[p].items, FilingFails(p, i) PROVE TypeOK'
    <3>3. ItemMoves(p, i, "done") BY <2>5, FilingMoves
    <3>4. pass' \in [Passes -> Pass] BY <3>3 DEF ItemMoves
    <3>5. lost' \subseteq Hooks
      <4>1. pass[p].items[i].load.hook \in Hooks BY PayloadOf
      <4>2. lost' = lost \union {pass[p].items[i].load.hook} BY <2>5 DEF FilingFails
      <4> QED BY <4>1, <4>2
    <3> QED BY <1>0, <2>1, <2>5, <3>4, <3>5 DEF FilingFails, queueVars, rowVars, pastVars, trimVars
  <2>6. ASSUME NEW p \in Passes, NEW i \in DOMAIN pass[p].items, TrimFails(p, i) PROVE TypeOK'
    <3>1. ItemMoves(p, i, "done") BY <2>6, ItemUpdate DEF TrimFails, ItemState
    <3>2. pass' \in [Passes -> Pass] BY <3>1 DEF ItemMoves
    <3>3. untrimmed' \in Nat BY <2>6 DEF TrimFails
    <3>4. UNCHANGED <<toQueue, queue, retry, due, dlq, direct, replay, outcomes, row, stamp,
                      replays, hasCache, posts, received, trimmed, lost>>
      BY <2>6 DEF TrimFails, queueVars, rowVars, pastVars
    <3> QED BY <1>0, <2>1, <3>2, <3>3, <3>4
  <2>7. ASSUME NEW r \in Replayers, ReplayStops(r) PROVE TypeOK'
    <3>1. replay[r] \in [pc : {"none", "push", "remove", "torn"}, raw : Seq(Entry)] OBVIOUS
    <3>2. [replay[r] EXCEPT !.pc = "torn"] \in [pc : {"none", "push", "remove", "torn"}, raw : Seq(Entry)]
      BY <3>1
    <3>3. replay' \in [Replayers -> [pc : {"none", "push", "remove", "torn"}, raw : Seq(Entry)]]
      BY <2>7, <3>2, EmptySeq DEF ReplayStops, NoReplay
    <3> QED BY <2>1, <2>7, <3>3 DEF ReplayStops, queueVars, rowVars, pastVars, trimVars
  <2>8. ASSUME NEW o \in outcomes, OutcomeLost(o) PROVE TypeOK'
    BY <2>1, <2>8 DEF OutcomeLost, queueVars, pastVars, trimVars
  <2> QED BY <1>18, <2>2, <2>3, <2>4, <2>5, <2>6, <2>7, <2>8 DEF Fault
<1>19. CASE UNCHANGED vars
  BY <1>19 DEF vars, queueVars, rowVars, pastVars, trimVars, setVars
<1>20. ASSUME NEW p \in Passes, Process(p) PROVE TypeOK'
  <2> HIDE DEF TypeOK
  <2>1. ASSUME NEW i \in DOMAIN pass[p].items, Item(p, i) PROVE TypeOK'
    BY <1>7, <1>8, <1>9, <1>10, <2>1 DEF Item
  <2>2. ASSUME NEW load \in pass[p].due, ClaimDue(p, load) \/ ClaimMissed(p, load) PROVE TypeOK'
    BY <1>11, <1>12, <2>2
  <2> QED BY <1>3, <1>4, <1>5, <1>6, <1>20, <2>1, <2>2 DEF Process
<1>21. ASSUME NEW r \in Replayers, Replay(r) PROVE TypeOK'
  BY <1>13, <1>14, <1>15, <1>21 DEF Replay
<1> HIDE DEF TypeOK
<1> QED BY <1>1, <1>2, <1>16, <1>17, <1>18, <1>19, <1>20, <1>21
  DEF Next, Trigger, Direct, Terminated

\* A replay that is under way has entries left.
LEMMA RawStep == ASSUME TypeOK, RawThere, [Next]_vars PROVE RawThere'
<1>1. replay \in [Replayers -> [pc : {"none", "push", "remove", "torn"}, raw : Seq(Entry)]]
      /\ dlq \in Seq(Entry)
  BY DEF TypeOK
<1>2. ASSUME NEW r \in Replayers, ReplayRead(r) PROVE RawThere'
  BY <1>1, <1>2 DEF ReplayRead, RawThere
<1>3. ASSUME NEW r \in Replayers, ReplayPush(r) PROVE RawThere'
  <2>1. [replay[r] EXCEPT !.pc = "remove"].raw = replay[r].raw BY <1>1
  <2> QED BY <1>1, <1>3, <2>1 DEF ReplayPush, RawThere
<1>4. ASSUME NEW r \in Replayers, ReplayRemove(r) PROVE RawThere'
  BY <1>1, <1>4 DEF ReplayRemove, RawThere, NoReplay
<1>5. ASSUME NEW r \in Replayers, ReplayStops(r) PROVE RawThere'
  <2>1. [replay[r] EXCEPT !.pc = "torn"].raw = replay[r].raw BY <1>1
  <2> QED BY <1>1, <1>5, <2>1 DEF ReplayStops, RawThere, NoReplay
<1>6. ASSUME UNCHANGED replay PROVE RawThere' BY <1>6 DEF RawThere
<1>7. CASE UNCHANGED vars BY <1>6, <1>7 DEF vars
<1>8. ASSUME Trigger \/ (\E h \in Hooks : Direct(h)) \/ (\E o \in outcomes : RecordOutcome(o))
             \/ (\E load \in retry : ComesDue(load))
      PROVE  RawThere'
  BY <1>6, <1>8 DEF Trigger, TriggerNext, Direct, DirectDeliver, RecordOutcome, ComesDue
<1>9. ASSUME NEW p \in Passes, Process(p) PROVE RawThere'
  BY <1>6, <1>9 DEF Process, Item, Pop, ReadDue, PushDue, PassBroken, FileRetry, DeadLetter,
     Trim, Deliver, ClaimDue, ClaimMissed
<1>10. ASSUME Fault PROVE RawThere'
  BY <1>5, <1>6, <1>10 DEF Fault, TriggerFails, DirectCrash, PassDies, FilingFails, TrimFails,
     OutcomeLost
<1> QED BY <1>2, <1>3, <1>4, <1>7, <1>8, <1>9, <1>10 DEF Next, Replay, Terminated

\* Through every interleaving of the trigger, the passes, the replays and the
\* faults the queue, the retries, the dead letters and what each pass and each
\* replay holds are what the code of webhooks.ts and webhook-worker.ts takes
\* them for.
THEOREM TypeCorrect == Spec => []TypeOK
<1> USE DeliveryAssumption
<1>1. Init => TypeOK /\ RawThere
  BY InitType DEF Init, RawThere, NoReplay
<1>2. (TypeOK /\ RawThere) /\ [Next]_vars => (TypeOK /\ RawThere)'
  BY TypeStep, RawStep
<1> QED BY <1>1, <1>2, PTL DEF Spec

-----------------------------------------------------------------------------
(* The dead-letter list.                                                   *)

\* The dead letters that the passes ps have filed and not trimmed for.
OwedBy(ps) == {x \in Passes \X (1 .. Batch) :
    x[2] \in {i \in DOMAIN ps[x[1]].items : ps[x[1]].items[i].st = "trim"}}

LEMMA OwedFacts ==
    ASSUME DeliveryAssumption, NEW ps \in [Passes -> Pass],
           \A p \in Passes : Len(ps[p].items) <= Batch
    PROVE  /\ IsFiniteSet(OwedBy(ps)) /\ Cardinality(OwedBy(ps)) \in Nat
           /\ \A x \in OwedBy(ps) : x = <<x[1], x[2]>> /\ x[1] \in Passes /\ x[2] \in 1 .. Batch
           /\ \A p \in Passes : \A i :
                <<p, i>> \in OwedBy(ps) <=> i \in DOMAIN ps[p].items /\ ps[p].items[i].st = "trim"
<1>1. IsFiniteSet(Passes) /\ Batch \in Nat BY DEF DeliveryAssumption
<1>2. IsFiniteSet(1 .. Batch) BY <1>1, FS_Interval
<1>3. IsFiniteSet(Passes \X (1 .. Batch)) BY <1>1, <1>2, FS_Product
<1>4. OwedBy(ps) \subseteq Passes \X (1 .. Batch) BY DEF OwedBy
<1>5. IsFiniteSet(OwedBy(ps)) /\ Cardinality(OwedBy(ps)) \in Nat
  BY <1>3, <1>4, FS_Subset, FS_CardinalityType
<1>6. ASSUME NEW p \in Passes, NEW i
      PROVE  <<p, i>> \in OwedBy(ps) <=> i \in DOMAIN ps[p].items /\ ps[p].items[i].st = "trim"
  <2>1. ps[p].items \in Seq(ItemRec) BY DEF Pass
  <2>2. DOMAIN ps[p].items = 1 .. Len(ps[p].items) /\ Len(ps[p].items) \in Nat
    BY <2>1, LenProperties
  <2>3. i \in DOMAIN ps[p].items => i \in 1 .. Batch BY <1>1, <2>2
  <2> QED BY <2>3 DEF OwedBy
<1>7. \A x \in OwedBy(ps) : x = <<x[1], x[2]>> /\ x[1] \in Passes /\ x[2] \in 1 .. Batch
  BY DEF OwedBy
<1> QED BY <1>5, <1>6, <1>7

\* DlqBounded in those terms.
LEMMA BoundIs == DlqBounded <=> Len(dlq) <= DlqMax + untrimmed + Cardinality(OwedBy(pass))
BY DEF DlqBounded, OwedBy, Untrimmed

\* No step makes a longer batch, nor leaves items outside of a delivery or a
\* claim outside of its ZREM and RPUSH.
LEMMA PassStep == ASSUME DeliveryAssumption, TypeOK, PassKept, [Next]_vars PROVE PassKept'
<1>0. Batch \in Nat /\ pass \in [Passes -> Pass] BY DEF DeliveryAssumption, TypeOK, Pass, ItemRec
<1>1. ASSUME NEW p \in Passes, NEW i \in DOMAIN pass[p].items, NEW st, ItemMoves(p, i, st) PROVE PassKept'
  <2>1. pass[p] \in Pass BY <1>0
  <2>2. pass[p].items \in Seq(ItemRec) BY <2>1 DEF Pass
  <2>3. Len(pass[p].items) # 0 BY <1>1, <2>2, LenProperties
  <2>4. pass[p].pc \in {"deliver", "broken"} BY <2>3 DEF PassKept
  <2>5. /\ pass'[p].claimed = pass[p].claimed /\ Len(pass'[p].items) = Len(pass[p].items)
        /\ pass'[p].pc \in {pass[p].pc, "broken"} /\ \A q \in Passes : q # p => pass'[q] = pass[q]
    BY <1>1 DEF ItemMoves
  <2> QED BY <2>4, <2>5 DEF PassKept
<1>2. Len(<<>>) = 0 OBVIOUS
<1>3. ASSUME NEW p \in Passes, NEW d \in SUBSET Payload,
             pass' = [pass EXCEPT ![p] = IF d = {} THEN Idle ELSE [Idle EXCEPT !.pc = "due", !.due = d]]
      PROVE  PassKept'
  BY <1>0, <1>2, <1>3 DEF PassKept, Idle
<1>4. ASSUME NEW p \in Passes, pass' = [pass EXCEPT ![p] = Idle] PROVE PassKept'
  BY <1>0, <1>2, <1>4 DEF PassKept, Idle
<1>5. ASSUME UNCHANGED pass PROVE PassKept' BY <1>5 DEF PassKept
<1>6. ASSUME NEW p \in Passes, Process(p) PROVE PassKept'
  <2>1. CASE Pop(p)
    <3>1. PICK n \in 0 .. Len(queue) :
             /\ n <= Batch /\ Len(pass'[p].items) = n
             /\ pass' = [pass EXCEPT ![p] =
                           [pass[p] EXCEPT !.pc = "deliver", !.items = pass'[p].items]]
      BY <2>1, Popped
    <3>2. pass'[p].pc = "deliver" /\ pass'[p].claimed = pass[p].claimed
      <4> DEFINE its == pass'[p].items
                 popped == [pass[p] EXCEPT !.pc = "deliver", !.items = its]
      <4>1. pass[p] \in Pass BY <1>0
      <4>2. pass'[p] = popped BY <1>0, <3>1
      <4> HIDE DEF its
      <4>3. popped.pc = "deliver" /\ popped.claimed = pass[p].claimed BY <4>1 DEF Pass
      <4> QED BY <4>2, <4>3
    <3>4. pass[p].pc = "idle" BY <2>1 DEF Pop
    <3>3. \A q \in Passes : q # p => pass'[q] = pass[q] BY <1>0, <3>1
    <3> QED BY <3>1, <3>2, <3>3, <3>4 DEF PassKept
  <2>2. CASE ReadDue(p)
    <3>1. PICK read \in SUBSET due : pass' = [pass EXCEPT ![p] =
            IF read = {} THEN Idle ELSE [Idle EXCEPT !.pc = "due", !.due = read]]
      BY <2>2 DEF ReadDue
    <3>2. read \in SUBSET Payload BY DEF TypeOK
    <3> QED BY <1>3, <3>1, <3>2
  <2>3. CASE PushDue(p) BY <1>0, <1>3, <2>3 DEF PushDue, AfterDue, Pass
  <2>4. CASE PassBroken(p) BY <1>4, <2>4 DEF PassBroken
  <2>5. ASSUME NEW i \in DOMAIN pass[p].items, Item(p, i) PROVE PassKept'
    <3>1. ASSUME NEW ok \in BOOLEAN, Deliver(p, i, ok) PROVE PassKept'
      <4>1. ItemMoves(p, i, IF ok THEN "done" ELSE "failed")
        BY <3>1, ItemUpdate DEF Deliver, ItemState
      <4> QED BY <1>1, <4>1
    <3>2. CASE FileRetry(p, i) BY <1>1, <3>2, ItemUpdate DEF FileRetry, ItemState
    <3>3. CASE DeadLetter(p, i) BY <1>1, <3>3, ItemUpdate DEF DeadLetter, ItemState
    <3>4. CASE Trim(p, i) BY <1>1, <3>4, ItemUpdate DEF Trim, ItemState
    <3> QED BY <2>5, <3>1, <3>2, <3>3, <3>4 DEF Item
  <2>6. ASSUME NEW load \in pass[p].due, ClaimDue(p, load) PROVE PassKept'
    <3>1. pass' = [pass EXCEPT ![p] =
                    [pass[p] EXCEPT !.pc = "push", !.claimed = <<load>>, !.due = @ \ {load}]]
      BY <1>0, <2>6 DEF ClaimDue
    <3>2. pass'[p].items = pass[p].items /\ pass'[p].claimed = <<load>> /\ pass'[p].pc = "push"
      BY <1>0, <3>1 DEF Pass
    <3>3. \A q \in Passes : q # p => pass'[q] = pass[q] BY <1>0, <3>1
    <3>4. pass[p].pc = "due" BY <2>6 DEF ClaimDue
    <3>5. Len(pass'[p].claimed) = 1 BY <3>2
    <3>6. Len(pass'[p].items) = 0 /\ Len(pass'[p].items) <= Batch BY <3>2, <3>4 DEF PassKept
    <3> SUFFICES ASSUME NEW q \in Passes
                 PROVE  /\ Len(pass'[q].items) <= Batch
                        /\ pass'[q].pc \in {"deliver", "broken"} \/ Len(pass'[q].items) = 0
                        /\ Len(pass'[q].claimed) <= 1
                        /\ pass'[q].pc = "push" \/ Len(pass'[q].claimed) = 0
      BY DEF PassKept
    <3>7. CASE q = p
      <4>1. Len(pass'[q].items) <= Batch BY <3>6, <3>7
      <4>2. Len(pass'[q].items) = 0 BY <3>6, <3>7
      <4>3. Len(pass'[q].claimed) <= 1
        <5>1. 1 <= 1 OBVIOUS
        <5> QED BY <3>5, <3>7, <5>1, Zenon
      <4>4. pass'[q].pc = "push" BY <3>2, <3>7
      <4> QED BY <4>1, <4>2, <4>3, <4>4
    <3>8. CASE q # p BY <3>3, <3>8 DEF PassKept
    <3> QED BY <3>7, <3>8
  <2>7. ASSUME NEW load \in pass[p].due, ClaimMissed(p, load) PROVE PassKept'
    <3>1. pass[p].due \ {load} \in SUBSET Payload BY <1>0 DEF Pass
    <3> QED BY <1>3, <2>7, <3>1 DEF ClaimMissed, AfterDue
  <2> QED BY <1>6, <2>1, <2>2, <2>3, <2>4, <2>5, <2>6, <2>7 DEF Process
<1>7. ASSUME NEW p \in Passes, PassDies(p) PROVE PassKept' BY <1>4, <1>7 DEF PassDies
<1>8. ASSUME NEW p \in Passes, NEW i \in DOMAIN pass[p].items, FilingFails(p, i) PROVE PassKept'
  BY <1>1, <1>8, FilingMoves
<1>9. ASSUME NEW p \in Passes, NEW i \in DOMAIN pass[p].items, TrimFails(p, i) PROVE PassKept'
  BY <1>1, <1>9, ItemUpdate DEF TrimFails, ItemState
<1>10. CASE Fault
  BY <1>5, <1>7, <1>8, <1>9, <1>10
  DEF Fault, TriggerFails, DirectCrash, ReplayStops, OutcomeLost
<1>11. CASE UNCHANGED vars BY <1>5, <1>11 DEF vars
<1>12. ASSUME \/ Trigger \/ (\E h \in Hooks : Direct(h))
             \/ (\E o \in outcomes : RecordOutcome(o)) \/ (\E load \in retry : ComesDue(load))
             \/ (\E r \in Replayers : Replay(r))
       PROVE PassKept'
  BY <1>5, <1>12 DEF Trigger, TriggerNext, Direct, DirectDeliver, RecordOutcome, ComesDue,
     Replay, ReplayRead, ReplayPush, ReplayRemove
<1> QED BY <1>6, <1>10, <1>11, <1>12 DEF Next, Terminated

\* A step that neither lengthens the list nor settles a trim keeps the bound.
LEMMA BoundKept ==
    ASSUME DeliveryAssumption, TypeOK, TypeOK', PassKept, PassKept', DlqBounded,
           Len(dlq') <= Len(dlq), untrimmed' = untrimmed,
           \A p \in Passes : \A i \in DOMAIN pass[p].items :
              pass[p].items[i].st = "trim" =>
                  i \in DOMAIN pass'[p].items /\ pass'[p].items[i].st = "trim"
    PROVE  DlqBounded'
<1>1. pass \in [Passes -> Pass] /\ pass' \in [Passes -> Pass] BY DEF TypeOK, Pass, ItemRec
<1>2. \A p \in Passes : Len(pass[p].items) <= Batch /\ Len(pass'[p].items) <= Batch
  BY DEF PassKept
<1>3. OwedBy(pass) \subseteq OwedBy(pass')
  <2>1. \A x \in OwedBy(pass) : x = <<x[1], x[2]>> /\ x[1] \in Passes BY <1>1, <1>2, OwedFacts
  <2>2. ASSUME NEW p \in Passes, NEW i, <<p, i>> \in OwedBy(pass) PROVE <<p, i>> \in OwedBy(pass')
    <3>1. i \in DOMAIN pass[p].items /\ pass[p].items[i].st = "trim"
      BY <1>1, <1>2, <2>2, OwedFacts
    <3>2. i \in DOMAIN pass'[p].items /\ pass'[p].items[i].st = "trim" BY <3>1
    <3> QED BY <1>1, <1>2, <3>2, OwedFacts
  <2> QED BY <2>1, <2>2
<1>4. IsFiniteSet(OwedBy(pass')) BY <1>1, <1>2, OwedFacts
<1>5. Cardinality(OwedBy(pass)) <= Cardinality(OwedBy(pass')) BY <1>3, <1>4, FS_Subset
<1>6. Cardinality(OwedBy(pass)) \in Nat /\ Cardinality(OwedBy(pass')) \in Nat
  BY <1>1, <1>2, OwedFacts
<1>7. dlq \in Seq(Entry) /\ dlq' \in Seq(Entry) /\ untrimmed \in Nat /\ DlqMax \in Nat
  BY DEF TypeOK, DeliveryAssumption
<1>8. Len(dlq) \in Nat /\ Len(dlq') \in Nat BY <1>7, LenProperties
<1>9. DlqBounded' <=> Len(dlq') <= DlqMax + untrimmed' + Cardinality(OwedBy(pass'))
  BY DEF DlqBounded, OwedBy, Untrimmed
<1> QED BY <1>5, <1>6, <1>7, <1>8, <1>9, BoundIs

\* Filing a dead letter owes one trim more, trimming for it one less.
LEMMA BoundItem ==
    ASSUME DeliveryAssumption, TypeOK, TypeOK', PassKept, PassKept',
           NEW p \in Passes, NEW i \in DOMAIN pass[p].items, NEW st, ItemMoves(p, i, st)
    PROVE  /\ st = "trim" /\ pass[p].items[i].st # "trim" =>
                 Cardinality(OwedBy(pass')) = Cardinality(OwedBy(pass)) + 1
           /\ st # "trim" /\ pass[p].items[i].st = "trim" =>
                 Cardinality(OwedBy(pass')) = Cardinality(OwedBy(pass)) - 1
<1>1. pass \in [Passes -> Pass] /\ pass' \in [Passes -> Pass] BY DEF TypeOK, Pass, ItemRec
<1>2. \A q \in Passes : Len(pass[q].items) <= Batch /\ Len(pass'[q].items) <= Batch
  BY DEF PassKept
<1>3. /\ IsFiniteSet(OwedBy(pass))
      /\ \A x \in OwedBy(pass) : x = <<x[1], x[2]>> /\ x[1] \in Passes
      /\ \A q \in Passes : \A j : <<q, j>> \in OwedBy(pass) <=>
            j \in DOMAIN pass[q].items /\ pass[q].items[j].st = "trim"
  BY <1>1, <1>2, OwedFacts
<1>4. /\ \A x \in OwedBy(pass') : x = <<x[1], x[2]>> /\ x[1] \in Passes
      /\ \A q \in Passes : \A j : <<q, j>> \in OwedBy(pass') <=>
            j \in DOMAIN pass'[q].items /\ pass'[q].items[j].st = "trim"
  BY <1>1, <1>2, OwedFacts
<1>5. /\ \A q \in Passes : DOMAIN pass'[q].items = DOMAIN pass[q].items
      /\ \A q \in Passes : \A j \in DOMAIN pass[q].items :
            pass'[q].items[j].st = IF q = p /\ j = i THEN st ELSE pass[q].items[j].st
  BY DEF ItemMoves
<1>6. ASSUME st = "trim", pass[p].items[i].st # "trim"
      PROVE  Cardinality(OwedBy(pass')) = Cardinality(OwedBy(pass)) + 1
  <2>1. \A q \in Passes : \A j :
          <<q, j>> \in OwedBy(pass') <=> <<q, j>> \in OwedBy(pass) \/ (q = p /\ j = i)
    <3> SUFFICES ASSUME NEW q \in Passes, NEW j
                 PROVE  <<q, j>> \in OwedBy(pass') <=> <<q, j>> \in OwedBy(pass) \/ (q = p /\ j = i)
      OBVIOUS
    <3>1. <<q, j>> \in OwedBy(pass) <=> j \in DOMAIN pass[q].items /\ pass[q].items[j].st = "trim"
      BY <1>3
    <3>2. <<q, j>> \in OwedBy(pass') <=> j \in DOMAIN pass[q].items /\ pass'[q].items[j].st = "trim"
      BY <1>4, <1>5
    <3> QED BY <1>5, <1>6, <3>1, <3>2
  <2>2. OwedBy(pass') = OwedBy(pass) \union {<<p, i>>} BY <1>3, <1>4, <2>1
  <2>3. <<p, i>> \notin OwedBy(pass) BY <1>3, <1>6
  <2>4. Cardinality(OwedBy(pass) \union {<<p, i>>}) = Cardinality(OwedBy(pass)) + 1
    <3> DEFINE S == OwedBy(pass)
               x == <<p, i>>
    <3>1. IsFiniteSet(S) /\ x \notin S BY <1>3, <2>3
    <3> HIDE DEF S, x
    <3>2. Cardinality(S \union {x}) = Cardinality(S) + 1 BY <3>1, FS_AddElement
    <3> QED BY <3>2 DEF S, x
  <2> QED BY <2>2, <2>4
<1>7. ASSUME st # "trim", pass[p].items[i].st = "trim"
      PROVE  Cardinality(OwedBy(pass')) = Cardinality(OwedBy(pass)) - 1
  <2>1. \A q \in Passes : \A j :
          <<q, j>> \in OwedBy(pass') <=> <<q, j>> \in OwedBy(pass) /\ ~ (q = p /\ j = i)
    <3> SUFFICES ASSUME NEW q \in Passes, NEW j
                 PROVE  <<q, j>> \in OwedBy(pass') <=> <<q, j>> \in OwedBy(pass) /\ ~ (q = p /\ j = i)
      OBVIOUS
    <3>1. <<q, j>> \in OwedBy(pass) <=> j \in DOMAIN pass[q].items /\ pass[q].items[j].st = "trim"
      BY <1>3
    <3>2. <<q, j>> \in OwedBy(pass') <=> j \in DOMAIN pass[q].items /\ pass'[q].items[j].st = "trim"
      BY <1>4, <1>5
    <3> QED BY <1>5, <1>7, <3>1, <3>2
  <2>2. OwedBy(pass') = OwedBy(pass) \ {<<p, i>>} BY <1>3, <1>4, <2>1
  <2>3. <<p, i>> \in OwedBy(pass) BY <1>3, <1>7
  <2>4. Cardinality(OwedBy(pass) \ {<<p, i>>}) = Cardinality(OwedBy(pass)) - 1
    <3> DEFINE S == OwedBy(pass)
               x == <<p, i>>
    <3>1. IsFiniteSet(S) /\ x \in S BY <1>3, <2>3
    <3> HIDE DEF S, x
    <3>2. Cardinality(S \ {x}) = Cardinality(S) - 1 BY <3>1, FS_RemoveElement
    <3> QED BY <3>2 DEF S, x
  <2> QED BY <2>2, <2>4
<1> QED BY <1>6, <1>7

\* A pass that dies leaves what it owed to untrimmed.
LEMMA BoundDies ==
    ASSUME DeliveryAssumption, TypeOK, TypeOK', PassKept, PassKept',
           NEW p \in Passes, pass' = [pass EXCEPT ![p] = Idle]
    PROVE  Cardinality(OwedBy(pass)) <= Cardinality(OwedBy(pass')) + Cardinality(Untrimmed(p))
<1>1. pass \in [Passes -> Pass] /\ pass' \in [Passes -> Pass] BY DEF TypeOK, Pass, ItemRec
<1>2. \A q \in Passes : Len(pass[q].items) <= Batch /\ Len(pass'[q].items) <= Batch
  BY DEF PassKept
<1>3. /\ \A x \in OwedBy(pass) : x = <<x[1], x[2]>> /\ x[1] \in Passes
      /\ \A q \in Passes : \A j : <<q, j>> \in OwedBy(pass) <=>
            j \in DOMAIN pass[q].items /\ pass[q].items[j].st = "trim"
  BY <1>1, <1>2, OwedFacts
<1>4. /\ IsFiniteSet(OwedBy(pass')) /\ Cardinality(OwedBy(pass')) \in Nat
      /\ \A q \in Passes : \A j : <<q, j>> \in OwedBy(pass') <=>
            j \in DOMAIN pass'[q].items /\ pass'[q].items[j].st = "trim"
  BY <1>1, <1>2, OwedFacts
<1> DEFINE U == {p} \X Untrimmed(p)
<1>5. IsFiniteSet(Untrimmed(p)) /\ Cardinality(Untrimmed(p)) \in Nat
  BY UntrimmedFinite, FS_CardinalityType
<1>6. IsFiniteSet({p}) /\ Cardinality({p}) = 1 BY FS_Singleton
<1>7. IsFiniteSet(U) /\ Cardinality(U) = Cardinality(Untrimmed(p)) BY <1>5, <1>6, FS_Product
<1>8. OwedBy(pass) \subseteq OwedBy(pass') \union U
  <2>1. ASSUME NEW q \in Passes, NEW j, <<q, j>> \in OwedBy(pass)
        PROVE  <<q, j>> \in OwedBy(pass') \union U
    <3>1. j \in DOMAIN pass[q].items /\ pass[q].items[j].st = "trim" BY <1>3, <2>1
    <3>2. CASE q = p BY <3>1, <3>2 DEF Untrimmed
    <3>3. CASE q # p
      <4>1. pass'[q] = pass[q] BY <1>1, <3>3
      <4> QED BY <1>4, <3>1, <4>1
    <3> QED BY <3>2, <3>3
  <2> SUFFICES ASSUME NEW x \in OwedBy(pass) PROVE x \in OwedBy(pass') \union U
    OBVIOUS
  <2>2. x = <<x[1], x[2]>> /\ x[1] \in Passes BY <1>3
  <2> HIDE DEF U
  <2>3. <<x[1], x[2]>> \in OwedBy(pass') \union U BY <2>1, <2>2
  <2> QED BY <2>2, <2>3
<1> HIDE DEF U
<1>9. /\ IsFiniteSet(OwedBy(pass') \union U)
      /\ Cardinality(OwedBy(pass') \union U) = Cardinality(OwedBy(pass')) + Cardinality(U)
            - Cardinality(OwedBy(pass') \intersect U)
  BY <1>4, <1>7, FS_Union
<1>10. Cardinality(OwedBy(pass)) <= Cardinality(OwedBy(pass') \union U) BY <1>8, <1>9, FS_Subset
<1>11. Cardinality(OwedBy(pass') \intersect U) \in Nat
  <2>1. IsFiniteSet(OwedBy(pass') \intersect U) BY <1>7, FS_Subset
  <2> QED BY <2>1, FS_CardinalityType
<1>12. Cardinality(OwedBy(pass)) \in Nat BY <1>1, <1>2, OwedFacts
<1> QED BY <1>4, <1>5, <1>7, <1>9, <1>10, <1>11, <1>12

LEMMA BoundStep ==
    ASSUME DeliveryAssumption, BoundInv, [Next]_vars, TypeOK', PassKept'
    PROVE  DlqBounded'
<1> DEFINE owed == Cardinality(OwedBy(pass))
<1>1. TypeOK /\ RawThere /\ PassKept /\ DlqBounded BY DEF BoundInv
<1>2. pass \in [Passes -> Pass] /\ pass' \in [Passes -> Pass] BY <1>1 DEF TypeOK, Pass, ItemRec
<1>3. \A p \in Passes : Len(pass[p].items) <= Batch /\ Len(pass'[p].items) <= Batch
  BY <1>1 DEF PassKept
<1>4. owed \in Nat /\ owed' \in Nat BY <1>2, <1>3, OwedFacts
<1>5. dlq \in Seq(Entry) /\ dlq' \in Seq(Entry) /\ untrimmed \in Nat /\ DlqMax \in Nat
  BY <1>1 DEF TypeOK, DeliveryAssumption
<1>6. Len(dlq) \in Nat /\ Len(dlq') \in Nat BY <1>5, LenProperties
<1>7. Len(dlq) <= DlqMax + untrimmed + owed BY <1>1, BoundIs
<1>8. DlqBounded' <=> Len(dlq') <= DlqMax + untrimmed' + owed'
  BY DEF DlqBounded, OwedBy, Untrimmed
<1> HIDE DEF owed
\* What leaves alone what the bound is about.
<1>9. ASSUME UNCHANGED <<dlq, untrimmed>>,
             \A p \in Passes : \A i \in DOMAIN pass[p].items :
                 pass[p].items[i].st = "trim" =>
                    i \in DOMAIN pass'[p].items /\ pass'[p].items[i].st = "trim"
      PROVE DlqBounded'
  <2>1. Len(dlq') <= Len(dlq) BY <1>6, <1>9
  <2> QED BY <1>1, <1>9, <2>1, BoundKept
<1>10. ASSUME UNCHANGED <<dlq, untrimmed, pass>> PROVE DlqBounded' BY <1>9, <1>10
<1>11. ASSUME NEW p \in Passes, UNCHANGED <<dlq, untrimmed>>,
              \A q \in Passes : q # p => pass'[q] = pass[q],
              \A i \in DOMAIN pass[p].items : pass[p].items[i].st # "trim"
       PROVE  DlqBounded'
  BY <1>9, <1>11
<1>12. ASSUME NEW p \in Passes, NEW i \in DOMAIN pass[p].items, NEW st, ItemMoves(p, i, st),
              pass[p].items[i].st # "trim", UNCHANGED <<dlq, untrimmed>>
       PROVE  DlqBounded'
  <2>1. ASSUME NEW q \in Passes, NEW j \in DOMAIN pass[q].items, pass[q].items[j].st = "trim"
        PROVE  j \in DOMAIN pass'[q].items /\ pass'[q].items[j].st = "trim"
    BY <1>12, <2>1 DEF ItemMoves
  <2> QED BY <1>9, <1>12, <2>1
<1>13. ASSUME NEW p \in Passes, pass[p].pc \notin {"deliver", "broken"}
       PROVE  \A i \in DOMAIN pass[p].items : pass[p].items[i].st # "trim"
  <2>1. Len(pass[p].items) = 0 BY <1>1, <1>13 DEF PassKept
  <2>2. pass[p].items \in Seq(ItemRec) BY <1>2 DEF Pass
  <2>3. DOMAIN pass[p].items = 1 .. Len(pass[p].items) BY <2>2, LenProperties
  <2> QED BY <2>1, <2>3
<1>14. ASSUME NEW p \in Passes, Process(p) PROVE DlqBounded'
  <2>1. CASE Pop(p)
    <3>1. pass[p].pc = "idle" /\ UNCHANGED <<dlq, untrimmed>> BY <2>1 DEF Pop, trimVars
    <3>2. \E w : pass' = [pass EXCEPT ![p] = w] BY <1>1, <2>1, Popped
    <3> QED BY <1>2, <1>11, <1>13, <3>1, <3>2
  <2>2. CASE ReadDue(p)
    <3>1. /\ UNCHANGED <<dlq, untrimmed>>
          /\ \A i \in DOMAIN pass[p].items : pass[p].items[i].st # "trim"
      BY <2>2 DEF ReadDue, queueVars, trimVars
    <3>2. \E w : pass' = [pass EXCEPT ![p] = w] BY <2>2 DEF ReadDue
    <3> QED BY <1>2, <1>11, <3>1, <3>2
  <2>3. CASE PushDue(p)
    <3>1. pass[p].pc = "push" /\ UNCHANGED <<dlq, untrimmed>> BY <2>3 DEF PushDue, trimVars
    <3>2. \E w : pass' = [pass EXCEPT ![p] = w] BY <2>3 DEF PushDue, AfterDue
    <3> QED BY <1>2, <1>11, <1>13, <3>1, <3>2
  <2>4. CASE PassBroken(p)
    <3>1. /\ UNCHANGED <<dlq, untrimmed>>
          /\ \A i \in DOMAIN pass[p].items : pass[p].items[i].st # "trim"
      BY <2>4 DEF PassBroken, queueVars, trimVars
    <3>2. \E w : pass' = [pass EXCEPT ![p] = w] BY <2>4 DEF PassBroken
    <3> QED BY <1>2, <1>11, <3>1, <3>2
  <2>5. ASSUME NEW i \in DOMAIN pass[p].items, Item(p, i) PROVE DlqBounded'
    <3>1. ASSUME NEW ok \in BOOLEAN, Deliver(p, i, ok) PROVE DlqBounded'
      <4>1. ItemMoves(p, i, IF ok THEN "done" ELSE "failed")
        BY <1>1, <3>1, ItemUpdate DEF Deliver, ItemState
      <4> QED BY <1>12, <3>1, <4>1 DEF Deliver, queueVars, trimVars
    <3>2. CASE FileRetry(p, i)
      <4>1. ItemMoves(p, i, "done") BY <1>1, <3>2, ItemUpdate DEF FileRetry, ItemState
      <4> QED BY <1>12, <3>2, <4>1 DEF FileRetry, trimVars
    <3>3. CASE DeadLetter(p, i)
      <4>1. ItemMoves(p, i, "trim") BY <1>1, <3>3, ItemUpdate DEF DeadLetter, ItemState
      <4>2. pass[p].items[i].st = "failed" /\ untrimmed' = untrimmed BY <3>3 DEF DeadLetter, trimVars
      <4>3. owed' = owed + 1 BY <1>1, <4>1, <4>2, BoundItem DEF owed
      <4>4. Len(dlq') = Len(dlq) + 1
        <5>1. [hook |-> pass[p].items[i].load.hook, stamp |-> stamp] \in Entry
          BY <1>1, PayloadOf DEF TypeOK, Entry
        <5>2. <<[hook |-> pass[p].items[i].load.hook, stamp |-> stamp]>> \in Seq(Entry)
          BY <5>1
        <5>3. Len(<<[hook |-> pass[p].items[i].load.hook, stamp |-> stamp]>>) = 1 OBVIOUS
        <5> QED BY <1>5, <1>6, <3>3, <5>2, <5>3, ConcatProperties DEF DeadLetter
      <4> QED BY <1>4, <1>5, <1>6, <1>7, <1>8, <4>2, <4>3, <4>4
    <3>4. CASE Trim(p, i)
      <4>1. untrimmed' = 0 /\ dlq' = SubSeq(dlq, 1, IF Len(dlq) < DlqMax THEN Len(dlq) ELSE DlqMax)
        BY <3>4 DEF Trim
      <4>2. Len(dlq') <= DlqMax
        <5> DEFINE n == IF Len(dlq) < DlqMax THEN Len(dlq) ELSE DlqMax
        <5>1. n \in Nat /\ n <= Len(dlq) /\ n <= DlqMax BY <1>5, <1>6
        <5> HIDE DEF n
        <5>2. \A k \in 1 .. n : dlq[k] \in Entry BY <1>5, <1>6, <5>1
        <5>3. Len(SubSeq(dlq, 1, n)) = IF 1 <= n THEN n - 1 + 1 ELSE 0
          BY <1>5, <1>6, <5>1, <5>2, SubSeqProperties
        <5>4. dlq' = SubSeq(dlq, 1, n) BY <4>1 DEF n
        <5> QED BY <1>5, <5>1, <5>3, <5>4
      <4> QED BY <1>4, <1>5, <1>6, <1>8, <4>1, <4>2
    <3> QED BY <2>5, <3>1, <3>2, <3>3, <3>4 DEF Item
  <2>6. ASSUME NEW load \in pass[p].due, ClaimDue(p, load) PROVE DlqBounded'
    <3>1. pass[p].pc = "due" /\ UNCHANGED <<dlq, untrimmed>> BY <2>6 DEF ClaimDue, trimVars
    <3>2. pass' = [pass EXCEPT ![p] =
                    [pass[p] EXCEPT !.pc = "push", !.claimed = <<load>>, !.due = @ \ {load}]]
      BY <1>2, <2>6 DEF ClaimDue
    <3> QED BY <1>2, <1>11, <1>13, <3>1, <3>2
  <2>7. ASSUME NEW load \in pass[p].due, ClaimMissed(p, load) PROVE DlqBounded'
    <3>1. pass[p].pc = "due" /\ UNCHANGED <<dlq, untrimmed>>
      BY <2>7 DEF ClaimMissed, queueVars, trimVars
    <3>2. \E w : pass' = [pass EXCEPT ![p] = w] BY <2>7 DEF ClaimMissed, AfterDue
    <3> QED BY <1>2, <1>11, <1>13, <3>1, <3>2
  <2> QED BY <1>14, <2>1, <2>2, <2>3, <2>4, <2>5, <2>6, <2>7 DEF Process
<1>15. ASSUME NEW p \in Passes, PassDies(p) PROVE DlqBounded'
  <2>1. /\ pass' = [pass EXCEPT ![p] = Idle] /\ dlq' = dlq
        /\ untrimmed' = untrimmed + Cardinality(Untrimmed(p))
    BY <1>15 DEF PassDies, queueVars
  <2>2. owed <= owed' + Cardinality(Untrimmed(p)) BY <1>1, <2>1, BoundDies DEF owed
  <2>3. Cardinality(Untrimmed(p)) \in Nat BY <1>1, UntrimmedFinite, FS_CardinalityType
  <2> QED BY <1>4, <1>5, <1>6, <1>7, <1>8, <2>1, <2>2, <2>3
<1>16. ASSUME NEW p \in Passes, NEW i \in DOMAIN pass[p].items, FilingFails(p, i) PROVE DlqBounded'
  <2>1. ItemMoves(p, i, "done") BY <1>1, <1>16, FilingMoves
  <2> QED BY <1>12, <1>16, <2>1 DEF FilingFails, queueVars, trimVars
<1>17. ASSUME NEW p \in Passes, NEW i \in DOMAIN pass[p].items, TrimFails(p, i) PROVE DlqBounded'
  <2>1. ItemMoves(p, i, "done") BY <1>1, <1>17, ItemUpdate DEF TrimFails, ItemState
  <2>2. pass[p].items[i].st = "trim" /\ untrimmed' = untrimmed + 1 /\ dlq' = dlq
    BY <1>17 DEF TrimFails, queueVars
  <2>3. owed' = owed - 1 BY <1>1, <2>1, <2>2, BoundItem DEF owed
  <2> QED BY <1>4, <1>5, <1>6, <1>7, <1>8, <2>2, <2>3
<1>18. ASSUME NEW r \in Replayers, ReplayRemove(r) PROVE DlqBounded'
  <2>1. dlq' = FirstRemoved(dlq, Head(replay[r].raw)) /\ UNCHANGED <<pass, untrimmed>>
    BY <1>18 DEF ReplayRemove, trimVars
  <2>2. Len(dlq') <= Len(dlq) BY <1>5, <2>1, Removed
  <2>3. \A p \in Passes : \A i \in DOMAIN pass[p].items :
           pass[p].items[i].st = "trim" =>
               i \in DOMAIN pass'[p].items /\ pass'[p].items[i].st = "trim"
    BY <2>1
  <2>4. untrimmed' = untrimmed BY <2>1
  <2> QED BY <1>1, <2>2, <2>3, <2>4, BoundKept
<1>19. CASE Fault
  BY <1>10, <1>15, <1>16, <1>17, <1>19
  DEF Fault, TriggerFails, DirectCrash, ReplayStops, OutcomeLost, queueVars, trimVars
<1>20. CASE UNCHANGED vars BY <1>10, <1>20 DEF vars, queueVars, trimVars
<1>21. ASSUME \/ Trigger \/ (\E h \in Hooks : Direct(h))
             \/ (\E o \in outcomes : RecordOutcome(o)) \/ (\E load \in retry : ComesDue(load))
       PROVE  DlqBounded'
  BY <1>10, <1>21 DEF Trigger, TriggerNext, Direct, DirectDeliver, RecordOutcome, ComesDue,
     queueVars, trimVars
<1>22. ASSUME NEW r \in Replayers, Replay(r) PROVE DlqBounded'
  BY <1>10, <1>18, <1>22 DEF Replay, ReplayRead, ReplayPush, queueVars, trimVars
<1> QED BY <1>14, <1>19, <1>20, <1>21, <1>22 DEF Next, Terminated

\* Two passes may each push a dead letter before either trims, a pass may die
\* between its LPUSH and its LTRIM, and a replay removes from the list meanwhile:
\* it is never longer than its maximum and what is still, or was never, trimmed for.
THEOREM DeadLettersBounded == Spec => []DlqBounded
<1> USE DeliveryAssumption
<1>1. Init => BoundInv
  <2> SUFFICES ASSUME Init PROVE BoundInv OBVIOUS
  <2>1. TypeOK /\ RawThere BY InitType DEF Init, RawThere, NoReplay
  <2>2. Len(<<>>) = 0 /\ Batch \in Nat /\ DlqMax \in Nat BY DEF DeliveryAssumption
  <2>3. PassKept BY <2>2 DEF Init, PassKept, Idle
  <2>4. pass \in [Passes -> Pass] BY <2>1 DEF TypeOK, Pass, ItemRec
  <2>5. Cardinality(OwedBy(pass)) \in Nat BY <2>3, <2>4, OwedFacts DEF PassKept
  <2>6. Len(dlq) = 0 /\ untrimmed = 0 BY <2>2 DEF Init
  <2>7. DlqBounded BY <2>2, <2>5, <2>6, BoundIs
  <2> QED BY <2>1, <2>3, <2>7 DEF BoundInv
<1>2. BoundInv /\ [Next]_vars => BoundInv'
  BY TypeStep, RawStep, PassStep, BoundStep DEF BoundInv
<1>3. BoundInv => DlqBounded BY DEF BoundInv
<1> QED BY <1>1, <1>2, <1>3, PTL DEF Spec

-----------------------------------------------------------------------------
(* One copy.                                                               *)

\* A step takes the payloads of H to place b, nowhere if b is "gone", and
\* leaves the others where they are.
Moves(H, b) ==
    \A h \in Hooks : \A k \in Kind : In(h, k)' <=> IF h \in H THEN k = b ELSE In(h, k)

\* Whatever moves as one goes on being in one place ...
LEMMA MoveApart ==
    ASSUME Apart, NEW H, NEW b, Moves(H, b), Pending' \subseteq Pending,
           b \in {"dlq", "gone"} \/ H \intersect Pending' = {}
    PROVE  Apart'
<1>1. \A h \in Hooks : \A k, m \in Kind : In(h, k)' /\ In(h, m)' => k = m
  BY DEF Apart, Moves
<1>2. ASSUME NEW h \in Pending', NEW k \in Kind, In(h, k)' PROVE k = "dlq"
  <2>1. h \in Hooks /\ h \in Pending BY <1>2 DEF Pending
  <2>2. CASE h \in H
    <3>1. k = b BY <1>2, <2>1, <2>2 DEF Moves
    <3>2. b = "dlq" \/ b = "gone" BY <2>2
    <3> QED BY <3>1, <3>2 DEF Kind
  <2>3. CASE h \notin H BY <1>2, <2>1, <2>3 DEF Moves, Apart
  <2> QED BY <2>2, <2>3
<1> QED BY <1>1, <1>2 DEF Apart

\* ... and somewhere.
LEMMA MoveCovered ==
    ASSUME Covered, NEW H, NEW b, Moves(H, b), hasCache' = hasCache,
           trimmed \subseteq trimmed', lost \subseteq lost',
           b \in Kind \/ (\A h \in H : h \in trimmed' \/ h \in lost') \/ ~hasCache
    PROVE  Covered'
BY DEF Covered, Moves

\* What a step that leaves a place alone keeps of it, when it has left alone
\* the posts of the webhooks that are there.
LEMMA Frame ==
    ASSUME TypeOK, Once, Budgeted, NEW H,
           \A h \in Hooks \ H : \A a \in Nat : Fits(h, a) => Fits(h, a)'
    PROVE  /\ toQueue' \subseteq toQueue /\ (\A h \in H : h \notin toQueue) => TriggerFits'
           /\ UNCHANGED queue =>
                 /\ Queued' = Queued /\ QueueOnce'
                 /\ (\A h \in H : h \notin Queued) => QueueFits'
           /\ UNCHANGED retry =>
                 /\ Retried' = Retried /\ RetryOnce'
                 /\ (\A h \in H : h \notin Retried) => RetryFits'
           /\ UNCHANGED pass =>
                 /\ \A p \in Passes : LiveIn(p)' = LiveIn(p) /\ ClaimedBy(p)' = ClaimedBy(p)
                 /\ ItemOnce' /\ ClaimOnce'
                 /\ (\A h \in H : \A p \in Passes : h \notin LiveIn(p)) => ItemFits'
                 /\ (\A h \in H : \A p \in Passes : h \notin ClaimedBy(p)) => ClaimFits'
           /\ UNCHANGED <<direct, hasCache>> =>
                 /\ DirectOnly'
                 /\ (\A h \in H : direct[h].pc # "post") => DirectFits'
           /\ UNCHANGED replay =>
                 /\ Pending' = Pending
                 /\ (\A h \in H : h \notin Pending) => PendingFits'
           /\ UNCHANGED <<dlq, replay, stamp>> => Listed' = Listed /\ DlqOnce' /\ RawOnce'
<1>0. \A x \in Payload : x.hook \in Hooks /\ x.attempt \in Nat BY DEF Payload, Attempt
<1>1. toQueue \subseteq Hooks /\ retry \subseteq Payload BY DEF TypeOK
<1>2. ASSUME toQueue' \subseteq toQueue, \A h \in H : h \notin toQueue PROVE TriggerFits'
  BY <1>1, <1>2 DEF Budgeted, TriggerFits
<1>3. ASSUME UNCHANGED queue PROVE Queued' = Queued /\ QueueOnce'
  BY <1>3 DEF Queued, QueueOnce, Once
<1>4. ASSUME UNCHANGED queue, \A h \in H : h \notin Queued PROVE QueueFits'
  <2> SUFFICES ASSUME NEW i \in DOMAIN queue
               PROVE Fits(queue[i].hook, queue[i].attempt)'
    BY <1>4 DEF QueueFits
  <2>1. queue[i] \in Payload BY DEF TypeOK
  <2>2. queue[i].hook \in Hooks /\ queue[i].attempt \in Nat BY <1>0, <2>1
  <2>3. queue[i].hook \in Hooks \ H BY <1>4, <2>2 DEF Queued
  <2>4. Fits(queue[i].hook, queue[i].attempt) BY DEF Budgeted, QueueFits
  <2>5. \A h, a : h = queue[i].hook /\ a = queue[i].attempt /\ Fits(h, a)' =>
           Fits(queue[i].hook, queue[i].attempt)'
    BY <1>4 DEF Fits
  <2> QED BY <2>2, <2>3, <2>4, <2>5
<1>5. ASSUME UNCHANGED retry PROVE Retried' = Retried /\ RetryOnce'
  BY <1>5 DEF Retried, RetryOnce, Once
<1>6. ASSUME UNCHANGED retry, \A h \in H : h \notin Retried PROVE RetryFits'
  <2> SUFFICES ASSUME NEW l \in retry PROVE Fits(l.hook, l.attempt)'
    BY <1>6 DEF RetryFits
  <2>1. l.hook \in Hooks /\ l.attempt \in Nat BY <1>0, <1>1
  <2>2. l.hook \in Hooks \ H BY <1>6, <2>1 DEF Retried
  <2> QED BY <2>1, <2>2 DEF Budgeted, RetryFits
<1>7. ASSUME UNCHANGED pass
      PROVE  /\ \A p \in Passes : LiveIn(p)' = LiveIn(p) /\ ClaimedBy(p)' = ClaimedBy(p)
             /\ ItemOnce' /\ ClaimOnce'
  BY <1>7 DEF LiveIn, ClaimedBy, Live, ItemOnce, ClaimOnce, Once
<1>8. ASSUME UNCHANGED pass, \A h \in H : \A p \in Passes : h \notin LiveIn(p) PROVE ItemFits'
  <2> SUFFICES ASSUME NEW p \in Passes, NEW i \in DOMAIN pass[p].items
               PROVE  LET load == pass[p].items[i].load IN
                      /\ pass[p].items[i].st = "post" => Fits(load.hook, load.attempt)'
                      /\ pass[p].items[i].st = "failed" => Fits(load.hook, load.attempt + 1)'
    BY <1>8 DEF ItemFits
  <2>1. pass[p].items[i].load.hook \in Hooks /\ pass[p].items[i].load.attempt \in Nat
    BY <1>0, PayloadOf
  <2>3. pass[p].items[i].load.attempt + 1 \in Nat BY <2>1
  <2>2. pass[p].items[i].st \in {"post", "failed"} => pass[p].items[i].load.hook \in Hooks \ H
    BY <1>8, <2>1 DEF LiveIn, Live
  <2> QED BY <1>8, <2>1, <2>2, <2>3 DEF Budgeted, ItemFits, Fits
<1>9. ASSUME UNCHANGED pass, \A h \in H : \A p \in Passes : h \notin ClaimedBy(p) PROVE ClaimFits'
  <2> SUFFICES ASSUME NEW p \in Passes, NEW i \in DOMAIN pass[p].claimed
               PROVE Fits(pass[p].claimed[i].hook, pass[p].claimed[i].attempt)'
    BY <1>9 DEF ClaimFits
  <2>1. pass[p].claimed \in Seq(Payload) BY DEF TypeOK
  <2>2. pass[p].claimed[i] \in Payload BY <2>1
  <2>3. pass[p].claimed[i].hook \in Hooks /\ pass[p].claimed[i].attempt \in Nat BY <1>0, <2>2
  <2>4. pass[p].claimed[i].hook \in Hooks \ H BY <1>9, <2>3 DEF ClaimedBy
  <2> QED BY <1>9, <2>3, <2>4 DEF Budgeted, ClaimFits, Fits
<1>10. ASSUME UNCHANGED <<direct, hasCache>> PROVE DirectOnly' BY <1>10 DEF Once, DirectOnly
<1>11. ASSUME UNCHANGED direct, \A h \in H : direct[h].pc # "post" PROVE DirectFits'
  <2> SUFFICES ASSUME NEW h \in Hooks, direct[h].pc = "post" PROVE Fits(h, direct[h].attempt)'
    BY <1>11 DEF DirectFits
  <2>1. direct[h].attempt \in Nat BY DEF TypeOK, Attempt
  <2> QED BY <1>11, <2>1 DEF Budgeted, DirectFits, Fits
<1>12. ASSUME UNCHANGED replay PROVE Pending' = Pending
  BY <1>12 DEF Pending, Unpushed
<1>13. ASSUME UNCHANGED replay, \A h \in H : h \notin Pending PROVE PendingFits'
  BY <1>12, <1>13 DEF Budgeted, PendingFits, Pending
<1>14. ASSUME UNCHANGED <<dlq, replay, stamp>> PROVE Listed' = Listed /\ DlqOnce' /\ RawOnce'
  BY <1>14 DEF Listed, DlqOnce, RawOnce, Replaced, Unpushed, Once
<1> QED BY <1>2, <1>3, <1>4, <1>5, <1>6, <1>7, <1>8, <1>9, <1>10, <1>11, <1>12, <1>13, <1>14

\* Where a payload in one place is not.
LEMMA OnlyIn ==
    ASSUME Apart, NEW h \in Hooks, NEW k \in Kind, In(h, k)
    PROVE  /\ k # "toQueue" => h \notin toQueue
           /\ k # "queue" => h \notin Queued
           /\ k # "retry" => h \notin Retried
           /\ k # "item" => \A p \in Passes : h \notin LiveIn(p)
           /\ k # "claimed" => \A p \in Passes : h \notin ClaimedBy(p)
           /\ k # "direct" => direct[h].pc # "post"
           /\ k # "dlq" => h \notin Listed /\ h \notin Pending
           /\ k # "received" => h \notin received
<1>1. \A m \in Kind : In(h, m) => m = k BY DEF Apart
<1>2. h \in Pending => k = "dlq" BY DEF Apart
<1> QED BY <1>1, <1>2 DEF In, Kind

\* Moves, place by place.
LEMMA MovesIs ==
    ASSUME NEW H, NEW b,
           \A h \in Hooks :
              /\ h \in toQueue' <=> IF h \in H THEN b = "toQueue" ELSE h \in toQueue
              /\ h \in Queued' <=> IF h \in H THEN b = "queue" ELSE h \in Queued
              /\ h \in Retried' <=> IF h \in H THEN b = "retry" ELSE h \in Retried
              /\ (\E p \in Passes : h \in LiveIn(p)') <=>
                    IF h \in H THEN b = "item" ELSE \E p \in Passes : h \in LiveIn(p)
              /\ (\E p \in Passes : h \in ClaimedBy(p)') <=>
                    IF h \in H THEN b = "claimed" ELSE \E p \in Passes : h \in ClaimedBy(p)
              /\ direct'[h].pc = "post" <=> IF h \in H THEN b = "direct" ELSE direct[h].pc = "post"
              /\ h \in Listed' <=> IF h \in H THEN b = "dlq" ELSE h \in Listed
              /\ h \in received' <=> IF h \in H THEN b = "received" ELSE h \in received
    PROVE  Moves(H, b)
<1> SUFFICES ASSUME NEW h \in Hooks, NEW k \in Kind
             PROVE In(h, k)' <=> IF h \in H THEN k = b ELSE In(h, k)
  BY DEF Moves
<1>1. CASE k = "toQueue" BY <1>1 DEF In
<1>2. CASE k = "queue" BY <1>2 DEF In
<1>3. CASE k = "retry" BY <1>3 DEF In
<1>4. CASE k = "item" BY <1>4 DEF In
<1>5. CASE k = "claimed" BY <1>5 DEF In
<1>6. CASE k = "direct" BY <1>6 DEF In
<1>7. CASE k = "dlq" BY <1>7 DEF In
<1>8. CASE k = "received" BY <1>8 DEF In
<1> QED BY <1>1, <1>2, <1>3, <1>4, <1>5, <1>6, <1>7, <1>8 DEF Kind

\* What an item's move makes of the live ones ...
LEMMA ItemEffect ==
    ASSUME TypeOK, TypeOK', Once, NEW p \in Passes, NEW i \in DOMAIN pass[p].items, NEW st,
           ItemMoves(p, i, st), Live(p, i)
    PROVE  /\ pass[p].items[i].load.hook \in LiveIn(p)
           /\ \A q \in Passes : ClaimedBy(q)' = ClaimedBy(q)
           /\ ClaimOnce' /\ ItemOnce'
           /\ st \notin {"post", "failed"} =>
                 \A q \in Passes : LiveIn(q)' = LiveIn(q) \ {pass[p].items[i].load.hook}
           /\ st \in {"post", "failed"} => \A q \in Passes : LiveIn(q)' = LiveIn(q)
<1> DEFINE h == pass[p].items[i].load.hook
<1>1. h \in Hooks BY PayloadOf
<1>2. /\ \A q \in Passes : DOMAIN pass'[q].items = DOMAIN pass[q].items
      /\ \A q \in Passes : pass'[q].claimed = pass[q].claimed
      /\ \A q \in Passes : \A j \in DOMAIN pass[q].items :
            /\ pass'[q].items[j].load = pass[q].items[j].load
            /\ pass'[q].items[j].st = IF q = p /\ j = i THEN st ELSE pass[q].items[j].st
  BY DEF ItemMoves
<1>3. h \in LiveIn(p) BY <1>1 DEF LiveIn
<1>4. \A q \in Passes : ClaimedBy(q)' = ClaimedBy(q) BY <1>2 DEF ClaimedBy
<1>5. ClaimOnce' BY <1>4 DEF Once, ClaimOnce
<1>6. \A q \in Passes : \A j \in DOMAIN pass[q].items :
         Live(q, j)' <=> IF q = p /\ j = i THEN st \in {"post", "failed"} ELSE Live(q, j)
  BY <1>2 DEF Live
<1>7. \A q \in Passes : \A j \in DOMAIN pass[q].items :
         Live(q, j) /\ pass[q].items[j].load.hook = h => q = p /\ j = i
  BY DEF Once, ItemOnce
<1>8. \A q \in Passes : \A j \in DOMAIN pass[q].items : Live(q, j)' => Live(q, j)
  BY <1>6
<1>9. ItemOnce' BY <1>2, <1>8 DEF Once, ItemOnce
<1> HIDE DEF h
<1>10. ASSUME NEW q \in Passes, NEW g \in Hooks
       PROVE g \in LiveIn(q)' <=>
                \E j \in DOMAIN pass[q].items : Live(q, j)' /\ pass[q].items[j].load.hook = g
  BY <1>2 DEF LiveIn
<1>11. ASSUME st \notin {"post", "failed"}, NEW q \in Passes PROVE LiveIn(q)' = LiveIn(q) \ {h}
  <2>1. ASSUME NEW g \in Hooks PROVE g \in LiveIn(q)' <=> g \in LiveIn(q) /\ g # h
    <3>1. g \in LiveIn(q) <=>
             \E j \in DOMAIN pass[q].items : Live(q, j) /\ pass[q].items[j].load.hook = g
      BY DEF LiveIn
    <3>2. \A j \in DOMAIN pass[q].items : pass[q].items[j].load.hook = g =>
              (Live(q, j)' <=> Live(q, j) /\ g # h)
      <4> SUFFICES ASSUME NEW j \in DOMAIN pass[q].items, pass[q].items[j].load.hook = g
                   PROVE Live(q, j)' <=> Live(q, j) /\ g # h
        OBVIOUS
      <4>1. CASE q = p /\ j = i BY <1>6, <1>11, <4>1 DEF h
      <4>2. CASE ~ (q = p /\ j = i)
        <5>1. Live(q, j)' <=> Live(q, j) BY <1>6, <4>2
        <5>2. Live(q, j) => g # h BY <1>7, <4>2
        <5> QED BY <5>1, <5>2
      <4> QED BY <4>1, <4>2
    <3> QED BY <1>10, <3>1, <3>2
  <2>2. LiveIn(q) \subseteq Hooks /\ LiveIn(q)' \subseteq Hooks BY DEF LiveIn
  <2> QED BY <2>1, <2>2
<1>12. ASSUME st \in {"post", "failed"}, NEW q \in Passes PROVE LiveIn(q)' = LiveIn(q)
  <2>1. \A j \in DOMAIN pass[q].items : Live(q, j)' <=> Live(q, j) BY <1>6, <1>12
  <2>2. ASSUME NEW g \in Hooks PROVE g \in LiveIn(q)' <=> g \in LiveIn(q)
    BY <1>10, <2>1 DEF LiveIn
  <2>3. LiveIn(q) \subseteq Hooks /\ LiveIn(q)' \subseteq Hooks BY DEF LiveIn
  <2> QED BY <2>2, <2>3
<1> QED BY <1>3, <1>4, <1>5, <1>9, <1>11, <1>12 DEF h

\* ... and that of an item which was not live and is not then.
LEMMA ItemNoEffect ==
    ASSUME TypeOK, Once, NEW p \in Passes, NEW i \in DOMAIN pass[p].items, NEW st,
           ItemMoves(p, i, st), ~Live(p, i), st \notin {"post", "failed"}
    PROVE  /\ \A q \in Passes : ClaimedBy(q)' = ClaimedBy(q) /\ LiveIn(q)' = LiveIn(q)
           /\ ClaimOnce' /\ ItemOnce'
<1>2. /\ \A q \in Passes : DOMAIN pass'[q].items = DOMAIN pass[q].items
      /\ \A q \in Passes : pass'[q].claimed = pass[q].claimed
      /\ \A q \in Passes : \A j \in DOMAIN pass[q].items :
            /\ pass'[q].items[j].load = pass[q].items[j].load
            /\ pass'[q].items[j].st = IF q = p /\ j = i THEN st ELSE pass[q].items[j].st
  BY DEF ItemMoves
<1>3. \A q \in Passes : \A j \in DOMAIN pass[q].items : Live(q, j)' <=> Live(q, j)
  BY <1>2 DEF Live
<1>4. \A q \in Passes : ClaimedBy(q)' = ClaimedBy(q) BY <1>2 DEF ClaimedBy
<1>5. \A q \in Passes : LiveIn(q)' = LiveIn(q) BY <1>2, <1>3 DEF LiveIn
<1>6. ItemOnce'
  <2>1. \A q \in Passes : \A j \in DOMAIN pass[q].items : Live(q, j)' => Live(q, j)
    BY <1>3
  <2> QED BY <1>2, <2>1, SMTT(60) DEF Once, ItemOnce
<1>7. ClaimOnce' BY <1>4 DEF Once, ClaimOnce
<1> QED BY <1>4, <1>5, <1>6, <1>7

\* The budgets of items and claims, when item i does not stay to be posted or filed.
LEMMA ItemBudget ==
    ASSUME TypeOK, Budgeted, NEW p \in Passes, NEW i \in DOMAIN pass[p].items, NEW st,
           ItemMoves(p, i, st), st \notin {"post", "failed"}, UNCHANGED <<posts, replays>>
    PROVE  ItemFits' /\ ClaimFits'
<1>1. /\ \A q \in Passes : DOMAIN pass'[q].items = DOMAIN pass[q].items
      /\ \A q \in Passes : pass'[q].claimed = pass[q].claimed
      /\ \A q \in Passes : \A j \in DOMAIN pass[q].items :
            /\ pass'[q].items[j].load = pass[q].items[j].load
            /\ pass'[q].items[j].st = IF q = p /\ j = i THEN st ELSE pass[q].items[j].st
  BY DEF ItemMoves
<1>2. \A h, a : Fits(h, a)' <=> Fits(h, a) BY DEF Fits, Budget
<1>3. ClaimFits' BY <1>1 DEF Budgeted, ClaimFits, Fits, Budget
<1>4. ASSUME NEW q \in Passes, NEW j \in DOMAIN pass[q].items
      PROVE  LET load == pass'[q].items[j].load IN
             /\ pass'[q].items[j].st = "post" => Fits(load.hook, load.attempt)
             /\ pass'[q].items[j].st = "failed" => Fits(load.hook, load.attempt + 1)
  <2>1. pass'[q].items[j].st \in {"post", "failed"} =>
           /\ pass'[q].items[j].st = pass[q].items[j].st
           /\ pass'[q].items[j].load = pass[q].items[j].load
    BY <1>1
  <2> QED BY <2>1 DEF Budgeted, ItemFits
<1>5. ItemFits' BY <1>1, <1>4 DEF ItemFits, Fits, Budget
<1> QED BY <1>3, <1>5

\* A pass is put back to a state without items and claims.
Resets(p) ==
    /\ \A q \in Passes : q # p => pass'[q] = pass[q]
    /\ pass'[p].items = <<>> /\ pass'[p].claimed = <<>>

LEMMA ResetEffect ==
    ASSUME TypeOK, Once, Budgeted, NEW p \in Passes, Resets(p), UNCHANGED <<posts, replays>>
    PROVE  /\ \A q \in Passes : /\ LiveIn(q)' = IF q = p THEN {} ELSE LiveIn(q)
                                /\ ClaimedBy(q)' = IF q = p THEN {} ELSE ClaimedBy(q)
           /\ ItemOnce' /\ ClaimOnce' /\ ItemFits' /\ ClaimFits'
<1>1. DOMAIN pass'[p].items = {} /\ DOMAIN pass'[p].claimed = {} BY DEF Resets
<1>2. \A q \in Passes : q # p => pass'[q] = pass[q] BY DEF Resets
<1>3. LiveIn(p)' = {} /\ ClaimedBy(p)' = {} BY <1>1 DEF LiveIn, ClaimedBy
<1>4. \A q \in Passes : q # p => LiveIn(q)' = LiveIn(q) /\ ClaimedBy(q)' = ClaimedBy(q)
  BY <1>2 DEF LiveIn, ClaimedBy, Live
<1>5. ItemOnce'
  <2> SUFFICES ASSUME NEW q \in Passes, NEW s \in Passes,
                      NEW i \in DOMAIN pass'[q].items, NEW j \in DOMAIN pass'[s].items,
                      Live(q, i)', Live(s, j)',
                      pass'[q].items[i].load.hook = pass'[s].items[j].load.hook
               PROVE q = s /\ i = j
    BY DEF ItemOnce
  <2>1. q # p /\ s # p BY <1>1
  <2> QED BY <1>2, <2>1 DEF Once, ItemOnce, Live
<1>6. ClaimOnce' BY <1>3, <1>4 DEF Once, ClaimOnce
<1>7. ItemFits'
  <2> SUFFICES ASSUME NEW q \in Passes, NEW i \in DOMAIN pass'[q].items
               PROVE  (LET load == pass[q].items[i].load IN
                       /\ pass[q].items[i].st = "post" => Fits(load.hook, load.attempt)
                       /\ pass[q].items[i].st = "failed" => Fits(load.hook, load.attempt + 1))'
    BY DEF ItemFits
  <2>1. q # p BY <1>1
  <2> QED BY <1>2, <2>1 DEF Budgeted, ItemFits, Fits, Budget
<1>8. ClaimFits'
  <2> SUFFICES ASSUME NEW q \in Passes, NEW i \in DOMAIN pass'[q].claimed
               PROVE  Fits(pass[q].claimed[i].hook, pass[q].claimed[i].attempt)'
    BY DEF ClaimFits
  <2>1. q # p BY <1>1
  <2> QED BY <1>2, <2>1 DEF Budgeted, ClaimFits, Fits, Budget
<1> QED BY <1>3, <1>4, <1>5, <1>6, <1>7, <1>8

\* Frame, of a step that posts nothing.
LEMMA FrameStill ==
    ASSUME TypeOK, Once, Budgeted, UNCHANGED <<posts, replays>>
    PROVE  /\ PostsFit'
           /\ toQueue' \subseteq toQueue => TriggerFits'
           /\ UNCHANGED queue => Queued' = Queued /\ QueueOnce' /\ QueueFits'
           /\ UNCHANGED retry => Retried' = Retried /\ RetryOnce' /\ RetryFits'
           /\ UNCHANGED pass =>
                 /\ \A p \in Passes : LiveIn(p)' = LiveIn(p) /\ ClaimedBy(p)' = ClaimedBy(p)
                 /\ ItemOnce' /\ ClaimOnce' /\ ItemFits' /\ ClaimFits'
           /\ UNCHANGED <<direct, hasCache>> => DirectOnly' /\ DirectFits'
           /\ UNCHANGED replay => Pending' = Pending /\ PendingFits'
           /\ UNCHANGED <<dlq, replay, stamp>> => Listed' = Listed /\ DlqOnce' /\ RawOnce'
<1>1. PostsFit' BY DEF Budgeted, PostsFit, Budget
<1>2. \A h \in Hooks : \A a : Fits(h, a) => Fits(h, a)' BY DEF Fits, Budget
<1> DEFINE H == {}
<1>3. \A h \in Hooks \ H : \A a : Fits(h, a) => Fits(h, a)' BY <1>2
<1>4. \A h \in H : FALSE OBVIOUS
<1> HIDE DEF H
<1> QED BY <1>1, <1>3, <1>4, Frame

\* RPUSH of a payload whose webhook is not queued.
LEMMA QueueAppend ==
    ASSUME TypeOK, Once, Budgeted, NEW load \in Payload, queue' = Append(queue, load),
           load.hook \notin Queued, Fits(load.hook, load.attempt), UNCHANGED <<posts, replays>>
    PROVE  Queued' = Queued \union {load.hook} /\ QueueOnce' /\ QueueFits'
<1>1. queue \in Seq(Payload) /\ Len(queue) \in Nat /\ DOMAIN queue = 1 .. Len(queue)
  BY LenProperties DEF TypeOK
<1>2. /\ Len(queue') = Len(queue) + 1
      /\ DOMAIN queue' = 1 .. Len(queue) + 1
      /\ \A i \in 1 .. Len(queue) : queue'[i] = queue[i]
      /\ queue'[Len(queue) + 1] = load
  BY <1>1, AppendProperties
<1>3. load.hook \in Hooks BY DEF Payload
<1>4. \A i \in 1 .. Len(queue) : queue[i].hook \in Queued
  <2>1. \A i \in 1 .. Len(queue) : queue[i] \in Payload BY <1>1
  <2> QED BY <1>1, <2>1 DEF Queued, Payload
<1>5. \A i \in DOMAIN queue' : i \in 1 .. Len(queue) \/ i = Len(queue) + 1 BY <1>1, <1>2
<1>6. Queued' = Queued \union {load.hook}
  <2>1. \A g \in Hooks : g \in Queued' <=> g \in Queued \/ g = load.hook
    <3> SUFFICES ASSUME NEW g \in Hooks PROVE g \in Queued' <=> g \in Queued \/ g = load.hook
      OBVIOUS
    <3>1. g \in Queued' => g \in Queued \/ g = load.hook BY <1>1, <1>2, <1>5 DEF Queued
    <3>2. g \in Queued => g \in Queued' BY <1>1, <1>2 DEF Queued
    <3>3. Len(queue) + 1 \in DOMAIN queue' BY <1>1, <1>2
    <3>4. g = load.hook => g \in Queued' BY <1>2, <3>3 DEF Queued
    <3> QED BY <3>1, <3>2, <3>4
  <2>2. Queued \subseteq Hooks /\ Queued' \subseteq Hooks BY DEF Queued
  <2> QED BY <1>3, <2>1, <2>2
<1>7. QueueOnce'
  <2> SUFFICES ASSUME NEW i \in DOMAIN queue', NEW j \in DOMAIN queue',
                      queue'[i].hook = queue'[j].hook
               PROVE i = j
    BY DEF QueueOnce
  <2>1. CASE i \in 1 .. Len(queue) /\ j \in 1 .. Len(queue)
    BY <1>1, <1>2, <2>1 DEF Once, QueueOnce
  <2>2. CASE i = Len(queue) + 1 /\ j \in 1 .. Len(queue) BY <1>2, <1>4, <2>2
  <2>3. CASE j = Len(queue) + 1 /\ i \in 1 .. Len(queue) BY <1>2, <1>4, <2>3
  <2> QED BY <1>5, <2>1, <2>2, <2>3
<1>8. QueueFits'
  <2> SUFFICES ASSUME NEW i \in DOMAIN queue' PROVE Fits(queue[i].hook, queue[i].attempt)'
    BY DEF QueueFits
  <2>1. CASE i \in 1 .. Len(queue)
    <3>1. Fits(queue[i].hook, queue[i].attempt) BY <1>1, <2>1 DEF Budgeted, QueueFits
    <3> QED BY <1>2, <2>1, <3>1 DEF Fits, Budget
  <2>2. CASE i = Len(queue) + 1 BY <1>2, <2>2 DEF Fits, Budget
  <2> QED BY <1>5, <2>1, <2>2
<1> QED BY <1>6, <1>7, <1>8

-----------------------------------------------------------------------------
(* The trigger and the deliveries without a cache.                         *)

LEMMA KeepTriggerNext ==
    ASSUME DeliveryAssumption, IInv, NEW h \in Hooks, TriggerNext(h)
    PROVE  Kept'
<1>1. TypeOK /\ Apart /\ Covered /\ Once /\ Budgeted BY DEF IInv, Kept
<1>2. In(h, "toQueue") /\ "toQueue" \in Kind BY DEF TriggerNext, In, Kind
<1>3. /\ h \notin Queued /\ h \notin Retried /\ direct[h].pc # "post" /\ h \notin Listed
      /\ h \notin Pending /\ h \notin received
      /\ \A p \in Passes : h \notin LiveIn(p) /\ h \notin ClaimedBy(p)
  BY <1>1, <1>2, OnlyIn
<1>4. /\ toQueue' = toQueue \ {h}
      /\ UNCHANGED <<retry, dlq, pass, replay, stamp, hasCache, posts, replays, received,
                     trimmed, lost>>
  BY DEF TriggerNext, setVars, pastVars, trimVars
<1>5. Fits(h, 0) BY <1>1 DEF Budgeted, TriggerFits, TriggerNext
<1>6. /\ PostsFit' /\ TriggerFits' /\ Retried' = Retried /\ RetryOnce' /\ RetryFits'
      /\ \A p \in Passes : LiveIn(p)' = LiveIn(p) /\ ClaimedBy(p)' = ClaimedBy(p)
      /\ ItemOnce' /\ ClaimOnce' /\ ItemFits' /\ ClaimFits'
      /\ Pending' = Pending /\ PendingFits' /\ Listed' = Listed /\ DlqOnce' /\ RawOnce'
  <2>1. toQueue' \subseteq toQueue BY <1>4
  <2> QED BY <1>1, <1>4, <2>1, FrameStill
<1>7. CASE hasCache
  <2>1. queue' = Append(queue, [hook |-> h, attempt |-> 0]) /\ UNCHANGED direct
    BY <1>7 DEF TriggerNext
  <2>2. [hook |-> h, attempt |-> 0] \in Payload BY DEF Payload, Attempt, DeliveryAssumption
  <2>3. Queued' = Queued \union {h} /\ QueueOnce' /\ QueueFits'
    <3> DEFINE load == [hook |-> h, attempt |-> 0]
    <3>1. load \in Payload /\ load.hook = h /\ load.attempt = 0 /\ queue' = Append(queue, load)
      BY <2>1, <2>2
    <3> HIDE DEF load
    <3> QED BY <1>1, <1>3, <1>4, <1>5, <3>1, QueueAppend
  <2>4. DirectOnly' /\ DirectFits' BY <1>1, <1>4, <2>1, FrameStill
  <2>5. Moves({h}, "queue")
    BY <1>3, <1>4, <1>6, <2>1, <2>3 DEF Moves, In, Kind
  <2>6. Apart' BY <1>1, <1>3, <1>6, <2>5, MoveApart
  <2>7. Covered' BY <1>1, <1>4, <2>5, MoveCovered DEF Kind
  <2> QED BY <1>6, <2>3, <2>4, <2>6, <2>7 DEF Kept, Once, Budgeted
<1>8. CASE ~hasCache
  <2>1. direct' = [direct EXCEPT ![h].pc = "post"] /\ UNCHANGED queue
    BY <1>8 DEF TriggerNext
  <2>2. Queued' = Queued /\ QueueOnce' /\ QueueFits' BY <1>1, <1>4, <2>1, FrameStill
  <2>3. /\ direct'[h].pc = "post" /\ direct'[h].attempt = direct[h].attempt
        /\ \A g \in Hooks : g # h => direct'[g] = direct[g]
    BY <1>1, <2>1 DEF TypeOK
  <2>4. DirectOnly' BY <1>4, <1>8 DEF DirectOnly
  <2>5. DirectFits'
    <3>1. \A g, a : Fits(g, a)' <=> Fits(g, a) BY <1>4 DEF Fits, Budget
    <3>2. direct[h].attempt \in Nat BY <1>1 DEF TypeOK, Attempt
    <3>3. Fits(h, direct[h].attempt)
      BY <1>1, <1>5, <3>2 DEF Fits, Budget, Round, TypeOK, DeliveryAssumption
    <3> QED BY <1>1, <1>4, <2>3, <3>3 DEF Budgeted, DirectFits, Fits, Budget
  <2>6. Moves({h}, "direct") BY <1>3, <1>4, <1>6, <2>2, <2>3 DEF Moves, In, Kind
  <2>7. Apart' BY <1>1, <1>3, <1>6, <2>6, MoveApart
  <2>8. Covered' BY <1>1, <1>4, <2>6, MoveCovered DEF Kind
  <2> QED BY <1>6, <2>2, <2>4, <2>5, <2>7, <2>8 DEF Kept, Once, Budgeted
<1> QED BY <1>7, <1>8

LEMMA KeepTriggerFails ==
    ASSUME IInv, TriggerFails
    PROVE  Kept'
<1>1. TypeOK /\ Apart /\ Covered /\ Once /\ Budgeted BY DEF IInv, Kept
<1>2. /\ toQueue' = {} /\ lost' = lost \union toQueue
      /\ UNCHANGED <<queue, retry, dlq, pass, direct, replay, stamp, hasCache, posts, replays,
                     received, trimmed>>
  BY DEF TriggerFails, pastVars, trimVars
<1>3. /\ PostsFit' /\ TriggerFits' /\ Retried' = Retried /\ RetryOnce' /\ RetryFits'
      /\ Queued' = Queued /\ QueueOnce' /\ QueueFits'
      /\ \A p \in Passes : LiveIn(p)' = LiveIn(p) /\ ClaimedBy(p)' = ClaimedBy(p)
      /\ ItemOnce' /\ ClaimOnce' /\ ItemFits' /\ ClaimFits' /\ DirectOnly' /\ DirectFits'
      /\ Pending' = Pending /\ PendingFits' /\ Listed' = Listed /\ DlqOnce' /\ RawOnce'
  <2>1. toQueue' \subseteq toQueue BY <1>2
  <2> QED BY <1>1, <1>2, <2>1, FrameStill
<1>4. ASSUME NEW h \in toQueue
      PROVE  \A k \in Kind : In(h, k) => k = "toQueue"
  <2>1. h \in Hooks /\ In(h, "toQueue") /\ "toQueue" \in Kind BY <1>1 DEF In, Kind, TypeOK
  <2> QED BY <1>1, <2>1 DEF Apart
<1>5. Moves(toQueue, "gone")
  <2> SUFFICES ASSUME NEW h \in Hooks, NEW k \in Kind
               PROVE In(h, k)' <=> IF h \in toQueue THEN k = "gone" ELSE In(h, k)
    BY DEF Moves
  <2>1. In(h, k)' <=> k # "toQueue" /\ In(h, k) BY <1>2, <1>3 DEF In
  <2>2. In(h, "toQueue") <=> h \in toQueue BY DEF In
  <2>3. k # "gone" BY DEF Kind
  <2> QED BY <1>4, <2>1, <2>2, <2>3
<1>6. Apart' BY <1>1, <1>3, <1>5, MoveApart
<1>7. Covered'
  <2>1. trimmed \subseteq trimmed' /\ lost \subseteq lost' /\ \A h \in toQueue : h \in lost' BY <1>2
  <2> QED BY <1>1, <1>2, <1>5, <2>1, MoveCovered
<1> QED BY <1>3, <1>6, <1>7 DEF Kept, Once, Budgeted

LEMMA KeepDirectCrash ==
    ASSUME IInv, NEW h \in Hooks, DirectCrash(h)
    PROVE  Kept'
<1>1. TypeOK /\ Apart /\ Covered /\ Once /\ Budgeted BY DEF IInv, Kept
<1>2. In(h, "direct") /\ "direct" \in Kind BY DEF DirectCrash, In, Kind
<1>3. /\ h \notin toQueue /\ h \notin Queued /\ h \notin Retried /\ h \notin Listed
      /\ h \notin Pending /\ h \notin received
      /\ \A p \in Passes : h \notin LiveIn(p) /\ h \notin ClaimedBy(p)
  BY <1>1, <1>2, OnlyIn
<1>4. /\ lost' = lost \union {h}
      /\ UNCHANGED <<toQueue, queue, retry, dlq, pass, replay, stamp, hasCache, posts, replays,
                     received, trimmed>>
  BY DEF DirectCrash, queueVars, rowVars, pastVars, trimVars
<1>5. /\ direct'[h].pc = "done" /\ direct[h].pc = "post"
      /\ \A g \in Hooks : g # h => direct'[g] = direct[g]
  BY <1>1 DEF TypeOK, DirectCrash
<1>6. /\ PostsFit' /\ TriggerFits' /\ Retried' = Retried /\ RetryOnce' /\ RetryFits'
      /\ Queued' = Queued /\ QueueOnce' /\ QueueFits'
      /\ \A p \in Passes : LiveIn(p)' = LiveIn(p) /\ ClaimedBy(p)' = ClaimedBy(p)
      /\ ItemOnce' /\ ClaimOnce' /\ ItemFits' /\ ClaimFits'
      /\ Pending' = Pending /\ PendingFits' /\ Listed' = Listed /\ DlqOnce' /\ RawOnce'
  <2>1. toQueue' \subseteq toQueue BY <1>4
  <2> QED BY <1>1, <1>4, <2>1, FrameStill
<1>7. DirectOnly' BY <1>1, <1>4, <1>5 DEF Once, DirectOnly
<1>8. DirectFits' BY <1>1, <1>4, <1>5 DEF Budgeted, DirectFits, Fits, Budget
<1>9. Moves({h}, "gone") BY <1>3, <1>4, <1>5, <1>6 DEF Moves, In, Kind
<1>10. Apart' BY <1>1, <1>6, <1>9, MoveApart
<1>11. Covered'
  <2>1. \A g \in {h} : g \in trimmed' \/ g \in lost' BY <1>4
  <2> QED BY <1>1, <1>4, <1>9, <2>1, MoveCovered
<1> QED BY <1>6, <1>7, <1>8, <1>10, <1>11 DEF Kept, Once, Budgeted

\* A POST of h uses one attempt of h up, and no other webhook's.
LEMMA Posted ==
    ASSUME DeliveryAssumption, TypeOK, Budgeted, NEW h \in Hooks, NEW ok \in BOOLEAN,
           Delivered(h, ok), UNCHANGED replays, NEW a \in Attempt, Fits(h, a)
    PROVE  /\ \A g \in Hooks \ {h} : \A c : Fits(g, c) => Fits(g, c)'
           /\ PostsFit'
           /\ \A c : c = a + 1 => Fits(h, c)'
           /\ received' = IF ok THEN received \union {h} ELSE received
<1>1. posts \in [Hooks -> Nat] /\ posts' = [posts EXCEPT ![h] = @ + 1]
  BY DEF TypeOK, Delivered
<1>2. Budget' = Budget BY DEF Budget
<1>3. \A g \in Hooks : g # h => posts'[g] = posts[g] BY <1>1
<1>4. posts'[h] = posts[h] + 1 /\ posts[h] \in Nat BY <1>1
<1>5. RetryAttempts \in Nat /\ Round \in Nat /\ Budget \in Nat
  <2>1. RetryAttempts \in Nat /\ 1 + replays \in Nat BY DEF DeliveryAssumption, TypeOK
  <2>2. Round \in Nat BY <2>1 DEF Round
  <2>3. \A x, y \in Nat : x * y \in Nat OBVIOUS
  <2> QED BY <2>1, <2>2, <2>3 DEF Budget
<1>6. a \in Nat /\ a <= RetryAttempts BY <1>5 DEF Attempt
<1>7. posts[h] + Round <= Budget + a BY DEF Fits
<1> HIDE DEF Budget
<1>8. \A g \in Hooks \ {h} : \A c : Fits(g, c) => Fits(g, c)' BY <1>2, <1>3 DEF Fits
<1>9. posts'[h] <= Budget BY <1>4, <1>5, <1>6, <1>7 DEF Round
<1>10. PostsFit'
  <2>1. \A g \in Hooks : posts[g] <= Budget BY DEF Budgeted, PostsFit
  <2> QED BY <1>2, <1>3, <1>9, <2>1 DEF PostsFit
<1>11. posts'[h] + Round <= Budget' + (a + 1) BY <1>2, <1>4, <1>5, <1>6, <1>7
<1> QED BY <1>8, <1>10, <1>11 DEF Fits, Delivered

LEMMA KeepDirectDeliver ==
    ASSUME DeliveryAssumption, IInv, NEW h \in Hooks, NEW ok \in BOOLEAN, DirectDeliver(h, ok)
    PROVE  Kept'
<1> DEFINE b == IF ok THEN "received"
                ELSE IF direct[h].attempt >= RetryAttempts THEN "gone" ELSE "direct"
<1>1. TypeOK /\ Apart /\ Covered /\ Once /\ Budgeted BY DEF IInv, Kept
<1>2. In(h, "direct") /\ "direct" \in Kind BY DEF DirectDeliver, In, Kind
<1>3. /\ h \notin toQueue /\ h \notin Queued /\ h \notin Retried /\ h \notin Listed
      /\ h \notin Pending /\ h \notin received
      /\ \A p \in Passes : h \notin LiveIn(p) /\ h \notin ClaimedBy(p)
  BY <1>1, <1>2, OnlyIn
<1>4. UNCHANGED <<toQueue, queue, retry, dlq, pass, replay, stamp, hasCache, replays, lost,
                  trimmed>>
  BY DEF DirectDeliver, queueVars, setVars, trimVars
<1>5. direct[h].pc = "post" /\ direct[h].attempt \in Attempt /\ Fits(h, direct[h].attempt)
  BY <1>1 DEF TypeOK, DirectDeliver, Budgeted, DirectFits
<1>6. /\ \A g \in Hooks \ {h} : \A c : Fits(g, c) => Fits(g, c)'
      /\ PostsFit'
      /\ \A c : c = direct[h].attempt + 1 => Fits(h, c)'
      /\ received' = IF ok THEN received \union {h} ELSE received
  BY <1>1, <1>4, <1>5, Posted DEF DirectDeliver
<1>7. /\ TriggerFits' /\ Retried' = Retried /\ RetryOnce' /\ RetryFits'
      /\ Queued' = Queued /\ QueueOnce' /\ QueueFits'
      /\ \A p \in Passes : LiveIn(p)' = LiveIn(p) /\ ClaimedBy(p)' = ClaimedBy(p)
      /\ ItemOnce' /\ ClaimOnce' /\ ItemFits' /\ ClaimFits'
      /\ Pending' = Pending /\ PendingFits' /\ Listed' = Listed /\ DlqOnce' /\ RawOnce'
  <2> DEFINE H == {h}
  <2>1. \A g \in Hooks \ H : \A c : Fits(g, c) => Fits(g, c)' BY <1>6
  <2>2. \A g \in H : g = h OBVIOUS
  <2>3. toQueue' \subseteq toQueue BY <1>4
  <2> HIDE DEF H
  <2>4. /\ \A g \in H : g \notin toQueue /\ g \notin Queued /\ g \notin Retried /\ g \notin Pending
        /\ \A g \in H : \A p \in Passes : g \notin LiveIn(p)
        /\ \A g \in H : \A p \in Passes : g \notin ClaimedBy(p)
    BY <1>3, <2>2
  <2>5. /\ TriggerFits' /\ Retried' = Retried /\ RetryOnce' /\ RetryFits'
        /\ Queued' = Queued /\ QueueOnce' /\ QueueFits'
        /\ Pending' = Pending /\ PendingFits' /\ Listed' = Listed /\ DlqOnce' /\ RawOnce'
    BY <1>1, <1>4, <2>1, <2>3, <2>4, Frame
  <2>6. /\ \A p \in Passes : LiveIn(p)' = LiveIn(p) /\ ClaimedBy(p)' = ClaimedBy(p)
        /\ ItemOnce' /\ ClaimOnce' /\ ItemFits' /\ ClaimFits'
    BY <1>1, <1>4, <2>1, <2>4, Frame
  <2> QED BY <2>5, <2>6
<1>8. /\ \A g \in Hooks : g # h => direct'[g] = direct[g]
      /\ direct'[h].pc = IF ok \/ direct[h].attempt >= RetryAttempts THEN "done" ELSE "post"
      /\ direct'[h].pc = "post" => direct'[h].attempt = direct[h].attempt + 1
  BY <1>1 DEF TypeOK, DirectDeliver
<1>9. ~hasCache BY <1>1, <1>5 DEF Once, DirectOnly
<1>10. DirectOnly' BY <1>4, <1>9 DEF DirectOnly
<1>11. DirectFits'
  <2> SUFFICES ASSUME NEW g \in Hooks, direct'[g].pc = "post" PROVE Fits(g, direct[g].attempt)'
    BY DEF DirectFits
  <2>1. CASE g = h BY <1>6, <1>8, <2>1 DEF Fits
  <2>2. CASE g # h
    <3>1. direct'[g] = direct[g] /\ Fits(g, direct[g].attempt)
      BY <1>1, <1>8, <2>2 DEF Budgeted, DirectFits
    <3> QED BY <1>6, <2>2, <3>1 DEF Fits
  <2> QED BY <2>1, <2>2
<1>12. Moves({h}, b) BY <1>3, <1>4, <1>5, <1>6, <1>7, <1>8 DEF Moves, In, Kind
<1>13. Apart'
  <2>1. {h} \intersect Pending' = {} BY <1>3, <1>7
  <2> HIDE DEF b
  <2> QED BY <1>1, <1>7, <1>12, <2>1, MoveApart
<1>14. Covered' BY <1>4, <1>9 DEF Covered
<1> QED BY <1>6, <1>7, <1>10, <1>11, <1>13, <1>14 DEF Kept, Once, Budgeted

-----------------------------------------------------------------------------
(* The passes.                                                             *)

LEMMA KeepDeliver ==
    ASSUME DeliveryAssumption, IInv, TypeOK', NEW p \in Passes, NEW i \in DOMAIN pass[p].items,
           NEW ok \in BOOLEAN, Deliver(p, i, ok)
    PROVE  Kept'
<1>0. PICK h, a : h = pass[p].items[i].load.hook /\ a = pass[p].items[i].load.attempt
  OBVIOUS
<1> DEFINE st == IF ok THEN "done" ELSE "failed"
           b == IF ok THEN "received" ELSE "item"
<1>1. TypeOK /\ Apart /\ Covered /\ Once /\ Budgeted BY DEF IInv, Kept
<1>2. h \in Hooks /\ a \in Attempt BY <1>0, <1>1, PayloadOf
<1>3. ItemMoves(p, i, st) BY <1>1, ItemUpdate DEF Deliver, ItemState
<1>4. Live(p, i) /\ pass[p].items[i].st = "post" BY DEF Live, Deliver
<1>5. /\ h \in LiveIn(p) /\ ItemOnce' /\ ClaimOnce'
      /\ \A q \in Passes : ClaimedBy(q)' = ClaimedBy(q)
      /\ \A q \in Passes : LiveIn(q)' = IF ok THEN LiveIn(q) \ {h} ELSE LiveIn(q)
  BY <1>0, <1>1, <1>3, <1>4, ItemEffect
<1>6. /\ DOMAIN pass'[p].items = DOMAIN pass[p].items
      /\ \A q \in Passes : q # p => pass'[q] = pass[q]
      /\ \A q \in Passes : pass'[q].claimed = pass[q].claimed
      /\ \A j \in DOMAIN pass[p].items :
            /\ pass'[p].items[j].load = pass[p].items[j].load
            /\ pass'[p].items[j].st = IF j = i THEN st ELSE pass[p].items[j].st
  BY <1>3 DEF ItemMoves
<1>7. \A q \in Passes : \A j \in DOMAIN pass[q].items :
         Live(q, j) /\ pass[q].items[j].load.hook = h => q = p /\ j = i
  BY <1>0, <1>1, <1>4 DEF Once, ItemOnce
<1>8. Fits(h, a) BY <1>0, <1>1, <1>4 DEF Budgeted, ItemFits
<1>9. /\ Delivered(h, ok)
      /\ UNCHANGED <<toQueue, queue, retry, dlq, direct, replay, stamp, hasCache, replays, lost,
                     trimmed>>
  BY <1>0 DEF Deliver, queueVars, setVars, trimVars
<1>10. pass[p].items[i].load \in Payload BY <1>1, PayloadOf
<1>11. In(h, "item") /\ "item" \in Kind BY <1>5 DEF In, Kind
<1>12. /\ h \notin toQueue /\ h \notin Queued /\ h \notin Retried /\ h \notin Listed
       /\ h \notin Pending /\ h \notin received /\ direct[h].pc # "post"
       /\ \A q \in Passes : h \notin ClaimedBy(q)
  BY <1>1, <1>2, <1>11, OnlyIn
<1>13. /\ \A g \in Hooks \ {h} : \A c : Fits(g, c) => Fits(g, c)'
       /\ PostsFit'
       /\ \A c : c = a + 1 => Fits(h, c)'
       /\ received' = IF ok THEN received \union {h} ELSE received
  BY <1>1, <1>2, <1>8, <1>9, Posted
<1>14. /\ TriggerFits' /\ Retried' = Retried /\ RetryOnce' /\ RetryFits'
       /\ Queued' = Queued /\ QueueOnce' /\ QueueFits' /\ DirectOnly' /\ DirectFits'
       /\ Pending' = Pending /\ PendingFits' /\ Listed' = Listed /\ DlqOnce' /\ RawOnce'
  <2> DEFINE H == {h}
  <2>1. \A g \in Hooks \ H : \A c : Fits(g, c) => Fits(g, c)' BY <1>13
  <2>2. \A g \in H : g = h OBVIOUS
  <2>3. toQueue' \subseteq toQueue BY <1>9
  <2> HIDE DEF H
  <2>4. \A g \in H : /\ g \notin toQueue /\ g \notin Queued /\ g \notin Retried
                     /\ g \notin Pending /\ direct[g].pc # "post"
    BY <1>12, <2>2
  <2> QED BY <1>1, <1>9, <2>1, <2>3, <2>4, Frame
<1>15. ClaimFits'
  <2> SUFFICES ASSUME NEW q \in Passes, NEW j \in DOMAIN pass[q].claimed
               PROVE Fits(pass[q].claimed[j].hook, pass[q].claimed[j].attempt)'
    BY <1>6 DEF ClaimFits
  <2>1. pass[q].claimed \in Seq(Payload) BY <1>1 DEF TypeOK
  <2>2. pass[q].claimed[j] \in Payload BY <2>1
  <2>3. pass[q].claimed[j].hook \in Hooks BY <2>2 DEF Payload
  <2>4. pass[q].claimed[j].hook \in Hooks \ {h} BY <1>12, <2>3 DEF ClaimedBy
  <2>5. Fits(pass[q].claimed[j].hook, pass[q].claimed[j].attempt) BY <1>1 DEF Budgeted, ClaimFits
  <2> QED BY <1>6, <1>13, <2>4, <2>5 DEF Fits
<1>16. ItemFits'
  <2> SUFFICES ASSUME NEW q \in Passes, NEW j \in DOMAIN pass'[q].items
               PROVE  (LET load == pass[q].items[j].load IN
                       /\ pass[q].items[j].st = "post" => Fits(load.hook, load.attempt)
                       /\ pass[q].items[j].st = "failed" => Fits(load.hook, load.attempt + 1))'
    BY DEF ItemFits
  <2>1. CASE q = p /\ j = i
    <3>1. pass'[p].items[i].load.hook = h /\ pass'[p].items[i].load.attempt = a
          /\ pass'[p].items[i].st = st
      BY <1>0, <1>6
    <3> QED BY <1>13, <2>1, <3>1 DEF Fits
  <2>2. CASE ~ (q = p /\ j = i)
    <3>1. /\ j \in DOMAIN pass[q].items /\ pass'[q].items[j].load = pass[q].items[j].load
          /\ pass'[q].items[j].st = pass[q].items[j].st
      BY <1>6, <2>2
    <3>2. pass[q].items[j].load.hook \in Hooks BY <1>1, <3>1, PayloadOf
    <3>3. pass[q].items[j].st \in {"post", "failed"} => pass[q].items[j].load.hook # h
      BY <1>7, <2>2, <3>1 DEF Live
    <3>4. LET load == pass[q].items[j].load IN
             /\ pass[q].items[j].st = "post" => Fits(load.hook, load.attempt)
             /\ pass[q].items[j].st = "failed" => Fits(load.hook, load.attempt + 1)
      BY <1>1, <3>1 DEF Budgeted, ItemFits
    <3> QED BY <1>13, <3>1, <3>2, <3>3, <3>4 DEF Fits
  <2> QED BY <2>1, <2>2
<1>17. Moves({h}, b) BY <1>2, <1>5, <1>9, <1>12, <1>13, <1>14 DEF Moves, In, Kind
<1>18. Apart'
  <2>1. {h} \intersect Pending' = {} BY <1>12, <1>14
  <2> HIDE DEF b
  <2> QED BY <1>1, <1>14, <1>17, <2>1, MoveApart
<1>19. Covered'
  <2>1. b \in Kind BY DEF Kind
  <2> HIDE DEF b
  <2> QED BY <1>1, <1>9, <1>17, <2>1, MoveCovered
<1> QED BY <1>5, <1>13, <1>14, <1>15, <1>16, <1>18, <1>19 DEF Kept, Once, Budgeted

LEMMA KeepFileRetry ==
    ASSUME DeliveryAssumption, IInv, TypeOK', NEW p \in Passes, NEW i \in DOMAIN pass[p].items,
           FileRetry(p, i)
    PROVE  Kept'
<1>0. PICK h, a, again :
         /\ h = pass[p].items[i].load.hook /\ a = pass[p].items[i].load.attempt
         /\ again = [pass[p].items[i].load EXCEPT !.attempt = @ + 1]
  OBVIOUS
<1>1. TypeOK /\ Apart /\ Covered /\ Once /\ Budgeted BY DEF IInv, Kept
<1>2. /\ h \in Hooks /\ a \in Attempt /\ again.hook = h /\ again.attempt = a + 1
  BY <1>0, <1>1, PayloadOf DEF Payload
<1>3. ItemMoves(p, i, "done") BY <1>1, ItemUpdate DEF FileRetry, ItemState
<1>4. Live(p, i) /\ pass[p].items[i].st = "failed" BY DEF Live, FileRetry
<1>5. /\ h \in LiveIn(p) /\ ItemOnce' /\ ClaimOnce'
      /\ \A q \in Passes : ClaimedBy(q)' = ClaimedBy(q) /\ LiveIn(q)' = LiveIn(q) \ {h}
  BY <1>0, <1>1, <1>3, <1>4, ItemEffect
<1>6. Fits(h, a + 1) BY <1>0, <1>1, <1>4 DEF Budgeted, ItemFits
<1>7. /\ retry' = retry \union {again}
      /\ UNCHANGED <<toQueue, queue, dlq, direct, replay, stamp, hasCache, posts, replays,
                     received, lost, trimmed>>
  BY <1>0 DEF FileRetry, setVars, pastVars, trimVars
<1>8. In(h, "item") /\ "item" \in Kind BY <1>5 DEF In, Kind
<1>9. /\ h \notin toQueue /\ h \notin Queued /\ h \notin Retried /\ h \notin Listed
      /\ h \notin Pending /\ h \notin received /\ direct[h].pc # "post"
      /\ \A q \in Passes : h \notin ClaimedBy(q)
  BY <1>1, <1>2, <1>8, OnlyIn
<1>10. /\ PostsFit' /\ TriggerFits' /\ Queued' = Queued /\ QueueOnce' /\ QueueFits'
       /\ DirectOnly' /\ DirectFits'
       /\ Pending' = Pending /\ PendingFits' /\ Listed' = Listed /\ DlqOnce' /\ RawOnce'
  <2>1. toQueue' \subseteq toQueue BY <1>7
  <2> QED BY <1>1, <1>7, <2>1, FrameStill
<1>11. ItemFits' /\ ClaimFits' BY <1>1, <1>3, <1>7, ItemBudget
<1>12. \A l \in retry : l.hook # h
  <2>1. \A l \in retry : l.hook \in Hooks BY <1>1 DEF TypeOK, Payload
  <2> QED BY <1>9, <2>1 DEF Retried
<1>13. Retried' = Retried \union {h} BY <1>2, <1>7 DEF Retried
<1>14. RetryOnce' BY <1>1, <1>2, <1>7, <1>12 DEF Once, RetryOnce
<1>15. RetryFits' BY <1>1, <1>2, <1>6, <1>7 DEF Budgeted, RetryFits, Fits, Budget
<1>16. Moves({h}, "retry") BY <1>2, <1>5, <1>7, <1>9, <1>10, <1>13 DEF Moves, In, Kind
<1>17. Apart'
  <2>1. {h} \intersect Pending' = {} BY <1>9, <1>10
  <2> QED BY <1>1, <1>10, <1>16, <2>1, MoveApart
<1>18. Covered' BY <1>1, <1>7, <1>16, MoveCovered DEF Kind
<1> QED BY <1>5, <1>10, <1>11, <1>14, <1>15, <1>17, <1>18 DEF Kept, Once, Budgeted

LEMMA KeepFilingFails ==
    ASSUME IInv, TypeOK', NEW p \in Passes, NEW i \in DOMAIN pass[p].items, FilingFails(p, i)
    PROVE  Kept'
<1>0. PICK h : h = pass[p].items[i].load.hook OBVIOUS
<1>1. TypeOK /\ Apart /\ Covered /\ Once /\ Budgeted BY DEF IInv, Kept
<1>2. h \in Hooks BY <1>0, <1>1, PayloadOf
<1>3. ItemMoves(p, i, "done") BY <1>1, FilingMoves
<1>4. Live(p, i) BY DEF Live, FilingFails
<1>5. /\ h \in LiveIn(p) /\ ItemOnce' /\ ClaimOnce'
      /\ \A q \in Passes : ClaimedBy(q)' = ClaimedBy(q) /\ LiveIn(q)' = LiveIn(q) \ {h}
  BY <1>0, <1>1, <1>3, <1>4, ItemEffect
<1>6. /\ lost' = lost \union {h}
      /\ UNCHANGED <<toQueue, queue, retry, dlq, direct, replay, stamp, hasCache, posts, replays,
                     received, trimmed>>
  BY <1>0 DEF FilingFails, queueVars, rowVars, pastVars, trimVars
<1>7. In(h, "item") /\ "item" \in Kind BY <1>5 DEF In, Kind
<1>8. /\ h \notin toQueue /\ h \notin Queued /\ h \notin Retried /\ h \notin Listed
      /\ h \notin Pending /\ h \notin received /\ direct[h].pc # "post"
      /\ \A q \in Passes : h \notin ClaimedBy(q)
  BY <1>1, <1>2, <1>7, OnlyIn
<1>9. /\ PostsFit' /\ TriggerFits' /\ Queued' = Queued /\ QueueOnce' /\ QueueFits'
      /\ Retried' = Retried /\ RetryOnce' /\ RetryFits' /\ DirectOnly' /\ DirectFits'
      /\ Pending' = Pending /\ PendingFits' /\ Listed' = Listed /\ DlqOnce' /\ RawOnce'
  <2>1. toQueue' \subseteq toQueue BY <1>6
  <2> QED BY <1>1, <1>6, <2>1, FrameStill
<1>10. ItemFits' /\ ClaimFits' BY <1>1, <1>3, <1>6, ItemBudget
<1>11. Moves({h}, "gone") BY <1>2, <1>5, <1>6, <1>8, <1>9 DEF Moves, In, Kind
<1>12. Apart' BY <1>1, <1>9, <1>11, MoveApart
<1>13. Covered'
  <2>1. \A g \in {h} : g \in trimmed' \/ g \in lost' BY <1>6
  <2> QED BY <1>1, <1>6, <1>11, <2>1, MoveCovered
<1> QED BY <1>5, <1>9, <1>10, <1>12, <1>13 DEF Kept, Once, Budgeted

LEMMA KeepTrimFails ==
    ASSUME IInv, TypeOK', NEW p \in Passes, NEW i \in DOMAIN pass[p].items, TrimFails(p, i)
    PROVE  Kept'
<1>1. TypeOK /\ Apart /\ Covered /\ Once /\ Budgeted BY DEF IInv, Kept
<1>2. ItemMoves(p, i, "done") BY <1>1, ItemUpdate DEF TrimFails, ItemState
<1>3. ~Live(p, i) BY DEF Live, TrimFails
<1>4. /\ ItemOnce' /\ ClaimOnce'
      /\ \A q \in Passes : ClaimedBy(q)' = ClaimedBy(q) /\ LiveIn(q)' = LiveIn(q)
  BY <1>1, <1>2, <1>3, ItemNoEffect
<1>5. UNCHANGED <<toQueue, queue, retry, dlq, direct, replay, stamp, hasCache, posts, replays,
                  received, lost, trimmed>>
  BY DEF TrimFails, queueVars, rowVars, pastVars
<1>6. /\ PostsFit' /\ TriggerFits' /\ Queued' = Queued /\ QueueOnce' /\ QueueFits'
      /\ Retried' = Retried /\ RetryOnce' /\ RetryFits' /\ DirectOnly' /\ DirectFits'
      /\ Pending' = Pending /\ PendingFits' /\ Listed' = Listed /\ DlqOnce' /\ RawOnce'
  <2>1. toQueue' \subseteq toQueue BY <1>5
  <2> QED BY <1>1, <1>5, <2>1, FrameStill
<1>7. ItemFits' /\ ClaimFits' BY <1>1, <1>2, <1>5, ItemBudget
<1>8. Moves({}, "gone") BY <1>4, <1>5, <1>6 DEF Moves, In
<1>9. Apart' BY <1>1, <1>6, <1>8, MoveApart
<1>10. Covered' BY <1>1, <1>5, <1>8, MoveCovered
<1> QED BY <1>4, <1>6, <1>7, <1>9, <1>10 DEF Kept, Once, Budgeted

\* LPUSH of a dead letter, whose webhook is not listed and not being replayed.
LEMMA KeepDeadLetter ==
    ASSUME DeliveryAssumption, IInv, TypeOK', NEW p \in Passes, NEW i \in DOMAIN pass[p].items,
           DeadLetter(p, i)
    PROVE  Kept'
<1>0. PICK h, e : h = pass[p].items[i].load.hook /\ e = [hook |-> h, stamp |-> stamp] OBVIOUS
<1>1. TypeOK /\ Apart /\ Covered /\ Once /\ Budgeted BY DEF IInv, Kept
<1>2. h \in Hooks /\ e \in Entry /\ e.hook = h /\ e.stamp = stamp
  BY <1>0, <1>1, PayloadOf DEF Entry, TypeOK
<1>3. ItemMoves(p, i, "trim") BY <1>1, ItemUpdate DEF DeadLetter, ItemState
<1>4. Live(p, i) BY DEF Live, DeadLetter
<1>5. /\ h \in LiveIn(p) /\ ItemOnce' /\ ClaimOnce'
      /\ \A q \in Passes : ClaimedBy(q)' = ClaimedBy(q) /\ LiveIn(q)' = LiveIn(q) \ {h}
  BY <1>0, <1>1, <1>3, <1>4, ItemEffect
<1>6. /\ dlq' = <<e>> \o dlq /\ stamp' = stamp + 1
      /\ UNCHANGED <<toQueue, queue, retry, direct, replay, hasCache, posts, replays,
                     received, lost, trimmed>>
  BY <1>0 DEF DeadLetter, setVars, pastVars, trimVars
<1>7. In(h, "item") /\ "item" \in Kind BY <1>5 DEF In, Kind
<1>8. /\ h \notin toQueue /\ h \notin Queued /\ h \notin Retried /\ h \notin Listed
      /\ h \notin Pending /\ h \notin received /\ direct[h].pc # "post"
      /\ \A q \in Passes : h \notin ClaimedBy(q)
  BY <1>1, <1>2, <1>7, OnlyIn
<1>9. /\ PostsFit' /\ TriggerFits' /\ Queued' = Queued /\ QueueOnce' /\ QueueFits'
      /\ Retried' = Retried /\ RetryOnce' /\ RetryFits' /\ DirectOnly' /\ DirectFits'
      /\ Pending' = Pending /\ PendingFits'
  <2>1. toQueue' \subseteq toQueue BY <1>6
  <2> QED BY <1>1, <1>6, <2>1, FrameStill
<1>10. ItemFits' /\ ClaimFits' BY <1>1, <1>3, <1>6, ItemBudget
<1>11. dlq \in Seq(Entry) /\ Len(dlq) \in Nat /\ DOMAIN dlq = 1 .. Len(dlq) /\ stamp \in Nat
  BY <1>1, LenProperties DEF TypeOK
<1>12. /\ DOMAIN dlq' = 1 .. Len(dlq) + 1 /\ dlq'[1] = e
       /\ \A k \in 1 .. Len(dlq) : dlq'[k + 1] = dlq[k]
  <2>1. <<e>> \in Seq(Entry) /\ Len(<<e>>) = 1 /\ <<e>>[1] = e BY <1>2
  <2>2. /\ Len(dlq') = 1 + Len(dlq) /\ dlq' \in Seq(Entry)
        /\ \A k \in 1 .. 1 + Len(dlq) :
              dlq'[k] = IF k <= 1 THEN <<e>>[k] ELSE dlq[k - 1]
    BY <1>6, <1>11, <2>1, ConcatProperties
  <2> QED BY <1>11, <2>1, <2>2
<1>13. \A j \in DOMAIN dlq' : j = 1 \/ (j - 1 \in DOMAIN dlq /\ dlq'[j] = dlq[j - 1])
  <2> SUFFICES ASSUME NEW j \in DOMAIN dlq', j # 1
               PROVE j - 1 \in DOMAIN dlq /\ dlq'[j] = dlq[j - 1]
    OBVIOUS
  <2>1. j - 1 \in 1 .. Len(dlq) /\ (j - 1) + 1 = j BY <1>11, <1>12
  <2> QED BY <1>11, <1>12, <2>1
<1>14. \A f : Replaced(f)' <=> Replaced(f) BY <1>6 DEF Replaced
<1>15. ~Replaced(e)
  <2> SUFFICES ASSUME NEW r \in Replayers, replay[r].pc \in {"remove", "torn"},
                      Head(replay[r].raw) = e
               PROVE FALSE
    BY DEF Replaced
  <2>1. replay[r].raw \in Seq(Entry) /\ replay[r].raw # <<>>
    BY <1>1 DEF TypeOK, IInv, RawThere
  <2>2. 1 \in DOMAIN replay[r].raw /\ Head(replay[r].raw) = replay[r].raw[1]
    BY <2>1
  <2>3. replay[r].raw[1].stamp < stamp BY <1>1, <2>2 DEF Once, RawOnce
  <2> QED BY <1>2, <1>11, <2>2, <2>3
<1>16. \A k \in DOMAIN dlq : dlq[k] \in Entry /\ dlq[k].hook \in Hooks /\ dlq[k].stamp \in Nat
  <2>1. \A k \in DOMAIN dlq : dlq[k] \in Entry BY <1>11
  <2> QED BY <2>1 DEF Entry
<1>17. \A k \in DOMAIN dlq : ~Replaced(dlq[k]) => dlq[k].hook # h BY <1>8, <1>16 DEF Listed
<1>18. Listed' = Listed \union {h}
  <2>1. ASSUME NEW g \in Hooks PROVE g \in Listed' <=> g \in Listed \/ g = h
    <3>1. g \in Listed' <=> \E k \in DOMAIN dlq' : dlq'[k].hook = g /\ ~Replaced(dlq'[k])
      BY <1>14 DEF Listed
    <3>2. g \in Listed <=> \E k \in DOMAIN dlq : dlq[k].hook = g /\ ~Replaced(dlq[k])
      BY DEF Listed
    <3>3. g \in Listed => g \in Listed'
      <4> SUFFICES ASSUME NEW k \in DOMAIN dlq, dlq[k].hook = g, ~Replaced(dlq[k])
                   PROVE g \in Listed'
        BY <3>2
      <4>1. k + 1 \in DOMAIN dlq' /\ dlq'[k + 1] = dlq[k] BY <1>11, <1>12
      <4> QED BY <3>1, <4>1
    <3>4. 1 \in DOMAIN dlq' BY <1>11, <1>12
    <3>5. g = h => g \in Listed' BY <1>2, <1>12, <1>15, <3>1, <3>4
    <3>6. g \in Listed' => g \in Listed \/ g = h BY <1>2, <1>12, <1>13, <3>1, <3>2
    <3> QED BY <3>3, <3>5, <3>6
  <2>2. Listed' \subseteq Hooks /\ Listed \subseteq Hooks BY DEF Listed
  <2> QED BY <1>2, <2>1, <2>2
<1>19. DlqOnce'
  <2>1. ASSUME NEW j \in DOMAIN dlq', NEW k \in DOMAIN dlq', dlq'[j].hook = dlq'[k].hook,
               ~Replaced(dlq'[j]), ~Replaced(dlq'[k])
        PROVE j = k
    <3>1. CASE j = 1 /\ k # 1 BY <1>2, <1>12, <1>13, <1>17, <2>1, <3>1
    <3>2. CASE j # 1 /\ k = 1 BY <1>2, <1>12, <1>13, <1>17, <2>1, <3>2
    <3>3. CASE j # 1 /\ k # 1
      <4>1. j - 1 = k - 1 BY <1>1, <1>13, <2>1, <3>3 DEF Once, DlqOnce
      <4> QED BY <1>11, <1>12, <4>1
    <3> QED BY <3>1, <3>2, <3>3
  <2>2. \A k \in DOMAIN dlq : dlq[k].stamp < stamp BY <1>1 DEF Once, DlqOnce
  <2>3. ASSUME NEW j \in DOMAIN dlq', NEW k \in DOMAIN dlq', dlq'[j].stamp = dlq'[k].stamp
        PROVE j = k
    <3>0. \A m \in DOMAIN dlq : dlq[m].stamp # stamp BY <1>11, <1>16, <2>2
    <3>1. CASE j = 1 /\ k # 1 BY <1>2, <1>12, <1>13, <2>3, <3>0, <3>1
    <3>2. CASE j # 1 /\ k = 1 BY <1>2, <1>12, <1>13, <2>3, <3>0, <3>2
    <3>3. CASE j # 1 /\ k # 1
      <4>1. j - 1 = k - 1 BY <1>1, <1>13, <2>3, <3>3 DEF Once, DlqOnce
      <4> QED BY <1>11, <1>12, <4>1
    <3> QED BY <3>1, <3>2, <3>3
  <2>4. ASSUME NEW j \in DOMAIN dlq' PROVE dlq'[j].stamp < stamp'
    <3>1. CASE j = 1 BY <1>2, <1>6, <1>11, <1>12, <3>1
    <3>2. CASE j # 1
      <4>1. dlq'[j].stamp < stamp /\ dlq'[j].stamp \in Nat BY <1>13, <1>16, <2>2, <3>2
      <4> QED BY <1>6, <1>11, <4>1
    <3> QED BY <3>1, <3>2
  <2> QED BY <1>14, <2>1, <2>3, <2>4 DEF DlqOnce
<1>20. RawOnce'
  <2> SUFFICES ASSUME NEW r \in Replayers
               PROVE /\ \A k, m \in DOMAIN replay[r].raw :
                           replay[r].raw[k].hook = replay[r].raw[m].hook => k = m
                     /\ \A k \in DOMAIN replay[r].raw : replay[r].raw[k].stamp < stamp'
                     /\ \A k \in DOMAIN replay[r].raw, j \in DOMAIN dlq' :
                           Unpushed(r, k) /\ dlq'[j].hook = replay[r].raw[k].hook
                               /\ ~Replaced(dlq'[j]) => dlq'[j] = replay[r].raw[k]
    <3>1. \A r, k : Unpushed(r, k)' <=> Unpushed(r, k) BY <1>6 DEF Unpushed
    <3>2. replay' = replay BY <1>6
    <3> QED BY <1>14, <3>1, <3>2 DEF RawOnce
  <2>1. replay[r].raw \in Seq(Entry) BY <1>1 DEF TypeOK
  <2>2. \A k \in DOMAIN replay[r].raw : replay[r].raw[k].hook \in Hooks /\ replay[r].raw[k].stamp \in Nat
    <3>1. \A k \in DOMAIN replay[r].raw : replay[r].raw[k] \in Entry BY <2>1
    <3> QED BY <3>1 DEF Entry
  <2>3. \A k \in DOMAIN replay[r].raw : replay[r].raw[k].stamp < stamp'
    <3>1. \A k \in DOMAIN replay[r].raw : replay[r].raw[k].stamp < stamp
      BY <1>1 DEF Once, RawOnce
    <3> QED BY <1>6, <1>11, <2>2, <3>1
  <2>4. ASSUME NEW k \in DOMAIN replay[r].raw, NEW j \in DOMAIN dlq', Unpushed(r, k),
               dlq'[j].hook = replay[r].raw[k].hook, ~Replaced(dlq'[j])
        PROVE dlq'[j] = replay[r].raw[k]
    <3>1. replay[r].raw[k].hook \in Pending BY <2>2, <2>4 DEF Pending
    <3>2. j # 1 BY <1>2, <1>8, <1>12, <2>4, <3>1
    <3> QED BY <1>1, <1>13, <2>4, <3>2 DEF Once, RawOnce
  <2> QED BY <1>1, <2>3, <2>4 DEF Once, RawOnce
<1>21. Moves({h}, "dlq") BY <1>2, <1>5, <1>6, <1>8, <1>9, <1>18 DEF Moves, In, Kind
<1>22. Apart' BY <1>1, <1>9, <1>21, MoveApart
<1>23. Covered' BY <1>1, <1>6, <1>21, MoveCovered DEF Kind
<1> QED BY <1>5, <1>9, <1>10, <1>19, <1>20, <1>22, <1>23 DEF Kept, Once, Budgeted

\* The list without some of its entries.
LEMMA DlqShrinks ==
    ASSUME TypeOK, Once, UNCHANGED stamp, NEW f \in [DOMAIN dlq' -> DOMAIN dlq],
           \A i \in DOMAIN dlq' : dlq'[i] = dlq[f[i]],
           \A i, j \in DOMAIN dlq' : f[i] = f[j] => i = j,
           \A i \in DOMAIN dlq' : Replaced(dlq[i])' <=> Replaced(dlq[f[i]])
    PROVE  Listed' \subseteq Listed /\ DlqOnce'
<1>1. Listed' \subseteq Listed BY DEF Listed
<1>2. \A i \in DOMAIN dlq' : f[i] \in DOMAIN dlq OBVIOUS
<1>3. \A i, j \in DOMAIN dlq' :
         dlq'[i].hook = dlq'[j].hook /\ ~Replaced(dlq[i])' /\ ~Replaced(dlq[j])' => i = j
  BY <1>2 DEF Once, DlqOnce
<1>4. \A i, j \in DOMAIN dlq' : dlq'[i].stamp = dlq'[j].stamp => i = j
  BY <1>2 DEF Once, DlqOnce
<1>5. \A i \in DOMAIN dlq' : dlq'[i].stamp < stamp' BY <1>2 DEF Once, DlqOnce
<1> QED BY <1>1, <1>3, <1>4, <1>5 DEF DlqOnce

\* LTRIM: the webhooks whose entries go are trimmed.
LEMMA KeepTrim ==
    ASSUME DeliveryAssumption, IInv, TypeOK', NEW p \in Passes, NEW i \in DOMAIN pass[p].items,
           Trim(p, i)
    PROVE  Kept'
<1>1. TypeOK /\ Apart /\ Covered /\ Once /\ Budgeted BY DEF IInv, Kept
<1>2. ItemMoves(p, i, "done") BY <1>1, ItemUpdate DEF Trim, ItemState
<1>3. ~Live(p, i) BY DEF Live, Trim
<1>4. /\ ItemOnce' /\ ClaimOnce'
      /\ \A q \in Passes : ClaimedBy(q)' = ClaimedBy(q) /\ LiveIn(q)' = LiveIn(q)
  BY <1>1, <1>2, <1>3, ItemNoEffect
<1>5. UNCHANGED <<toQueue, queue, retry, direct, replay, stamp, hasCache, posts, replays,
                  received, lost>>
  BY DEF Trim, rowVars, setVars, pastVars
<1>6. /\ PostsFit' /\ TriggerFits' /\ Queued' = Queued /\ QueueOnce' /\ QueueFits'
      /\ Retried' = Retried /\ RetryOnce' /\ RetryFits' /\ DirectOnly' /\ DirectFits'
      /\ Pending' = Pending /\ PendingFits'
  <2>1. toQueue' \subseteq toQueue BY <1>5
  <2> QED BY <1>1, <1>5, <2>1, FrameStill
<1>7. ItemFits' /\ ClaimFits' BY <1>1, <1>2, <1>5, ItemBudget
<1>8. dlq \in Seq(Entry) /\ Len(dlq) \in Nat /\ DOMAIN dlq = 1 .. Len(dlq) /\ DlqMax \in Nat
  BY <1>1, LenProperties DEF TypeOK, DeliveryAssumption
<1>9. PICK n : n = IF Len(dlq) < DlqMax THEN Len(dlq) ELSE DlqMax OBVIOUS
<1>10. n \in 0 .. Len(dlq) /\ (n < Len(dlq) => n = DlqMax)
  <2>1. CASE Len(dlq) < DlqMax
    <3>1. n = Len(dlq) BY <1>9, <2>1
    <3>2. Len(dlq) \in 0 .. Len(dlq) /\ ~ (Len(dlq) < Len(dlq)) BY <1>8
    <3> QED BY <3>1, <3>2, Zenon
  <2>2. CASE ~ (Len(dlq) < DlqMax)
    <3>1. n = DlqMax BY <1>9, <2>2
    <3> QED BY <1>8, <2>2, <3>1
  <2> QED BY <2>1, <2>2
<1>11. DOMAIN dlq' = 1 .. n /\ \A j \in 1 .. n : dlq'[j] = dlq[j]
  <2>1. dlq' = SubSeq(dlq, 1, n) BY <1>9 DEF Trim
  <2>2. \A j \in 1 .. n : dlq[j] \in Entry BY <1>8, <1>10
  <2>3. /\ SubSeq(dlq, 1, n) \in Seq(Entry)
        /\ Len(SubSeq(dlq, 1, n)) = IF 1 <= n THEN n - 1 + 1 ELSE 0
        /\ \A j \in 1 .. n - 1 + 1 : SubSeq(dlq, 1, n)[j] = dlq[1 + j - 1]
    BY <1>8, <1>10, <2>2, SubSeqProperties
  <2> QED BY <1>10, <2>1, <2>3
<1>12. \A e : Replaced(e)' <=> Replaced(e) BY <1>5 DEF Replaced
<1>13. Listed' \subseteq Listed /\ DlqOnce'
  <2> DEFINE f == [j \in 1 .. n |-> j]
  <2>1. f \in [DOMAIN dlq' -> DOMAIN dlq] BY <1>8, <1>10, <1>11
  <2>2. \A j \in DOMAIN dlq' : f[j] = j BY <1>11
  <2> HIDE DEF f
  <2>3. \A j \in DOMAIN dlq' : dlq'[j] = dlq[f[j]] BY <1>11, <2>2
  <2>4. \A j \in DOMAIN dlq' : Replaced(dlq[j])' <=> Replaced(dlq[f[j]])
    <3> SUFFICES ASSUME NEW j \in DOMAIN dlq' PROVE Replaced(dlq[j])' <=> Replaced(dlq[f[j]])
      OBVIOUS
    <3>1. dlq'[j] = dlq[f[j]] BY <2>3
    <3> QED BY <1>5, <3>1 DEF Replaced
  <2>5. \A j, k \in DOMAIN dlq' : f[j] = f[k] => j = k BY <2>2
  <2>6. \E g \in [DOMAIN dlq' -> DOMAIN dlq] :
          /\ \A j \in DOMAIN dlq' : dlq'[j] = dlq[g[j]]
          /\ \A j, k \in DOMAIN dlq' : g[j] = g[k] => j = k
          /\ \A j \in DOMAIN dlq' : Replaced(dlq[j])' <=> Replaced(dlq[g[j]])
    BY <2>1, <2>3, <2>4, <2>5
  <2> QED BY <1>1, <1>5, <2>6, DlqShrinks
<1>14. RawOnce'
  <2>1. \A r, k : Unpushed(r, k)' <=> Unpushed(r, k) BY <1>5 DEF Unpushed
  <2>2. \A j \in DOMAIN dlq' : j \in DOMAIN dlq /\ dlq'[j] = dlq[j] BY <1>8, <1>10, <1>11
  <2> QED BY <1>1, <1>5, <1>12, <2>1, <2>2 DEF Once, RawOnce
<1>15. PICK H : H = Listed \ Listed' OBVIOUS
<1>16. \A h \in H : h \in trimmed'
  <2> SUFFICES ASSUME NEW h \in Listed, h \notin Listed' PROVE h \in trimmed'
    BY <1>15
  <2>1. PICK k \in DOMAIN dlq : dlq[k].hook = h /\ ~Replaced(dlq[k]) BY DEF Listed
  <2>2. k \notin 1 .. n
    <3> SUFFICES ASSUME k \in 1 .. n PROVE FALSE OBVIOUS
    <3>1. k \in DOMAIN dlq' /\ dlq'[k] = dlq[k] BY <1>11
    <3>2. h \in Hooks BY DEF Listed
    <3> QED BY <1>12, <2>1, <3>1, <3>2 DEF Listed
  <2>3. k \in (DlqMax + 1) .. Len(dlq) BY <1>8, <1>9, <2>2
  <2>4. trimmed' = trimmed \union {dlq[m].hook : m \in (DlqMax + 1) .. Len(dlq)} BY DEF Trim
  <2> QED BY <2>1, <2>3, <2>4
<1>17. \A h \in H : /\ h \notin toQueue /\ h \notin Queued /\ h \notin Retried
                    /\ h \notin received /\ direct[h].pc # "post" /\ h \in Listed
                    /\ \A q \in Passes : h \notin ClaimedBy(q) /\ h \notin LiveIn(q)
  <2> SUFFICES ASSUME NEW h \in Listed
               PROVE /\ h \notin toQueue /\ h \notin Queued /\ h \notin Retried
                     /\ h \notin received /\ direct[h].pc # "post"
                     /\ \A q \in Passes : h \notin ClaimedBy(q) /\ h \notin LiveIn(q)
    BY <1>15
  <2>1. h \in Hooks /\ In(h, "dlq") /\ "dlq" \in Kind BY DEF In, Kind, Listed
  <2> QED BY <1>1, <2>1, OnlyIn
<1>18. \A h \in Hooks : h \in Listed' <=> h \in Listed /\ h \notin H BY <1>13, <1>15
<1>19. Moves(H, "gone")
  <2> SUFFICES ASSUME NEW h \in Hooks, NEW k \in Kind
               PROVE In(h, k)' <=> IF h \in H THEN k = "gone" ELSE In(h, k)
    BY DEF Moves
  <2>1. k # "gone" BY DEF Kind
  <2> QED BY <1>4, <1>5, <1>6, <1>17, <1>18, <2>1 DEF In
<1>20. Apart' BY <1>1, <1>6, <1>19, MoveApart
<1>21. Covered'
  <2>1. trimmed \subseteq trimmed' BY DEF Trim
  <2> QED BY <1>1, <1>5, <1>16, <1>19, <2>1, MoveCovered
<1> QED BY <1>4, <1>6, <1>7, <1>13, <1>14, <1>20, <1>21 DEF Kept, Once, Budgeted

\* LMPOP: what it pops is an item of the pass then.
LEMMA KeepPop ==
    ASSUME DeliveryAssumption, IInv, NEW p \in Passes, Pop(p)
    PROVE  Kept'
<1>1. TypeOK /\ Apart /\ Covered /\ Once /\ Budgeted BY DEF IInv, Kept
<1>2. PICK n \in 0 .. Len(queue) :
         /\ pass' = [pass EXCEPT ![p] =
                       [pass[p] EXCEPT !.pc = "deliver", !.items = pass'[p].items]]
         /\ DOMAIN pass'[p].items = 1 .. n
         /\ \A i \in 1 .. n : /\ pass'[p].items[i].load = queue[i]
                              /\ pass'[p].items[i].st = "post"
         /\ queue' \in Seq(Payload) /\ Len(queue') = Len(queue) - n
         /\ \A i \in 1 .. Len(queue) - n : queue'[i] = queue[i + n]
  BY <1>1, Popped
<1>3. /\ queue \in Seq(Payload) /\ Len(queue) \in Nat /\ DOMAIN queue = 1 .. Len(queue)
      /\ DOMAIN queue' = 1 .. Len(queue) - n /\ n \in Nat /\ n <= Len(queue)
  <2>1. queue \in Seq(Payload) /\ Len(queue) \in Nat /\ DOMAIN queue = 1 .. Len(queue)
    BY <1>1, LenProperties DEF TypeOK
  <2> QED BY <1>2, <2>1, LenProperties
<1>4. \A i \in DOMAIN queue : queue[i] \in Payload /\ queue[i].hook \in Hooks
  <2>1. \A i \in DOMAIN queue : queue[i] \in Payload BY <1>3
  <2> QED BY <2>1 DEF Payload
<1>5. \A j \in DOMAIN queue' : j + n \in DOMAIN queue /\ queue'[j] = queue[j + n]
  BY <1>2, <1>3
<1>6. /\ \A q \in Passes : q # p => pass'[q] = pass[q]
      /\ pass'[p].claimed = pass[p].claimed
  <2>1. pass \in [Passes -> Pass] /\ pass[p] \in Pass BY <1>1 DEF TypeOK, Pass, ItemRec
  <2>2. PICK w : w = [pass[p] EXCEPT !.pc = "deliver", !.items = pass'[p].items] OBVIOUS
  <2>3. w.claimed = pass[p].claimed BY <2>1, <2>2 DEF Pass
  <2>4. pass' = [pass EXCEPT ![p] = w] BY <1>2, <2>2
  <2> QED BY <2>1, <2>3, <2>4
<1>7. UNCHANGED <<toQueue, retry, dlq, direct, replay, stamp, hasCache, posts, replays,
                  received, lost, trimmed>>
  BY DEF Pop, rowVars, setVars, pastVars, trimVars
<1>8. /\ PostsFit' /\ TriggerFits' /\ Retried' = Retried /\ RetryOnce' /\ RetryFits'
      /\ DirectOnly' /\ DirectFits' /\ Pending' = Pending /\ PendingFits'
      /\ Listed' = Listed /\ DlqOnce' /\ RawOnce'
  <2>1. toQueue' \subseteq toQueue BY <1>7
  <2> QED BY <1>1, <1>7, <2>1, FrameStill
<1>9. PICK H : H = {h \in Hooks : \E i \in 1 .. n : queue[i].hook = h} OBVIOUS
<1>10. DOMAIN pass[p].items = {}
  <2>1. Len(pass[p].items) = 0 BY DEF IInv, PassKept, Pop
  <2>2. pass[p].items \in Seq(ItemRec) BY <1>1 DEF TypeOK, ItemRec
  <2> QED BY <2>1, <2>2, LenProperties
<1>11. LiveIn(p) = {} BY <1>10 DEF LiveIn
<1>12. \A i \in 1 .. n : i \in DOMAIN queue BY <1>3
<1>13. LiveIn(p)' = H
  <2>1. \A i \in DOMAIN pass'[p].items : Live(p, i)' /\ pass'[p].items[i].load.hook = queue[i].hook
    BY <1>2 DEF Live
  <2>2. \A h \in Hooks : h \in LiveIn(p)' <=> \E i \in 1 .. n : queue[i].hook = h
    <3> SUFFICES ASSUME NEW h \in Hooks
                 PROVE h \in LiveIn(p)' <=> \E i \in 1 .. n : queue[i].hook = h
      OBVIOUS
    <3>1. h \in LiveIn(p)' <=> \E i \in DOMAIN pass'[p].items :
                                  Live(p, i)' /\ pass'[p].items[i].load.hook = h
      BY DEF LiveIn
    <3>2. DOMAIN pass'[p].items = 1 .. n BY <1>2
    <3>3. \A i \in 1 .. n : Live(p, i)' /\ pass'[p].items[i].load.hook = queue[i].hook
      BY <2>1, <3>2
    <3>4. h \in LiveIn(p)' <=> \E i \in 1 .. n : Live(p, i)' /\ pass'[p].items[i].load.hook = h
      BY <3>1, <3>2
    <3> QED BY <3>3, <3>4
  <2>3. LiveIn(p)' \subseteq Hooks BY DEF LiveIn
  <2> QED BY <1>9, <2>2, <2>3
<1>14. \A q \in Passes : /\ q # p => LiveIn(q)' = LiveIn(q)
                         /\ ClaimedBy(q)' = ClaimedBy(q)
  BY <1>6 DEF LiveIn, ClaimedBy, Live
<1>15. \A h \in H : h \in Queued BY <1>3, <1>9, <1>12 DEF Queued
<1>16. Queued' = Queued \ H
  <2>1. ASSUME NEW h \in Hooks PROVE h \in Queued' <=> h \in Queued /\ h \notin H
    <3>1. ASSUME h \in Queued' PROVE h \in Queued /\ h \notin H
      <4>1. PICK j \in DOMAIN queue' : queue'[j].hook = h BY <3>1 DEF Queued
      <4>2. j + n \in DOMAIN queue /\ queue[j + n].hook = h BY <1>5, <4>1
      <4>3. \A i \in 1 .. n : queue[i].hook # h
        <5>1. \A i \in 1 .. n : i # j + n BY <1>3, <4>1
        <5> QED BY <1>1, <1>12, <4>2, <5>1 DEF Once, QueueOnce
      <4> QED BY <1>9, <4>2, <4>3 DEF Queued
    <3>2. ASSUME h \in Queued, h \notin H PROVE h \in Queued'
      <4>1. PICK i \in DOMAIN queue : queue[i].hook = h BY <3>2 DEF Queued
      <4>2. i \notin 1 .. n BY <1>9, <3>2, <4>1
      <4>3. i - n \in DOMAIN queue' /\ (i - n) + n = i BY <1>3, <4>2
      <4>4. queue'[i - n] = queue[i] BY <1>5, <4>3
      <4> QED BY <4>1, <4>3, <4>4 DEF Queued
    <3> QED BY <3>1, <3>2
  <2>2. Queued \subseteq Hooks /\ Queued' \subseteq Hooks BY DEF Queued
  <2> QED BY <2>1, <2>2
<1>17. QueueOnce'
  <2> SUFFICES ASSUME NEW j \in DOMAIN queue', NEW k \in DOMAIN queue',
                      queue'[j].hook = queue'[k].hook
               PROVE j = k
    BY DEF QueueOnce
  <2>1. j + n = k + n BY <1>1, <1>5 DEF Once, QueueOnce
  <2> QED BY <1>3, <2>1
<1>18. QueueFits'
  <2> SUFFICES ASSUME NEW j \in DOMAIN queue' PROVE Fits(queue[j].hook, queue[j].attempt)'
    BY DEF QueueFits
  <2>1. Fits(queue[j + n].hook, queue[j + n].attempt) BY <1>1, <1>5 DEF Budgeted, QueueFits
  <2> QED BY <1>5, <1>7, <2>1 DEF Fits, Budget
<1>19. \A h \in H : /\ h \notin toQueue /\ h \notin Retried /\ h \notin Listed /\ h \notin Pending
                    /\ h \notin received /\ direct[h].pc # "post"
                    /\ \A q \in Passes : h \notin ClaimedBy(q) /\ h \notin LiveIn(q)
  <2> SUFFICES ASSUME NEW h \in Queued
               PROVE /\ h \notin toQueue /\ h \notin Retried /\ h \notin Listed /\ h \notin Pending
                     /\ h \notin received /\ direct[h].pc # "post"
                     /\ \A q \in Passes : h \notin ClaimedBy(q) /\ h \notin LiveIn(q)
    BY <1>15
  <2>1. h \in Hooks /\ In(h, "queue") /\ "queue" \in Kind BY DEF In, Kind, Queued
  <2> QED BY <1>1, <2>1, OnlyIn
<1>20. ItemOnce'
  <2> SUFFICES ASSUME NEW q \in Passes, NEW s \in Passes,
                      NEW i \in DOMAIN pass'[q].items, NEW j \in DOMAIN pass'[s].items,
                      Live(q, i)', Live(s, j)',
                      pass'[q].items[i].load.hook = pass'[s].items[j].load.hook
               PROVE q = s /\ i = j
    BY DEF ItemOnce
  <2>1. ASSUME NEW t \in Passes, t # p, NEW k \in DOMAIN pass'[t].items, Live(t, k)'
        PROVE  pass'[t].items[k].load.hook \notin H
    <3>1. /\ k \in DOMAIN pass[t].items /\ pass'[t].items[k].load.hook = pass[t].items[k].load.hook
          /\ Live(t, k)
      BY <1>6, <2>1 DEF Live
    <3>2. pass[t].items[k].load.hook \in Hooks BY <1>1, <3>1, PayloadOf
    <3>3. pass[t].items[k].load.hook \in LiveIn(t) BY <3>1, <3>2 DEF LiveIn
    <3> QED BY <1>19, <3>1, <3>3
  <2>2. \A k \in DOMAIN pass'[p].items :
           pass'[p].items[k].load.hook = queue[k].hook /\ queue[k].hook \in H /\ k \in DOMAIN queue
    BY <1>2, <1>4, <1>9, <1>12
  <2>3. CASE q = p /\ s = p BY <1>1, <2>2, <2>3 DEF Once, QueueOnce
  <2>4. CASE q = p /\ s # p BY <2>1, <2>2, <2>4
  <2>5. CASE q # p /\ s = p BY <2>1, <2>2, <2>5
  <2>6. CASE q # p /\ s # p BY <1>1, <1>6, <2>6 DEF Once, ItemOnce, Live
  <2> QED BY <2>3, <2>4, <2>5, <2>6
<1>21. ClaimOnce' BY <1>1, <1>14 DEF Once, ClaimOnce
<1>22. ItemFits'
  <2> SUFFICES ASSUME NEW q \in Passes, NEW i \in DOMAIN pass'[q].items
               PROVE  (LET load == pass[q].items[i].load IN
                       /\ pass[q].items[i].st = "post" => Fits(load.hook, load.attempt)
                       /\ pass[q].items[i].st = "failed" => Fits(load.hook, load.attempt + 1))'
    BY DEF ItemFits
  <2>1. CASE q = p
    <3>1. /\ i \in DOMAIN queue /\ pass'[p].items[i].load = queue[i]
          /\ pass'[p].items[i].st = "post"
      BY <1>2, <1>12, <2>1
    <3>2. Fits(queue[i].hook, queue[i].attempt) BY <1>1, <3>1 DEF Budgeted, QueueFits
    <3> QED BY <1>7, <2>1, <3>1, <3>2 DEF Fits, Budget
  <2>2. CASE q # p BY <1>1, <1>6, <1>7, <2>2 DEF Budgeted, ItemFits, Fits, Budget
  <2> QED BY <2>1, <2>2
<1>23. ClaimFits'
  <2>1. \A q \in Passes : pass'[q].claimed = pass[q].claimed BY <1>6
  <2> QED BY <1>1, <1>7, <2>1 DEF Budgeted, ClaimFits, Fits, Budget
<1>24. Moves(H, "item")
  <2>1. \A h \in Hooks : (\E q \in Passes : h \in LiveIn(q)') <=>
             h \in H \/ \E q \in Passes : h \in LiveIn(q)
    BY <1>11, <1>13, <1>14
  <2>2. \A h \in Hooks : (\E q \in Passes : h \in ClaimedBy(q)') <=>
             \E q \in Passes : h \in ClaimedBy(q)
    BY <1>14
  <2> QED BY <1>7, <1>8, <1>16, <1>19, <2>1, <2>2, MovesIs
<1>25. Apart'
  <2>1. H \intersect Pending' = {} BY <1>8, <1>19
  <2> QED BY <1>1, <1>8, <1>24, <2>1, MoveApart
<1>26. Covered' BY <1>1, <1>7, <1>24, MoveCovered DEF Kind
<1> QED BY <1>8, <1>17, <1>18, <1>20, <1>21, <1>22, <1>23, <1>25, <1>26 DEF Kept, Once, Budgeted

\* A pass that has nothing to lose is put back.
LEMMA KeepReset ==
    ASSUME IInv, NEW p \in Passes, Resets(p), LiveIn(p) = {}, ClaimedBy(p) = {},
           UNCHANGED <<toQueue, queue, retry, dlq, direct, replay, stamp, hasCache, posts,
                       replays, received, lost, trimmed>>
    PROVE  Kept'
<1>1. TypeOK /\ Apart /\ Covered /\ Once /\ Budgeted BY DEF IInv, Kept
<1>2. /\ \A q \in Passes : /\ LiveIn(q)' = IF q = p THEN {} ELSE LiveIn(q)
                           /\ ClaimedBy(q)' = IF q = p THEN {} ELSE ClaimedBy(q)
      /\ ItemOnce' /\ ClaimOnce' /\ ItemFits' /\ ClaimFits'
  BY <1>1, ResetEffect
<1>3. \A q \in Passes : LiveIn(q)' = LiveIn(q) /\ ClaimedBy(q)' = ClaimedBy(q) BY <1>2
<1>4. /\ PostsFit' /\ TriggerFits' /\ Queued' = Queued /\ QueueOnce' /\ QueueFits'
      /\ Retried' = Retried /\ RetryOnce' /\ RetryFits' /\ DirectOnly' /\ DirectFits'
      /\ Pending' = Pending /\ PendingFits' /\ Listed' = Listed /\ DlqOnce' /\ RawOnce'
  <2>1. toQueue' \subseteq toQueue OBVIOUS
  <2> QED BY <1>1, <2>1, FrameStill
<1>5. Moves({}, "gone") BY <1>3, <1>4 DEF Moves, In
<1>6. Apart' BY <1>1, <1>4, <1>5, MoveApart
<1>7. Covered' BY <1>1, <1>5, MoveCovered
<1> QED BY <1>2, <1>4, <1>6, <1>7 DEF Kept, Once, Budgeted

\* A pass without items has no live ones, one without claims none either.
LEMMA NoneLive ==
    ASSUME IInv, NEW p \in Passes
    PROVE  /\ pass[p].pc \notin {"deliver", "broken"} => LiveIn(p) = {}
           /\ (\A i \in DOMAIN pass[p].items : pass[p].items[i].st = "done") => LiveIn(p) = {}
           /\ pass[p].pc # "push" => ClaimedBy(p) = {}
<1>1. pass[p].items \in Seq(ItemRec) /\ pass[p].claimed \in Seq(Payload)
  BY DEF IInv, TypeOK, ItemRec
<1>2. Len(pass[p].items) = 0 => DOMAIN pass[p].items = {} BY <1>1, LenProperties
<1>3. Len(pass[p].claimed) = 0 => DOMAIN pass[p].claimed = {} BY <1>1, LenProperties
<1>4. pass[p].pc \notin {"deliver", "broken"} => LiveIn(p) = {}
  BY <1>2 DEF IInv, PassKept, LiveIn
<1>5. (\A i \in DOMAIN pass[p].items : pass[p].items[i].st = "done") => LiveIn(p) = {}
  BY DEF LiveIn, Live
<1>6. pass[p].pc # "push" => ClaimedBy(p) = {} BY <1>3 DEF IInv, PassKept, ClaimedBy
<1> QED BY <1>4, <1>5, <1>6

\* Idle, and Idle with something due, are without items and claims.
LEMMA ResetTo ==
    ASSUME TypeOK, NEW p \in Passes, NEW d,
           pass' = [pass EXCEPT ![p] =
                      IF d = {} THEN Idle ELSE [Idle EXCEPT !.pc = "due", !.due = d]]
    PROVE  Resets(p)
BY DEF TypeOK, Resets, Idle

LEMMA KeepReadDue ==
    ASSUME IInv, NEW p \in Passes, ReadDue(p)
    PROVE  Kept'
<1>1. TypeOK BY DEF IInv
<1>2. Resets(p) BY <1>1, ResetTo DEF ReadDue
<1>3. LiveIn(p) = {} /\ ClaimedBy(p) = {} BY NoneLive DEF ReadDue
<1>4. UNCHANGED <<toQueue, queue, retry, dlq, direct, replay, stamp, hasCache, posts,
                  replays, received, lost, trimmed>>
  BY DEF ReadDue, queueVars, rowVars, setVars, pastVars, trimVars
<1> QED BY <1>2, <1>3, <1>4, KeepReset

LEMMA KeepPassBroken ==
    ASSUME IInv, NEW p \in Passes, PassBroken(p)
    PROVE  Kept'
<1>1. Resets(p) BY DEF IInv, TypeOK, PassBroken, Resets, Idle
<1>2. LiveIn(p) = {} /\ ClaimedBy(p) = {} BY NoneLive DEF PassBroken
<1>3. UNCHANGED <<toQueue, queue, retry, dlq, direct, replay, stamp, hasCache, posts,
                  replays, received, lost, trimmed>>
  BY DEF PassBroken, queueVars, rowVars, setVars, pastVars, trimVars
<1> QED BY <1>1, <1>2, <1>3, KeepReset

LEMMA KeepClaimMissed ==
    ASSUME IInv, NEW p \in Passes, NEW load \in pass[p].due, ClaimMissed(p, load)
    PROVE  Kept'
<1>1. TypeOK BY DEF IInv
<1>2. Resets(p)
  <2>1. \E d : pass' = [pass EXCEPT ![p] =
                  IF d = {} THEN Idle ELSE [Idle EXCEPT !.pc = "due", !.due = d]]
    BY DEF ClaimMissed, AfterDue
  <2> QED BY <1>1, <2>1, ResetTo
<1>3. LiveIn(p) = {} /\ ClaimedBy(p) = {} BY NoneLive DEF ClaimMissed
<1>4. UNCHANGED <<toQueue, queue, retry, dlq, direct, replay, stamp, hasCache, posts,
                  replays, received, lost, trimmed>>
  BY DEF ClaimMissed, queueVars, rowVars, setVars, pastVars, trimVars
<1> QED BY <1>2, <1>3, <1>4, KeepReset

\* A pass that dies loses what it holds.
LEMMA KeepPassDies ==
    ASSUME IInv, NEW p \in Passes, PassDies(p)
    PROVE  Kept'
<1>1. TypeOK /\ Apart /\ Covered /\ Once /\ Budgeted BY DEF IInv, Kept
<1>2. UNCHANGED <<toQueue, queue, retry, dlq, direct, replay, stamp, hasCache, posts,
                  replays, received, trimmed>>
  BY DEF PassDies, queueVars, rowVars, pastVars
<1>3. Resets(p) BY <1>1 DEF TypeOK, PassDies, Resets, Idle
<1>4. /\ \A q \in Passes : /\ LiveIn(q)' = IF q = p THEN {} ELSE LiveIn(q)
                           /\ ClaimedBy(q)' = IF q = p THEN {} ELSE ClaimedBy(q)
      /\ ItemOnce' /\ ClaimOnce' /\ ItemFits' /\ ClaimFits'
  BY <1>1, <1>2, <1>3, ResetEffect
<1>5. /\ PostsFit' /\ TriggerFits' /\ Queued' = Queued /\ QueueOnce' /\ QueueFits'
      /\ Retried' = Retried /\ RetryOnce' /\ RetryFits' /\ DirectOnly' /\ DirectFits'
      /\ Pending' = Pending /\ PendingFits' /\ Listed' = Listed /\ DlqOnce' /\ RawOnce'
  <2>1. toQueue' \subseteq toQueue BY <1>2
  <2> QED BY <1>1, <1>2, <2>1, FrameStill
<1>6. PICK H : H = LiveIn(p) \union ClaimedBy(p) OBVIOUS
<1>7. H \subseteq Hooks BY <1>6 DEF LiveIn, ClaimedBy
<1>8. \A h \in H : h \in lost'
  <2>1. ASSUME NEW h \in LiveIn(p) PROVE h \in Holds(p)
    BY <2>1 DEF LiveIn, Live, Holds
  <2>2. ASSUME NEW h \in ClaimedBy(p) PROVE h \in Holds(p) BY <2>2 DEF ClaimedBy, Holds
  <2> QED BY <1>6, <2>1, <2>2 DEF PassDies
<1>9. \A h \in H : /\ h \notin toQueue /\ h \notin Queued /\ h \notin Retried /\ h \notin Listed
                   /\ h \notin received /\ direct[h].pc # "post"
                   /\ \A q \in Passes : q # p => h \notin LiveIn(q) /\ h \notin ClaimedBy(q)
  <2> SUFFICES ASSUME NEW h \in H
               PROVE /\ h \notin toQueue /\ h \notin Queued /\ h \notin Retried
                     /\ h \notin Listed /\ h \notin received /\ direct[h].pc # "post"
                     /\ \A q \in Passes : q # p => h \notin LiveIn(q) /\ h \notin ClaimedBy(q)
    OBVIOUS
  <2>1. CASE h \in LiveIn(p)
    <3>1. h \in Hooks /\ In(h, "item") /\ "item" \in Kind BY <1>7, <2>1 DEF In, Kind
    <3>2. \A q \in Passes : q # p => h \notin LiveIn(q)
      BY <1>1, <2>1 DEF LiveIn, Once, ItemOnce
    <3> QED BY <1>1, <3>1, <3>2, OnlyIn
  <2>2. CASE h \in ClaimedBy(p)
    <3>1. h \in Hooks /\ In(h, "claimed") /\ "claimed" \in Kind BY <1>7, <2>2 DEF In, Kind
    <3>2. \A q \in Passes : q # p => h \notin ClaimedBy(q)
      BY <1>1, <2>2, <3>1 DEF Once, ClaimOnce
    <3> QED BY <1>1, <3>1, <3>2, OnlyIn
  <2> QED BY <1>6, <2>1, <2>2
<1>10. \A h \in Hooks : /\ (\E q \in Passes : h \in LiveIn(q)') <=>
                              h \notin H /\ \E q \in Passes : h \in LiveIn(q)
                        /\ (\E q \in Passes : h \in ClaimedBy(q)') <=>
                              h \notin H /\ \E q \in Passes : h \in ClaimedBy(q)
  BY <1>4, <1>6, <1>9
<1>11. Moves(H, "gone")
  <2>1. "gone" \notin Kind BY DEF Kind
  <2> QED BY <1>2, <1>5, <1>9, <1>10, MovesIs
<1>12. Apart' BY <1>1, <1>5, <1>11, MoveApart
<1>13. Covered'
  <2>1. lost \subseteq lost' BY DEF PassDies
  <2> QED BY <1>1, <1>2, <1>8, <1>11, <2>1, MoveCovered
<1> QED BY <1>4, <1>5, <1>12, <1>13 DEF Kept, Once, Budgeted

\* RPUSH of what the pass claimed, if it did.
LEMMA KeepPushDue ==
    ASSUME IInv, TypeOK', NEW p \in Passes, PushDue(p)
    PROVE  Kept'
<1>1. TypeOK /\ Apart /\ Covered /\ Once /\ Budgeted BY DEF IInv, Kept
<1>2. UNCHANGED <<toQueue, retry, dlq, direct, replay, stamp, hasCache, posts,
                  replays, received, lost, trimmed>>
  BY DEF PushDue, rowVars, setVars, pastVars, trimVars
<1>3. Resets(p)
  <2>1. \E d : pass' = [pass EXCEPT ![p] =
                  IF d = {} THEN Idle ELSE [Idle EXCEPT !.pc = "due", !.due = d]]
    BY DEF PushDue, AfterDue
  <2> QED BY <1>1, <2>1, ResetTo
<1>4. LiveIn(p) = {} BY NoneLive DEF PushDue
<1>5. /\ pass[p].claimed \in Seq(Payload) /\ Len(pass[p].claimed) \in Nat
      /\ DOMAIN pass[p].claimed = 1 .. Len(pass[p].claimed)
      /\ Len(pass[p].claimed) <= 1 /\ queue \in Seq(Payload) /\ queue' = queue \o pass[p].claimed
  BY <1>1, LenProperties DEF TypeOK, IInv, PassKept, PushDue
<1>6. CASE Len(pass[p].claimed) = 0
  <2>1. DOMAIN pass[p].claimed = {} BY <1>5, <1>6
  <2>2. ClaimedBy(p) = {} BY <2>1 DEF ClaimedBy
  <2>3. pass[p].claimed = <<>> BY <1>5, <1>6
  <2>4. queue' = queue BY <1>5, <2>3
  <2> QED BY <1>2, <1>3, <1>4, <2>2, <2>4, KeepReset
<1>7. CASE Len(pass[p].claimed) = 1
  <2>1. 1 \in DOMAIN pass[p].claimed /\ DOMAIN pass[p].claimed = {1} BY <1>5, <1>7
  <2>2. PICK load : load = pass[p].claimed[1] OBVIOUS
  <2>0. pass[p].claimed[1] \in Payload BY <1>5, <2>1
  <2>3. load \in Payload /\ load.hook \in Hooks BY <2>0, <2>2 DEF Payload
  <2>4. pass[p].claimed = <<load>> BY <1>5, <1>7, <2>2
  <2>5. queue' = Append(queue, load) BY <1>5, <2>3, <2>4
  <2>6. ClaimedBy(p) = {load.hook} BY <2>1, <2>2, <2>3 DEF ClaimedBy
  <2>7. Fits(load.hook, load.attempt) BY <1>1, <2>1, <2>2 DEF Budgeted, ClaimFits
  <2>8. PICK h : h = load.hook OBVIOUS
  <2>9. h \in Hooks /\ In(h, "claimed") /\ "claimed" \in Kind BY <2>3, <2>6, <2>8 DEF In, Kind
  <2>10. /\ h \notin toQueue /\ h \notin Queued /\ h \notin Retried /\ h \notin Listed
         /\ h \notin Pending /\ h \notin received /\ direct[h].pc # "post"
         /\ \A q \in Passes : h \notin LiveIn(q)
    BY <1>1, <2>9, OnlyIn
  <2>11. Queued' = Queued \union {h} /\ QueueOnce' /\ QueueFits'
    BY <1>1, <1>2, <2>3, <2>5, <2>7, <2>8, <2>10, QueueAppend
  <2>12. /\ \A q \in Passes : /\ LiveIn(q)' = IF q = p THEN {} ELSE LiveIn(q)
                              /\ ClaimedBy(q)' = IF q = p THEN {} ELSE ClaimedBy(q)
         /\ ItemOnce' /\ ClaimOnce' /\ ItemFits' /\ ClaimFits'
    BY <1>1, <1>2, <1>3, ResetEffect
  <2>13. /\ PostsFit' /\ TriggerFits'
         /\ Retried' = Retried /\ RetryOnce' /\ RetryFits' /\ DirectOnly' /\ DirectFits'
         /\ Pending' = Pending /\ PendingFits' /\ Listed' = Listed /\ DlqOnce' /\ RawOnce'
    <3>1. toQueue' \subseteq toQueue BY <1>2
    <3> QED BY <1>1, <1>2, <3>1, FrameStill
  <2>14. \A g \in Hooks : /\ (\E q \in Passes : g \in LiveIn(q)') <=>
                                \E q \in Passes : g \in LiveIn(q)
                          /\ (\E q \in Passes : g \in ClaimedBy(q)') <=>
                                g # h /\ \E q \in Passes : g \in ClaimedBy(q)
    <3>1. \A g \in Hooks, q \in Passes : g \in LiveIn(q)' <=> g \in LiveIn(q) BY <1>4, <2>12
    <3>2. \A q \in Passes : q # p => h \notin ClaimedBy(q)
      BY <1>1, <2>6, <2>8, <2>9 DEF Once, ClaimOnce
    <3>3. \A g \in Hooks, q \in Passes : g \in ClaimedBy(q)' <=> g \in ClaimedBy(q) /\ g # h
      BY <2>6, <2>8, <2>12, <3>2
    <3> QED BY <3>1, <3>3
  <2>15. Moves({h}, "queue") BY <1>2, <2>9, <2>10, <2>11, <2>13, <2>14 DEF Moves, In, Kind
  <2>16. Apart'
    <3>1. {h} \intersect Pending' = {} BY <2>10, <2>13
    <3> QED BY <1>1, <2>13, <2>15, <3>1, MoveApart
  <2>17. Covered' BY <1>1, <1>2, <2>15, MoveCovered DEF Kind
  <2> QED BY <2>11, <2>12, <2>13, <2>16, <2>17 DEF Kept, Once, Budgeted
<1>8. Len(pass[p].claimed) = 0 \/ Len(pass[p].claimed) = 1
  <2>1. \A n \in Nat : n <= 1 => n = 0 \/ n = 1 OBVIOUS
  <2> QED BY <1>5, <2>1
<1> QED BY <1>6, <1>7, <1>8

\* ZREM: the claim moves a retry to the pass.
LEMMA KeepClaimDue ==
    ASSUME IInv, TypeOK', NEW p \in Passes, NEW load \in pass[p].due, ClaimDue(p, load)
    PROVE  Kept'
<1>1. TypeOK /\ Apart /\ Covered /\ Once /\ Budgeted BY DEF IInv, Kept
<1>2. /\ load \in retry /\ retry' = retry \ {load}
      /\ UNCHANGED <<toQueue, queue, dlq, direct, replay, stamp, hasCache, posts,
                     replays, received, lost, trimmed>>
  BY DEF ClaimDue, rowVars, setVars, pastVars, trimVars
<1>3. load \in Payload /\ load.hook \in Hooks BY <1>1, <1>2 DEF TypeOK, Payload
<1>4. /\ \A q \in Passes : q # p => pass'[q] = pass[q]
      /\ pass'[p].items = pass[p].items /\ pass'[p].claimed = <<load>>
  <2>1. pass \in [Passes -> Pass] /\ pass[p] \in Pass BY <1>1 DEF TypeOK, Pass, ItemRec
  <2>2. PICK w : w = [pass[p] EXCEPT !.pc = "push", !.claimed = <<load>>, !.due = @ \ {load}]
    OBVIOUS
  <2>3. pass' = [pass EXCEPT ![p] = w] BY <2>1, <2>2 DEF ClaimDue
  <2>4. w.items = pass[p].items /\ w.claimed = <<load>> BY <2>1, <2>2 DEF Pass
  <2> QED BY <2>1, <2>3, <2>4
<1>5. \A q \in Passes : pass'[q].items = pass[q].items BY <1>4
<1>6. \A q \in Passes : LiveIn(q)' = LiveIn(q) BY <1>5 DEF LiveIn, Live
<1>7. ItemOnce' BY <1>1, <1>5 DEF Once, ItemOnce, Live
<1>8. ItemFits' BY <1>1, <1>2, <1>5 DEF Budgeted, ItemFits, Fits, Budget
<1>9. ClaimedBy(p) = {} BY NoneLive DEF ClaimDue
<1>10. PICK h : h = load.hook OBVIOUS
<1>11. DOMAIN pass'[p].claimed = {1} /\ pass'[p].claimed[1] = load BY <1>4
<1>12. /\ ClaimedBy(p)' = {h}
       /\ \A q \in Passes : q # p => ClaimedBy(q)' = ClaimedBy(q)
  BY <1>3, <1>4, <1>10, <1>11 DEF ClaimedBy
<1>13. h \in Hooks /\ In(h, "retry") /\ "retry" \in Kind
  BY <1>2, <1>3, <1>10 DEF In, Kind, Retried
<1>14. /\ h \notin toQueue /\ h \notin Queued /\ h \notin Listed
       /\ h \notin Pending /\ h \notin received /\ direct[h].pc # "post"
       /\ \A q \in Passes : h \notin LiveIn(q) /\ h \notin ClaimedBy(q)
  BY <1>1, <1>13, OnlyIn
<1>15. ClaimOnce' BY <1>1, <1>12, <1>14 DEF Once, ClaimOnce
<1>16. ClaimFits'
  <2> SUFFICES ASSUME NEW q \in Passes, NEW i \in DOMAIN pass'[q].claimed
               PROVE  Fits(pass[q].claimed[i].hook, pass[q].claimed[i].attempt)'
    BY DEF ClaimFits
  <2>1. CASE q = p
    <3>1. Fits(load.hook, load.attempt) BY <1>1, <1>2 DEF Budgeted, RetryFits
    <3>2. pass'[q].claimed[i] = load BY <1>11, <2>1
    <3> QED BY <1>2, <3>1, <3>2 DEF Fits, Budget
  <2>2. CASE q # p BY <1>1, <1>2, <1>4, <2>2 DEF Budgeted, ClaimFits, Fits, Budget
  <2> QED BY <2>1, <2>2
<1>17. /\ PostsFit' /\ TriggerFits' /\ Queued' = Queued /\ QueueOnce' /\ QueueFits'
       /\ DirectOnly' /\ DirectFits'
       /\ Pending' = Pending /\ PendingFits' /\ Listed' = Listed /\ DlqOnce' /\ RawOnce'
  <2>1. toQueue' \subseteq toQueue BY <1>2
  <2> QED BY <1>1, <1>2, <2>1, FrameStill
<1>18. RetryOnce' BY <1>1, <1>2 DEF Once, RetryOnce
<1>19. RetryFits' BY <1>1, <1>2 DEF Budgeted, RetryFits, Fits, Budget
<1>20. Retried' = Retried \ {h}
  <2>1. \A l \in retry : l.hook = h => l = load BY <1>1, <1>2, <1>10 DEF Once, RetryOnce
  <2> QED BY <1>2, <1>10, <2>1 DEF Retried
<1>21. Moves({h}, "claimed")
  <2>1. \A g \in Hooks : (\E q \in Passes : g \in ClaimedBy(q)') <=>
              g = h \/ \E q \in Passes : g \in ClaimedBy(q)
    BY <1>9, <1>12
  <2> QED BY <1>2, <1>6, <1>13, <1>14, <1>17, <1>20, <2>1 DEF Moves, In, Kind
<1>22. Apart'
  <2>1. {h} \intersect Pending' = {} BY <1>14, <1>17
  <2> QED BY <1>1, <1>17, <1>21, <2>1, MoveApart
<1>23. Covered' BY <1>1, <1>2, <1>21, MoveCovered DEF Kind
<1> QED BY <1>7, <1>8, <1>15, <1>16, <1>17, <1>18, <1>19, <1>22, <1>23 DEF Kept, Once, Budgeted

\* What touches no payload.
LEMMA KeepStill ==
    ASSUME IInv, UNCHANGED <<toQueue, queue, retry, dlq, pass, direct, replay, stamp, hasCache,
                             posts, replays, received, lost, trimmed>>
    PROVE  Kept'
<1>1. TypeOK /\ Apart /\ Covered /\ Once /\ Budgeted BY DEF IInv, Kept
<1>2. /\ PostsFit' /\ TriggerFits' /\ Queued' = Queued /\ QueueOnce' /\ QueueFits'
      /\ Retried' = Retried /\ RetryOnce' /\ RetryFits' /\ DirectOnly' /\ DirectFits'
      /\ \A p \in Passes : LiveIn(p)' = LiveIn(p) /\ ClaimedBy(p)' = ClaimedBy(p)
      /\ ItemOnce' /\ ClaimOnce' /\ ItemFits' /\ ClaimFits'
      /\ Pending' = Pending /\ PendingFits' /\ Listed' = Listed /\ DlqOnce' /\ RawOnce'
  <2>1. toQueue' \subseteq toQueue OBVIOUS
  <2> QED BY <1>1, <2>1, FrameStill
<1>3. Moves({}, "gone") BY <1>2 DEF Moves, In
<1>4. Apart' BY <1>1, <1>2, <1>3, MoveApart
<1>5. Covered' BY <1>1, <1>3, MoveCovered
<1> QED BY <1>2, <1>4, <1>5 DEF Kept, Once, Budgeted

-----------------------------------------------------------------------------
(* POST /dlq/replay.                                                       *)

\* With one request at a time it alone says what is replaced and pending.
LEMMA SoleReplay ==
    ASSUME OneReplayer, NEW r \in Replayers
    PROVE  /\ \A x : Replaced(x) <=>
                 replay[r].pc \in {"remove", "torn"} /\ Head(replay[r].raw) = x
           /\ \A x : Replaced(x)' <=>
                 replay'[r].pc \in {"remove", "torn"} /\ Head(replay'[r].raw) = x
           /\ \A h \in Hooks : h \in Pending <=>
                 \E k \in DOMAIN replay[r].raw : Unpushed(r, k) /\ replay[r].raw[k].hook = h
           /\ \A h \in Hooks : h \in Pending' <=>
                 \E k \in DOMAIN replay'[r].raw : Unpushed(r, k)' /\ replay'[r].raw[k].hook = h
<1>1. \A q \in Replayers : q = r BY DEF OneReplayer
<1>2. /\ \A x : Replaced(x) <=>
            replay[r].pc \in {"remove", "torn"} /\ Head(replay[r].raw) = x
      /\ \A x : Replaced(x)' <=>
            replay'[r].pc \in {"remove", "torn"} /\ Head(replay'[r].raw) = x
  BY <1>1 DEF Replaced
<1>3. /\ \A h \in Hooks : h \in Pending <=>
            \E k \in DOMAIN replay[r].raw : Unpushed(r, k) /\ replay[r].raw[k].hook = h
      /\ \A h \in Hooks : h \in Pending' <=>
            \E k \in DOMAIN replay'[r].raw : Unpushed(r, k)' /\ replay'[r].raw[k].hook = h
  BY <1>1 DEF Pending
<1> QED BY <1>2, <1>3

\* What a replay knows of an entry it read.
LEMMA RawFacts ==
    ASSUME TypeOK, RawThere, NEW r \in Replayers, replay[r].pc # "none"
    PROVE  /\ replay[r].raw \in Seq(Entry) /\ replay[r].raw # <<>>
           /\ 1 \in DOMAIN replay[r].raw /\ Head(replay[r].raw) = replay[r].raw[1]
           /\ \A k \in DOMAIN replay[r].raw : replay[r].raw[k] \in Entry
           /\ DOMAIN replay[r].raw \subseteq Nat
<1>1. replay[r].raw \in Seq(Entry) /\ replay[r].raw # <<>> BY DEF TypeOK, RawThere
<1>2. 1 \in DOMAIN replay[r].raw /\ Head(replay[r].raw) = replay[r].raw[1] BY <1>1
<1>3. /\ \A k \in DOMAIN replay[r].raw : replay[r].raw[k] \in Entry
      /\ DOMAIN replay[r].raw \subseteq Nat
  BY <1>1
<1> QED BY <1>1, <1>2, <1>3

\* LRANGE: the whole list is to be replayed, with a new budget for each.
LEMMA KeepReplayRead ==
    ASSUME DeliveryAssumption, OneReplayer, IInv, NEW r \in Replayers, ReplayRead(r)
    PROVE  Kept'
<1>1. TypeOK /\ Apart /\ Covered /\ Once /\ Budgeted BY DEF IInv, Kept
<1>2. /\ replay[r].pc = "none" /\ replay'[r].pc = "push" /\ replay'[r].raw = dlq
      /\ \A q \in Replayers : q = r
  BY <1>1 DEF ReplayRead, TypeOK, OneReplayer
<1>3. /\ replays' = replays + 1
      /\ UNCHANGED <<toQueue, queue, retry, dlq, pass, direct, stamp, hasCache, posts,
                     received, lost, trimmed>>
  BY DEF ReplayRead, queueVars, rowVars, setVars, pastVars, trimVars
<1>4. \A x : ~Replaced(x) /\ ~Replaced(x)' BY <1>2, SoleReplay
<1>5. Listed' = Listed BY <1>3, <1>4 DEF Listed
<1>6. DlqOnce' BY <1>1, <1>3, <1>4 DEF Once, DlqOnce
<1>7. Pending' = Listed
  <2>1. \A k \in DOMAIN dlq : Unpushed(r, k)' BY <1>2 DEF Unpushed
  <2>2. \A h \in Hooks : h \in Pending' <=> \E k \in DOMAIN dlq : dlq[k].hook = h
    BY <1>2, <2>1, SoleReplay
  <2>3. \A h \in Hooks : h \in Listed <=> \E k \in DOMAIN dlq : dlq[k].hook = h
    BY <1>4 DEF Listed
  <2>4. Listed \subseteq Hooks /\ Pending' \subseteq Hooks BY DEF Listed, Pending
  <2> QED BY <2>2, <2>3, <2>4
<1>8. RawOnce'
  <2>1. /\ \A k, m \in DOMAIN dlq : dlq[k].hook = dlq[m].hook => k = m
        /\ \A k \in DOMAIN dlq : dlq[k].stamp < stamp
    BY <1>1, <1>4 DEF Once, DlqOnce
  <2> QED BY <1>2, <1>3, <2>1 DEF RawOnce
<1>9. /\ Round \in Nat /\ Budget \in Nat /\ Budget' = Budget + Round /\ Round' = Round
      /\ posts \in [Hooks -> Nat]
  <2>1. RetryAttempts \in Nat /\ replays \in Nat /\ posts \in [Hooks -> Nat]
    BY <1>1 DEF DeliveryAssumption, TypeOK
  <2>2. Round \in Nat BY <2>1 DEF Round
  <2>3. \A x, y \in Nat : x * (1 + y) \in Nat /\ x * (1 + (y + 1)) = x * (1 + y) + x OBVIOUS
  <2>4. Budget = Round * (1 + replays) /\ Budget' = Round * (1 + (replays + 1))
    BY <1>3 DEF Budget, Round
  <2>5. Round' = Round BY DEF Round
  <2> QED BY <2>1, <2>2, <2>3, <2>4, <2>5
<1>10. \A h \in Hooks : \A a \in Nat : Fits(h, a) => Fits(h, a)'
  <2> SUFFICES ASSUME NEW h \in Hooks, NEW a \in Nat, posts[h] + Round <= Budget + a
               PROVE  posts[h] + Round <= (Budget + Round) + a
    BY <1>3, <1>9 DEF Fits
  <2>1. posts[h] \in Nat BY <1>9
  <2>2. \A x, y, z \in Nat : x <= y => x <= y + z OBVIOUS
  <2>3. (Budget + Round) + a = (Budget + a) + Round BY <1>9
  <2> QED BY <1>9, <2>1, <2>2, <2>3
<1>11. PostsFit'
  <2>1. \A h \in Hooks : posts[h] \in Nat /\ posts[h] <= Budget
    BY <1>1, <1>9 DEF Budgeted, PostsFit
  <2>2. \A x, y, z \in Nat : x <= y => x <= y + z OBVIOUS
  <2>3. \A h \in Hooks : posts[h] <= Budget + Round BY <1>9, <2>1, <2>2
  <2> QED BY <1>3, <1>9, <2>3 DEF PostsFit
<1>12. PendingFits'
  <2> SUFFICES ASSUME NEW h \in Hooks PROVE posts[h] + Round <= (Budget + Round) + 0
    BY <1>3, <1>5, <1>7, <1>9 DEF PendingFits, Fits, Listed
  <2>1. posts[h] \in Nat /\ posts[h] <= Budget BY <1>1, <1>9 DEF Budgeted, PostsFit
  <2>2. \A x, y, z \in Nat : x <= y => x + z <= (y + z) + 0 OBVIOUS
  <2> QED BY <1>9, <2>1, <2>2
<1>13. /\ TriggerFits' /\ Queued' = Queued /\ QueueOnce' /\ QueueFits'
       /\ Retried' = Retried /\ RetryOnce' /\ RetryFits' /\ DirectOnly' /\ DirectFits'
       /\ \A p \in Passes : LiveIn(p)' = LiveIn(p) /\ ClaimedBy(p)' = ClaimedBy(p)
       /\ ItemOnce' /\ ClaimOnce' /\ ItemFits' /\ ClaimFits'
  <2> DEFINE H == {}
  <2>1. \A h \in Hooks \ H : \A a \in Nat : Fits(h, a) => Fits(h, a)' BY <1>10
  <2>2. (\A h \in H : FALSE) /\ toQueue' \subseteq toQueue BY <1>3
  <2> HIDE DEF H
  <2>3. /\ TriggerFits' /\ Queued' = Queued /\ QueueOnce' /\ QueueFits'
        /\ Retried' = Retried /\ RetryOnce' /\ RetryFits' /\ DirectOnly' /\ DirectFits'
    BY <1>1, <1>3, <2>1, <2>2, Frame
  <2>4. /\ \A p \in Passes : LiveIn(p)' = LiveIn(p) /\ ClaimedBy(p)' = ClaimedBy(p)
        /\ ItemOnce' /\ ClaimOnce' /\ ItemFits' /\ ClaimFits'
    BY <1>1, <1>3, <2>1, <2>2, Frame
  <2> QED BY <2>3, <2>4
<1>14. Moves({}, "gone") BY <1>3, <1>5, <1>13 DEF Moves, In
<1>15. \A h \in Hooks : \A k \in Kind : In(h, k)' <=> In(h, k) BY <1>14 DEF Moves
<1>16. Apart'
  <2>1. \A h \in Hooks : \A k, m \in Kind : In(h, k)' /\ In(h, m)' => k = m
    BY <1>1, <1>15 DEF Apart
  <2>2. \A h \in Listed : h \in Hooks /\ In(h, "dlq") /\ "dlq" \in Kind BY DEF In, Kind, Listed
  <2>3. \A h \in Listed : \A k \in Kind : In(h, k)' => k = "dlq" BY <1>1, <1>15, <2>2 DEF Apart
  <2> QED BY <1>7, <2>1, <2>3 DEF Apart
<1>17. Covered' BY <1>1, <1>3, <1>14, MoveCovered
<1> QED BY <1>6, <1>8, <1>11, <1>12, <1>13, <1>16, <1>17 DEF Kept, Once, Budgeted

\* RPUSH: the dead letter moves to the queue, and its entry is replaced.
LEMMA KeepReplayPush ==
    ASSUME DeliveryAssumption, OneReplayer, IInv, NEW r \in Replayers, ReplayPush(r)
    PROVE  Kept'
<1>0. PICK s, e, h : s = replay[r].raw /\ e = s[1] /\ h = e.hook OBVIOUS
<1>1. TypeOK /\ RawThere /\ Apart /\ Covered /\ Once /\ Budgeted BY DEF IInv, Kept
<1>2. replay[r].pc = "push" BY DEF ReplayPush
<1>3. /\ 1 \in DOMAIN s /\ Head(s) = e /\ e \in Entry /\ h \in Hooks
      /\ \A k \in DOMAIN s : s[k] \in Entry /\ k \in Nat
  <2>1. /\ 1 \in DOMAIN s /\ Head(s) = s[1]
        /\ \A k \in DOMAIN s : s[k] \in Entry /\ k \in Nat
    BY <1>0, <1>1, <1>2, RawFacts
  <2> QED BY <1>0, <2>1 DEF Entry
<1>4. /\ replay'[r].pc = "remove" /\ replay'[r].raw = s /\ \A q \in Replayers : q = r
  BY <1>0, <1>1 DEF ReplayPush, TypeOK, OneReplayer
<1>5. PICK load : load = [hook |-> h, attempt |-> 0] OBVIOUS
<1>6. load \in Payload /\ load.hook = h /\ load.attempt = 0
  BY <1>3, <1>5 DEF Payload, Attempt, DeliveryAssumption
<1>7. /\ queue' = Append(queue, load)
      /\ UNCHANGED <<toQueue, retry, dlq, pass, direct, stamp, hasCache, posts, replays,
                     received, lost, trimmed>>
  BY <1>0, <1>3, <1>5 DEF ReplayPush, rowVars, setVars, pastVars, trimVars
<1>8. (\A x : ~Replaced(x)) /\ (\A x : Replaced(x)' <=> x = e)
  BY <1>2, <1>3, <1>4, SoleReplay
<1>9. \A k \in DOMAIN s : Unpushed(r, k) /\ (Unpushed(r, k)' <=> k > 1)
  BY <1>0, <1>2, <1>4 DEF Unpushed
<1>10. h \in Pending BY <1>0, <1>3, <1>9, SoleReplay
<1>11. \A k \in Kind : In(h, k) => k = "dlq" BY <1>1, <1>10 DEF Apart
<1>12. /\ h \notin toQueue /\ h \notin Queued /\ h \notin Retried
       /\ h \notin received /\ direct[h].pc # "post"
       /\ \A q \in Passes : h \notin ClaimedBy(q) /\ h \notin LiveIn(q)
  BY <1>3, <1>11 DEF In, Kind
<1>13. Fits(h, 0) BY <1>1, <1>10 DEF Budgeted, PendingFits
<1>14. Queued' = Queued \union {h} /\ QueueOnce' /\ QueueFits'
  BY <1>1, <1>6, <1>7, <1>12, <1>13, QueueAppend
<1>15. /\ PostsFit' /\ TriggerFits'
       /\ Retried' = Retried /\ RetryOnce' /\ RetryFits' /\ DirectOnly' /\ DirectFits'
       /\ \A p \in Passes : LiveIn(p)' = LiveIn(p) /\ ClaimedBy(p)' = ClaimedBy(p)
       /\ ItemOnce' /\ ClaimOnce' /\ ItemFits' /\ ClaimFits'
  <2>1. toQueue' \subseteq toQueue BY <1>7
  <2> QED BY <1>1, <1>7, <2>1, FrameStill
<1>16. \A k, m \in DOMAIN s : s[k].hook = s[m].hook => k = m BY <1>0, <1>1 DEF Once, RawOnce
<1>17. Pending' \subseteq Pending /\ h \notin Pending'
  <2>1. \A g \in Hooks : g \in Pending' <=>
           \E k \in DOMAIN s : Unpushed(r, k)' /\ s[k].hook = g
    BY <1>4, SoleReplay
  <2>2. \A g \in Hooks : g \in Pending <=> \E k \in DOMAIN s : Unpushed(r, k) /\ s[k].hook = g
    BY <1>0, SoleReplay
  <2>3. \A g \in Hooks : g \in Pending' => g \in Pending BY <1>9, <2>1, <2>2
  <2>4. Pending' \subseteq Hooks BY DEF Pending
  <2>5. \A k \in DOMAIN s : s[k].hook = h => ~Unpushed(r, k)' BY <1>0, <1>3, <1>9, <1>16
  <2> QED BY <1>3, <2>1, <2>3, <2>4, <2>5
<1>18. PendingFits'
  <2>1. \A g, a : Fits(g, a)' <=> Fits(g, a) BY <1>7 DEF Fits, Budget
  <2> QED BY <1>1, <1>17, <2>1 DEF Budgeted, PendingFits
<1>19. \A i \in DOMAIN dlq : dlq[i].hook = h => dlq[i] = e
  BY <1>0, <1>1, <1>3, <1>8, <1>9 DEF Once, RawOnce
<1>20. Listed' = Listed \ {h}
  <2>1. \A g \in Hooks : g \in Listed <=> \E i \in DOMAIN dlq : dlq[i].hook = g
    BY <1>8 DEF Listed
  <2>2. \A g \in Hooks : g \in Listed' <=> \E i \in DOMAIN dlq : dlq[i].hook = g /\ dlq[i] # e
    BY <1>7, <1>8 DEF Listed
  <2>3. \A g \in Hooks : g \in Listed' <=> g \in Listed /\ g # h BY <1>0, <1>19, <2>1, <2>2
  <2>4. Listed' \subseteq Hooks /\ Listed \subseteq Hooks BY DEF Listed
  <2> QED BY <2>3, <2>4
<1>21. DlqOnce' BY <1>1, <1>7, <1>8 DEF Once, DlqOnce
<1>22. RawOnce'
  <2>1. \A k \in DOMAIN s : s[k].stamp < stamp BY <1>0, <1>1 DEF Once, RawOnce
  <2>2. \A k \in DOMAIN s, i \in DOMAIN dlq : dlq[i].hook = s[k].hook => dlq[i] = s[k]
    BY <1>0, <1>1, <1>8, <1>9 DEF Once, RawOnce
  <2> QED BY <1>4, <1>7, <1>16, <2>1, <2>2 DEF RawOnce
<1>23. Moves({h}, "queue") BY <1>3, <1>7, <1>12, <1>14, <1>15, <1>20 DEF Moves, In, Kind
<1>24. Apart'
  <2>1. {h} \intersect Pending' = {} BY <1>17
  <2> QED BY <1>1, <1>17, <1>23, <2>1, MoveApart
<1>25. Covered' BY <1>1, <1>7, <1>23, MoveCovered DEF Kind
<1> QED BY <1>14, <1>15, <1>18, <1>21, <1>22, <1>24, <1>25 DEF Kept, Once, Budgeted

\* LREM 1: the entry that was replaced goes.
LEMMA KeepReplayRemove ==
    ASSUME DeliveryAssumption, OneReplayer, IInv, NEW r \in Replayers, ReplayRemove(r)
    PROVE  Kept'
<1>0. PICK s, e, d : s = replay[r].raw /\ e = s[1] /\ d = dlq OBVIOUS
<1>1. TypeOK /\ RawThere /\ Apart /\ Covered /\ Once /\ Budgeted BY DEF IInv, Kept
<1>2. replay[r].pc = "remove" BY DEF ReplayRemove
<1>3. /\ s \in Seq(Entry) /\ s # <<>> /\ Head(s) = e /\ d \in Seq(Entry)
  BY <1>0, <1>1, <1>2, RawFacts DEF TypeOK
<1>4. /\ dlq' = FirstRemoved(d, e)
      /\ replay'[r] = IF Tail(s) = <<>> THEN NoReplay ELSE [pc |-> "push", raw |-> Tail(s)]
      /\ UNCHANGED <<toQueue, queue, retry, pass, direct, stamp, hasCache, posts, replays,
                     received, lost, trimmed>>
  BY <1>0, <1>1, <1>3 DEF ReplayRemove, rowVars, setVars, pastVars, trimVars, TypeOK
<1>5. /\ replay'[r].pc \in {"none", "push"}
      /\ \A k \in DOMAIN replay'[r].raw :
            /\ k + 1 \in DOMAIN s /\ k + 1 > 1 /\ replay'[r].raw[k] = s[k + 1] /\ k \in Nat
  <2>1. replay'[r].pc \in {"none", "push"} BY <1>4 DEF NoReplay
  <2>2. replay'[r].raw = Tail(s) BY <1>4 DEF NoReplay
  <2>3. \A k \in DOMAIN Tail(s) :
           k + 1 \in DOMAIN s /\ k + 1 > 1 /\ Tail(s)[k] = s[k + 1] /\ k \in Nat
    <3>1. /\ Tail(s) \in Seq(Entry) /\ Len(Tail(s)) = Len(s) - 1
          /\ \A k \in 1 .. Len(Tail(s)) : Tail(s)[k] = s[k + 1]
      BY <1>3, HeadTailProperties
    <3>2. /\ DOMAIN Tail(s) = 1 .. Len(Tail(s)) /\ DOMAIN s = 1 .. Len(s) /\ Len(s) \in Nat
      BY <1>3, <3>1, LenProperties
    <3> QED BY <3>1, <3>2
  <2> QED BY <2>1, <2>2, <2>3
<1>6. (\A x : Replaced(x) <=> x = e) /\ (\A x : ~Replaced(x)')
  BY <1>0, <1>2, <1>3, <1>5, SoleReplay
<1>7. \A k, m \in DOMAIN d : d[k] = e /\ d[m] = e => k = m BY <1>0, <1>1 DEF Once, DlqOnce
<1>8. PICK f \in [DOMAIN dlq' -> DOMAIN d] :
         /\ \A i \in DOMAIN dlq' : dlq'[i] = d[f[i]] /\ d[f[i]] # e
         /\ \A i, j \in DOMAIN dlq' : f[i] = f[j] => i = j
         /\ \A k \in DOMAIN d : d[k] # e => \E i \in DOMAIN dlq' : f[i] = k
  <2>1. PICK f : Leaves(d, e, f) BY <1>3, Removed
  <2> QED BY <1>4, <1>7, <2>1 DEF Leaves
<1>9. Listed' \subseteq Listed /\ DlqOnce'
  <2>1. \E g \in [DOMAIN dlq' -> DOMAIN dlq] :
          /\ \A j \in DOMAIN dlq' : dlq'[j] = dlq[g[j]]
          /\ \A j, k \in DOMAIN dlq' : g[j] = g[k] => j = k
          /\ \A j \in DOMAIN dlq' : Replaced(dlq[j])' <=> Replaced(dlq[g[j]])
    <3>1. \A j \in DOMAIN dlq' : Replaced(dlq[j])' <=> Replaced(dlq[f[j]])
      <4> SUFFICES ASSUME NEW j \in DOMAIN dlq' PROVE ~Replaced(dlq[j])' /\ ~Replaced(dlq[f[j]])
        OBVIOUS
      <4>1. PICK x : x = dlq'[j] OBVIOUS
      <4>2. ~Replaced(x)' BY <1>6
      <4>3. ~Replaced(dlq[j])' BY <4>1, <4>2 DEF Replaced
      <4> QED BY <1>0, <1>6, <1>8, <4>3
    <3> QED BY <1>0, <1>8, <3>1
  <2> QED BY <1>1, <1>4, <2>1, DlqShrinks
<1>10. Listed' = Listed
  <2>1. ASSUME NEW g \in Listed PROVE g \in Listed'
    <3>1. g \in Hooks BY DEF Listed
    <3>2. PICK k \in DOMAIN d : d[k].hook = g /\ d[k] # e BY <1>0, <1>6 DEF Listed
    <3>3. PICK i \in DOMAIN dlq' : f[i] = k BY <1>8, <3>2
    <3>4. dlq'[i].hook = g BY <1>8, <3>2, <3>3
    <3> QED BY <1>6, <3>1, <3>4 DEF Listed
  <2> QED BY <1>9, <2>1
<1>11. \A k \in DOMAIN replay'[r].raw : Unpushed(r, k + 1) BY <1>0, <1>2, <1>5 DEF Unpushed
<1>12. Pending' \subseteq Pending
  <2>1. ASSUME NEW g \in Hooks, g \in Pending' PROVE g \in Pending
    <3>1. PICK k \in DOMAIN replay'[r].raw : replay'[r].raw[k].hook = g BY <2>1, SoleReplay
    <3>2. k + 1 \in DOMAIN s /\ s[k + 1].hook = g /\ Unpushed(r, k + 1) BY <1>5, <1>11, <3>1
    <3> QED BY <1>0, <3>2, SoleReplay
  <2>2. Pending' \subseteq Hooks BY DEF Pending
  <2> QED BY <2>1, <2>2
<1>13. RawOnce'
  <2>1. \A q \in Replayers : q = r BY DEF OneReplayer
  <2>2. ASSUME NEW k \in DOMAIN replay'[r].raw, NEW m \in DOMAIN replay'[r].raw,
               replay'[r].raw[k].hook = replay'[r].raw[m].hook
        PROVE k = m
    <3>1. k + 1 = m + 1 BY <1>0, <1>1, <1>5, <2>2 DEF Once, RawOnce
    <3> QED BY <1>5, <3>1
  <2>3. \A k \in DOMAIN replay'[r].raw : replay'[r].raw[k].stamp < stamp'
    BY <1>0, <1>1, <1>4, <1>5 DEF Once, RawOnce
  <2>4. ASSUME NEW k \in DOMAIN replay'[r].raw, NEW i \in DOMAIN dlq',
               dlq'[i].hook = replay'[r].raw[k].hook
        PROVE dlq'[i] = replay'[r].raw[k]
    <3>1. f[i] \in DOMAIN d /\ dlq'[i] = d[f[i]] /\ ~Replaced(d[f[i]]) BY <1>6, <1>8
    <3>2. k + 1 \in DOMAIN s /\ replay'[r].raw[k] = s[k + 1] /\ Unpushed(r, k + 1)
      BY <1>5, <1>11
    <3> QED BY <1>0, <1>1, <2>4, <3>1, <3>2 DEF Once, RawOnce
  <2> QED BY <2>1, <2>2, <2>3, <2>4 DEF RawOnce
<1>14. /\ PostsFit' /\ TriggerFits' /\ Queued' = Queued /\ QueueOnce' /\ QueueFits'
       /\ Retried' = Retried /\ RetryOnce' /\ RetryFits' /\ DirectOnly' /\ DirectFits'
       /\ \A p \in Passes : LiveIn(p)' = LiveIn(p) /\ ClaimedBy(p)' = ClaimedBy(p)
       /\ ItemOnce' /\ ClaimOnce' /\ ItemFits' /\ ClaimFits'
  <2>1. toQueue' \subseteq toQueue BY <1>4
  <2> QED BY <1>1, <1>4, <2>1, FrameStill
<1>15. PendingFits'
  <2>1. \A g, a : Fits(g, a)' <=> Fits(g, a) BY <1>4 DEF Fits, Budget
  <2> QED BY <1>1, <1>12, <2>1 DEF Budgeted, PendingFits
<1>16. Moves({}, "gone") BY <1>4, <1>10, <1>14 DEF Moves, In
<1>17. Apart' BY <1>1, <1>12, <1>16, MoveApart
<1>18. Covered' BY <1>1, <1>4, <1>16, MoveCovered
<1> QED BY <1>9, <1>13, <1>14, <1>15, <1>17, <1>18 DEF Kept, Once, Budgeted

\* The request ends half way: what it did not queue is as it was before it.
LEMMA KeepReplayStops ==
    ASSUME OneReplayer, IInv, NEW r \in Replayers, ReplayStops(r)
    PROVE  Kept'
<1>1. TypeOK /\ Apart /\ Covered /\ Once /\ Budgeted BY DEF IInv, Kept
<1>2. /\ \A q \in Replayers : q = r
      /\ UNCHANGED <<toQueue, queue, retry, dlq, pass, direct, stamp, hasCache, posts, replays,
                     received, lost, trimmed>>
  BY DEF ReplayStops, OneReplayer, queueVars, rowVars, pastVars, trimVars
<1>3. /\ replay'[r].pc \in {"none", "torn"}
      /\ replay'[r].pc = "torn" => replay[r].pc = "remove" /\ replay'[r].raw = replay[r].raw
      /\ replay'[r].pc = "none" => replay[r].pc = "push" /\ DOMAIN replay'[r].raw = {}
  <2>1. replay[r].pc \in {"push", "remove"} BY DEF ReplayStops
  <2>2. CASE replay[r].pc = "push"
    <3>1. replay'[r] = NoReplay BY <1>1, <2>2 DEF ReplayStops, TypeOK
    <3> QED BY <2>2, <3>1 DEF NoReplay
  <2>3. CASE replay[r].pc = "remove"
    <3>1. replay'[r] = [replay[r] EXCEPT !.pc = "torn"] BY <1>1, <2>3 DEF ReplayStops, TypeOK
    <3>2. replay[r] \in [pc : {"none", "push", "remove", "torn"}, raw : Seq(Entry)]
      BY <1>1 DEF TypeOK
    <3> QED BY <2>3, <3>1, <3>2
  <2> QED BY <2>1, <2>2, <2>3
<1>4. \A x : Replaced(x)' <=> Replaced(x) BY <1>3, SoleReplay
<1>5. \A k : ~Unpushed(r, k)' BY <1>3 DEF Unpushed
<1>6. Pending' = {} BY <1>2, <1>5 DEF Pending
<1>7. Listed' = Listed BY <1>2, <1>4 DEF Listed
<1>8. DlqOnce' BY <1>1, <1>2, <1>4 DEF Once, DlqOnce
<1>9. RawOnce'
  <2>1. \A k \in DOMAIN replay'[r].raw : k \in DOMAIN replay[r].raw /\ replay'[r].raw = replay[r].raw
    BY <1>3
  <2> QED BY <1>1, <1>2, <1>5, <2>1 DEF Once, RawOnce
<1>10. /\ PostsFit' /\ TriggerFits' /\ Queued' = Queued /\ QueueOnce' /\ QueueFits'
       /\ Retried' = Retried /\ RetryOnce' /\ RetryFits' /\ DirectOnly' /\ DirectFits'
       /\ \A p \in Passes : LiveIn(p)' = LiveIn(p) /\ ClaimedBy(p)' = ClaimedBy(p)
       /\ ItemOnce' /\ ClaimOnce' /\ ItemFits' /\ ClaimFits'
  <2>1. toQueue' \subseteq toQueue BY <1>2
  <2> QED BY <1>1, <1>2, <2>1, FrameStill
<1>11. PendingFits' BY <1>6 DEF PendingFits
<1>12. Moves({}, "gone") BY <1>2, <1>7, <1>10 DEF Moves, In
<1>13. Apart'
  <2>1. Pending' \subseteq Pending BY <1>6
  <2> QED BY <1>1, <1>12, <2>1, MoveApart
<1>14. Covered' BY <1>1, <1>2, <1>12, MoveCovered
<1> QED BY <1>8, <1>9, <1>10, <1>11, <1>13, <1>14 DEF Kept, Once, Budgeted

-----------------------------------------------------------------------------
(* The invariant.                                                          *)

LEMMA KeepInit == ASSUME DeliveryAssumption, Init PROVE IInv
<1>1. TypeOK /\ RawThere BY InitType DEF Init, RawThere, NoReplay
<1>2. PassKept
  <2>1. Len(<<>>) = 0 /\ Batch \in Nat BY DEF DeliveryAssumption
  <2> QED BY <2>1 DEF Init, PassKept, Idle
<1>3. /\ toQueue = Hooks /\ DOMAIN queue = {} /\ retry = {} /\ DOMAIN dlq = {} /\ received = {}
      /\ \A p \in Passes : DOMAIN pass[p].items = {} /\ DOMAIN pass[p].claimed = {}
      /\ \A h \in Hooks : direct[h].pc = "none" /\ posts[h] = 0
      /\ \A r \in Replayers : DOMAIN replay[r].raw = {} /\ replay[r].pc = "none"
      /\ replays = 0
  BY DEF Init, Idle, NoDelivery, NoReplay
<1>4. /\ Queued = {} /\ Retried = {} /\ Listed = {} /\ Pending = {}
      /\ \A p \in Passes : LiveIn(p) = {} /\ ClaimedBy(p) = {}
  BY <1>3 DEF Queued, Retried, Listed, Pending, LiveIn, ClaimedBy
<1>5. \A h \in Hooks : \A k \in Kind : In(h, k) <=> k = "toQueue" BY <1>3, <1>4 DEF In, Kind
<1>6. Apart BY <1>4, <1>5 DEF Apart
<1>7. Covered
  <2>1. "toQueue" \in Kind BY DEF Kind
  <2> QED BY <1>5, <2>1 DEF Covered
<1>8. QueueOnce /\ RetryOnce /\ DlqOnce BY <1>3 DEF QueueOnce, RetryOnce, DlqOnce
<1>9. ItemOnce /\ ClaimOnce /\ RawOnce /\ DirectOnly
  BY <1>3, <1>4 DEF ItemOnce, ClaimOnce, RawOnce, DirectOnly
<1>10. Round \in Nat /\ Budget = Round
  <2>1. Round \in Nat BY DEF Round, DeliveryAssumption
  <2>2. \A x \in Nat : x * (1 + 0) = x OBVIOUS
  <2> QED BY <1>3, <2>1, <2>2 DEF Budget
<1>11. PostsFit BY <1>3, <1>10 DEF PostsFit
<1>12. TriggerFits BY <1>3, <1>10 DEF TriggerFits, Fits
<1>13. QueueFits /\ RetryFits /\ ItemFits /\ ClaimFits /\ DirectFits /\ PendingFits
  BY <1>3, <1>4 DEF QueueFits, RetryFits, ItemFits, ClaimFits, DirectFits, PendingFits
<1> QED BY <1>1, <1>2, <1>6, <1>7, <1>8, <1>9, <1>11, <1>12, <1>13
  DEF IInv, Kept, Once, Budgeted

LEMMA KeepStep ==
    ASSUME DeliveryAssumption, OneReplayer, IInv, [Next]_vars
    PROVE  IInv'
<1>1. TypeOK /\ RawThere /\ PassKept BY DEF IInv
<1>2. TypeOK' /\ RawThere' /\ PassKept' BY <1>1, TypeStep, RawStep, PassStep
<1>3. ASSUME UNCHANGED vars PROVE Kept'
  BY <1>3, KeepStill DEF vars, queueVars, setVars, pastVars, trimVars
<1>4. ASSUME Trigger PROVE Kept' BY <1>4, KeepTriggerNext DEF Trigger
<1>5. ASSUME NEW h \in Hooks, Direct(h) PROVE Kept' BY <1>5, KeepDirectDeliver DEF Direct
<1>6. ASSUME NEW p \in Passes, Process(p) PROVE Kept'
  <2>1. CASE Pop(p) BY <2>1, KeepPop
  <2>2. CASE ReadDue(p) BY <2>2, KeepReadDue
  <2>3. CASE PushDue(p) BY <1>2, <2>3, KeepPushDue
  <2>4. CASE PassBroken(p) BY <2>4, KeepPassBroken
  <2>5. ASSUME NEW i \in DOMAIN pass[p].items, Item(p, i) PROVE Kept'
    <3>1. CASE FileRetry(p, i) BY <1>2, <3>1, KeepFileRetry
    <3>2. CASE DeadLetter(p, i) BY <1>2, <3>2, KeepDeadLetter
    <3>3. CASE Trim(p, i) BY <1>2, <3>3, KeepTrim
    <3>4. ASSUME NEW ok \in BOOLEAN, Deliver(p, i, ok) PROVE Kept' BY <1>2, <3>4, KeepDeliver
    <3> QED BY <2>5, <3>1, <3>2, <3>3, <3>4 DEF Item
  <2>6. ASSUME NEW load \in pass[p].due, ClaimDue(p, load) PROVE Kept'
    BY <1>2, <2>6, KeepClaimDue
  <2>7. ASSUME NEW load \in pass[p].due, ClaimMissed(p, load) PROVE Kept'
    BY <2>7, KeepClaimMissed
  <2> QED BY <1>6, <2>1, <2>2, <2>3, <2>4, <2>5, <2>6, <2>7 DEF Process
<1>7. ASSUME NEW r \in Replayers, Replay(r) PROVE Kept'
  BY <1>7, KeepReplayRead, KeepReplayPush, KeepReplayRemove DEF Replay
<1>8. ASSUME NEW o \in outcomes, RecordOutcome(o) PROVE Kept'
  BY <1>8, KeepStill DEF RecordOutcome, queueVars, setVars, pastVars, trimVars
<1>9. ASSUME NEW load \in retry, ComesDue(load) PROVE Kept'
  BY <1>9, KeepStill DEF ComesDue, setVars, pastVars, trimVars
<1>10. ASSUME Fault PROVE Kept'
  <2>1. CASE TriggerFails BY <2>1, KeepTriggerFails
  <2>2. ASSUME NEW h \in Hooks, DirectCrash(h) PROVE Kept' BY <2>2, KeepDirectCrash
  <2>3. ASSUME NEW p \in Passes, PassDies(p) PROVE Kept' BY <2>3, KeepPassDies
  <2>4. ASSUME NEW p \in Passes, NEW i \in DOMAIN pass[p].items, FilingFails(p, i) PROVE Kept'
    BY <1>2, <2>4, KeepFilingFails
  <2>5. ASSUME NEW p \in Passes, NEW i \in DOMAIN pass[p].items, TrimFails(p, i) PROVE Kept'
    BY <1>2, <2>5, KeepTrimFails
  <2>6. ASSUME NEW r \in Replayers, ReplayStops(r) PROVE Kept' BY <2>6, KeepReplayStops
  <2>7. ASSUME NEW o \in outcomes, OutcomeLost(o) PROVE Kept'
    BY <2>7, KeepStill DEF OutcomeLost, queueVars, pastVars, trimVars
  <2> QED BY <1>10, <2>1, <2>2, <2>3, <2>4, <2>5, <2>6, <2>7 DEF Fault
<1>11. Kept'
  BY <1>3, <1>4, <1>5, <1>6, <1>7, <1>8, <1>9, <1>10 DEF Next, Terminated
<1> QED BY <1>2, <1>11 DEF IInv

-----------------------------------------------------------------------------
(* What it says of the copies and the attempts.                            *)

\* The copies of h, place by place.
LEMMA CopyIs ==
    ASSUME NEW h, NEW x
    PROVE  x \in Copies(h) <=>
             \/ \E i \in DOMAIN queue : queue[i].hook = h /\ x = <<"queue", i>>
             \/ \E l \in retry : l.hook = h /\ x = <<"retry", l.attempt>>
             \/ \E p \in Passes : \E i \in DOMAIN pass[p].items :
                   Live(p, i) /\ pass[p].items[i].load.hook = h /\ x = <<"item", p, i>>
             \/ \E p \in Passes : \E i \in DOMAIN pass[p].claimed :
                   pass[p].claimed[i].hook = h /\ x = <<"claimed", p>>
             \/ direct[h].pc = "post" /\ x = <<"direct", h>>
             \/ \E i \in DOMAIN dlq :
                   dlq[i].hook = h /\ ~Replaced(dlq[i]) /\ x = <<"dlq", i>>
<1>1. x \in Copies(h) <=> x \in Travelling(h) \/
         \E i \in DOMAIN dlq : dlq[i].hook = h /\ ~Replaced(dlq[i]) /\ x = <<"dlq", i>>
  BY DEF Copies
<1>2. PICK P : P = UNION {
        {<<"item", p, i>> : i \in {j \in DOMAIN pass[p].items :
             /\ pass[p].items[j].load.hook = h
             /\ pass[p].items[j].st \in {"post", "failed"}}}
        \union {<<"claimed", p>> : i \in {j \in DOMAIN pass[p].claimed :
             pass[p].claimed[j].hook = h}} : p \in Passes}
  OBVIOUS
<1>3. x \in P <=>
        \/ \E p \in Passes : \E i \in DOMAIN pass[p].items :
              Live(p, i) /\ pass[p].items[i].load.hook = h /\ x = <<"item", p, i>>
        \/ \E p \in Passes : \E i \in DOMAIN pass[p].claimed :
              pass[p].claimed[i].hook = h /\ x = <<"claimed", p>>
  BY <1>2 DEF Live
<1>4. Travelling(h) =
        {<<"queue", i>> : i \in {j \in DOMAIN queue : queue[j].hook = h}}
        \union {<<"retry", load.attempt>> : load \in {l \in retry : l.hook = h}}
        \union P
        \union {<<"direct", k>> : k \in {l \in {h} : direct[l].pc = "post"}}
  BY <1>2 DEF Travelling
<1>5. x \in Travelling(h) <=>
        \/ \E i \in DOMAIN queue : queue[i].hook = h /\ x = <<"queue", i>>
        \/ \E l \in retry : l.hook = h /\ x = <<"retry", l.attempt>>
        \/ x \in P
        \/ direct[h].pc = "post" /\ x = <<"direct", h>>
  BY <1>4
<1> QED BY <1>1, <1>3, <1>5

LEMMA OneAtMost ==
    ASSUME IInv, NEW h \in Hooks, NEW x \in Copies(h), NEW y \in Copies(h)
    PROVE  x = y /\ h \notin received
<1>1. Apart /\ Once /\ TypeOK BY DEF IInv, Kept
<1>2. \A k, m \in Kind : In(h, k) /\ In(h, m) => k = m BY <1>1 DEF Apart
<1>3. ASSUME NEW z \in Copies(h)
      PROVE \/ \E i \in DOMAIN queue : queue[i].hook = h /\ z = <<"queue", i>> /\ In(h, "queue")
            \/ \E l \in retry : l.hook = h /\ z = <<"retry", l.attempt>> /\ In(h, "retry")
            \/ \E p \in Passes : \E i \in DOMAIN pass[p].items :
                  /\ Live(p, i) /\ pass[p].items[i].load.hook = h /\ z = <<"item", p, i>>
                  /\ In(h, "item")
            \/ \E p \in Passes : h \in ClaimedBy(p) /\ z = <<"claimed", p>> /\ In(h, "claimed")
            \/ z = <<"direct", h>> /\ In(h, "direct")
            \/ \E i \in DOMAIN dlq :
                  dlq[i].hook = h /\ ~Replaced(dlq[i]) /\ z = <<"dlq", i>> /\ In(h, "dlq")
  BY CopyIs DEF In, Queued, Retried, LiveIn, ClaimedBy, Listed
<1>4. \A z \in Copies(h) : z[1] \in Kind \ {"toQueue", "received"} /\ In(h, z[1])
  BY <1>3 DEF Kind
<1>5. h \notin received
  <2>1. In(h, "received") <=> h \in received BY DEF In
  <2>2. "received" \in Kind BY DEF Kind
  <2> QED BY <1>2, <1>4, <2>1, <2>2
<1>6. x[1] = y[1] BY <1>2, <1>4
<1>7. CASE x[1] = "queue"
  <2>0. y[1] = "queue" BY <1>6, <1>7
  <2>1. PICK i \in DOMAIN queue : queue[i].hook = h /\ x = <<"queue", i>> BY <1>3, <1>7
  <2>2. PICK j \in DOMAIN queue : queue[j].hook = h /\ y = <<"queue", j>> BY <1>3, <2>0
  <2> QED BY <1>1, <1>5, <2>1, <2>2 DEF Once, QueueOnce
<1>8. CASE x[1] = "retry"
  <2>0. y[1] = "retry" BY <1>6, <1>8
  <2>1. PICK l \in retry : l.hook = h /\ x = <<"retry", l.attempt>> BY <1>3, <1>8
  <2>2. PICK m \in retry : m.hook = h /\ y = <<"retry", m.attempt>> BY <1>3, <2>0
  <2> QED BY <1>1, <1>5, <2>1, <2>2 DEF Once, RetryOnce
<1>9. CASE x[1] = "item"
  <2>0. y[1] = "item" BY <1>6, <1>9
  <2>1. PICK p \in Passes : \E i \in DOMAIN pass[p].items :
           Live(p, i) /\ pass[p].items[i].load.hook = h /\ x = <<"item", p, i>>
    BY <1>3, <1>9
  <2>2. PICK q \in Passes : \E j \in DOMAIN pass[q].items :
           Live(q, j) /\ pass[q].items[j].load.hook = h /\ y = <<"item", q, j>>
    BY <1>3, <2>0
  <2> QED BY <1>1, <1>5, <2>1, <2>2 DEF Once, ItemOnce
<1>10. CASE x[1] = "claimed"
  <2>0. y[1] = "claimed" BY <1>6, <1>10
  <2>1. PICK p \in Passes : h \in ClaimedBy(p) /\ x = <<"claimed", p>> BY <1>3, <1>10
  <2>2. PICK q \in Passes : h \in ClaimedBy(q) /\ y = <<"claimed", q>> BY <1>3, <2>0
  <2> QED BY <1>1, <1>5, <2>1, <2>2 DEF Once, ClaimOnce
<1>11. CASE x[1] = "direct"
  <2>0. y[1] = "direct" BY <1>6, <1>11
  <2>1. x = <<"direct", h>> BY <1>3, <1>11
  <2>2. y = <<"direct", h>> BY <1>3, <2>0
  <2> QED BY <1>5, <2>1, <2>2
<1>12. CASE x[1] = "dlq"
  <2>0. y[1] = "dlq" BY <1>6, <1>12
  <2>1. PICK i \in DOMAIN dlq : dlq[i].hook = h /\ ~Replaced(dlq[i]) /\ x = <<"dlq", i>>
    BY <1>3, <1>12
  <2>2. PICK j \in DOMAIN dlq : dlq[j].hook = h /\ ~Replaced(dlq[j]) /\ y = <<"dlq", j>>
    BY <1>3, <2>0
  <2> QED BY <1>1, <1>5, <2>1, <2>2 DEF Once, DlqOnce
<1> QED BY <1>4, <1>7, <1>8, <1>9, <1>10, <1>11, <1>12 DEF Kind

LEMMA KeptIsOnce == ASSUME IInv PROVE KeptOnce
<1>1. ASSUME NEW h \in Hooks
      PROVE Cardinality(Copies(h)) + Cardinality({h} \intersect received) <= 1
  <2>0. Cardinality({}) = 0 /\ Cardinality({h}) = 1 BY FS_EmptySet, FS_Singleton
  <2>1. CASE Copies(h) = {}
    <3>1. {h} \intersect received = {} \/ {h} \intersect received = {h} OBVIOUS
    <3>2. Cardinality({h} \intersect received) \in {0, 1} BY <2>0, <3>1
    <3> QED BY <2>0, <2>1, <3>2
  <2>2. CASE Copies(h) # {}
    <3>1. PICK x : x \in Copies(h) BY <2>2
    <3>2. h \notin received /\ \A y \in Copies(h) : x = y BY <3>1, OneAtMost
    <3>3. PICK C : C = Copies(h) OBVIOUS
    <3>4. C = {x} BY <3>1, <3>2, <3>3
    <3>5. Cardinality(C) = 1 BY <3>4, FS_Singleton
    <3>6. {h} \intersect received = {} BY <3>2
    <3> QED BY <2>0, <3>3, <3>5, <3>6
  <2> QED BY <2>1, <2>2
<1>2. ASSUME hasCache, NEW h \in Hooks \ (toQueue \union received \union trimmed \union lost)
      PROVE Copies(h) # {}
  <2>1. PICK k \in Kind : In(h, k) BY <1>2 DEF IInv, Kept, Covered
  <2>2. k \notin {"toQueue", "received"} BY <1>2, <2>1 DEF In
  <2>3. k # "direct" BY <1>2, <2>1 DEF In, IInv, Kept, Once, DirectOnly
  <2>4. CASE k = "queue"
    <3>1. PICK i \in DOMAIN queue : queue[i].hook = h BY <2>1, <2>4 DEF In, Queued
    <3>2. <<"queue", i>> \in Copies(h) BY <3>1, CopyIs
    <3> QED BY <3>2
  <2>5. CASE k = "retry"
    <3>1. PICK l \in retry : l.hook = h BY <2>1, <2>5 DEF In, Retried
    <3>2. <<"retry", l.attempt>> \in Copies(h) BY <3>1, CopyIs
    <3> QED BY <3>2
  <2>6. CASE k = "item"
    <3>1. PICK p \in Passes : \E i \in DOMAIN pass[p].items :
             Live(p, i) /\ pass[p].items[i].load.hook = h
      BY <2>1, <2>6 DEF In, LiveIn
    <3>2. PICK i \in DOMAIN pass[p].items : Live(p, i) /\ pass[p].items[i].load.hook = h
      BY <3>1
    <3>3. <<"item", p, i>> \in Copies(h) BY <3>2, CopyIs
    <3> QED BY <3>3
  <2>7. CASE k = "claimed"
    <3>1. PICK p \in Passes : \E i \in DOMAIN pass[p].claimed : pass[p].claimed[i].hook = h
      BY <2>1, <2>7 DEF In, ClaimedBy
    <3>2. <<"claimed", p>> \in Copies(h) BY <3>1, CopyIs
    <3> QED BY <3>2
  <2>8. CASE k = "dlq"
    <3>1. PICK i \in DOMAIN dlq : dlq[i].hook = h /\ ~Replaced(dlq[i])
      BY <2>1, <2>8 DEF In, Listed
    <3>2. <<"dlq", i>> \in Copies(h) BY <3>1, CopyIs
    <3> QED BY <3>2
  <2> QED BY <2>2, <2>3, <2>4, <2>5, <2>6, <2>7, <2>8 DEF Kind
<1> QED BY <1>1, <1>2 DEF KeptOnce, OneCopy, NothingVanishes

\* With one replay at a time, through every command of every pass a payload
\* is neither doubled nor lost (webhook-worker.ts, POST /dlq/replay): it is in
\* one place until its endpoint answers well.
THEOREM PayloadsKeptOnce == OneReplayer => (Spec => []KeptOnce)
<1> USE DeliveryAssumption
<1>1. OneReplayer /\ Init => IInv BY KeepInit
<1>2. OneReplayer /\ IInv /\ [Next]_vars => IInv' BY KeepStep
<1>3. IInv => KeptOnce BY KeptIsOnce
<1> SUFFICES ASSUME OneReplayer PROVE Spec => []KeptOnce OBVIOUS
<1>4. Init => IInv BY <1>1
<1>5. IInv /\ [Next]_vars => IInv' BY <1>2
<1> QED BY <1>3, <1>4, <1>5, PTL DEF Spec

\* With one replay at a time, however passes of any number of replicas
\* interleave, a payload is posted once and retried at most RetryAttempts
\* times, for the trigger and again for every replay (webhook-worker.ts).
THEOREM AttemptsAreBounded == OneReplayer => (Spec => []AttemptsBounded)
<1> USE DeliveryAssumption
<1> SUFFICES ASSUME OneReplayer PROVE Spec => []AttemptsBounded OBVIOUS
<1>1. Init => IInv BY KeepInit
<1>2. IInv /\ [Next]_vars => IInv' BY KeepStep
<1>3. IInv => AttemptsBounded
  BY DEF IInv, Kept, Budgeted, PostsFit, Budget, Round, AttemptsBounded
<1> QED BY <1>1, <1>2, <1>3, PTL DEF Spec

==============================================================================
