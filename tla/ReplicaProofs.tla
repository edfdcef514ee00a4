---------------------------- MODULE ReplicaProofs ----------------------------
(***************************************************************************)
(* Proofs for the two components in which engine processes meet in the     *)
(* database alone.                                                         *)
(*                                                                         *)
(* AdvisoryLock, for every finite set of calls on any processes and keys   *)
(* and every pool size: the type invariant, that two works that ran side   *)
(* by side are not both reported as run, and that holders never take the   *)
(* whole pool.                                                             *)
(*                                                                         *)
(* SingleInstance, for every set of processes and every length of the live *)
(* window, the grace period and the reaping delay, as long as no process   *)
(* is cut off from the database longer than its row lives.                 *)
(***************************************************************************)
EXTENDS AdvisoryLock, SingleInstance, FiniteSetTheorems, TLAPS

\* The holders of a process are a finite set, so their number is a natural.
LEMMA HoldersFinite ==
  ASSUME NEW S, S \subseteq Call
  PROVE  IsFiniteSet(S) /\ Cardinality(S) \in Nat
BY ConstantsAssumption, FS_Subset, FS_CardinalityType

LEMMA CapBelowPool == Cap \in Nat /\ Cap >= 1 /\ Cap < PoolMax
BY ConstantsAssumption DEF Cap

LEMMA InitIInv == Init => IInv
<1> SUFFICES ASSUME Init PROVE IInv
  OBVIOUS
<1>1. TypeOK
  BY ConstantsAssumption, CapBelowPool DEF Init, TypeOK, SlotStates
<1>2. SlotsOK
  <2>1. \A p \in Proc : SlotHolders(p) = {}
    BY DEF Init, SlotHolders, SlotStates, Holders
  <2> QED BY <2>1, FS_EmptySet DEF Init, SlotsOK
<1>3. QueueOK /\ LockOK /\ OneOfTwoTainted /\ OutcomeAtEnd
  BY DEF Init, QueueOK, LockOK, LockStates, OneOfTwoTainted, OutcomeAtEnd
<1> QED BY <1>1, <1>2, <1>3 DEF IInv

\* Types of the variables the queue for slots is made of.
SlotTypes ==
  /\ pc \in [Call -> SlotStates \union {"idle", "queued", "woken", "done"}]
  /\ \A c \in Call : pc[c] \in {"queued", "woken"} => c \in Holders
  /\ holding \in [Proc -> 0 .. Cap]
  /\ waiting \in [Proc -> Seq(Holders)]

SlotInv == SlotTypes /\ QueueOK /\ SlotsOK

\* What queues are holders' calls, each queued.
LEMMA QueuedAreCalls ==
  ASSUME SlotInv, NEW p \in Proc
  PROVE  /\ waiting[p] \in Seq(Holders)
         /\ \A i \in 1 .. Len(waiting[p]) :
              /\ waiting[p][i] \in Call /\ waiting[p][i] \in Holders
              /\ ProcOf[waiting[p][i]] = p /\ pc[waiting[p][i]] = "queued"
<1>1. waiting[p] \in Seq(Holders)
  BY DEF SlotInv, SlotTypes
<1>2. \A i \in 1 .. Len(waiting[p]) : waiting[p][i] \in Holders
  BY <1>1
<1>3. Holders \subseteq Call
  BY DEF Holders
<1> QED BY <1>1, <1>2, <1>3 DEF SlotInv, QueueOK

\* Moves between two states that hold a slot change neither queue nor count.
LEMMA MoveKeepsSlots ==
  ASSUME SlotInv, NEW c \in Call, NEW s \in SlotStates,
         pc[c] \in SlotStates, pc' = [pc EXCEPT ![c] = s],
         UNCHANGED <<holding, waiting>>
  PROVE  SlotInv'
<1>1. SlotTypes'
  BY DEF SlotInv, SlotTypes, SlotStates
<1>2. \A d \in Call : /\ pc'[d] \in SlotStates <=> pc[d] \in SlotStates
                      /\ pc[d] = "queued" => pc'[d] = "queued"
  BY DEF SlotInv, SlotTypes, SlotStates
<1>3. \A p \in Proc : SlotHolders(p)' = SlotHolders(p)
  BY <1>2 DEF SlotHolders, Holders
<1>4. SlotsOK'
  BY <1>3 DEF SlotInv, SlotsOK
<1>5. QueueOK'
  <2>1. \A p \in Proc : \A i \in 1 .. Len(waiting[p]) : waiting[p][i] \in Call
    BY QueuedAreCalls
  <2> QED BY <1>2, <2>1 DEF SlotInv, QueueOK
<1> QED BY <1>1, <1>4, <1>5 DEF SlotInv

\* takeHolderSlot queues the caller or counts it, from idle or woken.
LEMMA TakeKeepsSlots ==
  ASSUME SlotInv, NEW c \in Holders, pc[c] \in {"idle", "woken"}, TakeHolderSlot(c)
  PROVE  /\ SlotInv'
         /\ pc'[c] \in {"queued", "ready"}
         /\ \A d \in Call \ {c} : pc'[d] = pc[d]
<1> DEFINE p == ProcOf[c]
<1>0. c \in Call /\ p \in Proc /\ Cap \in Nat
  BY ConstantsAssumption, CapBelowPool DEF Holders
<1>1. CASE holding[p] >= Cap
  <2>1. /\ waiting' = [waiting EXCEPT ![p] = Append(waiting[p], c)]
        /\ pc' = [pc EXCEPT ![c] = "queued"] /\ holding' = holding
    BY <1>1 DEF TakeHolderSlot
  <2>2. SlotTypes'
    BY <2>1, <1>0 DEF SlotInv, SlotTypes
  <2>3. \A d \in Call : /\ pc'[d] \in SlotStates <=> pc[d] \in SlotStates
                        /\ pc[d] = "queued" => pc'[d] = "queued" /\ d # c
    BY <2>1, <1>0 DEF SlotInv, SlotTypes, SlotStates
  <2>4. SlotsOK'
    <3>1. \A r \in Proc : SlotHolders(r)' = SlotHolders(r)
      BY <2>3 DEF SlotHolders, Holders
    <3> QED BY <3>1, <2>1 DEF SlotInv, SlotsOK
  <2>5. QueueOK'
    <3> SUFFICES ASSUME NEW r \in Proc, NEW i \in 1 .. Len(waiting'[r])
                 PROVE  /\ ProcOf[waiting'[r][i]] = r
                        /\ pc'[waiting'[r][i]] = "queued"
                        /\ \A j \in 1 .. Len(waiting'[r]) :
                             waiting'[r][i] = waiting'[r][j] => i = j
      BY DEF QueueOK
    <3>1. /\ waiting[r] \in Seq(Holders)
          /\ \A j \in 1 .. Len(waiting[r]) :
               /\ waiting[r][j] \in Call /\ waiting[r][j] # c
               /\ ProcOf[waiting[r][j]] = r /\ pc'[waiting[r][j]] = "queued"
               /\ \A h \in 1 .. Len(waiting[r]) : waiting[r][j] = waiting[r][h] => j = h
      BY <2>3, QueuedAreCalls DEF SlotInv, QueueOK
    <3>2. CASE r # p
      <4>1. waiting'[r] = waiting[r]
        BY <2>1, <3>2 DEF SlotInv, SlotTypes
      <4> QED BY <3>1, <4>1
    <3>3. CASE r = p
      <4>1. waiting'[r] = Append(waiting[r], c) /\ pc'[c] = "queued" /\ ProcOf[c] = r
        BY <2>1, <3>3, <1>0 DEF SlotInv, SlotTypes
      <4>2. /\ Len(waiting'[r]) = Len(waiting[r]) + 1
            /\ \A j \in 1 .. Len(waiting[r]) : waiting'[r][j] = waiting[r][j]
            /\ waiting'[r][Len(waiting[r]) + 1] = c
        BY <3>1, <4>1, <1>0
      <4> QED BY <3>1, <4>1, <4>2
    <3> QED BY <3>2, <3>3
  <2> QED BY <2>1, <2>2, <2>4, <2>5, <1>0 DEF SlotInv, SlotTypes
<1>2. CASE ~(holding[p] >= Cap)
  <2>1. /\ holding' = [holding EXCEPT ![p] = holding[p] + 1]
        /\ pc' = [pc EXCEPT ![c] = "ready"] /\ waiting' = waiting
    BY <1>2 DEF TakeHolderSlot
  <2>2. SlotTypes'
    BY <2>1, <1>0, <1>2 DEF SlotInv, SlotTypes, SlotStates
  <2>3. /\ \A d \in Call \ {c} : pc'[d] = pc[d]
        /\ pc'[c] = "ready" /\ pc[c] \notin SlotStates /\ pc[c] # "queued"
    BY <2>1, <1>0 DEF SlotInv, SlotTypes, SlotStates
  <2>4. SlotsOK'
    <3>1. SlotHolders(p)' = SlotHolders(p) \union {c} /\ c \notin SlotHolders(p)
      BY <2>3, <1>0 DEF SlotHolders, SlotStates, Holders
    <3>2. \A r \in Proc \ {p} : SlotHolders(r)' = SlotHolders(r)
      BY <2>3 DEF SlotHolders, Holders
    <3>3. IsFiniteSet(SlotHolders(p)) /\ Cardinality(SlotHolders(p)) \in Nat
      BY HoldersFinite DEF SlotHolders, Holders
    <3>4. Cardinality(SlotHolders(p)') = Cardinality(SlotHolders(p)) + 1
      BY <3>1, <3>3, FS_AddElement
    <3> QED BY <2>1, <3>2, <3>4, <1>0 DEF SlotInv, SlotTypes, SlotsOK
  <2>5. QueueOK'
    <3>1. \A r \in Proc : \A i \in 1 .. Len(waiting[r]) : waiting[r][i] \in Call \ {c}
      BY <2>3, QueuedAreCalls
    <3> QED BY <2>1, <2>3, <3>1 DEF SlotInv, QueueOK
  <2> QED BY <2>2, <2>3, <2>4, <2>5 DEF SlotInv
<1> QED BY <1>1, <1>2

\* giveHolderSlot ends the call and wakes at most one queued caller.
LEMMA GiveKeepsSlots ==
  ASSUME SlotInv, NEW c \in Call, pc[c] \in SlotStates, GiveHolderSlot(c)
  PROVE  /\ SlotInv'
         /\ pc'[c] = "done"
         /\ \A d \in Call \ {c} :
              pc'[d] = pc[d] \/ (pc[d] = "queued" /\ pc'[d] = "woken")
<1> DEFINE p == ProcOf[c]
<1>0. p \in Proc /\ Cap \in Nat
  BY ConstantsAssumption, CapBelowPool
<1>1. CASE c \notin Holders
  <2>1. pc' = [pc EXCEPT ![c] = "done"] /\ holding' = holding /\ waiting' = waiting
    BY <1>1 DEF GiveHolderSlot
  <2>2. SlotTypes'
    BY <2>1 DEF SlotInv, SlotTypes
  <2>3. /\ \A d \in Call \ {c} : pc'[d] = pc[d]
        /\ pc'[c] = "done" /\ pc[c] # "queued"
    BY <2>1 DEF SlotInv, SlotTypes, SlotStates
  <2>4. SlotsOK'
    <3>1. \A r \in Proc : SlotHolders(r)' = SlotHolders(r)
      BY <1>1, <2>3 DEF SlotHolders, Holders
    <3> QED BY <3>1, <2>1 DEF SlotInv, SlotsOK
  <2>5. QueueOK'
    <3>1. \A r \in Proc : \A i \in 1 .. Len(waiting[r]) : waiting[r][i] \in Call \ {c}
      BY <2>3, QueuedAreCalls
    <3> QED BY <2>1, <2>3, <3>1 DEF SlotInv, QueueOK
  <2> QED BY <2>2, <2>3, <2>4, <2>5 DEF SlotInv
<1>2. CASE c \in Holders
  <2>1. /\ holding' = [holding EXCEPT ![p] = holding[p] - 1]
        /\ \/ /\ waiting[p] = <<>> /\ waiting' = waiting
              /\ pc' = [pc EXCEPT ![c] = "done"]
           \/ /\ waiting[p] # <<>>
              /\ waiting' = [waiting EXCEPT ![p] = Tail(waiting[p])]
              /\ pc' = [pc EXCEPT ![c] = "done", ![Head(waiting[p])] = "woken"]
    BY <1>2 DEF GiveHolderSlot
  <2>2. \A r \in Proc :
          /\ waiting[r] \in Seq(Holders)
          /\ \A i \in 1 .. Len(waiting[r]) :
               waiting[r][i] \in Call \ {c} /\ pc[waiting[r][i]] = "queued"
    BY QueuedAreCalls DEF SlotStates
  <2>3. waiting[p] # <<>> =>
          /\ Head(waiting[p]) = waiting[p][1] /\ 1 \in 1 .. Len(waiting[p])
          /\ Head(waiting[p]) \in Call \ {c} /\ pc[Head(waiting[p])] = "queued"
    BY <2>2, <1>0
  <2>4. /\ pc'[c] = "done"
        /\ \A d \in Call \ {c} :
             \/ pc'[d] = pc[d]
             \/ /\ waiting[p] # <<>> /\ d = Head(waiting[p])
                /\ pc[d] = "queued" /\ pc'[d] = "woken"
    BY <2>1, <2>3 DEF SlotInv, SlotTypes
  <2>5. pc' \in [Call -> SlotStates \union {"idle", "queued", "woken", "done"}]
    BY <2>1, <2>3 DEF SlotInv, SlotTypes
  <2>6. waiting' \in [Proc -> Seq(Holders)]
    <3>1. waiting[p] # <<>> => Tail(waiting[p]) \in Seq(Holders)
      BY <2>2, <1>0
    <3> QED BY <2>1, <3>1, <1>0 DEF SlotInv, SlotTypes
  <2>7. /\ SlotHolders(p)' = SlotHolders(p) \ {c} /\ c \in SlotHolders(p)
        /\ \A r \in Proc \ {p} : SlotHolders(r)' = SlotHolders(r)
    BY <1>2, <2>4 DEF SlotHolders, SlotStates, Holders
  <2>8. /\ IsFiniteSet(SlotHolders(p)) /\ Cardinality(SlotHolders(p)) \in Nat
        /\ Cardinality(SlotHolders(p) \ {c}) \in Nat
    BY HoldersFinite DEF SlotHolders, Holders
  <2>9. Cardinality(SlotHolders(p)') = Cardinality(SlotHolders(p)) - 1
    BY <2>7, <2>8, FS_RemoveElement
  <2>10. SlotsOK' /\ holding' \in [Proc -> 0 .. Cap]
    <3>1. /\ holding \in [Proc -> 0 .. Cap]
          /\ \A r \in Proc : holding[r] = Cardinality(SlotHolders(r))
      BY DEF SlotInv, SlotTypes, SlotsOK
    <3>2. holding[p] - 1 = Cardinality(SlotHolders(p)') /\ holding[p] - 1 \in Nat
      BY <2>7, <2>8, <2>9, <3>1, <1>0
    <3>3. holding' \in [Proc -> 0 .. Cap] /\ holding'[p] = holding[p] - 1
          /\ \A r \in Proc \ {p} : holding'[r] = holding[r]
      BY <2>1, <3>1, <3>2, <1>0
    <3>4. \A r \in Proc : holding'[r] = Cardinality(SlotHolders(r)')
      BY <2>7, <3>1, <3>2, <3>3
    <3> QED BY <3>3, <3>4 DEF SlotsOK
  <2>11. QueueOK'
    <3> SUFFICES ASSUME NEW r \in Proc, NEW i \in 1 .. Len(waiting'[r])
                 PROVE  /\ ProcOf[waiting'[r][i]] = r
                        /\ pc'[waiting'[r][i]] = "queued"
                        /\ \A j \in 1 .. Len(waiting'[r]) :
                             waiting'[r][i] = waiting'[r][j] => i = j
      BY DEF QueueOK
    <3>1. \A j \in 1 .. Len(waiting[r]) :
            /\ ProcOf[waiting[r][j]] = r
            /\ \A h \in 1 .. Len(waiting[r]) : waiting[r][j] = waiting[r][h] => j = h
      BY DEF SlotInv, QueueOK
    <3>2. CASE r # p \/ waiting[p] = <<>>
      <4>1. waiting'[r] = waiting[r]
        BY <2>1, <3>2 DEF SlotInv, SlotTypes
      <4>2. waiting[r][i] # Head(waiting[p]) \/ waiting[p] = <<>>
        <5>1. waiting[p] # <<>> => ProcOf[Head(waiting[p])] = p
          BY <2>3, <1>0, QueuedAreCalls
        <5> QED BY <3>1, <3>2, <4>1, <5>1
      <4> QED BY <2>2, <2>4, <3>1, <4>1, <4>2
    <3>3. CASE r = p /\ waiting[p] # <<>>
      <4>1. waiting'[r] = Tail(waiting[r])
        BY <2>1, <3>3 DEF SlotInv, SlotTypes
      <4>2. /\ Len(waiting'[r]) = Len(waiting[r]) - 1
            /\ \A j \in 1 .. Len(waiting'[r]) :
                 /\ waiting'[r][j] = waiting[r][j + 1]
                 /\ j + 1 \in 1 .. Len(waiting[r])
        BY <2>2, <3>3, <4>1
      <4>3. waiting[r][i + 1] # Head(waiting[p])
        BY <2>3, <3>1, <3>3, <4>2
      <4> QED BY <2>2, <2>4, <3>1, <4>2, <4>3
    <3> QED BY <3>2, <3>3
  <2> QED BY <2>4, <2>5, <2>6, <2>10, <2>11 DEF SlotInv, SlotTypes
<1> QED BY <1>1, <1>2
\* The rest of the invariant: who has the lock, and what callers are told.
RestInv ==
  /\ holder \in [Key -> Call \union {None}]
  /\ pinned \subseteq Call /\ dead \subseteq pinned
  /\ lost \subseteq Holders /\ threw \subseteq Call
  /\ outcome \in [Call -> {"none", "ran", "missed", "timeout", "error", "failed", "lost"}]
  /\ overlap \subseteq SUBSET Call
  /\ LockOK /\ OneOfTwoTainted /\ OutcomeAtEnd

LEMMA IInvSplit == IInv <=> SlotInv /\ RestInv
BY DEF IInv, TypeOK, SlotInv, SlotTypes, RestInv

LEMMA IInvJoin ==
  ASSUME SlotInv', RestInv'
  PROVE  IInv'
BY DEF IInv, TypeOK, SlotInv, SlotTypes, RestInv

\* A step that moves callers between states outside the transaction only.
LEMMA OutsideKeepsRest ==
  ASSUME SlotInv, SlotInv', RestInv,
         \A d \in Call :
           \/ pc'[d] = pc[d]
           \/ /\ pc[d] \in {"idle", "queued", "woken"}
              /\ pc'[d] \in {"queued", "woken", "ready"},
         UNCHANGED <<holder, pinned, dead, lost, threw, outcome, overlap>>
  PROVE  RestInv'
<1>1. \A d \in Call : /\ pc'[d] \in LockStates <=> pc[d] \in LockStates
                      /\ pc'[d] = "done" <=> pc[d] = "done"
                      /\ pc[d] = "begun" => pc'[d] = "begun"
  BY DEF LockStates
<1>2. LockOK'
  BY <1>1 DEF RestInv, LockOK
<1>3. OneOfTwoTainted' /\ OutcomeAtEnd'
  BY <1>1 DEF RestInv, OneOfTwoTainted, OutcomeAtEnd, Tainted
<1> QED BY <1>2, <1>3 DEF RestInv

\* A call that ends without having had the lock, with an outcome other than ran.
LEMMA EndOutsideLockKeeps ==
  ASSUME IInv, NEW c \in Call, pc[c] \in {"ready", "begun"},
         NEW o \in {"missed", "timeout", "error"}, EndCall(c, o),
         UNCHANGED <<holder, lost, threw, overlap>>
  PROVE  IInv'
<1>1. SlotInv /\ RestInv /\ pc[c] \in SlotStates /\ pc[c] \notin LockStates
  BY IInvSplit DEF SlotStates, LockStates
<1>2. GiveHolderSlot(c) /\ pinned' = pinned \ {c} /\ dead' = dead \ {c}
      /\ outcome' = [outcome EXCEPT ![c] = o]
  BY DEF EndCall
<1>3. /\ SlotInv' /\ pc'[c] = "done"
      /\ \A d \in Call \ {c} :
           pc'[d] = pc[d] \/ (pc[d] = "queued" /\ pc'[d] = "woken")
  BY <1>1, <1>2, GiveKeepsSlots
<1>4. /\ outcome' \in [Call -> {"none", "ran", "missed", "timeout", "error", "failed", "lost"}]
      /\ outcome'[c] = o /\ \A d \in Call \ {c} : outcome'[d] = outcome[d]
  BY <1>1, <1>2 DEF RestInv
<1>5. LockOK'
  BY <1>1, <1>2, <1>3 DEF RestInv, LockOK, LockStates
<1>6. OutcomeAtEnd'
  BY <1>1, <1>3, <1>4 DEF RestInv, OutcomeAtEnd
<1>7. \A d \in Call : Tainted(d) => Tainted(d)'
  BY <1>1, <1>2, <1>3, <1>4 DEF Tainted, LockStates
<1>8. OneOfTwoTainted'
  BY <1>1, <1>7 DEF RestInv, OneOfTwoTainted
<1>9. RestInv'
  BY <1>1, <1>2, <1>4, <1>5, <1>6, <1>8 DEF RestInv
<1> QED BY <1>3, <1>9, IInvJoin

\* Taking the lock: whoever else works under the key has lost its backend.
LEMMA TryKeeps ==
  ASSUME IInv, NEW c \in Call, Try(c)
  PROVE  IInv'
<1>1. SlotInv /\ RestInv /\ KeyOf[c] \in Key /\ None \notin Call
  BY IInvSplit, ConstantsAssumption
<1>2. /\ pc[c] = "begun" /\ c \notin dead /\ holder[KeyOf[c]] = None
      /\ holder' = [holder EXCEPT ![KeyOf[c]] = c]
      /\ pc' = [pc EXCEPT ![c] = "working"]
      /\ overlap' = overlap \union
           {{c, d} : d \in {x \in Call : KeyOf[x] = KeyOf[c] /\ InWork(x)}}
      /\ UNCHANGED <<holding, waiting, pinned, dead, lost, threw, outcome>>
  BY DEF Try
<1>3. SlotInv'
  BY <1>1, <1>2, MoveKeepsSlots DEF SlotStates
<1>4. pc'[c] = "working" /\ \A d \in Call \ {c} : pc'[d] = pc[d]
  BY <1>1, <1>2 DEF SlotInv, SlotTypes
<1>5. /\ holder' \in [Key -> Call \union {None}] /\ holder'[KeyOf[c]] = c
      /\ \A k \in Key : holder'[k] = holder[k] \/ holder[k] = None
  BY <1>1, <1>2 DEF RestInv
<1>7. LockOK'
  <2> SUFFICES ASSUME NEW d \in Call
               PROVE  /\ d \in pinned' <=> pc'[d] \in {"begun"} \union LockStates
                      /\ pc'[d] \in LockStates =>
                           d \in dead' \/ holder'[KeyOf[d]] = d
    BY DEF LockOK
  <2>1. CASE d = c
    BY <2>1, <1>1, <1>2, <1>4, <1>5 DEF RestInv, LockOK, LockStates
  <2>2. CASE d # c
    BY <2>2, <1>1, <1>2, <1>4, <1>5, ConstantsAssumption DEF RestInv, LockOK
  <2> QED BY <2>1, <2>2
<1>8. \A d \in Call : Tainted(d) => Tainted(d)'
  BY <1>1, <1>2, <1>4 DEF Tainted, LockStates
<1>9. \A d \in Call : KeyOf[d] = KeyOf[c] /\ InWork(d) => Tainted(d)
  <2> SUFFICES ASSUME NEW d \in Call, KeyOf[d] = KeyOf[c], InWork(d)
               PROVE  Tainted(d)
    OBVIOUS
  <2>1. pc[d] \in LockStates
    BY DEF InWork, LockStates
  <2>2. d \in dead \/ holder[KeyOf[d]] = d
    BY <2>1, <1>1 DEF RestInv, LockOK
  <2>3. holder[KeyOf[d]] # d
    BY <1>1, <1>2
  <2> QED BY <2>1, <2>2, <2>3 DEF Tainted
<1>10. OneOfTwoTainted'
  <2> SUFFICES ASSUME NEW a \in Call, NEW b \in Call, {a, b} \in overlap', a # b
               PROVE  Tainted(a)' \/ Tainted(b)'
    BY DEF OneOfTwoTainted
  <2>1. CASE {a, b} \in overlap
    BY <2>1, <1>1, <1>8 DEF RestInv, OneOfTwoTainted
  <2>2. CASE {a, b} \notin overlap
    <3>1. PICK d \in Call : KeyOf[d] = KeyOf[c] /\ InWork(d) /\ {a, b} = {c, d}
      BY <2>2, <1>2
    <3>2. d = a \/ d = b
      BY <3>1
    <3> QED BY <3>1, <3>2, <1>8, <1>9
  <2> QED BY <2>1, <2>2
<1>11. OutcomeAtEnd'
  BY <1>1, <1>2, <1>4 DEF RestInv, OutcomeAtEnd
<1>12. overlap' \subseteq SUBSET Call
  BY <1>1, <1>2 DEF RestInv
<1>13. RestInv'
  BY <1>1, <1>2, <1>5, <1>7, <1>10, <1>11, <1>12 DEF RestInv
<1> QED BY <1>3, <1>13, IInvJoin

\* The end of a call whose work ran: the answer of a tainted one is not ran.
LEMMA CloseKeeps ==
  ASSUME IInv, NEW c \in Call, Close(c)
  PROVE  IInv'
<1>1. SlotInv /\ RestInv /\ None \notin Call /\ KeyOf \in [Call -> Key]
  BY IInvSplit, ConstantsAssumption
<1>2. /\ pc[c] = "closing" /\ GiveHolderSlot(c)
      /\ pinned' = pinned \ {c} /\ dead' = dead \ {c}
      /\ outcome' = [outcome EXCEPT ![c] = Answer(c)]
      /\ holder' = [k \in Key |-> IF holder[k] = c THEN None ELSE holder[k]]
      /\ UNCHANGED <<lost, threw, overlap>>
  BY DEF Close, EndCall
<1>3. /\ SlotInv' /\ pc'[c] = "done"
      /\ \A d \in Call \ {c} :
           pc'[d] = pc[d] \/ (pc[d] = "queued" /\ pc'[d] = "woken")
  BY <1>1, <1>2, GiveKeepsSlots DEF SlotStates
<1>4. /\ Answer(c) \in {"failed", "lost", "error", "ran"}
      /\ c \in dead => Answer(c) # "ran"
  BY DEF Answer
<1>5. /\ outcome' \in [Call -> {"none", "ran", "missed", "timeout", "error", "failed", "lost"}]
      /\ outcome'[c] = Answer(c) /\ \A d \in Call \ {c} : outcome'[d] = outcome[d]
  BY <1>1, <1>2, <1>4 DEF RestInv
<1>6. holder' \in [Key -> Call \union {None}]
  BY <1>1, <1>2 DEF RestInv
<1>7. LockOK'
  BY <1>1, <1>2, <1>3 DEF RestInv, LockOK, LockStates
<1>8. OutcomeAtEnd'
  BY <1>1, <1>3, <1>5 DEF RestInv, OutcomeAtEnd
<1>9. \A d \in Call : Tainted(d) => Tainted(d)'
  BY <1>1, <1>2, <1>3, <1>4, <1>5 DEF Tainted, LockStates
<1>10. OneOfTwoTainted'
  BY <1>1, <1>2, <1>9 DEF RestInv, OneOfTwoTainted
<1>11. RestInv'
  BY <1>1, <1>2, <1>5, <1>6, <1>7, <1>8, <1>10 DEF RestInv
<1> QED BY <1>3, <1>11, IInvJoin

\* A step inside the transaction that keeps who has the lock.
LEMMA MoveKeeps ==
  ASSUME IInv, NEW c \in Call, NEW s \in SlotStates,
         pc' = [pc EXCEPT ![c] = s], UNCHANGED <<holding, waiting>>,
         \/ pc[c] \in LockStates /\ s \in LockStates /\ pinned' = pinned
         \/ pc[c] = "ready" /\ s = "begun" /\ pinned' = pinned \union {c}
         \/ pc[c] = "begun" /\ s = "ready" /\ pinned' = pinned \ {c} /\ c \notin dead,
         threw' \in {threw, threw \union {c}},
         UNCHANGED <<holder, dead, lost, outcome, overlap>>
  PROVE  IInv'
<1>1. SlotInv /\ RestInv /\ pc[c] \in SlotStates
  BY IInvSplit DEF SlotStates, LockStates
<1>2. SlotInv'
  BY <1>1, MoveKeepsSlots
<1>3. pc'[c] = s /\ \A d \in Call \ {c} : pc'[d] = pc[d]
  BY <1>1 DEF SlotInv, SlotTypes
<1>4. LockOK'
  BY <1>1, <1>3 DEF RestInv, LockOK, LockStates
<1>5. OutcomeAtEnd'
  BY <1>1, <1>3 DEF RestInv, OutcomeAtEnd, SlotStates
<1>6. \A d \in Call : Tainted(d) => Tainted(d)'
  BY <1>1, <1>3 DEF Tainted, LockStates, SlotStates
<1>7. OneOfTwoTainted'
  BY <1>1, <1>6 DEF RestInv, OneOfTwoTainted
<1>8. RestInv'
  BY <1>1, <1>4, <1>5, <1>7 DEF RestInv
<1> QED BY <1>2, <1>8, IInvJoin

\* A backend dies: it can only taint a call.
LEMMA DeathKeeps ==
  ASSUME IInv, NEW c \in Call, BackendDies(c)
  PROVE  IInv'
<1>1. /\ TypeOK /\ QueueOK /\ SlotsOK /\ LockOK /\ OneOfTwoTainted /\ OutcomeAtEnd
      /\ None \notin Call /\ KeyOf \in [Call -> Key]
  BY ConstantsAssumption DEF IInv
<1>2. /\ c \in pinned /\ dead' = dead \union {c}
      /\ holder' = [k \in Key |-> IF holder[k] = c THEN None ELSE holder[k]]
      /\ UNCHANGED <<pc, holding, waiting, pinned, lost, threw, outcome, overlap>>
  BY DEF BackendDies
<1>3. TypeOK'
  BY <1>1, <1>2 DEF TypeOK
<1>4. LockOK'
  BY <1>1, <1>2 DEF LockOK
<1>5. OneOfTwoTainted'
  BY <1>1, <1>2 DEF OneOfTwoTainted, Tainted
<1>6. QueueOK' /\ SlotsOK' /\ OutcomeAtEnd'
  BY <1>1, <1>2 DEF QueueOK, SlotsOK, SlotHolders, OutcomeAtEnd
<1> QED BY <1>3, <1>4, <1>5, <1>6 DEF IInv

LEMMA BeatKeeps ==
  ASSUME IInv, NEW c \in Call, Beat(c)
  PROVE  IInv'
BY DEF IInv, Beat, TypeOK, QueueOK, SlotsOK, SlotHolders, LockOK,
       OneOfTwoTainted, Tainted, OutcomeAtEnd

\* Asking for a slot, or for a transaction where none is needed.
LEMMA AskKeeps ==
  ASSUME IInv, NEW c \in Call, Ask(c) \/ Resume(c)
  PROVE  IInv'
<1>1. SlotInv /\ RestInv
  BY IInvSplit
<1>2. /\ pc[c] \in {"idle", "woken"}
      /\ UNCHANGED <<holder, pinned, dead, lost, threw, outcome, overlap>>
  BY DEF Ask, Resume
<1>3. CASE c \in Holders /\ TakeHolderSlot(c)
  <2>1. /\ SlotInv' /\ pc'[c] \in {"queued", "ready"}
        /\ \A d \in Call \ {c} : pc'[d] = pc[d]
    BY <1>1, <1>2, <1>3, TakeKeepsSlots
  <2>2. RestInv'
    BY <1>1, <1>2, <2>1, OutsideKeepsRest
  <2> QED BY <2>1, <2>2, IInvJoin
<1>4. CASE c \notin Holders
  <2>1. CASE Ask(c)
    <3>1. pc' = [pc EXCEPT ![c] = "ready"] /\ UNCHANGED <<holding, waiting>>
      BY <1>4, <2>1 DEF Ask
    <3>2. pc'[c] = "ready" /\ \A d \in Call \ {c} : pc'[d] = pc[d]
      BY <1>1, <3>1 DEF SlotInv, SlotTypes
    <3>3. SlotTypes'
      BY <1>1, <3>1 DEF SlotInv, SlotTypes, SlotStates
    <3>4. SlotsOK'
      <4>1. \A r \in Proc : SlotHolders(r)' = SlotHolders(r)
        BY <1>4, <3>2 DEF SlotHolders, Holders
      <4> QED BY <1>1, <3>1, <4>1 DEF SlotInv, SlotsOK
    <3>5. QueueOK'
      <4>1. \A r \in Proc : \A i \in 1 .. Len(waiting[r]) : waiting[r][i] \in Call \ {c}
        BY <1>1, <1>2, QueuedAreCalls
      <4> QED BY <1>1, <3>1, <3>2, <4>1 DEF SlotInv, QueueOK
    <3>6. SlotInv'
      BY <3>3, <3>4, <3>5 DEF SlotInv
    <3>7. RestInv'
      BY <1>1, <1>2, <3>2, <3>6, OutsideKeepsRest
    <3> QED BY <3>6, <3>7, IInvJoin
  <2>2. CASE Resume(c)
    <3>1. pc[c] = "woken" /\ TakeHolderSlot(c)
      BY <2>2 DEF Resume
    <3>2. c \in Holders
      BY <1>1, <1>4, <3>1 DEF SlotInv, SlotTypes
    <3> QED BY <1>4, <3>2
  <2> QED BY <2>1, <2>2
<1> QED BY <1>3, <1>4 DEF Ask, Resume

\* Every step of every call, and of its backend, preserves the invariant.
LEMMA NextIInv ==
  ASSUME IInv, [Next]_vars
  PROVE  IInv'
<1>1. ASSUME NEW c \in Call, Step(c) PROVE IInv'
  <2>1. CASE Ask(c) \/ Resume(c)
    BY <2>1, AskKeeps
  <2>2. CASE Begin(c)
    BY <2>2, MoveKeeps DEF Begin, SlotStates
  <2>3. CASE BeginRefused(c)
    BY <2>3, EndOutsideLockKeeps DEF BeginRefused
  <2>4. CASE Try(c)
    BY <2>4, TryKeeps
  <2>5. CASE TryFails(c) \/ MissTry(c) \/ MissTimeout(c)
    BY <2>5, EndOutsideLockKeeps DEF TryFails, MissTry, MissTimeout
  <2>6. CASE MissWait(c)
    BY <2>6, MoveKeeps DEF MissWait, SlotStates
  <2>7. CASE WorkStatement(c) \/ WorkStatementDone(c)
    <3>1. PICK s \in {"running", "worked"} : pc' = [pc EXCEPT ![c] = s]
      BY <2>7 DEF WorkStatement, WorkStatementDone
    <3> QED BY <2>7, <3>1, MoveKeeps
        DEF WorkStatement, WorkStatementDone, SlotStates, LockStates
  <2>8. CASE WorkRefused(c) \/ WorkReturns(c) \/ WorkThrows(c)
    BY <2>8, MoveKeeps
    DEF WorkRefused, WorkReturns, WorkThrows, SlotStates, LockStates
  <2>9. CASE Close(c)
    BY <2>9, CloseKeeps
  <2> QED BY <1>1, <2>1, <2>2, <2>3, <2>4, <2>5, <2>6, <2>7, <2>8, <2>9 DEF Step
<1>2. ASSUME NEW c \in Call, Environment(c) PROVE IInv'
  BY <1>2, DeathKeeps, BeatKeeps DEF Environment
<1>3. CASE UNCHANGED vars
  BY <1>3 DEF vars, IInv, TypeOK, QueueOK, SlotsOK, SlotHolders, LockOK,
     OneOfTwoTainted, Tainted, OutcomeAtEnd
<1> QED BY <1>1, <1>2, <1>3 DEF Next, Terminated

\* advisory-lock.ts: slots, queue, locks and outcomes stay consistent.
THEOREM Inductive == Spec => []IInv
<1>1. IInv /\ [Next]_vars => IInv'
  BY NextIInv
<1> QED BY InitIInv, <1>1, PTL DEF Spec

\* The variables of db/advisory-lock.ts keep their types; in particular the
\* counter `holding` never leaves 0 .. Cap, whatever way the calls end.
THEOREM TypeCorrect == Spec => []TypeOK
<1>1. IInv => TypeOK
  BY DEF IInv
<1> QED BY <1>1, Inductive, PTL

\* holdOnce: for any number of replicas and calls and any deaths of backends,
\* two works that ran side by side on one key are not both reported as run.
THEOREM OverlapReported == Spec => []OverlapIsReported
<1>1. IInv => OverlapIsReported
  <2> SUFFICES ASSUME IInv, NEW c \in Call, NEW d \in Call,
                      {c, d} \in overlap, c # d
               PROVE  ~(outcome[c] = "ran" /\ outcome[d] = "ran")
    BY DEF OverlapIsReported
  <2>1. Tainted(c) \/ Tainted(d)
    BY DEF IInv, OneOfTwoTainted
  <2>2. \A x \in Call : outcome[x] = "ran" => pc[x] = "done"
    BY DEF IInv, OutcomeAtEnd
  <2> QED BY <2>1, <2>2 DEF Tainted, LockStates
<1> QED BY <1>1, Inductive, PTL

\* takeHolderSlot / giveHolderSlot: for every pool size the holders of a
\* process leave at least one connection for their work.
THEOREM RoomForWork == Spec => []HoldersLeaveRoom
<1>1. IInv => HoldersLeaveRoom
  <2> SUFFICES ASSUME IInv, NEW p \in Proc
               PROVE  Cardinality({c \in pinned \intersect Holders : ProcOf[c] = p}) < PoolMax
    BY DEF HoldersLeaveRoom
  <2> DEFINE P == {c \in pinned \intersect Holders : ProcOf[c] = p}
  <2>1. P \subseteq SlotHolders(p)
    BY DEF IInv, TypeOK, LockOK, SlotHolders, Holders, SlotStates, LockStates
  <2>2. SlotHolders(p) \subseteq Call
    BY DEF SlotHolders, Holders
  <2>3. /\ IsFiniteSet(SlotHolders(p)) /\ Cardinality(SlotHolders(p)) \in Nat
        /\ Cardinality(P) \in Nat
    BY <2>1, <2>2, HoldersFinite
  <2>4. Cardinality(P) <= Cardinality(SlotHolders(p))
    BY <2>1, <2>3, FS_Subset
  <2>5. Cardinality(SlotHolders(p)) <= Cap
    BY CapBelowPool DEF IInv, TypeOK, SlotsOK
  <2>6. Cap \in Nat /\ Cap < PoolMax /\ PoolMax \in Nat
    BY CapBelowPool, ConstantsAssumption
  <2>7. Cardinality(P) < PoolMax
    BY <2>3, <2>4, <2>5, <2>6
  <2> QED BY <2>7
<1> QED BY <1>1, Inductive, PTL

-----------------------------------------------------------------------------
\* Single-instance mode.

\* The initial state satisfies the inductive invariant.
LEMMA HeartbeatInit ==
  BeatInit => BeatInv
BY BeatAssumption DEF BeatInit, BeatInv, BeatTypeOK, Phase, MaxAge,
       RowsKept, DrainedForASuccessor

\* A beat (WriteBeat) keeps the types and gives a serving process the row of
\* its first insertion; every other serving process keeps its own.
LEMMA WriteBeatKeepsRows ==
  ASSUME BeatInv, NEW i \in Instance, phase[i] = "serving", WriteBeat(i)
  PROVE  /\ started' \in [Instance -> 0 .. MaxInsert]
         /\ age' \in [Instance -> 0 .. MaxAge]
         /\ inserts' \in 0 .. MaxInsert
         /\ first' \in [Instance -> 0 .. MaxInsert]
         /\ inserts <= inserts'
         /\ age'[i] = 0 /\ started'[i] = first'[i] /\ first'[i] = Upserted(i)
         /\ first'[i] <= inserts'
         /\ \A j \in Instance : first[j] <= first'[j]
         /\ \A j \in Instance \ {i} :
              /\ first'[j] = first[j]
              /\ age'[j] = age[j]
              /\ started'[j] \in {0, started[j]}
              /\ phase[j] = "serving" => started'[j] = started[j]
<1>1. /\ started \in [Instance -> 0 .. MaxInsert]
      /\ age \in [Instance -> 0 .. MaxAge]
      /\ inserts \in 0 .. MaxInsert
      /\ first \in [Instance -> 0 .. MaxInsert]
      /\ MaxInsert \in Nat /\ MaxAge \in Nat
  BY BeatAssumption DEF BeatInv, BeatTypeOK, MaxAge
<1>2. started[i] = first[i] /\ first[i] <= inserts
  BY DEF BeatInv, RowsKept
<1>3. Upserted(i) \in 0 .. MaxInsert /\ Upserted(i) <= inserts'
      /\ inserts <= inserts' /\ inserts' \in 0 .. MaxInsert
  BY <1>1, <1>2 DEF Upserted, WriteBeat
<1>4. first' \in [Instance -> 0 .. MaxInsert] /\ first'[i] = Upserted(i)
      /\ \A j \in Instance \ {i} : first'[j] = first[j]
  BY <1>1, <1>2, <1>3 DEF WriteBeat, Upserted
<1>5. started' \in [Instance -> 0 .. MaxInsert] /\ started'[i] = Upserted(i)
      /\ \A j \in Instance \ {i} : started'[j] \in {0, started[j]}
  BY <1>1, <1>3 DEF WriteBeat
<1>6. age' \in [Instance -> 0 .. MaxAge] /\ age'[i] = 0
      /\ \A j \in Instance \ {i} : age'[j] = age[j]
  BY <1>1 DEF WriteBeat
<1>7. ASSUME NEW j \in Instance \ {i}, phase[j] = "serving"
      PROVE  started'[j] = started[j]
  <2>1. j \notin GoneRows(i)
    BY <1>1, <1>7, BeatAssumption DEF GoneRows, BeatInv, RowsKept
  <2> QED BY <2>1, <1>7 DEF WriteBeat
<1>8. \A j \in Instance : first[j] <= first'[j]
  BY <1>1, <1>2, <1>4 DEF Upserted
<1> QED BY <1>1, <1>3, <1>4, <1>5, <1>6, <1>7, <1>8

\* Whom a serving process drains for: a process with a later first row, which
\* itself has not drained.
LEMMA NewerIsUp ==
  ASSUME BeatInv, NEW i \in Instance, phase[i] = "serving", SeesNewer(i)
  PROVE  \E j \in Instance \ {i} :
           phase[j] \in {"serving", "crashed"} /\ first[j] > Upserted(i)
<1>1. PICK k \in Instance \ {i} : started[k] # 0 /\ started[k] > Upserted(i)
  BY DEF SeesNewer
<1>2. /\ started[k] = first[k] /\ first[k] <= inserts /\ phase[k] # "unborn"
      /\ started[i] = first[i]
      /\ first \in [Instance -> 0 .. MaxInsert] /\ inserts \in 0 .. MaxInsert
      /\ phase[k] \in Phase /\ MaxInsert \in Nat
  BY <1>1, BeatAssumption DEF BeatInv, RowsKept, BeatTypeOK
<1>3. Upserted(i) = first[i]
  BY <1>1, <1>2 DEF Upserted
<1>4. CASE phase[k] \in {"serving", "crashed"}
  BY <1>1, <1>2, <1>4
<1>5. CASE phase[k] \in {"draining", "retired"}
  <2>1. PICK m \in Instance :
          phase[m] \in {"serving", "crashed"} /\ first[m] > first[k]
    BY <1>5 DEF BeatInv, DrainedForASuccessor
  <2>2. first[m] > first[i]
    BY <1>1, <1>2, <1>3, <2>1
  <2> QED BY <1>2, <1>3, <2>1, <2>2
<1> QED BY <1>2, <1>4, <1>5 DEF Phase

\* A successful beat, with or without its answer, preserves the invariant.
LEMMA BeatPreserves ==
  ASSUME BeatInv, NEW i \in Instance, TickBeat(i) \/ TickAnswerLost(i)
  PROVE  BeatInv'
<1>1. phase[i] = "serving" /\ i \in due /\ due' = due \ {i} /\ WriteBeat(i)
  BY DEF TickBeat, TickAnswerLost
<1> USE <1>1
<1>2. /\ phase \in [Instance -> Phase] /\ grace \in [Instance -> 0 .. Grace]
      /\ due \subseteq {j \in Instance : phase[j] = "serving"}
      /\ first \in [Instance -> 0 .. MaxInsert] /\ inserts \in 0 .. MaxInsert
      /\ MaxInsert \in Nat /\ GoneAfter \in Nat \ {0} /\ Grace \in Nat
  BY BeatAssumption DEF BeatInv, BeatTypeOK
<1>3. /\ \A j \in Instance \ {i} : phase'[j] = phase[j]
      /\ phase'[i] \in {"serving", "draining"}
      /\ phase' \in [Instance -> Phase]
      /\ grace' \in [Instance -> 0 .. Grace]
      /\ phase'[i] = "draining" => SeesNewer(i)
  BY <1>2 DEF TickBeat, TickAnswerLost, Phase
<1>4. BeatTypeOK'
  BY <1>2, <1>3, WriteBeatKeepsRows DEF BeatTypeOK
<1>5. RowsKept'
  <2> SUFFICES ASSUME NEW j \in Instance
               PROVE  /\ started'[j] \in {0, first'[j]}
                      /\ first'[j] <= inserts'
                      /\ phase'[j] = "unborn" => first'[j] = 0 /\ age'[j] = 0
                      /\ phase'[j] = "serving" =>
                           /\ started'[j] = first'[j]
                           /\ age'[j] <= GoneAfter
                           /\ j \notin due' => age'[j] < GoneAfter
    BY DEF RowsKept
  <2>1. CASE j = i
    BY <2>1, <1>2, <1>3, WriteBeatKeepsRows
  <2>2. CASE j # i
    <3>1. /\ started[j] \in {0, first[j]} /\ first[j] <= inserts
          /\ phase[j] = "unborn" => first[j] = 0 /\ age[j] = 0
          /\ phase[j] = "serving" =>
               /\ started[j] = first[j]
               /\ age[j] <= GoneAfter
               /\ j \notin due => age[j] < GoneAfter
      BY DEF BeatInv, RowsKept
    <3>2. first'[j] <= inserts'
      BY <2>2, <3>1, <1>2, WriteBeatKeepsRows
    <3> QED BY <2>2, <3>1, <3>2, <1>3, WriteBeatKeepsRows
  <2> QED BY <2>1, <2>2
<1>6. DrainedForASuccessor'
  <2> SUFFICES ASSUME NEW k \in Instance, phase'[k] \in {"draining", "retired"}
               PROVE  \E j \in Instance :
                        phase'[j] \in {"serving", "crashed"} /\ first'[j] > first'[k]
    BY DEF DrainedForASuccessor
  <2>0. first' \in [Instance -> 0 .. MaxInsert]
        /\ \A j \in Instance : first[j] <= first'[j]
    BY WriteBeatKeepsRows
  <2>1. CASE k = i
    <3>1. PICK j \in Instance \ {i} :
            phase[j] \in {"serving", "crashed"} /\ first[j] > Upserted(i)
      BY <2>1, <1>3, NewerIsUp
    <3> QED BY <2>1, <3>1, <1>3, WriteBeatKeepsRows
  <2>2. CASE k # i
    <3>1. PICK j \in Instance :
            phase[j] \in {"serving", "crashed"} /\ first[j] > first[k]
      BY <2>2, <1>3 DEF BeatInv, DrainedForASuccessor
    <3>2. first'[j] > first'[k]
      BY <2>0, <2>2, <3>1, <1>2, WriteBeatKeepsRows
    <3>3. CASE phase'[j] \in {"serving", "crashed"}
      BY <3>2, <3>3
    <3>4. CASE phase'[j] \notin {"serving", "crashed"}
      <4>1. j = i /\ SeesNewer(i)
        BY <3>1, <3>4, <1>3
      <4>2. PICK m \in Instance \ {i} :
              phase[m] \in {"serving", "crashed"} /\ first[m] > Upserted(i)
        BY <4>1, NewerIsUp
      <4>3. first'[m] > first'[k]
        BY <2>0, <4>1, <4>2, <3>2, <1>2, WriteBeatKeepsRows
      <4> QED BY <4>2, <4>3, <1>3
    <3> QED BY <3>3, <3>4
  <2> QED BY <2>1, <2>2
<1> QED BY <1>4, <1>5, <1>6 DEF BeatInv

\* Every step preserves the inductive invariant when a row outlives every
\* outage of its process.
LEMMA HeartbeatStep ==
  ASSUME MaxOutage <= GoneAfter, BeatInv, [BeatNext]_beatVars
  PROVE  BeatInv'
<1> USE BeatAssumption
<1>1. ASSUME NEW i \in Instance, StartHeartbeat(i) PROVE BeatInv'
  <2>1. BeatTypeOK' BY <1>1 DEF BeatInv, BeatTypeOK, StartHeartbeat, Phase
  <2>2. RowsKept' 
    BY <1>1 DEF BeatInv, BeatTypeOK, RowsKept, StartHeartbeat
  <2>3. DrainedForASuccessor'
    BY <1>1 DEF BeatInv, BeatTypeOK, DrainedForASuccessor, StartHeartbeat
  <2> QED BY <2>1, <2>2, <2>3 DEF BeatInv
<1>2. ASSUME NEW i \in Instance, TickBeat(i) \/ TickAnswerLost(i) PROVE BeatInv'
  BY <1>2, BeatPreserves
<1>3. ASSUME NEW i \in Instance, TickFails(i) PROVE BeatInv'
  BY <1>3 DEF BeatInv, BeatTypeOK, RowsKept, DrainedForASuccessor,
           TickFails, MaxAge
<1>4. ASSUME NEW i \in Instance, Retire(i) PROVE BeatInv'
  BY <1>4 DEF BeatInv, BeatTypeOK, RowsKept, DrainedForASuccessor,
           Retire, Phase
<1>5. ASSUME NEW i \in Instance, Crash(i) PROVE BeatInv'
  BY <1>5 DEF BeatInv, BeatTypeOK, RowsKept, DrainedForASuccessor,
           Crash, Phase, Running
<1>6. CASE Tick
  <2>1. BeatTypeOK' BY <1>6 DEF BeatInv, BeatTypeOK, Tick, MaxAge
  <2>2. RowsKept' BY <1>6 DEF BeatInv, BeatTypeOK, RowsKept, Tick, MaxAge
  <2>3. DrainedForASuccessor' BY <1>6 DEF BeatInv, DrainedForASuccessor, Tick
  <2> QED BY <2>1, <2>2, <2>3 DEF BeatInv
<1>7. CASE UNCHANGED beatVars
  BY <1>7 DEF BeatInv, BeatTypeOK, RowsKept, DrainedForASuccessor,
           beatVars
<1> QED BY <1>1, <1>2, <1>3, <1>4, <1>5, <1>6, <1>7 DEF BeatNext

\* single-instance.ts, the row table stays well-formed and whoever drained has
\* a successor: the inductive invariant holds throughout.
THEOREM HeartbeatInductive ==
  ASSUME MaxOutage <= GoneAfter
  PROVE  BeatSpec => []BeatInv
<1>1. BeatInit => BeatInv BY HeartbeatInit
<1>2. BeatInv /\ [BeatNext]_beatVars => BeatInv' BY HeartbeatStep
<1> QED BY <1>1, <1>2, PTL DEF BeatSpec

\* zv_instances and the closures of startHeartbeat stay well typed, and
\* only a serving process has a beat due.
THEOREM HeartbeatTypeCorrect ==
  ASSUME MaxOutage <= GoneAfter
  PROVE  BeatSpec => []BeatTypeOK
<1>1. BeatInv => BeatTypeOK BY DEF BeatInv
<1> QED BY <1>1, HeartbeatInductive, PTL

\* tick never retires the last server: for any number of processes, any beat
\* order and any failed beats, a running deployment without kills has a process
\* that serves.
THEOREM NeverABlackout ==
  ASSUME MaxOutage <= GoneAfter
  PROVE  BeatSpec => []NoBlackout
<1>1. BeatInv => NoBlackout
  BY DEF BeatInv, DrainedForASuccessor, NoBlackout, Running
<1> QED BY <1>1, HeartbeatInductive, PTL

\* tick makes a process drain only for one whose first heartbeat came later.
THEOREM TheNewestWins ==
  ASSUME MaxOutage <= GoneAfter
  PROVE  BeatSpec => NewestWins
<1>1. ASSUME BeatInv, [BeatNext]_beatVars PROVE [DrainsForANewer]_beatVars
  <2>1. SUFFICES ASSUME NEW i \in Instance,
                        phase[i] = "serving", phase'[i] = "draining"
                 PROVE  \E j \in Instance : first'[j] > first'[i]
    BY DEF DrainsForANewer
  <2>2. TickBeat(i) /\ SeesNewer(i)
    BY <1>1, <2>1 DEF BeatNext, beatVars, StartHeartbeat, TickBeat, TickFails,
       TickAnswerLost, Retire, Crash, Tick, BeatInv, BeatTypeOK
  <2>3. PICK j \in Instance \ {i} : first[j] > Upserted(i)
    BY <1>1, <2>1, <2>2, NewerIsUp
  <2>4. WriteBeat(i) BY <2>2 DEF TickBeat
  <2>5. first'[j] = first[j] /\ first'[i] = Upserted(i)
    BY <1>1, <2>1, <2>4, WriteBeatKeepsRows
  <2> QED BY <2>3, <2>5
<1> QED BY <1>1, HeartbeatInductive, PTL DEF BeatSpec, NewestWins

=============================================================================
