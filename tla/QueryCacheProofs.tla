-------------------------- MODULE QueryCacheProofs --------------------------
(***************************************************************************)
(* What QueryCache guarantees for any pages, indexes, readers, changes,    *)
(* lives and failures: a cached page can be reached through its indexes,   *)
(* and an invalidation leaves nothing older than itself, each with the     *)
(* exceptions the properties name.                                         *)
(*                                                                         *)
(* The argument.  A page is in an index, or its filing has still to add it *)
(* there, or it is excused (Reached); an index a page is in outlives it,   *)
(* or the filing has still to see to that (Outlived), which is why expiry  *)
(* does no harm.  When the members of an index are read, every older page  *)
(* is thereby among them or excused, and every older filing is marked      *)
(* late, so that what it stores is excused (Seals).                        *)
(***************************************************************************)
EXTENDS QueryCache, TLAPS

-----------------------------------------------------------------------------
(* The inductive invariant.                                                *)

Versions == UNION {[is -> Version] : is \in SUBSET Index}
Pages == [ver : Versions, left : Nat]
Filings == [page : Page, next : Nat, ver : Versions \cup {None}, late : SUBSET Index]

\* A filing past its SETEX has still to add p to i, or to keep i alive.
ToAdd(p, i) == \E r \in Reader : Filing(r) /\ ~Storing(r) /\ fill[r].page = p /\ i \in Unadded(r)
ToKeep(p, i) == \E r \in Reader : Filing(r) /\ ~Storing(r) /\ fill[r].page = p /\ i \in Unkept(r)

Reached ==
  \A p \in Page : page[p] # None =>
    \A i \in Filed(p) : p \in index[i] \/ i \in excuse[p] \/ ToAdd(p, i)

Outlived ==
  \A p \in Page : page[p] # None =>
    \A i \in Filed(p) : p \in index[i] /\ left[i] # 0 =>
      left[i] >= page[p].left \/ i \in excuse[p] \/ ToKeep(p, i)

\* Nothing older than version v of i is cached but for ks and what is excused,
\* and nothing older is about to be stored without an excuse.
Seals(i, v, ks) ==
  /\ v <= truth[i]
  /\ \A p \in Page \ ks : page[p] # None /\ i \in Filed(p) /\ page[p].ver[i] < v =>
       i \in excuse[p]
  /\ \A r \in Reader : Storing(r) /\ i \in Filed(fill[r].page) /\ fill[r].ver[i] < v =>
       i \in fill[r].late

Sealed ==
  /\ \A i \in Index : Seals(i, swept[i], {})
  /\ \A w \in Changer : change[w] # None /\ change[w].seen # None =>
       Seals(change[w].seen[1], change[w].seen[2], change[w].keys)

-----------------------------------------------------------------------------
(* Facts about the constants.                                              *)

\* None is no value of page, fill, change or seen.
LEMMA NotNone ==
  None \notin Pages /\ None \notin Filings /\ None \notin Changes
  /\ None \notin Versions /\ None \notin Index \X Version
<1>1. None \notin Versions BY NoneAssumption DEF Versions
<1>2. None \notin Pages
  <2> SUFFICES ASSUME None \in Pages PROVE FALSE OBVIOUS
  <2>1. PICK is \in SUBSET Index : None.ver \in [is -> Version] BY DEF Pages, Versions
  <2>2. None \in PageOf(is) BY <2>1 DEF Pages, PageOf
  <2> QED BY <2>2, NoneAssumption
<1>3. None \notin Filings
  <2> SUFFICES ASSUME None \in Filings PROVE FALSE OBVIOUS
  <2>1. PICK is \in SUBSET Index : None.ver \in [is -> Version] \cup {None}
    BY DEF Filings, Versions
  <2>2. None \in FilingOf(is) BY <2>1 DEF Filings, FilingOf
  <2> QED BY <2>2, NoneAssumption
<1> QED BY <1>1, <1>2, <1>3, NoneAssumption

\* A page is filed in the indexes its order names.
LEMMA OrderFacts ==
  ASSUME NEW p \in Page
  PROVE  /\ Len(Order[p]) \in Nat \ {0}
         /\ Filed(p) \subseteq Index
         /\ \A n \in 1..Len(Order[p]) : Order[p][n] \in Filed(p)
         /\ \A i \in Filed(p) : \E n \in 1..Len(Order[p]) : Order[p][n] = i
         /\ Ttl(p) \in Nat \ {0}
         /\ Ttl(p) + Slack \in Lives
<1>1. Order[p] \in Seq(Index) /\ Order[p] # <<>> BY ConstantsAssumption
<1>2. Len(Order[p]) \in Nat \ {0} /\ DOMAIN Order[p] = 1..Len(Order[p]) BY <1>1
<1>3. Ttl(p) \in Nat \ {0} /\ Ttl(p) + Slack \in Lives
  BY ConstantsAssumption DEF Ttl, Lives
<1> QED BY <1>1, <1>2, <1>3 DEF Filed, ToSet

-----------------------------------------------------------------------------
(* Types.                                                                 *)

PageT ==
  /\ page \in [Page -> Pages \cup {None}]
  /\ \A p \in Page : page[p] # None =>
       page[p].ver \in [Filed(p) -> Version] /\ page[p].left \in 1..Ttl(p)

IndexT ==
  /\ index \in [Index -> SUBSET Page] /\ left \in [Index -> Lives]
  /\ \A i \in Index : index[i] = {} => left[i] = 0

FillT ==
  /\ fill \in [Reader -> Filings \cup {None}]
  /\ \A r \in Reader : Filing(r) =>
       /\ Storing(r) => fill[r].ver \in [Filed(fill[r].page) -> Version]
       /\ fill[r].next \in 1..(2 * Len(Order[fill[r].page]) + 1)
       /\ fill[r].late \subseteq Filed(fill[r].page)

ChangeT ==
  /\ change \in [Changer -> Changes \cup {None}]
  /\ \A w \in Changer : change[w] # None =>
       /\ change[w].on \in Scope(change[w].kind) /\ change[w].todo \subseteq change[w].on
       /\ change[w].named \subseteq change[w].todo
       /\ change[w].seen # None => change[w].seen[1] \in change[w].todo

RestT ==
  /\ truth \in [Index -> Version] /\ swept \in [Index -> Version]
  /\ excuse \in [Page -> SUBSET Index]
  /\ reads \in 0..MaxReads /\ started \in 0..MaxChanges /\ faults \in 0..MaxFaults

Types == PageT /\ IndexT /\ FillT /\ ChangeT /\ RestT

IInv == Types /\ Reached /\ Outlived /\ Sealed

\* These parts give the type invariant.
LEMMA TypesAre == Types => TypeOK
<1> SUFFICES ASSUME Types PROVE TypeOK OBVIOUS
<1>1. \A p \in Page : page[p] # None =>
        page[p].ver \in [Filed(p) -> Version] /\ page[p].left \in 0..Ttl(p)
  BY OrderFacts DEF Types, PageT
<1>2. \A r \in Reader : Filing(r) => fill[r].page \in Page
  BY DEF Types, FillT, Filings, Filing
<1>3. \A w \in Changer : change[w] # None =>
        /\ change[w].kind \in Kinds /\ change[w].at \in Places
        /\ change[w].keys \subseteq Page
  BY DEF Types, ChangeT, Changes
<1> QED BY <1>1, <1>2, <1>3 DEF Types, IndexT, FillT, ChangeT, RestT, TypeOK

\* A filing under way, before or after a step.
LEMMA FilingFacts ==
  ASSUME FillT, NEW r \in Reader, Filing(r)
  PROVE  /\ fill[r] \in Filings /\ fill[r].page \in Page
         /\ fill[r].next \in 1..(2 * Len(Order[fill[r].page]) + 1)
         /\ Len(Order[fill[r].page]) \in Nat \ {0}
         /\ Filed(fill[r].page) \subseteq Index
         /\ fill[r].late \subseteq Filed(fill[r].page)
         /\ Unadded(r) \subseteq Filed(fill[r].page)
         /\ Unkept(r) \subseteq Filed(fill[r].page)
         /\ Unadded(r) \subseteq Unkept(r)
<1>1. fill[r] \in Filings BY DEF FillT, Filing
<1>2. fill[r].page \in Page BY <1>1 DEF Filings
<1>3. Unadded(r) \subseteq Filed(fill[r].page) /\ Unkept(r) \subseteq Filed(fill[r].page)
  BY <1>2, OrderFacts DEF Unadded, Unkept
<1>4. /\ fill[r].next \in 1..(2 * Len(Order[fill[r].page]) + 1)
      /\ fill[r].late \subseteq Filed(fill[r].page)
  BY DEF FillT
<1>5. Len(Order[fill[r].page]) \in Nat \ {0} BY <1>2, OrderFacts
<1>6. Unadded(r) \subseteq Unkept(r)
  <2>1. \A m \in 1..Len(Order[fill[r].page]) :
          fill[r].next <= 2 * m => fill[r].next <= 2 * m + 1
    BY <1>4, <1>5
  <2> QED BY <2>1 DEF Unadded, Unkept
<1> QED BY <1>1, <1>2, <1>3, <1>4, <1>5, <1>6, OrderFacts

\* The command a filing has come to is the SADD or the EXPIRE of one index.
LEMMA AtFacts ==
  ASSUME FillT, NEW r \in Reader, Adding(r) \/ Expiring(r)
  PROVE  /\ At(r) \in Filed(fill[r].page)
         /\ \E k \in 1..Len(Order[fill[r].page]) :
              /\ At(r) = Order[fill[r].page][k]
              /\ Adding(r) => fill[r].next = 2 * k
              /\ Expiring(r) => fill[r].next = 2 * k + 1
<1>1. Filing(r) BY DEF Adding, Expiring
<1> DEFINE L == Len(Order[fill[r].page])
           n == fill[r].next
           k == n \div 2
<1>2. L \in Nat \ {0} /\ n \in 1..(2 * L + 1) /\ fill[r].page \in Page
  BY <1>1, FilingFacts
<1>3. n > 1 BY DEF Adding, Expiring
<1>4. Adding(r) => n % 2 = 0 BY DEF Adding
<1>5. Expiring(r) => n % 2 = 1 BY DEF Expiring
<1>6. At(r) = Order[fill[r].page][k] BY DEF At
<1>7. k \in 1..L /\ (n % 2 = 0 => n = 2 * k) /\ (n % 2 = 1 => n = 2 * k + 1)
  <2> HIDE DEF L, n
  <2> QED BY <1>2, <1>3
<1>8. Order[fill[r].page][k] \in Filed(fill[r].page) BY <1>2, <1>7, OrderFacts
<1> QED BY <1>4, <1>5, <1>6, <1>7, <1>8

\* Excuse adds indexes to the excuses of what is cached.
LEMMA ExcuseFacts ==
  ASSUME RestT, NEW is, \A p \in Page : is[p] \subseteq Index,
         NEW cached, Excuse(is, cached)
  PROVE  /\ excuse' \in [Page -> SUBSET Index]
         /\ \A p \in Page : cached[p] # None => excuse'[p] = excuse[p] \cup is[p]
BY DEF RestT, Excuse

\* The next command of a filing, or its end.
LEMMA AdvanceFacts ==
  ASSUME FillT, NEW r \in Reader, Adding(r) \/ Expiring(r), Advance(r)
  PROVE  /\ fill' \in [Reader -> Filings \cup {None}]
         /\ \A q \in Reader \ {r} : fill'[q] = fill[q]
         /\ fill[r].next = 2 * Len(Order[fill[r].page]) + 1 => fill'[r] = None
         /\ fill[r].next # 2 * Len(Order[fill[r].page]) + 1 =>
              /\ fill'[r] # None
              /\ fill'[r].page = fill[r].page /\ fill'[r].late = fill[r].late
              /\ fill'[r].next = fill[r].next + 1
<1>1. Filing(r) BY DEF Adding, Expiring
<1>2. fill[r] \in Filings BY <1>1, FilingFacts
<1> DEFINE f == [fill[r] EXCEPT !.next = fill[r].next + 1]
<1>3. /\ f \in Filings /\ f.page = fill[r].page /\ f.late = fill[r].late
      /\ f.next = fill[r].next + 1
  BY <1>2 DEF Filings
<1>4. f # None BY <1>3, NotNone
<1>5. fill' = [fill EXCEPT ![r] =
                 IF fill[r].next = 2 * Len(Order[fill[r].page]) + 1 THEN None ELSE f]
  BY DEF Advance
<1> HIDE DEF f
<1> QED BY <1>3, <1>4, <1>5 DEF FillT

\* An invalidation goes on with the indexes it has left, or is done.
LEMMA DoneFacts ==
  ASSUME ChangeT, NEW w \in Changer, change[w] # None,
         NEW todo \in SUBSET change[w].todo, NEW sw, Done(w, todo, sw)
  PROVE  /\ ChangeT'
         /\ \A v \in Changer \ {w} : change'[v] = change[v]
         /\ change'[w] # None => change'[w].seen = None
<1> DEFINE c == [change[w] EXCEPT !.todo = todo, !.named = change[w].named \cap todo,
                                  !.keys = {}, !.seen = None]
           d == [change[w] EXCEPT !.at = "commit", !.todo = {}, !.named = {}, !.keys = {},
                                  !.seen = None]
<1>1. change[w] \in Changes /\ change[w].on \in Scope(change[w].kind)
      /\ change[w].todo \subseteq change[w].on
  BY DEF ChangeT
<1>2. /\ c \in Changes /\ c.on = change[w].on /\ c.kind = change[w].kind
      /\ c.todo = todo /\ c.named \subseteq todo /\ c.seen = None
  BY <1>1 DEF Changes
<1>3. /\ d \in Changes /\ d.on = change[w].on /\ d.kind = change[w].kind
      /\ d.todo = {} /\ d.named = {} /\ d.seen = None
  BY <1>1 DEF Changes, Places
<1>4. \E x \in {c, d, None} : change' = [change EXCEPT ![w] = x] BY DEF Done
<1> HIDE DEF c, d
<1> QED BY <1>1, <1>2, <1>3, <1>4 DEF ChangeT

\* SETEX stores a page for its life, DEL and time take it away.
LEMMA PageTStep ==
  ASSUME Types, [Next]_vars PROVE PageT'
<1>1. ASSUME NEW r \in Reader, NEW p \in Page, Miss(r, p) \/ GetFails(r, p)
   PROVE PageT'
  BY <1>1, OrderFacts, NotNone DEF Miss, GetFails, Read, Fails, store, Pages,
     Filings, Versions, Version, Filing, Storing, Types, PageT, IndexT,
     FillT, ChangeT, RestT
<1>2. ASSUME NEW r \in Reader, Setex(r) PROVE PageT'
  BY <1>2, OrderFacts, NotNone DEF Setex, Pages, Filings, Versions, Version,
     Filing, Storing, Types, PageT, IndexT, FillT, ChangeT, RestT
<1>3. ASSUME NEW r \in Reader, Sadd(r) PROVE PageT'
  BY <1>3, OrderFacts, NotNone DEF Sadd, Advance, Pages, Filings, Versions,
     Version, Filing, Storing, Types, PageT, IndexT, FillT, ChangeT, RestT
<1>4. ASSUME NEW r \in Reader, Expire(r) PROVE PageT'
  BY <1>4, OrderFacts, NotNone DEF Expire, Advance, Excuse, Pages, Filings,
     Versions, Version, Filing, Storing, Types, PageT, IndexT, FillT,
     ChangeT, RestT
<1>5. ASSUME NEW r \in Reader, FillFails(r) PROVE PageT'
  BY <1>5, OrderFacts, NotNone DEF FillFails, Fails, Excuse, store, Pages,
     Filings, Versions, Version, Filing, Storing, Types, PageT, IndexT,
     FillT, ChangeT, RestT
<1>6. ASSUME NEW w \in Changer, NEW kind \in Kinds, NEW on \in Scope(kind),
   Begin(w, kind, on) PROVE PageT'
  BY <1>6, OrderFacts, NotNone DEF Begin, store, Pages, Filings, Versions,
     Version, Filing, Storing, Types, PageT, IndexT, FillT, ChangeT, RestT
<1>7. ASSUME NEW w \in Changer, Commit(w) PROVE PageT'
  BY <1>7, OrderFacts, NotNone DEF Commit, store, Pages, Filings, Versions,
     Version, Filing, Storing, Types, PageT, IndexT, FillT, ChangeT, RestT
<1>8. ASSUME NEW w \in Changer, Rollback(w) PROVE PageT'
  BY <1>8, OrderFacts, NotNone DEF Rollback, store, Pages, Filings, Versions,
     Version, Filing, Storing, Types, PageT, IndexT, FillT, ChangeT, RestT
<1>9. ASSUME NEW w \in Changer, NEW i \in Index, Scan(w, i) PROVE PageT'
  BY <1>9 DEF Scan, store, Types, PageT
<1>10. ASSUME NEW w \in Changer, NEW i \in Index, FindsNone(w, i) PROVE PageT'
  BY <1>10, OrderFacts, NotNone DEF FindsNone, Missed, Excuse, Done, store,
     Pages, Filings, Versions, Version, Filing, Storing, Types, PageT,
     IndexT, FillT, ChangeT, RestT
<1>11. ASSUME NEW w \in Changer, NEW i \in Index, Smembers(w, i) PROVE PageT'
  BY <1>11, OrderFacts, NotNone DEF Smembers, Missed, Excuse, store, Pages,
     Filings, Versions, Version, Filing, Storing, Types, PageT, IndexT,
     FillT, ChangeT, RestT
<1>12. ASSUME NEW w \in Changer, Del(w) PROVE PageT'
  BY <1>12, OrderFacts, NotNone DEF Del, Excuse, Done, Pages, Filings,
     Versions, Version, Filing, Storing, Types, PageT, IndexT, FillT,
     ChangeT, RestT
<1>13. ASSUME NEW w \in Changer, InvalidationFails(w) PROVE PageT'
  BY <1>13, OrderFacts, NotNone DEF InvalidationFails, Fails, Done, store,
     Pages, Filings, Versions, Version, Filing, Storing, Types, PageT,
     IndexT, FillT, ChangeT, RestT
<1>14. CASE Tick
  <2> SUFFICES ASSUME NEW p \in Page
               PROVE  /\ page'[p] \in Pages \cup {None}
                      /\ page'[p] # None => /\ page'[p].ver \in [Filed(p) -> Version]
                                            /\ page'[p].left \in 1..Ttl(p)
    BY <1>14 DEF Tick, PageT
  <2>1. CASE page[p] = None \/ page[p].left = 1
    BY <1>14, <2>1 DEF Tick
  <2>2. CASE page[p] # None /\ page[p].left # 1
    <3>1. page[p] \in Pages /\ page[p].ver \in [Filed(p) -> Version]
          /\ page[p].left \in 1..Ttl(p)
      BY <2>2 DEF Types, PageT
    <3>2. page[p].left - 1 \in 1..Ttl(p) /\ page[p].left # 0 /\ page[p].left - 1 \in Nat
      BY <2>2, <3>1, OrderFacts
    <3> DEFINE x == [page[p] EXCEPT !.left = page[p].left - 1]
    <3>3. page'[p] = x BY <1>14, <2>2, <3>2 DEF Tick
    <3>4. x \in Pages /\ x.ver = page[p].ver /\ x.left = page[p].left - 1
      BY <3>1, <3>2 DEF Pages
    <3> QED BY <3>1, <3>2, <3>3, <3>4
  <2> QED BY <2>1, <2>2
<1>15. CASE UNCHANGED vars
  BY <1>15 DEF vars, Types, PageT
<1> QED
  BY <1>1, <1>2, <1>3, <1>4, <1>5, <1>6, <1>7, <1>8, <1>9, <1>10, <1>11, <1>12,
     <1>13, <1>14, <1>15 DEF Next, FillStep, ChangeStep, Hit

\* An index that is gone has no life left.
LEMMA IndexTStep ==
  ASSUME Types, [Next]_vars PROVE IndexT'
<1>1. ASSUME NEW r \in Reader, NEW p \in Page, Miss(r, p) \/ GetFails(r, p)
   PROVE IndexT'
  BY <1>1, OrderFacts, ConstantsAssumption DEF Miss, GetFails, Read, Fails,
     store, Filings, Filing, Types, IndexT, FillT, Lives
<1>2. ASSUME NEW r \in Reader, Setex(r) PROVE IndexT'
  BY <1>2, OrderFacts, ConstantsAssumption DEF Setex, Filings, Filing, Types,
     IndexT, FillT, Lives
<1>3. ASSUME NEW r \in Reader, Sadd(r) PROVE IndexT'
  <2>1. fill[r].page \in Page /\ At(r) \in Index
    BY <1>3, AtFacts, FilingFacts DEF Sadd, Adding, Types
  <2> QED BY <1>3, <2>1 DEF Sadd, Types, IndexT
<1>4. ASSUME NEW r \in Reader, Expire(r) PROVE IndexT'
  <2>1. fill[r].page \in Page /\ At(r) \in Index
    BY <1>4, AtFacts, FilingFacts DEF Expire, Expiring, Types
  <2> QED BY <1>4, <2>1, OrderFacts DEF Expire, Types, IndexT
<1>5. ASSUME NEW r \in Reader, FillFails(r) PROVE IndexT'
  BY <1>5, OrderFacts, ConstantsAssumption DEF FillFails, Fails, Excuse,
     store, Filings, Filing, Types, IndexT, FillT, Lives
<1>6. ASSUME NEW w \in Changer, NEW kind \in Kinds, NEW on \in Scope(kind),
   Begin(w, kind, on) PROVE IndexT'
  BY <1>6, OrderFacts, ConstantsAssumption DEF Begin, store, Filings, Filing,
     Types, IndexT, FillT, Lives
<1>7. ASSUME NEW w \in Changer, Commit(w) PROVE IndexT'
  BY <1>7, OrderFacts, ConstantsAssumption DEF Commit, store, Filings,
     Filing, Types, IndexT, FillT, Lives
<1>8. ASSUME NEW w \in Changer, Rollback(w) PROVE IndexT'
  BY <1>8, OrderFacts, ConstantsAssumption DEF Rollback, store, Filings,
     Filing, Types, IndexT, FillT, Lives
<1>9. ASSUME NEW w \in Changer, NEW i \in Index, Scan(w, i) PROVE IndexT'
  BY <1>9 DEF Scan, store, Types, IndexT
<1>10. ASSUME NEW w \in Changer, NEW i \in Index, FindsNone(w, i) PROVE
   IndexT'
  BY <1>10, OrderFacts, ConstantsAssumption DEF FindsNone, Missed, Excuse,
     Done, store, Filings, Filing, Types, IndexT, FillT, Lives
<1>11. ASSUME NEW w \in Changer, NEW i \in Index, Smembers(w, i) PROVE
   IndexT'
  BY <1>11, OrderFacts, ConstantsAssumption DEF Smembers, Missed, Excuse,
     store, Filings, Filing, Types, IndexT, FillT, Lives
<1>12. ASSUME NEW w \in Changer, Del(w) PROVE IndexT'
  <2>1. change[w].seen[1] \in Index
    BY <1>12, NotNone DEF Del, Invalidating, Types, ChangeT, Changes
  <2>2. 0 \in Lives BY ConstantsAssumption DEF Lives
  <2> QED BY <1>12, <2>1, <2>2 DEF Del, Types, IndexT
<1>13. ASSUME NEW w \in Changer, InvalidationFails(w) PROVE IndexT'
  BY <1>13, OrderFacts, ConstantsAssumption DEF InvalidationFails, Fails,
     Done, store, Filings, Filing, Types, IndexT, FillT, Lives
<1>14. CASE Tick
  BY <1>14, OrderFacts, ConstantsAssumption DEF Tick, Excuse, Filings,
     Filing, Types, IndexT, FillT, Lives
<1>15. CASE UNCHANGED vars
  BY <1>15 DEF vars, Types, IndexT
<1> QED
  BY <1>1, <1>2, <1>3, <1>4, <1>5, <1>6, <1>7, <1>8, <1>9, <1>10, <1>11, <1>12,
     <1>13, <1>14, <1>15 DEF Next, FillStep, ChangeStep, Hit

\* A filing goes from SETEX through its indexes to its end.
LEMMA FillTStep ==
  ASSUME Types, [Next]_vars PROVE FillT'
<1>1. ASSUME NEW r \in Reader, NEW p \in Page, Miss(r, p) \/ GetFails(r, p)
   PROVE FillT'
  <2> DEFINE f == [page |-> p, next |-> 1, late |-> {},
                   ver |-> [i \in Filed(p) |-> truth[i]]]
  <2>1. [i \in Filed(p) |-> truth[i]] \in [Filed(p) -> Version]
    BY OrderFacts DEF Types, RestT
  <2>2. f \in Filings /\ f # None
    BY <2>1, OrderFacts, NotNone DEF Filings, Versions
  <2>3. fill' = [fill EXCEPT ![r] = f] BY <1>1 DEF Miss, GetFails, Read
  <2>4. /\ f.page = p /\ f.next = 1 /\ f.late = {}
        /\ f.ver \in [Filed(p) -> Version]
    BY <2>1
  <2>5. 1 \in 1..(2 * Len(Order[p]) + 1) BY OrderFacts
  <2> HIDE DEF f
  <2> QED BY <2>2, <2>3, <2>4, <2>5 DEF Types, FillT, Filing, Storing
<1>2. ASSUME NEW r \in Reader, Setex(r) PROVE FillT'
  <2>1. Filing(r) /\ fill[r] \in Filings /\ FillT
    BY <1>2, FilingFacts DEF Setex, Storing, Types
  <2> DEFINE f == [fill[r] EXCEPT !.next = 2, !.ver = None, !.late = {}]
  <2>2. f \in Filings /\ f # None /\ f.page = fill[r].page /\ f.next = 2 /\ f.late = {}
    <3>1. f \in Filings BY <2>1 DEF Filings
    <3>2. f.page = fill[r].page /\ f.next = 2 /\ f.late = {} BY <2>1 DEF Filings
    <3> QED BY <3>1, <3>2, NotNone
  <2>3. 2 \in 1..(2 * Len(Order[fill[r].page]) + 1) BY <2>1, FilingFacts
  <2>4. fill' = [fill EXCEPT ![r] = f] BY <1>2 DEF Setex
  <2> HIDE DEF f
  <2> QED BY <2>1, <2>2, <2>3, <2>4 DEF FillT, Filing, Storing
<1>3. ASSUME NEW r \in Reader, Sadd(r) PROVE FillT'
  <2>1. FillT /\ (Adding(r) \/ Expiring(r)) BY <1>3 DEF Sadd, Types
  <2>2. Filing(r) BY <2>1 DEF Adding, Expiring
  <2>3. Advance(r) BY <1>3 DEF Sadd
  <2> SUFFICES ASSUME NEW q \in Reader, fill'[q] # None
               PROVE  /\ (fill'[q].next = 1) =>
                            fill'[q].ver \in [Filed(fill'[q].page) -> Version]
                      /\ fill'[q].next \in 1..(2 * Len(Order[fill'[q].page]) + 1)
                      /\ fill'[q].late \subseteq Filed(fill'[q].page)
    BY <2>1, <2>3, AdvanceFacts DEF FillT, Filing, Storing
  <2>4. CASE q = r
    <3>1. /\ fill'[r].page = fill[r].page /\ fill'[r].late = fill[r].late
          /\ fill'[r].next = fill[r].next + 1
          /\ fill[r].next # 2 * Len(Order[fill[r].page]) + 1
      BY <2>1, <2>3, <2>4, AdvanceFacts
    <3> QED BY <2>1, <2>2, <2>4, <3>1, FilingFacts
  <2>5. CASE q # r
    <3>1. fill'[q] = fill[q] BY <2>1, <2>3, <2>5, AdvanceFacts
    <3> QED BY <3>1 DEF Types, FillT, Filing, Storing
  <2> QED BY <2>4, <2>5
<1>4. ASSUME NEW r \in Reader, Expire(r) PROVE FillT'
  <2>1. FillT /\ (Adding(r) \/ Expiring(r)) BY <1>4 DEF Expire, Types
  <2>2. Filing(r) BY <2>1 DEF Adding, Expiring
  <2>3. Advance(r) BY <1>4 DEF Expire
  <2> SUFFICES ASSUME NEW q \in Reader, fill'[q] # None
               PROVE  /\ (fill'[q].next = 1) =>
                            fill'[q].ver \in [Filed(fill'[q].page) -> Version]
                      /\ fill'[q].next \in 1..(2 * Len(Order[fill'[q].page]) + 1)
                      /\ fill'[q].late \subseteq Filed(fill'[q].page)
    BY <2>1, <2>3, AdvanceFacts DEF FillT, Filing, Storing
  <2>4. CASE q = r
    <3>1. /\ fill'[r].page = fill[r].page /\ fill'[r].late = fill[r].late
          /\ fill'[r].next = fill[r].next + 1
          /\ fill[r].next # 2 * Len(Order[fill[r].page]) + 1
      BY <2>1, <2>3, <2>4, AdvanceFacts
    <3> QED BY <2>1, <2>2, <2>4, <3>1, FilingFacts
  <2>5. CASE q # r
    <3>1. fill'[q] = fill[q] BY <2>1, <2>3, <2>5, AdvanceFacts
    <3> QED BY <3>1 DEF Types, FillT, Filing, Storing
  <2> QED BY <2>4, <2>5
<1>5. ASSUME NEW r \in Reader, FillFails(r) PROVE FillT'
  BY <1>5, OrderFacts, NotNone DEF FillFails, Fails, Excuse, store, Filings,
     Versions, Filing, Storing, Types, FillT, RestT
<1>6. ASSUME NEW w \in Changer, NEW kind \in Kinds, NEW on \in Scope(kind),
   Begin(w, kind, on) PROVE FillT'
  BY <1>6, OrderFacts, NotNone DEF Begin, store, Filings, Versions, Filing,
     Storing, Types, FillT, RestT
<1>7. ASSUME NEW w \in Changer, Commit(w) PROVE FillT'
  BY <1>7, OrderFacts, NotNone DEF Commit, store, Filings, Versions, Filing,
     Storing, Types, FillT, RestT
<1>8. ASSUME NEW w \in Changer, Rollback(w) PROVE FillT'
  BY <1>8, OrderFacts, NotNone DEF Rollback, store, Filings, Versions,
     Filing, Storing, Types, FillT, RestT
<1>9. ASSUME NEW w \in Changer, NEW i \in Index, Scan(w, i) PROVE FillT'
  BY <1>9 DEF Scan, Filing, Storing, Types, FillT
<1>10. ASSUME NEW w \in Changer, NEW i \in Index, FindsNone(w, i) PROVE FillT'
  <2> SUFFICES ASSUME NEW q \in Reader
               PROVE  /\ fill'[q] \in Filings \cup {None}
                      /\ fill'[q] # None =>
                           /\ (fill'[q].next = 1) =>
                                 fill'[q].ver \in [Filed(fill'[q].page) -> Version]
                           /\ fill'[q].next \in 1..(2 * Len(Order[fill'[q].page]) + 1)
                           /\ fill'[q].late \subseteq Filed(fill'[q].page)
    BY <1>10 DEF FindsNone, Missed, FillT, Filing, Storing
  <2>1. CASE Storing(q)
    <3>1. fill'[q] = [fill[q] EXCEPT !.late = @ \cup (Unadded(q) \cap {i})]
      BY <1>10, <2>1 DEF FindsNone, Missed
    <3>2. Filing(q) /\ fill[q].ver \in [Filed(fill[q].page) -> Version]
      BY <2>1 DEF Storing, Types, FillT
    <3> QED BY <3>1, <3>2, FilingFacts DEF Types, Filings
  <2>2. CASE ~Storing(q)
    <3>1. fill'[q] = fill[q] BY <1>10, <2>2 DEF FindsNone, Missed
    <3> QED BY <2>2, <3>1 DEF Types, FillT, Filing, Storing
  <2> QED BY <2>1, <2>2
<1>11. ASSUME NEW w \in Changer, NEW i \in Index, Smembers(w, i) PROVE FillT'
  <2> SUFFICES ASSUME NEW q \in Reader
               PROVE  /\ fill'[q] \in Filings \cup {None}
                      /\ fill'[q] # None =>
                           /\ (fill'[q].next = 1) =>
                                 fill'[q].ver \in [Filed(fill'[q].page) -> Version]
                           /\ fill'[q].next \in 1..(2 * Len(Order[fill'[q].page]) + 1)
                           /\ fill'[q].late \subseteq Filed(fill'[q].page)
    BY <1>11 DEF Smembers, Missed, FillT, Filing, Storing
  <2>1. CASE Storing(q)
    <3>1. fill'[q] = [fill[q] EXCEPT !.late = @ \cup (Unadded(q) \cap {i})]
      BY <1>11, <2>1 DEF Smembers, Missed
    <3>2. Filing(q) /\ fill[q].ver \in [Filed(fill[q].page) -> Version]
      BY <2>1 DEF Storing, Types, FillT
    <3> QED BY <3>1, <3>2, FilingFacts DEF Types, Filings
  <2>2. CASE ~Storing(q)
    <3>1. fill'[q] = fill[q] BY <1>11, <2>2 DEF Smembers, Missed
    <3> QED BY <2>2, <3>1 DEF Types, FillT, Filing, Storing
  <2> QED BY <2>1, <2>2
<1>12. ASSUME NEW w \in Changer, Del(w) PROVE FillT'
  BY <1>12, OrderFacts, NotNone DEF Del, Excuse, Done, Filings, Versions,
     Filing, Storing, Types, FillT, RestT
<1>13. ASSUME NEW w \in Changer, InvalidationFails(w) PROVE FillT'
  BY <1>13, OrderFacts, NotNone DEF InvalidationFails, Fails, Done, store,
     Filings, Versions, Filing, Storing, Types, FillT, RestT
<1>14. CASE Tick
  BY <1>14, OrderFacts, NotNone DEF Tick, Excuse, Filings, Versions, Filing,
     Storing, Types, FillT, RestT
<1>15. CASE UNCHANGED vars
  BY <1>15 DEF vars, Types, FillT, Filing, Storing
<1> QED
  BY <1>1, <1>2, <1>3, <1>4, <1>5, <1>6, <1>7, <1>8, <1>9, <1>10, <1>11, <1>12,
     <1>13, <1>14, <1>15 DEF Next, FillStep, ChangeStep, Hit

\* A change has its indexes, and invalidates one of them at a time.
LEMMA ChangeTStep ==
  ASSUME Types, [Next]_vars PROVE ChangeT'
<1>1. ASSUME NEW r \in Reader, NEW p \in Page, Miss(r, p) \/ GetFails(r, p)
   PROVE ChangeT'
  BY <1>1, NotNone DEF Miss, GetFails, Read, Fails, store, Changes, Version,
     Types, ChangeT, RestT, IndexT
<1>2. ASSUME NEW r \in Reader, Setex(r) PROVE ChangeT'
  BY <1>2, NotNone DEF Setex, Changes, Version, Types, ChangeT, RestT, IndexT
<1>3. ASSUME NEW r \in Reader, Sadd(r) PROVE ChangeT'
  BY <1>3, NotNone DEF Sadd, Advance, Changes, Version, Types, ChangeT,
     RestT, IndexT
<1>4. ASSUME NEW r \in Reader, Expire(r) PROVE ChangeT'
  BY <1>4, NotNone DEF Expire, Advance, Excuse, Changes, Version, Types,
     ChangeT, RestT, IndexT
<1>5. ASSUME NEW r \in Reader, FillFails(r) PROVE ChangeT'
  BY <1>5, NotNone DEF FillFails, Fails, Excuse, store, Changes, Version,
     Types, ChangeT, RestT, IndexT
<1>6. ASSUME NEW w \in Changer, NEW kind \in Kinds, NEW on \in Scope(kind),
   Begin(w, kind, on) PROVE ChangeT'
  <2> DEFINE c == [kind |-> kind, on |-> on, named |-> {}, keys |-> {}, seen |-> None,
                   at |-> IF kind = "write" THEN "commit" ELSE "before",
                   todo |-> IF kind = "write" THEN {} ELSE on]
  <2>1. c \in Changes /\ c # None
    BY <1>6, NotNone DEF Begin, Changes, Kinds, Scope, Places, Index
  <2>2. change' = [change EXCEPT ![w] = c] BY <1>6 DEF Begin
  <2>3. /\ c.on \in Scope(c.kind) /\ c.todo \subseteq c.on /\ c.named \subseteq c.todo
        /\ c.seen # None => c.seen[1] \in c.todo
    BY <1>6, NotNone DEF Begin, Changes, Kinds, Scope, Places, Index
  <2> HIDE DEF c
  <2> QED BY <2>1, <2>2, <2>3 DEF Types, ChangeT
<1>7. ASSUME NEW w \in Changer, Commit(w) PROVE ChangeT'
  <2> DEFINE c == [change[w] EXCEPT !.at = "after", !.todo = change[w].on]
  <2>1. change[w] \in Changes /\ change[w].on \in Scope(change[w].kind)
        /\ change[w].named \subseteq change[w].on
        /\ (change[w].seen # None => change[w].seen[1] \in change[w].on)
    BY <1>7 DEF Commit, Types, ChangeT
  <2>2. c \in Changes /\ c # None BY <2>1, NotNone DEF Changes, Places
  <2>3. /\ c.on = change[w].on /\ c.kind = change[w].kind /\ c.seen = change[w].seen
        /\ c.todo = change[w].on /\ c.named = change[w].named
    BY <2>1 DEF Changes
  <2>4. change' = [change EXCEPT ![w] = c] BY <1>7 DEF Commit
  <2> HIDE DEF c
  <2> QED BY <2>1, <2>2, <2>3, <2>4 DEF Types, ChangeT
<1>8. ASSUME NEW w \in Changer, Rollback(w) PROVE ChangeT'
  BY <1>8, NotNone DEF Rollback, store, Changes, Version, Types, ChangeT,
     RestT, IndexT
<1>9. ASSUME NEW w \in Changer, NEW i \in Index, Scan(w, i) PROVE ChangeT'
  <2> DEFINE c == [change[w] EXCEPT !.named = change[w].named \cup {i}]
  <2>1. /\ change[w] \in Changes /\ change[w].on \in Scope(change[w].kind)
        /\ change[w].todo \subseteq change[w].on /\ change[w].named \subseteq change[w].todo
        /\ change[w].seen # None => change[w].seen[1] \in change[w].todo
        /\ i \in change[w].todo
    BY <1>9 DEF Scan, Invalidating, Types, ChangeT
  <2>2. c \in Changes /\ c # None BY <2>1, NotNone DEF Changes
  <2>3. /\ c.on = change[w].on /\ c.kind = change[w].kind /\ c.seen = change[w].seen
        /\ c.todo = change[w].todo /\ c.named = change[w].named \cup {i}
    BY <2>1 DEF Changes
  <2>4. change' = [change EXCEPT ![w] = c] BY <1>9 DEF Scan
  <2> HIDE DEF c
  <2> QED BY <2>1, <2>2, <2>3, <2>4 DEF Types, ChangeT
<1>10. ASSUME NEW w \in Changer, NEW i \in Index, FindsNone(w, i) PROVE
   ChangeT'
  <2>1. change[w] # None /\ change[w].todo \ {i} \subseteq change[w].todo
    BY <1>10 DEF FindsNone, Invalidating
  <2> QED BY <1>10, <2>1, DoneFacts DEF FindsNone, Types
<1>11. ASSUME NEW w \in Changer, NEW i \in Index, Smembers(w, i) PROVE
   ChangeT'
  <2> DEFINE c == [change[w] EXCEPT !.keys = index[i], !.seen = <<i, truth[i]>>]
  <2>1. change[w] \in Changes /\ change[w].on \in Scope(change[w].kind)
        /\ change[w].todo \subseteq change[w].on /\ i \in change[w].todo
        /\ change[w].named \subseteq change[w].todo
    BY <1>11 DEF Smembers, Invalidating, Types, ChangeT
  <2>2. index[i] \subseteq Page /\ <<i, truth[i]>> \in Index \X Version
    BY DEF Types, IndexT, RestT
  <2>3. c \in Changes /\ c # None BY <2>1, <2>2, NotNone DEF Changes
  <2>4. /\ c.on = change[w].on /\ c.kind = change[w].kind /\ c.todo = change[w].todo
        /\ c.seen[1] = i /\ c.named = change[w].named
    BY <2>1 DEF Changes
  <2>5. change' = [change EXCEPT ![w] = c] BY <1>11 DEF Smembers
  <2> HIDE DEF c
  <2> QED BY <2>1, <2>3, <2>4, <2>5 DEF Types, ChangeT
<1>12. ASSUME NEW w \in Changer, Del(w) PROVE ChangeT'
  <2>1. change[w] # None BY <1>12 DEF Del, Invalidating
  <2> QED BY <1>12, <2>1, DoneFacts DEF Del, Types
<1>13. ASSUME NEW w \in Changer, InvalidationFails(w) PROVE ChangeT'
  <2>1. change[w] # None BY <1>13 DEF InvalidationFails, Invalidating
  <2>2. change[w].todo \ {change[w].seen[1]} \subseteq change[w].todo
        /\ {} \subseteq change[w].todo
    OBVIOUS
  <2> QED BY <1>13, <2>1, <2>2, DoneFacts DEF InvalidationFails, Types
<1>14. CASE Tick
  BY <1>14, NotNone DEF Tick, Excuse, Changes, Version, Types, ChangeT,
     RestT, IndexT
<1>15. CASE UNCHANGED vars
  BY <1>15 DEF vars, Types, ChangeT
<1> QED
  BY <1>1, <1>2, <1>3, <1>4, <1>5, <1>6, <1>7, <1>8, <1>9, <1>10, <1>11, <1>12,
     <1>13, <1>14, <1>15 DEF Next, FillStep, ChangeStep, Hit

\* Versions and excuses stay what they are.
LEMMA RestTStep ==
  ASSUME Types, [Next]_vars PROVE RestT'
<1>1. ASSUME NEW r \in Reader, NEW p \in Page, Miss(r, p) \/ GetFails(r, p)
   PROVE RestT'
  BY <1>1, ConstantsAssumption, OrderFacts DEF Miss, GetFails, Read, Fails,
     store, Filings, Filing, Types, FillT, ChangeT, Changes, RestT, Version
<1>2. ASSUME NEW r \in Reader, Setex(r) PROVE RestT'
  <2>1. fill[r].late \subseteq Index BY <1>2, FilingFacts DEF Setex, Storing, Types
  <2> QED BY <1>2, <2>1 DEF Setex, Types, RestT
<1>3. ASSUME NEW r \in Reader, Sadd(r) PROVE RestT'
  BY <1>3, ConstantsAssumption, OrderFacts DEF Sadd, Advance, Filings,
     Filing, Types, FillT, ChangeT, Changes, RestT, Version
<1>4. ASSUME NEW r \in Reader, Expire(r) PROVE RestT'
  <2> DEFINE is == [p \in Page |->
                    IF p \in index[At(r)] /\ page[p] # None
                       /\ page[p].left > Ttl(fill[r].page) + Slack
                    THEN {At(r)} ELSE {}]
  <2>1. \A p \in Page : is[p] \subseteq Index
    BY <1>4, AtFacts, FilingFacts DEF Expire, Expiring, Types
  <2>2. excuse' \in [Page -> SUBSET Index]
    BY <1>4, <2>1, ExcuseFacts DEF Expire, Types
  <2> QED BY <1>4, <2>2 DEF Expire, Types, RestT
<1>5. ASSUME NEW r \in Reader, FillFails(r) PROVE RestT'
  <2> DEFINE is == [p \in Page |-> IF ~Storing(r) /\ fill[r].page = p THEN Unkept(r) ELSE {}]
  <2>1. \A p \in Page : is[p] \subseteq Index
    BY <1>5, FilingFacts DEF FillFails, Types
  <2>2. excuse' \in [Page -> SUBSET Index]
    BY <1>5, <2>1, ExcuseFacts DEF FillFails, Types
  <2> QED BY <1>5, <2>2, ConstantsAssumption DEF FillFails, Fails, Types, RestT
<1>6. ASSUME NEW w \in Changer, NEW kind \in Kinds, NEW on \in Scope(kind),
   Begin(w, kind, on) PROVE RestT'
  BY <1>6, ConstantsAssumption, OrderFacts DEF Begin, store, Filings, Filing,
     Types, FillT, ChangeT, Changes, RestT, Version
<1>7. ASSUME NEW w \in Changer, Commit(w) PROVE RestT'
  BY <1>7, ConstantsAssumption, OrderFacts DEF Commit, store, Filings,
     Filing, Types, FillT, ChangeT, Changes, RestT, Version
<1>8. ASSUME NEW w \in Changer, Rollback(w) PROVE RestT'
  BY <1>8, ConstantsAssumption, OrderFacts DEF Rollback, store, Filings,
     Filing, Types, FillT, ChangeT, Changes, RestT, Version
<1>9. ASSUME NEW w \in Changer, NEW i \in Index, Scan(w, i) PROVE RestT'
  BY <1>9 DEF Scan, Types, RestT
<1>10. ASSUME NEW w \in Changer, NEW i \in Index, FindsNone(w, i) PROVE RestT'
  BY <1>10, ConstantsAssumption, OrderFacts DEF FindsNone, Missed, Excuse,
     Done, store, Filings, Filing, Types, FillT, ChangeT, Changes, RestT,
     Version
<1>11. ASSUME NEW w \in Changer, NEW i \in Index, Smembers(w, i) PROVE RestT'
  BY <1>11, ConstantsAssumption, OrderFacts DEF Smembers, Missed, Excuse,
     store, Filings, Filing, Types, FillT, ChangeT, Changes, RestT, Version
<1>12. ASSUME NEW w \in Changer, Del(w) PROVE RestT'
  <2> DEFINE is == [p \in Page |-> IF p \in index[change[w].seen[1]] THEN {change[w].seen[1]} ELSE {}]
  <2>1. change[w].seen \in Index \X Version
    BY <1>12 DEF Del, Invalidating, Types, ChangeT, Changes
  <2>2. \A p \in Page : is[p] \subseteq Index BY <2>1
  <2>3. excuse' \in [Page -> SUBSET Index]
    BY <1>12, <2>2, ExcuseFacts DEF Del, Types
  <2>4. swept' \in [Index -> Version] BY <1>12, <2>1 DEF Del, Done, Types, RestT
  <2> QED BY <1>12, <2>3, <2>4 DEF Del, Types, RestT
<1>13. ASSUME NEW w \in Changer, InvalidationFails(w) PROVE RestT'
  BY <1>13, ConstantsAssumption, OrderFacts DEF InvalidationFails, Fails,
     Done, store, Filings, Filing, Types, FillT, ChangeT, Changes, RestT,
     Version
<1>14. CASE Tick
  <2> DEFINE is == [p \in Page |-> {At(r) : r \in {q \in Reader :
                    Expiring(q) /\ fill[q].page = p /\ left[At(q)] = 1}}]
  <2>1. \A p \in Page : is[p] \subseteq Index
    BY AtFacts, FilingFacts DEF Expiring, Types
  <2>2. excuse' \in [Page -> SUBSET Index]
    BY <1>14, <2>1, ExcuseFacts DEF Tick, Types
  <2> QED BY <1>14, <2>2 DEF Tick, Types, RestT
<1>15. CASE UNCHANGED vars
  BY <1>15 DEF vars, Types, RestT
<1> QED
  BY <1>1, <1>2, <1>3, <1>4, <1>5, <1>6, <1>7, <1>8, <1>9, <1>10, <1>11, <1>12,
     <1>13, <1>14, <1>15 DEF Next, FillStep, ChangeStep, Hit

-----------------------------------------------------------------------------
(* The exceptions of a cached page.                                       *)

\* The types are kept.
LEMMA TypesStep == ASSUME Types, [Next]_vars PROVE Types'
BY PageTStep, IndexTStep, FillTStep, ChangeTStep, RestTStep DEF Types

\* What a filing past its SETEX has still to do stays to be done while it rests.
LEMMA FilingRests ==
  ASSUME \A q \in Reader : Filing(q) /\ ~Storing(q) => fill'[q] = fill[q],
         NEW p, NEW i
  PROVE  (ToAdd(p, i) => ToAdd(p, i)') /\ (ToKeep(p, i) => ToKeep(p, i)')
<1>1. \A q \in Reader : Filing(q) /\ ~Storing(q) =>
        /\ Filing(q)' /\ ~Storing(q)' /\ fill'[q].page = fill[q].page
        /\ Unadded(q)' = Unadded(q) /\ Unkept(q)' = Unkept(q)
  BY DEF Filing, Storing, Unadded, Unkept
<1> QED BY <1>1 DEF ToAdd, ToKeep

\* SADD: the page is added, and the rest is still to be done.
LEMMA SaddToDo ==
  ASSUME Types, Types', NEW r \in Reader, Sadd(r), NEW p \in Page, NEW i
  PROVE  /\ ToAdd(p, i) => ToAdd(p, i)' \/ (p = fill[r].page /\ i = At(r))
         /\ ToKeep(p, i) => ToKeep(p, i)'
         /\ p = fill[r].page /\ i = At(r) => ToKeep(p, i)'
<1>1. FillT /\ Adding(r) /\ Filing(r) /\ Advance(r) BY DEF Sadd, Adding, Types
<1>2. PICK k \in 1..Len(Order[fill[r].page]) :
        At(r) = Order[fill[r].page][k] /\ fill[r].next = 2 * k
  BY <1>1, AtFacts
<1>3. Len(Order[fill[r].page]) \in Nat BY <1>1, FilingFacts
<1>4. fill[r].next # 2 * Len(Order[fill[r].page]) + 1 BY <1>2, <1>3
<1>5. /\ fill'[r] # None /\ fill'[r].page = fill[r].page /\ fill'[r].next = 2 * k + 1
      /\ \A q \in Reader \ {r} : fill'[q] = fill[q]
  BY <1>1, <1>2, <1>4, AdvanceFacts
<1>6. Filing(r)' /\ ~Storing(r)' /\ ~Storing(r)
  BY <1>2, <1>5 DEF Filing, Storing
<1>7. Unkept(r)' = Unkept(r) /\ At(r) \in Unkept(r)
  <2>1. \A m \in 1..Len(Order[fill[r].page]) : 2 * k <= 2 * m + 1 <=> 2 * k + 1 <= 2 * m + 1
    BY <1>3
  <2>2. 2 * k <= 2 * k + 1 BY <1>3
  <2> QED BY <1>2, <1>5, <2>1, <2>2 DEF Unkept
<1>8. \A j \in Unadded(r) : j = At(r) \/ j \in Unadded(r)'
  <2>1. \A m \in 1..Len(Order[fill[r].page]) : 2 * k <= 2 * m => m = k \/ 2 * k + 1 <= 2 * m
    BY <1>3
  <2> QED BY <1>2, <1>5, <2>1 DEF Unadded
<1>9. \A q \in Reader \ {r} : Filing(q) /\ ~Storing(q) =>
        /\ Filing(q)' /\ ~Storing(q)' /\ fill'[q].page = fill[q].page
        /\ Unadded(q)' = Unadded(q) /\ Unkept(q)' = Unkept(q)
  BY <1>5 DEF Filing, Storing, Unadded, Unkept
<1>10. ToAdd(p, i) => ToAdd(p, i)' \/ (p = fill[r].page /\ i = At(r))
  BY <1>5, <1>6, <1>8, <1>9 DEF ToAdd
<1>11. ToKeep(p, i) => ToKeep(p, i)'
  BY <1>5, <1>6, <1>7, <1>9 DEF ToKeep
<1>12. p = fill[r].page /\ i = At(r) => ToKeep(p, i)'
  BY <1>5, <1>6, <1>7 DEF ToKeep
<1> QED BY <1>10, <1>11, <1>12

\* EXPIRE: the index is seen to, and the rest is still to be done.
LEMMA ExpireToDo ==
  ASSUME Types, Types', NEW r \in Reader, Expire(r), NEW p \in Page, NEW i
  PROVE  /\ ToAdd(p, i) => ToAdd(p, i)'
         /\ ToKeep(p, i) => ToKeep(p, i)' \/ (p = fill[r].page /\ i = At(r))
<1>1. FillT /\ Expiring(r) /\ Filing(r) /\ Advance(r) BY DEF Expire, Expiring, Types
<1>2. PICK k \in 1..Len(Order[fill[r].page]) :
        At(r) = Order[fill[r].page][k] /\ fill[r].next = 2 * k + 1
  BY <1>1, AtFacts
<1> DEFINE L == Len(Order[fill[r].page])
<1>3. L \in Nat /\ fill[r].page \in Page BY <1>1, FilingFacts
<1>4. \A q \in Reader \ {r} : fill'[q] = fill[q]
  BY <1>1, AdvanceFacts
<1>5. k # L => /\ fill'[r] # None /\ fill'[r].page = fill[r].page
               /\ fill'[r].next = 2 * k + 2
  BY <1>1, <1>2, <1>3, AdvanceFacts
<1>6. k # L => Filing(r)' /\ ~Storing(r)'
  BY <1>2, <1>5 DEF Filing, Storing
<1>7. \A j \in Unadded(r) : k # L /\ j \in Unadded(r)'
  <2> SUFFICES ASSUME NEW j \in Unadded(r) PROVE k # L /\ j \in Unadded(r)' OBVIOUS
  <2>1. PICK m \in 1..L : 2 * k + 1 <= 2 * m /\ j = Order[fill[r].page][m]
    BY <1>2 DEF Unadded
  <2>2. k # L /\ 2 * k + 2 <= 2 * m BY <1>2, <1>3, <2>1
  <2> QED BY <1>5, <2>1, <2>2 DEF Unadded
<1>8. \A j \in Unkept(r) : j = At(r) \/ (k # L /\ j \in Unkept(r)')
  <2> SUFFICES ASSUME NEW j \in Unkept(r), j # At(r) PROVE k # L /\ j \in Unkept(r)' OBVIOUS
  <2>1. PICK m \in 1..L : 2 * k + 1 <= 2 * m + 1 /\ j = Order[fill[r].page][m]
    BY <1>2 DEF Unkept
  <2>2. m # k BY <1>2, <2>1
  <2>3. k # L /\ 2 * k + 2 <= 2 * m + 1 BY <1>2, <1>3, <2>1, <2>2
  <2> QED BY <1>5, <2>1, <2>3 DEF Unkept
<1>9. \A q \in Reader \ {r} : Filing(q) /\ ~Storing(q) =>
        /\ Filing(q)' /\ ~Storing(q)' /\ fill'[q].page = fill[q].page
        /\ Unadded(q)' = Unadded(q) /\ Unkept(q)' = Unkept(q)
  BY <1>4 DEF Filing, Storing, Unadded, Unkept
<1> HIDE DEF L
<1>10. ToAdd(p, i) => ToAdd(p, i)'
  BY <1>5, <1>6, <1>7, <1>9 DEF ToAdd
<1>11. ToKeep(p, i) => ToKeep(p, i)' \/ (p = fill[r].page /\ i = At(r))
  BY <1>5, <1>6, <1>8, <1>9 DEF ToKeep
<1> QED BY <1>10, <1>11

\* A filing that ends early leaves to do what it is excused for.
LEMMA FailToDo ==
  ASSUME Types, NEW r \in Reader, FillFails(r), NEW p \in Page, NEW i
  PROVE  LET left_undone == p = fill[r].page /\ ~Storing(r) /\ i \in Unkept(r) IN
         /\ ToAdd(p, i) => ToAdd(p, i)' \/ left_undone
         /\ ToKeep(p, i) => ToKeep(p, i)' \/ left_undone
<1>1. FillT /\ Filing(r) /\ \A q \in Reader \ {r} : fill'[q] = fill[q]
  BY DEF FillFails, Types, FillT
<1>2. Unadded(r) \subseteq Unkept(r) BY <1>1, FilingFacts
<1>3. \A q \in Reader \ {r} : Filing(q) /\ ~Storing(q) =>
        /\ Filing(q)' /\ ~Storing(q)' /\ fill'[q].page = fill[q].page
        /\ Unadded(q)' = Unadded(q) /\ Unkept(q)' = Unkept(q)
  BY <1>1 DEF Filing, Storing, Unadded, Unkept
<1> QED BY <1>2, <1>3 DEF ToAdd, ToKeep

\* SETEX: everything is to be done for the page.
LEMMA SetexToDo ==
  ASSUME Types, NEW r \in Reader, Setex(r)
  PROVE  /\ \A q \in Reader : Filing(q) /\ ~Storing(q) => fill'[q] = fill[q]
         /\ fill[r].page \in Page
         /\ \A i \in Filed(fill[r].page) :
              \E q \in Reader : /\ Filing(q)' /\ ~Storing(q)' /\ fill'[q].page = fill[r].page
                                /\ i \in Unadded(q)' /\ i \in Unkept(q)'
<1>1. FillT /\ Filing(r) /\ Storing(r) BY DEF Setex, Storing, Types
<1>2. \A q \in Reader : Filing(q) /\ ~Storing(q) => fill'[q] = fill[q]
  BY <1>1 DEF Setex, FillT
<1>3. fill[r] \in Filings /\ fill[r].page \in Page BY <1>1, FilingFacts
<1> DEFINE f == [fill[r] EXCEPT !.next = 2, !.ver = None, !.late = {}]
<1>4. f \in Filings BY <1>3 DEF Filings
<1>5. f.page = fill[r].page /\ f.next = 2 BY <1>3 DEF Filings
<1>6. fill'[r] = f /\ f # None BY <1>1, <1>4, NotNone DEF Setex, FillT
<1> HIDE DEF f
<1>7. Filing(r)' /\ ~Storing(r)' BY <1>5, <1>6 DEF Filing, Storing
<1>8. \A i \in Filed(fill[r].page) : i \in Unadded(r)' /\ i \in Unkept(r)'
  <2> SUFFICES ASSUME NEW i \in Filed(fill[r].page)
               PROVE  i \in Unadded(r)' /\ i \in Unkept(r)'
    OBVIOUS
  <2>1. PICK m \in 1..Len(Order[fill[r].page]) : Order[fill[r].page][m] = i
    BY <1>3, OrderFacts
  <2>2. 2 <= 2 * m /\ 2 <= 2 * m + 1 BY <1>3, <2>1, OrderFacts
  <2> QED BY <1>5, <1>6, <2>1, <2>2 DEF Unadded, Unkept
<1> QED BY <1>2, <1>3, <1>5, <1>6, <1>7, <1>8

\* Time: an index that runs out was still to be kept alive by the filing that
\* added the page, if it held one that lives on.
LEMMA TickKeeps ==
  ASSUME Types, NEW p \in Page, NEW i, ToKeep(p, i), ~ToAdd(p, i)
  PROVE  \E q \in Reader : Expiring(q) /\ fill[q].page = p /\ At(q) = i
<1>1. PICK q \in Reader : Filing(q) /\ ~Storing(q) /\ fill[q].page = p /\ i \in Unkept(q)
  BY DEF ToKeep
<1>2. FillT BY DEF Types
<1>3. /\ fill[q].next \in 1..(2 * Len(Order[p]) + 1) /\ fill[q].next # 1
      /\ Len(Order[p]) \in Nat
  BY <1>1, <1>2, FilingFacts DEF Storing
<1>4. PICK m \in 1..Len(Order[p]) : fill[q].next <= 2 * m + 1 /\ i = Order[p][m]
  BY <1>1 DEF Unkept
<1>5. ~(fill[q].next <= 2 * m)
  <2> SUFFICES ASSUME fill[q].next <= 2 * m PROVE FALSE OBVIOUS
  <2>1. i \in Unadded(q) BY <1>1, <1>4 DEF Unadded
  <2> QED BY <1>1, <2>1 DEF ToAdd
<1>6. fill[q].next = 2 * m + 1 BY <1>3, <1>4, <1>5
<1>7. fill[q].next % 2 = 1 /\ fill[q].next > 1 /\ fill[q].next \div 2 = m
  BY <1>3, <1>4, <1>6
<1> QED BY <1>1, <1>4, <1>7 DEF Expiring, At

\* What Reached and Outlived say of one page and one of its indexes.
Sound(p, i) ==
  /\ p \in index[i] \/ i \in excuse[p] \/ ToAdd(p, i)
  /\ p \in index[i] /\ left[i] # 0 =>
       left[i] >= page[p].left \/ i \in excuse[p] \/ ToKeep(p, i)

\* A cached page stays in its indexes, or is excused, and they outlive it.
LEMMA SoundStep ==
  ASSUME Types, Reached, Outlived, [Next]_vars PROVE Reached' /\ Outlived'
<1> SUFFICES ASSUME NEW g \in Page, page'[g] # None, NEW x \in Filed(g), x \in Index
             PROVE  Sound(g, x)'
  BY OrderFacts DEF Reached, Outlived, Sound
<1>0. page[g] # None => Sound(g, x)
  BY DEF Reached, Outlived, Sound
<1>1. ASSUME NEW r \in Reader, NEW p \in Page, Miss(r, p) \/ GetFails(r, p)
   PROVE Sound(g, x)'
  <2>1. \A q \in Reader : Filing(q) /\ ~Storing(q) => fill'[q] = fill[q]
    BY <1>1 DEF Miss, GetFails, Read, Filing, Types, FillT
  <2>2. (ToAdd(g, x) => ToAdd(g, x)') /\ (ToKeep(g, x) => ToKeep(g, x)')
    BY <2>1, FilingRests
  <2> QED BY <1>1, <1>0, <2>2 DEF Miss, GetFails, Read, store, Sound
<1>2. ASSUME NEW r \in Reader, Setex(r) PROVE Sound(g, x)'
  <2>1. CASE g = fill[r].page
    <3>1. ToAdd(g, x)' /\ ToKeep(g, x)' BY <1>2, <2>1, SetexToDo DEF ToAdd, ToKeep
    <3> QED BY <3>1 DEF Sound
  <2>2. CASE g # fill[r].page
    <3>1. (ToAdd(g, x) => ToAdd(g, x)') /\ (ToKeep(g, x) => ToKeep(g, x)')
      BY <1>2, SetexToDo, FilingRests
    <3>2. page'[g] = page[g] /\ excuse'[g] = excuse[g]
      BY <1>2, <2>2 DEF Setex, Types, PageT, RestT
    <3> QED BY <1>2, <1>0, <3>1, <3>2 DEF Setex, Sound
  <2> QED BY <2>1, <2>2
<1>3. ASSUME NEW r \in Reader, Sadd(r) PROVE Sound(g, x)'
  <2>1. /\ ToAdd(g, x) => ToAdd(g, x)' \/ (g = fill[r].page /\ x = At(r))
        /\ ToKeep(g, x) => ToKeep(g, x)'
        /\ g = fill[r].page /\ x = At(r) => ToKeep(g, x)'
    BY <1>3, TypesStep, SaddToDo
  <2>2. /\ g \in index'[x] <=> g \in index[x] \/ (g = fill[r].page /\ x = At(r))
        /\ page' = page /\ excuse' = excuse /\ left' = left
    BY <1>3 DEF Sadd, Types, IndexT
  <2> QED BY <1>0, <2>1, <2>2 DEF Sound
<1>4. ASSUME NEW r \in Reader, Expire(r) PROVE Sound(g, x)'
  <2>1. /\ ToAdd(g, x) => ToAdd(g, x)'
        /\ ToKeep(g, x) => ToKeep(g, x)' \/ (g = fill[r].page /\ x = At(r))
    BY <1>4, TypesStep, ExpireToDo
  <2>2. page' = page /\ index' = index BY <1>4 DEF Expire
  <2>3. fill[r].page \in Page /\ At(r) \in Index
    BY <1>4, AtFacts, FilingFacts DEF Expire, Expiring, Types
  <2> DEFINE life == Ttl(fill[r].page) + Slack
  <2> DEFINE is == [p \in Page |-> IF p \in index[At(r)] /\ page[p] # None /\ page[p].left > life
                                  THEN {At(r)} ELSE {}]
  <2>4. excuse'[g] = excuse[g] \cup is[g]
    <3>1. \A p \in Page : is[p] \subseteq Index BY <2>3
    <3>2. Excuse(is, page) BY <1>4 DEF Expire
    <3> HIDE DEF is
    <3> QED BY <2>2, <3>1, <3>2, ExcuseFacts DEF Types
  <2>5. CASE x # At(r)
    <3>1. left'[x] = left[x] BY <1>4, <2>5 DEF Expire, Types, IndexT
    <3> QED BY <1>0, <2>1, <2>2, <2>4, <2>5, <3>1 DEF Sound
  <2>6. CASE x = At(r)
    <3>1. g \in index[x] => left'[x] = life
      BY <1>4, <2>3, <2>6 DEF Expire, Types, IndexT
    <3>2. g \in index[x] /\ page[g].left > life => x \in excuse'[g]
      BY <2>2, <2>4, <2>6
    <3>3. life \in Nat /\ page[g].left \in Nat
      BY <2>2, <2>3, OrderFacts, ConstantsAssumption DEF Types, PageT
    <3>4. g \in index[x] => left'[x] >= page[g].left \/ x \in excuse'[g]
      <4> HIDE DEF life
      <4> QED BY <3>1, <3>2, <3>3
    <3> QED BY <1>0, <2>1, <2>2, <2>4, <3>4 DEF Sound
  <2> QED BY <2>5, <2>6
<1>5. ASSUME NEW r \in Reader, FillFails(r) PROVE Sound(g, x)'
  <2> DEFINE u == g = fill[r].page /\ ~Storing(r) /\ x \in Unkept(r)
  <2>1. (ToAdd(g, x) => ToAdd(g, x)' \/ u) /\ (ToKeep(g, x) => ToKeep(g, x)' \/ u)
    BY <1>5, FailToDo
  <2> DEFINE is == [p \in Page |-> IF ~Storing(r) /\ fill[r].page = p THEN Unkept(r) ELSE {}]
  <2>2. page' = page /\ index' = index /\ left' = left BY <1>5 DEF FillFails, store
  <2>3. excuse'[g] = excuse[g] \cup is[g]
    <3>1. \A p \in Page : is[p] \subseteq Index
      BY <1>5, FilingFacts DEF FillFails, Types
    <3>2. Excuse(is, page) BY <1>5 DEF FillFails
    <3> HIDE DEF is
    <3> QED BY <2>2, <3>1, <3>2, ExcuseFacts DEF Types
  <2>4. u => x \in excuse'[g] BY <2>3
  <2> HIDE DEF u
  <2> QED BY <1>0, <2>1, <2>2, <2>3, <2>4 DEF Sound
<1>6. ASSUME NEW w \in Changer, NEW kind \in Kinds, NEW on \in Scope(kind),
   Begin(w, kind, on) PROVE Sound(g, x)'
  <2>1. \A q \in Reader : Filing(q) /\ ~Storing(q) => fill'[q] = fill[q]
    BY <1>6 DEF Begin, Filing, Storing
  <2>2. (ToAdd(g, x) => ToAdd(g, x)') /\ (ToKeep(g, x) => ToKeep(g, x)')
    BY <2>1, FilingRests
  <2> QED BY <1>6, <1>0, <2>2 DEF Begin, store, Sound
<1>7. ASSUME NEW w \in Changer, Commit(w) PROVE Sound(g, x)'
  <2>1. \A q \in Reader : Filing(q) /\ ~Storing(q) => fill'[q] = fill[q]
    BY <1>7 DEF Commit, Filing, Storing
  <2>2. (ToAdd(g, x) => ToAdd(g, x)') /\ (ToKeep(g, x) => ToKeep(g, x)')
    BY <2>1, FilingRests
  <2> QED BY <1>7, <1>0, <2>2 DEF Commit, store, Sound
<1>8. ASSUME NEW w \in Changer, Rollback(w) PROVE Sound(g, x)'
  <2>1. \A q \in Reader : Filing(q) /\ ~Storing(q) => fill'[q] = fill[q]
    BY <1>8 DEF Rollback, Filing, Storing
  <2>2. (ToAdd(g, x) => ToAdd(g, x)') /\ (ToKeep(g, x) => ToKeep(g, x)')
    BY <2>1, FilingRests
  <2> QED BY <1>8, <1>0, <2>2 DEF Rollback, store, Sound
<1>9. ASSUME NEW w \in Changer, NEW i \in Index, Scan(w, i) PROVE Sound(g, x)'
  <2>1. \A q \in Reader : Filing(q) /\ ~Storing(q) => fill'[q] = fill[q]
    BY <1>9 DEF Scan
  <2>2. (ToAdd(g, x) => ToAdd(g, x)') /\ (ToKeep(g, x) => ToKeep(g, x)')
    BY <2>1, FilingRests
  <2> QED BY <1>9, <1>0, <2>2 DEF Scan, store, Sound
<1>10. ASSUME NEW w \in Changer, NEW i \in Index, FindsNone(w, i) PROVE
   Sound(g, x)'
  <2>1. \A q \in Reader : Filing(q) /\ ~Storing(q) => fill'[q] = fill[q]
    BY <1>10 DEF FindsNone, Missed
  <2>2. (ToAdd(g, x) => ToAdd(g, x)') /\ (ToKeep(g, x) => ToKeep(g, x)')
    BY <2>1, FilingRests
  <2>3. page' = page /\ index' = index /\ left' = left BY <1>10 DEF FindsNone, store
  <2>4. excuse[g] \subseteq excuse'[g]
    BY <1>10, <2>3 DEF FindsNone, Missed, Excuse
  <2> QED BY <1>0, <2>2, <2>3, <2>4 DEF Sound
<1>11. ASSUME NEW w \in Changer, NEW i \in Index, Smembers(w, i) PROVE
   Sound(g, x)'
  <2>1. \A q \in Reader : Filing(q) /\ ~Storing(q) => fill'[q] = fill[q]
    BY <1>11 DEF Smembers, Missed
  <2>2. (ToAdd(g, x) => ToAdd(g, x)') /\ (ToKeep(g, x) => ToKeep(g, x)')
    BY <2>1, FilingRests
  <2>3. page' = page /\ index' = index /\ left' = left BY <1>11 DEF Smembers, store
  <2>4. excuse[g] \subseteq excuse'[g]
    BY <1>11, <2>3 DEF Smembers, Missed, Excuse
  <2> QED BY <1>0, <2>2, <2>3, <2>4 DEF Sound
<1>12. ASSUME NEW w \in Changer, Del(w) PROVE Sound(g, x)'
  <2>1. (ToAdd(g, x) => ToAdd(g, x)') /\ (ToKeep(g, x) => ToKeep(g, x)')
    <3>1. \A q \in Reader : Filing(q) /\ ~Storing(q) => fill'[q] = fill[q]
      BY <1>12 DEF Del
    <3> QED BY <3>1, FilingRests
  <2>2. page'[g] = page[g] BY <1>12 DEF Del
  <2>3. /\ excuse[g] \subseteq excuse'[g]
        /\ x = change[w].seen[1] /\ g \in index[x] => x \in excuse'[g]
    BY <1>12 DEF Del, Excuse
  <2>4. /\ x # change[w].seen[1] => index'[x] = index[x] /\ left'[x] = left[x]
        /\ x = change[w].seen[1] => index'[x] = {}
    BY <1>12 DEF Del, Types, IndexT
  <2> QED BY <1>0, <2>1, <2>2, <2>3, <2>4 DEF Sound
<1>13. ASSUME NEW w \in Changer, InvalidationFails(w) PROVE Sound(g, x)'
  <2>1. \A q \in Reader : Filing(q) /\ ~Storing(q) => fill'[q] = fill[q]
    BY <1>13 DEF InvalidationFails, Filing, Storing
  <2>2. (ToAdd(g, x) => ToAdd(g, x)') /\ (ToKeep(g, x) => ToKeep(g, x)')
    BY <2>1, FilingRests
  <2> QED BY <1>13, <1>0, <2>2 DEF InvalidationFails, store, Sound
<1>14. CASE Tick
  <2>1. (ToAdd(g, x) => ToAdd(g, x)') /\ (ToKeep(g, x) => ToKeep(g, x)')
    <3>1. \A q \in Reader : Filing(q) /\ ~Storing(q) => fill'[q] = fill[q]
      BY <1>14 DEF Tick
    <3> QED BY <3>1, FilingRests
  <2>2. page[g] # None /\ page[g].left # 1 BY <1>14 DEF Tick
  <2>3. page[g] \in Pages /\ page[g].left \in 1..Ttl(g) /\ Ttl(g) \in Nat
    BY <2>2, OrderFacts DEF Types, PageT
  <2>4. page'[g].left = page[g].left - 1
    BY <1>14, <2>2, <2>3 DEF Tick, Pages
  <2>5. left[x] \in Nat /\ left'[x] = IF left[x] = 0 THEN 0 ELSE left[x] - 1
    BY <1>14, ConstantsAssumption DEF Tick, Types, IndexT, Lives
  <2>6. index'[x] = IF left[x] = 1 THEN {} ELSE index[x] BY <1>14 DEF Tick
  <2>7. /\ excuse[g] \subseteq excuse'[g]
        /\ \A q \in Reader : Expiring(q) /\ fill[q].page = g /\ left[At(q)] = 1 =>
             At(q) \in excuse'[g]
    BY <1>14 DEF Tick, Excuse
  <2>8. ToKeep(g, x) /\ left[x] = 1 => ToAdd(g, x) \/ x \in excuse'[g]
    BY <2>7, TickKeeps
  <2> QED BY <1>0, <2>1, <2>2, <2>3, <2>4, <2>5, <2>6, <2>7, <2>8 DEF Sound
<1>15. CASE UNCHANGED vars
  <2>1. (ToAdd(g, x) => ToAdd(g, x)') /\ (ToKeep(g, x) => ToKeep(g, x)')
    <3>1. \A q \in Reader : Filing(q) /\ ~Storing(q) => fill'[q] = fill[q]
      BY <1>15 DEF vars
    <3> QED BY <3>1, FilingRests
  <2> QED BY <1>15, <1>0, <2>1 DEF vars, Sound
<1> QED
  BY <1>1, <1>2, <1>3, <1>4, <1>5, <1>6, <1>7, <1>8, <1>9, <1>10, <1>11, <1>12,
     <1>13, <1>14, <1>15 DEF Next, FillStep, ChangeStep, Hit

-----------------------------------------------------------------------------
(* What an invalidation leaves.                                           *)

\* Seals, of the state after a step.
SealsNext(i, v, ks) ==
  /\ v <= truth'[i]
  /\ \A p \in Page \ ks : page'[p] # None /\ i \in Filed(p) /\ page'[p].ver[i] < v =>
       i \in excuse'[p]
  /\ \A r \in Reader : Storing(r)' /\ i \in Filed(fill'[r].page) /\ fill'[r].ver[i] < v =>
       i \in fill'[r].late

\* What keeps every seal: pages and filings that stay are the ones that were
\* there, and lose no excuse.
Keeps ==
  /\ \A i \in Index : truth'[i] >= truth[i]
  /\ \A p \in Page : page'[p] # None =>
       page[p] # None /\ page'[p].ver = page[p].ver /\ excuse[p] \subseteq excuse'[p]
  /\ \A r \in Reader : Storing(r)' =>
       /\ Storing(r) /\ fill'[r].page = fill[r].page /\ fill'[r].ver = fill[r].ver
       /\ fill[r].late \subseteq fill'[r].late

LEMMA KeepsSeals ==
  ASSUME Types, Types', Keeps, NEW i \in Index, NEW v \in Nat, NEW ks, Seals(i, v, ks)
  PROVE  SealsNext(i, v, ks)
<1>1. v <= truth'[i] BY DEF Types, RestT, Version, Keeps, Seals
<1> QED BY <1>1 DEF Keeps, Seals, SealsNext

\* Reading the members of an index marks the filings that come too late.
LEMMA MissedKeeps ==
  ASSUME Types, NEW i \in Index, Missed({i}), truth' = truth, page' = page
  PROVE  Keeps
<1>1. \A p \in Page : page[p] # None => excuse[p] \subseteq excuse'[p]
  BY DEF Missed, Excuse
<1>2. \A r \in Reader : Storing(r)' =>
        /\ Storing(r) /\ fill'[r].page = fill[r].page /\ fill'[r].ver = fill[r].ver
        /\ fill[r].late \subseteq fill'[r].late
  <2> SUFFICES ASSUME NEW r \in Reader, Storing(r)'
               PROVE  /\ Storing(r) /\ fill'[r].page = fill[r].page
                      /\ fill'[r].ver = fill[r].ver /\ fill[r].late \subseteq fill'[r].late
    OBVIOUS
  <2>1. CASE Storing(r)
    <3>1. fill[r] \in Filings BY <2>1, FilingFacts DEF Storing, Types
    <3>2. fill'[r] = [fill[r] EXCEPT !.late = @ \cup (Unadded(r) \cap {i})]
      BY <2>1 DEF Missed
    <3> QED BY <2>1, <3>1, <3>2 DEF Filings
  <2>2. CASE ~Storing(r)
    BY <2>2 DEF Missed, Storing, Filing
  <2> QED BY <2>1, <2>2
<1> QED BY <1>1, <1>2 DEF Keeps, Types, RestT, Version

\* And then nothing older than the index is cached beside its members.
LEMMA MissedSeals ==
  ASSUME Types, Types', Reached, NEW i \in Index, Missed({i}), truth' = truth, page' = page
  PROVE  SealsNext(i, truth[i], index[i])
<1>1. truth[i] <= truth'[i] BY DEF Types, RestT, Version
<1>2. ASSUME NEW p \in Page \ index[i], page[p] # None, i \in Filed(p)
      PROVE  i \in excuse'[p]
  <2>1. i \in excuse[p] \/ ToAdd(p, i) BY <1>2 DEF Reached
  <2> QED BY <1>2, <2>1 DEF ToAdd, Missed, Excuse
<1>3. ASSUME NEW r \in Reader, Storing(r)', i \in Filed(fill'[r].page)
      PROVE  i \in fill'[r].late
  <2>1. Storing(r) /\ fill'[r].page = fill[r].page
    BY <1>3, MissedKeeps DEF Keeps
  <2>2. Filing(r) /\ fill[r] \in Filings /\ fill[r].next = 1 /\ fill[r].page \in Page
    BY <2>1, FilingFacts DEF Storing, Types
  <2>3. PICK m \in 1..Len(Order[fill[r].page]) : Order[fill[r].page][m] = i
    BY <1>3, <2>1, <2>2, OrderFacts
  <2>4. 1 <= 2 * m BY <2>2, <2>3, OrderFacts
  <2>5. i \in Unadded(r) BY <2>2, <2>3, <2>4 DEF Unadded
  <2>6. fill'[r] = [fill[r] EXCEPT !.late = @ \cup (Unadded(r) \cap {i})]
    BY <2>1 DEF Missed
  <2> QED BY <2>2, <2>5, <2>6 DEF Filings
<1> QED BY <1>1, <1>2, <1>3 DEF SealsNext

\* No step breaks a seal.
LEMMA SealsStep ==
  ASSUME Types, NEW x \in Index, NEW v \in Nat, NEW ks, Seals(x, v, ks),
         [Next]_vars
  PROVE  SealsNext(x, v, ks)
<1>0. Types' /\ Seals(x, v, ks) BY TypesStep
<1>1. ASSUME NEW r \in Reader, NEW p \in Page, Miss(r, p) \/ GetFails(r, p)
   PROVE SealsNext(x, v, ks)
  <2>1. \A q \in Reader \ {r} : fill'[q] = fill[q]
    BY <1>1 DEF Miss, GetFails, Read, Types, FillT
  <2>2. Storing(r)' => /\ fill'[r].page = p
                       /\ \A j \in Filed(p) : fill'[r].ver[j] = truth[j]
    BY <1>1 DEF Miss, GetFails, Read, Types, FillT
  <2>3. page' = page /\ excuse' = excuse /\ truth' = truth
    BY <1>1 DEF Miss, GetFails, Read, store
  <2>4. x \in Filed(p) => ~(truth[x] < v)
    BY <1>0 DEF Seals, Types, RestT, Version
  <2>5. \A q \in Reader \ {r} : Storing(q)' => Storing(q)
    BY <2>1 DEF Storing, Filing
  <2> QED BY <1>0, <2>1, <2>2, <2>3, <2>4, <2>5 DEF Seals, SealsNext
<1>2. ASSUME NEW r \in Reader, Setex(r) PROVE SealsNext(x, v, ks)
  <2>1. \A q \in Reader \ {r} : fill'[q] = fill[q] BY <1>2 DEF Setex
  <2>2. ~Storing(r)' /\ Storing(r) /\ fill[r].page \in Page
    BY <1>2, FilingFacts DEF Setex, Storing, Types, FillT, Filings
  <2>3. \A q \in Reader : Storing(q)' => Storing(q) /\ fill'[q] = fill[q]
    BY <2>1, <2>2 DEF Storing, Filing
  <2>4. /\ \A p \in Page \ {fill[r].page} : page'[p] = page[p] /\ excuse'[p] = excuse[p]
        /\ page'[fill[r].page].ver = fill[r].ver /\ excuse'[fill[r].page] = fill[r].late
        /\ truth' = truth
    BY <1>2, <2>2 DEF Setex, Types, PageT, RestT
  <2>5. x \in Filed(fill[r].page) /\ fill[r].ver[x] < v => x \in fill[r].late
    BY <1>0, <2>2 DEF Seals
  <2> QED BY <1>0, <2>3, <2>4, <2>5 DEF Seals, SealsNext
<1>3. ASSUME NEW r \in Reader, Sadd(r) PROVE SealsNext(x, v, ks)
  <2>1. FillT /\ (Adding(r) \/ Expiring(r)) /\ Advance(r) BY <1>3 DEF Sadd, Types
  <2>2. fill[r].next \in Nat /\ fill[r].next > 1
    BY <2>1, FilingFacts DEF Adding, Expiring
  <2>3. ~Storing(r)' BY <2>1, <2>2, AdvanceFacts DEF Storing, Filing
  <2>4. \A q \in Reader : Storing(q)' => Storing(q) /\ fill'[q] = fill[q]
    BY <2>1, <2>3, AdvanceFacts DEF Storing, Filing
  <2>5. /\ truth' = truth /\ page' = page
        /\ \A p \in Page : page[p] # None => excuse[p] \subseteq excuse'[p]
    BY <1>3 DEF Sadd, Excuse
  <2>6. Keeps BY <2>4, <2>5 DEF Keeps, Types, RestT, Version
  <2> QED BY <1>0, <2>6, KeepsSeals
<1>4. ASSUME NEW r \in Reader, Expire(r) PROVE SealsNext(x, v, ks)
  <2>1. FillT /\ (Adding(r) \/ Expiring(r)) /\ Advance(r) BY <1>4 DEF Expire, Types
  <2>2. fill[r].next \in Nat /\ fill[r].next > 1
    BY <2>1, FilingFacts DEF Adding, Expiring
  <2>3. ~Storing(r)' BY <2>1, <2>2, AdvanceFacts DEF Storing, Filing
  <2>4. \A q \in Reader : Storing(q)' => Storing(q) /\ fill'[q] = fill[q]
    BY <2>1, <2>3, AdvanceFacts DEF Storing, Filing
  <2>5. /\ truth' = truth /\ page' = page
        /\ \A p \in Page : page[p] # None => excuse[p] \subseteq excuse'[p]
    BY <1>4 DEF Expire, Excuse
  <2>6. Keeps BY <2>4, <2>5 DEF Keeps, Types, RestT, Version
  <2> QED BY <1>0, <2>6, KeepsSeals
<1>5. ASSUME NEW r \in Reader, FillFails(r) PROVE SealsNext(x, v, ks)
  <2>1. \A q \in Reader : Storing(q)' => Storing(q) /\ fill'[q] = fill[q]
    BY <1>5 DEF FillFails, Storing, Filing, Types, FillT
  <2>2. /\ truth' = truth /\ page' = page
        /\ \A p \in Page : page[p] # None => excuse[p] \subseteq excuse'[p]
    BY <1>5 DEF FillFails, Excuse, store
  <2>3. Keeps BY <2>1, <2>2 DEF Keeps, Types, RestT, Version
  <2> QED BY <1>0, <2>3, KeepsSeals
<1>6. ASSUME NEW w \in Changer, NEW kind \in Kinds, NEW on \in Scope(kind),
   Begin(w, kind, on) PROVE SealsNext(x, v, ks)
  <2>1. Keeps BY <1>6 DEF Begin, store, Keeps, Storing, Filing, Types, RestT, Version
  <2> QED BY <1>0, <2>1, KeepsSeals
<1>7. ASSUME NEW w \in Changer, Commit(w) PROVE SealsNext(x, v, ks)
  <2>1. Keeps BY <1>7 DEF Commit, store, Keeps, Storing, Filing, Types, RestT, Version
  <2> QED BY <1>0, <2>1, KeepsSeals
<1>8. ASSUME NEW w \in Changer, Rollback(w) PROVE SealsNext(x, v, ks)
  <2>1. Keeps BY <1>8 DEF Rollback, store, Keeps, Storing, Filing, Types, RestT, Version
  <2> QED BY <1>0, <2>1, KeepsSeals
<1>9. ASSUME NEW w \in Changer, NEW i \in Index, Scan(w, i) PROVE SealsNext(x, v, ks)
  <2>1. Keeps BY <1>9 DEF Scan, store, Keeps, Storing, Filing, Types, RestT, Version
  <2> QED BY <1>0, <2>1, KeepsSeals
<1>10. ASSUME NEW w \in Changer, NEW i \in Index, FindsNone(w, i) PROVE
   SealsNext(x, v, ks)
  <2>1. Missed({i}) /\ truth' = truth /\ page' = page BY <1>10 DEF FindsNone, store
  <2>2. Keeps BY <2>1, MissedKeeps
  <2> QED BY <1>0, <2>2, KeepsSeals
<1>11. ASSUME NEW w \in Changer, NEW i \in Index, Smembers(w, i) PROVE
   SealsNext(x, v, ks)
  <2>1. Missed({i}) /\ truth' = truth /\ page' = page BY <1>11 DEF Smembers, store
  <2>2. Keeps BY <2>1, MissedKeeps
  <2> QED BY <1>0, <2>2, KeepsSeals
<1>12. ASSUME NEW w \in Changer, Del(w) PROVE SealsNext(x, v, ks)
  <2>1. \A p \in Page : page'[p] # None => page'[p] = page[p] /\ excuse[p] \subseteq excuse'[p]
    BY <1>12 DEF Del, Excuse
  <2>2. Keeps BY <1>12, <2>1 DEF Del, Keeps, Storing, Filing, Types, RestT, Version
  <2> QED BY <1>0, <2>2, KeepsSeals
<1>13. ASSUME NEW w \in Changer, InvalidationFails(w) PROVE SealsNext(x, v,
   ks)
  <2>1. Keeps BY <1>13 DEF InvalidationFails, store, Keeps, Storing, Filing, Types, RestT, Version
  <2> QED BY <1>0, <2>1, KeepsSeals
<1>14. CASE Tick
  <2>1. \A p \in Page : page'[p] # None =>
          /\ page[p] # None /\ page'[p].ver = page[p].ver
          /\ excuse[p] \subseteq excuse'[p]
    BY <1>14 DEF Tick, Excuse, Types, PageT, Pages
  <2>2. Keeps BY <1>14, <2>1 DEF Tick, Keeps, Storing, Filing, Types, RestT, Version
  <2> QED BY <1>0, <2>2, KeepsSeals
<1>15. CASE UNCHANGED vars
  <2>1. Keeps BY <1>15 DEF vars, Keeps, Storing, Filing, Types, RestT, Version
  <2> QED BY <1>0, <2>1, KeepsSeals
<1> QED
  BY <1>1, <1>2, <1>3, <1>4, <1>5, <1>6, <1>7, <1>8, <1>9, <1>10, <1>11, <1>12,
     <1>13, <1>14, <1>15 DEF Next, FillStep, ChangeStep, Hit

\* Sealed, of the state after a step.
SealedNext ==
  /\ \A i \in Index : SealsNext(i, swept'[i], {})
  /\ \A w \in Changer : change'[w] # None /\ change'[w].seen # None =>
       SealsNext(change'[w].seen[1], change'[w].seen[2], change'[w].keys)

\* Every invalidation, done or half done, leaves nothing older unexcused.
LEMMA SealedStep ==
  ASSUME Types, Reached, Sealed, [Next]_vars PROVE Sealed'
<1> SUFFICES SealedNext BY DEF SealedNext, SealsNext, Sealed, Seals
<1>00. Types' BY TypesStep
<1>0. /\ \A i \in Index : SealsNext(i, swept[i], {})
      /\ \A w \in Changer : change[w] # None /\ change[w].seen # None =>
           SealsNext(change[w].seen[1], change[w].seen[2], change[w].keys)
  <2>1. \A i \in Index : swept[i] \in Nat BY DEF Types, RestT, Version
  <2>2. \A w \in Changer : change[w] # None /\ change[w].seen # None =>
          change[w].seen[1] \in Index /\ change[w].seen[2] \in Nat
    BY DEF Types, ChangeT, Changes, Version
  <2> QED BY <2>1, <2>2, SealsStep DEF Sealed
<1>1. ASSUME NEW r \in Reader, NEW p \in Page, Miss(r, p) \/ GetFails(r, p)
   PROVE SealedNext
  <2>1. swept' = swept BY <1>1 DEF Miss, GetFails, Read
  <2>2. \A w \in Changer : change'[w] # None /\ change'[w].seen # None =>
          change[w] # None /\ change[w].seen = change'[w].seen /\ change[w].keys = change'[w].keys
    BY <1>1 DEF Miss, GetFails, Read
  <2> QED BY <1>0, <1>00, <2>1, <2>2 DEF SealedNext
<1>2. ASSUME NEW r \in Reader, Setex(r) PROVE SealedNext
  <2>1. swept' = swept BY <1>2 DEF Setex
  <2>2. \A w \in Changer : change'[w] # None /\ change'[w].seen # None =>
          change[w] # None /\ change[w].seen = change'[w].seen /\ change[w].keys = change'[w].keys
    BY <1>2 DEF Setex
  <2> QED BY <1>0, <1>00, <2>1, <2>2 DEF SealedNext
<1>3. ASSUME NEW r \in Reader, Sadd(r) PROVE SealedNext
  <2>1. swept' = swept BY <1>3 DEF Sadd
  <2>2. \A w \in Changer : change'[w] # None /\ change'[w].seen # None =>
          change[w] # None /\ change[w].seen = change'[w].seen /\ change[w].keys = change'[w].keys
    BY <1>3 DEF Sadd
  <2> QED BY <1>0, <1>00, <2>1, <2>2 DEF SealedNext
<1>4. ASSUME NEW r \in Reader, Expire(r) PROVE SealedNext
  <2>1. swept' = swept BY <1>4 DEF Expire
  <2>2. \A w \in Changer : change'[w] # None /\ change'[w].seen # None =>
          change[w] # None /\ change[w].seen = change'[w].seen /\ change[w].keys = change'[w].keys
    BY <1>4 DEF Expire
  <2> QED BY <1>0, <1>00, <2>1, <2>2 DEF SealedNext
<1>5. ASSUME NEW r \in Reader, FillFails(r) PROVE SealedNext
  <2>1. swept' = swept BY <1>5 DEF FillFails
  <2>2. \A w \in Changer : change'[w] # None /\ change'[w].seen # None =>
          change[w] # None /\ change[w].seen = change'[w].seen /\ change[w].keys = change'[w].keys
    BY <1>5 DEF FillFails
  <2> QED BY <1>0, <1>00, <2>1, <2>2 DEF SealedNext
<1>6. ASSUME NEW w \in Changer, NEW kind \in Kinds, NEW on \in Scope(kind),
   Begin(w, kind, on) PROVE SealedNext
  <2>1. swept' = swept BY <1>6 DEF Begin
  <2>2. \A u \in Changer : change'[u] # None /\ change'[u].seen # None =>
          change'[u] = change[u] /\ u # w
    BY <1>6 DEF Begin, Types, ChangeT
  <2> QED BY <1>0, <1>00, <2>1, <2>2 DEF SealedNext
<1>7. ASSUME NEW w \in Changer, Commit(w) PROVE SealedNext
  <2>1. swept' = swept BY <1>7 DEF Commit
  <2>2. change[w] \in Changes BY <1>7 DEF Commit, Types, ChangeT
  <2>3. change'[w].seen = change[w].seen /\ change'[w].keys = change[w].keys
    BY <1>7, <2>2 DEF Commit, Types, ChangeT, Changes
  <2>4. \A u \in Changer \ {w} : change'[u] = change[u]
    BY <1>7 DEF Commit, Types, ChangeT
  <2>5. change[w] # None BY <1>7 DEF Commit
  <2> QED BY <1>0, <1>00, <2>1, <2>3, <2>4, <2>5 DEF SealedNext
<1>8. ASSUME NEW w \in Changer, Rollback(w) PROVE SealedNext
  <2>1. swept' = swept BY <1>8 DEF Rollback
  <2>2. \A u \in Changer : change'[u] # None /\ change'[u].seen # None =>
          change'[u] = change[u] /\ u # w
    BY <1>8 DEF Rollback, Types, ChangeT
  <2> QED BY <1>0, <1>00, <2>1, <2>2 DEF SealedNext
<1>9. ASSUME NEW w \in Changer, NEW i \in Index, Scan(w, i) PROVE SealedNext
  <2>1. swept' = swept BY <1>9 DEF Scan
  <2>2. \A u \in Changer \ {w} : change'[u] = change[u]
    BY <1>9 DEF Scan, Types, ChangeT
  <2>3. change[w] \in Changes BY <1>9 DEF Scan, Invalidating, Types, ChangeT
  <2>4. change'[w].seen = change[w].seen /\ change'[w].keys = change[w].keys
    BY <1>9, <2>3 DEF Scan, Types, ChangeT, Changes
  <2>5. change[w] # None BY <1>9 DEF Scan, Invalidating
  <2> QED BY <1>0, <1>00, <2>1, <2>2, <2>4, <2>5 DEF SealedNext
<1>10. ASSUME NEW w \in Changer, NEW i \in Index, FindsNone(w, i) PROVE
   SealedNext
  <2>1. ChangeT /\ change[w] # None BY <1>10 DEF FindsNone, Invalidating, Types
  <2>2. /\ \A u \in Changer \ {w} : change'[u] = change[u]
        /\ change'[w] # None => change'[w].seen = None
    BY <1>10, <2>1, DoneFacts DEF FindsNone
  <2>3. SealsNext(i, truth[i], {})
    <3>1. Missed({i}) /\ truth' = truth /\ page' = page /\ index[i] = {}
      BY <1>10 DEF FindsNone, store
    <3> QED BY <1>00, <3>1, MissedSeals
  <2>4. \A j \in Index : swept'[j] = swept[j] \/ (j = i /\ swept'[j] = truth[i])
    BY <1>10 DEF FindsNone, Done
  <2> QED BY <1>0, <1>00, <2>2, <2>3, <2>4 DEF SealedNext
<1>11. ASSUME NEW w \in Changer, NEW i \in Index, Smembers(w, i) PROVE
   SealedNext
  <2>1. swept' = swept BY <1>11 DEF Smembers
  <2>2. \A u \in Changer \ {w} : change'[u] = change[u]
    BY <1>11 DEF Smembers, Types, ChangeT
  <2>3. change'[w].seen = <<i, truth[i]>> /\ change'[w].keys = index[i]
    <3>1. change[w] \in Changes BY <1>11 DEF Smembers, Invalidating, Types, ChangeT
    <3>2. change'[w] = [change[w] EXCEPT !.keys = index[i], !.seen = <<i, truth[i]>>]
      BY <1>11 DEF Smembers, Types, ChangeT
    <3> QED BY <3>1, <3>2 DEF Changes
  <2>4. SealsNext(i, truth[i], index[i])
    <3>1. Missed({i}) /\ truth' = truth /\ page' = page BY <1>11 DEF Smembers, store
    <3> QED BY <1>00, <3>1, MissedSeals
  <2>5. change'[w].seen[1] = i /\ change'[w].seen[2] = truth[i] BY <2>3
  <2> QED BY <1>0, <1>00, <2>1, <2>2, <2>3, <2>4, <2>5 DEF SealedNext
<1>12. ASSUME NEW w \in Changer, Del(w) PROVE SealedNext
  <2>1. ChangeT /\ change[w] # None /\ change[w].seen # None
    BY <1>12 DEF Del, Invalidating, Types
  <2> DEFINE i == change[w].seen[1]
             v == change[w].seen[2]
  <2>2. i \in Index /\ v \in Nat
    BY <2>1 DEF ChangeT, Changes, Version
  <2>3. /\ \A u \in Changer \ {w} : change'[u] = change[u]
        /\ change'[w] # None => change'[w].seen = None
    BY <1>12, <2>1, DoneFacts DEF Del
  <2>4. SealsNext(i, v, change[w].keys) BY <1>0, <2>1
  <2>5. \A p \in change[w].keys : p \in Page => page'[p] = None BY <1>12 DEF Del
  <2>6. SealsNext(i, v, {}) BY <2>4, <2>5 DEF SealsNext
  <2>7. \A j \in Index : swept'[j] = swept[j] \/ (j = i /\ swept'[j] = v)
    BY <1>12 DEF Del, Done
  <2> HIDE DEF i, v
  <2> QED BY <1>0, <1>00, <2>3, <2>6, <2>7 DEF SealedNext
<1>13. ASSUME NEW w \in Changer, InvalidationFails(w) PROVE SealedNext
  <2>1. ChangeT /\ change[w] # None BY <1>13 DEF InvalidationFails, Invalidating, Types
  <2>2. /\ \A u \in Changer \ {w} : change'[u] = change[u]
        /\ change'[w] # None => change'[w].seen = None
    <3>1. PICK on \in SUBSET change[w].todo : Done(w, on, [j \in {} |-> 0])
      BY <1>13 DEF InvalidationFails
    <3> QED BY <2>1, <3>1, DoneFacts
  <2>3. \A j \in Index : swept'[j] = swept[j] BY <1>13 DEF InvalidationFails, Done
  <2> QED BY <1>0, <1>00, <2>2, <2>3 DEF SealedNext
<1>14. CASE Tick
  <2>1. swept' = swept BY <1>14 DEF Tick
  <2>2. \A w \in Changer : change'[w] # None /\ change'[w].seen # None =>
          change[w] # None /\ change[w].seen = change'[w].seen /\ change[w].keys = change'[w].keys
    BY <1>14 DEF Tick
  <2> QED BY <1>0, <1>00, <2>1, <2>2 DEF SealedNext
<1>15. CASE UNCHANGED vars
  <2>1. swept' = swept BY <1>15 DEF vars
  <2>2. \A w \in Changer : change'[w] # None /\ change'[w].seen # None =>
          change[w] # None /\ change[w].seen = change'[w].seen /\ change[w].keys = change'[w].keys
    BY <1>15 DEF vars
  <2> QED BY <1>0, <1>00, <2>1, <2>2 DEF SealedNext
<1> QED
  BY <1>1, <1>2, <1>3, <1>4, <1>5, <1>6, <1>7, <1>8, <1>9, <1>10, <1>11, <1>12,
     <1>13, <1>14, <1>15 DEF Next, FillStep, ChangeStep, Hit

-----------------------------------------------------------------------------
\* The cache is empty and nothing is under way.
LEMMA InitIInv == Init => IInv
<1> SUFFICES ASSUME Init PROVE IInv OBVIOUS
<1>1. PageT BY DEF Init, PageT
<1>2. IndexT BY ConstantsAssumption DEF Init, IndexT, Lives
<1>3. FillT BY DEF Init, FillT, Filing
<1>4. ChangeT BY DEF Init, ChangeT
<1>5. RestT BY ConstantsAssumption DEF Init, RestT, Version
<1>6. Types BY <1>1, <1>2, <1>3, <1>4, <1>5 DEF Types
<1>7. Reached /\ Outlived BY DEF Init, Reached, Outlived
<1>8. Sealed BY DEF Init, Sealed, Seals, Storing, Filing
<1> QED BY <1>6, <1>7, <1>8 DEF IInv

\* The inductive invariant holds throughout.
THEOREM Inductive == Spec => []IInv
<1>1. Init => IInv BY InitIInv
<1>2. IInv /\ [Next]_vars => IInv'
  <2> SUFFICES ASSUME IInv, [Next]_vars PROVE IInv' OBVIOUS
  <2>1. Types BY DEF IInv
  <2>2. Types' BY <2>1, TypesStep
  <2>3. Reached' /\ Outlived' BY <2>1, SoundStep DEF IInv
  <2>4. Sealed' BY <2>1, SealedStep DEF IInv
  <2> QED BY <2>2, <2>3, <2>4 DEF IInv
<1> QED BY <1>1, <1>2, PTL DEF Spec

\* query-cache.ts: the cache, the filings and the changes stay well typed, and
\* an index that is gone has no life left.
THEOREM TypeCorrect == Spec => []TypeOK
<1>1. IInv => TypeOK BY TypesAre DEF IInv
<1> QED BY <1>1, Inductive, PTL

\* setQueryCache: however filings, invalidations, expiry and failures interleave,
\* a cached page is in its indexes but for the exceptions named.
THEOREM PagesAreReachable == Spec => []PageReachable
<1>1. ASSUME IInv PROVE PageReachable
  <2>1. FillT BY <1>1 DEF IInv, Types
  <2>2. \A p, i : ToAdd(p, i) => Underway(p, i)
    BY <2>1, FilingFacts DEF ToAdd, Underway
  <2> QED BY <1>1, <2>2 DEF IInv, Reached, PageReachable
<1> QED BY <1>1, Inductive, PTL

\* invalidateQueryCache: once it is done, nothing older is cached but what was
\* being filed or could not be reached.
THEOREM StalePagesHaveACause == Spec => []StaleExplained
<1>1. ASSUME IInv PROVE StaleExplained
  <2> SUFFICES ASSUME NEW p \in Page, page[p] # None, NEW i \in Filed(p),
                      page[p].ver[i] < swept[i]
               PROVE  i \in excuse[p]
    BY DEF StaleExplained
  <2>1. i \in Index BY OrderFacts
  <2> QED BY <1>1, <2>1 DEF IInv, Sealed, Seals
<1> QED BY <1>1, Inductive, PTL

=============================================================================
