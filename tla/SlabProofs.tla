------------------------------ MODULE SlabProofs ------------------------------
(***************************************************************************)
(* For any number of processors, caches, pages and objects: the lock of a  *)
(* cache excludes, and until the buddy system has no page left an object   *)
(* is in one place only, a slab about to give an object has one, and no    *)
(* cache has two partial slabs.                                            *)
(*                                                                         *)
(* Once cache_grow has been given PFN_NOTFOUND for a page, a slab can be   *)
(* made a second time over objects callers hold; what is proved of objects *)
(* is proved under owner[Bogus] = NoCache: what is no slab after a step    *)
(* was none before it.                                                     *)
(***************************************************************************)
EXTENDS Slab, FiniteSetTheorems, TLAPS

\* Who holds the lock, and that a CPU in a call has chosen a cache.
LockInv ==
  \A p \in CPUs :
    /\ pc[p] # "idle" => cachep[p] \in Caches
    /\ pc[p] \in Critical => lock[cachep[p]] = p

\* The locals are set where they are used, and callers hold objects of slabs.
LocalsInv ==
  /\ \A o \in live : owner[o[1]] # NoCache
  /\ \A p \in CPUs :
       /\ pc[p] = "grow" => slab[p] \in AllPages
       /\ pc[p] = "take" => slab[p] \in AllPages /\ owner[slab[p]] # NoCache
       /\ pc[p] \in {"free", "put", "return"} => obj[p] \in Objects /\ owner[obj[p][1]] # NoCache

BaseInv == TypeOK /\ LockInv /\ LocalsInv

\* Pages on the buddy system's lists are no slabs; one CPU takes one at a time, for a
\* cache that has no slab to offer.
GrowInv ==
  /\ \A s \in pool : owner[s] = NoCache
  /\ \A s \in AllPages : owner[s] = NoCache => freelist[s] = {}
  /\ \A p \in CPUs : pc[p] = "grow" =>
       /\ slab[p] \in pool \cup {Bogus}
       /\ \A q \in CPUs : pc[q] = "grow" => p = q
  /\ \A p \in CPUs : pc[p] \in {"look", "grow"} =>
       \A s \in AllPages : owner[s] = cachep[p] => list[s] = "full"

Taking(s) == \E p \in CPUs : pc[p] = "take" /\ slab[p] = s

\* What is true of every slab, whoever holds its cache's lock.
SlabInv ==
  \A s \in AllPages : owner[s] # NoCache =>
    /\ nfree[s] = Cardinality(freelist[s])
    /\ nfree[s] + inuse[s] = ObjsPerPage
    /\ list[s] \in {"full", "partial", "free"}
    /\ list[s] = "full" => inuse[s] > 0
    /\ list[s] = "free" => inuse[s] = 0
    /\ list[s] = "partial" => nfree[s] > 0 /\ (inuse[s] > 0 \/ Taking(s))

\* A CPU works on slabs of the cache it has locked.
WorkInv ==
  \A p \in CPUs :
    /\ pc[p] = "take" => owner[slab[p]] = cachep[p] /\ list[slab[p]] = "partial"
    /\ pc[p] \in {"free", "put", "return"} => owner[obj[p][1]] = cachep[p]

ObjInv == GrowInv /\ SlabInv /\ WorkInv /\ ObjectsExclusive /\ AtMostOnePartial

IInv == BaseInv /\ (owner[Bogus] = NoCache => ObjInv)

-----------------------------------------------------------------------------
(* Free chains.                                                            *)

\* The length of a chain, and what taking an object and putting one back do to it.
LEMMA ChainLength ==
  ASSUME NEW S \in SUBSET Indices
  PROVE  /\ Cardinality(S) \in 0..ObjsPerPage
         /\ Cardinality(Indices) = ObjsPerPage
         /\ \A i \in S : Cardinality(S \ {i}) = Cardinality(S) - 1
         /\ \A i \in Indices \ S : /\ Cardinality(S \cup {i}) = Cardinality(S) + 1
                                   /\ Cardinality(S) < ObjsPerPage
<1>1. IsFiniteSet(Indices) /\ Cardinality(Indices) = ObjsPerPage
  BY FS_Interval, ObjsAssumption DEF Indices
<1>2. ASSUME NEW T \in SUBSET Indices
      PROVE  IsFiniteSet(T) /\ Cardinality(T) \in Nat /\ Cardinality(T) <= ObjsPerPage
  BY <1>1, FS_Subset, FS_CardinalityType
<1>3. Cardinality(S) \in 0..ObjsPerPage
  BY <1>2, ObjsAssumption
<1>4. ASSUME NEW i \in S PROVE Cardinality(S \ {i}) = Cardinality(S) - 1
  BY <1>2, FS_RemoveElement
<1>5. ASSUME NEW i \in Indices \ S
      PROVE  Cardinality(S \cup {i}) = Cardinality(S) + 1 /\ Cardinality(S) < ObjsPerPage
  <2>1. Cardinality(S \cup {i}) = Cardinality(S) + 1 BY <1>2, FS_AddElement
  <2>2. S \cup {i} \in SUBSET Indices OBVIOUS
  <2> QED BY <2>1, <2>2, <1>2, ObjsAssumption
<1> QED BY <1>1, <1>3, <1>4, <1>5

-----------------------------------------------------------------------------
(* Types, locks and locals.                                                *)

\* Init establishes the whole invariant.
LEMMA InitIInv == Init => IInv
<1> SUFFICES ASSUME Init PROVE IInv OBVIOUS
<1> USE DEF Init
<1>1. TypeOK BY DEF TypeOK, Lists, Locations
<1>2. LockInv /\ LocalsInv BY DEF LockInv, LocalsInv, Critical
<1>3. GrowInv BY DEF GrowInv, AllPages
<1>4. SlabInv /\ WorkInv BY DEF SlabInv, WorkInv
<1>5. ObjectsExclusive BY DEF ObjectsExclusive, Carries, Objects
<1>6. AtMostOnePartial BY DEF AtMostOnePartial, On
<1> QED BY <1>1, <1>2, <1>3, <1>4, <1>5, <1>6 DEF IInv, BaseInv, ObjInv

\* Each step of a call preserves types, locks and locals.
LEMMA StepBase ==
  ASSUME BaseInv, NEW p \in CPUs,
         \/ \E c \in Caches : Kmalloc(p, c)
         \/ \E o \in live : Kfree(p, o)
         \/ Acquire(p) \/ Holder(p)
  PROVE  BaseInv'
<1> USE DEF BaseInv, TypeOK, LockInv, LocalsInv, Critical, Goto, Return, slabs, Locations
<1>1. CASE \E c \in Caches : Kmalloc(p, c)
  BY <1>1 DEF Kmalloc
<1>2. CASE \E o \in live : Kfree(p, o)
  BY <1>2 DEF Kfree, Objects
<1>3. CASE Acquire(p)
  BY <1>3, CPUsAssumption DEF Acquire, Unlocked
<1>4. CASE PickSlab(p)
  BY <1>4, CachesAssumption DEF PickSlab, Usable, On, Lists
<1>5. CASE NoSlab(p)
  BY <1>5 DEF NoSlab
<1>6. CASE LookForPage(p)
  BY <1>6 DEF LookForPage, AllPages
<1>7. CASE TakePage(p)
  BY <1>7, ObjsAssumption, CachesAssumption DEF TakePage, PoolAfter, Chain, Lists
<1>8. CASE TakeObject(p)
  BY <1>8 DEF TakeObject, ListAfterTake, Lists, Objects
<1>9. CASE ReturnObject(p)
  BY <1>9 DEF ReturnObject, Released
<1>10. CASE PutObject(p)
  BY <1>10 DEF PutObject, ListAfterPut, Lists, Objects
<1>11. CASE Leave(p)
  BY <1>11 DEF Leave, Released
<1> QED BY <1>1, <1>2, <1>3, <1>4, <1>5, <1>6, <1>7, <1>8, <1>9, <1>10, <1>11 DEF Holder

\* A CPU outside kmalloc and kfree does nothing to the invariant.
LEMMA StutterIInv == IInv /\ UNCHANGED vars => IInv'
  BY DEF vars, IInv, BaseInv, TypeOK, LockInv, LocalsInv, ObjInv, GrowInv, SlabInv, Taking,
         WorkInv, ObjectsExclusive, Carries, AtMostOnePartial, On

\* Types, the lock's holder and the locals, without any assumption on the CPUs.
THEOREM Locking == Spec => []BaseInv
<1>1. Init => BaseInv BY InitIInv DEF IInv
<1>2. BaseInv /\ [Next]_vars => BaseInv'
  <2> SUFFICES ASSUME BaseInv, [Next]_vars PROVE BaseInv' OBVIOUS
  <2>1. CASE UNCHANGED vars
    BY <2>1 DEF vars, BaseInv, TypeOK, LockInv, LocalsInv
  <2>2. CASE Next
    BY <2>2, StepBase DEF Next
  <2> QED BY <2>1, <2>2
<1> QED BY <1>1, <1>2, PTL DEF Spec

\* Types are kept, whatever the CPUs do and whether or not pages run out.
THEOREM TypeCorrect == Spec => []TypeOK
<1>1. BaseInv => TypeOK BY DEF BaseInv
<1> QED BY <1>1, Locking, PTL

\* cachep->lock (slab.c) excludes.
THEOREM Exclusion == Spec => []MutualExclusion
<1>1. BaseInv => MutualExclusion BY DEF BaseInv, LockInv, MutualExclusion, Critical
<1> QED BY <1>1, Locking, PTL

-----------------------------------------------------------------------------
(* Objects.                                                                *)

\* Two CPUs in critical sections work on different caches.
LEMMA OtherCache ==
  ASSUME BaseInv, NEW p \in CPUs, NEW q \in CPUs, p # q,
         pc[p] \in Critical, pc[q] \in Critical
  PROVE  cachep[p] # cachep[q]
  BY DEF BaseInv, LockInv

\* Steps that change no slab: what is carried and what callers hold moves.
LEMMA KmallocObj ==
  ASSUME BaseInv, ObjInv, NEW p \in CPUs, NEW c \in Caches, Kmalloc(p, c)
  PROVE  ObjInv'
<1> USE DEF BaseInv, TypeOK, Kmalloc, Goto, slabs, ObjInv
<1>1. GrowInv' BY DEF GrowInv
<1>2. SlabInv' BY DEF SlabInv, Taking
<1>3. WorkInv' BY DEF WorkInv
<1>4. ObjectsExclusive' BY DEF ObjectsExclusive, Carries
<1>5. AtMostOnePartial' BY DEF AtMostOnePartial, On
<1> QED BY <1>1, <1>2, <1>3, <1>4, <1>5

\* kfree takes the object from the caller and carries it.
LEMMA KfreeObj ==
  ASSUME BaseInv, ObjInv, NEW p \in CPUs, NEW o \in live, Kfree(p, o)
  PROVE  ObjInv'
<1> USE DEF BaseInv, TypeOK, Kfree, Goto, slabs, ObjInv
<1>1. GrowInv' BY DEF GrowInv
<1>2. SlabInv' BY DEF SlabInv, Taking
<1>3. WorkInv' BY DEF WorkInv
<1>4. ObjectsExclusive' BY DEF ObjectsExclusive, Carries
<1>5. AtMostOnePartial' BY DEF AtMostOnePartial, On
<1> QED BY <1>1, <1>2, <1>3, <1>4, <1>5

\* Acquiring a lock moves nothing.
LEMMA AcquireObj ==
  ASSUME BaseInv, ObjInv, NEW p \in CPUs, Acquire(p)
  PROVE  ObjInv'
<1> USE DEF BaseInv, TypeOK, Acquire, Goto, slabs, ObjInv
<1>1. GrowInv' BY DEF GrowInv
<1>2. SlabInv' BY DEF SlabInv, Taking
<1>3. WorkInv' BY DEF WorkInv
<1>4. ObjectsExclusive' BY DEF ObjectsExclusive, Carries
<1>5. AtMostOnePartial' BY DEF AtMostOnePartial, On
<1> QED BY <1>1, <1>2, <1>3, <1>4, <1>5

\* A partial slab is chosen, or a free one made partial when there is none.
LEMMA PickSlabObj ==
  ASSUME BaseInv, ObjInv, NEW p \in CPUs, PickSlab(p)
  PROVE  ObjInv'
<1> USE DEF BaseInv, TypeOK, Goto, slabs, ObjInv
<1>1. PICK s \in Usable(cachep[p]) : /\ slab' = [slab EXCEPT ![p] = s]
                                     /\ list' = [list EXCEPT ![s] = "partial"]
  BY DEF PickSlab
<1>2. /\ pc[p] = "pick" /\ pc' = [pc EXCEPT ![p] = "take"]
      /\ UNCHANGED <<lock, owner, freelist, inuse, nfree, pool, cachep, obj, live>>
  BY DEF PickSlab
<1>3. s \in AllPages /\ owner[s] = cachep[p] /\ cachep[p] \in Caches /\ owner[s] # NoCache
  BY <1>1, <1>2, CachesAssumption DEF Usable, On, LockInv
<1>4. /\ list[s] \in {"partial", "free"}
      /\ list[s] = "free" => On(cachep[p], "partial") = {}
  BY <1>1 DEF Usable, On
<1>5. \A q \in CPUs : q # p /\ pc[q] \in Critical => cachep[q] # cachep[p]
  BY <1>2, OtherCache DEF Critical
<1>6. GrowInv'
  BY <1>1, <1>2, <1>3, <1>5 DEF GrowInv, Critical
<1>7. SlabInv'
  <2>1. ASSUME NEW t \in AllPages, Taking(t) PROVE Taking(t)'
    BY <1>1, <1>2, <2>1 DEF Taking
  <2>2. Taking(s)' BY <1>1, <1>2 DEF Taking
  <2>3. nfree[s] > 0
    BY <1>3, <1>4, ObjsAssumption DEF SlabInv
  <2> QED BY <1>1, <1>2, <1>3, <2>1, <2>2, <2>3 DEF SlabInv
<1>8. WorkInv' BY <1>1, <1>2, <1>3 DEF WorkInv, LocalsInv
<1>9. ObjectsExclusive' BY <1>2 DEF ObjectsExclusive, Carries
<1>10. AtMostOnePartial'
  BY <1>1, <1>2, <1>3, <1>4 DEF AtMostOnePartial, On
<1> QED BY <1>6, <1>7, <1>8, <1>9, <1>10

\* No slab to take from: every slab of the cache is on its full list.
LEMMA NoSlabObj ==
  ASSUME BaseInv, ObjInv, NEW p \in CPUs, NoSlab(p)
  PROVE  ObjInv'
<1> USE DEF BaseInv, TypeOK, Goto, slabs, ObjInv, NoSlab
<1>1. \A s \in AllPages : owner[s] = cachep[p] => list[s] = "full"
  <2>1. On(cachep[p], "partial") = {} /\ On(cachep[p], "free") = {}
    BY DEF Usable
  <2>2. cachep[p] # NoCache BY CachesAssumption DEF LockInv
  <2> QED BY <2>1, <2>2 DEF On, SlabInv
<1>2. GrowInv' BY <1>1 DEF GrowInv
<1>3. SlabInv' BY DEF SlabInv, Taking
<1>4. WorkInv' BY DEF WorkInv
<1>5. ObjectsExclusive' BY DEF ObjectsExclusive, Carries
<1>6. AtMostOnePartial' BY DEF AtMostOnePartial, On
<1> QED BY <1>2, <1>3, <1>4, <1>5, <1>6

\* A page is chosen, while no other CPU chooses one.
LEMMA LookForPageObj ==
  ASSUME SerialGrow, BaseInv, ObjInv, NEW p \in CPUs, LookForPage(p)
  PROVE  ObjInv'
<1> USE DEF BaseInv, TypeOK, Goto, slabs, ObjInv, LookForPage
<1>1. GrowInv' BY DEF GrowInv
<1>2. SlabInv' BY DEF SlabInv, Taking
<1>3. WorkInv' BY DEF WorkInv
<1>4. ObjectsExclusive' BY DEF ObjectsExclusive, Carries
<1>5. AtMostOnePartial' BY DEF AtMostOnePartial, On
<1> QED BY <1>1, <1>2, <1>3, <1>4, <1>5

\* The page comes off the buddy system's list and becomes a slab of a cache that had
\* none to offer.
LEMMA TakePageObj ==
  ASSUME BaseInv, ObjInv, NEW p \in CPUs, TakePage(p), owner'[Bogus] = NoCache
  PROVE  ObjInv'
<1> USE DEF BaseInv, TypeOK, ObjInv
<1> DEFINE s == slab[p]
<1>1. /\ pc[p] = "grow" /\ pc' = [pc EXCEPT ![p] = "take"]
      /\ pool' = pool \ {s}
      /\ owner' = [owner EXCEPT ![s] = cachep[p]]
      /\ freelist' = [freelist EXCEPT ![s] = Indices]
      /\ inuse' = [inuse EXCEPT ![s] = 0]
      /\ nfree' = [nfree EXCEPT ![s] = ObjsPerPage]
      /\ list' = [list EXCEPT ![s] = "partial"]
      /\ UNCHANGED <<lock, cachep, slab, obj, live>>
  BY DEF TakePage, Goto, PoolAfter, Chain
<1>2. cachep[p] \in Caches /\ cachep[p] # NoCache
  BY <1>1, CachesAssumption DEF LockInv
<1>3. s \in pool /\ s \in AllPages /\ owner[s] = NoCache /\ freelist[s] = {}
  BY <1>1, <1>2 DEF GrowInv, LocalsInv
<1> HIDE DEF s
<1>4. \A q \in CPUs : q # p /\ pc[q] \in Critical => cachep[q] # cachep[p]
  BY <1>1, OtherCache DEF Critical
<1>5. GrowInv'
  BY <1>1, <1>2, <1>3, <1>4 DEF GrowInv, Critical, s
<1>6. SlabInv'
  <2>1. ASSUME NEW t \in AllPages, Taking(t) PROVE Taking(t)'
    BY <1>1, <2>1 DEF Taking
  <2>2. ASSUME NEW t \in AllPages, t = s PROVE Taking(t)'
    BY <1>1, <2>2 DEF Taking, s
  <2>3. Cardinality(Indices) = ObjsPerPage
    BY ChainLength
  <2>4. /\ nfree'[s] = ObjsPerPage /\ inuse'[s] = 0 /\ freelist'[s] = Indices
        /\ list'[s] = "partial"
    BY <1>1, <1>3
  <2>5. nfree'[s] + inuse'[s] = ObjsPerPage /\ nfree'[s] > 0
    BY <2>4, ObjsAssumption
  <2>6. ASSUME NEW t \in AllPages, t # s
        PROVE  /\ nfree'[t] = nfree[t] /\ inuse'[t] = inuse[t]
               /\ freelist'[t] = freelist[t] /\ list'[t] = list[t] /\ owner'[t] = owner[t]
    BY <1>1, <2>6
  <2> SUFFICES ASSUME NEW t \in AllPages, owner'[t] # NoCache
               PROVE  /\ nfree'[t] = Cardinality(freelist'[t])
                      /\ nfree'[t] + inuse'[t] = ObjsPerPage
                      /\ list'[t] \in {"full", "partial", "free"}
                      /\ list'[t] = "full" => inuse'[t] > 0
                      /\ list'[t] = "free" => inuse'[t] = 0
                      /\ list'[t] = "partial" => nfree'[t] > 0 /\ (inuse'[t] > 0 \/ Taking(t)')
    BY DEF SlabInv
  <2>7. CASE t = s
    BY <2>2, <2>3, <2>4, <2>5, <2>7
  <2>8. CASE t # s
    BY <2>1, <2>6, <2>8 DEF SlabInv
  <2> QED BY <2>7, <2>8
<1>7. WorkInv'
  <2>1. ASSUME NEW q \in CPUs, q # p, pc[q] = "take" PROVE slab[q] # s
    BY <1>3, <2>1 DEF LocalsInv
  <2>2. ASSUME NEW q \in CPUs, pc[q] \in {"free", "put", "return"} PROVE obj[q][1] # s
    BY <1>3, <2>2 DEF LocalsInv
  <2> QED BY <1>1, <1>3, <2>1, <2>2 DEF WorkInv, LocalsInv, Objects, s
<1>8. ObjectsExclusive'
  <2>1. \A o \in live : o[1] # s
    BY <1>3 DEF LocalsInv
  <2>2. ASSUME NEW q \in CPUs, pc[q] \in {"free", "put", "return"} PROVE obj[q][1] # s
    BY <1>3, <2>2 DEF LocalsInv
  <2>3. \A o \in Objects, q \in CPUs : Carries(q, o)' <=> Carries(q, o)
    BY <1>1 DEF Carries
  <2>4. \A o \in Objects : o[1] \in AllPages /\ o[2] \in Indices
    BY DEF Objects
  <2> QED BY <1>1, <1>3, <2>1, <2>2, <2>3, <2>4 DEF ObjectsExclusive, Carries
<1>9. AtMostOnePartial'
  BY <1>1, <1>2, <1>3 DEF AtMostOnePartial, On, GrowInv
<1> QED BY <1>5, <1>6, <1>7, <1>8, <1>9

\* The first object of the chain leaves it, and with the last one the slab its list.
LEMMA TakeObjectObj ==
  ASSUME BaseInv, ObjInv, NEW p \in CPUs, TakeObject(p)
  PROVE  ObjInv'
<1> USE DEF BaseInv, TypeOK, ObjInv
<1> DEFINE s == slab[p]
<1>1. PICK i \in freelist[s] : /\ obj' = [obj EXCEPT ![p] = <<s, i>>]
                               /\ freelist' = [freelist EXCEPT ![s] = @ \ {i}]
  BY DEF TakeObject
<1>2. /\ pc[p] = "take" /\ pc' = [pc EXCEPT ![p] = "return"]
      /\ inuse' = [inuse EXCEPT ![s] = @ + 1]
      /\ nfree' = [nfree EXCEPT ![s] = @ - 1]
      /\ list' = [list EXCEPT ![s] = ListAfterTake(s)]
      /\ UNCHANGED <<lock, owner, pool, cachep, slab, live>>
  BY DEF TakeObject, Goto
<1>3. /\ s \in AllPages /\ owner[s] = cachep[p] /\ owner[s] # NoCache
      /\ list[s] = "partial" /\ i \in Indices
  BY <1>1, <1>2 DEF WorkInv, LocalsInv
<1> HIDE DEF s
<1>4. \A q \in CPUs : q # p /\ pc[q] \in Critical => cachep[q] # cachep[p]
  BY <1>2, OtherCache DEF Critical
<1>5. GrowInv'
  BY <1>1, <1>2, <1>3, <1>4 DEF GrowInv, Critical
<1>6. SlabInv'
  <2>1. ASSUME NEW t \in AllPages, t # s, Taking(t) PROVE Taking(t)'
    BY <1>2, <2>1 DEF Taking, s
  <2>2. /\ nfree[s] = Cardinality(freelist[s]) /\ nfree[s] + inuse[s] = ObjsPerPage
        /\ nfree[s] > 0
    BY <1>3 DEF SlabInv
  <2>3. /\ Cardinality(freelist[s] \ {i}) = nfree[s] - 1
        /\ nfree[s] \in 0..ObjsPerPage
    BY <1>1, <1>3, <2>2, ChainLength
  <2>4. /\ nfree'[s] = nfree[s] - 1 /\ inuse'[s] = inuse[s] + 1
        /\ freelist'[s] = freelist[s] \ {i}
        /\ list'[s] = IF nfree[s] = 1 THEN "full" ELSE "partial"
    BY <1>1, <1>2, <1>3 DEF ListAfterTake
  <2>5. nfree'[s] + inuse'[s] = ObjsPerPage /\ inuse'[s] > 0 /\ (list'[s] = "partial" => nfree'[s] > 0)
    BY <1>3, <2>2, <2>3, <2>4, ObjsAssumption
  <2> QED BY <1>1, <1>2, <1>3, <2>1, <2>2, <2>3, <2>4, <2>5 DEF SlabInv
<1>7. WorkInv'
  <2>1. ASSUME NEW q \in CPUs, q # p, pc[q] = "take" PROVE slab[q] # s
    BY <1>3, <1>4, <2>1 DEF WorkInv, Critical
  <2> QED BY <1>1, <1>2, <1>3, <2>1 DEF WorkInv
<1>8. ObjectsExclusive'
  <2>1. <<s, i>> \in Objects /\ <<s, i>>[1] = s /\ <<s, i>>[2] = i
    BY <1>3 DEF Objects
  <2>2. <<s, i>> \notin live /\ \A q \in CPUs : ~Carries(q, <<s, i>>)
    BY <1>1, <2>1 DEF ObjectsExclusive
  <2>3. \A o \in Objects, q \in CPUs :
          Carries(q, o)' <=> Carries(q, o) \/ (q = p /\ o = <<s, i>>)
    BY <1>1, <1>2, <2>1 DEF Carries
  <2>4. \A o \in Objects : o[2] \in freelist'[o[1]] <=> o[2] \in freelist[o[1]] /\ o # <<s, i>>
    BY <1>1, <1>3, <2>1 DEF Objects
  <2> QED BY <1>2, <2>1, <2>2, <2>3, <2>4 DEF ObjectsExclusive
<1>9. AtMostOnePartial'
  BY <1>2, <1>3 DEF AtMostOnePartial, On, ListAfterTake
<1> QED BY <1>5, <1>6, <1>7, <1>8, <1>9

\* The object goes to the caller.
LEMMA ReturnObjectObj ==
  ASSUME BaseInv, ObjInv, NEW p \in CPUs, ReturnObject(p)
  PROVE  ObjInv'
<1> USE DEF BaseInv, TypeOK, ObjInv, ReturnObject, Return, Goto, slabs
<1>1. GrowInv' BY DEF GrowInv
<1>2. SlabInv' BY DEF SlabInv, Taking
<1>3. WorkInv' BY DEF WorkInv
<1>4. ObjectsExclusive'
  <2>1. \A o \in Objects, q \in CPUs : Carries(q, o)' <=> Carries(q, o) /\ q # p
    BY DEF Carries
  <2>2. Carries(p, obj[p]) /\ obj[p] \in Objects
    BY DEF Carries, LocalsInv
  <2>3. \A o \in Objects : Carries(p, o) => o = obj[p]
    BY DEF Carries
  <2> QED BY <2>1, <2>2, <2>3 DEF ObjectsExclusive
<1>5. AtMostOnePartial' BY DEF AtMostOnePartial, On
<1> QED BY <1>1, <1>2, <1>3, <1>4, <1>5

\* The object goes back to its chain, and with the last one the slab to its list.
LEMMA PutObjectObj ==
  ASSUME BaseInv, ObjInv, NEW p \in CPUs, PutObject(p)
  PROVE  ObjInv'
<1> USE DEF BaseInv, TypeOK, ObjInv
<1> DEFINE s == obj[p][1]
           i == obj[p][2]
<1>1. /\ pc[p] = "put" /\ pc' = [pc EXCEPT ![p] = "leave"]
      /\ slab' = [slab EXCEPT ![p] = s]
      /\ freelist' = [freelist EXCEPT ![s] = @ \cup {i}]
      /\ inuse' = [inuse EXCEPT ![s] = @ - 1]
      /\ nfree' = [nfree EXCEPT ![s] = @ + 1]
      /\ list' = [list EXCEPT ![s] = ListAfterPut(s)]
      /\ UNCHANGED <<lock, owner, pool, cachep, obj, live>>
  BY DEF PutObject, Goto
<1>2. obj[p] \in Objects /\ s \in AllPages /\ i \in Indices /\ obj[p] = <<s, i>>
  BY <1>1 DEF LocalsInv, Objects
<1>3. owner[s] = cachep[p] /\ owner[s] # NoCache /\ Carries(p, obj[p])
  BY <1>1 DEF WorkInv, LocalsInv, Carries
<1>4. i \notin freelist[s]
  BY <1>2, <1>3 DEF ObjectsExclusive
<1> HIDE DEF s, i
<1>5. \A q \in CPUs : q # p /\ pc[q] \in Critical => cachep[q] # cachep[p]
  BY <1>1, OtherCache DEF Critical
<1>6. /\ nfree[s] = Cardinality(freelist[s]) /\ nfree[s] + inuse[s] = ObjsPerPage
      /\ list[s] \in {"full", "partial", "free"}
      /\ list[s] = "free" => inuse[s] = 0
  BY <1>2, <1>3 DEF SlabInv
<1>7. /\ Cardinality(freelist[s] \cup {i}) = nfree[s] + 1
      /\ nfree[s] \in 0..ObjsPerPage /\ nfree[s] < ObjsPerPage
  BY <1>2, <1>4, <1>6, ChainLength
<1>8. inuse[s] > 0 /\ list[s] # "free"
  BY <1>2, <1>6, <1>7, ObjsAssumption
<1>9. GrowInv'
  BY <1>1, <1>2, <1>3, <1>5 DEF GrowInv, Critical
<1>10. SlabInv'
  <2>1. ASSUME NEW t \in AllPages, Taking(t) PROVE Taking(t)'
    BY <1>1, <2>1 DEF Taking
  <2>2. /\ nfree'[s] = nfree[s] + 1 /\ inuse'[s] = inuse[s] - 1
        /\ freelist'[s] = freelist[s] \cup {i}
        /\ list'[s] = IF inuse[s] = 1 THEN "free" ELSE list[s]
    BY <1>1, <1>2 DEF ListAfterPut
  <2>3. /\ nfree'[s] + inuse'[s] = ObjsPerPage /\ nfree'[s] > 0
        /\ list'[s] = "free" => inuse'[s] = 0
        /\ list'[s] # "free" => inuse'[s] > 0
    BY <1>2, <1>6, <1>7, <1>8, <2>2, ObjsAssumption
  <2> QED BY <1>1, <1>2, <1>6, <1>7, <1>8, <2>1, <2>2, <2>3 DEF SlabInv
<1>11. WorkInv'
  <2>1. ASSUME NEW q \in CPUs, pc[q] = "take" PROVE q # p /\ slab[q] # s
    BY <1>1, <1>3, <1>5, <2>1 DEF WorkInv, Critical
  <2> QED BY <1>1, <1>2, <2>1 DEF WorkInv
<1>12. ObjectsExclusive'
  <2>1. \A o \in Objects, q \in CPUs : Carries(q, o)' <=> Carries(q, o) /\ q # p
    BY <1>1 DEF Carries
  <2>2. \A o \in Objects : Carries(p, o) => o = <<s, i>>
    BY <1>2 DEF Carries
  <2>3. \A o \in Objects : o[2] \in freelist'[o[1]] <=> o[2] \in freelist[o[1]] \/ o = <<s, i>>
    BY <1>1, <1>2 DEF Objects
  <2> QED BY <1>1, <1>2, <1>3, <2>1, <2>2, <2>3, SMTT(20) DEF ObjectsExclusive
<1>13. AtMostOnePartial'
  BY <1>1, <1>2, <1>8 DEF AtMostOnePartial, On, ListAfterPut
<1> QED BY <1>9, <1>10, <1>11, <1>12, <1>13

\* The lock is released; nothing moves.
LEMMA LeaveObj ==
  ASSUME BaseInv, ObjInv, NEW p \in CPUs, Leave(p)
  PROVE  ObjInv'
<1> USE DEF BaseInv, TypeOK, ObjInv, Leave, Return, Goto, slabs
<1>1. GrowInv' BY DEF GrowInv
<1>2. SlabInv' BY DEF SlabInv, Taking
<1>3. WorkInv' BY DEF WorkInv
<1>4. ObjectsExclusive' BY DEF ObjectsExclusive, Carries
<1>5. AtMostOnePartial' BY DEF AtMostOnePartial, On
<1> QED BY <1>1, <1>2, <1>3, <1>4, <1>5

\* Once cache_grow has made a slab of the page that is none, it stays one.
LEMMA BogusStable ==
  ASSUME BaseInv, Next, owner'[Bogus] = NoCache
  PROVE  owner[Bogus] = NoCache
<1>1. PICK p \in CPUs : \/ \E c \in Caches : Kmalloc(p, c)
                        \/ \E o \in live : Kfree(p, o)
                        \/ Acquire(p) \/ Holder(p)
  BY DEF Next
<1>2. CASE TakePage(p)
  BY <1>2, CachesAssumption DEF BaseInv, TypeOK, LockInv, TakePage, AllPages
<1>3. CASE ~TakePage(p)
  BY <1>1, <1>3 DEF Holder, Kmalloc, Kfree, Acquire, PickSlab, NoSlab, LookForPage, TakeObject,
                    ReturnObject, PutObject, Leave, slabs
<1> QED BY <1>2, <1>3

\* Every step preserves the invariant, if no two CPUs take a page at once.
LEMMA NextIInv ==
  ASSUME SerialGrow, IInv, [Next]_vars
  PROVE  IInv'
<1>1. CASE UNCHANGED vars
  BY <1>1, StutterIInv
<1>2. CASE Next
  <2>1. BaseInv' BY <1>2, StepBase DEF Next, IInv
  <2>2. ASSUME owner'[Bogus] = NoCache PROVE ObjInv'
    <3>1. BaseInv /\ ObjInv BY <1>2, <2>2, BogusStable DEF IInv
    <3> QED BY <1>2, <2>2, <3>1, KmallocObj, KfreeObj, AcquireObj, PickSlabObj, NoSlabObj,
               LookForPageObj, TakePageObj, TakeObjectObj, ReturnObjectObj, PutObjectObj,
               LeaveObj DEF Next, Holder
  <2> QED BY <2>1, <2>2 DEF IInv
<1> QED BY <1>1, <1>2

\* The invariant holds throughout while one CPU at a time takes a page.
THEOREM Invariant ==
  ASSUME SerialGrow
  PROVE  Spec => []IInv
<1>1. IInv /\ [Next]_vars => IInv' BY NextIInv
<1> QED BY <1>1, InitIInv, PTL DEF Spec

\* What kmem_cache_alloc and kmem_cache_free (slab.c) rely on while a cache is unlocked.
LEMMA UnlockedSlabs == IInv /\ owner[Bogus] = NoCache => PartialHasRoom
<1> SUFFICES ASSUME BaseInv, SlabInv, WorkInv,
                    NEW s \in AllPages, owner[s] # NoCache, lock[owner[s]] = NoCPU
             PROVE  /\ nfree[s] = Cardinality(freelist[s])
                    /\ nfree[s] + inuse[s] = ObjsPerPage
                    /\ list[s] = "partial" => nfree[s] > 0 /\ inuse[s] > 0
                    /\ list[s] = "free" => inuse[s] = 0
                    /\ list[s] = "full" => inuse[s] > 0
  BY DEF IInv, ObjInv, PartialHasRoom
<1>1. ~Taking(s)
  BY CPUsAssumption DEF Taking, WorkInv, BaseInv, LockInv, Critical
<1> QED BY <1>1 DEF SlabInv

\* An object of kmalloc (slab.c) is in one place, until the buddy system is exhausted.
THEOREM NoObjectTwice ==
  ASSUME SerialGrow
  PROVE  Spec => [](owner[Bogus] = NoCache => ObjectsExclusive)
<1>1. IInv => (owner[Bogus] = NoCache => ObjectsExclusive) BY DEF IInv, ObjInv
<1> QED BY <1>1, Invariant, PTL

\* The slab kmem_cache_alloc (slab.c) takes an object from has one, and no cache has two
\* partial slabs, until then.
THEOREM SlabsAreRight ==
  ASSUME SerialGrow
  PROVE  Spec => [](owner[Bogus] = NoCache => SlabsRight)
<1>1. IInv => (owner[Bogus] = NoCache => SlabsRight)
  BY UnlockedSlabs DEF IInv, ObjInv, SlabsRight
<1> QED BY <1>1, Invariant, PTL

-----------------------------------------------------------------------------
(* Pages of caches, with the pool exhausted or not.                        *)

\* Pages on the buddy system's lists are no slabs, and one CPU takes one at a time.
OwnInv ==
  /\ \A s \in pool : owner[s] = NoCache
  /\ \A p \in CPUs : pc[p] = "grow" =>
       /\ slab[p] \in pool \cup {Bogus}
       /\ \A q \in CPUs : pc[q] = "grow" => p = q

\* Only cache_grow makes a slab, of the page it found on the lists.
LEMMA OwnStep ==
  ASSUME SerialGrow, BaseInv, OwnInv, [Next]_vars
  PROVE  /\ OwnInv'
         /\ \A s \in Pages : owner[s] # NoCache => owner'[s] = owner[s]
<1> USE DEF BaseInv, TypeOK
<1>1. CASE UNCHANGED vars
  BY <1>1 DEF vars, OwnInv
<1>2. ASSUME NEW p \in CPUs, LookForPage(p)
      PROVE  OwnInv' /\ owner' = owner
  <2>1. /\ pc[p] = "look" /\ \A q \in CPUs : pc[q] # "grow"
        /\ pc' = [pc EXCEPT ![p] = "grow"] /\ UNCHANGED <<owner, pool>>
    BY <1>2 DEF LookForPage, Goto, slabs
  <2>2. slab'[p] \in pool \cup {Bogus}
    BY <1>2 DEF LookForPage
  <2>3. \A q \in CPUs : pc'[q] = "grow" => q = p
    BY <2>1
  <2> QED BY <2>1, <2>2, <2>3 DEF OwnInv
<1>3. ASSUME NEW p \in CPUs, TakePage(p)
      PROVE  OwnInv' /\ \A s \in Pages : owner[s] # NoCache => owner'[s] = owner[s]
  <2>1. /\ pc[p] = "grow" /\ pc' = [pc EXCEPT ![p] = "take"]
        /\ pool' = pool \ {slab[p]} /\ owner' = [owner EXCEPT ![slab[p]] = cachep[p]]
    BY <1>3 DEF TakePage, Goto, PoolAfter
  <2>2. slab[p] \in pool \cup {Bogus} /\ \A q \in CPUs : pc[q] = "grow" => q = p
    BY <2>1 DEF OwnInv
  <2>3. \A q \in CPUs : pc'[q] # "grow"
    BY <2>1, <2>2
  <2>4. \A s \in AllPages : s # slab[p] => owner'[s] = owner[s]
    BY <2>1
  <2>5. \A s \in pool' : owner'[s] = NoCache
    BY <2>1, <2>4 DEF OwnInv, AllPages
  <2>6. \A s \in Pages : owner[s] # NoCache => s # slab[p]
    BY <2>2, PagesAssumption DEF OwnInv
  <2> QED BY <2>3, <2>4, <2>5, <2>6 DEF OwnInv, AllPages
<1>4. ASSUME NEW p \in CPUs,
             \/ \E c \in Caches : Kmalloc(p, c)
             \/ \E o \in live : Kfree(p, o)
             \/ Acquire(p) \/ PickSlab(p) \/ NoSlab(p) \/ TakeObject(p) \/ ReturnObject(p)
             \/ PutObject(p) \/ Leave(p)
      PROVE  OwnInv' /\ owner' = owner
  <2>1. pc[p] # "grow" /\ UNCHANGED <<owner, pool>>
    BY <1>4 DEF Kmalloc, Kfree, Acquire, PickSlab, NoSlab, TakeObject, ReturnObject, PutObject,
                Leave, slabs
  <2>2. \A q \in CPUs : pc'[q] = "grow" => pc[q] = "grow" /\ slab'[q] = slab[q]
    BY <1>4 DEF Kmalloc, Kfree, Acquire, PickSlab, NoSlab, TakeObject, ReturnObject, PutObject,
                Leave, Goto, Return
  <2> QED BY <2>1, <2>2 DEF OwnInv
<1> QED BY <1>1, <1>2, <1>3, <1>4 DEF Next, Holder

\* cache_grow (slab.c) gives no cache a page another cache has, whether the buddy system
\* has pages left or not, as long as one CPU at a time takes one.
THEOREM PagesKeepTheirCache == ASSUME SerialGrow PROVE Spec => OwnerIsFinal
<1>1. Init => OwnInv
  BY DEF Init, OwnInv, AllPages
<1>2. BaseInv /\ OwnInv /\ [Next]_vars
        => /\ OwnInv'
           /\ [\A s \in Pages : owner[s] # NoCache => owner'[s] = owner[s]]_vars
  BY OwnStep
<1>3. Spec => []BaseInv
  BY Locking
<1> QED BY <1>1, <1>2, <1>3, PTL DEF Spec, OwnerIsFinal
=============================================================================
