--------------------------------- MODULE Slab ---------------------------------
(***************************************************************************)
(* The object caches of kernel/mm/slab.c, called by several CPUs: kmalloc  *)
(* of at most MAX_KMALLOC_CACHE_SIZE bytes and kfree of such an object.    *)
(*                                                                         *)
(* A cache has one spinlock, held from the first look at its slab lists to *)
(* the last; an operation is cut where another CPU can come between: at    *)
(* the acquire, at the release, and at the two points where cache_grow     *)
(* reads and then updates the page allocator's lists, which no lock        *)
(* protects.  A slab's list node is on one list at a time, so the lists    *)
(* are kept as the list each slab is on; which of several slabs            *)
(* list_front meets first is left open.                                    *)
(***************************************************************************)
EXTENDS Integers, FiniteSets

CONSTANTS
  CPUs,           \* the processors that call kmalloc and kfree
  NoCPU,          \* the owner of a free lock
  Caches,         \* mm_kmalloc_caches
  NoCache,        \* the cache of a page that is no slab
  Pages,          \* the pages the buddy system has left for slabs
  Bogus,          \* what cache_grow takes for a page when the buddy system has
                  \* none: PFN_NOTFOUND << PGSHIFT, which is not 0
  ObjsPerPage,    \* objs_per_page
  NoPage,         \* the value of a local that is not set
  MaxHeld,        \* bound: the objects callers hold, ask for or give back
  SerialGrow      \* does no other CPU allocate a page while one does?

ASSUME CPUsAssumption == NoCPU \notin CPUs
ASSUME CachesAssumption == NoCache \notin Caches
ASSUME PagesAssumption == Bogus \notin Pages /\ NoPage \notin Pages \cup {Bogus}
ASSUME ObjsAssumption == ObjsPerPage \in Nat \ {0}
ASSUME MaxHeldAssumption == MaxHeld \in Nat
ASSUME SerialGrowAssumption == SerialGrow \in BOOLEAN

AllPages == Pages \cup {Bogus}
Indices  == 1..ObjsPerPage
NoObject == <<NoPage, 0>>
Objects  == AllPages \X Indices      \* an object: its page and its place in it
Lists    == {"none", "full", "partial", "free"}
Locations == {"idle", "alloc", "pick", "look", "grow", "take", "free", "put",
              "return", "leave"}

VARIABLES
  lock,           \* cache -> the CPU holding cachep->lock
  list,           \* page -> the list its slab is on
  owner,          \* page -> page->u.slab_cache, NoCache before the page is a slab
  freelist,       \* page -> the places chained from slab->freelist
  inuse,          \* page -> slab->inuse
  nfree,          \* page -> slab->free
  pool,           \* the pages on the buddy system's lists
  pc,             \* CPU -> where it is in kmalloc or kfree
  cachep, slab, obj,   \* CPU -> the locals of those names
  live            \* the objects callers hold

vars == <<lock, list, owner, freelist, inuse, nfree, pool, pc, cachep, slab, obj, live>>
slabs == <<list, owner, freelist, inuse, nfree>>

Init ==
  /\ lock = [c \in Caches |-> NoCPU]
  /\ list = [s \in AllPages |-> "none"]
  /\ owner = [s \in AllPages |-> NoCache]
  /\ freelist = [s \in AllPages |-> {}]
  /\ inuse = [s \in AllPages |-> 0]
  /\ nfree = [s \in AllPages |-> 0]
  /\ pool = Pages
  /\ pc = [p \in CPUs |-> "idle"]
  /\ cachep = [p \in CPUs |-> NoCache]
  /\ slab = [p \in CPUs |-> NoPage]
  /\ obj = [p \in CPUs |-> NoObject]
  /\ live = {}

Goto(p, l) == pc' = [pc EXCEPT ![p] = l]

\* kmem_cache_alloc or kmem_cache_free returns: its locals are gone.
Return(p) == /\ Goto(p, "idle")
             /\ cachep' = [cachep EXCEPT ![p] = NoCache]
             /\ slab' = [slab EXCEPT ![p] = NoPage]
             /\ obj' = [obj EXCEPT ![p] = NoObject]

\* The slabs of cache c on a list.
On(c, l) == {s \in AllPages : owner[s] = c /\ list[s] = l}

Busy == {p \in CPUs : pc[p] # "idle"}

-----------------------------------------------------------------------------
(* kmalloc and kmem_cache_alloc.                                           *)

\* kmalloc picks the cache for the size.
Kmalloc(p, c) ==
  /\ pc[p] = "idle"
  /\ Cardinality(live) + Cardinality(Busy) < MaxHeld
  /\ cachep' = [cachep EXCEPT ![p] = c]
  /\ Goto(p, "alloc")
  /\ UNCHANGED <<lock, slabs, pool, slab, obj, live>>

\* Slip: a lock that lets everyone in.
Barge(c) == TRUE
\* The atomic exchange of acquire reads 0.
Unlocked(c) == lock[c] = NoCPU

Acquire(p) ==
  /\ pc[p] \in {"alloc", "free"}
  /\ Unlocked(cachep[p])
  /\ lock' = [lock EXCEPT ![cachep[p]] = p]
  /\ Goto(p, IF pc[p] = "alloc" THEN "pick" ELSE "put")
  /\ UNCHANGED <<slabs, pool, cachep, slab, obj, live>>

\* The slabs list_front may return for an allocation without growing the cache.
Usable(c) == IF On(c, "partial") # {} THEN On(c, "partial") ELSE On(c, "free")

\* A partial slab, else a free one, which moves to the partial list.
PickSlab(p) ==
  /\ pc[p] = "pick"
  /\ \E s \in Usable(cachep[p]) :
       /\ slab' = [slab EXCEPT ![p] = s]
       /\ list' = [list EXCEPT ![s] = "partial"]
  /\ Goto(p, "take")
  /\ UNCHANGED <<lock, owner, freelist, inuse, nfree, pool, cachep, obj, live>>

NoSlab(p) ==
  /\ pc[p] = "pick"
  /\ Usable(cachep[p]) = {}
  /\ Goto(p, "look")
  /\ UNCHANGED <<lock, slabs, pool, cachep, slab, obj, live>>

\* cache_grow asks the buddy system for a page: buddy_page_alloc first reads the
\* front of a list ...
LookForPage(p) ==
  /\ pc[p] = "look"
  /\ SerialGrow => \A q \in CPUs : pc[q] # "grow"
  /\ \E s \in IF pool = {} THEN {Bogus} ELSE pool : slab' = [slab EXCEPT ![p] = s]
  /\ Goto(p, "grow")
  /\ UNCHANGED <<lock, slabs, pool, cachep, obj, live>>

\* Slips: the page stays on the buddy system's list, the chain is one too long.
PoolKept(s)  == pool
ChainTooLong == 0..ObjsPerPage
PoolAfter(s) == pool \ {s}
Chain        == Indices

\* ... and then takes it off.  The page becomes a slab with every object free, on
\* the partial list.
TakePage(p) ==
  /\ pc[p] = "grow"
  /\ LET s == slab[p]
     IN /\ pool' = PoolAfter(s)
        /\ owner' = [owner EXCEPT ![s] = cachep[p]]
        /\ freelist' = [freelist EXCEPT ![s] = Chain]
        /\ inuse' = [inuse EXCEPT ![s] = 0]
        /\ nfree' = [nfree EXCEPT ![s] = ObjsPerPage]
        /\ list' = [list EXCEPT ![s] = "partial"]
  /\ Goto(p, "take")
  /\ UNCHANGED <<lock, cachep, slab, obj, live>>

\* Slip: the slab that gave its last object stays where it is.
StayPartial(s) == "partial"
\* The list a slab belongs on once it has given an object.
ListAfterTake(s) == IF nfree[s] = 1 THEN "full" ELSE list[s]

\* The first object of the chain is taken.
TakeObject(p) ==
  /\ pc[p] = "take"
  /\ LET s == slab[p]
     IN /\ \E i \in freelist[s] :
             /\ obj' = [obj EXCEPT ![p] = <<s, i>>]
             /\ freelist' = [freelist EXCEPT ![s] = @ \ {i}]
        /\ inuse' = [inuse EXCEPT ![s] = @ + 1]
        /\ nfree' = [nfree EXCEPT ![s] = @ - 1]
        /\ list' = [list EXCEPT ![s] = ListAfterTake(s)]
  /\ Goto(p, "return")
  /\ UNCHANGED <<lock, owner, pool, cachep, slab, live>>

\* Slip: a return without release.
NotReleased(p) == lock
Released(p)    == [lock EXCEPT ![cachep[p]] = NoCPU]

ReturnObject(p) ==
  /\ pc[p] = "return"
  /\ lock' = Released(p)
  /\ live' = live \cup {obj[p]}
  /\ Return(p)
  /\ UNCHANGED <<slabs, pool>>

-----------------------------------------------------------------------------
(* kfree and kmem_cache_free.                                              *)

\* kfree finds the cache in the page structure, without a lock.
Kfree(p, o) ==
  /\ pc[p] = "idle"
  /\ live' = live \ {o}
  /\ obj' = [obj EXCEPT ![p] = o]
  /\ cachep' = [cachep EXCEPT ![p] = owner[o[1]]]
  /\ Goto(p, "free")
  /\ UNCHANGED <<lock, slabs, pool, slab>>

\* The list a slab belongs on once it has an object back.  A full slab stays on
\* slabs_full until its last object is back.
ListAfterPut(s) == IF inuse[s] = 1 THEN "free" ELSE list[s]

PutObject(p) ==
  /\ pc[p] = "put"
  /\ LET s == obj[p][1]
     IN /\ slab' = [slab EXCEPT ![p] = s]
        /\ freelist' = [freelist EXCEPT ![s] = @ \cup {obj[p][2]}]
        /\ inuse' = [inuse EXCEPT ![s] = @ - 1]
        /\ nfree' = [nfree EXCEPT ![s] = @ + 1]
        /\ list' = [list EXCEPT ![s] = ListAfterPut(s)]
  /\ Goto(p, "leave")
  /\ UNCHANGED <<lock, owner, pool, cachep, obj, live>>

Leave(p) ==
  /\ pc[p] = "leave"
  /\ lock' = Released(p)
  /\ Return(p)
  /\ UNCHANGED <<slabs, pool, live>>

-----------------------------------------------------------------------------

Holder(p) == PickSlab(p) \/ NoSlab(p) \/ LookForPage(p) \/ TakePage(p)
             \/ TakeObject(p) \/ ReturnObject(p) \/ PutObject(p) \/ Leave(p)

Next == \E p \in CPUs : \/ \E c \in Caches : Kmalloc(p, c)
                        \/ \E o \in live : Kfree(p, o)
                        \/ Acquire(p)
                        \/ Holder(p)

\* A CPU inside a critical section keeps running.  Nothing is assumed of a CPU
\* that spins: acquire is a test-and-set loop and may lose for ever.
Spec == Init /\ [][Next]_vars /\ \A p \in CPUs : WF_vars(Holder(p))

-----------------------------------------------------------------------------
(* Properties.                                                             *)

Critical == {"pick", "look", "grow", "take", "put", "return", "leave"}
Carries(p, o) == pc[p] \in {"free", "put", "return"} /\ obj[p] = o

\* Every variable has its type.
TypeOK ==
  /\ lock \in [Caches -> CPUs \cup {NoCPU}]
  /\ list \in [AllPages -> Lists]
  /\ owner \in [AllPages -> Caches \cup {NoCache}]
  /\ freelist \in [AllPages -> SUBSET Indices]
  /\ inuse \in [AllPages -> Int]
  /\ nfree \in [AllPages -> Int]
  /\ pool \subseteq Pages
  /\ pc \in [CPUs -> Locations]
  /\ cachep \in [CPUs -> Caches \cup {NoCache}]
  /\ slab \in [CPUs -> AllPages \cup {NoPage}]
  /\ obj \in [CPUs -> Objects \cup {NoObject}]
  /\ live \subseteq Objects

\* kmem_cache_alloc and kmem_cache_free (slab.c) never run on the slabs of one
\* cache on two CPUs at once, and the CPU inside holds the lock.
MutualExclusion ==
  \A p, q \in CPUs :
    /\ pc[p] \in Critical => lock[cachep[p]] = p
    /\ (pc[p] \in Critical /\ pc[q] \in Critical /\ cachep[p] = cachep[q]) => p = q

\* An object of a slab is in exactly one place: on the slab's chain, with a
\* caller, or on its way between the two on one CPU.  In particular kmalloc never
\* returns an object somebody holds, and kfree loses none.
ObjectsExclusive ==
  \A o \in Objects :
    /\ o \in live => o[2] \notin freelist[o[1]] /\ \A p \in CPUs : ~Carries(p, o)
    /\ \A p \in CPUs : Carries(p, o) =>
         o[2] \notin freelist[o[1]] /\ \A q \in CPUs : Carries(q, o) => p = q
    /\ owner[o[1]] # NoCache =>
         o \in live \/ o[2] \in freelist[o[1]] \/ \E p \in CPUs : Carries(p, o)

\* A slab kmem_cache_alloc would take an object from has one: whenever a cache is
\* unlocked its slabs' counters agree with their chains, a slab on slabs_partial
\* has an object free and one in use, one on slabs_free has none in use.
\* Dereferencing an empty chain is what this excludes.
PartialHasRoom ==
  \A s \in AllPages :
    (owner[s] # NoCache /\ lock[owner[s]] = NoCPU) =>
      /\ nfree[s] = Cardinality(freelist[s])
      /\ nfree[s] + inuse[s] = ObjsPerPage
      /\ list[s] = "partial" => nfree[s] > 0 /\ inuse[s] > 0
      /\ list[s] = "free" => inuse[s] = 0
      /\ list[s] = "full" => inuse[s] > 0

\* slabs_partial never has two slabs: kmem_cache_alloc fills one before it takes
\* another, and kmem_cache_free moves slabs to slabs_free only.
AtMostOnePartial ==
  \A c \in Caches : \A s, t \in On(c, "partial") : s = t

\* The lists of slabs are what kmem_cache_alloc relies on when it takes a lock.
SlabsRight == PartialHasRoom /\ AtMostOnePartial

\* A page given to a cache by cache_grow is not given to another: it changes owner
\* once, from no cache to a cache.
OwnerIsFinal ==
  [][\A s \in Pages : owner[s] # NoCache => owner'[s] = owner[s]]_vars

\* Whoever holds a cache's lock releases it.
LockReleased ==
  \A c \in Caches : lock[c] # NoCPU ~> lock[c] = NoCPU

=============================================================================
