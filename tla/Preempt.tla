------------------------------- MODULE Preempt -------------------------------
(***************************************************************************)
(* preempt_disable and preempt_enable of kernel/proc/sched.c on one CPU:   *)
(* a count of the sections that are open and a spinlock held while it is   *)
(* not zero, changed by the code of the CPU and by interrupt handlers that *)
(* run in the middle of it.                                                *)
(*                                                                         *)
(* A section is what lies between the two calls.  Sections nest, by calls  *)
(* and by an interrupt: the sections of a CPU are a stack, of which only   *)
(* the top goes on.  A step is one access to memory.                       *)
(***************************************************************************)
EXTENDS Integers

CONSTANT Depth       \* bound on the sections open at once
ASSUME DepthAssumption == Depth \in Nat

VARIABLES
  n,                 \* how many sections there are
  where,                \* section -> where it is
  origin,            \* section -> what atomic_inc has read
  count, lock,       \* thiscpu's atomic_preempt_count and preempt_lock
  handler            \* the number a handler's first section has; 0: none runs

preemptVars == <<n, where, origin, count, lock, handler>>

Sections == 1..Depth
Running  == 1..n

PreemptInit ==
  /\ n = 0
  /\ where = [s \in Sections |-> "in"]
  /\ origin = [s \in Sections |-> 0]
  /\ count = 0 /\ lock = 0      \* smp_percpu_init
  /\ handler = 0

\* A handler that has no section open runs on top of all sections.
OnTop     == handler = n + 1
At(loc)   == n > 0 /\ ~OnTop /\ where[n] = loc
GoTo(loc) == where' = [where EXCEPT ![n] = loc]
\* The code that runs now has no section of its own open, or is inside one.
MayOpen   == n = 0 \/ OnTop \/ At("in")

-----------------------------------------------------------------------------

\* preempt_disable is called.
Disable ==
  /\ MayOpen /\ n < Depth
  /\ n' = n + 1
  /\ where' = [where EXCEPT ![n + 1] = "load"]
  /\ UNCHANGED <<origin, count, lock, handler>>

\* atomic_inc, first instruction: movl.
Load ==
  /\ At("load") /\ GoTo("inc")
  /\ origin' = [origin EXCEPT ![n] = count]
  /\ UNCHANGED <<n, count, lock, handler>>

\* atomic_inc, second instruction: lock incl.
Increment ==
  /\ At("inc") /\ GoTo("test")
  /\ count' = count + 1
  /\ UNCHANGED <<n, origin, lock, handler>>

\* The return of preempt_disable, or its acquire.
EnterSection ==
  /\ At("test") /\ GoTo("in")
  /\ origin[n] = 0 => lock = 0
  /\ lock' = IF origin[n] = 0 THEN 1 ELSE lock
  /\ UNCHANGED <<n, origin, count, handler>>

\* Slip: the answer of the test is the value before, not after.
LastByOne(c) == c = 1
\* What atomic_dec_and_test answers, from the decremented count.
WasLast(c)   == c = 0

\* preempt_enable: atomic_dec_and_test, and the return if other sections are open.
Decrement ==
  /\ At("in")
  /\ count' = count - 1
  /\ IF WasLast(count') THEN GoTo("release") /\ n' = n
                        ELSE n' = n - 1 /\ UNCHANGED where
  /\ UNCHANGED <<origin, lock, handler>>

\* preempt_enable: release.
Release ==
  /\ At("release") /\ GoTo("in")
  /\ lock' = 0
  /\ n' = n - 1
  /\ UNCHANGED <<origin, count, handler>>

\* An interrupt comes between any two steps; interrupt gates let no second one in.
HandlerBegins == handler = 0 /\ handler' = n + 1 /\ UNCHANGED <<n, where, origin, count, lock>>

\* The handler has closed its sections and returns.
Return == OnTop /\ handler' = 0 /\ UNCHANGED <<n, where, origin, count, lock>>

PreemptNext == \/ Disable \/ Load \/ Increment \/ EnterSection
               \/ Decrement \/ Release \/ HandlerBegins \/ Return

PreemptSpec == PreemptInit /\ [][PreemptNext]_preemptVars

-----------------------------------------------------------------------------
(* Properties.                                                             *)

Locs == {"load", "inc", "test", "in", "release"}

\* Every variable has its type.
PreemptTypeOK ==
  /\ n \in 0..Depth
  /\ where \in [Sections -> Locs]
  /\ origin \in [Sections -> Nat]
  /\ count \in Nat
  /\ lock \in {0, 1}
  /\ handler \in 0..n + 1


\* The handler that runs has interrupted a section at loc.
Interrupted(loc) == handler > 1 /\ handler <= n /\ where[handler - 1] = loc

\* Inside every section preemption is off: the count is not zero and the lock is held,
\* whatever handlers opened and closed sections of their own between the two
\* instructions of atomic_inc.  Only a handler's section may run without the lock, when
\* the preempt_disable it interrupted has counted and not yet acquired (sched.c:17-20).
PreemptionOff ==
  \A s \in Running : where[s] = "in" =>
    count > 0 /\ (lock = 1 \/ (s >= handler /\ Interrupted("test")))

\* Nothing is left behind: with no section open the count is zero and the lock free.
NothingLeft == n = 0 => count = 0 /\ lock = 0

\* A section waits for the lock of its own CPU only if it is a handler's and interrupted
\* a preempt_enable that has counted to zero and not yet released: there the CPU is stuck
\* (sched.c:10-12).
Waits(s) == where[s] = "test" /\ origin[s] = 0 /\ lock = 1
StuckOnlyInRelease ==
  \A s \in Running : Waits(s) => s >= handler /\ Interrupted("release")

\* Preemption is off inside sections, on outside, and the one way to block is known.
PreemptionRight == PreemptionOff /\ NothingLeft /\ StuckOnlyInRelease
=============================================================================
