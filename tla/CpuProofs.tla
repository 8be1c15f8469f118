------------------------------- MODULE CpuProofs -------------------------------
(***************************************************************************)
(* Theorems about processors that meet: the kernel's locks under           *)
(* interrupts, those of Klog and those of Preempt, and the start of the    *)
(* application processors of SmpBoot.                                      *)
(*                                                                         *)
(* Klog, for any number of processors and whatever interrupts and          *)
(* exceptions come in between: one context writes to the console at a      *)
(* time, a record comes out whole, and a panic silences everyone else.     *)
(* The invariant that carries all three says where each lock is held, and  *)
(* that everyone who holds the console holds klog_lock: without that last  *)
(* part RecordWhole is not preserved, because the console lock is free     *)
(* between the place and the text.                                         *)
(*                                                                         *)
(* Preempt, for any number of sections: the count and the lock are tied to *)
(* the stack of sections; at most two of them, the top and the one a       *)
(* handler interrupted, are anywhere but inside.                           *)
(*                                                                         *)
(* SmpBoot, for any number of processors: types are kept whatever time     *)
(* does, and if a processor that started sets its flag before the next     *)
(* tick, what smp_boot believes of the processors is so (HandoverRight).   *)
(***************************************************************************)
EXTENDS Klog, Preempt, SmpBoot, FiniteSetTheorems, TLAPS

\* The context inside _klog or _panic holds klog_lock, and only it does.
KlogHeld == \A c \in Contexts :
              (pc[c] \in InKlog \cup {"halted"}) <=> (klog_lock = c)

\* The context inside vcprintf or vkprintf holds console_lock, and only it does.
ConsoleHeld == \A c \in Contexts : (pc[c] \in InConsole) <=> (console_lock = c)

IInv == TypeOK /\ KlogHeld /\ ConsoleHeld /\ RecordWhole

\* No context is the free lock's owner.
LEMMA NobodyIsNoContext == \A c \in Contexts : c # Nobody
  BY NobodyAssumption DEF Contexts

\* Init establishes the invariant.
LEMMA InitIInv == Init => IInv
  BY NobodyIsNoContext
  DEF Init, IInv, TypeOK, KlogHeld, ConsoleHeld, RecordWhole, Locations, Parts, InKlog,
      InConsole, Contexts

\* A call, an interrupt or an exception enters _klog or _panic without a lock.
LEMMA EnterIInv ==
  ASSUME IInv, NEW c \in Contexts, NEW what \in {"info", "log", "panic"}, Enter(c, what)
  PROVE  IInv'
<1>1. TypeOK'
  BY DEF IInv, TypeOK, Enter, Goto, Locations
<1>2. KlogHeld'
  BY DEF IInv, TypeOK, KlogHeld, Enter, Goto, InKlog
<1>3. ConsoleHeld'
  BY DEF IInv, TypeOK, ConsoleHeld, Enter, Goto, InConsole
<1>4. RecordWhole'
  BY DEF IInv, TypeOK, RecordWhole, Enter, Goto
<1> QED BY <1>1, <1>2, <1>3, <1>4 DEF IInv

\* Each step of a context inside the call preserves the invariant.
LEMMA ContextIInv ==
  ASSUME IInv, NEW c \in Contexts, Acquire(c) \/ Proceed(c)
  PROVE  IInv'
<1> USE NobodyIsNoContext
<1> USE DEF IInv, TypeOK, KlogHeld, ConsoleHeld, RecordWhole, Goto, InKlog, InConsole,
            Locations, Parts
<1>1. CASE AcquireKlog(c)
  <2>1. klog_lock = Nobody /\ AfterKlog(c) \in {"con1", "con2", "cli"}
    BY <1>1 DEF AcquireKlog, KlogFree, AfterKlog
  <2>2. op[c] # "info" => AfterKlog(c) \in {"con1", "cli"}
    BY DEF AfterKlog
  <2>3. AfterKlog(c) \in {"con2"} => op[c] = "info"
    BY <2>2
  <2> HIDE DEF RecordWhole
  <2>4. TypeOK' BY <1>1, <2>1 DEF AcquireKlog
  <2>5. KlogHeld' BY <1>1, <2>1 DEF AcquireKlog
  <2>6. ConsoleHeld' BY <1>1, <2>1 DEF AcquireKlog
  <2>7. RecordWhole' BY <1>1, <2>1, <2>3 DEF AcquireKlog, RecordWhole
  <2> QED BY <2>4, <2>5, <2>6, <2>7
<1>2. CASE AcquireConsole(c)
  <2>1. TypeOK' BY <1>2 DEF AcquireConsole
  <2>2. KlogHeld' BY <1>2 DEF AcquireConsole
  <2>3. ConsoleHeld' BY <1>2 DEF AcquireConsole, ConsoleFree
  <2>4. RecordWhole' BY <1>2 DEF AcquireConsole
  <2> QED BY <2>1, <2>2, <2>3, <2>4
<1>3. CASE DisableInterrupts(c)
  <2>1. TypeOK' BY <1>3 DEF DisableInterrupts
  <2>2. KlogHeld' BY <1>3 DEF DisableInterrupts
  <2>3. ConsoleHeld' BY <1>3 DEF DisableInterrupts
  <2>4. RecordWhole' BY <1>3 DEF DisableInterrupts
  <2> QED BY <2>1, <2>2, <2>3, <2>4
<1>4. CASE Write(c)
  <2>1. klog_lock = c BY <1>4 DEF Write
  <2>2. TypeOK' BY <1>4 DEF Write
  <2>3. KlogHeld' BY <1>4 DEF Write
  <2>4. ConsoleHeld' BY <1>4 DEF Write
  <2>5. ASSUME NEW d \in Contexts, op'[d] # "info", pc'[d] \in {"end1", "con2", "text"}
        PROVE  last' = <<d, "place">>
    <3>1. CASE d = c BY <1>4, <2>5, <3>1 DEF Write
    <3>2. CASE d # c
      <4>1. pc[d] \in InKlog BY <1>4, <2>5, <3>2 DEF Write
      <4> QED BY <4>1, <2>1, <3>2
    <3> QED BY <3>1, <3>2
  <2> QED BY <2>2, <2>3, <2>4, <2>5
<1>5. CASE ReleaseConsole(c)
  <2>1. AfterRecord(c) \in {"halted", "unlock"} BY DEF AfterRecord
  <2>2. TypeOK' BY <1>5, <2>1 DEF ReleaseConsole, ConsoleReleased
  <2>3. KlogHeld' BY <1>5, <2>1 DEF ReleaseConsole
  <2>4. ConsoleHeld' BY <1>5, <2>1 DEF ReleaseConsole, ConsoleReleased
  <2>5. RecordWhole' BY <1>5, <2>1 DEF ReleaseConsole
  <2> QED BY <2>2, <2>3, <2>4, <2>5
<1>6. CASE ReleaseKlog(c)
  <2>1. TypeOK' BY <1>6 DEF ReleaseKlog
  <2>2. KlogHeld' BY <1>6 DEF ReleaseKlog
  <2>3. ConsoleHeld' BY <1>6 DEF ReleaseKlog
  <2>4. RecordWhole' BY <1>6 DEF ReleaseKlog
  <2> QED BY <2>1, <2>2, <2>3, <2>4
<1> QED BY <1>1, <1>2, <1>3, <1>4, <1>5, <1>6 DEF Acquire, Proceed

\* Every step preserves the invariant.
LEMMA NextIInv == IInv /\ [Next]_vars => IInv'
<1> SUFFICES ASSUME IInv, [Next]_vars PROVE IInv' OBVIOUS
<1>1. CASE UNCHANGED vars
  BY <1>1 DEF IInv, TypeOK, KlogHeld, ConsoleHeld, RecordWhole, vars
<1>2. ASSUME NEW p \in CPUs, Call(p) \/ Interrupt(p) \/ Trap(p) PROVE IInv'
  <2>1. Code(p) \in Contexts /\ Handler(p) \in Contexts
    BY DEF Code, Handler, Contexts
  <2> QED BY <1>2, <2>1, EnterIInv, CallsAssumption, HandlerCallsAssumption
          DEF Call, Interrupt, Trap
<1> QED BY <1>1, <1>2, ContextIInv DEF Next

\* The invariant implies the mutual exclusion that is checked.
LEMMA IInvOneWriter == IInv => OneWriter
  BY DEF IInv, KlogHeld, ConsoleHeld, OneWriter, InKlog, InConsole

\* With a panic inside, nobody else is at a write.
LEMMA StepSilences ==
  ASSUME IInv, [Next]_vars, NEW c \in Contexts, Panicking(c)
  PROVE  last' = last \/ last'[1] = c
<1>1. klog_lock = c BY DEF IInv, KlogHeld, Panicking
<1>2. ASSUME NEW d \in Contexts, Write(d) PROVE last'[1] = c
  <2>1. pc[d] \in InKlog BY <1>2 DEF Write, InKlog
  <2>2. d = c BY <1>1, <2>1 DEF IInv, KlogHeld
  <2> QED BY <1>2, <2>2 DEF Write
<1> QED BY <1>2 DEF Next, vars, Call, Interrupt, Trap, Enter, Acquire, Proceed, AcquireKlog,
                AcquireConsole, DisableInterrupts, ReleaseConsole, ReleaseKlog

\* The invariant holds throughout.
THEOREM Invariant == Spec => []IInv
  BY InitIInv, NextIInv, PTL DEF Spec

\* Types are kept.
THEOREM TypeCorrect == Spec => []TypeOK
<1>1. IInv => TypeOK BY DEF IInv
<1> QED BY <1>1, Invariant, PTL

\* Characters of two printfs never mix, since console_lock (console.c) excludes, and a
\* record of _klog or _panic (main.c) comes out whole.
THEOREM OutputIsRight == Spec => []OutputRight
<1>1. IInv => OutputRight BY IInvOneWriter DEF IInv, OutputRight
<1> QED BY <1>1, Invariant, PTL

\* Once _panic (main.c:61) has klog_lock, only it writes.
THEOREM PanicSilences == Spec => PanicSilencesOthers
<1>1. IInv /\ [Next]_vars =>
        [\A c \in Contexts : Panicking(c) => last' = last \/ last'[1] = c]_vars
  BY StepSilences
<1> QED BY <1>1, Invariant, PTL DEF Spec, PanicSilencesOthers

-----------------------------------------------------------------------------
(* preempt_disable and preempt_enable (sched.c).                           *)

\* Only the top and the section a handler interrupted are between two steps.
Shape == \A s \in 1..n - 1 : s # handler - 1 => where[s] = "in"

\* 1 for a section the count does not count.
Out(s) == IF where[s] \in {"load", "inc", "release"} THEN 1 ELSE 0

\* The count is the number of sections, but for the two that may be outside.
CountInv == count = IF n = 0 THEN 0
                    ELSE IF handler - 1 \in 1..n - 1 THEN n - Out(n) - Out(handler - 1)
                    ELSE n - Out(n)

\* Some section under s is counted.
Below(s) == \E r \in 1..s - 1 : where[r] \in {"test", "in"}

\* What atomic_inc has read stays true: nothing under the section moves.
OriginInv == \A s \in Running : where[s] \in {"inc", "test"} => (origin[s] = 0 <=> ~Below(s))

\* Only the last section that is counted comes to release.
ReleaseInv == \A s \in Running : where[s] = "release" => ~Below(s)

\* Who holds the lock: the lowest counted section, once past its acquire.
Holder(s) == where[s] \in {"in", "release"} /\ ~Below(s)
LockInv == lock = 1 <=> \E s \in Running : Holder(s)

\* One section at most has the lock.
OneHolder == \A s, t \in Running : Holder(s) /\ Holder(t) => s = t

SectionsInv == /\ PreemptTypeOK /\ Shape /\ CountInv /\ OriginInv
       /\ ReleaseInv /\ LockInv /\ OneHolder

\* The sections under the top that are counted, by number.
Lower == n - 1 - (IF handler - 1 \in 1..n - 1 THEN Out(handler - 1) ELSE 0)

\* The count over the sections under the top says whether one of them is counted.
LEMMA LowerCount ==
  ASSUME PreemptTypeOK, Shape, n > 0
  PROVE  Lower \in Nat /\ (Lower = 0 <=> ~Below(n))
<1> USE DepthAssumption DEF PreemptTypeOK, Sections
<1>1. CASE handler - 1 \in 1..n - 1
  <2>1. CASE n = 2
    <3>1. handler - 1 = 1  BY <1>1, <2>1
    <3>2. Lower = 1 - Out(1)  BY <2>1, <3>1 DEF Lower
    <3>3. where[1] \in Locs  BY <2>1
    <3> QED  BY <2>1, <3>2, <3>3 DEF Out, Below, Locs
  <2>2. CASE n > 2
    <3>1. PICK r \in 1..n - 1 : r # handler - 1  BY <2>2, SMTT(20)
    <3>2. where[r] = "in"  BY <3>1 DEF Shape
    <3>3. Lower \in Nat \ {0}  BY <1>1, <2>2 DEF Lower, Out
    <3> QED  BY <3>2, <3>3 DEF Below
  <2> QED  BY <1>1, <2>1, <2>2
<1>2. CASE handler - 1 \notin 1..n - 1
  <2>1. Lower = n - 1  BY <1>2 DEF Lower
  <2>2. CASE n = 1  BY <2>1, <2>2 DEF Below
  <2>3. CASE n > 1
    <3>1. where[1] = "in"  BY <1>2, <2>3 DEF Shape
    <3> QED  BY <2>1, <2>3, <3>1 DEF Below
  <2> QED  BY <2>2, <2>3
<1> QED  BY <1>1, <1>2

\* CountInv says the count is Lower, and one more if the top is counted.
LEMMA CountOfTop ==
  ASSUME PreemptTypeOK, n > 0
  PROVE  CountInv <=> count = Lower + 1 - Out(n)
BY DepthAssumption DEF PreemptTypeOK, Sections, CountInv, Lower, Out

LEMMA InitInv == PreemptInit => SectionsInv
BY DepthAssumption DEF PreemptInit, SectionsInv, PreemptTypeOK, Shape, CountInv, OriginInv, ReleaseInv, LockInv,
   OneHolder, Holder, Below, Running, Sections, Locs

LEMMA DisableInv == SectionsInv /\ Disable => SectionsInv'
<1> SUFFICES ASSUME SectionsInv, Disable PROVE SectionsInv'
  OBVIOUS
<1> USE DepthAssumption DEF SectionsInv, PreemptTypeOK, Sections, Running, Disable
<1>1. PreemptTypeOK'  BY DEF Locs
<1>2. \A s \in 1..n : where'[s] = where[s]  OBVIOUS
<1>3. \A s \in 1..n + 1 : Below(s)' <=> Below(s)  BY <1>2 DEF Below
<1>4. where'[n + 1] = "load"  OBVIOUS
<1>5. Shape'  BY <1>2 DEF Shape, MayOpen, OnTop, At
<1>6. CountInv'
  <2>1. \A s \in 1..n : Out(s)' = Out(s)  BY <1>2 DEF Out
  <2>0. CountInv' <=> count = IF handler - 1 \in 1..n THEN n - Out(handler - 1) ELSE n
    <3>1. \A s \in Nat : s = n + 1 => Out(s)' = 1  BY <1>4 DEF Out
    <3> QED  BY <2>1, <3>1 DEF CountInv, Out
  <2>2. CASE n = 0  BY <2>0, <2>2 DEF CountInv
  <2>3. CASE n > 0 /\ OnTop  BY <2>0, <2>3 DEF CountInv, OnTop, Out
  <2>4. CASE n > 0 /\ At("in")  BY <2>0, <2>4 DEF CountInv, At, OnTop, Out
  <2> QED  BY <2>2, <2>3, <2>4 DEF MayOpen
<1>7. OriginInv'  BY <1>2, <1>3, <1>4 DEF OriginInv
<1>8. ReleaseInv'  BY <1>2, <1>3, <1>4 DEF ReleaseInv
<1>9. \A s \in 1..n + 1 : Holder(s)' <=> s \in 1..n /\ Holder(s)
  BY <1>2, <1>3, <1>4 DEF Holder
<1>10. LockInv' /\ OneHolder'  BY <1>9 DEF LockInv, OneHolder
<1> QED  BY <1>1, <1>5, <1>6, <1>7, <1>8, <1>10

\* A step of the top leaves the sections under it as they are.
LEMMA TopStep ==
  ASSUME PreemptTypeOK, n > 0, NEW loc \in Locs, GoTo(loc)
  PROVE  /\ \A s \in 1..n - 1 : where'[s] = where[s]
         /\ where'[n] = loc
         /\ where' \in [Sections -> Locs]
BY DepthAssumption DEF PreemptTypeOK, GoTo, Sections, Locs

LEMMA LoadInv == SectionsInv /\ Load => SectionsInv'
<1> SUFFICES ASSUME SectionsInv, Load PROVE SectionsInv'
  OBVIOUS
<1> USE DepthAssumption DEF SectionsInv, PreemptTypeOK, Sections, Running, Load, At
<1>1. /\ \A s \in 1..n - 1 : where'[s] = where[s]
      /\ where'[n] = "inc"
      /\ where' \in [Sections -> Locs]
  BY TopStep DEF Locs
<1>2. PreemptTypeOK'  BY <1>1
<1>3. \A s \in 1..n : Below(s)' <=> Below(s)  BY <1>1 DEF Below
<1>4. Shape'  BY <1>1 DEF Shape
<1>5. CountInv'  BY <1>1 DEF CountInv, Out
<1>6. OriginInv'
  <2>1. count = 0 <=> ~Below(n)
    <3>1. Out(n) = 1  BY DEF Out
    <3>2. count = Lower + 1 - Out(n)  BY CountOfTop
    <3> QED  BY <3>1, <3>2, LowerCount
  <2>2. \A s \in 1..n - 1 : origin'[s] = origin[s]  OBVIOUS
  <2> QED  BY <1>1, <1>3, <2>1, <2>2 DEF OriginInv
<1>7. ReleaseInv'  BY <1>1, <1>3 DEF ReleaseInv
<1>8. \A s \in 1..n : Holder(s)' <=> Holder(s)  BY <1>1, <1>3 DEF Holder
<1>9. LockInv' /\ OneHolder'  BY <1>8 DEF LockInv, OneHolder
<1> QED  BY <1>2, <1>4, <1>5, <1>6, <1>7, <1>9

LEMMA IncrementInv == SectionsInv /\ Increment => SectionsInv'
<1> SUFFICES ASSUME SectionsInv, Increment PROVE SectionsInv'
  OBVIOUS
<1> USE DepthAssumption DEF SectionsInv, PreemptTypeOK, Sections, Running, Increment, At
<1>1. /\ \A s \in 1..n - 1 : where'[s] = where[s]
      /\ where'[n] = "test"
      /\ where' \in [Sections -> Locs]
  BY TopStep DEF Locs
<1>2. PreemptTypeOK'  BY <1>1
<1>3. \A s \in 1..n : Below(s)' <=> Below(s)  BY <1>1 DEF Below
<1>4. Shape'  BY <1>1 DEF Shape
<1>5. CountInv'  BY <1>1 DEF CountInv, Out
<1>6. OriginInv'  BY <1>1, <1>3 DEF OriginInv
<1>7. ReleaseInv'  BY <1>1, <1>3 DEF ReleaseInv
<1>8. \A s \in 1..n : Holder(s)' <=> Holder(s)  BY <1>1, <1>3 DEF Holder
<1>9. LockInv' /\ OneHolder'  BY <1>8 DEF LockInv, OneHolder
<1> QED  BY <1>2, <1>4, <1>5, <1>6, <1>7, <1>9

\* With another section counted the acquire is passed over; otherwise the lock is free,
\* so nobody holds it, and now the top does.
LEMMA EnterInv == SectionsInv /\ EnterSection => SectionsInv'
<1> SUFFICES ASSUME SectionsInv, EnterSection PROVE SectionsInv'
  OBVIOUS
<1> USE DepthAssumption DEF SectionsInv, PreemptTypeOK, Sections, Running, EnterSection, At
<1>1. /\ \A s \in 1..n - 1 : where'[s] = where[s]
      /\ where'[n] = "in"
      /\ where' \in [Sections -> Locs]
  BY TopStep DEF Locs
<1>2. PreemptTypeOK'  BY <1>1
<1>3. \A s \in 1..n : Below(s)' <=> Below(s)  BY <1>1 DEF Below
<1>4. Shape'  BY <1>1 DEF Shape
<1>5. CountInv'  BY <1>1 DEF CountInv, Out
<1>6. OriginInv'  BY <1>1, <1>3 DEF OriginInv
<1>7. ReleaseInv'  BY <1>1, <1>3 DEF ReleaseInv
<1>8. \A s \in 1..n - 1 : Holder(s)' <=> Holder(s)  BY <1>1, <1>3 DEF Holder
<1>9. ~Holder(n) /\ (origin[n] = 0 <=> ~Below(n))  BY DEF Holder, OriginInv
<1>10. \A s \in 1..n : s = n => (Holder(s)' <=> origin[n] = 0)  BY <1>1, <1>3, <1>9 DEF Holder
<1>11. LockInv' /\ OneHolder'
  <2>1. CASE origin[n] = 0
    BY <1>8, <1>10, <2>1 DEF LockInv, OneHolder
  <2>2. CASE origin[n] # 0
    BY <1>8, <1>9, <1>10, <2>2, SMTT(20) DEF LockInv, OneHolder
  <2> QED  BY <2>1, <2>2
<1> QED  BY <1>2, <1>4, <1>5, <1>6, <1>7, <1>11

LEMMA DecrementInv == SectionsInv /\ Decrement => SectionsInv'
<1> SUFFICES ASSUME SectionsInv, Decrement PROVE SectionsInv'
  OBVIOUS
<1> USE DepthAssumption DEF SectionsInv, PreemptTypeOK, Sections, Running, Decrement, At
<1>1. count = Lower + 1  BY CountOfTop DEF Out
<1>2. Lower \in Nat /\ (Lower = 0 <=> ~Below(n))  BY LowerCount
<1>3. CASE WasLast(count')
  <2>1. /\ \A s \in 1..n - 1 : where'[s] = where[s]
        /\ where'[n] = "release"
        /\ where' \in [Sections -> Locs]
    BY <1>3, TopStep DEF Locs
  <2>2. n' = n /\ ~Below(n)  BY <1>1, <1>2, <1>3 DEF WasLast
  <2>3. PreemptTypeOK'  BY <1>1, <1>2, <2>1, <2>2
  <2>4. \A s \in 1..n : Below(s)' <=> Below(s)  BY <2>1 DEF Below
  <2>5. Shape'  BY <2>1, <2>2 DEF Shape
  <2>6. CountInv'  BY <2>1, <2>2 DEF CountInv, Out
  <2>7. OriginInv'  BY <2>1, <2>2, <2>4 DEF OriginInv
  <2>8. ReleaseInv'  BY <2>1, <2>2, <2>4 DEF ReleaseInv
  <2>9. \A s \in 1..n : Holder(s)' <=> Holder(s)  BY <2>1, <2>4 DEF Holder
  <2>10. LockInv' /\ OneHolder'  BY <2>2, <2>9 DEF LockInv, OneHolder
  <2> QED  BY <2>3, <2>5, <2>6, <2>7, <2>8, <2>10
<1>4. CASE ~WasLast(count')
  <2>1. n' = n - 1 /\ where' = where  BY <1>4
  <2>2. Below(n)  BY <1>1, <1>2, <1>4 DEF WasLast
  <2>3. handler # n + 1 /\ n' \in 0..Depth /\ handler \in 0..n' + 1  BY <2>1 DEF OnTop
  <2>4. PreemptTypeOK'  BY <1>1, <1>2, <2>1, <2>3
  <2>5. \A s \in 1..n : Below(s)' <=> Below(s)  BY <2>1 DEF Below
  <2>6. Shape'  BY <2>1 DEF Shape
  <2>7. CountInv'
    <3>1. \A s \in 1..n : Out(s)' = Out(s)  BY <2>1 DEF Out
    <3>2. \A s \in 1..n - 1 : s # handler - 1 => Out(s) = 0  BY DEF Shape, Out
    <3>3. n > 1  BY <2>2 DEF Below
    <3> QED  BY SMTT(20), <1>1, <2>1, <3>1, <3>2, <3>3 DEF CountInv, Lower, Out
  <2>8. OriginInv'  BY <2>1, <2>5 DEF OriginInv
  <2>9. ReleaseInv'  BY <2>1, <2>5 DEF ReleaseInv
  <2>10. \A s \in 1..n : Holder(s)' <=> Holder(s)  BY <2>1, <2>5 DEF Holder
  <2>11. ~Holder(n)  BY <2>2 DEF Holder
  <2>12. LockInv' /\ OneHolder'  BY <2>1, <2>10, <2>11 DEF LockInv, OneHolder
  <2> QED  BY <2>4, <2>6, <2>7, <2>8, <2>9, <2>12
<1> QED  BY <1>3, <1>4

\* The top held the lock, so nobody does any more.
LEMMA ReleaseStepInv == SectionsInv /\ Release => SectionsInv'
<1> SUFFICES ASSUME SectionsInv, Release PROVE SectionsInv'
  OBVIOUS
<1> USE DepthAssumption DEF SectionsInv, PreemptTypeOK, Sections, Running, Release, At
<1>1. /\ \A s \in 1..n - 1 : where'[s] = where[s]
      /\ where' \in [Sections -> Locs]
  BY TopStep DEF Locs
<1>2. handler # n + 1 /\ n' \in 0..Depth /\ handler \in 0..n' + 1  BY DEF OnTop
<1>3. PreemptTypeOK'  BY <1>1, <1>2
<1>4. \A s \in 1..n : Below(s)' <=> Below(s)  BY <1>1 DEF Below
<1>5. Shape'  BY <1>1 DEF Shape
<1>6. ~Below(n) /\ Holder(n)  BY DEF ReleaseInv, Holder
<1>7. CountInv'
  <2>1. \A s \in 1..n - 1 : Out(s)' = Out(s)  BY <1>1 DEF Out
  <2>2. \A s \in 1..n - 1 : s # handler - 1 => Out(s) = 0  BY DEF Shape, Out
  <2>3. count = Lower  BY CountOfTop, LowerCount DEF Out
  <2> QED  BY <2>1, <2>2, <2>3 DEF CountInv, Lower, Out
<1>8. OriginInv'  BY <1>1, <1>4 DEF OriginInv
<1>9. ReleaseInv'  BY <1>1, <1>4 DEF ReleaseInv
<1>10. \A s \in 1..n - 1 : ~Holder(s)' /\ ~Holder(s)
  BY <1>1, <1>4, <1>6 DEF Holder, OneHolder
<1>11. LockInv' /\ OneHolder'  BY <1>10 DEF LockInv, OneHolder
<1> QED  BY <1>3, <1>5, <1>7, <1>8, <1>9, <1>11

LEMMA InterruptInv == SectionsInv /\ (HandlerBegins \/ Return) => SectionsInv'
<1> SUFFICES ASSUME SectionsInv, HandlerBegins \/ Return PROVE SectionsInv'
  OBVIOUS
<1> USE DepthAssumption DEF SectionsInv, PreemptTypeOK, Sections, Running, HandlerBegins, Return, OnTop
<1>1. PreemptTypeOK'  OBVIOUS
<1>2. Shape'  BY DEF Shape
<1>3. CountInv'  BY DEF CountInv, Out
<1>4. \A s \in 1..n : (Below(s)' <=> Below(s)) /\ (Holder(s)' <=> Holder(s))
  BY DEF Below, Holder
<1>5. OriginInv' /\ ReleaseInv'  BY <1>4 DEF OriginInv, ReleaseInv
<1>6. LockInv' /\ OneHolder'  BY <1>4 DEF LockInv, OneHolder
<1> QED  BY <1>1, <1>2, <1>3, <1>5, <1>6

\* The invariant holds in every behavior.
THEOREM PreemptInvariant == PreemptSpec => []SectionsInv
<1>1. SectionsInv /\ [PreemptNext]_preemptVars => SectionsInv'
  <2> SUFFICES ASSUME SectionsInv, [PreemptNext]_preemptVars PROVE SectionsInv'
    OBVIOUS
  <2>1. CASE UNCHANGED preemptVars
    BY <2>1 DEF preemptVars, SectionsInv, PreemptTypeOK, Shape, CountInv, OriginInv, ReleaseInv, LockInv, OneHolder,
       Holder, Below, Out, Running, Sections
  <2> QED
    BY <2>1, DisableInv, LoadInv, IncrementInv, EnterInv, DecrementInv, ReleaseStepInv,
       InterruptInv DEF PreemptNext
<1> QED  BY <1>1, InitInv, PTL DEF PreemptSpec

\* Variables keep their types, however interrupts fall between the steps (sched.c:8-21).
THEOREM PreemptTypeCorrect == PreemptSpec => []PreemptTypeOK
<1>1. SectionsInv => PreemptTypeOK  BY DEF SectionsInv
<1> QED  BY <1>1, PreemptInvariant, PTL

\* Preemption is off inside every section and nothing is left behind outside; a CPU
\* blocks itself only where an interrupt finds preempt_enable before its release.
THEOREM PreemptionIsRight == PreemptSpec => []PreemptionRight
<1>1. SectionsInv => PreemptionRight
  <2> SUFFICES ASSUME SectionsInv PROVE PreemptionRight
    OBVIOUS
  <2> USE DepthAssumption DEF SectionsInv, PreemptTypeOK, Sections, Running
  <2>1. NothingLeft  BY DEF NothingLeft, CountInv, LockInv
  <2>2. \A r \in 1..n : where[r] # "in" => r = n \/ r = handler - 1  BY DEF Shape
  <2>3. PreemptionOff
    <3> SUFFICES ASSUME NEW s \in 1..n, where[s] = "in"
                 PROVE  count > 0 /\ (lock = 1 \/ (s >= handler /\ Interrupted("test")))
      BY DEF PreemptionOff
    <3>1. count > 0
      <4>1. Lower \in Nat /\ (Lower = 0 <=> ~Below(n))  BY LowerCount
      <4>2. count = Lower + 1 - Out(n)  BY CountOfTop
      <4>0. Out(n) \in {0, 1} /\ (s = n => Out(n) = 0)  BY DEF Out
      <4>3. CASE s = n  BY <4>0, <4>1, <4>2, <4>3
      <4>4. CASE s < n
        <5>1. Below(n)  BY <4>4 DEF Below
        <5>2. Lower > 0  BY <4>1, <5>1
        <5> QED  BY <4>0, <4>1, <4>2, <5>2
      <4> QED  BY <4>3, <4>4
    <3>2. CASE lock # 1
      <4>1. Below(s)  BY <3>2 DEF LockInv, Holder
      <4>2. PICK r \in 1..s - 1 : where[r] \in {"test", "in"}  BY <4>1 DEF Below
      <4>3. where[1] # "in"  BY <3>2 DEF LockInv, Holder, Below
      <4>4. 1 = handler - 1  BY <2>2, <4>2, <4>3
      <4>5. CASE r = 1  BY <3>1, <4>2, <4>3, <4>4, <4>5 DEF Interrupted
      <4>6. CASE r # 1
        <5>1. where[2] = "in"  BY <2>2, <4>2, <4>4, <4>6
        <5>2. Below(2)  BY <3>2, <5>1, <4>2 DEF LockInv, Holder
        <5>3. where[1] = "test"  BY <4>3, <5>2 DEF Below
        <5> QED  BY <3>1, <4>2, <4>4, <4>6, <5>3 DEF Interrupted
      <4> QED  BY <4>5, <4>6
    <3> QED  BY <3>1, <3>2
  <2>4. StuckOnlyInRelease
    <3> SUFFICES ASSUME NEW s \in 1..n, Waits(s)
                 PROVE  s >= handler /\ Interrupted("release")
      BY DEF StuckOnlyInRelease
    <3>1. ~Below(s) /\ where[s] = "test"  BY DEF Waits, OriginInv
    <3>2. PICK h \in 1..n : Holder(h)  BY DEF Waits, LockInv
    <3>3. h < s  BY <3>1, <3>2 DEF Holder, Below
    <3>4. where[h] = "release"  BY <3>1, <3>2, <3>3 DEF Holder, Below
    <3>5. h = handler - 1  BY <2>2, <3>3, <3>4
    <3> QED  BY <3>3, <3>4, <3>5 DEF Interrupted
  <2> QED  BY <2>1, <2>3, <2>4 DEF PreemptionRight
<1> QED  BY <1>1, PreemptInvariant, PTL

-----------------------------------------------------------------------------
(* Starting the processors.                                                *)

\* The processor smp_boot is starting is one of the list.
CurIsAp == bpc \notin {"boot", "clear", "wait", "done"} => cur \in APs
\* After the list it is none of them.
PastList == bpc \in {"clear", "wait", "done"} => cur \notin APs

\* Nothing was sent to the processors that are still to come.
Untouched == \A a \in APs : (a > cur \/ (a = cur /\ bpc \in {"boot", "init"})) => apc[a] = "off"

Online == {a \in APs : apc[a] = "online"}
ReadyCounts == ready = 1 + Cardinality(Online)

\* What holds whatever time does.
BaseInv == BootTypeOK /\ CurIsAp /\ PastList /\ Untouched /\ ReadyCounts

\* A processor that smp_boot is done with was booted, or never answers.
Answered(a) == IF a \in dead THEN ~present[a] /\ apc[a] = "off"
               ELSE present[a] /\ a \in Flagged
BehindInv == \A a \in APs : a < cur => Answered(a)
AheadInv  == \A a \in APs : a >= cur => present[a]

\* The processor smp_boot is at.  One on its way to the flag got its interrupt since the
\* last tick, so smp_boot, which sleeps for one, has not looked yet.
CurInv ==
  cur \in APs =>
    /\ bpc = "sipi" => apc[cur] = IF cur \in dead THEN "off" ELSE "waiting"
    /\ bpc \in {"again", "watch", "check", "booted"} =>
         IF cur \in dead THEN apc[cur] = "off"
         ELSE \/ apc[cur] = "waiting" /\ bpc = "again"
              \/ Coming(cur) /\ bpc \in {"again", "watch"} /\ ticks = start
              \/ cur \in Flagged
    /\ bpc # "boot" => flag = IF cur \in Flagged THEN 1 ELSE 0
    /\ bpc = "booted" => flag = 1

\* The low mapping and the stack are there while a processor is started.
MapsInv == cur \in APs => /\ lowmap /\ trampmap
                          /\ bpc # "boot" => stacktop # NULL

\* The processors that have loaded a stack: nobody else has it, and the one that is next
\* to be loaded is only that of the processor smp_boot is at.
Loaded == {a \in APs : apc[a] \in {"boot_ap", "low", "main", "percpu", "online", "faulted"}}
StackInv == /\ \A a \in Loaded : sp[a] # NULL /\ (sp[a] = stacktop => a = cur /\ bpc # "boot")
            /\ \A a, b \in Loaded : a # b => sp[a] # sp[b]

\* What holds if processors are prompt.
PromptInv == BehindInv /\ AheadInv /\ CurInv /\ MapsInv /\ StackInv /\ NoStackLeak

-----------------------------------------------------------------------------
(* Types.                                                                  *)

\* The processors are finitely many.
LEMMA ApsFinite == IsFiniteSet(APs) /\ Cardinality(APs) = NrAPs
BY NrAPsAssumption, FS_Interval DEF APs

\* Before the first processor is started.
LEMMA InitBase == BootInit => BaseInv
<1> SUFFICES ASSUME BootInit PROVE BaseInv
  OBVIOUS
<1> USE NrAPsAssumption, TickModAssumption DEF BootInit, APs, NULL
<1>1. BootTypeOK
  BY DEF BootTypeOK, BspLocations, ApLocations
<1>2. CurIsAp /\ PastList /\ Untouched
  BY DEF CurIsAp, PastList, Untouched
<1>3. ReadyCounts
  <2>1. Online = {}
    BY DEF Online
  <2> QED BY <2>1, FS_EmptySet DEF ReadyCounts
<1> QED BY <1>1, <1>2, <1>3 DEF BaseInv

\* A processor that becomes ready is one more that is online.
LEMMA NotifyCounts ==
  ASSUME BaseInv, NEW a \in APs, NotifyReady(a)
  PROVE  ready' \in 1..NrAPs + 1 /\ ReadyCounts'
<1>1. Online' = Online \cup {a} /\ a \notin Online
  BY DEF NotifyReady, Online, BaseInv, BootTypeOK
<1>2. IsFiniteSet(Online) /\ Online' \subseteq APs
  BY ApsFinite, FS_Subset DEF Online
<1>3. Cardinality(Online') = Cardinality(Online) + 1 /\ Cardinality(Online) \in Nat
  BY <1>1, <1>2, FS_AddElement, FS_CardinalityType
<1>4. Cardinality(Online') <= NrAPs
  BY <1>2, ApsFinite, FS_Subset
<1>5. ready' = 1 + Cardinality(Online')
  BY <1>3 DEF NotifyReady, BaseInv, ReadyCounts
<1> QED BY <1>3, <1>4, <1>5, NrAPsAssumption DEF ReadyCounts

\* The boot processor.
LEMMA BspBase == BaseInv /\ Bsp => BaseInv'
<1> SUFFICES ASSUME BaseInv, Bsp PROVE BaseInv'
  OBVIOUS
<1> USE NrAPsAssumption, TickModAssumption DEF BaseInv, APs, NULL
<1>1. /\ UNCHANGED <<ticks, dead, ready, sp>>
      /\ start' \in {start, ticks} /\ flag' \in {flag, 0}
      /\ trampmap' \in {trampmap, FALSE} /\ lowmap' \in {lowmap, FALSE}
      /\ bpc' \in BspLocations
  BY DEF Bsp, StartBoot, SendInit, SendSipi, FirstLook, Watch, SecondLook, FinishBoot,
         ClearTrampoline, ClearLowPage, EndWait, others, maps, Sleep, GotoB, BspLocations, FlagAtStart
<1>2. /\ nrStacks' \in {nrStacks, nrStacks + 1}
      /\ stacktop' \in {stacktop, 0, nrStacks'}
  <2>1. CASE StartBoot
    BY <2>1 DEF StartBoot, stacks
  <2>2. CASE FinishBoot
    BY <2>2 DEF FinishBoot, StackAfter
  <2>3. CASE ~StartBoot /\ ~FinishBoot
    BY <2>3 DEF Bsp, SendInit, SendSipi, FirstLook, Watch, SecondLook, ClearTrampoline, ClearLowPage,
                EndWait, stacks
  <2> QED BY <2>1, <2>2, <2>3
<1>3. /\ present' \in [APs -> BOOLEAN]
      /\ apc' = apc \/ (apc' = [apc EXCEPT ![cur] = "waiting"] /\ bpc = "init")
                    \/ (apc' = [apc EXCEPT ![cur] = "started"] /\ apc[cur] = "waiting")
  <2>1. CASE SendInit
    BY <2>1 DEF SendInit, BootTypeOK
  <2>2. CASE SendSipi \/ FirstLook
    BY <2>2 DEF SendSipi, FirstLook, AfterSipi, BootTypeOK
  <2>3. CASE SecondLook
    BY <2>3 DEF SecondLook, BootTypeOK
  <2>4. CASE StartBoot \/ Watch \/ FinishBoot \/ ClearTrampoline \/ ClearLowPage \/ EndWait
    BY <2>4 DEF StartBoot, Watch, FinishBoot, ClearTrampoline, ClearLowPage, EndWait, BootTypeOK
  <2> QED BY <2>1, <2>2, <2>3, <2>4 DEF Bsp
<1>4. /\ cur' = cur \/ (cur' = cur + 1 /\ cur \in APs /\ bpc' = "boot")
      /\ bpc' \in {"boot", "init"} => cur' = cur + 1 \/ bpc = "boot"
      /\ CurIsAp' /\ PastList'
  <2> USE DEF BootTypeOK, CurIsAp, PastList, Sleep, GotoB
  <2>1. CASE StartBoot
    BY <2>1 DEF StartBoot
  <2>2. CASE SendInit \/ SendSipi \/ FirstLook \/ Watch
    BY <2>2 DEF SendInit, SendSipi, FirstLook, Watch
  <2>3. CASE SecondLook \/ FinishBoot
    BY <2>3 DEF SecondLook, FinishBoot
  <2>4. CASE ClearTrampoline \/ ClearLowPage \/ EndWait
    BY <2>4 DEF ClearTrampoline, ClearLowPage, EndWait
  <2> QED BY <2>1, <2>2, <2>3, <2>4 DEF Bsp
<1>5. BootTypeOK'
  <2>1. apc' \in [APs -> ApLocations]
    BY <1>3 DEF BootTypeOK, ApLocations
  <2>2. cur' \in 1..NrAPs + 1
    BY <1>4 DEF BootTypeOK
  <2>3. nrStacks' \in Nat /\ stacktop' \in 0..nrStacks' /\ sp' \in [APs -> 0..nrStacks']
    BY <1>1, <1>2 DEF BootTypeOK
  <2>4. ticks' \in 0..TickMod-1 /\ start' \in 0..TickMod-1 /\ flag' \in 0..1
    BY <1>1 DEF BootTypeOK
  <2>5. trampmap' \in BOOLEAN /\ lowmap' \in BOOLEAN
    BY <1>1, Zenon DEF BootTypeOK
  <2>6. dead' \subseteq APs /\ bpc' \in BspLocations /\ ready' \in 1..NrAPs + 1
    BY <1>1 DEF BootTypeOK
  <2> QED BY <1>3, <2>1, <2>2, <2>3, <2>4, <2>5, <2>6 DEF BootTypeOK
<1>6. Untouched'
  BY <1>3, <1>4 DEF Untouched, BootTypeOK
<1>7. ReadyCounts'
  <2>1. bpc = "init" => apc[cur] = "off"
    BY DEF CurIsAp, Untouched
  <2>2. Online' = Online
    BY <1>3, <2>1 DEF Online, BootTypeOK
  <2> QED BY <1>1, <2>2 DEF ReadyCounts
<1> QED BY <1>4, <1>5, <1>6, <1>7

\* The other processors.
LEMMA ApBase ==
  ASSUME BaseInv, NEW a \in APs, Ap(a)
  PROVE  BaseInv'
<1> USE DEF BaseInv, NULL
<1>1. /\ UNCHANGED <<ticks, dead, bpc, cur, start, stacktop, nrStacks, present, trampmap, lowmap>>
      /\ flag' \in {flag, 1}
  BY DEF Ap, Trampoline, LoadStack, SetFlag, LeaveLow, PercpuInit, NotifyReady, bsp, stacks, maps
<1>2. /\ apc[a] \in {"started", "tramp", "boot_ap", "low", "main", "percpu"}
      /\ \E l \in ApLocations \ {"off", "waiting"} :
           /\ apc' = [apc EXCEPT ![a] = l]
           /\ l = "online" <=> NotifyReady(a)
  BY DEF Ap, Trampoline, LoadStack, SetFlag, LeaveLow, PercpuInit, NotifyReady, GotoA, ApLocations
<1>3. sp' \in [APs -> 0..nrStacks]
  BY DEF Ap, Trampoline, LoadStack, SetFlag, LeaveLow, PercpuInit, NotifyReady, BootTypeOK
<1>4. ready' \in 1..NrAPs + 1 /\ ReadyCounts'
  <2>1. CASE NotifyReady(a)
    BY <2>1, NotifyCounts
  <2>2. CASE ~NotifyReady(a)
    <3>1. ready' = ready
      BY <2>2 DEF Ap, Trampoline, LoadStack, SetFlag, LeaveLow, PercpuInit
    <3>2. Online' = Online
      BY <1>2, <2>2 DEF Online, BootTypeOK
    <3> QED BY <3>1, <3>2 DEF ReadyCounts, BootTypeOK
  <2> QED BY <2>1, <2>2
<1>5. BootTypeOK'
  <2>1. apc' \in [APs -> ApLocations]
    BY <1>2 DEF BootTypeOK
  <2>2. flag' \in 0..1 /\ present' \in [APs -> BOOLEAN] /\ trampmap' \in BOOLEAN /\ lowmap' \in BOOLEAN
    BY <1>1 DEF BootTypeOK
  <2> QED BY <1>1, <1>3, <1>4, <2>1, <2>2 DEF BootTypeOK
<1>6. CurIsAp' /\ PastList' /\ Untouched'
  BY <1>1, <1>2 DEF CurIsAp, PastList, Untouched, BootTypeOK
<1> QED BY <1>4, <1>5, <1>6

\* Every step.
LEMMA StepBase == BaseInv /\ [BootNext]_bootVars => BaseInv'
<1> SUFFICES ASSUME BaseInv, [BootNext]_bootVars PROVE BaseInv'
  OBVIOUS
<1>1. CASE Tick
  <2>1. ticks' \in 0..TickMod - 1
    BY <1>1, TickModAssumption DEF Tick, BaseInv, BootTypeOK
  <2> QED BY <1>1, <2>1 DEF Tick, bsp, stacks, maps, BaseInv, BootTypeOK, CurIsAp, PastList, Untouched,
                            ReadyCounts, Online
<1>2. CASE Bsp
  BY <1>2, BspBase
<1>3. ASSUME NEW a \in APs, Ap(a) PROVE BaseInv'
  BY <1>3, ApBase
<1>4. CASE UNCHANGED bootVars
  BY <1>4 DEF bootVars, bsp, stacks, maps, BaseInv, BootTypeOK, CurIsAp, PastList, Untouched, ReadyCounts, Online
<1> QED BY <1>1, <1>2, <1>3, <1>4 DEF BootNext

\* Types are kept, and no more processors are counted ready than there are
\* (smp_notify_ready), whatever the clock does.
THEOREM BootTypeCorrect == BootSpec => []BootTypeOK
<1>1. BaseInv => BootTypeOK
  BY DEF BaseInv
<1> QED BY <1>1, InitBase, StepBase, PTL DEF BootSpec

-----------------------------------------------------------------------------
(* Who is where.                                                           *)

\* One that is on its way to the flag is the one smp_boot is at, and smp_boot sleeps.
LEMMA ComingIsCur ==
  ASSUME BaseInv, PromptInv, NEW a \in APs, Coming(a)
  PROVE  /\ a = cur /\ cur \in APs /\ a \notin dead /\ a \notin Flagged
         /\ bpc \in {"again", "watch"} /\ ticks = start /\ flag = 0
         /\ lowmap /\ trampmap /\ stacktop # NULL
<1> USE DEF BaseInv, PromptInv
<1>1. apc[a] \in {"started", "tramp", "boot_ap"} /\ a \notin Flagged
  BY DEF Coming, Flagged
<1>2. ~(a > cur)
  BY <1>1 DEF Untouched
<1>3. ~(a < cur)
  BY <1>1 DEF BehindInv, Answered
<1>4. a = cur
  BY <1>2, <1>3 DEF BootTypeOK, APs
<1>5. bpc \notin {"boot", "init", "sipi"}
  BY <1>1, <1>4 DEF Untouched, CurInv
<1>6. bpc \in {"again", "watch", "check", "booted"}
  <2>1. bpc \notin {"clear", "wait", "done"}
    BY <1>4 DEF PastList
  <2> QED BY <1>5, <2>1 DEF BootTypeOK, BspLocations
<1> QED BY <1>1, <1>4, <1>6 DEF CurInv, MapsInv, Coming

\* Whoever has left the trampoline has loaded a stack.
LEMMA FlaggedLoaded == Flagged \subseteq Loaded /\ OnStack \subseteq Loaded
BY DEF Flagged, Loaded, OnStack

\* Booted processors, one stack each.
Booted == {a \in APs : a < cur /\ present[a]}

\* They can be counted.
LEMMA BootedFinite == IsFiniteSet(Booted) /\ Cardinality(Booted) \in Nat
BY ApsFinite, FS_Subset, FS_CardinalityType DEF Booted

\* NoStackLeak, by them.
LEMMA LeakByBooted ==
  NoStackLeak <=> nrStacks = Cardinality(Booted) + (IF stacktop = NULL THEN 0 ELSE 1)
BY DEF NoStackLeak, Booted

-----------------------------------------------------------------------------
(* The steps, if processors are prompt.                                    *)

\* Before the first processor is started.
LEMMA InitPrompt == BootInit => PromptInv
<1> SUFFICES ASSUME BootInit PROVE PromptInv
  OBVIOUS
<1> USE NrAPsAssumption DEF BootInit, APs, NULL
<1>1. BehindInv /\ AheadInv /\ CurInv /\ MapsInv
  BY DEF BehindInv, AheadInv, CurInv, MapsInv
<1>2. StackInv
  BY DEF StackInv, Loaded
<1>3. NoStackLeak
  <2>1. Booted = {}
    BY DEF Booted
  <2> QED BY <2>1, FS_EmptySet, LeakByBooted
<1> QED BY <1>1, <1>2, <1>3 DEF PromptInv

\* A tick comes only while nobody is on its way to the flag.
LEMMA TickPrompt ==
  ASSUME Prompt, BaseInv, PromptInv, Tick
  PROVE  PromptInv'
<1> USE DEF PromptInv, Tick, bsp, stacks, maps
<1>1. BehindInv' /\ AheadInv' /\ MapsInv'
  BY DEF BehindInv, AheadInv, MapsInv, Answered, Flagged
<1>2. CurInv'
  BY DEF CurInv, Coming, Flagged
<1>3. StackInv'
  BY DEF StackInv, Loaded
<1>4. NoStackLeak'
  BY DEF NoStackLeak
<1> QED BY <1>1, <1>2, <1>3, <1>4

\* A stack that is kept was loaded by nobody; a new one is higher than all others.
LEMMA StartBootPrompt ==
  ASSUME BaseInv, PromptInv, StartBoot
  PROVE  PromptInv'
<1> USE NrAPsAssumption DEF BaseInv, PromptInv
<1>1. /\ UNCHANGED <<ticks, dead, cur, present, trampmap, lowmap, apc, sp>>
      /\ bpc = "boot" /\ bpc' = "init" /\ flag' = 0 /\ cur \in APs
  BY DEF StartBoot, others, maps, Sleep, GotoB, FlagAtStart, APs, BootTypeOK
<1>2. \/ stacktop = NULL /\ nrStacks' = nrStacks + 1 /\ stacktop' = nrStacks + 1
      \/ stacktop # NULL /\ UNCHANGED <<stacktop, nrStacks>>
  BY DEF StartBoot, NeedsStack, stacks
<1>3. apc[cur] = "off"
  BY <1>1 DEF Untouched
<1>4. BehindInv' /\ AheadInv'
  BY <1>1 DEF BehindInv, AheadInv, Answered, Flagged
<1>5. CurInv'
  BY <1>1, <1>3 DEF CurInv, Flagged
<1>6. MapsInv'
  BY <1>1, <1>2 DEF MapsInv, BootTypeOK, NULL
<1>7. StackInv'
  <2>1. \A a \in Loaded : sp[a] # NULL /\ sp[a] # stacktop /\ sp[a] \in 0..nrStacks
    BY <1>1 DEF StackInv, Loaded, BootTypeOK
  <2>2. \A a \in Loaded : sp[a] # stacktop'
    BY <1>2, <2>1 DEF BootTypeOK
  <2>3. Loaded' = Loaded
    BY <1>1 DEF Loaded
  <2> QED BY <1>1, <2>1, <2>2, <2>3 DEF StackInv
<1>8. NoStackLeak'
  <2>1. Booted' = Booted
    BY <1>1 DEF Booted
  <2>2. nrStacks = Cardinality(Booted) + (IF stacktop = NULL THEN 0 ELSE 1)
    BY DEF NoStackLeak, Booted
  <2>3. nrStacks' = Cardinality(Booted) + (IF stacktop' = NULL THEN 0 ELSE 1)
    BY <1>2, <2>2, BootedFinite DEF NULL
  <2> QED BY <2>1, <2>3 DEF NoStackLeak, Booted
<1> QED BY <1>4, <1>5, <1>6, <1>7, <1>8

\* The two interrupts that start a processor.
LEMMA SendPrompt ==
  ASSUME BaseInv, PromptInv, SendInit \/ SendSipi \/ FirstLook
  PROVE  PromptInv'
<1> USE DEF BaseInv, PromptInv
<1>1. /\ UNCHANGED <<ticks, dead, cur, present, trampmap, lowmap, sp, stacktop, nrStacks, flag>>
      /\ bpc \in {"init", "sipi", "again"} /\ bpc' # "boot" /\ cur \in APs
  BY DEF SendInit, SendSipi, FirstLook, others, stacks, maps, Sleep, GotoB, CurIsAp
<1>2. \A a \in APs : a # cur => apc'[a] = apc[a]
  BY <1>1 DEF SendInit, SendSipi, FirstLook, AfterSipi, BootTypeOK
<1>3. Flagged' = Flagged /\ Loaded' = Loaded
  BY DEF SendInit, SendSipi, FirstLook, AfterSipi, BootTypeOK, Flagged, Loaded, CurIsAp, Untouched
<1>4. BehindInv'
  BY <1>1, <1>2, <1>3 DEF BehindInv, Answered, BootTypeOK, APs
<1>5. AheadInv' /\ MapsInv'
  BY <1>1 DEF AheadInv, MapsInv
<1>6. CurInv'
  <2>1. CASE SendInit
    <3>1. bpc = "init" /\ bpc' = "sipi" /\ apc[cur] = "off"
      BY <1>1, <2>1 DEF SendInit, Sleep, GotoB, Untouched
    <3>2. apc'[cur] = IF cur \in dead THEN "off" ELSE "waiting"
      BY <1>1, <2>1, <3>1 DEF SendInit, BootTypeOK
    <3> QED BY <1>1, <1>3, <3>1, <3>2 DEF CurInv
  <2>2. CASE SendSipi
    <3>1. bpc = "sipi" /\ bpc' = "again" /\ start' = ticks
      BY <2>2 DEF SendSipi, Sleep, GotoB
    <3>2. IF cur \in dead THEN apc'[cur] = "off" ELSE apc'[cur] \in {"waiting", "started"}
      BY <1>1, <2>2, <3>1 DEF SendSipi, AfterSipi, CurInv, BootTypeOK
    <3> QED BY <1>1, <1>3, <3>1, <3>2 DEF CurInv, Coming
  <2>3. CASE FirstLook
    <3>1. bpc = "again" /\ ticks # start
      BY <2>3, TickModAssumption DEF FirstLook, Elapsed, BootTypeOK
    <3>2. IF cur \in dead THEN apc[cur] = "off" ELSE apc[cur] = "waiting" \/ cur \in Flagged
      BY <1>1, <3>1 DEF CurInv
    <3>3. CASE flag = 0
      <4>1. bpc' = "watch" /\ start' = ticks /\ apc' = AfterSipi(FALSE)
        BY <2>3, <3>3 DEF FirstLook, Sleep, GotoB
      <4>2. cur \notin Flagged
        BY <1>1, <3>1, <3>3 DEF CurInv
      <4>3. apc'[cur] = IF cur \in dead THEN "off" ELSE "started"
        BY <1>1, <3>2, <4>1, <4>2 DEF AfterSipi, BootTypeOK
      <4> QED BY <1>1, <1>3, <4>1, <4>3 DEF CurInv, Coming
    <3>4. CASE flag # 0
      <4>1. bpc' = "booted" /\ apc' = apc /\ flag = 1
        BY <2>3, <3>4 DEF FirstLook, GotoB, BootTypeOK
      <4> QED BY <1>1, <1>3, <3>1, <3>2, <4>1 DEF CurInv
    <3> QED BY <3>3, <3>4
  <2> QED BY <2>1, <2>2, <2>3
<1>7. StackInv'
  BY <1>1, <1>3 DEF StackInv
<1>8. NoStackLeak'
  BY <1>1 DEF NoStackLeak
<1> QED BY <1>4, <1>5, <1>6, <1>7, <1>8

\* After the second interrupt, with the flag or without.
LEMMA WatchPrompt ==
  ASSUME BaseInv, PromptInv, Watch
  PROVE  PromptInv'
<1> USE DEF BaseInv, PromptInv
<1>1. /\ UNCHANGED <<ticks, dead, cur, present, trampmap, lowmap, apc, sp, stacktop, nrStacks, flag>>
      /\ bpc = "watch" /\ bpc' = "check" /\ cur \in APs
  BY DEF Watch, others, stacks, maps, GotoB, CurIsAp
<1>2. ~Coming(cur)
  BY <1>1, ComingIsCur, TickModAssumption DEF Watch, WatchOver, Elapsed, BootTypeOK
<1>3. CurInv'
  BY <1>1, <1>2 DEF CurInv, Flagged
<1>4. BehindInv' /\ AheadInv' /\ MapsInv' /\ StackInv' /\ NoStackLeak'
  BY <1>1 DEF BehindInv, AheadInv, MapsInv, StackInv, NoStackLeak, Answered, Flagged, Loaded
<1> QED BY <1>3, <1>4

\* The end of smp_boot, for one that answered and for one that did not.
LEMMA EndPrompt ==
  ASSUME BaseInv, PromptInv, SecondLook \/ FinishBoot
  PROVE  PromptInv'
<1> USE DEF BaseInv, PromptInv
<1>1. /\ UNCHANGED <<ticks, dead, trampmap, lowmap, apc, sp, nrStacks, flag>>
      /\ cur \in APs /\ cur \in Int /\ stacktop # NULL
  BY DEF SecondLook, FinishBoot, others, stacks, maps, CurIsAp, MapsInv, BootTypeOK
<1>2. Flagged' = Flagged /\ Loaded' = Loaded
  BY <1>1 DEF Flagged, Loaded
<1>3. CASE SecondLook /\ flag # 0
  <2>1. /\ UNCHANGED <<cur, present, stacktop>> /\ flag = 1
        /\ bpc = "check" /\ bpc' = "booted"
    BY <1>3 DEF SecondLook, GotoB, stacks, BootTypeOK
  <2>2. CurInv'
    BY <1>1, <1>2, <2>1 DEF CurInv
  <2>3. BehindInv' /\ AheadInv' /\ MapsInv' /\ StackInv' /\ NoStackLeak'
    BY <1>1, <1>2, <2>1 DEF BehindInv, AheadInv, MapsInv, StackInv, NoStackLeak, Answered
  <2> QED BY <2>2, <2>3
<1>4. CASE SecondLook /\ flag = 0
  <2>1. /\ cur' = cur + 1 /\ present' = [present EXCEPT ![cur] = FALSE] /\ stacktop' = stacktop
        /\ bpc = "check" /\ bpc' = "boot"
    BY <1>4 DEF SecondLook, GotoB, stacks
  <2>2. cur \in dead /\ apc[cur] = "off" /\ cur \notin Flagged
    BY <1>1, <1>4, <2>1 DEF CurInv, Flagged
  <2>3. \A a \in APs : a # cur => present'[a] = present[a]
    BY <2>1 DEF BootTypeOK
  <2>4. ~present'[cur]
    BY <1>1, <2>1 DEF BootTypeOK
  <2>5. \A a \in APs : a < cur' <=> a < cur \/ a = cur
    BY <1>1, <2>1 DEF APs
  <2>6. BehindInv'
    BY <1>1, <1>2, <2>2, <2>3, <2>4, <2>5 DEF BehindInv, Answered
  <2>7. AheadInv' /\ MapsInv'
    <3>1. \A a \in APs : a >= cur' => a >= cur /\ a # cur
      BY <1>1, <2>1 DEF APs
    <3>2. AheadInv'
      BY <2>3, <3>1 DEF AheadInv
    <3>3. MapsInv'
      BY <1>1, <2>1 DEF MapsInv
    <3> QED BY <3>2, <3>3
  <2>8. CurInv'
    BY <2>1 DEF CurInv
  <2>9. StackInv'
    <3>1. cur \notin Loaded
      BY <2>2 DEF Loaded
    <3> QED BY <1>1, <1>2, <2>1, <3>1 DEF StackInv
  <2>10. NoStackLeak'
    <3>1. ASSUME NEW a \in APs PROVE (a < cur' /\ present'[a]) <=> (a < cur /\ present[a])
      <4>1. ~(cur < cur)
        BY <1>1 DEF APs
      <4>2. CASE a = cur
        BY <4>1, <4>2, <2>4
      <4>3. CASE a # cur
        BY <4>3, <2>3, <2>5
      <4> QED BY <4>2, <4>3
    <3>2. Booted' = Booted
      BY <3>1 DEF Booted
    <3> QED BY <1>1, <2>1, <3>2 DEF NoStackLeak, Booted
  <2> QED BY <2>6, <2>7, <2>8, <2>9, <2>10
<1>5. CASE FinishBoot
  <2>1. /\ cur' = cur + 1 /\ present' = present /\ stacktop' = NULL
        /\ bpc = "booted" /\ bpc' = "boot"
    BY <1>5 DEF FinishBoot, GotoB, StackAfter
  <2>2. cur \in Flagged /\ present[cur] /\ cur \notin dead
    BY <1>1, <2>1 DEF CurInv, AheadInv, Flagged, BootTypeOK
  <2>3. \A a \in APs : a < cur' <=> a < cur \/ a = cur
    BY <1>1, <2>1 DEF APs
  <2>4. BehindInv'
    BY <1>1, <1>2, <2>1, <2>2, <2>3 DEF BehindInv, Answered
  <2>5. AheadInv' /\ MapsInv' /\ CurInv'
    <3>1. \A a \in APs : a >= cur' => a >= cur
      BY <1>1, <2>1 DEF APs
    <3> QED BY <1>1, <2>1, <3>1 DEF AheadInv, MapsInv, CurInv
  <2>6. StackInv'
    BY <1>1, <1>2, <2>1 DEF StackInv
  <2>7. NoStackLeak'
    <3>1. Booted' = Booted \cup {cur} /\ cur \notin Booted
      <4>1. \A a \in APs : (a < cur' /\ present'[a]) <=> ((a < cur /\ present[a]) \/ a = cur)
        BY <1>1, <2>1, <2>2, <2>3
      <4>2. ~(cur < cur)
        BY <1>1
      <4> QED BY <1>1, <4>1, <4>2 DEF Booted
    <3>2. Cardinality(Booted') = Cardinality(Booted) + 1
      BY <3>1, BootedFinite, FS_AddElement
    <3>3. nrStacks = Cardinality(Booted) + 1
      BY <1>1 DEF NoStackLeak, Booted
    <3> QED BY <1>1, <2>1, <3>2, <3>3 DEF NoStackLeak, Booted
  <2> QED BY <2>4, <2>5, <2>6, <2>7
<1> QED BY <1>3, <1>4, <1>5 DEF BootTypeOK

\* After the list.
LEMMA ClearPrompt ==
  ASSUME BaseInv, PromptInv, ClearTrampoline \/ ClearLowPage \/ EndWait
  PROVE  PromptInv'
<1> USE DEF BaseInv, PromptInv
<1>1. /\ UNCHANGED <<ticks, dead, cur, present, apc, sp, stacktop, nrStacks, flag>>
  BY DEF ClearTrampoline, ClearLowPage, EndWait, others, stacks
<1>2. cur \notin APs
  <2>1. CASE ClearTrampoline
    BY <2>1, NrAPsAssumption DEF ClearTrampoline, APs
  <2>2. CASE ClearLowPage \/ EndWait
    BY <2>2 DEF ClearLowPage, EndWait, PastList
  <2> QED BY <2>1, <2>2
<1>3. bpc' # "boot"
  BY DEF ClearTrampoline, ClearLowPage, EndWait, GotoB, Sleep
<1>4. CurInv' /\ MapsInv'
  BY <1>1, <1>2 DEF CurInv, MapsInv
<1>5. BehindInv' /\ AheadInv' /\ StackInv' /\ NoStackLeak'
  BY <1>1, <1>3 DEF BehindInv, AheadInv, StackInv, NoStackLeak, Answered, Flagged, Loaded
<1> QED BY <1>4, <1>5

\* A processor on its way to the flag ...
LEMMA ComingPrompt ==
  ASSUME BaseInv, PromptInv, NEW a \in APs, Trampoline(a) \/ LoadStack(a) \/ SetFlag(a)
  PROVE  PromptInv'
<1> USE DEF BaseInv, PromptInv
<1>1. Coming(a)
  BY DEF Trampoline, LoadStack, SetFlag, Coming
<1>2. /\ a = cur /\ cur \in APs /\ a \notin dead /\ a \notin Flagged
      /\ bpc \in {"again", "watch"} /\ ticks = start /\ flag = 0
      /\ lowmap /\ trampmap /\ stacktop # NULL
  BY <1>1, ComingIsCur
<1>3. /\ UNCHANGED <<ticks, dead, bpc, cur, start, present, trampmap, lowmap, stacktop, nrStacks>>
      /\ \A b \in APs : b # a => apc'[b] = apc[b] /\ sp'[b] = sp[b]
  BY DEF Trampoline, LoadStack, SetFlag, GotoA, bsp, stacks, maps, BootTypeOK
<1>4. \/ Trampoline(a) /\ apc'[a] = "tramp" /\ flag' = 0
      \/ LoadStack(a) /\ apc'[a] = "boot_ap" /\ flag' = 0 /\ sp'[a] = stacktop
      \/ SetFlag(a) /\ apc[a] = "boot_ap" /\ apc'[a] = "low" /\ flag' = 1 /\ sp' = sp
  BY <1>2 DEF Trampoline, LoadStack, SetFlag, GotoA, Mapped, BootTypeOK
<1>5. BehindInv'
  BY <1>2, <1>3 DEF BehindInv, Answered, Flagged, BootTypeOK, APs
<1>6. AheadInv' /\ MapsInv' /\ NoStackLeak'
  BY <1>3 DEF AheadInv, MapsInv, NoStackLeak
<1>7. CurInv'
  <2>1. cur \in Flagged' <=> flag' = 1
    BY <1>2, <1>4 DEF Flagged
  <2>2. Coming(cur)' \/ cur \in Flagged'
    BY <1>2, <1>3, <1>4 DEF Flagged, Coming
  <2> QED BY <1>2, <1>3, <1>4, <2>1, <2>2 DEF CurInv
<1>8. StackInv'
  <2>1. CASE Trampoline(a)
    <3>1. Loaded' = Loaded /\ sp' = sp
      BY <1>2, <1>3, <1>4, <2>1 DEF Trampoline, Loaded, LoadStack, SetFlag
    <3> QED BY <1>3, <3>1 DEF StackInv
  <2>2. CASE LoadStack(a)
    <3>1. Loaded' = Loaded \cup {a} /\ a \notin Loaded /\ sp'[a] = stacktop
      BY <1>2, <1>3, <1>4, <2>2 DEF LoadStack, Loaded, Trampoline, SetFlag
    <3>2. \A b \in Loaded : sp[b] # stacktop
      BY <1>2, <3>1 DEF StackInv
    <3> QED BY <1>2, <1>3, <3>1, <3>2 DEF StackInv, Loaded
  <2>3. CASE SetFlag(a)
    <3>1. Loaded' = Loaded /\ sp' = sp
      BY <1>2, <1>3, <1>4, <2>3 DEF SetFlag, Loaded, Trampoline, LoadStack
    <3> QED BY <1>3, <3>1 DEF StackInv
  <2> QED BY <2>1, <2>2, <2>3
<1> QED BY <1>5, <1>6, <1>7, <1>8

\* ... and past it.
LEMMA PastFlagPrompt ==
  ASSUME BaseInv, PromptInv, NEW a \in APs, LeaveLow(a) \/ PercpuInit(a) \/ NotifyReady(a)
  PROVE  PromptInv'
<1> USE DEF BaseInv, PromptInv
<1>1. /\ UNCHANGED <<ticks, dead, bpc, cur, start, present, trampmap, lowmap, stacktop, nrStacks,
                    flag, sp>>
      /\ \A b \in APs : b # a => apc'[b] = apc[b]
      /\ apc[a] \in {"low", "main", "percpu"} /\ apc'[a] \in {"main", "percpu", "online", "faulted"}
  BY DEF LeaveLow, PercpuInit, NotifyReady, GotoA, bsp, stacks, maps, BootTypeOK
<1>2. Flagged' = Flagged /\ Loaded' = Loaded /\ a \in Flagged
  BY <1>1 DEF Flagged, Loaded
<1>3. BehindInv'
  BY <1>1, <1>2 DEF BehindInv, Answered, Flagged
<1>4. CurInv'
  BY <1>1, <1>2 DEF CurInv, Flagged, Coming
<1>5. AheadInv' /\ MapsInv' /\ StackInv' /\ NoStackLeak'
  BY <1>1, <1>2 DEF AheadInv, MapsInv, StackInv, NoStackLeak
<1> QED BY <1>3, <1>4, <1>5

-----------------------------------------------------------------------------

\* The whole invariant.
HandoverInv == BaseInv /\ PromptInv

\* Every step keeps it.
LEMMA StepHandover ==
  ASSUME Prompt, HandoverInv, [BootNext]_bootVars
  PROVE  HandoverInv'
<1> USE DEF HandoverInv
<1>1. BaseInv'
  BY StepBase
<1>2. CASE Tick
  BY <1>1, <1>2, TickPrompt
<1>3. CASE Bsp
  BY <1>1, <1>3, StartBootPrompt, SendPrompt, WatchPrompt, EndPrompt, ClearPrompt DEF Bsp
<1>4. ASSUME NEW a \in APs, Ap(a) PROVE HandoverInv'
  BY <1>1, <1>4, ComingPrompt, PastFlagPrompt DEF Ap
<1>5. CASE UNCHANGED bootVars
  <2>1. UNCHANGED <<ticks, dead, bpc, cur, start, present, trampmap, lowmap, stacktop, nrStacks,
                    flag, sp, apc>>
    BY <1>5 DEF bootVars, bsp, stacks, maps
  <2> QED BY <1>1, <2>1 DEF PromptInv, BehindInv, AheadInv, CurInv, MapsInv, StackInv, NoStackLeak,
                            Answered, Flagged, Loaded, Coming
<1> QED BY <1>2, <1>3, <1>4, <1>5 DEF BootNext

\* The invariant says that the hand-over is right.
LEMMA InvHandover == HandoverInv => HandoverRight
<1> SUFFICES ASSUME HandoverInv PROVE HandoverRight
  OBVIOUS
<1> USE DEF HandoverInv, BaseInv, PromptInv
<1>1. FlagIsOwn
  <2>1. bpc = "booted" => cur \in Flagged
    BY DEF CurIsAp, CurInv
  <2>2. bpc \in {"init", "sipi"} => cur \in APs /\ cur \notin Flagged
    BY DEF CurIsAp, CurInv, Untouched, Flagged
  <2>3. bpc \in {"init", "sipi"} => flag = 0
    BY <2>2 DEF CurInv
  <2> QED BY <2>1, <2>3 DEF FlagIsOwn
<1>2. \A a \in APs : a < cur \/ a >= cur
  BY DEF BootTypeOK, APs
<1>3. FailedNeverRuns
  BY <1>2 DEF FailedNeverRuns, BehindInv, AheadInv, Answered
<1>4. PresentAnswers
  <2>1. cur > NrAPs => \A a \in APs : a < cur
    BY NrAPsAssumption DEF BootTypeOK, APs
  <2> QED BY <2>1 DEF PresentAnswers, BehindInv, Answered
<1>5. StackExclusive
  BY FlaggedLoaded DEF StackExclusive, StackInv
<1> QED BY <1>1, <1>3, <1>4, <1>5 DEF HandoverRight

\* However many processors there are and whichever of them never answer: if a processor
\* that started sets smp_ap_started_flag before the next tick, no flag or stack of one is
\* ever taken for another's (smp_boot), even where the boot processor misses ticks.
THEOREM HandoverIsRight ==
  ASSUME Prompt
  PROVE  BootSpec => []HandoverRight
<1>1. BootInit => HandoverInv
  BY InitBase, InitPrompt DEF HandoverInv
<1>2. HandoverInv /\ [BootNext]_bootVars => HandoverInv'
  BY StepHandover
<1> QED BY <1>1, <1>2, InvHandover, PTL DEF BootSpec
=============================================================================
