--------------------------- MODULE InterruptProofs ---------------------------
(***************************************************************************)
(* For any number of processors and lines and whatever the firmware says:  *)
(* interrupt_handler signals the end of an interrupt before its handler    *)
(* runs, and still handlers run alone (HandlersAlone).                     *)
(*                                                                         *)
(* An interrupt is ended early only because its vector is registered as    *)
(* ISR_IRQ, or not at all.  So the invariant follows a vector from the     *)
(* redirection entry it was written to, by way of what a local APIC has    *)
(* noted, to what it has in service.                                       *)
(*                                                                         *)
(* For tables that are sound (SoundTables), the second half: from when the *)
(* boot processor enables interrupts, only the clock's line is open and is *)
(* wired right (ClockWired), and a handler finds what it uses              *)
(* (HandlerReady).  The invariant follows the boot processor: what it has  *)
(* read, which lines it has wired, and that no timer is there before it    *)
(* gets to the scheduler.                                                  *)
(***************************************************************************)
EXTENDS Interrupts, FiniteSetTheorems, TLAPS

\* The vectors of interrupts that a local APIC keeps in service.
LineVectors == {IRQ_BASE + g : g \in Gsis}
Accepted    == LineVectors \cup {IRQ_LINT_TIMER}

RedirFields == {"vec", "low", "level", "dest", "masked"}
ApicFields  == {"enabled", "timer", "nmi", "irr", "isr"}

Locations == {"off", "apic", "parse", "low", "high", "mask", "idt", "local", "clock", "unmask",
              "sti", "smp", "boot", "percpu", "sched", "sync", "try", "idle", "halted"}

Override == [type : {"override"}, source : Nat, gsi : Nat, flags : SUBSET {2, 8}]

\* The types of the variables the argument is about.
Types ==
  /\ hd \in Nat \ {0} /\ madt \in Madts /\ overrides \in Seq(Override)
  /\ DOMAIN redir = Gsis /\ \A g \in Gsis : DOMAIN redir[g] = RedirFields
  /\ DOMAIN apic = CPUs /\ \A c \in CPUs : DOMAIN apic[c] = ApicFields
  /\ handlers \in [Vectors -> [type : {"ISR_IRQ", "ISR_EXCEPTION"},
                               handler : {"none", "exception", "clock", "sched"}]]
  /\ pc \in [CPUs -> Locations] /\ iff \in [CPUs -> BOOLEAN]
  /\ frames \in [CPUs -> Seq(Frame)]

\* The tables are read only if there are any.
Parsing == (pc[BSP] = "parse" => madt # NoMadt) /\ (pc[BSP] = "idt" => madt = NoMadt)

\* The first k lines to wire have their vector.
Wired(k) == \A j \in 1..k : (j <= Len(Wirings) /\ Wirings[j].gsi \in Gsis) =>
                              redir[Wirings[j].gsi].vec = IRQ_BASE + Wirings[j].gsi

\* How far ioapic_init is.
WiringInv ==
  /\ pc[BSP] = "low" => Wired(hd - 1)
  /\ pc[BSP] \in {"high", "mask"} => Wired(hd)
  /\ (pc[BSP] \in {"local", "clock", "unmask"} /\ madt # NoMadt) => Wired(Len(Wirings))

\* A line is opened only after it has its vector.
OpenLines == \A g \in Gsis : ~redir[g].masked => redir[g].vec = IRQ_BASE + g

\* What is noted is one of these vectors, and those are registered as ISR_IRQ.
Noted     == \A c \in CPUs : apic[c].irr \subseteq Accepted
Endable   == \A v \in Accepted : handlers[v].type = "ISR_IRQ"

\* The innermost frames of a processor: an exception is on top only once it has a handler,
\* and what else is there is one of these vectors or spurious.
FramesInv ==
  \A c \in CPUs : \A i \in DOMAIN frames[c] :
    /\ frames[c][i].vec \in Accepted \cup {INT_FAULT, IRQ_SPURIOUS}
    /\ frames[c][i].vec = INT_FAULT => handlers[INT_FAULT].handler = "exception"

IInv == /\ Types /\ Parsing /\ WiringInv /\ OpenLines /\ Noted /\ Endable
        /\ FramesInv /\ HandlersAlone

-----------------------------------------------------------------------------
(* Numbers.                                                                *)

\* A set of natural numbers that is not empty has a least element: the intervals up to
\* its elements are well-founded by inclusion.
LEMMA MinIsLeast ==
  ASSUME NEW S \in SUBSET Nat, S # {}
  PROVE  Min(S) \in S /\ \A y \in S : Min(S) <= y
<1> DEFINE R == StrictSubsetOrdering(Nat)
           T == {0..x : x \in S}
<1>1. T \subseteq FiniteSubsetsOf(Nat)
  <2> SUFFICES ASSUME NEW x \in S PROVE 0..x \in FiniteSubsetsOf(Nat)
    OBVIOUS
  <2>1. x \in Int /\ 0 \in Int
    OBVIOUS
  <2>2. IsFiniteSet(0..x)
    BY <2>1, FS_Interval
  <2> QED BY <2>2 DEF FiniteSubsetsOf
<1>2. T # {}
  OBVIOUS
<1>3. IsWellFoundedOn(R, FiniteSubsetsOf(Nat))
  BY FS_StrictSubsetOrderingWellFounded
<1>4. PICK t \in T : \A u \in T : ~(<<u, t>> \in R)
  <2> HIDE DEF R, T
  <2> QED BY <1>1, <1>2, <1>3, WFMin
<1>5. PICK x \in S : t = 0..x
  OBVIOUS
<1>6. ASSUME NEW y \in S, y < x PROVE FALSE
  <2>1. 0..y \subseteq 0..x /\ 0..y # 0..x
    BY <1>6
  <2>2. <<0..y, 0..x>> \in R
    BY <2>1 DEF StrictSubsetOrdering
  <2> QED BY <1>4, <1>5, <2>2
<1>7. \A y \in S : x <= y
  BY <1>6
<1> QED BY <1>7 DEF Min

\* A set of vectors that is not empty has a greatest element.
LEMMA MaxIsGreatest ==
  ASSUME NEW S \in SUBSET 0..255, S # {}
  PROVE  Max(S) \in S
<1> DEFINE T == {255 - x : x \in S}
<1>1. T \in SUBSET Nat /\ T # {}
  OBVIOUS
<1>2. PICK t \in T : \A y \in T : t <= y
  BY <1>1, MinIsLeast
<1>3. PICK x \in S : t = 255 - x
  BY <1>2
<1>4. ASSUME NEW y \in S PROVE x >= y
  <2>1. 255 - y \in T
    OBVIOUS
  <2>2. 255 - x <= 255 - y
    BY <1>2, <1>3, <2>1
  <2> QED BY <2>2
<1> QED BY <1>4 DEF Max

\* The vectors are numbers of 8 bits, and what is kept in service is none of the others.
LEMMA VectorFacts ==
  /\ Vectors \subseteq 0..255 /\ Accepted \subseteq Vectors
  /\ {INT_FAULT, IRQ_SPURIOUS, IRQ_NMI} \cap Accepted = {}
  /\ {INT_FAULT, IRQ_SPURIOUS} \subseteq Vectors
  /\ \A v \in Accepted : ~(v < IRQ_BASE)
BY LinesAssumption, VectorsAssumption
DEF Vectors, Accepted, LineVectors, Gsis, INT_FAULT, IRQ_NMI, IRQ_LINT_TIMER, IRQ_SPURIOUS,
    IRQ_BASE

\* The line of the clock is one of those ioapic_init wires.
LEMMA ClockIsWired ==
  ASSUME Types
  PROVE  /\ Len(Wirings) \in Nat /\ IsaToGsi(CLOCK_IRQ) \in Nat
         /\ \E j \in 1..Len(Wirings) : Wirings[j].gsi = IsaToGsi(CLOCK_IRQ)
<1> DEFINE of == {i \in DOMAIN overrides : overrides[i].source = CLOCK_IRQ}
<1>1. overrides \in Seq(Override) /\ NrIsa \in Nat \ {0}
  BY LinesAssumption DEF Types
<1>2. /\ Len(Wirings) = NrIsa + Len(overrides)
      /\ \A j \in 1..NrIsa : Wirings[j].gsi = j - 1
      /\ \A i \in 1..Len(overrides) : Wirings[NrIsa + i] = overrides[i]
  BY <1>1 DEF Wirings, IsaLine
<1>3. CASE of = {}
  <2>1. IsaToGsi(CLOCK_IRQ) = 0
    BY <1>3 DEF IsaToGsi, CLOCK_IRQ
  <2>2. Wirings[1].gsi = 0
    BY <1>1, <1>2
  <2> QED BY <1>1, <1>2, <2>1, <2>2
<1>4. CASE of # {}
  <2>1. IsaToGsi(CLOCK_IRQ) = overrides[Min(of)].gsi
    BY <1>4 DEF IsaToGsi
  <2>2. of \in SUBSET Nat
    BY <1>1
  <2>3. Min(of) \in 1..Len(overrides)
    <3>1. of \subseteq 1..Len(overrides)
      BY <1>1
    <3> HIDE DEF of
    <3> QED BY <1>4, <2>2, <3>1, MinIsLeast
  <2>4. Wirings[NrIsa + Min(of)].gsi = IsaToGsi(CLOCK_IRQ)
    BY <1>2, <2>1, <2>3
  <2>5. NrIsa + Min(of) \in 1..Len(Wirings)
    <3> HIDE DEF of
    <3> QED BY <1>1, <1>2, <2>3
  <2>6. overrides[Min(of)].gsi \in Nat
    <3>1. \A i \in 1..Len(overrides) : overrides[i] \in Override
      BY <1>1
    <3>2. \A i \in 1..Len(overrides) : overrides[i].gsi \in Nat
      BY <3>1 DEF Override
    <3> QED BY <2>3, <3>2
  <2>7. IsaToGsi(CLOCK_IRQ) \in Nat
    BY <2>1, <2>6
  <2> HIDE DEF of
  <2> QED BY <1>1, <1>2, <2>4, <2>5, <2>7
<1> QED BY <1>1, <1>2, <1>3, <1>4

-----------------------------------------------------------------------------
(* The invariant.                                                          *)

\* The boot processor starts with everything masked and nothing on top of its code.
LEMMA InitIInv == Init => IInv
<1> SUFFICES ASSUME Init PROVE IInv
  OBVIOUS
<1> USE VectorFacts, CPUsAssumption, LinesAssumption DEF Init, BSP
<1>1. Types
  <2>1. hd \in Nat \ {0} /\ madt \in Madts /\ overrides \in Seq(Override)
    OBVIOUS
  <2>2. DOMAIN redir = Gsis /\ \A g \in Gsis : DOMAIN redir[g] = RedirFields
    BY DEF Masked, RedirFields
  <2>3. DOMAIN apic = CPUs /\ \A c \in CPUs : DOMAIN apic[c] = ApicFields
    BY DEF ApicFields
  <2>4. handlers \in [Vectors -> [type : {"ISR_IRQ", "ISR_EXCEPTION"},
                                  handler : {"none", "exception", "clock", "sched"}]]
    BY DEF Unregistered
  <2>5. pc \in [CPUs -> Locations]
    BY DEF Locations
  <2>6. iff \in [CPUs -> BOOLEAN]
    BY Zenon
  <2>7. frames \in [CPUs -> Seq(Frame)]
    OBVIOUS
  <2> QED BY <2>1, <2>2, <2>3, <2>4, <2>5, <2>6, <2>7 DEF Types
<1>2. Parsing /\ WiringInv
  BY DEF Parsing, WiringInv
<1>3. OpenLines
  BY DEF OpenLines, Masked
<1>4. Noted /\ Endable
  BY DEF Noted, Endable, Unregistered
<1>5. FramesInv /\ HandlersAlone
  BY DEF FramesInv, HandlersAlone
<1> QED BY <1>1, <1>2, <1>3, <1>4, <1>5 DEF IInv

\* A step of a processor's own code that leaves lines, handlers and local APICs alone.
Quiet(c) == \/ InterruptEnable(c) \/ PercpuInit(c) \/ TimerSync(c) \/ ApStart(c)
            \/ c = BSP /\ (ApicInit \/ ParseEnd \/ SmpInit \/ BootEnd)

\* These steps only open interrupts, on a processor with nothing on top of its code.
LEMMA QuietStep ==
  ASSUME IInv, NEW c \in CPUs, Quiet(c)
  PROVE  IInv'
<1> USE CPUsAssumption DEF BSP, Locations
<1>1. UNCHANGED <<madt, overrides, redir, handlers, apic, frames>>
  BY DEF Quiet, InterruptEnable, PercpuInit, TimerSync, ApStart, ApicInit, ParseEnd, SmpInit,
         BootEnd, tables
<1>2. /\ iff' \in [CPUs -> BOOLEAN]
      /\ \A d \in CPUs : iff'[d] => iff[d] \/ (d = c /\ frames[c] = <<>>)
  <2>1. CASE InterruptEnable(c)
    BY <2>1 DEF IInv, Types, InterruptEnable, Runs
  <2>2. CASE c = BSP /\ SmpInit
    BY <2>2 DEF IInv, Types, SmpInit, Panic
  <2>3. CASE ~InterruptEnable(c) /\ ~(c = BSP /\ SmpInit)
    <3>1. iff' = iff
      BY <2>3 DEF Quiet, PercpuInit, TimerSync, ApStart, ApicInit, ParseEnd, BootEnd
    <3> QED BY <3>1 DEF IInv, Types
  <2> QED BY <2>1, <2>2, <2>3
<1>3. /\ pc' \in [CPUs -> Locations] /\ hd' \in Nat \ {0}
      /\ pc'[BSP] = "parse" => madt # NoMadt
      /\ pc'[BSP] = "idt" => madt = NoMadt
      /\ pc'[BSP] = "low" => (pc[BSP] = "low" /\ hd' = hd) \/ hd' = 1
      /\ pc'[BSP] \in {"high", "mask"} => pc[BSP] = pc'[BSP] /\ hd' = hd
      /\ pc'[BSP] \in {"local", "clock", "unmask"} => pc[BSP] = pc'[BSP]
  <2>1. CASE InterruptEnable(c)
    BY <2>1 DEF IInv, Types, Parsing, InterruptEnable, Goto, AfterSti, tables
  <2>2. CASE PercpuInit(c) \/ TimerSync(c)
    BY <2>2 DEF IInv, Types, Parsing, PercpuInit, TimerSync, Goto, tables
  <2>3. CASE ApStart(c)
    BY <2>3 DEF IInv, Types, Parsing, ApStart, Goto, Runs, tables
  <2>4. CASE c = BSP /\ (ApicInit \/ ParseEnd)
    BY <2>4 DEF IInv, Types, Parsing, ApicInit, ParseEnd, Goto, tables
  <2>5. CASE c = BSP /\ (SmpInit \/ BootEnd)
    BY <2>5 DEF IInv, Types, Parsing, SmpInit, BootEnd, Goto, Panic, tables
  <2> QED BY <2>1, <2>2, <2>3, <2>4, <2>5 DEF Quiet
<1>4. Types'
  BY <1>1, <1>2, <1>3 DEF IInv, Types
<1>5. Parsing' /\ WiringInv'
  <2>1. \A k : Wired(k) => Wired(k)'
    BY <1>1 DEF Wired, Wirings
  <2>2. Wired(0)' /\ Len(Wirings)' = Len(Wirings)
    BY <1>1 DEF Wired, Wirings
  <2> QED BY <1>1, <1>3, <2>1, <2>2 DEF IInv, Parsing, WiringInv
<1>6. OpenLines' /\ Noted' /\ Endable' /\ FramesInv'
  BY <1>1 DEF IInv, OpenLines, Noted, Endable, FramesInv
<1>7. HandlersAlone'
  BY <1>1, <1>2, ZenonT(40) DEF IInv, Types, HandlersAlone
<1> QED BY <1>4, <1>5, <1>6, <1>7 DEF IInv

\* parse_madt keeps what the wiring needs of the overrides: their types.
LEMMA ParseEntryStep == IInv /\ ParseEntry => IInv'
<1> SUFFICES ASSUME IInv, ParseEntry PROVE IInv'
  OBVIOUS
<1> USE CPUsAssumption DEF BSP
<1>1. UNCHANGED <<madt, redir, handlers, pc, apic, iff, frames>> /\ pc[BSP] = "parse"
  BY DEF ParseEntry, Runs
<1>2. Types'
  <2>1. madt[hd] \in Entry /\ hd' \in Nat \ {0}
    BY <1>1, MadtsAssumption DEF IInv, Types, Parsing, ParseEntry
  <2>2. madt[hd].type = "override" => madt[hd] \in Override
    BY <2>1 DEF Entry, Override
  <2>3. overrides' \in Seq(Override)
    BY <2>2 DEF IInv, Types, ParseEntry
  <2> QED BY <1>1, <2>1, <2>3 DEF IInv, Types
<1>3. Parsing' /\ WiringInv'
  BY <1>1 DEF IInv, Parsing, WiringInv
<1>4. OpenLines' /\ Noted' /\ Endable' /\ FramesInv' /\ HandlersAlone'
  BY <1>1 DEF IInv, OpenLines, Noted, Endable, FramesInv, HandlersAlone
<1> QED BY <1>2, <1>3, <1>4 DEF IInv

\* What does not touch lines and tables keeps what is known of them.
LEMMA SameLines ==
  ASSUME IInv, UNCHANGED <<madt, hd, overrides, redir>>, pc'[BSP] = pc[BSP]
  PROVE  Parsing' /\ WiringInv' /\ OpenLines'
<1>1. \A k : Wired(k) => Wired(k)'
  BY DEF Wired, Wirings
<1>2. Len(Wirings)' = Len(Wirings)
  BY DEF Wirings
<1>3. WiringInv'
  BY <1>1, <1>2 DEF IInv, WiringInv
<1> QED BY <1>3 DEF IInv, Parsing, OpenLines

\* What the write of the lower half of the redirection entry of line h does.
LEMMA EntryWritten ==
  ASSUME Types, NEW h, NEW low, NEW level,
         redir' = [redir EXCEPT ![h] = [@ EXCEPT !.vec = IRQ_BASE + h, !.masked = FALSE,
                                                 !.low = low, !.level = level]]
  PROVE  /\ DOMAIN redir' = Gsis /\ \A g \in Gsis : DOMAIN redir'[g] = RedirFields
         /\ \A g \in Gsis : redir'[g].vec = IF g = h THEN IRQ_BASE + g ELSE redir[g].vec
         /\ \A g \in Gsis : ~redir'[g].masked => g = h \/ ~redir[g].masked
<1> USE DEF Types, RedirFields
<1>1. DOMAIN redir' = Gsis /\ \A g \in Gsis : DOMAIN redir'[g] = RedirFields
  OBVIOUS
<1>2. \A g \in Gsis : redir'[g].vec = IF g = h THEN IRQ_BASE + g ELSE redir[g].vec
  OBVIOUS
<1>3. \A g \in Gsis : ~redir'[g].masked => g = h \/ ~redir[g].masked
  OBVIOUS
<1> QED BY <1>1, <1>2, <1>3

\* What the other writes do: to one field, and the mask is only set.
LEMMA FieldWritten ==
  ASSUME Types, NEW h, NEW x,
         \/ redir' = [redir EXCEPT ![h].dest = x]
         \/ redir' = [redir EXCEPT ![h].masked = TRUE]
  PROVE  /\ DOMAIN redir' = Gsis /\ \A g \in Gsis : DOMAIN redir'[g] = RedirFields
         /\ \A g \in Gsis : redir'[g].vec = redir[g].vec
         /\ \A g \in Gsis : ~redir'[g].masked => ~redir[g].masked
<1> USE DEF Types, RedirFields
<1>1. CASE redir' = [redir EXCEPT ![h].dest = x]
  BY <1>1
<1>2. CASE redir' = [redir EXCEPT ![h].masked = TRUE]
  BY <1>2
<1> QED BY <1>1, <1>2

\* ioapic_redirect and ioapic_mask.
LEMMA WireStep == IInv /\ (RedirectLow \/ RedirectHigh \/ Mask) => IInv'
<1> SUFFICES ASSUME IInv, RedirectLow \/ RedirectHigh \/ Mask PROVE IInv'
  OBVIOUS
<1> USE CPUsAssumption DEF BSP, Locations
<1>1. UNCHANGED <<madt, overrides, handlers, apic, frames>>
  BY DEF RedirectLow, RedirectHigh, Mask, tables
<1>2. iff' \in [CPUs -> BOOLEAN] /\ \A d \in CPUs : iff'[d] => iff[d]
  <2>1. CASE RedirectLow
    BY <2>1 DEF IInv, Types, RedirectLow, Panic
  <2>2. CASE RedirectHigh \/ Mask
    BY <2>2 DEF IInv, Types, RedirectHigh, Mask
  <2> QED BY <2>1, <2>2
<1> DEFINE w == Wirings[hd]
<1>3. /\ DOMAIN redir' = Gsis /\ \A g \in Gsis : DOMAIN redir'[g] = RedirFields
      /\ \A g \in Gsis : redir'[g].vec # redir[g].vec => redir'[g].vec = IRQ_BASE + g
      /\ \A g \in Gsis : ~redir'[g].masked => ~redir[g].masked \/ redir'[g].vec = IRQ_BASE + g
      /\ pc'[BSP] = "high" /\ w.gsi \in Gsis => redir'[w.gsi].vec = IRQ_BASE + w.gsi
  <2>1. CASE RedirectLow
    <3>1. CASE Found(w.gsi)
      <4>1. redir' = [redir EXCEPT ![w.gsi] =
               [@ EXCEPT !.vec = IRQ_BASE + w.gsi, !.masked = FALSE,
                         !.low = 2 \in w.flags, !.level = 8 \in w.flags]]
        BY <2>1, <3>1 DEF RedirectLow
      <4> QED BY <4>1, EntryWritten DEF IInv
    <3>2. CASE ~Found(w.gsi)
      <4>1. redir' = redir /\ pc'[BSP] = "halted"
        BY <2>1, <3>2 DEF IInv, Types, RedirectLow, Panic, Goto
      <4> QED BY <4>1 DEF IInv, Types
    <3> QED BY <3>1, <3>2
  <2>2. CASE RedirectHigh
    <3>1. redir' = [redir EXCEPT ![w.gsi].dest = lapics[1].id] /\ pc'[BSP] = "mask"
      BY <2>2 DEF IInv, Types, RedirectHigh, Goto
    <3> QED BY <3>1, FieldWritten DEF IInv
  <2>3. CASE Mask
    <3>1. redir' = [redir EXCEPT ![w.gsi].masked = TRUE] /\ pc'[BSP] = "low"
      BY <2>3 DEF IInv, Types, Mask, Goto
    <3> QED BY <3>1, FieldWritten DEF IInv
  <2> QED BY <2>1, <2>2, <2>3
<1>5. OpenLines'
  BY <1>3 DEF IInv, OpenLines
<1>6. Types'
  <2>1. pc' \in [CPUs -> Locations] /\ hd' \in Nat \ {0}
    <3>1. CASE RedirectLow
      BY <3>1 DEF IInv, Types, RedirectLow, Goto, Panic, tables
    <3>2. CASE RedirectHigh
      BY <3>2 DEF IInv, Types, RedirectHigh, Goto, tables
    <3>3. CASE Mask
      BY <3>3 DEF IInv, Types, Mask, Goto
    <3> QED BY <3>1, <3>2, <3>3
  <2> QED BY <1>1, <1>2, <1>3, <2>1 DEF IInv, Types
<1>7. Parsing' /\ WiringInv'
  <2>1. \A k : Wired(k) => Wired(k)'
    BY <1>1, <1>3 DEF Wired, Wirings
  <2>2. CASE RedirectLow
    <3>1. pc'[BSP] \in {"high", "halted"} /\ hd' = hd /\ Wired(hd - 1)
      BY <2>2 DEF IInv, Types, WiringInv, RedirectLow, Runs, Goto, Panic, tables
    <3>4. pc'[BSP] = "high" => Wired(hd)'
      <4> SUFFICES ASSUME pc'[BSP] = "high", NEW j \in 1..hd, (j <= Len(Wirings))',
                          (Wirings[j].gsi)' \in Gsis
                   PROVE  (redir[Wirings[j].gsi].vec = IRQ_BASE + Wirings[j].gsi)'
        BY <3>1 DEF Wired
      <4>1. UNCHANGED Wirings /\ hd \in Nat \ {0}
        BY <1>1 DEF Wirings, IInv, Types
      <4>2. CASE j = hd
        BY <1>3, <4>1, <4>2
      <4>3. CASE j # hd
        <5>1. j \in 1..hd - 1
          BY <4>1, <4>3
        <5> QED BY <2>1, <3>1, <5>1 DEF Wired
      <4> QED BY <4>2, <4>3
    <3> QED BY <3>1, <3>4 DEF Parsing, WiringInv
  <2>3. CASE RedirectHigh
    <3>1. pc'[BSP] = "mask" /\ hd' = hd /\ Wired(hd)
      BY <2>3 DEF IInv, Types, WiringInv, RedirectHigh, Runs, Goto, tables
    <3> QED BY <2>1, <3>1 DEF Parsing, WiringInv
  <2>4. CASE Mask
    <3>1. pc'[BSP] = "low" /\ hd' - 1 = hd /\ Wired(hd)
      BY <2>4 DEF IInv, Types, WiringInv, Mask, Runs, Goto, tables
    <3> QED BY <2>1, <3>1 DEF Parsing, WiringInv
  <2> QED BY <2>2, <2>3, <2>4
<1>8. Noted' /\ Endable' /\ FramesInv' /\ HandlersAlone'
  BY <1>1, <1>2 DEF IInv, Noted, Endable, FramesInv, HandlersAlone
<1> QED BY <1>5, <1>6, <1>7, <1>8 DEF IInv

\* exception_init, and the end of ioapic_init before it.
LEMMA ExceptionInitStep == IInv /\ ExceptionInit => IInv'
<1> SUFFICES ASSUME IInv, ExceptionInit PROVE IInv'
  OBVIOUS
<1> USE CPUsAssumption, VectorFacts DEF BSP, Locations
<1>1. UNCHANGED <<madt, hd, overrides, redir, apic, iff, frames>> /\ pc'[BSP] = "local"
  BY DEF ExceptionInit, tables, Goto, IInv, Types
<1>2. /\ handlers' \in [Vectors -> [type : {"ISR_IRQ", "ISR_EXCEPTION"},
                                   handler : {"none", "exception", "clock", "sched"}]]
      /\ handlers'[INT_FAULT].handler = "exception"
      /\ \A v \in Accepted : handlers'[v] = handlers[v]
  BY DEF ExceptionInit, WithExceptions, IInv, Types, INT_FAULT, IRQ_BASE
<1>3. Types'
  <2>1. pc' \in [CPUs -> Locations]
    BY DEF ExceptionInit, Goto, IInv, Types
  <2> QED BY <1>1, <1>2, <2>1 DEF IInv, Types
<1>4. Parsing' /\ WiringInv'
  <2>1. madt # NoMadt => Wired(Len(Wirings))
    <3>1. CASE pc[BSP] = "low" /\ hd > Len(Wirings)
      <4>1. Len(Wirings) \in Nat /\ hd \in Nat /\ Wired(hd - 1)
        BY <3>1, ClockIsWired DEF IInv, Types, WiringInv
      <4> QED BY <3>1, <4>1 DEF Wired
    <3>2. CASE pc[BSP] = "idt"
      BY <3>2 DEF IInv, Parsing
    <3> QED BY <3>1, <3>2 DEF ExceptionInit, Runs
  <2>2. madt # NoMadt => Wired(Len(Wirings))'
    BY <1>1, <2>1 DEF Wired, Wirings
  <2> QED BY <1>1, <2>2 DEF Parsing, WiringInv
<1>5. OpenLines' /\ Noted' /\ Endable' /\ FramesInv' /\ HandlersAlone'
  BY <1>1, <1>2 DEF IInv, OpenLines, Noted, Endable, FramesInv, HandlersAlone
<1> QED BY <1>3, <1>4, <1>5 DEF IInv

\* A handler registered as ISR_IRQ for a vector that is no exception's.
LEMMA RegisterStep ==
  ASSUME IInv, NEW v, v # INT_FAULT, NEW h \in {"clock", "sched"}, Register(v, "ISR_IRQ", h)
  PROVE  /\ handlers' \in [Vectors -> [type : {"ISR_IRQ", "ISR_EXCEPTION"},
                                     handler : {"none", "exception", "clock", "sched"}]]
         /\ handlers'[INT_FAULT] = handlers[INT_FAULT] /\ Endable'
<1>1. handlers' \in [Vectors -> [type : {"ISR_IRQ", "ISR_EXCEPTION"},
                                handler : {"none", "exception", "clock", "sched"}]]
  BY DEF IInv, Types, Register
<1>2. handlers'[INT_FAULT] = handlers[INT_FAULT]
  BY VectorFacts DEF IInv, Types, Register
<1>3. Endable'
  BY VectorFacts DEF IInv, Types, Endable, Register
<1> QED BY <1>1, <1>2, <1>3

\* clock_init.
LEMMA ClockStep == IInv /\ (ClockInit \/ UnmaskClock) => IInv'
<1> SUFFICES ASSUME IInv, ClockInit \/ UnmaskClock PROVE IInv'
  OBVIOUS
<1> USE CPUsAssumption DEF BSP, Locations
<1>1. UNCHANGED <<madt, hd, overrides, apic, iff, frames>> /\ pc' \in [CPUs -> Locations]
  BY DEF ClockInit, UnmaskClock, tables, Goto, IInv, Types
<1>2. Wirings' = Wirings
  BY <1>1 DEF Wirings
<1>3. CASE ClockInit
  <2>1. Register(IRQ_BASE + IsaToGsi(CLOCK_IRQ), "ISR_IRQ", "clock") /\ redir' = redir
    BY <1>3 DEF ClockInit
  <2>2. IRQ_BASE + IsaToGsi(CLOCK_IRQ) # INT_FAULT
    BY ClockIsWired DEF IInv, IRQ_BASE, INT_FAULT
  <2>3. /\ handlers' \in [Vectors -> [type : {"ISR_IRQ", "ISR_EXCEPTION"},
                                     handler : {"none", "exception", "clock", "sched"}]]
        /\ handlers'[INT_FAULT] = handlers[INT_FAULT] /\ Endable'
    BY <2>1, <2>2, RegisterStep
  <2>4. pc[BSP] = "clock" /\ pc'[BSP] = "unmask"
    BY <1>3 DEF ClockInit, Runs, Goto, IInv, Types
  <2>5. Parsing' /\ WiringInv'
    BY <1>1, <1>2, <2>1, <2>4 DEF IInv, Parsing, WiringInv, Wired
  <2>6. Types'
    BY <1>1, <2>1, <2>3 DEF IInv, Types
  <2>7. OpenLines' /\ Noted' /\ FramesInv' /\ HandlersAlone'
    BY <1>1, <2>1, <2>3 DEF IInv, OpenLines, Noted, FramesInv, HandlersAlone
  <2> QED BY <2>3, <2>5, <2>6, <2>7 DEF IInv
<1>4. CASE UnmaskClock
  <2> DEFINE g0 == IsaToGsi(CLOCK_IRQ)
  <2>1. handlers' = handlers /\ pc[BSP] = "unmask" /\ pc'[BSP] = "sti"
    BY <1>4 DEF UnmaskClock, Runs, Goto, IInv, Types
  <2>2. redir' = redir \/ (madt # NoMadt /\ redir' = [redir EXCEPT ![g0].masked = FALSE])
    BY <1>4 DEF UnmaskClock
  <2>3. madt # NoMadt /\ g0 \in Gsis => redir[g0].vec = IRQ_BASE + g0
    BY <2>1, ClockIsWired DEF IInv, WiringInv, Wired
  <2>4. DOMAIN redir' = Gsis /\ \A g \in Gsis : DOMAIN redir'[g] = RedirFields
    BY <2>2 DEF IInv, Types, RedirFields
  <2>5. OpenLines'
    BY <2>2, <2>3 DEF IInv, Types, OpenLines, RedirFields
  <2>6. Types'
    BY <1>1, <2>1, <2>4 DEF IInv, Types
  <2>7. Parsing' /\ WiringInv'
    BY <2>1 DEF Parsing, WiringInv
  <2>8. Noted' /\ Endable' /\ FramesInv' /\ HandlersAlone'
    BY <1>1, <2>1 DEF IInv, Noted, Endable, FramesInv, HandlersAlone
  <2> QED BY <2>5, <2>6, <2>7, <2>8 DEF IInv
<1> QED BY <1>3, <1>4

-----------------------------------------------------------------------------
(* Local APICs and what they interrupt.                                    *)

\* What is known of a processor with nothing on top of its own code.
LEMMA NothingInService ==
  ASSUME IInv, NEW c \in CPUs, frames[c] = <<>>
  PROVE  apic[c].isr = {}
BY DEF IInv, HandlersAlone

\* Handlers run alone on one processor, with its frames, flag and interrupts in service.
Alone(fs, on, isr) ==
  /\ fs # <<>> => ~on
  /\ \A i \in DOMAIN fs : i > 1 => fs[i].vec = INT_FAULT
  /\ isr = IF fs # <<>> /\ fs[1].at = "entry" /\ fs[1].vec \notin {INT_FAULT, IRQ_SPURIOUS}
           THEN {fs[1].vec} ELSE {}

\* Before a step and after it.
LEMMA AloneEach ==
  /\ HandlersAlone <=> \A c \in CPUs : Alone(frames[c], iff[c], apic[c].isr)
  /\ HandlersAlone' <=> \A c \in CPUs : Alone(frames'[c], iff'[c], apic'[c].isr)
BY DEF HandlersAlone, Alone

\* A step of one processor.
LEMMA AloneStep ==
  ASSUME IInv, NEW c \in CPUs,
         \A d \in CPUs \ {c} : /\ frames'[d] = frames[d] /\ iff'[d] = iff[d]
                              /\ apic'[d].isr = apic[d].isr,
         Alone(frames'[c], iff'[c], apic'[c].isr)
  PROVE  HandlersAlone'
<1>1. \A d \in CPUs : Alone(frames[d], iff[d], apic[d].isr)
  BY AloneEach DEF IInv
<1>2. \A d \in CPUs \ {c} : Alone(frames'[d], iff'[d], apic'[d].isr)
  BY <1>1
<1> QED BY <1>2, AloneEach

\* The end of an interrupt that is not there ends nothing.
LEMMA NothingEnded == Ended({}) = {}
BY DEF Ended

\* lapic_enable.
LEMMA LapicEnableStep ==
  ASSUME IInv, NEW c \in CPUs, LapicEnable(c)
  PROVE  IInv'
<1> USE CPUsAssumption, VectorFacts DEF BSP, Locations
<1>1. /\ UNCHANGED <<madt, hd, overrides, redir, iff, frames>>
      /\ pc' \in [CPUs -> Locations] /\ frames[c] = <<>>
  BY DEF LapicEnable, tables, Runs, Goto, IInv, Types
<1>2. /\ DOMAIN apic' = CPUs /\ \A d \in CPUs : DOMAIN apic'[d] = ApicFields
      /\ \A d \in CPUs : apic'[d].irr = apic[d].irr /\ apic'[d].isr = apic[d].isr
  <2>1. CASE madt = NoMadt
    BY <2>1 DEF LapicEnable, IInv, Types
  <2>2. CASE madt # NoMadt
    <3> DEFINE lints == {nmis[i].lint : i \in {i \in DOMAIN nmis : nmis[i].acpi \in {c, 255}}}
    <3>1. apic' = [apic EXCEPT ![c].enabled = TRUE, ![c].isr = Ended(@), ![c].nmi = lints]
      BY <2>2 DEF LapicEnable
    <3>2. Ended(apic[c].isr) = apic[c].isr
      BY <1>1, NothingInService, NothingEnded
    <3> HIDE DEF lints
    <3> QED BY <3>1, <3>2 DEF IInv, Types, ApicFields
  <2> QED BY <2>1, <2>2
<1>3. /\ handlers' \in [Vectors -> [type : {"ISR_IRQ", "ISR_EXCEPTION"},
                                   handler : {"none", "exception", "clock", "sched"}]]
      /\ handlers'[INT_FAULT] = handlers[INT_FAULT] /\ Endable'
  <2>1. CASE Register(IRQ_LINT_TIMER, "ISR_IRQ", "sched")
    <3>1. IRQ_LINT_TIMER # INT_FAULT
      BY DEF IRQ_LINT_TIMER, INT_FAULT
    <3> QED BY <2>1, <3>1, RegisterStep
  <2>2. CASE handlers' = handlers
    BY <2>2 DEF IInv, Types, Endable
  <2> QED BY <2>1, <2>2 DEF LapicEnable
<1>4. Types'
  BY <1>1, <1>2, <1>3 DEF IInv, Types
<1>5. Parsing' /\ WiringInv' /\ OpenLines'
  <2>1. CASE c = BSP
    <3>1. pc[BSP] = "local" /\ pc'[BSP] = "clock"
      BY <2>1 DEF LapicEnable, Runs, Goto, IInv, Types
    <3> QED BY <1>1, <3>1 DEF IInv, Parsing, WiringInv, OpenLines, Wired, Wirings
  <2>2. CASE c # BSP
    <3>1. pc'[BSP] = pc[BSP]
      BY <2>2 DEF LapicEnable, Goto, IInv, Types
    <3> QED BY <1>1, <3>1, SameLines
  <2> QED BY <2>1, <2>2
<1>6. Noted'
  BY <1>2 DEF IInv, Noted
<1>7. FramesInv'
  BY <1>1, <1>3 DEF IInv, FramesInv
<1>8. HandlersAlone'
  BY <1>1, <1>2, ZenonT(40) DEF IInv, HandlersAlone
<1> QED BY <1>3, <1>4, <1>5, <1>6, <1>7, <1>8 DEF IInv

\* What a local APIC notes, from a line or from its timer.
LEMMA NoteStep ==
  ASSUME IInv, (\E g \in Gsis : Raise(g)) \/ (\E c \in CPUs : LocalTimer(c))
  PROVE  IInv'
<1> USE CPUsAssumption DEF BSP
<1>1. UNCHANGED <<madt, hd, overrides, redir, handlers, pc, iff, frames>>
  BY DEF Raise, LocalTimer, tables
<1>2. \E d : \E v \in Accepted : Notes(d, v)
  <2>1. CASE \E g \in Gsis : Raise(g)
    <3>1. PICK g \in Gsis : Raise(g)
      BY <2>1
    <3>2. redir[g].vec \in Accepted
      BY <3>1 DEF Raise, IInv, OpenLines, Accepted, LineVectors
    <3>3. Notes(redir[g].dest, redir[g].vec)
      BY <3>1 DEF Raise
    <3> QED BY <3>2, <3>3
  <2>2. CASE \E c \in CPUs : LocalTimer(c)
    <3>1. PICK c \in CPUs : LocalTimer(c)
      BY <2>2
    <3>2. Notes(c, IRQ_LINT_TIMER) /\ IRQ_LINT_TIMER \in Accepted
      BY <3>1 DEF LocalTimer, Accepted
    <3> QED BY <3>2
  <2> QED BY <2>1, <2>2
<1>3. /\ DOMAIN apic' = CPUs /\ \A c \in CPUs : DOMAIN apic'[c] = ApicFields
      /\ \A c \in CPUs : apic'[c].irr \subseteq Accepted /\ apic'[c].isr = apic[c].isr
  <2>1. PICK d : \E v \in Accepted : Notes(d, v)
    BY <1>2
  <2>2. PICK v \in Accepted : Notes(d, v)
    BY <2>1
  <2>3. apic' = [apic EXCEPT ![d].irr = @ \cup {v}]
    BY <2>2 DEF Notes
  <2> QED BY <2>3 DEF IInv, Types, Noted, ApicFields
<1>4. Types'
  BY <1>1, <1>3 DEF IInv, Types
<1>5. Parsing' /\ WiringInv' /\ OpenLines'
  BY <1>1, SameLines
<1>6. Noted'
  BY <1>3 DEF Noted
<1>7. Endable' /\ FramesInv'
  BY <1>1 DEF IInv, Endable, FramesInv
<1>8. HandlersAlone'
  BY <1>1, <1>3 DEF IInv, HandlersAlone
<1> QED BY <1>4, <1>5, <1>6, <1>7, <1>8 DEF IInv

\* The calibration of a local timer.
LEMMA TimerStep ==
  ASSUME IInv, NEW c \in CPUs, TimerTry(c) \/ TimerEnable(c)
  PROVE  IInv'
<1> USE CPUsAssumption DEF BSP, Locations
<1>1. /\ UNCHANGED <<madt, hd, overrides, redir, handlers, iff, frames>>
      /\ pc' \in [CPUs -> Locations]
  BY DEF TimerTry, TimerEnable, tables, Goto, IInv, Types
<1>2. /\ DOMAIN apic' = CPUs /\ \A d \in CPUs : DOMAIN apic'[d] = ApicFields
      /\ \A d \in CPUs : apic'[d].irr = apic[d].irr /\ apic'[d].isr = apic[d].isr
  <2>1. CASE TimerTry(c)
    BY <2>1 DEF TimerTry, IInv, Types, ApicFields
  <2>2. CASE TimerEnable(c)
    BY <2>2 DEF TimerEnable, IInv, Types, ApicFields
  <2> QED BY <2>1, <2>2
<1>3. Types'
  BY <1>1, <1>2 DEF IInv, Types
<1>4. Parsing' /\ WiringInv' /\ OpenLines'
  <2>1. CASE c = BSP
    <3>1. pc'[BSP] \in {"try", "idle"}
      BY <2>1 DEF TimerTry, TimerEnable, Goto, IInv, Types
    <3> QED BY <1>1, <3>1 DEF IInv, Parsing, WiringInv, OpenLines
  <2>2. CASE c # BSP
    <3>1. pc'[BSP] = pc[BSP]
      BY <2>2 DEF TimerTry, TimerEnable, Goto, IInv, Types
    <3> QED BY <1>1, <3>1, SameLines
  <2> QED BY <2>1, <2>2
<1>5. Noted' /\ Endable' /\ FramesInv' /\ HandlersAlone'
  BY <1>1, <1>2 DEF IInv, Noted, Endable, FramesInv, HandlersAlone
<1> QED BY <1>3, <1>4, <1>5 DEF IInv

\* What an interrupt does to the frames: none but an exception comes on top of another.
LEMMA PushStep ==
  ASSUME IInv, NEW c \in CPUs, NEW v \in Accepted \cup {INT_FAULT, IRQ_SPURIOUS}, Push(c, v),
         v = INT_FAULT \/ frames[c] = <<>>,
         v = INT_FAULT => handlers[INT_FAULT].handler = "exception",
         UNCHANGED handlers
  PROVE  /\ iff' \in [CPUs -> BOOLEAN] /\ frames' \in [CPUs -> Seq(Frame)] /\ FramesInv'
         /\ \A d \in CPUs \ {c} : iff'[d] = iff[d] /\ frames'[d] = frames[d]
         /\ ~iff'[c] /\ frames'[c] # <<>>
         /\ \A i \in DOMAIN frames'[c] : i > 1 => frames'[c][i].vec = INT_FAULT
         /\ frames[c] # <<>> => frames'[c][1] = frames[c][1]
         /\ frames[c] = <<>> => frames'[c][1].vec = v /\ frames'[c][1].at = "entry"
<1> DEFINE f == [vec |-> v, at |-> "entry", iff |-> iff[c]]
<1>1. iff' = [iff EXCEPT ![c] = FALSE] /\ frames' = [frames EXCEPT ![c] = Append(@, f)]
  BY DEF Push, Gate
<1>2. /\ iff' \in [CPUs -> BOOLEAN] /\ ~iff'[c]
      /\ \A d \in CPUs \ {c} : iff'[d] = iff[d]
  BY <1>1 DEF IInv, Types
<1>3. f \in Frame
  <2>1. iff[c] \in BOOLEAN
    BY DEF IInv, Types
  <2> QED BY <2>1, VectorFacts DEF Frame
<1>4. /\ frames[c] \in Seq(Frame) /\ frames'[c] = Append(frames[c], f)
      /\ \A d \in CPUs \ {c} : frames'[d] = frames[d]
  BY <1>1 DEF IInv, Types
<1>5. frames' \in [CPUs -> Seq(Frame)]
  BY <1>1, <1>3, <1>4 DEF IInv, Types
<1>6. /\ frames'[c] # <<>>
      /\ \A i \in DOMAIN frames'[c] : frames'[c][i] = f \/ (i \in DOMAIN frames[c] /\ frames'[c][i] = frames[c][i])
      /\ frames[c] # <<>> => frames'[c][1] = frames[c][1]
      /\ frames[c] = <<>> => frames'[c][1] = f /\ DOMAIN frames'[c] = {1}
  <2> HIDE DEF f
  <2> QED BY <1>3, <1>4
<1>7. FramesInv'
  <2> SUFFICES ASSUME NEW d \in CPUs, NEW i \in DOMAIN frames'[d]
               PROVE  /\ frames'[d][i].vec \in Accepted \cup {INT_FAULT, IRQ_SPURIOUS}
                      /\ frames'[d][i].vec = INT_FAULT => handlers'[INT_FAULT].handler = "exception"
    BY DEF FramesInv
  <2>1. CASE d # c
    BY <1>4, <2>1 DEF IInv, FramesInv
  <2>2. CASE d = c /\ frames'[d][i] = f
    BY <2>2
  <2>3. CASE d = c /\ i \in DOMAIN frames[c] /\ frames'[d][i] = frames[c][i]
    BY <2>3 DEF IInv, FramesInv
  <2> QED BY <1>6, <2>1, <2>2, <2>3
<1>8. \A i \in DOMAIN frames'[c] : i > 1 => frames'[c][i].vec = INT_FAULT
  <2>1. \A i \in DOMAIN frames[c] : i > 1 => frames[c][i].vec = INT_FAULT
    BY DEF IInv, HandlersAlone
  <2>2. CASE v = INT_FAULT
    BY <1>6, <2>1, <2>2
  <2>3. CASE frames[c] = <<>>
    BY <1>6, <2>3
  <2> QED BY <2>2, <2>3
<1> QED BY <1>2, <1>4, <1>5, <1>6, <1>7, <1>8

\* A processor accepts an interrupt only with nothing on top of its code or in service.
LEMMA AcceptStep ==
  ASSUME IInv, NEW c \in CPUs, Accept(c)
  PROVE  IInv'
<1> USE CPUsAssumption DEF BSP
<1> DEFINE v == Max(apic[c].irr)
<1>1. UNCHANGED <<madt, hd, overrides, redir, handlers, pc>>
  BY DEF Accept, tables
<1>2. iff[c] /\ apic[c].irr # {} /\ apic[c].irr \subseteq Accepted
  BY DEF Accept, IInv, Noted
<1>3. v \in Accepted
  <2>1. apic[c].irr \in SUBSET (0..255)
    BY <1>2, VectorFacts
  <2> QED BY <1>2, <2>1, MaxIsGreatest
<1>4. frames[c] = <<>> /\ apic[c].isr = {}
  BY <1>2, NothingInService DEF IInv, HandlersAlone
<1>5. /\ apic' = [apic EXCEPT ![c].irr = @ \ {v}, ![c].isr = @ \cup {v}]
      /\ Push(c, v)
  BY DEF Accept
<1>6. v # INT_FAULT /\ v # IRQ_SPURIOUS
  BY <1>3, VectorFacts
<1> HIDE DEF v
<1>7. /\ iff' \in [CPUs -> BOOLEAN] /\ frames' \in [CPUs -> Seq(Frame)] /\ FramesInv'
      /\ \A d \in CPUs \ {c} : iff'[d] = iff[d] /\ frames'[d] = frames[d]
      /\ ~iff'[c] /\ frames'[c] # <<>>
      /\ \A i \in DOMAIN frames'[c] : i > 1 => frames'[c][i].vec = INT_FAULT
      /\ frames'[c][1].vec = v /\ frames'[c][1].at = "entry"
  BY <1>1, <1>3, <1>4, <1>5, <1>6, PushStep
<1>8. /\ DOMAIN apic' = CPUs /\ \A d \in CPUs : DOMAIN apic'[d] = ApicFields
      /\ \A d \in CPUs : apic'[d].irr \subseteq apic[d].irr
      /\ \A d \in CPUs \ {c} : apic'[d].isr = apic[d].isr
      /\ apic'[c].isr = {v}
  BY <1>4, <1>5 DEF IInv, Types, ApicFields
<1>9. Types'
  BY <1>1, <1>7, <1>8 DEF IInv, Types
<1>10. Parsing' /\ WiringInv' /\ OpenLines'
  BY <1>1, SameLines
<1>11. Noted' /\ Endable'
  BY <1>1, <1>8 DEF IInv, Noted, Endable
<1>12. HandlersAlone'
  <2>1. Alone(frames'[c], iff'[c], apic'[c].isr)
    BY <1>6, <1>7, <1>8 DEF Alone
  <2> QED BY <1>7, <1>8, <2>1, AloneStep
<1> QED BY <1>7, <1>9, <1>10, <1>11, <1>12 DEF IInv

\* Spurious interrupts and exceptions, which nothing is in service for.
LEMMA UnservedStep ==
  ASSUME IInv, NEW c \in CPUs, Spurious(c) \/ Fault(c)
  PROVE  IInv'
<1> USE CPUsAssumption DEF BSP
<1>1. UNCHANGED <<madt, hd, overrides, redir, handlers, pc, apic>>
  BY DEF Spurious, Fault, tables
<1>2. /\ iff' \in [CPUs -> BOOLEAN] /\ frames' \in [CPUs -> Seq(Frame)] /\ FramesInv'
      /\ \A d \in CPUs \ {c} : iff'[d] = iff[d] /\ frames'[d] = frames[d]
      /\ ~iff'[c] /\ frames'[c] # <<>>
      /\ \A i \in DOMAIN frames'[c] : i > 1 => frames'[c][i].vec = INT_FAULT
      /\ frames[c] # <<>> => frames'[c][1] = frames[c][1]
      /\ frames[c] = <<>> => frames'[c][1].vec \in {INT_FAULT, IRQ_SPURIOUS}
  <2>1. CASE Spurious(c)
    <3>1. Push(c, IRQ_SPURIOUS) /\ frames[c] = <<>>
      BY <2>1 DEF Spurious, IInv, HandlersAlone
    <3>2. IRQ_SPURIOUS # INT_FAULT
      BY DEF IRQ_SPURIOUS, INT_FAULT
    <3> QED BY <1>1, <3>1, <3>2, PushStep
  <2>2. CASE Fault(c)
    <3>1. Push(c, INT_FAULT) /\ handlers[INT_FAULT].handler = "exception"
      BY <2>2 DEF Fault
    <3> QED BY <1>1, <3>1, PushStep
  <2> QED BY <2>1, <2>2
<1>3. Types'
  BY <1>1, <1>2 DEF IInv, Types
<1>4. Parsing' /\ WiringInv' /\ OpenLines'
  BY <1>1, SameLines
<1>5. Noted' /\ Endable'
  BY <1>1 DEF IInv, Noted, Endable
<1>6. HandlersAlone'
  <2>1. Alone(frames[c], iff[c], apic[c].isr)
    BY AloneEach DEF IInv
  <2>2. Alone(frames'[c], iff'[c], apic'[c].isr)
    <3>1. CASE frames[c] = <<>>
      BY <1>1, <1>2, <2>1, <3>1 DEF Alone
    <3>2. CASE frames[c] # <<>>
      BY <1>1, <1>2, <2>1, <3>2 DEF Alone
    <3> QED BY <3>1, <3>2
  <2> QED BY <1>1, <1>2, <2>2, AloneStep
<1> QED BY <1>2, <1>3, <1>4, <1>5, <1>6 DEF IInv

\* The end of the interrupt on top: it ends that interrupt, or none.
LEMMA EoiStep ==
  ASSUME IInv, NEW c \in CPUs, Eoi(c)
  PROVE  IInv'
<1> USE CPUsAssumption DEF BSP
<1> DEFINE n == Len(frames[c])
           v == frames[c][n].vec
<1>1. UNCHANGED <<madt, hd, overrides, redir, handlers, pc, iff>>
  BY DEF Eoi, tables
<1>2. /\ frames[c] \in Seq(Frame) /\ frames[c] # <<>> /\ n \in Nat \ {0}
      /\ frames[c][n].at = "entry"
  BY DEF Eoi, Interrupted, Top, IInv, Types
<1>3. /\ apic' = [apic EXCEPT ![c].isr = EndedBy(v, @)]
      /\ frames' = [frames EXCEPT ![c][n].at = "handler"]
  BY DEF Eoi, Top
<1>4. /\ \A d \in CPUs \ {c} : frames'[d] = frames[d]
      /\ frames'[c] = [frames[c] EXCEPT ![n] = [frames[c][n] EXCEPT !.at = "handler"]]
      /\ DOMAIN frames' = CPUs
  BY <1>3 DEF IInv, Types
<1>5. /\ frames[c][n] \in Frame
      /\ [frames[c][n] EXCEPT !.at = "handler"] \in Frame
  <2>1. frames[c][n] \in Frame
    BY <1>2
  <2> HIDE DEF n, v
  <2> QED BY <2>1 DEF Frame
<1>6. /\ frames'[c] \in Seq(Frame) /\ frames'[c] # <<>> /\ DOMAIN frames'[c] = DOMAIN frames[c]
      /\ \A i \in DOMAIN frames[c] : frames'[c][i].vec = frames[c][i].vec
      /\ \A i \in DOMAIN frames[c] \ {n} : frames'[c][i] = frames[c][i]
      /\ frames'[c][n].at = "handler"
  BY <1>2, <1>4, <1>5 DEF Frame
<1>7. frames' \in [CPUs -> Seq(Frame)]
  BY <1>3, <1>4, <1>6 DEF IInv, Types
<1>8. /\ DOMAIN apic' = CPUs /\ \A d \in CPUs : DOMAIN apic'[d] = ApicFields
      /\ \A d \in CPUs : apic'[d].irr = apic[d].irr
      /\ \A d \in CPUs \ {c} : apic'[d].isr = apic[d].isr
      /\ apic'[c].isr = EndedBy(v, apic[c].isr)
  BY <1>3 DEF IInv, Types, ApicFields
<1>9. Types'
  BY <1>1, <1>7, <1>8 DEF IInv, Types
<1>10. Parsing' /\ WiringInv' /\ OpenLines'
  BY <1>1, SameLines
<1>11. Noted' /\ Endable'
  BY <1>1, <1>8 DEF IInv, Noted, Endable
<1>12. FramesInv'
  <2> SUFFICES ASSUME NEW d \in CPUs, NEW i \in DOMAIN frames'[d]
               PROVE  /\ frames'[d][i].vec \in Accepted \cup {INT_FAULT, IRQ_SPURIOUS}
                      /\ frames'[d][i].vec = INT_FAULT => handlers'[INT_FAULT].handler = "exception"
    BY DEF FramesInv
  <2>1. i \in DOMAIN frames[d] /\ frames'[d][i].vec = frames[d][i].vec
    BY <1>4, <1>6
  <2> HIDE DEF n, v
  <2> QED BY <1>1, <2>1 DEF IInv, FramesInv
<1>13. HandlersAlone'
  <2>1. Alone(frames[c], iff[c], apic[c].isr)
    BY AloneEach DEF IInv
  <2>2. \A i \in DOMAIN frames[c] : frames[c][i].vec \in Accepted \cup {INT_FAULT, IRQ_SPURIOUS}
    BY DEF IInv, FramesInv
  <2>3. n \in DOMAIN frames[c] /\ 1 \in DOMAIN frames[c] /\ n >= 1
    BY <1>2
  <2>4. CASE n = 1
    <3>1. EndedBy(v, apic[c].isr) = {}
      <4>1. CASE v \in {INT_FAULT, IRQ_SPURIOUS}
        BY <2>1, <2>4, <4>1 DEF Alone, EndedBy
      <4>2. CASE v \in Accepted
        <5>1. v \notin {INT_FAULT, IRQ_SPURIOUS} /\ v \in Int /\ handlers[v].type = "ISR_IRQ"
          <6> HIDE DEF v
          <6>1. v \notin {INT_FAULT, IRQ_SPURIOUS} /\ v \in Int
            BY <4>2, VectorFacts
          <6>2. handlers[v].type = "ISR_IRQ"
            BY <4>2 DEF IInv, Endable
          <6> QED BY <6>1, <6>2
        <5>2. apic[c].isr = {v}
          BY <1>2, <2>1, <2>4, <5>1 DEF Alone
        <5> HIDE DEF v
        <5> QED BY <5>1, <5>2 DEF EndedBy, Ended
      <4> QED BY <2>2, <2>3, <4>1, <4>2
    <3>2. \A i \in DOMAIN frames'[c] : i > 1 => frames'[c][i].vec = INT_FAULT
      BY <1>6, <2>1 DEF Alone
    <3>3. frames'[c][1].at # "entry" /\ apic'[c].isr = {} /\ ~iff'[c]
      BY <1>1, <1>2, <1>6, <1>8, <2>1, <2>4, <3>1 DEF Alone
    <3>4. Alone(frames'[c], iff'[c], apic'[c].isr)
      BY <3>2, <3>3 DEF Alone
    <3> HIDE DEF n, v
    <3> QED BY <1>1, <1>4, <1>8, <3>4, AloneStep
  <2>5. CASE n # 1
    <3>1. v = INT_FAULT
      <4>1. n > 1
        <5> HIDE DEF n
        <5> QED BY <1>2, <2>5
      <4> QED BY <2>1, <2>3, <4>1 DEF Alone
    <3>2. EndedBy(v, apic[c].isr) = apic[c].isr
      BY <2>1, <3>1 DEF Alone, EndedBy
    <3> HIDE DEF n, v
    <3>3. frames'[c][1] = frames[c][1]
      BY <1>6, <2>3, <2>5
    <3>4. \A i \in DOMAIN frames'[c] : i > 1 => frames'[c][i].vec = INT_FAULT
      BY <1>6, <2>1 DEF Alone
    <3>5. Alone(frames'[c], iff'[c], apic'[c].isr)
      BY <1>1, <1>2, <1>6, <1>8, <2>1, <3>2, <3>3, <3>4 DEF Alone
    <3> QED BY <1>1, <1>4, <1>8, <3>5, AloneStep
  <2> QED BY <2>4, <2>5
<1> QED BY <1>9, <1>10, <1>11, <1>12, <1>13 DEF IInv

\* The handler: one that returns leaves the processor to its own code.
LEMMA HandleStep ==
  ASSUME IInv, NEW c \in CPUs, Handle(c)
  PROVE  IInv'
<1> USE CPUsAssumption DEF BSP, Locations
<1> DEFINE n == Len(frames[c])
           h == handlers[frames[c][n].vec].handler
<1>1. UNCHANGED <<madt, hd, overrides, redir, handlers, apic>>
  BY DEF Handle, tables
<1>2. /\ frames[c] \in Seq(Frame) /\ frames[c] # <<>> /\ n \in Nat \ {0}
      /\ frames[c][n].at = "handler"
  BY DEF Handle, Interrupted, Top, IInv, Types
<1>3. CASE h = "exception"
  <2>1. Panic(c) /\ frames' = frames
    BY <1>3 DEF Handle, Top
  <2>2. iff' \in [CPUs -> BOOLEAN] /\ \A d \in CPUs : iff'[d] => iff[d]
    BY <2>1 DEF Panic, IInv, Types
  <2>3. pc' \in [CPUs -> Locations] /\ \A d \in CPUs : pc'[d] \in {pc[d], "halted"}
    BY <2>1 DEF Panic, Goto, IInv, Types
  <2>4. Types'
    BY <1>1, <2>1, <2>2, <2>3 DEF IInv, Types
  <2>5. Parsing' /\ WiringInv' /\ OpenLines'
    <3>1. CASE pc'[BSP] = pc[BSP]
      BY <1>1, <3>1, SameLines
    <3>2. CASE pc'[BSP] = "halted"
      BY <1>1, <3>2 DEF IInv, Parsing, WiringInv, OpenLines
    <3> QED BY <2>3, <3>1, <3>2
  <2>6. Noted' /\ Endable' /\ FramesInv' /\ HandlersAlone'
    BY <1>1, <2>1, <2>2 DEF IInv, Noted, Endable, FramesInv, HandlersAlone
  <2> QED BY <2>4, <2>5, <2>6 DEF IInv
<1>4. CASE h # "exception"
  <2>1. /\ frames' = [frames EXCEPT ![c] = SubSeq(@, 1, n - 1)]
        /\ iff' = [iff EXCEPT ![c] = frames[c][n].iff] /\ pc' = pc
    BY <1>4 DEF Handle, Top
  <2>2. Alone(frames[c], iff[c], apic[c].isr)
    BY AloneEach DEF IInv
  <2>3. n \in DOMAIN frames[c] /\ frames[c][n] \in Frame
    BY <1>2
  <2>4. n = 1
    <3>1. frames[c][n].vec # INT_FAULT
      BY <1>4, <2>3 DEF IInv, FramesInv
    <3>2. ~(n > 1)
      BY <2>2, <2>3, <3>1 DEF Alone
    <3> HIDE DEF n
    <3> QED BY <1>2, <3>2
  <2>5. /\ frames'[c] = <<>> /\ \A d \in CPUs \ {c} : frames'[d] = frames[d]
        /\ frames' \in [CPUs -> Seq(Frame)]
    BY <1>2, <2>1, <2>4 DEF IInv, Types
  <2>6. /\ iff' \in [CPUs -> BOOLEAN] /\ \A d \in CPUs \ {c} : iff'[d] = iff[d]
        /\ apic[c].isr = {}
    <3>1. frames[c][n].iff \in BOOLEAN
      <4> HIDE DEF n
      <4> QED BY <2>3 DEF Frame
    <3>2. iff' \in [CPUs -> BOOLEAN] /\ \A d \in CPUs \ {c} : iff'[d] = iff[d]
      <4> HIDE DEF n
      <4> QED BY <2>1, <3>1 DEF IInv, Types
    <3>3. apic[c].isr = {}
      BY <1>2, <2>2, <2>4 DEF Alone
    <3> QED BY <3>2, <3>3
  <2>7. Types'
    BY <1>1, <2>1, <2>5, <2>6 DEF IInv, Types
  <2>8. Parsing' /\ WiringInv' /\ OpenLines'
    BY <1>1, <2>1, SameLines
  <2>9. Noted' /\ Endable'
    BY <1>1 DEF IInv, Noted, Endable
  <2>10. FramesInv'
    BY <1>1, <2>5 DEF IInv, FramesInv
  <2>11. HandlersAlone'
    <3>1. Alone(frames'[c], iff'[c], apic'[c].isr)
      BY <1>1, <2>5, <2>6 DEF Alone
    <3> QED BY <1>1, <2>5, <2>6, <3>1, AloneStep
  <2> QED BY <2>7, <2>8, <2>9, <2>10, <2>11 DEF IInv
<1> QED BY <1>3, <1>4

\* Every step keeps the invariant.
LEMMA StepIInv == IInv /\ [Next]_vars => IInv'
<1> SUFFICES ASSUME IInv, [Next]_vars PROVE IInv'
  OBVIOUS
<1>1. ASSUME NEW c \in CPUs, Own(c) \/ ApStart(c) PROVE IInv'
  <2>1. CASE Quiet(c)
    BY <2>1, QuietStep
  <2>2. CASE LapicEnable(c)
    BY <2>2, LapicEnableStep
  <2>3. CASE TimerTry(c) \/ TimerEnable(c)
    BY <2>3, TimerStep
  <2>4. CASE ParseEntry
    BY <2>4, ParseEntryStep
  <2>5. CASE RedirectLow \/ RedirectHigh \/ Mask
    BY <2>5, WireStep
  <2>6. CASE ExceptionInit
    BY <2>6, ExceptionInitStep
  <2>7. CASE ClockInit \/ UnmaskClock
    BY <2>7, ClockStep
  <2> QED BY <1>1, <2>1, <2>2, <2>3, <2>4, <2>5, <2>6, <2>7 DEF Own, Quiet
<1>2. ASSUME NEW c \in CPUs, LocalTimer(c) PROVE IInv'
  BY <1>2, NoteStep
<1>3. ASSUME NEW g \in Gsis, Raise(g) PROVE IInv'
  BY <1>3, NoteStep
<1>4. ASSUME NEW c \in CPUs, Accept(c) PROVE IInv'
  BY <1>4, AcceptStep
<1>5. ASSUME NEW c \in CPUs, Spurious(c) \/ Fault(c) PROVE IInv'
  BY <1>5, UnservedStep
<1>6. ASSUME NEW c \in CPUs, Dispatch(c) PROVE IInv'
  BY <1>6, EoiStep, HandleStep DEF Dispatch
<1>7. CASE UNCHANGED vars
  <2>1. UNCHANGED <<madt, hd, overrides, redir, handlers, pc, apic, iff, frames>>
    BY <1>7 DEF vars, tables
  <2>2. Parsing' /\ WiringInv' /\ OpenLines'
    BY <2>1, SameLines
  <2>3. Types' /\ Noted' /\ Endable'
    BY <2>1 DEF IInv, Types, Noted, Endable
  <2>4. FramesInv' /\ HandlersAlone'
    BY <2>1 DEF IInv, FramesInv, HandlersAlone
  <2> QED BY <2>2, <2>3, <2>4 DEF IInv
<1> QED BY <1>1, <1>2, <1>3, <1>4, <1>5, <1>6, <1>7 DEF Next

\* However many processors and lines there are, whatever the tables of the firmware say
\* and whenever a device pulls its line: the end of an interrupt that interrupt_handler
\* signals lets no second one in before its handler returns, and ends no other.
THEOREM HandlersRunAlone == Spec => []HandlersAlone
<1>1. IInv => HandlersAlone
  BY DEF IInv
<1> QED BY <1>1, InitIInv, StepIInv, PTL DEF Spec

-----------------------------------------------------------------------------
(* What the lists, the lines and the timers are.                           *)

\* Entry i of list s is the first that says where the clock's line is.
ClockEntry(s, i) ==
  /\ i \in DOMAIN s /\ s[i].type = "override" /\ s[i].source = CLOCK_IRQ
  /\ \A j \in 1..i - 1 : s[j].type = "override" => s[j].source # CLOCK_IRQ

\* The lists have what the first k entries say.
LapicsRead(k) ==
  /\ lapics = <<>> => \A i \in 1..k : madt[i].type = "lapic" => madt[i].flags = 0
  /\ lapics # <<>> => lapics[1].id = BSP
IoapicsRead(k) == \A j \in DOMAIN ioapics : \E i \in 1..k :
                    madt[i].type = "ioapic" /\ ioapics[j] = madt[i]
OverridesRead(k) ==
  /\ \A i \in 1..k : madt[i].type = "override" => \E j \in DOMAIN overrides : overrides[j] = madt[i]
  /\ \A j \in DOMAIN overrides : \E i \in 1..k : overrides[j] = madt[i]
  /\ \A i \in 1..k : ClockEntry(madt, i) =>
       \E j \in DOMAIN overrides : ClockEntry(overrides, j) /\ overrides[j] = madt[i]
ReadTo(k) == LapicsRead(k) /\ IoapicsRead(k) /\ OverridesRead(k)

\* The boot processor has enabled interrupts.
Late == {"smp", "boot", "sched", "sync", "try", "idle"}

\* The lists while parse_madt reads the tables, and after it.
ListsInv ==
  /\ lapics \in Seq([type : {"lapic"}, id : CPUs, flags : {0, 1, 2}])
  /\ ioapics \in Seq([type : {"ioapic"}, base : Nat, last : Nat])
  /\ madt = NoMadt => lapics = <<>> /\ overrides = <<>>
  /\ (pc[BSP] = "apic" /\ madt # NoMadt) => hd = 1 /\ ReadTo(0)
  /\ pc[BSP] = "parse" => hd <= Len(madt) + 1 /\ ReadTo(hd - 1)
  /\ (pc[BSP] \notin {"apic", "parse", "halted"} /\ madt # NoMadt) => ReadTo(Len(madt))

\* The first k lines to wire exist, and have the signal of their overrides.
Signalled(k) ==
  \A j \in 1..k :
    j <= Len(Wirings) =>
      /\ Wirings[j].gsi \in Gsis
      /\ j > NrIsa => /\ redir[Wirings[j].gsi].low = (2 \in Wirings[j].flags)
                      /\ redir[Wirings[j].gsi].level = (8 \in Wirings[j].flags)

\* How far ioapic_init is, and what is there once it is done.
SignalInv ==
  /\ pc[BSP] \in {"low", "high", "mask"} => madt # NoMadt
  /\ pc[BSP] = "low" => Signalled(hd - 1)
  /\ pc[BSP] \in {"high", "mask"} => Signalled(hd) /\ hd <= Len(Wirings)
  /\ (pc[BSP] \in {"local", "clock", "unmask", "sti"} \cup Late /\ madt # NoMadt) =>
       Signalled(Len(Wirings))

\* Which lines are open, from the tables to the scheduler; all interrupt the boot processor.
OpenInv ==
  \A g \in Gsis :
    /\ redir[g].dest = BSP
    /\ pc[BSP] \in {"apic", "parse", "low", "idt", "local", "clock", "unmask"} => redir[g].masked
    /\ (pc[BSP] \in {"high", "mask"} /\ ~redir[g].masked) => g = Wirings[hd].gsi
    /\ (pc[BSP] \in {"sti"} \cup Late /\ ~redir[g].masked) => g = IsaToGsi(CLOCK_IRQ)

\* From clock_init on, clock_handler has the vector of the clock's line.
ClockInv == (pc[BSP] \in {"unmask", "sti"} \cup Late /\ madt # NoMadt) =>
              handlers[IRQ_BASE + IsaToGsi(CLOCK_IRQ)].handler = "clock"

\* The boot processor has interrupts enabled, or gets them back, only after it enabled them.
EnabledInv ==
  /\ pc[BSP] \notin {"off", "percpu"}
  /\ iff[BSP] => pc[BSP] \in Late
  /\ \A i \in DOMAIN frames[BSP] : frames[BSP][i].iff => pc[BSP] \in Late \cup {"halted"}

\* A local timer, or what it takes to start one.
TimerAt(c) ==
  \/ pc[c] \in {"sched", "sync", "try", "idle"}
  \/ apic[c].timer # "off"
  \/ IRQ_LINT_TIMER \in apic[c].irr
  \/ \E i \in DOMAIN frames[c] : frames[c][i].vec = IRQ_LINT_TIMER
TimerReady == handlers[IRQ_LINT_TIMER].handler = "sched"

\* Nothing of a timer is anywhere before the scheduler, where a processor comes with its
\* area set up; the timer's handler is registered before others start.
TimersInv ==
  /\ pc[BSP] \in Locations \ (Late \cup {"halted"}) => \A c \in CPUs : ~TimerAt(c)
  /\ pc[BSP] \in Locations \ {"boot", "sched", "sync", "try", "idle", "halted"} =>
       \A c \in CPUs \ {BSP} : pc[c] = "off"
  /\ \A c \in CPUs : TimerAt(c) => TimerReady /\ (Len(lapics) > 1 => c \in percpu)
  /\ \A c \in CPUs \ {BSP} : pc[c] # "off" => TimerReady
  /\ (pc[BSP] \in {"clock", "unmask", "sti"} \cup Late /\ madt # NoMadt) => TimerReady
  /\ pc[BSP] = "boot" => BSP \in percpu /\ madt # NoMadt

\* The types of the other variables.
OtherTypes ==
  /\ redir \in [Gsis -> [vec : {0} \cup Vectors, low : BOOLEAN, level : BOOLEAN, dest : CPUs,
                         masked : BOOLEAN]]
  /\ \A c \in CPUs : apic[c].timer \in {"off", "counting", "periodic"}
  /\ wake \in [CPUs -> 0..TickMod - 1] /\ percpu \subseteq CPUs /\ ticks \in 0..TickMod - 1

\* From the tables to the timers.
WInv == ListsInv /\ SignalInv /\ OpenInv /\ ClockInv /\ EnabledInv /\ TimersInv
-----------------------------------------------------------------------------
(* Who takes which step.                                                   *)

\* The boot processor before it enables interrupts.
BootStep == \/ ApicInit \/ ParseEntry \/ ParseEnd \/ RedirectLow \/ RedirectHigh \/ Mask
            \/ ExceptionInit \/ LapicEnable(BSP) \/ ClockInit \/ UnmaskClock

\* All else leaves what it set up alone.
LaterStep ==
  /\ UNCHANGED <<tables, redir, handlers>>
  /\ \/ pc'[BSP] = pc[BSP]
     \/ pc'[BSP] = "halted"
     \/ pc[BSP] \in {"sti"} \cup Late /\ pc'[BSP] \in Late

LEMMA StepKinds ==
  ASSUME IInv, EnabledInv, [Next]_vars
  PROVE  BootStep \/ LaterStep
<1> USE CPUsAssumption DEF BSP
<1>1. pc \in [CPUs -> Locations]
  BY DEF IInv, Types
<1>2. ASSUME NEW c \in CPUs, Own(c) PROVE BootStep \/ LaterStep
  <2>1. CASE LapicEnable(c)
    <3>1. CASE c = BSP
      BY <2>1, <3>1 DEF BootStep
    <3>2. CASE c # BSP
      BY <1>1, <2>1, <3>2 DEF LapicEnable, LaterStep, Goto
    <3> QED BY <3>1, <3>2
  <2>2. CASE InterruptEnable(c)
    BY <1>1, <2>2 DEF InterruptEnable, LaterStep, Goto, Runs, AfterSti, Late
  <2>3. CASE PercpuInit(c)
    BY <1>1, <2>3 DEF PercpuInit, LaterStep, Goto, Runs, EnabledInv
  <2>4. CASE TimerSync(c)
    BY <1>1, <2>4 DEF TimerSync, LaterStep, Goto, Runs, Late
  <2>5. CASE TimerTry(c)
    BY <1>1, <2>5 DEF TimerTry, LaterStep, Goto, Runs, Late
  <2>6. CASE TimerEnable(c)
    BY <1>1, <2>6 DEF TimerEnable, LaterStep, Goto, Runs, Late
  <2>7. CASE SmpInit
    BY <1>1, <2>7 DEF SmpInit, LaterStep, Goto, Runs, Late, Panic
  <2>8. CASE BootEnd
    BY <1>1, <2>8 DEF BootEnd, LaterStep, Goto, Runs, Late
  <2> QED BY <1>2, <2>1, <2>2, <2>3, <2>4, <2>5, <2>6, <2>7, <2>8 DEF Own, BootStep
<1>3. ASSUME NEW c \in CPUs, ApStart(c) PROVE LaterStep
  BY <1>1, <1>3 DEF ApStart, LaterStep, Goto, EnabledInv
<1>4. ASSUME NEW c \in CPUs, LocalTimer(c) PROVE LaterStep
  BY <1>4 DEF LocalTimer, LaterStep
<1>5. ASSUME NEW g \in Gsis, Raise(g) PROVE LaterStep
  BY <1>5 DEF Raise, LaterStep
<1>6. ASSUME NEW c \in CPUs, Accept(c) \/ Spurious(c) \/ Fault(c) \/ Eoi(c) PROVE LaterStep
  BY <1>6 DEF Accept, Spurious, Fault, Eoi, LaterStep
<1>7. ASSUME NEW c \in CPUs, Handle(c) PROVE LaterStep
  BY <1>1, <1>7 DEF Handle, LaterStep, Panic, Goto
<1>8. CASE UNCHANGED vars
  BY <1>8 DEF vars, LaterStep
<1> QED BY <1>2, <1>3, <1>4, <1>5, <1>6, <1>7, <1>8 DEF Next, Dispatch

\* Where boot goes from where.
LEMMA BootMoves ==
  ASSUME IInv, BootStep
  PROVE  /\ ApicInit => pc[BSP] = "apic" /\ pc'[BSP] = IF madt = NoMadt THEN "idt" ELSE "parse"
         /\ ParseEntry => pc[BSP] = "parse" /\ pc'[BSP] = "parse"
         /\ ParseEnd => pc[BSP] = "parse" /\ pc'[BSP] = "low"
         /\ RedirectLow => pc[BSP] = "low" /\ pc'[BSP] \in {"high", "halted"}
         /\ RedirectHigh => pc[BSP] = "high" /\ pc'[BSP] = "mask"
         /\ Mask => pc[BSP] = "mask" /\ pc'[BSP] = "low"
         /\ ExceptionInit => pc[BSP] \in {"low", "idt"} /\ pc'[BSP] = "local"
         /\ LapicEnable(BSP) => pc[BSP] = "local" /\ pc'[BSP] = "clock"
         /\ ClockInit => pc[BSP] = "clock" /\ pc'[BSP] = "unmask"
         /\ UnmaskClock => pc[BSP] = "unmask" /\ pc'[BSP] = "sti"
         /\ frames[BSP] = <<>> /\ UNCHANGED <<frames, percpu, wake>>
         /\ \A d \in CPUs \ {BSP} : pc'[d] = pc[d]
         /\ \A d \in CPUs : iff'[d] => iff[d]
<1> USE CPUsAssumption DEF BSP
<1>1. pc \in [CPUs -> Locations] /\ iff \in [CPUs -> BOOLEAN]
  BY DEF IInv, Types
<1>2. /\ ApicInit => pc[BSP] = "apic" /\ pc'[BSP] = IF madt = NoMadt THEN "idt" ELSE "parse"
      /\ ParseEntry => pc[BSP] = "parse" /\ pc'[BSP] = "parse"
      /\ ParseEnd => pc[BSP] = "parse" /\ pc'[BSP] = "low"
  BY <1>1 DEF ApicInit, ParseEntry, ParseEnd, Runs, Goto
<1>3. /\ RedirectLow => pc[BSP] = "low" /\ pc'[BSP] \in {"high", "halted"}
      /\ RedirectHigh => pc[BSP] = "high" /\ pc'[BSP] = "mask"
      /\ Mask => pc[BSP] = "mask" /\ pc'[BSP] = "low"
  BY <1>1 DEF RedirectLow, RedirectHigh, Mask, Runs, Goto, Panic
<1>4. /\ ExceptionInit => pc[BSP] \in {"low", "idt"} /\ pc'[BSP] = "local"
      /\ LapicEnable(BSP) => pc[BSP] = "local" /\ pc'[BSP] = "clock"
      /\ ClockInit => pc[BSP] = "clock" /\ pc'[BSP] = "unmask"
      /\ UnmaskClock => pc[BSP] = "unmask" /\ pc'[BSP] = "sti"
  BY <1>1 DEF ExceptionInit, LapicEnable, ClockInit, UnmaskClock, Runs, Goto
<1>5. frames[BSP] = <<>> /\ UNCHANGED <<frames, percpu, wake>>
  BY DEF BootStep, ApicInit, ParseEntry, ParseEnd, RedirectLow, RedirectHigh, Mask, ExceptionInit,
         LapicEnable, ClockInit, UnmaskClock, Runs
<1>6. \A d \in CPUs \ {BSP} : pc'[d] = pc[d]
  BY <1>1 DEF BootStep, ApicInit, ParseEntry, ParseEnd, RedirectLow, RedirectHigh, Mask,
         ExceptionInit, LapicEnable, ClockInit, UnmaskClock, Goto, Panic
<1>7. \A d \in CPUs : iff'[d] => iff[d]
  <2>1. iff' = iff \/ iff' = [iff EXCEPT ![BSP] = FALSE]
    BY DEF BootStep, ApicInit, ParseEntry, ParseEnd, RedirectLow, RedirectHigh, Mask,
           ExceptionInit, LapicEnable, ClockInit, UnmaskClock, Panic
  <2> QED BY <1>1, <2>1
<1> QED BY <1>2, <1>3, <1>4, <1>5, <1>6, <1>7

-----------------------------------------------------------------------------
(* parse_madt.                                                             *)

\* A first entry for the clock's line is the only one, and stays it when the list grows.
LEMMA ClockEntryFacts ==
  ASSUME NEW s, NEW n \in Nat, DOMAIN s = 1..n
  PROVE  /\ \A i, j : ClockEntry(s, i) /\ ClockEntry(s, j) => i = j
         /\ \A i : ClockEntry(s, i) =>
              \A t : (1..n \subseteq DOMAIN t /\ \A j \in 1..n : t[j] = s[j]) => ClockEntry(t, i)
<1>1. ASSUME NEW i, NEW j, ClockEntry(s, i), ClockEntry(s, j) PROVE i = j
  <2>1. i \in 1..n /\ j \in 1..n
    BY <1>1 DEF ClockEntry
  <2>2. ~(i < j) /\ ~(j < i)
    BY <1>1, <2>1 DEF ClockEntry
  <2> QED BY <2>1, <2>2
<1>2. ASSUME NEW i, ClockEntry(s, i), NEW t, 1..n \subseteq DOMAIN t, \A j \in 1..n : t[j] = s[j]
      PROVE  ClockEntry(t, i)
  <2>1. i \in 1..n /\ \A j \in 1..i - 1 : j \in 1..n
    BY <1>2 DEF ClockEntry
  <2> QED BY <1>2, <2>1 DEF ClockEntry
<1> QED BY <1>1, <1>2

\* What a MADT is.
LEMMA MadtFacts ==
  ASSUME IInv, madt # NoMadt
  PROVE  /\ madt \in Madts \ {NoMadt} /\ madt \in Seq(Entry)
         /\ Len(madt) \in Nat /\ DOMAIN madt = 1..Len(madt)
         /\ \A i \in DOMAIN madt : madt[i] \in Entry
BY MadtsAssumption DEF IInv, Types

\* The entry after the first k is added to the list of its type.
LEMMA ReadEntry ==
  ASSUME IInv, ListsInv, SoundTables, ParseEntry, NEW k, k = hd
  PROVE  /\ ReadTo(k)'
         /\ lapics' \in Seq([type : {"lapic"}, id : CPUs, flags : {0, 1, 2}])
         /\ ioapics' \in Seq([type : {"ioapic"}, base : Nat, last : Nat])
<1> DEFINE e == madt[k]
<1>1. /\ pc[BSP] = "parse" /\ madt # NoMadt /\ k \in 1..Len(madt) /\ madt' = madt
      /\ 1..k - 1 \subseteq 1..k /\ \A i \in 1..k : i = k \/ i \in 1..k - 1
  BY DEF ParseEntry, Runs, IInv, Parsing, Types
<1>2. /\ madt \in Madts \ {NoMadt} /\ madt \in Seq(Entry)
      /\ Len(madt) \in Nat /\ DOMAIN madt = 1..Len(madt) /\ \A i \in DOMAIN madt : madt[i] \in Entry
  BY <1>1, MadtFacts
<1>3. /\ e \in Entry
      /\ e.type = "lapic" => e \in [type : {"lapic"}, id : CPUs, flags : {0, 1, 2}]
      /\ e.type = "ioapic" => e \in [type : {"ioapic"}, base : Nat, last : Nat]
      /\ e.type = "override" => e \in Override
  <2>1. e \in Entry
    BY <1>1, <1>2
  <2> HIDE DEF e
  <2> QED BY <2>1 DEF Entry, Override
<1>4. ReadTo(k - 1)
  BY <1>1 DEF ListsInv
<1>5. /\ lapics' = IF e.type = "lapic" /\ e.flags # 0 THEN Append(lapics, e) ELSE lapics
      /\ ioapics' = IF e.type = "ioapic" THEN Append(ioapics, e) ELSE ioapics
      /\ overrides' = IF e.type = "override" THEN Append(overrides, e) ELSE overrides
  BY DEF ParseEntry
<1>6. /\ lapics \in Seq([type : {"lapic"}, id : CPUs, flags : {0, 1, 2}])
      /\ ioapics \in Seq([type : {"ioapic"}, base : Nat, last : Nat])
      /\ overrides \in Seq(Override)
  BY DEF ListsInv, IInv, Types
<1> HIDE DEF e
<1>7. /\ lapics' \in Seq([type : {"lapic"}, id : CPUs, flags : {0, 1, 2}])
      /\ ioapics' \in Seq([type : {"ioapic"}, base : Nat, last : Nat])
  <2>1. \A S : \A s \in Seq(S), x \in S : Append(s, x) \in Seq(S)
    OBVIOUS
  <2> QED BY <1>3, <1>5, <1>6, <2>1, Zenon
<1>8. LapicsRead(k)'
  <2>1. CASE e.type = "lapic" /\ e.flags # 0
    <3>1. lapics' = Append(lapics, e)
      BY <1>5, <2>1
    <3>2. CASE lapics # <<>>
      <4>1. lapics'[1] = lapics[1] /\ lapics' # <<>>
        BY <1>3, <1>6, <2>1, <3>1, <3>2
      <4> QED BY <1>4, <3>2, <4>1 DEF ReadTo, LapicsRead
    <3>3. CASE lapics = <<>>
      <4>1. lapics'[1] = e /\ lapics' # <<>>
        BY <1>3, <2>1, <3>1, <3>3
      <4>2. \A i \in 1..k - 1 : madt[i].type = "lapic" => madt[i].flags = 0
        BY <1>4, <3>3 DEF ReadTo, LapicsRead
      <4>3. PICK i \in DOMAIN madt :
              /\ madt[i].type = "lapic" /\ madt[i].flags # 0 /\ madt[i].id = BSP
              /\ \A j \in 1..i - 1 : madt[j].type = "lapic" => madt[j].flags = 0
        BY <1>2 DEF SoundTables
      <4>4. ~(i < k) /\ ~(k < i)
        BY <1>1, <1>2, <2>1, <4>2, <4>3 DEF e
      <4>5. i = k
        BY <1>1, <1>2, <4>4
      <4> QED BY <4>1, <4>3, <4>5 DEF LapicsRead, e
    <3> QED BY <3>2, <3>3
  <2>2. CASE ~(e.type = "lapic" /\ e.flags # 0)
    <3>1. lapics' = lapics
      BY <1>5, <2>2
    <3> QED BY <1>1, <1>4, <2>2, <3>1 DEF ReadTo, LapicsRead, e
  <2> QED BY <2>1, <2>2
<1>9. IoapicsRead(k)'
  <2>1. CASE e.type = "ioapic"
    <3>1. ioapics' = Append(ioapics, e) /\ Len(ioapics) \in Nat /\ DOMAIN ioapics = 1..Len(ioapics)
      BY <1>5, <1>6, <2>1
    <3>2. \A j \in DOMAIN ioapics' : ioapics'[j] = e \/ (j \in DOMAIN ioapics /\ ioapics'[j] = ioapics[j])
      BY <1>3, <1>6, <2>1, <3>1
    <3> QED BY <1>1, <1>4, <2>1, <3>2 DEF ReadTo, IoapicsRead, e
  <2>2. CASE e.type # "ioapic"
    <3>1. ioapics' = ioapics
      BY <1>5, <2>2
    <3> QED BY <1>1, <1>4, <3>1 DEF ReadTo, IoapicsRead
  <2> QED BY <2>1, <2>2
<1>10. OverridesRead(k)'
  <2>1. CASE e.type = "override"
    <3> DEFINE n == Len(overrides)
    <3>1. /\ overrides' = Append(overrides, e) /\ n \in Nat /\ DOMAIN overrides = 1..n
          /\ DOMAIN overrides' = 1..n + 1 /\ overrides'[n + 1] = e
          /\ \A j \in 1..n : overrides'[j] = overrides[j]
      BY <1>3, <1>5, <1>6, <2>1
    <3>2. n + 1 \in 1..n + 1 /\ 1..n \subseteq 1..n + 1 /\ \A j \in 1..n + 1 : j = n + 1 \/ j \in 1..n
      BY <3>1
    <3> HIDE DEF n
    <3>3. \A i \in 1..k : madt[i].type = "override" =>
            \E j \in DOMAIN overrides' : overrides'[j] = madt[i]
      BY <1>1, <1>4, <3>1, <3>2 DEF ReadTo, OverridesRead, e
    <3>4. \A j \in DOMAIN overrides' : \E i \in 1..k : overrides'[j] = madt[i]
      BY <1>1, <1>4, <3>1, <3>2 DEF ReadTo, OverridesRead, e
    <3>5. ASSUME NEW i \in 1..k, ClockEntry(madt, i)
          PROVE  \E j \in DOMAIN overrides' : ClockEntry(overrides', j) /\ overrides'[j] = madt[i]
      <4>1. CASE i \in 1..k - 1
        <5>1. PICK j \in DOMAIN overrides : ClockEntry(overrides, j) /\ overrides[j] = madt[i]
          BY <1>4, <3>5, <4>1 DEF ReadTo, OverridesRead
        <5>2. ClockEntry(overrides', j)
          BY <3>1, <3>2, <5>1, ClockEntryFacts
        <5> QED BY <3>1, <3>2, <5>1, <5>2
      <4>2. CASE i = k
        <5>1. e.source = CLOCK_IRQ
          BY <3>5, <4>2 DEF ClockEntry, e
        <5>2. \A j \in 1..n : overrides[j].type = "override" => overrides[j].source # CLOCK_IRQ
          <6> SUFFICES ASSUME NEW j \in 1..n, overrides[j].type = "override"
                       PROVE  overrides[j].source # CLOCK_IRQ
            OBVIOUS
          <6>1. PICK l \in 1..k - 1 : overrides[j] = madt[l]
            BY <1>4, <3>1 DEF ReadTo, OverridesRead
          <6> QED BY <3>5, <4>2, <6>1 DEF ClockEntry
        <5>3. \A j \in 1..(n + 1) - 1 : j \in 1..n
          BY <3>1
        <5>4. ClockEntry(overrides', n + 1)
          BY <2>1, <3>1, <3>2, <5>1, <5>2, <5>3 DEF ClockEntry
        <5> QED BY <3>1, <3>2, <4>2, <5>4 DEF e
      <4> QED BY <1>1, <4>1, <4>2
    <3> QED BY <1>1, <3>3, <3>4, <3>5 DEF OverridesRead
  <2>2. CASE e.type # "override"
    <3>1. overrides' = overrides
      BY <1>5, <2>2
    <3>2. ~ClockEntry(madt, k)
      BY <2>2 DEF ClockEntry, e
    <3> QED BY <1>1, <1>4, <2>2, <3>1, <3>2 DEF ReadTo, OverridesRead, e
  <2> QED BY <2>1, <2>2
<1> QED BY <1>7, <1>8, <1>9, <1>10 DEF ReadTo

\* The lists are complete when parse_madt returns, and nothing changes them afterwards.
LEMMA ListsStep == IInv /\ WInv /\ SoundTables /\ [Next]_vars => ListsInv'
<1> SUFFICES ASSUME IInv, WInv, SoundTables, [Next]_vars PROVE ListsInv'
  OBVIOUS
<1> USE CPUsAssumption DEF BSP
<1>1. IInv /\ ListsInv /\ hd \in Nat \ {0} /\ hd - 1 \in Nat
  BY DEF WInv, IInv, Types
<1>2. BootStep \/ LaterStep
  BY StepKinds DEF WInv
<1>3. ASSUME UNCHANGED <<madt, lapics, ioapics, overrides>>, NEW k, ReadTo(k) PROVE ReadTo(k)'
  BY <1>3 DEF ReadTo, LapicsRead, IoapicsRead, OverridesRead
<1>4. ASSUME UNCHANGED <<madt, lapics, ioapics, overrides>>, pc'[BSP] \notin {"apic", "parse"},
             pc[BSP] \notin {"apic", "parse", "halted"} \/ pc'[BSP] = "halted"
      PROVE  ListsInv'
  <2>1. (madt # NoMadt /\ pc'[BSP] # "halted") => ReadTo(Len(madt))
    BY <1>1, <1>4 DEF ListsInv
  <2>2. (madt # NoMadt /\ pc'[BSP] # "halted") => ReadTo(Len(madt))'
    BY <1>4, <2>1 DEF ReadTo, LapicsRead, IoapicsRead, OverridesRead
  <2> QED BY <1>1, <1>4, <2>2 DEF ListsInv
<1>5. CASE LaterStep
  <2>1. UNCHANGED <<madt, hd, lapics, ioapics, overrides>>
    BY <1>5 DEF LaterStep, tables
  <2>2. CASE pc'[BSP] = pc[BSP]
    <3>1. \A k : ReadTo(k) => ReadTo(k)'
      BY <1>3, <2>1
    <3> QED BY <1>1, <2>1, <2>2, <3>1 DEF ListsInv
  <2>3. CASE pc'[BSP] # pc[BSP]
    BY <1>4, <1>5, <2>1, <2>3 DEF LaterStep, Late
  <2> QED BY <2>2, <2>3
<1>6. CASE BootStep
  <2>1. CASE ApicInit
    <3>1. UNCHANGED <<madt, hd, lapics, ioapics, overrides>>
      BY <2>1 DEF ApicInit, tables
    <3>2. pc[BSP] = "apic" /\ pc'[BSP] = IF madt = NoMadt THEN "idt" ELSE "parse"
      BY <1>1, <1>6, <2>1, BootMoves
    <3>3. madt # NoMadt => hd = 1 /\ ReadTo(0)
      BY <1>1, <3>2 DEF ListsInv
    <3>4. madt # NoMadt => ReadTo(0)'
      BY <1>3, <3>1, <3>3
    <3>5. madt # NoMadt => Len(madt) \in Nat
      BY <1>1, MadtFacts
    <3> QED BY <1>1, <3>1, <3>2, <3>3, <3>4, <3>5 DEF ListsInv
  <2>2. CASE ParseEntry
    <3>1. pc'[BSP] = "parse" /\ madt' = madt /\ hd' = hd + 1 /\ hd <= Len(madt) /\ madt # NoMadt
      BY <1>1, <1>6, <2>2, BootMoves DEF ParseEntry, IInv, Parsing
    <3>2. \A k : k = hd => ReadTo(k)'
      BY <1>1, <2>2, ReadEntry
    <3>3. ReadTo(hd - 1)'
      <4>1. hd' - 1 = hd
        BY <1>1, <3>1
      <4> QED BY <3>2, <4>1
    <3>4. /\ lapics' \in Seq([type : {"lapic"}, id : CPUs, flags : {0, 1, 2}])
          /\ ioapics' \in Seq([type : {"ioapic"}, base : Nat, last : Nat])
      BY <1>1, <2>2, ReadEntry
    <3>5. Len(madt) \in Nat
      BY <1>1, <3>1, MadtFacts
    <3>6. hd' <= Len(madt) + 1
      BY <1>1, <3>1, <3>5
    <3> QED BY <3>1, <3>3, <3>4, <3>6 DEF ListsInv
  <2>3. CASE ParseEnd
    <3>1. UNCHANGED <<madt, lapics, ioapics, overrides>> /\ hd > Len(madt)
      BY <2>3 DEF ParseEnd
    <3>2. pc[BSP] = "parse" /\ pc'[BSP] = "low" /\ madt # NoMadt
      BY <1>1, <1>6, <2>3, BootMoves DEF IInv, Parsing
    <3>3. hd <= Len(madt) + 1 /\ ReadTo(hd - 1) /\ Len(madt) \in Nat
      BY <1>1, <3>2, MadtFacts DEF ListsInv
    <3>4. hd - 1 = Len(madt)
      BY <1>1, <3>1, <3>3
    <3>5. ReadTo(Len(madt))'
      <4>1. ReadTo(Len(madt))
        BY <3>3, <3>4
      <4> QED BY <3>1, <4>1 DEF ReadTo, LapicsRead, IoapicsRead, OverridesRead
    <3> QED BY <1>1, <3>1, <3>2, <3>5 DEF ListsInv
  <2>4. CASE RedirectLow \/ RedirectHigh \/ Mask \/ ExceptionInit \/ LapicEnable(BSP)
             \/ ClockInit \/ UnmaskClock
    <3>1. UNCHANGED <<madt, lapics, ioapics, overrides>>
      BY <2>4 DEF RedirectLow, RedirectHigh, Mask, ExceptionInit, LapicEnable, ClockInit,
                  UnmaskClock, tables
    <3>2. pc'[BSP] \notin {"apic", "parse"} /\ pc[BSP] \notin {"apic", "parse", "halted"}
      BY <1>1, <1>6, <2>4, BootMoves
    <3> QED BY <1>4, <3>1, <3>2
  <2> QED BY <1>6, <2>1, <2>2, <2>3, <2>4 DEF BootStep
<1> QED BY <1>2, <1>5, <1>6

-----------------------------------------------------------------------------
(* ioapic_init and clock_init.                                             *)

\* The lines to wire: those of the old controllers, then those of the overrides.
LEMMA WiringFacts ==
  ASSUME Types
  PROVE  /\ Len(Wirings) \in Nat /\ Len(Wirings) = NrIsa + Len(overrides)
         /\ \A j \in 1..Len(Wirings) : Wirings[j].gsi \in Nat
         /\ \A j \in 1..Len(Wirings) : j > NrIsa => /\ j - NrIsa \in DOMAIN overrides
                                                   /\ Wirings[j] = overrides[j - NrIsa]
         /\ \A i \in DOMAIN overrides : /\ NrIsa + i \in 1..Len(Wirings) /\ NrIsa + i > NrIsa
                                        /\ Wirings[NrIsa + i] = overrides[i]
<1>1. /\ overrides \in Seq(Override) /\ NrIsa \in Nat \ {0}
      /\ Len(overrides) \in Nat /\ DOMAIN overrides = 1..Len(overrides)
      /\ \A i \in DOMAIN overrides : overrides[i] \in Override
  BY LinesAssumption DEF Types
<1>2. /\ Len(Wirings) = NrIsa + Len(overrides)
      /\ \A j \in 1..NrIsa : Wirings[j].gsi = j - 1
      /\ \A i \in 1..Len(overrides) : Wirings[NrIsa + i] = overrides[i]
  BY <1>1 DEF Wirings, IsaLine
<1>3. \A i \in DOMAIN overrides : overrides[i].gsi \in Nat
  BY <1>1 DEF Override
<1>4. \A j \in 1..Len(Wirings) : j > NrIsa => /\ j - NrIsa \in DOMAIN overrides
                                             /\ Wirings[j] = overrides[j - NrIsa]
  <2> SUFFICES ASSUME NEW j \in 1..Len(Wirings), j > NrIsa
               PROVE  j - NrIsa \in DOMAIN overrides /\ Wirings[j] = overrides[j - NrIsa]
    OBVIOUS
  <2>1. j - NrIsa \in 1..Len(overrides) /\ NrIsa + (j - NrIsa) = j
    BY <1>1, <1>2
  <2> QED BY <1>1, <1>2, <2>1
<1>5. \A j \in 1..Len(Wirings) : Wirings[j].gsi \in Nat
  <2> SUFFICES ASSUME NEW j \in 1..Len(Wirings) PROVE Wirings[j].gsi \in Nat
    OBVIOUS
  <2>1. CASE j > NrIsa
    BY <1>3, <1>4, <2>1
  <2>2. CASE ~(j > NrIsa)
    <3>1. j \in 1..NrIsa
      BY <1>1, <1>2, <2>2
    <3> QED BY <1>2, <3>1
  <2> QED BY <2>1, <2>2
<1>6. \A i \in DOMAIN overrides : /\ NrIsa + i \in 1..Len(Wirings) /\ NrIsa + i > NrIsa
                                  /\ Wirings[NrIsa + i] = overrides[i]
  BY <1>1, <1>2
<1> QED BY <1>1, <1>2, <1>4, <1>5, <1>6

\* Once parse_madt is done: the lists agree with the tables, and have what the wiring needs.
LEMMA ListFacts ==
  ASSUME IInv, ListsInv, SoundTables, madt # NoMadt, pc[BSP] \notin {"apic", "parse", "halted"}
  PROVE  /\ lapics # <<>> /\ lapics[1].id = BSP
         /\ \A g \in Nat : Found(g) => g \in Gsis
         /\ \A i, j \in DOMAIN overrides :
              overrides[i].gsi = overrides[j].gsi => overrides[i].flags = overrides[j].flags
         /\ \A i \in DOMAIN madt : madt[i].type = "override" =>
              \E j \in DOMAIN overrides : overrides[j] = madt[i]
         /\ IsaToGsi(CLOCK_IRQ) = ClockLine
<1>1. /\ madt \in Madts \ {NoMadt} /\ Len(madt) \in Nat /\ DOMAIN madt = 1..Len(madt)
      /\ \A i \in DOMAIN madt : madt[i] \in Entry
  BY MadtFacts
<1>2. LapicsRead(Len(madt)) /\ IoapicsRead(Len(madt)) /\ OverridesRead(Len(madt))
  BY DEF ListsInv, ReadTo
<1>3. /\ overrides \in Seq(Override) /\ Len(overrides) \in Nat
      /\ DOMAIN overrides = 1..Len(overrides)
      /\ \A i \in DOMAIN overrides : overrides[i] \in Override
  BY DEF IInv, Types
<1>4. \A i \in DOMAIN overrides : overrides[i].type = "override"
  BY <1>3 DEF Override
<1>5. lapics # <<>> /\ lapics[1].id = BSP
  BY <1>1, <1>2 DEF SoundTables, LapicsRead
<1>6. ASSUME NEW g \in Nat, Found(g) PROVE g \in Gsis
  <2>1. PICK j \in DOMAIN ioapics : ioapics[j].base <= g /\ g < ioapics[j].base + ioapics[j].last
    BY <1>6 DEF Found
  <2>2. PICK i \in DOMAIN madt : madt[i].type = "ioapic" /\ ioapics[j] = madt[i]
    BY <1>1, <1>2, <2>1 DEF IoapicsRead
  <2>3. madt[i].base + madt[i].last <= MaxGsi
    BY <1>1, <2>2 DEF SoundTables
  <2>4. madt[i].base \in Nat /\ madt[i].last \in Nat
    <3>1. madt[i] \in Entry
      BY <1>1
    <3> QED BY <2>2, <3>1 DEF Entry
  <2> QED BY <2>1, <2>2, <2>3, <2>4, LinesAssumption DEF Gsis
<1>7. ASSUME NEW i \in DOMAIN overrides, NEW j \in DOMAIN overrides,
             overrides[i].gsi = overrides[j].gsi
      PROVE  overrides[i].flags = overrides[j].flags
  <2>1. PICK a \in DOMAIN madt : overrides[i] = madt[a]
    BY <1>1, <1>2 DEF OverridesRead
  <2>2. PICK b \in DOMAIN madt : overrides[j] = madt[b]
    BY <1>1, <1>2 DEF OverridesRead
  <2> QED BY <1>1, <1>4, <1>7, <2>1, <2>2 DEF SoundTables
<1>8. IsaToGsi(CLOCK_IRQ) = ClockLine
  <2> DEFINE of == {i \in DOMAIN overrides : overrides[i].source = CLOCK_IRQ}
             mf == {i \in DOMAIN madt : madt[i].type = "override" /\ madt[i].source = CLOCK_IRQ}
  <2>1. IsaToGsi(CLOCK_IRQ) = IF of = {} THEN CLOCK_IRQ ELSE overrides[Min(of)].gsi
    BY DEF IsaToGsi
  <2>2. ClockLine = IF mf = {} THEN CLOCK_IRQ ELSE madt[Min(mf)].gsi
    BY DEF ClockLine
  <2>3. of \in SUBSET Nat /\ mf \in SUBSET Nat
    BY <1>1, <1>3
  <2>4. CASE mf = {}
    <3>1. of = {}
      <4> SUFFICES ASSUME NEW j \in of PROVE FALSE
        OBVIOUS
      <4>1. PICK a \in DOMAIN madt : overrides[j] = madt[a]
        BY <1>1, <1>2 DEF OverridesRead
      <4> QED BY <1>4, <2>4, <4>1
    <3> QED BY <2>1, <2>2, <2>4, <3>1
  <2>5. CASE mf # {}
    <3> DEFINE a == Min(mf)
               b == Min(of)
    <3>1. a \in mf /\ \A x \in mf : a <= x
      <4> HIDE DEF mf
      <4> QED BY <2>3, <2>5, MinIsLeast
    <3> HIDE DEF a, b
    <3>2. ClockEntry(madt, a)
      <4>1. \A x \in 1..a - 1 : x \in DOMAIN madt /\ ~(a <= x)
        BY <1>1, <3>1
      <4> QED BY <3>1, <4>1 DEF ClockEntry
    <3>3. PICK j \in DOMAIN overrides : ClockEntry(overrides, j) /\ overrides[j] = madt[a]
      BY <1>1, <1>2, <3>1, <3>2 DEF OverridesRead
    <3>4. j \in of
      BY <3>3 DEF ClockEntry
    <3>5. b \in of /\ \A x \in of : b <= x
      <4>1. of # {}
        BY <3>4
      <4> HIDE DEF of
      <4> QED BY <2>3, <4>1, MinIsLeast DEF b
    <3>6. ClockEntry(overrides, b)
      <4>1. \A x \in 1..b - 1 : x \in DOMAIN overrides /\ ~(b <= x)
        BY <1>3, <3>5
      <4> QED BY <1>4, <3>5, <4>1 DEF ClockEntry
    <3>7. b = j
      BY <1>3, <3>3, <3>6, ClockEntryFacts
    <3>8. of # {}
      BY <3>4
    <3> HIDE DEF of, mf
    <3> QED BY <2>1, <2>2, <2>5, <3>3, <3>7, <3>8 DEF a, b
  <2> QED BY <2>4, <2>5
<1>9. \A i \in DOMAIN madt : madt[i].type = "override" =>
        \E j \in DOMAIN overrides : overrides[j] = madt[i]
  BY <1>1, <1>2 DEF OverridesRead
<1> QED BY <1>5, <1>6, <1>7, <1>8, <1>9

\* What ioapic_redirect writes of a line's entry, in two steps.
LEMMA LowWritten ==
  ASSUME Types, NEW h \in Gsis, NEW low, NEW level,
         redir' = [redir EXCEPT ![h] = [@ EXCEPT !.vec = IRQ_BASE + h, !.masked = FALSE,
                                                 !.low = low, !.level = level]]
  PROVE  \A g \in Gsis :
           /\ redir'[g].low = IF g = h THEN low ELSE redir[g].low
           /\ redir'[g].level = IF g = h THEN level ELSE redir[g].level
           /\ redir'[g].dest = redir[g].dest
           /\ g # h => redir'[g].masked = redir[g].masked
<1> DEFINE e == [redir[h] EXCEPT !.vec = IRQ_BASE + h, !.masked = FALSE,
                                 !.low = low, !.level = level]
<1>1. \A g \in Gsis : redir'[g] = IF g = h THEN e ELSE redir[g]
  BY DEF Types
<1>2. e.low = low /\ e.level = level /\ e.dest = redir[h].dest
  <2>1. DOMAIN redir[h] = RedirFields
    BY DEF Types
  <2> QED BY <2>1 DEF RedirFields
<1> HIDE DEF e
<1> SUFFICES ASSUME NEW g \in Gsis
             PROVE  /\ redir'[g].low = IF g = h THEN low ELSE redir[g].low
                    /\ redir'[g].level = IF g = h THEN level ELSE redir[g].level
                    /\ redir'[g].dest = redir[g].dest
                    /\ g # h => redir'[g].masked = redir[g].masked
  OBVIOUS
<1>3. CASE g = h
  <2>1. redir'[g] = e
    BY <1>1, <1>3
  <2> QED BY <1>2, <1>3, <2>1
<1>4. CASE g # h
  <2>1. redir'[g] = redir[g]
    BY <1>1, <1>4
  <2> QED BY <1>4, <2>1
<1> QED BY <1>3, <1>4

LEMMA HighWritten ==
  ASSUME Types, NEW h \in Gsis, NEW x, redir' = [redir EXCEPT ![h].dest = x]
  PROVE  \A g \in Gsis :
           /\ redir'[g].low = redir[g].low /\ redir'[g].level = redir[g].level
           /\ redir'[g].dest = IF g = h THEN x ELSE redir[g].dest
           /\ redir'[g].masked = redir[g].masked
<1> DEFINE e == [redir[h] EXCEPT !.dest = x]
<1>1. \A g \in Gsis : redir'[g] = IF g = h THEN e ELSE redir[g]
  BY DEF Types
<1>2. /\ e.low = redir[h].low /\ e.level = redir[h].level /\ e.dest = x
      /\ e.masked = redir[h].masked
  <2>1. DOMAIN redir[h] = RedirFields
    BY DEF Types
  <2> QED BY <2>1 DEF RedirFields
<1> HIDE DEF e
<1> QED BY <1>1, <1>2

\* What ioapic_mask and ioapic_unmask write.
LEMMA MaskWritten ==
  ASSUME Types, NEW h \in Gsis,
         \/ redir' = [redir EXCEPT ![h].masked = TRUE]
         \/ redir' = [redir EXCEPT ![h].masked = FALSE]
  PROVE  /\ \A g \in Gsis :
              /\ redir'[g].low = redir[g].low /\ redir'[g].level = redir[g].level
              /\ redir'[g].dest = redir[g].dest
              /\ g # h => redir'[g].masked = redir[g].masked
         /\ redir' = [redir EXCEPT ![h].masked = TRUE] => redir'[h].masked
<1>1. DOMAIN redir[h] = RedirFields /\ DOMAIN redir = Gsis
  BY DEF Types
<1>2. \A g \in Gsis \ {h} : redir'[g] = redir[g]
  BY <1>1
<1>3. /\ redir'[h].low = redir[h].low /\ redir'[h].level = redir[h].level
      /\ redir'[h].dest = redir[h].dest
  BY <1>1 DEF RedirFields
<1>4. redir' = [redir EXCEPT ![h].masked = TRUE] => redir'[h].masked
  BY <1>1 DEF RedirFields
<1> QED BY <1>2, <1>3, <1>4

\* Lines whose signal stays keep what is said of it.
LEMMA SameSignals ==
  ASSUME overrides' = overrides,
         \A g \in Gsis : redir'[g].low = redir[g].low /\ redir'[g].level = redir[g].level
  PROVE  /\ \A k : Signalled(k) => Signalled(k)'
         /\ Len(Wirings)' = Len(Wirings) /\ Wirings' = Wirings
         /\ IsaToGsi(CLOCK_IRQ)' = IsaToGsi(CLOCK_IRQ)
BY DEF Signalled, Wirings, IsaToGsi

\* The line being wired is one there is.
LEMMA WiredNow ==
  ASSUME IInv, WInv, pc[BSP] \in {"high", "mask"}
  PROVE  Wirings[hd].gsi \in Gsis
BY DEF IInv, Types, WInv, SignalInv, Signalled

\* The clock's line is one there is.
LEMMA ClockFound ==
  ASSUME IInv, Signalled(Len(Wirings))
  PROVE  IsaToGsi(CLOCK_IRQ) \in Gsis
BY ClockIsWired DEF IInv, Signalled

\* ioapic_redirect: the line gets the signal of its override, and is open.
LEMMA RedirectLowLines == IInv /\ WInv /\ SoundTables /\ RedirectLow => SignalInv' /\ OpenInv'
<1> SUFFICES ASSUME IInv, WInv, SoundTables, RedirectLow PROVE SignalInv' /\ OpenInv'
  OBVIOUS
<1> DEFINE w == Wirings[hd]
<1>1. /\ IInv /\ Types /\ SignalInv /\ OpenInv /\ ListsInv /\ BootStep
      /\ UNCHANGED <<madt, hd, overrides>> /\ hd \in 1..Len(Wirings) /\ Len(Wirings) \in Nat
  BY WiringFacts DEF IInv, WInv, RedirectLow, BootStep, tables, Types
<1>2. pc[BSP] = "low" /\ pc'[BSP] \in {"high", "halted"} /\ madt # NoMadt
  BY <1>1, BootMoves DEF SignalInv
<1>3. CASE Found(w.gsi)
  <2>1. /\ redir' = [redir EXCEPT ![w.gsi] =
               [@ EXCEPT !.vec = IRQ_BASE + w.gsi, !.masked = FALSE,
                         !.low = 2 \in w.flags, !.level = 8 \in w.flags]]
        /\ pc'[BSP] = "high"
    BY <1>1, <1>3, CPUsAssumption DEF RedirectLow, Goto, Types, BSP
  <2>2. w.gsi \in Gsis
    <3>1. w.gsi \in Nat
      BY <1>1, WiringFacts
    <3> QED BY <1>1, <1>2, <1>3, <3>1, ListFacts
  <2>3. \A g \in Gsis :
          /\ redir'[g].low = IF g = w.gsi THEN 2 \in w.flags ELSE redir[g].low
          /\ redir'[g].level = IF g = w.gsi THEN 8 \in w.flags ELSE redir[g].level
          /\ redir'[g].dest = redir[g].dest
          /\ g # w.gsi => redir'[g].masked = redir[g].masked
    <3>1. PICK c \in Gsis : c = w.gsi
      BY <2>2
    <3>2. PICK low, level : low = (2 \in w.flags) /\ level = (8 \in w.flags)
      OBVIOUS
    <3>3. redir' = [redir EXCEPT ![c] =
               [@ EXCEPT !.vec = IRQ_BASE + c, !.masked = FALSE,
                         !.low = low, !.level = level]]
      BY <2>1, <3>1, <3>2
    <3>4. Types
      BY <1>1
    <3>5. \A g \in Gsis :
            /\ redir'[g].low = IF g = c THEN low ELSE redir[g].low
            /\ redir'[g].level = IF g = c THEN level ELSE redir[g].level
            /\ redir'[g].dest = redir[g].dest
            /\ g # c => redir'[g].masked = redir[g].masked
      BY <3>3, <3>4, LowWritten, ZenonT(40)
    <3> QED BY <3>1, <3>2, <3>5
  <2>4. Signalled(hd - 1) /\ Wirings' = Wirings
    BY <1>1, <1>2 DEF SignalInv, Wirings
  <2>5. ASSUME NEW j \in 1..hd
        PROVE  /\ Wirings[j].gsi \in Gsis
               /\ j > NrIsa => /\ redir'[Wirings[j].gsi].low = (2 \in Wirings[j].flags)
                               /\ redir'[Wirings[j].gsi].level = (8 \in Wirings[j].flags)
    <3>1. CASE j = hd
      BY <2>2, <2>3, <3>1
    <3>2. CASE j # hd
      <4>1. j \in 1..hd - 1 /\ j \in 1..Len(Wirings) /\ j <= Len(Wirings) /\ (j > NrIsa => hd > NrIsa)
        BY <1>1, <3>2, LinesAssumption
      <4>2. /\ Wirings[j].gsi \in Gsis
            /\ j > NrIsa => /\ redir[Wirings[j].gsi].low = (2 \in Wirings[j].flags)
                            /\ redir[Wirings[j].gsi].level = (8 \in Wirings[j].flags)
        BY <2>4, <4>1 DEF Signalled
      <4>3. (j > NrIsa /\ Wirings[j].gsi = w.gsi) => Wirings[j].flags = w.flags
        <5>1. CASE j > NrIsa
          <6>1. /\ j - NrIsa \in DOMAIN overrides /\ Wirings[j] = overrides[j - NrIsa]
                /\ hd - NrIsa \in DOMAIN overrides /\ Wirings[hd] = overrides[hd - NrIsa]
            BY <1>1, <4>1, <5>1, WiringFacts
          <6>2. \A a, b \in DOMAIN overrides :
                  overrides[a].gsi = overrides[b].gsi => overrides[a].flags = overrides[b].flags
            BY <1>1, <1>2, ListFacts
          <6> QED BY <6>1, <6>2
        <5> QED BY <5>1
      <4> HIDE DEF w
      <4>4. CASE Wirings[j].gsi = w.gsi
        BY <2>3, <4>2, <4>3, <4>4, Zenon
      <4>5. CASE Wirings[j].gsi # w.gsi
        BY <2>3, <4>2, <4>5
      <4> QED BY <4>4, <4>5
    <3> QED BY <3>1, <3>2
  <2>6. SignalInv'
    <3>1. Signalled(hd)'
      BY <1>1, <2>4, <2>5 DEF Signalled
    <3> QED BY <1>1, <1>2, <2>1, <2>4, <3>1 DEF SignalInv, Late
  <2>7. OpenInv'
    <3>1. \A g \in Gsis : redir'[g].dest = BSP
      BY <1>1, <2>3 DEF OpenInv
    <3>2. \A g \in Gsis : ~redir'[g].masked => g = w.gsi
      BY <1>1, <1>2, <2>3 DEF OpenInv
    <3> QED BY <1>1, <2>1, <2>4, <3>1, <3>2 DEF OpenInv, Late
  <2> QED BY <2>6, <2>7
<1>4. CASE ~Found(w.gsi)
  <2>1. redir' = redir /\ pc'[BSP] = "halted"
    BY <1>1, <1>4, CPUsAssumption DEF RedirectLow, Panic, Goto, Types, BSP
  <2> QED BY <1>1, <2>1 DEF SignalInv, OpenInv, Late
<1> QED BY <1>3, <1>4

\* ... and the rest of ioapic_redirect, and ioapic_mask.
LEMMA RedirectHighLines == IInv /\ WInv /\ SoundTables /\ RedirectHigh => SignalInv' /\ OpenInv'
<1> SUFFICES ASSUME IInv, WInv, SoundTables, RedirectHigh PROVE SignalInv' /\ OpenInv'
  OBVIOUS
<1> DEFINE h == Wirings[hd].gsi
<1>1. /\ IInv /\ Types /\ SignalInv /\ OpenInv /\ ListsInv /\ BootStep
      /\ UNCHANGED <<madt, hd, overrides>> /\ redir' = [redir EXCEPT ![h].dest = lapics[1].id]
  BY DEF IInv, WInv, RedirectHigh, BootStep, tables
<1>2. pc[BSP] = "high" /\ pc'[BSP] = "mask" /\ madt # NoMadt
  BY <1>1, BootMoves DEF SignalInv
<1>3. h \in Gsis /\ lapics[1].id = BSP
  BY <1>1, <1>2, WiredNow, ListFacts
<1> HIDE DEF h
<1>4. \A g \in Gsis :
        /\ redir'[g].low = redir[g].low /\ redir'[g].level = redir[g].level
        /\ redir'[g].dest = IF g = h THEN BSP ELSE redir[g].dest
        /\ redir'[g].masked = redir[g].masked
  <2>1. PICK c \in Gsis : c = h
    BY <1>3
  <2>2. redir' = [redir EXCEPT ![c].dest = BSP]
    BY <1>1, <1>3, <2>1, Zenon
  <2>3. Types
    BY <1>1
  <2>4. \A g \in Gsis :
          /\ redir'[g].low = redir[g].low /\ redir'[g].level = redir[g].level
          /\ redir'[g].dest = IF g = c THEN BSP ELSE redir[g].dest
          /\ redir'[g].masked = redir[g].masked
    BY <2>2, <2>3, HighWritten, Zenon
  <2> QED BY <2>1, <2>4, Zenon
<1>5. SignalInv'
  <2>1. Signalled(hd) /\ Wirings' = Wirings /\ hd <= Len(Wirings)
    BY <1>1, <1>2, <1>4, SameSignals DEF SignalInv
  <2>2. Signalled(hd)'
    BY <1>1, <1>4, <2>1, SameSignals
  <2> QED BY <1>1, <1>2, <2>1, <2>2 DEF SignalInv, Late
<1>6. OpenInv'
  <2>1. Wirings' = Wirings
    BY <1>1 DEF Wirings
  <2> QED BY <1>1, <1>2, <1>4, <2>1 DEF OpenInv, Late
<1> QED BY <1>5, <1>6

LEMMA MaskLines == IInv /\ WInv /\ Mask => SignalInv' /\ OpenInv'
<1> SUFFICES ASSUME IInv, WInv, Mask PROVE SignalInv' /\ OpenInv'
  OBVIOUS
<1> DEFINE h == Wirings[hd].gsi
<1>1. /\ IInv /\ Types /\ SignalInv /\ OpenInv /\ BootStep /\ hd \in Nat
      /\ UNCHANGED <<madt, overrides>> /\ hd' = hd + 1
      /\ redir' = [redir EXCEPT ![h].masked = TRUE]
  BY DEF IInv, Types, WInv, Mask, BootStep
<1>2. pc[BSP] = "mask" /\ pc'[BSP] = "low" /\ madt # NoMadt
  BY <1>1, BootMoves DEF SignalInv
<1>3. h \in Gsis
  BY <1>1, <1>2, WiredNow
<1> HIDE DEF h
<1>4. \A g \in Gsis :
        /\ redir'[g].low = redir[g].low /\ redir'[g].level = redir[g].level
        /\ redir'[g].dest = redir[g].dest
        /\ g # h => redir'[g].masked = redir[g].masked
        /\ g = h => redir'[g].masked
  <2>1. PICK c \in Gsis : c = h
    BY <1>3
  <2>2. redir' = [redir EXCEPT ![c].masked = TRUE] /\ Types
    BY <1>1, <2>1, Zenon
  <2>3. /\ \A g \in Gsis :
             /\ redir'[g].low = redir[g].low /\ redir'[g].level = redir[g].level
             /\ redir'[g].dest = redir[g].dest
             /\ g # c => redir'[g].masked = redir[g].masked
        /\ redir'[c].masked
    BY <2>2, MaskWritten, Zenon
  <2> QED BY <2>1, <2>3
<1>5. SignalInv'
  <2>1. Signalled(hd)
    BY <1>1, <1>2 DEF SignalInv
  <2>2. \A k : k = hd => Signalled(k)'
    BY <1>1, <1>4, <2>1, SameSignals
  <2>3. Signalled(hd - 1)'
    <3>1. hd' - 1 = hd
      BY <1>1
    <3> QED BY <2>2, <3>1
  <2> QED BY <1>1, <1>2, <2>3 DEF SignalInv, Late
<1>6. OpenInv'
  <2>1. \A g \in Gsis : redir'[g].masked
    BY <1>1, <1>2, <1>4 DEF OpenInv, h
  <2>2. \A g \in Gsis : redir'[g].dest = BSP
    BY <1>1, <1>4 DEF OpenInv
  <2> QED BY <1>2, <2>1, <2>2 DEF OpenInv, Late
<1> QED BY <1>5, <1>6

\* interrupt_enable_irq opens the clock's line, when all others are closed.
LEMMA UnmaskClockLines == IInv /\ WInv /\ UnmaskClock => SignalInv' /\ OpenInv'
<1> SUFFICES ASSUME IInv, WInv, UnmaskClock PROVE SignalInv' /\ OpenInv'
  OBVIOUS
<1>1. /\ IInv /\ Types /\ SignalInv /\ OpenInv /\ BootStep
      /\ UNCHANGED <<madt, hd, overrides>>
  BY DEF IInv, WInv, UnmaskClock, BootStep, tables
<1>2. pc[BSP] = "unmask" /\ pc'[BSP] = "sti"
  BY <1>1, BootMoves
<1>3. CASE madt = NoMadt
  <2>1. redir' = redir
    BY <1>3 DEF UnmaskClock
  <2> QED BY <1>1, <1>2, <1>3, <2>1 DEF SignalInv, OpenInv, Late
<1>4. CASE madt # NoMadt
  <2>1. Signalled(Len(Wirings))
    BY <1>1, <1>2, <1>4 DEF SignalInv
  <2>2. PICK c \in Gsis : c = IsaToGsi(CLOCK_IRQ)
    BY <1>1, <2>1, ClockFound
  <2>3. redir' = [redir EXCEPT ![c].masked = FALSE]
    BY <1>4, <2>2 DEF UnmaskClock
  <2>4. \A g \in Gsis :
          /\ redir'[g].low = redir[g].low /\ redir'[g].level = redir[g].level
          /\ redir'[g].dest = redir[g].dest
          /\ g # c => redir'[g].masked = redir[g].masked
    BY <1>1, <2>3, MaskWritten, Zenon
  <2>5. SignalInv'
    <3>1. Len(Wirings)' = Len(Wirings) /\ \A k : Signalled(k) => Signalled(k)'
      BY <1>1, <2>4, SameSignals
    <3>2. Signalled(Len(Wirings))'
      <4>1. PICK k : k = Len(Wirings)
        OBVIOUS
      <4> QED BY <2>1, <3>1, <4>1
    <3> QED BY <1>1, <1>2, <3>2 DEF SignalInv
  <2>6. OpenInv'
    <3>1. \A g \in Gsis : redir'[g].dest = BSP /\ (~redir'[g].masked => g = c)
      BY <1>1, <1>2, <2>4 DEF OpenInv
    <3>2. IsaToGsi(CLOCK_IRQ)' = c
      BY <1>1, <2>2 DEF IsaToGsi
    <3> QED BY <1>2, <3>1, <3>2 DEF OpenInv
  <2> QED BY <2>5, <2>6
<1> QED BY <1>3, <1>4

\* All other steps leave the lines alone.
LEMMA SameLinesStep ==
  ASSUME IInv, WInv, redir' = redir, UNCHANGED <<madt, overrides>>,
         \/ pc'[BSP] = pc[BSP] /\ hd' = hd
         \/ pc'[BSP] \in {"parse", "idt", "halted"}
         \/ pc[BSP] = "parse" /\ pc'[BSP] = "low" /\ hd' = 1
         \/ pc[BSP] = "low" /\ hd > Len(Wirings) /\ pc'[BSP] = "local"
         \/ pc[BSP] = "idt" /\ pc'[BSP] = "local"
         \/ pc[BSP] \in {"local", "clock"} /\ pc'[BSP] \in {"clock", "unmask"}
         \/ pc[BSP] \in {"sti"} \cup Late /\ pc'[BSP] \in Late,
         pc'[BSP] \in {"parse", "idt"} => pc[BSP] \in {"apic", "parse", "idt"}
  PROVE  SignalInv' /\ OpenInv'
<1>1. SignalInv /\ OpenInv /\ Parsing /\ Types
  BY DEF WInv, IInv
<1>2. /\ \A k : Signalled(k) => Signalled(k)'
      /\ Len(Wirings)' = Len(Wirings) /\ Wirings' = Wirings
      /\ IsaToGsi(CLOCK_IRQ)' = IsaToGsi(CLOCK_IRQ)
  BY SameSignals
<1>3. Len(Wirings) \in Nat /\ hd \in Nat \ {0}
  BY <1>1, WiringFacts DEF Types
<1>4. CASE pc'[BSP] = pc[BSP] /\ hd' = hd
  <2>1. Signalled(Len(Wirings)) => Signalled(Len(Wirings))'
    <3>1. PICK k : k = Len(Wirings)
      OBVIOUS
    <3> QED BY <1>2, <3>1
  <2>2. /\ Signalled(hd - 1) => Signalled(hd - 1)'
        /\ Signalled(hd) => Signalled(hd)'
    BY <1>2, <1>4
  <2> QED BY <1>1, <1>2, <1>4, <2>1, <2>2 DEF SignalInv, OpenInv
<1>5. CASE pc'[BSP] \in {"parse", "idt", "halted"}
  <2>1. SignalInv'
    BY <1>5 DEF SignalInv, Late
  <2> QED BY <1>1, <1>5, <2>1 DEF OpenInv, Late
<1>6. CASE pc[BSP] = "parse" /\ pc'[BSP] = "low" /\ hd' = 1
  <2>1. Signalled(0)'
    BY DEF Signalled
  <2>2. Signalled(hd - 1)'
    BY <1>6, <2>1
  <2> QED BY <1>1, <1>6, <2>2 DEF SignalInv, OpenInv, Late, Parsing
<1>7. CASE pc[BSP] \in {"local", "clock"} /\ pc'[BSP] \in {"clock", "unmask"}
  <2>1. madt # NoMadt => Signalled(Len(Wirings))'
    <3>1. PICK k : k = Len(Wirings)
      OBVIOUS
    <3> QED BY <1>1, <1>2, <1>7, <3>1 DEF SignalInv
  <2> QED BY <1>1, <1>7, <2>1 DEF SignalInv, OpenInv, Late
<1>8. CASE pc[BSP] = "low" /\ hd > Len(Wirings) /\ pc'[BSP] = "local"
  <2>1. Signalled(Len(Wirings))
    BY <1>1, <1>3, <1>8 DEF SignalInv, Signalled
  <2>2. Signalled(Len(Wirings))'
    <3>1. PICK k : k = Len(Wirings)
      OBVIOUS
    <3> QED BY <1>2, <2>1, <3>1
  <2> QED BY <1>1, <1>8, <2>2 DEF SignalInv, OpenInv, Late
<1>9. CASE pc[BSP] = "idt" /\ pc'[BSP] = "local"
  BY <1>1, <1>9 DEF Parsing, SignalInv, OpenInv, Late
<1>10. CASE pc[BSP] \in {"sti"} \cup Late /\ pc'[BSP] \in Late
  <2>1. madt # NoMadt => Signalled(Len(Wirings))'
    <3>1. PICK k : k = Len(Wirings)
      OBVIOUS
    <3> QED BY <1>1, <1>2, <1>10, <3>1 DEF SignalInv
  <2> QED BY <1>1, <1>2, <1>10, <2>1 DEF SignalInv, OpenInv, Late
<1> QED BY <1>4, <1>5, <1>6, <1>7, <1>8, <1>9, <1>10

\* Every line that is open is the one being wired, or the clock's, and it has its signal.
LEMMA LinesStep == IInv /\ WInv /\ SoundTables /\ [Next]_vars => SignalInv' /\ OpenInv'
<1> SUFFICES ASSUME IInv, WInv, SoundTables, [Next]_vars PROVE SignalInv' /\ OpenInv'
  OBVIOUS
<1>1. BootStep \/ LaterStep
  BY StepKinds DEF WInv
<1>2. CASE LaterStep
  BY <1>2, SameLinesStep DEF LaterStep, tables, Late
<1>3. CASE RedirectLow \/ RedirectHigh \/ Mask \/ UnmaskClock
  BY <1>3, RedirectLowLines, RedirectHighLines, MaskLines, UnmaskClockLines
<1>4. CASE ApicInit
  <2>1. redir' = redir /\ UNCHANGED <<madt, overrides>>
    BY <1>4 DEF ApicInit, tables
  <2>2. pc[BSP] = "apic" /\ pc'[BSP] \in {"parse", "idt"}
    BY <1>4, BootMoves DEF BootStep
  <2> QED BY <2>1, <2>2, SameLinesStep
<1>5. CASE ParseEntry
  <2>1. /\ UNCHANGED <<madt, redir>>
        /\ pc[BSP] = "parse" /\ pc'[BSP] = "parse"
    BY <1>5, BootMoves DEF ParseEntry, BootStep
  <2>2. SignalInv'
    BY <2>1 DEF SignalInv, Late
  <2>3. OpenInv'
    BY <2>1 DEF WInv, OpenInv, Late
  <2> QED BY <2>2, <2>3
<1>6. CASE ParseEnd
  <2>1. redir' = redir /\ UNCHANGED <<madt, overrides>> /\ hd' = 1
    BY <1>6 DEF ParseEnd
  <2>2. pc[BSP] = "parse" /\ pc'[BSP] = "low"
    BY <1>6, BootMoves DEF BootStep
  <2> QED BY <2>1, <2>2, SameLinesStep
<1>7. CASE ExceptionInit
  <2>1. redir' = redir /\ UNCHANGED <<madt, overrides>>
    BY <1>7 DEF ExceptionInit, tables
  <2>2. pc'[BSP] = "local" /\ (pc[BSP] = "idt" \/ (pc[BSP] = "low" /\ hd > Len(Wirings)))
    BY <1>7, BootMoves DEF ExceptionInit, Runs, BootStep
  <2> QED BY <2>1, <2>2, SameLinesStep
<1>8. CASE LapicEnable(BSP) \/ ClockInit
  <2>1. redir' = redir /\ UNCHANGED <<madt, overrides>>
    BY <1>8 DEF LapicEnable, ClockInit, tables
  <2>2. pc[BSP] \in {"local", "clock"} /\ pc'[BSP] \in {"clock", "unmask"}
    BY <1>8, BootMoves DEF BootStep
  <2> QED BY <2>1, <2>2, SameLinesStep
<1> QED BY <1>1, <1>2, <1>3, <1>4, <1>5, <1>6, <1>7, <1>8 DEF BootStep

\* clock_init registers clock_handler for the line it then opens, and it stays registered.
LEMMA ClockInvStep == IInv /\ WInv /\ SoundTables /\ [Next]_vars => ClockInv'
<1> SUFFICES ASSUME IInv, WInv, SoundTables, [Next]_vars PROVE ClockInv'
  OBVIOUS
<1>1. IInv /\ Types /\ SignalInv /\ ClockInv /\ (BootStep \/ LaterStep)
  BY StepKinds DEF WInv, IInv
<1>2. overrides' = overrides => IsaToGsi(CLOCK_IRQ)' = IsaToGsi(CLOCK_IRQ)
  BY DEF IsaToGsi
<1>3. CASE LaterStep
  BY <1>1, <1>2, <1>3 DEF LaterStep, tables, ClockInv, Late
<1>4. CASE ClockInit
  <2>1. pc[BSP] = "clock" /\ UNCHANGED <<madt, overrides>>
    BY <1>4, BootMoves DEF ClockInit, BootStep, tables
  <2>2. handlers' = [handlers EXCEPT ![IRQ_BASE + IsaToGsi(CLOCK_IRQ)] =
                       [type |-> "ISR_IRQ", handler |-> "clock"]]
    BY <1>4 DEF ClockInit, Register
  <2>3. madt # NoMadt => IRQ_BASE + IsaToGsi(CLOCK_IRQ) \in Vectors
    <3>1. madt # NoMadt => IsaToGsi(CLOCK_IRQ) \in Gsis
      BY <1>1, <2>1, ClockFound DEF SignalInv
    <3> QED BY <3>1 DEF Vectors
  <2>4. madt # NoMadt => handlers'[IRQ_BASE + IsaToGsi(CLOCK_IRQ)].handler = "clock"
    BY <1>1, <2>2, <2>3 DEF Types
  <2> QED BY <1>2, <2>1, <2>4 DEF ClockInv
<1>5. CASE UnmaskClock
  <2>1. pc[BSP] = "unmask" /\ UNCHANGED <<madt, overrides, handlers>>
    BY <1>5, BootMoves DEF UnmaskClock, BootStep, tables
  <2> QED BY <1>1, <1>2, <2>1 DEF ClockInv
<1>6. CASE BootStep /\ ~ClockInit /\ ~UnmaskClock
  <2>1. pc'[BSP] \notin {"unmask", "sti"} \cup Late
    BY <1>6, BootMoves DEF BootStep, Late
  <2> QED BY <2>1 DEF ClockInv
<1> QED BY <1>1, <1>3, <1>4, <1>5, <1>6

\* What a step does to the frames of a processor, and when it enables interrupts there.
Entered(c) ==
  \A i \in DOMAIN frames'[c] :
    \/ \E j \in DOMAIN frames[c] : /\ frames'[c][i].vec = frames[c][j].vec
                                   /\ frames'[c][i].iff = frames[c][j].iff
    \/ /\ frames'[c][i].iff = iff[c]
       /\ frames'[c][i].vec \in apic[c].irr \cup {INT_FAULT, IRQ_SPURIOUS}
Enables(c) ==
  iff'[c] => \/ iff[c]
             \/ pc[c] = "sti" /\ pc'[c] = AfterSti(c)
             \/ pc[c] # "halted" /\ pc'[c] = pc[c] /\ \E j \in DOMAIN frames[c] : frames[c][j].iff
Halts(c) == pc'[c] = "halted" => pc[c] = "halted" \/ ~iff'[c]

LEMMA CpuMoves ==
  ASSUME IInv, [Next]_vars, NEW c \in CPUs
  PROVE  Entered(c) /\ Enables(c) /\ Halts(c)
<1> USE CPUsAssumption DEF BSP
<1>1. /\ pc \in [CPUs -> Locations] /\ iff \in [CPUs -> BOOLEAN]
      /\ frames \in [CPUs -> Seq(Frame)]
  BY DEF IInv, Types
<1>2. ASSUME frames' = frames PROVE Entered(c)
  BY <1>2 DEF Entered
<1>3. ASSUME iff' = iff PROVE Enables(c)
  BY <1>3 DEF Enables
<1>4. ASSUME pc' = pc PROVE Halts(c)
  BY <1>4 DEF Halts
<1>5. ASSUME NEW d \in CPUs, Panic(d) PROVE Enables(c) /\ Halts(c)
  BY <1>1, <1>5 DEF Panic, Goto, Enables, Halts
<1>6. ASSUME NEW d \in CPUs, NEW at, at # "halted", Goto(d, at) PROVE Halts(c)
  BY <1>1, <1>6 DEF Goto, Halts
<1>7. ASSUME NEW d \in CPUs, Own(d) \/ ApStart(d) PROVE Entered(c) /\ Enables(c) /\ Halts(c)
  <2>1. frames' = frames
    BY <1>7 DEF Own, LapicEnable, InterruptEnable, PercpuInit, TimerSync, TimerTry, TimerEnable,
                ApStart, ApicInit, ParseEntry, ParseEnd, RedirectLow, RedirectHigh, Mask,
                ExceptionInit, ClockInit, UnmaskClock, SmpInit, BootEnd
  <2>2. CASE InterruptEnable(d)
    <3>1. Goto(d, AfterSti(d)) /\ AfterSti(d) # "halted" /\ pc[d] = "sti"
          /\ iff' = [iff EXCEPT ![d] = TRUE]
      BY <2>2 DEF InterruptEnable, AfterSti, Runs
    <3>2. Enables(c)
      BY <1>1, <3>1 DEF Goto, Enables
    <3> QED BY <1>2, <1>6, <2>1, <3>1, <3>2
  <2>3. CASE ParseEntry
    BY <1>2, <1>3, <1>4, <2>1, <2>3 DEF ParseEntry
  <2>4. CASE Panic(BSP)
    BY <1>2, <1>5, <2>1, <2>4
  <2>5. CASE ~InterruptEnable(d) /\ ~ParseEntry /\ ~Panic(BSP)
    <3>1. iff' = iff
      BY <1>7, <2>5 DEF Own, LapicEnable, PercpuInit, TimerSync, TimerTry, TimerEnable,
                ApStart, ApicInit, ParseEnd, RedirectLow, RedirectHigh, Mask,
                ExceptionInit, ClockInit, UnmaskClock, SmpInit, BootEnd
    <3>2. \E e \in CPUs : \E at : at # "halted" /\ Goto(e, at)
      <4>1. CASE LapicEnable(d) \/ PercpuInit(d) \/ TimerSync(d) \/ TimerTry(d)
                 \/ TimerEnable(d) \/ ApStart(d)
        <5>1. Goto(d, "clock") \/ Goto(d, "sti") \/ Goto(d, "sched") \/ Goto(d, "sync")
              \/ Goto(d, "try") \/ Goto(d, "idle") \/ Goto(d, "local")
          BY <4>1 DEF LapicEnable, PercpuInit, TimerSync, TimerTry, TimerEnable, ApStart
        <5> QED BY <5>1
      <4>2. CASE ApicInit \/ ParseEnd \/ RedirectLow \/ RedirectHigh \/ Mask \/ ExceptionInit
                 \/ ClockInit \/ UnmaskClock \/ SmpInit \/ BootEnd
        <5>1. Goto(BSP, "idt") \/ Goto(BSP, "parse") \/ Goto(BSP, "low") \/ Goto(BSP, "high")
              \/ Goto(BSP, "mask") \/ Goto(BSP, "local") \/ Goto(BSP, "unmask") \/ Goto(BSP, "sti")
              \/ Goto(BSP, "sched") \/ Goto(BSP, "boot")
          BY <2>5, <4>2 DEF ApicInit, ParseEnd, RedirectLow, RedirectHigh, Mask, ExceptionInit,
                            ClockInit, UnmaskClock, SmpInit, BootEnd
        <5> QED BY <5>1
      <4> QED BY <1>7, <2>5, <4>1, <4>2 DEF Own
    <3> QED BY <1>2, <1>3, <1>6, <2>1, <3>1, <3>2
  <2> QED BY <2>2, <2>3, <2>4, <2>5
<1>8. ASSUME NEW d \in CPUs, LocalTimer(d) PROVE UNCHANGED <<frames, iff, pc>>
  BY <1>8 DEF LocalTimer
<1>9. ASSUME NEW g \in Gsis, Raise(g) PROVE UNCHANGED <<frames, iff, pc>>
  BY <1>9 DEF Raise
<1>10. ASSUME NEW d \in CPUs, NEW v, Push(d, v), v \in apic[d].irr \cup {INT_FAULT, IRQ_SPURIOUS}
       PROVE  Entered(c) /\ Enables(c)
  <2>1. /\ frames' = [frames EXCEPT ![d] = Append(@, [vec |-> v, at |-> "entry", iff |-> iff[d]])]
        /\ iff' = [iff EXCEPT ![d] = FALSE]
    BY <1>10 DEF Push, Gate
  <2>2. Enables(c)
    BY <1>1, <2>1 DEF Enables
  <2>3. CASE c # d
    <3>1. frames'[c] = frames[c]
      BY <1>1, <2>1, <2>3
    <3> QED BY <2>2, <3>1 DEF Entered
  <2>4. CASE c = d
    <3> DEFINE f == [vec |-> v, at |-> "entry", iff |-> iff[c]]
    <3>1. frames'[c] = Append(frames[c], f) /\ frames[c] \in Seq(Frame)
      BY <1>1, <2>1, <2>4
    <3>2. f.vec = v /\ f.iff = iff[c]
      OBVIOUS
    <3> HIDE DEF f
    <3>3. \A i \in DOMAIN frames'[c] : \/ i \in DOMAIN frames[c] /\ frames'[c][i] = frames[c][i]
                                       \/ frames'[c][i] = f
      BY <3>1
    <3> QED BY <1>10, <2>2, <2>4, <3>2, <3>3 DEF Entered
  <2> QED BY <2>3, <2>4
<1>11. ASSUME NEW d \in CPUs, Accept(d) PROVE Entered(c) /\ Enables(c) /\ Halts(c)
  <2>1. PICK v : v = Max(apic[d].irr)
    OBVIOUS
  <2>2. Push(d, v) /\ pc' = pc
    BY <1>11, <2>1 DEF Accept
  <2>3. v \in apic[d].irr
    <3>1. apic[d].irr \in SUBSET (0..255) /\ apic[d].irr # {}
      BY <1>11, VectorFacts DEF Accept, IInv, Noted
    <3> QED BY <2>1, <3>1, MaxIsGreatest
  <2> QED BY <1>4, <1>10, <2>2, <2>3
<1>12. ASSUME NEW d \in CPUs, Spurious(d) \/ Fault(d) PROVE Entered(c) /\ Enables(c) /\ Halts(c)
  <2>1. (Push(d, IRQ_SPURIOUS) \/ Push(d, INT_FAULT)) /\ pc' = pc
    BY <1>12 DEF Spurious, Fault
  <2> QED BY <1>4, <1>10, <2>1
<1>13. ASSUME NEW d \in CPUs, Eoi(d) PROVE Entered(c) /\ Enables(c) /\ Halts(c)
  <2>1. /\ frames' = [frames EXCEPT ![d][Len(frames[d])].at = "handler"]
        /\ iff' = iff /\ pc' = pc /\ frames[d] # <<>>
    BY <1>13 DEF Eoi, Interrupted
  <2>2. CASE c # d
    <3>1. frames'[c] = frames[c]
      BY <1>1, <2>1, <2>2
    <3> QED BY <1>3, <1>4, <2>1, <3>1 DEF Entered
  <2>3. CASE c = d
    <3>1. PICK n : n = Len(frames[c])
      OBVIOUS
    <3>2. frames'[c] = [frames[c] EXCEPT ![n] = [frames[c][n] EXCEPT !.at = "handler"]]
      BY <1>1, <2>1, <2>3, <3>1
    <3>3. frames[c] \in Seq(Frame) /\ n \in DOMAIN frames[c] /\ frames[c][n] \in Frame
      BY <1>1, <2>1, <2>3, <3>1
    <3>4. DOMAIN frames'[c] = DOMAIN frames[c]
      BY <3>2
    <3>5. \A i \in DOMAIN frames[c] : /\ frames'[c][i].vec = frames[c][i].vec
                                      /\ frames'[c][i].iff = frames[c][i].iff
      BY <3>2, <3>3 DEF Frame
    <3> QED BY <1>3, <1>4, <2>1, <3>4, <3>5 DEF Entered
  <2> QED BY <2>2, <2>3
<1>14. ASSUME NEW d \in CPUs, Handle(d) PROVE Entered(c) /\ Enables(c) /\ Halts(c)
  <2>1. CASE Panic(d) /\ frames' = frames
    BY <1>2, <1>5, <2>1
  <2>2. CASE ~(Panic(d) /\ frames' = frames)
    <3>1. /\ frames' = [frames EXCEPT ![d] = SubSeq(@, 1, Len(@) - 1)]
          /\ iff' = [iff EXCEPT ![d] = frames[d][Len(frames[d])].iff] /\ pc' = pc
          /\ frames[d] # <<>> /\ pc[d] # "halted"
      BY <1>14, <2>2 DEF Handle, Interrupted, Top
    <3>2. CASE c # d
      <4>1. frames'[c] = frames[c] /\ iff'[c] = iff[c]
        BY <1>1, <3>1, <3>2
      <4> QED BY <1>4, <3>1, <4>1 DEF Entered, Enables
    <3>3. CASE c = d
      <4>1. PICK n : n = Len(frames[c])
        OBVIOUS
      <4>2. /\ frames[c] \in Seq(Frame) /\ n \in Nat \ {0} /\ DOMAIN frames[c] = 1..n
        BY <1>1, <3>1, <3>3, <4>1
      <4>3. frames'[c] = SubSeq(frames[c], 1, n - 1) /\ iff'[c] = frames[c][n].iff
        BY <1>1, <3>1, <3>3, <4>1
      <4>4. \A i \in DOMAIN frames'[c] : i \in DOMAIN frames[c] /\ frames'[c][i] = frames[c][i]
        BY <4>2, <4>3
      <4>5. Entered(c)
        BY <4>4 DEF Entered
      <4>6. Enables(c)
        <5>1. n \in DOMAIN frames[c]
          BY <4>2
        <5>2. iff'[c] => \E j \in DOMAIN frames[c] : frames[c][j].iff
          BY <4>3, <5>1, Zenon
        <5> QED BY <3>1, <3>3, <5>2 DEF Enables
      <4> QED BY <1>4, <3>1, <4>5, <4>6
    <3> QED BY <3>2, <3>3
  <2> QED BY <2>1, <2>2
<1>15. CASE UNCHANGED vars
  BY <1>2, <1>3, <1>4, <1>15 DEF vars
<1> QED BY <1>2, <1>3, <1>4, <1>7, <1>8, <1>9, <1>11, <1>12, <1>13, <1>14, <1>15
  DEF Next, Dispatch

\* Interrupts that come back to its code find the boot processor past interrupt_enable.
LEMMA EnabledStep == IInv /\ WInv /\ [Next]_vars => EnabledInv'
<1> SUFFICES ASSUME IInv, WInv, [Next]_vars PROVE EnabledInv'
  OBVIOUS
<1>1. /\ IInv /\ EnabledInv /\ (BootStep \/ LaterStep) /\ BSP \in CPUs
      /\ Entered(BSP) /\ Enables(BSP) /\ Halts(BSP)
  BY StepKinds, CpuMoves, CPUsAssumption DEF WInv, BSP
<1>2. CASE BootStep
  <2>1. pc'[BSP] \notin {"off", "percpu"} /\ pc[BSP] \notin Late \cup {"halted"}
    BY <1>1, <1>2, BootMoves DEF BootStep, Late
  <2>2. frames'[BSP] = <<>> /\ ~iff'[BSP]
    BY <1>1, <1>2, <2>1, BootMoves DEF EnabledInv
  <2> QED BY <2>1, <2>2 DEF EnabledInv
<1>3. CASE LaterStep
  <2>1. /\ pc'[BSP] \notin {"off", "percpu"}
        /\ pc[BSP] \in Late => pc'[BSP] \in Late \cup {"halted"}
        /\ pc[BSP] \in Late \cup {"halted"} => pc'[BSP] \in Late \cup {"halted"}
    BY <1>1, <1>3 DEF LaterStep, EnabledInv, Late
  <2>2. iff'[BSP] => pc'[BSP] \in Late
    BY <1>1, <2>1 DEF EnabledInv, Enables, Halts, AfterSti, Late
  <2>3. \A i \in DOMAIN frames'[BSP] : frames'[BSP][i].iff => pc'[BSP] \in Late \cup {"halted"}
    BY <1>1, <2>1 DEF EnabledInv, Entered
  <2> QED BY <2>1, <2>2, <2>3 DEF EnabledInv
<1> QED BY <1>1, <1>2, <1>3

-----------------------------------------------------------------------------
(* lapic_timer_enable.                                                     *)

\* Where a processor gets to the scheduler from.
Arrives(c) ==
  /\ pc'[c] = "sched"
  /\ \/ c = BSP /\ pc[c] = "smp" /\ Len(lapics) = 1
     \/ c = BSP /\ pc[c] = "boot"
     \/ pc[c] = "percpu" /\ c \in percpu'
Scheduled == {"sched", "sync", "try", "idle"}

\* How the processors get there.
Moves(c) ==
  /\ pc'[c] \in Scheduled => pc[c] \in Scheduled \/ Arrives(c)
  /\ (c # BSP /\ pc'[c] # "off") => pc[c] # "off" \/ (pc[BSP] = "boot" /\ pc'[BSP] = "boot")
BootMoved ==
  /\ pc'[BSP] = "smp" => pc[BSP] \in {"smp", "sti"}
  /\ pc'[BSP] = "boot" => \/ pc[BSP] = "boot"
                          \/ pc[BSP] = "smp" /\ Len(lapics) > 1 /\ BSP \in percpu'

LEMMA LaterMoves ==
  ASSUME IInv, [Next]_vars, NEW c \in CPUs
  PROVE  Moves(c) /\ BootMoved /\ percpu \subseteq percpu'
<1> USE CPUsAssumption DEF BSP
<1>1. pc \in [CPUs -> Locations]
  BY DEF IInv, Types
<1>2. ASSUME pc' = pc PROVE Moves(c) /\ BootMoved
  BY <1>2 DEF Moves, BootMoved
<1>3. ASSUME NEW d \in CPUs, NEW at, Goto(d, at), pc[d] # "off",
             at \notin Scheduled \cup {"smp", "boot"}
      PROVE  Moves(c) /\ BootMoved
  BY <1>1, <1>3 DEF Goto, Moves, BootMoved
<1>4. ASSUME NEW d \in CPUs, Own(d) \/ ApStart(d)
      PROVE  Moves(c) /\ BootMoved /\ percpu \subseteq percpu'
  <2>1. CASE InterruptEnable(d)
    <3>1. Goto(d, AfterSti(d)) /\ pc[d] = "sti" /\ percpu' = percpu
      BY <2>1 DEF InterruptEnable, Runs
    <3> QED BY <1>1, <3>1 DEF Goto, AfterSti, Moves, BootMoved, Scheduled
  <2>2. CASE PercpuInit(d)
    <3>1. Goto(d, "sched") /\ pc[d] = "percpu" /\ percpu' = percpu \cup {d}
      BY <2>2 DEF PercpuInit, Runs
    <3> QED BY <1>1, <3>1 DEF Goto, Moves, BootMoved, Scheduled, Arrives
  <2>3. CASE TimerSync(d) \/ TimerTry(d) \/ TimerEnable(d)
    <3>1. /\ pc[d] \in Scheduled /\ percpu' = percpu
          /\ Goto(d, "sync") \/ Goto(d, "try") \/ Goto(d, "idle")
      BY <2>3 DEF TimerSync, TimerTry, TimerEnable, Runs, Scheduled
    <3> QED BY <1>1, <3>1 DEF Goto, Moves, BootMoved, Scheduled
  <2>4. CASE ApStart(d)
    <3>1. Goto(d, "local") /\ pc[BSP] = "boot" /\ pc[d] = "off" /\ percpu' = percpu
      BY <2>4 DEF ApStart, Runs
    <3> QED BY <1>1, <3>1 DEF Goto, Moves, BootMoved, Scheduled
  <2>5. CASE LapicEnable(d)
    <3>1. /\ Goto(d, "clock") \/ Goto(d, "sti")
          /\ pc[d] = "local" /\ percpu' = percpu
      BY <2>5 DEF LapicEnable, Runs
    <3> QED BY <1>1, <3>1 DEF Goto, Moves, BootMoved, Scheduled
  <2>6. CASE SmpInit
    <3>1. /\ pc[BSP] = "smp" /\ percpu \subseteq percpu'
          /\ \/ Goto(BSP, "halted")
             \/ Goto(BSP, "sched") /\ Len(lapics) = 1
             \/ Goto(BSP, "boot") /\ Len(lapics) > 1 /\ BSP \in percpu'
      BY <2>6 DEF SmpInit, Runs, Panic
    <3> QED BY <1>1, <3>1 DEF Goto, Moves, BootMoved, Scheduled, Arrives
  <2>7. CASE BootEnd
    <3>1. pc[BSP] = "boot" /\ percpu' = percpu /\ Goto(BSP, "sched")
      BY <2>7 DEF BootEnd, Runs
    <3> QED BY <1>1, <3>1 DEF Goto, Moves, BootMoved, Scheduled, Arrives
  <2>8. CASE ApicInit \/ ParseEntry \/ ParseEnd \/ RedirectLow \/ RedirectHigh \/ Mask
             \/ ExceptionInit \/ ClockInit \/ UnmaskClock
    <3>1. BootStep
      BY <2>8 DEF BootStep
    <3>2. /\ pc[BSP] \notin {"off"} \cup Scheduled
          /\ pc'[BSP] \notin Scheduled \cup {"smp", "boot"}
          /\ percpu' = percpu /\ \A e \in CPUs \ {BSP} : pc'[e] = pc[e]
      BY <2>8, <3>1, BootMoves DEF Scheduled
    <3> QED BY <3>2 DEF Moves, BootMoved
  <2> QED BY <1>4, <2>1, <2>2, <2>3, <2>4, <2>5, <2>6, <2>7, <2>8 DEF Own
<1>5. ASSUME NEW d \in CPUs, Handle(d) PROVE Moves(c) /\ BootMoved /\ percpu' = percpu
  <2>1. percpu' = percpu /\ (pc' = pc \/ Goto(d, "halted"))
    BY <1>5 DEF Handle, Panic
  <2> QED BY <1>1, <1>2, <1>5, <2>1 DEF Goto, Moves, BootMoved, Scheduled, Handle
<1>6. ASSUME NEW d \in CPUs, LocalTimer(d) \/ Accept(d) \/ Spurious(d) \/ Fault(d) \/ Eoi(d)
      PROVE  pc' = pc /\ percpu' = percpu
  BY <1>6 DEF LocalTimer, Accept, Spurious, Fault, Eoi
<1>7. ASSUME NEW g \in Gsis, Raise(g) PROVE pc' = pc /\ percpu' = percpu
  BY <1>7 DEF Raise
<1>8. CASE UNCHANGED vars
  BY <1>2, <1>8 DEF vars
<1> QED BY <1>2, <1>4, <1>5, <1>6, <1>7, <1>8 DEF Next, Dispatch

\* A local timer starts, and interrupts, only a processor that is there.
LEMMA ApicMoves ==
  ASSUME IInv, [Next]_vars, NEW c \in CPUs
  PROVE  /\ apic'[c].timer # "off" => apic[c].timer # "off" \/ pc[c] \in Scheduled
         /\ IRQ_LINT_TIMER \in apic'[c].irr =>
              IRQ_LINT_TIMER \in apic[c].irr \/ apic[c].timer = "periodic"
         /\ apic'[c].timer \in {apic[c].timer, "counting", "periodic"}
<1> DEFINE P == /\ apic'[c].timer # "off" => apic[c].timer # "off" \/ pc[c] \in Scheduled
                /\ IRQ_LINT_TIMER \in apic'[c].irr =>
                     IRQ_LINT_TIMER \in apic[c].irr \/ apic[c].timer = "periodic"
                /\ apic'[c].timer \in {apic[c].timer, "counting", "periodic"}
<1> SUFFICES P
  OBVIOUS
<1> USE CPUsAssumption DEF BSP
<1>1. DOMAIN apic = CPUs /\ \A d \in CPUs : DOMAIN apic[d] = ApicFields
  BY DEF IInv, Types
<1>2. ASSUME apic' = apic PROVE P
  BY <1>2
<1>3. ASSUME NEW d \in CPUs, LapicEnable(d) PROVE P
  <2> DEFINE lints == {nmis[i].lint : i \in {i \in DOMAIN nmis : nmis[i].acpi \in {d, 255}}}
  <2>1. apic' = apic \/ apic' = [apic EXCEPT ![d].enabled = TRUE, ![d].isr = Ended(@), ![d].nmi = lints]
    BY <1>3 DEF LapicEnable
  <2> HIDE DEF lints
  <2>2. apic'[c].timer = apic[c].timer /\ apic'[c].irr = apic[c].irr
    BY <1>1, <2>1 DEF ApicFields
  <2> QED BY <2>2
<1>4. ASSUME NEW d \in CPUs, TimerTry(d) \/ TimerEnable(d) PROVE P
  <2>1. /\ pc[d] \in Scheduled
        /\ apic' = [apic EXCEPT ![d].timer = "counting"] \/ apic' = [apic EXCEPT ![d].timer = "periodic"]
    BY <1>4 DEF TimerTry, TimerEnable, Runs, Scheduled
  <2>2. /\ apic'[c].irr = apic[c].irr
        /\ c # d => apic'[c].timer = apic[c].timer
        /\ c = d => apic'[c].timer \in {"counting", "periodic"}
    BY <1>1, <2>1 DEF ApicFields
  <2> QED BY <2>1, <2>2
<1>5. ASSUME NEW d \in CPUs, Own(d) \/ ApStart(d) PROVE P
  <2>1. CASE LapicEnable(d) \/ TimerTry(d) \/ TimerEnable(d)
    BY <1>3, <1>4, <2>1
  <2>2. CASE ~(LapicEnable(d) \/ TimerTry(d) \/ TimerEnable(d))
    <3>1. apic' = apic
      BY <1>5, <2>2 DEF Own, ApStart, InterruptEnable, PercpuInit, TimerSync, ApicInit, ParseEntry,
         ParseEnd, RedirectLow, RedirectHigh, Mask, ExceptionInit, ClockInit, UnmaskClock, SmpInit,
         BootEnd
    <3> QED BY <1>2, <3>1
  <2> QED BY <2>1, <2>2
<1>6. ASSUME NEW d, NEW v, Notes(d, v), v # IRQ_LINT_TIMER \/ apic[d].timer = "periodic" PROVE P
  <2>1. apic' = [apic EXCEPT ![d].irr = @ \cup {v}]
    BY <1>6 DEF Notes
  <2>2. /\ apic'[c].timer = apic[c].timer
        /\ apic'[c].irr = IF c = d THEN apic[c].irr \cup {v} ELSE apic[c].irr
    BY <1>1, <2>1 DEF ApicFields
  <2> QED BY <1>6, <2>2
<1>7. ASSUME NEW d \in CPUs, LocalTimer(d) PROVE P
  BY <1>6, <1>7 DEF LocalTimer
<1>8. ASSUME NEW g \in Gsis, Raise(g) PROVE P
  <2>1. redir[g].vec = IRQ_BASE + g
    BY <1>8 DEF Raise, IInv, OpenLines
  <2>2. IRQ_BASE + g # IRQ_LINT_TIMER
    BY LinesAssumption, VectorsAssumption DEF Gsis, IRQ_BASE, IRQ_LINT_TIMER, IRQ_NMI
  <2> QED BY <1>6, <1>8, <2>1, <2>2 DEF Raise
<1>9. ASSUME NEW d \in CPUs, Accept(d) PROVE P
  <2>1. PICK v : v = Max(apic[d].irr)
    OBVIOUS
  <2>2. apic' = [apic EXCEPT ![d].irr = @ \ {v}, ![d].isr = @ \cup {v}]
    BY <1>9, <2>1 DEF Accept
  <2>3. /\ apic'[c].timer = apic[c].timer
        /\ apic'[c].irr \subseteq apic[c].irr
    BY <1>1, <2>2 DEF ApicFields
  <2> QED BY <2>3
<1>10. ASSUME NEW d \in CPUs, Eoi(d) PROVE P
  <2>1. PICK x : apic' = [apic EXCEPT ![d].isr = x]
    BY <1>10 DEF Eoi
  <2>2. apic'[c].timer = apic[c].timer /\ apic'[c].irr = apic[c].irr
    BY <1>1, <2>1 DEF ApicFields
  <2> QED BY <2>2
<1>11. ASSUME NEW d \in CPUs, Spurious(d) \/ Fault(d) \/ Handle(d) PROVE P
  BY <1>2, <1>11 DEF Spurious, Fault, Handle
<1>12. CASE UNCHANGED vars
  BY <1>2, <1>12 DEF vars
<1> QED BY <1>5, <1>7, <1>8, <1>9, <1>10, <1>11, <1>12 DEF Next, Dispatch

\* What it takes for a timer to be there after a step.
LEMMA TimerMoves ==
  ASSUME IInv, [Next]_vars, NEW c \in CPUs, TimerAt(c)'
  PROVE  TimerAt(c) \/ Arrives(c)
<1>1. Moves(c) /\ Entered(c)
  BY LaterMoves, CpuMoves
<1>2. CASE pc'[c] \in Scheduled
  BY <1>1, <1>2 DEF Moves, TimerAt, Scheduled
<1>3. CASE apic'[c].timer # "off" \/ IRQ_LINT_TIMER \in apic'[c].irr
  BY <1>3, ApicMoves DEF TimerAt, Scheduled
<1>4. CASE \E i \in DOMAIN frames'[c] : frames'[c][i].vec = IRQ_LINT_TIMER
  <2>1. IRQ_LINT_TIMER \notin {INT_FAULT, IRQ_SPURIOUS}
    BY DEF IRQ_LINT_TIMER, INT_FAULT, IRQ_SPURIOUS
  <2> QED BY <1>1, <1>4, <2>1 DEF Entered, TimerAt
<1> QED BY <1>2, <1>3, <1>4 DEF TimerAt, Scheduled

\* No other handler is registered for the timer's vector.
LEMMA BootHandlers ==
  ASSUME IInv, WInv, SoundTables, BootStep
  PROVE  /\ LapicEnable(BSP) /\ madt # NoMadt => TimerReady'
         /\ (ClockInit \/ UnmaskClock) /\ TimerReady => TimerReady'
<1> USE CPUsAssumption DEF BSP
<1>1. /\ IInv /\ Types /\ ListsInv /\ SignalInv /\ IRQ_LINT_TIMER \in Vectors
  BY DEF IInv, WInv, Vectors
<1>2. LapicEnable(BSP) /\ madt # NoMadt => TimerReady'
  <2>1. LapicEnable(BSP) /\ madt # NoMadt =>
          handlers' = [handlers EXCEPT ![IRQ_LINT_TIMER] = [type |-> "ISR_IRQ", handler |-> "sched"]]
    BY DEF LapicEnable, Register
  <2> QED BY <1>1, <2>1 DEF TimerReady, Types
<1>3. UnmaskClock /\ TimerReady => TimerReady'
  BY DEF UnmaskClock, TimerReady
<1>4. ASSUME ClockInit, TimerReady PROVE TimerReady'
  <2>1. handlers' = [handlers EXCEPT ![IRQ_BASE + IsaToGsi(CLOCK_IRQ)] =
                       [type |-> "ISR_IRQ", handler |-> "clock"]]
    BY <1>4 DEF ClockInit, Register
  <2>2. IsaToGsi(CLOCK_IRQ) \in Gsis
    <3>1. CASE madt = NoMadt
      <4>1. overrides = <<>>
        BY <1>1, <3>1 DEF ListsInv
      <4>2. IsaToGsi(CLOCK_IRQ) = 0
        BY <4>1 DEF IsaToGsi, CLOCK_IRQ
      <4> QED BY <4>2, LinesAssumption DEF Gsis
    <3>2. CASE madt # NoMadt
      <4>1. pc[BSP] = "clock"
        BY <1>4, BootMoves DEF BootStep
      <4> QED BY <1>1, <3>2, <4>1, ClockFound DEF SignalInv
    <3> QED BY <3>1, <3>2
  <2>3. IRQ_BASE + IsaToGsi(CLOCK_IRQ) # IRQ_LINT_TIMER
    BY <2>2, LinesAssumption, VectorsAssumption DEF Gsis, IRQ_BASE, IRQ_LINT_TIMER, IRQ_NMI
  <2> QED BY <1>1, <1>4, <2>1, <2>3 DEF TimerReady, Types
<1> QED BY <1>2, <1>3, <1>4

\* A processor has its area, and the timer its handler, before there can be a timer.
LEMMA TimersStep == IInv /\ WInv /\ SoundTables /\ [Next]_vars => TimersInv'
<1> SUFFICES ASSUME IInv, WInv, SoundTables, [Next]_vars PROVE TimersInv'
  OBVIOUS
<1> USE CPUsAssumption DEF BSP
<1>1. /\ IInv /\ ListsInv /\ EnabledInv /\ TimersInv /\ (BootStep \/ LaterStep)
      /\ BSP \in CPUs /\ pc[BSP] \in Locations
      /\ lapics \in Seq([type : {"lapic"}, id : CPUs, flags : {0, 1, 2}])
  BY StepKinds DEF WInv, IInv, Types, ListsInv
<1>2. \A c \in CPUs : Moves(c) /\ (TimerAt(c)' => TimerAt(c) \/ Arrives(c))
  BY LaterMoves, TimerMoves
<1>3. BootMoved /\ percpu \subseteq percpu'
  BY <1>1, LaterMoves
<1>4. pc'[BSP] \in Locations
  BY StepIInv DEF IInv, Types
<1>5. CASE BootStep
  <2>1. /\ pc[BSP] \in Locations \ (Late \cup {"halted"})
        /\ pc'[BSP] \notin Late
        /\ \A c \in CPUs \ {BSP} : pc'[c] = pc[c]
    BY <1>1, <1>5, BootMoves DEF BootStep, Late, Locations
  <2>2. (\A c \in CPUs : ~TimerAt(c)) /\ \A c \in CPUs \ {BSP} : pc[c] = "off"
    BY <1>1, <2>1 DEF TimersInv, Late
  <2>3. \A c \in CPUs : ~TimerAt(c)'
    <3> SUFFICES ASSUME NEW c \in CPUs, TimerAt(c)' PROVE FALSE
      OBVIOUS
    <3>1. Arrives(c)
      BY <1>2, <2>2
    <3> QED BY <2>1, <2>2, <3>1 DEF Arrives, Late
  <2>4. (pc'[BSP] \in {"clock", "unmask", "sti"} /\ madt' # NoMadt) => TimerReady'
    <3>1. CASE LapicEnable(BSP)
      BY <1>5, <3>1, BootHandlers DEF LapicEnable, tables
    <3>2. CASE ClockInit \/ UnmaskClock
      <4>1. pc[BSP] \in {"clock", "unmask"} /\ madt' = madt
        BY <1>5, <3>2, BootMoves DEF ClockInit, UnmaskClock, tables
      <4>2. madt # NoMadt => TimerReady
        BY <1>1, <4>1 DEF TimersInv
      <4> QED BY <1>5, <3>2, <4>1, <4>2, BootHandlers
    <3>3. CASE ~LapicEnable(BSP) /\ ~ClockInit /\ ~UnmaskClock
      <4>1. pc'[BSP] \notin {"clock", "unmask", "sti"}
        BY <1>5, <3>3, BootMoves DEF BootStep
      <4> QED BY <4>1
    <3> QED BY <3>1, <3>2, <3>3
  <2> QED BY <2>1, <2>2, <2>3, <2>4 DEF TimersInv, Late
<1>6. CASE LaterStep
  <2>1. UNCHANGED <<madt, lapics, handlers>> /\ (TimerReady' <=> TimerReady)
    BY <1>6 DEF LaterStep, tables, TimerReady
  <2>2. (pc'[BSP] \in {"clock", "unmask", "sti"} \cup Late /\ madt' # NoMadt) => TimerReady'
    BY <1>1, <1>6, <2>1 DEF LaterStep, TimersInv, Late
  <2>3. pc'[BSP] \in Locations \ (Late \cup {"halted"}) => \A c \in CPUs : ~TimerAt(c)'
    <3> SUFFICES ASSUME pc'[BSP] \in Locations \ (Late \cup {"halted"}), NEW c \in CPUs, TimerAt(c)'
                 PROVE  FALSE
      OBVIOUS
    <3>1. pc[BSP] = pc'[BSP]
      BY <1>6 DEF LaterStep
    <3>2. ~TimerAt(c) /\ (c # BSP => pc[c] = "off")
      BY <1>1, <3>1 DEF TimersInv, Late
    <3>3. Arrives(c)
      BY <1>2, <3>2
    <3> QED BY <3>1, <3>2, <3>3 DEF Arrives, Late
  <2>4. pc'[BSP] \in Locations \ {"boot", "sched", "sync", "try", "idle", "halted"} =>
          \A c \in CPUs \ {BSP} : pc'[c] = "off"
    <3> SUFFICES ASSUME pc'[BSP] \in Locations \ {"boot", "sched", "sync", "try", "idle", "halted"},
                        NEW c \in CPUs \ {BSP}
                 PROVE  pc'[c] = "off"
      OBVIOUS
    <3>1. pc[BSP] \in Locations \ {"boot", "sched", "sync", "try", "idle", "halted"}
      BY <1>1, <1>3, <1>6 DEF LaterStep, BootMoved, Late
    <3>2. pc[c] = "off"
      BY <1>1, <3>1 DEF TimersInv
    <3> QED BY <1>2, <3>1, <3>2 DEF Moves
  <2>5. pc'[BSP] = "boot" => BSP \in percpu' /\ madt' # NoMadt
    <3>1. CASE pc[BSP] = "boot"
      BY <1>1, <1>3, <2>1, <3>1 DEF TimersInv
    <3>2. CASE pc[BSP] # "boot" /\ pc'[BSP] = "boot"
      <4>1. Len(lapics) > 1 /\ BSP \in percpu'
        BY <1>3, <3>2 DEF BootMoved
      <4>2. lapics # <<>>
        BY <4>1
      <4> QED BY <1>1, <2>1, <4>1, <4>2 DEF ListsInv
    <3> QED BY <3>1, <3>2
  <2>6. ASSUME NEW c \in CPUs \ {BSP}, pc'[c] # "off" PROVE TimerReady'
    <3>1. CASE pc[c] # "off"
      BY <1>1, <2>1, <3>1 DEF TimersInv
    <3>2. CASE pc[BSP] = "boot"
      BY <1>1, <2>1, <3>2 DEF TimersInv, Late
    <3> QED BY <1>2, <2>6, <3>1, <3>2 DEF Moves
  <2>7. ASSUME NEW c \in CPUs, TimerAt(c)'
        PROVE  TimerReady' /\ (Len(lapics') > 1 => c \in percpu')
    <3>1. CASE TimerAt(c)
      BY <1>1, <1>3, <2>1, <3>1 DEF TimersInv
    <3>2. CASE c = BSP /\ pc[c] = "smp" /\ Len(lapics) = 1
      <4>1. Len(<<>>) # 1
        OBVIOUS
      <4>2. madt # NoMadt
        BY <1>1, <3>2, <4>1 DEF ListsInv
      <4> QED BY <1>1, <2>1, <3>2, <4>2 DEF TimersInv, Late
    <3>3. CASE c = BSP /\ pc[c] = "boot"
      BY <1>1, <1>3, <2>1, <3>3 DEF TimersInv, Late
    <3>4. CASE pc[c] = "percpu" /\ c \in percpu'
      BY <1>1, <2>1, <3>4 DEF TimersInv, EnabledInv
    <3> QED BY <1>2, <2>7, <3>1, <3>2, <3>3, <3>4 DEF Arrives
  <2> QED BY <2>2, <2>3, <2>4, <2>5, <2>6, <2>7 DEF TimersInv
<1> QED BY <1>1, <1>5, <1>6

-----------------------------------------------------------------------------
(* The other types.                                                        *)

Redirection == [vec : {0} \cup Vectors, low : BOOLEAN, level : BOOLEAN, dest : CPUs,
                masked : BOOLEAN]

\* What a write makes of a redirection entry is one.
LEMMA RedirTypes == IInv /\ WInv /\ SoundTables /\ OtherTypes /\ [Next]_vars =>
                      redir' \in [Gsis -> Redirection]
<1> SUFFICES ASSUME IInv, WInv, SoundTables, OtherTypes, [Next]_vars
             PROVE  redir' \in [Gsis -> Redirection]
  OBVIOUS
<1> USE CPUsAssumption DEF BSP
<1>1. /\ IInv /\ Types /\ ListsInv /\ SignalInv /\ (BootStep \/ LaterStep)
      /\ redir \in [Gsis -> Redirection] /\ Redirection = Redirection
  BY StepKinds DEF IInv, WInv, OtherTypes, Redirection
<1>2. ASSUME NEW h, NEW e \in Redirection, redir' = [redir EXCEPT ![h] = e]
      PROVE  redir' \in [Gsis -> Redirection]
  BY <1>1, <1>2
<1>3. CASE RedirectLow
  <2> DEFINE w == Wirings[hd]
  <2>1. CASE redir' = redir
    BY <1>1, <2>1
  <2>2. CASE redir' # redir
    <3>1. /\ Found(w.gsi) /\ pc[BSP] = "low" /\ madt # NoMadt /\ hd \in 1..Len(Wirings)
          /\ redir' = [redir EXCEPT ![w.gsi] =
               [@ EXCEPT !.vec = IRQ_BASE + w.gsi, !.masked = FALSE,
                         !.low = 2 \in w.flags, !.level = 8 \in w.flags]]
      BY <1>1, <1>3, <2>2, WiringFacts DEF RedirectLow, Runs, Types, SignalInv
    <3>2. w.gsi \in Gsis
      <4>1. w.gsi \in Nat
        BY <1>1, <3>1, WiringFacts
      <4> QED BY <1>1, <3>1, <4>1, ListFacts
    <3> DEFINE e == [redir[w.gsi] EXCEPT !.vec = IRQ_BASE + w.gsi, !.masked = FALSE,
                                         !.low = 2 \in w.flags, !.level = 8 \in w.flags]
    <3>3. e \in Redirection
      <4>1. redir[w.gsi] \in Redirection /\ IRQ_BASE + w.gsi \in Vectors
        BY <1>1, <3>2 DEF Vectors
      <4>2. (2 \in w.flags) \in BOOLEAN /\ (8 \in w.flags) \in BOOLEAN
        OBVIOUS
      <4>3. \A r \in Redirection, v \in Vectors, low, level \in BOOLEAN :
              [r EXCEPT !.vec = v, !.masked = FALSE, !.low = low, !.level = level] \in Redirection
        BY DEF Redirection
      <4> HIDE DEF w
      <4> QED BY <4>1, <4>2, <4>3
    <3>4. redir' = [redir EXCEPT ![w.gsi] = e]
      BY <3>1
    <3> HIDE DEF e, w
    <3> QED BY <1>1, <3>3, <3>4
  <2> QED BY <2>1, <2>2
<1>4. CASE RedirectHigh
  <2>1. /\ BootStep /\ redir' = [redir EXCEPT ![Wirings[hd].gsi].dest = lapics[1].id]
    BY <1>4 DEF BootStep, RedirectHigh
  <2>2. pc[BSP] = "high" /\ madt # NoMadt
    BY <1>1, <1>4, <2>1, BootMoves DEF SignalInv
  <2>3. lapics[1].id = BSP
    BY <1>1, <2>2, ListFacts
  <2>4. PICK h \in Gsis : h = Wirings[hd].gsi
    BY <1>1, <2>2, WiredNow
  <2>5. redir' = [redir EXCEPT ![h] = [redir[h] EXCEPT !.dest = BSP]]
    BY <2>1, <2>3, <2>4
  <2>6. [redir[h] EXCEPT !.dest = BSP] \in Redirection
    BY <1>1 DEF Redirection
  <2> QED BY <1>1, <2>5, <2>6
<1>5. ASSUME NEW on \in BOOLEAN, NEW g, redir' = [redir EXCEPT ![g].masked = on]
      PROVE  redir' \in [Gsis -> Redirection]
  <2>1. CASE g \in Gsis
    <3>1. [redir[g] EXCEPT !.masked = on] \in Redirection
      BY <1>1, <2>1 DEF Redirection
    <3> QED BY <1>1, <1>5, <3>1
  <2>2. CASE g \notin Gsis
    BY <1>1, <1>5, <2>2
  <2> QED BY <2>1, <2>2
<1>6. CASE Mask
  BY <1>5, <1>6 DEF Mask
<1>7. CASE UnmaskClock
  BY <1>1, <1>5, <1>7 DEF UnmaskClock
<1>8. CASE ApicInit \/ ParseEntry \/ ParseEnd \/ ExceptionInit \/ LapicEnable(BSP) \/ ClockInit
  <2>1. redir' = redir
    BY <1>8 DEF ApicInit, ParseEntry, ParseEnd, ExceptionInit, LapicEnable, ClockInit
  <2> QED BY <1>1, <2>1
<1>9. CASE LaterStep
  BY <1>1, <1>9 DEF LaterStep
<1> QED BY <1>1, <1>3, <1>4, <1>6, <1>7, <1>8, <1>9 DEF BootStep

\* The ticks stay below their bound, and so do the ends of sleeps.
LEMMA TickTypes == \A t \in 0..TickMod - 1, n \in Nat : (t + n) % TickMod \in 0..TickMod - 1
BY TicksAssumption

LEMMA TimeTypes ==
  ASSUME IInv, OtherTypes, [Next]_vars
  PROVE  wake' \in [CPUs -> 0..TickMod - 1] /\ percpu' \subseteq CPUs /\ ticks' \in 0..TickMod - 1
<1> DEFINE P == wake' \in [CPUs -> 0..TickMod - 1] /\ percpu' \subseteq CPUs
                /\ ticks' \in 0..TickMod - 1
<1> SUFFICES P
  OBVIOUS
<1> USE CPUsAssumption DEF BSP
<1>1. /\ wake \in [CPUs -> 0..TickMod - 1] /\ percpu \subseteq CPUs /\ ticks \in 0..TickMod - 1
      /\ TickMod \in Nat /\ TickMod > 0 /\ TestTicks \in Nat
  BY TicksAssumption DEF OtherTypes
<1>2. ASSUME UNCHANGED <<wake, percpu, ticks>> PROVE P
  BY <1>1, <1>2
<1>3. ASSUME NEW c \in CPUs, Own(c) PROVE P
  <2>1. CASE PercpuInit(c) \/ SmpInit
    <3>1. UNCHANGED <<wake, ticks>> /\ percpu' \in {percpu, percpu \cup {c}, percpu \cup {BSP}}
      BY <2>1 DEF PercpuInit, SmpInit
    <3> QED BY <1>1, <3>1
  <2>2. CASE TimerSync(c) \/ TimerTry(c) \/ TimerEnable(c)
    <3>1. /\ UNCHANGED <<percpu, ticks>>
          /\ \E x \in {0, (ticks + 1) % TickMod, (ticks + TestTicks) % TickMod} :
               wake' = [wake EXCEPT ![c] = x]
      BY <2>2 DEF TimerSync, TimerTry, TimerEnable, SleepFor
    <3>2. /\ 0 \in 0..TickMod - 1 /\ (ticks + 1) % TickMod \in 0..TickMod - 1
          /\ (ticks + TestTicks) % TickMod \in 0..TickMod - 1
      BY <1>1, TickTypes
    <3>3. PICK x \in 0..TickMod - 1 : wake' = [wake EXCEPT ![c] = x]
      BY <3>1, <3>2
    <3> QED BY <1>1, <3>1, <3>3
  <2>3. CASE ClockInit
    BY <1>1, <2>3 DEF ClockInit
  <2>4. CASE ~(PercpuInit(c) \/ SmpInit \/ TimerSync(c) \/ TimerTry(c) \/ TimerEnable(c) \/ ClockInit)
    <3>1. UNCHANGED <<wake, percpu, ticks>>
      BY <1>3, <2>4 DEF Own, LapicEnable, InterruptEnable, ApicInit, ParseEntry, ParseEnd,
         RedirectLow, RedirectHigh, Mask, ExceptionInit, UnmaskClock, BootEnd
    <3> QED BY <1>2, <3>1
  <2> QED BY <2>1, <2>2, <2>3, <2>4
<1>4. ASSUME NEW c \in CPUs,
             ApStart(c) \/ LocalTimer(c) \/ Accept(c) \/ Spurious(c) \/ Fault(c) \/ Eoi(c)
      PROVE  P
  <2>1. UNCHANGED <<wake, percpu, ticks>>
    BY <1>4 DEF ApStart, LocalTimer, Accept, Spurious, Fault, Eoi
  <2> QED BY <1>2, <2>1
<1>5. ASSUME NEW g \in Gsis, Raise(g) PROVE P
  BY <1>2, <1>5 DEF Raise
<1>6. ASSUME NEW c \in CPUs, Handle(c) PROVE P
  <2>1. UNCHANGED <<wake, percpu>> /\ ticks' \in {ticks, (ticks + 1) % TickMod}
    BY <1>6 DEF Handle
  <2>2. (ticks + 1) % TickMod \in 0..TickMod - 1
    BY <1>1, TickTypes
  <2> QED BY <1>1, <2>1, <2>2
<1>7. CASE UNCHANGED vars
  BY <1>2, <1>7 DEF vars
<1> QED BY <1>3, <1>4, <1>5, <1>6, <1>7 DEF Next, Dispatch

-----------------------------------------------------------------------------
(* The theorems.                                                           *)

LEMMA InitWInv == Init => WInv /\ OtherTypes
<1> SUFFICES ASSUME Init PROVE WInv /\ OtherTypes
  OBVIOUS
<1> USE CPUsAssumption, LinesAssumption, VectorFacts DEF BSP
<1>1. /\ pc[BSP] = "apic" /\ iff[BSP] = FALSE /\ frames[BSP] = <<>> /\ hd = 1
      /\ lapics = <<>> /\ ioapics = <<>> /\ overrides = <<>> /\ percpu = {} /\ ticks = 0
      /\ \A g \in Gsis : redir[g] = Masked
      /\ \A c \in CPUs \ {BSP} : pc[c] = "off"
      /\ \A c \in CPUs : apic[c].timer = "off" /\ apic[c].irr = {} /\ frames[c] = <<>>
  BY DEF Init
<1>2. ListsInv
  BY <1>1 DEF ListsInv, ReadTo, LapicsRead, IoapicsRead, OverridesRead
<1>3. SignalInv /\ ClockInv /\ EnabledInv
  BY <1>1 DEF SignalInv, ClockInv, EnabledInv, Late
<1>4. OpenInv
  BY <1>1 DEF OpenInv, Masked, Late
<1>5. TimersInv
  <2>1. ASSUME NEW c \in CPUs PROVE ~TimerAt(c)
    <3>1. DOMAIN frames[c] = {}
      <4>1. DOMAIN <<>> = {}
        OBVIOUS
      <4> QED BY <1>1, <4>1, Zenon
    <3>2. pc[c] \notin {"sched", "sync", "try", "idle"}
      BY <1>1
    <3> QED BY <1>1, <3>1, <3>2 DEF TimerAt
  <2> QED BY <1>1, <2>1 DEF TimersInv, Late
<1>6. OtherTypes
  <2>1. Masked \in [vec : {0} \cup Vectors, low : BOOLEAN, level : BOOLEAN, dest : CPUs,
                    masked : BOOLEAN]
    BY DEF Masked
  <2>2. 0 \in 0..TickMod - 1
    BY TicksAssumption
  <2> QED BY <1>1, <2>1, <2>2 DEF Init, OtherTypes
<1> QED BY <1>2, <1>3, <1>4, <1>5, <1>6 DEF WInv

LEMMA StepWInv == IInv /\ WInv /\ OtherTypes /\ SoundTables /\ [Next]_vars => WInv' /\ OtherTypes'
<1> SUFFICES ASSUME IInv, WInv, OtherTypes, SoundTables, [Next]_vars PROVE WInv' /\ OtherTypes'
  OBVIOUS
<1>1. WInv'
  BY ListsStep, LinesStep, ClockInvStep, EnabledStep, TimersStep DEF WInv
<1>2. redir' \in [Gsis -> Redirection]
  BY RedirTypes
<1>3. \A c \in CPUs : apic'[c].timer \in {"off", "counting", "periodic"}
  BY ApicMoves DEF OtherTypes
<1>4. OtherTypes'
  BY <1>2, <1>3, TimeTypes DEF OtherTypes, Redirection
<1> QED BY <1>1, <1>4

\* The invariant of the boot from the tables to the timers.
THEOREM Wiring ==
  ASSUME SoundTables
  PROVE  Spec => [](IInv /\ WInv /\ OtherTypes)
<1>1. Init => IInv /\ WInv /\ OtherTypes
  BY InitIInv, InitWInv
<1>2. IInv /\ WInv /\ OtherTypes /\ [Next]_vars => (IInv /\ WInv /\ OtherTypes)'
  BY StepIInv, StepWInv
<1> QED BY <1>1, <1>2, PTL DEF Spec

\* Every variable has its type, whatever the tables say that are sound.
THEOREM TypeCorrect ==
  ASSUME SoundTables
  PROVE  Spec => []TypeOK
<1>1. IInv /\ WInv /\ OtherTypes => TypeOK
  <2> SUFFICES ASSUME IInv, WInv, OtherTypes PROVE TypeOK
    OBVIOUS
  <2>1. \A c \in CPUs : apic[c].irr \subseteq Vectors
    BY VectorFacts DEF IInv, Noted
  <2>2. \A c \in CPUs : apic[c].isr \subseteq Vectors
    <3> SUFFICES ASSUME NEW c \in CPUs PROVE apic[c].isr \subseteq Vectors
      OBVIOUS
    <3>1. frames[c] # <<>> => frames[c][1] \in Frame
      <4>1. frames[c] \in Seq(Frame)
        BY DEF IInv, Types
      <4> QED BY <4>1
    <3>2. frames[c] # <<>> => frames[c][1].vec \in Vectors
      BY <3>1 DEF Frame
    <3> QED BY <3>2 DEF IInv, HandlersAlone
  <2> QED BY <2>1, <2>2 DEF IInv, Types, OtherTypes, TypeOK, Locations
<1> QED BY <1>1, Wiring, PTL

\* From when the boot processor enables interrupts, the line of the clock is the only one
\* open, with the signal of its override, whatever the order of the entries, and however
\* many lines and overrides there are; and its vector has clock_handler.
THEOREM ClockIsWiredRight ==
  ASSUME SoundTables
  PROVE  Spec => []ClockWired
<1>1. IInv /\ WInv => ClockWired
  <2> SUFFICES ASSUME IInv, WInv, iff[BSP], madt # NoMadt, NEW g \in Gsis, ~redir[g].masked
               PROVE  /\ g = ClockLine /\ redir[g].dest = BSP
                      /\ handlers[redir[g].vec].handler = "clock"
                      /\ \A i \in DOMAIN madt :
                           (madt[i].type = "override" /\ madt[i].gsi = g) =>
                             /\ redir[g].low = (2 \in madt[i].flags)
                             /\ redir[g].level = (8 \in madt[i].flags)
    BY DEF ClockWired
  <2>1. pc[BSP] \in Late /\ ListsInv /\ SignalInv /\ OpenInv /\ ClockInv
    BY DEF WInv, EnabledInv
  <2>2. g = IsaToGsi(CLOCK_IRQ) /\ redir[g].dest = BSP
    BY <2>1 DEF OpenInv
  <2>3. /\ IsaToGsi(CLOCK_IRQ) = ClockLine
        /\ \A i \in DOMAIN madt : madt[i].type = "override" =>
             \E j \in DOMAIN overrides : overrides[j] = madt[i]
    BY <2>1, ListFacts DEF Late
  <2>4. redir[g].vec = IRQ_BASE + g
    BY DEF IInv, OpenLines
  <2>5. handlers[redir[g].vec].handler = "clock"
    BY <2>1, <2>2, <2>4 DEF ClockInv
  <2>6. ASSUME NEW i \in DOMAIN madt, madt[i].type = "override", madt[i].gsi = g
        PROVE  /\ redir[g].low = (2 \in madt[i].flags)
               /\ redir[g].level = (8 \in madt[i].flags)
    <3>1. PICK j \in DOMAIN overrides : overrides[j] = madt[i]
      BY <2>3, <2>6
    <3>2. /\ NrIsa + j \in 1..Len(Wirings) /\ NrIsa + j > NrIsa
          /\ Wirings[NrIsa + j] = madt[i] /\ Len(Wirings) \in Nat
      BY <3>1, WiringFacts DEF IInv
    <3>3. Signalled(Len(Wirings))
      BY <2>1 DEF SignalInv
    <3>4. PICK k : k = NrIsa + j
      OBVIOUS
    <3>5. k \in 1..Len(Wirings) /\ k <= Len(Wirings) /\ k > NrIsa /\ Wirings[k] = madt[i]
      BY <3>2, <3>4
    <3>6. /\ redir[Wirings[k].gsi].low = (2 \in Wirings[k].flags)
          /\ redir[Wirings[k].gsi].level = (8 \in Wirings[k].flags)
      BY <3>3, <3>5 DEF Signalled
    <3> QED BY <2>6, <3>5, <3>6
  <2> QED BY <2>2, <2>3, <2>5, <2>6
<1> QED BY <1>1, Wiring, PTL

\* No local timer runs before its handler is registered, and no processor is in that
\* handler before its area is set up, though it has had interrupts enabled since before.
THEOREM HandlersAreReady ==
  ASSUME SoundTables
  PROVE  Spec => []HandlerReady
<1>1. WInv => HandlerReady
  <2> SUFFICES ASSUME WInv, NEW c \in CPUs
               PROVE  /\ apic[c].timer = "periodic" => handlers[IRQ_LINT_TIMER].handler = "sched"
                      /\ \A i \in DOMAIN frames[c] :
                           (frames[c][i].vec = IRQ_LINT_TIMER /\ Len(lapics) > 1) => c \in percpu
    BY DEF HandlerReady
  <2>1. TimerAt(c) => TimerReady /\ (Len(lapics) > 1 => c \in percpu)
    BY DEF WInv, TimersInv
  <2> QED BY <2>1 DEF TimerAt, TimerReady
<1> QED BY <1>1, Wiring, PTL
=============================================================================
