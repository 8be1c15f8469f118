------------------------------ MODULE Interrupts ------------------------------
(***************************************************************************)
(* Interrupts from the tables of the firmware to the handlers: apic.c      *)
(* reads the MADT and wires the I/O APIC, each processor enables its local *)
(* APIC (interrupt_local_init), the clock gets its line (clock_init), and  *)
(* the local timers start once they are calibrated against that clock      *)
(* (lapic_timer_enable).  interrupt_handler signals the end of an          *)
(* interrupt before it runs its handler.                                   *)
(*                                                                         *)
(* A processor is named by the id of its local APIC; the one that boots is *)
(* BSP.  Module SmpBoot has how the others are started.                    *)
(***************************************************************************)
EXTENDS Integers, Sequences, FiniteSetsExt

CONSTANTS
  CPUs,        \* ids of local APICs
  Madts,       \* MADTs: sequences of entries, or NoMadt
  NoMadt,
  MaxGsi,      \* the highest line of any I/O APIC
  NrIsa,       \* 16: lines of the old interrupt controllers
  TestTicks,   \* 10: the ticks a local timer is tried for
  TickMod,     \* bound: ticks counts modulo TickMod
  Faulty       \* the processors that have exceptions

ASSUME CPUsAssumption == CPUs \subseteq Nat /\ 0 \in CPUs
ASSUME LinesAssumption == MaxGsi \in Nat /\ NrIsa \in 1..MaxGsi + 1
ASSUME TicksAssumption == TestTicks \in Nat \ {0} /\ TickMod \in Nat /\ TickMod > TestTicks + 1
ASSUME FaultyAssumption == Faulty \subseteq CPUs

\* An entry of a MADT.  Flags are the set of those that are 1.
Entry == [type : {"lapic"}, id : CPUs, flags : {0, 1, 2}]
           \cup [type : {"ioapic"}, base : Nat, last : Nat]
           \cup [type : {"override"}, source : Nat, gsi : Nat, flags : SUBSET {2, 8}]
           \cup [type : {"nmi"}, acpi : Nat, lint : {0, 1}]
           \cup [type : {"other"}]
ASSUME MadtsAssumption == Madts \ {NoMadt} \subseteq Seq(Entry)

\* The boot processor has id 0 and is listed first, as firmware has it: ioapic_redirect
\* takes the first of the list for it, and lapic_enable id 0.
BSP == 0
Gsis == 0..MaxGsi

\* What the code takes for granted of the tables: the lines of the I/O APICs are no higher
\* than MaxGsi, the first usable processor listed is the one that boots, and overrides to
\* one line agree on its signal.
SoundTables ==
  \A m \in Madts \ {NoMadt} :
    /\ \A i \in DOMAIN m : m[i].type = "ioapic" => m[i].base + m[i].last <= MaxGsi
    /\ \E i \in DOMAIN m :
         /\ m[i].type = "lapic" /\ m[i].flags # 0 /\ m[i].id = BSP
         /\ \A j \in 1..i - 1 : m[j].type = "lapic" => m[j].flags = 0
    /\ \A i, j \in DOMAIN m :
         (m[i].type = "override" /\ m[j].type = "override" /\ m[i].gsi = m[j].gsi)
           => m[i].flags = m[j].flags

CLOCK_IRQ      == 0
IRQ_BASE       == 32
INT_FAULT      == 13      \* any exception
IRQ_NMI        == 251
IRQ_LINT_TIMER == 254
IRQ_SPURIOUS   == 255
\* The lines' vectors are below those the processors use among themselves.
ASSUME VectorsAssumption == IRQ_BASE + MaxGsi < IRQ_NMI
Vectors == {INT_FAULT, IRQ_NMI, IRQ_LINT_TIMER, IRQ_SPURIOUS} \cup {IRQ_BASE + g : g \in Gsis}

VARIABLES
  madt,      \* what the firmware says
  hd,        \* the next entry of it, or the next line to wire
  lapics, ioapics, overrides, nmis,   \* lapic_list, ioapic_list, override_list, nmi_list
  redir,     \* redirection entries of the I/O APICs, by line
  handlers,  \* interrupt_handlers
  pc,        \* of each processor: where its own code is
  wake,      \* of each processor: the tick its clock_sleep ends at, while it sleeps
  apic,      \* of each processor: its local APIC
  iff,       \* of each processor: whether interrupts are enabled
  frames,    \* of each processor: the interrupts it is in, the innermost last
  percpu,    \* processors whose area is set up
  ticks

tables == <<madt, hd, lapics, ioapics, overrides, nmis>>
vars == <<tables, redir, handlers, pc, wake, apic, iff, frames, percpu, ticks>>

\* An entry of interrupt_handlers nobody registered: type 0 is ISR_IRQ.
Unregistered == [type |-> "ISR_IRQ", handler |-> "none"]
Masked == [vec |-> 0, low |-> FALSE, level |-> FALSE, dest |-> BSP, masked |-> TRUE]

\* Firmware may leave the local APIC of the boot processor enabled.
Init == /\ madt \in Madts /\ hd = 1
        /\ lapics = <<>> /\ ioapics = <<>> /\ overrides = <<>> /\ nmis = <<>>
        /\ redir = [g \in Gsis |-> Masked]
        /\ handlers = [v \in Vectors |-> Unregistered]
        /\ pc = [c \in CPUs |-> IF c = BSP THEN "apic" ELSE "off"]
        /\ wake = [c \in CPUs |-> 0]
        /\ \E on \in BOOLEAN :
             apic = [c \in CPUs |-> [enabled |-> on /\ c = BSP, timer |-> "off",
                                     nmi |-> {}, irr |-> {}, isr |-> {}]]
        /\ iff = [c \in CPUs |-> FALSE]
        /\ frames = [c \in CPUs |-> <<>>]
        /\ percpu = {} /\ ticks = 0

\* A processor's own code runs while no interrupt is on top of it.
Runs(c, at) == pc[c] = at /\ frames[c] = <<>>
Goto(c, at) == pc' = [pc EXCEPT ![c] = at]
Register(v, type, h) == handlers' = [handlers EXCEPT ![v] = [type |-> type, handler |-> h]]
\* panic: interrupts off, and halt.
Panic(c) == Goto(c, "halted") /\ iff' = [iff EXCEPT ![c] = FALSE]

-----------------------------------------------------------------------------
(* apic_init.                                                              *)

ApicInit ==
  /\ Runs(BSP, "apic")
  /\ Goto(BSP, IF madt = NoMadt THEN "idt" ELSE "parse")
  /\ UNCHANGED <<tables, redir, handlers, wake, apic, iff, frames, percpu, ticks>>

\* parse_madt, one entry.  An entry of another type leaves the lists as they are.
ParseEntry ==
  /\ Runs(BSP, "parse") /\ hd <= Len(madt) /\ hd' = hd + 1
  /\ LET e == madt[hd] IN
     /\ lapics' = IF e.type = "lapic" /\ e.flags # 0 THEN Append(lapics, e) ELSE lapics
     /\ ioapics' = IF e.type = "ioapic" THEN Append(ioapics, e) ELSE ioapics
     /\ overrides' = IF e.type = "override" THEN Append(overrides, e) ELSE overrides
     /\ nmis' = IF e.type = "nmi" THEN Append(nmis, e) ELSE nmis
  /\ UNCHANGED <<madt, redir, handlers, pc, wake, apic, iff, frames, percpu, ticks>>

ParseEnd ==
  /\ Runs(BSP, "parse") /\ hd > Len(madt) /\ hd' = 1
  /\ Goto(BSP, "low")
  /\ UNCHANGED <<madt, lapics, ioapics, overrides, nmis, redir, handlers, wake, apic, iff,
                 frames, percpu, ticks>>

\* Slip: the overrides are not looked at.
SameGsi(isa) == isa
\* ioapic_isa_to_gsi
IsaToGsi(isa) ==
  LET of == {i \in DOMAIN overrides : overrides[i].source = isa}
  IN IF of = {} THEN isa ELSE overrides[Min(of)].gsi

\* gsi_to_ioapic finds none for the last pin of an I/O APIC, which has an entry too.
Found(gsi) == \E i \in DOMAIN ioapics :
                ioapics[i].base <= gsi /\ gsi < ioapics[i].base + ioapics[i].last

\* ioapic_init: the lines of the old controllers, then the overrides.
IsaLine(i) == [source |-> i, gsi |-> i, flags |-> {}]
\* Slip: the overrides first.
OverridesFirst == overrides \o [i \in 1..NrIsa |-> IsaLine(i - 1)]
Wirings == [i \in 1..NrIsa |-> IsaLine(i - 1)] \o overrides

\* ioapic_redirect writes the lower half of the entry, which unmasks it.
RedirectLow ==
  /\ Runs(BSP, "low") /\ hd <= Len(Wirings)
  /\ LET w == Wirings[hd] IN
     IF Found(w.gsi)
     THEN /\ Goto(BSP, "high")
          /\ redir' = [redir EXCEPT ![w.gsi] =
               [@ EXCEPT !.vec = IRQ_BASE + w.gsi, !.masked = FALSE,
                         !.low = 2 \in w.flags, !.level = 8 \in w.flags]]
          /\ UNCHANGED iff
     ELSE Panic(BSP) /\ UNCHANGED redir
  /\ UNCHANGED <<tables, handlers, wake, apic, frames, percpu, ticks>>

\* ... and then the other half, which says whom it interrupts.
RedirectHigh ==
  /\ Runs(BSP, "high") /\ Goto(BSP, "mask")
  /\ redir' = [redir EXCEPT ![Wirings[hd].gsi].dest = lapics[1].id]
  /\ UNCHANGED <<tables, handlers, wake, apic, iff, frames, percpu, ticks>>

\* ioapic_mask
Mask ==
  /\ Runs(BSP, "mask") /\ Goto(BSP, "low") /\ hd' = hd + 1
  /\ redir' = [redir EXCEPT ![Wirings[hd].gsi].masked = TRUE]
  /\ UNCHANGED <<madt, lapics, ioapics, overrides, nmis, handlers, wake, apic, iff, frames,
                 percpu, ticks>>

-----------------------------------------------------------------------------
(* The rest of interrupt_init, on every processor interrupt_local_init.    *)

WithExceptions == [v \in Vectors |-> IF v < IRQ_BASE \/ v = IRQ_NMI
                                     THEN [type |-> "ISR_EXCEPTION", handler |-> "exception"]
                                     ELSE handlers[v]]
ExceptionInit ==
  /\ \/ Runs(BSP, "low") /\ hd > Len(Wirings)
     \/ Runs(BSP, "idt")
  /\ Goto(BSP, "local")
  /\ handlers' = WithExceptions
  /\ UNCHANGED <<tables, redir, wake, apic, iff, frames, percpu, ticks>>

\* A write to the end-of-interrupt register ends the interrupt of highest priority.
Ended(isr) == isr \ {v \in isr : \A w \in isr : w <= v}

\* lapic_enable, if apic_init went well.
LapicEnable(c) ==
  /\ Runs(c, "local") /\ Goto(c, IF c = BSP THEN "clock" ELSE "sti")
  /\ IF madt = NoMadt THEN UNCHANGED <<apic, handlers>>
     ELSE /\ apic' = [apic EXCEPT
               ![c].enabled = TRUE, ![c].isr = Ended(@),
               ![c].nmi = {nmis[i].lint : i \in {i \in DOMAIN nmis : nmis[i].acpi \in {c, 255}}}]
          /\ IF c = 0 THEN Register(IRQ_LINT_TIMER, "ISR_IRQ", "sched") ELSE UNCHANGED handlers
  /\ UNCHANGED <<tables, redir, wake, iff, frames, percpu, ticks>>

\* clock_init up to arch_clock_start: the handler of the line, and the clock goes.
ClockInit ==
  /\ Runs(BSP, "clock") /\ Goto(BSP, "unmask") /\ ticks' = 0
  /\ Register(IRQ_BASE + IsaToGsi(CLOCK_IRQ), "ISR_IRQ", "clock")
  /\ UNCHANGED <<tables, redir, wake, apic, iff, frames, percpu>>

\* interrupt_enable_irq(CLOCK_IRQ).  The old controllers stay masked.
UnmaskClock ==
  /\ Runs(BSP, "unmask") /\ Goto(BSP, "sti")
  /\ redir' = IF madt = NoMadt THEN redir
              ELSE [redir EXCEPT ![IsaToGsi(CLOCK_IRQ)].masked = FALSE]
  /\ UNCHANGED <<tables, handlers, wake, apic, iff, frames, percpu, ticks>>

\* Slip: ap_main goes to the scheduler at once.
SchedAtOnce(c) == IF c = BSP THEN "smp" ELSE "sched"
\* kernel_main and ap_main, after interrupt_enable.
AfterSti(c) == IF c = BSP THEN "smp" ELSE "percpu"
InterruptEnable(c) ==
  /\ Runs(c, "sti") /\ Goto(c, AfterSti(c))
  /\ iff' = [iff EXCEPT ![c] = TRUE]
  /\ UNCHANGED <<tables, redir, handlers, wake, apic, frames, percpu, ticks>>

\* smp_init.  Without a list of processors the boot processor does not find itself in
\* it; alone in the list, it does without an area of its own.
SmpInit ==
  /\ Runs(BSP, "smp")
  /\ \/ Len(lapics) = 0 /\ Panic(BSP) /\ UNCHANGED percpu
     \/ Len(lapics) = 1 /\ Goto(BSP, "sched") /\ UNCHANGED <<iff, percpu>>
     \/ Len(lapics) > 1 /\ Goto(BSP, "boot") /\ percpu' = percpu \cup {BSP} /\ UNCHANGED iff
  /\ UNCHANGED <<tables, redir, handlers, wake, apic, frames, ticks>>

\* arch_smp_init: a processor arrives in ap_main, or it does not.
ApStart(c) ==
  /\ Runs(BSP, "boot") /\ pc[c] = "off" /\ \E i \in 2..Len(lapics) : lapics[i].id = c
  /\ Goto(c, "local")
  /\ UNCHANGED <<tables, redir, handlers, wake, apic, iff, frames, percpu, ticks>>
BootEnd ==
  /\ Runs(BSP, "boot") /\ Goto(BSP, "sched")
  /\ UNCHANGED <<tables, redir, handlers, wake, apic, iff, frames, percpu, ticks>>

\* smp_percpu_init of the others, with interrupts enabled.
PercpuInit(c) ==
  /\ Runs(c, "percpu") /\ Goto(c, "sched") /\ percpu' = percpu \cup {c}
  /\ UNCHANGED <<tables, redir, handlers, wake, apic, iff, frames, ticks>>

-----------------------------------------------------------------------------
(* lapic_timer_enable, from sched_start, with two calls of clock_sleep.    *)

\* Slip: the end of the sleep does not wrap as ticks does.
SleepPast(c, n) == wake' = [wake EXCEPT ![c] = ticks + n]
SleepFor(c, n) == wake' = [wake EXCEPT ![c] = (ticks + n) % TickMod]
TimerSync(c) ==
  /\ Runs(c, "sched") /\ Goto(c, "sync") /\ SleepFor(c, 1)
  /\ UNCHANGED <<tables, redir, handlers, apic, iff, frames, percpu, ticks>>
TimerTry(c) ==
  /\ Runs(c, "sync") /\ ticks = wake[c] /\ Goto(c, "try") /\ SleepFor(c, TestTicks)
  /\ apic' = [apic EXCEPT ![c].timer = "counting"]
  /\ UNCHANGED <<tables, redir, handlers, iff, frames, percpu, ticks>>
TimerEnable(c) ==
  /\ Runs(c, "try") /\ ticks = wake[c] /\ Goto(c, "idle")
  /\ apic' = [apic EXCEPT ![c].timer = "periodic"] /\ wake' = [wake EXCEPT ![c] = 0]
  /\ UNCHANGED <<tables, redir, handlers, iff, frames, percpu, ticks>>

\* What a processor does of itself.
Own(c) == \/ LapicEnable(c) \/ InterruptEnable(c) \/ PercpuInit(c)
          \/ TimerSync(c) \/ TimerTry(c) \/ TimerEnable(c)
          \/ c = BSP /\ \/ ApicInit \/ ParseEntry \/ ParseEnd
                        \/ RedirectLow \/ RedirectHigh \/ Mask \/ ExceptionInit
                        \/ ClockInit \/ UnmaskClock \/ SmpInit \/ BootEnd

-----------------------------------------------------------------------------
(* Interrupts.                                                             *)

\* A local APIC notes an interrupt until its processor accepts it.
Notes(c, v) == apic' = [apic EXCEPT ![c].irr = @ \cup {v}]

\* A device pulls a line.
Raise(g) ==
  /\ ~redir[g].masked /\ apic[redir[g].dest].enabled
  /\ Notes(redir[g].dest, redir[g].vec)
  /\ UNCHANGED <<tables, redir, handlers, pc, wake, iff, frames, percpu, ticks>>

\* A local timer.  It is slow: what is noted is accepted before it comes again.
LocalTimer(c) ==
  /\ apic[c].timer = "periodic" /\ apic[c].irr = {}
  /\ Notes(c, IRQ_LINT_TIMER)
  /\ UNCHANGED <<tables, redir, handlers, pc, wake, iff, frames, percpu, ticks>>

\* Slip: trap gates, which leave interrupts enabled.
TrapGate(on) == on
\* Every gate of idt_init is an interrupt gate.
Gate(on) == FALSE

\* A processor is interrupted, its flags saved.
Push(c, v) == /\ frames' = [frames EXCEPT ![c] =
                              Append(@, [vec |-> v, at |-> "entry", iff |-> iff[c]])]
              /\ iff' = [iff EXCEPT ![c] = Gate(@)]

\* Prompt: a processor that waits for this tick looks before the next.
Prompt(v) == handlers[v].handler = "clock" =>
               \A c \in CPUs : pc[c] \in {"sync", "try"} => wake[c] # ticks

\* The interrupt of highest priority, if it is above what is in service.
Accept(c) ==
  /\ iff[c] /\ apic[c].irr # {}
  /\ LET v == Max(apic[c].irr) IN
     /\ \A w \in apic[c].isr : v \div 16 > w \div 16
     /\ Prompt(v)
     /\ apic' = [apic EXCEPT ![c].irr = @ \ {v}, ![c].isr = @ \cup {v}]
     /\ Push(c, v)
  /\ UNCHANGED <<tables, redir, handlers, pc, wake, percpu, ticks>>

\* The local APIC may find that there was no interrupt after all.
Spurious(c) ==
  /\ iff[c] /\ apic[c].enabled /\ Push(c, IRQ_SPURIOUS)
  /\ UNCHANGED <<tables, redir, handlers, pc, wake, apic, percpu, ticks>>

\* An exception, or an NMI, in what a processor does; one in a panic is not modelled.
Fault(c) ==
  /\ c \in Faulty /\ pc[c] \notin {"off", "halted"} /\ handlers[INT_FAULT].handler = "exception"
  /\ \A i \in DOMAIN frames[c] : frames[c][i].vec # INT_FAULT
  /\ Push(c, INT_FAULT)
  /\ UNCHANGED <<tables, redir, handlers, pc, wake, apic, percpu, ticks>>

Top(c) == frames[c][Len(frames[c])]
Interrupted(c, at) == frames[c] # <<>> /\ Top(c).at = at

\* interrupt_handler calls interrupt_eoi for what is registered as ISR_IRQ, or not at
\* all; lapic_eoi writes only if this interrupt is in service.
EndedBy(v, isr) == IF handlers[v].type = "ISR_IRQ" /\ v \in isr THEN Ended(isr) ELSE isr
Eoi(c) ==
  /\ Interrupted(c, "entry")
  /\ apic' = [apic EXCEPT ![c].isr = EndedBy(Top(c).vec, @)]
  /\ frames' = [frames EXCEPT ![c][Len(frames[c])].at = "handler"]
  /\ UNCHANGED <<tables, redir, handlers, pc, wake, iff, percpu, ticks>>

\* The handler, if there is one, and the return; exception_handler panics instead.
Handle(c) ==
  LET h == handlers[Top(c).vec].handler IN
  /\ Interrupted(c, "handler") /\ pc[c] # "halted"
  /\ IF h = "exception" THEN Panic(c) /\ UNCHANGED <<frames, ticks>>
     ELSE /\ ticks' = IF h = "clock" THEN (ticks + 1) % TickMod ELSE ticks
          /\ frames' = [frames EXCEPT ![c] = SubSeq(@, 1, Len(@) - 1)]
          /\ iff' = [iff EXCEPT ![c] = Top(c).iff]
          /\ UNCHANGED pc
  /\ UNCHANGED <<tables, redir, handlers, wake, apic, percpu>>

Dispatch(c) == Eoi(c) \/ Handle(c)

Next == \/ \E c \in CPUs : \/ Own(c) \/ ApStart(c) \/ LocalTimer(c) \/ Accept(c)
                           \/ Spurious(c) \/ Fault(c) \/ Dispatch(c)
        \/ \E g \in Gsis : Raise(g)

\* The line the firmware says the clock is wired to.
ClockLine ==
  LET of == IF madt = NoMadt THEN {}
            ELSE {i \in DOMAIN madt : madt[i].type = "override" /\ madt[i].source = CLOCK_IRQ}
  IN IF of = {} THEN CLOCK_IRQ ELSE madt[Min(of)].gsi

\* The clock goes on pulling its line, and a processor gets on: interrupts leave its own
\* code, and the clock's those of others, time in between.
Fairness == /\ WF_vars(Raise(ClockLine))
            /\ \A c \in CPUs : SF_vars(Own(c)) /\ SF_vars(Accept(c)) /\ WF_vars(Dispatch(c))

Spec == Init /\ [][Next]_vars /\ Fairness

-----------------------------------------------------------------------------
(* Properties.                                                             *)

Frame == [vec : Vectors, at : {"entry", "handler"}, iff : BOOLEAN]

\* Every variable has its type.
TypeOK ==
  /\ madt \in Madts /\ hd \in Nat \ {0}
  /\ redir \in [Gsis -> [vec : {0} \cup Vectors, low : BOOLEAN, level : BOOLEAN, dest : CPUs,
                         masked : BOOLEAN]]
  /\ handlers \in [Vectors -> [type : {"ISR_IRQ", "ISR_EXCEPTION"},
                               handler : {"none", "exception", "clock", "sched"}]]
  /\ \A c \in CPUs :
       /\ pc[c] \in {"off", "apic", "parse", "low", "high", "mask", "idt", "local", "clock",
                     "unmask", "sti", "smp", "boot", "percpu", "sched", "sync", "try", "idle",
                     "halted"}
       /\ apic[c].irr \subseteq Vectors /\ apic[c].isr \subseteq Vectors
       /\ apic[c].timer \in {"off", "counting", "periodic"}
       /\ frames[c] \in Seq(Frame)
  /\ iff \in [CPUs -> BOOLEAN] /\ wake \in [CPUs -> 0..TickMod - 1]
  /\ percpu \subseteq CPUs /\ ticks \in 0..TickMod - 1

\* interrupt_handler signals the end first, and still no handler runs on top of another:
\* the end of an interrupt never lets in a second one before the first returns, it ends
\* no interrupt but its own, and every interrupt accepted is ended.
HandlersAlone ==
  \A c \in CPUs :
    /\ frames[c] # <<>> => ~iff[c]
    /\ \A i \in DOMAIN frames[c] : i > 1 => frames[c][i].vec = INT_FAULT
    /\ apic[c].isr = IF frames[c] # <<>> /\ frames[c][1].at = "entry"
                        /\ frames[c][1].vec \notin {INT_FAULT, IRQ_SPURIOUS}
                     THEN {frames[c][1].vec} ELSE {}

\* From when the boot processor enables interrupts, the line of the clock is the only one
\* open: it interrupts the boot processor, with the signal the firmware says, and its
\* vector is the one with clock_handler.
ClockWired ==
  (iff[BSP] /\ madt # NoMadt) =>
    \A g \in Gsis :
      ~redir[g].masked =>
        /\ g = ClockLine /\ redir[g].dest = BSP
        /\ handlers[redir[g].vec].handler = "clock"
        /\ \A i \in DOMAIN madt :
             (madt[i].type = "override" /\ madt[i].gsi = g) =>
               redir[g].low = (2 \in madt[i].flags) /\ redir[g].level = (8 \in madt[i].flags)

\* A handler finds what it uses: sched_handler reads the area of its processor, if there
\* is more than one; the timer's handler is there when the first timer starts.
HandlerReady ==
  \A c \in CPUs :
    /\ apic[c].timer = "periodic" => handlers[IRQ_LINT_TIMER].handler = "sched"
    /\ \A i \in DOMAIN frames[c] :
         (frames[c][i].vec = IRQ_LINT_TIMER /\ Len(lapics) > 1) => c \in percpu

\* A processor that reaches the scheduler gets its timer, unless some processor panics.
TimersRun ==
  \A c \in CPUs : pc[c] = "sched" ~> (apic[c].timer = "periodic" \/ \E d \in CPUs : pc[d] = "halted")
=============================================================================
