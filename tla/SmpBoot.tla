-------------------------------- MODULE SmpBoot --------------------------------
(***************************************************************************)
(* Starting the application processors: the boot processor's arch_smp_init *)
(* and smp_boot (arch/x86_64/smp.c) with the sleeps of kernel/clock.c,     *)
(* against the clock interrupt and the processors coming up through the    *)
(* trampoline (boot_mp.S), boot_ap (init.c) and ap_main (main.c).          *)
(*                                                                         *)
(* The processors share mp_stacktop, smp_ap_started_flag and the low       *)
(* mapping, and are held together by time alone: the constants Prompt and  *)
(* BspPrompt say what is assumed of it.                                    *)
(***************************************************************************)
EXTENDS Integers, FiniteSets

CONSTANTS
  NrAPs,          \* the processors to start are 1..NrAPs
  TickMod,        \* ticks is counted modulo TickMod
  Prompt,         \* does a processor that started set its flag before the next tick?
  BspPrompt       \* does the boot processor look at the clock at every tick?

ASSUME NrAPsAssumption == NrAPs \in Nat \ {0}
ASSUME TickModAssumption == TickMod \in Nat /\ TickMod > 2
ASSUME PromptAssumption == Prompt \in BOOLEAN /\ BspPrompt \in BOOLEAN

APs  == 1..NrAPs
NULL == 0

VARIABLES
  ticks,          \* the clock
  dead,           \* the processors the firmware lists that never answer
  bpc,            \* where the boot processor is
  cur,            \* the processor it is starting (i of arch_smp_init)
  start,          \* the local of its current sleep
  flag,           \* smp_ap_started_flag
  stacktop,       \* mp_stacktop: a stack page, or NULL
  nrStacks,       \* the stack pages allocated so far; they are 1..nrStacks
  present,        \* lapic_list[i].present
  trampmap,       \* is the trampoline's page still mapped where it runs?
  lowmap,         \* is low memory still mapped (kernel_pgd[0])?
  ready,          \* smp_cpu_ready_count
  apc,            \* processor -> where it is
  sp              \* processor -> the stack it runs on

stacks == <<stacktop, nrStacks>>
maps   == <<trampmap, lowmap>>
others == <<ticks, dead, ready, sp>>    \* what the boot processor leaves alone
bsp  == <<bpc, cur, start, stacks, present, maps>>
bootVars == <<ticks, dead, bsp, flag, ready, apc, sp>>

BspLocations == {"boot", "init", "sipi", "again", "watch", "check", "booted",
                 "clear", "wait", "done"}
ApLocations  == {"off", "waiting", "started", "tramp", "boot_ap", "low", "main",
                 "percpu", "online", "faulted"}

BootInit ==
  /\ ticks = 0
  /\ dead \in SUBSET APs
  /\ bpc = "boot" /\ cur = 1 /\ start = 0
  /\ flag = 0
  /\ stacktop = NULL /\ nrStacks = 0
  /\ present = [a \in APs |-> TRUE]
  /\ trampmap = TRUE /\ lowmap = TRUE
  /\ ready = 1                            \* the boot processor itself
  /\ apc = [a \in APs |-> "off"]
  /\ sp = [a \in APs |-> NULL]

-----------------------------------------------------------------------------
(* The clock.                                                              *)

\* The loops of clock_sleep and clock_sleep_watch_flag end when ticks has this value.
Elapsed == ticks = (start + 1) % TickMod

Sleeping == bpc \in {"init", "sipi", "again", "watch", "wait"}

\* A processor between the start-up interrupt and the store to the flag.
Coming(a) == apc[a] \in {"started", "tramp", "boot_ap"}

\* clock_handler, on the boot processor.
Tick ==
  /\ Prompt => \A a \in APs : ~Coming(a)
  /\ BspPrompt => ~(Sleeping /\ Elapsed)
  /\ ticks' = (ticks + 1) % TickMod
  /\ UNCHANGED <<dead, bsp, flag, ready, apc, sp>>

-----------------------------------------------------------------------------
(* The boot processor.                                                     *)

GotoB(l) == bpc' = l
Sleep(l) == GotoB(l) /\ start' = ticks

NeedsStack  == stacktop = NULL
\* Slip: the flag of the processor before stays.
StaleFlag   == flag
FlagAtStart == 0

\* smp_boot up to its first sleep.
StartBoot ==
  /\ bpc = "boot" /\ cur <= NrAPs
  /\ IF NeedsStack THEN nrStacks' = nrStacks + 1 /\ stacktop' = nrStacks + 1
                   ELSE UNCHANGED stacks
  /\ flag' = FlagAtStart
  /\ Sleep("init")
  /\ UNCHANGED <<others, cur, present, maps, apc>>

\* The INIT IPI makes the processor wait for a start-up interrupt.
SendInit ==
  /\ bpc = "init" /\ Elapsed
  /\ apc' = IF cur \in dead THEN apc ELSE [apc EXCEPT ![cur] = "waiting"]
  /\ Sleep("sipi")
  /\ UNCHANGED <<others, cur, stacks, present, maps, flag>>

\* Slip: no start-up interrupt is sent.
SipiLost(missed) == apc
\* What a start-up interrupt does to the processor it is sent to: it is ignored
\* unless the processor waits for it, and the first one may be missed.
AfterSipi(missed) ==
  IF apc[cur] = "waiting" /\ ~missed THEN [apc EXCEPT ![cur] = "started"] ELSE apc

SendSipi ==
  /\ bpc = "sipi" /\ Elapsed
  /\ \E missed \in BOOLEAN : apc' = AfterSipi(missed)
  /\ Sleep("again")
  /\ UNCHANGED <<others, cur, stacks, present, maps, flag>>

\* The flag is read; unless it is set, the second interrupt is sent.
FirstLook ==
  /\ bpc = "again" /\ Elapsed
  /\ IF flag = 0
     THEN apc' = AfterSipi(FALSE) /\ Sleep("watch")
     ELSE GotoB("booted") /\ UNCHANGED <<apc, start>>
  /\ UNCHANGED <<others, cur, stacks, present, maps, flag>>

\* Slip: the clock is not looked at while waiting.
WatchUntilFlag == flag # 0
\* clock_sleep_watch_flag(1, &smp_ap_started_flag, 0, 1) returns.
WatchOver == Elapsed \/ flag # 0

Watch ==
  /\ bpc = "watch" /\ WatchOver
  /\ GotoB("check")
  /\ UNCHANGED <<others, cur, start, stacks, present, maps, flag, apc>>

\* The flag is read once more.
SecondLook ==
  /\ bpc = "check"
  /\ IF flag = 0
     THEN /\ present' = [present EXCEPT ![cur] = FALSE]
          /\ cur' = cur + 1 /\ GotoB("boot")
     ELSE GotoB("booted") /\ UNCHANGED <<present, cur>>
  /\ UNCHANGED <<others, start, stacks, maps, flag, apc>>

\* Slip: a page that was never allocated is next.
NextStack  == nrStacks + 1
StackAfter == NULL

\* mp_stacktop = NULL
FinishBoot ==
  /\ bpc = "booted"
  /\ stacktop' = StackAfter
  /\ cur' = cur + 1 /\ GotoB("boot")
  /\ UNCHANGED <<others, start, nrStacks, present, maps, flag, apc>>

\* The loop is over: the trampoline's mapping, and then all of low memory, goes.
ClearTrampoline ==
  /\ bpc = "boot" /\ cur > NrAPs
  /\ trampmap' = FALSE
  /\ GotoB("clear")
  /\ UNCHANGED <<others, cur, start, stacks, present, lowmap, flag, apc>>

ClearLowPage ==
  /\ bpc = "clear"
  /\ lowmap' = FALSE
  /\ Sleep("wait")
  /\ UNCHANGED <<others, cur, stacks, present, trampmap, flag, apc>>

\* clock_sleep_watch_flag(1, &smp_cpu_ready_count, smp_cpunum(), 0) returns.
AllReady == ready = NrAPs + 1

EndWait ==
  /\ bpc = "wait" /\ (Elapsed \/ AllReady)
  /\ GotoB("done")
  /\ UNCHANGED <<others, cur, start, stacks, present, maps, flag, apc>>

Bsp == \/ StartBoot \/ SendInit \/ SendSipi \/ FirstLook \/ Watch \/ SecondLook
       \/ FinishBoot \/ ClearTrampoline \/ ClearLowPage \/ EndWait

-----------------------------------------------------------------------------
(* An application processor.                                               *)

\* It goes on, unless the code it runs is no longer mapped ...
Mapped(a) == lowmap /\ (apc[a] \in {"started", "tramp"} => trampmap)
GotoA(a, l) == apc' = [apc EXCEPT ![a] = IF Mapped(a) THEN l ELSE "faulted"]

\* mp_start, in real mode, up to the point where paging is on.
Trampoline(a) ==
  /\ apc[a] = "started"
  /\ GotoA(a, "tramp")
  /\ UNCHANGED <<ticks, dead, bsp, flag, ready, sp>>

\* movabs mp_stacktop, %rax; mov %rax, %rsp; call *%rax
\* ... or the call has no stack to push on.
LoadStack(a) ==
  /\ apc[a] = "tramp"
  /\ sp' = [sp EXCEPT ![a] = stacktop]
  /\ GotoA(a, IF stacktop = NULL THEN "faulted" ELSE "boot_ap")
  /\ UNCHANGED <<ticks, dead, bsp, flag, ready>>

\* boot_ap, which is mapped low like the trampoline, sets the flag ...
SetFlag(a) ==
  /\ apc[a] = "boot_ap"
  /\ flag' = 1
  /\ GotoA(a, "low")
  /\ UNCHANGED <<ticks, dead, bsp, ready, sp>>

\* ... and calls ap_start, which is in the kernel's own mapping.
LeaveLow(a) ==
  /\ apc[a] = "low"
  /\ GotoA(a, "main")
  /\ UNCHANGED <<ticks, dead, bsp, flag, ready, sp>>

\* smp_percpu_init
PercpuInit(a) ==
  /\ apc[a] = "main"
  /\ apc' = [apc EXCEPT ![a] = "percpu"]
  /\ UNCHANGED <<ticks, dead, bsp, flag, ready, sp>>

\* smp_notify_ready
NotifyReady(a) ==
  /\ apc[a] = "percpu"
  /\ ready' = ready + 1
  /\ apc' = [apc EXCEPT ![a] = "online"]
  /\ UNCHANGED <<ticks, dead, bsp, flag, sp>>

Ap(a) == Trampoline(a) \/ LoadStack(a) \/ SetFlag(a) \/ LeaveLow(a) \/ PercpuInit(a)
         \/ NotifyReady(a)

BootNext == Tick \/ Bsp \/ \E a \in APs : Ap(a)

\* The clock interrupts, and every processor that runs keeps running.
BootSpec == /\ BootInit /\ [][BootNext]_bootVars
            /\ WF_bootVars(Tick) /\ WF_bootVars(Bsp) /\ \A a \in APs : WF_bootVars(Ap(a))
-----------------------------------------------------------------------------
(* Properties.                                                             *)

\* The processors that run on a stack of their own, and those past the flag.
OnStack == {a \in APs : apc[a] \in {"boot_ap", "low", "main", "percpu", "online"}}
Flagged == {a \in APs : apc[a] \in {"low", "main", "percpu", "online", "faulted"}}

\* Every variable has its type.
BootTypeOK ==
  /\ ticks \in 0..TickMod-1 /\ start \in 0..TickMod-1
  /\ dead \subseteq APs
  /\ bpc \in BspLocations
  /\ cur \in 1..NrAPs + 1
  /\ flag \in 0..1
  /\ nrStacks \in Nat /\ stacktop \in 0..nrStacks
  /\ present \in [APs -> BOOLEAN]
  /\ trampmap \in BOOLEAN /\ lowmap \in BOOLEAN
  /\ ready \in 1..NrAPs + 1
  /\ apc \in [APs -> ApLocations]
  /\ sp \in [APs -> 0..nrStacks]

\* No two processors run on one stack, and none on the page the next processor
\* will be given: smp_boot drops mp_stacktop once it has seen the flag, and keeps
\* it only for a processor that has not taken it.
StackExclusive ==
  \A a \in OnStack :
    /\ sp[a] # NULL
    /\ \A b \in OnStack : a # b => sp[a] # sp[b]
    /\ sp[a] = stacktop => a = cur /\ bpc # "boot"

\* The flag smp_boot acts on was set by the processor it is booting, not by an
\* earlier one that came late.
FlagIsOwn ==
  /\ bpc = "booted" => cur \in Flagged
  /\ (bpc \in {"init", "sipi"}) => flag = 0

\* A processor reported as failed to boot (smp.c:64) never runs kernel code.
FailedNeverRuns ==
  \A a \in APs : ~present[a] => apc[a] \in {"off", "waiting", "started", "tramp"}

\* After the loop exactly the processors that answer are present.
PresentAnswers ==
  cur > NrAPs => \A a \in APs : present[a] <=> a \notin dead

\* The page of a processor that failed to boot goes to the next one: smp_boot
\* never allocates more pages than one for each processor it booted and one spare.
NoStackLeak ==
  nrStacks = Cardinality({a \in APs : a < cur /\ present[a]})
               + (IF stacktop = NULL THEN 0 ELSE 1)

\* What smp_boot believes of the processors, from the one flag they share, is so, and of
\* the stacks it hands over one by one none is shared and none is lost.
HandoverRight == FlagIsOwn /\ FailedNeverRuns /\ PresentAnswers /\ StackExclusive /\ NoStackLeak

\* arch_smp_init and smp_init end, whatever the processors do.
BootEnds == <>(bpc = "done")

\* A processor that answers is online in the end, unless low memory is taken away
\* under it (NoneFaults).
AllComeOnline ==
  \A a \in APs : (a \notin dead) ~> (apc[a] \in {"online", "faulted"})

\* "Set by the AP when initialisation is complete" (smp.c:46): once all flags have
\* been seen, no processor needs the low mapping any more.
NoneFaults == \A a \in APs : apc[a] # "faulted"

=============================================================================
