--------------------------------- MODULE Klog ---------------------------------
(***************************************************************************)
(* Kernel output: _klog and _panic (kernel/main.c) over kprintf and        *)
(* vcprintf (kernel/console.c), the two spinlocks they take, and the       *)
(* interrupts that come in between.                                        *)
(*                                                                         *)
(* A context is the code a CPU runs, or the interrupt or exception handler *)
(* that runs on top of it until it returns.  Interrupt gates clear the     *)
(* interrupt flag, so handlers do not nest; no lock operation touches it.  *)
(* A message of one printf call is one write to the console; a record is   *)
(* what one _klog or _panic call writes: the place, then the text, or for  *)
(* LOG_INFO the text alone.                                                *)
(***************************************************************************)
EXTENDS Integers, FiniteSets

CONSTANTS
  CPUs,           \* the processors
  Nobody,         \* the owner of a free lock
  Calls,          \* what the code of a CPU calls
  HandlerCalls,   \* what the handlers of the enabled interrupts call
  Traps           \* can the code of a CPU run into an exception?

ASSUME CallsAssumption == Calls \subseteq {"info", "log", "panic"}
ASSUME HandlerCallsAssumption == HandlerCalls \subseteq {"info"}
ASSUME TrapsAssumption == Traps \in BOOLEAN
ASSUME NobodyAssumption == Nobody \notin CPUs \X {"code", "handler"}

Contexts == CPUs \X {"code", "handler"}
Code(p)    == <<p, "code">>
Handler(p) == <<p, "handler">>

VARIABLES
  klog_lock,      \* the context that holds it, or Nobody
  console_lock,   \* likewise
  pc,             \* context -> where it is; a handler that is "idle" does not run
  op,             \* context -> the call it is in
  intr,           \* CPU -> its interrupt flag, as its code left it
  last            \* the last write to the console: its context and its part

vars == <<klog_lock, console_lock, pc, op, intr, last>>

Locations == {"idle", "klog", "cli", "con1", "place", "end1", "con2", "text", "end2",
              "unlock", "halted"}
Parts     == {"none", "place", "text"}

Init ==
  /\ klog_lock = Nobody /\ console_lock = Nobody
  /\ pc = [c \in Contexts |-> "idle"]
  /\ op = [c \in Contexts |-> "info"]
  /\ intr = [p \in CPUs |-> TRUE]
  /\ last = <<Nobody, "none">>

Goto(c, l) == pc' = [pc EXCEPT ![c] = l]

\* The code of a CPU stands still while its handler runs.
Runs(c) == c[2] = "handler" \/ pc[Handler(c[1])] = "idle"

Enter(c, what) ==
  /\ pc[c] = "idle"
  /\ op' = [op EXCEPT ![c] = what]
  /\ Goto(c, "klog")
  /\ UNCHANGED <<klog_lock, console_lock, intr, last>>

Call(p) == Runs(Code(p)) /\ \E what \in Calls : Enter(Code(p), what)

\* An interrupt whose handler logs (clock_handler, sched_handler).
Interrupt(p) == intr[p] /\ pc[Code(p)] # "halted" /\ \E what \in HandlerCalls :
                  Enter(Handler(p), what)

\* An exception in the code of p (exception_handler panics), whatever its flag says.
Trap(p) == Traps /\ pc[Code(p)] # "halted" /\ Enter(Handler(p), "panic")

-----------------------------------------------------------------------------
(* _klog and _panic.                                                       *)

\* Slips: nobody waits for the lock, or a panic does not.
NobodyWaits(c) == TRUE
FreeOrPanic(c) == klog_lock = Nobody \/ op[c] = "panic"
KlogFree(c)    == klog_lock = Nobody

\* What follows the acquire: LOG_INFO has no place to print.
AfterKlog(c) == CASE op[c] = "info"  -> "con2"
                  [] op[c] = "log"   -> "con1"
                  [] op[c] = "panic" -> "cli"

AcquireKlog(c) ==
  /\ pc[c] = "klog" /\ Runs(c) /\ KlogFree(c)
  /\ klog_lock' = c
  /\ Goto(c, AfterKlog(c))
  /\ UNCHANGED <<console_lock, op, intr, last>>

\* _panic disables interrupts once it has the lock.
DisableInterrupts(c) ==
  /\ pc[c] = "cli" /\ Runs(c)
  /\ intr' = [intr EXCEPT ![c[1]] = FALSE]
  /\ Goto(c, "con1")
  /\ UNCHANGED <<klog_lock, console_lock, op, last>>

ConsoleFree == console_lock = Nobody

\* vcprintf and vkprintf: acquire, write, release.
AcquireConsole(c) ==
  /\ pc[c] \in {"con1", "con2"} /\ Runs(c) /\ ConsoleFree
  /\ console_lock' = c
  /\ Goto(c, IF pc[c] = "con1" THEN "place" ELSE "text")
  /\ UNCHANGED <<klog_lock, op, intr, last>>

Write(c) ==
  /\ pc[c] \in {"place", "text"} /\ Runs(c)
  /\ last' = <<c, pc[c]>>
  /\ Goto(c, IF pc[c] = "place" THEN "end1" ELSE "end2")
  /\ UNCHANGED <<klog_lock, console_lock, op, intr>>

\* Slips: the lock is kept between the two printfs; a panic restarts the machine.
KeepConsole(c)     == IF pc[c] = "end1" THEN console_lock ELSE Nobody
RebootAfter(c)     == IF op[c] = "panic" THEN "reboot" ELSE "unlock"
ConsoleReleased(c) == Nobody
AfterRecord(c)     == IF op[c] = "panic" THEN "halted" ELSE "unlock"

ReleaseConsole(c) ==
  /\ pc[c] \in {"end1", "end2"} /\ Runs(c)
  /\ console_lock' = ConsoleReleased(c)
  /\ Goto(c, IF pc[c] = "end1" THEN "con2" ELSE AfterRecord(c))
  /\ UNCHANGED <<klog_lock, op, intr, last>>

ReleaseKlog(c) ==
  /\ pc[c] = "unlock" /\ Runs(c)
  /\ klog_lock' = Nobody
  /\ Goto(c, "idle")
  /\ UNCHANGED <<console_lock, op, intr, last>>

-----------------------------------------------------------------------------

Acquire(c) == AcquireKlog(c) \/ AcquireConsole(c)
Proceed(c) == DisableInterrupts(c) \/ Write(c) \/ ReleaseConsole(c) \/ ReleaseKlog(c)

Next == \/ \E p \in CPUs : Call(p) \/ Interrupt(p) \/ Trap(p)
        \/ \E c \in Contexts : Acquire(c) \/ Proceed(c)

\* A context that need not wait goes on, and one that spins gets a lock that stays
\* free.  A lock that others keep taking may pass it by for ever: acquire is a
\* test-and-set loop, and nothing queues for it.
Spec == /\ Init /\ [][Next]_vars
        /\ \A c \in Contexts : WF_vars(Proceed(c)) /\ WF_vars(Acquire(c))

-----------------------------------------------------------------------------
(* Properties.                                                             *)

InKlog    == {"cli", "con1", "place", "end1", "con2", "text", "end2", "unlock"}
InConsole == {"place", "end1", "text", "end2"}

\* A panic that has the lock, up to and including the halt.
Panicking(c) == op[c] = "panic" /\ pc[c] \in InKlog \cup {"halted"}

\* Every variable has its type.
TypeOK ==
  /\ klog_lock \in Contexts \cup {Nobody}
  /\ console_lock \in Contexts \cup {Nobody}
  /\ pc \in [Contexts -> Locations]
  /\ op \in [Contexts -> {"info", "log", "panic"}]
  /\ intr \in [CPUs -> BOOLEAN]
  /\ last \in (Contexts \cup {Nobody}) \X Parts

\* At most one context is between acquire and release of console_lock (console.c),
\* and it is the one that holds klog_lock: characters of two printfs never mix.
OneWriter ==
  \A c, d \in Contexts :
    /\ pc[c] \in InConsole => console_lock = c /\ klog_lock = c
    /\ (pc[c] \in InConsole /\ pc[d] \in InConsole) => c = d

\* A record comes out whole: when _klog or _panic prints the text, the last thing
\* on the console is the place it printed itself, although the console lock was
\* released in between.
RecordWhole ==
  \A c \in Contexts :
    (op[c] # "info" /\ pc[c] \in {"end1", "con2", "text"}) => last = <<c, "place">>

\* What the two locks of the log are for.
OutputRight == OneWriter /\ RecordWhole

\* "So that other CPUs can no longer output" (main.c:61): once _panic has the lock,
\* nothing but the panic itself is written.
PanicSilencesOthers ==
  [][\A c \in Contexts : Panicking(c) => last' = last \/ last'[1] = c]_vars

\* The handler on top of c waits for the lock c holds: neither goes on.
SelfBlocked(c) == klog_lock = c /\ c[2] = "code" /\ pc[Handler(c[1])] = "klog"

\* Whoever gets klog_lock (main.c:44) gives it back, unless it panics.  The one way
\* it does not is an interrupt or an exception on its own CPU, whose handler logs:
\* nothing another CPU does keeps a record from ending.
LogReturns ==
  \A c \in Contexts :
    (klog_lock = c /\ op[c] # "panic") ~> (klog_lock # c \/ SelfBlocked(c))

\* The message of a panic that has the lock comes out, with the same exception: the
\* lock is taken before interrupts are disabled (main.c:61-62).
PanicAppears ==
  \A c \in Contexts : (pc[c] = "cli") ~> (last = <<c, "text">> \/ SelfBlocked(c))

=============================================================================
