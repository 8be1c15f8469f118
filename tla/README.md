# GeekToyOS: specifications and proofs

TLA+ models of the parts of GeekToyOS that carry its state: the allocators of
memory, the object caches, the page tables, the start of the other processors,
interrupts and timers, preemption, the kernel log and its console, and the library
functions they rest on. TLC checks each on a small instance, and TLAPS proves what
it can for every value of the constants. Paths below are relative to the
repository's root; the kernel is in `src/` and `include/` there.

## 1. Inventory

The kernel runs `kernel_main` (`src/kernel/main.c`) on the boot processor, which
brings up memory, console, interrupts and the clock, starts the other processors
with `smp_init`, and idles in `sched_start`. The others enter `ap_main`. There
are no processes yet: concurrency is several CPUs plus interrupt handlers.

| Component | State | Operations | Used by |
|---|---|---|---|
| Buddy system (`mm/buddy.c`) | free lists and counters by order, flag and order of every page, `nr_free_pages` | `buddy_init_zone`, `buddy_page_alloc` (split), `buddy_page_free` (merge) | memory manager |
| Memory manager (`mm/memory.c`, `lib/bitmap.c`) | the bitmap `mem_map`, the end of what is reserved, the phase (reserved, bitmap, buddy) | `reserved_mem_alloc`, `mem_map_init`, `block_page_alloc`, `buddy_init`, `mm_phy_page_alloc/zalloc/free` | slab, page tables, SMP stacks |
| Slab caches (`mm/slab.c`) | per cache a lock and three slab lists; per slab a chain and two counters | `kmalloc`, `kfree`, `kmem_cache_alloc/free/create`, `cache_grow` | per-CPU areas; any kernel code |
| SMP bring-up (`arch/x86_64/smp.c`, `kernel/smp.c`, `boot_mp.S`, `init.c`) | `mp_stacktop`, `smp_ap_started_flag`, `lapic_list[].present`, `smp_cpu_ready_count`, the low mapping | `arch_smp_init`, `smp_boot`, `boot_ap`, `smp_percpu_init`, `smp_notify_ready` | boot |
| Clock (`kernel/clock.c`) | `ticks`, `current_timestamp` | `clock_handler`, `clock_sleep`, `clock_sleep_watch_flag` | SMP, APIC timer |
| Interrupts (`kernel/interrupt.c`, `arch/x86/interrupt.c`) | `interrupt_handlers`, the interrupt flag | registration, dispatch, end of interrupt, exceptions | clock, APIC timer |
| APIC, I/O APIC (`arch/x86/apic.c`) | lists from the MADT, redirection table, local APICs | parsing, redirection, masking, timer calibration | interrupts, SMP |
| Preemption (`proc/sched.c`) | per-CPU count and lock | `preempt_enable`, `preempt_disable` | nothing yet |
| Kernel log (`kernel/main.c`, `kernel/console.c`) | `klog_lock`, `console_lock` | `_klog`, `_panic`, `cprintf`, `kprintf` | everything, handlers included |
| Console, screen (`console.c`, `video.c`) | cursor, frame buffer and its copy | `cputchar`, `screen_input_char`, `screen_move` | log |
| Spinlocks, atomics (`spinlock.c`, `atomic.h`) | a word | `acquire`, `release`, `atomic_inc`, `atomic_dec_and_test` | slab, log, preemption |
| Page tables (`arch/x86_64/mm.c`) | the table tree from `kernel_pgd` | `arch_map_region`, `expand_page`, `arch_kmap`, `arch_clear_low_page` | memory manager, SMP, ACPI |
| Real-time clock (`arch/x86/clock.c`), calendar (`lib/time.c`) | device registers | `rtc_get_datetime`, `mktime`, `gmtime`, `strftime` | clock |
| Strings, formatting, division (`lib/string.c`, `printfmt.c`, `div.c`) | none | `memmove`, `memcpy`, `vprintfmt`, `vsnprintf`, `__udivdi3` and others | everything |

### Not modelled

* The lookups in the multiboot and ACPI tables: nothing changes those tables.
  `PhysMem` and `Interrupts` take what they say as input.
* The serial port, the registers of HPET, PIT and the two old interrupt
  controllers, CPUID: port or register writes that leave no state of the kernel's.
* The boot assembly of the boot processor: a straight line before the kernel. The
  page tables it leaves are where `Paging` starts; the trampoline of the others is
  in `SmpBoot`.
* The i386 port, without SMP and, by `README.md`, not working.
* `kmalloc` of whole pages, which nothing calls; the string functions of one loop
  each; the pointers of the linked lists, which are sequences and sets here;
  counts of ones and of 32-bit numbers in `div.c`, the former tied to bytes of 8
  bits, the latter without callers; the seconds `clock_handler` counts.

### How they interact

* `kmalloc` holds a cache's lock while `cache_grow` asks the buddy system for a
  page. The buddy system has no lock: two caches can be inside it at once.
* The bitmap of `memory.c` and the lists of `buddy.c` record the same pages twice;
  two earlier allocators hand what is left to the next.
* `smp_boot` and a starting processor share one stack pointer and one flag, and
  agree by waiting for ticks. The ticks are interrupts on the boot processor, on a
  line `ioapic_init` found in firmware tables.
* Every processor tries its own timer against those ticks before it starts it.
* Every component logs. The log takes `klog_lock`, then `console_lock`. No lock
  operation disables interrupts, and interrupt handlers log as well.

### What is hard

* *Sequences of calls*: splits and merges, slabs moving between lists, allocators
  that follow each other over one memory, a scroll after a wrap after a scroll.
* *Interleavings*: CPUs in one cache, two caches in the unlocked buddy system,
  handlers on top of the code they interrupted, between any two instructions.
* *Order*: the end of an interrupt before its handler; lines of the I/O APIC
  unmasked by the write that redirects them; handlers and the areas they read.
* *Overlaps*: regions of memory mapped over each other with pages of three sizes.
* *Timing*: stacks, flags and the low mapping of a starting processor are safe
  only if ticks are long enough; a clock is read register by register as it goes.
* *Limits*: the end of memory, no page left, the end of a line, a buffer or a word.

`PROJECT.json` lists every hazard at its line, with the property that covers it.

### What makes each part correct

* Memory: a page is free or held once, across all allocators; bitmap, lists and
  counters agree; free buddies are merged; a request fails only when nothing is free.
* Caches: an object is in one place; list, counters and chain of a slab agree;
  only the lock's holder touches them; a page has one cache.
* Page tables: what is mapped shows its own memory, keeps doing so, and its tables
  are no memory anybody else has.
* SMP: no shared stacks; a flag is the processor's own; who is reported absent
  stays absent; the boot ends with everyone up.
* Interrupts: handlers do not nest, every interrupt is ended, once; the clock's line
  is the one open, and its handler the one called; a handler finds what it reads;
  every processor gets its timer.
* Preemption: off inside sections, on outside, whatever handlers do in between.
* Log: writes do not mix, records are whole, a panic speaks last, locks come back.
* Console: the screen reads as the last lines of the text.
* Library: what a reference definition says, over the whole range or every case.

## 2. Modules

| Module | Models |
|---|---|
| `PageAllocator` | what `mm.h` promises of `mm_phy_page_alloc` and `mm_phy_page_free` |
| `Buddy` | `buddy.c` and the buddy phase of `memory.c`; implements `PageAllocator` |
| `PhysMem` | the three allocators of `memory.c` and the hand-overs; its last phase is what `PageAllocator` promises |
| `Slab` | `kmem_cache_alloc`, `kmem_cache_free`, `cache_grow`, `kmalloc` and `kfree` of small objects, on several CPUs |
| `SmpBoot` | `smp_boot` and `arch_smp_init` against clock and processors |
| `Interrupts` | `interrupt.c` and `apic.c` from the MADT to running timers |
| `Preempt` | `proc/sched.c` and `atomic.h` on one CPU with its handlers |
| `DirectMap` | what `mem_layout.h` promises: memory at its address, or not there |
| `Paging` | `arch/x86_64/mm.c` and its calls at boot; implements `DirectMap` |
| `Klog` | `_klog`, `_panic`, the console printfs, interrupts and exceptions |
| `Terminal` | what a console promises: the last lines of the text |
| `Screen` | `cputchar` over the frame buffer of `video.c`; implements `Terminal` |
| `Calendar`, `Rtc`, `Bitmap`, `MemCopy`, `KmallocIndex`, `Format`, `Divide` | functions of `time.c`, `arch/x86/clock.c`, `bitmap.c`, `string.c`, `slab.c`, `printfmt.c` and `div.c` |
| `BuddyProofs`, `PhysMemProofs`, `SlabProofs`, `InterruptProofs`, `ScreenProofs`, `PagingProofs` | theorems about the module of that name |
| `CpuProofs` | theorems about `Klog`, `Preempt` and `SmpBoot` |
| `LibProofs` | theorems about the functions of the library, for every value of the constants of `MCLib` |
| `MCBuddy`, `MCPhysMem`, `MCSlab`, `MCSmpBoot`, `MCInterrupts`, `MCPaging`, `MCKlog`, `MCScreen` | instances for TLC; `Preempt` needs none |
| `MCLib` | the functions' inputs and what is required of them |

Where a definition is preceded by another marked *Slip*, that one is the same
code with a plausible mistake in it. Nothing uses it; putting it in place of the
definition must break a property, which `PROJECT.json` records under "mutants".
A property that is a conjunction of named parts (`ListsRight`, `HandoverRight`,
`PagesRight` and so on) has the parts' comments above them.

### Buddy

`free` maps an order to its list, first page first; allocation takes the head,
release appends, as `list_front` and `list_add_last` do. `flag` and `order` are
the fields of `struct page`; `used` is the bitmap; `todo` is what the loop of
`buddy_page_free` has still to do, one block a step. `BootRange` is a turn of
`buddy_init`. No lock and no handler is involved, so each call is one step.

Faithful details that matter: a page leaving a list *keeps* its buddy flag
(`flag &= PAGE_FLAG_BUDDY`); the order of a request is always 0
(`sz&1 == 0` is `sz & (1 == 0)`, `buddy.c:68`), so a request of two pages would get
one; page structures are not cleared before use (`memory.c:115`), so a page on no
list could be taken for a free buddy; and a failed `bitmap_find` is used as page
number -1. `Slots` includes the frames outside memory those details lead to.
`page_is_buddy` may look at a page structure beyond the array, whose contents are
then whatever follows; `PagesZeroed` covers it too.

The constants say what callers do and what the machine provides:

* `Frees`: the kernel today gives pages back only in `pgdir_walk`, `kfree` of
  whole pages has no caller, so "none" and "lifo" cover what it does; "any" is what
  the interface allows.
* `AllocSizes`: single pages, which is all the kernel asks of the buddy system
  today. With two pages, or with `PagesZeroed` FALSE, `NoDoubleUse` and `ListsRight`
  fail, from the two details above.
* `PagesZeroed`: emulators start with cleared memory, machines need not.
* `LastPageAvail`: the memory limit is the end of an available region, so the last
  page is available unless that region ends inside it or the early allocators took
  it. With FALSE, `NoDoubleUse` fails at once: after the last free range,
  `bitmap_find` returns -1, and all of memory is released, reserved pages included.

### PhysMem

`phase` is what `mm_ready` and `buddy_mem_ready` say. Allocations are kept in `held`
as first frame and length, and no allocator looks at `held`: that two of them do
not meet is what `PagesRight` says, with the bitmap and the buddy system's pages.
A boot loader's map is a set of regions, with holes, with a last page of which
only a part is there, and with regions the kernel covers. Starts are on a page
(`MapsAssumption`): `bitmap_set` rounds the frame of a start down
(`memory.c:107`), and would call the page before the start available otherwise.

The range `block_page_alloc` searches for a used frame is cut at the end of the
bitmap (`memory.c:50`), so the last request before the buddy system may get pages
beyond the end of memory. `OverrunsOnlyWhenFull` shows that this takes a memory
without a run of the size, and `BuddyInit` has the page array inside memory as
its guard, and the last frame free, which `Buddy` names `LastPageAvail`. What `EarlyLimit` bounds is
how much is asked for before there is a bitmap.

### Slab

An operation is cut at the acquire, at the release and at the two accesses of the
unlocked buddy system (`LookForPage`, `TakePage`). Under the lock, cuts only add
interleavings with CPUs that are elsewhere. A slab's node is on one list at a time,
so `list` maps a slab to its list, and which slab of a list is taken is left open.
`pool` stands for the buddy system; `Bogus` for the frame
`PFN_NOTFOUND << PGSHIFT`, which is what a failed allocation returns.

`SerialGrow` says that no two CPUs are between reading and unlinking the front of
a buddy list. No code ensures it. It is true of today's kernel, where only the
boot processor allocates pages once the others run: an AP's one `kmalloc`, of its
per-CPU area, is served by the slab the boot processor's own call grew. With
SerialGrow FALSE, `ObjectsExclusive` and `OwnerIsFinal` fail.

A slab that fills and then gets an object back stays on `slabs_full` until its
*last* object is back (`slab.c:133`), although `mm.h:34` calls that list the
full slabs; its free objects are out of reach until then, and the cache grows.
`SlabsRight` is therefore stated without "full means no object free". A failed page
allocation does not return the NULL `slab.c:104` tests for: the cache grows by a
slab at frame -1 (`memory.c:172`, `slab.c:60`).

### SmpBoot

`bpc` runs through `smp_boot` with one location per sleep. `apc` runs through the
trampoline (`started`, `tramp`), `boot_ap` and `ap_main`. A processor faults when
its code is no longer mapped (`Mapped`) or its stack is NULL. The first start-up
interrupt may be missed, any processor may be dead. `ticks` wraps at `TickMod`;
only differences of one tick are ever observed, so a small modulus is enough.

* `Prompt`: a processor that got its interrupt sets its flag before the next tick
  (10 ms at HZ = 100). Nothing but time ensures it. With Prompt FALSE,
  `HandoverRight` fails: a late processor runs on the stack kept for the next one.
* `BspPrompt`: the boot processor looks at the clock once in every tick. The loops
  test for one exact value (`clock.c:41`, against "at most" in `clock.c:46`), so
  if a tick is missed the wait does not end before the count comes round, and
  `BootEnds` fails.

### Interrupts

A processor has its own code (`pc`), interrupts on top of it (`frames`, a stack), a
flag and a local APIC: what it has noted (`irr`) and what is in service (`isr`).
`interrupt_handler` is two steps, the end of the interrupt and the handler, since
the first may let the next one in. Setting up is a step for each entry of the MADT
and, for a line, one for each of the three writes to the redirection table: the
first unmasks the line, which matters if firmware left the local APIC enabled.

* The boot processor has id 0 and is listed first: `ioapic_redirect` takes the
  first of the list for it, `lapic_enable` registers the timer's handler for id 0.
* `gsi_to_ioapic` compares with the highest entry as if it were their number
  (`apic.c:261`), so a line on the last pin of an I/O APIC is not found and the
  kernel panics. A machine without a MADT panics in `smp_init`. `TimersRun` names
  panic as its exception for these two.
* A machine with one processor has no per-CPU area (`kernel/smp.c:17`) although
  `sched_handler` reads it; `HandlerReady` is about machines with more.
* An exception panics and never returns, which is as well: its frame has one word
  more than the return pops (`trap.S`). A page fault ends in
  `__builtin_unreachable` and is taken for a panic. `800 | vec` in `lapic_set_nmi`
  is decimal, so the delivery mode is not NMI; pins are kept, modes are not.
* `Prompt(v)`: a processor that waits for this tick looks before the next, as in
  `SmpBoot`. The bounds of the lists and the address of the local APIC in the
  MADT are not modelled.
* Everything may halt, so deadlock is no error.

### Preempt

A step is one access to memory; `atomic_inc` is two, as it is two instructions
(`atomic.h:8`). Sections nest by calls and by a handler, which may open and close its
own between any two steps. The read before the increment is harmless because a
handler leaves the count as it found it: `PreemptionRight` has it that preemption is
off inside every section, on outside, and names two exceptions. A handler that
interrupts `preempt_disable` between the count and the lock has a section without
the lock (`sched.c:17-20`). One that interrupts `preempt_enable` between the count and
the release waits for the lock of its own CPU for ever (`sched.c:10-12`), and no other does.
Nothing calls these functions yet.

### Paging

A table has `E` entries and a large page of a level covers `E` times one of the
level below, as in the four levels of `pgdir_walk`; the levels are kept, the width
is not. `tbl` maps each frame that is a table to its entries; an entry is empty, a
page or a table. `Regions` cuts a region as `arch_map_region` does, into small
pages up to a boundary, large ones, and small ones at the end; one step is one turn of
`pgdir_walk` or one store, and `expand_page` is two. `Frames` is the allocator: the
lowest free page for the kernel's own mapping, later the highest, which stands for any.
(The frame buffer's `arch_kmap` in `console_init` still has the bitmap's lowest page; all
memory is mapped by then, so which page it is does not matter.) That memory runs out is
left to `Buddy` and `Slab`, so a frame is always found.

* `expand_page` puts the empty table in place before it fills it (`mm.c:17-25`);
  between the two the large page is not mapped. `OthersUndisturbed` shows that this
  no longer happens once other processors run. The processor that does it relies on
  what its TLB still holds.
* A large page put over tables frees them, one level of them (`mm.c:61-84`): with
  a page of 1 GiB those two levels down would be lost. Only `arch_map_kernel_page`
  maps such pages, where nothing is mapped yet, and no device region is that large.
* `arch_kmap` looks at the first page of a region only, and takes the size without
  the offset in its first page (`mm.c:174`), so the last page of a region may stay
  unmapped. What it sets out to map is mapped.
* The boot tables share their lowest pud between the low and the kernel's mapping, so
  `arch_clear_low_page` and the trampoline's unmapping act on both.

### Klog

A context is the code of a CPU or the handler on top of it. Handlers do not nest,
since interrupt gates clear the flag: `HandlersAlone` of `Interrupts` shows that
this holds although the end of an interrupt is signalled early. `last` is the last
write to the console. A record is a place and a text, for LOG_INFO the text alone.
`halt` with interrupts disabled ends a CPU; so the model can stop altogether, and
deadlock is not an error. Calls of `cprintf` outside the log are the banner before
any other CPU runs, and `traceback`, which nothing calls.

### Screen and Terminal

A pixel is one point of one glyph, the background, or what the boot loader left.
`base` is the display and `buffer` the copy in memory; characters are drawn in the
copy and flushed, and the scroll reads the *display* (`screen_move`), so the two must
agree where it matters. `Terminal` has only lines; `TextLines` reads them off the
pixels, from the left to the first place that is not a glyph. Characters from 0x80 on
are sign-extended and draw nothing; they, tabs and the serial copy are left out.
`CharsAssumption` keeps the names of characters apart from those of the background and
of what the boot loader left: a pixel says which of them was drawn.

### Library

The functions are operators. A loop is a recursive function of its turn, or of the place a
pointer has come to: `Format` follows the recursion of `printnum` and the pointer of
`vprintfmt` this way, and `Divide` has the powers of two as one (`Pow2`).

* `Calendar` keeps the 32 bits of a timestamp as a day and a second, with their wrap.
  `Bitmap` keeps a byte as a set of bits.
* `KmallocIndex` is safe but not as its table has it: 49 to 64 bytes take objects of
  96, 65 to 128 take objects of 192, and `kmalloc-128` is never used, since
  `last2bit` (`slab.c:167`) is read after the bits it asks for are shifted out.
* `memcpy` tests a pointer it does not advance (`string.c:16`), so it writes up to a
  word less one byte beyond its end; `MemoryRight` bounds that.
* `Rtc` reads seven registers of a clock that goes on: the seconds are read twice,
  at the end, so only a change after the first of them is seen. A minute that begins
  during the first six reads gives a time up to a day early, or up to a year at the
  end of one. `TimeRight` has it that the result is never late and otherwise right.
* `Format`: `%d` takes an int as unsigned, so a negative one prints as a large number,
  against the comment at `printfmt.c:143`; "-" pads a number on the left with "-"
  characters, against the comment at `printfmt.c:58`; "%.0s" reads 0 as a flag;
  `strftime` bounds the numbers it writes and not the text between. `%s` takes a width
  and pads, which `error.c:3-4` has for the numeric formats only. `FormatRight` says
  nothing of these: it is about longs, padded with spaces or zeros, and about strings
  with a precision and "#", without a width. The width of a number does not count its sign.
* `Divide` is division by shift and subtraction, shifts and counts of zeros, for
  numbers of `2^LogBits` bits in two words.

## 3. Runs

| Run | Instance | States | Shows |
|---|---|---|---|
| `buddy` | 9 pages, orders 0 to 2, every set of reserved pages | 111296 | `TypeOK`, `ListsRight` (`ListsExact`, `Coalesced`, `Accounting`), `NoDoubleUse`, `BootEnds`, `PageAllocatorSpec` |
| `phys_mem` | pages of 2 bytes, memories of 8 to 11 pages with holes, requests of 1 to 3 pages | 193666 | `TypeOK`, `PagesRight` (`NoPageTwice`, `BitmapExact`), `OverrunsOnlyWhenFull` |
| `slab` | 2 CPUs, 2 caches, 4 pages, 2 objects a page, 2 objects in use | 87899 | `TypeOK`, `MutualExclusion`, `ObjectsExclusive`, `SlabsRight` (`PartialHasRoom`, `AtMostOnePartial`), `OwnerIsFinal`, `LockReleased` |
| `smp_boot` | 3 processors to start, 4 tick values | 21568 | `BootTypeOK`, `HandoverRight` (`FlagIsOwn`, `FailedNeverRuns`, `PresentAnswers`, `StackExclusive`, `NoStackLeak`), `BootEnds`, `AllComeOnline` |
| `interrupts` | 2 processors, 4 lines, 4 tables of the firmware, exceptions on one | 134963 | `TypeOK`, `HandlersAlone`, `ClockWired`, `HandlerReady`, `TimersRun` |
| `preempt` | up to 6 sections open | 4421 | `PreemptionRight` |
| `paging` | 4 entries a table, 2 bytes a page, memory of 16, 40 or 72 pages, 2 device regions of 8 | 4394 | `TypeOK`, `TablesRight` (`DirectOrNothing`, `TablesHangOnce`, `TablesMapped`), `OthersUndisturbed`, `MapReturns`, `DirectMapSpec` |
| `klog` | 2 CPUs, interrupts and exceptions | 9210 | `TypeOK`, `OutputRight` (`OneWriter`, `RecordWhole`), `PanicSilencesOthers`, `LogReturns`, `PanicAppears` |
| `screen` | 5 by 7 pixels, glyphs of 2 by 2, 2 characters | 3036 | `TypeOK`, `TerminalSpec` |
| `lib` | each day of a timestamp; bitmaps of 7 and 9 bits in bytes of 3; copies of up to 11 bytes in words of 4; each size of `kmalloc`; numbers below 8192 padded with spaces or zeros; strings of up to 3 characters and none; all pairs of 8-bit numbers | 304283 | `MemoryRight`, `TimeRight`, `FormatRight`, `DivisionRight` |

Why the bounds are enough. *buddy*: nine pages hold two blocks of the top order and
a last page whose buddy is beyond memory; 128 layouts reach every order of splits
and merges that last-in-first-out release allows. *phys_mem*: maps with one, two and
three regions, a hole before and behind the kernel's end, a region the kernel
covers, a part of a page at the end; requests of three pages meet every hole, and
the last overruns memory. *slab*: two objects a page and two in use make a slab
empty, partial, full, and stuck on the full list; two caches make two locks that are
independent and share the pool, and four pages are what two stuck slabs and two
others need. *smp_boot*: three processors, so a failed one has one before and one
after it. *interrupts*: two I/O APICs, an override of the clock's line and of
another, a line on the last pin, one processor and no MADT at all; a timer is tried
for one tick (`TestTicks`) instead of ten, three values of the count (`TickMod`) tell
that tick from those around it, and one processor with exceptions (`Faulty`) is enough
to have one on top of each interrupt. *preempt*: three sections of a handler on top of three of the
code. *paging*: memory ends below, inside and beyond the first pud, and
regions of one to six pages start and end anywhere in a large page, so every cut,
split and shrink happens. *klog*: a second CPU and a handler are every kind of
competitor a context can have. *screen*: a margin at the right and at the bottom, two
characters in a line and three lines, so wraps and scrolls meet in every order.
*lib*: days and sizes are all there are; a range of bits starts and ends at every
place of first, middle and last bytes, with every contents, and with the start of -1
the callers pass; copies have every alignment and overlap; numbers lie around each
change of length in each base and around half of what a long holds, with `IntMod` and
`LongMod` for 2^32 and 2^64; the clock is read before the end of a minute, hour, day,
year and century, and goes on at each of the seven reads. The properties about
safety are proved for any size in all runs, but for `FormatRight` of `lib`.

Runs that must find a violation, each because the code disagrees with what the
repository says of it:

| Run | Property | What happens |
|---|---|---|
| `buddy_any_order` | `NoDoubleUse` | pages released in any order: one is merged with a page still held, whose flag was never cleared (`buddy.c:31` against `buddy.c:100-101`) |
| `smp_low_page` | `NoneFaults` | the flag is set before the processor leaves low memory (`init.c:52` against `smp.c:46`) |

Section 2 names the other disagreements, none of which the kernel runs into today:
requests of two pages, a page array that was not clear, a failed allocation, a
missed tick.

`LogReturns` and `PanicAppears` name their one exception, `SelfBlocked`: an interrupt
or exception on a CPU inside the log, whose handler logs. The handler spins for
the lock its own CPU holds. `clock_handler` logs every five seconds, so this can
happen; that it is the *only* way a record does not end is what the run shows. A
panic is exposed to it too, between `acquire` and `interrupt_disable`
(`main.c:61-62`).

### Fairness

* Buddy: the boot loop and the loop of `buddy_page_free` go on; nothing blocks them.
* Slab: a CPU inside a critical section goes on (interrupts return). Nothing
  is assumed of a spinning CPU: `acquire` is a test-and-set loop without a queue.
* Paging: the loops of a map go on; nothing blocks them.
* SmpBoot: the clock ticks and every running processor goes on.
* Interrupts: the clock keeps pulling its line, an interrupt that is accepted is
  handled, and a processor's own code and the interrupts it has noted get their turn
  between the others (strong fairness): handlers are short against a tick. Nothing
  is assumed of devices, local timers, spurious interrupts and exceptions.
* Klog: a running context goes on; one that spins gets a lock that *stays* free.

## 4. Proofs

`CpuProofs` has the theorems about processors that meet: in `Klog`, `SmpBoot` and
`Preempt`.

Of `Klog`, for any number of CPUs and any mix of calls, interrupts and
exceptions: `TypeCorrect`, `OutputIsRight`, `PanicSilences`.
The inductive invariant adds to `RecordWhole` where each lock is held: the context
past an acquire and before its release is exactly the lock's owner. Without it
`RecordWhole` is not preserved, because the console lock is free between the place
and the text, and only `klog_lock` keeps others away.

`BuddyProofs`, for any memory size, any number of orders and any set of reserved pages:
`TypeCorrect`, `ListsStayRight`, `NothingUsedTwice` and `PromiseKept`, the refinement
of `PageAllocator`. All assume `Working`, the values the `buddy` run gives the constants
and section 2 discusses: single pages, released not at all or in reverse order, page
structures that start as zero, and a last page that is free. Each is needed, since
without it a property fails: that is a finding or is said in section 2.

The hard part is that a page leaving a list keeps its flag, so `page_is_buddy` alone
says nothing. The invariant has it that a page with a flag is on the list of its order,
or inside a greater free block, or one of those handed out (`Flagged`). The last are a
`Stack`, with the page being released on top of it, and two facts about it make a
release right: every upper half of the block a page was cut out of is free, or was
handed out *later* (`StackHalves`), so when the page is given back all of them are free
and are merged, up to exactly the order of that block (`ReleaseStops`); and no block on the
stack is the buddy of another of its order, on the stack or free (`StackPages`), so merging
stops there and takes no page that is held. `StackHalves` is what fails when callers
release in any order, as the run `buddy_any_order` shows. For the scan at boot,
`BootFirst` has it that the pages it releases have no flag, and `Parts` that a page is
used, free, about to be freed or not yet looked at. The lemmas at the head of the module are about the powers of two
the code computes by shifts, masks and exclusive or: blocks of one order are apart or
equal, of two orders nested or apart, a buddy's buddy is the block itself, and two buddies are
the block above. What needs an induction over orders (`SizesExist`) is proved by least
counterexample: `MinIsLeast`, from the library's fact that strict inclusion of finite
sets is well founded.

`PhysMemProofs`, for any size of a page, memory maps and requests: `TypeCorrect`,
`PagesStayRight` and `OverrunsAreLast`. The two scans of the bitmap are recursive
functions. What they come to is proved first, by giving a function that fulfils the
scan's equation and taking the last place where the scan could differ from it:
`block_page_alloc` returns the first frame from which no used one follows
(`BlockPageAllocIs`), `buddy_init` releases the free frames (`ReleasedIs`). The
invariant adds to `PagesRight` that an allocation that is not reserved starts inside
the bitmap (`LaterInv`): one that ends beyond it holds the last frame, so there cannot
be two. That regions start on a page (`MapsAssumption`) is used where the bytes of a
frame have to come from one region (`MemoryIs`).

`SlabProofs`, for any CPUs, caches, pages and objects per page:

* `TypeCorrect` and `Exclusion` need no assumption. The invariant `BaseInv` says
  who holds each lock and which locals are set.
* `PagesKeepTheirCache` assumes `SerialGrow`: pages on the buddy system's lists belong to no
  cache, and only one CPU is about to take one (`OwnInv`).
* `NoObjectTwice` and `SlabsAreRight` assume `SerialGrow`, and speak of the time until the pool is exhausted
  (`owner[Bogus] = NoCache`): afterwards a second failed allocation makes a slab of
  the same frame over objects callers hold. The invariant `ObjInv` adds what is
  true of a slab *while* its cache is locked: a partial slab may have no object in
  use only if a CPU is about to take one; a cache that is growing has nothing but
  full slabs; a page being taken belongs to nobody. Each lemma is one action.

Of `SmpBoot`, for any number of processors, dead or alive, and any modulus of the
clock: `BootTypeCorrect`, without an assumption, and `HandoverIsRight`, which assumes
`Prompt`. The invariant splits the processors at the one `arch_smp_init` is at: those
ahead have not started, those behind run, are reported absent or are off, and *none of
them is between its interrupt and its flag* (`BehindInv`). That is preserved because a
processor between the two got its interrupt since the last tick, so the wait of the
boot processor, which takes a tick at least, has not come to its end (`CurInv`). The
stack a processor may start on is then the one at hand, or that of the one before
only until it is reported absent and its stack used again (`StackInv`, `NoStackLeak`).

Of `Preempt`, for any depth: `PreemptTypeCorrect` and `PreemptionIsRight`. The sections
are a stack, so the invariant says of every section where it can be, given what is
above it: only the top one, and the one a handler interrupted, may be elsewhere than
inside; the count is the number of sections that have counted, and the lock is held
exactly if the lowest of them is past its acquire. What `atomic_inc` read, to be used
at the increment, is zero exactly if nothing below is counted, whatever handlers did in
between (`OriginInv`).

`InterruptProofs`, for any processors and lines. `HandlersRunAlone`, that is
`HandlersAlone`, for any tables of the firmware. The end of an interrupt is signalled only
for what is registered as ISR_IRQ or not at all, so the invariant `IInv` follows a
vector from the redirection entry it was written to (`Wired`, `OpenLines`), by way of
what a local APIC has noted (`Noted`), to what is in service: what gets that far is a
line's vector or the timer's, and those stay ISR_IRQ (`Endable`). It needs that the
lines' vectors lie below those the processors use (`VectorsAssumption`) and that the
old controllers' lines exist (`LinesAssumption`); the line of the clock is then one that
`ioapic_init` wired before `interrupt_enable_irq` opens it.

`TypeCorrect`, `ClockIsWiredRight` and `HandlersAreReady` assume `SoundTables`, what the
code takes for granted of the firmware: the lines of an I/O APIC are lines there are, the
first usable processor listed is the one that boots (`ioapic_redirect` sends every line to
the first of the list), and entries that override one line agree on its signal. TLC
evaluates it for the tables of `MCInterrupts`. The invariant `WInv` follows the boot
processor: the lists hold what the entries read so far say (`ListsInv`), the lines
written so far have the signal of the override (`SignalInv`), no line but the
clock's stays open, and that one only after `clock_init` opened it (`OpenInv`), the clock's
handler stays registered (`ClockInv`), no processor takes interrupts before
`interrupt_enable` (`EnabledInv`), and of a timer nothing is under way, noted or in
service, before its processor reached the scheduler with its area set (`TimersInv`).

`ScreenProofs`, for any screen, any size of a glyph and any characters: `TypeCorrect`
and `TextIsShown`, the refinement of `Terminal` with the call each step of it belongs to.
It needs two facts about the display: nothing is drawn from the cursor on, in its row
and below (`ClearInv`), and the row of the cursor is full to the left of it (`TextInv`), so that
what is read off the pixels ends where the cursor is. The first has to cover the margins
as well, since the scroll moves pixels, not rows, and brings the lower margin up into
the last row; and the buffer needs no invariant, since every rectangle that is flushed
was drawn just before. The rest is arithmetic on pixels (`PlacesApart`, `PutPlaces`:
a glyph changes its own place only) and what sequences of lines come to (`LineIs`, `NewRow`).

`PagingProofs`, for tables of any size, any memory, any size of a page and any regions.
`TypeCorrect`, `NothingElseMapped` and `DirectMapKept`, the refinement of `DirectMap`.
The invariant says what the arrays of entries in the frames amount to: some choice of a
level and a first page for every table makes them a tree (`Tree`), in which every
entry of a table that is a page has the page its place stands for, which is
`NothingElseMapped`; and no table but the first hangs in two places (`Once`), since
otherwise a store for one address would show at another. `pgdir_walk` is on the path of the page it looks for
(`WalkAt`), and `expand_page` fills a table on that path with the pages of the block it
replaces (`HoleAt`). What `arch_map_region` makes of its arguments is then shown to be
parts of whole blocks that follow each other without a gap (`RegionsGood`), for any
alignment of the two ends. For the refinement the invariant adds how far the request has come
(`AskInv`): the pages from its start up to the page at hand are mapped (`Request`), both
halves share the tables of the boot code until the low half is dropped (`SharedPud`), without
which the trampoline, mapped low, would not show in the direct mapping; and when the walk finds a page
larger than it wants, the block it is asked for is mapped already (`DeepShown`), so that
splitting that page, and storing what was there, changes nothing. Half way through a split the
mapping is read with the entry that `expand_page` holds in its local (`Settled`).

`OthersStayUndisturbed` needs one fact more: from the mapping of the trampoline until it
is cleared, its page has a table of its own (`SplitInv`). Clearing is the only walk while
other processors run, so it finds tables all the way down and stores one entry.

`TablesStayRight` adds to `NothingElseMapped` the other two parts of `TablesRight`, with
`KmapSizeAssumption` and `TableSizeAssumption`, which the kernel's 512 entries and the
regions it maps satisfy, and which TLC evaluates for `MCPaging`.

* `TablesStayHung`: a page of level 3 put over tables would lose those two levels down,
  which a device region of 1 GiB or more could do. The invariant `HangInv` has it that such pages
  occur in the first part of `arch_map_kernel_page` only, and that nothing is mapped where they go
  (`HugeInv`, `BootInv`). The low half of the pgd holds only what it shares with the
  other, and entries of the upper half stand for different pages (`UpperSpots`), so `Once`,
  which excepts the pgd, comes to one place each, and two for the shared pud.
* `TablesStayMapped`: `mem_init` maps memory with tables it takes from that memory, and
  writes them through the mapping it is making. What makes it right is that the bitmap
  hands out the lowest page. The invariant `FirstInv` is a budget: the tables lie below some
  page k, and k plus what the part at hand may still need (`Reserve`) is no more than the
  pages mapped so far plus the tables the walk under way has taken (`Taken`). A page of level 2 or
  3 takes three tables at most and maps more pages than that, four entries or more; a small page
  takes up to three as well and maps one, so small pages must come last and be fewer
  than a large one has (`RegionsSmall`). Then all tables lie in front of the page at hand
  (`FirstBehind`). Afterwards all memory is mapped (`RamInv`), wherever tables come from.

`LibProofs`, for every value of the constants of `MCLib`: `MemoryTheorem`,
`DivisionTheorem` and `TimeTheorem`, three of the four invariants of the run `lib`. A
loop of these functions is a recursive function of the turn, so two things have to be
shown before anything can be said of it: that there is such a function (`TurnsExist`), and
how to argue from turn to turn (`Upwards`). Both go back to the least element of a set of
numbers (`LeastExists`).

* `MemoryTheorem`: bytes of any number of bits, words of any number of bytes, a size_t of any
  width, any range and any two places of a copy (`BoundsAssumption` and `SizesAssumption`
  say that a bitmap is not larger than its bytes, nor its end beyond a size_t). `bitmap_set`
  and `bitmap_find` go by bytes with a mask for each, and what is to be shown is that
  the masks of first, middle and last byte together are the range, each bit in one of
  them (`MasksAreRight`). For `memmove` the invariant of the loops has it that what is copied is at its
  place and what is not yet copied has not been written over: forwards because the
  destination lies before the source, backwards because it lies behind. For `memcpy` it is how
  far the second loop can run: up to the word of the last byte.
* `DivisionTheorem`: numbers of any width that is a power of two (`LogBitsAssumption`), in
  two words. A shift by halves is a shift because a quotient by a product is a quotient
  of a quotient (`DivTwice`); the counts of zeros halve what is left of the bits in each turn. The
  invariant of the long division (`DivInv`) is that the remainder is what the bits of the numerator
  shifted in so far leave, and that the quotient so far stands behind those still to come in the same
  register, but for its last bit; the test by the sign of the difference is right
  although it takes an unsigned number for a signed one, since where the divisor is above
  the half, there is only one turn.
* `TimeTheorem`: the correction for leap days and the two loops of `_gmtime` find the year and
  the month a day lies in (`YearIs`, `MonthIs`), from closed forms for the start of a year
  and of a month; a day has only one date (`DateUnique`), so the date is the one after the
  day before's. `mktime`, which counts from March, comes to the same closed forms
  (`MktimeDayIs`), for every second of 32 bits: `TimestampsComeBack`, of which the run checks
  the hours at which the local day changes. What is read of a clock that goes on is a mixture
  of two dates, one second apart; `ClockIsReadRight` shows that a mixture is never late and is
  one of the two unless a minute has begun, for every second until 2069, of which the run checks the
  eves. It needs that a year of two digits is one of 1970 to 2069 (`ClockYears`).

Only model-checked are

* the liveness properties, which need ENABLED and fairness;
* `FormatRight`. `vprintfmt` goes back in its format where an escape is unknown, so its
  recursion is over strings and not over turns, what it puts out is read with folds over
  sequences, and the number of digits is a power of the base: to show what these come to for
  every input takes an induction over data.

## 5. Plan

Every safety property and refinement that the runs check is a theorem, but for
`FormatRight`. What is left:

1. `FormatRight` for one conversion at a time: the digits `printnum` puts out say the
   number, in every base.
2. `kmalloc` of whole pages, once something calls it.
3. The parts of the components that are marked partly in `PROJECT.json`, where they come to
   keep state others depend on.
