----------------------------- MODULE MCInterrupts -----------------------------
(***************************************************************************)
(* Interrupts for TLC: two processors, an I/O APIC of four lines of which  *)
(* boot finds three, or two I/O APICs.                                     *)
(***************************************************************************)
EXTENDS Interrupts

Lapic(id, flags)      == [type |-> "lapic", id |-> id, flags |-> flags]
Ioapic(base, last)    == [type |-> "ioapic", base |-> base, last |-> last]
Over(source, gsi, fl) == [type |-> "override", source |-> source, gsi |-> gsi, flags |-> fl]
Nmi(acpi, lint)       == [type |-> "nmi", acpi |-> acpi, lint |-> lint]
Other                 == [type |-> "other"]

BothCPUs == <<Lapic(0, 1), Lapic(1, 2)>>
SomeMadts ==
  {NoMadt,
   BothCPUs \o <<Ioapic(0, 2), Ioapic(2, 2), Over(1, 3, {8}), Over(0, 2, {2}), Other, Nmi(255, 1)>>,
   \* One processor, the other not usable.
   <<Lapic(0, 1), Lapic(1, 0), Ioapic(0, 3)>>,
   \* A line on the last pin.
   BothCPUs \o <<Ioapic(0, 2), Over(0, 2, {})>>}

\* The theorems about Interrupts are about tables like these.
ASSUME TablesAreSound == SoundTables
=============================================================================
