------------------------------- MODULE BiosPci -------------------------------
(***************************************************************************)
(* Set-up of PCI devices by the system BIOS (bios/seabios: pci.c,          *)
(* pciinit.c, and the searches of pcibios.c): the walk over all functions  *)
(* of the bus, the addresses given to their regions and their interrupts,  *)
(* and the searches for the n-th device of a kind and for the vga card.    *)
(* bdf is the number of a device times eight plus the function.  There is  *)
(* one bus, as on the emulated machine; BusSize scales its 256 functions.  *)
(***************************************************************************)
EXTENDS Naturals, Sequences, FiniteSets, SequencesExt

CONSTANTS BusSize,    \* 0x100 of pci_next
          PciLayouts, \* functions from bdfs to [multi, kind, active, bars, pin]
          IoStart, MemStart, \* 0xc000 and BUILD_PCIMEM_START
          LegacyPorts \* where an IDE controller is in ISA mode

VARIABLES devs,     \* the devices
          pass,     \* 1: bridges, 2: devices, 3: searches
          bdf,      \* where the walk is
          seen,     \* what the walk has returned in this pass, in order
          region,   \* the address of each region given out: <<bdf, i>> to address
          line,     \* PCI_INTERRUPT_LINE of each function
          nextAddr, \* pci_bios_io_addr and pci_bios_mem_addr
          answer    \* of the last search

pciVars == <<devs, pass, bdf, seen, region, line, nextAddr, answer>>

Fn(b) == b % 8
Dev(b) == b \div 8
Present(b) == b \in DOMAIN devs

\* pci_irqs and pci_slot_get_pirq.
PciIrqs == <<10, 10, 11, 11>>
IrqOf(b, pin) == PciIrqs[((pin - 1 + Dev(b) + 3) % 4) + 1]

PciInit == /\ devs \in PciLayouts
           /\ pass = 1 /\ bdf = 0 /\ seen = <<>>
           /\ region = <<>>
           /\ line = [b \in DOMAIN devs |-> 0]
           /\ nextAddr = [io |-> IoStart, mem |-> MemStart]
           /\ answer = "none"

\* pci_next, on entry: a device with one function is left at once.
Skip(b) == IF Fn(b) = 1 /\ ~devs[b - 1].multi THEN b + 7 ELSE b

\* pci_next, one turn of its loop over absent functions.
PciNextAbsent ==
    /\ bdf < BusSize /\ ~Present(bdf)
    /\ bdf' = IF Fn(bdf) = 0 THEN bdf + 8 ELSE bdf + 1
    /\ UNCHANGED <<devs, pass, seen, region, line, nextAddr, answer>>

\* Mutation of PlaceBar: the address is not aligned to the size.
PlaceBarPacked(s, b, i, bar) ==
    IF bar.size = 0 THEN s
    ELSE LET kind == IF bar.io THEN "io" ELSE "mem"
         IN  [at |-> s.at \o << <<b, i, bar, s.next[kind]>> >>,
              next |-> [s.next EXCEPT ![kind] = @ + bar.size]]

\* pci_bios_init_device: the next aligned address of its kind.
PlaceBar(s, b, i, bar) ==
    IF bar.size = 0 THEN s
    ELSE LET kind == IF bar.io THEN "io" ELSE "mem"
             addr == ((s.next[kind] + bar.size - 1) \div bar.size) * bar.size
         IN  [at |-> s.at \o << <<b, i, bar, addr>> >>,
              next |-> [s.next EXCEPT ![kind] = addr + bar.size]]

\* pci_bios_init_device: an IDE controller not of Intel's gets the legacy ports;
\* an Intel power management device has its interrupt hardwired.
InitDevice(b) ==
    LET d == devs[b]
        bars == IF d.kind = "ide" THEN <<>> ELSE d.bars
        placed == FoldLeft(LAMBDA s, i : PlaceBar(s, b, i, bars[i]),
                           [at |-> region, next |-> nextAddr], [i \in 1..Len(bars) |-> i])
        legacy == IF d.kind # "ide" THEN <<>>
                  ELSE [i \in 1..4 |-> <<b, i, [io |-> TRUE, size |-> 1], LegacyPorts[i]>>]
    IN  /\ region' = placed.at \o legacy
        /\ nextAddr' = placed.next
        /\ line' = [line EXCEPT ![b] = IF d.kind = "pm" THEN 9
                                       ELSE IF d.pin = 0 THEN 0 ELSE IrqOf(b, d.pin)]
        \* PCI_COMMAND_IO | PCI_COMMAND_MEMORY
        /\ devs' = [devs EXCEPT ![b].active = TRUE]

\* pci_next returns a device, and the pass works on it.
PciNextFound ==
    /\ bdf < BusSize /\ Present(bdf)
    /\ seen' = Append(seen, bdf)
    /\ bdf' = Skip(bdf + 1)
    /\ IF pass = 2 THEN InitDevice(bdf) ELSE UNCHANGED <<devs, region, line, nextAddr>>
    /\ UNCHANGED <<pass, answer>>

\* pci_setup goes on with the next pass; a search starts over.
PassDone ==
    /\ bdf >= BusSize
    /\ pass < 3
    /\ pass' = pass + 1
    /\ bdf' = 0 /\ seen' = <<>>
    /\ UNCHANGED <<devs, region, line, nextAddr, answer>>

\* handle_1ab102, handle_1ab103 and pci_find_device: the n-th of a kind.
FindNth(kind, n) ==
    LET found == SelectSeq(seen, LAMBDA b : devs[b].kind = kind)
    IN  /\ pass = 3 /\ bdf >= BusSize
        /\ answer' = IF n < Len(found) THEN found[n + 1] ELSE "not found"
        /\ UNCHANGED <<devs, pass, bdf, seen, region, line, nextAddr>>

\* pci_find_vga: the first card that decodes io and memory.
FindVga ==
    LET cards == {b \in Range(seen) : devs[b].kind = "vga" /\ devs[b].active}
    IN  /\ pass = 3 /\ bdf >= BusSize
        /\ answer' = IF cards = {} THEN "not found"
                     ELSE CHOOSE b \in cards : \A c \in cards : b <= c
        /\ UNCHANGED <<devs, pass, bdf, seen, region, line, nextAddr>>

PciNext == \/ PciNextAbsent \/ PciNextFound \/ PassDone \/ FindVga
           \/ \E kind \in {"ide", "vga", "nic"}, n \in 0..1 : FindNth(kind, n)

PciSpec == PciInit /\ [][PciNext]_pciVars

----------------------------------------------------------------------------
\* The functions there are: all of a device with the multi-function bit, else
\* function 0; without function 0 there is no device.
Functions == {b \in DOMAIN devs : /\ Present(8 * Dev(b))
                                  /\ \/ Fn(b) = 0
                                     \/ devs[8 * Dev(b)].multi}

\* pci_next: each pass meets every function of every device exactly once, and
\* the functions a single-function device echoes not at all.
EveryFunctionOnce ==
    /\ \A i, j \in 1..Len(seen) : i < j => seen[i] < seen[j]
    /\ bdf >= BusSize => Range(seen) = Functions

\* pci_bios_init_device: the regions of all devices are aligned to their size
\* and disjoint within io and within memory.
RegionsDisjoint ==
    /\ \A i \in 1..Len(region) : region[i][4] % region[i][3].size = 0
    /\ \A i, j \in 1..Len(region) :
        \/ i = j \/ region[i][3].io # region[j][3].io
        \/ region[i][4] + region[i][3].size <= region[j][4]
        \/ region[j][4] + region[j][3].size <= region[i][4]

\* pci.c and pciinit.c: every function is met once and its regions are its own.
PciSetUp == EveryFunctionOnce /\ RegionsDisjoint
============================================================================
