------------------------------ MODULE BiosTables ------------------------------
(***************************************************************************)
(* The tables by which the system BIOS describes the machine to the        *)
(* operating system (bios/seabios: mptable.c, acpi.c, smbios.c and the     *)
(* loading of external tables in paravirt.c).  Each table is built in one  *)
(* action from what earlier set-up left: the number of processors that     *)
(* answered, the number there may be, memory and PCI interrupts.  Any of   *)
(* its allocations may fail.  Memory is counted in units of 128 KB.        *)
(***************************************************************************)
EXTENDS Integers, Sequences, FiniteSets, SequencesExt

CONSTANTS Platforms,     \* [count, max, ht, pins, override, nodes, ram, over, smb, acpi]
          Low640K, HighStart, FourGig,
          MaxAcpiTables, \* MAX_ACPI_TABLES
          DeviceMax,     \* the largest memory device, 16 GB (0x4000 MB)
          SmbiosTemp     \* TEMPSMBIOSSIZE, less the end marker, in structures

VARIABLES plat, todo, mp, madt, ssdt, srat, tables, smbios

tblVars == <<plat, todo, mp, madt, ssdt, srat, tables, smbios>>

\* A table that is not there is <<>>, one that is a sequence of itself.
None == <<>>
NoSmbios == [structs |-> <<>>, used |-> {}, done |-> FALSE, build |-> <<>>, load |-> <<>>]
U8(n) == n % 256

TblInit == /\ plat \in Platforms
           /\ todo = <<"mp", "smbios", "fadt", "ssdt", "madt", "hpet", "srat", "external", "rsdt">>
           /\ mp = None /\ madt = None /\ ssdt = None /\ srat = None
           /\ tables = <<>> /\ smbios = NoSmbios

\* The next table; acpi_bios_init gives up when its root cannot be allocated.
Building(name) == todo # <<>> /\ Head(todo) = name /\ todo' = Tail(todo)

----------------------------------------------------------------------------
\* mptable_init: one entry for the first processor of each package.
MpCpus == LET step == plat.ht
          IN  [i \in 1..((plat.max + step - 1) \div step) |->
                 [apicid |-> U8((i - 1) * step), enabled |-> (i - 1) * step < plat.count]]

\* mptable_init: each pin of a PCI device once.
MpPci == FoldLeft(LAMBDA s, d : IF \E e \in Range(s) : e.dev = d.dev /\ e.pin = d.pin THEN s
                                ELSE Append(s, [bus |-> "PCI", dev |-> d.dev, pin |-> d.pin, dst |-> d.irq]),
                  <<>>, SelectSeq(plat.pins, LAMBDA d : d.pin # 0))

\* mptable_init: the ISA interrupts no PCI device has taken.
MpIsa(taken) ==
    LET free == SelectSeq([i \in 1..16 |-> i - 1],
                          LAMBDA i : i \notin taken /\ ~(plat.override /\ i = 2))
    IN  [n \in 1..Len(free) |->
           [bus |-> "ISA", src |-> free[n], dst |-> IF plat.override /\ free[n] = 0 THEN 2 ELSE free[n]]]

MptableInit ==
    /\ Building("mp")
    /\ \/ mp' = None    \* an allocation fails: everything is freed
       \/ LET taken == {e.dst : e \in Range(MpPci)}
          IN  mp' = <<[cpus |-> MpCpus, ioapic |-> U8(plat.count), intsrcs |-> MpPci \o MpIsa(taken)]>>
    /\ UNCHANGED <<plat, madt, ssdt, srat, tables, smbios>>

----------------------------------------------------------------------------
\* ACPI_INIT_TABLE: a table that could not be built is left out.
AcpiInitTable(name, built) == tables' = IF built THEN Append(tables, name) ELSE tables

\* acpi_bios_init, with the power management device there; build_fadt.
AcpiBiosInit ==
    \E rsdp, built \in BOOLEAN :
        /\ todo # <<>> /\ Head(todo) = "fadt"
        /\ todo' = IF rsdp THEN Tail(todo) ELSE <<>>
        /\ AcpiInitTable("FACP", rsdp /\ built)
        /\ UNCHANGED <<plat, mp, madt, ssdt, srat, smbios>>

\* build_ssdt: the length of the package, itself included, in one or two bytes.
PkgLength(len) == IF len <= 62 THEN <<len + 1>>
                  ELSE <<64 + ((len + 2) % 16), U8((len + 2) \div 16)>>

BuildSsdt ==
    LET cpus == IF plat.max > 255 THEN 255 ELSE plat.max
        body == 13 * cpus + 4
    IN  \E built \in BOOLEAN :
            /\ Building("ssdt") /\ AcpiInitTable("SSDT", built)
            /\ ssdt' = IF ~built THEN None
                       ELSE <<[pkg |-> PkgLength(body), body |-> body, alloc |-> 3 + body,
                             \* the name is "CPU" or "CP" and a digit, and a digit
                             names |-> [i \in 1..cpus |-> <<(i - 1) \div 16, (i - 1) % 16>>]]>>
            /\ UNCHANGED <<plat, mp, madt, srat, smbios>>

\* build_madt
BuildMadt ==
    \E built \in BOOLEAN :
        /\ Building("madt") /\ AcpiInitTable("APIC", built)
        /\ madt' = IF ~built THEN None
                   ELSE <<[cpus |-> [i \in 1..plat.max |-> [apicid |-> U8(i - 1), enabled |-> i - 1 < plat.count]],
                         ioapic |-> U8(plat.count),
                         gsi |-> IF plat.override THEN <<0, 2>> ELSE <<0, 0>>]>>
        /\ UNCHANGED <<plat, mp, ssdt, srat, smbios>>

\* build_hpet
BuildHpet == \E built \in BOOLEAN :
                /\ Building("hpet") /\ AcpiInitTable("HPET", built)
                /\ UNCHANGED <<plat, mp, madt, ssdt, srat, smbios>>

SratMemory(base, len, node) == [base |-> base, len |-> len, node |-> node]

\* Mutation of SratNode: what the hole displaces is put where it would have been.
SratNodeUncut(s, i) ==
    LET base == s.next
        len == plat.nodes[i] - (IF i = 1 THEN HighStart ELSE 0)
    IN  [mem |-> Append(s.mem, SratMemory(base, len, i)), next |-> base + len]

\* build_srat: the memory of one node, with the hole below 4 GB cut out.
SratNode(s, i) ==
    LET base == s.next
        len == plat.nodes[i] - (IF i = 1 THEN HighStart ELSE 0)
        next == base + len
        cut == base <= plat.ram /\ next > plat.ram
        below == len - (next - plat.ram)
        first == IF below > 0 THEN <<SratMemory(base, below, i)>> ELSE <<>>
    IN  IF cut THEN [mem |-> s.mem \o first \o <<SratMemory(FourGig, next - plat.ram, i)>>,
                     next |-> next + FourGig - plat.ram]
        ELSE [mem |-> Append(s.mem, SratMemory(base, len, i)), next |-> next]

\* build_srat: no table for a machine without nodes.
BuildSrat ==
    \E built \in BOOLEAN :
        /\ Building("srat") /\ AcpiInitTable("SRAT", built /\ plat.nodes # <<>>)
        /\ srat' = IF ~built \/ plat.nodes = <<>> THEN None
                   ELSE <<[cpus |-> [i \in 1..plat.max |-> [apicid |-> U8(i - 1), enabled |-> i - 1 < plat.count]],
                         slots |-> Len(plat.nodes) + 2,
                         mem |-> FoldLeft(SratNode, [mem |-> <<SratMemory(0, Low640K, 1)>>, next |-> HighStart],
                                          [i \in 1..Len(plat.nodes) |-> i]).mem]>>
        /\ UNCHANGED <<plat, mp, madt, ssdt, smbios>>

\* acpi_bios_init: the tables given to the emulator, until there is no room.  A
\* table that cannot be allocated is not read either: what is taken for the
\* length of the next one is its contents, and garbage follows.
AddExternal ==
    LET room == MaxAcpiTables - Len(tables)
        Least(a, b) == IF a < b THEN a ELSE b
    IN  \E ok \in 0..Least(plat.acpi, room) : \E junk \in 0..Least(plat.acpi - ok, room - ok) :
        /\ Building("external")
        /\ junk > 0 => ok + junk < plat.acpi
        /\ tables' = tables \o [i \in 1..ok |-> "external"] \o [i \in 1..junk |-> "garbage"]
        /\ UNCHANGED <<plat, mp, madt, ssdt, srat, smbios>>

\* acpi_bios_init: the root; without it no table is found.
BuildRsdt ==
    \E built \in BOOLEAN :
        /\ Building("rsdt")
        /\ tables' = IF built THEN tables ELSE <<>>
        /\ UNCHANGED <<plat, mp, madt, ssdt, srat, smbios>>

----------------------------------------------------------------------------
\* A structure: where it comes from, its type, which of its type, what memory.
Structure(from, type, index, size) == [from |-> from, type |-> type, index |-> index, size |-> size]
External(type) == Structure("external", type, 0, 0)

\* qemu_cfg_smbios_load_external: all structures of a type, where they fit.
LoadExternal(s, type) ==
    LET given == SelectSeq(plat.smb, LAMBDA t : t = type)
        room == SmbiosTemp - Len(s.structs)
        more == IF Len(given) < room THEN Len(given) ELSE room
    IN  IF type \in s.used THEN [s EXCEPT !.done = TRUE]
        ELSE IF type = 127 \/ more <= 0 THEN [s EXCEPT !.done = FALSE]
        ELSE [s EXCEPT !.structs = @ \o [i \in 1..more |-> External(type)],
                       !.used = @ \cup {type}, !.done = TRUE]

\* add_struct of smbios_init, with the smbios_init_type_* of the structure
AddStruct(s, struct) ==
    LET t == LoadExternal(s, struct.type)
    IN  IF t.done THEN t ELSE [t EXCEPT !.structs = Append(@, struct)]

\* smbios_init: all of memory, and the devices it is reported as.
MemSize == IF plat.over > 0 THEN plat.over + FourGig ELSE plat.ram
MemDevs == (MemSize + DeviceMax - 1) \div DeviceMax

DevMemSize(i) == IF i = MemDevs - 1 THEN ((MemSize - 1) % DeviceMax) + 1 ELSE DeviceMax

\* smbios_init: one structure of type 4 for each processor there may be, and
\* 17, 19 and 20 for each memory device.
SmbiosStructs ==
    LET Built(type, index, size) == Structure("built", type, index, size)
        Device(i) == LET n == (i - 1) \div 3
                     IN  Built(<<17, 19, 20>>[((i - 1) % 3) + 1], n, DevMemSize(n))
    IN  <<Built(0, 0, 0), Built(1, 0, 0), Built(3, 0, 0)>>
          \o [i \in 1..plat.max |-> Built(4, i, 0)]
          \o <<Built(16, MemDevs, MemSize)>>
          \o [i \in 1..(3 * MemDevs) |-> Device(i)]
          \o <<Built(32, 0, 0)>>

\* smbios_init: what is left of the loops, then types only given from outside.
SmbiosStart ==
    /\ todo # <<>> /\ Head(todo) = "smbios"
    /\ \/ /\ todo' = Tail(todo)    \* no room for the temporary table
          /\ UNCHANGED smbios
       \/ /\ todo' = <<"smbios_add">> \o Tail(todo)
          /\ smbios' = [structs |-> <<>>, used |-> {}, done |-> FALSE,
                        build |-> SmbiosStructs, load |-> SetToSortSeq(Range(plat.smb), <)]
    /\ UNCHANGED <<plat, mp, madt, ssdt, srat, tables>>

SmbiosAdd ==
    /\ todo # <<>> /\ Head(todo) = "smbios_add"
    /\ \/ /\ smbios.build # <<>>
          /\ smbios' = [AddStruct(smbios, Head(smbios.build)) EXCEPT !.build = Tail(@)]
          /\ UNCHANGED todo
       \/ /\ smbios.build = <<>> /\ smbios.load # <<>>
          /\ smbios' = [LoadExternal(smbios, Head(smbios.load)) EXCEPT !.load = Tail(@)]
          /\ UNCHANGED todo
       \/ /\ smbios.build = <<>> /\ smbios.load = <<>>
          /\ todo' = Tail(todo)
          \* smbios_entry_point_init may find no room for the table
          /\ smbios' \in {AddStruct(smbios, Structure("built", 127, 0, 0)), NoSmbios}
    /\ UNCHANGED <<plat, mp, madt, ssdt, srat, tables>>

TblNext == \/ MptableInit \/ SmbiosStart \/ SmbiosAdd \/ AcpiBiosInit \/ BuildSsdt \/ BuildMadt \/ BuildHpet
           \/ BuildSrat \/ AddExternal \/ BuildRsdt

TblSpec == TblInit /\ [][TblNext]_tblVars

----------------------------------------------------------------------------
EnabledIds(cpus) == {cpus[i].apicid : i \in {j \in 1..Len(cpus) : cpus[j].enabled}}
Distinct(cpus) == Cardinality({cpus[i].apicid : i \in 1..Len(cpus)}) = Len(cpus)

\* build_madt, build_srat, build_ssdt, mptable_init: the tables name the same
\* processors as running, by distinct ids none of which is the ioapic's, and
\* the length and names in the processor scope are those of its contents.
CpusDescribed ==
    /\ madt # None => /\ Distinct(madt[1].cpus)
                      /\ EnabledIds(madt[1].cpus) = 0..(plat.count - 1)
                      /\ madt[1].ioapic \notin EnabledIds(madt[1].cpus)
    /\ srat # None => Distinct(srat[1].cpus) /\ EnabledIds(srat[1].cpus) = 0..(plat.count - 1)
    /\ mp # None => /\ Distinct(mp[1].cpus)
                    /\ EnabledIds(mp[1].cpus) \subseteq 0..(plat.count - 1)
                    /\ \A i \in 0..(plat.count - 1) : i % plat.ht = 0 => i \in EnabledIds(mp[1].cpus)
    /\ ssdt # None =>
        LET bytes == ssdt[1].pkg
            len == IF bytes[1] < 64 THEN bytes[1] ELSE (bytes[1] % 16) + 16 * bytes[2]
        IN  /\ Len(bytes) = (IF bytes[1] < 64 THEN 1 ELSE 2)
            /\ len = ssdt[1].body + Len(bytes)
            /\ 1 + len <= ssdt[1].alloc
            /\ Cardinality(Range(ssdt[1].names)) = Len(ssdt[1].names)

\* mptable_init, build_madt: every interrupt input has one source; a timer
\* interrupt moved to input 2 leaves nothing else there, in either table.
InputsRouted ==
    mp # None =>
        LET isa == SelectSeq(mp[1].intsrcs, LAMBDA e : e.bus = "ISA")
            pci == SelectSeq(mp[1].intsrcs, LAMBDA e : e.bus = "PCI")
        IN  /\ \A i, j \in 1..Len(isa) : i # j => isa[i].dst # isa[j].dst
            /\ {e.dst : e \in Range(isa)} \cap {e.dst : e \in Range(pci)} = {}
            /\ \A i, j \in 1..Len(pci) : i # j => <<pci[i].dev, pci[i].pin>> # <<pci[j].dev, pci[j].pin>>
            /\ \A d \in Range(plat.pins) : d.pin # 0 => \E e \in Range(pci) : e.dev = d.dev /\ e.pin = d.pin

\* build_srat: the ranges are those of memory, each in one node, in their slots.
SratCoversRam ==
    srat # None =>
        LET mem == srat[1].mem
            Span(r) == r.base .. (r.base + r.len - 1)
        IN  /\ Len(mem) <= srat[1].slots
            /\ \A i, j \in 1..Len(mem) : i # j => Span(mem[i]) \cap Span(mem[j]) = {}
            /\ UNION {Span(r) : r \in Range(mem)}
                 = (0..(Low640K - 1)) \cup (HighStart..(plat.ram - 1)) \cup (FourGig..(FourGig + plat.over - 1))
            /\ \A i \in 1..Len(plat.nodes) : plat.nodes[i] > HighStart => \E r \in Range(mem) : r.node = i

\* smbios_init: a type is built in or given from outside, never both; an end
\* marker comes last, and only there; the memory devices built in make up the
\* memory, and their mapped addresses cover it without overlap.
SmbiosWhole ==
    LET structs == smbios.structs
        Of(from, type) == SelectSeq(structs, LAMBDA x : x.from = from /\ x.type = type)
        Span(d) == (d.index * DeviceMax)..(d.index * DeviceMax + d.size - 1)
    IN  structs # <<>> /\ (\A i \in 1..Len(todo) : todo[i] # "smbios_add") =>
        /\ \A type \in {0, 1, 3, 4, 16, 17, 19, 20, 32} :
              (Of("built", type) = <<>>) # (Of("external", type) = <<>>)
        /\ \A type \in Range(plat.smb) :
              Len(Of("external", type)) <= Cardinality({i \in 1..Len(plat.smb) : plat.smb[i] = type})
        /\ \A i \in 1..Len(structs) : (structs[i].type = 127) <=> (i = Len(structs))
        /\ \A type \in {17, 19, 20} :
              LET devs == Of("built", type)
              IN  devs # <<>> =>
                    /\ UNION {Span(d) : d \in Range(devs)} = 0..(MemSize - 1)
                    /\ \A i, j \in 1..Len(devs) : i # j => Span(devs[i]) \cap Span(devs[j]) = {}
                    /\ \A d \in Range(Of("built", 16)) : d.index = Len(devs)

\* mptable.c, acpi.c and smbios.c: the tables agree with the machine and with
\* each other on processors, interrupts and memory.
TablesTrue == CpusDescribed /\ InputsRouted /\ SratCoversRam /\ SmbiosWhole
============================================================================
