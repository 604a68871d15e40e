----------------------------- MODULE MCBiosPost -----------------------------
(***************************************************************************)
(* The power-on self test of the system BIOS.  The modules of its steps    *)
(* share no variable: a behaviour runs one of them, the others stay in one *)
(* of their initial states.                                                *)
(***************************************************************************)
EXTENDS BiosMemory, BiosSmp, BiosRoms, BiosBoot, BiosPci, BiosTables, BiosEhci

CONSTANT Parts
VARIABLE part

AnyOf(S) == CHOOSE x \in S : TRUE

ehciVars == <<hostVars, portVars, bellVars>>

----------------------------------------------------------------------------
\* What qemu, when it is there, reports of memory: ranges that split, join and
\* replace those there are, more than the map has room for.
MCCfgLists ==
    {<< <<90, 6, "RESERVED">>, <<84, 10, "RAM">>, <<60, 2, "RESERVED">>, <<62, 2, "RESERVED">>,
        <<70, 40, "RAM">>, <<96, 1, "HOLE">> >> \o [i \in 1..8 |-> <<106 + 2 * i, 1, "RESERVED">>]}

\* Option roms: of one block, with a hole behind them, of more than a third of
\* the space; some shrink when they run.
MCRomKinds ==
    {[size |-> s, shrink |-> k, valid |-> v, pnp |-> b # "none", bev |-> b = "bev", bcvs |-> IF b = "bcv" THEN 1 ELSE 0] :
        s \in {1, 6, 17}, k \in {0, 1}, v \in {TRUE}, b \in {"none", "bev", "bcv"}}
    \cup {[size |-> 6, shrink |-> 0, valid |-> FALSE, pnp |-> FALSE, bev |-> FALSE, bcvs |-> 0]}

MCDrives == {<<1, 0>>, <<1, 1>>, <<2, 0>>}

\* Four PCI functions, two of them of one device.
MCLegacyPorts == <<1, 2, 3, 4>>
MCFn(m, k, b, p) == [multi |-> m, kind |-> k, active |-> FALSE, bars |-> b, pin |-> p]
MCBar(io, size) == [io |-> io, size |-> size]
MCFns == {MCFn(m, k, <<MCBar(TRUE, 4), MCBar(FALSE, 8)>>, 1) : m \in BOOLEAN, k \in {"ide", "vga", "nic", "pm"}}
         \cup {MCFn(FALSE, "nic", <<MCBar(FALSE, 2), MCBar(FALSE, 8), MCBar(TRUE, 2)>>, 2)}
MCLayouts == {[b \in {0, 8, 9, 17} |-> IF b = 0 THEN x ELSE IF b = 8 THEN y ELSE z] :
                 x \in MCFns, y \in {f \in MCFns : f.kind # "ide"},
                 z \in {MCFn(FALSE, "vga", <<MCBar(FALSE, 4)>>, 3), MCFn(FALSE, "nic", <<MCBar(TRUE, 8)>>, 4)}}

\* Platforms: processors that answered and that there may be, NUMA nodes whose
\* memory ends below, at and above the hole, tables given from outside.
MCPin(d, p, i) == [dev |-> d, pin |-> p, irq |-> i]
MCPins == <<MCPin(1, 1, 10), MCPin(1, 1, 10), MCPin(2, 0, 0), MCPin(3, 1, 11), MCPin(3, 2, 9)>>
MCPlatform(count, ht, override, memory, smb, acpi) ==
    [count |-> count[1], max |-> count[2], ht |-> ht, pins |-> MCPins, override |-> override,
     nodes |-> memory[1], ram |-> memory[2], over |-> memory[3], smb |-> smb, acpi |-> acpi]
MCCounts == {<<1, 1>>, <<5, 5>>, <<3, 8>>, <<16, 17>>}
MCMemories == {<<<<>>, 24, 0>>, <<<<24>>, 24, 0>>, <<<<40>>, 24, 16>>, <<<<12, 12, 16>>, 24, 16>>,
               <<<<12, 20, 8>>, 24, 16>>, <<<<24, 16>>, 24, 16>>}
MCPlatforms == {MCPlatform(n, h, h = 1, <<<<40>>, 24, 16>>, <<>>, 0) : n \in MCCounts, h \in {1, 2}}
               \cup {MCPlatform(<<255, 255>>, 1, TRUE, <<<<>>, 24, 0>>, <<4, 4>>, 0)}
               \cup {MCPlatform(<<4, 4>>, 1, FALSE, m, <<4, 1, 4, 127, 99, 99>>, 0) : m \in MCMemories}
               \cup {MCPlatform(<<2, 2>>, 1, TRUE, <<<<24>>, 24, 0>>, <<>>, 9)}

\* PCI functions that share slots in different ways, each of any class.
MCMachines == {[i \in 1..4 |-> [slot |-> s[i], class |-> c[i]]] :
                  s \in {<<1, 1, 2, 2>>, <<1, 1, 1, 2>>, <<1, 2, 2, 3>>, <<1, 1, 1, 1>>},
                  c \in [1..4 -> {"uhci", "ohci", "ehci", "other"}]}

----------------------------------------------------------------------------
PostInit ==
    /\ part \in Parts
    /\ part = "memory" \/ qemuCfgPresent = TRUE
    /\ part = "boot" \/ bootOrder = [i \in 1..8 |-> 0]
    /\ part = "pci" \/ devs = AnyOf(PciLayouts)
    /\ part = "tables" \/ plat = AnyOf(Platforms)
    /\ part = "host" \/ (machine = AnyOf(Machines) /\ wide = {})
    /\ part = "ports" \/ plug = AnyOf([EhciPorts -> PortKinds])
    /\ MemInit /\ SmpInit /\ RomInit /\ BootInit /\ PciInit /\ TblInit
    /\ HostInit /\ PortInit /\ BellInit

PostNext ==
    /\ UNCHANGED part
    /\ \/ part = "memory" /\ MemNext /\ UNCHANGED <<smpVars, romVars, bootVars, pciVars, tblVars, ehciVars>>
       \/ part = "smp" /\ SmpNext /\ UNCHANGED <<memVars, romVars, bootVars, pciVars, tblVars, ehciVars>>
       \/ part = "roms" /\ RomNext /\ UNCHANGED <<memVars, smpVars, bootVars, pciVars, tblVars, ehciVars>>
       \/ part = "boot" /\ BootNext /\ UNCHANGED <<memVars, smpVars, romVars, pciVars, tblVars, ehciVars>>
       \/ part = "pci" /\ PciNext /\ UNCHANGED <<memVars, smpVars, romVars, bootVars, tblVars, ehciVars>>
       \/ part = "tables" /\ TblNext /\ UNCHANGED <<memVars, smpVars, romVars, bootVars, pciVars, ehciVars>>
       \/ /\ part \in {"host", "ports", "bell"} /\ UNCHANGED <<memVars, smpVars, romVars, bootVars, pciVars, tblVars>>
          /\ \/ part = "host" /\ HostNext /\ UNCHANGED <<portVars, bellVars>>
             \/ part = "ports" /\ PortNext /\ UNCHANGED <<hostVars, bellVars>>
             \/ part = "bell" /\ BellNext /\ UNCHANGED <<hostVars, portVars>>

postVars == <<part, memVars, smpVars, romVars, bootVars, pciVars, tblVars, ehciVars>>
PostSpec == PostInit /\ [][PostNext]_postVars
=============================================================================
