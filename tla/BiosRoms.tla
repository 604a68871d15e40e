------------------------------ MODULE BiosRoms ------------------------------
(***************************************************************************)
(* Option roms and shadow memory of the system BIOS (bios/seabios:         *)
(* optionroms.c, shadow.c, the rom files of paravirt.c, s3_resume of       *)
(* resume.c).  Roms are copied one behind the other into the area below    *)
(* the BIOS, run, and entered in the boot tables; the area is then write-  *)
(* protected in halves of 16 kilobyte.  Sizes are in blocks of 512 bytes;  *)
(* the code's alignment and halves are constants.                          *)
(***************************************************************************)
EXTENDS Naturals, Sequences, FiniteSets, SequencesExt

CONSTANTS RomStart,    \* BUILD_ROM_START
          BiosStart,   \* BUILD_BIOS_ADDR
          MaxRom,      \* max_rom()
          Wrap,        \* 2^32, the width of max_rom() - RomEnd
          RomAlign,    \* OPTION_ROM_ALIGN
          Half,        \* 16 kilobytes, half of a shadow register
          RomKinds,    \* [size, shrink, valid, pnp, bev, bcvs] of the roms offered
          MaxRoms,     \* bound on the roms offered
          TableMax     \* ARRAY_SIZE of IPL.bev and IPL.bcv

VARIABLES romStage, \* "vga", "scan", "build", "prep", "run", "asleep"
          romEnd,   \* RomEnd
          roms,     \* the roms copied, as a sequence of [pos, rom]
          postVga,  \* where the roms after the vga rom start
          ran,      \* positions of the roms whose init vector was called
          bev, bcv, \* what optionrom_setup added to the IPL tables
          locked,   \* the halves the shadow registers write-protect
          offered   \* roms offered so far

romVars == <<romStage, romEnd, roms, postVga, ran, bev, bcv, locked, offered>>

RomUp(x) == ((x + RomAlign - 1) \div RomAlign) * RomAlign
Halves == {RomStart + i * Half : i \in 0..(BiosStart - RomStart) \div Half - 1}

\* make_bios_writable.
RomInit == /\ romStage = "vga"
           /\ romEnd = RomStart
           /\ roms = <<>>
           /\ postVga = 0
           /\ ran = {}
           /\ bev = <<>> /\ bcv = <<>>
           /\ locked = {}
           /\ offered = 0

\* copy_rom, and qemu_cfg_read_file, whose limit is an unsigned difference.
CopyFits(r) == romEnd + r.size <= MaxRom
FileFits(r) == r.size <= (MaxRom + Wrap - romEnd) % Wrap

\* init_optionrom on a copy at RomEnd.  A rom may shrink itself when it runs;
\* a rom that is not valid is left to be overwritten by the next.
InitOptionrom(r, isvga) ==
    IF ~r.valid THEN UNCHANGED <<romEnd, roms, ran>>
    ELSE LET called == isvga \/ r.pnp
             size == IF called THEN r.size - r.shrink ELSE r.size
         IN  /\ roms' = Append(roms, [pos |-> romEnd, rom |-> [r EXCEPT !.size = size]])
             /\ ran' = IF called THEN ran \cup {romEnd} ELSE ran
             /\ romEnd' = romEnd + RomUp(size)

\* init_pcirom and run_qemu_roms: one more rom of a device or of a file.
Deploy(r, pci) ==
    /\ romStage \in {"vga", "scan"} /\ offered < MaxRoms
    /\ IF (IF pci THEN CopyFits(r) ELSE FileFits(r))
       THEN InitOptionrom(r, romStage = "vga")
       ELSE UNCHANGED <<romEnd, roms, ran>>
    /\ offered' = offered + 1
    /\ UNCHANGED <<romStage, postVga, bev, bcv, locked>>

\* The end of vga_setup: without a vga rom its place is kept free.
VgaDone ==
    /\ romStage = "vga"
    /\ romEnd' = IF romEnd = RomStart THEN romEnd + RomAlign ELSE romEnd
    /\ postVga' = romEnd'
    /\ romStage' = "scan"
    /\ UNCHANGED <<roms, ran, bev, bcv, locked, offered>>

\* add_bev and add_bcv: nothing is added to a full table.
AddRoms(table, entries) ==
    table \o SubSeq(entries, 1, IF Len(table) >= TableMax THEN 0
                                ELSE IF Len(entries) < TableMax - Len(table) THEN Len(entries)
                                ELSE TableMax - Len(table))

\* The vectors optionrom_setup finds in a rom.
BevsOf(p) == IF p.rom.pnp /\ p.rom.bev THEN <<p.pos>> ELSE <<>>
BcvsOf(p) == IF ~p.rom.pnp THEN <<p.pos>>
             ELSE IF p.rom.bev THEN <<>>
             ELSE [i \in 1..p.rom.bcvs |-> p.pos]

\* The second half of optionrom_setup.
BuildVectors ==
    LET found == SelectSeq(roms, LAMBDA p : p.pos >= postVga)
    IN  /\ romStage = "scan"
        /\ bev' = FoldLeft(LAMBDA t, p : AddRoms(t, BevsOf(p)), bev, found)
        /\ bcv' = FoldLeft(LAMBDA t, p : AddRoms(t, BcvsOf(p)), bcv, found)
        /\ romStage' = "prep"
        /\ UNCHANGED <<romEnd, roms, postVga, ran, locked, offered>>

\* Mutation of LockedBelow: the last register is always protected by half.
LockedBelowHalf(end) ==
    {h \in Halves : \E i \in 0..5 : /\ h = RomStart + 2 * i * Half
                                    /\ h < end}

\* make_bios_readonly: register i covers two halves.
LockedBelow(end) ==
    LET mem(i) == RomStart + 2 * i * Half
        last == CHOOSE i \in 0..6 : /\ i = 6 \/ end <= mem(i) + Half
                                    /\ \A j \in 0..i - 1 : end > mem(j) + Half
    IN  {h \in Halves : \/ h < mem(last)
                        \/ h = mem(last) /\ end > mem(last)}

\* boot_prep calls the legacy roms' vectors; then the memory is locked.
RomsPrep == /\ romStage = "prep"
            /\ ran' = ran \cup Range(bcv)
            /\ locked' = LockedBelow(romEnd)
            /\ romStage' = "run"
            /\ UNCHANGED <<romEnd, roms, postVga, bev, bcv, offered>>

\* A suspend to memory, and s3_resume: the vga rom runs with memory open.
Suspend == /\ romStage = "run"
           /\ locked' = {}
           /\ romStage' = "asleep"
           /\ UNCHANGED <<romEnd, roms, postVga, ran, bev, bcv, offered>>
S3Resume == /\ romStage = "asleep"
            /\ locked' = LockedBelow(romEnd)
            /\ romStage' = "run"
            /\ UNCHANGED <<romEnd, roms, postVga, ran, bev, bcv, offered>>

RomNext == \/ \E r \in RomKinds, pci \in BOOLEAN : Deploy(r, pci)
           \/ VgaDone \/ BuildVectors \/ RomsPrep \/ Suspend \/ S3Resume

RomSpec == RomInit /\ [][RomNext]_romVars

----------------------------------------------------------------------------
RomBlocks(p) == p.pos..p.pos + p.rom.size - 1

\* optionroms.c: whichever roms devices and files offer, and however they
\* shrink, no rom overlaps another or reaches past max_rom.
RomsFit == \A i \in 1..Len(roms) :
    /\ \A b \in RomBlocks(roms[i]) : RomStart <= b /\ b < MaxRom
    /\ \A j \in 1..i - 1 : RomBlocks(roms[i]) \cap RomBlocks(roms[j]) = {}

\* shadow.c: once the system runs, also after a resume, every block of a rom is
\* write-protected, and memory from the next half on is not.
RomsLocked == romStage = "run" =>
    /\ \A i \in 1..Len(roms) : \A b \in RomBlocks(roms[i]) :
          \E h \in locked : h <= b /\ b < h + Half
    /\ \A h \in locked : h < romEnd + Half

\* optionrom_setup: while the tables have room, every rom after the vga rom can
\* be booted or was run, and no table grows past its end.
RomsReachable == romStage = "run" =>
    /\ Len(bev) <= TableMax /\ Len(bcv) <= TableMax
    /\ \A i \in 1..Len(roms) : roms[i].pos \in ran \cup Range(bev) \/ Len(bcv) = TableMax

\* optionrom_setup and shadow.c: roms are deployed apart from each other, can be
\* started, and are write-protected while the system runs.
RomsInstalled == RomsFit /\ RomsLocked /\ RomsReachable
============================================================================
