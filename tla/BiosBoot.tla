------------------------------ MODULE BiosBoot ------------------------------
(***************************************************************************)
(* Boot devices of the system BIOS (bios/seabios/src/boot.c): the tables   *)
(* of devices, filled while drives are detected by threads in any order,   *)
(* the boot menu, and the attempts to boot by int 19h and int 18h.         *)
(***************************************************************************)
EXTENDS Naturals, Sequences, FiniteSets, SequencesExt

CONSTANTS BootDrives,   \* the hard drives, as <<type, cntl_id>>
          Floppies,     \* how many floppy drives there are
          BcvMax,       \* ARRAY_SIZE(IPL.bcv)
          ExternalBcvs, \* how many entries option roms add to the bcv table
          Bevs,         \* how many entries option roms add to the bev table
          Cds,          \* how many cd drives there are
          Nibbles,      \* device numbers the nvram may put in the boot order
          MaxBoots      \* bound on int 18h and int 19h

VARIABLES bootStage, \* "detect", "menu", "ready", "try", "os", "halt"
          bcvTable,  \* IPL.bcv
          bootOrder, \* IPL.bootorder: eight nibbles, the first is tried first
          subchoice, \* IPL.bev[i].subchoice of floppy (1), disk (2) and cd (3)
          floppyMap, \* Drives.idmap[EXTTYPE_FLOPPY]
          hdMap,     \* what run_bcv mapped or called, in order
          bootSeq,   \* boot_sequence in the EBDA
          tried,     \* the devices tried since int 19h (history)
          boots      \* attempts so far

bootVars == <<bootStage, bcvTable, bootOrder, subchoice, floppyMap, hdMap, bootSeq,
              tried, boots>>

BevCount == 3 + Bevs
Internal(d) == <<"internal", d>>
ExternalBcv(i) == <<"external", i>>

\* boot_setup: bootorder has three nibbles from the nvram.
BootInit == /\ bootStage = "detect"
            /\ bcvTable = <<>>
            /\ bootOrder \in {<<a, b, c, 0, 0, 0, 0, 0>> : a, b, c \in Nibbles}
            /\ subchoice = <<0, 0, 0>>
            /\ floppyMap = [i \in 1..Floppies |-> i]
            /\ hdMap = <<>>
            /\ bootSeq = 65535
            /\ tried = <<>>
            /\ boots = 0

Before(d, e) == d[1] < e[1] \/ (d[1] = e[1] /\ d[2] < e[2])

\* add_bcv_internal: move up past the internal drives that belong behind.
InsertDrive(t, d) ==
    LET stay == {i \in 1..Len(t) : t[i][1] # "internal" \/ Before(t[i][2], d)}
        pos == CHOOSE p \in 1..Len(t) + 1 : /\ \A i \in p..Len(t) : i \notin stay
                                            /\ p > 1 => p - 1 \in stay
    IN  InsertAt(t, pos, Internal(d))

AddBcvInternal(d) ==
    /\ bootStage = "detect"
    /\ \A i \in 1..Len(bcvTable) : bcvTable[i] # Internal(d)
    /\ bcvTable' = IF Len(bcvTable) >= BcvMax THEN bcvTable ELSE InsertDrive(bcvTable, d)
    /\ UNCHANGED <<bootStage, bootOrder, subchoice, floppyMap, hdMap, bootSeq, tried, boots>>

\* wait_threads, then add_bcv for the option roms.
AddBcvs ==
    LET room == BcvMax - Len(bcvTable)
        n == IF ExternalBcvs < room THEN ExternalBcvs ELSE room
    IN  /\ bootStage = "detect"
        /\ Len(bcvTable) = Cardinality(BootDrives) \/ Len(bcvTable) = BcvMax
        /\ bcvTable' = bcvTable \o [i \in 1..n |-> ExternalBcv(i)]
        /\ bootStage' = "menu"
        /\ UNCHANGED <<bootOrder, subchoice, floppyMap, hdMap, bootSeq, tried, boots>>

\* How many lines of the menu each device of the bev table takes.
SubCount(i) == CASE i = 1 -> Floppies [] i = 2 -> Len(bcvTable) [] i = 3 -> Cds
                 [] OTHER -> 1
LinesUpTo(i) == IF i = 0 THEN 0 ELSE FoldLeft(LAMBDA n, j : n + SubCount(j), 0,
                                              [j \in 1..i |-> j])

\* interactive_bootmenu: which device a line of the menu is for, and which of
\* that device's drives.
Chosen(line) ==
    LET dev == CHOOSE i \in 1..BevCount : LinesUpTo(i - 1) < line /\ line <= LinesUpTo(i)
    IN  <<dev, line - LinesUpTo(dev - 1) - 1>>

\* boot_prep without (line = 0) and with a choice in the menu.
RunBcvs(first) ==
    LET n == Len(bcvTable)
        rest == SelectSeq([i \in 1..n |-> i], LAMBDA i : i # first + 1)
    IN  [k \in 1..n |-> bcvTable[IF first < n THEN (IF k = 1 THEN first + 1 ELSE rest[k - 1])
                                 ELSE k]]
BootPrep(line) ==
    LET c == Chosen(line)
        sub == IF line = 0 \/ c[1] > 3 THEN subchoice ELSE [subchoice EXCEPT ![c[1]] = c[2]]
    IN  /\ bootStage = "menu"
        /\ subchoice' = sub
        /\ bootOrder' = IF line = 0 THEN bootOrder
                        ELSE [i \in 1..8 |-> IF i = 1 THEN c[1] ELSE bootOrder[i - 1]]
        /\ floppyMap' = IF Floppies = 0 THEN floppyMap
                        ELSE [floppyMap EXCEPT ![1] = floppyMap[sub[1] + 1],
                                               ![sub[1] + 1] = floppyMap[1]]
        /\ hdMap' = RunBcvs(sub[2])
        /\ bootStage' = "ready"
        /\ UNCHANGED <<bcvTable, bootSeq, tried, boots>>

\* Mutation of DoBoot: the number of the device is not translated.
DoBootUntranslated(seq) ==
    LET dev == bootOrder[(seq % 8) + 1]
    IN  /\ tried' = IF seq = 0 THEN <<dev + 1>> ELSE Append(tried, dev + 1)
        /\ bootStage' = IF dev >= BevCount THEN "halt" ELSE "try"

\* do_boot: a shift by 4 * seq of 32 bits; no device left means looping.
DoBoot(seq) ==
    LET dev == bootOrder[(seq % 8) + 1]
        done == IF seq = 0 THEN <<>> ELSE tried
    IN  IF dev = 0 \/ dev > BevCount THEN bootStage' = "halt" /\ tried' = done
        ELSE bootStage' = "try" /\ tried' = Append(done, dev)

\* handle_19, from _start or from the system that was booted.
Handle19 == /\ bootStage \in {"ready", "os"} /\ boots < MaxBoots
            /\ bootSeq' = 0
            /\ DoBoot(0)
            /\ boots' = boots + 1
            /\ UNCHANGED <<bcvTable, bootOrder, subchoice, floppyMap, hdMap>>

\* boot_disk, boot_cdrom or a BEV succeeds, or fails and calls int 18h; the
\* system that was booted may give up by int 18h as well.
BootOk == /\ bootStage = "try"
          /\ bootStage' = "os"
          /\ UNCHANGED <<bcvTable, bootOrder, subchoice, floppyMap, hdMap, bootSeq, tried, boots>>
Handle18 == /\ bootStage \in {"try", "os"} /\ boots < MaxBoots
            /\ bootSeq' = (bootSeq + 1) % 65536
            /\ DoBoot(bootSeq')
            /\ boots' = boots + 1
            /\ UNCHANGED <<bcvTable, bootOrder, subchoice, floppyMap, hdMap>>

BootNext == \/ \E d \in BootDrives : AddBcvInternal(d)
            \/ AddBcvs
            \/ \E line \in 0..LinesUpTo(BevCount) : BootPrep(line)
            \/ Handle19 \/ BootOk \/ Handle18

BootSpec == BootInit /\ [][BootNext]_bootVars

----------------------------------------------------------------------------
\* add_bcv_internal: threads find the drives in any order, and yet the table
\* has them by controller type and number, before the option roms' entries.
DrivesSorted == \A i, j \in 1..Len(bcvTable) :
    i < j /\ bcvTable[j][1] = "internal" =>
        bcvTable[i][1] = "internal" /\ Before(bcvTable[i][2], bcvTable[j][2])

\* boot_prep: the drive picked in the menu becomes the first of its kind and is
\* tried first; every entry of the table is still run once.
ChoiceHonoured == bootStage \notin {"detect", "menu"} =>
    /\ Len(hdMap) = Len(bcvTable) /\ Range(hdMap) = Range(bcvTable)
    /\ bcvTable # <<>> => hdMap[1] = bcvTable[subchoice[2] + 1]
    /\ Floppies > 0 => floppyMap[1] = subchoice[1] + 1 /\ Range(floppyMap) = 1..Floppies
    /\ subchoice[3] = 0 \/ subchoice[3] < Cds

\* handle_18 and handle_19: since int 19h the devices were tried in the boot
\* order, each entry once, and never past a missing entry back to the first.
OrderFollowed == /\ tried = SubSeq(bootOrder, 1, Len(tried))
                 /\ Len(tried) <= 4
                 /\ bootStage = "halt" => bootOrder[Len(tried) + 1] \notin 1..BevCount

\* boot.c: the drives are listed in a fixed order, the menu's choice comes first,
\* and int 18h and 19h go through the boot order.
BootsInOrder == DrivesSorted /\ ChoiceHonoured /\ OrderFollowed
============================================================================
