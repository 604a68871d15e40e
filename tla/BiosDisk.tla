------------------------------- MODULE BiosDisk -------------------------------
(***************************************************************************)
(* Drives and INT 13h of the system BIOS: drive maps and geometry          *)
(* (bios/seabios/src/block.c), the disk services (disk.c) and booting from *)
(* a CD with an emulated floppy or hard drive (cdrom.c).  Drive numbers    *)
(* start at HdStart for hard drives and at CdStart for CDs; a sector is    *)
(* its number, and a CD block holds four sectors.                          *)
(***************************************************************************)
EXTENDS Naturals, Sequences, SequencesExt, FiniteSets

CONSTANTS DriveSets,    \* sets of drives [kind, type, id, geo] a machine may have
          MaxDrives,    \* BUILD_MAX_EXTDRIVE
          HdStart, CdStart,
          CdImages,     \* [media, lba, chs] of the boot images a CD may carry
          Counts, LbaSet, ChsSet, MaxCalls

VARIABLES idmap,    \* Drives.idmap: per kind, the drives by number
          hdcount,  \* of the BDA
          cdemu,    \* the emulated drive
          cdLocks,    \* cdrom_locks
          status,   \* floppy_last_status and disk_last_status
          intFlag,  \* disk_interrupt_flag
          buffer,   \* sectors the last read put in the caller's buffer
          reply,    \* registers of the last call
          left,     \* drives still to be found
          booted,   \* POST is over
          calls     \* bounded

dskVars == <<idmap, hdcount, cdemu, cdLocks, status, intFlag, buffer, reply, left, booted, calls>>

Kinds == {"floppy", "hd", "cd"}
NoEmu == [active |-> FALSE, ext |-> 0, drive |-> <<>>, media |-> 0, ilba |-> 0, chs |-> <<0, 0, 0>>]
NoReply == [fn |-> "none", status |-> "none"]

DskInit == /\ idmap = [k \in Kinds |-> <<>>] /\ hdcount = 0
           /\ cdemu = NoEmu /\ cdLocks = [i \in 0..(MaxDrives - 1) |-> 0]
           /\ status = [floppy |-> "SUCCESS", disk |-> "SUCCESS"] /\ intFlag = FALSE
           /\ buffer = <<>> /\ reply = NoReply
           /\ left \in DriveSets /\ booted = FALSE /\ calls = 0

----------------------------------------------------------------------------
\* Geometry, in the code's own numbers.
MinOf(a, b) == IF a < b THEN a ELSE b

\* get_translation's heuristic; an ATA drive is told by CMOS (geo.trans).
GetTranslation(g) ==
    IF g.trans # "guess" THEN g.trans
    ELSE IF g.c * g.h * g.s = 0 \/ g.c * g.h * g.s > g.sectors THEN "lba"
    ELSE IF g.c <= 1024 /\ g.h <= 16 /\ g.s <= 63 THEN "none"
    ELSE IF g.c * g.h <= 131072 THEN "large" ELSE "lba"

\* TRANSLATION_LARGE: halve the cylinders until they fit or the heads are many.
Large[c \in 0..65535, h \in 0..1024] ==
    IF c <= 1024 THEN <<c, h>>
    ELSE IF 2 * h > 127 THEN <<c \div 2, 2 * h>> ELSE Large[c \div 2, 2 * h]

\* TRANSLATION_LBA: heads for a number of 63-sector tracks.
LbaHeads(tracks) == LET h == tracks \div 1024
                    IN  IF h > 128 THEN 255 ELSE IF h > 64 THEN 128 ELSE IF h > 32 THEN 64
                        ELSE IF h > 16 THEN 32 ELSE 16

\* TRANSLATION_RECHS: 16 heads become 15, "Take care not to overflow".
Rechs(c, h) == IF h = 16 THEN <<(MinOf(c, 61439) * 16) \div 15, 15>> ELSE <<c, h>>

\* setup_translation: logical cylinders, heads and sectors.
Lchs(g) ==
    LET t == GetTranslation(g)
        tracks == g.sectors \div 63
        r == Rechs(g.c, g.h)
        ch == IF t = "lba" THEN IF g.sectors > 63 * 255 * 1024 THEN <<1024, 255>>
                                ELSE <<tracks \div LbaHeads(tracks), LbaHeads(tracks)>>
              ELSE IF t = "large" THEN Large[g.c, g.h]
              ELSE IF t = "rechs" THEN Large[r[1], r[2]]
              ELSE <<g.c, g.h>>
    IN  <<MinOf(ch[1], 1024), ch[2], IF t = "lba" THEN 63 ELSE g.s>>

----------------------------------------------------------------------------
\* Drive maps.

Before(a, b) == a.type < b.type \/ (a.type = b.type /\ a.id < b.id)

\* add_ordered_drive: shift the drives that come after the new one.
AddOrdered(map, d) ==
    LET n == Cardinality({i \in 1..Len(map) : \A j \in i..Len(map) : ~Before(map[j], d)})
    IN  IF Len(map) >= MaxDrives THEN map
        ELSE SubSeq(map, 1, Len(map) - n) \o <<d>> \o SubSeq(map, Len(map) - n + 1, Len(map))

\* A driver thread finds a drive: map_cd_drive, map_floppy_drive, and
\* map_hd_drive (whose order BiosBoot decides).
MapDrive(d) ==
    /\ ~booted /\ d \in left
    /\ left' = left \ {d}
    /\ LET e == [kind |-> d.kind, type |-> d.type, id |-> d.id,
                 sectors |-> d.geo.sectors, lchs |-> Lchs(d.geo)]
       IN  idmap' = [idmap EXCEPT ![d.kind] = IF d.kind # "hd" THEN AddOrdered(@, e)
                                              ELSE IF hdcount >= MaxDrives THEN @ ELSE Append(@, e)]
    /\ hdcount' = IF d.kind = "hd" /\ hdcount < MaxDrives THEN hdcount + 1 ELSE hdcount
    /\ UNCHANGED <<cdemu, cdLocks, status, intFlag, buffer, reply, booted, calls>>

\* cdrom_boot: the catalog is read, the image loaded, the emulation set up.
\* Any of its reads may fail; what is already set stays.
CdromBoot(cdid, image, ok) ==
    LET drive == idmap["cd"][cdid + 1]
        base == [cdemu EXCEPT !.media = image.media, !.drive = <<drive>>, !.ilba = image.lba]
    IN  /\ ~booted /\ left = {} /\ cdid < Len(idmap["cd"]) /\ calls < MaxCalls
        /\ calls' = calls + 1
        /\ cdemu' = IF ~ok THEN base
                    ELSE IF image.media = 0 THEN [base EXCEPT !.ext = CdStart + cdid]
                    ELSE [base EXCEPT !.active = TRUE, !.chs = image.chs,
                                      !.ext = IF image.media < 4 THEN 0 ELSE HdStart]
        /\ hdcount' = IF ok /\ image.media >= 4 THEN hdcount + 1 ELSE hdcount
        /\ booted' = ok
        /\ UNCHANGED <<idmap, cdLocks, status, intFlag, buffer, reply, left>>

\* No CD: the system starts from another drive.
OtherBoot == /\ ~booted /\ left = {}
             /\ booted' = TRUE
             /\ UNCHANGED <<idmap, hdcount, cdemu, cdLocks, status, intFlag, buffer, reply, left, calls>>

----------------------------------------------------------------------------
\* INT 13h.

KindOf(ext) == IF ext < HdStart THEN "floppy" ELSE IF ext < CdStart THEN "hd" ELSE "cd"
StartOf(kind) == [floppy |-> 0, hd |-> HdStart, cd |-> CdStart][kind]

\* getDrive
GetDrive(ext) == LET k == KindOf(ext) off == ext - StartOf(k)
                 IN  IF off < Len(idmap[k]) THEN <<idmap[k][off + 1]>> ELSE <<>>

\* handle_13: the emulated drive, or the number adjusted to make room for it.
Shifted(dl) == IF cdemu.active /\ dl < CdStart /\ KindOf(cdemu.ext) = KindOf(dl) THEN dl - 1 ELSE dl
Emulated(dl) == cdemu.active /\ dl = cdemu.ext
EmuDrive == [kind |-> "emu", type |-> 0, id |-> 0, sectors |-> 0, lchs |-> <<0, 0, 0>>]
Resolve(dl) == IF Emulated(dl) THEN <<EmuDrive>> ELSE GetDrive(Shifted(dl))

\* disk_ret: the status is kept for the group of the drive number called.
DiskRet(fn, dl, st, al) ==
    /\ status' = IF dl < HdStart THEN [status EXCEPT !.floppy = st] ELSE [status EXCEPT !.disk = st]
    /\ reply' = [fn |-> fn, dl |-> dl, status |-> st, al |-> al]

\* A call starts: its drive is found, the completion flag is cleared (disk_13).
Call(dl) == /\ booted /\ calls < MaxCalls
            /\ calls' = calls + 1
            /\ intFlag' = IF Resolve(dl) = <<>> THEN intFlag ELSE FALSE

\* Sectors that a device delivers for an lba and count (external): all, or
\* fewer and an error.
Sectors(from, n) == [i \in 1..n |-> from + i - 1]

\* Mutation of CdemuRead: one that goes back to the first block for the regular ones.
CdemuReadBack(lba, count, at, got) ==
    LET off == lba % 4
        first == IF off = 0 THEN 0 ELSE MinOf(4 - off, count)
        rest == count - first
        block == lba \div 4
    IN  [buf |-> Sectors(lba, first) \o Sectors(block * 4, rest), count |-> count, st |-> "SUCCESS"]

\* cdemu_read: sectors of the image through CD blocks of four.  Each of the
\* three transfers may fail (at = which, 0 for none); got is what the CD then
\* says it moved of the regular blocks.
CdemuRead(lba, count, at, got) ==
    LET off == lba % 4
        first == IF off = 0 THEN 0 ELSE MinOf(4 - off, count)
        rest == count - first
        block == lba \div 4 + (IF off = 0 THEN 0 ELSE 1)
        whole == 4 * (rest \div 4)
        a == Sectors((lba \div 4) * 4 + off, first)
        b == Sectors(block * 4, whole)
        c == Sectors(block * 4 + whole, rest % 4)
    IN  IF at = 1 /\ off # 0 THEN [buf |-> <<>>, count |-> 0, st |-> "EBADTRACK"]
        ELSE IF at = 2 /\ rest > 3 THEN [buf |-> a \o SubSeq(b, 1, 4 * MinOf(got, rest \div 4)),
                                         count |-> first + 4 * MinOf(got, rest \div 4), st |-> "EBADTRACK"]
        ELSE IF at = 3 /\ rest % 4 # 0 THEN [buf |-> a \o b, count |-> first + whole, st |-> "EBADTRACK"]
        ELSE [buf |-> a \o b \o c, count |-> count, st |-> "SUCCESS"]

\* fillLCHS
FillLCHS(drive) == IF drive = EmuDrive THEN cdemu.chs ELSE drive.lchs

\* process_op for reading: the emulated drive, or the drive's own driver.
ProcessRead(drive, lba, count, at, got) ==
    IF drive = EmuDrive THEN CdemuRead(lba, count, at, got)
    ELSE IF at = 0 THEN [buf |-> Sectors(lba, count), count |-> count, st |-> "SUCCESS"]
    ELSE [buf |-> Sectors(lba, MinOf(got, count)), count |-> MinOf(got, count), st |-> "EBADTRACK"]

\* Function 2, basic_access: cylinder, head, sector.
Disk1302(dl, c, h, s, count, at, got) ==
    /\ Call(dl)
    /\ LET d == Resolve(dl)
           n == FillLCHS(d[1])
           r == ProcessRead(d[1], (c * n[2] + h) * n[3] + s - 1, count, at, got)
       IN  IF d = <<>> \/ count = 0 \/ count > 128 \/ s = 0
           THEN DiskRet("read", dl, "EPARAM", 0) /\ UNCHANGED buffer
           ELSE IF c >= n[1] \/ h >= n[2] \/ s > n[3]
           THEN DiskRet("read", dl, "EPARAM", 0) /\ UNCHANGED buffer
           ELSE /\ buffer' = r.buf
                /\ status' = IF dl < HdStart THEN [status EXCEPT !.floppy = r.st]
                             ELSE [status EXCEPT !.disk = r.st]
                /\ reply' = [fn |-> "read", dl |-> dl, status |-> r.st, al |-> r.count,
                             first |-> (c * n[2] + h) * n[3] + s - 1, asked |-> count]
    /\ UNCHANGED <<idmap, hdcount, cdemu, cdLocks, left, booted>>

\* Functions 0x42 to 0x44 and 0x47, extended_access, refused for an emulated
\* drive (handle_13) and for floppies (floppy_13).
Disk1342(dl, lba, count, at, got) ==
    /\ Call(dl)
    /\ LET d == Resolve(dl)
           r == ProcessRead(d[1], lba, count, at, got)
       IN  IF d = <<>> \/ Emulated(dl) \/ KindOf(dl) = "floppy"
           THEN DiskRet("ext", dl, "EPARAM", 0) /\ UNCHANGED buffer
           ELSE IF d[1].kind = "hd" /\ lba >= d[1].sectors
           THEN DiskRet("ext", dl, "EPARAM", 0) /\ UNCHANGED buffer
           ELSE /\ buffer' = r.buf
                /\ status' = [status EXCEPT !.disk = r.st]
                /\ reply' = [fn |-> "read", dl |-> dl, status |-> r.st, al |-> r.count,
                             first |-> lba, asked |-> count]
    /\ UNCHANGED <<idmap, hdcount, cdemu, cdLocks, left, booted>>

\* Functions that write: refused on a CD and on an emulated drive.
Disk1303(dl, ok) ==
    /\ Call(dl)
    /\ LET d == Resolve(dl)
       IN  IF d = <<>> THEN DiskRet("write", dl, "EPARAM", 0)
           ELSE IF d[1].kind \in {"cd", "emu"} THEN DiskRet("write", dl, "EWRITEPROTECT", 0)
           ELSE DiskRet("write", dl, IF ok THEN "SUCCESS" ELSE "EBADTRACK", 0)
    /\ UNCHANGED <<idmap, hdcount, cdemu, cdLocks, left, booted, buffer>>

\* Function 1: the status the last call left.
Disk1301(dl) ==
    /\ Call(dl)
    /\ reply' = [fn |-> "status", dl |-> dl, al |-> 0,
                 status |-> IF Resolve(dl) = <<>> THEN "EPARAM"
                            ELSE IF dl < HdStart THEN status.floppy ELSE status.disk]
    /\ status' = IF Resolve(dl) # <<>> THEN status
                 ELSE IF dl < HdStart THEN [status EXCEPT !.floppy = "EPARAM"]
                 ELSE [status EXCEPT !.disk = "EPARAM"]
    /\ UNCHANGED <<idmap, hdcount, cdemu, cdLocks, left, booted, buffer>>

\* Function 8: the geometry and the number of drives of the kind.
Disk1308(dl) ==
    /\ Call(dl)
    /\ LET d == Resolve(dl)
           base == IF dl < HdStart THEN Len(idmap["floppy"]) ELSE hdcount
           same == cdemu.active /\ KindOf(cdemu.ext) = KindOf(dl)
           count == IF same THEN base + 1 ELSE base
       IN  IF d = <<>> \/ dl >= CdStart THEN DiskRet("params", dl, "EPARAM", 0)
           ELSE DiskRet("params", dl, "SUCCESS",
                        IF cdemu.active /\ dl < HdStart THEN MinOf(count, 2) ELSE count)
    /\ UNCHANGED <<idmap, hdcount, cdemu, cdLocks, left, booted, buffer>>

\* Function 0x45 (lock, unlock) and 0x46 (eject) on a CD.
Disk1345(dl, fn) ==
    LET id == dl - CdStart
    IN  /\ dl >= CdStart /\ Call(dl)
        /\ IF Resolve(dl) = <<>> THEN DiskRet(fn, dl, "EPARAM", 0) /\ UNCHANGED cdLocks
           ELSE IF fn = "lock"
           THEN IF cdLocks[id] = 255 THEN DiskRet(fn, dl, "ETOOMANYLOCKS", 1) /\ UNCHANGED cdLocks
                ELSE /\ DiskRet(fn, dl, "SUCCESS", 1)
                     /\ cdLocks' = [cdLocks EXCEPT ![id] = @ + 1]
           ELSE IF fn = "unlock"
           THEN IF cdLocks[id] = 0 THEN DiskRet(fn, dl, "ENOTLOCKED", 0) /\ UNCHANGED cdLocks
                ELSE /\ DiskRet(fn, dl, "SUCCESS", IF cdLocks[id] = 1 THEN 0 ELSE 1)
                     /\ cdLocks' = [cdLocks EXCEPT ![id] = @ - 1]
           ELSE /\ DiskRet(fn, dl, IF cdLocks[id] = 0 THEN "SUCCESS" ELSE "ELOCKED", 0)
                /\ UNCHANGED cdLocks
        /\ UNCHANGED <<idmap, hdcount, cdemu, left, booted, buffer>>

\* Function 0x4b, cdemu_134b: terminate the emulation.
Cdemu134b(dl, al) ==
    /\ booted /\ calls < MaxCalls
    /\ calls' = calls + 1
    /\ cdemu' = IF al = 0 THEN [cdemu EXCEPT !.active = FALSE] ELSE cdemu
    /\ DiskRet("endemu", dl, "SUCCESS", 0)
    /\ UNCHANGED <<idmap, hdcount, cdLocks, intFlag, left, booted, buffer>>

\* handle_76
Handle76 == /\ ~intFlag /\ booted
            /\ intFlag' = TRUE
            /\ UNCHANGED <<idmap, hdcount, cdemu, cdLocks, status, buffer, reply, left, booted, calls>>

Exts == UNION {StartOf(k)..(StartOf(k) + MaxDrives) : k \in Kinds}

\* Which transfer of a read fails, and after how much.
Faults == {<<0, 0>>, <<1, 0>>, <<2, 0>>, <<2, 1>>, <<3, 0>>}

DskNext == \/ \E d \in left : MapDrive(d)
           \/ \E i \in 0..(MaxDrives - 1), m \in CdImages, ok \in BOOLEAN : CdromBoot(i, m, ok)
           \/ OtherBoot \/ Handle76
           \/ \E dl \in Exts : \/ Disk1301(dl) \/ Disk1308(dl)
                               \/ \E ok \in BOOLEAN : Disk1303(dl, ok)
                               \/ \E fn \in {"lock", "unlock", "eject"} : Disk1345(dl, fn)
                               \/ \E al \in {0, 1} : Cdemu134b(dl, al)
                               \/ \E n \in Counts, f \in Faults :
                                     \/ \E p \in ChsSet : Disk1302(dl, p[1], p[2], p[3], n, f[1], f[2])
                                     \/ \E lba \in LbaSet : Disk1342(dl, lba, n, f[1], f[2])

DskSpec == DskInit /\ [][DskNext]_dskVars

----------------------------------------------------------------------------
\* block.c add_ordered_drive, "Add to idmap with assured drive order": whatever
\* order the drivers' threads find them in, floppies and CDs are numbered alike.
DriveOrderFixed ==
    \A k \in {"floppy", "cd"} : \A i, j \in 1..Len(idmap[k]) : i < j => Before(idmap[k][i], idmap[k][j])

\* handle_13, "Adjust id to make room for emulated drive": two drive numbers
\* never reach one drive, and every mapped drive keeps a number.
EachDriveOneNumber ==
    /\ \A a, b \in Exts : a # b /\ Resolve(a) # <<>> => Resolve(a) # Resolve(b)
    /\ \A k \in Kinds : \A i \in 1..Len(idmap[k]) : \E a \in Exts : Resolve(a) = <<idmap[k][i]>>

\* cdemu_read and basic_access: a read that succeeds has put the sectors asked
\* for, in order, in the buffer.
ReadExact == reply.fn = "read" /\ reply.status = "SUCCESS" /\ "first" \in DOMAIN reply
                 => buffer = Sectors(reply.first, reply.asked)

\* setup_translation: no cylinder, head and sector accepted by INT 13h lies
\* past the end of the drive.
GeometryFits == \A i \in 1..Len(idmap["hd"]) :
                    LET d == idmap["hd"][i] IN d.lchs[1] * d.lchs[2] * d.lchs[3] <= d.sectors

\* block.c, cdrom.c and disk.c: a drive number means one drive, an address of it
\* one sector, and a read that succeeds the sectors asked for.
DisksSound == DriveOrderFixed /\ EachDriveOneNumber /\ ReadExact /\ GeometryFits
============================================================================
