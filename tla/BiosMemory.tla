---------------------------- MODULE BiosMemory ----------------------------
(***************************************************************************)
(* Memory of the system BIOS (bios/seabios: memmap.c, pmm.c and ram_probe  *)
(* of post.c): the e820 map handed to the operating system, the zones the  *)
(* BIOS allocates from, the list of tracked allocations, and the extended  *)
(* BIOS data area (EBDA) that moves down when ZoneLow grows.               *)
(* Addresses are scaled: the constants name the ones the code names.       *)
(***************************************************************************)
EXTENDS Integers, Sequences, FiniteSets, SequencesExt

CONSTANTS KB,             \* 1024
          MinAlign,       \* MALLOC_MIN_ALIGN
          PageSize,       \* PAGE_SIZE
          InfoSize,       \* sizeof(struct pmmalloc_s)
          StackAddr,      \* BUILD_STACK_ADDR
          EbdaMinimum,    \* BUILD_EBDA_MINIMUM
          LowramEnd,      \* BUILD_LOWRAM_END
          BiosAddr, BiosSize, TableSpace, MaxBiosTable, MaxHighTable,
          FlashSize, KvmSize, \* reserved below 4 gigabytes
          FourG,          \* 2^32, the width of an address
          MaxE820,        \* CONFIG_MAX_E820
          RamSizes, HighSizes, \* what the nvram says of the memory
          CfgLists,       \* the reservations the emulator asks for
          Sizes,          \* of the blocks asked for
          MaxAllocs, MaxSteals \* bounds on allocations and on option roms

VARIABLES stage, \* "probe", "cfg", "post", "final"
          qemuCfgPresent, \* left FALSE by a cold start, or by the boot before
          cfg,   \* the reservations of the emulator still to be loaded
          e820,  \* e820_list: a sequence of [start, size, type]
          mem,   \* [zone, allocs, ebda, lowram]: zones, PMMAllocs, EBDA, BDA
          ideal, \* the type every address was last given (history)
          full,  \* a report may have found no room in the list (history)
          steals \* what option roms took (history)

memVars == <<stage, qemuCfgPresent, cfg, e820, mem, ideal, full, steals>>

OneMeg == BiosAddr + BiosSize
Types == {"RAM", "RESERVED", "HOLE"}
AddrEnd == FourG + 16

AlignDown(x, a) == x - (x % a)
AlignUp(x, a) == AlignDown(x + a - 1, a)
U32(x) == x % FourG

----------------------------------------------------------------------------
\* The e820 map.

EntryEnd(e) == e.start + e.size
FirstIndex(S, n) == CHOOSE i \in S \cup {n} : \A j \in S \cup {n} : i <= j

\* insert_e820: nothing is inserted in a full list.
InsertE820(list, i, start, size, type) ==
    IF Len(list) >= MaxE820 THEN list
    ELSE InsertAt(list, i, [start |-> start, size |-> size, type |-> type])

\* Mutation of AddE820: a part that sticks out on the right is lost.
AddE820Short(list, start, size, type) ==
    LET end == start + size
        keep == SelectSeq(list, LAMBDA e : EntryEnd(e) <= start \/ e.start >= end)
        i == FirstIndex({k \in 1..Len(keep) : keep[k].start >= end}, Len(keep) + 1)
    IN  IF size = 0 \/ type = "HOLE" THEN keep
        ELSE InsertE820(keep, i, start, size, type)

\* add_e820: find the place (merging with the entry on the left or splitting
\* it), drop what is overlapped, merge with the entry on the right, insert.
AddE820(list, start, size, type) ==
    LET end == start + size
        p == FirstIndex({k \in 1..Len(list) : start <= EntryEnd(list[k])}, Len(list) + 1)
        left == p <= Len(list) /\ start > list[p].start
        merge == left /\ list[p].type = type
        split == left /\ list[p].type # type
        cut == IF ~split THEN list
               ELSE LET e == list[p]
                        l == [list EXCEPT ![p].size = start - e.start]
                    IN  IF EntryEnd(e) > end
                        THEN InsertE820(l, p + 1, end, EntryEnd(e) - end, e.type)
                        ELSE l
        i == IF split THEN p + 1 ELSE p
        from == IF merge THEN list[p].start ELSE start
        n == Len(cut)
        k == FirstIndex({j \in i..n : end < cut[j].start \/ end < EntryEnd(cut[j])}, n + 1)
        touch == k <= n /\ end >= cut[k].start
        join == touch /\ cut[k].type = type
        tail == IF ~touch THEN SubSeq(cut, k, n)
                ELSE IF join THEN SubSeq(cut, k + 1, n)
                ELSE <<[cut[k] EXCEPT !.start = end, !.size = EntryEnd(cut[k]) - end]>>
                     \o SubSeq(cut, k + 1, n)
        to == IF join THEN EntryEnd(cut[k]) ELSE end
        rest == SubSeq(cut, 1, i - 1) \o tail
    IN  IF size = 0 THEN list
        ELSE IF type = "HOLE" THEN rest
        ELSE InsertE820(rest, i, from, to - from, type)

\* find_high_area: the highest entry of 32-bit memory that can hold size.
FindHighArea(list, size) ==
    LET ok == {i \in 1..Len(list) : /\ list[i].type = "RAM"
                                    /\ EntryEnd(list[i]) <= FourG - 1
                                    /\ list[i].size >= size}
        best == CHOOSE i \in ok : \A j \in ok : j <= i
    IN  IF ok = {} \/ EntryEnd(list[best]) < OneMeg + size THEN 0 ELSE best

\* The type the map gives an address, and the memory as it should be
\* reported once [start, start + size) got a type.
TypeAt(list, a) ==
    LET hit == {i \in 1..Len(list) : list[i].start <= a /\ a < EntryEnd(list[i])}
    IN  IF hit = {} THEN "HOLE" ELSE list[CHOOSE i \in hit : TRUE].type
Paint(f, start, size, type) ==
    [a \in DOMAIN f |-> IF start <= a /\ a < start + size THEN type ELSE f[a]]

\* A series of add_e820 calls, and what they make of the memory.
AddAll(list, calls) == FoldLeft(LAMBDA l, c : AddE820(l, c[1], c[2], c[3]), list, calls)
PaintAll(f, calls) == FoldLeft(LAMBDA g, c : Paint(g, c[1], c[2], c[3]), f, calls)
Report(calls) == /\ e820' = AddAll(e820, calls)
                 /\ ideal' = PaintAll(ideal, calls)
                 /\ full' = (full \/ Len(e820) + 2 * Len(calls) > MaxE820)

----------------------------------------------------------------------------
\* Zones and tracked allocations.  A zone is used from its top downwards.

Zones == {"TmpLow", "Low", "FSeg", "TmpHigh", "High"}
NoZone == [top |-> 0, bottom |-> 0, cur |-> 0]
FreshZone(bottom, top) == [top |-> top, bottom |-> bottom, cur |-> top]

\* zone_malloc: where the block would start, and whether there is room.
NewPos(pos, size, align) == AlignDown(U32(pos - size), align)
Fits(z, size, align) == LET p == NewPos(z.cur, size, align)
                        IN  p >= z.bottom /\ p <= z.cur

\* relocate_ebda and zonelow_expand: make room in ZoneLow by moving the EBDA
\* down.  Nothing moves when the EBDA is not at the end of low memory.
ZonelowExpand(m, size, align) ==
    LET z == m.zone["Low"]
        ebdaEnd == m.ebda.pos + m.ebda.size * KB
        oldpos == IF ebdaEnd # z.bottom THEN ebdaEnd ELSE z.cur
        newbottom == AlignDown(NewPos(oldpos, size, align), KB)
        newebda == AlignDown(U32(newbottom - m.ebda.size * KB), KB)
    IN  IF Fits(z, size, align) \/ newebda < EbdaMinimum \/ m.ebda.pos # m.lowram
        THEN m
        ELSE [m EXCEPT !.ebda.pos = newebda, !.lowram = newebda,
                       !.zone["Low"].cur = oldpos, !.zone["Low"].bottom = newbottom]

\* zone_free: only the last block of a zone goes back to it.
ZoneOf(m, data) == {z \in Zones : m.zone[z].cur <= data /\ data < m.zone[z].top}
LastOf(m, data) == {z \in ZoneOf(m, data) : m.zone[z].cur = data}

ZoneFree(m, data, olddata) ==
    IF LastOf(m, data) = {} THEN m
    ELSE [m EXCEPT !.zone[CHOOSE z \in LastOf(m, data) : TRUE].cur = olddata]

\* pmm_free_data: a block that is not the last hands its position on to the
\* block allocated right after it.
FreeData(m, data, olddata) ==
    LET hits == {i \in 1..Len(m.allocs) : \/ m.allocs[i].olddata = data
                                          \/ m.allocs[i].oldallocdata = data}
        i == FirstIndex(hits, Len(m.allocs) + 1)
    IN  IF LastOf(m, data) # {}
        THEN ZoneFree(m, data, olddata)
        ELSE IF hits = {} THEN m
        ELSE IF m.allocs[i].olddata = data THEN [m EXCEPT !.allocs[i].olddata = olddata]
        ELSE [m EXCEPT !.allocs[i].oldallocdata = olddata]

\* pmm_malloc: the tracking block first, then the data; on failure the
\* tracking block is freed again.  data is 0 when there is no room.
PmmMalloc(m, z, size, align) ==
    LET iz == IF Fits(m.zone["TmpHigh"], InfoSize, MinAlign) THEN "TmpHigh" ELSE "TmpLow"
        info == NewPos(m.zone[iz].cur, InfoSize, MinAlign)
        m1 == [m EXCEPT !.zone[iz].cur = info]
        m2 == IF z = "Low" THEN ZonelowExpand(m1, size, align) ELSE m1
        data == NewPos(m2.zone[z].cur, size, align)
        new == [at |-> info, data |-> data, olddata |-> m2.zone[z].cur,
                oldallocdata |-> m.zone[iz].cur, zone |-> z, size |-> size]
    IN  IF ~Fits(m.zone[iz], InfoSize, MinAlign) THEN [m |-> m, data |-> 0]
        ELSE IF ~Fits(m2.zone[z], size, align)
        THEN [m |-> ZoneFree(m2, info, m.zone[iz].cur), data |-> 0]
        ELSE [m |-> [m2 EXCEPT !.zone[z].cur = data, !.allocs = <<new>> \o @], data |-> data]

\* pmm_free.
PmmFree(m, data) ==
    LET hits == {i \in 1..Len(m.allocs) : m.allocs[i].data = data}
        i == FirstIndex(hits, Len(m.allocs) + 1)
        a == m.allocs[i]
        m1 == [m EXCEPT !.allocs = RemoveAt(@, i)]
    IN  IF hits = {} THEN m
        ELSE FreeData(FreeData(m1, data, a.olddata), a.at, a.oldallocdata)

\* pmm_getspace: what a caller is told it may ask for.
GetSpace(m, z) ==
    LET space == m.zone[z].cur - m.zone[z].bottom
        reserve == AlignUp(InfoSize, MinAlign)
    IN  IF z \notin {"TmpHigh", "TmpLow"} THEN space
        ELSE IF space <= reserve THEN 0 ELSE space - reserve

----------------------------------------------------------------------------
\* Steps.

EbdaStart == LowramEnd - KB

MemInit == /\ stage = "probe"
           /\ qemuCfgPresent \in BOOLEAN
           /\ cfg = <<>>
           /\ e820 = <<>>
           /\ mem = [zone |-> [z \in Zones |-> NoZone], allocs |-> <<>>,
                     ebda |-> [pos |-> EbdaStart, size |-> 1], lowram |-> EbdaStart]
           /\ ideal = [a \in 0..AddrEnd |-> "HOLE"]
           /\ full = FALSE
           /\ steals = {}

\* ram_probe: rs and high come from the nvram, list from the emulator, which
\* is asked only if qemu_cfg_port_probe, called later, found it a boot ago.
RamProbe(rs, high, list, kvm) ==
    /\ stage = "probe"
    /\ Report(<< <<0, rs, "RAM">>, <<FourG, high, "RAM">>,
                 <<FourG - FlashSize, FlashSize, "RESERVED">>,
                 <<LowramEnd, BiosAddr - LowramEnd, "HOLE">>,
                 <<mem.ebda.pos, mem.ebda.size * KB, "RESERVED">>,
                 <<BiosAddr, BiosSize, "RESERVED">> >>)
    /\ cfg' = IF qemuCfgPresent /\ list # <<>> THEN list
              ELSE IF kvm THEN << <<FourG - FlashSize - KvmSize, KvmSize, "RESERVED">> >>
              ELSE <<>>
    /\ stage' = "cfg"
    /\ UNCHANGED <<qemuCfgPresent, mem, steals>>

LoadNext == /\ stage = "cfg" /\ cfg # <<>>
            /\ Report(<<Head(cfg)>>)
            /\ cfg' = Tail(cfg)
            /\ UNCHANGED <<stage, qemuCfgPresent, mem, steals>>

\* malloc_setup: the top of the highest memory becomes ZoneHigh.
MallocSetup ==
    LET h == FindHighArea(e820, MaxHighTable + MinAlign)
        high == h # 0
        bottom == AlignUp(EntryEnd(e820[h]) - MaxHighTable, MinAlign)
    IN  /\ stage = "cfg" /\ cfg = <<>>
        /\ mem' = [mem EXCEPT
             !.zone = [z \in Zones |->
                CASE z = "FSeg" -> FreshZone(TableSpace, TableSpace + MaxBiosTable)
                  [] z = "TmpLow" -> FreshZone(StackAddr, EbdaMinimum)
                  [] z = "Low" -> FreshZone(LowramEnd, LowramEnd)
                  [] z = "High" -> IF high THEN FreshZone(bottom, bottom + MaxHighTable)
                                   ELSE NoZone
                  [] z = "TmpHigh" -> IF high
                                      THEN FreshZone(AlignUp(e820[h].start, MinAlign), bottom)
                                      ELSE NoZone]]
        /\ IF high THEN Report(<< <<bottom, MaxHighTable, "RESERVED">> >>)
                   ELSE UNCHANGED <<e820, ideal, full>>
        /\ stage' = "post"
        /\ UNCHANGED <<qemuCfgPresent, cfg, steals>>

\* The BIOS's own allocations (malloc_low, memalign_tmphigh and the like).
Malloc(z, size, align) ==
    /\ stage = "post"
    /\ Len(mem.allocs) < MaxAllocs
    /\ mem' = PmmMalloc(mem, z, size, align).m
    /\ UNCHANGED <<stage, qemuCfgPresent, cfg, e820, ideal, full, steals>>

\* handle_pmm00: an option rom asks for memory; where says below one
\* megabyte (1), above (2) or either (3).
LowBit(s) == CHOOSE a \in {2^i : i \in 0..10} : s % a = 0 /\ s % (2 * a) # 0
PmmAllocate(size, permanent, aligned, where) ==
    LET low == IF permanent THEN "Low" ELSE "TmpLow"
        high == IF permanent THEN "High" ELSE "TmpHigh"
        align == IF aligned /\ LowBit(size) > MinAlign THEN LowBit(size) ELSE MinAlign
        inLow == PmmMalloc(mem, low, size, align)
    IN  /\ stage = "post"
        /\ Len(mem.allocs) < MaxAllocs
        /\ size < FourG \div 2
        /\ mem' = CASE where = 1 -> inLow.m
                    [] where = 2 -> PmmMalloc(mem, high, size, align).m
                    [] where = 3 -> IF inLow.data # 0 THEN inLow.m
                                    ELSE PmmMalloc(inLow.m, high, size, align).m
        /\ UNCHANGED <<stage, qemuCfgPresent, cfg, e820, ideal, full, steals>>

\* free and handle_pmm02.
PmmDeallocate(data) == /\ stage = "post"
                       /\ mem' = PmmFree(mem, data)
                       /\ UNCHANGED <<stage, qemuCfgPresent, cfg, e820, ideal, full, steals>>

\* An option rom takes a kilobyte below the EBDA by lowering the memory size,
\* or moves the EBDA down and takes the kilobyte it left (external).
RomTakes(moves) ==
    LET pos == IF moves THEN mem.ebda.pos + (mem.ebda.size - 1) * KB ELSE mem.lowram - KB
    IN  /\ stage = "post"
        /\ Cardinality(steals) < MaxSteals
        /\ mem.lowram - KB >= EbdaMinimum
        /\ moves => mem.lowram = mem.ebda.pos
        /\ steals' = steals \cup {pos}
        /\ mem' = IF moves THEN [mem EXCEPT !.lowram = @ - KB, !.ebda.pos = @ - KB]
                  ELSE [mem EXCEPT !.lowram = @ - KB]
        /\ UNCHANGED <<stage, qemuCfgPresent, cfg, e820, ideal, full>>

\* malloc_finalize: reserve what low memory lost, give back unused high ram.
MallocFinalize ==
    LET hz == mem.zone["High"]
    IN  /\ stage = "post"
        /\ Report(<< <<mem.lowram, LowramEnd - mem.lowram, "RESERVED">>,
                     <<hz.bottom, AlignDown(hz.cur - hz.bottom, PageSize), "RAM">> >>)
        /\ stage' = "final"
        /\ UNCHANGED <<qemuCfgPresent, cfg, mem, steals>>

MemNext ==
    \/ \E rs \in RamSizes, high \in HighSizes, list \in CfgLists, kvm \in BOOLEAN :
           RamProbe(rs, high, list, kvm)
    \/ LoadNext
    \/ MallocSetup
    \/ \E z \in Zones, size \in Sizes : Malloc(z, size, MinAlign)
    \/ \E size \in Sizes, p, a \in BOOLEAN, w \in 1..3 : PmmAllocate(size, p, a, w)
    \/ \E i \in 1..Len(mem.allocs) : PmmDeallocate(mem.allocs[i].data)
    \/ \E moves \in BOOLEAN : RomTakes(moves)
    \/ MallocFinalize

----------------------------------------------------------------------------
\* Properties.

\* add_e820: whatever order ranges are reported, split, merged and dropped in,
\* the list stays sorted and disjoint, and gives each address the type it was
\* last reported with; a full list may lose a range, never mistype one.
MapIsExact ==
    /\ \A i \in 1..Len(e820) : e820[i].size > 0
    /\ \A i \in 1..Len(e820) - 1 : EntryEnd(e820[i]) <= e820[i + 1].start
    /\ \A a \in 0..AddrEnd : \/ TypeAt(e820, a) = ideal[a]
                             \/ full /\ TypeAt(e820, a) = "HOLE"

Blocks == {<<b.data, b.data + b.size>> : b \in Range(mem.allocs)}
Infos == {<<b.at, b.at + InfoSize>> : b \in Range(mem.allocs)}
Ebda == <<mem.ebda.pos, mem.ebda.pos + mem.ebda.size * KB>>
Stolen == {<<s, s + KB>> : s \in steals}
Apart(x, y) == x[2] <= y[1] \/ y[2] <= x[1]

\* pmm.c: after any order of allocations and frees, with the EBDA moving and
\* option roms taking memory, no two live blocks, tracking blocks or taken
\* kilobytes overlap, none is in the EBDA, and each block is in use in its zone.
BlocksApart ==
    /\ \A x, y \in Blocks \cup Infos \cup Stolen \cup {Ebda} : x = y \/ Apart(x, y)
    /\ \A b, c \in Range(mem.allocs) : b.data = c.data \/ b.at = c.at => b = c
    /\ \A b \in Range(mem.allocs) :
          mem.zone[b.zone].cur <= b.data /\ b.data + b.size <= mem.zone[b.zone].top

\* pmm_free_data: blocks freed out of order still go back to their zone: when
\* nothing is allocated the temporary zones are whole again.
NothingLeaks == stage = "post" /\ mem.allocs = <<>> =>
    \A z \in {"TmpLow", "TmpHigh", "High", "FSeg"} : mem.zone[z].cur = mem.zone[z].top

\* malloc_finalize: the operating system is never told that memory the BIOS or
\* an option rom keeps (ZoneLow, ZoneHigh, the EBDA) is free ram.
KeptIsReserved == stage = "final" =>
    \A r \in {<<b.data, b.data + b.size>> :
                 b \in {c \in Range(mem.allocs) : c.zone \in {"Low", "High", "FSeg"}}}
            \cup Stolen \cup {Ebda} :
        \A a \in r[1]..r[2] - 1 : TypeAt(e820, a) # "RAM"

\* pmm_getspace: what a rom is told is left of a temporary zone can be had.
SpaceIsThere == stage = "post" => \A z \in {"TmpLow", "TmpHigh"} :
    GetSpace(mem, z) > 0 => PmmMalloc(mem, z, GetSpace(mem, z), MinAlign).data # 0

\* zonelow_expand: the EBDA stays in low memory, above BUILD_EBDA_MINIMUM.
EbdaInLowMemory == EbdaMinimum <= mem.ebda.pos /\ mem.ebda.pos < LowramEnd

\* pmm.c: the memory the BIOS, its callers and option roms hold is theirs alone,
\* comes back when it is freed, and is kept from the operating system.
MemoryKept == BlocksApart /\ NothingLeaks /\ KeptIsReserved /\ SpaceIsThere /\ EbdaInLowMemory
============================================================================
