-------------------------------- MODULE BiosVga --------------------------------
(***************************************************************************)
(* The text screen of the VGA BIOS (bios/seabios/vgasrc: vga.c, vgafb.c,   *)
(* vgaio.c): INT 10h.  Pages lie one after the other in one memory, which  *)
(* the processor addresses in bytes and the controller in cells of two.    *)
(* A ghost keeps each page as a terminal's grid of rows.  Positions, counts*)
(* and windows are those of callers who write on the screen.               *)
(***************************************************************************)
EXTENDS Integers, Sequences, FiniteSets, SequencesExt

CONSTANTS Modes,        \* text modes: [cols, rows, vde], vde in scan lines
          Fonts,        \* heights of the fonts, in scan lines
          Pages,        \* 0 .. 7
          PageAlign,    \* pages start at multiples of it: 256
          TextCells,    \* cells of the text memory
          TabStop, Byte,
          Characters, Strings, Windows, ScrollCounts, WriteCounts, Positions,
          MaxVgaCalls

VARIABLES vmem,         \* per cell: <<character, attribute>>
          bda,          \* [cols, rows, page, cursor]: video_cols, video_rows + 1, ...
          crtc,         \* [start, cursor, vde]: registers of the controller, in cells
          saved,        \* a caller's buffer of INT 10h/1C, <<>> before it is filled
          grid,         \* ghost: per page, row and column
          proper,       \* ghost: fonts were set right after the mode, state restored whole
          vgaCalls

vgaVars == <<vmem, bda, crtc, saved, grid, proper, vgaCalls>>

Blank(attr) == <<" ", attr>>

\* SCREEN_IO_START, in cells, and SCREEN_MEM_START, in bytes
IoStart(b, page) == (((b.cols * b.rows) \div PageAlign) + 1) * PageAlign * page
MemStart(b, page) == (((b.cols * 2 * b.rows) \div PageAlign) + 1) * PageAlign * page

Address(b, x, y, page) == (MemStart(b, page) + (x + y * b.cols) * 2) \div 2

\* Each page as it is in memory.
Snapshot(mem, b) ==
    [p \in Pages |-> [y \in 0 .. b.rows - 1 |-> [x \in 0 .. b.cols - 1 |-> mem[Address(b, x, y, p)]]]]

Home == [p \in Pages |-> [x |-> 0, y |-> 0]]

\* handle_1000 has set a mode, or the same after VGA start-up.
ModeBda(m) == [cols |-> m.cols, rows |-> m.rows, page |-> 0, cursor |-> Home]
ModeCrtc(m) == [start |-> 0, cursor |-> 0, vde |-> m.vde]

VgaInit == /\ vmem = [a \in 0 .. TextCells - 1 |-> Blank(7)]
           /\ \E m \in Modes : bda = ModeBda(m) /\ crtc = ModeCrtc(m)
           /\ saved = <<>> /\ grid = Snapshot(vmem, bda) /\ proper = TRUE /\ vgaCalls = 0

Called == vgaCalls < MaxVgaCalls /\ vgaCalls' = vgaCalls + 1

----------------------------------------------------------------------------
\* memcpy_stride and memset16_stride: line after line, dst and src in cells.
CopyStride(mem, dst, src, len, stride, lines) ==
    LET After[k \in 0 .. lines] ==
          IF k = 0 THEN mem
          ELSE LET d == dst + (k - 1) * stride
                   s == src + (k - 1) * stride
               IN  [a \in DOMAIN mem |-> IF a \in d .. d + len - 1 THEN After[k - 1][s + (a - d)]
                                         ELSE After[k - 1][a]]
    IN  After[lines]
SetStride(mem, dst, cell, len, stride, lines) ==
    [a \in DOMAIN mem |-> IF \E k \in 0 .. lines - 1 : a \in dst + k * stride .. dst + k * stride + len - 1
                          THEN cell ELSE mem[a]]

\* Mutation of ScrollText: down, line after line from the top.
ScrollTextFromTop(mem, b, nblines, attr, ul, lr, page) ==
    LET n == IF nblines < 0 THEN -nblines ELSE nblines
        dst == Address(b, ul.x, ul.y + (IF nblines < 0 THEN n ELSE 0), page)
        src == Address(b, ul.x, ul.y + (IF nblines < 0 THEN 0 ELSE n), page)
        len == lr.x - ul.x + 1
        kept == lr.y - ul.y + 1 - n
        free == Address(b, ul.x, IF nblines < 0 THEN ul.y ELSE lr.y - n + 1, page)
    IN  SetStride(CopyStride(mem, dst, src, len, b.cols, kept), free, Blank(attr), len, b.cols, n)

\* scroll_text: nblines lines up, or down when it is negative.
ScrollText(mem, b, nblines, attr, ul, lr, page) ==
    LET up == nblines >= 0
        n == IF up THEN nblines ELSE -nblines
        stride == IF up THEN b.cols ELSE -b.cols
        dst == Address(b, ul.x, IF up THEN ul.y ELSE lr.y, page)
        len == lr.x - ul.x + 1
        rows == lr.y - ul.y + 1
        moved == IF n < rows THEN rows - n ELSE 0
    IN  SetStride(CopyStride(mem, dst, dst + n * stride, len, stride, moved),
                  dst + moved * stride, Blank(attr), len, stride, n)

\* write_text_char: without an attribute the one on the screen stays.
WriteTextChar(mem, b, c, car, attr, useAttr) ==
    LET at == Address(b, c.x, c.y, c.page)
    IN  [a \in DOMAIN mem |-> IF a = at THEN <<car, IF useAttr THEN attr ELSE mem[a][2]>> ELSE mem[a]]

\* write_teletype with scroll_one; s is memory and cursor.
WriteTeletype(s, b, car, attr, useAttr) ==
    LET c == s.cp
        \* '\t': spaces up to a stop or the end of the line
        stop == ((c.x \div TabStop) + 1) * TabStop
        past == IF stop < b.cols THEN stop ELSE IF c.x < b.cols THEN b.cols ELSE c.x + 1
        Tab[x \in c.x .. past] == IF x = c.x THEN s.mem
                                  ELSE WriteTextChar(Tab[x - 1], b, [c EXCEPT !.x = x - 1], " ", attr, useAttr)
        mem == CASE car = "tab" -> Tab[past]
                 [] car \in {"bell", "back", "cr", "lf"} -> s.mem
                 [] OTHER -> WriteTextChar(s.mem, b, c, car, attr, useAttr)
        x == CASE car = "tab" -> past
               [] car = "cr" -> 0
               [] car = "back" -> IF c.x > 0 THEN c.x - 1 ELSE 0
               [] car \in {"bell", "lf"} -> c.x
               [] OTHER -> (c.x + 1) % Byte
        wraps == x = b.cols
        y == IF wraps \/ car = "lf" THEN c.y + 1 ELSE c.y
        scroll == y >= b.rows
    IN  [mem |-> IF scroll THEN ScrollText(mem, b, 1, 7, [x |-> 0, y |-> 0],
                                           [x |-> b.cols - 1, y |-> b.rows - 1], c.page)
                 ELSE mem,
         cp |-> [c EXCEPT !.x = IF wraps THEN 0 ELSE x, !.y = IF scroll THEN y - 1 ELSE y]]

----------------------------------------------------------------------------
\* The terminal the pages are meant to be, on grids.
GridScroll(g, nblines, attr, ul, lr) ==
    [y \in DOMAIN g |-> [x \in DOMAIN g[y] |->
        IF ~(x \in ul.x .. lr.x /\ y \in ul.y .. lr.y) THEN g[y][x]
        ELSE IF y + nblines \in ul.y .. lr.y THEN g[y + nblines][x] ELSE Blank(attr)]]

\* A terminal types into an endless page and shows its last rows.
Type(t, cols, rows, car, attr, useAttr) ==
    LET Put(g, x) == [g EXCEPT ![t.y][x] = <<IF car = "tab" THEN " " ELSE car, IF useAttr THEN attr ELSE @[2]>>]
        cells == IF car = "tab" THEN {x \in t.x .. cols - 1 : \A z \in t.x + 1 .. x : z % TabStop # 0}
                 ELSE IF car \in {"bell", "back", "cr", "lf"} THEN {} ELSE {t.x}
        g == FoldLeft(Put, t.g, SetToSeq(cells))
        x == IF car = "cr" THEN 0 ELSE IF car = "back" /\ t.x > 0 THEN t.x - 1 ELSE t.x + Cardinality(cells)
        down == car = "lf" \/ x = cols
        lost == down /\ t.y = rows - 1
    IN  [g |-> IF lost THEN [y \in DOMAIN g |-> IF y = rows - 1 THEN [z \in 0 .. cols - 1 |-> Blank(7)] ELSE g[y + 1]]
               ELSE g,
         x |-> IF x = cols THEN 0 ELSE x,
         y |-> IF down /\ ~lost THEN t.y + 1 ELSE t.y]

OnScreen(b, x, y) == x < b.cols /\ y < b.rows

----------------------------------------------------------------------------
\* set_cursor_pos, what it does to the controller
CursorCrtc(c, b, page) ==
    IF page # b.page THEN c
    ELSE [c EXCEPT !.cursor = IoStart(b, page) + b.cursor[page].x + b.cursor[page].y * b.cols]

ClearScreen(mem) == [a \in DOMAIN mem |-> Blank(7)]

\* handle_1000, with clear_screen unless bit 7 of the mode asks to keep it
SetMode(m, keep) ==
    /\ Called
    /\ vmem' = IF keep THEN vmem ELSE ClearScreen(vmem)
    /\ bda' = ModeBda(m) /\ crtc' = ModeCrtc(m)
    /\ grid' = Snapshot(vmem', bda') /\ proper' = TRUE
    /\ UNCHANGED saved

\* handle_1002
SetCursorPos(x, y, page) ==
    /\ Called /\ OnScreen(bda, x, y)
    /\ bda' = [bda EXCEPT !.cursor[page] = [x |-> x, y |-> y]]
    /\ crtc' = CursorCrtc(crtc, bda', page)
    /\ UNCHANGED <<vmem, saved, grid, proper>>

\* handle_1005: set_active_page
SetActivePage(page) ==
    /\ Called
    /\ bda' = [bda EXCEPT !.page = page]
    /\ crtc' = CursorCrtc([crtc EXCEPT !.start = IoStart(bda, page)], bda', page)
    /\ UNCHANGED <<vmem, saved, grid, proper>>

\* handle_101110 .. handle_101114: set_scan_lines; the pages move in memory.
SetScanLines(height) ==
    /\ Called
    /\ bda' = [bda EXCEPT !.rows = crtc.vde \div height]
    /\ grid' = Snapshot(vmem, bda')
    /\ proper' = (proper /\ bda.page = 0 /\ bda.cursor = Home)
    /\ UNCHANGED <<vmem, crtc, saved>>

\* handle_1006 and handle_1007: verify_scroll
VerifyScroll(ul, corner, count, up, attr) ==
    LET lr == [x |-> IF corner.x < bda.cols THEN corner.x ELSE bda.cols - 1,
               y |-> IF corner.y < bda.rows THEN corner.y ELSE bda.rows - 1]
        rows == lr.y - ul.y + 1
        nblines == IF count = 0 \/ count > rows THEN rows ELSE count
        by == IF up THEN nblines ELSE -nblines
    IN  /\ Called
        /\ ul.x <= lr.x /\ ul.y <= lr.y
        /\ vmem' = ScrollText(vmem, bda, by, attr, ul, lr, bda.page)
        /\ grid' = [grid EXCEPT ![bda.page] = GridScroll(@, by, attr, ul, lr)]
        /\ UNCHANGED <<bda, crtc, saved, proper>>

\* handle_1009 and handle_100a: write_chars; the cursor stays, its copy is a byte.
WriteChars(page, car, attr, useAttr, count) ==
    LET c == bda.cursor[page]
        Done[n \in 0 .. count] ==
            IF n = 0 THEN vmem
            ELSE WriteTextChar(Done[n - 1], bda, [x |-> (c.x + n - 1) % Byte, y |-> c.y, page |-> page],
                               car, attr, useAttr)
        from == c.x + c.y * bda.cols
    IN  /\ Called
        /\ c.x + count <= Byte /\ from + count <= bda.cols * bda.rows
        /\ vmem' = Done[count]
        /\ grid' = [grid EXCEPT ![page] = [y \in DOMAIN @ |-> [x \in DOMAIN @[y] |->
              IF x + y * bda.cols \in from .. from + count - 1
              THEN <<car, IF useAttr THEN attr ELSE @[y][x][2]>> ELSE @[y][x]]]]
        /\ UNCHANGED <<bda, crtc, saved, proper>>

\* write_string, write_attr_string: each character as write_teletype has it.
WriteString(page, at, string, attr, useAttr, move) ==
    LET b == bda
        Both(s, car) == [r |-> WriteTeletype(s.r, b, car, attr, useAttr),
                         t |-> Type(s.t, b.cols, b.rows, car, attr, useAttr)]
        end == FoldLeft(Both, [r |-> [mem |-> vmem, cp |-> [x |-> at.x, y |-> at.y, page |-> page]],
                               t |-> [g |-> grid[page], x |-> at.x, y |-> at.y]], string)
    IN  /\ Called /\ OnScreen(b, at.x, at.y)
        /\ vmem' = end.r.mem
        /\ bda' = IF move THEN [b EXCEPT !.cursor[page] = [x |-> end.r.cp.x, y |-> end.r.cp.y]] ELSE b
        /\ crtc' = IF move THEN CursorCrtc(crtc, bda', page) ELSE crtc
        /\ grid' = [grid EXCEPT ![page] = end.t.g]
        /\ UNCHANGED <<saved, proper>>

\* At a position or, when its row is 0xff, at the page's cursor.
Handle1013(page, at, string, move) == WriteString(page, at, string, 1, TRUE, move)
\* A character at the cursor of the active page, in the colours that are there.
Handle100e(car) == WriteString(bda.page, bda.cursor[bda.page], <<car>>, 1, FALSE, TRUE)

\* vgahw_save_state and vgahw_restore_state, save_bda_state and restore_bda_state
HardwareState(c) == [start |-> c.start, cursor |-> c.cursor, vde |-> c.vde]
BdaState(b) == [cols |-> b.cols, rows |-> b.rows, page |-> b.page, cursor |-> b.cursor]

\* handle_101c01, and handle_101c02 of hardware, BIOS data or both
Handle101c01 ==
    /\ Called
    /\ saved' = <<[bda |-> BdaState(bda), crtc |-> HardwareState(crtc), proper |-> proper]>>
    /\ UNCHANGED <<vmem, bda, crtc, grid, proper>>
Handle101c02(hardware, data) ==
    /\ Called /\ saved # <<>>
    /\ crtc' = IF hardware THEN HardwareState(saved[1].crtc) ELSE crtc
    /\ bda' = IF data THEN BdaState(saved[1].bda) ELSE bda
    /\ grid' = Snapshot(vmem, bda')
    /\ proper' = (hardware /\ data /\ saved[1].proper)
    /\ UNCHANGED <<vmem, saved>>

VgaNext ==
    \/ \E m \in Modes, keep \in BOOLEAN : SetMode(m, keep)
    \/ \E p \in Pages, at \in Positions : SetCursorPos(at.x, at.y, p)
    \/ \E p \in Pages : SetActivePage(p)
    \/ \E h \in Fonts : SetScanLines(h)
    \/ \E w \in Windows, n \in ScrollCounts, up \in BOOLEAN : VerifyScroll(w[1], w[2], n, up, 1)
    \/ \E p \in Pages, n \in WriteCounts, use \in BOOLEAN : WriteChars(p, "w", 1, use, n)
    \/ \E p \in Pages, at \in Positions, s \in Strings, move \in BOOLEAN : Handle1013(p, at, s, move)
    \/ \E p \in Pages, s \in Strings, move \in BOOLEAN : Handle1013(p, bda.cursor[p], s, move)
    \/ \E car \in Characters : Handle100e(car)
    \/ Handle101c01
    \/ \E hardware, data \in BOOLEAN : Handle101c02(hardware, data)

VgaSpec == VgaInit /\ [][VgaNext]_vgaVars

----------------------------------------------------------------------------
\* write_teletype, scroll_text, write_chars: each page of the memory shows what
\* a terminal of its own would, whatever is done to the other pages.
ScreenIsTerminal ==
    \A p \in Pages, y \in 0 .. bda.rows - 1, x \in 0 .. bda.cols - 1 :
        vmem[Address(bda, x, y, p)] = grid[p][y][x]

\* set_active_page, "Calculate the address knowing nbcols nbrows and page num":
\* the controller shows the page that characters are written to. The code breaks
\* it (README, "Stated and refuted"), so no passing run lists it.
ShownIsWritten == proper => crtc.start * 2 = MemStart(bda, bda.page)
============================================================================
