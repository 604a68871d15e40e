-------------------------------- MODULE BiosAta --------------------------------
(***************************************************************************)
(* ATA and ATAPI drives of the system BIOS (bios/seabios/src/ata.c, with   *)
(* the packet commands of blockcmd.c).  During POST one thread per channel *)
(* looks for two devices; the threads take turns where they wait.  Later   *)
(* one request at a time is carried out by PIO or by DMA.  RegBase scales  *)
(* the values of a register, Page the 64K a DMA descriptor stays in.       *)
(***************************************************************************)
EXTENDS Naturals, Sequences, SequencesExt, FiniteSets

CONSTANTS Buses,      \* functions: channel -> [kinds: devices 0 and 1, alone]
          Masters,    \* channels with a bus master
          RegBase, Half28, \* values of a register, and of the 4 bits in DH
          BlockSize, Page, MaxPrd,
          AtaRequests, \* [lba, count, buf, write] asked for
          MaxRequests

VARIABLES bus,      \* what is attached
          scan,     \* per channel, where its detection thread is
          didReset,
          dh,       \* per channel, the device its DH register selects
          nien,     \* per channel, its interrupts are off
          found,    \* drives registered, in order
          req,      \* the request in progress
          prd,      \* DMA descriptors
          taken,    \* registers the drive was given with a command
          done,     \* what the last request returned
          requests  \* bounded

ataVars == <<bus, scan, didReset, dh, nien, found, req, prd, taken, done, requests>>

Channels == DOMAIN bus
Over == [slave |-> 2, step |-> "over"]
NoReq == [step |-> "none"]

AtaInit == /\ bus \in Buses
           /\ scan = [c \in Channels |-> [slave |-> 0, step |-> "powerup"]]
           /\ didReset = [c \in Channels |-> FALSE]
           /\ dh = [c \in Channels |-> 0] /\ nien = [c \in Channels |-> FALSE]
           /\ found = <<>> /\ req = NoReq /\ prd = <<>> /\ taken = <<>>
           /\ done = [status |-> "none"] /\ requests = 0

----------------------------------------------------------------------------
\* Detection.

\* The next device of the channel, or the end of the thread.
NextSlave(c) == scan' = [scan EXCEPT ![c] = IF @.slave = 0 THEN [slave |-> 1, step |-> "powerup"] ELSE Over]

\* What answers when the thread talks to its device: a lone device 0 also
\* answers for device 1.
Kind(c) == IF bus[c].alone THEN bus[c].kinds[1] ELSE bus[c].kinds[scan[c].slave + 1]

\* ata_detect: powerup_await_non_bsy, select, look at the registers; timeout
\* or nothing there goes to the next device.
DetectProbe(c, timeout) ==
    /\ scan[c].step = "powerup"
    /\ IF timeout \/ Kind(c) = "none"
       THEN NextSlave(c) /\ UNCHANGED didReset
       ELSE /\ scan' = [scan EXCEPT ![c].step = "atapi"]
            /\ didReset' = [didReset EXCEPT ![c] = TRUE]   \* ata_reset once
    /\ dh' = IF timeout THEN dh ELSE [dh EXCEPT ![c] = scan[c].slave]
    /\ UNCHANGED <<bus, nien, found, req, prd, taken, done, requests>>

\* send_ata_identity turns interrupts off while it waits.
IdentifyStart(c) ==
    /\ scan[c].step \in {"atapi", "ata"} /\ ~nien[c]
    /\ nien' = [nien EXCEPT ![c] = TRUE]
    /\ UNCHANGED <<bus, scan, didReset, dh, found, req, prd, taken, done, requests>>

\* add_bcv_internal and map_cd_drive, called by init_drive_ata and
\* init_drive_atapi (their order is BiosBoot's and BiosDisk's).
Register(c, kind) == found' = Append(found, [chan |-> c, slave |-> scan[c].slave, kind |-> kind])

\* "device 1 must not be present - skip detection."
AfterFound(c) == IF bus[c].alone /\ scan[c].slave = 0
                 THEN scan' = [scan EXCEPT ![c] = Over] ELSE NextSlave(c)

\* init_drive_atapi, then init_drive_ata; ok: the device answered in time.
IdentifyEnd(c, ok) ==
    LET step == scan[c].step
    IN  /\ step \in {"atapi", "ata"} /\ nien[c]
        /\ nien' = [nien EXCEPT ![c] = FALSE]
        /\ IF ok /\ Kind(c) = step
           THEN Register(c, step) /\ AfterFound(c)
           ELSE /\ UNCHANGED found
                /\ IF step = "atapi" THEN scan' = [scan EXCEPT ![c].step = "rdy"] ELSE NextSlave(c)
        /\ UNCHANGED <<bus, didReset, dh, req, prd, taken, done, requests>>

\* await_rdy before IDENTIFY DEVICE
DetectReady(c, ok) ==
    /\ scan[c].step = "rdy"
    /\ IF ok THEN scan' = [scan EXCEPT ![c].step = "ata"] ELSE NextSlave(c)
    /\ UNCHANGED <<bus, didReset, dh, nien, found, req, prd, taken, done, requests>>

----------------------------------------------------------------------------
\* Requests.

MinOfTwo(a, b) == IF a < b THEN a ELSE b

\* ata_try_dma: descriptors that cover the buffer, none across a page; the
\* empty sequence when DMA cannot be used.
Prd(buf, bytes) ==
    LET Piece(n) == IF n = 0 THEN 0 ELSE Page - (buf % Page) + (n - 1) * Page
        pieces == ((buf % Page) + bytes + Page - 1) \div Page
    IN  [i \in 1..pieces |-> [at |-> buf + Piece(i - 1),
                              len |-> MinOfTwo(bytes, Piece(i)) - Piece(i - 1)]]

TryDma(c, r) == LET p == Prd(r.buf, r.count * BlockSize)
                IN  IF c \in Masters /\ r.buf % 2 = 0 /\ Len(p) <= MaxPrd THEN p ELSE <<>>

\* ata_readwrite: the bytes of the lba and of the count in the registers.
Reg(v, i) == (v \div RegBase ^ i) % RegBase

AtaRegisters(r) ==
    LET ext == r.count >= RegBase \/ r.lba + r.count >= RegBase ^ 3 * Half28
    IN  [ext |-> ext, count |-> Reg(r.count, 0), lba |-> [i \in 0..2 |-> Reg(r.lba, i)],
         device |-> IF ext THEN 0 ELSE (r.lba \div RegBase ^ 3) % Half28,
         count2 |-> IF ext THEN Reg(r.count, 1) ELSE 0,
         lba2 |-> [i \in 0..2 |-> IF ext THEN Reg(r.lba, i + 3) ELSE 0]]

\* process_ata_op and process_atapi_op: a transfer begins.  A CD is read by
\* packet, always with PIO.
StartTransfer(d, r) ==
    LET dma == IF d.kind = "ata" THEN TryDma(d.chan, r) ELSE <<>>
    IN  /\ \A c \in Channels : scan[c] = Over
        /\ req = NoReq /\ requests < MaxRequests
        /\ requests' = requests + 1
        /\ IF d.kind = "atapi" /\ r.write
           THEN done' = [status |-> "EWRITEPROTECT"] /\ UNCHANGED <<req, prd, nien>>
           ELSE /\ req' = [step |-> "select", drive |-> d, ask |-> r, pio |-> dma = <<>>, left |-> r.count]
                /\ prd' = dma
                /\ nien' = [nien EXCEPT ![d.chan] = dma = <<>>]
                /\ UNCHANGED done
        /\ UNCHANGED <<bus, scan, didReset, dh, found, taken>>

\* Mutation of EndTransfer: one that returns without turning them on again when it fails.
EndTransferFail(status, count) == /\ req' = NoReq
                                  /\ nien' = IF status = "SUCCESS" THEN [nien EXCEPT ![req.drive.chan] = FALSE] ELSE nien
                                  /\ done' = [status |-> status, count |-> count]

\* The end of a request; its PIO turned interrupts off.
EndTransfer(status, count) == /\ req' = NoReq
                              /\ nien' = [nien EXCEPT ![req.drive.chan] = FALSE]
                              /\ done' = [status |-> status, count |-> count]

\* send_cmd: wait, select the device, wait again after a change, write the
\* registers.  A timeout before the command leaves op->count as it was.
SendCmd(timeout, again) ==
    LET d == req.drive
    IN  /\ req.step = "select"
        /\ again => dh[d.chan] # d.slave
        /\ IF timeout THEN EndTransfer("EBADTRACK", req.ask.count) /\ UNCHANGED <<dh, taken>>
           ELSE /\ dh' = [dh EXCEPT ![d.chan] = d.slave]
                /\ IF again THEN EndTransfer("EBADTRACK", req.ask.count) /\ UNCHANGED taken
                   ELSE /\ taken' = <<[chan |-> d.chan, slave |-> d.slave,
                                       regs |-> AtaRegisters(req.ask), ask |-> req.ask]>>
                        /\ req' = [req EXCEPT !.step = IF req.pio THEN "data" ELSE "dma"]
                        /\ UNCHANGED <<nien, done>>
        /\ UNCHANGED <<bus, scan, didReset, found, prd, requests>>

\* ata_wait_data, and for a packet command sending the packet and waiting.
WaitData(ok) ==
    /\ req.step = "data"
    /\ IF ok THEN req' = [req EXCEPT !.step = "blocks"] /\ UNCHANGED <<nien, done>>
       ELSE EndTransfer("EBADTRACK", req.ask.count)
    /\ UNCHANGED <<bus, scan, didReset, dh, found, prd, taken, requests>>

\* ata_pio_transfer: a block, and the drive's status after it.
PioBlock(st) ==
    /\ req.step = "blocks"
    /\ IF st = "timeout" THEN EndTransfer("EBADTRACK", req.ask.count - req.left)
       ELSE IF req.left = 1
       THEN EndTransfer(IF st = "ok" THEN "SUCCESS" ELSE "EBADTRACK", req.ask.count)
       ELSE IF st = "error" THEN EndTransfer("EBADTRACK", req.ask.count - (req.left - 1))
       ELSE req' = [req EXCEPT !.left = @ - 1] /\ UNCHANGED <<nien, done>>
    /\ UNCHANGED <<bus, scan, didReset, dh, found, prd, taken, requests>>

\* ata_dma_transfer
DmaEnd(ok) ==
    /\ req.step = "dma"
    /\ IF ok THEN EndTransfer("SUCCESS", req.ask.count) ELSE EndTransfer("EBADTRACK", 0)
    /\ UNCHANGED <<bus, scan, didReset, dh, found, prd, taken, requests>>

\* process_ata_misc_op, reset: ata_reset selects the device and ends with
\* interrupts on, whatever timed out.
AtaReset(d, ok) ==
    /\ \A c \in Channels : scan[c] = Over
    /\ req = NoReq /\ requests < MaxRequests
    /\ requests' = requests + 1
    /\ dh' = IF ok THEN [dh EXCEPT ![d.chan] = d.slave] ELSE dh
    /\ done' = [status |-> "SUCCESS"]
    /\ UNCHANGED <<bus, scan, didReset, nien, found, req, prd, taken>>

AtaNext ==
    \/ \E c \in Channels : \/ IdentifyStart(c)
                           \/ \E b \in BOOLEAN : DetectProbe(c, b) \/ IdentifyEnd(c, b) \/ DetectReady(c, b)
    \/ \E i \in 1..Len(found) : \/ \E r \in AtaRequests : StartTransfer(found[i], r)
                                \/ \E ok \in BOOLEAN : AtaReset(found[i], ok)
    \/ \E b, again \in BOOLEAN : SendCmd(b, again)
    \/ \E b \in BOOLEAN : WaitData(b) \/ DmaEnd(b)
    \/ \E st \in {"ok", "error", "timeout"} : PioBlock(st)

AtaSpec == AtaInit /\ [][AtaNext]_ataVars

----------------------------------------------------------------------------
\* ata_detect: with the channels' threads in any order and any timeouts, no
\* drive is registered twice and none for a device that is not there.
NoShadowDrive ==
    /\ \A i \in 1..Len(found) : LET f == found[i] IN
           IF bus[f.chan].alone THEN f.slave = 0 => f.kind = bus[f.chan].kinds[1]
           ELSE f.kind = bus[f.chan].kinds[f.slave + 1]
    /\ \A c \in Channels : bus[c].alone => Cardinality({i \in 1..Len(found) : found[i].chan = c}) <= 1
    /\ \A i, j \in 1..Len(found) : i # j => found[i] # found[j]

\* ata_pio_cmd_data, atapi_cmd_data "Enable interrupts": between requests, and
\* after any failure of one, the drives' interrupts are on.
InterruptsBack == (req = NoReq /\ \A c \in Channels : scan[c] = Over) => \A c \in Channels : ~nien[c]

\* ata_readwrite: the first sector and the number of sectors the drive takes
\* from its registers (48-bit form or 28-bit form) are the ones asked for.
Decoded(g) ==
    LET Val(f, n) == f[0] + f[1] * RegBase + f[2] * RegBase ^ 2 + n * RegBase ^ 3
        n == g.count + g.count2 * RegBase
    IN  [lba |-> IF g.ext THEN Val(g.lba, Val(g.lba2, 0)) ELSE Val(g.lba, g.device),
         count |-> IF n = 0 THEN (IF g.ext THEN RegBase ^ 2 ELSE RegBase) ELSE n]
DriveDecodes == taken # <<>> => /\ Decoded(taken[1].regs).lba = taken[1].ask.lba
                                /\ Decoded(taken[1].regs).count = taken[1].ask.count

\* ata_try_dma: the descriptors cover the caller's buffer, byte for byte, and
\* none crosses a page.
PrdCovers == (req # NoReq /\ prd # <<>>) =>
    LET Cells(p) == p.at..(p.at + p.len - 1)
    IN  /\ UNION {Cells(prd[i]) : i \in 1..Len(prd)} = req.ask.buf..(req.ask.buf + req.ask.count * BlockSize - 1)
        /\ \A i \in 1..Len(prd) : /\ prd[i].len > 0
                                  /\ prd[i].at \div Page = (prd[i].at + prd[i].len - 1) \div Page

\* ata.c: drives are found as they are, and a request reaches the drive and the
\* memory it names, and leaves the channel ready for the next.
AtaSound == NoShadowDrive /\ InterruptsBack /\ DriveDecodes /\ PrdCovers
============================================================================
