------------------------------ MODULE BiosFloppy ------------------------------
(***************************************************************************)
(* Floppy drives of the system BIOS (bios/seabios/src/floppy.c) and the    *)
(* part of INT 13h (disk.c) that feeds them.  A request turns the motor    *)
(* on, sends a command and waits for the controller's interrupt; the timer *)
(* interrupt counts the motor down, and a wait ends when it is off.        *)
(* Interrupts are taken only where the code yields.                        *)
(***************************************************************************)
EXTENDS Naturals, Sequences

CONSTANTS Ids,                  \* floppy drives, 0 or 1
          Cylinders, Heads, Spt, \* lchs of a drive
          MotorTicks,           \* FLOPPY_MOTOR_TICKS
          BufAddrs, SectorBytes, DmaPage, \* buffers and the 64K rule, scaled
          MaxOps

VARIABLES mapped,     \* drives of floppy_setup
          resetBit,   \* the controller is out of reset (DOR bit 2)
          motors,     \* motors that are on (DOR bits 4, 5)
          counter,    \* floppy_motor_counter
          frs,        \* FRS_TIMEOUT: an interrupt has arrived
          recal,      \* drives recalibrated (floppy_recalibration_status)
          media,      \* drives whose media type is established
          track,      \* floppy_track
          op,         \* the request in progress
          command,    \* the command the controller is executing
          irq,        \* the controller's interrupt line
          result,     \* what the last request returned
          ops         \* bounded

flpVars == <<mapped, resetBit, motors, counter, frs, recal, media, track, op, command, irq, result, ops>>

NoOp == [fn |-> "none", step |-> "none"]
NoCommand == [kind |-> "none"]
Nothing == [status |-> "none"]

FlpInit == /\ mapped \in SUBSET Ids /\ resetBit \in BOOLEAN
           /\ motors = {} /\ counter = 0 /\ frs = FALSE
           /\ recal = {} /\ media = {} /\ track = [d \in Ids |-> 0]
           /\ op = NoOp /\ command = NoCommand /\ irq = FALSE
           /\ result = Nothing /\ ops = 0

\* basic_access: a sector named by cylinder, head and sector as an lba.
ToLba(c, h, s) == (c * Heads + h) * Spt + s - 1
\* lba2chs: what the floppy driver makes of the lba.
Lba2Chs(lba) == LET tmp == lba + 1
                IN  [sector |-> tmp % Spt, head |-> (tmp \div Spt) % Heads,
                     track |-> (tmp \div Spt) \div Heads]

\* Requests that recalibrate the drive first, and those that send a command.
Sends == {"read", "write", "format"}

\* check_recal_drive
MediaKnown(d) == d \in recal /\ d \in media

\* INT 13h, functions 2 to 5: basic_access and disk_1305.  An unknown drive
\* or a place that is not on the disk is refused before anything is done.
Handle13Floppy(fn, d, c, h, s, n, buf) ==
    LET lba == IF fn = "format" THEN h ELSE ToLba(c, h, s)
    IN  /\ op = NoOp /\ ops < MaxOps
        /\ ops' = ops + 1
        /\ IF d \notin mapped \/ n = 0 \/ h >= Heads \/ (fn = "format" /\ n > Spt)
              \/ (fn # "format" /\ (s = 0 \/ c >= Cylinders \/ s > Spt))
           THEN result' = [status |-> "EPARAM"] /\ UNCHANGED op
           ELSE /\ op' = [fn |-> fn, drive |-> d, asked |-> [sector |-> s, head |-> h, track |-> c],
                          lba |-> lba, count |-> n, buf |-> buf,
                          step |-> IF MediaKnown(d) THEN "command" ELSE "recal"]
                /\ UNCHANGED result
        /\ UNCHANGED <<mapped, resetBit, motors, counter, frs, recal, media, track, command, irq>>

\* floppy_reset
FloppyReset(d) == /\ op = NoOp /\ d \in mapped
                  /\ track' = [track EXCEPT ![d] = 0]
                  /\ result' = [status |-> "SUCCESS"]
                  /\ UNCHANGED <<mapped, resetBit, motors, counter, frs, recal, media, op, command, irq, ops>>

\* floppy_cmd, "check for 64K boundary overrun".
Bytes(o) == o.count * (IF o.fn = "format" THEN 4 ELSE SectorBytes)
CrossesPage(o) == o.buf \div DmaPage # (o.buf + Bytes(o) - 1) \div DmaPage

\* The end of a request.
Finish(status) == /\ result' = [status |-> status]
                  /\ op' = NoOp

\* floppy_prepare_controller: the motor is on and its time starts again; a
\* controller that was in reset comes out of it and interrupts.
FloppyPrepareController(next) ==
    /\ frs' = FALSE
    /\ motors' = {op.drive} /\ resetBit' = TRUE
    /\ counter' = MotorTicks
    /\ irq' = (irq \/ ~resetBit)
    /\ op' = [op EXCEPT !.step = IF resetBit THEN next ELSE "awake_" \o next]

\* A request begins its recalibration or its command.
StartCommand ==
    /\ op.step \in {"recal", "command"}
    /\ IF op.step = "command" /\ (op.fn = "verify" \/ CrossesPage(op))
       THEN /\ IF op.fn = "verify" THEN Finish("SUCCESS") ELSE Finish("EBOUNDARY")
            /\ track' = IF op.fn = "verify"
                        THEN [track EXCEPT ![op.drive] = Lba2Chs(op.lba).track] ELSE track
            /\ UNCHANGED <<resetBit, motors, counter, frs, irq>>
       ELSE FloppyPrepareController("send_" \o op.step) /\ UNCHANGED <<result, track>>
    /\ UNCHANGED <<mapped, recal, media, command, ops>>

\* The wait for the interrupt that ends the controller's reset, given up or not.
Awake == /\ op.step \in {"awake_send_recal", "awake_send_command"}
         /\ counter = 0 \/ frs
         /\ op' = [op EXCEPT !.step = IF @ = "awake_send_recal" THEN "send_recal" ELSE "send_command"]
         /\ frs' = (frs /\ counter = 0)
         /\ UNCHANGED <<mapped, resetBit, motors, counter, recal, media, track, command, irq, result, ops>>

\* floppy_pio writes the bytes of the command.
SendCommand ==
    /\ op.step \in {"send_recal", "send_command"}
    /\ LET kind == IF op.step = "send_recal" THEN "recal" ELSE op.fn
       IN  /\ command' = [kind |-> kind, drive |-> op.drive,
                          at |-> IF kind = "format" THEN [sector |-> 0, head |-> op.lba, track |-> 0]
                                 ELSE IF kind = "recal" THEN [sector |-> 0, head |-> 0, track |-> 0]
                                 ELSE Lba2Chs(op.lba)]
           /\ op' = [op EXCEPT !.step = IF kind = "recal" THEN "wait_recal" ELSE "wait_command"]
    /\ UNCHANGED <<mapped, resetBit, motors, counter, frs, recal, media, track, irq, result, ops>>

\* wait_floppy_irq returns: floppy_drive_recal and floppy_media_sense go on
\* whatever the outcome; a command ends with its status, or with a timeout.
RecalDone ==
    /\ op.step = "wait_recal"
    /\ counter = 0 \/ frs
    /\ recal' = recal \cup {op.drive} /\ media' = media \cup {op.drive}
    /\ track' = [track EXCEPT ![op.drive] = 0]
    /\ op' = [op EXCEPT !.step = "command"]
    /\ frs' = (frs /\ counter = 0)
    /\ irq' = (irq \/ counter = 0)    \* floppy_reset_controller interrupts
    /\ command' = NoCommand
    /\ UNCHANGED <<mapped, resetBit, motors, counter, result, ops>>

CommandDone(status) ==
    /\ op.step = "wait_command"
    /\ counter > 0 /\ frs
    /\ status = "EWRITEPROTECT" => op.fn \in {"write", "format"}
    /\ frs' = FALSE
    /\ track' = IF status = "SUCCESS"
                THEN [track EXCEPT ![op.drive] = IF op.fn = "format" THEN 0 ELSE command.at.track]
                ELSE track
    /\ Finish(status)
    /\ command' = NoCommand
    /\ UNCHANGED <<mapped, resetBit, motors, counter, recal, media, irq, ops>>

CommandTimeout == /\ op.step = "wait_command"
                  /\ counter = 0
                  /\ Finish("ETIMEOUT")
                  /\ irq' = TRUE
                  /\ command' = NoCommand
                  /\ UNCHANGED <<mapped, resetBit, motors, counter, frs, recal, media, track, ops>>

\* handle_0e
Handle0e == /\ irq
            /\ frs' = TRUE /\ irq' = FALSE
            /\ UNCHANGED <<mapped, resetBit, motors, counter, recal, media, track, op, command, result, ops>>

\* The points where the code polls or has returned: interrupts can come.
Yielding == op.step \in {"none", "awake_send_recal", "awake_send_command", "wait_recal", "wait_command"}

\* floppy_tick, "time to turn off drive(s)?"
FloppyTick == /\ Yielding /\ counter > 0
              /\ counter' = counter - 1
              /\ motors' = IF counter' = 0 THEN {} ELSE motors
              /\ UNCHANGED <<mapped, resetBit, frs, recal, media, track, op, command, irq, result, ops>>

\* The controller finishes its command (external); with no disk it never does.
ControllerDone == /\ command # NoCommand /\ ~irq
                  /\ irq' = TRUE
                  /\ UNCHANGED <<mapped, resetBit, motors, counter, frs, recal, media, track, op, command, result, ops>>

\* Mutation of Poll: it waits for the interrupt whatever the motor count.
PollIrq == frs /\ (Awake \/ RecalDone \/ \E st \in {"SUCCESS", "ECONTROLLER", "EWRITEPROTECT"} : CommandDone(st))

\* wait_floppy_irq, one look at the count and at the flag.
Poll == Awake \/ RecalDone \/ CommandTimeout
            \/ \E st \in {"SUCCESS", "ECONTROLLER", "EWRITEPROTECT"} : CommandDone(st)

Request == \E fn \in Sends \cup {"verify"}, d \in Ids, c \in 0..Cylinders, h \in 0..Heads,
              s \in 0..(Spt + 1), n \in 0..2, b \in BufAddrs : Handle13Floppy(fn, d, c, h, s, n, b)

FlpNext == \/ Request \/ \E d \in Ids : FloppyReset(d)
           \/ StartCommand \/ SendCommand \/ Poll
           \/ (Yielding /\ Handle0e) \/ FloppyTick \/ ControllerDone

\* The code runs on and the timer ticks; nothing is asked of the controller.
FlpSpec == FlpInit /\ [][FlpNext]_flpVars
               /\ WF_flpVars(StartCommand \/ SendCommand \/ Poll) /\ WF_flpVars(FloppyTick)

----------------------------------------------------------------------------

\* wait_floppy_irq: every request ends, with or without an answer from the
\* controller, because the motor count bounds its waits.
RequestEnds == (op # NoOp) ~> (op = NoOp)

\* disk.c "translate lchs to lba", floppy_read and floppy_write: the sector the
\* controller is told is the one the caller of INT 13h named.
SectorNamed == command # NoCommand /\ command.kind \in {"read", "write"} => command.at = op.asked
============================================================================
