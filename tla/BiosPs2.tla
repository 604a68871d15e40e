------------------------------- MODULE BiosPs2 -------------------------------
(***************************************************************************)
(* The PS/2 port of the system BIOS (bios/seabios: ps2port.c, mouse.c).    *)
(* ps2ctr is the setting of the controller the BIOS remembers, ctr what    *)
(* the controller has.  A command turns interrupts and the other device    *)
(* off, talks to its device byte by byte, and puts the setting back.  The  *)
(* controller or the device may fail to answer at every step, and devices  *)
(* send data of their own until they get a command.  Programs enter the    *)
(* BIOS one at a time.  Bytes carry the number of the command they answer  *)
(* (0: data of the device's own).                                          *)
(***************************************************************************)
EXTENDS Naturals, Sequences, FiniteSets

CONSTANTS MaxCmds, MaxData, \* bounds on commands and on data
          Late              \* can a device answer after the time limit?

VARIABLES ps2ctr,    \* of the EBDA: subset of the bits below
          ctr,       \* of the controller
          ctrFailed, \* the controller did not take the setting back
          cmd,       \* the command being carried out
          queue,     \* bytes a device has not yet sent; port to sequence
          obf,       \* output buffer of the controller: <<>> or <<[port, byte]>>
          initStep,  \* keyboard_init, the commands it has still to give
          installed, index, pkg, \* mouse_flag2, mouse_flag1
          packet,    \* mouse_data
          cmds, data \* bounded

ps2Vars == <<ps2ctr, ctr, ctrFailed, cmd, queue, obf, initStep, installed, index, pkg, packet, cmds, data>>
mouseVars == <<installed, index, pkg, packet>>

Kbd == 0
Aux == 1
Dis(port) == IF port = Aux THEN "AUXDIS" ELSE "KBDDIS"
Idle == [at |-> "idle", port |-> Kbd, kind |-> "none", old |-> {}, send |-> 0, recv |-> 0, got |-> <<>>, ok |-> TRUE]

\* send and receive of a command, in bytes (the numbers of its encoding).
Send(kind) == IF kind \in {"setleds", "setrate", "setres", "sscanset"} THEN 1 ELSE 0
Recv(kind) == IF kind \in {"reset", "getid", "getinfo"} THEN 2 ELSE 0

\* keyboard_init, after the tests of the controller: ps2ctr disables both.
Ps2Init == /\ ps2ctr = {"KBDDIS", "AUXDIS"} /\ ctr \in {{"KBDDIS", "AUXDIS"}, {}}
           /\ ctrFailed = FALSE /\ cmd = Idle
           /\ queue = [p \in {Kbd, Aux} |-> <<>>] /\ obf = <<>>
           /\ initStep = <<"reset", "resetdis", "sscanset", "enable">>
           /\ installed = FALSE /\ index = 0 /\ pkg = 0 /\ packet = <<>>
           /\ cmds = 0 /\ data = 0

----------------------------------------------------------------------------
\* ps2_command: the setting is read, then both devices are disabled.
Ps2Command(port, kind, set) ==
    LET off == (set \cup {"AUXDIS", "KBDDIS"}) \ {"KBDINT", "AUXINT"}
    IN  /\ cmd.at = "idle" /\ cmds < MaxCmds
        /\ cmds' = cmds + 1
        /\ ps2ctr' = set
        /\ \/ /\ ctr' = off
              /\ cmd' = [at |-> "flush", port |-> port, kind |-> kind, old |-> set,
                         send |-> Send(kind) + 1, recv |-> Recv(kind), got |-> <<>>, ok |-> TRUE]
              /\ UNCHANGED <<ctrFailed, initStep>>
           \/ /\ ctrFailed' = TRUE    \* i8042_wait_write timed out
              /\ initStep' = <<>>
              /\ UNCHANGED <<ctr, cmd>>
        /\ UNCHANGED <<queue, obf, data>>

\* ps2_command, after the yield: the port of the device is enabled.
Ps2Enable ==
    /\ cmd.at = "flush" /\ obf = <<>>
    /\ \/ /\ ctr' = ctr \ {Dis(cmd.port)}
          /\ cmd' = [cmd EXCEPT !.at = "send"]
       \/ /\ cmd' = [cmd EXCEPT !.at = "restore", !.ok = FALSE]
          /\ UNCHANGED ctr
    /\ UNCHANGED <<ps2ctr, ctrFailed, queue, obf, initStep, mouseVars, cmds, data>>

\* ps2_sendbyte: the device (external) acknowledges, refuses or is not there.
Ps2Sendbyte ==
    LET last == cmd.send = 1
        replies == [i \in 1..cmd.recv |-> <<"reply", cmds>>]
        Answer(bytes) == queue' = [queue EXCEPT ![cmd.port] = @ \o bytes]
    IN  /\ cmd.at = "send"
        /\ \/ /\ cmd' = [cmd EXCEPT !.at = "ack", !.send = @ - 1]
              /\ \/ Answer(<<<<"ack", cmds>>>> \o IF last THEN replies ELSE <<>>)
                 \/ Answer(<<<<"nak", cmds>>>>)
                 \/ UNCHANGED queue
           \/ /\ cmd' = [cmd EXCEPT !.at = "restore", !.ok = FALSE]
              /\ UNCHANGED queue
        /\ UNCHANGED <<ps2ctr, ctr, ctrFailed, obf, initStep, mouseVars, cmds, data>>

\* Mutation of Ps2Recvbyte: data that comes before the acknowledgement is kept.
Ps2RecvbyteAny ==
    /\ cmd.at \in {"ack", "recv"} /\ obf # <<>> /\ obf' = <<>>
    /\ cmd' = IF cmd.at = "ack" /\ cmd.send > 0 THEN [cmd EXCEPT !.at = "send"]
              ELSE IF cmd.at = "ack" THEN [cmd EXCEPT !.at = IF cmd.recv = 0 THEN "restore" ELSE "recv"]
              ELSE [cmd EXCEPT !.recv = @ - 1, !.got = Append(@, obf[1].byte),
                               !.at = IF cmd.recv = 1 THEN "restore" ELSE "recv"]
    /\ UNCHANGED <<ps2ctr, ctr, ctrFailed, queue, initStep, mouseVars, cmds, data>>

\* ps2_recvbyte: waits for an acknowledgement, or takes a parameter.
Ps2Recvbyte ==
    LET b == obf[1].byte
        mine == obf[1].port = cmd.port
    IN  /\ cmd.at \in {"ack", "recv"} /\ obf # <<>> /\ obf' = <<>>
        /\ cmd' =
            IF ~mine \/ (cmd.at = "ack" /\ b[1] \notin {"ack", "nak"}) THEN cmd
            ELSE IF cmd.at = "recv"
            THEN [cmd EXCEPT !.recv = @ - 1, !.got = Append(@, b),
                             !.at = IF cmd.recv = 1 THEN "restore" ELSE "recv"]
            ELSE IF b[1] = "nak" THEN [cmd EXCEPT !.at = "restore", !.ok = FALSE]
            ELSE [cmd EXCEPT !.at = IF cmd.send > 0 THEN "send"
                                    ELSE IF cmd.recv = 0 THEN "restore" ELSE "recv"]
        /\ UNCHANGED <<ps2ctr, ctr, ctrFailed, queue, initStep, mouseVars, cmds, data>>

\* ps2_recvbyte gives up; the second byte of a reset need not come.
Ps2Timeout ==
    /\ cmd.at \in {"ack", "recv"} /\ obf = <<>>
    /\ Late \/ queue[cmd.port] = <<>>
    /\ cmd' = [cmd EXCEPT !.at = "restore", !.ok = (cmd.kind = "reset" /\ cmd.recv = 1 /\ cmd.at = "recv")]
    /\ UNCHANGED <<ps2ctr, ctr, ctrFailed, queue, obf, initStep, mouseVars, cmds, data>>

\* ps2_command, fail: the setting is put back; mouse_15c207 goes on to remove
\* the handler, keyboard_init to its next command unless this one failed.
Ps2Restore ==
    /\ cmd.at = "restore"
    /\ \/ ctr' = cmd.old /\ ctrFailed' = FALSE
       \/ ctrFailed' = TRUE /\ UNCHANGED ctr
    /\ cmd' = Idle
    /\ initStep' = IF cmd.ok /\ ~ctrFailed' /\ initStep # <<>> THEN Tail(initStep) ELSE <<>>
    /\ installed' = (cmd.kind # "remove" /\ installed)
    /\ UNCHANGED <<ps2ctr, queue, obf, index, pkg, packet, cmds, data>>

----------------------------------------------------------------------------
\* keyboard_init; before the last command it turns interrupts on.
KeyboardInit ==
    /\ initStep # <<>>
    /\ Ps2Command(Kbd, Head(initStep), IF Head(initStep) = "enable" THEN {"AUXDIS", "KBDINT"} ELSE ps2ctr)
    /\ UNCHANGED mouseVars

\* handle_160a and set_leds of kbd.c
KbdCommand(kind) ==
    /\ initStep = <<>>
    /\ Ps2Command(Kbd, kind, ps2ctr)
    /\ UNCHANGED mouseVars

\* mouse_15c20000, and mouse_15c207 removing its handler
DisableMouse(kind) ==
    /\ initStep = <<>> /\ (kind = "remove" => installed)
    /\ Ps2Command(Aux, kind, (ps2ctr \cup {"AUXDIS"}) \ {"AUXINT"})
    /\ UNCHANGED mouseVars

\* mouse_15c20001
EnableMouse ==
    /\ initStep = <<>> /\ installed
    /\ Ps2Command(Aux, "enable", (ps2ctr \cup {"AUXINT"}) \ {"AUXDIS"})
    /\ UNCHANGED mouseVars

\* mouse_15c201..206: a command; 205 forgets the handler as well.
MouseCommand(kind, init) ==
    /\ initStep = <<>>
    /\ Ps2Command(Aux, kind, ps2ctr)
    /\ IF init THEN installed' = FALSE /\ pkg' = 3 /\ index' = 0 /\ UNCHANGED packet
       ELSE UNCHANGED mouseVars

\* mouse_15c207, installing
SetHandler ==
    /\ initStep = <<>> /\ cmd.at = "idle" /\ ~installed
    /\ installed' = TRUE
    /\ UNCHANGED <<ps2ctr, ctr, ctrFailed, cmd, queue, obf, initStep, index, pkg, packet, cmds, data>>

\* process_mouse: the handler is called with the last byte of a packet.
ProcessMouse(b) ==
    IF ~installed THEN UNCHANGED mouseVars
    ELSE /\ packet' = IF index = 0 THEN <<b>> ELSE Append(packet, b)
         /\ index' = IF index + 1 < pkg THEN index + 1 ELSE 0
         /\ UNCHANGED <<installed, pkg>>

\* handle_74 and handle_09: the byte that raised the interrupt; also in the yield
\* of ps2_command.  Keys are left to BiosKeyboard.
Handle74 ==
    /\ cmd.at \in {"idle", "flush"} /\ obf # <<>>
    /\ obf' = <<>>
    /\ IF obf[1].port = Aux /\ "AUXINT" \in ps2ctr THEN ProcessMouse(obf[1].byte) ELSE UNCHANGED mouseVars
    /\ UNCHANGED <<ps2ctr, ctr, ctrFailed, cmd, queue, initStep, cmds, data>>

\* The controller takes a byte from a device that is not disabled (external).
Deliver(port) ==
    /\ obf = <<>> /\ queue[port] # <<>> /\ Dis(port) \notin ctr
    /\ obf' = <<[port |-> port, byte |-> Head(queue[port])]>>
    /\ queue' = [queue EXCEPT ![port] = Tail(@)]
    /\ UNCHANGED <<ps2ctr, ctr, ctrFailed, cmd, initStep, mouseVars, cmds, data>>

\* A device sends data, unless it is working on a command (external).
DeviceData(port) ==
    /\ data < MaxData
    /\ cmd.at \notin {"ack", "recv"} \/ cmd.port # port
    /\ data' = data + 1
    /\ queue' = [queue EXCEPT ![port] = Append(@, <<"data", 0>>)]
    /\ UNCHANGED <<ps2ctr, ctr, ctrFailed, cmd, obf, initStep, mouseVars, cmds>>

Ps2Next == \/ Ps2Enable \/ Ps2Sendbyte \/ Ps2Recvbyte \/ Ps2Timeout \/ Ps2Restore
           \/ KeyboardInit \/ EnableMouse \/ SetHandler \/ Handle74
           \/ \E kind \in {"setleds", "getid"} : KbdCommand(kind)
           \/ \E kind \in {"disable", "remove"} : DisableMouse(kind)
           \/ \E kind \in {"setrate", "getinfo"} : MouseCommand(kind, FALSE)
           \/ \E init \in BOOLEAN : MouseCommand("reset", init)
           \/ \E port \in {Kbd, Aux} : Deliver(port) \/ DeviceData(port)

Ps2Spec == Ps2Init /\ [][Ps2Next]_ps2Vars

----------------------------------------------------------------------------
\* ps2_command: however a command ends, the controller is set as the BIOS
\* remembers it, unless the controller itself refused.
CtrRestored == cmd.at = "idle" /\ cmds > 0 /\ ~ctrFailed => ctr = ps2ctr

\* ps2_recvbyte, "This data not part of command - just discard it.": what is
\* taken as an answer answers this command.
AnswerIsOwn == \A i \in 1..Len(cmd.got) : cmd.got[i] = <<"reply", cmds>>

\* ps2port.c: a command takes its own answers only, and leaves the controller as
\* it is remembered.
CommandsSound == AnswerIsOwn /\ CtrRestored
============================================================================
