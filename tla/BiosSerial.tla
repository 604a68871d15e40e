------------------------------ MODULE BiosSerial ------------------------------
(***************************************************************************)
(* Serial and printer services of the system BIOS                          *)
(* (bios/seabios/src/serial.c).  Ports are detected during POST; a call    *)
(* that sends or receives a character polls the port, yields, and gives up *)
(* when its tick timer says so.  WordSize scales the 16 bits of the timer. *)
(***************************************************************************)
EXTENDS Naturals, Sequences, SequencesExt

CONSTANTS ComPorts, LptPorts, \* addresses in the order they are looked at
          ComTimeout, LptTimeout,
          WordSize

VARIABLES present,       \* ports that are there
          portCom, portLpt, \* port_com, port_lpt of the BDA
          equipment,     \* numbers of ports in equipment_list_flags
          timer,         \* timer_counter, low word
          ready,         \* ports that can take or have a character
          io,            \* the call that is polling
          looked         \* it has polled since the last tick

serVars == <<present, portCom, portLpt, equipment, timer, ready, io, looked>>

NoIo == [port |-> 0, fn |-> "none", last |-> 0, remaining |-> 0]

SerInit == /\ present \in SUBSET (Range(ComPorts) \cup Range(LptPorts))
           /\ portCom = <<>> /\ portLpt = <<>> /\ equipment = <<>>
           /\ timer \in 0..(WordSize - 1)
           /\ ready = {} /\ io = NoIo /\ looked = FALSE

\* serial_setup and lpt_setup, with detect_serial and detect_parport.
SerialSetup ==
    LET Found(ports) == SelectSeq(ports, LAMBDA p : p \in present)
    IN  /\ equipment = <<>>
        /\ portCom' = Found(ComPorts) /\ portLpt' = Found(LptPorts)
        /\ equipment' = <<Len(portCom'), Len(portLpt')>>
        /\ UNCHANGED <<present, timer, ready, io, looked>>

\* getComAddr and getLptAddr: zero for a port that was not found.
GetAddr(ports, dx) == IF dx <= Len(ports) THEN ports[dx] ELSE 0

\* initTickTimer
InitTickTimer(count) == [last |-> timer, remaining |-> count]

\* Calls 1401 (write), 1402 (read) and 1700 (print) start to poll.
Handle14(fn, dx) ==
    LET addr == GetAddr(IF fn = "print" THEN portLpt ELSE portCom, dx)
        tt == InitTickTimer(IF fn = "print" THEN LptTimeout ELSE ComTimeout)
    IN  /\ equipment # <<>> /\ io = NoIo /\ addr # 0
        /\ io' = [port |-> addr, fn |-> fn, last |-> tt.last, remaining |-> tt.remaining]
        /\ looked' = FALSE
        /\ UNCHANGED <<present, portCom, portLpt, equipment, timer, ready>>

\* One turn of the loop: the port is ready.
PollReady == /\ io # NoIo /\ io.port \in ready
             /\ io' = NoIo
             /\ ready' = ready \ {io.port}
             /\ UNCHANGED <<present, portCom, portLpt, equipment, timer, looked>>

\* Mutation of CheckTickTimer: the tick is not noted.
CheckTickTimerKeep(last) == last

\* checkTickTimer: what is counted down is the tick last seen.
CheckTickTimer(last) == IF last = timer THEN last ELSE (timer + WordSize - 1) % WordSize
TimedOut(last) == last # timer /\ CheckTickTimer(last) = 0

\* One turn of the loop: the port is not ready; time out or yield.
PollBusy == /\ io # NoIo /\ io.port \notin ready
            /\ io' = IF TimedOut(io.last) THEN NoIo ELSE [io EXCEPT !.last = CheckTickTimer(@)]
            /\ looked' = TRUE
            /\ UNCHANGED <<present, portCom, portLpt, equipment, timer, ready>>

\* The timer interrupt (BiosClock).  A turn of the loop takes far less than the
\* 55 ms between ticks: a call that polls does so between any two.
SerialTick == /\ io = NoIo \/ looked
              /\ timer' = (timer + 1) % WordSize
              /\ looked' = FALSE
              /\ UNCHANGED <<present, portCom, portLpt, equipment, ready, io>>

\* The device becomes ready (external).
PortReady(p) == /\ p \in present \ ready
                /\ ready' = ready \cup {p}
                /\ UNCHANGED <<present, portCom, portLpt, equipment, timer, io, looked>>

SerNext == \/ SerialSetup \/ PollReady \/ PollBusy \/ SerialTick
           \/ \E fn \in {"write", "read", "print"}, dx \in 1..4 : Handle14(fn, dx)
           \/ \E p \in present : PortReady(p)

\* A call keeps polling, the timer keeps ticking.
SerSpec == SerInit /\ [][SerNext]_serVars /\ WF_serVars(PollReady \/ PollBusy) /\ WF_serVars(SerialTick)

----------------------------------------------------------------------------
\* handle_1401, handle_1402, handle_1700, "Timed out": a call ends, whether the
\* port gets ready or not.  (Not when its time limit is over: the timer counts
\* down the tick it saw last and not what remains.)
CallEnds == io # NoIo ~> io = NoIo
============================================================================
