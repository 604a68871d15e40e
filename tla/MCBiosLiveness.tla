--------------------------- MODULE MCBiosLiveness ---------------------------
(***************************************************************************)
(* What must come to an end in the system BIOS: the wait for threads, the  *)
(* search for USB devices, a floppy request, a serial or printer call.     *)
(* The modules share no variable: a behaviour runs one of them, the others *)
(* stay in one of their initial states.                                    *)
(***************************************************************************)
EXTENDS TLC, BiosThreads, BiosUsb, BiosFloppy, BiosSerial

CONSTANTS Parts, r1, r2, h1, h2
VARIABLE part

AnyOf(S) == CHOOSE x \in S : TRUE

MCPlugged == {(r1 :> a) @@ (r2 :> b) @@ (h1 :> c) @@ (h2 :> "disk") :
                 a \in {"hub", "disk"}, b \in {"keyboard", "other"}, c \in {"keyboard", "nothing"}}
MCComPorts == <<1, 2>>
MCLptPorts == <<3>>

----------------------------------------------------------------------------
LivenessInit ==
    /\ part \in Parts
    /\ part = "usb" \/ plugged = AnyOf(Plugged)
    /\ part = "floppy" \/ (mapped = {} /\ resetBit = TRUE)
    /\ part = "serial" \/ (present = {} /\ timer = 0)
    /\ ThrInit /\ UsbInit /\ FlpInit /\ SerInit

LivenessNext ==
    /\ UNCHANGED part
    /\ \/ part = "threads" /\ ThrNext /\ UNCHANGED <<usbVars, flpVars, serVars>>
       \/ part = "usb" /\ UsbNext /\ UNCHANGED <<thrVars, flpVars, serVars>>
       \/ part = "floppy" /\ FlpNext /\ UNCHANGED <<thrVars, usbVars, serVars>>
       \/ part = "serial" /\ SerNext /\ UNCHANGED <<thrVars, usbVars, flpVars>>

\* The fairness of each module, of the part that runs.
LivenessFairness ==
    /\ \A t \in Threads : SF_thrVars(part = "threads" /\ cur = t /\ EndThread)
    /\ \A t \in Threads \cup {Main} : SF_thrVars(part = "threads" /\ cur = t /\ MutexUnlock)
    /\ \A t \in Threads : SF_thrVars(part = "threads" /\ cur = t /\ pc[t] = "lock" /\ MutexLock)
    /\ WF_thrVars(part = "threads" /\ pc[cur] = "waitrom" /\ WaitPreempt)
    /\ WF_thrVars(part = "threads" /\ Yield)
    /\ WF_thrVars(part = "threads" /\ WaitThreads)
    /\ WF_thrVars(part = "threads" /\ FinishPreempt)
    /\ WF_thrVars(part = "threads" /\ cur = Main /\ pc[Main] = "lock" /\ MutexLock)
    /\ \A p \in Ports : WF_usbVars(part = "usb" /\ PortStep(p))
    /\ WF_flpVars(part = "floppy" /\ (StartCommand \/ SendCommand \/ Poll))
    /\ WF_flpVars(part = "floppy" /\ FloppyTick)
    /\ WF_serVars(part = "serial" /\ (PollReady \/ PollBusy))
    /\ WF_serVars(part = "serial" /\ SerialTick)

livenessVars == <<part, thrVars, usbVars, flpVars, serVars>>
LivenessSpec == LivenessInit /\ [][LivenessNext]_livenessVars /\ LivenessFairness
=============================================================================
