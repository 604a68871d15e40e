------------------------------- MODULE BiosOhci --------------------------------
(***************************************************************************)
(* The OHCI driver of the system BIOS (bios/seabios/src/usb-ohci.c):       *)
(* threads add control pipes, send messages through them and free them     *)
(* while the controller walks the list; the ring of an interrupt pipe.     *)
(***************************************************************************)
EXTENDS Naturals, Sequences

CONSTANTS OPipes,     \* memory of pipes
          MaxMessages,
          OTds,       \* count of an interrupt pipe
          MaxOReports, MaxPolls

VARIABLES edHead,     \* ed_controlhead, 0 at the end of a list
          nextEd,     \* hwNextED
          opipe,      \* per pipe: step of its thread, hwINFO's skip, frame seen
          cle,        \* OHCI_CTRL_CLE as written
          latched,    \* the controller looks at it when a frame starts
          current,    \* ed_controlcurrent: kept from frame to frame
          flying,     \* the pipe whose transfer descriptor is worked on, or 0
          oframe, messages

listVars == <<edHead, nextEd, opipe, cle, latched, current, flying, oframe, messages>>

NoPipe == [step |-> "free", skip |-> TRUE, tick |-> 0, owner |-> FALSE]

\* configure_ohci, start_ohci
ListInit == /\ edHead = 0 /\ nextEd = [p \in OPipes |-> 0]
            /\ opipe = [p \in OPipes |-> NoPipe]
            /\ cle = TRUE /\ latched = TRUE /\ current = 0 /\ flying = 0
            /\ oframe = 0 /\ messages = 0

\* ohci_alloc_control_pipe
OhciAllocControlPipe(p) ==
    /\ opipe[p].step = "free"
    /\ opipe' = [opipe EXCEPT ![p].step = "idle"]
    /\ nextEd' = [nextEd EXCEPT ![p] = edHead] /\ edHead' = p
    /\ UNCHANGED <<cle, latched, current, flying, oframe, messages>>

\* ohci_control, up to wait_ed
OhciControl(p) ==
    /\ opipe[p].step = "idle" /\ messages < MaxMessages
    /\ messages' = messages + 1
    /\ opipe' = [opipe EXCEPT ![p].step = "busy", ![p].skip = FALSE]
    /\ UNCHANGED <<edHead, nextEd, cle, latched, current, flying, oframe>>

\* wait_ed has failed: skip the endpoint, wait for the next frame.
ControlTimeout(p) ==
    /\ opipe[p].step = "busy"
    /\ opipe' = [opipe EXCEPT ![p].step = "stopping", ![p].skip = TRUE, ![p].tick = oframe]
    /\ UNCHANGED <<edHead, nextEd, cle, latched, current, flying, oframe, messages>>

\* Mutation of ControlEnds: one that does not wait for the frame.
ControlEndsNow(p) ==
    /\ opipe[p].step = "stopping"
    /\ opipe' = [opipe EXCEPT ![p].step = "idle"]
    /\ UNCHANGED <<edHead, nextEd, cle, latched, current, flying, oframe, messages>>

\* ohci_waittick returns, free(tds)
ControlEnds(p) ==
    /\ opipe[p].step = "stopping" /\ oframe # opipe[p].tick
    /\ opipe' = [opipe EXCEPT ![p].step = "idle"]
    /\ UNCHANGED <<edHead, nextEd, cle, latched, current, flying, oframe, messages>>

\* ohci_free_pipe and the start of signal_freelist: whoever finds the list
\* enabled disables it; the others only wait.
OhciUnlink(p) ==
    /\ opipe[p].step = "idle"
    /\ edHead' = IF edHead = p THEN nextEd[p] ELSE edHead
    /\ nextEd' = [q \in OPipes |->
                    IF nextEd[q] = p /\ opipe[q].step \notin {"free", "leaving"} THEN nextEd[p] ELSE nextEd[q]]
    /\ opipe' = [opipe EXCEPT ![p].step = "leaving", ![p].tick = oframe, ![p].owner = cle]
    /\ cle' = FALSE
    /\ UNCHANGED <<latched, current, flying, oframe, messages>>

\* The end of signal_freelist, and free(pipe).
OhciFree(p) ==
    /\ opipe[p].step = "leaving" /\ oframe # opipe[p].tick
    /\ opipe' = [opipe EXCEPT ![p] = NoPipe]
    /\ IF opipe[p].owner THEN current' = 0 /\ cle' = TRUE ELSE UNCHANGED <<current, cle>>
    /\ UNCHANGED <<edHead, nextEd, latched, flying, oframe, messages>>

\* The controller (external): a frame ends when no transfer is in the air; in
\* a frame it starts at the head, or goes on where it was.
HcFrame == /\ flying = 0
           /\ oframe' = (oframe + 1) % 4 /\ latched' = cle
           /\ UNCHANGED <<edHead, nextEd, opipe, cle, current, flying, messages>>
HcList == /\ latched /\ flying = 0
          /\ current' = IF current = 0 THEN edHead ELSE nextEd[current]
          /\ UNCHANGED <<edHead, nextEd, opipe, cle, latched, flying, oframe, messages>>
HcTransfer == /\ latched /\ flying = 0 /\ current # 0 /\ ~opipe[current].skip
              /\ flying' = current
              /\ UNCHANGED <<edHead, nextEd, opipe, cle, latched, current, oframe, messages>>
\* The transfer goes on later, or it is the message's last one and wait_ed
\* finds the list of transfers empty.
HcRetire(last) ==
    /\ flying # 0 /\ flying' = 0
    /\ opipe' = IF last /\ opipe[flying].step = "busy"
                THEN [opipe EXCEPT ![flying].step = "idle", ![flying].skip = TRUE] ELSE opipe
    /\ UNCHANGED <<edHead, nextEd, cle, latched, current, oframe, messages>>

ListNext == \/ HcFrame \/ HcList \/ HcTransfer \/ HcRetire(TRUE) \/ HcRetire(FALSE)
            \/ \E p \in OPipes : \/ OhciAllocControlPipe(p) \/ OhciControl(p) \/ ControlTimeout(p)
                                 \/ ControlEnds(p) \/ OhciUnlink(p) \/ OhciFree(p)

----------------------------------------------------------------------------
\* The interrupt pipe of a keyboard.  hwHeadP is an index and, in its bit 1
\* (ED_C), the toggle the controller carries from report to report.
VARIABLES hwHead, carry, hwTail,
          odata,    \* per descriptor: the report in its buffer, 0 for none
          oreports, opolled

ringVarsO == <<hwHead, carry, hwTail, odata, oreports, opolled>>

\* ohci_alloc_intr_pipe
RingInitO == /\ hwHead = 0 /\ carry = 0 /\ hwTail = OTds - 1
             /\ odata = [i \in 0 .. OTds - 1 |-> 0]
             /\ oreports = 0 /\ opolled = <<>>

\* The controller (external) stores a report of the device.
HcReportO == /\ hwHead # hwTail /\ oreports < MaxOReports
             /\ odata' = [odata EXCEPT ![hwHead] = oreports + 1]
             /\ oreports' = oreports + 1
             /\ hwHead' = (hwHead + 1) % OTds /\ carry' = 1 - carry
             /\ UNCHANGED <<hwTail, opolled>>

\* ohci_poll_intr: hwHeadP is compared as it is.
OhciPollIntr ==
    LET pos == (hwTail + 1) % OTds
    IN  /\ Len(opolled) < MaxPolls
        /\ ~(hwHead = pos /\ carry = 0)
        /\ opolled' = Append(opolled, odata[pos])
        /\ hwTail' = pos
        /\ UNCHANGED <<hwHead, carry, odata, oreports>>

RingNextO == HcReportO \/ OhciPollIntr

OhciInit == ListInit /\ RingInitO
OhciNext == \/ ListNext /\ UNCHANGED ringVarsO
            \/ RingNextO /\ UNCHANGED listVars
OhciSpec == OhciInit /\ [][OhciNext]_<<listVars, ringVarsO>>

----------------------------------------------------------------------------
\* ohci_waittick, "for ensuring safe memory release": the controller reads no
\* pipe that was freed, and works on no descriptor of a message that is over.
OhciMemorySafe ==
    /\ latched /\ current # 0 => opipe[current].step # "free"
    /\ flying # 0 => opipe[flying].step \in {"busy", "stopping"}

\* ohci_poll_intr, "No intrs found": what it hands over is the reports of the
\* device, in order, each once.
OhciReportsInOrder == \A i \in 1 .. Len(opolled) : opolled[i] = i
============================================================================
