------------------------------- MODULE BiosUhci --------------------------------
(***************************************************************************)
(* The UHCI driver of the system BIOS (bios/seabios/src/usb-uhci.c): the   *)
(* schedule of queue heads the controller walks while threads add and free *)
(* pipes, the ring of transfer descriptors uhci_send_bulk fills while the  *)
(* controller empties it, and the ring of an interrupt pipe.               *)
(***************************************************************************)
EXTENDS Naturals, Sequences, FiniteSets

CONSTANTS Pipes,       \* memory of pipes
          Frames,      \* entries of the frame list, a power of 2
          MaxExp,      \* largest frameexp
          StackTds,    \* STACKTDS
          MaxPackets,  \* packets of a transfer
          MaxTransfers,
          IntrTds,     \* count of an interrupt pipe, even
          MaxReports

VARIABLES link,       \* per queue head: the next one
          frameLinks, \* framelist->links
          controlQh, bulkQh,
          pipe,       \* per pipe: "free", "control", "bulk", "leaving", frameexp
          at,         \* the queue head the controller reads
          frame,      \* USBFRNUM
          tick        \* per pipe being freed: the frame uhci_waittick saw

schedVars == <<link, frameLinks, controlQh, bulkQh, pipe, at, frame, tick>>

\* configure_uhci
SchedInit == /\ link = [q \in Pipes \cup {"intr", "term"} |-> IF q = "intr" THEN "term" ELSE "TERM"]
             /\ frameLinks = [f \in 0 .. Frames - 1 |-> "intr"]
             /\ controlQh = "intr" /\ bulkQh = "intr"
             /\ pipe = [p \in Pipes |-> [kind |-> "free", exp |-> 0]]
             /\ at = "TERM" /\ frame = 0
             /\ tick = [p \in Pipes |-> 0]

Add(p, kind, exp) == /\ pipe[p].kind = "free"
                     /\ pipe' = [pipe EXCEPT ![p] = [kind |-> kind, exp |-> exp]]
After(q, p) == link' = [link EXCEPT ![p] = link[q], ![q] = p]

\* uhci_alloc_control_pipe
AllocControlPipe(p) ==
    /\ Add(p, "control", 0) /\ After(controlQh, p)
    /\ bulkQh' = IF bulkQh = controlQh THEN p ELSE bulkQh
    /\ UNCHANGED <<frameLinks, controlQh, at, frame, tick>>

\* uhci_alloc_bulk_pipe
AllocBulkPipe(p) ==
    /\ Add(p, "bulk", 0) /\ After(bulkQh, p)
    /\ UNCHANGED <<frameLinks, controlQh, bulkQh, at, frame, tick>>

\* uhci_alloc_intr_pipe: every frame, or every 2^exp frames.
StartPos(exp) == 2 ^ (exp - 1)

AllocIntrPipe(p, exp) ==
    /\ Add(p, "interrupt", exp)
    /\ IF exp = 0
       THEN /\ After(frameLinks[0], p)
            /\ controlQh' = IF controlQh = frameLinks[0] THEN p ELSE controlQh
            /\ bulkQh' = IF bulkQh = frameLinks[0] THEN p ELSE bulkQh
            /\ UNCHANGED frameLinks
       ELSE /\ link' = [link EXCEPT ![p] = frameLinks[StartPos(exp)]]
            /\ frameLinks' = [f \in DOMAIN frameLinks |->
                                IF f >= StartPos(exp) /\ (f - StartPos(exp)) % (2 ^ exp) = 0
                                THEN p ELSE frameLinks[f]]
            /\ UNCHANGED <<controlQh, bulkQh>>
    /\ UNCHANGED <<at, frame, tick>>

\* uhci_free_pipe of a control or bulk pipe: out of the list (it is found on
\* the walk from links[0]), then wait for the next frame.
UnlinkPipe(p) ==
    /\ pipe[p].kind \in {"control", "bulk"}
    /\ \E pos \in DOMAIN link :
          /\ link[pos] = p
          /\ pos \in {"intr"} \cup {q \in Pipes : pipe[q].kind \notin {"free", "leaving"}}
          /\ link' = [link EXCEPT ![pos] = link[p]]
          /\ controlQh' = IF controlQh = p THEN pos ELSE controlQh
          /\ bulkQh' = IF bulkQh = p THEN pos ELSE bulkQh
    /\ pipe' = [pipe EXCEPT ![p].kind = "leaving"]
    /\ tick' = [tick EXCEPT ![p] = frame]
    /\ UNCHANGED <<frameLinks, at, frame>>

\* Mutation of FreePipe: one that does not wait.
FreePipeNow(p) ==
    /\ pipe[p].kind = "leaving"
    /\ pipe' = [pipe EXCEPT ![p] = [kind |-> "free", exp |-> 0]]
    /\ UNCHANGED <<link, frameLinks, controlQh, bulkQh, at, frame, tick>>

\* uhci_waittick returns, free(pipe); its memory may hold something else.
FreePipe(p) ==
    /\ pipe[p].kind = "leaving" /\ frame # tick[p]
    /\ pipe' = [pipe EXCEPT ![p] = [kind |-> "free", exp |-> 0]]
    /\ UNCHANGED <<link, frameLinks, controlQh, bulkQh, at, frame, tick>>

\* The controller walks the list of the frame, then starts the next frame.
HcWalk == /\ IF at = "TERM" THEN /\ frame' = (frame + 1) % Frames
                                 /\ at' = frameLinks[(frame + 1) % Frames]
             ELSE at' = link[at] /\ UNCHANGED frame
          /\ UNCHANGED <<link, frameLinks, controlQh, bulkQh, pipe, tick>>

SchedNext == \/ HcWalk
             \/ \E p \in Pipes : \/ AllocControlPipe(p) \/ AllocBulkPipe(p)
                                 \/ \E exp \in 0 .. MaxExp : AllocIntrPipe(p, exp)
                                 \/ UnlinkPipe(p) \/ FreePipe(p)

----------------------------------------------------------------------------
\* Transfers on one bulk pipe, and the reports of one interrupt pipe.
VARIABLES tds,        \* the stack TDs: active, toggle, whether TERM follows
          element,    \* qh.element: index of a TD, or "TERM"
          tdpos, unsent, drained, toggle, \* locals of uhci_send_bulk
          pipeToggle, \* pipe->toggle
          devToggle, got, \* external: the device's toggle, the packets it took
          sent,       \* packets of the transfers asked for
          failed,     \* a transfer has failed
          transfers,
          itds,       \* the interrupt TDs: active, and the report stored
          hcTd, nextTd, \* TD the controller is at; pipe->next_td
          reading,    \* <<>>, or the report uhci_poll_intr has copied
          reports,    \* external: reports the device has sent
          polled      \* reports handed to usb_check_key

bulkVars == <<tds, element, tdpos, unsent, drained, toggle, pipeToggle, devToggle, got, sent, failed, transfers>>
intrVars == <<itds, hcTd, nextTd, reading, reports, polled>>

IdleTd == [active |-> FALSE, tog |-> 0, last |-> FALSE, err |-> FALSE]
Busy == tdpos # 0

XferInit == /\ tds = [i \in 0 .. StackTds - 1 |-> IdleTd] /\ element = StackTds
            /\ tdpos = 0 /\ unsent = 0 /\ drained = 0 /\ toggle = 0 /\ pipeToggle = 0
            /\ devToggle = 0 /\ got = 0 /\ sent = 0 /\ failed = FALSE /\ transfers = 0
            /\ itds = [i \in 0 .. IntrTds - 1 |-> [active |-> TRUE, report |-> 0]]
            /\ hcTd = 0 /\ nextTd = 0 /\ reading = <<>> /\ reports = 0 /\ polled = <<>>

\* uhci_send_bulk: element = StackTds stands for UHCI_PTR_TERM.  The next TD
\* to fill is tds[(tdpos - 1) % StackTds], tdpos counted from 1.
SendBulk(n) ==
    /\ ~Busy /\ transfers < MaxTransfers
    /\ transfers' = transfers + 1
    /\ tds' = [i \in DOMAIN tds |-> IdleTd] /\ element' = 0
    /\ tdpos' = 1 /\ unsent' = n /\ drained' = 0 /\ toggle' = pipeToggle
    /\ sent' = sent + n
    /\ UNCHANGED <<pipeToggle, devToggle, got, failed>>

Current == (tdpos - 1) % StackTds

\* The loop's body, once wait_td has seen the TD inactive and without error.
FillTd ==
    /\ Busy /\ unsent > 0 /\ ~tds[Current].active /\ ~tds[Current].err
    /\ tds' = [tds EXCEPT ![Current] = [active |-> TRUE, tog |-> toggle, last |-> unsent = 1, err |-> FALSE]]
    /\ toggle' = 1 - toggle /\ tdpos' = tdpos + 1 /\ unsent' = unsent - 1
    /\ UNCHANGED <<element, drained, pipeToggle, devToggle, got, sent, failed, transfers>>

\* The final waits; after the last one the toggle is kept.
DrainTd ==
    /\ Busy /\ unsent = 0 /\ ~tds[Current].active /\ ~tds[Current].err
    /\ IF drained + 1 = StackTds
       THEN tdpos' = 0 /\ drained' = 0 /\ pipeToggle' = toggle
       ELSE tdpos' = tdpos + 1 /\ drained' = drained + 1 /\ UNCHANGED pipeToggle
    /\ UNCHANGED <<tds, element, unsent, toggle, devToggle, got, sent, failed, transfers>>

\* wait_td fails, on an error or after its time: the transfer is given up.
BulkFails ==
    /\ Busy /\ (tds[Current].active \/ tds[Current].err)
    /\ element' = StackTds /\ tdpos' = 0 /\ drained' = 0 /\ failed' = TRUE
    /\ UNCHANGED <<tds, unsent, toggle, pipeToggle, devToggle, got, sent, transfers>>

\* The controller executes the TD element points to, if it is active.  The
\* device takes a packet whose toggle it expects, and drops any other.
HcBulk(ok) ==
    /\ element < StackTds /\ tds[element].active
    /\ IF ok THEN /\ element' = IF tds[element].last THEN StackTds ELSE (element + 1) % StackTds
                  /\ tds' = [tds EXCEPT ![element].active = FALSE]
                  /\ IF tds[element].tog = devToggle
                     THEN got' = got + 1 /\ devToggle' = 1 - devToggle
                     ELSE UNCHANGED <<got, devToggle>>
       ELSE /\ tds' = [tds EXCEPT ![element].active = FALSE, ![element].err = TRUE]
            /\ UNCHANGED <<element, got, devToggle>>
    /\ UNCHANGED <<tdpos, unsent, drained, toggle, pipeToggle, sent, failed, transfers>>

BulkNext == \/ \E n \in 1 .. MaxPackets : SendBulk(n)
            \/ FillTd \/ DrainTd \/ BulkFails
            \/ \E ok \in BOOLEAN : HcBulk(ok)

\* The controller stores a report of the device in an active TD.
HcReport ==
    /\ itds[hcTd].active /\ reports < MaxReports
    /\ itds' = [itds EXCEPT ![hcTd] = [active |-> FALSE, report |-> reports + 1]]
    /\ reports' = reports + 1 /\ hcTd' = (hcTd + 1) % IntrTds
    /\ UNCHANGED <<nextTd, reading, polled>>

\* uhci_poll_intr: copy the data, go to the next TD, ...
PollIntr ==
    /\ reading = <<>> /\ ~itds[nextTd].active
    /\ reading' = <<nextTd>> /\ polled' = Append(polled, itds[nextTd].report)
    /\ nextTd' = (nextTd + 1) % IntrTds
    /\ UNCHANGED <<itds, hcTd, reports>>

\* ... and enable the TD again.
ReenableTd ==
    /\ reading # <<>>
    /\ itds' = [itds EXCEPT ![reading[1]].active = TRUE]
    /\ reading' = <<>>
    /\ UNCHANGED <<hcTd, nextTd, reports, polled>>

IntrPipeNext == HcReport \/ PollIntr \/ ReenableTd

\* The schedule, a bulk pipe and an interrupt pipe have no step in common.
uhciVars == <<schedVars, bulkVars, intrVars>>
UhciInit == SchedInit /\ XferInit
UhciNext == \/ SchedNext /\ UNCHANGED <<bulkVars, intrVars>>
            \/ BulkNext /\ UNCHANGED <<schedVars, intrVars>>
            \/ IntrPipeNext /\ UNCHANGED <<schedVars, bulkVars>>

----------------------------------------------------------------------------
\* Queue heads reached in n steps from the head of a frame.
Walk(f) == LET reach[n \in Nat] == IF n = 0 THEN frameLinks[f]
                                   ELSE IF reach[n - 1] \in {"term", "TERM"} THEN "term"
                                   ELSE link[reach[n - 1]]
           IN  {reach[n] : n \in 0 .. Cardinality(Pipes) + 1}

\* Every pipe in use is on the walk of the frames it is meant for, and the
\* walk of every frame ends.
PipesScheduled ==
    \A f \in 0 .. Frames - 1 :
       /\ "term" \in Walk(f)
       /\ \A p \in Pipes :
             \/ pipe[p].kind \in {"free", "leaving"}
             \/ pipe[p].exp > 0 /\ f % (2 ^ pipe[p].exp) # StartPos(pipe[p].exp)
             \/ p \in Walk(f)

\* uhci_waittick, "for ensuring safe memory release": the controller never
\* reads a queue head that was freed.
NoFreedQh == at \in Pipes => pipe[at].kind # "free"

\* As long as no transfer has failed, the device has taken each packet of the
\* finished transfers once: at the end of a transfer, all of them.
BulkExact == ~failed /\ ~Busy => got = sent

\* Reports reach usb_check_key in order, each once.
ReportsInOrder == \A i \in 1 .. Len(polled) : polled[i] = i

\* usb-uhci.c: pipes are scheduled and freed safely, and packets and reports are
\* neither lost nor doubled.
UhciSound == PipesScheduled /\ NoFreedQh /\ BulkExact /\ ReportsInOrder
============================================================================
