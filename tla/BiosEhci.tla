------------------------------- MODULE BiosEhci --------------------------------
(***************************************************************************)
(* Starting the USB controllers of the machine (usb_setup of               *)
(* bios/seabios/src/usb.c) and the EHCI driver (usb-ehci.c): an EHCI       *)
(* controller hands ports with slow devices to its companions and starts   *)
(* them when it has looked at its last port; threads share its doorbell to *)
(* free memory the controller reads.                                       *)
(***************************************************************************)
EXTENDS Naturals, Sequences, FiniteSets

CONSTANTS Machines,    \* sequences of PCI functions [slot, class], by address
          EhciPorts, PortKinds, \* ports of an EHCI controller, what is plugged in
          EPipes, MaxRings

VARIABLES machine,
          scan,      \* index usb_setup's loop is at, past the end when it is over
          ehciAt,    \* ehcibdf, 0 for -1
          started,   \* per function: how often its driver was started
          companions, \* per EHCI: the companions it noted
          wide       \* EHCI controllers with 64-bit addresses: not supported

hostVars == <<machine, scan, ehciAt, started, companions, wide>>

HostInit == /\ machine \in Machines
            /\ scan = 1 /\ ehciAt = 0
            /\ started = [i \in DOMAIN machine |-> 0]
            /\ companions = [i \in DOMAIN machine |-> {}]
            /\ wide \in SUBSET {i \in DOMAIN machine : machine[i].class = "ehci"}

IsUsb(i) == machine[i].class \in {"uhci", "ohci", "ehci"}
\* The search from function i: the first EHCI controller of the slot, or the
\* first function past the slot (0 when there is none).
InSlot(i) == {j \in i .. Len(machine) : machine[j].slot = machine[i].slot}
EhciOf(i) == {j \in InSlot(i) : machine[j].class = "ehci"}
FirstOf(S) == CHOOSE j \in S : \A k \in S : j <= k
PastSlot(i) == LET rest == (i .. Len(machine)) \ InSlot(i)
               IN  IF rest = {} THEN 0 ELSE FirstOf(rest)

\* usb_setup, one turn of its loop, with ehci_init, uhci_init and ohci_init.
UsbSetup ==
    LET i == scan
        search == IsUsb(i) /\ i > ehciAt
        hit == IF search /\ EhciOf(i) # {} THEN FirstOf(EhciOf(i)) ELSE 0
    IN  /\ scan <= Len(machine)
        /\ ehciAt' = IF hit # 0 THEN hit ELSE IF search THEN PastSlot(i) ELSE ehciAt
        /\ IF hit # 0 /\ hit \notin wide
           THEN /\ started' = [started EXCEPT ![hit] = @ + 1]
                /\ companions' = [companions EXCEPT ![hit] =
                                    {j \in i .. hit - 1 : machine[j].class \in {"uhci", "ohci"}}]
                /\ scan' = hit + 1
           ELSE /\ started' = IF machine[i].class \in {"uhci", "ohci"}
                              THEN [started EXCEPT ![i] = @ + 1] ELSE started
                /\ scan' = i + 1
                /\ UNCHANGED companions
    /\ UNCHANGED <<machine, wide>>

----------------------------------------------------------------------------
\* The ports of one EHCI controller.
VARIABLES plug,       \* what is plugged in: "none", "low", "full", "high"
          eport,      \* where the thread of a port is
          owner,      \* PORT_OWNER: ports given to the companions
          checkports, legacycount,
          companionsStarted \* how often ehci_note_port started them

portVars == <<plug, eport, owner, checkports, legacycount, companionsStarted>>

PortInit == /\ plug \in [EhciPorts -> PortKinds]
            /\ eport = [p \in EhciPorts |-> "detect"]
            /\ owner = {} /\ legacycount = 0
            /\ checkports = Cardinality(EhciPorts) /\ companionsStarted = 0

\* ehci_note_port, with the number of slow devices known by now
EhciNotePort(legacy) ==
    /\ checkports' = checkports - 1
    /\ companionsStarted' = IF checkports = 1 /\ legacy > 0 THEN companionsStarted + 1 ELSE companionsStarted

\* ehci_hub_detect, after its sleep
EhciDetect(p) ==
    /\ eport[p] = "detect"
    /\ IF plug[p] \in {"none", "low"}
       THEN /\ eport' = [eport EXCEPT ![p] = "done"]
            /\ owner' = IF plug[p] = "low" THEN owner \cup {p} ELSE owner
            /\ legacycount' = IF plug[p] = "low" THEN legacycount + 1 ELSE legacycount
            /\ EhciNotePort(legacycount')
       ELSE /\ eport' = [eport EXCEPT ![p] = "reset"]
            /\ UNCHANGED <<owner, legacycount, checkports, companionsStarted>>
    /\ UNCHANGED plug

\* ehci_hub_reset; a device may be gone by then.
EhciReset(p, gone) ==
    /\ eport[p] = "reset"
    /\ eport' = [eport EXCEPT ![p] = "done"]
    /\ LET slow == ~gone /\ plug[p] = "full"
       IN  /\ owner' = IF slow THEN owner \cup {p} ELSE owner
           /\ legacycount' = IF slow THEN legacycount + 1 ELSE legacycount
           /\ EhciNotePort(legacycount')
    /\ UNCHANGED plug

----------------------------------------------------------------------------
\* The doorbell.  The controller answers it when it holds no pointer to what
\* had been taken out of its list by then.
VARIABLES epipe,   \* per pipe: "linked", "wait" and "rung" in ehci_waittick, "free"
          iaad,    \* CMD_IAAD: rung
          iaa,     \* STS_IAA: answered, until it is acknowledged
          holds,   \* pipes the controller may still read
          rings, gaveUp

bellVars == <<epipe, iaad, iaa, holds, rings, gaveUp>>

BellInit == /\ epipe = [p \in EPipes |-> "linked"]
            /\ iaad = FALSE /\ iaa = FALSE /\ holds = EPipes /\ rings = 0 /\ gaveUp = FALSE

\* ehci_alloc_control_pipe, ehci_alloc_bulk_pipe
EhciAllocPipe(p) == /\ epipe[p] = "free" /\ rings < MaxRings
                    /\ epipe' = [epipe EXCEPT ![p] = "linked"] /\ holds' = holds \cup {p}
                    /\ UNCHANGED <<iaad, iaa, rings, gaveUp>>
\* ehci_free_pipe: out of the list.
EhciUnlink(p) == /\ epipe[p] = "linked" /\ epipe' = [epipe EXCEPT ![p] = "wait"]
                 /\ UNCHANGED <<iaad, iaa, holds, rings, gaveUp>>
\* Mutation of RingDoorbell: one that does not wait for the others.
RingDoorbellAtOnce(p) == /\ epipe[p] = "wait"
                         /\ rings' = rings + 1
                         /\ iaad' = TRUE /\ epipe' = [epipe EXCEPT ![p] = "rung"]
                         /\ UNCHANGED <<iaa, holds, gaveUp>>

\* ehci_waittick: ring when nobody else is at the bell.
RingDoorbell(p) == /\ epipe[p] = "wait" /\ ~iaa /\ ~iaad
                   /\ rings' = rings + 1
                   /\ iaad' = TRUE /\ epipe' = [epipe EXCEPT ![p] = "rung"]
                   /\ UNCHANGED <<iaa, holds, gaveUp>>
\* Acknowledge, free(pipe).
AckDoorbell(p) == /\ epipe[p] = "rung" /\ iaa
                  /\ iaa' = FALSE /\ epipe' = [epipe EXCEPT ![p] = "free"]
                  /\ UNCHANGED <<iaad, holds, rings, gaveUp>>
\* The time is up, before or after ringing: the memory is freed all the same.
DoorbellTimeout(p) == /\ epipe[p] \in {"wait", "rung"}
                      /\ gaveUp' = TRUE /\ epipe' = [epipe EXCEPT ![p] = "free"]
                      /\ UNCHANGED <<iaad, iaa, holds, rings>>
\* The controller (external) answers.
HcAnswers == /\ iaad /\ iaad' = FALSE /\ iaa' = TRUE
             /\ holds' = {p \in holds : epipe[p] = "linked"}
             /\ UNCHANGED <<epipe, rings, gaveUp>>

----------------------------------------------------------------------------
HostNext == UsbSetup
PortNext == \E p \in EhciPorts : EhciDetect(p) \/ \E gone \in BOOLEAN : EhciReset(p, gone)
BellNext == HcAnswers \/ \E p \in EPipes : \/ EhciAllocPipe(p) \/ EhciUnlink(p) \/ RingDoorbell(p)
                                           \/ AckDoorbell(p) \/ DoorbellTimeout(p)

EhciInit == HostInit /\ PortInit /\ BellInit
EhciNext == \/ HostNext /\ UNCHANGED <<portVars, bellVars>>
            \/ PortNext /\ UNCHANGED <<hostVars, bellVars>>
            \/ BellNext /\ UNCHANGED <<hostVars, portVars>>
EhciSpec == EhciInit /\ [][EhciNext]_<<hostVars, portVars, bellVars>>

\* usb_setup and ehci_init: a controller is started by usb_setup or left to
\* one EHCI controller of its slot, never both.
StartedOnce == \A i \in DOMAIN machine :
                  /\ started[i] <= 1
                  /\ Cardinality({j \in DOMAIN machine : i \in companions[j]}) + started[i] <= 1
                  /\ scan > Len(machine) /\ machine[i].class \in {"uhci", "ohci"} =>
                        started[i] = 1 \/ \E j \in DOMAIN machine : i \in companions[j]

\* usb_setup, "Check to see if this device has an ehci controller": when the
\* scan is over every supported EHCI controller has been started. The code
\* breaks it (README, "Stated and refuted"), so no passing run lists it.
EveryEhciStarted == scan > Len(machine) =>
                       \A i \in DOMAIN machine : machine[i].class = "ehci" /\ i \notin wide => started[i] = 1

\* ehci_note_port: the companions start once, if there is a slow device, and
\* not before every slow device has been handed over.
CompanionsAfterPorts ==
    /\ companionsStarted <= 1
    /\ companionsStarted = 1 => owner # {} /\ \A p \in EhciPorts : eport[p] = "done"
    /\ (\A p \in EhciPorts : eport[p] = "done") => (companionsStarted = 1 <=> owner # {})

\* ehci_waittick, "for ensuring safe memory release": as long as no wait was
\* given up, freed memory is not read by the controller.
DoorbellSafe == ~gaveUp => \A p \in EPipes : epipe[p] = "free" => p \notin holds

\* usb_setup and usb-ehci.c: a controller has one owner, companions start after
\* the slow devices are theirs, and memory is freed after the controller left it.
EhciShares == StartedOnce /\ CompanionsAfterPorts /\ DoorbellSafe
============================================================================
