-------------------------------- MODULE BiosUsb --------------------------------
(***************************************************************************)
(* Finding USB devices in the system BIOS (bios/seabios/src/usb.c, and the *)
(* drivers usb-hub.c, usb-msc.c, usb-hid.c).  Every port of a hub has a    *)
(* thread; threads take turns where they sleep or wait for a transfer.  A  *)
(* message on a hub's pipe is one step: hub->lock keeps the others away    *)
(* until it is over.  Any message may fail.                                *)
(***************************************************************************)
EXTENDS Naturals, FiniteSets

CONSTANTS RootPorts, HubPorts, \* ports of the root hub, of an attached hub
          Plugged,             \* functions port -> kind of device
          MaxUsbAddr,          \* USB_MAXADDR
          Nobody               \* the mutex is free

Ports == RootPorts \cup HubPorts
Kinds == {"nothing", "hub", "keyboard", "disk", "other"}

\* The devices behind one attached hub are followed; it hangs off the root hub.
ASSUME UsbAssumption ==
    /\ IsFiniteSet(RootPorts) /\ IsFiniteSet(HubPorts) /\ RootPorts \cap HubPorts = {}
    /\ Nobody \notin Ports /\ MaxUsbAddr \in Nat
    /\ \A f \in Plugged : /\ f \in [Ports -> Kinds]
                          /\ \A p, q \in Ports : f[p] = "hub" /\ f[q] = "hub" => p = q /\ p \in RootPorts

HubOf(p) == IF p \in RootPorts THEN "root" ELSE "ext"
PortsOf(h) == IF h = "root" THEN RootPorts ELSE HubPorts

VARIABLES plugged,
          hub,       \* per hub: in use, threads and devcount
          launched,  \* ports whose thread usb_enumerate has started
          thr,       \* where the thread of a port is
          resetlock, \* holder of cntl->resetlock
          dev,       \* per port: "off", "default", "addressed"
          addr,      \* the address the device answers to
          maxaddr,
          keyboardPipe, \* keyboard_pipe: the port it leads to
          keyboards, \* ports whose keyboard was set up
          drives     \* drives registered

usbVars == <<plugged, hub, launched, thr, resetlock, dev, addr, maxaddr, keyboardPipe, keyboards, drives>>

Fresh(h) == [live |-> TRUE, threads |-> Cardinality(PortsOf(h)), devcount |-> 0]
NoHub == [live |-> FALSE, threads |-> 0, devcount |-> 0]

UsbInit == /\ plugged \in Plugged
           /\ hub = [h \in {"root", "ext"} |-> IF h = "root" THEN Fresh(h) ELSE NoHub]
           /\ launched = {} /\ thr = [p \in Ports |-> "none"]
           /\ resetlock = Nobody
           /\ dev = [p \in Ports |-> "off"] /\ addr = [p \in Ports |-> 0] /\ maxaddr = 0
           /\ keyboardPipe = Nobody /\ keyboards = {} /\ drives = {}

\* usb_enumerate starts a thread: it runs at once and reads hub->port before
\* it can wait, so its port is the one just stored.
LaunchPort(p) ==
    /\ hub[HubOf(p)].live /\ p \notin launched
    /\ launched' = launched \cup {p}
    /\ thr' = [thr EXCEPT ![p] = "detect"]
    /\ UNCHANGED <<plugged, hub, resetlock, dev, addr, maxaddr, keyboardPipe, keyboards, drives>>

\* The end of usb_init_hub_port.
ThreadEnds(p, count) ==
    /\ thr' = [thr EXCEPT ![p] = "done"]
    /\ hub' = [hub EXCEPT ![HubOf(p)].devcount = @ + count, ![HubOf(p)].threads = @ - 1]

\* detect: uhci_hub_detect, usb_hub_detect
Detect(p, ok) ==
    /\ thr[p] = "detect"
    /\ IF ok /\ plugged[p] # "nothing"
       THEN thr' = [thr EXCEPT ![p] = "lock"] /\ UNCHANGED hub
       ELSE ThreadEnds(p, 0)
    /\ UNCHANGED <<plugged, launched, resetlock, dev, addr, maxaddr, keyboardPipe, keyboards, drives>>

\* Mutation of LockReset: one that does not wait for it.
LockResetNot(p) ==
    /\ thr[p] = "lock"
    /\ resetlock' = p
    /\ thr' = [thr EXCEPT ![p] = "reset"]
    /\ UNCHANGED <<plugged, hub, launched, dev, addr, maxaddr, keyboardPipe, keyboards, drives>>

\* mutex_lock(&hub->cntl->resetlock)
LockReset(p) ==
    /\ thr[p] = "lock" /\ resetlock = Nobody
    /\ resetlock' = p
    /\ thr' = [thr EXCEPT ![p] = "reset"]
    /\ UNCHANGED <<plugged, hub, launched, dev, addr, maxaddr, keyboardPipe, keyboards, drives>>

\* Mutation of ResetPort: the lock is kept when the reset fails.
ResetPortHeld(p, ok) ==
    /\ thr[p] = "reset"
    /\ IF ok THEN /\ dev' = [dev EXCEPT ![p] = "default"]
                  /\ thr' = [thr EXCEPT ![p] = "address"]
                  /\ UNCHANGED hub
       ELSE ThreadEnds(p, 0) /\ UNCHANGED dev
    /\ UNCHANGED <<plugged, launched, resetlock, addr, maxaddr, keyboardPipe, keyboards, drives>>

\* reset: the device now answers at the default address, or the port is off.
ResetPort(p, ok) ==
    /\ thr[p] = "reset"
    /\ IF ok THEN /\ dev' = [dev EXCEPT ![p] = "default"]
                  /\ thr' = [thr EXCEPT ![p] = "address"]
                  /\ UNCHANGED <<hub, resetlock>>
       ELSE ThreadEnds(p, 0) /\ resetlock' = Nobody /\ UNCHANGED dev
    /\ UNCHANGED <<plugged, launched, addr, maxaddr, keyboardPipe, keyboards, drives>>

\* usb_set_address, the message: the device takes the next address.  When it
\* fails, or no address is left, the port is disconnected.
SendAddress(p, ok) ==
    /\ thr[p] = "address"
    /\ IF ok /\ maxaddr < MaxUsbAddr
       THEN /\ dev' = [dev EXCEPT ![p] = "addressed"]
            /\ addr' = [addr EXCEPT ![p] = maxaddr + 1]
            /\ thr' = [thr EXCEPT ![p] = "recovery"]
            /\ UNCHANGED <<hub, resetlock>>
       ELSE /\ dev' = [dev EXCEPT ![p] = "off"]
            /\ ThreadEnds(p, 0) /\ resetlock' = Nobody
            /\ UNCHANGED addr
    /\ UNCHANGED <<plugged, launched, maxaddr, keyboardPipe, keyboards, drives>>

\* usb_set_address, after the recovery time: the address is used up; without
\* memory for a pipe the port is disconnected.
TakeAddress(p, ok) ==
    /\ thr[p] = "recovery"
    /\ maxaddr' = maxaddr + 1
    /\ resetlock' = Nobody
    /\ IF ok THEN thr' = [thr EXCEPT ![p] = "configure"] /\ UNCHANGED <<hub, dev>>
       ELSE ThreadEnds(p, 0) /\ dev' = [dev EXCEPT ![p] = "off"]
    /\ UNCHANGED <<plugged, launched, addr, keyboardPipe, keyboards, drives>>

\* configure_usb_device: a failure, or no driver, disconnects the port.
Unconfigured(p) == /\ dev' = [dev EXCEPT ![p] = "off"]
                   /\ ThreadEnds(p, 0)
                   /\ UNCHANGED <<launched, keyboardPipe, keyboards, drives>>

\* Descriptors, set_configuration, and the start of the driver: usb_hub_init
\* enumerates its ports, usb_keyboard_init looks whether there is a keyboard.
Configure(p, ok) ==
    /\ thr[p] = "configure"
    /\ IF ~ok \/ plugged[p] = "other" \/ (plugged[p] = "keyboard" /\ keyboardPipe # Nobody)
       THEN Unconfigured(p)
       ELSE /\ thr' = [thr EXCEPT ![p] = plugged[p]]
            /\ hub' = IF plugged[p] = "hub" THEN [hub EXCEPT !["ext"] = Fresh("ext")] ELSE hub
            /\ UNCHANGED <<launched, dev, keyboardPipe, keyboards, drives>>
    /\ UNCHANGED <<plugged, resetlock, addr, maxaddr>>

\* usb_keyboard_init: set_protocol and set_idle wait; then the pipe is stored.
KeyboardInit(p, ok) ==
    /\ thr[p] = "keyboard"
    /\ IF ok THEN /\ keyboardPipe' = p /\ keyboards' = keyboards \cup {p}
                  /\ ThreadEnds(p, 1)
                  /\ UNCHANGED <<launched, dev, drives>>
       ELSE Unconfigured(p)
    /\ UNCHANGED <<plugged, resetlock, addr, maxaddr>>

\* usb_msc_init: inquiry, capacity, and the drive is registered.
MscInit(p, ok) ==
    /\ thr[p] = "disk"
    /\ IF ok THEN /\ drives' = drives \cup {p}
                  /\ ThreadEnds(p, 1)
                  /\ UNCHANGED <<launched, dev, keyboardPipe, keyboards>>
       ELSE Unconfigured(p)
    /\ UNCHANGED <<plugged, resetlock, addr, maxaddr>>

\* usb_hub_init returns when usb_enumerate has seen the threads of its ports
\* end; a hub without devices is disconnected.  Its record is then gone.
HubInitEnds(p) ==
    /\ thr[p] = "hub" /\ hub["ext"].threads = 0
    /\ LET count == IF hub["ext"].devcount > 0 THEN 1 ELSE 0
       IN  /\ hub' = [hub EXCEPT !["ext"].live = FALSE, ![HubOf(p)].devcount = @ + count,
                                 ![HubOf(p)].threads = @ - 1]
           /\ dev' = IF count = 1 THEN dev ELSE [dev EXCEPT ![p] = "off"]
    /\ thr' = [thr EXCEPT ![p] = "done"]
    /\ UNCHANGED <<plugged, launched, resetlock, addr, maxaddr, keyboardPipe, keyboards, drives>>

PortStep(p) == \/ LaunchPort(p) \/ LockReset(p) \/ HubInitEnds(p)
               \/ \E ok \in BOOLEAN : \/ Detect(p, ok) \/ ResetPort(p, ok) \/ SendAddress(p, ok)
                                      \/ TakeAddress(p, ok) \/ Configure(p, ok)
                                      \/ KeyboardInit(p, ok) \/ MscInit(p, ok)

UsbNext == \E p \in Ports : PortStep(p)

\* Every thread is resumed again and again (BiosThreads), its waits are timed.
UsbSpec == UsbInit /\ [][UsbNext]_usbVars /\ \A p \in Ports : WF_usbVars(PortStep(p))

----------------------------------------------------------------------------
\* usb_init_hub_port, resetlock: at most one device answers at the default
\* address, and devices in use answer at different addresses.
AddressedApart ==
    /\ Cardinality({p \in Ports : dev[p] = "default"}) <= 1
    /\ \A p, q \in Ports : p # q /\ dev[p] = "addressed" /\ dev[q] = "addressed" => addr[p] # addr[q]

\* usb_hub_init keeps the hub's record on its stack: no thread of a port is
\* running once it has returned.
HubOutlivesThreads == \A p \in Ports : thr[p] \notin {"none", "done"} => hub[HubOf(p)].live

\* usb_enumerate, "Wait for threads to complete": with any failures, all the
\* threads of the root hub end.
EnumerationEnds == launched # {} ~> hub["root"].threads = 0

\* usb_keyboard_init, "this enables the first found keyboard": one keyboard is
\* set up, however many are found. The code breaks it (README, "Stated and
\* refuted"), so no passing run lists it.
OneKeyboard == Cardinality(keyboards) <= 1

\* usb_enumerate: devices are told apart at all times, and no thread uses a hub
\* that is gone.
UsbSound == AddressedApart /\ HubOutlivesThreads
============================================================================
