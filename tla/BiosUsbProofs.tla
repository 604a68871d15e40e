--------------------------- MODULE BiosUsbProofs ---------------------------
(***************************************************************************)
(* Proofs about the search for USB devices, for any number of ports and    *)
(* any devices: the reset lock keeps devices apart, and the record of an   *)
(* attached hub outlives the threads of its ports.                         *)
(***************************************************************************)
EXTENDS BiosUsb, Integers, FiniteSetTheorems, TLAPS

Places == Kinds \cup {"none", "detect", "lock", "reset", "address", "recovery", "configure", "done"}

UsbTypeOK ==
    /\ plugged \in [Ports -> Kinds]
    /\ \A p, q \in Ports : plugged[p] = "hub" /\ plugged[q] = "hub" => p = q /\ p \in RootPorts
    /\ hub \in [{"root", "ext"} -> [live : BOOLEAN, threads : Int, devcount : Int]]
    /\ hub["root"].live
    /\ thr \in [Ports -> Places]
    /\ launched = {p \in Ports : thr[p] # "none"}
    /\ resetlock \in Ports \cup {Nobody}
    /\ dev \in [Ports -> {"off", "default", "addressed"}]
    /\ addr \in [Ports -> Nat] /\ maxaddr \in Nat

\* The lock is held from the reset of a port until its device has taken its
\* address; only its holder's device may be at the default address or ahead of
\* maxaddr.
LockInv == \A p \in Ports : thr[p] \in {"reset", "address", "recovery"} <=> resetlock = p
AddrInv == \A p \in Ports :
              /\ dev[p] = "default" => thr[p] = "address"
              /\ thr[p] = "recovery" => addr[p] = maxaddr + 1
              /\ dev[p] = "addressed" /\ thr[p] # "recovery" => addr[p] <= maxaddr
Apart == \A p, q \in Ports : p # q /\ dev[p] = "addressed" /\ dev[q] = "addressed" => addr[p] # addr[q]

\* The attached hub is in use exactly while the thread of its port is in
\* usb_hub_init, its count is that of the threads that have not ended, and they
\* start and end within that time.
Unended == {q \in HubPorts : thr[q] # "done"}
HubInv ==
    /\ hub["ext"].live => /\ \E u \in Ports : thr[u] = "hub"
                          /\ hub["ext"].threads = Cardinality(Unended)
    /\ ~hub["ext"].live => \A q \in HubPorts : thr[q] \in {"none", "done"}
    /\ \A u \in Ports : thr[u] = "hub" => plugged[u] = "hub" /\ hub["ext"].live
    /\ \A u \in Ports : plugged[u] = "hub" /\ thr[u] \notin {"hub", "done"} =>
          \A q \in HubPorts : thr[q] = "none"

----------------------------------------------------------------------------
(***************************************************************************)
(* The end of usb_init_hub_port counts the thread of its own hub, and      *)
(* leaves the hub in use.                                                  *)
(***************************************************************************)
LEMMA EndCounts ==
  ASSUME UsbTypeOK, NEW p \in Ports, NEW count \in {0, 1}, ThreadEnds(p, count)
  PROVE  /\ hub' \in [{"root", "ext"} -> [live : BOOLEAN, threads : Int, devcount : Int]]
         /\ \A h \in {"root", "ext"} : hub'[h].live = hub[h].live
         /\ p \in HubPorts => hub'["ext"].threads = hub["ext"].threads - 1
         /\ p \notin HubPorts => hub'["ext"].threads = hub["ext"].threads
  <1>1. p \in HubPorts <=> HubOf(p) = "ext"
    BY UsbAssumption DEF HubOf, Ports
  <1>2. HubOf(p) \in {"root", "ext"}
    BY DEF HubOf
  <1>3. QED
    BY <1>1, <1>2 DEF UsbTypeOK, ThreadEnds

(***************************************************************************)
(* usb_enumerate starts from a root hub whose ports have no thread yet.    *)
(***************************************************************************)
LEMMA InitUsb == UsbInit => UsbTypeOK /\ LockInv /\ AddrInv /\ Apart /\ HubInv
  <1> SUFFICES ASSUME UsbInit
               PROVE  UsbTypeOK /\ LockInv /\ AddrInv /\ Apart /\ HubInv
    OBVIOUS
  <1>1. Cardinality(RootPorts) \in Nat
    BY UsbAssumption, FS_CardinalityType
  <1>2. UsbTypeOK
    BY <1>1, UsbAssumption DEF UsbInit, UsbTypeOK, Fresh, NoHub, PortsOf, Places
  <1>3. LockInv /\ AddrInv /\ Apart
    BY UsbAssumption DEF UsbInit, LockInv, AddrInv, Apart
  <1>4. HubInv
    BY DEF UsbInit, HubInv, NoHub, Ports
  <1>5. QED
    BY <1>2, <1>3, <1>4

(***************************************************************************)
(* Every step of a port's thread keeps the types; only its own port moves. *)
(***************************************************************************)
LEMMA StepType ==
  ASSUME UsbTypeOK, NEW p \in Ports, PortStep(p)
  PROVE  /\ UsbTypeOK' /\ plugged' = plugged
         /\ thr'[p] # "none"
         /\ \A q \in Ports \ {p} : thr'[q] = thr[q] /\ dev'[q] = dev[q] /\ addr'[q] = addr[q]
  <1> DEFINE Goal == /\ UsbTypeOK' /\ plugged' = plugged /\ thr'[p] # "none"
                     /\ \A q \in Ports \ {p} : thr'[q] = thr[q] /\ dev'[q] = dev[q] /\ addr'[q] = addr[q]
  <1> USE DEF Places, Kinds
  <1>1. ASSUME LaunchPort(p) \/ LockReset(p)
        PROVE  Goal
    BY <1>1, UsbAssumption DEF LaunchPort, LockReset, UsbTypeOK
  <1>2. ASSUME NEW ok \in BOOLEAN, Detect(p, ok)
        PROVE  Goal
    <2>1. CASE ok /\ plugged[p] # "nothing"
      BY <1>2, <2>1 DEF Detect, UsbTypeOK
    <2>2. CASE ~(ok /\ plugged[p] # "nothing")
      BY <1>2, <2>2, EndCounts DEF Detect, ThreadEnds, UsbTypeOK
    <2>3. QED
      BY <2>1, <2>2
  <1>3. ASSUME NEW ok \in BOOLEAN, ResetPort(p, ok)
        PROVE  Goal
    <2>1. CASE ok
      BY <1>3, <2>1 DEF ResetPort, UsbTypeOK
    <2>2. CASE ~ok
      BY <1>3, <2>2, EndCounts DEF ResetPort, ThreadEnds, UsbTypeOK
    <2>3. QED
      BY <2>1, <2>2
  <1>4. ASSUME NEW ok \in BOOLEAN, SendAddress(p, ok)
        PROVE  Goal
    <2>1. CASE ok /\ maxaddr < MaxUsbAddr
      BY <1>4, <2>1 DEF SendAddress, UsbTypeOK
    <2>2. CASE ~(ok /\ maxaddr < MaxUsbAddr)
      BY <1>4, <2>2, EndCounts DEF SendAddress, ThreadEnds, UsbTypeOK
    <2>3. QED
      BY <2>1, <2>2
  <1>5. ASSUME NEW ok \in BOOLEAN, TakeAddress(p, ok)
        PROVE  Goal
    <2>1. CASE ok
      BY <1>5, <2>1 DEF TakeAddress, UsbTypeOK
    <2>2. CASE ~ok
      BY <1>5, <2>2, EndCounts DEF TakeAddress, ThreadEnds, UsbTypeOK
    <2>3. QED
      BY <2>1, <2>2
  <1>6. ASSUME Unconfigured(p), thr[p] # "none", UNCHANGED <<plugged, resetlock, addr, maxaddr>>
        PROVE  Goal
    BY <1>6, EndCounts DEF Unconfigured, ThreadEnds, UsbTypeOK
  <1>7. ASSUME NEW ok \in BOOLEAN, Configure(p, ok)
        PROVE  Goal
    <2>1. CASE ~ok \/ plugged[p] = "other" \/ (plugged[p] = "keyboard" /\ keyboardPipe # Nobody)
      BY <1>6, <1>7, <2>1 DEF Configure
    <2>2. CASE ~(~ok \/ plugged[p] = "other" \/ (plugged[p] = "keyboard" /\ keyboardPipe # Nobody))
      <3>1. Fresh("ext") \in [live : BOOLEAN, threads : Int, devcount : Int]
        BY UsbAssumption, FS_CardinalityType DEF Fresh, PortsOf
      <3>2. /\ hub' \in [{"root", "ext"} -> [live : BOOLEAN, threads : Int, devcount : Int]]
            /\ hub'["root"].live
        BY <1>7, <2>2, <3>1 DEF Configure, UsbTypeOK
      <3>3. QED
        BY <1>7, <2>2, <3>2 DEF Configure, UsbTypeOK
    <2>3. QED
      BY <2>1, <2>2
  <1>8. ASSUME NEW ok \in BOOLEAN, KeyboardInit(p, ok) \/ MscInit(p, ok)
        PROVE  Goal
    <2>1. CASE ok
      BY <1>8, <2>1, EndCounts DEF KeyboardInit, MscInit, ThreadEnds, UsbTypeOK
    <2>2. CASE ~ok
      BY <1>6, <1>8, <2>2 DEF KeyboardInit, MscInit
    <2>3. QED
      BY <2>1, <2>2
  <1>9. ASSUME HubInitEnds(p)
        PROVE  Goal
    <2>1. HubOf(p) \in {"root", "ext"}
      BY DEF HubOf
    <2>2. /\ hub' \in [{"root", "ext"} -> [live : BOOLEAN, threads : Int, devcount : Int]]
          /\ hub'["root"].live
      BY <1>9, <2>1 DEF HubInitEnds, UsbTypeOK
    <2>3. QED
      BY <1>9, <2>2 DEF HubInitEnds, UsbTypeOK
  <1>10. QED
    BY <1>1, <1>2, <1>3, <1>4, <1>5, <1>7, <1>8, <1>9 DEF PortStep

(***************************************************************************)
(* usb_init_hub_port holds cntl->resetlock from the reset of a port until  *)
(* usb_set_address is over (usb.c:371-387): nobody else takes an address   *)
(* meanwhile.                                                              *)
(***************************************************************************)
LEMMA StepAddr ==
  ASSUME UsbTypeOK, LockInv, AddrInv, Apart, NEW p \in Ports, PortStep(p)
  PROVE  LockInv' /\ AddrInv' /\ Apart'
  <1> DEFINE Goal == LockInv' /\ AddrInv' /\ Apart'
             Locked == {"reset", "address", "recovery"}
  <1>1. /\ \A q \in Ports \ {p} : thr'[q] = thr[q] /\ dev'[q] = dev[q] /\ addr'[q] = addr[q]
        /\ UsbTypeOK' /\ p # Nobody /\ resetlock \in Ports \cup {Nobody} /\ Nobody \notin Ports
    BY StepType, UsbAssumption DEF UsbTypeOK
  <1>2. /\ \A q \in Ports : addr[q] \in Nat /\ addr'[q] \in Nat
        /\ maxaddr \in Nat /\ maxaddr' \in Nat
    BY <1>1 DEF UsbTypeOK
  \* A step outside the lock, or one that ends the thread without an address.
  <1>3. ASSUME thr[p] \notin Locked, thr'[p] \notin Locked, UNCHANGED <<resetlock, maxaddr>>,
               dev'[p] # "default", dev'[p] = "addressed" => dev[p] = "addressed" /\ addr'[p] = addr[p]
        PROVE  Goal
    <2>1. LockInv'
      BY <1>1, <1>3 DEF LockInv
    <2>2. AddrInv'
      BY <1>1, <1>3 DEF AddrInv
    <2>3. Apart'
      BY <1>1, <1>3 DEF Apart
    <2>4. QED
      BY <2>1, <2>2, <2>3
  <1>4. dev[p] = "default" => thr[p] = "address"
    BY DEF AddrInv
  <1>5. ASSUME LaunchPort(p) \/ HubInitEnds(p)
        PROVE  Goal
    <2>1. thr[p] \notin Locked /\ thr'[p] \notin Locked
      BY <1>5 DEF LaunchPort, HubInitEnds, UsbTypeOK
    <2>2. dev'[p] \in {dev[p], "off"} /\ UNCHANGED <<resetlock, maxaddr, addr>>
      BY <1>5 DEF LaunchPort, HubInitEnds, UsbTypeOK
    <2>3. QED
      BY <1>3, <1>4, <2>1, <2>2
  <1>6. ASSUME NEW ok \in BOOLEAN, Detect(p, ok)
        PROVE  Goal
    BY <1>3, <1>4, <1>6 DEF Detect, ThreadEnds, UsbTypeOK
  <1>7. ASSUME NEW ok \in BOOLEAN, Configure(p, ok) \/ KeyboardInit(p, ok) \/ MscInit(p, ok)
        PROVE  Goal
    <2>1. thr[p] \in {"configure", "keyboard", "disk"} /\ UNCHANGED <<resetlock, maxaddr, addr>>
      BY <1>7 DEF Configure, KeyboardInit, MscInit
    <2>2. dev'[p] \in {dev[p], "off"}
      BY <1>7 DEF Configure, KeyboardInit, MscInit, Unconfigured, UsbTypeOK
    <2>3. thr'[p] \in Kinds \cup {"done"}
      BY <1>7 DEF Configure, KeyboardInit, MscInit, Unconfigured, ThreadEnds, UsbTypeOK
    <2>4. QED
      BY <1>3, <1>4, <2>1, <2>2, <2>3 DEF Kinds
  <1>8. ASSUME LockReset(p)
        PROVE  Goal
    <2>1. /\ thr[p] = "lock" /\ resetlock = Nobody /\ resetlock' = p /\ thr'[p] = "reset"
          /\ UNCHANGED <<dev, addr, maxaddr>>
      BY <1>8 DEF LockReset, UsbTypeOK
    <2>2. LockInv'
      BY <1>1, <2>1 DEF LockInv
    <2>3. AddrInv' /\ Apart'
      BY <1>1, <2>1 DEF AddrInv, Apart
    <2>4. QED
      BY <2>2, <2>3
  \* The holder of the lock goes on: the others are as they were.
  <1>9. ASSUME thr[p] \in Locked
        PROVE  \A q \in Ports \ {p} : thr[q] \notin Locked /\ thr'[q] \notin Locked /\ dev[q] # "default"
    BY <1>1, <1>9 DEF LockInv, AddrInv
  <1>10. ASSUME NEW ok \in BOOLEAN, ResetPort(p, ok)
         PROVE  Goal
    <2>1. /\ thr[p] = "reset" /\ UNCHANGED <<addr, maxaddr>> /\ resetlock = p
          /\ \/ thr'[p] = "address" /\ dev'[p] = "default" /\ resetlock' = resetlock
             \/ thr'[p] = "done" /\ dev'[p] = dev[p] /\ resetlock' = Nobody
      BY <1>10 DEF ResetPort, ThreadEnds, UsbTypeOK, LockInv
    <2>2. LockInv'
      BY <1>1, <1>9, <2>1 DEF LockInv
    <2>3. AddrInv' /\ Apart'
      BY <1>1, <1>4, <2>1 DEF AddrInv, Apart
    <2>4. QED
      BY <2>2, <2>3
  <1>11. ASSUME NEW ok \in BOOLEAN, SendAddress(p, ok)
         PROVE  Goal
    <2>1. /\ thr[p] = "address" /\ maxaddr' = maxaddr /\ resetlock = p
          /\ \/ /\ thr'[p] = "recovery" /\ dev'[p] = "addressed" /\ addr'[p] = maxaddr + 1
                /\ resetlock' = resetlock
             \/ thr'[p] = "done" /\ dev'[p] = "off" /\ resetlock' = Nobody
      BY <1>11 DEF SendAddress, ThreadEnds, UsbTypeOK, LockInv
    <2>2. LockInv'
      BY <1>1, <1>9, <2>1 DEF LockInv
    <2>3. \A q \in Ports \ {p} : dev[q] = "addressed" => addr[q] <= maxaddr
      BY <1>9, <2>1 DEF AddrInv
    <2>4. AddrInv'
      BY <1>1, <2>1 DEF AddrInv
    <2>5. Apart'
      BY <1>1, <1>2, <2>1, <2>3 DEF Apart
    <2>6. QED
      BY <2>2, <2>4, <2>5
  <1>12. ASSUME NEW ok \in BOOLEAN, TakeAddress(p, ok)
         PROVE  Goal
    <2>1. /\ thr[p] = "recovery" /\ maxaddr' = maxaddr + 1 /\ addr' = addr /\ resetlock = p
          /\ resetlock' = Nobody /\ dev'[p] \in {dev[p], "off"} /\ thr'[p] \in {"configure", "done"}
      BY <1>12 DEF TakeAddress, ThreadEnds, UsbTypeOK, LockInv
    <2>2. LockInv'
      BY <1>1, <1>9, <2>1 DEF LockInv
    <2>3. addr[p] = maxaddr + 1 /\ \A q \in Ports \ {p} : dev[q] = "addressed" => addr[q] <= maxaddr
      BY <1>9, <2>1 DEF AddrInv
    <2>4. AddrInv'
      BY <1>1, <1>2, <1>4, <1>9, <2>1, <2>3 DEF AddrInv
    <2>5. Apart'
      BY <1>1, <2>1 DEF Apart
    <2>6. QED
      BY <2>2, <2>4, <2>5
  <1>13. QED
    BY <1>5, <1>6, <1>7, <1>8, <1>10, <1>11, <1>12 DEF PortStep

(***************************************************************************)
(* usb_hub_init returns when the count of threads is back at zero          *)
(* (usb.c:414-416): the count is exact, so every thread of the hub's ports *)
(* has ended.                                                              *)
(***************************************************************************)
LEMMA StepHub ==
  ASSUME UsbTypeOK, HubInv, NEW p \in Ports, PortStep(p)
  PROVE  HubInv'
  <1>1. /\ \A q \in Ports \ {p} : thr'[q] = thr[q]
        /\ plugged' = plugged /\ HubPorts \subseteq Ports
        /\ \A u \in Ports : plugged[u] = "hub" => u \notin HubPorts
        /\ \A u, v \in Ports : plugged[u] = "hub" /\ plugged[v] = "hub" => u = v
    BY StepType, UsbAssumption DEF UsbTypeOK, Ports
  \* The thread goes on, and the attached hub is as it was.
  <1>2. ASSUME hub' = hub, thr[p] \notin {"none", "done", "hub"}, thr'[p] \notin {"none", "done", "hub"}
        PROVE  HubInv'
    <2>1. Unended' = Unended
      BY <1>1, <1>2 DEF Unended
    <2>2. QED
      BY <1>1, <1>2, <2>1 DEF HubInv
  \* The thread ends.
  <1>3. ASSUME NEW count \in {0, 1}, ThreadEnds(p, count), thr[p] \notin {"none", "done", "hub"}
        PROVE  HubInv'
    <2>1. thr'[p] = "done"
      BY <1>3 DEF ThreadEnds, UsbTypeOK
    <2>2. /\ hub'["ext"].live = hub["ext"].live
          /\ p \in HubPorts => hub'["ext"].threads = hub["ext"].threads - 1
          /\ p \notin HubPorts => hub'["ext"].threads = hub["ext"].threads
      BY <1>3, EndCounts
    <2>3. IsFiniteSet(Unended)
      BY UsbAssumption, FS_Subset DEF Unended
    <2>4. CASE p \in HubPorts
      <3>1. Unended' = Unended \ {p} /\ p \in Unended
        BY <1>1, <1>3, <2>1, <2>4 DEF Unended
      <3>2. Cardinality(Unended') = Cardinality(Unended) - 1
        BY <2>3, <3>1, FS_RemoveElement
      <3>3. QED
        BY <1>1, <1>3, <2>1, <2>2, <2>4, <3>2 DEF HubInv
    <2>5. CASE p \notin HubPorts
      <3>1. Unended' = Unended
        BY <1>1, <2>5 DEF Unended
      <3>2. QED
        BY <1>1, <1>3, <2>1, <2>2, <2>5, <3>1 DEF HubInv
    <2>6. QED
      BY <2>4, <2>5
  <1>4. ASSUME LaunchPort(p)
        PROVE  HubInv'
    <2>1. /\ thr[p] = "none" /\ thr'[p] = "detect" /\ hub' = hub
          /\ p \in HubPorts => hub["ext"].live
      BY <1>4, UsbAssumption DEF LaunchPort, UsbTypeOK, HubOf
    <2>2. Unended' = Unended
      BY <1>1, <2>1 DEF Unended
    <2>3. hub["ext"].live => \A u \in Ports : plugged[u] = "hub" => thr[u] = "hub"
      BY <1>1 DEF HubInv
    <2>4. QED
      BY <1>1, <2>1, <2>2, <2>3 DEF HubInv
  <1>5. ASSUME LockReset(p)
        PROVE  HubInv'
    BY <1>2, <1>5 DEF LockReset, UsbTypeOK
  <1>6. ASSUME NEW ok \in BOOLEAN, Detect(p, ok) \/ ResetPort(p, ok)
        PROVE  HubInv'
    BY <1>2, <1>3, <1>6 DEF Detect, ResetPort, UsbTypeOK
  <1>7. ASSUME NEW ok \in BOOLEAN, SendAddress(p, ok) \/ TakeAddress(p, ok)
        PROVE  HubInv'
    BY <1>2, <1>3, <1>7 DEF SendAddress, TakeAddress, UsbTypeOK
  <1>8. ASSUME NEW ok \in BOOLEAN, KeyboardInit(p, ok) \/ MscInit(p, ok)
        PROVE  HubInv'
    BY <1>3, <1>8 DEF KeyboardInit, MscInit, Unconfigured
  <1>9. ASSUME NEW ok \in BOOLEAN, Configure(p, ok)
        PROVE  HubInv'
    <2>1. CASE ~ok \/ plugged[p] = "other" \/ (plugged[p] = "keyboard" /\ keyboardPipe # Nobody)
      BY <1>3, <1>9, <2>1 DEF Configure, Unconfigured
    <2>2. CASE ~(~ok \/ plugged[p] = "other" \/ (plugged[p] = "keyboard" /\ keyboardPipe # Nobody))
      <3>1. thr[p] = "configure" /\ thr'[p] = plugged[p] /\ plugged[p] \in Kinds
        BY <1>9, <2>2 DEF Configure, UsbTypeOK
      <3>2. CASE plugged[p] # "hub"
        BY <1>2, <1>9, <2>2, <3>1, <3>2 DEF Configure, Kinds
      <3>3. CASE plugged[p] = "hub"
        <4>1. \A q \in HubPorts : thr[q] = "none" /\ thr'[q] = "none"
          BY <1>1, <3>1, <3>3 DEF HubInv
        <4>2. hub'["ext"].live /\ hub'["ext"].threads = Cardinality(HubPorts)
          BY <1>9, <2>2, <3>3 DEF Configure, Fresh, PortsOf, UsbTypeOK
        <4>3. Unended' = HubPorts
          BY <4>1 DEF Unended
        <4>4. QED
          BY <1>1, <3>1, <3>3, <4>1, <4>2, <4>3 DEF HubInv
      <3>4. QED
        BY <3>2, <3>3
    <2>3. QED
      BY <2>1, <2>2
  <1>10. ASSUME HubInitEnds(p)
         PROVE  HubInv'
    <2>1. thr[p] = "hub" /\ hub["ext"].threads = 0 /\ thr'[p] = "done" /\ ~hub'["ext"].live
      <3>1. HubOf(p) \in {"root", "ext"}
        BY DEF HubOf
      <3>2. QED
        BY <1>10, <3>1 DEF HubInitEnds, UsbTypeOK
    <2>2. plugged[p] = "hub" /\ Cardinality(Unended) = 0
      BY <2>1 DEF HubInv
    <2>3. Unended = {}
      BY <2>2, UsbAssumption, FS_Subset, FS_EmptySet DEF Unended
    <2>4. \A q \in HubPorts : thr[q] = "done" /\ thr'[q] = "done"
      BY <1>1, <2>2, <2>3 DEF Unended
    <2>5. QED
      BY <1>1, <2>1, <2>2, <2>4 DEF HubInv
  <1>11. QED
    BY <1>4, <1>5, <1>6, <1>7, <1>8, <1>9, <1>10 DEF PortStep

(***************************************************************************)
(* The invariants say what UsbSound says.                                  *)
(***************************************************************************)
LEMMA SoundFromInv == UsbTypeOK /\ LockInv /\ AddrInv /\ Apart /\ HubInv => UsbSound
  <1> SUFFICES ASSUME UsbTypeOK, LockInv, AddrInv, Apart, HubInv
               PROVE  UsbSound
    OBVIOUS
  <1>1. Cardinality({p \in Ports : dev[p] = "default"}) <= 1
    <2>1. {p \in Ports : dev[p] = "default"} \in SUBSET {resetlock}
      BY DEF LockInv, AddrInv
    <2>2. IsFiniteSet({resetlock}) /\ Cardinality({resetlock}) = 1
      BY FS_Singleton
    <2>3. QED
      BY <2>1, <2>2, FS_Subset
  <1>2. HubOutlivesThreads
    BY DEF HubOutlivesThreads, HubInv, UsbTypeOK, HubOf, Ports
  <1>3. QED
    BY <1>1, <1>2 DEF UsbSound, AddressedApart, Apart

(***************************************************************************)
(* Whatever is plugged in and whichever messages fail, at most one device  *)
(* answers at the default address, devices in use have different addresses *)
(* (usb.c:245-298, 359-399), and no thread runs on a hub whose record is   *)
(* gone (usb-hub.c:160-185, usb.c:401-417).                                *)
(***************************************************************************)
THEOREM DevicesApart == UsbSpec => []UsbSound
  <1> DEFINE IInv == UsbTypeOK /\ LockInv /\ AddrInv /\ Apart /\ HubInv
  <1>1. UsbInit => IInv
    BY InitUsb
  <1>2. IInv /\ [UsbNext]_usbVars => IInv'
    <2>1. ASSUME IInv, UNCHANGED usbVars
          PROVE  IInv'
      BY <2>1 DEF usbVars, UsbTypeOK, LockInv, AddrInv, Apart, HubInv, Unended
    <2>2. ASSUME IInv, NEW p \in Ports, PortStep(p)
          PROVE  IInv'
      BY <2>2, StepType, StepAddr, StepHub
    <2>3. QED
      BY <2>1, <2>2 DEF UsbNext
  <1>3. IInv => UsbSound
    BY SoundFromInv
  <1>4. QED
    BY <1>1, <1>2, <1>3, PTL DEF UsbSpec
============================================================================
