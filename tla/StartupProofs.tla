--------------------------- MODULE StartupProofs ---------------------------
(***************************************************************************)
(* Proofs about Startup, for any number of cores and of other threads.     *)
(***************************************************************************)
EXTENDS Startup, TLAPS

\* What the main thread has done for every core.
AllSet == \A c \in Core : intr_queue[c] /\ thread[c] = c

\* How far the loops of the main thread have got.
MainInv ==
  /\ tpc[Hw] = "coremu_init" => cur = 0
  /\ tpc[Hw] = "core_init" => \A c \in Core : c < cur => intr_queue[c]
  /\ tpc[Hw] \in {"create", "store"} =>
       /\ \A c \in Core : intr_queue[c]
       /\ \A c \in Core : c < cur => thread[c] = c
  /\ tpc[Hw] \in {"done", "idle", "to_self", "signal", "kill"} => AllSet
  /\ init_done => tpc[Hw] \in {"idle", "to_self", "signal", "kill"}

\* An id or a pointer is either not set or the right one.
FieldInv ==
  /\ \A c \in Core : thread[c] \in {None, c}
  /\ \A c \in Core : tid[c] \in {None, c}
  /\ \A c \in Core : cm_core_self[c] \in {None, c}

\* Where a core's thread has been since init_done.
BootInv ==
  \A c \in Core :
    /\ tpc[c] \in {"none", "wait_init", "prio", "self", "tid", "bind",
                   "idle", "to_self", "signal", "kill"}
    /\ tpc[c] \notin {"none", "wait_init"} \/ hpc[c] = "self" => init_done
    /\ tpc[c] \in {"tid", "bind", "idle", "to_self", "signal", "kill"} \/ hpc[c] = "self"
         => cm_core_self[c] = c
    /\ signals[c] > 0 \/ tid[c] # None => init_done

\* Nobody sends before init_done.
SendInv ==
  \A t \in Thread :
    /\ target[t] # None => init_done
    /\ tpc[t] \in {"to_self", "signal", "kill"} => target[t] # None

IInv == StartTypeOK /\ MainInv /\ FieldInv /\ BootInv /\ SendInv

----------------------------------------------------------------------------
\* The remainder that topology_bind_core takes is a core of the host.
LEMMA Remainder == ASSUME NEW a \in Core PROVE a % cores \in 0 .. cores - 1
BY CoresAssumption, StartupAssumption DEF Core

\* After init_done everything is set up.
LEMMA DoneMeansSet == IInv /\ init_done => AllSet
BY DEF IInv, MainInv

\* The search by a core's thread whose id is stored finds that core; a thread
\* of no core finds none.
LEMMA SelfFound ==
  ASSUME IInv, NEW t \in Thread
  PROVE  /\ t \in Core /\ thread[t] = t => GetCoreSelf(t) = t
         /\ GetCoreSelf(t) \in Core \cup {None}
         /\ t \in Core => GetCoreSelf(t) \in {None, t}
<1> DEFINE mine == {c \in Core : thread[c] = t}
<1> USE CoresAssumption, StartupAssumption
<1>1. mine \subseteq {t}
  BY DEF IInv, FieldInv
<1>2. cm_core_self[t] \in Core \cup {None} /\ (t \in Core => cm_core_self[t] \in {None, t})
  BY DEF IInv, FieldInv, StartTypeOK
<1>3. CASE mine = {}
  <2>1. ~(t \in Core /\ thread[t] = t)
    BY <1>3
  <2>2. GetCoreSelf(t) = cm_core_self[t]
    BY <1>3 DEF GetCoreSelf
  <2> QED
    BY <1>2, <2>1, <2>2
<1>4. CASE mine # {}
  <2>1. t \in Core /\ mine = {t}
    BY <1>1, <1>4
  <2>2. (CHOOSE c \in mine : \A d \in mine : c <= d) = t
    BY <2>1 DEF Core
  <2>3. GetCoreSelf(t) = t
    BY <1>2, <1>4, <2>1, <2>2 DEF GetCoreSelf
  <2> QED
    BY <2>1, <2>3
<1> QED
  BY <1>3, <1>4

----------------------------------------------------------------------------
\* Nothing is set up, nobody runs but the main thread.
LEMMA InitInv == StartInit => IInv
<1> SUFFICES ASSUME StartInit PROVE IInv
  OBVIOUS
<1> USE CoresAssumption, StartupAssumption
<1>1. 0 \in Core
  BY DEF Core
<1>2. tpc[Hw] = "coremu_init" /\ \A c \in Core : tpc[c] = "none"
  BY DEF StartInit, Thread
<1>3. tpc \in [Thread -> Location]
  BY DEF StartInit, Location
<1>4. StartTypeOK
  BY <1>1, <1>3 DEF StartInit, StartTypeOK
<1>5. MainInv
  BY <1>2 DEF StartInit, MainInv
<1>6. FieldInv
  BY DEF StartInit, FieldInv, Thread
<1>7. BootInv
  BY <1>2 DEF StartInit, BootInv
<1>8. SendInv
  BY DEF StartInit, SendInv
<1> QED
  BY <1>4, <1>5, <1>6, <1>7, <1>8 DEF IInv

----------------------------------------------------------------------------
\* The main thread initialises the library, then core after core.
LEMMA InitialisationInv ==
  ASSUME IInv, CoremuInit \/ CoreInit PROVE IInv'
<1> USE CoresAssumption, StartupAssumption
<1>1. CASE CoremuInit
  <2>1. StartTypeOK'
    BY <1>1 DEF IInv, StartTypeOK, CoremuInit, InitSchedAll, RegisterHwThr, Step, coreVars,
                sendVars, Location, Thread
  <2>2. MainInv'
    <3>1. tpc'[Hw] = "core_init" /\ cur' = 0 /\ ~init_done'
      BY <1>1 DEF IInv, StartTypeOK, MainInv, CoremuInit, InitSchedAll, RegisterHwThr, Step, Thread
    <3> QED
      BY <3>1 DEF MainInv, Core
  <2>3. FieldInv' /\ BootInv' /\ SendInv'
    BY <1>1 DEF IInv, StartTypeOK, FieldInv, BootInv, SendInv, CoremuInit, Step, coreVars,
                sendVars, Thread
  <2> QED
    BY <2>1, <2>2, <2>3 DEF IInv
<1>2. CASE CoreInit
  <2>1. cur' \in Core /\ cur \in Core
    BY <1>2 DEF IInv, StartTypeOK, CoreInit, Loop, Core
  <2>2. StartTypeOK'
    BY <1>2, <2>1 DEF IInv, StartTypeOK, CoreInit, Loop, Step, sendVars, Location, Thread
  <2>3. tpc[Hw] = "core_init" /\ ~init_done /\ ~init_done'
    BY <1>2 DEF IInv, MainInv, CoreInit, Loop, Step
  <2>4. MainInv'
    <3>1. \A c \in Core : c <= cur => intr_queue'[c]
      <4> SUFFICES ASSUME NEW c \in Core, c <= cur PROVE intr_queue'[c]
        OBVIOUS
      <4>1. c = cur \/ c < cur
        BY <2>1 DEF Core
      <4>2. c < cur => intr_queue[c]
        BY <2>3 DEF IInv, MainInv
      <4> QED
        BY <1>2, <4>1, <4>2 DEF CoreInit, IInv, StartTypeOK
    <3>2. CASE cur = cm_smp_cpus - 1
      <4>1. tpc'[Hw] = "create" /\ cur' = 0
        BY <1>2, <3>2 DEF CoreInit, Loop, Step, IInv, StartTypeOK, Thread
      <4>2. \A c \in Core : intr_queue'[c]
        BY <3>1, <3>2 DEF Core
      <4> QED
        BY <2>3, <4>1, <4>2 DEF MainInv, Core
    <3>3. CASE cur # cm_smp_cpus - 1
      <4>1. tpc'[Hw] = "core_init" /\ cur' = cur + 1
        BY <1>2, <3>3 DEF CoreInit, Loop, Step, IInv, StartTypeOK, Thread
      <4>2. \A c \in Core : c < cur' => intr_queue'[c]
        BY <2>1, <3>1, <4>1 DEF Core
      <4> QED
        BY <2>3, <4>1, <4>2 DEF MainInv
    <3> QED
      BY <3>2, <3>3
  <2>5. FieldInv' /\ BootInv' /\ SendInv'
    BY <1>2 DEF IInv, StartTypeOK, FieldInv, BootInv, SendInv, CoreInit, Loop, Step,
                sendVars, Thread
  <2> QED
    BY <2>2, <2>4, <2>5 DEF IInv
<1> QED
  BY <1>1, <1>2

\* The main thread creates the threads, stores their ids and sets init_done.
LEMMA CreationInv ==
  ASSUME IInv, Create \/ StoreThread \/ SetInitDone PROVE IInv'
<1> USE CoresAssumption, StartupAssumption
<1>1. CASE Create
  <2>1. cur \in Core /\ cur \in Thread /\ Hw \in Thread /\ cur # Hw
    BY DEF IInv, StartTypeOK, Thread
  <2>2. /\ tpc[Hw] = "create" /\ tpc'[Hw] = "store" /\ tpc'[cur] = "wait_init"
        /\ \A t \in Thread \ {Hw, cur} : tpc'[t] = tpc[t]
        /\ tpc' \in [Thread -> Location]
    BY <1>1, <2>1 DEF IInv, StartTypeOK, Create, Location
  <2>3. ~init_done
    BY <2>2 DEF IInv, MainInv
  <2>4. StartTypeOK'
    BY <1>1, <2>1, <2>2 DEF IInv, StartTypeOK, Create, coreVars, sendVars
  <2>5. MainInv'
    BY <1>1, <2>2, <2>3 DEF IInv, MainInv, Create, coreVars
  <2>6. FieldInv'
    BY <1>1 DEF IInv, FieldInv, Create, coreVars
  <2>7. BootInv'
    BY <1>1, <2>1, <2>2, <2>3 DEF IInv, BootInv, Create, coreVars, Thread
  <2>8. SendInv'
    BY <1>1, <2>1, <2>2, <2>3 DEF IInv, SendInv, Create, sendVars
  <2> QED
    BY <2>4, <2>5, <2>6, <2>7, <2>8 DEF IInv
<1>2. CASE StoreThread
  <2>1. cur' \in Core /\ cur \in Core
    BY <1>2 DEF IInv, StartTypeOK, StoreThread, Loop, Core
  <2>2. StartTypeOK'
    BY <1>2, <2>1 DEF IInv, StartTypeOK, StoreThread, Loop, Step, sendVars, Location, Thread
  <2>3. tpc[Hw] = "store" /\ ~init_done /\ ~init_done'
    BY <1>2 DEF IInv, MainInv, StoreThread, Loop, Step
  <2>4. MainInv'
    <3>1. \A c \in Core : intr_queue'[c]
      BY <1>2, <2>3 DEF IInv, MainInv, StoreThread
    <3>2. \A c \in Core : c <= cur => thread'[c] = c
      <4> SUFFICES ASSUME NEW c \in Core, c <= cur PROVE thread'[c] = c
        OBVIOUS
      <4>1. c = cur \/ c < cur
        BY <2>1 DEF Core
      <4>2. c < cur => thread[c] = c
        BY <2>3 DEF IInv, MainInv
      <4> QED
        BY <1>2, <4>1, <4>2 DEF StoreThread, IInv, StartTypeOK
    <3>3. CASE cur = cm_smp_cpus - 1
      <4>1. tpc'[Hw] = "done"
        BY <1>2, <3>3 DEF StoreThread, Loop, Step, IInv, StartTypeOK, Thread
      <4>2. \A c \in Core : thread'[c] = c
        BY <3>2, <3>3 DEF Core
      <4> QED
        BY <2>3, <3>1, <4>1, <4>2 DEF MainInv, AllSet
    <3>4. CASE cur # cm_smp_cpus - 1
      <4>1. tpc'[Hw] = "create" /\ cur' = cur + 1
        BY <1>2, <3>4 DEF StoreThread, Loop, Step, IInv, StartTypeOK, Thread
      <4>2. \A c \in Core : c < cur' => thread'[c] = c
        BY <2>1, <3>2, <4>1 DEF Core
      <4> QED
        BY <2>3, <3>1, <4>1, <4>2 DEF MainInv
    <3> QED
      BY <3>3, <3>4
  <2>5. FieldInv' /\ BootInv' /\ SendInv'
    BY <1>2, <2>1 DEF IInv, StartTypeOK, FieldInv, BootInv, SendInv, StoreThread, Loop, Step,
                sendVars, Thread
  <2> QED
    BY <2>2, <2>4, <2>5 DEF IInv
<1>3. CASE SetInitDone
  <2>1. StartTypeOK'
    BY <1>3 DEF IInv, StartTypeOK, SetInitDone, Step, coreVars, sendVars, Location, Thread
  <2>2. MainInv'
    BY <1>3 DEF IInv, StartTypeOK, MainInv, SetInitDone, Step, coreVars, sendVars, Thread, AllSet
  <2>3. FieldInv' /\ BootInv' /\ SendInv'
    BY <1>3 DEF IInv, StartTypeOK, FieldInv, BootInv, SendInv, SetInitDone, Step, coreVars,
                sendVars, Thread
  <2> QED
    BY <2>1, <2>2, <2>3 DEF IInv
<1> QED
  BY <1>1, <1>2, <1>3

\* A core's thread starts: it gets past wait_init only after init_done, and
\* finds itself.
LEMMA BootStepInv ==
  ASSUME IInv, NEW c \in Core, Boot(c) PROVE IInv'
<1> USE CoresAssumption, StartupAssumption
<1> c \in Thread /\ c # Hw /\ Hw \in Thread
  BY DEF Thread
<1>1. CASE WaitInit(c) \/ SetPrio(c)
  <2>1. StartTypeOK'
    BY <1>1 DEF IInv, StartTypeOK, WaitInit, SetPrio, Step, coreVars, sendVars, Location
  <2>2. MainInv' /\ FieldInv'
    BY <1>1 DEF IInv, StartTypeOK, MainInv, FieldInv, AllSet, WaitInit, SetPrio, Step, coreVars
  <2>3. BootInv'
    <3>1. CASE WaitInit(c)
      BY <3>1 DEF IInv, StartTypeOK, BootInv, WaitInit, Step, coreVars
    <3>2. CASE SetPrio(c)
      BY <3>2 DEF IInv, StartTypeOK, BootInv, SetPrio, Step, coreVars
    <3> QED
      BY <1>1, <3>1, <3>2
  <2>4. SendInv'
    BY <1>1 DEF IInv, StartTypeOK, SendInv, WaitInit, SetPrio, Step, sendVars
  <2> QED
    BY <2>1, <2>2, <2>3, <2>4 DEF IInv
<1>2. CASE InitSelf(c)
  <2>1. init_done /\ thread[c] = c
    BY <1>2, DoneMeansSet DEF InitSelf, Step, IInv, BootInv, AllSet
  <2>2. GetCoreSelf(c) = c
    BY <2>1, SelfFound
  <2>3. cm_core_self' = [cm_core_self EXCEPT ![c] = c]
    BY <1>2, <2>2 DEF InitSelf, FindSelf
  <2>4. StartTypeOK'
    BY <1>2, <2>3 DEF IInv, StartTypeOK, InitSelf, Step, coreVars, sendVars, Location
  <2>5. MainInv' /\ FieldInv'
    BY <1>2, <2>3 DEF IInv, StartTypeOK, MainInv, FieldInv, AllSet, InitSelf, Step, coreVars
  <2>6. BootInv'
    BY <1>2, <2>1, <2>3 DEF IInv, StartTypeOK, BootInv, InitSelf, Step, coreVars
  <2>7. SendInv'
    BY <1>2 DEF IInv, StartTypeOK, SendInv, InitSelf, Step, sendVars
  <2> QED
    BY <2>4, <2>5, <2>6, <2>7 DEF IInv
<1>3. CASE StoreTid(c)
  <2>1. init_done /\ cm_core_self[c] = c
    BY <1>3 DEF StoreTid, Step, IInv, BootInv
  <2>2. tid' = [tid EXCEPT ![c] = c]
    BY <1>3, <2>1 DEF StoreTid
  <2>3. StartTypeOK'
    BY <1>3, <2>2 DEF IInv, StartTypeOK, StoreTid, Step, sendVars, Location
  <2>4. MainInv' /\ FieldInv'
    BY <1>3, <2>2 DEF IInv, StartTypeOK, MainInv, FieldInv, AllSet, StoreTid, Step
  <2>5. BootInv'
    BY <1>3, <2>1, <2>2 DEF IInv, StartTypeOK, BootInv, StoreTid, Step
  <2>6. SendInv'
    BY <1>3 DEF IInv, StartTypeOK, SendInv, StoreTid, Step, sendVars
  <2> QED
    BY <2>3, <2>4, <2>5, <2>6 DEF IInv
<1>4. CASE BindCore(c)
  <2>1. cm_core_self[c] = c
    BY <1>4 DEF BindCore, Step, IInv, BootInv
  <2>2. serial[c] % cores \in 0 .. cores - 1
    BY Remainder DEF IInv, StartTypeOK
  <2>3. bound' \in [Core -> 0 .. cores - 1 \cup {None}]
    BY <1>4, <2>1, <2>2 DEF BindCore, IInv, StartTypeOK
  <2>4. StartTypeOK'
    BY <1>4, <2>3 DEF IInv, StartTypeOK, BindCore, Step, coreVars, sendVars, Location
  <2>5. MainInv' /\ FieldInv'
    BY <1>4 DEF IInv, StartTypeOK, MainInv, FieldInv, AllSet, BindCore, Step, coreVars
  <2>6. BootInv'
    BY <1>4 DEF IInv, StartTypeOK, BootInv, BindCore, Step, coreVars
  <2>7. SendInv'
    BY <1>4 DEF IInv, StartTypeOK, SendInv, BindCore, Step, sendVars
  <2> QED
    BY <2>4, <2>5, <2>6, <2>7 DEF IInv
<1> QED
  BY <1>1, <1>2, <1>3, <1>4 DEF Boot

\* The handler runs only after init_done, so it finds its core too.
LEMMA HandleInv ==
  ASSUME IInv, NEW c \in Core, Handle(c) PROVE IInv'
<1> USE CoresAssumption, StartupAssumption
<1> c \in Thread /\ c # Hw /\ Hw \in Thread
  BY DEF Thread
<1>1. CASE Deliver(c)
  <2>1. init_done /\ thread[c] = c
    BY <1>1, DoneMeansSet DEF Deliver, IInv, BootInv, AllSet
  <2>2. GetCoreSelf(c) = c
    BY <2>1, SelfFound
  <2>3. cm_core_self' = [cm_core_self EXCEPT ![c] = c]
    BY <1>1, <2>2 DEF Deliver, FindSelf
  <2>4. StartTypeOK'
    BY <1>1, <2>3 DEF IInv, StartTypeOK, Deliver, Handler, coreVars, sendVars
  <2>5. MainInv' /\ FieldInv'
    BY <1>1, <2>3 DEF IInv, StartTypeOK, MainInv, FieldInv, AllSet, Deliver, Handler, coreVars
  <2>6. BootInv'
    BY <1>1, <2>1, <2>3 DEF IInv, StartTypeOK, BootInv, Deliver, Handler, coreVars
  <2>7. SendInv'
    BY <1>1 DEF IInv, StartTypeOK, SendInv, Deliver, Handler, sendVars
  <2> QED
    BY <2>4, <2>5, <2>6, <2>7 DEF IInv
<1>2. CASE HandleIntr(c)
  <2>1. StartTypeOK'
    BY <1>2 DEF IInv, StartTypeOK, HandleIntr, Handler, coreVars, sendVars
  <2>2. MainInv' /\ FieldInv' /\ SendInv'
    BY <1>2 DEF IInv, MainInv, FieldInv, SendInv, AllSet, HandleIntr, Handler, coreVars,
                sendVars
  <2>3. BootInv'
    BY <1>2 DEF IInv, StartTypeOK, BootInv, HandleIntr, Handler, coreVars
  <2> QED
    BY <2>1, <2>2, <2>3 DEF IInv
<1> QED
  BY <1>1, <1>2 DEF Handle

\* A thread that sends: it has a target only after init_done.
LEMMA SendStepInv ==
  ASSUME IInv, NEW t \in Thread, Send(t) PROVE IInv'
<1> USE CoresAssumption, StartupAssumption
<1> Hw \in Thread /\ Core \subseteq Thread
  BY DEF Thread
<1>1. ASSUME NEW c \in Core, SendIntr(t, c) PROVE IInv'
  <2>1. c # None
    OBVIOUS
  <2>2. tpc[t] = "idle" /\ tpc' = [tpc EXCEPT ![t] = tpc'[t]]
    BY <1>1 DEF SendIntr, Step, IInv, StartTypeOK
  <2>3. \/ ~init_done /\ tpc'[t] = "idle" /\ target' = target
        \/ init_done /\ tpc'[t] \in {"signal", "to_self"} /\ target' = [target EXCEPT ![t] = c]
    BY <1>1 DEF SendIntr, Step, IInv, StartTypeOK
  <2>4. StartTypeOK'
    BY <1>1, <2>2, <2>3 DEF IInv, StartTypeOK, SendIntr, coreVars, Location
  <2>5. MainInv' /\ FieldInv'
    BY <1>1, <2>2, <2>3 DEF IInv, StartTypeOK, MainInv, FieldInv, AllSet, SendIntr, coreVars
  <2>6. BootInv'
    BY <1>1, <2>2, <2>3 DEF IInv, StartTypeOK, BootInv, SendIntr, coreVars
  <2>7. SendInv'
    BY <1>1, <2>1, <2>2, <2>3 DEF IInv, StartTypeOK, SendInv, SendIntr
  <2> QED
    BY <2>4, <2>5, <2>6, <2>7 DEF IInv
<1>2. CASE ToSelf(t)
  <2>1. init_done /\ tpc[t] = "to_self" /\ AllSet
    BY <1>2, DoneMeansSet DEF ToSelf, Step, IInv, SendInv
  <2>2. GetCoreSelf(t) \in Core \cup {None} /\ (t \in Core => GetCoreSelf(t) = t)
    BY <2>1, SelfFound DEF AllSet
  <2>3. cm_core_self' = [cm_core_self EXCEPT ![t] = GetCoreSelf(t)]
    BY <1>2 DEF ToSelf, FindSelf
  <2>4. /\ tpc' = [tpc EXCEPT ![t] = tpc'[t]]
        /\ \/ tpc'[t] = "idle" /\ target' = [target EXCEPT ![t] = None]
           \/ tpc'[t] = "signal" /\ target' = target
    BY <1>2 DEF ToSelf, Step, SendReturn, IInv, StartTypeOK
  <2>5. StartTypeOK'
    BY <1>2, <2>2, <2>3, <2>4 DEF IInv, StartTypeOK, ToSelf, coreVars, Location
  <2>6. MainInv'
    BY <1>2, <2>1, <2>4 DEF IInv, StartTypeOK, MainInv, AllSet, ToSelf, coreVars
  <2>7. FieldInv'
    BY <1>2, <2>2, <2>3 DEF IInv, StartTypeOK, FieldInv, ToSelf, coreVars
  <2>8. BootInv'
    BY <1>2, <2>1, <2>2, <2>3, <2>4 DEF IInv, StartTypeOK, BootInv, ToSelf, coreVars
  <2>9. SendInv'
    BY <1>2, <2>1, <2>4 DEF IInv, StartTypeOK, SendInv, ToSelf
  <2> QED
    BY <2>5, <2>6, <2>7, <2>8, <2>9 DEF IInv
<1>3. CASE NoSignal(t)
  <2>1. StartTypeOK'
    BY <1>3 DEF IInv, StartTypeOK, NoSignal, SendReturn, Step, coreVars, Location
  <2>2. MainInv' /\ FieldInv'
    BY <1>3 DEF IInv, StartTypeOK, MainInv, FieldInv, AllSet, NoSignal, Step, coreVars
  <2>3. BootInv'
    BY <1>3 DEF IInv, StartTypeOK, BootInv, NoSignal, Step, coreVars
  <2>4. SendInv'
    BY <1>3 DEF IInv, StartTypeOK, SendInv, NoSignal, SendReturn, Step
  <2> QED
    BY <2>1, <2>2, <2>3, <2>4 DEF IInv
<1>4. CASE Boost(t)
  <2>1. target[t] \in Core /\ tid[target[t]] \in Core \cup {None}
    BY <1>4 DEF Boost, Step, IInv, StartTypeOK, SendInv
  <2>2. prio' \in [Thread -> {"default", "avg", "high"}]
    BY <1>4, <2>1 DEF Boost, IInv, StartTypeOK
  <2>3. StartTypeOK'
    BY <1>4, <2>2 DEF IInv, StartTypeOK, Boost, Step, coreVars, sendVars, Location
  <2>4. MainInv' /\ FieldInv'
    BY <1>4 DEF IInv, StartTypeOK, MainInv, FieldInv, AllSet, Boost, Step, coreVars
  <2>5. BootInv'
    BY <1>4 DEF IInv, StartTypeOK, BootInv, Boost, Step, coreVars
  <2>6. SendInv'
    BY <1>4 DEF IInv, StartTypeOK, SendInv, Boost, Step, sendVars
  <2> QED
    BY <2>3, <2>4, <2>5, <2>6 DEF IInv
<1>5. CASE Kill(t)
  <2>1. target[t] \in Core /\ init_done
    BY <1>5 DEF Kill, Step, IInv, StartTypeOK, SendInv
  <2>2. signals' \in [Core -> Nat]
    BY <1>5, <2>1, DoneMeansSet DEF Kill, IInv, StartTypeOK, AllSet
  <2>3. StartTypeOK'
    BY <1>5, <2>2 DEF IInv, StartTypeOK, Kill, SendReturn, Step, coreVars, Location
  <2>4. MainInv' /\ FieldInv'
    BY <1>5 DEF IInv, StartTypeOK, MainInv, FieldInv, AllSet, Kill, Step, coreVars
  <2>5. BootInv'
    BY <1>5, <2>1 DEF IInv, StartTypeOK, BootInv, Kill, Step, coreVars
  <2>6. SendInv'
    BY <1>5 DEF IInv, StartTypeOK, SendInv, Kill, SendReturn, Step
  <2> QED
    BY <2>3, <2>4, <2>5, <2>6 DEF IInv
<1> QED
  BY <1>1, <1>2, <1>3, <1>4, <1>5 DEF Send

----------------------------------------------------------------------------
\* Every step of every thread keeps the invariant.
LEMMA NextInv == IInv /\ [StartNext]_startVars => IInv'
<1> SUFFICES ASSUME IInv, [StartNext]_startVars PROVE IInv'
  OBVIOUS
<1>1. CASE Main
  BY <1>1, InitialisationInv, CreationInv DEF Main
<1>2. CASE UNCHANGED startVars
  BY <1>2 DEF startVars, IInv, StartTypeOK, MainInv, AllSet, FieldInv, BootInv, SendInv
<1> QED
  BY <1>1, <1>2, BootStepInv, HandleInv, SendStepInv DEF StartNext

\* The inductive invariant holds throughout the start of COREMU.
THEOREM Invariance == StartSpec => []IInv
BY InitInv, NextInv, PTL DEF StartSpec

\* The types of the variables, of CMCore's fields among them.
THEOREM TypeCorrect == StartSpec => []StartTypeOK
<1>1. IInv => StartTypeOK
  BY DEF IInv
<1> QED
  BY <1>1, Invariance, PTL

\* For any number of cores: a core's thread, and the handler on top of it,
\* never act on a NULL or a wrong core (core.h:44-57).
THEOREM CoresKnowThemselves == StartSpec => []KnowsItself
<1>1. IInv => KnowsItself
  BY DEF IInv, BootInv, KnowsItself
<1> QED
  BY <1>1, Invariance, PTL

\* For any number of cores and senders: an interrupt that is sent finds the
\* queue and the thread of its core (intr.c:146-147).
THEOREM TargetsExist == StartSpec => []TargetExists
<1>1. IInv => TargetExists
  <2> SUFFICES ASSUME IInv, NEW t \in Thread, target[t] # None
               PROVE  intr_queue[target[t]] /\ thread[target[t]] = target[t]
    BY DEF TargetExists
  <2>1. target[t] \in Core /\ init_done
    BY DEF IInv, StartTypeOK, SendInv
  <2> QED
    BY <2>1, DoneMeansSet DEF AllSet
<1> QED
  BY <1>1, Invariance, PTL

\* For any number of cores: tid and thread of a core name the same thread
\* (intr.c:94-95).
THEOREM IdsAgree == StartSpec => []SameThread
<1>1. IInv => SameThread
  <2> SUFFICES ASSUME IInv, NEW c \in Core, tid[c] # None PROVE tid[c] = thread[c]
    BY DEF SameThread
  <2>1. init_done /\ tid[c] = c
    BY DEF IInv, BootInv, FieldInv
  <2> QED
    BY <2>1, DoneMeansSet DEF AllSet
<1> QED
  BY <1>1, Invariance, PTL
=============================================================================
