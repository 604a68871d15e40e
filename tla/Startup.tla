------------------------------ MODULE Startup ------------------------------
(***************************************************************************)
(* How COREMU comes up (main/core.c, main/core.h, main/hw.c, main/sched.c):*)
(* the main thread, which is also the hardware thread, initialises the     *)
(* library and the cores and creates a thread for each; a new thread waits *)
(* for init_done, finds out which core it is, and publishes its kernel     *)
(* thread id.  From init_done on, other threads interrupt cores that may   *)
(* not have got so far yet (main/intr.c).                                  *)
(*                                                                         *)
(* The thread created for core c is called c too.  Whether a send signals  *)
(* the core is decided in Intr; here it may or may not.                    *)
(***************************************************************************)
EXTENDS Cores, FiniteSets

CONSTANTS host_cpu_avail,  \* processors of the host
          cores,           \* cores in the host's topology
          Hw,              \* the main thread
          Aux,             \* threads that are neither Hw nor a core, and send
          None,            \* a NULL or zero field
          MaxSend          \* bound: interrupts sent in a behaviour

Thread == Core \cup {Hw} \cup Aux

ASSUME StartupAssumption == /\ host_cpu_avail \in Nat \ {0}
                            /\ cores \in Nat \ {0}
                            /\ Hw \notin Core \cup Aux
                            /\ Core \cap Aux = {}
                            /\ None \notin Thread
                            /\ MaxSend \in Nat

VARIABLES init_done,
          hw_thrid,
          cur,           \* the core the main thread is at in its loops
          serial,        \* CMCore fields
          intr_queue,    \* new_queue has been called for the core
          thread,
          tid,
          cm_core_self,  \* thread local
          bound,         \* the host core a core's thread is bound to
          prio,          \* priority of each thread
          signals,       \* COREMU_SIGNALs queued for each core's thread
          tpc,
          hpc,           \* where the signal handler of each core's thread is
          target,        \* the core a thread is sending to
          sent           \* interrupts sent so far, for MaxSend

coreVars == <<serial, intr_queue, thread, tid>>
sendVars == <<target, sent>>
startVars == <<init_done, hw_thrid, cur, serial, intr_queue, thread, tid, cm_core_self,
               bound, prio, signals, tpc, hpc, target, sent>>

StartInit == /\ init_done = FALSE
             /\ hw_thrid = None
             /\ cur = 0
             /\ serial = [c \in Core |-> 0]
             /\ intr_queue = [c \in Core |-> FALSE]
             /\ thread = [c \in Core |-> None]
             /\ tid = [c \in Core |-> None]
             /\ cm_core_self = [t \in Thread |-> None]
             /\ bound = [c \in Core |-> None]
             /\ prio = [t \in Thread |-> "default"]
             /\ signals = [c \in Core |-> 0]
             /\ tpc = [t \in Thread |-> CASE t = Hw -> "coremu_init"
                                          [] t \in Core -> "none"
                                          [] OTHER -> "idle"]
             /\ hpc = [c \in Core |-> "none"]
             /\ target = [t \in Thread |-> None]
             /\ sent = 0

\* A core's thread runs only while its handler does not.
Step(t, from, to) == /\ tpc[t] = from
                     /\ t \in Core => hpc[t] = "none"
                     /\ tpc' = [tpc EXCEPT ![t] = to]

----------------------------------------------------------------------------
(* The main thread.  The emulator calls coremu_init, coremu_core_init for   *)
(* each core, and coremu_run_all_cores.                                     *)

\* coremu_init_sched_all: the priority of the main thread
InitSchedAll == prio' = [prio EXCEPT ![Hw] = "high"]

\* coremu_init_hw, and coremu_hw_thr_p
RegisterHwThr == hw_thrid' = Hw
HwThrP(t) == t = hw_thrid

\* No core's thread exists yet.
CoremuInit ==
  /\ Step(Hw, "coremu_init", "core_init")
  /\ InitSchedAll
  /\ RegisterHwThr
  /\ UNCHANGED <<init_done, cur, coreVars, cm_core_self, bound, signals, hpc, sendVars>>

\* The loop over the cores: where the main thread is after the last one.
Loop(from, again, after) ==
  /\ Step(Hw, from, IF cur = cm_smp_cpus - 1 THEN after ELSE again)
  /\ cur' = IF cur = cm_smp_cpus - 1 THEN 0 ELSE cur + 1

CoreInit ==
  /\ Loop("core_init", "core_init", "create")
  /\ serial' = [serial EXCEPT ![cur] = cur]
  /\ intr_queue' = [intr_queue EXCEPT ![cur] = TRUE]
  /\ UNCHANGED <<init_done, hw_thrid, thread, tid, cm_core_self, bound, prio,
                 signals, hpc, sendVars>>

\* pthread_create(&cur->thread, ...).  The new thread may run before its id
\* has been stored.  It inherits the priority of its creator.
Create ==
  /\ tpc[Hw] = "create"
  /\ tpc' = [tpc EXCEPT ![Hw] = "store", ![cur] = "wait_init"]
  /\ prio' = [prio EXCEPT ![cur] = prio[Hw]]
  /\ UNCHANGED <<init_done, hw_thrid, cur, coreVars, cm_core_self, bound, signals,
                 hpc, sendVars>>

StoreThread ==
  /\ Loop("store", "create", "done")
  /\ thread' = [thread EXCEPT ![cur] = cur]
  /\ UNCHANGED <<init_done, hw_thrid, serial, intr_queue, tid, cm_core_self, bound,
                 prio, signals, hpc, sendVars>>

\* Mutation of SetInitDone: the flag is not set.
SetInitDoneForgotten ==
  /\ Step(Hw, "done", "idle")
  /\ UNCHANGED <<init_done, hw_thrid, cur, coreVars, cm_core_self, bound, prio, signals,
                 hpc, sendVars>>

\* init_done = true
SetInitDone ==
  /\ Step(Hw, "done", "idle")
  /\ init_done' = TRUE
  /\ UNCHANGED <<hw_thrid, cur, coreVars, cm_core_self, bound, prio, signals, hpc, sendVars>>

----------------------------------------------------------------------------
(* The thread of a core: coremu_wait_init, coremu_init_sched_core           *)

\* coremu_get_core_self: the cached core, or the first one whose thread is
\* this one, or NULL.
GetCoreSelf(t) ==
  LET mine == {c \in Core : thread[c] = t} IN
  CASE cm_core_self[t] # None -> cm_core_self[t]
    [] cm_core_self[t] = None /\ mine # {} -> CHOOSE c \in mine : \A d \in mine : c <= d
    [] OTHER -> None

FindSelf(t) == cm_core_self' = [cm_core_self EXCEPT ![t] = GetCoreSelf(t)]

\* Mutation of WaitInit: the thread does not wait.
WaitInitNot(c) ==
  /\ Step(c, "wait_init", "prio")
  /\ UNCHANGED <<init_done, hw_thrid, cur, coreVars, cm_core_self, bound, prio, signals,
                 hpc, sendVars>>

\* while (!init_done) nanosleep(...)
WaitInit(c) ==
  /\ init_done
  /\ Step(c, "wait_init", "prio")
  /\ UNCHANGED <<init_done, hw_thrid, cur, coreVars, cm_core_self, bound, prio, signals,
                 hpc, sendVars>>

\* coremu_thread_setpriority(PRIO_PROCESS, 0, avg_prio)
SetPrio(c) ==
  /\ Step(c, "prio", "self")
  /\ prio' = [prio EXCEPT ![c] = "avg"]
  /\ UNCHANGED <<init_done, hw_thrid, cur, coreVars, cm_core_self, bound, signals,
                 hpc, sendVars>>

\* self = coremu_get_core_self()
InitSelf(c) ==
  /\ Step(c, "self", "tid")
  /\ FindSelf(c)
  /\ UNCHANGED <<init_done, hw_thrid, cur, coreVars, bound, prio, signals, hpc, sendVars>>

\* self->tid = coremu_gettid()
StoreTid(c) ==
  /\ Step(c, "tid", "bind")
  /\ tid' = [tid EXCEPT ![cm_core_self[c]] = c]
  /\ UNCHANGED <<init_done, hw_thrid, cur, serial, intr_queue, thread, cm_core_self,
                 bound, prio, signals, hpc, sendVars>>

\* topology_bind_core.  A failure to bind ends the program.
BindCore(c) ==
  /\ Step(c, "bind", "idle")
  /\ bound' = [bound EXCEPT ![c] = serial[cm_core_self[c]] % cores]
  /\ UNCHANGED <<init_done, hw_thrid, cur, coreVars, cm_core_self, prio, signals,
                 hpc, sendVars>>

----------------------------------------------------------------------------
(* coremu_send_intr(e, coreid), by any thread at any time                   *)

\* Before init_done, the interrupt is dropped.  After it, coremu_put_intr
\* uses the queue of the core, and coremu_hw_thr_p decides what follows.
SendIntr(t, c) ==
  /\ sent < MaxSend
  /\ Step(t, "idle", CASE ~init_done -> "idle"
                       [] init_done /\ HwThrP(t) -> "signal"
                       [] OTHER -> "to_self")
  /\ target' = IF init_done THEN [target EXCEPT ![t] = c] ELSE target
  /\ sent' = sent + 1
  /\ UNCHANGED <<init_done, hw_thrid, cur, coreVars, cm_core_self, bound, prio, signals, hpc>>

SendReturn(t) == target' = [target EXCEPT ![t] = None]

\* if (core == coremu_get_core_self()) event_notifier()
ToSelf(t) ==
  /\ Step(t, "to_self", IF GetCoreSelf(t) = target[t] THEN "idle" ELSE "signal")
  /\ FindSelf(t)
  /\ IF GetCoreSelf(t) = target[t] THEN SendReturn(t) ELSE UNCHANGED target
  /\ UNCHANGED <<init_done, hw_thrid, cur, coreVars, bound, prio, signals, hpc, sent>>

\* coremu_send_signal without a signal
NoSignal(t) ==
  /\ Step(t, "signal", "idle")
  /\ SendReturn(t)
  /\ UNCHANGED <<init_done, hw_thrid, cur, coreVars, cm_core_self, bound, prio, signals,
                 hpc, sent>>

\* coremu_thread_setpriority(PRIO_PROCESS, core->tid, high_prio).  A tid of
\* zero means the caller.
Boost(t) ==
  LET id == tid[target[t]] IN
  /\ Step(t, "signal", "kill")
  /\ prio' = [prio EXCEPT ![IF id = None THEN t ELSE id] = "high"]
  /\ UNCHANGED <<init_done, hw_thrid, cur, coreVars, cm_core_self, bound, signals,
                 hpc, sendVars>>

\* pthread_kill(core->thread, COREMU_SIGNAL)
Kill(t) ==
  /\ Step(t, "kill", "idle")
  /\ signals' = [signals EXCEPT ![thread[target[t]]] = @ + 1]
  /\ SendReturn(t)
  /\ UNCHANGED <<init_done, hw_thrid, cur, coreVars, cm_core_self, bound, prio, hpc, sent>>

----------------------------------------------------------------------------
(* coremu_core_signal_handler, on top of any code of a core's thread        *)

Handler(c, from, to) ==
  /\ hpc[c] = from
  /\ hpc' = [hpc EXCEPT ![c] = to]
  /\ UNCHANGED <<init_done, hw_thrid, cur, coreVars, bound, tpc, sendVars>>

\* The kernel delivers a signal; self = coremu_get_core_self()
Deliver(c) ==
  /\ signals[c] > 0
  /\ Handler(c, "none", "self")
  /\ signals' = [signals EXCEPT ![c] = @ - 1]
  /\ FindSelf(c)
  /\ UNCHANGED prio

\* The accesses to the fields of self, and setpriority to avg_prio
HandleIntr(c) ==
  /\ Handler(c, "self", "none")
  /\ prio' = [prio EXCEPT ![c] = "avg"]
  /\ UNCHANGED <<signals, cm_core_self>>

----------------------------------------------------------------------------
Main == CoremuInit \/ CoreInit \/ Create \/ StoreThread \/ SetInitDone

Boot(c) == WaitInit(c) \/ SetPrio(c) \/ InitSelf(c) \/ StoreTid(c) \/ BindCore(c)

Handle(c) == Deliver(c) \/ HandleIntr(c)

Send(t) == \/ \E c \in Core : SendIntr(t, c)
           \/ ToSelf(t) \/ NoSignal(t) \/ Boost(t) \/ Kill(t)

StartNext == \/ Main
             \/ \E c \in Core : Boot(c) \/ Handle(c)
             \/ \E t \in Thread : Send(t)

StartSpec == StartInit /\ [][StartNext]_startVars

\* The main thread and the cores' threads keep running.
StartFairSpec == StartSpec /\ WF_startVars(Main) /\ \A c \in Core : WF_startVars(Boot(c)) /\ WF_startVars(Handle(c))

----------------------------------------------------------------------------
Location == {"none", "coremu_init", "core_init", "create", "store", "done",
             "wait_init", "prio", "self", "tid", "bind",
             "idle", "to_self", "signal", "kill"}

StartTypeOK == /\ init_done \in BOOLEAN
               /\ hw_thrid \in {Hw, None}
               /\ cur \in Core
               /\ serial \in [Core -> Core]
               /\ intr_queue \in [Core -> BOOLEAN]
               /\ thread \in [Core -> Core \cup {None}]
               /\ tid \in [Core -> Core \cup {None}]
               /\ cm_core_self \in [Thread -> Core \cup {None}]
               /\ bound \in [Core -> 0 .. cores - 1 \cup {None}]
               /\ prio \in [Thread -> {"default", "avg", "high"}]
               /\ signals \in [Core -> Nat]
               /\ tpc \in [Thread -> Location]
               /\ hpc \in [Core -> {"none", "self"}]
               /\ target \in [Thread -> Core \cup {None}]
               /\ sent \in Nat

(***************************************************************************)
(* A core's thread knows itself wherever it uses the result of             *)
(* coremu_get_core_self (core.h:44-57): in coremu_init_sched_core, and in  *)
(* the handler, which may run before that.  The search goes through ids    *)
(* that another thread stores while the threads run already.               *)
(***************************************************************************)
KnowsItself ==
  \A c \in Core : tpc[c] \in {"tid", "bind", "idle"} \/ hpc[c] = "self" => cm_core_self[c] = c

(***************************************************************************)
(* Whoever is about to interrupt a core finds its queue made and its       *)
(* thread created and known: the one test of init_done in coremu_send_intr *)
(* covers all that the main thread does for every core (intr.c:146-147).   *)
(***************************************************************************)
TargetExists ==
  \A t \in Thread : target[t] # None => intr_queue[target[t]] /\ thread[target[t]] = target[t]

(***************************************************************************)
(* core->tid, once set, and core->thread name the same thread, so that the *)
(* thread that is given priority is the one that is signalled              *)
(* (intr.c:94-95).                                                         *)
(***************************************************************************)
SameThread == \A c \in Core : tid[c] # None => tid[c] = thread[c]

\* coremu_get_thrs_per_core
ThrsPerCore == (host_cpu_avail + cm_smp_cpus - 1) \div host_cpu_avail

(***************************************************************************)
(* Where the host has one processor per core, binding is balanced: no host *)
(* core gets more threads than coremu_get_thrs_per_core promises           *)
(* (sched.c:100, sched.c:155-158).                                         *)
(***************************************************************************)
Balanced ==
  cores = host_cpu_avail =>
    \A h \in 0 .. cores - 1 : Cardinality({c \in Core : bound[c] = h}) <= ThrsPerCore

(***************************************************************************)
(* Every core's thread gets through its start, whatever interrupts reach   *)
(* it on the way ("Core threads wait until the COREMU intialization has    *)
(* done", coremu-init.h:45-46), and ends up on the host core that the      *)
(* balanced binding of sched.c:93-114 gives it.                            *)
(***************************************************************************)
AllStarted == <>(Balanced /\ \A c \in Core : bound[c] # None)
=============================================================================
