------------------------------- MODULE Intr -------------------------------
(***************************************************************************)
(* Adaptive signalling, main/intr.c: coremu_send_intr puts an interrupt in *)
(* the queue of a core and decides, from racy reads of the fields of       *)
(* CMCore, whether to interrupt the core's thread with COREMU_SIGNAL; the  *)
(* signal handler runs on top of whatever that thread is doing.  The       *)
(* sleeping states that the decision looks at are those of main/sched.c.   *)
(*                                                                         *)
(* No lock protects these fields.  Each action is one load or one store of *)
(* a shared field; a field that the compiled code loads once and uses      *)
(* twice is read into a local variable.                                    *)
(*                                                                         *)
(* Intr.c sees a queue only through queue_get_size and through the result  *)
(* of dequeue, and LockQueueProofs shows that dequeue succeeds whenever    *)
(* the owner has seen a positive size.  So a queue is its size here.       *)
(***************************************************************************)
EXTENDS Integers, FiniteSets

CONSTANTS Core,                \* the emulated cores, one thread each
          Device,              \* other threads that send: the hardware thread
          MAX_INTR_THRESHOLD,
          PAUSE_THRESHOLD,
          Enough,              \* coremu_physical_core_enough_p()
          MaxSend,             \* bound: interrupts sent in a behaviour
          None

Thread == Core \cup Device

ASSUME IntrAssumption == /\ MAX_INTR_THRESHOLD \in Nat \ {0}
                         /\ PAUSE_THRESHOLD \in Nat
                         /\ Enough \in BOOLEAN
                         /\ MaxSend \in Nat
                         /\ Core \cap Device = {}
                         /\ None \notin Core

VARIABLES init_done,         \* set at the end of coremu_run_all_cores
          size,              \* queue_get_size(core->intr_queue)
          intr_thresh_hold,
          sig_pending,
          stamped,           \* core->time_stamp is not zero
          state,             \* core->state
          prio,              \* scheduling priority of the core's thread
          signals,           \* COREMU_SIGNALs queued for the core's thread
          notified,          \* what event_notifier has asked of the emulator
          pause_cnt,         \* thread local in sched.c
          pc,                \* where each thread is, outside the handler
          target,            \* the core a thread is sending to
          pending_intr,      \* local of coremu_send_signal
          thresh,            \* its copy of core->intr_thresh_hold
          hpc,               \* where the handler of each core is
          hthresh,           \* the handler's copy of self->intr_thresh_hold
          sent               \* interrupts sent so far, for MaxSend

coreVars   == <<intr_thresh_hold, sig_pending, stamped, state, prio, signals>>
sendVars   == <<target, pending_intr, thresh, sent>>
handleVars == <<hpc, hthresh, stamped>>
vars == <<init_done, size, intr_thresh_hold, sig_pending, stamped, state, prio,
          signals, notified, pause_cnt, pc, target, pending_intr, thresh, hpc,
          hthresh, sent>>

\* coremu_init zeroes the array of cores, coremu_core_init and
\* coremu_init_sched_core have run for each.
Init == /\ init_done = FALSE
        /\ size = [c \in Core |-> 0]
        /\ intr_thresh_hold = [c \in Core |-> 0]
        /\ sig_pending = [c \in Core |-> FALSE]
        /\ stamped = [c \in Core |-> FALSE]
        /\ state = [c \in Core |-> "RUN"]
        /\ prio = [c \in Core |-> "avg"]
        /\ signals = [c \in Core |-> 0]
        /\ notified = [c \in Core |-> FALSE]
        /\ pause_cnt = [c \in Core |-> 0]
        /\ pc = [t \in Thread |-> "idle"]
        /\ target = [t \in Thread |-> None]
        /\ pending_intr = [t \in Thread |-> 0]
        /\ thresh = [t \in Thread |-> 0]
        /\ hpc = [c \in Core |-> "none"]
        /\ hthresh = [c \in Core |-> 0]
        /\ sent = 0

\* coremu_run_all_cores: init_done = true
RunAllCores == /\ ~init_done
               /\ init_done' = TRUE
               /\ UNCHANGED <<size, intr_thresh_hold, sig_pending, state, prio,
                              signals, notified, pause_cnt, pc, sendVars, handleVars>>

\* A core's thread runs only while its handler does not.
Running(t) == t \in Core => hpc[t] = "none"

Step(t, from, to) == /\ pc[t] = from
                     /\ Running(t)
                     /\ pc' = [pc EXCEPT ![t] = to]

----------------------------------------------------------------------------
(* coremu_send_intr(e, coreid) *)

\* The test of init_done (nothing is sent before it holds) and
\* coremu_put_intr.  A core that sends to itself goes on to event_notifier.
SendIntr(t, c) ==
  /\ init_done
  /\ sent < MaxSend
  /\ Step(t, "idle", IF t = c THEN "notify" ELSE "size")
  /\ sent' = sent + 1
  /\ target' = [target EXCEPT ![t] = c]
  /\ size' = [size EXCEPT ![c] = @ + 1]
  /\ UNCHANGED <<init_done, coreVars, notified, pause_cnt, pending_intr, thresh,
                 hpc, hthresh>>

\* Return from coremu_send_intr: the locals are gone.
Forget(t) == /\ target' = [target EXCEPT ![t] = None]
             /\ pending_intr' = [pending_intr EXCEPT ![t] = 0]
             /\ thresh' = [thresh EXCEPT ![t] = 0]

\* event_notifier() by the sender to itself
NotifySelf(t) ==
  /\ Step(t, "notify", "idle")
  /\ notified' = [notified EXCEPT ![t] = TRUE]
  /\ Forget(t)
  /\ UNCHANGED <<init_done, size, coreVars, pause_cnt, hpc, hthresh, sent>>

----------------------------------------------------------------------------
(* coremu_send_signal(core) *)

\* pending_intr = coremu_intr_get_size(core)
ReadSize(t) ==
  /\ Step(t, "size", "thresh")
  /\ pending_intr' = [pending_intr EXCEPT ![t] = size[target[t]]]
  /\ UNCHANGED <<init_done, size, coreVars, notified, pause_cnt, target, thresh,
                 hpc, hthresh, sent>>

\* if (pending_intr > core->intr_thresh_hold)
ReadThresh(t) ==
  LET th == intr_thresh_hold[target[t]] IN
  /\ Step(t, "thresh", IF pending_intr[t] > th THEN "flag" ELSE "decide")
  /\ thresh' = [thresh EXCEPT ![t] = th]
  /\ UNCHANGED <<init_done, size, coreVars, notified, pause_cnt, target,
                 pending_intr, hpc, hthresh, sent>>

\* if (!core->sig_pending) ... else if (core->intr_thresh_hold < MAX ...)
ReadSigPending(t) ==
  /\ Step(t, "flag", CASE ~sig_pending[target[t]]          -> "setflag"
                       [] sig_pending[target[t]] /\ thresh[t] < MAX_INTR_THRESHOLD -> "raise"
                       [] OTHER                            -> "decide")
  /\ UNCHANGED <<init_done, size, coreVars, notified, pause_cnt, sendVars, hpc, hthresh>>

\* core->sig_pending = 1
SetSigPending(t) ==
  /\ Step(t, "setflag", "setrun")
  /\ sig_pending' = [sig_pending EXCEPT ![target[t]] = TRUE]
  /\ UNCHANGED <<init_done, size, intr_thresh_hold, stamped, state, prio, signals,
                 notified, pause_cnt, sendVars, hpc, hthresh>>

\* core->state = CM_STATE_RUN, and send_sig_p = 1
SetRun(t) ==
  /\ Step(t, "setrun", "boost")
  /\ state' = [state EXCEPT ![target[t]] = "RUN"]
  /\ UNCHANGED <<init_done, size, intr_thresh_hold, sig_pending, stamped, prio, signals,
                 notified, pause_cnt, sendVars, hpc, hthresh>>

\* core->intr_thresh_hold = (core->intr_thresh_hold + 1) << 1
RaiseThresh(t) ==
  /\ Step(t, "raise", "decide")
  /\ intr_thresh_hold' = [intr_thresh_hold EXCEPT ![target[t]] = 2 * (thresh[t] + 1)]
  /\ UNCHANGED <<init_done, size, sig_pending, stamped, state, prio, signals,
                 notified, pause_cnt, sendVars, hpc, hthresh>>

\* The final test, where send_sig_p is 0: enough physical cores, or a core
\* that sleeps.
Decide(t) ==
  \/ /\ Step(t, "decide", "boost")
     /\ Enough \/ state[target[t]] \in {"HALT", "PAUSE"}
     /\ UNCHANGED <<init_done, size, coreVars, notified, pause_cnt, sendVars, hpc, hthresh>>
  \/ /\ Step(t, "decide", "idle")
     /\ ~Enough /\ state[target[t]] = "RUN"
     /\ Forget(t)
     /\ UNCHANGED <<init_done, size, coreVars, notified, pause_cnt, hpc, hthresh, sent>>

\* coremu_thread_setpriority(PRIO_PROCESS, core->tid, high_prio)
Boost(t) ==
  /\ Step(t, "boost", "kill")
  /\ prio' = [prio EXCEPT ![target[t]] = "high"]
  /\ UNCHANGED <<init_done, size, intr_thresh_hold, sig_pending, stamped, state, signals,
                 notified, pause_cnt, sendVars, hpc, hthresh>>

\* pthread_kill(core->thread, COREMU_SIGNAL): a real-time signal is queued
Kill(t) ==
  /\ Step(t, "kill", "idle")
  /\ signals' = [signals EXCEPT ![target[t]] = @ + 1]
  /\ Forget(t)
  /\ UNCHANGED <<init_done, size, intr_thresh_hold, sig_pending, stamped, state, prio,
                 notified, pause_cnt, hpc, hthresh, sent>>

----------------------------------------------------------------------------
(* coremu_core_signal_handler, with every signal blocked while it runs *)

Handler(c, from, to) == /\ hpc[c] = from
                        /\ hpc' = [hpc EXCEPT ![c] = to]
                        /\ UNCHANGED <<init_done, size, state, pause_cnt, pc, sendVars>>

\* The kernel delivers one of the queued signals.
Deliver(c) ==
  /\ signals[c] > 0
  /\ Handler(c, "none", "adjust")
  /\ signals' = [signals EXCEPT ![c] = @ - 1]
  /\ UNCHANGED <<intr_thresh_hold, sig_pending, stamped, prio, notified, hthresh>>

\* adjust_intr_threshold.  How long ago the previous signal was is up to the
\* environment: reset after more than SIG_HANDLE_INTERVAL, else decrement
\* (a load here, a store in StoreThresh).
AdjustThresh(c) ==
  /\ stamped' = [stamped EXCEPT ![c] = TRUE]
  /\ \/ /\ stamped[c]
        /\ Handler(c, "adjust", "unboost")
        /\ intr_thresh_hold' = [intr_thresh_hold EXCEPT ![c] = 0]
        /\ UNCHANGED hthresh
     \/ /\ stamped[c]
        /\ intr_thresh_hold[c] > 0
        /\ Handler(c, "adjust", "store")
        /\ hthresh' = [hthresh EXCEPT ![c] = intr_thresh_hold[c]]
        /\ UNCHANGED intr_thresh_hold
     \/ /\ ~stamped[c] \/ intr_thresh_hold[c] = 0
        /\ Handler(c, "adjust", "unboost")
        /\ UNCHANGED <<intr_thresh_hold, hthresh>>
  /\ UNCHANGED <<sig_pending, prio, signals, notified>>

StoreThresh(c) ==
  /\ Handler(c, "store", "unboost")
  /\ intr_thresh_hold' = [intr_thresh_hold EXCEPT ![c] = hthresh[c] - 1]
  /\ hthresh' = [hthresh EXCEPT ![c] = 0]
  /\ UNCHANGED <<sig_pending, stamped, prio, signals, notified>>

\* coremu_thread_setpriority(PRIO_PROCESS, 0, avg_prio)
Unboost(c) ==
  /\ Handler(c, "unboost", "notify")
  /\ prio' = [prio EXCEPT ![c] = "avg"]
  /\ UNCHANGED <<intr_thresh_hold, sig_pending, stamped, signals, notified, hthresh>>

\* Mutation of Notify: the handler does not call event_notifier.
NotifyForgotten(c) ==
  /\ Handler(c, "notify", "clear")
  /\ UNCHANGED <<coreVars, notified, hthresh>>

\* event_notifier()
Notify(c) ==
  /\ Handler(c, "notify", "clear")
  /\ notified' = [notified EXCEPT ![c] = TRUE]
  /\ UNCHANGED <<coreVars, hthresh>>

\* Mutation of ClearSigPending: the handler leaves the flag set.
ClearSigPendingForgotten(c) ==
  /\ Handler(c, "clear", "none")
  /\ UNCHANGED <<intr_thresh_hold, sig_pending, stamped, prio, signals, notified, hthresh>>

\* self->sig_pending = 0, and the return from the handler
ClearSigPending(c) ==
  /\ Handler(c, "clear", "none")
  /\ sig_pending' = [sig_pending EXCEPT ![c] = FALSE]
  /\ UNCHANGED <<intr_thresh_hold, stamped, prio, signals, notified, hthresh>>

----------------------------------------------------------------------------
(* coremu_receive_intr, which the emulator's loop calls: at the latest when *)
(* event_notifier has asked for it, and the request is spent by the call    *)

Local(c, from, to) == /\ Step(c, from, to)
                      /\ UNCHANGED <<init_done, intr_thresh_hold, sig_pending, stamped,
                                     prio, signals, sendVars, hpc, hthresh>>

ReceiveIntr(c) ==
  /\ Local(c, "idle", "recv")
  /\ notified' = [notified EXCEPT ![c] = FALSE]
  /\ UNCHANGED <<size, state, pause_cnt>>

\* coremu_get_intr: test the size, then dequeue; event_handler consumes it
GetIntr(c) ==
  /\ Local(c, "recv", IF size[c] > 0 THEN "take" ELSE "idle")
  /\ UNCHANGED <<size, state, notified, pause_cnt>>

Dequeue(c) ==
  /\ Local(c, "take", "recv")
  /\ size' = [size EXCEPT ![c] = @ - 1]
  /\ UNCHANGED <<state, notified, pause_cnt>>

----------------------------------------------------------------------------
(* coremu_cpu_sched *)

\* sched_halted: the state is published before the sleep
SchedHalted(c) ==
  /\ Local(c, "idle", "sleep")
  /\ state' = [state EXCEPT ![c] = "HALT"]
  /\ UNCHANGED <<size, notified, pause_cnt>>

\* sched_pause: two thresholds of counting and yielding come first
SchedPause(c) ==
  /\ IF pause_cnt[c] <= PAUSE_THRESHOLD + 1
       THEN /\ Local(c, "idle", "idle")
            /\ pause_cnt' = [pause_cnt EXCEPT ![c] = @ + 1]
            /\ UNCHANGED state
       ELSE /\ Local(c, "idle", "nap")
            /\ state' = [state EXCEPT ![c] = "PAUSE"]
            /\ UNCHANGED pause_cnt
  /\ UNCHANGED <<size, notified>>

\* nanosleep returns, after its time or because the handler has run
Wake(c) ==
  /\ \/ Local(c, "sleep", "idle") /\ UNCHANGED pause_cnt
     \/ Local(c, "nap", "idle") /\ pause_cnt' = [pause_cnt EXCEPT ![c] = 0]
  /\ state' = [state EXCEPT ![c] = "RUN"]
  /\ UNCHANGED <<size, notified>>

----------------------------------------------------------------------------
Send(t) == \/ NotifySelf(t)
           \/ ReadSize(t) \/ ReadThresh(t) \/ ReadSigPending(t)
           \/ SetSigPending(t) \/ SetRun(t) \/ RaiseThresh(t)
           \/ Decide(t) \/ Boost(t) \/ Kill(t)

Handle(c) == Deliver(c) \/ AdjustThresh(c) \/ StoreThresh(c) \/ Unboost(c)
               \/ Notify(c) \/ ClearSigPending(c)

Receive(c) == ReceiveIntr(c) \/ GetIntr(c) \/ Dequeue(c)

Sleep(c) == SchedHalted(c) \/ SchedPause(c) \/ Wake(c)

Next == \/ RunAllCores
        \/ \E t \in Thread : Send(t) \/ \E c \in Core : SendIntr(t, c)
        \/ \E c \in Core : Handle(c) \/ Receive(c) \/ Sleep(c)

Spec == Init /\ [][Next]_vars

\* A thread inside coremu_send_intr, the handler or coremu_receive_intr keeps
\* running, the kernel delivers queued signals, nanosleep returns, and the
\* emulator's loop does not ignore event_notifier for ever.  Nobody is
\* obliged to send or to sleep.
FairSpec == /\ Spec
            /\ \A t \in Thread : WF_vars(Send(t))
            /\ \A c \in Core : /\ WF_vars(Handle(c))
                               /\ WF_vars(GetIntr(c) \/ Dequeue(c))
                               /\ WF_vars(Wake(c))
                               /\ SF_vars(notified[c] /\ ReceiveIntr(c))

----------------------------------------------------------------------------
Location == {"idle", "notify", "size", "thresh", "flag", "setflag", "setrun",
             "raise", "decide", "boost", "kill", "recv", "take", "sleep", "nap"}

HandlerLocation == {"none", "adjust", "store", "unboost", "notify", "clear"}

\* The threshold stays within twice its maximum although senders and the
\* handler update it from stale copies (intr.c:87-88, 103-107).
Threshold == 0 .. 2 * MAX_INTR_THRESHOLD

TypeOK ==
  /\ init_done \in BOOLEAN
  /\ size \in [Core -> Nat]
  /\ intr_thresh_hold \in [Core -> Threshold]
  /\ sig_pending \in [Core -> BOOLEAN]
  /\ stamped \in [Core -> BOOLEAN]
  /\ state \in [Core -> {"RUN", "HALT", "PAUSE"}]
  /\ prio \in [Core -> {"avg", "high"}]
  /\ signals \in [Core -> Nat]
  /\ notified \in [Core -> BOOLEAN]
  /\ pause_cnt \in [Core -> 0 .. PAUSE_THRESHOLD + 2]
  /\ pc \in [Thread -> Location]
  /\ target \in [Thread -> Core \cup {None}]
  /\ pending_intr \in [Thread -> Nat]
  /\ thresh \in [Thread -> Threshold]
  /\ hpc \in [Core -> HandlerLocation]
  /\ hthresh \in [Core -> Threshold]
  /\ sent \in 0 .. MaxSend

\* Thread t is at one of the given points of a send to core c.
Sending(t, c, where) == target[t] = c /\ pc[t] \in where

(***************************************************************************)
(* sig_pending, "if has signal not receive" (coremu-types.h:68), never     *)
(* stays set without cause: a sender is about to signal, a signal is       *)
(* queued, or the handler has yet to clear the flag.  If it could, senders *)
(* would stop signalling this core for ever (intr.c:82-89, 173).           *)
(***************************************************************************)
SigPendingBacked ==
  \A c \in Core : sig_pending[c] =>
    \/ \E t \in Thread : Sending(t, c, {"setrun", "boost", "kill"})
    \/ signals[c] > 0
    \/ hpc[c] # "none"

(***************************************************************************)
(* The raised priority is handed back: a core runs with high_prio only     *)
(* while a signal whose handler will lower it is on its way, although      *)
(* several senders and the handler set it in any order (intr.c:94, 167).   *)
(***************************************************************************)
BoostBacked ==
  \A c \in Core : prio[c] = "high" =>
    \/ \E t \in Thread : Sending(t, c, {"kill"})
    \/ signals[c] > 0
    \/ hpc[c] \in {"adjust", "store", "unboost"}

\* Something will make core c look at its queue.
Coming(c) == \/ notified[c]
             \/ pc[c] \in {"recv", "take"}
             \/ signals[c] > 0
             \/ hpc[c] # "none"
             \/ \E t \in Thread : pc[t] # "idle" /\ target[t] = c

\* The most interrupts that may wait without the core having been signalled.
Backlog == IF Enough THEN 0 ELSE 2 * MAX_INTR_THRESHOLD

(***************************************************************************)
(* The delay of adaptive signalling is bounded: when nothing will make a   *)
(* core look at its queue, at most 2 * MAX_INTR_THRESHOLD interrupts wait  *)
(* in it, and none at all if there are enough physical cores, whatever     *)
(* stale thresholds and flags the senders acted on (intr.c:76-97).         *)
(***************************************************************************)
BacklogBounded == \A c \in Core : size[c] > Backlog => Coming(c)

(***************************************************************************)
(* A core that has more interrupts waiting than the backlog allows gets to *)
(* them, and the flag that suppresses further signals is always lowered    *)
(* again: no interleaving of senders, handler and sleeps wedges the        *)
(* signalling (intr.c:82, 124-174).                                        *)
(***************************************************************************)
BacklogHandled == \A c \in Core : /\ size[c] > Backlog ~> size[c] <= Backlog
                                  /\ sig_pending[c] ~> ~sig_pending[c]
=============================================================================
