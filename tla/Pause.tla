------------------------------- MODULE Pause -------------------------------
(***************************************************************************)
(* Stopping and restarting the cores, main/core.c: coremu_pause_core waits *)
(* on a condition variable, coremu_wait_all_cores_pause spins on the state *)
(* of each core under pause_mutex, coremu_restart_all_cores broadcasts     *)
(* without the mutex.  The same state field is written without the mutex   *)
(* by sched_pause and sched_halted (main/sched.c) and by                   *)
(* coremu_send_signal (main/intr.c).                                       *)
(*                                                                         *)
(* Who asks a core to pause is up to the emulator: request is its flag,    *)
(* and a core that sees it calls coremu_pause_core.                        *)
(***************************************************************************)
EXTENDS Cores, FiniteSets

CONSTANTS MaxStop,      \* bound: times the manager stops the cores
          MaxOther      \* bound: stores to state by sched.c, intr.c, and wakeups
                        \* of pthread_cond_wait without a broadcast

ASSUME PauseAssumption == MaxStop \in Nat /\ MaxOther \in Nat

Manager == cm_smp_cpus      \* the thread that stops the cores
NoOwner == cm_smp_cpus + 1     \* the mutex has no owner

VARIABLES state,        \* core->state
          pause_mutex,  \* its owner
          pause_cond,   \* the cores blocked in pthread_cond_wait
          cpc,          \* where each core is in coremu_pause_core
          napping,      \* the cores inside sched_pause or sched_halted
          request,      \* the cores that the emulator has asked to pause
          mpc,          \* where the manager is
          i,            \* its loop variable in coremu_wait_all_cores_pause
          stops,        \* stops so far, for MaxStop
          others,       \* other stores and wakeups so far, for MaxOther
          quiet         \* the manager lets every core resume before it stops
                        \* them again, and nothing else stores to a state or
                        \* wakes a core: one kind of environment or the other

protocolVars == <<state, pause_mutex, pause_cond, cpc, napping, request, mpc, i, stops, others>>
pauseVars == <<protocolVars, quiet>>
managerVars == <<mpc, i, stops>>

PauseInit == /\ state = [c \in Core |-> "RUN"]
             /\ pause_mutex = NoOwner
             /\ pause_cond = {}
             /\ cpc = [c \in Core |-> "run"]
             /\ napping = {}
             /\ request = {}
             /\ mpc = "idle"
             /\ i = 0
             /\ stops = 0
             /\ others = 0
             /\ quiet \in BOOLEAN

PauseGoto(c, from, to) == /\ cpc[c] = from
                          /\ cpc' = [cpc EXCEPT ![c] = to]

Lock(t) == /\ pause_mutex = NoOwner
           /\ pause_mutex' = t

----------------------------------------------------------------------------
(* coremu_pause_core, from the core's loop or from a handler during a nap *)

PauseLock(c) ==
  /\ PauseGoto(c, "run", "test")
  /\ c \in request
  /\ Lock(c)
  /\ request' = request \ {c}
  /\ UNCHANGED <<state, pause_cond, napping, managerVars, others>>

\* Mutation of PauseTest: the mutex is released before the wait.
PauseTestUnlocking(c) ==
  /\ PauseGoto(c, "test", IF state[c] = "RUN" THEN "wait" ELSE "unlock")
  /\ state' = [state EXCEPT ![c] = IF @ = "RUN" THEN "PAUSE" ELSE @]
  /\ pause_mutex' = NoOwner
  /\ UNCHANGED <<pause_cond, napping, request, managerVars, others>>

\* if (self->state == CM_STATE_RUN) self->state = CM_STATE_PAUSE.  A core that
\* gets here from a handler that interrupted its nap returns at once, unless a
\* sender has stored RUN meanwhile.
PauseTest(c) ==
  /\ PauseGoto(c, "test", IF state[c] = "RUN" THEN "wait" ELSE "unlock")
  /\ state' = [state EXCEPT ![c] = IF @ = "RUN" THEN "PAUSE" ELSE @]
  /\ UNCHANGED <<pause_mutex, pause_cond, napping, request, managerVars, others>>

\* coremu_cond_wait releases the mutex and blocks in one step
CondWait(c) ==
  /\ PauseGoto(c, "wait", "blocked")
  /\ pause_mutex' = NoOwner
  /\ pause_cond' = pause_cond \cup {c}
  /\ UNCHANGED <<state, napping, request, managerVars, others>>

\* coremu_cond_wait returns with the mutex held
CondReturn(c) ==
  /\ PauseGoto(c, "blocked", "resume")
  /\ c \notin pause_cond
  /\ Lock(c)
  /\ UNCHANGED <<state, pause_cond, napping, request, managerVars, others>>

\* self->state = CM_STATE_RUN
Resume(c) ==
  /\ PauseGoto(c, "resume", "unlock")
  /\ state' = [state EXCEPT ![c] = "RUN"]
  /\ UNCHANGED <<pause_mutex, pause_cond, napping, request, managerVars, others>>

PauseUnlock(c) ==
  /\ PauseGoto(c, "unlock", "run")
  /\ pause_mutex' = NoOwner
  /\ UNCHANGED <<state, pause_cond, napping, request, managerVars, others>>

----------------------------------------------------------------------------
(* coremu_wait_all_cores_pause and coremu_restart_all_cores *)

\* The emulator asks every core to pause, then waits for all of them.
StopCores ==
  /\ mpc = "idle"
  /\ stops < MaxStop
  /\ quiet => \A c \in Core : cpc[c] = "run" /\ c \notin request
  /\ stops' = stops + 1
  /\ request' = Core
  /\ mpc' = "lock"
  /\ i' = 0
  /\ UNCHANGED <<state, pause_mutex, pause_cond, cpc, napping, others>>

\* coremu_wait_pause(&cm_cores[i])
WaitLock ==
  /\ mpc = "lock"
  /\ Lock(Manager)
  /\ mpc' = "test"
  /\ UNCHANGED <<state, pause_cond, cpc, napping, request, i, stops, others>>

\* Mutation of WaitTest: the loop leaves out the last core.
WaitTestTooFew ==
  /\ mpc = "test"
  /\ pause_mutex' = NoOwner
  /\ IF state[i] = "PAUSE"
       THEN /\ i' = (i + 1) % cm_smp_cpus
            /\ mpc' = IF i + 2 = cm_smp_cpus THEN "stopped" ELSE "lock"
       ELSE /\ mpc' = "lock"
            /\ UNCHANGED i
  /\ UNCHANGED <<state, pause_cond, cpc, napping, request, stops, others>>

\* One test of the state, and the unlock that follows it either way.
WaitTest ==
  /\ mpc = "test"
  /\ pause_mutex' = NoOwner
  /\ IF state[i] = "PAUSE"
       THEN /\ i' = (i + 1) % cm_smp_cpus
            /\ mpc' = IF i + 1 = cm_smp_cpus THEN "stopped" ELSE "lock"
       ELSE /\ mpc' = "lock"
            /\ UNCHANGED i
  /\ UNCHANGED <<state, pause_cond, cpc, napping, request, stops, others>>

\* Mutation of Restart: pthread_cond_signal instead of the broadcast.
RestartOne ==
  /\ mpc = "stopped"
  /\ \E c \in pause_cond : pause_cond' = pause_cond \ {c}
  /\ mpc' = "idle"
  /\ UNCHANGED <<state, pause_mutex, cpc, napping, request, i, stops, others>>

\* coremu_restart_all_cores
Restart ==
  /\ mpc = "stopped"
  /\ pause_cond' = {}
  /\ mpc' = "idle"
  /\ UNCHANGED <<state, pause_mutex, cpc, napping, request, i, stops, others>>

----------------------------------------------------------------------------
(* What else touches the state of a core or wakes it *)

\* sched_pause, past its thresholds, and sched_halted: a sleep
Nap(c, s) ==
  /\ ~quiet
  /\ others < MaxOther
  /\ others' = others + 1
  /\ cpc[c] = "run"
  /\ c \notin napping
  /\ napping' = napping \cup {c}
  /\ state' = [state EXCEPT ![c] = s]
  /\ UNCHANGED <<pause_mutex, pause_cond, cpc, request, managerVars>>

NapEnds(c) ==
  /\ cpc[c] = "run"
  /\ c \in napping
  /\ napping' = napping \ {c}
  /\ state' = [state EXCEPT ![c] = "RUN"]
  /\ UNCHANGED <<pause_mutex, pause_cond, cpc, request, managerVars, others>>

\* coremu_send_signal, from any thread: core->state = CM_STATE_RUN
SetRun(c) ==
  /\ ~quiet
  /\ others < MaxOther
  /\ others' = others + 1
  /\ state' = [state EXCEPT ![c] = "RUN"]
  /\ UNCHANGED <<pause_mutex, pause_cond, cpc, napping, request, managerVars>>

\* POSIX allows pthread_cond_wait to return without a broadcast
SpuriousWakeup(c) ==
  /\ ~quiet
  /\ others < MaxOther
  /\ others' = others + 1
  /\ c \in pause_cond
  /\ pause_cond' = pause_cond \ {c}
  /\ UNCHANGED <<state, pause_mutex, cpc, napping, request, managerVars>>

----------------------------------------------------------------------------
PauseCore(c) == PauseTest(c) \/ CondWait(c) \/ Resume(c) \/ PauseUnlock(c)

StopAndRestart == StopCores \/ WaitLock \/ WaitTest \/ Restart

Other(c) == \/ \E s \in {"HALT", "PAUSE"} : Nap(c, s)
            \/ NapEnds(c) \/ SetRun(c) \/ SpuriousWakeup(c)

PauseNext ==
  /\ UNCHANGED quiet
  /\ \/ \E c \in Core : PauseCore(c) \/ PauseLock(c) \/ CondReturn(c) \/ Other(c)
     \/ StopAndRestart

PauseSpec == PauseInit /\ [][PauseNext]_pauseVars

\* Threads keep running.  A core that wants the mutex gets it in spite of the
\* manager, which takes it and drops it in a loop (the mutex is not fair, but
\* the manager's time between unlock and lock is not always too short).
PauseFairSpec == /\ PauseSpec
                 /\ WF_protocolVars(WaitLock \/ WaitTest \/ Restart)
                 /\ \A c \in Core : /\ WF_protocolVars(PauseCore(c))
                                    /\ WF_protocolVars(NapEnds(c))
                                    /\ SF_protocolVars(PauseLock(c))
                                    /\ SF_protocolVars(CondReturn(c))

----------------------------------------------------------------------------
PauseTypeOK ==
  /\ state \in [Core -> {"RUN", "HALT", "PAUSE"}]
  /\ pause_mutex \in Core \cup {Manager, NoOwner}
  /\ pause_cond \subseteq Core
  /\ cpc \in [Core -> {"run", "test", "wait", "blocked", "resume", "unlock"}]
  /\ napping \subseteq Core
  /\ request \subseteq Core
  /\ mpc \in {"idle", "lock", "test", "stopped"}
  /\ i \in Core
  /\ stops \in 0 .. MaxStop
  /\ others \in 0 .. MaxOther
  /\ quiet \in BOOLEAN

(***************************************************************************)
(* What the test of coremu_wait_pause may conclude (core.c:210): under the *)
(* mutex, a core whose state is PAUSE has let the mutex go inside          *)
(* coremu_cond_wait, or it naps in sched_pause.  It is never on its way    *)
(* into coremu_cond_wait, where a broadcast would miss it.                 *)
(***************************************************************************)
PauseMeansBlocked ==
  \A c \in Core : pause_mutex = Manager /\ state[c] = "PAUSE" =>
                    cpc[c] = "blocked" \/ c \in napping

(***************************************************************************)
(* coremu_wait_all_cores_pause stops the world (core.c:217-224): when it   *)
(* has returned, every core is blocked until the broadcast, whatever the   *)
(* order in which the cores reach coremu_pause_core.  This needs a quiet   *)
(* environment: a patient manager, and neither a sched_pause nor a         *)
(* spurious wakeup.                                                        *)
(***************************************************************************)
WorldStopped == quiet /\ mpc = "stopped" => pause_cond = Core

(***************************************************************************)
(* The error-checking mutex is released only by its owner, and the wait on *)
(* the condition variable owns it (coremu-thread.h:44-77, core.c:198-204). *)
(***************************************************************************)
MutexHeld ==
  /\ \A c \in Core : cpc[c] \in {"test", "wait", "resume", "unlock"} <=> pause_mutex = c
  /\ mpc = "test" <=> pause_mutex = Manager

(***************************************************************************)
(* coremu_wait_all_cores_pause returns (core.c:207-224): the manager's     *)
(* loop, which keeps taking the mutex, does not keep the cores from        *)
(* pausing, if the environment is quiet.                                   *)
(***************************************************************************)
StopReturns == quiet /\ mpc \in {"lock", "test"} ~> mpc = "stopped"

(***************************************************************************)
(* No core misses the broadcast (core.c:198-229): one that has blocked     *)
(* runs again, if the environment is quiet.                                *)
(***************************************************************************)
CoresRestart == \A c \in Core : quiet /\ cpc[c] = "blocked" ~> cpc[c] = "run"

(***************************************************************************)
(* A stop that a quiet environment sees through: it returns, and every     *)
(* core that it blocked runs again (core.c:198-229).                       *)
(***************************************************************************)
StopsAndRestarts == StopReturns /\ CoresRestart
=============================================================================
