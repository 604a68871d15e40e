---------------------------- MODULE PauseProofs ----------------------------
(* The pause protocol for any number of cores, stops and interferences. *)
EXTENDS Pause, TLAPS

\* Whoever left its state at PAUSE naps or is between the store and the
\* resetting of the state in coremu_pause_core.
PauseInv == \A c \in Core : state[c] = "PAUSE" =>
                              cpc[c] \in {"wait", "blocked", "resume"} \/ c \in napping

IInv == PauseTypeOK /\ MutexHeld /\ PauseInv

\* The manager, the free mutex and the cores are told apart.
LEMMA Identities == /\ Manager \notin Core /\ NoOwner \notin Core /\ Manager # NoOwner
                    /\ 0 \in Core
  BY CoresAssumption, SMT DEF Core, Manager, NoOwner

\* The cores start running, with the mutex free.
LEMMA InitIInv == PauseInit => IInv
  BY CoresAssumption, PauseAssumption, Identities DEF PauseInit, IInv, PauseTypeOK, MutexHeld, PauseInv

\* The next core of the manager's loop is a core.
LEMMA NextCore == \A k \in Core : (k + 1) % cm_smp_cpus \in Core
  BY CoresAssumption, SMT DEF Core

\* The inductive step, action by action.
LEMMA NextIInv == IInv /\ [PauseNext]_pauseVars => IInv'
  <1> SUFFICES ASSUME IInv, [PauseNext]_pauseVars PROVE IInv'
    OBVIOUS
  <1>0. UNCHANGED quiet
    BY DEF PauseNext, pauseVars
  <1> USE <1>0, Identities DEF IInv, PauseTypeOK, MutexHeld, PauseInv, managerVars
  <1>1. ASSUME NEW c \in Core, PauseLock(c) PROVE IInv'
    BY <1>1 DEF PauseLock, PauseGoto, Lock
  <1>2. ASSUME NEW c \in Core, PauseTest(c) PROVE IInv'
    BY <1>2 DEF PauseTest, PauseGoto
  <1>3. ASSUME NEW c \in Core, CondWait(c) PROVE IInv'
    BY <1>3 DEF CondWait, PauseGoto
  <1>4. ASSUME NEW c \in Core, CondReturn(c) PROVE IInv'
    BY <1>4 DEF CondReturn, PauseGoto, Lock
  <1>5. ASSUME NEW c \in Core, Resume(c) PROVE IInv'
    BY <1>5 DEF Resume, PauseGoto
  <1>6. ASSUME NEW c \in Core, PauseUnlock(c) PROVE IInv'
    BY <1>6 DEF PauseUnlock, PauseGoto
  <1>7. ASSUME NEW c \in Core, NEW s \in {"HALT", "PAUSE"}, Nap(c, s) PROVE IInv'
    BY <1>7, CoresAssumption, PauseAssumption DEF Nap
  <1>8. ASSUME NEW c \in Core, NapEnds(c) PROVE IInv'
    BY <1>8 DEF NapEnds
  <1>9. ASSUME NEW c \in Core, SetRun(c) PROVE IInv'
    BY <1>9, CoresAssumption, PauseAssumption DEF SetRun
  <1>10. ASSUME NEW c \in Core, SpuriousWakeup(c) PROVE IInv'
    BY <1>10, CoresAssumption, PauseAssumption DEF SpuriousWakeup
  <1>11. CASE StopCores
    BY <1>11, CoresAssumption, PauseAssumption DEF StopCores
  <1>12. CASE WaitLock
    BY <1>12 DEF WaitLock, Lock
  <1>13. CASE WaitTest
    <2>1. i' \in Core
      BY <1>13, NextCore DEF WaitTest
    <2>2. QED
      BY <1>13, <2>1 DEF WaitTest
  <1>14. CASE Restart
    BY <1>14 DEF Restart
  <1>15. CASE UNCHANGED pauseVars
    BY <1>15 DEF pauseVars, protocolVars
  <1>16. QED
    BY <1>1, <1>2, <1>3, <1>4, <1>5, <1>6, <1>7, <1>8, <1>9, <1>10,
       <1>11, <1>12, <1>13, <1>14, <1>15
    DEF PauseNext, PauseCore, Other, StopAndRestart

\* The invariant holds in every reachable state of core.c:194-229.
THEOREM Invariance == PauseSpec => []IInv
  BY InitIInv, NextIInv, PTL DEF PauseSpec

(***************************************************************************)
(* The mutex protects what it should for any number of cores               *)
(* (core.c:194-215).                                                       *)
(***************************************************************************)
THEOREM MutexProtects == PauseSpec => [](PauseTypeOK /\ MutexHeld)
  <1>1. IInv => PauseTypeOK /\ MutexHeld
    BY DEF IInv
  <1>2. QED
    BY <1>1, Invariance, PTL

(***************************************************************************)
(* What coremu_wait_pause may conclude from a state of PAUSE               *)
(* (core.c:207-215), with every interference allowed.                      *)
(***************************************************************************)
THEOREM PauseSeen == PauseSpec => []PauseMeansBlocked
  <1>1. IInv => PauseMeansBlocked
    BY Identities DEF IInv, PauseTypeOK, MutexHeld, PauseInv, PauseMeansBlocked
  <1>2. QED
    BY <1>1, Invariance, PTL

----------------------------------------------------------------------------
\* In a quiet environment no core naps, a core that is blocked while a stop
\* is on still waits for the broadcast, and so do all the cores that the
\* manager's loop has passed.
StopInv ==
  /\ napping = {}
  /\ pause_cond \subseteq {c \in Core : cpc[c] = "blocked"}
  /\ mpc # "idle" => \A c \in Core : cpc[c] = "blocked" => c \in pause_cond
  /\ mpc # "idle" => \A c \in Core : cpc[c] # "resume"
  /\ mpc \in {"lock", "test"} => \A c \in Core : c < i => c \in pause_cond
  /\ mpc = "stopped" => pause_cond = Core

\* No stop is on at first.
LEMMA InitStop == PauseInit => StopInv
  BY Identities DEF PauseInit, StopInv

\* The inductive step for StopInv, action by action.
LEMMA NextStop == quiet /\ IInv /\ StopInv /\ [PauseNext]_pauseVars => StopInv'
  <1> SUFFICES ASSUME quiet, IInv, StopInv, [PauseNext]_pauseVars PROVE StopInv'
    OBVIOUS
  <1> USE Identities DEF IInv, PauseTypeOK, StopInv, managerVars
  <1>1. ASSUME NEW c \in Core, PauseLock(c) PROVE StopInv'
    BY <1>1 DEF PauseLock, PauseGoto, Lock
  <1>2. ASSUME NEW c \in Core, PauseTest(c) PROVE StopInv'
    BY <1>2 DEF PauseTest, PauseGoto
  <1>3. ASSUME NEW c \in Core, CondWait(c) PROVE StopInv'
    BY <1>3 DEF CondWait, PauseGoto
  <1>4. ASSUME NEW c \in Core, CondReturn(c) PROVE StopInv'
    BY <1>4 DEF CondReturn, PauseGoto, Lock
  <1>5. ASSUME NEW c \in Core, Resume(c) PROVE StopInv'
    BY <1>5 DEF Resume, PauseGoto
  <1>6. ASSUME NEW c \in Core, PauseUnlock(c) PROVE StopInv'
    BY <1>6 DEF PauseUnlock, PauseGoto
  <1>7. ASSUME NEW c \in Core, NEW s \in {"HALT", "PAUSE"}, Nap(c, s) PROVE StopInv'
    BY <1>7 DEF Nap
  <1>8. ASSUME NEW c \in Core, NapEnds(c) PROVE StopInv'
    BY <1>8 DEF NapEnds
  <1>9. ASSUME NEW c \in Core, SetRun(c) PROVE StopInv'
    BY <1>9 DEF SetRun
  <1>10. ASSUME NEW c \in Core, SpuriousWakeup(c) PROVE StopInv'
    BY <1>10 DEF SpuriousWakeup
  <1>11. CASE StopCores
    BY <1>11, CoresAssumption, PauseAssumption DEF StopCores, Core
  <1>12. CASE WaitLock
    BY <1>12 DEF WaitLock
  <1>13. CASE WaitTest
    <2>1. CASE state[i] # "PAUSE"
      BY <1>13, <2>1 DEF WaitTest
    <2>2. CASE state[i] = "PAUSE"
      <3>1. i \in pause_cond
        BY <1>13, <2>2 DEF WaitTest, MutexHeld, PauseInv
      <3>2. \A c \in Core : c < i + 1 => c \in pause_cond
        BY <1>13, <3>1, SMT DEF WaitTest, Core
      <3>3. CASE i + 1 = cm_smp_cpus
        <4>1. \A c \in Core : c < i + 1
          BY <3>3, CoresAssumption, PauseAssumption, SMT DEF Core
        <4>2. QED
          BY <1>13, <2>2, <3>2, <3>3, <4>1 DEF WaitTest
      <3>4. CASE i + 1 # cm_smp_cpus
        <4>1. (i + 1) % cm_smp_cpus = i + 1
          BY <3>4, CoresAssumption, PauseAssumption, SMT DEF Core
        <4>2. QED
          BY <1>13, <2>2, <3>2, <3>4, <4>1 DEF WaitTest
      <3>5. QED
        BY <3>3, <3>4
    <2>3. QED
      BY <2>1, <2>2
  <1>14. CASE Restart
    BY <1>14 DEF Restart
  <1>15. CASE UNCHANGED pauseVars
    BY <1>15 DEF pauseVars, protocolVars
  <1>16. QED
    BY <1>1, <1>2, <1>3, <1>4, <1>5, <1>6, <1>7, <1>8, <1>9, <1>10,
       <1>11, <1>12, <1>13, <1>14, <1>15
    DEF PauseNext, PauseCore, Other, StopAndRestart

(***************************************************************************)
(* In a quiet environment, whose manager is patient, every core is blocked *)
(* from the return of coremu_wait_all_cores_pause to the broadcast         *)
(* (core.c:217-229), for any number of cores and of stops.                 *)
(***************************************************************************)
THEOREM StopsTheWorld == PauseSpec => []WorldStopped
  <1> DEFINE QuietInv == quiet => StopInv
  <1>1. QuietInv => WorldStopped
    BY DEF StopInv, WorldStopped
  <1>2. PauseInit => QuietInv
    BY InitStop
  <1>3. [PauseNext]_pauseVars => UNCHANGED quiet
    BY DEF PauseNext, pauseVars
  <1>4. IInv /\ QuietInv /\ [PauseNext]_pauseVars => QuietInv'
    BY <1>3, NextStop
  <1> HIDE DEF QuietInv
  <1>5. QED
    BY <1>1, <1>2, <1>4, Invariance, PTL DEF PauseSpec
=============================================================================
