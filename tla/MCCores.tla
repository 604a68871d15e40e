------------------------------ MODULE MCCores ------------------------------
(***************************************************************************)
(* The cores' life cycle and the helpers it uses, for TLC: their start,    *)
(* stopping and restarting them, coremu_atomic_mallocz, timeval_subtract.  *)
(* The modules share no variable: a behaviour runs one of them, the others *)
(* stay in one of their initial states.                                    *)
(***************************************************************************)
EXTENDS Startup, Pause, AtomicMalloc, Timeval

CONSTANT Parts
VARIABLE part

\* Fields around the boundaries of a second.
MCSec == {-1, 0, 1, 2}
MCUsec == {-2000001, -1, 0, 1, 500000, 999999, 1000000, 1000001, 2000000, 3000001}
Zero == [tv_sec |-> 0, tv_usec |-> 0]

CoresInit ==
  /\ part \in Parts
  /\ part = "pause" \/ quiet = FALSE
  /\ part = "timeval" \/ (x = Zero /\ y = Zero)
  /\ StartInit /\ PauseInit /\ MallocInit /\ TvInit

CoresNext ==
  /\ UNCHANGED part
  /\ \/ part = "startup" /\ StartNext /\ UNCHANGED <<pauseVars, mallocVars, tvVars>>
     \/ part = "pause" /\ PauseNext /\ UNCHANGED <<startVars, mallocVars, tvVars>>
     \/ part = "malloc" /\ MallocNext /\ UNCHANGED <<startVars, pauseVars, tvVars>>
     \/ part = "timeval" /\ TvNext /\ UNCHANGED <<startVars, pauseVars, mallocVars>>

\* The fairness of StartFairSpec and of PauseFairSpec, of the part that runs.
CoresFairness ==
  /\ WF_startVars(part = "startup" /\ Main)
  /\ WF_protocolVars(part = "pause" /\ (WaitLock \/ WaitTest \/ Restart))
  /\ \A c \in Core : /\ WF_startVars(part = "startup" /\ Boot(c))
                     /\ WF_startVars(part = "startup" /\ Handle(c))
                     /\ WF_protocolVars(part = "pause" /\ PauseCore(c))
                     /\ WF_protocolVars(part = "pause" /\ NapEnds(c))
                     /\ SF_protocolVars(part = "pause" /\ PauseLock(c))
                     /\ SF_protocolVars(part = "pause" /\ CondReturn(c))

coresVars == <<part, startVars, pauseVars, mallocVars, tvVars>>
CoresSpec == CoresInit /\ [][CoresNext]_coresVars /\ CoresFairness

----------------------------------------------------------------------------
\* The start of every core, where it is the start that runs.
CoresStarted == [](part = "startup") => AllStarted
=============================================================================
