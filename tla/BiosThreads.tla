---------------------------- MODULE BiosThreads ----------------------------
(***************************************************************************)
(* Cooperative threads of the system BIOS (bios/seabios/src/stacks.c):     *)
(* the ring of threads, yield, the mutex, wait_threads, and the preemption *)
(* of an option rom by the real time clock.  Hardware set-up runs in these *)
(* threads.  A step lasts from one switch of stacks to the next.           *)
(***************************************************************************)
EXTENDS Naturals

CONSTANTS Threads,         \* the addresses a thread's stack may have
          Main,            \* MainThread
          ThreadOptionroms,\* CONFIG_THREAD_OPTIONROMS
          MaxSpawn         \* bound on the threads ever started

ASSUME ThreadsAssumption == /\ Main \notin Threads
                            /\ ThreadOptionroms \in BOOLEAN
                            /\ MaxSpawn \in Nat

VARIABLES next,       \* thread_info.next
          pprev,      \* thread_info.pprev: pprev[t] = u stands for &u->next
          live,       \* the threads whose stack is allocated
          cur,        \* whose stack the processor is on
          pc,         \* where each thread is
          isLocked,   \* the mutex
          canPreempt, \* CanPreempt
          spawned     \* threads started so far

thrVars == <<next, pprev, live, cur, pc, isLocked, canPreempt, spawned>>
Ring == live \cup {Main}

\* thread_setup.
ThrInit == /\ next = [t \in Threads \cup {Main} |-> Main]
           /\ pprev = [t \in Threads \cup {Main} |-> Main]
           /\ live = {}
           /\ cur = Main
           /\ pc = [t \in Threads \cup {Main} |-> "work"]
           /\ isLocked = FALSE
           /\ canPreempt = FALSE
           /\ spawned = 0

\* switch_next(t).
SwitchNext(t) == cur' = next[t]

\* run_thread: the new thread is linked in before its creator, and runs at
\* once.  (Without memory for the stack the function is simply called.)
RunThread(t) ==
    /\ pc[cur] \in {"work", "locked"}
    /\ t \in Threads \ live
    /\ spawned < MaxSpawn
    /\ next' = [[next EXCEPT ![t] = cur] EXCEPT ![pprev[cur]] = t]
    /\ pprev' = [pprev EXCEPT ![t] = pprev[cur], ![cur] = t]
    /\ live' = live \cup {t}
    /\ cur' = t
    /\ pc' = [pc EXCEPT ![t] = "work"]
    /\ spawned' = spawned + 1
    /\ UNCHANGED <<isLocked, canPreempt>>

\* Mutation of EndThread: the successor keeps its back link.
EndThreadHalf ==
    /\ cur # Main /\ pc[cur] = "work"
    /\ next' = [next EXCEPT ![pprev[cur]] = next[cur]]
    /\ live' = live \ {cur}
    /\ SwitchNext(cur)
    /\ UNCHANGED <<pprev, pc, isLocked, canPreempt, spawned>>

\* The end of run_thread, and __end_thread on the next stack.
EndThread ==
    /\ cur # Main /\ pc[cur] = "work"
    /\ next' = [next EXCEPT ![pprev[cur]] = next[cur]]
    /\ pprev' = [pprev EXCEPT ![next[cur]] = pprev[cur]]
    /\ live' = live \ {cur}
    /\ SwitchNext(cur)
    /\ UNCHANGED <<pc, isLocked, canPreempt, spawned>>

\* yield.
Yield == /\ pc[cur] \in {"work", "locked"}
         /\ SwitchNext(cur)
         /\ UNCHANGED <<next, pprev, live, pc, isLocked, canPreempt, spawned>>

\* mutex_lock: tested again after every yield.
MutexLock ==
    /\ pc[cur] \in {"work", "lock"}
    /\ IF isLocked
       THEN /\ pc' = [pc EXCEPT ![cur] = "lock"]
            /\ SwitchNext(cur)
            /\ UNCHANGED isLocked
       ELSE /\ pc' = [pc EXCEPT ![cur] = "locked"]
            /\ isLocked' = TRUE
            /\ UNCHANGED cur
    /\ UNCHANGED <<next, pprev, live, canPreempt, spawned>>

MutexUnlock ==
    /\ pc[cur] = "locked"
    /\ isLocked' = FALSE
    /\ pc' = [pc EXCEPT ![cur] = "work"]
    /\ UNCHANGED <<next, pprev, live, cur, canPreempt, spawned>>

\* wait_threads, called by the main thread only.
WaitThreads ==
    /\ cur = Main /\ pc[Main] \in {"work", "wait"}
    /\ IF next[Main] = Main
       THEN pc' = [pc EXCEPT ![Main] = "waited"] /\ UNCHANGED cur
       ELSE pc' = [pc EXCEPT ![Main] = "wait"] /\ SwitchNext(Main)
    /\ UNCHANGED <<next, pprev, live, isLocked, canPreempt, spawned>>

\* start_preempt, before an option rom runs in the main thread.
StartPreempt ==
    /\ cur = Main /\ pc[Main] = "work"
    /\ pc' = [pc EXCEPT ![Main] = "rom"]
    /\ canPreempt' = ThreadOptionroms
    /\ UNCHANGED <<next, pprev, live, cur, isLocked, spawned>>

\* check_preempt and yield_preempt: the clock interrupts the rom, and the
\* other threads get their turn.
CheckPreempt ==
    /\ cur = Main /\ pc[Main] = "rom"
    /\ canPreempt /\ next[Main] # Main
    /\ SwitchNext(Main)
    /\ UNCHANGED <<next, pprev, live, pc, isLocked, canPreempt, spawned>>

\* finish_preempt, which also yields.
FinishPreempt ==
    /\ cur = Main /\ pc[Main] = "rom"
    /\ pc' = [pc EXCEPT ![Main] = "work"]
    /\ canPreempt' = FALSE
    /\ SwitchNext(Main)
    /\ UNCHANGED <<next, pprev, live, isLocked, spawned>>

\* wait_preempt, called by a thread that must not run beside a rom.
WaitPreempt ==
    /\ \/ pc[cur] = "work" /\ canPreempt
       \/ pc[cur] = "waitrom"
    /\ IF canPreempt
       THEN pc' = [pc EXCEPT ![cur] = "waitrom"] /\ SwitchNext(cur)
       ELSE pc' = [pc EXCEPT ![cur] = "work"] /\ UNCHANGED cur
    /\ UNCHANGED <<next, pprev, live, isLocked, canPreempt, spawned>>

ThrNext == \/ \E t \in Threads : RunThread(t)
           \/ EndThread \/ Yield \/ MutexLock \/ MutexUnlock
           \/ WaitThreads \/ StartPreempt \/ CheckPreempt \/ FinishPreempt
           \/ WaitPreempt

\* A thread does not work for ever, nor does a rom; a thread that has the
\* mutex gives it back; the processor goes round the ring while anyone waits.
ThrFairness == /\ \A t \in Threads : SF_thrVars(cur = t /\ EndThread)
               /\ \A t \in Threads \cup {Main} : SF_thrVars(cur = t /\ MutexUnlock)
               /\ \A t \in Threads : SF_thrVars(cur = t /\ pc[t] = "lock" /\ MutexLock)
               /\ WF_thrVars(pc[cur] = "waitrom" /\ WaitPreempt)
               /\ WF_thrVars(Yield) /\ WF_thrVars(WaitThreads)
               /\ WF_thrVars(FinishPreempt)
               /\ WF_thrVars(cur = Main /\ pc[Main] = "lock" /\ MutexLock)

ThrSpec == ThrInit /\ [][ThrNext]_thrVars /\ ThrFairness

----------------------------------------------------------------------------
\* stacks.c: however threads start, end and switch, the links of the ring
\* are inverse to each other, stay inside it, and the processor is never on
\* a stack that was freed.
RingIntact == /\ cur \in Ring
              /\ \A t \in Ring : /\ next[t] \in Ring /\ pprev[t] \in Ring
                                 /\ pprev[next[t]] = t /\ next[pprev[t]] = t

\* mutex_lock: the mutex has one owner while it is locked, none otherwise,
\* and no thread ends owning it.
OneOwner == /\ isLocked <=> \E t \in Ring : pc[t] = "locked"
            /\ \A t, u \in Ring : pc[t] = "locked" /\ pc[u] = "locked" => t = u

\* wait_threads: it returns when every thread has ended, not before.
AllEnded == pc[Main] = "waited" => live = {}

\* stacks.c: if threads end and give back the mutex, the main thread's wait for
\* them is over some time; no waiter for the mutex is passed over for ever; and
\* all along the ring and the mutex are sound and the wait is not over early.
WaitsEnd == /\ [](RingIntact /\ OneOwner /\ AllEnded)
            /\ pc[Main] = "wait" ~> pc[Main] = "waited" /\ live = {}
============================================================================
