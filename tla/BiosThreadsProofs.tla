------------------------- MODULE BiosThreadsProofs -------------------------
(***************************************************************************)
(* Proofs about the threads of the system BIOS, for any number of threads: *)
(* the ring stays one cycle of live threads, the mutex has one owner, and  *)
(* wait_threads, which looks only at the main thread's successor, returns  *)
(* when every thread has ended.                                            *)
(***************************************************************************)
EXTENDS BiosThreads, TLAPS

All == Threads \cup {Main}
Places == {"work", "lock", "locked", "wait", "waited", "rom", "waitrom"}

ThrTypeOK == /\ next \in [All -> All] /\ pprev \in [All -> All]
             /\ live \in SUBSET Threads
             /\ pc \in [All -> Places]
             /\ isLocked \in BOOLEAN

\* The ring is one cycle: a set that holds the main thread and, with a thread,
\* its successor, holds them all.
OneCycle == \A S \in SUBSET Ring :
               Main \in S /\ (\A t \in S : next[t] \in S) => S = Ring

\* Once wait_threads is over the main thread is alone on the processor.
Waited == pc[Main] = "waited" => cur = Main /\ next[Main] = Main

RingInv == ThrTypeOK /\ RingIntact /\ OneCycle
MutexInv == /\ \A t \in Ring : pc[t] = "locked" => isLocked
            /\ isLocked => \E t \in Ring : pc[t] = "locked"
            /\ \A t, u \in Ring : pc[t] = "locked" /\ pc[u] = "locked" => t = u

----------------------------------------------------------------------------
(***************************************************************************)
(* thread_setup makes a ring of the main thread alone.                     *)
(***************************************************************************)
LEMMA InitRing == ThrInit => RingInv /\ MutexInv /\ Waited
  BY ThreadsAssumption
  DEF ThrInit, RingInv, ThrTypeOK, RingIntact, OneCycle, MutexInv, Waited, Ring, All, Places

(***************************************************************************)
(* run_thread links the new thread in before its creator: the ring is      *)
(* still one cycle.                                                        *)
(***************************************************************************)
LEMMA RunThreadRing ==
  ASSUME RingInv, NEW t \in Threads, RunThread(t)
  PROVE  RingInv'
  <1> USE ThreadsAssumption
  <1>1. /\ cur \in Ring /\ t \notin Ring /\ Ring' = Ring \cup {t} /\ Ring \subseteq All
        /\ pprev[cur] \in Ring /\ t \in All
    BY DEF RingInv, ThrTypeOK, RingIntact, RunThread, Ring, All
  <1>2. /\ \A u \in Ring \ {pprev[cur]} : next'[u] = next[u]
        /\ next'[pprev[cur]] = t /\ next'[t] = cur
    BY <1>1 DEF RingInv, ThrTypeOK, RunThread, All
  <1>3. /\ \A u \in Ring \ {cur} : pprev'[u] = pprev[u]
        /\ pprev'[cur] = t /\ pprev'[t] = pprev[cur]
    BY <1>1 DEF RingInv, ThrTypeOK, RunThread, All
  <1>4. ThrTypeOK'
    BY <1>1 DEF RingInv, ThrTypeOK, RunThread, All, Places
  <1>5. RingIntact'
    <2>1. cur' \in Ring'
      BY <1>1 DEF RunThread
    <2>2. ASSUME NEW u \in Ring'
          PROVE  /\ next'[u] \in Ring' /\ pprev'[u] \in Ring'
                 /\ pprev'[next'[u]] = u /\ next'[pprev'[u]] = u
      BY <1>1, <1>2, <1>3 DEF RingInv, RingIntact
    <2>3. QED
      BY <2>1, <2>2 DEF RingIntact
  <1>6. OneCycle'
    <2>1. SUFFICES ASSUME NEW S \in SUBSET Ring', Main \in S, \A u \in S : next'[u] \in S
                   PROVE  S = Ring'
      BY DEF OneCycle
    <2>2. /\ S \ {t} \in SUBSET Ring
          /\ Main \in S \ {t}
          /\ \A u \in S \ {t} : next[u] \in S \ {t}
      BY <1>1, <1>2, <2>1 DEF RingInv, RingIntact
    <2>3. S \ {t} = Ring
      BY <2>2 DEF RingInv, OneCycle
    <2>4. t \in S
      BY <1>1, <1>2, <2>1, <2>3
    <2>5. QED
      BY <1>1, <2>3, <2>4
  <1>7. QED
    BY <1>4, <1>5, <1>6 DEF RingInv

(***************************************************************************)
(* __end_thread takes the thread out: the ring of the others is still one  *)
(* cycle, and the processor is on the stack of one of them.                *)
(***************************************************************************)
LEMMA EndThreadRing ==
  ASSUME RingInv, EndThread
  PROVE  RingInv'
  <1> USE ThreadsAssumption
  <1>1. /\ cur \in Ring /\ cur \in Threads /\ Ring' = Ring \ {cur} /\ Ring \subseteq All
        /\ pprev[cur] \in Ring /\ next[cur] \in Ring /\ Main \in Ring
    BY DEF RingInv, ThrTypeOK, RingIntact, EndThread, Ring, All
  <1>2. next[cur] # cur /\ pprev[cur] # cur
    <2>1. SUFFICES ASSUME next[cur] = cur \/ pprev[cur] = cur
                   PROVE  FALSE
      OBVIOUS
    <2>2. next[cur] = cur
      BY <1>1, <2>1 DEF RingInv, RingIntact
    <2>3. /\ Ring \ {cur} \in SUBSET Ring /\ Main \in Ring \ {cur}
          /\ \A u \in Ring \ {cur} : next[u] \in Ring \ {cur}
      BY <1>1, <2>2 DEF RingInv, RingIntact
    <2>4. Ring \ {cur} = Ring
      BY <2>3 DEF RingInv, OneCycle
    <2>5. QED
      BY <1>1, <2>4
  <1>3. /\ \A u \in Ring \ {pprev[cur]} : next'[u] = next[u]
        /\ next'[pprev[cur]] = next[cur]
    BY <1>1 DEF RingInv, ThrTypeOK, EndThread, All
  <1>4. /\ \A u \in Ring \ {next[cur]} : pprev'[u] = pprev[u]
        /\ pprev'[next[cur]] = pprev[cur]
    BY <1>1 DEF RingInv, ThrTypeOK, EndThread, All
  <1>5. ThrTypeOK'
    BY <1>1 DEF RingInv, ThrTypeOK, EndThread, All
  <1>6. RingIntact'
    <2>1. cur' \in Ring'
      BY <1>1, <1>2 DEF EndThread, SwitchNext
    <2>2. ASSUME NEW u \in Ring'
          PROVE  /\ next'[u] \in Ring' /\ pprev'[u] \in Ring'
                 /\ pprev'[next'[u]] = u /\ next'[pprev'[u]] = u
      BY <1>1, <1>2, <1>3, <1>4 DEF RingInv, RingIntact
    <2>3. QED
      BY <2>1, <2>2 DEF RingIntact
  <1>7. OneCycle'
    <2>1. SUFFICES ASSUME NEW S \in SUBSET Ring', Main \in S, \A u \in S : next'[u] \in S
                   PROVE  S = Ring'
      BY DEF OneCycle
    <2>2. pprev[cur] \in S
      <3>1. SUFFICES ASSUME pprev[cur] \notin S
                     PROVE  FALSE
        OBVIOUS
      <3>2. S \in SUBSET Ring /\ \A u \in S : next[u] \in S
        BY <1>1, <1>3, <2>1, <3>1
      <3>3. S = Ring
        BY <2>1, <3>2 DEF RingInv, OneCycle
      <3>4. QED
        BY <1>1, <3>1, <3>3
    <2>3. next[cur] \in S
      BY <1>3, <2>1, <2>2
    <2>4. /\ S \cup {cur} \in SUBSET Ring /\ Main \in S \cup {cur}
          /\ \A u \in S \cup {cur} : next[u] \in S \cup {cur}
      BY <1>1, <1>3, <2>1, <2>3 DEF RingInv, RingIntact
    <2>5. S \cup {cur} = Ring
      BY <2>4 DEF RingInv, OneCycle
    <2>6. QED
      BY <1>1, <2>1, <2>5
  <1>8. QED
    BY <1>5, <1>6, <1>7 DEF RingInv

(***************************************************************************)
(* The other steps leave the links alone: switch_next goes to a thread of  *)
(* the ring.                                                               *)
(***************************************************************************)
LEMMA NextRing == RingInv /\ [ThrNext]_thrVars => RingInv'
  <1> SUFFICES ASSUME RingInv, [ThrNext]_thrVars
               PROVE  RingInv'
    OBVIOUS
  <1> USE ThreadsAssumption
  <1>1. ASSUME /\ UNCHANGED <<next, pprev, live>> /\ cur' \in {cur, next[cur]}
               /\ pc' \in [All -> Places] /\ isLocked' \in BOOLEAN
        PROVE  RingInv'
    <2>1. Ring' = Ring /\ cur' \in Ring
      BY <1>1 DEF RingInv, RingIntact, Ring
    <2>2. ThrTypeOK'
      BY <1>1 DEF RingInv, ThrTypeOK
    <2>3. RingIntact'
      BY <1>1, <2>1 DEF RingInv, RingIntact
    <2>4. OneCycle'
      BY <1>1, <2>1 DEF RingInv, OneCycle
    <2>5. QED
      BY <2>2, <2>3, <2>4 DEF RingInv
  <1>2. ASSUME Yield \/ MutexLock \/ MutexUnlock
        PROVE  RingInv'
    BY <1>1, <1>2 DEF Yield, MutexLock, MutexUnlock, SwitchNext, RingInv, ThrTypeOK, Places
  <1>3. ASSUME WaitThreads \/ StartPreempt \/ CheckPreempt
        PROVE  RingInv'
    BY <1>1, <1>3 DEF WaitThreads, StartPreempt, CheckPreempt, SwitchNext, RingInv, ThrTypeOK, Places
  <1>4. ASSUME FinishPreempt \/ WaitPreempt
        PROVE  RingInv'
    BY <1>1, <1>4 DEF FinishPreempt, WaitPreempt, SwitchNext, RingInv, ThrTypeOK, Places
  <1>5. ASSUME UNCHANGED thrVars
        PROVE  RingInv'
    BY <1>1, <1>5 DEF thrVars, RingInv, ThrTypeOK
  <1>6. QED
    BY <1>2, <1>3, <1>4, <1>5, RunThreadRing, EndThreadRing DEF ThrNext

(***************************************************************************)
(* mutex_lock and mutex_unlock need no atomic instruction: a thread is     *)
(* switched away only where it yields (stacks.c:254-272), and ends without *)
(* the mutex.                                                              *)
(***************************************************************************)
LEMMA NextMutex == RingInv /\ MutexInv /\ [ThrNext]_thrVars => MutexInv'
  <1> SUFFICES ASSUME RingInv, MutexInv, [ThrNext]_thrVars
               PROVE  MutexInv'
    OBVIOUS
  <1> USE ThreadsAssumption
  <1>1. cur \in Ring /\ Ring \subseteq All /\ pc \in [All -> Places]
    BY DEF RingInv, RingIntact, ThrTypeOK, Ring, All
  <1>2. ASSUME NEW t \in Threads, RunThread(t)
        PROVE  MutexInv'
    <2>1. /\ t \notin Ring /\ Ring' = Ring \cup {t} /\ isLocked' = isLocked
          /\ \A u \in Ring : pc'[u] = pc[u]
          /\ pc'[t] = "work"
      BY <1>1, <1>2 DEF RunThread, Ring, All
    <2>2. QED
      BY <2>1 DEF MutexInv
  <1>3. ASSUME EndThread
        PROVE  MutexInv'
    <2>1. Ring' = Ring \ {cur} /\ pc[cur] = "work" /\ UNCHANGED <<pc, isLocked>>
      BY <1>3 DEF EndThread, Ring
    <2>2. QED
      BY <2>1 DEF MutexInv
  <1>4. ASSUME MutexLock
        PROVE  MutexInv'
    <2>1. Ring' = Ring /\ \A u \in Ring \ {cur} : pc'[u] = pc[u]
      BY <1>1, <1>4 DEF MutexLock, Ring
    <2>2. CASE isLocked
      BY <1>1, <1>4, <2>1, <2>2 DEF MutexLock, MutexInv
    <2>3. CASE ~isLocked
      BY <1>1, <1>4, <2>1, <2>3 DEF MutexLock, MutexInv
    <2>4. QED
      BY <2>2, <2>3
  <1>5. ASSUME MutexUnlock
        PROVE  MutexInv'
    <2>1. /\ Ring' = Ring /\ pc[cur] = "locked" /\ pc'[cur] = "work"
          /\ isLocked' = FALSE /\ \A u \in Ring \ {cur} : pc'[u] = pc[u]
      BY <1>1, <1>5 DEF MutexUnlock, Ring
    <2>2. QED
      BY <1>1, <2>1 DEF MutexInv
  <1>6. ASSUME /\ Ring' = Ring /\ isLocked' = isLocked
               /\ \A u \in Ring : pc'[u] = "locked" <=> pc[u] = "locked"
        PROVE  MutexInv'
    BY <1>6 DEF MutexInv
  <1>7. ASSUME WaitThreads \/ StartPreempt \/ FinishPreempt \/ WaitPreempt
        PROVE  MutexInv'
    BY <1>1, <1>6, <1>7 DEF WaitThreads, StartPreempt, FinishPreempt, WaitPreempt, Ring
  <1>8. ASSUME Yield \/ CheckPreempt \/ UNCHANGED thrVars
        PROVE  MutexInv'
    BY <1>6, <1>8 DEF Yield, CheckPreempt, thrVars, Ring
  <1>9. QED
    BY <1>2, <1>3, <1>4, <1>5, <1>7, <1>8 DEF ThrNext

(***************************************************************************)
(* After wait_threads the main thread starts no thread any more here, so   *)
(* what the wait saw stays true.                                           *)
(***************************************************************************)
LEMMA NextWaited == RingInv /\ Waited /\ [ThrNext]_thrVars => Waited'
  <1> SUFFICES ASSUME RingInv, Waited, [ThrNext]_thrVars
               PROVE  Waited'
    OBVIOUS
  <1> USE ThreadsAssumption
  <1>1. cur \in All /\ Main \in All /\ pc \in [All -> Places]
    BY DEF RingInv, RingIntact, ThrTypeOK, Ring, All
  <1>2. ASSUME NEW t \in Threads, RunThread(t)
        PROVE  Waited'
    BY <1>1, <1>2 DEF RunThread, Waited, All
  <1>3. ASSUME EndThread \/ Yield \/ MutexLock \/ MutexUnlock
        PROVE  Waited'
    BY <1>1, <1>3 DEF EndThread, Yield, MutexLock, MutexUnlock, Waited
  <1>4. ASSUME WaitThreads \/ StartPreempt \/ CheckPreempt \/ FinishPreempt \/ WaitPreempt
        PROVE  Waited'
    BY <1>1, <1>4 DEF WaitThreads, StartPreempt, CheckPreempt, FinishPreempt, WaitPreempt, Waited
  <1>5. ASSUME UNCHANGED thrVars
        PROVE  Waited'
    BY <1>5 DEF thrVars, Waited
  <1>6. QED
    BY <1>2, <1>3, <1>4, <1>5 DEF ThrNext

(***************************************************************************)
(* wait_threads looks at one link, MainThread.next (stacks.c:249): since   *)
(* the ring is one cycle, that link tells that no thread is left.          *)
(***************************************************************************)
LEMMA AloneInRing == RingInv /\ Waited => AllEnded
  <1> SUFFICES ASSUME RingInv, Waited, pc[Main] = "waited"
               PROVE  live = {}
    BY DEF AllEnded
  <1>1. {Main} \in SUBSET Ring /\ \A t \in {Main} : next[t] \in {Main}
    BY DEF Waited, Ring
  <1>2. {Main} = Ring
    BY <1>1 DEF RingInv, OneCycle
  <1>3. QED
    BY <1>2, ThreadsAssumption DEF RingInv, ThrTypeOK, Ring

(***************************************************************************)
(* Threads start, yield and end in any order and number, beside option     *)
(* roms: the ring (stacks.c:149-241) keeps its links, and the processor is *)
(* never on a stack that was freed.                                        *)
(***************************************************************************)
THEOREM RingKept == ThrSpec => []RingIntact
  <1>1. RingInv => RingIntact
    BY DEF RingInv
  <1>2. QED
    BY <1>1, InitRing, NextRing, PTL DEF ThrSpec

(***************************************************************************)
(* The mutex of stacks.c:254-272 has one owner while it is locked, and     *)
(* none otherwise.                                                         *)
(***************************************************************************)
THEOREM MutexHasOneOwner == ThrSpec => []OneOwner
  <1>1. MutexInv => OneOwner
    BY DEF MutexInv, OneOwner
  <1>2. QED
    BY <1>1, InitRing, NextRing, NextMutex, PTL DEF ThrSpec

(***************************************************************************)
(* wait_threads (stacks.c:243-252) returns when every thread has ended,    *)
(* not before.                                                             *)
(***************************************************************************)
THEOREM WaitIsNotEarly == ThrSpec => []AllEnded
  <1>1. QED
    BY InitRing, NextRing, NextWaited, AloneInRing, PTL DEF ThrSpec
============================================================================
