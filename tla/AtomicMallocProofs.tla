------------------------- MODULE AtomicMallocProofs -------------------------
(* coremu_atomic_mallocz for any number of threads and blocks. *)
EXTENDS AtomicMalloc, TLAPS

\* The call that has installed its block and has not returned yet.
Winning(t) == apc[t] = "test" /\ res[t] = NULL

\* The block of a thread in the middle of a call is its own: live, not
\* installed, not the block of another thread, and zeroed once memset is done.
BlocksInv ==
  /\ \A t \in Caller : Private(t) => p[t] \in heap /\ p[t] # pp
  /\ \A t, u \in Caller : Private(t) /\ Private(u) /\ t # u => p[t] # p[u]
  /\ \A t \in Caller : apc[t] = "cmpxchg" => p[t] \notin dirty
  /\ \A t \in Caller : apc[t] = "return" => res[t] # NULL

\* The one success is either still to be returned, by one call, or returned.
WinInv ==
  /\ pp = NULL => wins = 0 /\ \A t \in Caller : ~Winning(t)
  /\ wins # 0 => wins = 1 /\ \A t \in Caller : ~Winning(t)
  /\ \A t, u \in Caller : Winning(t) /\ Winning(u) => t = u

IInv == MallocTypeOK /\ NoLeak /\ InstalledIsZeroed /\ BlocksInv /\ WinInv

\* At first the pointer is NULL and no call is in progress.
LEMMA InitIInv == MallocInit => IInv
  BY AtomicMallocAssumption
  DEF MallocInit, IInv, MallocTypeOK, NoLeak, InstalledIsZeroed, BlocksInv, WinInv, Private, Winning

\* Every step keeps every variable in its type.
LEMMA NextTypeOK == IInv /\ [MallocNext]_mallocVars => MallocTypeOK'
  <1> SUFFICES ASSUME IInv, [MallocNext]_mallocVars PROVE MallocTypeOK'
    OBVIOUS
  <1> USE DEF IInv, MallocTypeOK, MallocGoto
  <1>1. ASSUME NEW t \in Caller, Malloc(t) PROVE MallocTypeOK'
    BY <1>1 DEF Malloc
  <1>2. ASSUME NEW t \in Caller, Memset(t) PROVE MallocTypeOK'
    BY <1>2 DEF Memset
  <1>3. ASSUME NEW t \in Caller, CompareExchange(t) PROVE MallocTypeOK'
    BY <1>3 DEF CompareExchange
  <1>4. ASSUME NEW t \in Caller, FreeBlock(t) PROVE MallocTypeOK'
    BY <1>4 DEF FreeBlock, BlocksInv, Private
  <1>5. ASSUME NEW t \in Caller, Return(t) PROVE MallocTypeOK'
    BY <1>5 DEF Return
  <1>6. CASE UNCHANGED mallocVars
    BY <1>6 DEF mallocVars
  <1>7. QED
    BY <1>1, <1>2, <1>3, <1>4, <1>5, <1>6 DEF MallocNext

\* Blocks move from malloc to the caller and then to *pp or back to malloc.
LEMMA NextBlocks == IInv /\ [MallocNext]_mallocVars => NoLeak' /\ InstalledIsZeroed' /\ BlocksInv'
  <1> SUFFICES ASSUME IInv, [MallocNext]_mallocVars PROVE NoLeak' /\ InstalledIsZeroed' /\ BlocksInv'
    OBVIOUS
  <1> USE AtomicMallocAssumption DEF IInv, MallocTypeOK, MallocGoto, Private
  <1>1. ASSUME NEW t \in Caller, Malloc(t) PROVE NoLeak' /\ InstalledIsZeroed' /\ BlocksInv'
    <2>1. PICK b \in Block \ heap : heap' = heap \cup {b} /\ p' = [p EXCEPT ![t] = b]
      BY <1>1 DEF Malloc
    <2>2. NoLeak'
      BY <1>1, <2>1 DEF Malloc, NoLeak
    <2>3. InstalledIsZeroed' /\ BlocksInv'
      BY <1>1, <2>1 DEF Malloc, InstalledIsZeroed, BlocksInv
    <2>4. QED
      BY <2>2, <2>3
  <1>2. ASSUME NEW t \in Caller, Memset(t) PROVE NoLeak' /\ InstalledIsZeroed' /\ BlocksInv'
    <2>1. NoLeak'
      BY <1>2 DEF Memset, NoLeak
    <2>2. InstalledIsZeroed' /\ BlocksInv'
      BY <1>2 DEF Memset, InstalledIsZeroed, BlocksInv
    <2>3. QED
      BY <2>1, <2>2
  <1>3. ASSUME NEW t \in Caller, CompareExchange(t)
        PROVE  NoLeak' /\ InstalledIsZeroed' /\ BlocksInv'
    <2>1. NoLeak'
      BY <1>3 DEF CompareExchange, NoLeak, BlocksInv
    <2>2. InstalledIsZeroed' /\ BlocksInv'
      BY <1>3 DEF CompareExchange, InstalledIsZeroed, BlocksInv
    <2>3. QED
      BY <2>1, <2>2
  <1>4. ASSUME NEW t \in Caller, FreeBlock(t) PROVE NoLeak' /\ InstalledIsZeroed' /\ BlocksInv'
    <2>1. NoLeak'
      BY <1>4 DEF FreeBlock, NoLeak, BlocksInv
    <2>2. InstalledIsZeroed' /\ BlocksInv'
      BY <1>4 DEF FreeBlock, InstalledIsZeroed, BlocksInv
    <2>3. QED
      BY <2>1, <2>2
  <1>5. ASSUME NEW t \in Caller, Return(t) PROVE NoLeak' /\ InstalledIsZeroed' /\ BlocksInv'
    <2>1. NoLeak'
      BY <1>5 DEF Return, NoLeak, BlocksInv
    <2>2. InstalledIsZeroed' /\ BlocksInv'
      BY <1>5 DEF Return, InstalledIsZeroed, BlocksInv
    <2>3. QED
      BY <2>1, <2>2
  <1>6. CASE UNCHANGED mallocVars
    BY <1>6 DEF mallocVars, NoLeak, InstalledIsZeroed, BlocksInv
  <1>7. QED
    BY <1>1, <1>2, <1>3, <1>4, <1>5, <1>6 DEF MallocNext

\* Only the first compare-and-exchange succeeds.
LEMMA NextWin == IInv /\ [MallocNext]_mallocVars => WinInv'
  <1> SUFFICES ASSUME IInv, [MallocNext]_mallocVars PROVE WinInv'
    OBVIOUS
  <1> USE AtomicMallocAssumption DEF IInv, MallocTypeOK, MallocGoto, Winning, WinInv
  <1>1. ASSUME NEW t \in Caller, Malloc(t) PROVE WinInv'
    BY <1>1 DEF Malloc
  <1>2. ASSUME NEW t \in Caller, Memset(t) PROVE WinInv'
    BY <1>2 DEF Memset
  <1>3. ASSUME NEW t \in Caller, CompareExchange(t) PROVE WinInv'
    <2>1. p[t] \in Block
      BY <1>3 DEF CompareExchange, BlocksInv, Private
    <2>2. QED
      BY <1>3, <2>1 DEF CompareExchange
  <1>4. ASSUME NEW t \in Caller, FreeBlock(t) PROVE WinInv'
    BY <1>4 DEF FreeBlock
  <1>5. ASSUME NEW t \in Caller, Return(t) PROVE WinInv'
    BY <1>5 DEF Return
  <1>6. CASE UNCHANGED mallocVars
    BY <1>6 DEF mallocVars
  <1>7. QED
    BY <1>1, <1>2, <1>3, <1>4, <1>5, <1>6 DEF MallocNext

\* The invariant holds in every reachable state of coremu_atomic_mallocz.
THEOREM Invariance == MallocSpec => []IInv
  <1>1. IInv /\ [MallocNext]_mallocVars => IInv'
    BY NextTypeOK, NextBlocks, NextWin DEF IInv
  <1>2. QED
    BY <1>1, InitIInv, PTL DEF MallocSpec

(***************************************************************************)
(* However many threads race, no block leaks or is freed under its owner   *)
(* (malloc-helper.c:66-69).                                                *)
(***************************************************************************)
THEOREM LosersFree == MallocSpec => []NoLeak
  <1>1. IInv => NoLeak
    BY DEF IInv
  <1>2. QED
    BY <1>1, Invariance, PTL

(***************************************************************************)
(* However many threads race, one call returns 1 and the block it          *)
(* installed stays, live and zeroed (malloc-helper.c:66-71).               *)
(***************************************************************************)
THEOREM FirstWins == MallocSpec => [](OneWinner /\ InstalledIsZeroed)
  <1>1. IInv => OneWinner /\ InstalledIsZeroed
    BY DEF IInv, MallocTypeOK, WinInv, OneWinner
  <1>2. QED
    BY <1>1, Invariance, PTL

(***************************************************************************)
(* A block once installed is never replaced (malloc-helper.c:67).          *)
(***************************************************************************)
THEOREM NeverReplaced == MallocSpec => InstalledForGood
  <1>1. [MallocNext]_mallocVars => [pp # NULL => pp' = pp]_mallocVars
    BY DEF MallocNext, Malloc, Memset, CompareExchange, FreeBlock, Return, mallocVars
  <1>2. QED
    BY <1>1, PTL DEF MallocSpec, InstalledForGood
=============================================================================
