---------------------------- MODULE AtomicMalloc ----------------------------
(***************************************************************************)
(* coremu_atomic_mallocz (main/malloc-helper.c): threads race to install a *)
(* zeroed block in a shared pointer; the losers free theirs.  Any number   *)
(* of calls is made on the same pointer.                                   *)
(***************************************************************************)
EXTENDS Naturals, FiniteSets

CONSTANTS Caller, Block, NULL

ASSUME AtomicMallocAssumption == NULL \notin Block

VARIABLES pp,      \* *pp, the shared pointer
          heap,    \* the blocks that malloc has given out
          dirty,   \* the blocks with unspecified contents
          apc, p, res,
          wins     \* how many calls have returned 1

mallocVars == <<pp, heap, dirty, apc, p, res, wins>>

MallocInit == /\ pp = NULL
              /\ heap = {}
              /\ dirty = Block
              /\ apc = [t \in Caller |-> "idle"]
              /\ p = [t \in Caller |-> NULL]
              /\ res = [t \in Caller |-> NULL]
              /\ wins = 0

MallocGoto(t, from, to) == /\ apc[t] = from
                           /\ apc' = [apc EXCEPT ![t] = to]

\* coremu_malloc; out of memory, oom_check aborts the program
Malloc(t) ==
  /\ MallocGoto(t, "idle", "memset")
  /\ \E b \in Block \ heap : /\ heap' = heap \cup {b}
                             /\ p' = [p EXCEPT ![t] = b]
  /\ UNCHANGED <<pp, dirty, res, wins>>

\* The rest of coremu_mallocz
Memset(t) ==
  /\ MallocGoto(t, "memset", "cmpxchg")
  /\ dirty' = dirty \ {p[t]}
  /\ UNCHANGED <<pp, heap, p, res, wins>>

\* atomic_compare_exchangeq returns the previous value
CompareExchange(t) ==
  /\ MallocGoto(t, "cmpxchg", "test")
  /\ res' = [res EXCEPT ![t] = pp]
  /\ pp' = IF pp = NULL THEN p[t] ELSE pp
  /\ UNCHANGED <<heap, dirty, p, wins>>

\* Mutation of FreeBlock: the loser keeps its block.
FreeForgotten(t) ==
  /\ MallocGoto(t, "test", "return")
  /\ res[t] # NULL
  /\ UNCHANGED <<pp, heap, dirty, p, res, wins>>

\* coremu_free; free may write to the block
FreeBlock(t) ==
  /\ MallocGoto(t, "test", "return")
  /\ res[t] # NULL
  /\ heap' = heap \ {p[t]}
  /\ dirty' = dirty \cup {p[t]}
  /\ UNCHANGED <<pp, p, res, wins>>

\* return res == 0
Return(t) ==
  /\ MallocGoto(t, IF res[t] = NULL THEN "test" ELSE "return", "idle")
  /\ wins' = IF res[t] = NULL THEN wins + 1 ELSE wins
  /\ p' = [p EXCEPT ![t] = NULL]
  /\ res' = [res EXCEPT ![t] = NULL]
  /\ UNCHANGED <<pp, heap, dirty>>

MallocNext == \E t \in Caller : \/ Malloc(t) \/ Memset(t) \/ CompareExchange(t)
                                \/ FreeBlock(t) \/ Return(t)

MallocSpec == MallocInit /\ [][MallocNext]_mallocVars

----------------------------------------------------------------------------
MallocTypeOK == /\ pp \in Block \cup {NULL}
                /\ heap \subseteq Block
                /\ dirty \subseteq Block
                /\ apc \in [Caller -> {"idle", "memset", "cmpxchg", "test", "return"}]
                /\ p \in [Caller -> Block \cup {NULL}]
                /\ res \in [Caller -> Block \cup {NULL}]
                /\ wins \in Nat

\* The threads whose block is neither installed nor freed yet.
Private(t) == \/ apc[t] \in {"memset", "cmpxchg"}
              \/ apc[t] = "test" /\ res[t] # NULL

(***************************************************************************)
(* No block is lost and none is freed while somebody still has it          *)
(* (malloc-helper.c:66-69): the live blocks are the installed one and the  *)
(* one of each thread in the middle of a call.                             *)
(***************************************************************************)
NoLeak == heap = ({pp} \ {NULL}) \cup {p[t] : t \in {u \in Caller : Private(u)}}

(***************************************************************************)
(* At most one call ever returns 1, and only once the pointer is set       *)
(* (malloc-helper.c:71).                                                   *)
(***************************************************************************)
OneWinner == wins <= 1 /\ (wins = 1 => pp # NULL)

(***************************************************************************)
(* The installed block is live and was zeroed before any thread can reach  *)
(* it, and no later call touches it (malloc-helper.c:66-69).               *)
(***************************************************************************)
InstalledIsZeroed == pp # NULL => pp \in heap \ dirty

(***************************************************************************)
(* Once installed, a block stays installed: a caller may keep the pointer  *)
(* it read (malloc-helper.c:67).                                           *)
(***************************************************************************)
InstalledForGood == [][pp # NULL => pp' = pp]_mallocVars
=============================================================================
