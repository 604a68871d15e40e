------------------------------ MODULE MSQueue ------------------------------
(***************************************************************************)
(* The lock-free interrupt queue, main/ms-queue.c (built when LOCKFREE is  *)
(* set): Michael and Scott's queue, with counted pointers that the code    *)
(* swaps by cmpxchg16b and reads in two halves, and with nodes that go     *)
(* back to malloc as soon as they are dequeued.                            *)
(*                                                                         *)
(* As in LockQueue, many threads enqueue, one core dequeues, and it does   *)
(* so through coremu_get_intr.                                             *)
(***************************************************************************)
EXTENDS Integers, Sequences

CONSTANTS Thread,
          Consumer,  \* the core thread that owns the queue
          Producer,  \* the threads that enqueue
          Node,      \* addresses of nodes
          NULL,
          Intr,
          NoIntr,
          Garbage,   \* what malloc may leave in next.count, beside what was there
          Recycle,   \* malloc hands out freed nodes again
          MaxTag     \* bound: no enqueue starts once Tail.count is this large

ASSUME MSQueueAssumption == /\ Consumer \in Thread
                            /\ Producer \subseteq Thread
                            /\ NULL \notin Node
                            /\ NoIntr \notin Intr
                            /\ Garbage \subseteq Nat
                            /\ Recycle \in BOOLEAN
                            /\ MaxTag \in Nat

VARIABLES link,      \* node_t.next of every address: a pointer_t
          value,     \* node_t.value of every address
          heap,      \* the allocated nodes
          freed,     \* the nodes that have been freed at least once
          QHead,     \* queue_t.Head
          QTail,     \* queue_t.Tail
          count,     \* queue_t.count
          masked,    \* the threads that block every signal
          pc,
          node,      \* enqueue's node
          head,      \* dequeue's head
          tail,      \* the local tail of enqueue and of dequeue
          next,      \* the local next of enqueue and of dequeue
          value_p,   \* the interrupt a dequeue has removed
          chain      \* history: the linked nodes, from Head to the last

queueVars == <<QHead, QTail, count>>
memVars   == <<link, value, heap, freed>>
vars == <<link, value, heap, freed, QHead, QTail, count, masked,
          pc, node, head, tail, next, value_p, chain>>

Pointer(p, k) == [ptr |-> p, count |-> k]
Nil == Pointer(NULL, 0)

Goto(t, from, to) == /\ pc[t] = from
                     /\ pc' = [pc EXCEPT ![t] = to]

\* new_queue and initialize
Init == \E dummy \in Node :
          /\ link = [n \in Node |-> Nil]
          /\ value = [n \in Node |-> NoIntr]
          /\ heap = {dummy}
          /\ freed = {}
          /\ QHead = Pointer(dummy, 0)
          /\ QTail = Pointer(dummy, 0)
          /\ count = 0
          /\ masked = {}
          /\ pc = [t \in Thread |-> "idle"]
          /\ node = [t \in Thread |-> NULL]
          /\ head = Nil
          /\ tail = [t \in Thread |-> Nil]
          /\ next = [t \in Thread |-> Nil]
          /\ value_p = NoIntr
          /\ chain = <<dummy>>

----------------------------------------------------------------------------
(* enqueue(Q, v) *)

\* coremu_sigmask_blk, new_node and the stores to the new node.  next.count
\* is not stored: the node keeps what the memory holds.
NewNode(t, v) ==
  /\ Goto(t, "idle", "tail_ptr")
  /\ t \in Producer
  /\ masked' = masked \cup {t}
  /\ QTail.count < MaxTag
  /\ \E n \in Node \ (heap \cup IF Recycle THEN {} ELSE freed) :
       /\ heap'  = heap \cup {n}
       /\ value' = [value EXCEPT ![n] = v]
       /\ \E k \in Garbage \cup {link[n].count} :
            link' = [link EXCEPT ![n] = Pointer(NULL, k)]
       /\ node'  = [node EXCEPT ![t] = n]
  /\ UNCHANGED <<queueVars, freed, head, tail, next, value_p, chain>>

\* tail = Q->Tail, in two loads
ReadTailPtr(t) ==
  /\ Goto(t, "tail_ptr", "tail_count")
  /\ tail' = [tail EXCEPT ![t].ptr = QTail.ptr]
  /\ UNCHANGED <<memVars, queueVars, masked, node, head, next, value_p, chain>>

ReadTailCount(t) ==
  /\ Goto(t, "tail_count", "next_ptr")
  /\ tail' = [tail EXCEPT ![t].count = QTail.count]
  /\ UNCHANGED <<memVars, queueVars, masked, node, head, next, value_p, chain>>

\* next = tail.ptr->next, in two loads
ReadNextPtr(t) ==
  /\ Goto(t, "next_ptr", "next_count")
  /\ next' = [next EXCEPT ![t].ptr = link[tail[t].ptr].ptr]
  /\ UNCHANGED <<memVars, queueVars, masked, node, head, tail, value_p, chain>>

ReadNextCount(t) ==
  /\ Goto(t, "next_count", "check_tail")
  /\ next' = [next EXCEPT ![t].count = link[tail[t].ptr].count]
  /\ UNCHANGED <<memVars, queueVars, masked, node, head, tail, value_p, chain>>

\* cmp128(&Q->Tail, &tail).  The compare-and-swap by which it compares writes
\* back the tail that the compiler has read once.
CheckTail(t) ==
  /\ Goto(t, "check_tail", CASE QTail # tail[t]       -> "tail_ptr"
                             [] next[t].ptr = NULL    -> "link"
                             [] OTHER                 -> "help")
  /\ UNCHANGED <<memVars, queueVars, masked, node, head, tail, next, value_p, chain>>

\* Mutation of LinkNode: a store instead of the compare-and-swap.
LinkNodeBlind(t) ==
  /\ Goto(t, "link", "swing")
  /\ link' = [link EXCEPT ![tail[t].ptr] = Pointer(node[t], next[t].count + 1)]
  /\ chain' = Append(chain, node[t])
  /\ UNCHANGED <<value, heap, freed, queueVars, masked, node, head, tail, next, value_p>>

\* CAS(&tail.ptr->next, next, {node, next.count + 1})
LinkNode(t) ==
  LET last == tail[t].ptr IN
  /\ Goto(t, "link", IF link[last] = next[t] THEN "swing" ELSE "tail_ptr")
  /\ IF link[last] = next[t]
       THEN /\ link' = [link EXCEPT ![last] = Pointer(node[t], next[t].count + 1)]
            /\ chain' = Append(chain, node[t])
       ELSE UNCHANGED <<link, chain>>
  /\ UNCHANGED <<value, heap, freed, queueVars, masked, node, head, tail, next, value_p>>

\* CAS(&Q->Tail, tail, {p, tail.count + 1})
CasTail(t, p) == QTail' = IF QTail = tail[t] THEN Pointer(p, tail[t].count + 1) ELSE QTail

HelpTail(t) ==
  /\ Goto(t, "help", "tail_ptr")
  /\ CasTail(t, next[t].ptr)
  /\ UNCHANGED <<memVars, QHead, count, masked, node, head, tail, next, value_p, chain>>

\* Mutation of SwingTail: moving Tail is left to other threads.
SwingTailForgotten(t) ==
  /\ Goto(t, "swing", "inc")
  /\ UNCHANGED <<memVars, queueVars, masked, node, head, tail, next, value_p, chain>>

SwingTail(t) ==
  /\ Goto(t, "swing", "inc")
  /\ CasTail(t, node[t])
  /\ UNCHANGED <<memVars, QHead, count, masked, node, head, tail, next, value_p, chain>>

\* Local variables of a finished operation
Forget(t) == /\ node' = [node EXCEPT ![t] = NULL]
             /\ tail' = [tail EXCEPT ![t] = Nil]
             /\ next' = [next EXCEPT ![t] = Nil]

\* atomic_incq(&Q->count); coremu_sigmask_res
IncCount(t) ==
  /\ Goto(t, "inc", "idle")
  /\ count' = count + 1
  /\ masked' = masked \ {t}
  /\ Forget(t)
  /\ UNCHANGED <<memVars, QHead, QTail, head, value_p, chain>>

----------------------------------------------------------------------------
(* coremu_get_intr(core) and dequeue(Q, &intr), by the consumer only *)

\* coremu_intr_p; then coremu_sigmask_blk
IntrP(t) ==
  /\ Goto(t, "idle", "d_head")
  /\ t = Consumer
  /\ count > 0
  /\ masked' = masked \cup {t}
  /\ UNCHANGED <<memVars, queueVars, node, head, tail, next, value_p, chain>>

\* head = Q->Head.  Nobody else stores to Head.
ReadHead(t) ==
  /\ Goto(t, "d_head", "d_tail_ptr")
  /\ head' = QHead
  /\ UNCHANGED <<memVars, queueVars, masked, node, tail, next, value_p, chain>>

\* tail = Q->Tail, in two loads
DReadTailPtr(t) ==
  /\ Goto(t, "d_tail_ptr", "d_tail_count")
  /\ tail' = [tail EXCEPT ![t].ptr = QTail.ptr]
  /\ UNCHANGED <<memVars, queueVars, masked, node, head, next, value_p, chain>>

DReadTailCount(t) ==
  /\ Goto(t, "d_tail_count", "d_next")
  /\ tail' = [tail EXCEPT ![t].count = QTail.count]
  /\ UNCHANGED <<memVars, queueVars, masked, node, head, next, value_p, chain>>

\* next = head.ptr->next, of which only ptr is used
DReadNext(t) ==
  /\ Goto(t, "d_next", "d_check")
  /\ next' = [next EXCEPT ![t].ptr = link[head.ptr].ptr]
  /\ UNCHANGED <<memVars, queueVars, masked, node, head, tail, value_p, chain>>

\* head and next say that the queue is empty; that Tail is falling behind.
Empty(t)  == head.ptr = tail[t].ptr /\ next[t].ptr = NULL
Behind(t) == head.ptr = tail[t].ptr /\ next[t].ptr # NULL

\* cmp128(&Q->Head, &head), which nobody else can make fail; the tests; and
\* the compare-and-swap that advances Tail.  The early return on an empty
\* queue skips coremu_sigmask_res.
CheckHead(t) ==
  /\ Goto(t, "d_check", CASE QHead # head -> "d_head"
                          [] QHead = head /\ Empty(t)  -> "idle"
                          [] QHead = head /\ Behind(t) -> "d_head"
                          [] OTHER -> "d_swing")
  /\ IF QHead = head /\ Behind(t) THEN CasTail(t, next[t].ptr) ELSE UNCHANGED QTail
  /\ IF QHead = head /\ Empty(t)
       THEN Forget(t) /\ head' = Nil
       ELSE UNCHANGED <<node, tail, next, head>>
  /\ UNCHANGED <<memVars, QHead, count, masked, value_p, chain>>

\* Mutation of SwingHead: the value is taken from the old dummy.
SwingHeadOldValue(t) ==
  /\ Goto(t, "d_swing", IF QHead = head THEN "d_free" ELSE "d_head")
  /\ IF QHead = head
       THEN /\ value_p' = value[head.ptr]
            /\ QHead' = Pointer(next[t].ptr, head.count + 1)
            /\ chain' = SubSeq(chain, 2, Len(chain))
       ELSE UNCHANGED <<value_p, QHead, chain>>
  /\ UNCHANGED <<memVars, QTail, count, masked, node, head, tail, next>>

\* *pvalue = next.ptr->value; CAS(&Q->Head, head, {next.ptr, head.count + 1})
SwingHead(t) ==
  /\ Goto(t, "d_swing", IF QHead = head THEN "d_free" ELSE "d_head")
  /\ IF QHead = head
       THEN /\ value_p' = value[next[t].ptr]
            /\ QHead' = Pointer(next[t].ptr, head.count + 1)
            /\ chain' = SubSeq(chain, 2, Len(chain))
       ELSE UNCHANGED <<value_p, QHead, chain>>
  /\ UNCHANGED <<memVars, QTail, count, masked, node, head, tail, next>>

\* Mutation of FreeNode: the node that has just become the dummy is freed.
FreeNodeNew(t) ==
  /\ Goto(t, "d_free", "d_dec")
  /\ heap' = heap \ {QHead.ptr}
  /\ freed' = freed \cup {QHead.ptr}
  /\ UNCHANGED <<link, value, queueVars, masked, node, head, tail, next, value_p, chain>>

\* ms_free(head.ptr)
FreeNode(t) ==
  /\ Goto(t, "d_free", "d_dec")
  /\ heap' = heap \ {head.ptr}
  /\ freed' = freed \cup {head.ptr}
  /\ UNCHANGED <<link, value, queueVars, masked, node, head, tail, next, value_p, chain>>

\* atomic_decq(&Q->count); coremu_sigmask_res
DecCount(t) ==
  /\ Goto(t, "d_dec", "idle")
  /\ count' = count - 1
  /\ masked' = masked \ {t}
  /\ value_p' = NoIntr
  /\ head' = Nil
  /\ Forget(t)
  /\ UNCHANGED <<memVars, QHead, QTail, chain>>

----------------------------------------------------------------------------
Enqueue(t) == \/ ReadTailPtr(t) \/ ReadTailCount(t) \/ ReadNextPtr(t) \/ ReadNextCount(t)
              \/ CheckTail(t) \/ LinkNode(t) \/ HelpTail(t) \/ SwingTail(t) \/ IncCount(t)

Dequeue(t) == \/ IntrP(t) \/ ReadHead(t) \/ DReadTailPtr(t) \/ DReadTailCount(t)
              \/ DReadNext(t) \/ CheckHead(t) \/ SwingHead(t) \/ FreeNode(t)
              \/ DecCount(t)

Next == \E t \in Thread : \/ \E v \in Intr : NewNode(t, v)
                          \/ Enqueue(t)
                          \/ Dequeue(t)

Spec == Init /\ [][Next]_vars

\* The core keeps polling.  Any other thread may stop anywhere, for ever.
CoreFairSpec == Spec /\ WF_vars(Dequeue(Consumer))

----------------------------------------------------------------------------
Location == {"idle", "tail_ptr", "tail_count", "next_ptr", "next_count", "check_tail",
             "link", "help", "swing", "inc", "d_head", "d_tail_ptr", "d_tail_count",
             "d_next", "d_check", "d_swing", "d_free", "d_dec"}

PointerType == [ptr : Node \cup {NULL}, count : Nat]

TypeOK ==
  /\ link \in [Node -> PointerType]
  /\ value \in [Node -> Intr \cup {NoIntr}]
  /\ heap \subseteq Node
  /\ freed \subseteq Node
  /\ QHead \in PointerType /\ QHead.ptr # NULL
  /\ QTail \in PointerType /\ QTail.ptr # NULL
  /\ count \in Nat
  /\ masked \subseteq Thread
  /\ pc \in [Thread -> Location]
  /\ node \in [Thread -> Node \cup {NULL}]
  /\ head \in PointerType
  /\ tail \in [Thread -> PointerType]
  /\ next \in [Thread -> PointerType]
  /\ value_p \in Intr \cup {NoIntr}
  /\ chain \in Seq(Node)

(***************************************************************************)
(* "It is safe to free the old dummy node" (ms-queue.c:211): no thread is  *)
(* about to follow a pointer to a freed node.                              *)
(***************************************************************************)
SafeToFree ==
  /\ \A t \in Thread : pc[t] \in {"next_ptr", "next_count", "link"} => tail[t].ptr \in heap
  /\ pc[Consumer] = "d_next" => head.ptr \in heap
  /\ pc[Consumer] = "d_swing" => next[Consumer].ptr \in heap

(***************************************************************************)
(* coremu_get_intr: "It shouldn't be empty when there're pending           *)
(* interrupts" (intr.c:69-70).  Once the unlocked test of the size has     *)
(* succeeded, dequeue does not take its early return.                      *)
(***************************************************************************)
PendingNotEmpty ==
  pc[Consumer] = "d_check" => ~(QHead = head /\ Empty(Consumer))

(***************************************************************************)
(* The list in memory is the list of the nodes linked so far: an enqueue   *)
(* links its node behind the last one, never onto a node that has left the *)
(* list or that another thread is still preparing (ms-queue.c:157-163).    *)
(***************************************************************************)
LinkedAtTheEnd ==
  /\ QHead.ptr = chain[1]
  /\ \A i \in 1 .. Len(chain) :
       link[chain[i]].ptr = IF i = Len(chain) THEN NULL ELSE chain[i + 1]

(***************************************************************************)
(* Signals are blocked only inside enqueue and dequeue.  The early return  *)
(* of dequeue leaves them blocked (ms-queue.c:191-192), so this also says  *)
(* that coremu_get_intr never meets an empty queue (intr.c:69-71).         *)
(***************************************************************************)
SignalsRestored == \A t \in masked : pc[t] # "idle"

\* The queue as its client sees it: the interrupts after the dummy node.
Contents == [i \in 1 .. Len(chain) - 1 |-> value[chain[i + 1]]]

Abs == INSTANCE IntrQueue WITH q <- Contents, size <- count, taken <- value_p

(***************************************************************************)
(* The lock-free queue keeps the promise of IntrQueue (ms-queue.c:142-215).*)
(***************************************************************************)
ImplementsIntrQueue == Abs!Spec

(***************************************************************************)
(* An interrupt that the size counts is one that Tail has reached: the     *)
(* core, having seen a positive size, never finds Tail falling behind at   *)
(* Head, so it neither returns early nor retries (ms-queue.c:189-197 is    *)
(* for callers that do not test the size).  This rests on every sender     *)
(* moving Tail, or seeing it moved, before it increments the size.         *)
(***************************************************************************)
TailCaughtUp == pc[Consumer] = "d_check" => head.ptr # tail[Consumer].ptr

(***************************************************************************)
(* The core empties its queue although every other thread may stall in the *)
(* middle of an enqueue: it waits for none of them (ms-queue.c:179-215).   *)
(***************************************************************************)
Drained == count > 0 ~> count = 0
=============================================================================
