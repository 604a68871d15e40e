----------------------------- MODULE LockQueue -----------------------------
(***************************************************************************)
(* The interrupt queue of the default build, main/lock-queue.c, at the     *)
(* granularity of its shared memory accesses, with the spin lock of        *)
(* incl/coremu-spinlock.h that its producers take and its consumer does    *)
(* not.  The consumer goes through coremu_get_intr (main/intr.c), the only *)
(* caller of dequeue, which first tests the size without any lock.         *)
(*                                                                         *)
(* Every thread may enqueue; the thread that owns the queue may also       *)
(* enqueue to itself, never in the middle of its own dequeue.              *)
(***************************************************************************)
EXTENDS Integers, Sequences

CONSTANTS Thread,    \* threads that send interrupts to this core
          Consumer,  \* the core thread that owns the queue
          Node,      \* addresses malloc may return for a node_t
          NULL,
          Intr,      \* interrupts
          NoIntr     \* no interrupt

ASSUME LockQueueAssumption == /\ Consumer \in Thread
                              /\ NULL \notin Node
                              /\ NoIntr \notin Intr

VARIABLES next,      \* node_t.next of every address
          value,     \* node_t.value of every address
          heap,      \* the allocated nodes
          QHead,     \* queue_t.Head (Head is an operator of Sequences)
          QTail,     \* queue_t.Tail
          count,     \* queue_t.count, as the int64_t queue_get_size makes of it
          t_lock,    \* queue_t.t_lock
          pc,        \* where each thread is
          node,      \* the local variable node of enqueue and of dequeue
          new_head,  \* the local variable new_head of dequeue
          value_p,   \* the interrupt a dequeue has read
          chain      \* history: the linked nodes, from Head to the last

queueVars == <<QHead, QTail, count, t_lock>>
memVars   == <<next, value, heap>>
vars == <<next, value, heap, QHead, QTail, count, t_lock,
          pc, node, new_head, value_p, chain>>

Goto(t, from, to) == /\ pc[t] = from
                     /\ pc' = [pc EXCEPT ![t] = to]

\* new_queue and initialize: one dummy node that Head and Tail point to.
Init == \E dummy \in Node :
          /\ next  = [n \in Node |-> NULL]
          /\ value = [n \in Node |-> NoIntr]
          /\ heap  = {dummy}
          /\ QHead  = dummy
          /\ QTail  = dummy
          /\ count = 0
          /\ t_lock = 0
          /\ pc = [t \in Thread |-> "idle"]
          /\ node = [t \in Thread |-> NULL]
          /\ new_head = NULL
          /\ value_p = NoIntr
          /\ chain = <<dummy>>

----------------------------------------------------------------------------
(* enqueue(Q, v) *)

\* new_node, and the stores to the node no other thread can reach yet.
\* coremu_mallocz aborts the process when there is no memory.
NewNode(t, v) ==
  /\ Goto(t, "idle", "lock")
  /\ \E n \in Node \ heap :
       /\ heap'  = heap \cup {n}
       /\ value' = [value EXCEPT ![n] = v]
       /\ next'  = [next EXCEPT ![n] = NULL]
       /\ node'  = [node EXCEPT ![t] = n]
  /\ UNCHANGED <<queueVars, new_head, value_p, chain>>

\* Mutation of SpinLock: the lock is taken without looking at it.
SpinLockTaken(t) ==
  /\ Goto(t, "lock", "link")
  /\ t_lock' = 1
  /\ UNCHANGED <<memVars, QHead, QTail, count, node, new_head, value_p, chain>>

\* coremu_spin_lock: the compare-and-exchange that finds the lock free.
SpinLock(t) ==
  /\ Goto(t, "lock", "link")
  /\ t_lock = 0
  /\ t_lock' = 1
  /\ UNCHANGED <<memVars, QHead, QTail, count, node, new_head, value_p, chain>>

\* Q->Tail->next = node
LinkNode(t) ==
  /\ Goto(t, "link", "tail")
  /\ next' = [next EXCEPT ![QTail] = node[t]]
  /\ chain' = Append(chain, node[t])
  /\ UNCHANGED <<value, heap, queueVars, node, new_head, value_p>>

\* Q->Tail = node
SwingTail(t) ==
  /\ Goto(t, "tail", "inc")
  /\ QTail' = node[t]
  /\ UNCHANGED <<memVars, QHead, count, t_lock, node, new_head, value_p, chain>>

\* Mutation of IncCount: the size is not incremented.
IncCountForgotten(t) ==
  /\ Goto(t, "inc", "unlock")
  /\ UNCHANGED <<memVars, queueVars, node, new_head, value_p, chain>>

\* atomic_incq(&Q->count)
IncCount(t) ==
  /\ Goto(t, "inc", "unlock")
  /\ count' = count + 1
  /\ UNCHANGED <<memVars, QHead, QTail, t_lock, node, new_head, value_p, chain>>

\* coremu_spin_unlock, and the return
SpinUnlock(t) ==
  /\ Goto(t, "unlock", "idle")
  /\ t_lock' = 0
  /\ node' = [node EXCEPT ![t] = NULL]
  /\ UNCHANGED <<memVars, QHead, QTail, count, new_head, value_p, chain>>

----------------------------------------------------------------------------
(* coremu_get_intr(core) and dequeue(Q, &intr), by the consumer only *)

\* Mutation of IntrP: the consumer waits until nobody holds the lock.
IntrPLocking(t) ==
  /\ Goto(t, "idle", "head")
  /\ t = Consumer
  /\ count > 0
  /\ t_lock = 0
  /\ UNCHANGED <<memVars, queueVars, node, new_head, value_p, chain>>

\* coremu_intr_p: the unlocked test of the size.  When it fails
\* coremu_get_intr returns NULL and nothing changes.
IntrP(t) ==
  /\ Goto(t, "idle", "head")
  /\ t = Consumer
  /\ count > 0
  /\ UNCHANGED <<memVars, queueVars, node, new_head, value_p, chain>>

\* node = Q->Head; new_head = node->next; return false if there is none
ReadHead(t) ==
  /\ pc[t] = "head"
  /\ IF next[QHead] = NULL
       THEN /\ pc' = [pc EXCEPT ![t] = "idle"]
            /\ UNCHANGED <<node, new_head>>
       ELSE /\ pc' = [pc EXCEPT ![t] = "swing"]
            /\ node' = [node EXCEPT ![t] = QHead]
            /\ new_head' = next[QHead]
  /\ UNCHANGED <<memVars, queueVars, value_p, chain>>

\* *value_p = new_head->value; Q->Head = new_head
SwingHead(t) ==
  /\ Goto(t, "swing", "free")
  /\ value_p' = value[new_head]
  /\ QHead' = new_head
  /\ new_head' = NULL
  /\ chain' = SubSeq(chain, 2, Len(chain))
  /\ UNCHANGED <<memVars, QTail, count, t_lock, node>>

\* Mutation of FreeNode: the node that has just become the dummy is freed.
FreeNodeNew(t) ==
  /\ Goto(t, "free", "dec")
  /\ heap' = heap \ {QHead}
  /\ node' = [node EXCEPT ![t] = NULL]
  /\ UNCHANGED <<next, value, queueVars, new_head, value_p, chain>>

\* coremu_free(node)
FreeNode(t) ==
  /\ Goto(t, "free", "dec")
  /\ heap' = heap \ {node[t]}
  /\ node' = [node EXCEPT ![t] = NULL]
  /\ UNCHANGED <<next, value, queueVars, new_head, value_p, chain>>

\* atomic_decq(&Q->count), and the return of the interrupt to the caller
DecCount(t) ==
  /\ Goto(t, "dec", "idle")
  /\ count' = count - 1
  /\ value_p' = NoIntr
  /\ UNCHANGED <<memVars, QHead, QTail, t_lock, node, new_head, chain>>

----------------------------------------------------------------------------
Enqueue(t) == SpinLock(t) \/ LinkNode(t) \/ SwingTail(t)
                \/ IncCount(t) \/ SpinUnlock(t)

Dequeue(t) == IntrP(t) \/ ReadHead(t) \/ SwingHead(t)
                \/ FreeNode(t) \/ DecCount(t)

Next == \E t \in Thread : \/ \E v \in Intr : NewNode(t, v)
                          \/ Enqueue(t)
                          \/ Dequeue(t)

Spec == Init /\ [][Next]_vars

\* The core keeps running and polling its queue.  Any other thread may stop
\* anywhere, for ever, and nobody is obliged to send.
CoreFairSpec == Spec /\ WF_vars(Enqueue(Consumer)) /\ WF_vars(Dequeue(Consumer))

\* A thread inside enqueue keeps running.  The spin lock is not fair: a thread
\* spinning on it may be overtaken for ever.
SendersRun == \A t \in Thread : WF_vars(Enqueue(t))

----------------------------------------------------------------------------
Location == {"idle", "lock", "link", "tail", "inc", "unlock",
             "head", "swing", "free", "dec"}

\* The program points between coremu_spin_lock and coremu_spin_unlock.
Locked == {"link", "tail", "inc", "unlock"}

TypeOK ==
  /\ next \in [Node -> Node \cup {NULL}]
  /\ value \in [Node -> Intr \cup {NoIntr}]
  /\ heap \subseteq Node
  /\ QHead \in Node
  /\ QTail \in Node
  /\ count \in Int
  /\ t_lock \in {0, 1}
  /\ pc \in [Thread -> Location]
  /\ node \in [Thread -> Node \cup {NULL}]
  /\ new_head \in Node \cup {NULL}
  /\ value_p \in Intr \cup {NoIntr}
  /\ chain \in Seq(Node)

\* The nodes a thread has in hand: allocated and not yet linked by its
\* enqueue, or unlinked and not yet freed by its dequeue.
InHand == {node[t] : t \in {u \in Thread : pc[u] \in {"lock", "link", "free"}}}

Linked == {chain[i] : i \in 1 .. Len(chain)}

(***************************************************************************)
(* Memory is neither leaked nor used after it is freed.  What is allocated *)
(* is exactly the list from Head and what some thread has in hand, so the  *)
(* addresses that enqueue and dequeue dereference are allocated: Head and  *)
(* its successor, and Tail even while another thread is between linking    *)
(* its node and moving Tail to it (lock-queue.c:92-93, 100-108).           *)
(***************************************************************************)
MemorySafe == /\ heap = Linked \cup InHand
              /\ Linked \cap InHand = {}
              /\ QHead \in Linked
              /\ QTail \in Linked
              /\ pc[Consumer] = "swing" => new_head \in Linked

(***************************************************************************)
(* coremu_get_intr: "It shouldn't be empty when there're pending           *)
(* interrupts" (intr.c:70).  Once the unlocked test of the size has        *)
(* succeeded, dequeue finds a node, whatever the producers do in between.  *)
(***************************************************************************)
PendingNotEmpty == pc[Consumer] = "head" => next[QHead] # NULL

\* The queue as its client sees it: the interrupts after the dummy node.
Contents == [i \in 1 .. Len(chain) - 1 |-> value[chain[i + 1]]]

Abs == INSTANCE IntrQueue WITH q <- Contents, size <- count, taken <- value_p

(***************************************************************************)
(* The size that intr.c reads without a lock is never negative and never   *)
(* overstates what is in the queue (lock-queue.c:94, 109, 113-116), so the *)
(* lag of the separate increments and decrements is on the safe side.      *)
(***************************************************************************)
SizeBacked == Abs!SizeIsBacked

(***************************************************************************)
(* The queue implements the promise of IntrQueue: interrupts come out in   *)
(* the order in which their nodes were linked, none is lost or duplicated  *)
(* (lock-queue.c:84-111).                                                  *)
(***************************************************************************)
ImplementsIntrQueue == Abs!Spec

(***************************************************************************)
(* If senders keep running, a linked interrupt is eventually taken: no     *)
(* order of their steps hides it from the polling core, although the size  *)
(* that the core tests lags behind the list (intr.c:61-74).                *)
(***************************************************************************)
Drained ==
  SendersRun => \A n \in Node : (n \in Linked \ {QHead}) ~> (n \notin Linked \ {QHead})

(***************************************************************************)
(* A positive size gets the core an interrupt even if a sender stops for   *)
(* ever while it holds t_lock, because dequeue does not take the lock      *)
(* (lock-queue.c:98-111).  The one thing that may hold the core up is an   *)
(* enqueue of its own, to itself, that spins on the lock.                  *)
(***************************************************************************)
NeverBlocked == count > 0 ~> value_p # NoIntr \/ pc[Consumer] = "lock"
=============================================================================
