------------------------------ MODULE MCQueues ------------------------------
(***************************************************************************)
(* The two queues that COREMU can be built with, for TLC.  LOCKFREE is the *)
(* flag of the build: the queue of LockQueue when it is not set, the one   *)
(* of MSQueue when it is.  The queue that is not built stays as it is      *)
(* initially.                                                              *)
(*                                                                         *)
(* The lock-free queue has one sender beside the core, which may stall     *)
(* anywhere, and an allocator that recycles nodes and may leave a zero in  *)
(* the count of a new one.                                                 *)
(***************************************************************************)
EXTENDS LockQueue

CONSTANTS LoneProducer, MaxTag

VARIABLES LOCKFREE,
          f_link, f_value, f_heap, f_freed, f_QHead, f_QTail, f_count, f_masked,
          f_pc, f_node, f_head, f_tail, f_next, f_value_p, f_chain

MS == INSTANCE MSQueue WITH
        Producer <- {LoneProducer}, Garbage <- {0}, Recycle <- TRUE,
        link <- f_link, value <- f_value, heap <- f_heap, freed <- f_freed,
        QHead <- f_QHead, QTail <- f_QTail, count <- f_count, masked <- f_masked,
        pc <- f_pc, node <- f_node, head <- f_head, tail <- f_tail, next <- f_next,
        value_p <- f_value_p, chain <- f_chain

msVars == <<f_link, f_value, f_heap, f_freed, f_QHead, f_QTail, f_count, f_masked,
            f_pc, f_node, f_head, f_tail, f_next, f_value_p, f_chain>>

First == CHOOSE n \in Node : TRUE

QueuesInit == /\ LOCKFREE \in BOOLEAN
              /\ LOCKFREE => QHead = First
              /\ Init
              /\ MS!Init
              /\ ~LOCKFREE => f_QHead.ptr = First

QueuesNext == \/ ~LOCKFREE /\ Next /\ UNCHANGED <<LOCKFREE, msVars>>
              \/ LOCKFREE /\ MS!Next /\ UNCHANGED <<LOCKFREE, vars>>

\* The core keeps running and polling its queue.  Any other thread may stop
\* anywhere, for ever.
QueuesSpec ==
  /\ QueuesInit
  /\ [][QueuesNext]_<<LOCKFREE, vars, msVars>>
  /\ WF_vars(~LOCKFREE /\ Enqueue(Consumer))
  /\ WF_vars(~LOCKFREE /\ Dequeue(Consumer))
  /\ WF_msVars(LOCKFREE /\ MS!Dequeue(Consumer))

----------------------------------------------------------------------------
(***************************************************************************)
(* With one sender beside the core the lock-free queue is sound: "It is    *)
(* safe to free the old dummy node" (ms-queue.c:211); the core finds a     *)
(* node whenever the size is positive (intr.c:69-70); new nodes are linked *)
(* at the end of the list (ms-queue.c:157-163); and no operation leaves    *)
(* signals blocked (ms-queue.c:191-192).                                   *)
(***************************************************************************)
LockFreeSound == /\ MS!TypeOK
                 /\ MS!SafeToFree
                 /\ MS!PendingNotEmpty
                 /\ MS!LinkedAtTheEnd
                 /\ MS!SignalsRestored

(***************************************************************************)
(* With one sender the lock-free queue keeps the promise of IntrQueue      *)
(* although malloc recycles its nodes (ms-queue.c:142-215).                *)
(***************************************************************************)
LockFreeImplements == MS!ImplementsIntrQueue

(***************************************************************************)
(* Neither queue keeps an interrupt for ever.  If senders keep running,    *)
(* the polling core takes every interrupt that is linked (lock-queue.c:    *)
(* 98-111); and it empties its lock-free queue although the sender may     *)
(* stall in the middle of an enqueue (ms-queue.c:179-215).                 *)
(***************************************************************************)
QueuesDrained == Drained /\ MS!Drained
=============================================================================
