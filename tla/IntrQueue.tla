----------------------------- MODULE IntrQueue -----------------------------
(***************************************************************************)
(* What incl/queue.h promises its only client, main/intr.c: a FIFO queue   *)
(* of interrupts with many producers and one consumer (the core that owns  *)
(* the queue), and a size that is maintained by a separate atomic          *)
(* increment or decrement and therefore lags behind the contents.          *)
(*                                                                         *)
(* The lag is part of the promise.  Intr.c reads the size to decide        *)
(* whether to dequeue and whether to signal the core, so the promise says  *)
(* on which side of the truth the size may err.                            *)
(***************************************************************************)
EXTENDS Integers, Sequences

CONSTANTS Intr,     \* interrupts, the non-NULL pointers passed to enqueue
          NoIntr    \* the NULL that coremu_get_intr returns

VARIABLES q,        \* the interrupts in the queue, oldest first
          size,     \* what queue_get_size returns
          taken     \* the interrupt a dequeue in progress has removed

vars == <<q, size, taken>>

Init == /\ q = << >>
        /\ size = 0
        /\ taken = NoIntr

\* Interrupts removed from q that size still counts.
Owed == IF taken = NoIntr THEN 0 ELSE 1

\* An enqueue takes effect: the interrupt can now be dequeued.
Put(v) == /\ q' = Append(q, v)
          /\ UNCHANGED <<size, taken>>

\* The same enqueue, later: the increment of the size.
Account == /\ size < Len(q) + Owed
           /\ size' = size + 1
           /\ UNCHANGED <<q, taken>>

\* A dequeue takes effect.  The consumer has seen a positive size, which
\* only the consumer makes smaller.
Take == /\ taken = NoIntr
        /\ size > 0
        /\ q # << >>
        /\ taken' = Head(q)
        /\ q' = Tail(q)
        /\ UNCHANGED size

\* The same dequeue, later: the decrement of the size, and the return.
Settle == /\ taken # NoIntr
          /\ size' = size - 1
          /\ taken' = NoIntr
          /\ UNCHANGED q

Next == \/ \E v \in Intr : Put(v)
        \/ Account
        \/ Take
        \/ Settle

Spec == Init /\ [][Next]_vars

----------------------------------------------------------------------------
TypeOK == /\ q \in Seq(Intr)
          /\ size \in Int
          /\ taken \in Intr \cup {NoIntr}

(***************************************************************************)
(* The size never overstates: outside a dequeue, a positive size means     *)
(* that a dequeue succeeds.  This is the claim of the comment in           *)
(* coremu_get_intr, "It shouldn't be empty when there're pending           *)
(* interrupts" (intr.c:70), and the size is never negative.                *)
(***************************************************************************)
SizeIsBacked == size \in 0 .. (Len(q) + Owed)
=============================================================================
