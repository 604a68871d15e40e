-------------------------- MODULE LockQueueProofs --------------------------
(***************************************************************************)
(* Proofs about LockQueue, for any set of threads, nodes and interrupts.   *)
(***************************************************************************)
EXTENDS LockQueue, SequenceTheorems, TLAPS

----------------------------------------------------------------------------
(* The inductive invariant, conjunct by conjunct *)

\* The spin lock excludes: t_lock is set exactly while one thread is inside.
LockInv == /\ \A t \in Thread : pc[t] \in Locked => t_lock = 1
           /\ \A t, u \in Thread : pc[t] \in Locked /\ pc[u] \in Locked => t = u

\* Only the owner of the queue dequeues, and value_p is its result.
ConsumerInv ==
  /\ \A t \in Thread : pc[t] \in {"head", "swing", "free", "dec"} => t = Consumer
  /\ IF pc[Consumer] \in {"free", "dec"} THEN value_p \in Intr ELSE value_p = NoIntr

\* chain is the list that starts at Head and follows next until NULL.
ChainInv ==
  /\ Len(chain) >= 1
  /\ QHead = chain[1]
  /\ \A i \in 1 .. Len(chain) - 1 : next[chain[i]] = chain[i + 1]
  /\ next[chain[Len(chain)]] = NULL
  /\ \A i, j \in 1 .. Len(chain) : chain[i] = chain[j] => i = j
  /\ \A i \in 1 .. Len(chain) : chain[i] \in heap
  /\ \A i \in 2 .. Len(chain) : value[chain[i]] \in Intr

\* Tail is the last node, or the last but one while a thread at "tail" has
\* linked its node and not yet moved Tail.
TailInv ==
  /\ (\A t \in Thread : pc[t] # "tail") => QTail = chain[Len(chain)]
  /\ \A t \in Thread :
       pc[t] = "tail" => /\ Len(chain) >= 2
                         /\ QTail = chain[Len(chain) - 1]
                         /\ node[t] = chain[Len(chain)]

\* What the threads hold is theirs alone.
PrivateInv ==
  /\ \A t \in Thread :
       pc[t] \in {"lock", "link", "free"} => node[t] \in heap /\ node[t] \notin Linked
  /\ \A t \in Thread :
       pc[t] \in {"lock", "link"} => next[node[t]] = NULL /\ value[node[t]] \in Intr
  /\ \A t, u \in Thread :
       /\ pc[t] \in {"lock", "link", "free"}
       /\ pc[u] \in {"lock", "link", "free"}
       /\ node[t] = node[u]
       => t = u
  /\ \A t \in Thread : pc[t] \in Locked => node[t] \in Node
  /\ pc[Consumer] = "swing" => /\ node[Consumer] = QHead
                               /\ Len(chain) >= 2
                               /\ new_head = chain[2]

\* Nothing else is allocated.
NoLeak == heap \subseteq Linked \cup InHand

\* A thread holding the lock has linked a node that count does not include.
Lagging == \E t \in Thread : pc[t] \in {"tail", "inc"}

\* count is the length of the list, less the node of a lagging enqueue,
\* plus the node of an unfinished dequeue.
CountInv ==
  /\ count = Len(chain) - 1 - (IF Lagging THEN 1 ELSE 0)
                            + (IF pc[Consumer] \in {"free", "dec"} THEN 1 ELSE 0)
  /\ count >= 0
  /\ pc[Consumer] \in {"head", "swing", "free", "dec"} => count >= 1

IInv == /\ TypeOK
        /\ LockInv
        /\ ConsumerInv
        /\ ChainInv
        /\ TailInv
        /\ PrivateInv
        /\ NoLeak
        /\ CountInv

----------------------------------------------------------------------------
\* The queue that new_queue returns satisfies the invariant.
LEMMA InitIInv == Init => IInv
<1> SUFFICES ASSUME NEW dummy \in Node, Init!(dummy) PROVE IInv
  BY DEF Init
<1> QED
  BY LockQueueAssumption
  DEF IInv, TypeOK, Location, LockInv, Locked, ConsumerInv, ChainInv, TailInv,
      PrivateInv, NoLeak, Linked, InHand, CountInv, Lagging

\* Every step of enqueue and of coremu_get_intr preserves the invariant.
LEMMA NextIInv == IInv /\ [Next]_vars => IInv'
<1> SUFFICES ASSUME IInv, [Next]_vars PROVE IInv'
  OBVIOUS
<1> USE LockQueueAssumption DEF IInv, Goto
<1>1. ASSUME NEW t \in Thread, NEW v \in Intr, NewNode(t, v) PROVE IInv'
  <2>1. TypeOK'
    BY <1>1 DEF NewNode, TypeOK, queueVars, memVars, Location, PrivateInv, Locked
  <2>2. LockInv'
    BY <1>1 DEF NewNode, TypeOK, queueVars, memVars, LockInv, Locked
  <2>3. ConsumerInv'
    BY <1>1 DEF NewNode, TypeOK, queueVars, memVars, ConsumerInv
  <2>4. ChainInv'
    BY <1>1 DEF NewNode, TypeOK, queueVars, memVars, ChainInv
  <2>5. TailInv'
    BY <1>1 DEF NewNode, TypeOK, queueVars, memVars, TailInv
  <2>6. PrivateInv'
    <3>1. PICK n \in Node \ heap :
            /\ heap'  = heap \cup {n}
            /\ value' = [value EXCEPT ![n] = v]
            /\ next'  = [next EXCEPT ![n] = NULL]
            /\ node'  = [node EXCEPT ![t] = n]
      BY <1>1 DEF NewNode
    <3>2. /\ pc[t] = "idle"
          /\ pc' = [pc EXCEPT ![t] = "lock"]
          /\ UNCHANGED <<chain, QHead, new_head>>
      BY <1>1 DEF NewNode, queueVars
    <3>3. Linked' = Linked /\ Linked \subseteq heap
      BY <3>2 DEF Linked, ChainInv
    <3>4. \A u \in Thread : pc'[u] \in {"lock", "link", "free"} /\ u # t
                            => node'[u] = node[u] /\ node[u] \in heap /\ pc[u] = pc'[u]
      BY <3>1, <3>2 DEF PrivateInv, TypeOK
    <3> QED
      BY <3>1, <3>2, <3>3, <3>4 DEF PrivateInv, Locked, TypeOK
  <2>7. NoLeak'
    BY <1>1 DEF NewNode, TypeOK, queueVars, memVars, NoLeak, Linked, InHand
  <2>8. CountInv'
    BY <1>1 DEF NewNode, TypeOK, queueVars, memVars, CountInv, Lagging
  <2> QED
    BY <2>1, <2>2, <2>3, <2>4, <2>5, <2>6, <2>7, <2>8
<1>2. ASSUME NEW t \in Thread, SpinLock(t) PROVE IInv'
  <2>1. TypeOK'
    BY <1>2 DEF SpinLock, TypeOK, queueVars, memVars, Location, PrivateInv, Locked
  <2>2. LockInv'
    BY <1>2 DEF SpinLock, TypeOK, queueVars, memVars, LockInv, Locked
  <2>3. ConsumerInv'
    BY <1>2 DEF SpinLock, TypeOK, queueVars, memVars, ConsumerInv
  <2>4. ChainInv'
    BY <1>2 DEF SpinLock, TypeOK, queueVars, memVars, ChainInv
  <2>5. TailInv'
    BY <1>2 DEF SpinLock, TypeOK, queueVars, memVars, TailInv
  <2>6. PrivateInv'
    BY <1>2 DEF SpinLock, TypeOK, queueVars, memVars, PrivateInv, Locked, Linked
  <2>7. NoLeak'
    BY <1>2 DEF SpinLock, TypeOK, queueVars, memVars, NoLeak, Linked, InHand
  <2>8. CountInv'
    BY <1>2 DEF SpinLock, TypeOK, queueVars, memVars, CountInv, Lagging
  <2> QED
    BY <2>1, <2>2, <2>3, <2>4, <2>5, <2>6, <2>7, <2>8
<1>3. ASSUME NEW t \in Thread, LinkNode(t) PROVE IInv'
  <2> DEFINE n == Len(chain)
  <2>1. /\ node[t] \in Node
        /\ node[t] \in heap
        /\ \A i \in 1 .. n : chain[i] # node[t]
        /\ next[node[t]] = NULL
        /\ value[node[t]] \in Intr
    BY <1>3 DEF LinkNode, TypeOK, PrivateInv, Linked
  <2>2. \A u \in Thread : u # t => pc[u] \notin Locked
    BY <1>3 DEF LinkNode, LockInv, Locked
  <2>3. n \in Nat /\ n >= 1 /\ QTail = chain[n]
    BY <1>3, <2>2 DEF LinkNode, TypeOK, ChainInv, TailInv, Locked
  <2>4. /\ chain' \in Seq(Node)
        /\ Len(chain') = n + 1
        /\ \A i \in 1 .. n : chain'[i] = chain[i]
        /\ chain'[n + 1] = node[t]
    BY <1>3, <2>1 DEF LinkNode, TypeOK
  <2>5. next' = [next EXCEPT ![chain[n]] = node[t]]
    BY <1>3, <2>3 DEF LinkNode
  <2>6. /\ pc' = [pc EXCEPT ![t] = "tail"]
        /\ pc[t] = "link"
        /\ UNCHANGED <<value, heap, QHead, QTail, count, t_lock, node, new_head, value_p>>
    BY <1>3 DEF LinkNode, queueVars
  <2>7. Linked' = Linked \cup {node[t]}
    BY <2>3, <2>4 DEF Linked
  <2> HIDE DEF n
  <2>8. TypeOK'
    BY <2>1, <2>3, <2>4, <2>5, <2>6 DEF TypeOK, Location
  <2>9. LockInv'
    BY <2>6 DEF LockInv, Locked, TypeOK
  <2>10. ConsumerInv'
    BY <2>6 DEF ConsumerInv, TypeOK
  <2>11. ChainInv'
    <3>1. \A i \in 1 .. n : chain[i] \in Node
      BY <2>3 DEF TypeOK, n
    <3>2. \A i \in 1 .. n - 1 : chain[i] # chain[n]
      BY <2>3 DEF ChainInv, n
    <3>3. \A i \in 1 .. n : next'[chain'[i]] = chain'[i + 1]
      BY <2>3, <2>4, <2>5, <3>1, <3>2 DEF ChainInv, TypeOK, n
    <3>4. next'[chain'[n + 1]] = NULL
      BY <2>1, <2>3, <2>4, <2>5, <3>1 DEF TypeOK
    <3>5. \A i, j \in 1 .. n + 1 : chain'[i] = chain'[j] => i = j
      BY <2>1, <2>3, <2>4 DEF ChainInv, n
    <3>6. QHead' = chain'[1] /\ Len(chain') >= 1
      BY <2>3, <2>4, <2>6 DEF ChainInv
    <3>7. /\ \A i \in 1 .. n + 1 : chain'[i] \in heap'
          /\ \A i \in 2 .. n + 1 : value'[chain'[i]] \in Intr
      BY <2>1, <2>3, <2>4, <2>6 DEF ChainInv, n
    <3> QED
      BY <2>3, <2>4, <3>3, <3>4, <3>5, <3>6, <3>7 DEF ChainInv
  <2>12. TailInv'
    BY <2>2, <2>3, <2>4, <2>6 DEF TailInv, Locked, TypeOK
  <2>13. PrivateInv'
    <3>1. \A u \in Thread : /\ pc'[u] \in {"lock", "link", "free"}
                            => /\ pc[u] \in {"lock", "link", "free"} /\ u # t
                               /\ node[u] # node[t]
      BY <2>6 DEF PrivateInv, TypeOK
    <3>2. \A u \in Thread : pc'[u] \in {"lock", "link", "free"}
                            => node'[u] \in heap' /\ node'[u] \notin Linked'
      BY <2>6, <2>7, <3>1 DEF PrivateInv
    <3>3. \A u \in Thread : pc'[u] \in {"lock", "link"}
                            => next'[node'[u]] = NULL /\ value'[node'[u]] \in Intr
      BY <2>3, <2>5, <2>6, <3>1 DEF PrivateInv, TypeOK, Linked, n
    <3>4. \A u \in Thread : pc'[u] \in Locked => node'[u] \in Node
      BY <2>1, <2>6 DEF PrivateInv, TypeOK, Locked
    <3>5. pc'[Consumer] = "swing" => /\ node'[Consumer] = QHead'
                                     /\ Len(chain') >= 2
                                     /\ new_head' = chain'[2]
      BY <2>3, <2>4, <2>6 DEF PrivateInv, TypeOK, n
    <3>6. \A u, w \in Thread :
            /\ pc'[u] \in {"lock", "link", "free"}
            /\ pc'[w] \in {"lock", "link", "free"}
            /\ node'[u] = node'[w]
            => u = w
      BY <2>6, <3>1 DEF PrivateInv
    <3> QED
      BY <3>2, <3>3, <3>4, <3>5, <3>6 DEF PrivateInv
  <2>14. NoLeak'
    BY <2>6, <2>7 DEF NoLeak, InHand, TypeOK
  <2>15. CountInv'
    <3>1. Lagging' /\ ~Lagging
      BY <2>2, <2>6 DEF Lagging, Locked, TypeOK
    <3>2. pc'[Consumer] \in {"free", "dec"} <=> pc[Consumer] \in {"free", "dec"}
      BY <2>6 DEF TypeOK
    <3>3. count' = Len(chain') - 2 + (IF pc'[Consumer] \in {"free", "dec"} THEN 1 ELSE 0)
      BY <2>3, <2>4, <2>6, <3>1, <3>2 DEF CountInv, n
    <3> QED
      BY <2>6, <3>1, <3>3 DEF CountInv, TypeOK
  <2> QED
    BY <2>8, <2>9, <2>10, <2>11, <2>12, <2>13, <2>14, <2>15
<1>4. ASSUME NEW t \in Thread, SwingTail(t) PROVE IInv'
  <2>1. TypeOK'
    BY <1>4 DEF SwingTail, TypeOK, queueVars, memVars, Location, PrivateInv, Locked
  <2>2. LockInv'
    BY <1>4 DEF SwingTail, TypeOK, queueVars, memVars, LockInv, Locked
  <2>3. ConsumerInv'
    BY <1>4 DEF SwingTail, TypeOK, queueVars, memVars, ConsumerInv
  <2>4. ChainInv'
    BY <1>4 DEF SwingTail, TypeOK, queueVars, memVars, ChainInv
  <2>5. TailInv'
    BY <1>4 DEF SwingTail, TypeOK, LockInv, Locked, TailInv
  <2>6. PrivateInv'
    BY <1>4 DEF SwingTail, TypeOK, queueVars, memVars, PrivateInv, Locked, Linked
  <2>7. NoLeak'
    BY <1>4 DEF SwingTail, TypeOK, queueVars, memVars, NoLeak, Linked, InHand
  <2>8. CountInv'
    BY <1>4 DEF SwingTail, TypeOK, queueVars, memVars, CountInv, Lagging
  <2> QED
    BY <2>1, <2>2, <2>3, <2>4, <2>5, <2>6, <2>7, <2>8
<1>5. ASSUME NEW t \in Thread, IncCount(t) PROVE IInv'
  <2>1. TypeOK'
    BY <1>5 DEF IncCount, TypeOK, queueVars, memVars, Location, PrivateInv, Locked
  <2>2. LockInv'
    BY <1>5 DEF IncCount, TypeOK, queueVars, memVars, LockInv, Locked
  <2>3. ConsumerInv'
    BY <1>5 DEF IncCount, TypeOK, queueVars, memVars, ConsumerInv
  <2>4. ChainInv'
    BY <1>5 DEF IncCount, TypeOK, queueVars, memVars, ChainInv
  <2>5. TailInv'
    BY <1>5 DEF IncCount, TypeOK, queueVars, memVars, TailInv
  <2>6. PrivateInv'
    BY <1>5 DEF IncCount, TypeOK, queueVars, memVars, PrivateInv, Locked, Linked
  <2>7. NoLeak'
    BY <1>5 DEF IncCount, TypeOK, queueVars, memVars, NoLeak, Linked, InHand
  <2>8. CountInv'
    <3>1. /\ pc[t] = "inc"
          /\ pc' = [pc EXCEPT ![t] = "unlock"]
          /\ count' = count + 1
          /\ chain' = chain
      BY <1>5 DEF IncCount
    <3>2. Lagging /\ ~Lagging'
      BY <3>1 DEF Lagging, LockInv, Locked, TypeOK
    <3>3. /\ pc'[Consumer] \in {"free", "dec"} <=> pc[Consumer] \in {"free", "dec"}
          /\ pc'[Consumer] \in {"head", "swing", "free", "dec"}
             <=> pc[Consumer] \in {"head", "swing", "free", "dec"}
      BY <3>1 DEF TypeOK
    <3> QED
      BY <3>1, <3>2, <3>3 DEF CountInv, TypeOK
  <2> QED
    BY <2>1, <2>2, <2>3, <2>4, <2>5, <2>6, <2>7, <2>8
<1>6. ASSUME NEW t \in Thread, SpinUnlock(t) PROVE IInv'
  <2>1. TypeOK'
    BY <1>6 DEF SpinUnlock, TypeOK, queueVars, memVars, Location, PrivateInv, Locked
  <2>2. LockInv'
    BY <1>6 DEF SpinUnlock, TypeOK, queueVars, memVars, LockInv, Locked
  <2>3. ConsumerInv'
    BY <1>6 DEF SpinUnlock, TypeOK, queueVars, memVars, ConsumerInv
  <2>4. ChainInv'
    BY <1>6 DEF SpinUnlock, TypeOK, queueVars, memVars, ChainInv
  <2>5. TailInv'
    BY <1>6 DEF SpinUnlock, TypeOK, queueVars, memVars, TailInv
  <2>6. PrivateInv'
    BY <1>6 DEF SpinUnlock, TypeOK, queueVars, memVars, PrivateInv, Locked, Linked
  <2>7. NoLeak'
    BY <1>6 DEF SpinUnlock, TypeOK, queueVars, memVars, NoLeak, Linked, InHand
  <2>8. CountInv'
    BY <1>6 DEF SpinUnlock, TypeOK, queueVars, memVars, CountInv, Lagging
  <2> QED
    BY <2>1, <2>2, <2>3, <2>4, <2>5, <2>6, <2>7, <2>8
<1>7. ASSUME NEW t \in Thread, IntrP(t) PROVE IInv'
  <2>1. TypeOK'
    BY <1>7 DEF IntrP, TypeOK, queueVars, memVars, Location, PrivateInv, Locked
  <2>2. LockInv'
    BY <1>7 DEF IntrP, TypeOK, queueVars, memVars, LockInv, Locked
  <2>3. ConsumerInv'
    BY <1>7 DEF IntrP, TypeOK, queueVars, memVars, ConsumerInv
  <2>4. ChainInv'
    BY <1>7 DEF IntrP, TypeOK, queueVars, memVars, ChainInv
  <2>5. TailInv'
    BY <1>7 DEF IntrP, TypeOK, queueVars, memVars, TailInv
  <2>6. PrivateInv'
    BY <1>7 DEF IntrP, TypeOK, queueVars, memVars, PrivateInv, Locked, Linked
  <2>7. NoLeak'
    BY <1>7 DEF IntrP, TypeOK, queueVars, memVars, NoLeak, Linked, InHand
  <2>8. CountInv'
    BY <1>7 DEF IntrP, TypeOK, queueVars, memVars, CountInv, Lagging
  <2> QED
    BY <2>1, <2>2, <2>3, <2>4, <2>5, <2>6, <2>7, <2>8
<1>8. ASSUME NEW t \in Thread, ReadHead(t) PROVE IInv'
  <2>1. TypeOK'
    BY <1>8 DEF ReadHead, TypeOK, queueVars, memVars, Location, PrivateInv, Locked
  <2>2. LockInv'
    BY <1>8 DEF ReadHead, TypeOK, queueVars, memVars, LockInv, Locked
  <2>3. ConsumerInv'
    BY <1>8 DEF ReadHead, TypeOK, queueVars, memVars, ConsumerInv
  <2>4. ChainInv'
    BY <1>8 DEF ReadHead, TypeOK, queueVars, memVars, ChainInv
  <2>5. TailInv'
    BY <1>8 DEF ReadHead, TypeOK, queueVars, memVars, TailInv
  <2>6. PrivateInv'
    <3>1. /\ t = Consumer
          /\ pc[t] = "head"
          /\ Len(chain) >= 2
          /\ UNCHANGED <<heap, next, value, chain, QHead>>
      BY <1>8 DEF ReadHead, ConsumerInv, CountInv, queueVars, memVars, TypeOK
    <3>2. chain[1] = QHead /\ chain[2] \in Node /\ next[QHead] = chain[2]
      BY <3>1 DEF ChainInv, TypeOK
    <3>3. /\ pc' = [pc EXCEPT ![t] = "swing"]
          /\ node' = [node EXCEPT ![t] = QHead]
          /\ new_head' = chain[2]
      BY <1>8, <3>2 DEF ReadHead
    <3> QED
      BY <3>1, <3>3 DEF PrivateInv, Locked, Linked, TypeOK
  <2>7. NoLeak'
    BY <1>8 DEF ReadHead, TypeOK, queueVars, memVars, NoLeak, Linked, InHand
  <2>8. CountInv'
    BY <1>8 DEF ReadHead, TypeOK, queueVars, memVars, CountInv, Lagging
  <2> QED
    BY <2>1, <2>2, <2>3, <2>4, <2>5, <2>6, <2>7, <2>8
<1>9. ASSUME NEW t \in Thread, SwingHead(t) PROVE IInv'
  <2> DEFINE n == Len(chain)
  <2>1. /\ t = Consumer
        /\ pc[t] = "swing"
        /\ pc' = [pc EXCEPT ![t] = "free"]
        /\ node[t] = chain[1]
        /\ new_head = chain[2]
        /\ n \in Nat /\ n >= 2
    BY <1>9 DEF SwingHead, TypeOK, ConsumerInv, PrivateInv, ChainInv
  <2>2. /\ chain' \in Seq(Node)
        /\ Len(chain') = n - 1
        /\ \A i \in 1 .. n - 1 : chain'[i] = chain[i + 1]
    BY <1>9, <2>1 DEF SwingHead, TypeOK
  <2>3. /\ UNCHANGED <<next, value, heap, QTail, count, t_lock, node>>
        /\ QHead' = chain[2]
        /\ value_p' = value[chain[2]]
        /\ value_p' \in Intr
        /\ new_head' = NULL
    BY <1>9, <2>1 DEF SwingHead, memVars, ChainInv
  <2>4. /\ chain[1] \notin Linked'
        /\ Linked' \subseteq Linked
        /\ Linked \subseteq Linked' \cup {chain[1]}
    <3>1. \A x : x \in Linked' <=> \E i \in 1 .. n - 1 : x = chain[i + 1]
      BY <2>1, <2>2 DEF Linked
    <3>2. \A x : x \in Linked <=> \E i \in 1 .. n : x = chain[i]
      BY DEF Linked
    <3>3. chain[1] \notin Linked'
      BY <2>1, <3>1 DEF ChainInv
    <3>4. Linked' \subseteq Linked
      BY <2>1, <3>1, <3>2
    <3>5. \A i \in 1 .. n : i = 1 \/ (i - 1 \in 1 .. n - 1 /\ chain[i] = chain[(i - 1) + 1])
      BY <2>1
    <3>6. Linked \subseteq Linked' \cup {chain[1]}
      <4> SUFFICES ASSUME NEW i \in 1 .. n, i # 1 PROVE chain[i] \in Linked'
        BY <3>2
      <4> QED
        BY <3>1, <3>5
    <3> QED
      BY <3>3, <3>4, <3>6
  <2>5. Lagging => n >= 3
    BY <2>1 DEF CountInv
  <2> HIDE DEF n
  <2>6. TypeOK'
    BY <2>1, <2>2, <2>3 DEF TypeOK, Location, ChainInv, n
  <2>7. LockInv'
    BY <2>1, <2>3 DEF LockInv, Locked, TypeOK
  <2>8. ConsumerInv'
    BY <2>1, <2>3 DEF ConsumerInv, TypeOK
  <2>9. ChainInv'
    <3>1. /\ Len(chain') >= 1
          /\ QHead' = chain'[1]
          /\ next'[chain'[Len(chain')]] = NULL
      <4>1. 1 \in 1 .. n - 1 /\ n - 1 \in 1 .. n - 1 /\ (n - 1) + 1 = n /\ 1 + 1 = 2
        BY <2>1
      <4>2. chain'[1] = chain[2] /\ chain'[n - 1] = chain[n]
        BY <2>2, <4>1
      <4> QED
        BY <2>1, <2>2, <2>3, <4>2 DEF ChainInv, n
    <3>2. \A i \in 1 .. n - 2 : next'[chain'[i]] = chain'[i + 1]
      BY <2>1, <2>2, <2>3 DEF ChainInv, n
    <3>3. \A i, j \in 1 .. n - 1 : chain'[i] = chain'[j] => i = j
      <4> TAKE i, j \in 1 .. n - 1
      <4>1. i + 1 \in 1 .. n /\ j + 1 \in 1 .. n /\ chain'[i] = chain[i + 1] /\ chain'[j] = chain[j + 1]
        BY <2>1, <2>2
      <4>2. chain[i + 1] = chain[j + 1] => i + 1 = j + 1
        BY <4>1 DEF ChainInv, n
      <4> QED
        BY <4>1, <4>2
    <3>4. /\ \A i \in 1 .. n - 1 : chain'[i] \in heap'
          /\ \A i \in 2 .. n - 1 : value'[chain'[i]] \in Intr
      <4>1. \A i \in 1 .. n - 1 : i + 1 \in 2 .. n /\ i + 1 \in 1 .. n
        BY <2>1
      <4>2. \A i \in 2 .. n - 1 : i \in 1 .. n - 1
        BY <2>1
      <4> QED
        BY <2>2, <2>3, <4>1, <4>2 DEF ChainInv, n
    <3> QED
      BY <2>1, <2>2, <3>1, <3>2, <3>3, <3>4 DEF ChainInv
  <2>10. TailInv'
    BY <2>1, <2>2, <2>3, <2>5 DEF TailInv, Lagging, TypeOK, n
  <2>11. PrivateInv'
    <3>1. \A u \in Thread : pc'[u] \in {"lock", "link", "free"} /\ u # t
                            => pc[u] \in {"lock", "link", "free"} /\ node[u] # chain[1]
      BY <2>1 DEF PrivateInv, Linked, TypeOK, n
    <3>2. chain[1] \in heap
      BY <2>1 DEF ChainInv, n
    <3> QED
      BY <2>1, <2>3, <2>4, <3>1, <3>2 DEF PrivateInv, Locked, TypeOK
  <2>12. NoLeak'
    BY <2>1, <2>3, <2>4 DEF NoLeak, InHand, TypeOK
  <2>13. CountInv'
    BY <2>1, <2>2, <2>3 DEF CountInv, Lagging, TypeOK, n
  <2> QED
    BY <2>6, <2>7, <2>8, <2>9, <2>10, <2>11, <2>12, <2>13
<1>10. ASSUME NEW t \in Thread, FreeNode(t) PROVE IInv'
  <2>1. TypeOK'
    BY <1>10 DEF FreeNode, TypeOK, queueVars, memVars, Location, PrivateInv, Locked
  <2>2. LockInv'
    BY <1>10 DEF FreeNode, TypeOK, queueVars, memVars, LockInv, Locked
  <2>3. ConsumerInv'
    BY <1>10 DEF FreeNode, TypeOK, queueVars, memVars, ConsumerInv
  <2>4. ChainInv'
    BY <1>10 DEF FreeNode, TypeOK, ChainInv, PrivateInv, Linked, queueVars
  <2>5. TailInv'
    BY <1>10 DEF FreeNode, TypeOK, queueVars, memVars, TailInv
  <2>6. PrivateInv'
    BY <1>10 DEF FreeNode, TypeOK, queueVars, memVars, PrivateInv, Locked, Linked
  <2>7. NoLeak'
    BY <1>10 DEF FreeNode, TypeOK, queueVars, memVars, NoLeak, Linked, InHand
  <2>8. CountInv'
    BY <1>10 DEF FreeNode, TypeOK, queueVars, memVars, CountInv, Lagging
  <2> QED
    BY <2>1, <2>2, <2>3, <2>4, <2>5, <2>6, <2>7, <2>8
<1>11. ASSUME NEW t \in Thread, DecCount(t) PROVE IInv'
  <2>1. TypeOK'
    BY <1>11 DEF DecCount, TypeOK, queueVars, memVars, Location, PrivateInv, Locked
  <2>2. LockInv'
    BY <1>11 DEF DecCount, TypeOK, queueVars, memVars, LockInv, Locked
  <2>3. ConsumerInv'
    BY <1>11 DEF DecCount, TypeOK, queueVars, memVars, ConsumerInv
  <2>4. ChainInv'
    BY <1>11 DEF DecCount, TypeOK, queueVars, memVars, ChainInv
  <2>5. TailInv'
    BY <1>11 DEF DecCount, TypeOK, queueVars, memVars, TailInv
  <2>6. PrivateInv'
    BY <1>11 DEF DecCount, TypeOK, queueVars, memVars, PrivateInv, Locked, Linked
  <2>7. NoLeak'
    BY <1>11 DEF DecCount, TypeOK, queueVars, memVars, NoLeak, Linked, InHand
  <2>8. CountInv'
    <3>1. /\ t = Consumer
          /\ pc[t] = "dec"
          /\ pc' = [pc EXCEPT ![t] = "idle"]
          /\ count' = count - 1
          /\ chain' = chain
      BY <1>11 DEF DecCount, ConsumerInv
    <3>2. Lagging' <=> Lagging
      BY <3>1 DEF Lagging, TypeOK
    <3> QED
      BY <3>1, <3>2 DEF CountInv, TypeOK
  <2> QED
    BY <2>1, <2>2, <2>3, <2>4, <2>5, <2>6, <2>7, <2>8
<1>12. CASE UNCHANGED vars
  <2>1. TypeOK' /\ LockInv' /\ ConsumerInv' /\ ChainInv' /\ TailInv'
    BY <1>12 DEF vars, TypeOK, LockInv, ConsumerInv, ChainInv, TailInv
  <2>2. PrivateInv' /\ NoLeak' /\ CountInv'
    BY <1>12 DEF vars, PrivateInv, NoLeak, Linked, InHand, CountInv, Lagging
  <2> QED
    BY <2>1, <2>2
<1> QED
  BY <1>1, <1>2, <1>3, <1>4, <1>5, <1>6, <1>7, <1>8, <1>9, <1>10, <1>11, <1>12 DEF Next, Enqueue, Dequeue

----------------------------------------------------------------------------
\* The invariant holds in every reachable state of the queue.
THEOREM Invariance == Spec => []IInv
<1>1. Init => IInv
  BY InitIInv
<1>2. IInv /\ [Next]_vars => IInv'
  BY NextIInv
<1> QED
  BY <1>1, <1>2, PTL DEF Spec

\* The fields of queue_t, the nodes and the locals keep their types, for any
\* number of threads that enqueue while the core dequeues.
THEOREM TypeCorrect == Spec => []TypeOK
<1>1. IInv => TypeOK
  BY DEF IInv
<1> QED
  BY <1>1, Invariance, PTL

\* No thread dereferences a freed node and no node is leaked, although
\* dequeue frees the old dummy without taking the lock (lock-queue.c:108).
THEOREM NoUseAfterFree == Spec => []MemorySafe
<1>1. IInv => MemorySafe
  <2> SUFFICES ASSUME IInv PROVE MemorySafe
    OBVIOUS
  <2> USE DEF IInv
  <2>1. heap = Linked \cup InHand
    BY DEF NoLeak, Linked, InHand, ChainInv, PrivateInv
  <2>2. Linked \cap InHand = {}
    BY DEF InHand, PrivateInv
  <2>3. QHead \in Linked
    BY DEF Linked, ChainInv, TypeOK
  <2>4. QTail \in Linked
    BY DEF Linked, ChainInv, TailInv, TypeOK
  <2>5. pc[Consumer] = "swing" => new_head \in Linked
    BY DEF Linked, PrivateInv, TypeOK
  <2> QED
    BY <2>1, <2>2, <2>3, <2>4, <2>5 DEF MemorySafe
<1> QED
  BY <1>1, Invariance, PTL

\* The assumption of coremu_get_intr: a dequeue that follows a successful
\* test of the size finds an interrupt (intr.c:70).
THEOREM DequeueSucceeds == Spec => []PendingNotEmpty
<1>1. IInv => PendingNotEmpty
  <2> SUFFICES ASSUME IInv, pc[Consumer] = "head" PROVE next[QHead] # NULL
    BY DEF PendingNotEmpty
  <2>1. Len(chain) >= 2
    BY DEF IInv, CountInv, TypeOK
  <2>2. next[QHead] = chain[2] /\ chain[2] \in Node
    BY <2>1 DEF IInv, ChainInv, TypeOK
  <2> QED
    BY <2>2, LockQueueAssumption
<1> QED
  BY <1>1, Invariance, PTL

----------------------------------------------------------------------------
(* LockQueue implements IntrQueue *)

\* The list always holds the dummy node.
LEMMA ChainType == IInv => chain \in Seq(Node) /\ Len(chain) \in Nat \ {0}
<1> SUFFICES ASSUME TypeOK, ChainInv PROVE chain \in Seq(Node) /\ Len(chain) \in Nat \ {0}
  BY DEF IInv
<1>1. chain \in Seq(Node)
  BY DEF TypeOK
<1>2. Len(chain) >= 1
  BY DEF ChainInv
<1> QED
  BY <1>1, <1>2

\* The contents of the queue are a sequence of interrupts.
LEMMA ContentsType ==
  IInv => /\ Contents \in Seq(Intr)
          /\ Len(Contents) = Len(chain) - 1
          /\ \A i \in 1 .. Len(chain) - 1 : Contents[i] = value[chain[i + 1]]
<1> SUFFICES ASSUME IInv
             PROVE  /\ Contents \in Seq(Intr)
                    /\ Len(Contents) = Len(chain) - 1
                    /\ \A i \in 1 .. Len(chain) - 1 : Contents[i] = value[chain[i + 1]]
  OBVIOUS
<1>1. Len(chain) - 1 \in Nat
  BY DEF IInv, ChainInv, TypeOK
<1>2. \A i \in 1 .. Len(chain) - 1 : i + 1 \in 2 .. Len(chain)
  BY <1>1
<1>3. \A i \in 1 .. Len(chain) - 1 : value[chain[i + 1]] \in Intr
  BY <1>2 DEF IInv, ChainInv
<1> QED
  BY <1>1, <1>3 DEF Contents

\* A step that keeps the list and the values of its nodes keeps the contents.
LEMMA ContentsUnchanged ==
  ASSUME IInv, chain' = chain,
         \A i \in 1 .. Len(chain) - 1 : value'[chain[i + 1]] = value[chain[i + 1]]
  PROVE  Contents' = Contents
BY DEF Contents

\* The initial queue is the empty queue.
LEMMA InitRefines == Init => Abs!Init
<1> SUFFICES ASSUME NEW dummy \in Node, Init!(dummy) PROVE Abs!Init
  BY DEF Init
<1>1. Len(chain) - 1 = 0
  OBVIOUS
<1>2. Contents = << >>
  BY <1>1 DEF Contents
<1> QED
  BY <1>2 DEF Abs!Init

\* Linking the node puts its interrupt, the increment accounts for it,
\* moving Head takes an interrupt, and the decrement settles; no other step
\* shows.
LEMMA NextRefines == IInv /\ IInv' /\ [Next]_vars => [Abs!Next]_(Abs!vars)
<1> SUFFICES ASSUME IInv, IInv', [Next]_vars PROVE [Abs!Next]_(Abs!vars)
  OBVIOUS
<1> USE LockQueueAssumption
<1>1. ASSUME NEW t \in Thread, NEW v \in Intr, NewNode(t, v) PROVE UNCHANGED (Abs!vars)
  <2>1. PICK n \in Node \ heap : value' = [value EXCEPT ![n] = v]
    BY <1>1 DEF NewNode
  <2>2. \A i \in 1 .. Len(chain) - 1 : chain[i + 1] \in heap
    BY DEF IInv, ChainInv, TypeOK
  <2>3. Contents' = Contents
    BY <1>1, <2>1, <2>2, ContentsUnchanged DEF NewNode, IInv, TypeOK
  <2> QED
    BY <1>1, <2>3 DEF Abs!vars, NewNode, queueVars
<1>2. ASSUME NEW t \in Thread, LinkNode(t) PROVE Abs!Next
  <2>1. /\ pc[t] = "link"
        /\ chain' = Append(chain, node[t])
        /\ UNCHANGED <<value, count, value_p>>
    BY <1>2 DEF LinkNode, queueVars, Goto
  <2>2. node[t] \in Node /\ value[node[t]] \in Intr
    BY <2>1 DEF IInv, PrivateInv, Locked
  <2> DEFINE n == Len(chain)
  <2>3. /\ n \in Nat \ {0} /\ Len(chain') = n + 1
        /\ \A i \in 1 .. n : chain'[i] = chain[i]
        /\ chain'[n + 1] = node[t]
    <3>1. chain \in Seq(Node) /\ Len(chain) \in Nat \ {0}
      BY ChainType
    <3> QED
      BY <2>1, <2>2, <3>1
  <2>4. /\ Contents' \in Seq(Intr)
        /\ Len(Contents') = n
        /\ \A i \in 1 .. n : Contents'[i] = value[chain'[i + 1]]
    <3>1. \A i \in 1 .. Len(chain') - 1 : i + 1 \in 2 .. Len(chain')
      BY <2>3
    <3>2. \A i \in 1 .. Len(chain') - 1 : value'[chain'[i + 1]] \in Intr
      BY <3>1 DEF IInv, ChainInv
    <3> QED
      BY <2>1, <2>3, <3>2 DEF Contents
  <2>5. Contents' = Append(Contents, value[node[t]])
    <3>1. Contents \in Seq(Intr) /\ Len(Contents) = n - 1
      BY ContentsType
    <3>2. \A i \in 1 .. n - 1 : Contents[i] = value[chain[i + 1]]
      BY ContentsType
    <3>3. \A i \in 1 .. n - 1 : Contents'[i] = Contents[i]
      <4> TAKE i \in 1 .. n - 1
      <4>1. i \in 1 .. n /\ i + 1 \in 1 .. n
        BY <2>3
      <4>2. Contents'[i] = value[chain'[i + 1]]
        BY <2>4, <4>1
      <4>3. chain'[i + 1] = chain[i + 1]
        BY <2>3, <4>1
      <4> QED
        BY <3>2, <4>2, <4>3
    <3>4. Contents'[n] = value[node[t]]
      BY <2>3, <2>4
    <3> QED
      BY <2>2, <2>3, <2>4, <3>1, <3>3, <3>4
  <2> QED
    BY <2>1, <2>2, <2>5 DEF Abs!Next, Abs!Put
<1>3. ASSUME NEW t \in Thread, IncCount(t) PROVE Abs!Next
  <2>1. pc[t] = "inc" /\ count' = count + 1 /\ UNCHANGED <<chain, value, value_p>>
    BY <1>3 DEF IncCount, Goto, memVars
  <2>2. Contents' = Contents
    BY <2>1, ContentsUnchanged
  <2>3. count = Len(chain) - 2 + Abs!Owed
    <3>1. Lagging
      BY <2>1 DEF Lagging
    <3>2. Abs!Owed = IF pc[Consumer] \in {"free", "dec"} THEN 1 ELSE 0
      BY DEF Abs!Owed, IInv, ConsumerInv
    <3> QED
      BY <3>1, <3>2 DEF IInv, CountInv, TypeOK
  <2>4. count < Len(Contents) + Abs!Owed
    BY <2>3, ContentsType DEF Abs!Owed, IInv, TypeOK
  <2> QED
    BY <2>1, <2>2, <2>4 DEF Abs!Next, Abs!Account
<1>4. ASSUME NEW t \in Thread, SwingHead(t) PROVE Abs!Next
  <2> DEFINE n == Len(chain)
  <2>1. /\ t = Consumer
        /\ pc[t] = "swing"
        /\ chain' = SubSeq(chain, 2, n)
        /\ n \in Nat /\ n >= 2
        /\ value_p' = value[chain[2]]
        /\ UNCHANGED <<value, count>>
    BY <1>4 DEF SwingHead, Goto, memVars, IInv, ConsumerInv, PrivateInv, TypeOK
  <2>2. Len(chain') = n - 1 /\ \A i \in 1 .. n - 1 : chain'[i] = chain[i + 1]
    BY <2>1 DEF IInv, TypeOK
  <2>3. value_p = NoIntr /\ count > 0
    BY <2>1 DEF IInv, ConsumerInv, CountInv, TypeOK
  <2>4. /\ Contents \in Seq(Intr)
        /\ Len(Contents) = n - 1
        /\ \A i \in 1 .. n - 1 : Contents[i] = value[chain[i + 1]]
    BY ContentsType
  <2>5. /\ Contents' \in Seq(Intr)
        /\ Len(Contents') = n - 2
        /\ \A i \in 1 .. n - 2 : Contents'[i] = value[chain'[i + 1]]
    <3>1. \A i \in 1 .. Len(chain') - 1 : i + 1 \in 2 .. Len(chain')
      BY <2>1, <2>2
    <3>2. \A i \in 1 .. Len(chain') - 1 : value'[chain'[i + 1]] \in Intr
      BY <3>1 DEF IInv, ChainInv
    <3> QED
      BY <2>1, <2>2, <3>2 DEF Contents
  <2>6. Contents' = Tail(Contents)
    <3>1. \A i \in 1 .. n - 2 : Contents'[i] = Contents[i + 1]
      <4> TAKE i \in 1 .. n - 2
      <4>1. i + 1 \in 1 .. n - 1
        BY <2>1
      <4>2. Contents'[i] = value[chain'[i + 1]]
        BY <2>5
      <4>3. chain'[i + 1] = chain[i + 1 + 1]
        BY <2>2, <4>1
      <4>4. Contents[i + 1] = value[chain[i + 1 + 1]]
        BY <2>4, <4>1
      <4> QED
        BY <4>2, <4>3, <4>4
    <3>2. Contents # << >>
      BY <2>1, <2>4
    <3>3. /\ Tail(Contents) \in Seq(Intr)
          /\ Len(Tail(Contents)) = n - 2
          /\ \A i \in 1 .. n - 2 : Tail(Contents)[i] = Contents[i + 1]
      BY <2>1, <2>4, <3>2
    <3> QED
      BY <2>5, <3>1, <3>3, SeqEqual
  <2>7. Contents # << >> /\ value_p' = Head(Contents)
    BY <2>1, <2>4
  <2> QED
    BY <2>1, <2>3, <2>6, <2>7 DEF Abs!Next, Abs!Take
<1>5. ASSUME NEW t \in Thread, DecCount(t) PROVE Abs!Next
  <2>1. /\ t = Consumer
        /\ count' = count - 1 /\ value_p' = NoIntr
        /\ UNCHANGED <<chain, value>>
        /\ value_p # NoIntr
    BY <1>5 DEF DecCount, Goto, memVars, IInv, ConsumerInv
  <2>2. Contents' = Contents
    BY <2>1, ContentsUnchanged
  <2> QED
    BY <2>1, <2>2 DEF Abs!Next, Abs!Settle
<1>6. ASSUME UNCHANGED <<chain, value, count, value_p>> PROVE UNCHANGED (Abs!vars)
  BY <1>6, ContentsUnchanged DEF Abs!vars
<1>7. ASSUME NEW t \in Thread,
             \/ SpinLock(t) \/ SwingTail(t) \/ SpinUnlock(t)
             \/ IntrP(t) \/ ReadHead(t) \/ FreeNode(t)
      PROVE  UNCHANGED <<chain, value, count, value_p>>
  BY <1>7 DEF SpinLock, SwingTail, SpinUnlock, IntrP, ReadHead, FreeNode,
              queueVars, memVars
<1>8. UNCHANGED vars => UNCHANGED <<chain, value, count, value_p>>
  BY DEF vars
<1> QED
  BY <1>1, <1>2, <1>3, <1>4, <1>5, <1>6, <1>7, <1>8 DEF Next, Enqueue, Dequeue

\* The queue keeps the promise of IntrQueue: first in, first out in the order
\* of linking, nothing lost or duplicated, the size never ahead of the list.
THEOREM Implements == Spec => ImplementsIntrQueue
<1>1. Init => Abs!Init
  BY InitRefines
<1>2. IInv /\ IInv' /\ [Next]_vars => [Abs!Next]_(Abs!vars)
  BY NextRefines
<1> QED
  BY <1>1, <1>2, Invariance, PTL DEF Spec, Abs!Spec, ImplementsIntrQueue

\* The size that intr.c reads without a lock is never negative and never
\* exceeds what is in the queue, plus what a dequeue has not settled yet.
THEOREM SizeNeverOverstates == Spec => []SizeBacked
<1>1. IInv => SizeBacked
  <2> SUFFICES ASSUME IInv PROVE SizeBacked
    OBVIOUS
  <2>1. Abs!Owed = IF pc[Consumer] \in {"free", "dec"} THEN 1 ELSE 0
    BY LockQueueAssumption DEF Abs!Owed, IInv, ConsumerInv
  <2>2. Len(chain) \in Nat
    BY DEF IInv, TypeOK
  <2>3. count <= Len(chain) - 1 + Abs!Owed
    <3>1. count \in Int
      BY DEF IInv, TypeOK
    <3>2. CASE Lagging
      BY <2>1, <2>2, <3>1, <3>2 DEF IInv, CountInv
    <3>3. CASE ~Lagging
      BY <2>1, <2>2, <3>1, <3>3 DEF IInv, CountInv
    <3> QED
      BY <3>2, <3>3
  <2>4. Abs!Owed \in Nat
    BY <2>1
  <2> QED
    BY <2>2, <2>3, <2>4, ContentsType DEF SizeBacked, Abs!SizeIsBacked, IInv, CountInv, TypeOK
<1> QED
  BY <1>1, Invariance, PTL
=============================================================================
