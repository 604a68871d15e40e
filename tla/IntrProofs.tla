---------------------------- MODULE IntrProofs ----------------------------
(***************************************************************************)
(* Proofs about Intr, for any number of cores and devices, any thresholds  *)
(* and any number of interrupts.                                           *)
(***************************************************************************)
EXTENDS Intr, TLAPS

----------------------------------------------------------------------------
(* The inductive invariant, conjunct by conjunct *)

\* The points of coremu_send_signal, where target is another core, and the
\* points only the thread of a core reaches.
SignalLocation == {"size", "thresh", "flag", "setflag", "setrun", "raise",
                   "decide", "boost", "kill"}
CoreLocation == {"notify", "recv", "take", "sleep", "nap"}

LocalInv ==
  /\ \A t \in Thread : /\ pc[t] \in SignalLocation => target[t] \in Core
                       /\ pc[t] = "notify" => target[t] = t
                       /\ pc[t] \in CoreLocation => t \in Core
                       /\ pc[t] = "raise" => thresh[t] < MAX_INTR_THRESHOLD
  /\ \A c \in Core : /\ pc[c] = "take" => size[c] > 0
                     /\ hpc[c] = "store" => hthresh[c] > 0
                     /\ hpc[c] = "clear" => notified[c]

\* A thread whose send to core c will still lead to a signal: it has not yet
\* compared a size at least the current one with the threshold, it has
\* decided to signal, or it signals in any case.
Caller(t, c) ==
  /\ target[t] = c
  /\ \/ pc[t] \in {"notify", "size", "flag", "setflag", "setrun", "boost", "kill"}
     \/ pc[t] = "thresh" /\ pending_intr[t] >= size[c]
     \/ pc[t] \in {"thresh", "raise", "decide"} /\ Enough

\* Coming, without the sends that may still end without a signal.
Urgent(c) == \/ notified[c]
             \/ pc[c] \in {"recv", "take"}
             \/ signals[c] > 0
             \/ hpc[c] \in {"adjust", "store", "unboost", "notify"}
             \/ \E t \in Thread : Caller(t, c)

BacklogInv == \A c \in Core : size[c] > Backlog => Urgent(c)

IInv == /\ TypeOK
        /\ LocalInv
        /\ SigPendingBacked
        /\ BoostBacked
        /\ BacklogInv

----------------------------------------------------------------------------
\* The state that coremu_init and coremu_core_init leave satisfies the
\* invariant.
LEMMA InitIInv == Init => IInv
<1> SUFFICES ASSUME Init PROVE IInv
  OBVIOUS
<1> USE IntrAssumption DEF Init, Thread
<1>1. TypeOK
  <2>1. 0 \in Threshold /\ 0 \in 0 .. PAUSE_THRESHOLD + 2 /\ 0 \in 0 .. MaxSend
    BY DEF Threshold
  <2> QED
    BY <2>1 DEF TypeOK, Location, HandlerLocation
<1>2. LocalInv
  BY DEF LocalInv, SignalLocation, CoreLocation
<1>3. SigPendingBacked /\ BoostBacked
  BY DEF SigPendingBacked, BoostBacked
<1>4. BacklogInv
  BY DEF BacklogInv, Backlog
<1> QED
  BY <1>1, <1>2, <1>3, <1>4 DEF IInv


\* Types are preserved by every step of a sender, a handler or a core.
LEMMA NextTypeOK == IInv /\ Next => TypeOK'
<1> SUFFICES ASSUME IInv, Next PROVE TypeOK'
  OBVIOUS
<1> USE IntrAssumption DEF IInv, TypeOK, Thread
<1>1. CASE RunAllCores
  BY <1>1 DEF RunAllCores, sendVars, handleVars
<1>2. ASSUME NEW t \in Thread, NEW c \in Core, SendIntr(t, c) PROVE TypeOK'
  BY <1>2 DEF SendIntr, Step, coreVars, LocalInv, SignalLocation, CoreLocation,
     Location, Threshold
<1>3. ASSUME NEW t \in Thread, NotifySelf(t) PROVE TypeOK'
  BY <1>3 DEF NotifySelf, Forget, Step, coreVars, LocalInv, SignalLocation,
     CoreLocation, Location, Threshold
<1>4. ASSUME NEW t \in Thread, ReadSize(t) PROVE TypeOK'
  BY <1>4 DEF ReadSize, Step, coreVars, LocalInv, SignalLocation, CoreLocation,
     Location, Threshold
<1>5. ASSUME NEW t \in Thread, ReadThresh(t) PROVE TypeOK'
  BY <1>5 DEF ReadThresh, Step, coreVars, LocalInv, SignalLocation, CoreLocation,
     Location, Threshold
<1>6. ASSUME NEW t \in Thread, ReadSigPending(t) PROVE TypeOK'
  BY <1>6 DEF ReadSigPending, Step, coreVars, sendVars, LocalInv, SignalLocation,
     CoreLocation, Location, Threshold
<1>7. ASSUME NEW t \in Thread, SetSigPending(t) PROVE TypeOK'
  BY <1>7 DEF SetSigPending, Step, sendVars, LocalInv, SignalLocation, CoreLocation,
     Location, Threshold
<1>8. ASSUME NEW t \in Thread, SetRun(t) PROVE TypeOK'
  BY <1>8 DEF SetRun, Step, sendVars, LocalInv, SignalLocation, CoreLocation,
     Location, Threshold
<1>9. ASSUME NEW t \in Thread, RaiseThresh(t) PROVE TypeOK'
  BY <1>9 DEF RaiseThresh, Step, sendVars, LocalInv, SignalLocation, CoreLocation,
     Location, Threshold
<1>10. ASSUME NEW t \in Thread, Decide(t) PROVE TypeOK'
  BY <1>10 DEF Decide, Forget, Step, coreVars, sendVars, LocalInv, SignalLocation,
     CoreLocation, Location, Threshold
<1>11. ASSUME NEW t \in Thread, Boost(t) PROVE TypeOK'
  BY <1>11 DEF Boost, Step, sendVars, LocalInv, SignalLocation, CoreLocation,
     Location, Threshold
<1>12. ASSUME NEW t \in Thread, Kill(t) PROVE TypeOK'
  BY <1>12 DEF Kill, Forget, Step, LocalInv, SignalLocation, CoreLocation, Location,
     Threshold
<1>13. ASSUME NEW c \in Core, Deliver(c) PROVE TypeOK'
  BY <1>13 DEF Deliver, Handler, sendVars, LocalInv, HandlerLocation, Threshold
<1>14. ASSUME NEW c \in Core, AdjustThresh(c) PROVE TypeOK'
  BY <1>14 DEF AdjustThresh, Handler, sendVars, LocalInv, HandlerLocation, Threshold
<1>15. ASSUME NEW c \in Core, StoreThresh(c) PROVE TypeOK'
  BY <1>15 DEF StoreThresh, Handler, sendVars, LocalInv, HandlerLocation, Threshold
<1>16. ASSUME NEW c \in Core, Unboost(c) PROVE TypeOK'
  BY <1>16 DEF Unboost, Handler, sendVars, LocalInv, HandlerLocation, Threshold
<1>17. ASSUME NEW c \in Core, Notify(c) PROVE TypeOK'
  BY <1>17 DEF Notify, Handler, coreVars, sendVars, LocalInv, HandlerLocation,
     Threshold
<1>18. ASSUME NEW c \in Core, ClearSigPending(c) PROVE TypeOK'
  BY <1>18 DEF ClearSigPending, Handler, sendVars, LocalInv, HandlerLocation,
     Threshold
<1>19. ASSUME NEW c \in Core, ReceiveIntr(c) PROVE TypeOK'
  BY <1>19 DEF ReceiveIntr, Local, Step, sendVars, LocalInv, Location, Threshold
<1>20. ASSUME NEW c \in Core, GetIntr(c) PROVE TypeOK'
  BY <1>20 DEF GetIntr, Local, Step, sendVars, LocalInv, Location, Threshold
<1>21. ASSUME NEW c \in Core, Dequeue(c) PROVE TypeOK'
  BY <1>21 DEF Dequeue, Local, Step, sendVars, LocalInv, Location, Threshold
<1>22. ASSUME NEW c \in Core, SchedHalted(c) PROVE TypeOK'
  BY <1>22 DEF SchedHalted, Local, Step, sendVars, LocalInv, Location, Threshold
<1>23. ASSUME NEW c \in Core, SchedPause(c) PROVE TypeOK'
  BY <1>23 DEF SchedPause, Local, Step, sendVars, LocalInv, Location, Threshold
<1>24. ASSUME NEW c \in Core, Wake(c) PROVE TypeOK'
  BY <1>24 DEF Wake, Local, Step, sendVars, LocalInv, Location, Threshold
<1> QED
  BY <1>1, <1>2, <1>3, <1>4, <1>5, <1>6, <1>7, <1>8, <1>9, <1>10, <1>11, <1>12,
     <1>13, <1>14, <1>15, <1>16, <1>17, <1>18, <1>19, <1>20, <1>21, <1>22,
     <1>23, <1>24
  DEF Next, Send, Handle, Receive, Sleep

\* What each program point knows of the locals and of its own core.
LEMMA NextLocalInv == IInv /\ Next => LocalInv'
<1> SUFFICES ASSUME IInv, Next PROVE LocalInv'
  OBVIOUS
<1> USE IntrAssumption DEF IInv, TypeOK, Thread
<1>1. CASE RunAllCores
  BY <1>1 DEF RunAllCores, sendVars, handleVars, LocalInv
<1>2. ASSUME NEW t \in Thread, NEW c \in Core, SendIntr(t, c) PROVE LocalInv'
  BY <1>2 DEF SendIntr, Step, coreVars, LocalInv, SignalLocation, CoreLocation,
     Threshold, Running
<1>3. ASSUME NEW t \in Thread, NotifySelf(t) PROVE LocalInv'
  BY <1>3 DEF NotifySelf, Forget, Step, coreVars, LocalInv, SignalLocation,
     CoreLocation, Threshold, Running
<1>4. ASSUME NEW t \in Thread, ReadSize(t) PROVE LocalInv'
  BY <1>4 DEF ReadSize, Step, coreVars, LocalInv, SignalLocation, CoreLocation,
     Threshold, Running
<1>5. ASSUME NEW t \in Thread, ReadThresh(t) PROVE LocalInv'
  BY <1>5 DEF ReadThresh, Step, coreVars, LocalInv, SignalLocation, CoreLocation,
     Threshold, Running
<1>6. ASSUME NEW t \in Thread, ReadSigPending(t) PROVE LocalInv'
  BY <1>6 DEF ReadSigPending, Step, coreVars, sendVars, LocalInv, SignalLocation,
     CoreLocation, Threshold, Running
<1>7. ASSUME NEW t \in Thread, SetSigPending(t) PROVE LocalInv'
  BY <1>7 DEF SetSigPending, Step, sendVars, LocalInv, SignalLocation, CoreLocation,
     Threshold, Running
<1>8. ASSUME NEW t \in Thread, SetRun(t) PROVE LocalInv'
  BY <1>8 DEF SetRun, Step, sendVars, LocalInv, SignalLocation, CoreLocation,
     Threshold, Running
<1>9. ASSUME NEW t \in Thread, RaiseThresh(t) PROVE LocalInv'
  BY <1>9 DEF RaiseThresh, Step, sendVars, LocalInv, SignalLocation, CoreLocation,
     Threshold, Running
<1>10. ASSUME NEW t \in Thread, Decide(t) PROVE LocalInv'
  BY <1>10 DEF Decide, Forget, Step, coreVars, sendVars, LocalInv, SignalLocation,
     CoreLocation, Threshold, Running
<1>11. ASSUME NEW t \in Thread, Boost(t) PROVE LocalInv'
  BY <1>11 DEF Boost, Step, sendVars, LocalInv, SignalLocation, CoreLocation,
     Threshold, Running
<1>12. ASSUME NEW t \in Thread, Kill(t) PROVE LocalInv'
  BY <1>12 DEF Kill, Forget, Step, LocalInv, SignalLocation, CoreLocation, Threshold,
     Running
<1>13. ASSUME NEW c \in Core, Deliver(c) PROVE LocalInv'
  BY <1>13 DEF Deliver, Handler, sendVars, LocalInv, SignalLocation, CoreLocation,
     Threshold
<1>14. ASSUME NEW c \in Core, AdjustThresh(c) PROVE LocalInv'
  BY <1>14 DEF AdjustThresh, Handler, sendVars, LocalInv, SignalLocation,
     CoreLocation, Threshold
<1>15. ASSUME NEW c \in Core, StoreThresh(c) PROVE LocalInv'
  BY <1>15 DEF StoreThresh, Handler, sendVars, LocalInv, SignalLocation, CoreLocation,
     Threshold
<1>16. ASSUME NEW c \in Core, Unboost(c) PROVE LocalInv'
  BY <1>16 DEF Unboost, Handler, sendVars, LocalInv, SignalLocation, CoreLocation,
     Threshold
<1>17. ASSUME NEW c \in Core, Notify(c) PROVE LocalInv'
  BY <1>17 DEF Notify, Handler, coreVars, sendVars, LocalInv, SignalLocation,
     CoreLocation, Threshold
<1>18. ASSUME NEW c \in Core, ClearSigPending(c) PROVE LocalInv'
  BY <1>18 DEF ClearSigPending, Handler, sendVars, LocalInv, SignalLocation,
     CoreLocation, Threshold
<1>19. ASSUME NEW c \in Core, ReceiveIntr(c) PROVE LocalInv'
  BY <1>19 DEF ReceiveIntr, Local, Step, sendVars, LocalInv, SignalLocation,
     CoreLocation, Running
<1>20. ASSUME NEW c \in Core, GetIntr(c) PROVE LocalInv'
  BY <1>20 DEF GetIntr, Local, Step, sendVars, LocalInv, SignalLocation, CoreLocation,
     Running
<1>21. ASSUME NEW c \in Core, Dequeue(c) PROVE LocalInv'
  BY <1>21 DEF Dequeue, Local, Step, sendVars, LocalInv, SignalLocation, CoreLocation,
     Running
<1>22. ASSUME NEW c \in Core, SchedHalted(c) PROVE LocalInv'
  BY <1>22 DEF SchedHalted, Local, Step, sendVars, LocalInv, SignalLocation,
     CoreLocation, Running
<1>23. ASSUME NEW c \in Core, SchedPause(c) PROVE LocalInv'
  BY <1>23 DEF SchedPause, Local, Step, sendVars, LocalInv, SignalLocation,
     CoreLocation, Running
<1>24. ASSUME NEW c \in Core, Wake(c) PROVE LocalInv'
  BY <1>24 DEF Wake, Local, Step, sendVars, LocalInv, SignalLocation, CoreLocation,
     Running
<1> QED
  BY <1>1, <1>2, <1>3, <1>4, <1>5, <1>6, <1>7, <1>8, <1>9, <1>10, <1>11, <1>12,
     <1>13, <1>14, <1>15, <1>16, <1>17, <1>18, <1>19, <1>20, <1>21, <1>22,
     <1>23, <1>24
  DEF Next, Send, Handle, Receive, Sleep

\* Whoever sets sig_pending still has the signal to send, and only the handler
\* that clears the flag uses a signal up.
LEMMA NextSigPending == IInv /\ Next => SigPendingBacked'
<1> SUFFICES ASSUME IInv, Next PROVE SigPendingBacked'
  OBVIOUS
<1> USE IntrAssumption DEF IInv, TypeOK, Thread
<1>1. CASE RunAllCores
  BY <1>1 DEF RunAllCores, SigPendingBacked, Sending, sendVars, handleVars
<1>2. ASSUME NEW t \in Thread, NEW c \in Core, SendIntr(t, c) PROVE SigPendingBacked'
  BY <1>2 DEF SendIntr, Step, coreVars, SigPendingBacked, Sending, LocalInv,
     SignalLocation
<1>3. ASSUME NEW t \in Thread, NotifySelf(t) PROVE SigPendingBacked'
  BY <1>3 DEF NotifySelf, Forget, Step, coreVars, SigPendingBacked, Sending, LocalInv,
     SignalLocation
<1>4. ASSUME NEW t \in Thread, ReadSize(t) PROVE SigPendingBacked'
  BY <1>4 DEF ReadSize, Step, coreVars, SigPendingBacked, Sending, LocalInv,
     SignalLocation
<1>5. ASSUME NEW t \in Thread, ReadThresh(t) PROVE SigPendingBacked'
  BY <1>5 DEF ReadThresh, Step, coreVars, SigPendingBacked, Sending, LocalInv,
     SignalLocation
<1>6. ASSUME NEW t \in Thread, ReadSigPending(t) PROVE SigPendingBacked'
  BY <1>6 DEF ReadSigPending, Step, coreVars, sendVars, SigPendingBacked, Sending,
     LocalInv, SignalLocation
<1>7. ASSUME NEW t \in Thread, SetSigPending(t) PROVE SigPendingBacked'
  BY <1>7 DEF SetSigPending, Step, sendVars, SigPendingBacked, Sending, LocalInv,
     SignalLocation
<1>8. ASSUME NEW t \in Thread, SetRun(t) PROVE SigPendingBacked'
  BY <1>8 DEF SetRun, Step, sendVars, SigPendingBacked, Sending, LocalInv,
     SignalLocation
<1>9. ASSUME NEW t \in Thread, RaiseThresh(t) PROVE SigPendingBacked'
  BY <1>9 DEF RaiseThresh, Step, sendVars, SigPendingBacked, Sending, LocalInv,
     SignalLocation
<1>10. ASSUME NEW t \in Thread, Decide(t) PROVE SigPendingBacked'
  <2>1. CASE pc' = [pc EXCEPT ![t] = "boost"] /\ UNCHANGED <<target, sig_pending, signals, hpc>>
    BY <1>10, <2>1 DEF Decide, Step, SigPendingBacked, Sending
  <2>2. CASE pc' = [pc EXCEPT ![t] = "idle"] /\ Forget(t) /\ UNCHANGED <<sig_pending, signals, hpc>>
    BY <1>10, <2>2 DEF Decide, Step, Forget, SigPendingBacked, Sending
  <2> QED
    BY <1>10, <2>1, <2>2 DEF Decide, Step, coreVars, sendVars
<1>11. ASSUME NEW t \in Thread, Boost(t) PROVE SigPendingBacked'
  BY <1>11 DEF Boost, Step, sendVars, SigPendingBacked, Sending, LocalInv,
     SignalLocation
<1>12. ASSUME NEW t \in Thread, Kill(t) PROVE SigPendingBacked'
  BY <1>12 DEF Kill, Forget, Step, SigPendingBacked, Sending, LocalInv, SignalLocation
<1>13. ASSUME NEW c \in Core, Deliver(c) PROVE SigPendingBacked'
  BY <1>13 DEF Deliver, Handler, sendVars, SigPendingBacked, Sending
<1>14. ASSUME NEW c \in Core, AdjustThresh(c) PROVE SigPendingBacked'
  BY <1>14 DEF AdjustThresh, Handler, sendVars, SigPendingBacked, Sending
<1>15. ASSUME NEW c \in Core, StoreThresh(c) PROVE SigPendingBacked'
  BY <1>15 DEF StoreThresh, Handler, sendVars, SigPendingBacked, Sending
<1>16. ASSUME NEW c \in Core, Unboost(c) PROVE SigPendingBacked'
  BY <1>16 DEF Unboost, Handler, sendVars, SigPendingBacked, Sending
<1>17. ASSUME NEW c \in Core, Notify(c) PROVE SigPendingBacked'
  BY <1>17 DEF Notify, Handler, coreVars, sendVars, SigPendingBacked, Sending
<1>18. ASSUME NEW c \in Core, ClearSigPending(c) PROVE SigPendingBacked'
  BY <1>18 DEF ClearSigPending, Handler, sendVars, SigPendingBacked, Sending
<1>19. ASSUME NEW c \in Core, ReceiveIntr(c) PROVE SigPendingBacked'
  BY <1>19 DEF ReceiveIntr, Local, Step, sendVars, SigPendingBacked, Sending
<1>20. ASSUME NEW c \in Core, GetIntr(c) PROVE SigPendingBacked'
  BY <1>20 DEF GetIntr, Local, Step, sendVars, SigPendingBacked, Sending
<1>21. ASSUME NEW c \in Core, Dequeue(c) PROVE SigPendingBacked'
  BY <1>21 DEF Dequeue, Local, Step, sendVars, SigPendingBacked, Sending
<1>22. ASSUME NEW c \in Core, SchedHalted(c) PROVE SigPendingBacked'
  BY <1>22 DEF SchedHalted, Local, Step, sendVars, SigPendingBacked, Sending
<1>23. ASSUME NEW c \in Core, SchedPause(c) PROVE SigPendingBacked'
  BY <1>23 DEF SchedPause, Local, Step, sendVars, SigPendingBacked, Sending
<1>24. ASSUME NEW c \in Core, Wake(c) PROVE SigPendingBacked'
  BY <1>24 DEF Wake, Local, Step, sendVars, SigPendingBacked, Sending
<1> QED
  BY <1>1, <1>2, <1>3, <1>4, <1>5, <1>6, <1>7, <1>8, <1>9, <1>10, <1>11, <1>12,
     <1>13, <1>14, <1>15, <1>16, <1>17, <1>18, <1>19, <1>20, <1>21, <1>22,
     <1>23, <1>24
  DEF Next, Send, Handle, Receive, Sleep

\* Whoever raises the priority still has the signal to send, and every handler
\* lowers it.
LEMMA NextBoost == IInv /\ Next => BoostBacked'
<1> SUFFICES ASSUME IInv, Next PROVE BoostBacked'
  OBVIOUS
<1> USE IntrAssumption DEF IInv, TypeOK, Thread
<1>1. CASE RunAllCores
  BY <1>1 DEF RunAllCores, BoostBacked, Sending, sendVars, handleVars
<1>2. ASSUME NEW t \in Thread, NEW c \in Core, SendIntr(t, c) PROVE BoostBacked'
  BY <1>2 DEF SendIntr, Step, coreVars, BoostBacked, Sending, LocalInv, SignalLocation
<1>3. ASSUME NEW t \in Thread, NotifySelf(t) PROVE BoostBacked'
  BY <1>3 DEF NotifySelf, Forget, Step, coreVars, BoostBacked, Sending, LocalInv,
     SignalLocation
<1>4. ASSUME NEW t \in Thread, ReadSize(t) PROVE BoostBacked'
  BY <1>4 DEF ReadSize, Step, coreVars, BoostBacked, Sending, LocalInv, SignalLocation
<1>5. ASSUME NEW t \in Thread, ReadThresh(t) PROVE BoostBacked'
  BY <1>5 DEF ReadThresh, Step, coreVars, BoostBacked, Sending, LocalInv,
     SignalLocation
<1>6. ASSUME NEW t \in Thread, ReadSigPending(t) PROVE BoostBacked'
  BY <1>6 DEF ReadSigPending, Step, coreVars, sendVars, BoostBacked, Sending,
     LocalInv, SignalLocation
<1>7. ASSUME NEW t \in Thread, SetSigPending(t) PROVE BoostBacked'
  BY <1>7 DEF SetSigPending, Step, sendVars, BoostBacked, Sending, LocalInv,
     SignalLocation
<1>8. ASSUME NEW t \in Thread, SetRun(t) PROVE BoostBacked'
  BY <1>8 DEF SetRun, Step, sendVars, BoostBacked, Sending, LocalInv, SignalLocation
<1>9. ASSUME NEW t \in Thread, RaiseThresh(t) PROVE BoostBacked'
  BY <1>9 DEF RaiseThresh, Step, sendVars, BoostBacked, Sending, LocalInv,
     SignalLocation
<1>10. ASSUME NEW t \in Thread, Decide(t) PROVE BoostBacked'
  BY <1>10 DEF Decide, Forget, Step, coreVars, sendVars, BoostBacked, Sending,
     LocalInv, SignalLocation
<1>11. ASSUME NEW t \in Thread, Boost(t) PROVE BoostBacked'
  BY <1>11 DEF Boost, Step, sendVars, BoostBacked, Sending, LocalInv, SignalLocation
<1>12. ASSUME NEW t \in Thread, Kill(t) PROVE BoostBacked'
  BY <1>12 DEF Kill, Forget, Step, BoostBacked, Sending, LocalInv, SignalLocation
<1>13. ASSUME NEW c \in Core, Deliver(c) PROVE BoostBacked'
  BY <1>13 DEF Deliver, Handler, sendVars, BoostBacked, Sending
<1>14. ASSUME NEW c \in Core, AdjustThresh(c) PROVE BoostBacked'
  BY <1>14 DEF AdjustThresh, Handler, sendVars, BoostBacked, Sending
<1>15. ASSUME NEW c \in Core, StoreThresh(c) PROVE BoostBacked'
  BY <1>15 DEF StoreThresh, Handler, sendVars, BoostBacked, Sending
<1>16. ASSUME NEW c \in Core, Unboost(c) PROVE BoostBacked'
  BY <1>16 DEF Unboost, Handler, sendVars, BoostBacked, Sending
<1>17. ASSUME NEW c \in Core, Notify(c) PROVE BoostBacked'
  BY <1>17 DEF Notify, Handler, coreVars, sendVars, BoostBacked, Sending
<1>18. ASSUME NEW c \in Core, ClearSigPending(c) PROVE BoostBacked'
  BY <1>18 DEF ClearSigPending, Handler, sendVars, BoostBacked, Sending
<1>19. ASSUME NEW c \in Core, ReceiveIntr(c) PROVE BoostBacked'
  BY <1>19 DEF ReceiveIntr, Local, Step, sendVars, BoostBacked, Sending
<1>20. ASSUME NEW c \in Core, GetIntr(c) PROVE BoostBacked'
  BY <1>20 DEF GetIntr, Local, Step, sendVars, BoostBacked, Sending
<1>21. ASSUME NEW c \in Core, Dequeue(c) PROVE BoostBacked'
  BY <1>21 DEF Dequeue, Local, Step, sendVars, BoostBacked, Sending
<1>22. ASSUME NEW c \in Core, SchedHalted(c) PROVE BoostBacked'
  BY <1>22 DEF SchedHalted, Local, Step, sendVars, BoostBacked, Sending
<1>23. ASSUME NEW c \in Core, SchedPause(c) PROVE BoostBacked'
  BY <1>23 DEF SchedPause, Local, Step, sendVars, BoostBacked, Sending
<1>24. ASSUME NEW c \in Core, Wake(c) PROVE BoostBacked'
  BY <1>24 DEF Wake, Local, Step, sendVars, BoostBacked, Sending
<1> QED
  BY <1>1, <1>2, <1>3, <1>4, <1>5, <1>6, <1>7, <1>8, <1>9, <1>10, <1>11, <1>12,
     <1>13, <1>14, <1>15, <1>16, <1>17, <1>18, <1>19, <1>20, <1>21, <1>22,
     <1>23, <1>24
  DEF Next, Send, Handle, Receive, Sleep

\* The last thread to count an interrupt reads a size that includes all of
\* them: it signals, or finds a flag that stands for a signal, or the backlog is
\* within the threshold it has read.
LEMMA NextBacklog == IInv /\ Next => BacklogInv'
<1> SUFFICES ASSUME IInv, Next PROVE BacklogInv'
  OBVIOUS
<1> USE IntrAssumption DEF IInv, TypeOK, Thread
<1>1. CASE RunAllCores
  BY <1>1 DEF RunAllCores, BacklogInv, Urgent, Caller, sendVars, handleVars
<1>2. ASSUME NEW t \in Thread, NEW c \in Core, SendIntr(t, c) PROVE BacklogInv'
  BY <1>2 DEF SendIntr, Step, coreVars, BacklogInv, Urgent, Caller, Backlog, LocalInv,
     SignalLocation, Threshold
<1>3. ASSUME NEW t \in Thread, NotifySelf(t) PROVE BacklogInv'
  BY <1>3 DEF NotifySelf, Forget, Step, coreVars, BacklogInv, Urgent, Caller, Backlog,
     LocalInv, SignalLocation, Threshold
<1>4. ASSUME NEW t \in Thread, ReadSize(t) PROVE BacklogInv'
  BY <1>4 DEF ReadSize, Step, coreVars, BacklogInv, Urgent, Caller, Backlog, LocalInv,
     SignalLocation, Threshold
<1>5. ASSUME NEW t \in Thread, ReadThresh(t) PROVE BacklogInv'
  BY <1>5 DEF ReadThresh, Step, coreVars, BacklogInv, Urgent, Caller, Backlog,
     LocalInv, SignalLocation, Threshold
<1>6. ASSUME NEW t \in Thread, ReadSigPending(t) PROVE BacklogInv'
  <2> SUFFICES ASSUME NEW d \in Core, size[d] > Backlog PROVE Urgent(d)'
    BY <1>6 DEF ReadSigPending, BacklogInv, Backlog
  <2>1. /\ pc[t] = "flag"
        /\ target[t] \in Core
        /\ UNCHANGED <<size, signals, notified, target, pending_intr, hpc>>
        /\ pc' \in [Thread -> Location]
        /\ \A u \in Thread : u # t => pc'[u] = pc[u]
    BY <1>6 DEF ReadSigPending, Step, coreVars, sendVars, LocalInv, SignalLocation, Location
  <2>2. CASE d = target[t] /\ ~sig_pending[d]
    <3>1. pc'[t] = "setflag"
      BY <1>6, <2>2 DEF ReadSigPending, Step
    <3> QED
      BY <2>1, <2>2, <3>1 DEF Urgent, Caller
  <2>3. CASE d = target[t] /\ sig_pending[d]
    BY <2>1, <2>3 DEF Urgent, Caller, SigPendingBacked, Sending, LocalInv, HandlerLocation
  <2>4. CASE d # target[t]
    <3>1. \A u \in Thread : Caller(u, d) => Caller(u, d)'
      BY <2>1, <2>4 DEF Caller
    <3>2. pc[d] \in {"recv", "take"} => pc'[d] \in {"recv", "take"}
      BY <2>1
    <3> QED
      BY <2>1, <3>1, <3>2 DEF BacklogInv, Urgent
  <2> QED
    BY <2>2, <2>3, <2>4
<1>7. ASSUME NEW t \in Thread, SetSigPending(t) PROVE BacklogInv'
  BY <1>7 DEF SetSigPending, Step, sendVars, BacklogInv, Urgent, Caller, Backlog,
     LocalInv, SignalLocation, Threshold
<1>8. ASSUME NEW t \in Thread, SetRun(t) PROVE BacklogInv'
  BY <1>8 DEF SetRun, Step, sendVars, BacklogInv, Urgent, Caller, Backlog, LocalInv,
     SignalLocation, Threshold
<1>9. ASSUME NEW t \in Thread, RaiseThresh(t) PROVE BacklogInv'
  BY <1>9 DEF RaiseThresh, Step, sendVars, BacklogInv, Urgent, Caller, Backlog,
     LocalInv, SignalLocation, Threshold
<1>10. ASSUME NEW t \in Thread, Decide(t) PROVE BacklogInv'
  <2> SUFFICES ASSUME NEW d \in Core, size[d] > Backlog PROVE Urgent(d)'
    BY <1>10 DEF Decide, BacklogInv, Backlog
  <2>1. /\ pc[t] = "decide"
        /\ UNCHANGED <<size, signals, notified, hpc>>
        /\ \A u \in Thread : u # t => /\ pc'[u] = pc[u]
                                      /\ target'[u] = target[u]
                                      /\ pending_intr'[u] = pending_intr[u]
        /\ Enough => pc'[t] = "boost" /\ target'[t] = target[t]
    BY <1>10 DEF Decide, Step, Forget, coreVars, sendVars
  <2>2. \A u \in Thread : Caller(u, d) => Caller(u, d)'
    BY <2>1 DEF Caller
  <2>3. pc[d] \in {"recv", "take"} => pc'[d] \in {"recv", "take"}
    BY <2>1
  <2> QED
    BY <2>1, <2>2, <2>3 DEF BacklogInv, Urgent
<1>11. ASSUME NEW t \in Thread, Boost(t) PROVE BacklogInv'
  BY <1>11 DEF Boost, Step, sendVars, BacklogInv, Urgent, Caller, Backlog, LocalInv,
     SignalLocation, Threshold
<1>12. ASSUME NEW t \in Thread, Kill(t) PROVE BacklogInv'
  BY <1>12 DEF Kill, Forget, Step, BacklogInv, Urgent, Caller, Backlog, LocalInv,
     SignalLocation, Threshold
<1>13. ASSUME NEW c \in Core, Deliver(c) PROVE BacklogInv'
  BY <1>13 DEF Deliver, Handler, sendVars, BacklogInv, Urgent, Caller, LocalInv
<1>14. ASSUME NEW c \in Core, AdjustThresh(c) PROVE BacklogInv'
  BY <1>14 DEF AdjustThresh, Handler, sendVars, BacklogInv, Urgent, Caller, LocalInv
<1>15. ASSUME NEW c \in Core, StoreThresh(c) PROVE BacklogInv'
  BY <1>15 DEF StoreThresh, Handler, sendVars, BacklogInv, Urgent, Caller, LocalInv
<1>16. ASSUME NEW c \in Core, Unboost(c) PROVE BacklogInv'
  BY <1>16 DEF Unboost, Handler, sendVars, BacklogInv, Urgent, Caller, LocalInv
<1>17. ASSUME NEW c \in Core, Notify(c) PROVE BacklogInv'
  BY <1>17 DEF Notify, Handler, coreVars, sendVars, BacklogInv, Urgent, Caller,
     LocalInv
<1>18. ASSUME NEW c \in Core, ClearSigPending(c) PROVE BacklogInv'
  BY <1>18 DEF ClearSigPending, Handler, sendVars, BacklogInv, Urgent, Caller,
     LocalInv
<1>19. ASSUME NEW c \in Core, ReceiveIntr(c) PROVE BacklogInv'
  BY <1>19 DEF ReceiveIntr, Local, Step, sendVars, BacklogInv, Urgent, Caller,
     Backlog, LocalInv, CoreLocation
<1>20. ASSUME NEW c \in Core, GetIntr(c) PROVE BacklogInv'
  BY <1>20 DEF GetIntr, Local, Step, sendVars, BacklogInv, Urgent, Caller, Backlog,
     LocalInv, CoreLocation
<1>21. ASSUME NEW c \in Core, Dequeue(c) PROVE BacklogInv'
  BY <1>21 DEF Dequeue, Local, Step, sendVars, BacklogInv, Urgent, Caller, Backlog,
     LocalInv, CoreLocation
<1>22. ASSUME NEW c \in Core, SchedHalted(c) PROVE BacklogInv'
  BY <1>22 DEF SchedHalted, Local, Step, sendVars, BacklogInv, Urgent, Caller,
     Backlog, LocalInv, CoreLocation
<1>23. ASSUME NEW c \in Core, SchedPause(c) PROVE BacklogInv'
  BY <1>23 DEF SchedPause, Local, Step, sendVars, BacklogInv, Urgent, Caller, Backlog,
     LocalInv, CoreLocation
<1>24. ASSUME NEW c \in Core, Wake(c) PROVE BacklogInv'
  <2> SUFFICES ASSUME NEW d \in Core, size[d] > Backlog PROVE Urgent(d)'
    BY <1>24 DEF Wake, BacklogInv, Backlog
  <2>1. /\ pc[c] \in {"sleep", "nap"}
        /\ UNCHANGED <<size, signals, notified, hpc, target, pending_intr>>
        /\ \A u \in Thread : u # c => pc'[u] = pc[u]
    BY <1>24 DEF Wake, Local, Step, sendVars
  <2>2. \A u \in Thread : Caller(u, d) => Caller(u, d)'
    BY <2>1 DEF Caller
  <2> QED
    BY <2>1, <2>2 DEF BacklogInv, Urgent
<1> QED
  BY <1>1, <1>2, <1>3, <1>4, <1>5, <1>6, <1>7, <1>8, <1>9, <1>10, <1>11, <1>12,
     <1>13, <1>14, <1>15, <1>16, <1>17, <1>18, <1>19, <1>20, <1>21, <1>22,
     <1>23, <1>24
  DEF Next, Send, Handle, Receive, Sleep

----------------------------------------------------------------------------
\* The invariant holds in every reachable state of intr.c.
THEOREM Invariance == Spec => []IInv
<1>1. IInv /\ Next => IInv'
  BY NextTypeOK, NextLocalInv, NextSigPending, NextBoost, NextBacklog DEF IInv
<1>2. IInv /\ UNCHANGED vars => IInv'
  BY DEF IInv, vars, TypeOK, LocalInv, SigPendingBacked, BoostBacked, Sending,
         BacklogInv, Urgent, Caller
<1> QED
  BY InitIInv, <1>1, <1>2, PTL DEF Spec

\* The fields of CMCore keep their types and the threshold its bounds.
THEOREM TypeCorrect == Spec => []TypeOK
<1>1. IInv => TypeOK
  BY DEF IInv
<1> QED
  BY <1>1, Invariance, PTL

\* sig_pending never stays set without a signal to clear it (intr.c:82-89, 173).
THEOREM FlagBacked == Spec => []SigPendingBacked
<1>1. IInv => SigPendingBacked
  BY DEF IInv
<1> QED
  BY <1>1, Invariance, PTL

\* No core keeps high_prio without a signal to lower it (intr.c:94, 167).
THEOREM PriorityBacked == Spec => []BoostBacked
<1>1. IInv => BoostBacked
  BY DEF IInv
<1> QED
  BY <1>1, Invariance, PTL

\* More than 2 * MAX_INTR_THRESHOLD interrupts never wait unnoticed, and none
\* when there are enough physical cores (intr.c:76-97).
THEOREM BoundedDelay == Spec => []BacklogBounded
<1>1. IInv => BacklogBounded
  BY DEF IInv, BacklogInv, BacklogBounded, Urgent, Caller, Coming
<1> QED
  BY <1>1, Invariance, PTL
=============================================================================
