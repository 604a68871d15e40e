------------------------------ MODULE BiosClock ------------------------------
(***************************************************************************)
(* Clock services of the system BIOS (bios/seabios/src/clock.c): the tick  *)
(* count kept by the timer interrupt, the real time clock and the waits    *)
(* driven by its periodic interrupt.  Handlers run with interrupts off,    *)
(* but rtc_updating yields while the clock is being updated, and INT 15/86 *)
(* sleeps until an interrupt: there the interrupt handlers run, and the    *)
(* calls their hooks (INT 1C, INT 4A) make.                                *)
(***************************************************************************)
EXTENDS Integers, FiniteSets

CONSTANTS TicksPerDay, UsecPerRtc,
          ClockSets, WaitTimes, \* what callers ask for
          RtcSticks,            \* can an update last longer than 15 ms?
          MaxTicks, MaxWaits    \* bounds on interrupts and on waits

VARIABLES counter, rollover, \* timer_counter, timer_rollover of the BDA
          regB,              \* status register B; times and dates are left out
          call,              \* the call in rtc_updating, with what it has read
          waitFlag, timeout, \* rtc_wait_flag, user_wait_timeout
          users,             \* RTCusers of the EBDA
          preempt,           \* start_preempt holds the clock
          sleeper,           \* INT 15/86: "no", "waiting", "flagged"
          elapsed, seenDays, \* ticks since midnight of the day set; days reported
          asked, waited,     \* length of the wait, interrupts it has seen
          ticks, waits       \* bounded

clkVars == <<counter, rollover, regB, call, waitFlag, timeout, users, preempt, sleeper,
             elapsed, seenDays, asked, waited, ticks, waits>>
tickVars == <<counter, rollover, elapsed, seenDays, ticks>>
rtcVars == <<regB, call>>
waitVars == <<waitFlag, timeout, users, preempt, sleeper, asked, waited, waits>>

Bits == {"SET", "PIE", "AIE", "DSE", "24HR"}
NoCall == [fn |-> 0, b |-> {}]
LastTick(t) == IF t < TicksPerDay THEN t ELSE TicksPerDay - 1

\* timer_setup, with init_rtc
ClkInit == /\ counter \in ClockSets /\ counter < TicksPerDay /\ rollover = 0
           /\ regB \in {{"24HR"}, {"24HR", "DSE"}}
           /\ call = NoCall
           /\ waitFlag = FALSE /\ timeout = 0 /\ users = 0 /\ preempt = FALSE /\ sleeper = "no"
           /\ elapsed = counter /\ seenDays = 0 /\ asked = 0 /\ waited = 0
           /\ ticks = 0 /\ waits = 0

----------------------------------------------------------------------------

\* handle_08
Handle08 ==
    /\ ticks < MaxTicks
    /\ ticks' = ticks + 1
    /\ elapsed' = elapsed + 1
    /\ counter' = IF counter + 1 >= TicksPerDay THEN 0 ELSE counter + 1
    /\ rollover' = IF counter + 1 >= TicksPerDay THEN (rollover + 1) % 256 ELSE rollover
    /\ UNCHANGED <<rtcVars, waitVars, seenDays>>

\* handle_1a00: the caller adds the days it is told of.
Handle1a00 ==
    /\ seenDays' = seenDays + rollover
    /\ rollover' = 0
    /\ UNCHANGED <<rtcVars, waitVars, counter, elapsed, ticks>>

\* handle_1a01
Handle1a01(t) ==
    /\ counter' = t /\ rollover' = 0
    /\ elapsed' = LastTick(t) /\ seenDays' = 0
    /\ UNCHANGED <<rtcVars, waitVars, ticks>>

----------------------------------------------------------------------------
\* init_rtc
InitRtc(b) == (b \cap {"DSE"}) \cup {"24HR"}

\* Calls 02 to 06 of INT 1A enter rtc_updating; 06 has read register B, and is
\* refused when the alarm is on.
Handle1aEnter(fn) ==
    /\ call = NoCall
    /\ fn = 6 => "AIE" \notin regB
    /\ call' = [fn |-> fn, b |-> regB]
    /\ UNCHANGED <<tickVars, waitVars, regB>>

\* rtc_updating has returned; stuck: the update did not end in time.
Handle1aLeave(stuck, dse) ==
    LET b == IF stuck /\ call.fn \in {3, 5, 6} THEN InitRtc(regB) ELSE regB
        set == b \cap {"PIE", "AIE"}
        daylight == IF dse THEN {"DSE"} ELSE {}
    IN  /\ call # NoCall /\ (stuck => RtcSticks)
        /\ call' = NoCall
        /\ \/ /\ call.fn \in {2, 4}         \* read time, date
              /\ UNCHANGED regB
           \/ /\ call.fn = 3
              /\ regB' = set \cup {"24HR"} \cup daylight
           \/ /\ call.fn = 5
              /\ regB' = IF stuck THEN b ELSE b \ {"SET"}
           \/ /\ call.fn = 6
              /\ regB' = (call.b \ {"SET"}) \cup {"AIE"}
        /\ UNCHANGED <<tickVars, waitVars>>

\* handle_1a07
Handle1a07 ==
    /\ regB' = regB \ {"SET", "AIE"}
    /\ UNCHANGED <<tickVars, waitVars, call>>

----------------------------------------------------------------------------
\* useRTC
UseRTC == /\ users' = users + 1
          /\ regB' = IF users = 0 THEN regB \cup {"PIE"} ELSE regB

\* releaseRTC
ReleaseRTC == /\ users' = users - 1
              /\ regB' = IF users = 1 THEN regB \ {"PIE"} ELSE regB

\* set_usertimer
SetUsertimer(n) ==
    /\ waits < MaxWaits
    /\ ~waitFlag
    /\ waitFlag' = TRUE /\ timeout' = n
    /\ asked' = n /\ waited' = 0 /\ waits' = waits + 1
    /\ UseRTC

\* Mutation of ClearUsertimer: a wait that is over is cleared again.
ClearUsertimerAgain == waitFlag' = FALSE /\ ReleaseRTC

\* clear_usertimer
ClearUsertimer ==
    /\ waitFlag' = FALSE
    /\ IF waitFlag THEN ReleaseRTC ELSE UNCHANGED <<users, regB>>

\* handle_158300
Handle158300(n) == /\ SetUsertimer(n)
                   /\ UNCHANGED <<tickVars, call, preempt, sleeper>>

\* handle_158301
Handle158301 == /\ ClearUsertimer
                /\ waited' = IF waitFlag THEN 0 ELSE waited
                /\ UNCHANGED <<tickVars, call, timeout, preempt, sleeper, asked, waits>>

\* handle_1586: starts to wait, and returns when the flag is set.
Handle1586(n) == /\ sleeper = "no" /\ call = NoCall
                 /\ SetUsertimer(n)
                 /\ sleeper' = "waiting"
                 /\ UNCHANGED <<tickVars, call, preempt>>

Handle1586Return == /\ sleeper = "flagged" /\ call = NoCall
                    /\ sleeper' = "no"
                    /\ UNCHANGED <<tickVars, rtcVars, waitFlag, timeout, users, preempt, asked, waited, waits>>

\* start_preempt and finish_preempt of stacks.c hold the clock as well.
Preempt == /\ preempt' = ~preempt
           /\ IF preempt THEN ReleaseRTC ELSE UseRTC
           /\ UNCHANGED <<tickVars, call, waitFlag, timeout, sleeper, asked, waited, waits>>

\* handle_70, when a wait is active; without one it only acknowledges.
Handle70 ==
    /\ regB \cap {"PIE", "AIE"} # {} /\ waitFlag
    /\ waited' = waited + 1
    /\ IF timeout < UsecPerRtc
       THEN /\ sleeper' = IF sleeper = "waiting" THEN "flagged" ELSE sleeper
            /\ ClearUsertimer /\ UNCHANGED timeout
       ELSE timeout' = timeout - UsecPerRtc /\ UNCHANGED <<waitFlag, users, regB, sleeper>>
    /\ UNCHANGED <<tickVars, call, preempt, asked, waits>>

ClkNext == \/ Handle08 \/ Handle1a00 \/ Handle1a07 \/ Handle158301 \/ Handle1586Return
           \/ Preempt \/ Handle70
           \/ \E t \in ClockSets : Handle1a01(t)
           \/ \E fn \in 2..6 : Handle1aEnter(fn)
           \/ \E stuck, dse \in BOOLEAN : Handle1aLeave(stuck, dse)
           \/ \E n \in WaitTimes : Handle158300(n) \/ Handle1586(n)

ClkSpec == ClkInit /\ [][ClkNext]_clkVars

----------------------------------------------------------------------------
\* handle_08, handle_1a00, handle_1a01: a caller that adds the days it is told
\* of has the time since the clock was set, whatever ticks came between calls.
TimeKept == elapsed = (seenDays + rollover) * TicksPerDay + LastTick(counter)

\* useRTC, releaseRTC: the users counted are those there are: whoever ends a
\* wait, by the interrupt or by a call, it is released once.
UsersCounted == users = (IF waitFlag THEN 1 ELSE 0) + (IF preempt THEN 1 ELSE 0)

\* handle_70: a wait that was not cancelled took as many periods as fit in the
\* time asked for, and one.
WaitLength == ~waitFlag /\ waited # 0 => waited = (asked \div UsecPerRtc) + 1

\* handle_1a03, "RegB = ((RegB & 01100000b) | 00000010b)": setting the time
\* leaves the interrupts that are on. The code breaks it (README, "Stated and
\* refuted"), so no passing run lists it.
SetTimeKeepsInterrupts ==
    [][call.fn = 3 /\ call' = NoCall
          => regB \cap {"PIE", "AIE"} = regB' \cap {"PIE", "AIE"}]_clkVars

\* clock.c: ticks, users of the real-time clock and periods of a wait are counted
\* right, in whatever order calls and interrupts come.
ClockKept == TimeKept /\ UsersCounted /\ WaitLength
============================================================================
