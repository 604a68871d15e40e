------------------------------ MODULE Timeval ------------------------------
(***************************************************************************)
(* timeval_subtract (main/utils.c): the difference of two times, computed  *)
(* by carrying between the fields of the caller's y.  The times are        *)
(* assumed far enough from the limits of time_t and int.                   *)
(***************************************************************************)
EXTENDS Integers

CONSTANTS Sec, Usec    \* the values of the fields of the arguments

ASSUME TimevalAssumption == Sec \subseteq Int /\ Usec \subseteq Int

VARIABLES x, y,        \* the arguments; y is updated
          y0,          \* *y as the caller passed it
          result, ret, \* *result and the return value
          done

tvVars == <<x, y, y0, result, ret, done>>

Timeval(S, U) == [tv_sec : S, tv_usec : U]

Million == 1000000

\* The time a timeval stands for, in microseconds.
Time(tv) == tv.tv_sec * Million + tv.tv_usec

TvInit == /\ x \in Timeval(Sec, Usec)
          /\ y \in Timeval(Sec, Usec)
          /\ y0 = y
          /\ result = [tv_sec |-> 0, tv_usec |-> 0]
          /\ ret = 0
          /\ done = FALSE

\* Mutation of Carry: the seconds are not adjusted.
CarryLost(v, n) == [tv_sec |-> v.tv_sec, tv_usec |-> v.tv_usec - Million * n]

\* Both carries add n seconds to v and take them from its microseconds.
Carry(v, n) == [tv_sec |-> v.tv_sec + n, tv_usec |-> v.tv_usec - Million * n]

Borrow(u, v) ==
  IF u.tv_usec < v.tv_usec
    THEN Carry(v, (v.tv_usec - u.tv_usec) \div Million + 1)
    ELSE v

Reduce(u, v) ==
  IF u.tv_usec - v.tv_usec > Million
    THEN Carry(v, -((u.tv_usec - v.tv_usec) \div Million))
    ELSE v

timeval_subtract ==
  /\ ~done
  /\ done' = TRUE
  /\ y' = Reduce(x, Borrow(x, y))
  /\ result' = [tv_sec |-> x.tv_sec - y'.tv_sec, tv_usec |-> x.tv_usec - y'.tv_usec]
  /\ ret' = IF x.tv_sec < y'.tv_sec THEN 1 ELSE 0
  /\ UNCHANGED <<x, y0>>

TvNext == timeval_subtract

TvSpec == TvInit /\ [][TvNext]_tvVars

----------------------------------------------------------------------------
(***************************************************************************)
(* The result is X - Y, and the caller's y, though rewritten, still stands *)
(* for the same time (utils.c:61-75).  No argument is excluded.            *)
(***************************************************************************)
Difference == done => /\ Time(result) = Time(x) - Time(y0)
                      /\ Time(y) = Time(y0)

(***************************************************************************)
(* tv_usec of the result is never negative and at most one second          *)
(* (utils.c:72-75).  One whole second does occur: the second carry tests   *)
(* > 1000000.                                                              *)
(***************************************************************************)
UsecInRange == done => 0 <= result.tv_usec /\ result.tv_usec <= Million

\* What gettimeofday returns.
Normal(tv) == 0 <= tv.tv_usec /\ tv.tv_usec < Million

(***************************************************************************)
(* "Return 1 if the difference is negative, otherwise 0" (utils.c:55), for *)
(* normalised arguments.                                                   *)
(***************************************************************************)
SignReturned == done /\ Normal(x) /\ Normal(y0) => (ret = 1 <=> Time(x) < Time(y0))
=============================================================================
