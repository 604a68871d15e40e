--------------------------- MODULE TimevalProofs ---------------------------
(* timeval_subtract is right for all arguments. *)
EXTENDS Timeval, TLAPS

Times == Timeval(Int, Int)

\* A carry moves whole seconds between the fields and keeps the time.
LEMMA CarryKeepsTime ==
  ASSUME NEW v \in Times, NEW n \in Int
  PROVE  /\ Carry(v, n) \in Times
         /\ Time(Carry(v, n)) = Time(v)
         /\ Carry(v, n).tv_usec = v.tv_usec - Million * n
  BY SMT DEF Million, Times, Timeval, Carry, Time

\* The first carry leaves no microseconds of v above those of u.
LEMMA BorrowEnough ==
  ASSUME NEW u \in Times, NEW v \in Times
  PROVE  /\ Borrow(u, v) \in Times
         /\ Time(Borrow(u, v)) = Time(v)
         /\ u.tv_usec >= Borrow(u, v).tv_usec
  <1> DEFINE d == v.tv_usec - u.tv_usec
             n == d \div Million + 1
  <1>1. u.tv_usec \in Int /\ v.tv_usec \in Int /\ d \in Int /\ n \in Int
    BY SMT DEF Million, Times, Timeval
  <1>2. d < Million * n
    BY <1>1, SMT DEF Million
  <1>3. CASE u.tv_usec < v.tv_usec
    <2>1. Borrow(u, v) = Carry(v, n)
      BY <1>3, SMT DEF Million, Borrow
    <2> HIDE DEF n
    <2>2. /\ Carry(v, n) \in Times
          /\ Time(Carry(v, n)) = Time(v)
          /\ Carry(v, n).tv_usec = v.tv_usec - Million * n
      BY <1>1, CarryKeepsTime, Zenon
    <2>3. v.tv_usec - Million * n <= u.tv_usec
      BY <1>1, <1>2, SMT DEF Million
    <2>4. QED
      BY <2>1, <2>2, <2>3, <1>1, SMT DEF Million
  <1>4. CASE ~(u.tv_usec < v.tv_usec)
    BY <1>1, <1>4, SMT DEF Million, Borrow
  <1>5. QED
    BY <1>3, <1>4, SMT DEF Million

\* The second carry leaves at most one second between them.
LEMMA ReduceEnough ==
  ASSUME NEW u \in Times, NEW v \in Times, u.tv_usec >= v.tv_usec
  PROVE  /\ Reduce(u, v) \in Times
         /\ Time(Reduce(u, v)) = Time(v)
         /\ 0 <= u.tv_usec - Reduce(u, v).tv_usec
         /\ u.tv_usec - Reduce(u, v).tv_usec <= Million
  <1> DEFINE d == u.tv_usec - v.tv_usec
             n == d \div Million
  <1>1. u.tv_usec \in Int /\ v.tv_usec \in Int /\ d \in Int /\ n \in Int
    BY SMT DEF Million, Times, Timeval
  <1>2. Million * n <= d /\ d < Million * n + Million
    BY <1>1, SMT DEF Million
  <1>3. CASE d > Million
    <2>1. Reduce(u, v) = Carry(v, -n)
      BY <1>3, SMT DEF Million, Reduce
    <2> HIDE DEF n
    <2>2. -n \in Int /\ Million * (-n) = -(Million * n)
      BY <1>1, SMT DEF Million
    <2>3. /\ Carry(v, -n) \in Times
          /\ Time(Carry(v, -n)) = Time(v)
          /\ Carry(v, -n).tv_usec = v.tv_usec - Million * (-n)
      BY <2>2, CarryKeepsTime, Zenon
    <2>4. Carry(v, -n).tv_usec = v.tv_usec + Million * n
      BY <1>1, <2>2, <2>3, SMT DEF Million
    <2>5. QED
      BY <2>1, <2>3, <2>4, <1>1, <1>2, SMT DEF Million
  <1>4. CASE ~(d > Million)
    <2>1. Reduce(u, v) = v
      BY <1>4, SMT DEF Million, Reduce
    <2>2. QED
      BY <1>1, <1>4, <2>1, SMT DEF Million
  <1>5. QED
    BY <1>3, <1>4, SMT DEF Million

\* Of normalised times, less than one second.
LEMMA NormalDifference ==
  ASSUME NEW u \in Times, NEW v \in Times, Normal(u), Normal(v)
  PROVE  u.tv_usec - Reduce(u, Borrow(u, v)).tv_usec < Million
  <1>1. /\ u.tv_usec \in Int /\ v.tv_usec \in Int
        /\ 0 <= u.tv_usec /\ u.tv_usec < Million
        /\ 0 <= v.tv_usec /\ v.tv_usec < Million
    BY SMT DEF Million, Times, Timeval, Normal
  <1>2. CASE u.tv_usec < v.tv_usec
    <2>1. (v.tv_usec - u.tv_usec) \div Million = 0
      BY <1>1, <1>2, SMT DEF Million
    <2>2. Borrow(u, v).tv_usec = v.tv_usec - Million
      BY <1>1, <1>2, <2>1, SMT DEF Million, Borrow, Carry
    <2>3. Reduce(u, Borrow(u, v)) = Borrow(u, v)
      BY <1>1, <1>2, <2>2, SMT DEF Million, Reduce
    <2>4. QED
      BY <1>1, <1>2, <2>2, <2>3, SMT DEF Million
  <1>3. CASE ~(u.tv_usec < v.tv_usec)
    <2>1. Borrow(u, v) = v
      BY <1>3, SMT DEF Million, Borrow
    <2>2. Reduce(u, v) = v
      BY <1>1, <1>3, SMT DEF Million, Reduce
    <2>3. QED
      BY <1>1, <2>1, <2>2, SMT DEF Million
  <1>4. QED
    BY <1>2, <1>3, SMT DEF Million

\* The arguments stay times; the rest is what the three properties say.
IInv == /\ x \in Times /\ y0 \in Times
        /\ ~done => y = y0
        /\ done \in BOOLEAN
        /\ Difference /\ UsecInRange /\ SignReturned

\* Before the call there is nothing to show but the types.
LEMMA InitIInv == TvInit => IInv
  <1> SUFFICES ASSUME TvInit PROVE IInv
    OBVIOUS
  <1>1. x \in Times /\ y \in Times
    <2>1. Timeval(Sec, Usec) \subseteq Times
      <3> SUFFICES ASSUME NEW tv \in Timeval(Sec, Usec) PROVE tv \in Times
        OBVIOUS
      <3>1. /\ tv = [tv_sec |-> tv.tv_sec, tv_usec |-> tv.tv_usec]
            /\ tv.tv_sec \in Sec /\ tv.tv_usec \in Usec
        BY SMT DEF Timeval
      <3>2. tv.tv_sec \in Int /\ tv.tv_usec \in Int
        BY <3>1, TimevalAssumption
      <3>3. QED
        BY <3>1, <3>2, SMT DEF Times, Timeval
    <2>2. QED
      BY <2>1, Zenon DEF TvInit
  <1>2. QED
    BY <1>1, Zenon DEF TvInit, IInv, Difference, UsecInRange, SignReturned

\* One call establishes the three properties.
LEMMA NextIInv == IInv /\ [TvNext]_tvVars => IInv'
  <1> SUFFICES ASSUME IInv, [TvNext]_tvVars PROVE IInv'
    OBVIOUS
  <1>1. CASE timeval_subtract
    <2> DEFINE v == Reduce(x, Borrow(x, y))
    <2>1. x \in Times /\ y \in Times /\ y = y0
      BY <1>1, SMT DEF Million, IInv, timeval_subtract
    <2>2. v \in Times /\ Time(v) = Time(y0) 
          /\ 0 <= x.tv_usec - v.tv_usec /\ x.tv_usec - v.tv_usec <= Million
      BY <2>1, BorrowEnough, ReduceEnough, SMT DEF Million
    <2>n. Normal(x) /\ Normal(y0) => x.tv_usec - v.tv_usec < Million
      BY <2>1, NormalDifference, SMT DEF Million
    <2> HIDE DEF v
    <2>3. y' = v /\ x' = x /\ y0' = y0 /\ done'
          /\ result' = [tv_sec |-> x.tv_sec - v.tv_sec, tv_usec |-> x.tv_usec - v.tv_usec]
          /\ ret' = IF x.tv_sec < v.tv_sec THEN 1 ELSE 0
      BY <1>1, SMT DEF Million, timeval_subtract, v
    <2>4. /\ x.tv_sec \in Int /\ x.tv_usec \in Int /\ v.tv_sec \in Int /\ v.tv_usec \in Int
          /\ y0.tv_sec \in Int /\ y0.tv_usec \in Int
      BY <2>1, <2>2, SMT DEF Million, Times, Timeval
    <2>5. Difference'
      BY <2>2, <2>3, <2>4, SMT DEF Million, Difference, Time
    <2>6. UsecInRange'
      BY <2>2, <2>3, SMT DEF Million, UsecInRange
    <2>7. SignReturned'
      <3>1. Normal(x) /\ Normal(y0) => (x.tv_sec < v.tv_sec <=> Time(x) < Time(y0))
        BY <2>2, <2>4, <2>n, SMT DEF Million, Time
      <3>2. QED
        BY <2>3, <3>1, SMT DEF Million, SignReturned, Normal, Time
    <2>8. QED
      BY <2>1, <2>3, <2>5, <2>6, <2>7, SMT DEF Million, IInv
  <1>2. CASE UNCHANGED tvVars
    BY <1>2, SMT DEF Million, IInv, tvVars, Difference, UsecInRange, SignReturned, Time, Normal
  <1>3. QED
    BY <1>1, <1>2, SMT DEF Million, TvNext

(***************************************************************************)
(* For all integer fields, timeval_subtract stores X - Y and leaves the    *)
(* time in y as it was (utils.c:57-79).                                    *)
(***************************************************************************)
THEOREM Subtracts == TvSpec => []Difference
  <1>1. IInv => Difference
    BY SMT DEF Million, IInv
  <1>2. QED
    BY <1>1, InitIInv, NextIInv, PTL DEF TvSpec

(***************************************************************************)
(* For all integer fields, tv_usec of the result is within a second, and   *)
(* for normalised arguments the return value is the sign (utils.c:55-79).  *)
(***************************************************************************)
THEOREM ResultInRange == TvSpec => [](UsecInRange /\ SignReturned)
  <1>1. IInv => UsecInRange /\ SignReturned
    BY SMT DEF Million, IInv
  <1>2. QED
    BY <1>1, InitIInv, NextIInv, PTL DEF TvSpec
=============================================================================
