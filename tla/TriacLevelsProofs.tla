------------------------- MODULE TriacLevelsProofs --------------------------
(***************************************************************************)
(* What is proved of the arithmetic of TriacLevels, which both dimmers     *)
(* use: plans and delays stay in range, for all levels.                    *)
(***************************************************************************)
EXTENDS TriacLevels, TLAPS

-----------------------------------------------------------------------------
(* Delays and plans.                                                       *)

\* Every level has a delay between 928 and 10000 us.
LEMMA RawLevelRange == \A l \in Level : RawLevel(l) \in RawDelay
BY DEF Level, RawLevel, RawDelay

\* It is a whole number of them.
LEMMA RawLevelIsInt == \A l \in Level : RawLevel(l) \in Int
BY DEF Level, RawLevel

\* A distance is a natural number.
LEMMA DistanceIsNat == \A x, y \in Int : Distance(x, y) \in Nat
BY DEF Distance

\* A level is worth 35 to 36 us, over any distance.
LEMMA RawLevelSlope ==
    \A a, b \in Level :
        /\ 35 * Distance(b, a) <= Distance(RawLevel(b), RawLevel(a))
        /\ Distance(RawLevel(b), RawLevel(a)) <= 36 * Distance(b, a)
BY DEF Level, RawLevel, Distance

\* So the whole part of a distance divided by its levels is 35 or 36.
LEMMA QuotientBound ==
    \A n \in Nat, d \in Nat \ {0} : 35 * d <= n /\ n <= 36 * d => n \div d \in 35..36
<1> SUFFICES ASSUME NEW n \in Nat, NEW d \in Nat \ {0}, 35 * d <= n, n <= 36 * d
             PROVE  n \div d \in 35..36
  OBVIOUS
<1> DEFINE q == n \div d
<1>1. q \in Nat /\ q * d <= n /\ n < (q + 1) * d
  OBVIOUS
<1> HIDE DEF q
<1>2. q <= 36
  <2> SUFFICES ASSUME q >= 37 PROVE FALSE
    BY <1>1
  <2>1. q * d >= 37 * d
    BY <1>1
  <2> QED
    BY <1>1, <2>1
<1>3. q >= 35
  <2> SUFFICES ASSUME q + 1 <= 35 PROVE FALSE
    BY <1>1
  <2>1. (q + 1) * d <= 35 * d
    BY <1>1
  <2> QED
    BY <1>1, <2>1
<1> QED
  BY <1>1, <1>2, <1>3 DEF q

\* fade_calc plans delays and steps in range for any two levels.
LEMMA FadeCalcInRange ==
    ASSUME NEW a \in Level, NEW d \in Level, NEW dir \in {"DIR_UP", "DIR_DOWN"}
    PROVE  fade_calc(a, d, dir) \in FadeParam
<1> DEFINE n == Distance(d, a)
           total == Distance(RawLevel(d), RawLevel(a))
<1>1. RawLevel(a) \in RawDelay /\ RawLevel(d) \in RawDelay
  BY RawLevelRange
<1>2. n \in Nat
  BY DistanceIsNat DEF Level
<1>3. total \in Nat
  BY RawLevelIsInt, DistanceIsNat
<1>4. 35 * n <= total /\ total <= 36 * n
  BY RawLevelSlope
<1> HIDE DEF n, total
<1>5. (IF n = 0 THEN 1 ELSE total \div n) \in FadeStep
  <2>1. CASE n = 0
    BY <2>1 DEF FadeStep
  <2>2. CASE n # 0
    <3>1. total \div n \in 35..36
      BY <1>2, <1>3, <1>4, <2>2, QuotientBound
    <3> QED
      BY <2>2, <3>1 DEF FadeStep
  <2> QED
    BY <2>1, <2>2
<1> QED
  BY <1>1, <1>5 DEF fade_calc, FadeParam, n, total

\* A number of 16 bits is not changed by keeping it in 16 bits.
LEMMA FitsUInt16 == \A n \in Int : 0 <= n /\ n <= 65535 => UInt16(n) = n
BY DEF UInt16

\* Any number kept in 16 bits is one of 16 bits.
LEMMA UInt16InRange == \A n \in Int : UInt16(n) \in UInt16Range
BY DEF UInt16, UInt16Range

\* The delays are of 16 bits.
LEMMA DelaysFit == \A n \in RawDelay : n \in UInt16Range
<1> SUFFICES ASSUME NEW n \in RawDelay PROVE n \in UInt16Range
  OBVIOUS
<1>1. n \in Int /\ 0 <= n /\ n <= 65535
  BY DEF RawDelay
<1>2. UInt16(n) = n /\ UInt16(n) \in UInt16Range
  BY <1>1, FitsUInt16, UInt16InRange
<1> QED
  BY <1>2

\* Between a delay in range and a limit in range lie only delays in range.
LEMMA Between ==
    \A t, e, s \in Int :
        /\ 928 <= t /\ t <= 10000 /\ 928 <= e /\ e <= 10000 /\ 0 <= s
        => /\ t - s > e => t - s \in 928..10000
           /\ t + s < e => t + s \in 928..10000
OBVIOUS

\* The delay a task goes on with is one raw_level could have given: it has
\* not wrapped round, whichever plan it follows.
LEMMA NextRawInRange ==
    ASSUME NEW tmp \in RawDelay, NEW p \in FadeParam, GoesOn(NextRaw(tmp, p), p)
    PROVE  NextRaw(tmp, p) \in RawDelay
<1> DEFINE s == p.step
           e == p.step_stop
<1>1. s \in FadeStep /\ e \in RawDelay
  BY DEF FadeParam
<1> HIDE DEF s, e
<1>2. CASE p.direction = "DIR_UP"
  <2>1. tmp - s \in Int /\ 0 <= tmp - s /\ tmp - s <= 10000
    BY <1>1 DEF RawDelay, FadeStep
  <2>2. NextRaw(tmp, p) = tmp - s
    <3>1. UInt16(tmp - s) = tmp - s
      BY <2>1, FitsUInt16
    <3> QED
      BY <1>2, <3>1 DEF NextRaw, s
  <2>3. NextRaw(tmp, p) > e
    BY <1>2 DEF GoesOn, e
  <2>4. tmp - s > e
    BY <2>2, <2>3
  <2>5. tmp - s \in RawDelay
    <3>1. /\ tmp \in Int /\ 928 <= tmp /\ tmp <= 10000
          /\ e \in Int /\ 928 <= e /\ e <= 10000 /\ s \in Int /\ 0 <= s
      BY <1>1 DEF RawDelay, FadeStep
    <3> QED
      BY <2>4, <3>1, Between DEF RawDelay
  <2> QED
    BY <2>2, <2>5
<1>3. CASE p.direction # "DIR_UP"
  <2>1. tmp + s \in Int /\ 928 <= tmp + s /\ tmp + s <= 65535
    BY <1>1 DEF RawDelay, FadeStep
  <2>2. NextRaw(tmp, p) = tmp + s
    <3>1. UInt16(tmp + s) = tmp + s
      BY <2>1, FitsUInt16
    <3> QED
      BY <1>3, <3>1 DEF NextRaw, s
  <2>3. NextRaw(tmp, p) < e
    BY <1>3 DEF GoesOn, e
  <2>4. tmp + s < e
    BY <2>2, <2>3
  <2>5. tmp + s \in RawDelay
    <3>1. /\ tmp \in Int /\ 928 <= tmp /\ tmp <= 10000
          /\ e \in Int /\ 928 <= e /\ e <= 10000 /\ s \in Int /\ 0 <= s
      BY <1>1 DEF RawDelay, FadeStep
    <3> QED
      BY <2>4, <3>1, Between DEF RawDelay
  <2> QED
    BY <2>2, <2>5
<1> QED
  BY <1>2, <1>3

\* What is written to tmp fits its width, whatever it is.
LEMMA NextRawIsUInt16 ==
    ASSUME NEW tmp \in UInt16Range, NEW p \in FadeParam
    PROVE  NextRaw(tmp, p) \in UInt16Range
<1> DEFINE s == p.step
<1>1. s \in FadeStep
  BY DEF FadeParam
<1> HIDE DEF s
<1>2. tmp - s \in Int /\ tmp + s \in Int
  BY <1>1 DEF UInt16Range, FadeStep
<1>3. UInt16(tmp - s) \in UInt16Range /\ UInt16(tmp + s) \in UInt16Range
  BY <1>2, UInt16InRange
<1> QED
  BY <1>3 DEF NextRaw, s

\* A rate that fade_rate names makes a natural number of levels in 200 ms.
LEMMA StepsAreNat == ASSUME NEW rate \in 1..15 PROVE StepsIn200ms(rate) \in Nat
<1>1. get_raw_fade_rate[rate] \in Nat
  BY DEF get_raw_fade_rate
<1> QED
  BY <1>1 DEF StepsIn200ms

\* What is kept in a uint8_t is a level.
LEMMA UInt8IsLevel == \A n \in Int : UInt8(n) \in Level
BY DEF UInt8, Level
-----------------------------------------------------------------------------
(* The way of a fade: from the start of its plan it comes nearer to the    *)
(* stop with each step, and ends within one step of it.                    *)

\* The delay is on the side of the stop that the fade comes from.
OnWay(tmp, p) ==
    IF p.direction = "DIR_UP" THEN tmp >= p.step_stop ELSE tmp <= p.step_stop

\* A higher level is fired no later.
LEMMA RawLevelFalls == \A a, d \in Level : a <= d => RawLevel(d) <= RawLevel(a)
BY DEF Level, RawLevel

\* A plan whose direction is that of its levels starts on its way.
LEMMA PlanStartsOnWay ==
    ASSUME NEW a \in Level, NEW d \in Level
    PROVE  LET p == fade_calc(a, d, IF a > d THEN "DIR_DOWN" ELSE "DIR_UP")
           IN  OnWay(p.step_start, p)
<1>1. a \in Int /\ d \in Int /\ RawLevel(a) \in Int /\ RawLevel(d) \in Int
  BY RawLevelIsInt DEF Level
<1>2. a <= d => RawLevel(d) <= RawLevel(a)
  BY RawLevelFalls
<1>3. a > d => RawLevel(a) <= RawLevel(d)
  BY <1>1, RawLevelFalls
<1> QED
  BY <1>1, <1>2, <1>3 DEF fade_calc, OnWay

\* A fade on its way goes on, still on its way, or ends within a step.
LEMMA FadeNearsItsStop ==
    ASSUME NEW tmp \in RawDelay, NEW p \in FadeParam, OnWay(tmp, p)
    PROVE  /\ GoesOn(NextRaw(tmp, p), p) => OnWay(NextRaw(tmp, p), p)
           /\ ~GoesOn(NextRaw(tmp, p), p) => Distance(tmp, p.step_stop) <= 36
<1> DEFINE s == p.step
           e == p.step_stop
<1>1. s \in FadeStep /\ e \in RawDelay
  BY DEF FadeParam
<1> HIDE DEF s, e
<1>2. /\ tmp \in Int /\ s \in Int /\ e \in Int /\ 0 <= s /\ s <= 36
      /\ 0 <= tmp - s /\ tmp - s <= 65535 /\ 0 <= tmp + s /\ tmp + s <= 65535
  BY <1>1 DEF RawDelay, FadeStep
<1>3. UInt16(tmp - s) = tmp - s /\ UInt16(tmp + s) = tmp + s
  BY <1>2, FitsUInt16
<1>4. NextRaw(tmp, p) = IF p.direction = "DIR_UP" THEN tmp - s ELSE tmp + s
  BY <1>3 DEF NextRaw, s
<1>5. GoesOn(NextRaw(tmp, p), p) => OnWay(NextRaw(tmp, p), p)
  BY <1>2, <1>4 DEF GoesOn, OnWay, e
<1>6. ~GoesOn(NextRaw(tmp, p), p) => Distance(tmp, e) <= 36
  <2>1. /\ tmp >= e /\ ~(tmp - s > e) => Distance(tmp, e) <= 36
        /\ tmp <= e /\ ~(tmp + s < e) => Distance(tmp, e) <= 36
    BY <1>2 DEF Distance
  <2> QED
    BY <1>4, <2>1 DEF GoesOn, OnWay, e
<1> QED
  BY <1>5, <1>6 DEF e
=============================================================================
