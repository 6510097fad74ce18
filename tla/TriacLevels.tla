---------------------------- MODULE TriacLevels -----------------------------
(***************************************************************************)
(* The arithmetic of TriacDimmer (main/comp/triac_dim.cpp and .h): from a  *)
(* DALI level to the delay after the zero crossing at which the triac is   *)
(* fired, and the plan of a fade.                                          *)
(***************************************************************************)
EXTENDS Integers

Level == 0..255                  \* uint8_t

UInt16Range == 0..65535          \* uint16_t

UInt8(n)  == n % 256
UInt16(n) == n % 65536

Distance(x, y) == IF x < y THEN y - x ELSE x - y

\* raw_max + (raw_min - level * power_step) in microseconds, with raw_max 500,
\* raw_min 9500 and power_step 9000 / 253.0, cut to an integer.
RawLevel(level) == (2530000 - 9000 * level) \div 253

\* get_raw_fade_rate, in levels per second.  The rates 14 and 15 make no whole
\* level in 200 ms, where the division by the number of levels fails.
get_raw_fade_rate ==
    <<357, 253, 178, 126, 89, 63, 45, 32, 22, 16, 11, 8, 6, 4, 3>>

\* fade_calc with CALC_200_MS: how many levels are made in 200 ms, and the
\* level an up or a down command goes to.  The sum is kept in a uint8_t
\* before it is compared with the limit.
StepsIn200ms(rate) == (get_raw_fade_rate[rate] * 200) \div 1000

DestinationUp(actual, rate, max) ==
    LET des == UInt8(actual + StepsIn200ms(rate))
    IN  IF des >= max THEN max ELSE des

DestinationDown(actual, rate, min) ==
    LET des == UInt8(actual - StepsIn200ms(rate))
    IN  IF des <= min THEN min ELSE des

\* fade_calc: fade_param for a fade from actual to destination.  A fade of no
\* length keeps the step 1 (CALC_FADE_TIME is the only one that plans it).
fade_calc(actual, destination, dir) ==
    LET start == RawLevel(actual)
        stop  == RawLevel(destination)
        adim_sayisi == Distance(destination, actual)
    IN  [destination |-> destination,
         direction   |-> dir,
         step_start  |-> start,
         step_stop   |-> stop,
         step        |-> IF adim_sayisi = 0 THEN 1
                         ELSE Distance(stop, start) \div adim_sayisi]

\* Seeded fault: tmp is a uint8_t.
NextRaw_byte(tmp, p) ==
    UInt8(IF p.direction = "DIR_UP" THEN tmp - p.step ELSE tmp + p.step)

\* The loop of fade_task: the next delay (uint16_t), and whether it goes on.
NextRaw(tmp, p) ==
    UInt16(IF p.direction = "DIR_UP" THEN tmp - p.step ELSE tmp + p.step)

GoesOn(tmp, p) ==
    IF p.direction = "DIR_UP" THEN tmp > p.step_stop ELSE tmp < p.step_stop

\* The delays raw_level can give, and the steps fade_calc can plan.
RawDelay == 928..10000
FadeStep == 1..36
FadeParam == [destination : Level, direction : {"DIR_UP", "DIR_DOWN"},
              step_start : RawDelay, step_stop : RawDelay, step : FadeStep]
=============================================================================
