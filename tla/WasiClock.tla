----------------------------- MODULE WasiClock -----------------------------
(***************************************************************************)
(* w2c2/embedded/wasi.c, clock_time_get and poll_oneoff, and the guest     *)
(* that sleeps by them.  There is no timer: the clock is a counter of its  *)
(* own readings, and poll_oneoff, which should block until a timeout,      *)
(* returns success at once.  A language runtime that waits reads the       *)
(* clock, polls, and reads again until its deadline has passed; such a     *)
(* loop (the Go runtime's) is modelled here from how it uses the calls.    *)
(*                                                                         *)
(* A preview 2 guest has a clock that stands at 0 and a poll that returns  *)
(* just the same.                                                          *)
(*                                                                         *)
(* ticks is an int64_t, but "ticks += 1e8" adds in double: the sum is      *)
(* rounded to the mantissa and converted back.  Widths are scaled down.    *)
(***************************************************************************)
EXTENDS WasiStubs

CONSTANTS TIME_OFFSET, PSEUDOCLOCK_INCREMENTS,
          Int64Max,    \* 2^63 - 1
          Mantissa,    \* 2^53: the integers a double holds exactly
          Spacings,    \* how far apart neighbouring doubles are: 1, 2, 4, ...
          Sleeps,      \* how long the guest sleeps
          Horizon      \* bound: the guest starts nothing beyond this reading

ASSUME ClockAssumption ==
  /\ TIME_OFFSET \in Nat /\ PSEUDOCLOCK_INCREMENTS \in Nat
  /\ Int64Max \in Nat /\ Mantissa \in Nat \ {0} /\ Mantissa % 2 = 0
  /\ Sleeps \subseteq Nat /\ Horizon \in Nat

(* The powers of two, up to one that reaches the largest int64_t *)
ASSUME SpacingAssumption ==
  /\ Spacings \subseteq Nat \ {0}
  /\ \A u \in Spacings : u = 1 \/ \E w \in Spacings : u = 2 * w
  /\ \A u, v \in Spacings : u < v => v % (2 * u) = 0
  /\ \E u \in Spacings : Int64Max < Mantissa * u

(* How far a sum can be from the double it is rounded to *)
Rounding == Int64Max \div Mantissa

(* What is left of the int64_t suffices: 1e8 is more than the 1024 of
   rounding, and the clock wraps after 7.5e10 readings *)
ASSUME HorizonAssumption ==
  /\ PSEUDOCLOCK_INCREMENTS > Rounding
  /\ TIME_OFFSET < Horizon
  /\ Horizon + PSEUDOCLOCK_INCREMENTS + Rounding <= Int64Max

VARIABLES preview,   \* the WASI the guest was built for: 1 or 2
          ticks,     \* the static variable of clock_time_get
          reading,   \* the last value the guest got; 0 before the first
          deadline,  \* until when the guest sleeps
          pc         \* the guest: "awake", or asleep in "poll" or "look"

clock == <<preview, ticks, reading, deadline, pc>>
-----------------------------------------------------------------------------
FloatRound(x) ==   \* mutant: a float instead of a double
  LET u == CHOOSE u \in Spacings :
             x * 16 < Mantissa * u /\ (u = 1 \/ x * 32 >= Mantissa * u)
  IN (x \div u) * u

(* Of the doubles around x *)
Spacing(x) == CHOOSE u \in Spacings :
                x < Mantissa * u /\ (u = 1 \/ x * 2 >= Mantissa * u)

(* To the nearest double, ties to even *)
Round(x) ==
  LET u == Spacing(x)
      down == (x \div u) * u
  IN IF 2 * (x % u) < u \/ (2 * (x % u) = u /\ (x \div u) % 2 = 0) THEN down ELSE down + u

(* Back to int64_t: out of range, RISC-V saturates and amd64 gives the least *)
ToInt64(x) == IF x <= Int64Max THEN {x} ELSE {Int64Max, -Int64Max - 1}

Wrapped(x) == IF x <= Int64Max THEN x ELSE x - 2 * (Int64Max + 1)

DoubleTick ==     \* mutant: one tick more
  ticks' \in ToInt64(Round(Round(ticks) + 2 * PSEUDOCLOCK_INCREMENTS))

(* ticks += PSEUDOCLOCK_INCREMENTS *)
Tick == ticks' \in ToInt64(Round(Round(ticks) + PSEUDOCLOCK_INCREMENTS))

ClockInit == preview \in {1, 2} /\ ticks = 1 /\ reading = 0 /\ deadline = 0 /\ pc = "awake"

(* The sum that is stored wraps when it leaves the int64_t *)
clock_time_get == reading' = Wrapped(TIME_OFFSET + ticks) /\ Tick

StuckPoll == pc = "poll" /\ UNCHANGED clock    \* mutant: no event ever comes

(* There is nothing to wait for: in preview 2 the pollable that was
   subscribed is the number 0, and poll returns an unwritten list *)
poll_oneoff == /\ pc = "poll" /\ pc' = "look"
               /\ IF preview = 1 THEN Errno["poll_oneoff"] = SUCCESS
                  ELSE Direct["poll"] = "nothing" \/ AdapterFiles["poll"] = "nothing"
               /\ UNCHANGED <<preview, ticks, reading, deadline>>

(* wasi:clocks/monotonic-clock#now *)
now == /\ Adapter["now"] = "zero" /\ reading' = 0 /\ UNCHANGED ticks

Time == \/ preview = 1 /\ clock_time_get
        \/ preview = 2 /\ now
-----------------------------------------------------------------------------
AskTime == /\ pc = "awake" /\ reading < Horizon
           /\ Time
           /\ UNCHANGED <<preview, deadline, pc>>

FallAsleep(d) == /\ pc = "awake" /\ (preview = 1 => reading > 0)
                 /\ reading + d <= Horizon
                 /\ deadline' = reading + d
                 /\ pc' = "poll"
                 /\ UNCHANGED <<preview, ticks, reading>>

Look == /\ pc = "look"
        /\ Time
        /\ pc' = IF reading' >= deadline THEN "awake" ELSE "poll"
        /\ UNCHANGED <<preview, deadline>>

Sleep == poll_oneoff \/ Look
-----------------------------------------------------------------------------
(* Every reading is later than the one before it (wasi.h: the monotonic
   clock "cannot have negative clock jumps"), although the counter loses
   its low bits to the mantissa as it grows. *)
Monotonic ==
  [][reading # 0 /\ (ticks' # ticks \/ pc = "look") => reading' > reading]_clock

(* A sleep takes no less than it was asked for, and at most an increment
   and the rounding of one more. *)
OnTime == [][pc = "look" /\ pc' = "awake" =>
               /\ reading' >= deadline
               /\ reading' <= deadline + PSEUDOCLOCK_INCREMENTS + Rounding]_clock

(* A sleeping preview 1 guest wakes, although nothing but its own polling
   moves the clock. *)
SleeperWakes == pc = "poll" /\ preview = 1 ~> pc = "awake"
=============================================================================
