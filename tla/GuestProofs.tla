---------------------------- MODULE GuestProofs ----------------------------
(***************************************************************************)
(* Proofs about what a guest relies on.                                    *)
(*                                                                         *)
(* WasiClock.tla and WasiGuest.tla, for every time offset, increment and   *)
(* precision of the floating-point sum: readings only grow, a sleep ends   *)
(* no earlier than asked and no more than an increment and a rounding      *)
(* later, and a runtime that clears its result variables is never told of  *)
(* anything that is not there.                                             *)
(*                                                                         *)
(* Witness.tla, for every base of bytes, program of values and damage: the *)
(* offset stays in the file, the values arrive in order, and what has been *)
(* read encodes to the bytes consumed.  The last two need that one value   *)
(* is decoded to what was encoded (RoundTrips) and back (Exact), which is  *)
(* proved for the byte slices that main() reads.                           *)
(***************************************************************************)
EXTENDS WasiGuest, Witness, SequenceTheorems, WellFoundedInduction, TLAPS

(* A set of numbers that has a member has a least one *)
LEMMA Least ==
  ASSUME NEW S, S \subseteq Nat, S # {}
  PROVE  \E x \in S : \A y \in S : x <= y
<1>1. PICK x \in S : \A y \in S : ~ (<<y, x>> \in OpToRel(<, Nat))
  BY NatLessThanWellFounded, WFMin
<1>2. \A y \in S : ~ (y < x)
  BY <1>1 DEF OpToRel
<1> QED BY <1>2

(* Quotient and remainder *)
LEMMA Division ==
  ASSUME NEW x \in Nat, NEW u \in Nat \ {0}
  PROVE  /\ (x \div u) \in Nat /\ (x % u) \in 0 .. u - 1
         /\ x = u * (x \div u) + (x % u)
OBVIOUS

LEMMA Multiple ==
  ASSUME NEW q \in Nat, NEW u \in Nat \ {0}
  PROVE  ((q * u) \div u) = q /\ ((q * u) % u) = 0
OBVIOUS

LEMMA Product ==
  ASSUME NEW a \in Nat, NEW b \in Nat, NEW c \in Nat
  PROVE  /\ a * b \in Nat /\ a * b = b * a /\ a * (b * c) = (a * b) * c
         /\ (a + 1) * b = a * b + b
         /\ a <= b => a * c <= b * c
OBVIOUS

(* Rounds to the nearest multiple of u *)
Nearest(x, u) ==
  IF 2 * (x % u) < u \/ (2 * (x % u) = u /\ (x \div u) % 2 = 0)
  THEN (x \div u) * u ELSE (x \div u) * u + u

LEMMA NearestFacts ==
  ASSUME NEW x \in Nat, NEW u \in Nat \ {0}
  PROVE  /\ \E q \in {x \div u, (x \div u) + 1} : Nearest(x, u) = q * u
         /\ 2 * Nearest(x, u) <= 2 * x + u /\ 2 * x <= 2 * Nearest(x, u) + u
         /\ (x % u) = 0 => Nearest(x, u) = x
<1> DEFINE q == x \div u
           r == x % u
<1>1. q \in Nat /\ r \in 0 .. u - 1 /\ x = u * q + r
  BY Division
<1>2. u * q = q * u /\ q * u \in Nat /\ (q + 1) * u = q * u + u
  BY <1>1
<1>3. Nearest(x, u) = IF 2 * r < u \/ (2 * r = u /\ q % 2 = 0) THEN q * u ELSE q * u + u
  BY DEF Nearest
<1> HIDE DEF q, r
<1>4. Nearest(x, u) = q * u \/ Nearest(x, u) = (q + 1) * u
  BY <1>2, <1>3
<1>5. 2 * Nearest(x, u) <= 2 * x + u /\ 2 * x <= 2 * Nearest(x, u) + u
  <2> DEFINE m == q * u
  <2>1. m \in Nat /\ x = m + r /\ r \in 0 .. u - 1
    BY <1>1, <1>2
  <2>2. \/ 2 * r <= u /\ Nearest(x, u) = m
        \/ 2 * r >= u /\ Nearest(x, u) = m + u
    BY <1>1, <1>3
  <2> HIDE DEF m
  <2> QED BY <2>1, <2>2
<1>6. r = 0 => Nearest(x, u) = x
  BY <1>1, <1>2, <1>3
<1> QED BY <1>4, <1>5, <1>6 DEF q, r

(* The doubles around x are so far apart that Mantissa of them reach x, and
   half as many do not. *)
LEMMA SpacingExists ==
  ASSUME NEW x \in 0 .. Int64Max
  PROVE  /\ Spacing(x) \in Spacings /\ x < Mantissa * Spacing(x)
         /\ Spacing(x) = 1 \/ 2 * x >= Mantissa * Spacing(x)
<1> USE ClockAssumption, SpacingAssumption
<1> DEFINE S == {u \in Spacings : x < Mantissa * u}
<1>1. S \subseteq Nat /\ S # {}
  <2>1. PICK u \in Spacings : Int64Max < Mantissa * u
    OBVIOUS
  <2>2. x < Mantissa * u
    BY <2>1
  <2> QED BY <2>2
<1>2. PICK u \in S : \A y \in S : u <= y
  BY <1>1, Least
<1>3. u = 1 \/ 2 * x >= Mantissa * u
  <2>1. CASE u # 1
    <3>1. PICK w \in Spacings : u = 2 * w
      BY <2>1
    <3>2. w \in Nat /\ w > 0 /\ w < u
      BY <3>1
    <3>3. w \notin S
      BY <1>2, <3>2
    <3>4. x >= Mantissa * w
      BY <3>1, <3>2, <3>3
    <3>5. Mantissa * u = 2 * (Mantissa * w)
      BY <3>1, <3>2
    <3> QED BY <3>4, <3>5, <3>2
  <2> QED BY <2>1
<1>4. \E v \in Spacings : x < Mantissa * v /\ (v = 1 \/ x * 2 >= Mantissa * v)
  BY <1>2, <1>3
<1>5. /\ Spacing(x) \in Spacings /\ x < Mantissa * Spacing(x)
      /\ Spacing(x) = 1 \/ x * 2 >= Mantissa * Spacing(x)
  BY <1>4, Zenon DEF Spacing
<1> QED BY <1>5

LEMMA RoundIsNearest == \A x : Round(x) = Nearest(x, Spacing(x))
BY DEF Round, Nearest

(* A sum is at most the Mantissa-th part of itself away from its double *)
LEMMA RoundError ==
  ASSUME NEW x \in 0 .. Int64Max
  PROVE  Round(x) \in Nat /\ x - Rounding <= Round(x) /\ Round(x) <= x + Rounding
<1>1. PICK u \in Spacings : /\ u = Spacing(x)
                            /\ x < Mantissa * u
                            /\ u = 1 \/ 2 * x >= Mantissa * u
  BY SpacingExists
<1>2. /\ x \in Nat /\ u \in Nat \ {0} /\ Round(x) = Nearest(x, u)
      /\ Mantissa \in Nat \ {0} /\ Int64Max \in Nat /\ x <= Int64Max
  BY <1>1, RoundIsNearest, ClockAssumption, SpacingAssumption
<1>3. PICK q \in {x \div u, (x \div u) + 1} : Round(x) = q * u
  BY <1>2, NearestFacts
<1>4. (x \div u) \in Nat
  BY <1>2, Division
<1>5. q \in Nat /\ q * u \in Nat
  BY <1>2, <1>4, Product
<1>6. /\ Round(x) \in Nat
      /\ 2 * Round(x) <= 2 * x + u /\ 2 * x <= 2 * Round(x) + u
  BY <1>2, <1>3, <1>5, NearestFacts
<1>7. Rounding \in Nat /\ Int64Max < Mantissa * (Rounding + 1)
  <2>1. /\ Rounding \in Nat
        /\ Int64Max = Mantissa * Rounding + (Int64Max % Mantissa)
        /\ (Int64Max % Mantissa) \in 0 .. Mantissa - 1
    BY <1>2, Division DEF Rounding
  <2>2. /\ (Rounding + 1) * Mantissa = Rounding * Mantissa + Mantissa
        /\ Mantissa * (Rounding + 1) = (Rounding + 1) * Mantissa
        /\ Mantissa * Rounding = Rounding * Mantissa /\ Rounding * Mantissa \in Nat
    BY <1>2, <2>1, Product
  <2> QED BY <1>2, <2>1, <2>2
<1>8. CASE u = 1
  BY <1>2, <1>6, <1>7, <1>8
<1>9. CASE u # 1
  <2>1. PICK w \in Spacings : u = 2 * w
    BY <1>9, SpacingAssumption
  <2>2. w \in Nat /\ Mantissa * u = 2 * (Mantissa * w) /\ Mantissa * w \in Nat
    BY <1>2, <2>1, SpacingAssumption
  <2>3. Mantissa * w <= x
    BY <1>1, <1>2, <1>9, <2>2
  <2>4. w <= Rounding
    <3>1. SUFFICES ASSUME Rounding + 1 <= w PROVE FALSE
      BY <1>7, <2>2
    <3>2. (Rounding + 1) * Mantissa <= w * Mantissa
      BY <1>2, <1>7, <2>2, <3>1, Product
    <3>3. /\ (Rounding + 1) * Mantissa = Mantissa * (Rounding + 1)
          /\ w * Mantissa = Mantissa * w
          /\ Mantissa * (Rounding + 1) \in Nat
      BY <1>2, <1>7, <2>2, Product
    <3> QED BY <1>2, <1>7, <2>2, <2>3, <3>2, <3>3
  <2>5. Round(x) <= x + w /\ x <= Round(x) + w
    BY <1>2, <1>6, <2>1, <2>2
  <2> QED BY <1>2, <1>6, <1>7, <2>2, <2>4, <2>5
<1> QED BY <1>8, <1>9

(* Two spacings are equal or one divides the other at least in half *)
LEMMA SpacingHalves ==
  ASSUME NEW u \in Spacings, NEW v \in Spacings, u < v
  PROVE  \E k \in Nat \ {0} : v = k * (2 * u)
<1>1. u \in Nat \ {0} /\ v \in Nat \ {0} /\ 2 * u \in Nat \ {0} /\ (v % (2 * u)) = 0
  BY SpacingAssumption
<1> DEFINE k == v \div (2 * u)
<1>2. k \in Nat /\ v = (2 * u) * k + (v % (2 * u))
  BY <1>1, Division
<1> HIDE DEF k
<1>3. v = (2 * u) * k
  <2> DEFINE m == (2 * u) * k
  <2>1. m \in Nat
    BY <1>1, <1>2, Product
  <2> QED BY <1>1, <1>2, <2>1
<1>4. v = k * (2 * u)
  BY <1>1, <1>2, <1>3, Product
<1>5. k # 0
  BY <1>1, <1>4
<1> QED BY <1>2, <1>4, <1>5

(* A double that is no multiple of the spacing above it has at most as many
   steps below it as the mantissa counts, and at least half as many *)
LEMMA StepsOfDouble ==
  ASSUME NEW x \in 0 .. Int64Max, NEW u \in Spacings, NEW h \in Nat \ {0},
         Mantissa = 2 * h, x < Mantissa * u,
         u = 1 \/ 2 * x >= Mantissa * u,
         NEW q \in {x \div u, (x \div u) + 1}
  PROVE  q \in Nat /\ q <= Mantissa /\ (u # 1 => h <= q)
<1>1. x \in Nat /\ u \in Nat \ {0} /\ Mantissa \in Nat \ {0}
  BY ClockAssumption, SpacingAssumption
<1> DEFINE d == x \div u
           r == x % u
<1>2. d \in Nat /\ r \in 0 .. u - 1 /\ x = u * d + r
  BY <1>1, Division
<1>3. q \in {d, d + 1}
  OBVIOUS
<1> HIDE DEF d, r
<1>4. u * d = d * u /\ d * u \in Nat
  BY <1>1, <1>2, Product
<1>5. d < Mantissa
  <2>1. SUFFICES ASSUME Mantissa <= d PROVE FALSE
    BY <1>1, <1>2
  <2>2. Mantissa * u <= d * u /\ Mantissa * u \in Nat
    BY <1>1, <1>2, <2>1, Product
  <2> QED BY <1>1, <1>2, <1>4, <2>2
<1>6. u # 1 => h <= d
  <2>1. SUFFICES ASSUME u # 1, d + 1 <= h PROVE FALSE
    BY <1>1, <1>2
  <2>2. (d + 1) * u <= h * u /\ (d + 1) * u = d * u + u /\ h * u \in Nat
    BY <1>1, <1>2, <2>1, Product
  <2>3. Mantissa * u = 2 * (h * u)
    BY <1>1, Product
  <2> QED BY <1>1, <1>2, <1>4, <2>1, <2>2, <2>3
<1> QED BY <1>1, <1>2, <1>3, <1>5, <1>6

(* What has been rounded is a double: rounding it again changes nothing *)
LEMMA RoundTwice ==
  ASSUME NEW x \in 0 .. Int64Max, Round(x) \in 0 .. Int64Max
  PROVE  Round(Round(x)) = Round(x)
<1> DEFINE y == Round(x)
<1>1. PICK u \in Spacings : /\ u = Spacing(x)
                            /\ x < Mantissa * u
                            /\ u = 1 \/ 2 * x >= Mantissa * u
  BY SpacingExists
<1>2. PICK v \in Spacings : /\ v = Spacing(y)
                            /\ y < Mantissa * v
                            /\ v = 1 \/ 2 * y >= Mantissa * v
  BY SpacingExists
<1>3. PICK h \in Nat \ {0} : Mantissa = 2 * h
  <2>1. /\ Mantissa \in Nat \ {0} /\ (Mantissa % 2) = 0
        /\ (Mantissa \div 2) \in Nat
        /\ Mantissa = 2 * (Mantissa \div 2) + (Mantissa % 2)
    BY ClockAssumption, Division
  <2> QED BY <2>1
<1>4. /\ x \in Nat /\ u \in Nat \ {0} /\ y = Nearest(x, u)
      /\ y \in Nat /\ v \in Nat \ {0} /\ Round(y) = Nearest(y, v)
  BY <1>1, <1>2, RoundIsNearest, SpacingAssumption
<1>5. PICK q \in {x \div u, (x \div u) + 1} : y = q * u
  BY <1>4, NearestFacts
<1>6. q \in Nat /\ q <= Mantissa /\ (u # 1 => h <= q)
  BY <1>1, <1>3, StepsOfDouble
<1> SUFFICES (y % v) = 0
  BY <1>4, NearestFacts
<1> HIDE DEF y
<1>7. CASE u = v
  BY <1>4, <1>5, <1>6, <1>7, Multiple
<1>8. CASE v < u
  (* the steps below y would be too many for the smaller spacing *)
  <2>1. PICK k \in Nat \ {0} : u = k * (2 * v)
    BY <1>8, SpacingHalves
  <2>2. 1 * (2 * v) <= k * (2 * v)
    BY <1>4, Product
  <2>3. 2 * v <= u /\ u # 1
    BY <1>4, <2>1, <2>2
  <2>4. h * (2 * v) <= u * h /\ u * h = h * u /\ h * u <= q * u
    <3>1. (2 * v) * h <= u * h
      BY <1>4, <2>3, Product
    <3>2. h * (2 * v) = (2 * v) * h
      BY <1>4, Product
    <3>3. h * u <= q * u
      BY <1>4, <1>6, <2>3, Product
    <3>4. u * h = h * u
      BY <1>4, Product
    <3> QED BY <3>1, <3>2, <3>3, <3>4
  <2>5. Mantissa * v = h * (2 * v) /\ h * (2 * v) \in Nat
    BY <1>3, <1>4, Product
  <2>6. h * u \in Nat
    BY <1>4, Product
  <2> QED BY <1>2, <1>4, <1>5, <2>4, <2>5, <2>6
<1>9. CASE u < v
  (* y is the least double of the larger spacing *)
  <2>1. PICK k \in Nat \ {0} : v = k * (2 * u)
    BY <1>9, SpacingHalves
  <2>2. 1 * (2 * u) <= k * (2 * u)
    BY <1>4, Product
  <2>3. v # 1
    BY <1>4, <2>1, <2>2
  <2> DEFINE m == Mantissa * u
             km == k * m
  <2>4. m \in Nat \ {0} /\ km \in Nat /\ q * u <= m /\ q * u \in Nat
    BY <1>3, <1>4, <1>6, Product
  <2>5. Mantissa * v = 2 * km
    <3>1. k * (2 * u) = 2 * (k * u)
      BY <1>4
    <3>2. Mantissa * v = 2 * (Mantissa * (k * u))
      BY <1>3, <1>4, <2>1, <3>1
    <3>3. Mantissa * (k * u) = (Mantissa * k) * u /\ Mantissa * k = k * Mantissa
      BY <1>3, <1>4, Product
    <3>4. km = (k * Mantissa) * u
      BY <1>3, <1>4, Product
    <3> QED BY <3>2, <3>3, <3>4
  <2> HIDE DEF km
  <2>6. km <= q * u
    BY <1>2, <1>4, <1>5, <2>3, <2>4, <2>5
  <2>7. k = 1
    <3>1. SUFFICES ASSUME 2 <= k PROVE FALSE
      OBVIOUS
    <3> HIDE DEF m
    <3>2. 2 * m <= k * m
      BY <2>4, <3>1, Product
    <3> QED BY <2>4, <2>6, <3>2 DEF km
  <2>8. q = Mantissa
    <3>1. SUFFICES ASSUME q + 1 <= Mantissa PROVE FALSE
      BY <1>3, <1>6
    <3>2. (q + 1) * u <= m /\ (q + 1) * u = q * u + u
      BY <1>3, <1>4, <1>6, <3>1, Product
    <3>3. km = m
      BY <2>4, <2>7 DEF km
    <3> QED BY <1>4, <2>4, <2>6, <3>2, <3>3
  <2>9. y = h * v
    <3>1. v = 2 * u
      BY <1>4, <2>1, <2>7
    <3> QED BY <1>3, <1>4, <1>5, <2>8, <3>1
  <2> QED BY <1>4, <2>9, Multiple
<1> QED BY <1>4, <1>7, <1>8, <1>9
-----------------------------------------------------------------------------
(* One increment, as long as the int64_t has room for it *)
LEMMA TickAdvances ==
  ASSUME NEW t \in 0 .. Int64Max, Round(t) = t, Tick, ticks = t,
         t + PSEUDOCLOCK_INCREMENTS + Rounding <= Int64Max
  PROVE  /\ ticks' \in Nat /\ Round(ticks') = ticks'
         /\ t < ticks' /\ ticks' <= t + PSEUDOCLOCK_INCREMENTS + Rounding
<1> DEFINE x == t + PSEUDOCLOCK_INCREMENTS
<1>1. /\ PSEUDOCLOCK_INCREMENTS \in Nat /\ Int64Max \in Nat /\ Rounding \in Nat
      /\ PSEUDOCLOCK_INCREMENTS > Rounding
  BY ClockAssumption, HorizonAssumption, Division DEF Rounding
<1>2. x \in 0 .. Int64Max /\ x + Rounding <= Int64Max /\ x - Rounding > t
  BY <1>1
<1>3. Round(x) \in Nat /\ x - Rounding <= Round(x) /\ Round(x) <= x + Rounding
  BY <1>2, RoundError
<1>4. ticks' \in ToInt64(Round(x))
  BY DEF Tick
<1>5. ticks' = Round(x) /\ Round(x) \in 0 .. Int64Max
  BY <1>1, <1>2, <1>3, <1>4 DEF ToInt64
<1>6. Round(Round(x)) = Round(x)
  BY <1>2, <1>5, RoundTwice
<1> QED BY <1>1, <1>2, <1>3, <1>5, <1>6

(* The first sum of the clock is exact. *)
LEMMA FirstTick == Round(1) = 1 /\ 1 \in 0 .. Int64Max
<1>1. /\ Mantissa \in Nat \ {0} /\ Mantissa >= 2 /\ Int64Max \in Nat /\ 1 <= Int64Max
  <2>1. /\ Mantissa \in Nat \ {0} /\ Int64Max \in Nat
        /\ (Mantissa % 2) = 0
    BY ClockAssumption
  <2>2. Rounding \in Nat
    BY <2>1, Division DEF Rounding
  <2>3. 1 <= Int64Max
    BY <2>1, <2>2, ClockAssumption, HorizonAssumption
  <2> QED BY <2>1, <2>3
<1>2. (1 % Spacing(1)) = 0 /\ Spacing(1) \in Nat \ {0}
  <2>1. PICK u \in Spacings : /\ u = Spacing(1)
                              /\ u = 1 \/ 2 * 1 >= Mantissa * u
    BY <1>1, SpacingExists
  <2>2. u = 1
    <3>1. SUFFICES ASSUME u # 1 PROVE FALSE
      OBVIOUS
    <3>2. u \in Nat /\ u >= 2
      BY <3>1, SpacingAssumption
    <3>3. 2 * u <= Mantissa * u
      BY <1>1, <3>2, Product
    <3> QED BY <1>1, <2>1, <3>1, <3>2, <3>3
  <2> QED BY <2>1, <2>2
<1>3. Nearest(1, Spacing(1)) = 1
  BY <1>2, NearestFacts
<1> QED BY <1>1, <1>3, RoundIsNearest

(* The counter is a double, and ahead of the last reading by an increment,
   give or take the rounding *)
Ahead == /\ ticks \in Nat /\ Round(ticks) = ticks
         /\ reading < TIME_OFFSET + ticks
         /\ TIME_OFFSET + ticks <= reading + PSEUDOCLOCK_INCREMENTS + Rounding

(* The guest may still ask *)
Early == reading <= Horizon

Preview1 == IF reading = 0 THEN ticks = 1 /\ pc = "awake" ELSE Early => Ahead

(* A sleeper has not passed its deadline when it looks *)
Waiting == pc # "awake" => reading <= deadline /\ deadline <= Horizon

ClockInv == /\ preview \in {1, 2} /\ pc \in {"awake", "poll", "look"}
            /\ reading \in Nat /\ deadline \in Nat
            /\ preview = 1 => Preview1
            /\ preview = 2 => reading = 0
            /\ Waiting

LEMMA InitClock == Init => ClockInv
BY DEF Init, ClockInit, ClockInv, Preview1, Waiting

LEMMA Shifted ==
  \A a, b, c, d, e \in Nat :
    b < e /\ e <= b + c + d => a + b < a + e /\ a + e <= (a + b) + c + d
OBVIOUS

(* What asking for the time does to the reading and the counter *)
LEMMA TimePasses ==
  ASSUME ClockInv, Time, Early
  PROVE  /\ preview = 1 => /\ reading' \in Nat /\ reading' > reading
                           /\ Early' => Ahead'
                           /\ reading # 0 => reading' <= reading + PSEUDOCLOCK_INCREMENTS + Rounding
         /\ preview = 2 => reading' = 0 /\ reading = 0
<1>1. CASE preview = 2
  BY <1>1 DEF ClockInv, Time, now
<1>2. CASE preview = 1
  <2>1. reading' = Wrapped(TIME_OFFSET + ticks) /\ Tick
    BY <1>2 DEF Time, clock_time_get
  <2>2. /\ TIME_OFFSET \in Nat /\ PSEUDOCLOCK_INCREMENTS \in Nat /\ Int64Max \in Nat
        /\ Horizon \in Nat /\ Rounding \in Nat /\ reading \in Nat
        /\ TIME_OFFSET < Horizon
        /\ Horizon + PSEUDOCLOCK_INCREMENTS + Rounding <= Int64Max
    BY ClockAssumption, HorizonAssumption, Division DEF Rounding, ClockInv
  <2>3. /\ ticks \in Nat /\ Round(ticks) = ticks /\ reading < TIME_OFFSET + ticks
        /\ TIME_OFFSET + ticks <= Int64Max
        /\ reading # 0 => TIME_OFFSET + ticks <= reading + PSEUDOCLOCK_INCREMENTS + Rounding
    BY <1>2, <2>2, FirstTick DEF ClockInv, Preview1, Ahead, Early
  <2>4. reading' = TIME_OFFSET + ticks
    BY <2>1, <2>3 DEF Wrapped
  <2>5. ASSUME Early' PROVE Ahead'
    <3>1. /\ ticks \in 0 .. Int64Max
          /\ ticks + PSEUDOCLOCK_INCREMENTS + Rounding <= Int64Max
      BY <2>2, <2>3, <2>4, <2>5 DEF Early
    <3>2. /\ ticks' \in Nat /\ Round(ticks') = ticks' /\ ticks < ticks'
          /\ ticks' <= ticks + PSEUDOCLOCK_INCREMENTS + Rounding
      BY <2>1, <2>3, <3>1, TickAdvances
    <3>3. /\ reading' < TIME_OFFSET + ticks'
          /\ TIME_OFFSET + ticks' <= reading' + PSEUDOCLOCK_INCREMENTS + Rounding
      BY <2>2, <2>3, <2>4, <3>2, Shifted
    <3> QED BY <3>2, <3>3 DEF Ahead
  <2> QED BY <1>2, <2>2, <2>3, <2>4, <2>5
<1> QED BY <1>1, <1>2 DEF ClockInv

LEMMA StepClock == ClockInv /\ [Runtime \/ OpenFile \/ ReadStdin \/ Main \/ Idle]_vars => ClockInv'
<1> SUFFICES ASSUME ClockInv, [Runtime \/ OpenFile \/ ReadStdin \/ Main \/ Idle]_vars
             PROVE  ClockInv'
  OBVIOUS
<1>1. CASE AskTime
  <2>1. /\ pc = "awake" /\ Time /\ Early
        /\ UNCHANGED <<preview, deadline, pc>>
    BY <1>1, ClockAssumption DEF AskTime, ClockInv, Early
  <2> QED BY <2>1, TimePasses DEF ClockInv, Preview1, Waiting
<1>2. ASSUME NEW d \in Sleeps, FallAsleep(d) PROVE ClockInv'
  <2>1. d \in Nat
    BY ClockAssumption
  <2> QED BY <1>2, <2>1 DEF FallAsleep, ClockInv, Preview1, Waiting, Ahead, Early
<1>3. CASE poll_oneoff
  BY <1>3 DEF poll_oneoff, ClockInv, Preview1, Waiting, Ahead, Early
<1>4. CASE Look
  <2>1. /\ pc = "look" /\ Time /\ reading <= deadline /\ deadline <= Horizon
        /\ Early
        /\ pc' = (IF reading' >= deadline THEN "awake" ELSE "poll")
        /\ UNCHANGED <<preview, deadline>>
    BY <1>4, ClockAssumption DEF Look, ClockInv, Waiting, Early
  <2>2. /\ preview = 1 => /\ reading' \in Nat /\ reading' > reading
                          /\ Early' => Ahead'
        /\ preview = 2 => reading' = 0
    BY <2>1, TimePasses
  <2>3. Waiting'
    BY <2>1, <2>2 DEF ClockInv, Waiting
  <2> QED BY <2>1, <2>2, <2>3 DEF ClockInv, Preview1
<1>5. CASE UNCHANGED clock
  BY <1>5 DEF clock, ClockInv, Preview1, Waiting, Ahead, Early
<1>6. Runtime \/ OpenFile \/ ReadStdin \/ Idle \/ UNCHANGED vars => UNCHANGED clock
  BY DEF Runtime, Arguments, Environment, Count, FirstPreopen, Prestat, Directories,
         ReadAll, Close, OpenFile, ReadStdin, Idle, vars
<1> QED BY <1>1, <1>2, <1>3, <1>4, <1>5, <1>6 DEF Main, Sleep

(* The invariant of the clock and its sleeper holds in every state. *)
THEOREM ClockInvariant == Spec => []ClockInv
BY InitClock, StepClock, PTL DEF Spec

(* Only the guest's questions change the clock, and only it falls asleep. *)
LEMMA ClockSteps ==
  ASSUME ClockInv, [Runtime \/ OpenFile \/ ReadStdin \/ Main \/ Idle]_vars
  PROVE  \/ UNCHANGED clock
         \/ Time /\ Early /\ pc' = pc
         \/ UNCHANGED <<ticks, reading>> /\ pc # "look" /\ pc' # "awake"
         \/ /\ pc = "look" /\ Time /\ Early /\ reading <= deadline
            /\ pc' = (IF reading' >= deadline THEN "awake" ELSE "poll")
<1>1. CASE AskTime
  BY <1>1, ClockAssumption DEF AskTime, ClockInv, Early
<1>2. CASE poll_oneoff \/ \E d \in Sleeps : FallAsleep(d)
  BY <1>2 DEF poll_oneoff, FallAsleep
<1>3. CASE Look
  BY <1>3, ClockAssumption DEF Look, ClockInv, Waiting, Early
<1>4. Runtime \/ OpenFile \/ ReadStdin \/ Idle \/ UNCHANGED vars => UNCHANGED clock
  BY DEF Runtime, Arguments, Environment, Count, FirstPreopen, Prestat, Directories,
         ReadAll, Close, OpenFile, ReadStdin, Idle, vars
<1> QED BY <1>1, <1>2, <1>3, <1>4 DEF Main, Sleep

(* Every reading of the preview 1 clock is later than the one before. *)
THEOREM ClockMonotonic == Spec => Monotonic
<1>1. ClockInv /\ [Runtime \/ OpenFile \/ ReadStdin \/ Main \/ Idle]_vars
      => [reading # 0 /\ (ticks' # ticks \/ pc = "look") => reading' > reading]_clock
  <2> SUFFICES ASSUME ClockInv, [Runtime \/ OpenFile \/ ReadStdin \/ Main \/ Idle]_vars,
                      reading # 0, ticks' # ticks \/ pc = "look", ~ UNCHANGED clock
               PROVE  reading' > reading
    OBVIOUS
  <2>1. Time /\ Early
    BY ClockSteps DEF clock
  <2> QED BY <2>1, TimePasses DEF ClockInv
<1> QED BY <1>1, ClockInvariant, PTL DEF Spec, Monotonic

(* A sleep is neither too short nor longer than an increment and a rounding. *)
THEOREM SleepOnTime == Spec => OnTime
<1>1. ClockInv /\ [Runtime \/ OpenFile \/ ReadStdin \/ Main \/ Idle]_vars
      => [pc = "look" /\ pc' = "awake" =>
            /\ reading' >= deadline
            /\ reading' <= deadline + PSEUDOCLOCK_INCREMENTS + Rounding]_clock
  <2> SUFFICES ASSUME ClockInv, [Runtime \/ OpenFile \/ ReadStdin \/ Main \/ Idle]_vars,
                      pc = "look", pc' = "awake"
               PROVE  /\ reading' >= deadline
                      /\ reading' <= deadline + PSEUDOCLOCK_INCREMENTS + Rounding
    OBVIOUS
  <2>1. /\ Time /\ Early /\ reading <= deadline /\ reading' >= deadline
    BY ClockSteps DEF clock
  <2>2. /\ PSEUDOCLOCK_INCREMENTS \in Nat /\ Rounding \in Nat
        /\ reading \in Nat /\ deadline \in Nat
        /\ preview = 1 => reading # 0
    BY ClockAssumption, Division DEF Rounding, ClockInv, Preview1
  <2>3. \/ reading' = 0
        \/ reading' \in Nat /\ reading' <= reading + PSEUDOCLOCK_INCREMENTS + Rounding
    BY <2>1, <2>2, TimePasses DEF ClockInv
  <2> QED BY <2>1, <2>2, <2>3
<1> QED BY <1>1, ClockInvariant, PTL DEF Spec, OnTime
-----------------------------------------------------------------------------
(* The answers by which a runtime could come to believe in something *)
LEMMA Refusals == /\ Errno["fd_prestat_get"] = BADF
                  /\ ~Succeeds("path_open") /\ ~Succeeds("fd_read")
BY DEF Errno, Descriptors, Yield, Paths, Succeeds, SUCCESS, BADF, Joined

(* A runtime that clears its result variables never comes to believe in an
   argument, descriptor, directory or file that the stubs did not give it. *)
THEOREM NothingIsMadeUp == Spec => []NothingMadeUp
<1>1. Init => NothingMadeUp
  BY DEF Init, NothingMadeUp
<1>2. NothingMadeUp /\ [Runtime \/ OpenFile \/ ReadStdin \/ Main \/ Idle]_vars
      => NothingMadeUp'
  <2> SUFFICES ASSUME NothingMadeUp, [Runtime \/ OpenFile \/ ReadStdin \/ Main \/ Idle]_vars
               PROVE  NothingMadeUp'
    OBVIOUS
  <2>1. CASE Arguments \/ Environment
    <3>1. /\ argc' \in {argc + n : n \in Unwritten}
          /\ UNCHANGED <<zeroed, opened, atEOF>>
      BY <2>1 DEF Arguments, Environment, Count
    <3>2. zeroed => Unwritten = {0}
      BY DEF Unwritten
    <3>3. zeroed => argc' = argc + 0
      BY <3>1, <3>2
    <3> QED BY <3>1, <3>3 DEF NothingMadeUp
  <2>2. CASE Prestat
    BY <2>2, Refusals DEF Prestat, NothingMadeUp
  <2>3. CASE Directories
    <3>1. PICK n \in Unwritten : opened' = 3 .. 2 + n
      BY <2>3 DEF Directories
    <3>2. zeroed => n = 0
      BY DEF Unwritten
    <3>3. n = 0 => opened' = {}
      BY <3>1
    <3> QED BY <2>3, <3>2, <3>3 DEF Directories, NothingMadeUp
  <2>4. CASE OpenFile
    BY <2>4, Refusals DEF OpenFile, NothingMadeUp
  <2>5. CASE ReadAll
    BY <2>5, Refusals DEF ReadAll, NothingMadeUp
  <2>6. CASE FirstPreopen \/ ReadStdin \/ Close
    BY <2>6 DEF FirstPreopen, ReadStdin, Close, NothingMadeUp
  <2>7. CASE Main \/ Idle \/ UNCHANGED vars
    BY <2>7 DEF Main, Idle, vars, runtime, NothingMadeUp
  <2> QED BY <2>1, <2>2, <2>3, <2>4, <2>5, <2>6, <2>7 DEF Runtime
<1> QED BY <1>1, <1>2, PTL DEF Spec
-----------------------------------------------------------------------------
(* Induction over 0 .. m, for a set instead of a property *)
LEMMA Counting ==
  ASSUME NEW m \in Nat, NEW P, 0 \in P, \A k \in 1 .. m : k - 1 \in P => k \in P
  PROVE  \A k \in 0 .. m : k \in P
<1> SUFFICES ASSUME NEW n \in 0 .. m, n \notin P PROVE FALSE
  OBVIOUS
<1> DEFINE Bad == {k \in 0 .. m : k \notin P}
<1>1. PICK k \in Bad : \A y \in Bad : k <= y
  <2>1. Bad \subseteq Nat /\ n \in Bad
    OBVIOUS
  <2> HIDE DEF Bad
  <2> QED BY <2>1, Least
<1>2. k \in 1 .. m
  BY <1>1
<1>3. k - 1 \in 0 .. m /\ k - 1 \notin Bad
  BY <1>1, <1>2
<1> QED BY <1>1, <1>2, <1>3

(* A function that is defined from its value one below exists *)
Follows(a, m, G, f) == f[0] = a /\ \A k \in 1 .. m : f[k] = G[k][f[k - 1]]

LEMMA Recursion ==
  \A S, a, m, G : a \in S /\ m \in Nat /\ G \in [1 .. m -> [S -> S]] =>
                   \E f \in [0 .. m -> S] : Follows(a, m, G, f)
<1> SUFFICES ASSUME NEW S, NEW a \in S, NEW m \in Nat, NEW G \in [1 .. m -> [S -> S]]
             PROVE  \E f \in [0 .. m -> S] : Follows(a, m, G, f)
  OBVIOUS
<1> DEFINE Upto(n, f) == Follows(a, n, G, f)
           P == {n \in 0 .. m : \E f \in [0 .. n -> S] : Upto(n, f)}
<1>1. 0 \in P
  <2>1. [k \in 0 .. 0 |-> a] \in [0 .. 0 -> S] /\ Upto(0, [k \in 0 .. 0 |-> a])
    BY DEF Follows
  <2> HIDE DEF Upto
  <2>2. \E f \in [0 .. 0 -> S] : Upto(0, f)
    BY <2>1, Zenon
  <2>3. 0 \in 0 .. m
    OBVIOUS
  <2> QED BY <2>2, <2>3, Zenon
<1>2. ASSUME NEW n \in 1 .. m, n - 1 \in P PROVE n \in P
  <2>1. PICK f \in [0 .. n - 1 -> S] : Upto(n - 1, f)
    BY <1>2
  <2> DEFINE g == [k \in 0 .. n |-> IF k = n THEN G[n][f[n - 1]] ELSE f[k]]
  <2>2. f[n - 1] \in S /\ G[n] \in [S -> S] /\ G[n][f[n - 1]] \in S
    OBVIOUS
  <2>3. g \in [0 .. n -> S]
    BY <2>2
  <2>4. g[0] = a
    BY <2>1 DEF Follows
  <2>5. ASSUME NEW k \in 1 .. n PROVE g[k] = G[k][g[k - 1]]
    <3>1. k - 1 \in 0 .. n - 1 /\ g[k - 1] = f[k - 1]
      OBVIOUS
    <3>2. CASE k = n
      BY <3>1, <3>2
    <3>3. CASE k # n
      <4>1. k \in 1 .. n - 1 /\ g[k] = f[k]
        BY <3>3
      <4>2. f[k] = G[k][f[k - 1]]
        BY <2>1, <4>1 DEF Follows
      <4> QED BY <3>1, <4>1, <4>2
    <3> QED BY <3>2, <3>3
  <2> HIDE DEF g
  <2>6. Upto(n, g)
    BY <2>4, <2>5 DEF Follows
  <2> QED BY <2>3, <2>6
<1> HIDE DEF P
<1>3. \A n \in 0 .. m : n \in P
  BY <1>1, <1>2, Counting
<1>4. m \in P
  BY <1>3
<1> QED BY <1>4 DEF P
-----------------------------------------------------------------------------
(* A byte has at least two values, and as many even as odd. *)
LEMMA Base == B \in Nat /\ B > 1 /\ B % 2 = 0
  BY ByteAssumption

LEMMA Divided ==
  ASSUME NEW x \in Nat
  PROVE  /\ (x \div B) \in Nat /\ (x % B) \in Octet /\ x = (x % B) + B * (x \div B)
BY Base DEF Octet

LEMMA Times == \A k \in Nat : B * k \in Nat
BY Base

LEMMA Digit ==
  ASSUME NEW d \in Octet, NEW y \in Nat
  PROVE  /\ d + B * y \in Nat /\ ((d + B * y) \div B) = y /\ ((d + B * y) % B) = d
<1>1. d \in Nat /\ d < B /\ B \in Nat /\ B > 1
  BY Base DEF Octet
<1> QED BY <1>1

(* Of two numbers the one with the smaller upper digits is the smaller. *)
LEMMA Smaller ==
  ASSUME NEW d \in Octet, NEW y \in Nat, NEW n \in Nat
  PROVE  y < n <=> d + B * y < B * n
<1>1. d \in Nat /\ d < B /\ B \in Nat /\ B > 1
  BY Base DEF Octet
<1>2. CASE y < n
  <2>1. PICK k \in Nat : n = y + 1 + k
    <3>1. n - y - 1 \in Nat /\ n = y + 1 + (n - y - 1)
      BY <1>2
    <3> QED BY <3>1
  <2>2. B * n = B * y + B + B * k
    BY <1>1, <2>1
  <2>3. B * y \in Nat /\ B * k \in Nat
    BY Times
  <2> QED BY <1>1, <1>2, <2>2, <2>3
<1>3. CASE ~(y < n)
  <2>1. PICK k \in Nat : y = n + k
    <3>1. y - n \in Nat /\ y = n + (y - n)
      BY <1>3
    <3> QED BY <3>1
  <2>2. B * y = B * n + B * k
    BY <1>1, <2>1
  <2>3. B * n \in Nat /\ B * k \in Nat
    BY Times
  <2> QED BY <1>1, <1>3, <2>2, <2>3
<1> QED BY <1>2, <1>3

(* The powers of B *)
Powers(w, f) == f = [k \in 0 .. w |-> IF k = 0 THEN 1 ELSE B * f[k - 1]]
Power(w) == CHOOSE f : Powers(w, f)

LEMMA ThePowers ==
  ASSUME NEW w \in Nat
  PROVE  /\ Span(w) = Power(w)[w] /\ Power(w)[0] = 1
         /\ \A k \in 0 .. w : Power(w)[k] \in Nat \ {0}
         /\ \A k \in 1 .. w : Power(w)[k] = B * Power(w)[k - 1]
<1>1. \E f : Powers(w, f)
  <2> DEFINE G == [k \in 1 .. w |-> [y \in Nat |-> B * y]]
  <2>1. G \in [1 .. w -> [Nat -> Nat]]
    BY Times
  <2>2. PICK f \in [0 .. w -> Nat] : Follows(1, w, G, f)
    <3> HIDE DEF G
    <3>1. 1 \in Nat
      OBVIOUS
    <3> QED BY <2>1, <3>1, Recursion, Zenon
  <2>3. ASSUME NEW k \in 1 .. w PROVE f[k] = B * f[k - 1]
    <3>1. k - 1 \in 0 .. w
      OBVIOUS
    <3>2. f[k - 1] \in Nat
      BY <3>1
    <3> QED BY <2>2, <3>2 DEF Follows
  <2> HIDE DEF G
  <2>4. f = [k \in 0 .. w |-> IF k = 0 THEN 1 ELSE B * f[k - 1]]
    <3>1. ASSUME NEW k \in 0 .. w PROVE f[k] = IF k = 0 THEN 1 ELSE B * f[k - 1]
      <4>1. k # 0 => k \in 1 .. w
        OBVIOUS
      <4> QED BY <2>2, <2>3, <4>1 DEF Follows
    <3>2. f = [k \in 0 .. w |-> f[k]]
      OBVIOUS
    <3> QED BY <3>1, <3>2
  <2> QED BY <2>4 DEF Powers
<1>2. Powers(w, Power(w))
  BY <1>1, Zenon DEF Power
<1>3. Span(w) = Power(w)[w]
  BY DEF Span, Power, Powers
<1> DEFINE p == Power(w)
<1>4. p = [k \in 0 .. w |-> IF k = 0 THEN 1 ELSE B * p[k - 1]]
  BY <1>2 DEF Powers
<1> HIDE DEF p
<1>5. p[0] = 1 /\ \A k \in 1 .. w : p[k] = B * p[k - 1]
  <2>1. \A k \in 0 .. w : p[k] = IF k = 0 THEN 1 ELSE B * p[k - 1]
    BY <1>4
  <2> QED BY <2>1
<1> DEFINE P == {k \in 0 .. w : p[k] \in Nat \ {0}}
<1>6. 0 \in P
  BY <1>5
<1>7. ASSUME NEW k \in 1 .. w, k - 1 \in P PROVE k \in P
  <2>1. p[k - 1] \in Nat \ {0} /\ p[k] = B * p[k - 1]
    BY <1>5, <1>7
  <2>2. \A y \in Nat \ {0} : B * y \in Nat \ {0}
    BY Base
  <2> QED BY <2>1, <2>2
<1> HIDE DEF P
<1>8. \A k \in 0 .. w : k \in P
  BY <1>6, <1>7, Counting
<1>9. \A k \in 0 .. w : p[k] \in Nat \ {0}
  BY <1>8 DEF P
<1> QED BY <1>3, <1>5, <1>9 DEF p
(* What Shifts leaves *)
LEMMA TheShifts ==
  ASSUME NEW w \in Nat, NEW v \in Nat
  PROVE  /\ Shifts(w, v)[0] = v
         /\ \A k \in 0 .. w : Shifts(w, v)[k] \in Nat
         /\ \A k \in 1 .. w : Shifts(w, v)[k] = Shifts(w, v)[k - 1] \div B
<1> DEFINE Shifting(f) == f = [k \in 0 .. w |-> IF k = 0 THEN v ELSE f[k - 1] \div B]
           x == CHOOSE f : Shifting(f)
<1>1. \E f : Shifting(f)
  <2> DEFINE G == [k \in 1 .. w |-> [y \in Nat |-> y \div B]]
  <2>1. G \in [1 .. w -> [Nat -> Nat]]
    BY Divided
  <2>2. PICK f \in [0 .. w -> Nat] : Follows(v, w, G, f)
    <3> HIDE DEF G
    <3> QED BY <2>1, Recursion, Zenon
  <2>3. ASSUME NEW k \in 1 .. w PROVE f[k] = f[k - 1] \div B
    <3>1. k - 1 \in 0 .. w
      OBVIOUS
    <3>2. f[k - 1] \in Nat
      BY <3>1
    <3> QED BY <2>2, <3>2 DEF Follows
  <2> HIDE DEF G
  <2>4. f = [k \in 0 .. w |-> IF k = 0 THEN v ELSE f[k - 1] \div B]
    <3>1. ASSUME NEW k \in 0 .. w PROVE f[k] = IF k = 0 THEN v ELSE f[k - 1] \div B
      <4>1. k # 0 => k \in 1 .. w
        OBVIOUS
      <4> QED BY <2>2, <2>3, <4>1 DEF Follows
    <3>2. f = [k \in 0 .. w |-> f[k]]
      OBVIOUS
    <3> QED BY <3>1, <3>2
  <2> QED BY <2>4
<1>2. Shifts(w, v) = x
  BY DEF Shifts
<1>3. Shifting(x)
  <2> HIDE DEF Shifting
  <2> QED BY <1>1, Zenon
<1> HIDE DEF x
<1>4. \A k \in 0 .. w : x[k] = IF k = 0 THEN v ELSE x[k - 1] \div B
  BY <1>3
<1> HIDE DEF Shifting
<1>5. x[0] = v /\ \A k \in 1 .. w : x[k] = x[k - 1] \div B
  BY <1>4
<1> DEFINE P == {k \in 0 .. w : x[k] \in Nat}
<1>6. 0 \in P
  BY <1>5
<1>7. ASSUME NEW k \in 1 .. w, k - 1 \in P PROVE k \in P
  <2>1. x[k - 1] \in Nat /\ x[k] = x[k - 1] \div B
    BY <1>5, <1>7
  <2> QED BY <2>1, Divided
<1> HIDE DEF P
<1>8. \A k \in 0 .. w : k \in P
  BY <1>6, <1>7, Counting
<1>9. \A k \in 0 .. w : x[k] \in Nat
  BY <1>8 DEF P
<1> QED BY <1>2, <1>5, <1>9

(* The number of the last k bytes *)
Highs(bytes, f) ==
  f = [k \in 0 .. Len(bytes) |->
         IF k = 0 THEN 0 ELSE bytes[Len(bytes) - k + 1] + B * f[k - 1]]
High(bytes) == CHOOSE f : Highs(bytes, f)

(* The partial numbers that Uint builds, from the last byte down *)
LEMMA TheHighs ==
  ASSUME NEW bytes \in Seq(Octet)
  PROVE  /\ Uint(bytes) = High(bytes)[Len(bytes)] /\ High(bytes)[0] = 0
         /\ \A k \in 0 .. Len(bytes) : High(bytes)[k] \in Nat
         /\ \A k \in 1 .. Len(bytes) :
              /\ bytes[Len(bytes) - k + 1] \in Octet
              /\ High(bytes)[k] = bytes[Len(bytes) - k + 1] + B * High(bytes)[k - 1]
<1> DEFINE w == Len(bytes)
           b(k) == bytes[w - k + 1]
           h == High(bytes)
<1>1. w \in Nat
  OBVIOUS
<1>2. \A k \in 1 .. w : b(k) \in Octet
  <2> SUFFICES ASSUME NEW k \in 1 .. w PROVE b(k) \in Octet
    OBVIOUS
  <2>1. w - k + 1 \in 1 .. w
    BY <1>1
  <2> QED BY <2>1
<1>3. \A k \in 1 .. w : \A y \in Nat : b(k) + B * y \in Nat
  <2> SUFFICES ASSUME NEW k \in 1 .. w, NEW y \in Nat PROVE b(k) + B * y \in Nat
    OBVIOUS
  <2> HIDE DEF b
  <2> QED BY <1>2, Digit
<1>4. Uint(bytes) = High(bytes)[w]
  BY DEF Uint, High, Highs
<1>5. Highs(bytes, h) <=> h = [k \in 0 .. w |-> IF k = 0 THEN 0 ELSE b(k) + B * h[k - 1]]
  BY DEF Highs
<1>6. \A f : Highs(bytes, f) <=> f = [k \in 0 .. w |-> IF k = 0 THEN 0 ELSE b(k) + B * f[k - 1]]
  BY DEF Highs
<1> HIDE DEF w, b
<1>7. \E f : Highs(bytes, f)
  <2> DEFINE G == [k \in 1 .. w |-> [y \in Nat |-> b(k) + B * y]]
  <2>1. G \in [1 .. w -> [Nat -> Nat]]
    BY <1>3
  <2>2. PICK f \in [0 .. w -> Nat] : Follows(0, w, G, f)
    <3> HIDE DEF G
    <3>1. 0 \in Nat
      OBVIOUS
    <3> QED BY <1>1, <2>1, <3>1, Recursion, Zenon
  <2>3. ASSUME NEW k \in 1 .. w PROVE f[k] = b(k) + B * f[k - 1]
    <3>1. k - 1 \in 0 .. w
      BY <1>1
    <3>2. f[k - 1] \in Nat
      BY <3>1
    <3> QED BY <2>2, <3>2 DEF Follows
  <2> HIDE DEF G
  <2>4. f = [k \in 0 .. w |-> IF k = 0 THEN 0 ELSE b(k) + B * f[k - 1]]
    <3>1. ASSUME NEW k \in 0 .. w PROVE f[k] = IF k = 0 THEN 0 ELSE b(k) + B * f[k - 1]
      <4>1. k # 0 => k \in 1 .. w
        BY <1>1
      <4> QED BY <2>2, <2>3, <4>1 DEF Follows
    <3>2. f = [k \in 0 .. w |-> f[k]]
      OBVIOUS
    <3> QED BY <3>1, <3>2
  <2> QED BY <1>6, <2>4
<1>8. Highs(bytes, h)
  BY <1>7, Zenon DEF High
<1> HIDE DEF h
<1>9. \A k \in 0 .. w : h[k] = IF k = 0 THEN 0 ELSE b(k) + B * h[k - 1]
  BY <1>5, <1>8
<1>10. h[0] = 0 /\ \A k \in 1 .. w : h[k] = b(k) + B * h[k - 1]
  BY <1>1, <1>9
<1> DEFINE P == {k \in 0 .. w : h[k] \in Nat}
<1>11. 0 \in P
  BY <1>1, <1>10
<1>12. ASSUME NEW k \in 1 .. w, k - 1 \in P PROVE k \in P
  <2>1. h[k - 1] \in Nat /\ h[k] = b(k) + B * h[k - 1] /\ k \in 0 .. w
    BY <1>1, <1>10, <1>12
  <2> QED BY <2>1, <1>3
<1> HIDE DEF P
<1>13. \A k \in 0 .. w : k \in P
  BY <1>1, <1>11, <1>12, Counting
<1>14. \A k \in 0 .. w : h[k] \in Nat
  BY <1>13 DEF P
<1> QED BY <1>2, <1>4, <1>10, <1>14 DEF h, w, b

(* What is written is read *)
LEMMA NumberIsRead ==
  ASSUME NEW w \in Nat, NEW v \in 0 .. Span(w) - 1
  PROVE  /\ PutUint(w, v) \in Seq(Octet) /\ Len(PutUint(w, v)) = w
         /\ Uint(PutUint(w, v)) = v
<1> DEFINE p == Power(w)
           x == Shifts(w, v)
           bytes == PutUint(w, v)
           h == High(bytes)
<1>1. /\ Span(w) = p[w] /\ p[0] = 1
      /\ \A k \in 0 .. w : p[k] \in Nat \ {0}
      /\ \A k \in 1 .. w : p[k] = B * p[k - 1]
  BY ThePowers
<1>2. v \in Nat
  BY <1>1
<1>3. /\ x[0] = v
      /\ \A k \in 0 .. w : x[k] \in Nat
      /\ \A k \in 1 .. w : x[k] = x[k - 1] \div B
  BY <1>2, TheShifts
<1>4. bytes = [i \in 1 .. w |-> x[i - 1] % B]
  BY DEF PutUint
<1> HIDE DEF p, x, bytes
<1>5. ASSUME NEW i \in 1 .. w
      PROVE  /\ (x[i - 1] % B) \in Octet /\ (x[i - 1] \div B) \in Nat
             /\ x[i - 1] = (x[i - 1] % B) + B * (x[i - 1] \div B)
  <2>1. i - 1 \in 0 .. w
    OBVIOUS
  <2> QED BY <1>3, <2>1, Divided
<1>6. bytes \in Seq(Octet) /\ Len(bytes) = w /\ \A i \in 1 .. w : bytes[i] = x[i - 1] % B
  <2>1. bytes \in [1 .. w -> Octet]
    BY <1>4, <1>5
  <2>2. \A i \in 1 .. w : bytes[i] = x[i - 1] % B
    BY <1>4
  <2> QED BY <2>1, <2>2
<1>7. /\ Uint(bytes) = h[w] /\ h[0] = 0
      /\ \A k \in 0 .. w : h[k] \in Nat
      /\ \A k \in 1 .. w : h[k] = bytes[w - k + 1] + B * h[k - 1]
  BY <1>6, TheHighs
<1> HIDE DEF h
<1>8. x[w] = 0
  <2> DEFINE P == {k \in 0 .. w : x[k] < p[w - k]}
  <2>1. 0 \in P
    BY <1>1, <1>3
  <2>2. ASSUME NEW k \in 1 .. w, k - 1 \in P PROVE k \in P
    <3>1. x[k - 1] < p[w - (k - 1)] /\ w - (k - 1) \in 1 .. w /\ (w - (k - 1)) - 1 = w - k
      BY <2>2
    <3>2. p[w - (k - 1)] = B * p[w - k] /\ p[w - k] \in Nat
      <4>1. w - k \in 0 .. w
        OBVIOUS
      <4> QED BY <1>1, <3>1, <4>1
    <3>3. x[k - 1] = (x[k - 1] % B) + B * x[k] /\ (x[k - 1] % B) \in Octet /\ x[k] \in Nat
      BY <1>3, <1>5
    <3>4. (x[k - 1] % B) + B * x[k] < B * p[w - k]
      BY <3>1, <3>2, <3>3
    <3>5. x[k] < p[w - k]
      BY <3>2, <3>3, <3>4, Smaller
    <3> QED BY <3>5
  <2> HIDE DEF P
  <2>3. \A k \in 0 .. w : k \in P
    BY <2>1, <2>2, Counting
  <2>4. w \in P
    BY <2>3
  <2>5. x[w] < p[w - w] /\ w - w = 0
    BY <2>4 DEF P
  <2>6. w \in 0 .. w
    OBVIOUS
  <2> QED BY <1>1, <1>3, <2>5, <2>6
<1>9. h[w] = x[0]
  <2> DEFINE P == {k \in 0 .. w : h[k] = x[w - k]}
  <2>1. 0 \in P
    BY <1>7, <1>8
  <2>2. ASSUME NEW k \in 1 .. w, k - 1 \in P PROVE k \in P
    <3>1. h[k - 1] = x[w - (k - 1)]
      BY <2>2
    <3>2. w - k + 1 \in 1 .. w /\ w - (k - 1) = w - k + 1 /\ (w - k + 1) - 1 = w - k
      OBVIOUS
    <3>3. bytes[w - k + 1] = x[w - k] % B
      BY <1>6, <3>2
    <3>4. x[w - k + 1] = x[w - k] \div B
      BY <1>3, <3>2
    <3>5. x[w - k] = (x[w - k] % B) + B * (x[w - k] \div B)
      BY <1>5, <3>2
    <3>6. h[k] = (x[w - k] % B) + B * (x[w - k] \div B)
      BY <1>7, <3>1, <3>2, <3>3, <3>4
    <3> QED BY <3>5, <3>6
  <2> HIDE DEF P
  <2>3. \A k \in 0 .. w : k \in P
    BY <2>1, <2>2, Counting
  <2>4. w \in P
    BY <2>3
  <2>5. h[w] = x[w - w] /\ w - w = 0
    BY <2>4 DEF P
  <2> QED BY <2>5
<1> QED BY <1>3, <1>6, <1>7, <1>9 DEF bytes

(* What is read would be written the same *)
LEMMA BytesAreWritten ==
  ASSUME NEW bytes \in Seq(Octet)
  PROVE  /\ Uint(bytes) \in 0 .. Span(Len(bytes)) - 1
         /\ PutUint(Len(bytes), Uint(bytes)) = bytes
<1> DEFINE w == Len(bytes)
           p == Power(w)
           h == High(bytes)
           v == Uint(bytes)
           x == Shifts(w, v)
<1>1. w \in Nat
  OBVIOUS
<1>2. /\ Span(w) = p[w] /\ p[0] = 1
      /\ \A k \in 0 .. w : p[k] \in Nat \ {0}
      /\ \A k \in 1 .. w : p[k] = B * p[k - 1]
  BY <1>1, ThePowers
<1>3. /\ v = h[w] /\ h[0] = 0
      /\ \A k \in 0 .. w : h[k] \in Nat
      /\ \A k \in 1 .. w : /\ bytes[w - k + 1] \in Octet
                           /\ h[k] = bytes[w - k + 1] + B * h[k - 1]
  BY TheHighs
<1>4. bytes \in [1 .. w -> Octet]
  OBVIOUS
<1> HIDE DEF w, p, h, v
<1>5. v \in Nat
  <2>1. w \in 0 .. w
    BY <1>1
  <2> QED BY <1>3, <2>1
<1>6. /\ x[0] = v
      /\ \A k \in 1 .. w : x[k] = x[k - 1] \div B
  BY <1>1, <1>5, TheShifts
<1>7. PutUint(w, v) = [i \in 1 .. w |-> x[i - 1] % B]
  BY DEF PutUint
<1> HIDE DEF x
<1>8. v < p[w]
  <2> DEFINE P == {k \in 0 .. w : h[k] < p[k]}
  <2>1. 0 \in P
    BY <1>1, <1>2, <1>3
  <2>2. ASSUME NEW k \in 1 .. w, k - 1 \in P PROVE k \in P
    <3>1. h[k - 1] < p[k - 1] /\ k - 1 \in 0 .. w /\ k \in 0 .. w
      BY <1>1, <2>2
    <3>2. h[k - 1] \in Nat /\ p[k - 1] \in Nat
      BY <1>2, <1>3, <3>1
    <3>3. bytes[w - k + 1] + B * h[k - 1] < B * p[k - 1]
      BY <1>3, <3>1, <3>2, Smaller
    <3>4. h[k] = bytes[w - k + 1] + B * h[k - 1] /\ p[k] = B * p[k - 1]
      BY <1>2, <1>3
    <3>5. h[k] < p[k]
      BY <3>3, <3>4
    <3> QED BY <3>1, <3>5
  <2> HIDE DEF P
  <2>3. \A k \in 0 .. w : k \in P
    BY <1>1, <2>1, <2>2, Counting
  <2>4. w \in P
    BY <1>1, <2>3
  <2> QED BY <1>3, <2>4 DEF P
<1>9. \A k \in 0 .. w : x[k] = h[w - k]
  <2> DEFINE P == {k \in 0 .. w : x[k] = h[w - k]}
  <2>1. 0 \in P
    BY <1>1, <1>3, <1>6
  <2>2. ASSUME NEW k \in 1 .. w, k - 1 \in P PROVE k \in P
    <3>1. x[k - 1] = h[w - (k - 1)]
      BY <2>2
    <3>2. /\ w - (k - 1) \in 1 .. w /\ (w - (k - 1)) - 1 = w - k /\ w - (w - (k - 1)) + 1 = k
          /\ w - k \in 0 .. w /\ k \in 0 .. w
      BY <1>1
    <3>3. h[w - (k - 1)] = bytes[k] + B * h[w - k] /\ bytes[k] \in Octet
      BY <1>3, <3>2
    <3>4. h[w - k] \in Nat
      BY <1>3, <3>2
    <3>5. ((bytes[k] + B * h[w - k]) \div B) = h[w - k]
      BY <3>3, <3>4, Digit
    <3>6. x[k] = h[w - k]
      BY <1>6, <3>1, <3>3, <3>5
    <3> QED BY <3>2, <3>6
  <2> HIDE DEF P
  <2>3. \A k \in 0 .. w : k \in P
    BY <1>1, <2>1, <2>2, Counting
  <2> QED BY <2>3 DEF P
<1>10. \A i \in 1 .. w : x[i - 1] % B = bytes[i]
  <2> SUFFICES ASSUME NEW i \in 1 .. w PROVE x[i - 1] % B = bytes[i]
    OBVIOUS
  <2>1. /\ w - (i - 1) \in 1 .. w /\ (w - (i - 1)) - 1 = w - i /\ w - (w - (i - 1)) + 1 = i
        /\ w - i \in 0 .. w /\ i - 1 \in 0 .. w
    BY <1>1
  <2>2. x[i - 1] = h[w - (i - 1)]
    BY <1>9, <2>1
  <2>3. h[w - (i - 1)] = bytes[i] + B * h[w - i] /\ bytes[i] \in Octet
    BY <1>3, <2>1
  <2>4. h[w - i] \in Nat
    BY <1>3, <2>1
  <2>5. ((bytes[i] + B * h[w - i]) % B) = bytes[i]
    BY <2>3, <2>4, Digit
  <2> QED BY <2>2, <2>3, <2>5
<1>11. PutUint(w, v) = bytes
  <2>1. [i \in 1 .. w |-> x[i - 1] % B] = [i \in 1 .. w |-> bytes[i]]
    BY <1>10
  <2> QED BY <1>4, <1>7, <2>1
<1>12. v \in 0 .. Span(w) - 1
  <2>1. p[w] \in Nat
    BY <1>1, <1>2
  <2> QED BY <1>2, <1>5, <1>8, <2>1
<1> QED BY <1>11, <1>12 DEF w, v
(* Eight bytes as a signed number *)
LEMMA SignedNumber ==
  ASSUME NEW u \in 0 .. Span(8) - 1
  PROVE  /\ Signed(8, u) \in -(Span(8) \div 2) .. Span(8) \div 2 - 1
         /\ Signed(8, u) >= 0 => Signed(8, u) = u
         /\ u < Span(8) \div 2 => Signed(8, u) = u
<1> DEFINE n == Span(8)
<1>1. n \in Nat /\ n % 2 = 0
  <2>1. n = B * Power(8)[7] /\ Power(8)[7] \in Nat
    BY ThePowers
  <2>2. PICK c \in Nat : B = 2 * c
    <3>1. B \div 2 \in Nat /\ B = 2 * (B \div 2)
      BY Base
    <3> QED BY <3>1
  <2> DEFINE q == Power(8)[7]
             m == n
  <2>3. c * q \in Nat /\ m = 2 * (c * q)
    BY <2>1, <2>2
  <2> HIDE DEF q, m
  <2>4. \A y \in Nat : 2 * y \in Nat /\ ((2 * y) % 2) = 0
    OBVIOUS
  <2>5. m \in Nat /\ m % 2 = 0
    BY <2>3, <2>4
  <2> QED BY <2>5 DEF m
<1> DEFINE s == Signed(8, u)
<1>2. s = IF u >= n \div 2 THEN u - n ELSE u
  BY DEF Signed
<1>3. u \in 0 .. n - 1
  OBVIOUS
<1> HIDE DEF n, s
<1>4. /\ s \in -(n \div 2) .. n \div 2 - 1
      /\ s >= 0 => s = u
      /\ u < n \div 2 => s = u
  BY <1>1, <1>2, <1>3
<1> QED BY <1>4 DEF n, s

(* A length is read as it was written. *)
LEMMA LengthIsRead ==
  ASSUME NEW n \in Nat, n < Span(8) \div 2
  PROVE  /\ PutUint(8, n) \in Seq(Octet) /\ Len(PutUint(8, n)) = 8
         /\ Signed(8, Uint(PutUint(8, n))) = n
<1>1. Span(8) \in Nat
  BY ThePowers
<1>2. n \in 0 .. Span(8) - 1
  <2> DEFINE s == Span(8)
  <2>1. s \in Nat /\ n < s \div 2
    BY <1>1
  <2> HIDE DEF s
  <2>2. n \in 0 .. s - 1
    BY <2>1
  <2> QED BY <2>2 DEF s
<1> QED BY <1>2, NumberIsRead, SignedNumber

(* A length that is not negative would be written as it was read. *)
LEMMA LengthIsWritten ==
  ASSUME NEW b \in Seq(Octet), Len(b) = 8
  PROVE  /\ Signed(8, Uint(b)) \in -(Span(8) \div 2) .. Span(8) \div 2 - 1
         /\ Signed(8, Uint(b)) >= 0 => PutUint(8, Signed(8, Uint(b))) = b
<1>1. Uint(b) \in 0 .. Span(8) - 1 /\ PutUint(8, Uint(b)) = b
  BY BytesAreWritten
<1>2. /\ Signed(8, Uint(b)) \in -(Span(8) \div 2) .. Span(8) \div 2 - 1
      /\ Signed(8, Uint(b)) >= 0 => Signed(8, Uint(b)) = Uint(b)
  BY <1>1, SignedNumber
<1> QED BY <1>1, <1>2
-----------------------------------------------------------------------------
(* FlattenSeq, one sequence at a time *)
Flattening(s, n, f) == f = [k \in 1 .. n |-> IF k = 1 THEN s[k] ELSE f[k - 1] \o s[k]]
Flat(s) == CHOOSE f : Flattening(s, Len(s), f)

(* The prefixes that FlattenSeq joins *)
LEMMA FlatExists ==
  ASSUME NEW S, NEW s \in Seq(Seq(S))
  PROVE  \E f : Flattening(s, Len(s), f)
<1> DEFINE n == Len(s)
           G == [k \in 1 .. n |-> [y \in Seq(S) |-> y \o s[k]]]
<1>1. n \in Nat /\ \A k \in 1 .. n : s[k] \in Seq(S)
  OBVIOUS
<1>2. G \in [1 .. n -> [Seq(S) -> Seq(S)]] /\ <<>> \in Seq(S)
  <2>1. \A k \in 1 .. n : \A y \in Seq(S) : y \o s[k] \in Seq(S)
    BY <1>1
  <2> QED BY <2>1
<1>3. PICK f \in [0 .. n -> Seq(S)] : Follows(<<>>, n, G, f)
  <2> HIDE DEF G, n
  <2> QED BY <1>1, <1>2, Recursion, Zenon
<1>4. ASSUME NEW k \in 1 .. n PROVE f[k] = f[k - 1] \o s[k]
  <2>1. k - 1 \in 0 .. n
    BY <1>1
  <2>2. f[k - 1] \in Seq(S)
    BY <2>1
  <2> QED BY <1>3, <2>2 DEF Follows
<1>5. f[0] = <<>>
  BY <1>3 DEF Follows
<1> HIDE DEF G, n
<1> DEFINE g == [k \in 1 .. n |-> f[k]]
<1>6. ASSUME NEW k \in 1 .. n PROVE g[k] = IF k = 1 THEN s[k] ELSE g[k - 1] \o s[k]
  <2>1. CASE k = 1
    <3>1. f[1] = f[0] \o s[1] /\ s[1] \in Seq(S)
      <4>1. f[k] = f[k - 1] \o s[k]
        BY <1>4
      <4>2. k - 1 = 0
        BY <2>1
      <4> QED BY <1>1, <2>1, <4>1, <4>2
    <3>2. <<>> \o s[1] = s[1]
      BY <3>1
    <3> QED BY <1>5, <2>1, <3>1, <3>2
  <2>2. CASE k # 1
    <3>1. k - 1 \in 1 .. n
      BY <1>1, <2>2
    <3>2. g[k] = f[k] /\ g[k - 1] = f[k - 1]
      BY <3>1
    <3> HIDE DEF g
    <3> QED BY <1>4, <2>2, <3>2, Zenon
  <2> QED BY <2>1, <2>2
<1>7. g = [k \in 1 .. n |-> g[k]]
  OBVIOUS
<1> HIDE DEF g
<1>8. g = [k \in 1 .. n |-> IF k = 1 THEN s[k] ELSE g[k - 1] \o s[k]]
  BY <1>6, <1>7
<1> QED BY <1>8 DEF Flattening, n

LEMMA FlatSteps ==
  ASSUME NEW S, NEW s \in Seq(Seq(S))
  PROVE  /\ \A k \in 1 .. Len(s) : Flat(s)[k] = IF k = 1 THEN s[k] ELSE Flat(s)[k - 1] \o s[k]
         /\ Len(s) # 0 => FlattenSeq(s) = Flat(s)[Len(s)]
<1>1. Flattening(s, Len(s), Flat(s))
  BY FlatExists, Zenon DEF Flat
<1>2. Len(s) # 0 => FlattenSeq(s) = Flat(s)[Len(s)]
  BY DEF FlattenSeq, Flat, Flattening
<1> QED BY <1>1, <1>2 DEF Flattening

LEMMA FlattenNone == FlattenSeq(<<>>) = <<>>
BY DEF FlattenSeq

(* One sequence more is joined behind the others. *)
LEMMA FlattenAppend ==
  ASSUME NEW S, NEW s \in Seq(Seq(S)), NEW t \in Seq(S)
  PROVE  FlattenSeq(Append(s, t)) = FlattenSeq(s) \o t
<1> DEFINE r == Append(s, t)
           n == Len(s)
<1>1. /\ n \in Nat /\ r \in Seq(Seq(S)) /\ Len(r) = n + 1 /\ r[n + 1] = t
      /\ \A k \in 1 .. n : r[k] = s[k]
  OBVIOUS
<1>2. /\ \A k \in 1 .. n : Flat(s)[k] = IF k = 1 THEN s[k] ELSE Flat(s)[k - 1] \o s[k]
      /\ n # 0 => FlattenSeq(s) = Flat(s)[n]
  BY FlatSteps
<1>3. /\ \A k \in 1 .. n + 1 : Flat(r)[k] = IF k = 1 THEN r[k] ELSE Flat(r)[k - 1] \o r[k]
      /\ FlattenSeq(r) = Flat(r)[n + 1]
  <2> HIDE DEF r
  <2>1. \A k \in 1 .. Len(r) : Flat(r)[k] = IF k = 1 THEN r[k] ELSE Flat(r)[k - 1] \o r[k]
    BY <1>1, FlatSteps
  <2>2. Len(r) # 0 => FlattenSeq(r) = Flat(r)[Len(r)]
    BY <1>1, FlatSteps
  <2> QED BY <1>1, <2>1, <2>2
<1>4. n = 0 => s = <<>>
  OBVIOUS
<1> HIDE DEF r, n
<1> DEFINE P == {k \in 0 .. n : k = 0 \/ Flat(r)[k] = Flat(s)[k]}
<1>5. 0 \in P
  BY <1>1
<1>6. ASSUME NEW k \in 1 .. n, k - 1 \in P PROVE k \in P
  <2>1. k \in 0 .. n /\ k \in 1 .. n + 1
    BY <1>1
  <2>2. Flat(r)[k] = IF k = 1 THEN s[k] ELSE Flat(r)[k - 1] \o s[k]
    BY <1>1, <1>3, <2>1
  <2>3. k # 1 => Flat(r)[k - 1] = Flat(s)[k - 1]
    BY <1>1, <1>6
  <2>4. Flat(s)[k] = IF k = 1 THEN s[k] ELSE Flat(s)[k - 1] \o s[k]
    BY <1>2
  <2>5. Flat(r)[k] = Flat(s)[k]
    BY <2>2, <2>3, <2>4, Zenon
  <2> QED BY <2>1, <2>5
<1> HIDE DEF P
<1>7. \A k \in 0 .. n : k \in P
  BY <1>1, <1>5, <1>6, Counting
<1>8. CASE n = 0
  <2>1. FlattenSeq(r) = t
    <3>1. n + 1 = 1 /\ 1 \in 1 .. n + 1
      BY <1>8
    <3> QED BY <1>1, <1>3, <3>1
  <2>2. <<>> \o t = t
    OBVIOUS
  <2> QED BY <1>4, <1>8, <2>1, <2>2, FlattenNone DEF r
<1>9. CASE n # 0
  <2>1. n \in 0 .. n /\ n + 1 \in 1 .. n + 1 /\ n + 1 # 1 /\ (n + 1) - 1 = n
    BY <1>1, <1>9
  <2>2. Flat(r)[n] = Flat(s)[n]
    <3>1. n \in P
      BY <1>7, <2>1
    <3> QED BY <1>9, <3>1 DEF P
  <2>3. Flat(r)[n + 1] = Flat(r)[(n + 1) - 1] \o r[n + 1]
    BY <1>3, <2>1, Zenon
  <2> QED BY <1>1, <1>2, <1>3, <1>9, <2>1, <2>2, <2>3 DEF r
<1> QED BY <1>8, <1>9
LEMMA FlattenType == ASSUME NEW S, NEW s \in Seq(Seq(S)) PROVE FlattenSeq(s) \in Seq(S)
<1> DEFINE n == Len(s)
           f == Flat(s)
           P == {k \in 0 .. n : k = 0 \/ f[k] \in Seq(S)}
<1>1. n \in Nat /\ \A k \in 1 .. n : s[k] \in Seq(S)
  OBVIOUS
<1>2. /\ \A k \in 1 .. n : f[k] = IF k = 1 THEN s[k] ELSE f[k - 1] \o s[k]
      /\ n # 0 => FlattenSeq(s) = f[n]
  BY FlatSteps
<1>3. n = 0 => FlattenSeq(s) = <<>>
  <2>1. n = 0 => s = <<>>
    OBVIOUS
  <2> QED BY <2>1, FlattenNone
<1> HIDE DEF n, f
<1>4. 0 \in P
  BY <1>1
<1>5. ASSUME NEW k \in 1 .. n, k - 1 \in P PROVE k \in P
  <2>1. k \in 0 .. n /\ s[k] \in Seq(S)
    BY <1>1
  <2>2. k # 1 => f[k - 1] \in Seq(S)
    BY <1>5
  <2>3. k # 1 => f[k - 1] \o s[k] \in Seq(S)
    BY <2>1, <2>2
  <2>4. f[k] \in Seq(S)
    BY <1>2, <2>1, <2>3, Zenon
  <2> QED BY <2>1, <2>4
<1> HIDE DEF P
<1>6. \A k \in 0 .. n : k \in P
  BY <1>1, <1>4, <1>5, Counting
<1>7. CASE n # 0
  <2>1. n \in P
    BY <1>1, <1>6
  <2> QED BY <1>2, <1>7, <2>1 DEF P
<1>8. CASE n = 0
  BY <1>3, <1>8
<1> QED BY <1>7, <1>8

(* Where the frames begin: the first k of them, in one piece *)
First(s, k) == FlattenSeq(SubSeq(s, 1, k))

(* The first k sequences joined, from k to k + 1 *)
LEMMA FirstOnes ==
  ASSUME NEW S, NEW s \in Seq(Seq(S))
  PROVE  /\ First(s, 0) = <<>> /\ First(s, Len(s)) = FlattenSeq(s)
         /\ \A k \in 0 .. Len(s) : First(s, k) \in Seq(S)
         /\ \A k \in 0 .. Len(s) - 1 : First(s, k + 1) = First(s, k) \o s[k + 1]
<1>1. SubSeq(s, 1, 0) = <<>> /\ SubSeq(s, 1, Len(s)) = s
  OBVIOUS
<1>2. \A k \in 0 .. Len(s) : SubSeq(s, 1, k) \in Seq(Seq(S))
  OBVIOUS
<1>3. ASSUME NEW k \in 0 .. Len(s) - 1
      PROVE  /\ SubSeq(s, 1, k + 1) = Append(SubSeq(s, 1, k), s[k + 1])
             /\ SubSeq(s, 1, k) \in Seq(Seq(S)) /\ s[k + 1] \in Seq(S)
  OBVIOUS
<1>4. \A k \in 0 .. Len(s) : First(s, k) \in Seq(S)
  BY <1>2, FlattenType DEF First
<1>5. ASSUME NEW k \in 0 .. Len(s) - 1 PROVE First(s, k + 1) = First(s, k) \o s[k + 1]
  <2> DEFINE q == SubSeq(s, 1, k)
             t == s[k + 1]
  <2>1. q \in Seq(Seq(S)) /\ t \in Seq(S) /\ SubSeq(s, 1, k + 1) = Append(q, t)
    BY <1>3
  <2>2. First(s, k + 1) = FlattenSeq(Append(q, t)) /\ First(s, k) = FlattenSeq(q)
    BY <2>1 DEF First
  <2> HIDE DEF q, t
  <2>3. FlattenSeq(Append(q, t)) = FlattenSeq(q) \o t
    BY <2>1, FlattenAppend
  <2> QED BY <2>2, <2>3 DEF t
<1> QED BY <1>1, <1>4, <1>5, FlattenNone DEF First

(* One sequence begins with another *)
Begins(s, t) == Len(t) <= Len(s) /\ \A j \in 1 .. Len(t) : s[j] = t[j]

(* All sequences joined begin with the first ones joined. *)
LEMMA AllBeginsWithFirst ==
  ASSUME NEW S, NEW s \in Seq(Seq(S)), NEW k \in 0 .. Len(s)
  PROVE  Begins(FlattenSeq(s), First(s, k))
<1> DEFINE n == Len(s)
           all == FlattenSeq(s)
           F(j) == First(s, j)
           P == {i \in 0 .. n : Begins(all, F(n - i))}
<1>1. /\ n \in Nat /\ F(n) = all /\ all \in Seq(S)
      /\ \A j \in 0 .. n : F(j) \in Seq(S)
      /\ \A j \in 0 .. n - 1 : F(j + 1) = F(j) \o s[j + 1] /\ s[j + 1] \in Seq(S)
  <2>1. \A j \in 0 .. n - 1 : s[j + 1] \in Seq(S)
    OBVIOUS
  <2> QED BY <2>1, FirstOnes, FlattenType
<1> HIDE DEF n, F, all
<1>2. 0 \in P
  <2>1. n - 0 = n /\ 0 \in 0 .. n
    BY <1>1
  <2>2. Begins(all, all)
    BY <1>1 DEF Begins
  <2> QED BY <1>1, <2>1, <2>2
<1>3. ASSUME NEW i \in 1 .. n, i - 1 \in P PROVE i \in P
  <2>1. /\ n - i \in 0 .. n - 1 /\ n - i \in 0 .. n /\ n - (i - 1) = (n - i) + 1
        /\ i \in 0 .. n /\ (n - i) + 1 \in 0 .. n
    BY <1>1
  <2> DEFINE u == F(n - i)
             v == F((n - i) + 1)
             t == s[(n - i) + 1]
  <2>2. u \in Seq(S) /\ v \in Seq(S) /\ t \in Seq(S) /\ v = u \o t
    BY <1>1, <2>1
  <2>3. Begins(all, v)
    BY <1>3, <2>1
  <2> HIDE DEF u, v, t
  <2>4. Len(v) = Len(u) + Len(t) /\ \A j \in 1 .. Len(u) : v[j] = u[j]
    BY <2>2
  <2>5. Begins(all, u)
    <3>1. Len(u) \in Nat /\ Len(t) \in Nat /\ Len(all) \in Nat
      BY <1>1, <2>2
    <3> QED BY <2>3, <2>4, <3>1 DEF Begins
  <2> QED BY <2>1, <2>5 DEF u
<1> HIDE DEF P
<1>4. \A i \in 0 .. n : i \in P
  BY <1>1, <1>2, <1>3, Counting
<1>5. n - k \in P /\ n - (n - k) = k
  BY <1>1, <1>4 DEF n
<1>6. Begins(all, F(n - (n - k)))
  BY <1>5 DEF P
<1>7. Begins(all, F(k))
  BY <1>5, <1>6
<1> QED BY <1>7 DEF F, all
-----------------------------------------------------------------------------
(* A file of frames *)
Payload(item) == Serializer(item.type, item.value).r
InFrames(items) == [k \in 1 .. Len(items) |-> Frame(Payload(items[k]))]
Sendable(items) ==
  /\ Len(items) \in Nat
  /\ \A k \in 1 .. Len(items) :
       Payload(items[k]) \in Seq(Octet) /\ Len(Payload(items[k])) < Span(8) \div 2

(* A frame is eight bytes of length and the payload. *)
LEMMA OneFrame ==
  ASSUME NEW d \in Seq(Octet), Len(d) < Span(8) \div 2
  PROVE  /\ Frame(d) \in Seq(Octet) /\ Len(Frame(d)) = 8 + Len(d)
         /\ \A j \in 1 .. 8 : Frame(d)[j] = PutUint(8, Len(d))[j]
         /\ \A j \in 1 .. Len(d) : Frame(d)[8 + j] = d[j]
<1> DEFINE n == Len(d)
           h == PutUint(8, n)
<1>1. n \in Nat /\ n < Span(8) \div 2
  OBVIOUS
<1> HIDE DEF n
<1>2. h \in Seq(Octet) /\ Len(h) = 8
  BY <1>1, LengthIsRead
<1>3. Frame(d) = h \o d
  BY DEF Frame, n
<1> HIDE DEF h
<1>4. /\ h \o d \in Seq(Octet) /\ Len(h \o d) = 8 + Len(d)
      /\ \A j \in 1 .. 8 : (h \o d)[j] = h[j]
      /\ \A j \in 1 .. Len(d) : (h \o d)[8 + j] = d[j]
  <2>1. /\ h \o d \in Seq(Octet) /\ Len(h \o d) = Len(h) + Len(d)
        /\ \A j \in 1 .. Len(h) : (h \o d)[j] = h[j]
        /\ \A j \in 1 .. Len(d) : (h \o d)[Len(h) + j] = d[j]
    <3>1. h \in Seq(Octet) /\ d \in Seq(Octet)
      BY <1>2
    <3>2. h \o d \in Seq(Octet) /\ Len(h \o d) = Len(h) + Len(d)
      BY <3>1
    <3>3. \A j \in 1 .. Len(h) : (h \o d)[j] = h[j]
      BY <3>1
    <3>4. \A j \in 1 .. Len(d) : (h \o d)[Len(h) + j] = d[j]
      BY <3>1
    <3> QED BY <3>2, <3>3, <3>4
  <2> QED BY <1>2, <2>1
<1> QED BY <1>3, <1>4 DEF h, n

(* The frames of several items are bytes. *)
LEMMA TheFrames ==
  ASSUME NEW items, Sendable(items)
  PROVE  /\ InFrames(items) \in Seq(Seq(Octet)) /\ Len(InFrames(items)) = Len(items)
         /\ \A k \in 1 .. Len(items) : InFrames(items)[k] = Frame(Payload(items[k]))
         /\ Frames(items) = FlattenSeq(InFrames(items)) /\ Frames(items) \in Seq(Octet)
<1> DEFINE n == Len(items)
           s == InFrames(items)
<1>1. n \in Nat /\ \A k \in 1 .. n : Frame(Payload(items[k])) \in Seq(Octet)
  BY OneFrame DEF Sendable
<1>2. s = [k \in 1 .. n |-> Frame(Payload(items[k]))]
  BY DEF InFrames
<1>3. Frames(items) = FlattenSeq(s)
  BY DEF Frames, InFrames, Payload
<1> HIDE DEF n, s
<1>4. s \in [1 .. n -> Seq(Octet)] /\ \A k \in 1 .. n : s[k] = Frame(Payload(items[k]))
  BY <1>1, <1>2
<1>5. s \in Seq(Seq(Octet)) /\ Len(s) = n
  BY <1>1, <1>4
<1>6. FlattenSeq(s) \in Seq(Octet)
  BY <1>5, FlattenType
<1> QED BY <1>3, <1>4, <1>5, <1>6 DEF n, s
-----------------------------------------------------------------------------
(* The file is what the encoder made of the values, cut or with a wrong
   byte; the guest is at one of its frames. *)
Total == Frames(sent)

FileOK ==
  /\ sent \in Programs /\ Sendable(sent) /\ Len(sent) > 0
  /\ witnessBytes \in Seq(Octet)
  /\ damage = "none" => witnessBytes = Total
  /\ damage = "cut" => Len(witnessBytes) < Len(Total) /\ Begins(Total, witnessBytes)
  /\ damage \in {"none", "cut", "altered"}

TypeInv ==
  /\ FileOK /\ WitnessTypeOK
  /\ \E S : got \in Seq(S)
  /\ stage \in {"length", "data"} => Len(got) < Len(sent)
  /\ stage = "done" => Len(got) = Len(sent)

LEMMA WhatIsSent == ASSUME NEW p \in Programs PROVE Sendable(p) /\ Len(p) > 0
BY ProgramsAssumption DEF Sendable, Payload

(* What FileOK says of the file holds when the guest starts. *)
LEMMA FileArrives == ASSUME WitnessInit PROVE FileOK
<1>1. sent \in Programs /\ Sendable(sent) /\ Len(sent) > 0 /\ Arrives(Total)
  BY WhatIsSent DEF WitnessInit, Total
<1>2. Total \in Seq(Octet)
  BY <1>1, TheFrames DEF Total
<1> DEFINE t == Total
<1> HIDE DEF t
<1>3. t \in Seq(Octet) /\ Arrives(t)
  BY <1>1, <1>2 DEF t
<1>4. CASE damage = "none" /\ witnessBytes = t
  BY <1>1, <1>3, <1>4 DEF FileOK, t
<1>5. CASE damage = "cut" /\ \E n \in 0 .. Len(t) - 1 : witnessBytes = SubSeq(t, 1, n)
  <2>1. PICK n \in 0 .. Len(t) - 1 : witnessBytes = SubSeq(t, 1, n)
    BY <1>5
  <2>2. /\ SubSeq(t, 1, n) \in Seq(Octet) /\ Len(SubSeq(t, 1, n)) = n /\ n < Len(t)
        /\ \A j \in 1 .. n : t[j] = SubSeq(t, 1, n)[j]
    BY <1>3
  <2>3. witnessBytes \in Seq(Octet) /\ Len(witnessBytes) < Len(t) /\ Begins(t, witnessBytes)
    BY <1>3, <2>1, <2>2 DEF Begins
  <2> QED BY <1>1, <1>5, <2>3 DEF FileOK, t
<1>6. CASE damage = "altered" /\ \E i \in 1 .. Len(t) : \E b \in Octet \ {t[i]} :
                                    witnessBytes = [t EXCEPT ![i] = b]
  <2>1. PICK i \in 1 .. Len(t), b \in Octet : witnessBytes = [t EXCEPT ![i] = b]
    BY <1>6
  <2>2. [t EXCEPT ![i] = b] \in Seq(Octet)
    BY <1>3
  <2>3. witnessBytes \in Seq(Octet)
    BY <2>1, <2>2
  <2> QED BY <1>1, <1>6, <2>3 DEF FileOK
<1> QED BY <1>3, <1>4, <1>5, <1>6, Zenon DEF Arrives

LEMMA HalfSpan == Span(8) \div 2 \in Nat \ {0}
<1> DEFINE p == Power(8)
<1>1. Span(8) = B * p[7] /\ p[7] \in Nat \ {0}
  BY ThePowers
<1>2. \A y \in Nat \ {0} : B * y \in Nat /\ B * y >= 2
  BY Base
<1> DEFINE n == Span(8)
<1>3. n \in Nat /\ n >= 2
  BY <1>1, <1>2
<1> HIDE DEF n
<1>4. n \div 2 \in Nat \ {0}
  BY <1>3
<1> QED BY <1>4 DEF n

LEMMA TypeInitially == WitnessInit => TypeInv
<1> SUFFICES ASSUME WitnessInit PROVE TypeInv
  OBVIOUS
<1>1. FileOK
  BY FileArrives
<1>2. got = <<>> /\ witnessOffset = 0 /\ length = 0 /\ stage = "length"
  BY DEF WitnessInit
<1>3. Len(witnessBytes) \in Nat /\ Len(sent) \in Nat /\ Len(sent) > 0
  BY <1>1 DEF FileOK, Sendable
<1>4. Len(got) = 0 /\ got \in Seq({})
  BY <1>2
<1>5. 0 \in -(Span(8) \div 2) .. Span(8) \div 2 - 1
  <2> DEFINE h == Span(8) \div 2
  <2>1. h \in Nat \ {0}
    BY HalfSpan
  <2> HIDE DEF h
  <2>2. 0 \in -h .. h - 1
    BY <2>1
  <2> QED BY <2>2 DEF h
<1>6. WitnessTypeOK
  BY <1>2, <1>3, <1>4, <1>5 DEF WitnessTypeOK
<1> QED BY <1>1, <1>2, <1>3, <1>4, <1>6 DEF TypeInv

(* n bytes of the file that are there *)
LEMMA BytesAre ==
  ASSUME FileOK, witnessOffset \in Nat, NEW n \in Int, Available(n)
  PROVE  /\ n \in Nat /\ witnessOffset + n <= Len(witnessBytes)
         /\ Bytes(witnessBytes, witnessOffset, n) \in Seq(Octet)
         /\ Len(Bytes(witnessBytes, witnessOffset, n)) = n
         /\ \A j \in 1 .. n :
              Bytes(witnessBytes, witnessOffset, n)[j] = witnessBytes[witnessOffset + j]
<1> DEFINE w == witnessBytes
           o == witnessOffset
<1>1. w \in Seq(Octet) /\ o \in Nat /\ n \in Nat /\ o + n <= Len(w)
  BY DEF FileOK, Available, InRange
<1> HIDE DEF w, o
<1>2. /\ SubSeq(w, o + 1, o + n) \in Seq(Octet) /\ Len(SubSeq(w, o + 1, o + n)) = n
      /\ \A j \in 1 .. n : SubSeq(w, o + 1, o + n)[j] = w[o + j]
  <2> DEFINE q == SubSeq(w, o + 1, o + n)
  <2>1. q \in Seq(Octet)
    BY <1>1
  <2>2. Len(q) = n
    BY <1>1
  <2>3. ASSUME NEW j \in 1 .. n PROVE q[j] = w[o + j]
    <3>1. q[j] = w[(o + 1) + j - 1] /\ (o + 1) + j - 1 = o + j
      BY <1>1
    <3> QED BY <3>1
  <2> QED BY <2>1, <2>2, <2>3
<1> QED BY <1>1, <1>2 DEF Bytes, w, o

(* What ReadLength does when there are eight bytes *)
LEMMA LengthOf ==
  ASSUME TypeInv, ReadLength, Available(8)
  PROVE  /\ length' = Signed(8, Uint(Bytes(witnessBytes, witnessOffset, 8)))
         /\ length' \in -(Span(8) \div 2) .. Span(8) \div 2 - 1
         /\ length' >= 0 => PutUint(8, length') = Bytes(witnessBytes, witnessOffset, 8)
         /\ witnessOffset' = witnessOffset + 8 /\ witnessOffset \in Nat
         /\ witnessOffset' \in 0 .. Len(witnessBytes)
         /\ stage' = "data" /\ got' = got
<1>1. witnessOffset \in Nat /\ FileOK
  BY DEF TypeInv, FileOK, WitnessTypeOK
<1> DEFINE b == Bytes(witnessBytes, witnessOffset, 8)
<1>2. b \in Seq(Octet) /\ Len(b) = 8 /\ witnessOffset + 8 <= Len(witnessBytes)
  <2>1. 8 \in Int
    OBVIOUS
  <2> QED BY <1>1, <2>1, BytesAre, Zenon
<1>3. /\ length' = Signed(8, Uint(b)) /\ witnessOffset' = witnessOffset + 8
      /\ stage' = "data" /\ got' = got
  BY DEF ReadLength
<1>4. Len(witnessBytes) \in Nat
  BY <1>1 DEF FileOK
<1> HIDE DEF b
<1>5. /\ Signed(8, Uint(b)) \in -(Span(8) \div 2) .. Span(8) \div 2 - 1
      /\ Signed(8, Uint(b)) >= 0 => PutUint(8, Signed(8, Uint(b))) = b
  BY <1>2, LengthIsWritten
<1>6. witnessOffset' \in 0 .. Len(witnessBytes)
  BY <1>1, <1>2, <1>3, <1>4
<1> QED BY <1>1, <1>3, <1>5, <1>6 DEF b

(* What ReadData does when there is as much data as the length says *)
LEMMA DataOf ==
  ASSUME TypeInv, ReadData, Available(length)
  PROVE  LET b == Bytes(witnessBytes, witnessOffset, length)
             d == Deserializer(b, Wanted)
         IN /\ witnessOffset' = witnessOffset + length /\ length' = length
            /\ length \in Nat /\ length < Span(8) \div 2
            /\ witnessOffset' \in 0 .. Len(witnessBytes) /\ witnessOffset \in Nat
            /\ b \in Seq(Octet) /\ Len(b) = length
            /\ \/ /\ d.st = "ok" /\ got' = Append(got, d.r)
                  /\ stage' = IF Len(got') = Len(sent) THEN "done" ELSE "length"
               \/ stage' = "panic" /\ got' = got
<1> DEFINE b == Bytes(witnessBytes, witnessOffset, length)
<1>1. witnessOffset \in Nat /\ FileOK
  BY DEF TypeInv, FileOK, WitnessTypeOK
<1>2. length \in Int /\ length < Span(8) \div 2
  <2> DEFINE h == Span(8) \div 2
  <2>1. h \in Nat \ {0} /\ length \in -h .. h - 1
    BY HalfSpan DEF TypeInv, WitnessTypeOK
  <2> HIDE DEF h
  <2>2. length \in Int /\ length < h
    BY <2>1
  <2> QED BY <2>2 DEF h
<1>3. length \in Nat /\ witnessOffset + length <= Len(witnessBytes) /\ b \in Seq(Octet) /\ Len(b) = length
  BY <1>1, <1>2, BytesAre
<1>4. witnessOffset' = witnessOffset + length /\ length' = length
  BY DEF ReadData
<1>5. Len(witnessBytes) \in Nat
  BY <1>1 DEF FileOK
<1>6. witnessOffset' \in 0 .. Len(witnessBytes)
  BY <1>1, <1>3, <1>4, <1>5
<1>7. LET d == Deserializer(b, Wanted)
      IN \/ /\ d.st = "ok" /\ got' = Append(got, d.r)
            /\ stage' = IF Len(got') = Len(sent) THEN "done" ELSE "length"
         \/ stage' = "panic" /\ got' = got
  BY DEF ReadData
<1> QED BY <1>1, <1>2, <1>3, <1>4, <1>6, <1>7

(* One result more *)
LEMMA OneMore ==
  ASSUME \E S : got \in Seq(S), NEW r, got' = Append(got, r)
  PROVE  /\ \E S : got' \in Seq(S)
         /\ Len(got) \in Nat /\ Len(got') = Len(got) + 1
         /\ got'[Len(got) + 1] = r /\ \A i \in 1 .. Len(got) : got'[i] = got[i]
         /\ DOMAIN got = 1 .. Len(got) /\ DOMAIN got' = 1 .. Len(got) + 1
<1>1. PICK S : got \in Seq(S)
  OBVIOUS
<1> DEFINE T == S \cup {r}
<1>2. got \in Seq(T) /\ r \in T
  <2>1. \A i \in 1 .. Len(got) : got[i] \in T
    BY <1>1
  <2> QED BY <1>1, <2>1
<1> HIDE DEF T
<1>3. got' \in Seq(T)
  BY <1>2
<1>4. Len(got') = Len(got) + 1 /\ got'[Len(got) + 1] = r /\ \A i \in 1 .. Len(got) : got'[i] = got[i]
  BY <1>2
<1>5. Len(got) \in Nat /\ DOMAIN got = 1 .. Len(got) /\ DOMAIN got' = 1 .. Len(got')
  BY <1>2, <1>3
<1> QED BY <1>3, <1>4, <1>5

LEMMA FileStays == UNCHANGED <<sent, witnessBytes, damage>> /\ FileOK => FileOK'
BY DEF FileOK, Sendable, Payload, Total, Frames, Frame, Begins

LEMMA TypeStep == TypeInv /\ [WitnessNext]_witnessVars => TypeInv'
<1> SUFFICES ASSUME TypeInv, [WitnessNext]_witnessVars PROVE TypeInv'
  OBVIOUS
<1>1. UNCHANGED <<sent, witnessBytes, damage>>
  BY DEF WitnessNext, ReadLength, ReadData, Ended, witnessVars
<1>2. FileOK'
  BY <1>1, FileStays DEF TypeInv
<1>3. /\ FileOK /\ WitnessTypeOK /\ \E S : got \in Seq(S)
      /\ Len(got) \in Nat /\ Len(sent) \in Nat
      /\ stage \in {"length", "data"} => Len(got) < Len(sent)
  BY DEF TypeInv, FileOK, Sendable
<1>4. ASSUME UNCHANGED witnessVars PROVE TypeInv'
  BY <1>2, <1>4 DEF TypeInv, WitnessTypeOK, witnessVars
<1>5. ASSUME Panics PROVE TypeInv'
  BY <1>1, <1>2, <1>5 DEF TypeInv, WitnessTypeOK, Panics
<1>6. ASSUME ReadLength PROVE TypeInv'
  <2>1. CASE Available(8)
    BY <1>1, <1>2, <1>3, <1>6, <2>1, LengthOf DEF TypeInv, WitnessTypeOK, ReadLength
  <2>2. CASE ~Available(8)
    BY <1>5, <1>6, <2>2 DEF ReadLength
  <2> QED BY <2>1, <2>2
<1>7. ASSUME ReadData PROVE TypeInv'
  <2>1. CASE ~Available(length)
    BY <1>5, <1>7, <2>1 DEF ReadData
  <2>2. CASE Available(length)
    <3>1. /\ witnessOffset' \in 0 .. Len(witnessBytes) /\ length' = length
      BY <1>7, <2>2, DataOf
    <3>2. CASE stage' = "panic" /\ got' = got
      BY <1>1, <1>2, <1>3, <3>1, <3>2 DEF TypeInv, WitnessTypeOK
    <3>3. CASE /\ \E r : got' = Append(got, r)
               /\ stage' = IF Len(got') = Len(sent) THEN "done" ELSE "length"
      <4>1. PICK r : got' = Append(got, r)
        BY <3>3
      <4>2. /\ \E S : got' \in Seq(S) /\ Len(got') = Len(got) + 1
        BY <1>3, <4>1, OneMore
      <4>3. Len(got) < Len(sent)
        BY <1>3, <1>7 DEF ReadData
      <4>4. Len(got') <= Len(sent) /\ Len(got') = Len(got) + 1
        BY <1>3, <4>2, <4>3
      <4> QED BY <1>1, <1>2, <1>3, <3>1, <3>3, <4>2, <4>4 DEF TypeInv, WitnessTypeOK
    <3> QED BY <1>7, <2>2, <3>2, <3>3, DataOf
  <2> QED BY <2>1, <2>2
<1> QED BY <1>4, <1>6, <1>7 DEF WitnessNext, Ended

(* TypeInv is inductive: the file is what the encoder made, cut or altered,
   and a guest that is not at its end still waits for a value. *)
THEOREM WitnessInvariant == WitnessSpec => []TypeInv
<1> QED BY TypeInitially, TypeStep, PTL DEF WitnessSpec

(* Whatever length stands in the file, UnsafeReadFromEmbedded keeps
   witnessOffset within it, and a length is a 64-bit number. *)
THEOREM OffsetStays == WitnessSpec => []WitnessTypeOK
<1>1. TypeInv => WitnessTypeOK
  BY DEF TypeInv
<1> QED BY <1>1, WitnessInvariant, PTL
-----------------------------------------------------------------------------
(* Of the serialization package the order of the values needs this: what it
   makes of the serialized form of a value that is sent, if it does not
   panic, is the value. *)
RoundTrips ==
  \A p \in Programs : \A k \in 1 .. Len(p) :
    LET d == Deserializer(Payload(p[k]), p[k].type)
    IN d.st = "ok" => d.r = p[k].value

(* In a file without a wrong byte the guest is always at a frame. *)
Head8(k) == First(InFrames(sent), k)

OrderInv ==
  damage # "altered" =>
    /\ \A i \in 1 .. Len(got) : got[i] = sent[i].value
    /\ stage \in {"length", "done"} => witnessOffset = Len(Head8(Len(got)))
    /\ stage = "data" => /\ witnessOffset = Len(Head8(Len(got))) + 8
                         /\ length = Len(Payload(sent[Len(got) + 1]))

LEMMA OrderInitially == ASSUME WitnessInit PROVE OrderInv
<1>1. FileOK /\ Sendable(sent)
  BY FileArrives DEF FileOK
<1>2. InFrames(sent) \in Seq(Seq(Octet))
  BY <1>1, TheFrames
<1>3. Head8(0) = <<>>
  BY <1>2, FirstOnes DEF Head8
<1>4. got = <<>> /\ witnessOffset = 0 /\ stage = "length"
  BY DEF WitnessInit
<1>5. Len(got) = 0 /\ Len(Head8(0)) = 0
  BY <1>3, <1>4
<1> QED BY <1>4, <1>5 DEF OrderInv

(* The frame that follows, as far as it is in the file *)
LEMMA FrameAhead ==
  ASSUME FileOK, damage # "altered", NEW k \in Nat, k < Len(sent)
  PROVE  LET o == Len(Head8(k))
             d == Payload(sent[k + 1])
         IN /\ o \in Nat /\ d \in Seq(Octet) /\ Len(d) < Span(8) \div 2
            /\ Len(Head8(k + 1)) = o + 8 + Len(d)
            /\ o + 8 <= Len(witnessBytes) =>
                 \A j \in 1 .. 8 : witnessBytes[o + j] = PutUint(8, Len(d))[j]
            /\ o + 8 + Len(d) <= Len(witnessBytes) =>
                 \A j \in 1 .. Len(d) : witnessBytes[o + 8 + j] = d[j]
<1> DEFINE s == InFrames(sent)
           o == Len(Head8(k))
           d == Payload(sent[k + 1])
           u == Head8(k)
           v == Head8(k + 1)
           f == Frame(d)
           h == PutUint(8, Len(d))
           w == witnessBytes
<1>1. Sendable(sent) /\ w \in Seq(Octet) /\ Begins(Total, w) /\ Len(sent) \in Nat
  BY DEF FileOK, Begins, Sendable
<1>2. s \in Seq(Seq(Octet)) /\ Len(s) = Len(sent) /\ Total = FlattenSeq(s) /\ Total \in Seq(Octet)
  BY <1>1, TheFrames DEF Total
<1>3. k \in 0 .. Len(s) /\ k \in 0 .. Len(s) - 1 /\ k + 1 \in 0 .. Len(s) /\ k + 1 \in 1 .. Len(sent)
  BY <1>1, <1>2
<1>4. d \in Seq(Octet) /\ Len(d) < Span(8) \div 2 /\ s[k + 1] = f
  BY <1>1, <1>3, TheFrames DEF Sendable
<1>5. /\ f \in Seq(Octet) /\ Len(f) = 8 + Len(d)
      /\ \A j \in 1 .. 8 : f[j] = h[j]
      /\ \A j \in 1 .. Len(d) : f[8 + j] = d[j]
  BY <1>4, OneFrame
<1>6. u \in Seq(Octet) /\ v \in Seq(Octet) /\ v = u \o f
  <2> HIDE DEF s
  <2>1. First(s, k) \in Seq(Octet) /\ First(s, k + 1) \in Seq(Octet)
    BY <1>2, <1>3, FirstOnes
  <2>2. First(s, k + 1) = First(s, k) \o s[k + 1]
    BY <1>2, <1>3, FirstOnes
  <2> QED BY <1>4, <2>1, <2>2 DEF Head8, s
<1>7. Begins(Total, v)
  <2> HIDE DEF s
  <2>1. Begins(FlattenSeq(s), First(s, k + 1))
    BY <1>2, <1>3, AllBeginsWithFirst
  <2> QED BY <1>2, <2>1 DEF Head8, s
<1> HIDE DEF s, d, u, v, f, h, w
<1>8. /\ Len(u) \in Nat /\ Len(v) = Len(u) + Len(f)
      /\ \A j \in 1 .. Len(f) : v[Len(u) + j] = f[j]
  <2>1. u \in Seq(Octet) /\ f \in Seq(Octet) /\ v = u \o f
    BY <1>5, <1>6
  <2>2. Len(u) \in Nat
    BY <2>1
  <2>3. Len(u \o f) = Len(u) + Len(f)
    BY <2>1
  <2>4. \A j \in 1 .. Len(f) : (u \o f)[Len(u) + j] = f[j]
    BY <2>1
  <2> QED BY <2>1, <2>2, <2>3, <2>4
<1>9. Len(d) \in Nat /\ Len(w) \in Nat /\ o = Len(u)
  BY <1>1, <1>4 DEF u
<1> HIDE DEF o
<1>10. ASSUME NEW j \in 1 .. Len(f), o + j <= Len(w) PROVE w[o + j] = f[j]
  <2>1. o + j \in 1 .. Len(v) /\ o + j \in 1 .. Len(w)
    BY <1>5, <1>8, <1>9, <1>10
  <2>2. Total[o + j] = v[o + j] /\ Total[o + j] = w[o + j]
    BY <1>1, <1>7, <2>1 DEF Begins
  <2> QED BY <1>8, <1>9, <2>2
<1>11. ASSUME o + 8 <= Len(w), NEW j \in 1 .. 8 PROVE w[o + j] = h[j]
  <2>1. j \in 1 .. 8 /\ o \in Nat /\ Len(d) \in Nat /\ Len(w) \in Nat /\ Len(f) = 8 + Len(d)
    BY <1>5, <1>8, <1>9
  <2>2. j \in 1 .. Len(f)
    BY <2>1
  <2>3. o + j <= Len(w)
    BY <1>11, <2>1
  <2>4. w[o + j] = f[j] /\ f[j] = h[j]
    BY <1>5, <1>10, <2>2, <2>3
  <2> QED BY <2>4
<1>12. ASSUME o + 8 + Len(d) <= Len(w), NEW j \in 1 .. Len(d) PROVE w[o + 8 + j] = d[j]
  <2>1. 8 + j \in 1 .. Len(f) /\ o + (8 + j) <= Len(w) /\ o + 8 + j = o + (8 + j)
    BY <1>5, <1>8, <1>9, <1>12
  <2> QED BY <1>5, <1>10, <2>1
<1>13. Len(v) = o + 8 + Len(d) /\ o \in Nat
  BY <1>5, <1>8, <1>9
<1> QED BY <1>4, <1>11, <1>12, <1>13 DEF o, d, v, h, w

LEMMA SameBytes ==
  ASSUME NEW a \in Seq(Octet), NEW b \in Seq(Octet), Len(a) = Len(b),
         \A j \in 1 .. Len(b) : a[j] = b[j]
  PROVE  a = b
OBVIOUS

(* A step keeps the guest at the frame of the value it wants. *)
LEMMA OrderStep ==
  ASSUME RoundTrips, TypeInv, OrderInv, [WitnessNext]_witnessVars PROVE OrderInv'
<1>1. UNCHANGED <<sent, witnessBytes, damage>>
  BY DEF WitnessNext, ReadLength, ReadData, Ended, witnessVars
<1>2. \A k : Head8(k)' = Head8(k)
  BY <1>1 DEF Head8, InFrames, Payload, Frame
<1>3. UNCHANGED witnessVars => OrderInv'
  BY <1>2 DEF OrderInv, witnessVars, Payload
<1>4. Panics => OrderInv'
  BY <1>1 DEF OrderInv, Panics
<1>5. CASE damage = "altered"
  BY <1>1, <1>5 DEF OrderInv
<1>6. CASE damage # "altered"
  <2> DEFINE k == Len(got)
             o == Len(Head8(k))
             d == Payload(sent[k + 1])
             w == witnessBytes
  <2>1. FileOK /\ (\E S : got \in Seq(S)) /\ k \in Nat
    BY DEF TypeInv
  <2>2. stage \in {"length", "data"} => k < Len(sent)
    BY DEF TypeInv
  <2>3. stage \in {"length", "data"} =>
          /\ o \in Nat /\ d \in Seq(Octet) /\ Len(d) < Span(8) \div 2
          /\ Len(Head8(k + 1)) = o + 8 + Len(d)
          /\ o + 8 <= Len(w) => \A j \in 1 .. 8 : w[o + j] = PutUint(8, Len(d))[j]
          /\ o + 8 + Len(d) <= Len(w) => \A j \in 1 .. Len(d) : w[o + 8 + j] = d[j]
    BY <1>6, <2>1, <2>2, FrameAhead
  <2>4. /\ \A i \in 1 .. k : got[i] = sent[i].value
        /\ stage = "length" => witnessOffset = o
        /\ stage = "data" => witnessOffset = o + 8 /\ length = Len(d)
    BY <1>6 DEF OrderInv
  <2>5. ASSUME ReadLength, Available(8) PROVE OrderInv'
    <3>1. stage = "length"
      BY <2>5 DEF ReadLength
    <3>2. /\ o \in Nat /\ d \in Seq(Octet) /\ Len(d) < Span(8) \div 2 /\ witnessOffset = o
          /\ o + 8 <= Len(w) => \A j \in 1 .. 8 : w[o + j] = PutUint(8, Len(d))[j]
      BY <2>3, <2>4, <3>1
    <3> DEFINE b == Bytes(w, witnessOffset, 8)
               h == PutUint(8, Len(d))
    <3>3. /\ b \in Seq(Octet) /\ Len(b) = 8 /\ o + 8 <= Len(w)
          /\ \A j \in 1 .. 8 : b[j] = w[o + j]
      <4>1. 8 \in Int /\ witnessOffset \in Nat
        BY <3>2
      <4>2. /\ b \in Seq(Octet) /\ Len(b) = 8 /\ witnessOffset + 8 <= Len(w)
            /\ \A j \in 1 .. 8 : b[j] = w[witnessOffset + j]
        BY <2>1, <2>5, <4>1, BytesAre, Zenon
      <4> QED BY <3>2, <4>2
    <3>4. h \in Seq(Octet) /\ Len(h) = 8 /\ Signed(8, Uint(h)) = Len(d)
      <4>1. Len(d) \in Nat
        BY <3>2
      <4> HIDE DEF d
      <4> QED BY <3>2, <4>1, LengthIsRead
    <3>5. b = h
      <4>1. \A j \in 1 .. 8 : b[j] = h[j]
        BY <3>2, <3>3
      <4> HIDE DEF b, h
      <4> QED BY <3>3, <3>4, <4>1, SameBytes
    <3>6. /\ length' = Signed(8, Uint(b)) /\ witnessOffset' = witnessOffset + 8
          /\ stage' = "data" /\ got' = got
      BY <2>5, LengthOf
    <3>7. length' = Len(d) /\ witnessOffset' = o + 8
      BY <3>2, <3>4, <3>5, <3>6
    <3> HIDE DEF b, h
    <3> QED BY <1>1, <1>2, <2>4, <3>6, <3>7 DEF OrderInv, Payload
  <2>6. ASSUME ReadData, Available(length) PROVE OrderInv'
    <3>1. stage = "data"
      BY <2>6 DEF ReadData
    <3>2. /\ o \in Nat /\ d \in Seq(Octet) /\ witnessOffset = o + 8 /\ length = Len(d)
          /\ Len(Head8(k + 1)) = o + 8 + Len(d)
          /\ o + 8 + Len(d) <= Len(w) => \A j \in 1 .. Len(d) : w[o + 8 + j] = d[j]
      BY <2>3, <2>4, <3>1
    <3> DEFINE b == Bytes(w, witnessOffset, length)
               r == Deserializer(b, Wanted)
    <3>3. /\ b \in Seq(Octet) /\ Len(b) = Len(d) /\ o + 8 + Len(d) <= Len(w)
          /\ \A j \in 1 .. Len(d) : b[j] = w[o + 8 + j]
      <4>1. length \in Int /\ witnessOffset \in Nat
        BY <3>2
      <4>2. /\ b \in Seq(Octet) /\ Len(b) = length /\ witnessOffset + length <= Len(w)
            /\ \A j \in 1 .. length : b[j] = w[witnessOffset + j]
        BY <2>1, <2>6, <4>1, BytesAre, Zenon
      <4> QED BY <3>2, <4>2
    <3>4. b = d
      <4>1. \A j \in 1 .. Len(d) : b[j] = d[j]
        BY <3>2, <3>3
      <4> HIDE DEF b, d
      <4> QED BY <3>2, <3>3, <4>1, SameBytes
    <3>5. /\ witnessOffset' = witnessOffset + length
          /\ \/ /\ r.st = "ok" /\ got' = Append(got, r.r)
                /\ stage' = IF Len(got') = Len(sent) THEN "done" ELSE "length"
             \/ stage' = "panic" /\ got' = got
      BY <2>6, DataOf
    <3>6. CASE stage' = "panic" /\ got' = got
      BY <1>1, <1>2, <2>4, <3>6 DEF OrderInv
    <3>7. CASE /\ r.st = "ok" /\ got' = Append(got, r.r)
               /\ stage' = IF Len(got') = Len(sent) THEN "done" ELSE "length"
      <4>1. r.r = sent[k + 1].value
        <5>1. sent \in Programs /\ k + 1 \in 1 .. Len(sent)
          <6>1. sent \in Programs /\ k < Len(sent) /\ Len(sent) \in Nat
            BY <2>1, <2>2, <3>1 DEF FileOK, Sendable
          <6> QED BY <2>1, <6>1
        <5>2. r = Deserializer(d, sent[k + 1].type)
          BY <3>4 DEF Wanted
        <5> QED BY <3>7, <5>1, <5>2 DEF RoundTrips
      <4>2. /\ Len(got') = k + 1 /\ got'[k + 1] = r.r
            /\ \A i \in 1 .. k : got'[i] = got[i]
        BY <2>1, <3>7, OneMore
      <4>3. ASSUME NEW i \in 1 .. k + 1 PROVE got'[i] = sent[i].value
        <5>1. i = k + 1 \/ i \in 1 .. k
          BY <2>1
        <5> QED BY <2>4, <4>1, <4>2, <5>1
      <4>4. witnessOffset' = Len(Head8(k + 1))
        BY <3>2, <3>5
      <4>5. stage' # "data"
        BY <3>7
      <4> HIDE DEF k, r
      <4> QED BY <1>1, <1>2, <4>2, <4>3, <4>4, <4>5 DEF OrderInv
    <3> QED BY <3>5, <3>6, <3>7
  <2> HIDE DEF k, o, d, w
  <2>7. ReadLength => OrderInv'
    BY <1>4, <2>5 DEF ReadLength
  <2>8. ReadData => OrderInv'
    BY <1>4, <2>6 DEF ReadData
  <2> QED BY <1>3, <2>7, <2>8 DEF WitnessNext, Ended
<1> QED BY <1>5, <1>6

LEMMA OrderKept == ASSUME TypeInv, OrderInv PROVE InOrder
<1> SUFFICES ASSUME damage # "altered"
             PROVE  /\ \A i \in DOMAIN got : got[i] = sent[i].value
                    /\ stage = "done" => damage = "none" /\ witnessOffset = Len(witnessBytes)
  BY DEF InOrder
<1>1. DOMAIN got = 1 .. Len(got)
  BY DEF TypeInv
<1>2. ASSUME stage = "done" PROVE damage = "none" /\ witnessOffset = Len(witnessBytes)
  <2>1. /\ FileOK /\ Len(got) = Len(sent) /\ witnessOffset = Len(Head8(Len(sent)))
        /\ witnessOffset <= Len(witnessBytes) /\ Sendable(sent)
    BY <1>2 DEF TypeInv, OrderInv, WitnessTypeOK, FileOK
  <2>2. InFrames(sent) \in Seq(Seq(Octet)) /\ Len(InFrames(sent)) = Len(sent)
        /\ Total = FlattenSeq(InFrames(sent)) /\ Total \in Seq(Octet)
    BY <2>1, TheFrames DEF Total
  <2>3. Head8(Len(sent)) = Total
    BY <2>2, FirstOnes DEF Head8
  <2>4. Len(Total) \in Nat /\ Len(witnessBytes) \in Nat
    BY <2>1, <2>2 DEF FileOK
  <2>5. damage # "cut"
    BY <2>1, <2>3, <2>4 DEF FileOK
  <2> QED BY <2>1, <2>3, <2>5 DEF FileOK
<1> QED BY <1>1, <1>2 DEF OrderInv

(* From a file without a wrong byte Read[T] returns the values that were
   sent, in order, and the guest comes to the end only of a whole file. *)
THEOREM ReadInOrder == ASSUME RoundTrips PROVE WitnessSpec => []InOrder
<1>1. WitnessInit => OrderInv
  BY OrderInitially
<1>2. TypeInv /\ OrderInv /\ [WitnessNext]_witnessVars => OrderInv'
  BY OrderStep
<1>3. TypeInv /\ OrderInv => InOrder
  BY OrderKept
<1> QED BY WitnessInvariant, <1>1, <1>2, <1>3, PTL DEF WitnessSpec
-----------------------------------------------------------------------------
(* Of the serialization package the other direction needs this: whatever it
   accepts as a value of a type that is sent and has no bool in it, it would
   write back as the same bytes. *)
Exact ==
  \A p \in Programs \ WithBool : \A k \in 1 .. Len(p) : \A d \in Seq(Octet) :
    LET v == Deserializer(d, p[k].type)
    IN v.st = "ok" => Serializer(p[k].type, v.r).r = d

Items(g) == [i \in DOMAIN g |-> [type |-> sent[i].type, value |-> g[i]]]

(* Behind the frames that have been read there is, before the data, their
   length as the encoder writes it. *)
CanonInv ==
  sent \notin WithBool =>
    /\ Sendable(Items(got))
    /\ stage \in {"length", "done"} =>
         Bytes(witnessBytes, 0, witnessOffset) = Frames(Items(got))
    /\ stage = "data" =>
         /\ witnessOffset >= 8
         /\ Bytes(witnessBytes, 0, witnessOffset - 8) = Frames(Items(got))
         /\ length >= 0 => Bytes(witnessBytes, witnessOffset - 8, 8) = PutUint(8, length)

(* One frame more is written behind the others. *)
LEMMA OneFrameMore ==
  ASSUME NEW g, NEW h, Sendable(g), Sendable(h), Len(h) = Len(g) + 1,
         \A k \in 1 .. Len(g) : h[k] = g[k]
  PROVE  Frames(h) = Frames(g) \o Frame(Payload(h[Len(g) + 1]))
<1> DEFINE n == Len(g)
           s == InFrames(g)
           r == InFrames(h)
           f == Frame(Payload(h[n + 1]))
<1>1. /\ n \in Nat /\ s \in Seq(Seq(Octet)) /\ Len(s) = n /\ Frames(g) = FlattenSeq(s)
      /\ \A k \in 1 .. n : s[k] = Frame(Payload(g[k]))
  BY TheFrames DEF Sendable
<1>2. /\ r \in Seq(Seq(Octet)) /\ Len(r) = n + 1 /\ Frames(h) = FlattenSeq(r)
      /\ \A k \in 1 .. n + 1 : r[k] = Frame(Payload(h[k]))
  BY TheFrames
<1>3. \A k \in 1 .. n : r[k] = s[k]
  BY <1>1, <1>2
<1>4. r[n + 1] = f
  BY <1>1, <1>2
<1>5. f \in Seq(Octet)
  BY <1>1, <1>2, <1>4
<1> HIDE DEF n, s, r, f
<1>6. r = Append(s, f)
  BY <1>1, <1>2, <1>3, <1>4, <1>5
<1>7. FlattenSeq(r) = FlattenSeq(s) \o f
  BY <1>1, <1>5, <1>6, FlattenAppend
<1> QED BY <1>1, <1>2, <1>7 DEF f, n

(* The first a bytes, the b behind them and the c behind those *)
LEMMA Behind ==
  ASSUME NEW w \in Seq(Octet), NEW a \in Nat, NEW b \in Nat, NEW c \in Nat,
         a + b + c <= Len(w)
  PROVE  Bytes(w, 0, a + b + c) = Bytes(w, 0, a) \o (Bytes(w, a, b) \o Bytes(w, a + b, c))
<1>1. SubSeq(w, 1, a + b + c)
        = SubSeq(w, 1, a) \o (SubSeq(w, a + 1, a + b) \o SubSeq(w, a + b + 1, a + b + c))
  OBVIOUS
<1> QED BY <1>1 DEF Bytes

LEMMA CanonInitially == ASSUME WitnessInit PROVE CanonInv
<1>1. FileOK /\ witnessBytes \in Seq(Octet)
  BY FileArrives DEF FileOK
<1>2. got = <<>> /\ witnessOffset = 0 /\ stage = "length"
  BY DEF WitnessInit
<1>3. Items(got) = <<>>
  BY <1>2 DEF Items
<1>4. Sendable(<<>>) /\ InFrames(<<>>) = <<>>
  BY DEF Sendable, InFrames
<1>5. Frames(<<>>) = <<>>
  BY <1>4, TheFrames, FlattenNone
<1>6. Bytes(witnessBytes, 0, 0) = <<>>
  BY <1>1 DEF Bytes
<1> QED BY <1>2, <1>3, <1>4, <1>5, <1>6 DEF CanonInv

LEMMA CanonKept == ASSUME CanonInv PROVE Canonical
BY DEF CanonInv, Canonical, Items

(* A step consumes a length and then the payload that has this length. *)
LEMMA CanonStep ==
  ASSUME Exact, TypeInv, CanonInv, [WitnessNext]_witnessVars PROVE CanonInv'
<1>1. UNCHANGED <<sent, witnessBytes, damage>>
  BY DEF WitnessNext, ReadLength, ReadData, Ended, witnessVars
<1>2. got' = got => Items(got)' = Items(got) /\ (Sendable(Items(got)) => Sendable(Items(got))')
  BY <1>1 DEF Items, Sendable, Payload
<1>3. got' = got => Frames(Items(got))' = Frames(Items(got))
  BY <1>2 DEF Frames, Frame
<1>4. UNCHANGED witnessVars => CanonInv'
  BY <1>1, <1>2, <1>3 DEF CanonInv, witnessVars
<1>5. Panics => CanonInv'
  BY <1>1, <1>2 DEF CanonInv, Panics
<1>6. CASE sent \in WithBool
  BY <1>1, <1>6 DEF CanonInv
<1>7. CASE sent \notin WithBool
  <2> DEFINE k == Len(got)
             w == witnessBytes
             o == witnessOffset
             g == Items(got)
  <2>1. FileOK /\ (\E S : got \in Seq(S)) /\ k \in Nat /\ w \in Seq(Octet)
    BY DEF TypeInv, FileOK
  <2>2. /\ Sendable(g)
        /\ stage = "length" => Bytes(w, 0, o) = Frames(g)
        /\ stage = "data" =>
             /\ o >= 8 /\ Bytes(w, 0, o - 8) = Frames(g)
             /\ length >= 0 => Bytes(w, o - 8, 8) = PutUint(8, length)
    BY <1>7 DEF CanonInv
  <2>3. ASSUME ReadLength, Available(8) PROVE CanonInv'
    <3>1. stage = "length"
      BY <2>3 DEF ReadLength
    <3>2. /\ length' >= 0 => PutUint(8, length') = Bytes(w, o, 8)
          /\ o' = o + 8 /\ o \in Nat /\ stage' = "data" /\ got' = got
      BY <2>3, LengthOf
    <3>3. o' >= 8 /\ o' - 8 = o
      BY <3>2
    <3> HIDE DEF o
    <3>4. /\ Sendable(Items(got))' /\ Frames(Items(got))' = Frames(g)
      BY <1>2, <1>3, <2>2, <3>2
    <3>5. Bytes(w, 0, o' - 8) = Frames(Items(got))'
      BY <2>2, <3>1, <3>3, <3>4
    <3>6. length' >= 0 => Bytes(w, o' - 8, 8) = PutUint(8, length')
      BY <3>2, <3>3
    <3>7. w' = w
      BY <1>1
    <3> QED BY <3>2, <3>3, <3>4, <3>5, <3>6, <3>7 DEF CanonInv, o
  <2>4. ASSUME ReadData, Available(length) PROVE CanonInv'
    <3>1. stage = "data"
      BY <2>4 DEF ReadData
    <3> DEFINE b == Bytes(w, o, length)
               r == Deserializer(b, Wanted)
    <3>2. /\ o' = o + length /\ length \in Nat /\ length < Span(8) \div 2 /\ o \in Nat
          /\ o' \in 0 .. Len(w) /\ b \in Seq(Octet) /\ Len(b) = length
          /\ \/ /\ r.st = "ok" /\ got' = Append(got, r.r)
                /\ stage' = IF Len(got') = Len(sent) THEN "done" ELSE "length"
             \/ stage' = "panic" /\ got' = got
      BY <2>4, DataOf
    <3>3. CASE stage' = "panic" /\ got' = got
      BY <1>1, <1>2, <2>2, <3>3 DEF CanonInv
    <3>4. CASE /\ r.st = "ok" /\ got' = Append(got, r.r)
               /\ stage' = IF Len(got') = Len(sent) THEN "done" ELSE "length"
      <4> DEFINE h == Items(got')
      <4>1. /\ Len(got') = k + 1 /\ got'[k + 1] = r.r
            /\ \A i \in 1 .. k : got'[i] = got[i]
            /\ DOMAIN got = 1 .. k /\ DOMAIN got' = 1 .. k + 1
        BY <2>1, <3>4, OneMore
      <4>2. Len(h) = k + 1 /\ Len(g) = k
        <5>1. DOMAIN g = 1 .. k /\ DOMAIN h = 1 .. k + 1
          BY <4>1 DEF Items
        <5> HIDE DEF g, h
        <5>2. g = [i \in 1 .. k |-> g[i]] /\ h = [i \in 1 .. k + 1 |-> h[i]]
          BY <4>1, <5>1 DEF g, h, Items
        <5> QED BY <2>1, <5>1, <5>2
      <4>3. \A i \in 1 .. k : h[i] = g[i]
        BY <2>1, <4>1 DEF Items
      <4>4. h[k + 1] = [type |-> Wanted, value |-> r.r]
        <5>1. k + 1 \in 1 .. k + 1
          BY <2>1
        <5> QED BY <4>1, <5>1 DEF Items, Wanted
      <4>5. Payload(h[k + 1]) = b
        <5>1. sent \in Programs \ WithBool /\ k + 1 \in 1 .. Len(sent)
          <6>1. sent \in Programs /\ k < Len(sent) /\ Len(sent) \in Nat
            BY <2>1, <3>1 DEF FileOK, Sendable, TypeInv
          <6> QED BY <1>7, <2>1, <6>1
        <5>2. Serializer(sent[k + 1].type, r.r).r = b
          BY <3>2, <3>4, <5>1 DEF Exact, Wanted
        <5> QED BY <4>4, <5>2 DEF Payload, Wanted
      <4> HIDE DEF h, r
      <4>6. Sendable(h)
        <5>1. ASSUME NEW i \in 1 .. k + 1
              PROVE Payload(h[i]) \in Seq(Octet) /\ Len(Payload(h[i])) < Span(8) \div 2
          <6>1. CASE i = k + 1
            BY <3>2, <4>5, <6>1
          <6>2. CASE i \in 1 .. k
            <7>1. Payload(g[i]) \in Seq(Octet) /\ Len(Payload(g[i])) < Span(8) \div 2
              BY <2>2, <4>2, <6>2 DEF Sendable
            <7> QED BY <4>3, <6>2, <7>1
          <6> QED BY <2>1, <6>1, <6>2
        <5> QED BY <2>1, <4>2, <5>1 DEF Sendable
      <4>7. Frames(h) = Frames(g) \o (PutUint(8, length) \o b)
        <5>1. Frames(h) = Frames(g) \o Frame(b)
          BY <2>2, <4>2, <4>3, <4>5, <4>6, OneFrameMore
        <5> QED BY <3>2, <5>1 DEF Frame
      <4>8. Bytes(w, 0, o + length) = Frames(h)
        <5>1. /\ o - 8 \in Nat /\ 8 \in Nat /\ (o - 8) + 8 = o
              /\ (o - 8) + 8 + length = o + length /\ o + length <= Len(w)
          BY <2>2, <3>1, <3>2
        <5> HIDE DEF b, o, w, g
        <5>2. Bytes(w, 0, (o - 8) + 8 + length)
                = Bytes(w, 0, o - 8) \o (Bytes(w, o - 8, 8) \o Bytes(w, (o - 8) + 8, length))
          <6>1. w \in Seq(Octet) /\ length \in Nat /\ (o - 8) + 8 + length <= Len(w)
            BY <2>1, <3>2, <5>1
          <6> QED BY <5>1, <6>1, Behind, Zenon
        <5>3. Bytes(w, o - 8, 8) = PutUint(8, length)
          BY <2>2, <3>1, <3>2
        <5> QED BY <2>2, <3>1, <4>7, <5>1, <5>2, <5>3 DEF b
      <4>9. Items(got)' = h
        BY <1>1 DEF h, Items
      <4>10. Sendable(Items(got))' /\ Frames(Items(got))' = Frames(h)
        <5>1. Sendable(h) => Sendable(Items(got))'
          BY <4>9 DEF Sendable, Payload
        <5>2. Frames(Items(got))' = Frames(h)
          BY <4>9 DEF Frames, Frame
        <5> QED BY <4>6, <5>1, <5>2
      <4>11. stage' # "data" /\ w' = w
        BY <1>1, <3>4
      <4> QED BY <3>2, <4>8, <4>10, <4>11 DEF CanonInv
    <3> QED BY <3>2, <3>3, <3>4
  <2> HIDE DEF k, w, o, g
  <2>5. ReadLength => CanonInv'
    BY <1>5, <2>3 DEF ReadLength
  <2>6. ReadData => CanonInv'
    BY <1>5, <2>4 DEF ReadData
  <2> QED BY <1>4, <2>5, <2>6 DEF WitnessNext, Ended
<1> QED BY <1>6, <1>7

(* Whatever stands in the file, what Read[T] has returned encodes to exactly
   the bytes that were consumed. *)
THEOREM ReadIsCanonical == ASSUME Exact PROVE WitnessSpec => []Canonical
<1>1. WitnessInit => CanonInv
  BY CanonInitially
<1>2. TypeInv /\ CanonInv /\ [WitnessNext]_witnessVars => CanonInv'
  BY CanonStep
<1>3. CanonInv => Canonical
  BY CanonKept
<1> QED BY WitnessInvariant, <1>1, <1>2, <1>3, PTL DEF WitnessSpec
-----------------------------------------------------------------------------
(* What main() itself reads is byte slices, and of those the encoder and the
   decoder are known: both promises above hold. *)
MainsOwn ==
  /\ \A p \in Programs : \A k \in 1 .. Len(p) :
       p[k].type = ByteSlice /\ p[k].value \in Seq(Octet)
  /\ \A v \in Seq(Octet) : Serializer(ByteSlice, v) = Ok(PutBytes(v))
  /\ \A d \in Seq(Octet) : Deserializer(d, ByteSlice) = Whole(Prefixed(d, 0), d)

(* Whatever number is written, bytes are written. *)
LEMMA IsBytes ==
  ASSUME NEW w \in Nat, NEW v \in Nat
  PROVE  PutUint(w, v) \in Seq(Octet) /\ Len(PutUint(w, v)) = w
<1> DEFINE x == Shifts(w, v)
           b == PutUint(w, v)
<1>1. \A k \in 0 .. w : x[k] \in Nat
  BY TheShifts
<1>2. b = [i \in 1 .. w |-> x[i - 1] % B]
  BY DEF PutUint
<1> HIDE DEF x, b
<1>3. ASSUME NEW i \in 1 .. w PROVE (x[i - 1] % B) \in Octet
  <2>1. i - 1 \in 0 .. w
    OBVIOUS
  <2> QED BY <1>1, <2>1, Divided
<1>4. b \in [1 .. w -> Octet]
  BY <1>2, <1>3
<1> QED BY <1>4 DEF b

(* A byte slice is decoded to what was encoded ... *)
LEMMA SliceIsRead ==
  ASSUME NEW v \in Seq(Octet), Len(v) < Span(8) \div 2
  PROVE  PutBytes(v) \in Seq(Octet) /\ Whole(Prefixed(PutBytes(v), 0), PutBytes(v)) = Ok(v)
<1> DEFINE n == Len(v)
           h == PutUint(8, n)
           d == PutBytes(v)
<1>1. n \in Nat /\ n < Span(8) \div 2
  OBVIOUS
<1>2. h \in Seq(Octet) /\ Len(h) = 8 /\ Signed(8, Uint(h)) = n
  <2> HIDE DEF n
  <2> QED BY <1>1, LengthIsRead
<1>3. /\ d \in Seq(Octet) /\ Len(d) = 8 + n
      /\ \A j \in 1 .. 8 : d[j] = h[j]
      /\ \A j \in 1 .. n : d[8 + j] = v[j]
  <2>1. d = Frame(v)
    BY DEF Frame, PutBytes
  <2> QED BY <2>1, OneFrame
<1> HIDE DEF h, d
<1>4. Bytes(d, 0, 8) = h
  <2>1. /\ SubSeq(d, 1, 8) \in Seq(Octet) /\ Len(SubSeq(d, 1, 8)) = 8
        /\ \A j \in 1 .. 8 : SubSeq(d, 1, 8)[j] = d[j]
    BY <1>1, <1>3
  <2>2. SubSeq(d, 1, 8) = h
    <3>1. \A j \in 1 .. 8 : SubSeq(d, 1, 8)[j] = h[j]
      BY <1>3, <2>1
    <3> QED BY <1>2, <2>1, <3>1, SameBytes
  <2> QED BY <2>2 DEF Bytes
<1>5. Bytes(d, 8, n) = v
  <2> DEFINE q == SubSeq(d, 9, 8 + n)
  <2>1. q \in Seq(Octet) /\ Len(q) = n
    BY <1>1, <1>3
  <2>2. ASSUME NEW j \in 1 .. n PROVE q[j] = v[j]
    <3>1. q[j] = d[9 + j - 1] /\ 9 + j - 1 = 8 + j
      BY <1>1, <1>3
    <3> QED BY <1>3, <3>1
  <2>3. q = v
    <3> HIDE DEF q
    <3> QED BY <1>1, <2>1, <2>2, SameBytes
  <2> QED BY <2>3 DEF Bytes
<1>6. InRange(d, 0, 8) /\ InRange(d, 8, n)
  BY <1>1, <1>3 DEF InRange
<1>7. Prefixed(d, 0) = At(v, 8 + n)
  <2> HIDE DEF n
  <2> QED BY <1>1, <1>2, <1>4, <1>5, <1>6 DEF Prefixed
<1>8. Whole(Prefixed(d, 0), d) = Ok(v)
  BY <1>3, <1>7 DEF Whole, At, Ok
<1> QED BY <1>3, <1>8 DEF d

(* ... and what is decoded would be encoded to the same bytes. *)
LEMMA SliceIsWritten ==
  ASSUME NEW d \in Seq(Octet), Whole(Prefixed(d, 0), d).st = "ok"
  PROVE  LET v == Whole(Prefixed(d, 0), d).r IN v \in Seq(Octet) /\ PutBytes(v) = d
<1> DEFINE b == Bytes(d, 0, 8)
           n == Signed(8, Uint(b))
           v == Bytes(d, 8, n)
<1>1. InRange(d, 0, 8) /\ InRange(d, 8, n)
  BY DEF Whole, Prefixed, Panic, At, Ok
<1>2. Prefixed(d, 0) = At(v, 8 + n)
  BY <1>1 DEF Prefixed
<1>3. Len(d) = 8 + n /\ Whole(Prefixed(d, 0), d) = Ok(v)
  BY <1>2 DEF Whole, At, Ok, Panic
<1>4. b \in Seq(Octet) /\ Len(b) = 8
  <2>1. 8 <= Len(d) /\ SubSeq(d, 1, 8) \in Seq(Octet) /\ Len(SubSeq(d, 1, 8)) = 8
    BY <1>1 DEF InRange
  <2> QED BY <2>1 DEF Bytes
<1> HIDE DEF b
<1>5. n \in -(Span(8) \div 2) .. Span(8) \div 2 - 1 /\ (n >= 0 => PutUint(8, n) = b)
  BY <1>4, LengthIsWritten
<1> HIDE DEF n
<1>6. n \in Nat /\ n >= 0
  <2> DEFINE m == Span(8) \div 2
  <2>1. m \in Nat /\ n \in -m .. m - 1
    BY <1>5, HalfSpan
  <2> HIDE DEF m
  <2>2. n >= 0
    BY <1>1 DEF InRange
  <2> QED BY <2>1, <2>2
<1>7. v \in Seq(Octet) /\ Len(v) = n
  <2>1. SubSeq(d, 9, 8 + n) \in Seq(Octet) /\ Len(SubSeq(d, 9, 8 + n)) = n
    BY <1>3, <1>6
  <2> QED BY <2>1 DEF Bytes
<1>8. d = b \o v
  <2>1. d = SubSeq(d, 1, 8) \o SubSeq(d, 9, 8 + n)
    BY <1>3, <1>6
  <2>2. b = SubSeq(d, 1, 8)
    BY DEF b, Bytes
  <2>3. v = SubSeq(d, 9, 8 + n)
    BY DEF Bytes
  <2> QED BY <2>1, <2>2, <2>3
<1>9. PutBytes(v) = d
  BY <1>5, <1>6, <1>7, <1>8 DEF PutBytes
<1> QED BY <1>3, <1>7, <1>9 DEF Ok

LEMMA SlicesRoundTrip == ASSUME MainsOwn PROVE RoundTrips
<1> SUFFICES ASSUME NEW p \in Programs, NEW k \in 1 .. Len(p)
             PROVE  Deserializer(Payload(p[k]), p[k].type) = Ok(p[k].value)
  <2>1. \A x : Ok(x).r = x
    BY DEF Ok
  <2> QED BY <2>1 DEF RoundTrips
<1> DEFINE v == p[k].value
<1>1. p[k].type = ByteSlice /\ v \in Seq(Octet)
  BY DEF MainsOwn
<1>2. Payload(p[k]) = PutBytes(v)
  BY <1>1 DEF MainsOwn, Payload, Ok
<1>3. Len(PutBytes(v)) < Span(8) \div 2
  BY <1>2, WhatIsSent DEF Sendable
<1>4. Len(v) < Span(8) \div 2
  <2> DEFINE m == Span(8) \div 2
             u == PutBytes(v)
             h == PutUint(8, Len(v))
  <2>1. u = h \o v /\ u \in Seq(Octet)
    <3>1. u \in Seq(Octet)
      BY <1>2, WhatIsSent DEF Sendable
    <3> QED BY <3>1 DEF PutBytes
  <2>2. Len(v) \in Nat /\ h \in Seq(Octet)
    <3>1. Len(v) \in Nat /\ 8 \in Nat
      BY <1>1
    <3> QED BY <3>1, IsBytes
  <2>3. Len(u) = Len(h) + Len(v) /\ Len(h) \in Nat
    BY <1>1, <2>1, <2>2
  <2>4. m \in Nat
    BY HalfSpan
  <2> HIDE DEF m, u, h
  <2>5. Len(u) < m
    BY <1>3 DEF m, u
  <2>6. Len(v) < m
    BY <2>2, <2>3, <2>4, <2>5
  <2> QED BY <2>6 DEF m
<1>5. PutBytes(v) \in Seq(Octet) /\ Whole(Prefixed(PutBytes(v), 0), PutBytes(v)) = Ok(v)
  BY <1>1, <1>4, SliceIsRead
<1> QED BY <1>1, <1>2, <1>5 DEF MainsOwn

LEMMA SlicesAreExact == ASSUME MainsOwn PROVE Exact
<1> SUFFICES ASSUME NEW p \in Programs, NEW k \in 1 .. Len(p), NEW d \in Seq(Octet),
                    Deserializer(d, p[k].type).st = "ok"
             PROVE  Serializer(p[k].type, Deserializer(d, p[k].type).r).r = d
  BY DEF Exact
<1> DEFINE w == Whole(Prefixed(d, 0), d)
<1>1. p[k].type = ByteSlice /\ Deserializer(d, ByteSlice) = w
  BY DEF MainsOwn
<1>2. w.r \in Seq(Octet) /\ PutBytes(w.r) = d
  BY <1>1, SliceIsWritten
<1>3. Serializer(ByteSlice, w.r) = Ok(PutBytes(w.r))
  BY <1>2 DEF MainsOwn
<1> QED BY <1>1, <1>2, <1>3 DEF Ok

(* main() gets the two byte slices it was sent, in order, with no assumption
   on the rest of the serialization package. *)
THEOREM MainReadsInOrder == ASSUME MainsOwn PROVE WitnessSpec => []InOrder
<1> QED BY SlicesRoundTrip, ReadInOrder

(* The byte slices main() gets encode to exactly the bytes it consumed. *)
THEOREM MainReadsCanonical == ASSUME MainsOwn PROVE WitnessSpec => []Canonical
<1> QED BY SlicesAreExact, ReadIsCanonical
=============================================================================
