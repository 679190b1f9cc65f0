---------------------------- MODULE MemsetProofs ----------------------------
(***************************************************************************)
(* Proofs about Memset.tla, for every size and alignment and both register *)
(* widths: _memset fills the bytes it was asked to fill and no others, and *)
(* its word stores are aligned, on whichever of the 32 stores of the main  *)
(* loop the computed jump lands.                                           *)
(***************************************************************************)
EXTENDS Memset, TLAPS

(* The bytes of the target below x are filled, and nothing else is. *)
Filled(m, lo, x) == m = [a \in Addr |-> IF lo <= a /\ a < x THEN Ch ELSE Old]

ArgsOK == /\ SZREG \in {4, 8} /\ sz \in Nat
          /\ a0 \in SZREG .. 2 * SZREG - 1 /\ a0 + sz <= AddrBound

RegistersOK == /\ a2 \in Int /\ a3 \in Int /\ a4 \in Int /\ a5 \in Int /\ t0 \in 0 .. 31
               /\ a1 \in [Lanes -> Nat] /\ a1[0] = Ch

IsClamped == \A k \in Lanes : k # 0 => a1[k] = 0

AtEntry == pc = "entry" => a2 = sz /\ Filled(mem, a0, a0) /\ t0 = 0

(* a2 bytes are left from the first register boundary on *)
AtHead == pc = "head" =>
  /\ a0 <= a5 /\ a5 < a3 /\ a3 = 2 * SZREG /\ a3 + a2 = a0 + sz /\ a2 >= SZREG
  /\ Filled(mem, a0, a5) /\ IsClamped /\ t0 = 0

AtWord == pc = "word" =>
  /\ a5 \in {SZREG, 2 * SZREG} /\ a0 <= a5 /\ a5 + a2 = a0 + sz /\ a2 >= SZREG
  /\ Filled(mem, a0, a5) /\ IsClamped /\ t0 = 0

(* Whole rounds are left, of which the first begins after t0 stores *)
AtMain == pc = "main" =>
  /\ a5 % SZREG = 0 /\ a4 % SZREG = 0 /\ a5 < a4 /\ (a4 - a5) % (32 * SZREG) = 0
  /\ a0 <= a5 + t0 * SZREG /\ Filled(mem, a0, a5 + t0 * SZREG)
  /\ a2 \in 0 .. SZREG - 1 /\ a4 + a2 = a0 + sz
  /\ a1 = [k \in Lanes |-> Ch]

AtFinish == pc = "finish" =>
  /\ a0 <= a5 /\ a2 \in Nat /\ a5 + a2 = a0 + sz /\ Filled(mem, a0, a5)

AtTail == pc = "tail" => a0 <= a5 /\ a5 < a2 /\ a2 = a0 + sz /\ Filled(mem, a0, a5)

AtEnd == pc \in {"ret", "done"} => Filled(mem, a0, a0 + sz)

IInv == /\ pc \in {"entry", "head", "word", "main", "finish", "tail", "ret", "done"}
        /\ ArgsOK /\ RegistersOK
        /\ AtEntry /\ AtHead /\ AtWord /\ AtMain /\ AtFinish /\ AtTail /\ AtEnd

LEMMA Initially == Init => IInv
  <1> SUFFICES ASSUME Init PROVE IInv
    OBVIOUS
  <1>1. SZREG \in {4, 8}
    BY MemsetAssumption DEF Init
  <1>2. PICK w \in Words, b \in Lanes : sz = w * SZREG + b
    BY DEF Init
  <1>3. w \in Nat /\ (w + 3) * SZREG <= AddrBound /\ AddrBound \in Nat
    BY MemsetAssumption DEF Init
  <1>4. b \in 0 .. SZREG - 1 /\ a0 \in SZREG .. 2 * SZREG - 1
    BY DEF Init, Lanes
  <1>5. sz \in Nat /\ a0 + sz <= AddrBound
    <2>1. CASE SZREG = 4
      BY <1>2, <1>3, <1>4, <2>1
    <2>2. CASE SZREG = 8
      BY <1>2, <1>3, <1>4, <2>2
    <2> QED
      BY <1>1, <2>1, <2>2
  <1>6. ArgsOK
    BY <1>1, <1>4, <1>5 DEF ArgsOK
  <1>7. RegistersOK
    BY <1>1, <1>5 DEF RegistersOK, Init, Lanes, Ch, Junk
  <1>8. AtEntry
    BY <1>1, <1>4 DEF AtEntry, Init, Filled, Addr
  <1> QED
    BY <1>6, <1>7, <1>8 DEF Init, IInv, AtHead, AtWord, AtMain, AtFinish, AtTail, AtEnd
-----------------------------------------------------------------------------
(* Filling on, from x to y. *)
LEMMA Fills ==
  ASSUME NEW x \in Int, NEW y \in Int, a0 \in Int, sz \in Int,
         a0 <= x, x <= y, y <= a0 + sz, Filled(mem, a0, x), Filled(mem', a0, y), UNCHANGED <<a0, sz>>,
         pc # "done", pc' # "done"
  PROVE  RW!Write
  <1> DEFINE f(z) == [a \in Addr |-> IF a0 <= a /\ a < z THEN Ch ELSE Old]
  <1>1. mem = f(x) /\ mem' = f(y)
    BY DEF Filled
  <1>2. \A a \in Addr : a \in Int
    BY MemsetAssumption DEF Addr
  <1>3. mem' = [a \in DOMAIN mem |-> IF a \in Target /\ mem'[a] # mem[a] THEN Ch ELSE mem[a]]
    BY <1>1, <1>2 DEF Target, Ch, Old
  <1>4. \A a \in Target : [b \in Target |-> Ch][a] = Ch
    OBVIOUS
  <1>5. mem' = [a \in DOMAIN mem |-> IF a \in Target /\ mem'[a] # mem[a]
                                     THEN [b \in Target |-> Ch][a] ELSE mem[a]]
    BY <1>3, <1>4
  <1>6. UNCHANGED <<Target, [a \in Target |-> Ch], pc = "done">>
    BY DEF Target
  <1> QED
    BY <1>5, <1>6 DEF RW!Write

(* One byte more. *)
LEMMA Stores ==
  ASSUME ArgsOK, a5 \in Int, a0 <= a5, a5 < a0 + sz, Filled(mem, a0, a5), a1[0] = Ch,
         mem' = [mem EXCEPT ![a5] = a1[0]], UNCHANGED args
  PROVE  Filled(mem', a0, a5 + 1)
  <1>1. a5 \in Addr /\ a0 \in Int
    BY MemsetAssumption DEF ArgsOK, Addr
  <1>2. \A a \in Addr : (a0 <= a /\ a < a5 + 1) <=> (a0 <= a /\ a < a5) \/ a = a5
    BY <1>1, MemsetAssumption DEF Addr
  <1>3. mem = [a \in Addr |-> IF a0 <= a /\ a < a5 THEN Ch ELSE Old]
    BY DEF Filled
  <1>4. mem' = [a \in Addr |-> IF a = a5 THEN Ch ELSE mem[a]]
    BY <1>1, <1>3
  <1>5. \A a \in Addr : mem'[a] = IF a0 <= a /\ a < a5 + 1 THEN Ch ELSE Old
    BY <1>2, <1>3, <1>4
  <1> QED
    BY <1>4, <1>5 DEF Filled
-----------------------------------------------------------------------------
Progress == IInv' /\ (RW!Write \/ UNCHANGED RW!rwVars)

LEMMA Still == ASSUME UNCHANGED <<mem, args>>, pc # "done", pc' # "done"
               PROVE  UNCHANGED RW!rwVars /\ \A x \in Int : Filled(mem, a0, x) => Filled(mem', a0, x)
  BY DEF args, RW!rwVars, Target, Filled

LEMMA StepEntry == ASSUME IInv, Entry PROVE Progress
  <1>1. /\ pc = "entry" /\ a5' = a0 /\ a4' = 2 * SZREG /\ UNCHANGED <<args, t0, mem>>
        /\ a2 = sz /\ Filled(mem, a0, a0) /\ ArgsOK /\ t0 = 0 /\ RegistersOK
    BY DEF Entry, IInv, AtEntry
  <1>2. Filled(mem', a0, a5') /\ ArgsOK' /\ a0' = a0 /\ sz' = sz /\ SZREG' = SZREG
    BY <1>1 DEF Filled, args, ArgsOK
  <1>3. CASE a2 < 2 * SZREG
    <2>1. pc' = "finish" /\ UNCHANGED <<a1, a2, a3>>
      BY <1>3 DEF Entry
    <2>2. RegistersOK'
      BY <1>1, <1>2, <2>1 DEF RegistersOK, ArgsOK, Lanes
    <2>3. AtFinish'
      BY <1>1, <1>2, <2>1 DEF AtFinish, ArgsOK
    <2>4. UNCHANGED RW!rwVars
      BY <1>1, <2>1, Still
    <2> QED
      BY <1>2, <2>1, <2>2, <2>3, <2>4
      DEF Progress, IInv, AtEntry, AtHead, AtWord, AtMain, AtTail, AtEnd
  <1>4. CASE a2 >= 2 * SZREG
    <2>1. a1' = Clamped(a1)
      BY <1>1, <1>4 DEF Entry, ArgsOK
    <2>2. a1' \in [Lanes -> Nat] /\ a1'[0] = Ch /\ IsClamped'
      BY <1>1, <1>2, <2>1 DEF Clamped, RegistersOK, ArgsOK, Lanes, IsClamped, Ch
    <2>3. a0 % SZREG = a0 - SZREG
      <3>1. CASE SZREG = 4
        BY <1>1, <3>1 DEF ArgsOK
      <3>2. CASE SZREG = 8
        BY <1>1, <3>2 DEF ArgsOK
      <3> QED
        BY <1>1, <3>1, <3>2 DEF ArgsOK
    <2>4. CASE a0 = SZREG
      <3>1. pc' = "word" /\ a3' = 0 /\ UNCHANGED a2
        BY <1>1, <1>4, <2>3, <2>4 DEF Entry, ArgsOK
      <3>2. RegistersOK'
        BY <1>1, <1>2, <2>2, <3>1 DEF RegistersOK, ArgsOK, Lanes
      <3>3. AtWord'
        BY <1>1, <1>2, <1>4, <2>2, <2>4, <3>1 DEF AtWord, ArgsOK
      <3>4. UNCHANGED RW!rwVars
        BY <1>1, <3>1, Still
      <3> QED
        BY <1>2, <3>1, <3>2, <3>3, <3>4
        DEF Progress, IInv, AtEntry, AtHead, AtFinish, AtMain, AtTail, AtEnd
    <2>5. CASE a0 # SZREG
      <3>1. /\ pc' = "head" /\ a2' = sz + (a0 - SZREG - SZREG)
            /\ a3' = a0 - (a0 - SZREG - SZREG)
        BY <1>1, <1>4, <2>3, <2>5 DEF Entry, ArgsOK
      <3>2. RegistersOK'
        BY <1>1, <1>2, <2>2, <3>1 DEF RegistersOK, ArgsOK, Lanes
      <3>3. AtHead'
        BY <1>1, <1>2, <1>4, <2>2, <2>5, <3>1 DEF AtHead, ArgsOK
      <3>4. UNCHANGED RW!rwVars
        BY <1>1, <3>1, Still
      <3> QED
        BY <1>2, <3>1, <3>2, <3>3, <3>4
        DEF Progress, IInv, AtEntry, AtWord, AtFinish, AtMain, AtTail, AtEnd
    <2> QED
      BY <2>4, <2>5
  <1> QED
    BY <1>1, <1>3, <1>4 DEF ArgsOK

LEMMA StepHeadByte == ASSUME IInv, HeadByte PROVE Progress
  <1>1. /\ pc = "head" /\ a5' = a5 + 1 /\ mem' = [mem EXCEPT ![a5] = a1[0]]
        /\ pc' = (IF a5 + 1 < a3 THEN "head" ELSE "word")
        /\ UNCHANGED <<args, a1, a2, a3, a4, t0>>
    BY DEF HeadByte, StoreByte
  <1>2. /\ a0 <= a5 /\ a5 < a3 /\ a3 = 2 * SZREG /\ a3 + a2 = a0 + sz /\ a2 >= SZREG
        /\ Filled(mem, a0, a5) /\ IsClamped /\ t0 = 0 /\ ArgsOK /\ RegistersOK
    BY <1>1 DEF IInv, AtHead
  <1>3. a5 + 1 <= a0 + sz /\ a5 \in Int /\ a0 \in Int /\ sz \in Int
    BY <1>2 DEF ArgsOK, RegistersOK
  <1>4. Filled(mem', a0, a5 + 1)
    BY <1>1, <1>2, <1>3, Stores DEF RegistersOK
  <1>5. Filled(mem', a0, a5')
    BY <1>1, <1>4 DEF Filled
  <1>6. ArgsOK' /\ RegistersOK' /\ IsClamped' /\ UNCHANGED <<SZREG, a0, sz>>
    BY <1>1, <1>2 DEF args, ArgsOK, RegistersOK, IsClamped, Lanes
  <1>7. AtHead' /\ AtWord'
    BY <1>1, <1>2, <1>3, <1>5, <1>6 DEF AtHead, AtWord, ArgsOK
  <1>8. RW!Write
    <2>1. a5 + 1 \in Int /\ a5 <= a5 + 1 /\ pc # "done" /\ pc' # "done"
      BY <1>1, <1>3
    <2> QED
      BY <1>2, <1>3, <1>4, <1>6, <2>1, Fills
  <1> QED
    BY <1>1, <1>6, <1>7, <1>8 DEF Progress, IInv, AtEntry, AtFinish, AtMain, AtTail, AtEnd

(* The fill byte comes to every lane of the register. *)
LEMMA Spreads == ASSUME SZREG \in {4, 8}, a1 \in [Lanes -> Nat], a1[0] = Ch, IsClamped
                 PROVE  Propagate(a1) = [k \in Lanes |-> Ch]
  <1> DEFINE w2 == Or(a1, Shl(a1, 1))
             w4 == Or(w2, Shl(w2, 2))
             w8 == Or(w4, Shl(w4, 4))
  <1>1. \A k \in Lanes : w2[k] = IF k <= 1 THEN Ch ELSE 0
    BY DEF Or, Shl, IsClamped, Lanes, Ch
  <1> HIDE DEF w2
  <1>2. \A k \in Lanes : w4[k] = IF k <= 3 THEN Ch ELSE 0
    BY <1>1 DEF Or, Shl, Lanes, Ch
  <1> HIDE DEF w4
  <1>3. \A k \in Lanes : w8[k] = IF k <= 7 THEN Ch ELSE 0
    BY <1>2 DEF Or, Shl, Lanes, Ch
  <1>4. CASE SZREG = 4
    <2>1. \A k \in Lanes : w4[k] = Ch
      BY <1>2, <1>4 DEF Lanes
    <2>2. w4 = [k \in Lanes |-> w4[k]]
      BY DEF w4, Or
    <2> QED
      BY <1>4, <2>1, <2>2 DEF Propagate, w4, w2
  <1>5. CASE SZREG = 8
    <2>1. \A k \in Lanes : w8[k] = Ch
      BY <1>3, <1>5 DEF Lanes
    <2>2. w8 = [k \in Lanes |-> w8[k]]
      BY DEF Or
    <2> QED
      BY <1>5, <2>1, <2>2 DEF Propagate, w4, w2
  <1> QED
    BY <1>4, <1>5

(* The jump into the main loop: as many stores as make the rest a multiple
   of 32 are left over for the first round. *)
Odd(S, n) == (n \div S) % 32
End(S, b, n) == ((b + n) \div S) * S

(* Where a5 would be for a full first round *)
Lowered(S, b, n) == b + Odd(S, n) * S - 32 * S

LEMMA Duff ==
  ASSUME NEW S \in {4, 8}, NEW b \in Int, b % S = 0, NEW n \in Nat, n >= S
  PROVE  /\ Odd(S, n) \in 0 .. 31 /\ n % S \in 0 .. S - 1
         /\ End(S, b, n) \in Int /\ End(S, b, n) + (n % S) = b + n
         /\ End(S, b, n) % S = 0 /\ b < End(S, b, n)
         /\ (Odd(S, n) * S) \div S = Odd(S, n) /\ (Odd(S, n) = 0 <=> Odd(S, n) * S = 0)
         /\ Odd(S, n) = 0 => (End(S, b, n) - b) % (32 * S) = 0
         /\ Odd(S, n) # 0 => /\ (End(S, b, n) - Lowered(S, b, n)) % (32 * S) = 0
                             /\ Lowered(S, b, n) \in Int /\ Lowered(S, b, n) <= b
                             /\ Lowered(S, b, n) % S = 0
                             /\ Lowered(S, b, n) + (32 - Odd(S, n)) * S = b
  <1>1. CASE S = 4
    BY <1>1 DEF Odd, End, Lowered
  <1>2. CASE S = 8
    BY <1>2 DEF Odd, End, Lowered
  <1> QED
    BY <1>1, <1>2

LEMMA StepWord == ASSUME IInv, Word PROVE Progress
  <1> DEFINE q == Odd(SZREG, a2)
             e == End(SZREG, a5, a2)
             b == Lowered(SZREG, a5, a2)
  <1>1. /\ pc = "word" /\ pc' = "main" /\ UNCHANGED <<args, mem>> /\ a1' = Propagate(a1)
        /\ a4' = e /\ a3' = q * SZREG /\ a2' = a2 % SZREG
        /\ IF a3' = 0 THEN UNCHANGED <<a5, t0>>
           ELSE a5' = a5 + a3' - 32 * SZREG /\ t0' = 32 - a3' \div SZREG
    BY DEF Word, WordWith, RoundDown, Odd, End
  <1>2. /\ a5 \in {SZREG, 2 * SZREG} /\ a0 <= a5 /\ a5 + a2 = a0 + sz /\ a2 >= SZREG
        /\ Filled(mem, a0, a5) /\ IsClamped /\ t0 = 0 /\ ArgsOK /\ RegistersOK
    BY <1>1 DEF IInv, AtWord
  <1>3. /\ SZREG \in {4, 8} /\ a2 \in Nat /\ a5 \in Int /\ a5 % SZREG = 0
    BY <1>2 DEF ArgsOK, RegistersOK
  <1>4. /\ q \in 0 .. 31 /\ a2 % SZREG \in 0 .. SZREG - 1
        /\ e \in Int /\ e + (a2 % SZREG) = a5 + a2 /\ e % SZREG = 0 /\ a5 < e
        /\ (q * SZREG) \div SZREG = q /\ (q = 0 <=> q * SZREG = 0)
        /\ q = 0 => (e - a5) % (32 * SZREG) = 0
        /\ q # 0 => /\ (e - b) % (32 * SZREG) = 0
                    /\ b \in Int /\ b <= a5 /\ b % SZREG = 0
                    /\ b + (32 - q) * SZREG = a5
    <2> HIDE DEF q, e, b
    <2>0. q \in 0 .. 31 /\ a2 % SZREG \in 0 .. SZREG - 1
      BY <1>2, <1>3, Duff DEF q
    <2>1. e \in Int /\ e + (a2 % SZREG) = a5 + a2 /\ e % SZREG = 0 /\ a5 < e
      BY <1>2, <1>3, Duff DEF e
    <2>2. (q * SZREG) \div SZREG = q /\ (q = 0 <=> q * SZREG = 0)
      BY <1>2, <1>3, Duff DEF q
    <2>3. q = 0 => (e - a5) % (32 * SZREG) = 0
      BY <1>2, <1>3, Duff DEF q, e
    <2>4. q # 0 => /\ (e - b) % (32 * SZREG) = 0
                   /\ b \in Int /\ b <= a5 /\ b % SZREG = 0
                   /\ b + (32 - q) * SZREG = a5
      BY <1>2, <1>3, Duff DEF q, e, b
    <2> QED
      BY <2>0, <2>1, <2>2, <2>3, <2>4
  <1>5. IF q = 0 THEN UNCHANGED <<a5, t0>> ELSE a5' = b /\ t0' = 32 - q
    <2> HIDE DEF q
    <2>1. b = a5 + q * SZREG - 32 * SZREG
      BY DEF Lowered, q
    <2> HIDE DEF b
    <2> QED
      BY <1>1, <1>4, <2>1
  <1> HIDE DEF q, e, b
  <1>6. /\ t0' \in 0 .. 31 /\ a5' \in Int /\ a5' % SZREG = 0 /\ a5' < e
        /\ (e - a5') % (32 * SZREG) = 0 /\ a5' + t0' * SZREG = a5
    <2>1. CASE q = 0
      BY <1>2, <1>3, <1>4, <1>5, <2>1
    <2>2. CASE q # 0
      <3>1. b < e /\ 32 - q \in 0 .. 31
        BY <1>3, <1>4, <2>2
      <3> QED
        BY <1>4, <1>5, <2>2, <3>1
    <2> QED
      BY <2>1, <2>2
  <1>7. UNCHANGED <<SZREG, a0, sz>> /\ ArgsOK' /\ mem' = mem
    BY <1>1, <1>2 DEF args, ArgsOK
  <1>8. a1' = [k \in Lanes |-> Ch]
    BY <1>1, <1>2, <1>3, Spreads DEF RegistersOK
  <1>9. RegistersOK'
    <2>1. a1' \in [Lanes' -> Nat] /\ a1'[0] = Ch
      BY <1>3, <1>7, <1>8 DEF Lanes, Ch
    <2>2. a2' \in Int
      BY <1>1, <1>3, <1>4
    <2>3. q * SZREG \in Int
      BY <1>3, <1>4
    <2> QED
      BY <1>1, <1>4, <1>6, <2>1, <2>2, <2>3 DEF RegistersOK
  <1>10. AtMain'
    <2>1. Lanes' = Lanes
      BY <1>7 DEF Lanes
    <2> QED
      BY <1>1, <1>2, <1>4, <1>6, <1>7, <1>8, <2>1 DEF AtMain
  <1>11. UNCHANGED RW!rwVars
    BY <1>1, Still
  <1> QED
    BY <1>1, <1>7, <1>9, <1>10, <1>11
    DEF Progress, IInv, AtEntry, AtHead, AtWord, AtFinish, AtTail, AtEnd

(* A round of the main loop ends at or before a4. *)
LEMMA Round ==
  ASSUME NEW S \in {4, 8}, NEW b \in Int, NEW e \in Int, NEW t \in 0 .. 31,
         b < e, (e - b) % (32 * S) = 0, b % S = 0
  PROVE  /\ b + 32 * S <= e /\ (e - (b + 32 * S)) % (32 * S) = 0 /\ (b + 32 * S) % S = 0
         /\ b + t * S <= b + 32 * S /\ b + t * S \in Int
         /\ \A a \in Int : (a - b) % S \in 0 .. S - 1
  <1>1. CASE S = 4
    BY <1>1
  <1>2. CASE S = 8
    BY <1>2
  <1> QED
    BY <1>1, <1>2

LEMMA StepMainLoop == ASSUME IInv, MainLoop PROVE Progress
  <1> DEFINE x == a5 + t0 * SZREG
             y == a5 + 32 * SZREG
  <1>1. /\ pc = "main" /\ a5' = y /\ t0' = 0 /\ pc' = (IF a5' < a4 THEN "main" ELSE "finish")
        /\ mem' = [a \in Addr |-> IF a \in x .. y - 1 THEN a1[(a - a5) % SZREG] ELSE mem[a]]
        /\ UNCHANGED <<args, a1, a2, a3, a4>>
    <2>1. MainLoopUntil(a4)
      BY DEF MainLoop
    <2>2. pc = "main" /\ a5' = y /\ t0' = 0 /\ UNCHANGED <<args, a1, a2, a3, a4>>
      BY <2>1 DEF MainLoopUntil
    <2>3. pc' = (IF a5' < a4 THEN "main" ELSE "finish")
      BY <2>1 DEF MainLoopUntil
    <2>4. mem' = [a \in Addr |-> IF a \in x .. a5 + 32 * SZREG - 1
                                THEN a1[(a - a5) % SZREG] ELSE mem[a]]
      BY <2>1 DEF MainLoopUntil
    <2>5. a5 + 32 * SZREG - 1 = y - 1
      <3>1. SZREG \in Int /\ a5 \in Int
        BY DEF IInv, ArgsOK, RegistersOK
      <3> QED
        BY <3>1
    <2> QED
      BY <2>2, <2>3, <2>4, <2>5
  <1>2. /\ a5 % SZREG = 0 /\ a4 % SZREG = 0 /\ a5 < a4 /\ (a4 - a5) % (32 * SZREG) = 0
        /\ a0 <= x /\ Filled(mem, a0, x)
        /\ a2 \in 0 .. SZREG - 1 /\ a4 + a2 = a0 + sz
        /\ a1 = [k \in Lanes |-> Ch] /\ ArgsOK /\ RegistersOK
    BY <1>1 DEF IInv, AtMain
  <1>3. /\ SZREG \in {4, 8} /\ a5 \in Int /\ a4 \in Int /\ t0 \in 0 .. 31
        /\ a0 \in Int /\ sz \in Int /\ a2 \in Nat
    BY <1>2 DEF ArgsOK, RegistersOK
  <1>4. /\ y <= a4 /\ (a4 - y) % (32 * SZREG) = 0 /\ y % SZREG = 0
        /\ x <= y /\ x \in Int /\ \A a \in Int : (a - a5) % SZREG \in 0 .. SZREG - 1
    BY <1>2, <1>3, Round
  <1>5. y \in Int /\ y <= a0 + sz
    BY <1>2, <1>3, <1>4
  <1> HIDE DEF x, y
  <1>6. Filled(mem', a0, y)
    <2>1. \A a \in Addr : a \in Int
      BY MemsetAssumption DEF Addr
    <2>2. \A a \in Addr : a1[(a - a5) % SZREG] = Ch
      BY <1>2, <1>4, <2>1 DEF Lanes
    <2>3. \A a \in Addr : mem[a] = IF a0 <= a /\ a < x THEN Ch ELSE Old
      BY <1>2 DEF Filled
    <2>4. \A a \in Addr : mem'[a] = IF a0 <= a /\ a < y THEN Ch ELSE Old
      BY <1>1, <1>2, <1>3, <1>4, <1>5, <2>1, <2>2, <2>3
    <2>5. mem' = [a \in Addr |-> mem'[a]]
      BY <1>1
    <2> QED
      BY <2>4, <2>5 DEF Filled
  <1>7. UNCHANGED <<SZREG, a0, sz, a1, a2, a3, a4>> /\ ArgsOK' /\ Lanes' = Lanes
    BY <1>1, <1>2 DEF args, ArgsOK, Lanes
  <1>8. RegistersOK'
    BY <1>1, <1>2, <1>5, <1>7 DEF RegistersOK
  <1>9. a5' + t0' * SZREG' = y
    BY <1>1, <1>3, <1>5, <1>7
  <1>10. a0 <= y
    BY <1>2, <1>3, <1>4, <1>5
  <1>11. AtMain' /\ AtFinish'
    <2>1. CASE y < a4
      BY <1>1, <1>2, <1>4, <1>6, <1>7, <1>9, <1>10, <2>1 DEF AtMain, AtFinish
    <2>2. CASE y >= a4
      <3>1. y = a4 /\ pc' = "finish"
        BY <1>1, <1>3, <1>4, <1>5, <2>2
      <3>2. y + a2 = a0 + sz
        BY <1>2, <3>1
      <3> QED
        BY <1>1, <1>3, <1>6, <1>7, <1>10, <3>1, <3>2 DEF AtMain, AtFinish
    <2> QED
      BY <1>3, <1>5, <2>1, <2>2
  <1>12. RW!Write
    <2>1. pc # "done" /\ pc' # "done"
      BY <1>1
    <2> QED
      BY <1>2, <1>3, <1>4, <1>5, <1>6, <1>7, <2>1, Fills
  <1>13. pc' \in {"main", "finish"}
    BY <1>1
  <1> QED
    BY <1>7, <1>8, <1>11, <1>12, <1>13
    DEF Progress, IInv, AtEntry, AtHead, AtWord, AtTail, AtEnd

LEMMA StepFinish == ASSUME IInv, Finish PROVE Progress
  <1>1. /\ pc = "finish" /\ UNCHANGED <<args, a1, a3, a4, a5, t0, mem>>
        /\ IF a2 = 0 THEN pc' = "ret" /\ a2' = a2 ELSE pc' = "tail" /\ a2' = a2 + a5
    BY DEF Finish
  <1>2. /\ a0 <= a5 /\ a2 \in Nat /\ a5 + a2 = a0 + sz /\ Filled(mem, a0, a5)
        /\ ArgsOK /\ RegistersOK
    BY <1>1 DEF IInv, AtFinish
  <1>3. UNCHANGED <<SZREG, a0, sz>> /\ ArgsOK' /\ RegistersOK'
    BY <1>1, <1>2 DEF args, ArgsOK, RegistersOK, Lanes
  <1>4. AtTail' /\ AtEnd'
    <2>1. CASE a2 = 0
      <3>1. a0 + sz = a5
        BY <1>2, <2>1 DEF RegistersOK
      <3> QED
        BY <1>1, <1>2, <1>3, <2>1, <3>1 DEF AtTail, AtEnd
    <2>2. CASE a2 # 0
      BY <1>1, <1>2, <1>3, <2>2 DEF AtTail, AtEnd, RegistersOK
    <2> QED
      BY <2>1, <2>2
  <1>5. pc' \in {"ret", "tail"}
    BY <1>1
  <1>6. UNCHANGED RW!rwVars
    BY <1>1, <1>5, Still
  <1> QED
    BY <1>3, <1>4, <1>5, <1>6 DEF Progress, IInv, AtEntry, AtHead, AtWord, AtMain, AtFinish

LEMMA StepTailByte == ASSUME IInv, TailByte PROVE Progress
  <1>1. /\ pc = "tail" /\ a5' = a5 + 1 /\ mem' = [mem EXCEPT ![a5] = a1[0]]
        /\ pc' = (IF a5 + 1 < a2 THEN "tail" ELSE "ret")
        /\ UNCHANGED <<args, a1, a2, a3, a4, t0>>
    BY DEF TailByte, StoreByte
  <1>2. /\ a0 <= a5 /\ a5 < a2 /\ a2 = a0 + sz /\ Filled(mem, a0, a5) /\ ArgsOK /\ RegistersOK
    BY <1>1 DEF IInv, AtTail
  <1>3. a5 + 1 <= a0 + sz /\ a5 \in Int /\ a0 \in Int /\ sz \in Int
    BY <1>2 DEF ArgsOK, RegistersOK
  <1>4. Filled(mem', a0, a5 + 1)
    BY <1>1, <1>2, <1>3, Stores DEF RegistersOK
  <1>5. ArgsOK' /\ RegistersOK' /\ UNCHANGED <<SZREG, a0, sz>>
    BY <1>1, <1>2 DEF args, ArgsOK, RegistersOK, Lanes
  <1>6. AtTail' /\ AtEnd'
    <2>1. CASE a5 + 1 < a2
      BY <1>1, <1>2, <1>3, <1>4, <1>5, <2>1 DEF AtTail, AtEnd
    <2>2. CASE a5 + 1 >= a2
      <3>1. a5 + 1 = a0 + sz /\ pc' = "ret"
        BY <1>1, <1>2, <1>3, <2>2
      <3> QED
        BY <1>4, <1>5, <3>1 DEF AtTail, AtEnd
    <2> QED
      BY <1>2, <1>3, <2>1, <2>2
  <1>7. RW!Write
    <2>1. a5 + 1 \in Int /\ a5 <= a5 + 1 /\ pc # "done" /\ pc' # "done"
      BY <1>1, <1>3
    <2> QED
      BY <1>2, <1>3, <1>4, <1>5, <2>1, Fills
  <1> QED
    BY <1>1, <1>5, <1>6, <1>7 DEF Progress, IInv, AtEntry, AtHead, AtWord, AtMain, AtFinish

LEMMA StepRet == ASSUME IInv, Ret PROVE IInv' /\ RW!Return
  <1>1. /\ pc = "ret" /\ pc' = "done" /\ UNCHANGED <<args, a1, a2, a3, a4, a5, t0, mem>>
    BY DEF Ret
  <1>2. Filled(mem, a0, a0 + sz) /\ ArgsOK
    BY <1>1 DEF IInv, AtEnd
  <1>3. IInv'
    BY <1>1, <1>2 DEF IInv, args, ArgsOK, RegistersOK, Lanes, AtEntry, AtHead, AtWord, AtMain,
                     AtFinish, AtTail, AtEnd
  <1>4. \A a \in Target : mem[a] = [b \in Target |-> Ch][a]
    <2> SUFFICES ASSUME NEW a \in Target PROVE mem[a] = Ch
      OBVIOUS
    <2>1. a \in Addr /\ a0 <= a /\ a < a0 + sz
      BY <1>2, MemsetAssumption DEF Target, ArgsOK, Addr
    <2> QED
      BY <1>2, <2>1 DEF Filled
  <1>5. UNCHANGED <<mem, Target, [a \in Target |-> Ch]>>
    BY <1>1 DEF args, Target
  <1> QED
    BY <1>1, <1>3, <1>4, <1>5 DEF RW!Return

LEMMA Stutters == ASSUME IInv, UNCHANGED vars PROVE IInv' /\ UNCHANGED RW!rwVars
  BY DEF vars, args, IInv, ArgsOK, RegistersOK, Lanes, IsClamped, AtEntry, AtHead, AtWord, AtMain,
         AtFinish, AtTail, AtEnd, RW!rwVars, Target

LEMMA EveryStep == ASSUME IInv, [Next]_vars PROVE IInv' /\ [RW!Next]_(RW!rwVars)
  BY StepEntry, StepHeadByte, StepWord, StepMainLoop, StepFinish, StepTailByte, StepRet,
     Stutters DEF Progress, Next, Step, Returned, RW!Next
-----------------------------------------------------------------------------
(* The invariant of _memset holds in every state. *)
THEOREM InductiveInvariant == Spec => []IInv
  BY Initially, EveryStep, PTL DEF Spec

(* Every word store lies in the target, at a multiple of SZREG. *)
THEOREM StoresAligned == Spec => []WordStoresAligned
  <1>1. IInv => WordStoresAligned
    <2> SUFFICES ASSUME IInv, pc = "main"
                 PROVE  /\ a5 % SZREG = 0
                        /\ a5 + t0 * SZREG .. a5 + 32 * SZREG - 1 \subseteq Target
      BY DEF WordStoresAligned
    <2>1. /\ a5 % SZREG = 0 /\ a5 < a4 /\ (a4 - a5) % (32 * SZREG) = 0
          /\ a0 <= a5 + t0 * SZREG /\ a2 \in 0 .. SZREG - 1 /\ a4 + a2 = a0 + sz
          /\ SZREG \in {4, 8} /\ a5 \in Int /\ a4 \in Int /\ t0 \in 0 .. 31
          /\ a0 \in Int /\ sz \in Int
      BY DEF IInv, AtMain, ArgsOK, RegistersOK
    <2> DEFINE x == a5 + t0 * SZREG
               y == a5 + 32 * SZREG
    <2>2. y <= a4 /\ x \in Int /\ y \in Int
      BY <2>1, Round
    <2>3. a0 <= x
      BY <2>1
    <2> HIDE DEF x, y
    <2>4. x .. y - 1 \subseteq Target
      BY <2>1, <2>2, <2>3 DEF Target
    <2> QED
      BY <2>1, <2>4 DEF x, y
  <1> QED
    BY InductiveInvariant, <1>1, PTL

(* _memset is one region write of the fill byte, then the return. *)
THEOREM Refinement == Spec => ImplementsRegionWrite
  <1>1. Init => RW!Init
    BY DEF Init, RW!Init
  <1> QED
    BY InductiveInvariant, <1>1, EveryStep, PTL DEF Spec, RW!Spec, ImplementsRegionWrite
=============================================================================
