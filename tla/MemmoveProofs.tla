--------------------------- MODULE MemmoveProofs ---------------------------
(***************************************************************************)
(* Proofs about Memmove.tla, for every call that a C program may make:     *)
(* _memcpy and _memmove copy exactly the bytes asked for, whatever the     *)
(* overlap, and read no further around the source than a few words.        *)
(***************************************************************************)
EXTENDS Memmove, TLAPS

(* The memory of call c when the bytes from l to below h have been copied *)
Copied(c, m, l, h) ==
  m = [a \in (IF c.dst < c.src THEN c.dst ELSE c.src) - 4 * c.szreg
             .. (IF c.dst < c.src THEN c.src ELSE c.dst) + c.sz + 4 * c.szreg
         |-> IF l <= a /\ a < h THEN c.src + (a - c.dst) ELSE a]

ArgsOK == /\ SZREG \in {4, 8} /\ dst \in Nat /\ src \in Nat /\ sz \in Nat
          /\ dst > 4 * SZREG /\ src > 4 * SZREG

(* The byte that belongs at a0 *)
Source == src + (a0 - dst)
End == dst + sz

NumbersOK == /\ a0 \in Int /\ a1 \in Int /\ a2 \in Int /\ last \in Int
             /\ mis \in Int /\ t2 \in Int /\ lo \in Int /\ hi \in Int
-----------------------------------------------------------------------------
(* _memcpy gets areas that do not overlap, or dst below src *)
MayGoUp == dst <= src \/ src + sz <= dst

Up == {"FHead", "FAlign", "FBlock", "FWords", "FWord", "FBytes", "FBops", "FByte", "FRet",
       "FUnalignedEntry", "FUnaligned"}
Down == {"RHead", "RAlign", "RBlock", "RWords", "RWord", "RBytes", "RBops", "RByte", "RRet",
         "RUnalignedEntry", "RUnaligned"}

AtCall == /\ pc \in {"memmove", "memcpy", "REntry"} =>
               a0 = dst /\ a1 = src /\ a2 = sz /\ Copied(call, mem, dst, dst)
          /\ pc = "memcpy" => MayGoUp
          /\ pc = "memmove" => last = 0
          /\ pc = "REntry" => src < dst

GoingUp == pc \in Up =>
  /\ MayGoUp /\ t2 = dst /\ dst <= a0 /\ a0 <= End /\ Copied(call, mem, dst, a0)
  /\ pc # "FUnaligned" => a1 = Source

GoingDown == pc \in Down =>
  /\ src < dst /\ dst <= a0 /\ a0 <= End /\ Copied(call, mem, a0, End)
  /\ pc # "RUnaligned" => a1 = Source

(* s0 and s1 hold data only while they are saved *)
SavedOK == IF pc \in {"FBlock", "FWords", "FWord", "FBytes", "FUnalignedEntry", "FUnaligned",
                      "RBlock", "RWords", "RWord", "RBytes", "RUnalignedEntry", "RUnaligned"}
           THEN saved = "caller" ELSE s = "caller"

(* A loop with stop at last runs over whole rounds of u bytes; a2 is for later *)
RoundsUp(u) == a0 < last /\ (last - a0) % u = 0 /\ last + a2 = End /\ a2 \in Nat
RoundsDown(u) == last < a0 /\ (a0 - last) % u = 0 /\ last - a2 = dst /\ a2 \in Nat

BytesLeft ==
  /\ pc \in {"FAlign", "FWords", "FBytes", "FBops", "FUnalignedEntry"} => a0 + a2 = End /\ a2 \in Nat
  /\ pc \in {"RAlign", "RWords", "RBytes", "RBops", "RUnalignedEntry"} => a0 - a2 = dst /\ a2 \in Nat
  /\ pc = "FHead" => RoundsUp(1) /\ last % SZREG = 0
  /\ pc = "RHead" => RoundsDown(1)
  /\ pc \in {"FHead", "FAlign", "FUnalignedEntry", "RHead", "RAlign", "RUnalignedEntry"}
       => a2 >= 2 * SZREG
  /\ pc \in {"FAlign", "FBlock", "FWords"} => a0 % SZREG = 0
  /\ pc = "FWords" => last = a0
  /\ pc = "FBlock" => RoundsUp(16 * SZREG)
  /\ pc = "RBlock" => RoundsDown(16 * SZREG)
  /\ pc = "FWord" => RoundsUp(SZREG)
  /\ pc = "RWord" => RoundsDown(SZREG)
  /\ pc = "FUnaligned" => RoundsUp(2 * SZREG)
  /\ pc = "RUnaligned" => RoundsDown(2 * SZREG)
  /\ pc = "FByte" => a2 = End /\ a0 < a2
  /\ pc = "RByte" => last = dst /\ last < a0
  /\ pc = "FRet" => a0 = End
  /\ pc = "RRet" => a0 = dst

(* What was loaded ahead is from before the stores, in the lanes to be used *)
Preloaded ==
  /\ pc \in {"FUnalignedEntry", "FUnaligned", "RUnalignedEntry", "RUnaligned"}
       => mis \in 1 .. SZREG - 1
  /\ pc \in {"FUnalignedEntry", "RUnalignedEntry"} => mis = a1 % SZREG
  /\ pc = "FUnaligned" =>
       /\ a1 + mis = Source
       /\ \A i \in Lanes : i >= mis => a5[i] = a1 + i
       /\ \A i \in Lanes : a4[i] = a1 + SZREG + i
  /\ pc = "RUnaligned" =>
       /\ a1 + 2 * SZREG + mis = Source
       /\ \A i \in Lanes : i < mis => a5[i] = a1 + 2 * SZREG + i

AtEnd == pc = "done" => Copied(call, mem, dst, End) /\ a0 = dst

IInv == /\ call \in Calls /\ pc \in {"memmove", "memcpy", "REntry", "done"} \cup Up \cup Down
        /\ NumbersOK /\ LoadsNearSource
        /\ AtCall /\ GoingUp /\ GoingDown /\ SavedOK /\ BytesLeft /\ Preloaded /\ AtEnd
-----------------------------------------------------------------------------
LEMMA Args == ASSUME call \in Calls PROVE ArgsOK
  BY MemmoveAssumption DEF ArgsOK, SZREG, dst, src, sz

LEMMA Kept == ASSUME call' = call
              PROVE  UNCHANGED <<SZREG, dst, src, sz, End, Addr, Lanes, Target>>
  BY DEF SZREG, dst, src, sz, End, Addr, Lanes, Target

LEMMA CopiedIs ==
  ASSUME NEW m, NEW l, NEW h
  PROVE  Copied(call, m, l, h) <=>
           m = [a \in Addr |-> IF l <= a /\ a < h THEN src + (a - dst) ELSE a]
  BY DEF Copied, Addr, SZREG, dst, src, sz

LEMMA AddrIs ==
  ASSUME ArgsOK, NEW a
  PROVE  /\ a \in Addr => a \in Int
         /\ a \in Int /\ src - SZREG <= a /\ a <= src + sz + 4 * SZREG => a \in Addr
         /\ a \in Int /\ dst <= a /\ a <= dst + sz => a \in Addr
  <1>1. CASE SZREG = 4
    BY <1>1 DEF ArgsOK, Addr
  <1>2. CASE SZREG = 8
    BY <1>2 DEF ArgsOK, Addr
  <1> QED
    BY <1>1, <1>2 DEF ArgsOK

(* A byte outside the part that is done is what it was *)
LEMMA Original ==
  ASSUME NEW m, NEW l, NEW h, Copied(call, m, l, h), NEW a \in Addr, ~(l <= a /\ a < h)
  PROVE  m[a] = a
  BY CopiedIs

(* n bytes more at x, next to the part that is done *)
LEMMA Extends ==
  ASSUME ArgsOK, NEW m, NEW l \in Int, NEW h \in Int, Copied(call, m, l, h), l <= h,
         NEW x \in Int, NEW n \in Nat, NEW m2,
         m2 = [a \in Addr |-> IF a \in x .. x + n - 1 THEN src + (a - dst) ELSE m[a]]
  PROVE  /\ x = h => Copied(call, m2, l, x + n)
         /\ x + n = l => Copied(call, m2, x, h)
  <1>1. m = [a \in Addr |-> IF l <= a /\ a < h THEN src + (a - dst) ELSE a]
    BY CopiedIs
  <1>2. \A a \in Addr : a \in Int
    BY AddrIs
  <1>3. \A a \in Addr : m2[a] = IF (l <= a /\ a < h) \/ (x <= a /\ a < x + n)
                                THEN src + (a - dst) ELSE a
    BY <1>1, <1>2
  <1>4. ASSUME x = h PROVE Copied(call, m2, l, x + n)
    <2>1. \A a \in Addr : m2[a] = IF l <= a /\ a < x + n THEN src + (a - dst) ELSE a
      BY <1>2, <1>3, <1>4
    <2> QED
      BY <2>1, CopiedIs
  <1>5. ASSUME x + n = l PROVE Copied(call, m2, x, h)
    <2>1. \A a \in Addr : m2[a] = IF x <= a /\ a < h THEN src + (a - dst) ELSE a
      BY <1>2, <1>3, <1>5
    <2> QED
      BY <2>1, CopiedIs
  <1> QED
    BY <1>4, <1>5
-----------------------------------------------------------------------------
(* A group of loads from where the next bytes belong, then the stores *)
LEMMA CopiesUp ==
  ASSUME ArgsOK, MayGoUp, NEW m, NEW x \in Int, NEW n \in Nat,
         dst <= x, x + n <= End, Copied(call, m, dst, x)
  PROVE  Copied(call, CopyBytes(m, x, src + (x - dst), n), dst, x + n)
  <1>1. ASSUME NEW a \in Addr, a \in x .. x + n - 1
        PROVE  m[src + (x - dst) + (a - x)] = src + (a - dst)
    <2> DEFINE f == src + (a - dst)
    <2>1. a \in Int /\ f \in Int /\ src + (x - dst) + (a - x) = f
      BY <1>1, AddrIs DEF ArgsOK
    <2>2. src <= f /\ f < src + sz
      BY <1>1, <2>1 DEF ArgsOK, End
    <2>3. f \in Addr
      BY <2>1, <2>2, AddrIs DEF ArgsOK
    <2>4. ~(dst <= f /\ f < x)
      BY <1>1, <2>1, <2>2 DEF ArgsOK, MayGoUp
    <2> QED
      BY <2>1, <2>3, <2>4, Original
  <1>2. CopyBytes(m, x, src + (x - dst), n) =
          [a \in Addr |-> IF a \in x .. x + n - 1 THEN src + (a - dst) ELSE m[a]]
    BY <1>1 DEF CopyBytes
  <1>3. dst \in Int
    BY DEF ArgsOK
  <1> QED
    BY <1>2, <1>3, Extends

LEMMA CopiesDown ==
  ASSUME ArgsOK, src < dst, NEW m, NEW x \in Int, NEW n \in Nat,
         dst <= x, x + n <= End, Copied(call, m, x + n, End)
  PROVE  Copied(call, CopyBytes(m, x, src + (x - dst), n), x, End)
  <1>1. ASSUME NEW a \in Addr, a \in x .. x + n - 1
        PROVE  m[src + (x - dst) + (a - x)] = src + (a - dst)
    <2> DEFINE f == src + (a - dst)
    <2>1. a \in Int /\ f \in Int /\ src + (x - dst) + (a - x) = f
      BY <1>1, AddrIs DEF ArgsOK
    <2>2. src <= f /\ f < src + sz
      BY <1>1, <2>1 DEF ArgsOK, End
    <2>3. f \in Addr
      BY <2>1, <2>2, AddrIs DEF ArgsOK
    <2>4. ~(x + n <= f /\ f < End)
      BY <1>1, <2>1, <2>2 DEF ArgsOK
    <2> QED
      BY <2>1, <2>3, <2>4, Original
  <1>2. CopyBytes(m, x, src + (x - dst), n) =
          [a \in Addr |-> IF a \in x .. x + n - 1 THEN src + (a - dst) ELSE m[a]]
    BY <1>1 DEF CopyBytes
  <1>3. End \in Int /\ x + n \in Int
    BY DEF ArgsOK, End
  <1> QED
    BY <1>2, <1>3, Extends

(* The byte loops are groups of one *)
LEMMA OneByte ==
  ASSUME ArgsOK, NEW m, NEW l, NEW h, Copied(call, m, l, h), NEW x \in Int, NEW f \in Int,
         dst <= x, x < End
  PROVE  [m EXCEPT ![x] = m[f]] = CopyBytes(m, x, f, 1)
  <1>1. DOMAIN m = Addr /\ m = [a \in Addr |-> m[a]]
    BY CopiedIs
  <1>2. \A a \in Addr : a \in Int /\ (a \in x .. x + 1 - 1 <=> a = x)
    BY AddrIs
  <1>3. f + (x - x) = f
    OBVIOUS
  <1> QED
    BY <1>1, <1>2, <1>3 DEF CopyBytes

(* A word made of the bytes that belong at x *)
LEMMA OneWord ==
  ASSUME ArgsOK, NEW m, NEW x \in Int, NEW w, \A i \in Lanes : w[i] = src + (x - dst) + i
  PROVE  Store(m, x, w) =
           [a \in Addr |-> IF a \in x .. x + SZREG - 1 THEN src + (a - dst) ELSE m[a]]
  <1>1. ASSUME NEW a \in Addr, a \in x .. x + SZREG - 1 PROVE w[a - x] = src + (a - dst)
    <2>1. a \in Int /\ a - x \in Lanes
      BY <1>1, AddrIs DEF ArgsOK, Lanes
    <2> QED
      BY <2>1 DEF ArgsOK
  <1> QED
    BY <1>1 DEF Store

LEMMA StoresUp ==
  ASSUME ArgsOK, NEW m, NEW x \in Int, dst <= x, Copied(call, m, dst, x),
         NEW w, \A i \in Lanes : w[i] = src + (x - dst) + i
  PROVE  Copied(call, Store(m, x, w), dst, x + SZREG)
  <1> DEFINE m2 == Store(m, x, w)
  <1>1. SZREG \in Nat /\ dst \in Int
    BY DEF ArgsOK
  <1>2. m2 = [a \in Addr |-> IF a \in x .. x + SZREG - 1 THEN src + (a - dst) ELSE m[a]]
    BY OneWord
  <1> HIDE DEF m2
  <1>3. Copied(call, m2, dst, x + SZREG)
    BY <1>1, <1>2, Extends
  <1> QED
    BY <1>3 DEF m2

LEMMA StoresDown ==
  ASSUME ArgsOK, NEW m, NEW x \in Int, x + SZREG <= End, Copied(call, m, x + SZREG, End),
         NEW w, \A i \in Lanes : w[i] = src + (x - dst) + i
  PROVE  Copied(call, Store(m, x, w), x, End)
  <1>1. SZREG \in Nat /\ End \in Int /\ x + SZREG \in Int
    BY DEF ArgsOK, End
  <1> QED
    BY <1>1, OneWord, Extends

(* Two words or-ed together, lane by lane *)
LEMMA CombineLanes ==
  ASSUME ArgsOK, mis \in 1 .. SZREG - 1, NEW low, NEW high, NEW i \in Lanes
  PROVE  /\ i + mis < SZREG => i + mis \in Lanes /\ Combine(low, high)[i] = low[i + mis]
         /\ i + mis >= SZREG => /\ i + mis - SZREG \in Lanes
                                /\ Combine(low, high)[i] = high[i + mis - SZREG]
  <1>1. i \in Int /\ 0 <= i /\ i < SZREG /\ mis \in Int /\ SZREG \in Int
    BY DEF ArgsOK, Lanes
  <1>2. ShrLanes(low, mis)[i] = IF i + mis < SZREG THEN low[i + mis] ELSE 0
    BY DEF ShrLanes
  <1>3. ShlLanes(high, SZREG - mis)[i] =
          IF i >= SZREG - mis THEN high[i - (SZREG - mis)] ELSE 0
    BY DEF ShlLanes
  <1>4. i - (SZREG - mis) = i + mis - SZREG /\ (i >= SZREG - mis <=> i + mis >= SZREG)
    BY <1>1
  <1>5. Combine(low, high)[i] =
          IF ShrLanes(low, mis)[i] = 0 THEN ShlLanes(high, SZREG - mis)[i]
          ELSE IF ShlLanes(high, SZREG - mis)[i] = 0 THEN ShrLanes(low, mis)[i] ELSE Both
    BY DEF Combine, Or
  <1> QED
    BY <1>1, <1>2, <1>3, <1>4, <1>5 DEF Lanes

(* Bytes still to be copied are as they were *)
LEMMA LoadUp ==
  ASSUME ArgsOK, MayGoUp, NEW m, NEW x \in Int, dst <= x, x <= End, Copied(call, m, dst, x),
         NEW f \in Int, src + (x - dst) <= f, f < src + sz
  PROVE  m[f] = f
  <1>1. f \in Addr /\ ~(dst <= f /\ f < x)
    BY AddrIs DEF ArgsOK, MayGoUp, End
  <1> QED
    BY <1>1, Original

LEMMA LoadDown ==
  ASSUME ArgsOK, src < dst, NEW m, NEW x \in Int, dst <= x, x <= End, Copied(call, m, x, End),
         NEW f \in Int, src - SZREG <= f, f < src + (x - dst)
  PROVE  m[f] = f
  <1>1. f \in Addr /\ ~(x <= f /\ f < End)
    BY AddrIs DEF ArgsOK, End
  <1> QED
    BY <1>1, Original
-----------------------------------------------------------------------------
(* Arithmetic of rounds, on constants *)
LEMMA Units ==
  ASSUME NEW r \in {4, 8}, NEW u \in {r, 2 * r, 16 * r}, NEW x \in Int
  PROVE  /\ x % u \in 0 .. u - 1 /\ RoundDown(x, u) = x - (x % u)
         /\ (x - (x % u)) % u = 0
         /\ x > 0 /\ x % u = 0 => x >= u /\ (x - u) % u = 0
  <1>1. u \in {4, 8, 16, 64, 128}
    OBVIOUS
  <1>2. CASE u = 4
    BY <1>2 DEF RoundDown
  <1>3. CASE u = 8
    BY <1>3 DEF RoundDown
  <1>4. CASE u = 16
    BY <1>4 DEF RoundDown
  <1>5. CASE u = 64
    BY <1>5 DEF RoundDown
  <1>6. CASE u = 128
    BY <1>6 DEF RoundDown
  <1> QED
    BY <1>1, <1>2, <1>3, <1>4, <1>5, <1>6

(* One more round of a loop that has whole rounds to go *)
LEMMA Round ==
  ASSUME NEW r \in {4, 8}, NEW u \in {r, 2 * r, 16 * r}, NEW x \in Int, NEW y \in Int,
         x < y, (y - x) % u = 0
  PROVE  /\ x + u <= y /\ (y - (x + u)) % u = 0
         /\ x <= y - u /\ ((y - u) - x) % u = 0
  <1>1. y - x \in Int /\ y - x > 0
    OBVIOUS
  <1>2. y - x >= u /\ ((y - x) - u) % u = 0
    BY <1>1, Units
  <1>3. (y - x) - u = y - (x + u) /\ (y - x) - u = (y - u) - x
    OBVIOUS
  <1> QED
    BY <1>2, <1>3

LEMMA Boundaries ==
  ASSUME NEW r \in {4, 8}, NEW x \in Int, NEW y \in Int
  PROVE  /\ (x - ((x % r) - r)) % r = 0
         /\ x % r = 0 => /\ (x + 16 * r) % r = 0
                         /\ RoundDown(x + y, r) - x = y - (y % r)
                         /\ (y - (y % r)) % r = 0
         /\ x % r = 0 /\ y % (16 * r) = 0 => (x + y) % r = 0
  <1>1. CASE r = 4
    BY <1>1 DEF RoundDown
  <1>2. CASE r = 8
    BY <1>2 DEF RoundDown
  <1> QED
    BY <1>1, <1>2
-----------------------------------------------------------------------------
LEMMA Writes ==
  ASSUME ArgsOK, call' = call, NEW l \in Int, NEW h \in Int, NEW l2 \in Int, NEW h2 \in Int,
         Copied(call, mem, l, h), Copied(call, mem', l2, h2),
         dst <= l2, l2 <= l, h <= h2, h2 <= End, pc # "done", pc' # "done"
  PROVE  RW!Write
  <1> DEFINE goal == [a \in Target |-> src + (a - dst)]
  <1>1. mem = [a \in Addr |-> IF l <= a /\ a < h THEN src + (a - dst) ELSE a]
    BY CopiedIs
  <1>2. mem' = [a \in Addr |-> IF l2 <= a /\ a < h2 THEN src + (a - dst) ELSE a]
    BY CopiedIs
  <1>3. \A a \in Addr : a \in Int
    BY AddrIs
  <1>4. \A a \in Addr : mem'[a] # mem[a] => a \in Target /\ mem'[a] = src + (a - dst)
    BY <1>1, <1>2, <1>3 DEF Target, ArgsOK, End
  <1>5. mem' = [a \in DOMAIN mem |-> IF a \in Target /\ mem'[a] # mem[a]
                                     THEN goal[a] ELSE mem[a]]
    BY <1>1, <1>2, <1>4
  <1>6. UNCHANGED <<Target, goal, pc = "done">>
    BY Kept
  <1> QED
    BY <1>5, <1>6 DEF RW!Write

LEMMA Still == ASSUME mem' = mem, call' = call, pc # "done", pc' # "done"
               PROVE  UNCHANGED RW!rwVars
  BY Kept DEF RW!rwVars

LEMMA Near ==
  ASSUME ArgsOK, NumbersOK, LoadsNearSource, call' = call,
         NEW from \in Int, NEW to \in Int, Reads(from, to),
         src - SZREG < from, to <= src + sz + 2 * SZREG
  PROVE  LoadsNearSource' /\ lo' \in Int /\ hi' \in Int
  BY Kept DEF Reads, LoadsNearSource, NumbersOK, ArgsOK
-----------------------------------------------------------------------------
Progress == IInv' /\ (RW!Write \/ RW!Return \/ UNCHANGED RW!rwVars)

LEMMA Initially == Init => IInv /\ RW!Init
  <1> SUFFICES ASSUME Init PROVE IInv /\ RW!Init
    OBVIOUS
  <1>1. call \in Calls /\ pc \in {"memcpy", "memmove"} /\ pc = call.fn
    BY MemmoveAssumption DEF Init
  <1>2. ArgsOK
    BY <1>1, Args
  <1>3. \A a \in Addr : a \in Int
    BY <1>2, AddrIs
  <1>4. Copied(call, mem, dst, dst)
    BY <1>2, <1>3, CopiedIs DEF Init, ArgsOK
  <1>5. pc = "memcpy" => MayGoUp
    <2> SUFFICES ASSUME pc = "memcpy" PROVE MayGoUp
      OBVIOUS
    <2>1. call.dst + call.sz <= call.src \/ call.src + call.sz <= call.dst
      BY <1>1, MemmoveAssumption
    <2>2. dst + sz <= src \/ src + sz <= dst
      BY <2>1 DEF dst, src, sz
    <2> QED
      BY <1>2, <2>2 DEF MayGoUp, ArgsOK
  <1>6. NumbersOK /\ LoadsNearSource
    BY <1>2 DEF Init, NumbersOK, LoadsNearSource, ArgsOK
  <1>7. AtCall
    BY <1>1, <1>4, <1>5 DEF Init, AtCall
  <1>8. GoingUp /\ GoingDown /\ SavedOK /\ BytesLeft /\ Preloaded /\ AtEnd
    BY <1>1 DEF Init, GoingUp, GoingDown, SavedOK, BytesLeft, Preloaded, AtEnd, Up, Down
  <1> QED
    BY <1>1, <1>6, <1>7, <1>8 DEF IInv, RW!Init

LEMMA MemmoveEntryStep == ASSUME IInv, MemmoveEntry PROVE Progress
  <1>1. /\ pc = "memmove" /\ pc' = IF a1 < a0 THEN "REntry" ELSE "memcpy"
        /\ UNCHANGED <<pointers, words, frame, callee, loaded, mem>> /\ call' = call /\ ArgsOK
    BY Args DEF MemmoveEntry, frame, IInv
  <1>2. a0 = dst /\ a1 = src /\ a2 = sz /\ Copied(call, mem, dst, dst)
    BY <1>1 DEF IInv, AtCall
  <1>3. IInv'
    BY <1>1, <1>2, Kept
       DEF IInv, NumbersOK, LoadsNearSource, AtCall, MayGoUp, GoingUp, GoingDown, SavedOK,
           BytesLeft, Preloaded, AtEnd, Up, Down, pointers, frame, callee, loaded, ArgsOK
  <1> QED
    BY <1>1, <1>3, Still DEF Progress

LEMMA FEntryStep == ASSUME IInv, FEntry PROVE Progress
  <1>1. /\ pc = "memcpy" /\ t2' = a0 /\ call' = call /\ ArgsOK
        /\ UNCHANGED <<a0, a1, words, mis, callee, loaded, mem>>
    BY Args DEF FEntry, IInv
  <1>2. a0 = dst /\ a1 = src /\ a2 = sz /\ Copied(call, mem, dst, dst) /\ MayGoUp
    BY <1>1 DEF IInv, AtCall
  <1>3. /\ a0 % SZREG \in 0 .. SZREG - 1 /\ (a0 - ((a0 % SZREG) - SZREG)) % SZREG = 0
        /\ s = "caller" /\ NumbersOK /\ LoadsNearSource
    BY <1>1, Units, Boundaries DEF ArgsOK, IInv, NumbersOK, SavedOK
  <1>4. ASSUME a2 < 3 * SZREG, pc' = "FBops", UNCHANGED <<a2, last>> PROVE IInv'
    BY <1>1, <1>2, <1>3, <1>4, Kept
       DEF IInv, NumbersOK, LoadsNearSource, AtCall, MayGoUp, GoingUp, GoingDown, SavedOK,
           BytesLeft, Preloaded, AtEnd, Up, Down, callee, loaded, ArgsOK, Source, End
  <1>5. ASSUME a2 >= 3 * SZREG, a0 % SZREG = 0, pc' = "FAlign", UNCHANGED <<a2, last>> PROVE IInv'
    BY <1>1, <1>2, <1>3, <1>5, Kept
       DEF IInv, NumbersOK, LoadsNearSource, AtCall, MayGoUp, GoingUp, GoingDown, SavedOK,
           BytesLeft, Preloaded, AtEnd, Up, Down, callee, loaded, ArgsOK, Source, End
  <1>6. ASSUME a2 >= 3 * SZREG, a0 % SZREG # 0, pc' = "FHead",
               a2' = a2 + ((a0 % SZREG) - SZREG), last' = a0 - ((a0 % SZREG) - SZREG)
        PROVE  IInv'
    BY <1>1, <1>2, <1>3, <1>6, Kept
       DEF IInv, NumbersOK, LoadsNearSource, AtCall, MayGoUp, GoingUp, GoingDown, SavedOK,
           BytesLeft, Preloaded, AtEnd, Up, Down, callee, loaded, ArgsOK, Source, End, RoundsUp
  <1>7. IInv' /\ pc' # "done"
    BY <1>4, <1>5, <1>6 DEF FEntry
  <1> QED
    BY <1>1, <1>7, Still DEF Progress

(* A byte at a0, in either loop *)
LEMMA ByteUpStep ==
  ASSUME IInv, pc \in {"FHead", "FByte"}, NEW end, NEW loop, NEW exit, ByteUp(end, loop, exit),
         pc' # "done"
  PROVE  /\ a0' = a0 + 1 /\ a1' = a1 + 1 /\ Copied(call, mem', dst, a0 + 1) /\ RW!Write
         /\ LoadsNearSource' /\ lo' \in Int /\ hi' \in Int
         /\ MayGoUp /\ t2 = dst /\ dst <= a0 /\ a0 + 1 <= End /\ a1 = Source
  <1>1. /\ mem' = [mem EXCEPT ![a0] = mem[a1]] /\ Reads(a1, a1 + 1)
        /\ a0' = a0 + 1 /\ a1' = a1 + 1 /\ call' = call /\ ArgsOK
    BY Args DEF ByteUp, frame, IInv
  <1>2. /\ MayGoUp /\ t2 = dst /\ dst <= a0 /\ Copied(call, mem, dst, a0) /\ a1 = Source
        /\ NumbersOK /\ LoadsNearSource
    BY DEF IInv, GoingUp, Up
  <1>3. a0 < End
    BY DEF IInv, BytesLeft, RoundsUp, NumbersOK, End
  <1>4. Copied(call, CopyBytes(mem, a0, src + (a0 - dst), 1), dst, a0 + 1)
    BY <1>1, <1>2, <1>3, CopiesUp DEF NumbersOK, ArgsOK, End
  <1>5. mem' = CopyBytes(mem, a0, src + (a0 - dst), 1)
    BY <1>1, <1>2, <1>3, OneByte DEF NumbersOK, Source
  <1>6. LoadsNearSource' /\ lo' \in Int /\ hi' \in Int
    BY <1>1, <1>2, <1>3, Near DEF NumbersOK, ArgsOK, Source, End
  <1>7. Copied(call, mem', dst, a0 + 1)
    BY <1>4, <1>5
  <1>8. /\ dst \in Int /\ a0 \in Int /\ a0 + 1 \in Int /\ a0 <= a0 + 1 /\ a0 + 1 <= End
        /\ dst <= dst
    BY <1>1, <1>2, <1>3 DEF NumbersOK, ArgsOK, End
  <1>9. RW!Write
    BY <1>1, <1>2, <1>7, <1>8, Writes
  <1> QED
    BY <1>1, <1>2, <1>6, <1>7, <1>8, <1>9

LEMMA FHeadStep == ASSUME IInv, FHead PROVE Progress
  <1>1. /\ pc = "FHead" /\ ByteUp(last, "FHead", "FAlign") /\ ArgsOK /\ call' = call
        /\ pc' = IF a0 + 1 < last THEN "FHead" ELSE "FAlign"
        /\ UNCHANGED <<a2, last, words, frame, callee>>
    BY Args DEF FHead, ByteUp, frame, IInv
  <1>2. /\ a0' = a0 + 1 /\ a1' = a1 + 1 /\ Copied(call, mem', dst, a0 + 1) /\ RW!Write
        /\ LoadsNearSource' /\ lo' \in Int /\ hi' \in Int
        /\ MayGoUp /\ t2 = dst /\ dst <= a0 /\ a0 + 1 <= End /\ a1 = Source
    BY <1>1, ByteUpStep
  <1>3. /\ a0 < last /\ last % SZREG = 0 /\ last + a2 = End /\ a2 >= 2 * SZREG /\ a2 \in Nat
        /\ s = "caller" /\ NumbersOK /\ call \in Calls
    BY <1>1 DEF IInv, BytesLeft, SavedOK, RoundsUp
  <1>4. ASSUME a0 + 1 < last PROVE IInv'
    BY <1>1, <1>2, <1>3, <1>4, Kept
       DEF IInv, NumbersOK, AtCall, MayGoUp, GoingUp, GoingDown, SavedOK, RoundsUp,
           BytesLeft, Preloaded, AtEnd, Up, Down, frame, callee, ArgsOK, Source, End
  <1>5. ASSUME ~(a0 + 1 < last) PROVE IInv'
    <2>1. a0' = last /\ pc' = "FAlign"
      BY <1>1, <1>2, <1>3, <1>5 DEF NumbersOK
    <2> QED
      BY <1>1, <1>2, <1>3, <2>1, Kept
         DEF IInv, NumbersOK, AtCall, MayGoUp, GoingUp, GoingDown, SavedOK,
             BytesLeft, Preloaded, AtEnd, Up, Down, frame, callee, ArgsOK, Source, End
  <1> QED
    BY <1>2, <1>4, <1>5 DEF Progress

LEMMA FByteStep == ASSUME IInv, FByte PROVE Progress
  <1>1. /\ pc = "FByte" /\ ByteUp(a2, "FByte", "FRet") /\ ArgsOK /\ call' = call
        /\ pc' = IF a0 + 1 < a2 THEN "FByte" ELSE "FRet"
        /\ UNCHANGED <<a2, last, words, frame, callee>>
    BY Args DEF FByte, ByteUp, frame, IInv
  <1>2. /\ a0' = a0 + 1 /\ a1' = a1 + 1 /\ Copied(call, mem', dst, a0 + 1) /\ RW!Write
        /\ LoadsNearSource' /\ lo' \in Int /\ hi' \in Int
        /\ MayGoUp /\ t2 = dst /\ dst <= a0 /\ a0 + 1 <= End /\ a1 = Source
    BY <1>1, ByteUpStep
  <1>3. a0 < a2 /\ a2 = End /\ s = "caller" /\ NumbersOK /\ call \in Calls
    BY <1>1 DEF IInv, BytesLeft, SavedOK
  <1>4. IInv'
    BY <1>1, <1>2, <1>3, Kept
       DEF IInv, NumbersOK, AtCall, MayGoUp, GoingUp, GoingDown, SavedOK, RoundsUp, RoundsDown,
           BytesLeft, Preloaded, AtEnd, Up, Down, frame, callee, ArgsOK, Source, End
  <1> QED
    BY <1>2, <1>4 DEF Progress

LEMMA FAlignStep == ASSUME IInv, FAlign PROVE Progress
  <1>1. /\ pc = "FAlign" /\ mis' = a1 % SZREG /\ saved' = s /\ ArgsOK /\ call' = call
        /\ UNCHANGED <<a0, a1, words, t2, s, loaded, mem>>
    BY Args DEF FAlign, IInv
  <1>2. /\ MayGoUp /\ t2 = dst /\ dst <= a0 /\ a0 <= End /\ Copied(call, mem, dst, a0)
        /\ a1 = Source /\ a0 + a2 = End /\ a2 \in Nat /\ a2 >= 2 * SZREG /\ a0 % SZREG = 0
        /\ s = "caller" /\ NumbersOK /\ LoadsNearSource /\ call \in Calls
    BY <1>1 DEF IInv, GoingUp, BytesLeft, SavedOK, Up
  <1>3. mis' \in 0 .. SZREG - 1
    BY <1>1, <1>2, Units DEF ArgsOK, NumbersOK
  <1>4. ASSUME mis' # 0, pc' = "FUnalignedEntry", last' = a0, a2' = a2 PROVE IInv'
    BY <1>1, <1>2, <1>3, <1>4, Kept
       DEF IInv, NumbersOK, LoadsNearSource, loaded, AtCall, MayGoUp, GoingUp, GoingDown, SavedOK, RoundsUp, RoundsDown,
           BytesLeft, Preloaded, AtEnd, Up, Down, frame, callee, ArgsOK, Source, End
  <1>5. ASSUME mis' = 0, pc' = "FWords", last' = a0, a2' = a2 PROVE IInv'
    BY <1>1, <1>2, <1>3, <1>5, Kept
       DEF IInv, NumbersOK, LoadsNearSource, loaded, AtCall, MayGoUp, GoingUp, GoingDown, SavedOK, RoundsUp, RoundsDown,
           BytesLeft, Preloaded, AtEnd, Up, Down, frame, callee, ArgsOK, Source, End
  <1>6. ASSUME a2 >= 16 * SZREG, pc' = "FBlock", a2' = a2 % (16 * SZREG), last' = a0 + a2 - a2'
        PROVE  IInv'
    <2> DEFINE u == 16 * SZREG
    <2>1. a2' \in 0 .. 16 * SZREG - 1 /\ (a2 - a2') % (16 * SZREG) = 0
      <3>1. SZREG \in {4, 8} /\ u \in {SZREG, 2 * SZREG, 16 * SZREG} /\ a2 \in Int /\ a2' = a2 % u
        BY <1>1, <1>2, <1>6 DEF ArgsOK
      <3> HIDE DEF u
      <3>2. a2 % u \in 0 .. u - 1 /\ (a2 - (a2 % u)) % u = 0
        BY <3>1, Units
      <3> QED
        BY <3>1, <3>2 DEF u
    <2>2. last' - a0 = a2 - a2' /\ a0 < last' /\ last' + a2' = End
      BY <1>1, <1>2, <1>6, <2>1 DEF ArgsOK, NumbersOK
    <2> QED
      BY <1>1, <1>2, <1>3, <1>6, <2>1, <2>2, Kept
         DEF IInv, NumbersOK, LoadsNearSource, loaded, AtCall, MayGoUp, GoingUp, GoingDown, SavedOK, RoundsUp, RoundsDown,
           BytesLeft, Preloaded, AtEnd, Up, Down, frame, callee, ArgsOK, Source, End
  <1>7. IInv' /\ pc' # "done"
    BY <1>4, <1>5, <1>6 DEF FAlign
  <1> QED
    BY <1>1, <1>7, Still DEF Progress

LEMMA FBlockStep == ASSUME IInv, FBlock PROVE Progress
  <1> DEFINE G == 4 * SZREG
             Group(m, k) == CopyBytes(m, a0 + k * G, a1 + k * G, G)
             m1 == Group(mem, 0)
             m2 == Group(m1, 1)
             m3 == Group(m2, 2)
             m4 == Group(m3, 3)
  <1>1. /\ pc = "FBlock" /\ mem' = m4 /\ Reads(a1, a1 + 16 * SZREG)
        /\ a0' = a0 + 16 * SZREG /\ a1' = a1 + 16 * SZREG
        /\ pc' = IF a0' < last THEN "FBlock" ELSE "FWords"
        /\ UNCHANGED <<a2, last, words, frame, saved>> /\ ArgsOK /\ call' = call
    BY Args DEF FBlock, frame, IInv
  <1>2. /\ MayGoUp /\ t2 = dst /\ dst <= a0 /\ a0 <= End /\ Copied(call, mem, dst, a0)
        /\ a1 = Source /\ a0 < last /\ (last - a0) % (16 * SZREG) = 0 /\ last + a2 = End
        /\ a2 \in Nat /\ a0 % SZREG = 0
        /\ saved = "caller" /\ NumbersOK /\ LoadsNearSource /\ call \in Calls
    BY <1>1 DEF IInv, GoingUp, BytesLeft, SavedOK, RoundsUp, Up
  <1>3. /\ a0 + 16 * SZREG <= last /\ (last - (a0 + 16 * SZREG)) % (16 * SZREG) = 0
        /\ (a0 + 16 * SZREG) % SZREG = 0
    <2> DEFINE u == 16 * SZREG
    <2>1. /\ SZREG \in {4, 8} /\ u \in {SZREG, 2 * SZREG, 16 * SZREG}
          /\ a0 \in Int /\ last \in Int /\ a0 < last /\ (last - a0) % u = 0
      BY <1>1, <1>2 DEF ArgsOK, NumbersOK
    <2>2. a0 + u <= last /\ (last - (a0 + u)) % u = 0
      <3> HIDE DEF u
      <3> QED
        BY <2>1, Round
    <2>3. (a0 + 16 * SZREG) % SZREG = 0
      BY <1>2, <2>1, Boundaries DEF NumbersOK
    <2> QED
      BY <2>2, <2>3
  <1>4. ASSUME NEW m, NEW k \in 0 .. 3, Copied(call, m, dst, a0 + k * G)
        PROVE  Copied(call, Group(m, k), dst, a0 + (k + 1) * G)
    <2>1. /\ G \in Nat /\ a0 + k * G \in Int /\ dst <= a0 + k * G
          /\ a0 + k * G + G = a0 + (k + 1) * G /\ a0 + (k + 1) * G <= a0 + 16 * SZREG
          /\ a1 + k * G = src + ((a0 + k * G) - dst)
      <3>1. k \in {0, 1, 2, 3}
        OBVIOUS
      <3> QED
        BY <1>1, <1>2, <3>1 DEF ArgsOK, NumbersOK, Source
    <2>2. a0 + k * G + G <= End
      BY <1>1, <1>2, <1>3, <2>1 DEF ArgsOK, NumbersOK, End
    <2> HIDE DEF G
    <2> QED
      BY <1>1, <1>2, <1>4, <2>1, <2>2, CopiesUp
  <1>5. Copied(call, mem', dst, a0 + 16 * SZREG)
    <2>1. /\ a0 + 0 * G = a0 /\ 0 + 1 = 1 /\ 1 + 1 = 2 /\ 2 + 1 = 3 /\ 3 + 1 = 4
          /\ a0 + 4 * G = a0 + 16 * SZREG
      BY <1>1, <1>2 DEF ArgsOK, NumbersOK
    <2> HIDE DEF G, Group
    <2>2. Copied(call, m1, dst, a0 + 1 * G)
      BY <1>2, <1>4, <2>1
    <2>3. Copied(call, m2, dst, a0 + 2 * G)
      BY <1>4, <2>1, <2>2
    <2>4. Copied(call, m3, dst, a0 + 3 * G)
      BY <1>4, <2>1, <2>3
    <2>5. Copied(call, m4, dst, a0 + 4 * G)
      BY <1>4, <2>1, <2>4
    <2> QED
      BY <1>1, <2>1, <2>5
  <1> HIDE DEF m4
  <1>6. /\ dst \in Int /\ a0 \in Int /\ a0 + 16 * SZREG \in Int /\ a0 <= a0 + 16 * SZREG
        /\ a0 + 16 * SZREG <= End /\ dst <= dst /\ pc # "done" /\ pc' # "done"
    BY <1>1, <1>2, <1>3 DEF NumbersOK, ArgsOK, End
  <1>7. RW!Write
    BY <1>1, <1>2, <1>5, <1>6, Writes
  <1>8. LoadsNearSource' /\ lo' \in Int /\ hi' \in Int
    BY <1>1, <1>2, <1>6, Near DEF NumbersOK, ArgsOK, Source, End
  <1>9. IInv'
    BY <1>1, <1>2, <1>3, <1>5, <1>6, <1>8, Kept
       DEF IInv, NumbersOK, AtCall, MayGoUp, GoingUp, GoingDown, SavedOK, RoundsUp, RoundsDown,
           BytesLeft, Preloaded, AtEnd, Up, Down, frame, callee, ArgsOK, Source, End
  <1> QED
    BY <1>7, <1>9 DEF Progress

LEMMA FWordsStep == ASSUME IInv, FWords PROVE Progress
  <1>1. /\ pc = "FWords" /\ last' = RoundDown(last + a2, SZREG) /\ ArgsOK /\ call' = call
        /\ UNCHANGED <<a0, a1, words, frame, callee, loaded, mem>>
    BY Args DEF FWords, frame, IInv
  <1>2. /\ MayGoUp /\ t2 = dst /\ dst <= a0 /\ a0 <= End /\ Copied(call, mem, dst, a0)
        /\ a1 = Source /\ last = a0 /\ a0 + a2 = End /\ a2 \in Nat /\ a0 % SZREG = 0
        /\ saved = "caller" /\ NumbersOK /\ LoadsNearSource /\ call \in Calls
    BY <1>1 DEF IInv, GoingUp, BytesLeft, SavedOK, Up
  <1>3. /\ last' - a0 = a2 - (a2 % SZREG) /\ (last' - a0) % SZREG = 0
        /\ a2 % SZREG \in 0 .. SZREG - 1 /\ last' \in Int
    <2>1. SZREG \in {4, 8} /\ a0 \in Int /\ a2 \in Int /\ a0 % SZREG = 0
      BY <1>1, <1>2 DEF ArgsOK, NumbersOK
    <2>2. RoundDown(a0 + a2, SZREG) - a0 = a2 - (a2 % SZREG) /\ (a2 - (a2 % SZREG)) % SZREG = 0
      BY <2>1, Boundaries
    <2>3. a2 % SZREG \in 0 .. SZREG - 1 /\ SZREG \in {SZREG, 2 * SZREG, 16 * SZREG}
      BY <2>1, Units
    <2>4. RoundDown(a0 + a2, SZREG) \in Int
      BY <2>1 DEF RoundDown
    <2> QED
      BY <1>1, <1>2, <2>2, <2>3, <2>4
  <1>4. ASSUME pc' = "FBytes", a2' = a2 PROVE IInv'
    BY <1>1, <1>2, <1>3, <1>4, Kept
       DEF IInv, NumbersOK, LoadsNearSource, loaded, AtCall, MayGoUp, GoingUp, GoingDown, SavedOK, RoundsUp, RoundsDown,
           BytesLeft, Preloaded, AtEnd, Up, Down, frame, callee, ArgsOK, Source, End
  <1>5. ASSUME last' # a0, pc' = "FWord", a2' = a2 % SZREG PROVE IInv'
    <2>1. a0 < last' /\ last' + a2' = End /\ a2 >= a2 % SZREG
      <3>1. a2 >= a2 % SZREG
        <4>1. CASE SZREG = 4
          BY <1>2, <4>1
        <4>2. CASE SZREG = 8
          BY <1>2, <4>2
        <4> QED
          BY <1>1, <4>1, <4>2 DEF ArgsOK
      <3> QED
        BY <1>1, <1>2, <1>3, <1>5, <3>1 DEF ArgsOK, NumbersOK
    <2> QED
      BY <1>1, <1>2, <1>3, <1>5, <2>1, Kept
         DEF IInv, NumbersOK, LoadsNearSource, loaded, AtCall, MayGoUp, GoingUp, GoingDown, SavedOK, RoundsUp, RoundsDown,
           BytesLeft, Preloaded, AtEnd, Up, Down, frame, callee, ArgsOK, Source, End
  <1>6. IInv' /\ pc' # "done"
    BY <1>4, <1>5 DEF FWords
  <1> QED
    BY <1>1, <1>6, Still DEF Progress

LEMMA FWordStep == ASSUME IInv, FWord PROVE Progress
  <1>1. /\ pc = "FWord" /\ mem' = CopyBytes(mem, a0, a1, SZREG) /\ Reads(a1, a1 + SZREG)
        /\ a0' = a0 + SZREG /\ a1' = a1 + SZREG
        /\ pc' = IF a0' < last THEN "FWord" ELSE "FBytes"
        /\ UNCHANGED <<a2, last, words, frame, callee>> /\ ArgsOK /\ call' = call
    BY Args DEF FWord, frame, IInv
  <1>2. /\ MayGoUp /\ t2 = dst /\ dst <= a0 /\ a0 <= End /\ Copied(call, mem, dst, a0)
        /\ a1 = Source /\ a0 < last /\ (last - a0) % SZREG = 0 /\ last + a2 = End
        /\ a2 \in Nat /\ saved = "caller" /\ NumbersOK /\ LoadsNearSource /\ call \in Calls
    BY <1>1 DEF IInv, GoingUp, BytesLeft, SavedOK, RoundsUp, Up
  <1>3. a0 + SZREG <= last /\ (last - (a0 + SZREG)) % SZREG = 0
    <2>1. SZREG \in {4, 8} /\ SZREG \in {SZREG, 2 * SZREG, 16 * SZREG}
      BY <1>1 DEF ArgsOK
    <2> QED
      BY <1>2, <2>1, Round DEF NumbersOK
  <1>4. /\ dst \in Int /\ a0 \in Int /\ a0 + SZREG \in Int /\ a0 <= a0 + SZREG
        /\ a0 + SZREG <= End /\ dst <= dst /\ SZREG \in Nat /\ pc # "done" /\ pc' # "done"
    BY <1>1, <1>2, <1>3 DEF NumbersOK, ArgsOK, End
  <1>5. Copied(call, mem', dst, a0 + SZREG)
    BY <1>1, <1>2, <1>4, CopiesUp DEF Source
  <1>6. RW!Write
    BY <1>1, <1>2, <1>4, <1>5, Writes
  <1>7. LoadsNearSource' /\ lo' \in Int /\ hi' \in Int
    BY <1>1, <1>2, <1>4, Near DEF NumbersOK, ArgsOK, Source, End
  <1>8. ASSUME a0' < last PROVE IInv'
    BY <1>1, <1>2, <1>3, <1>4, <1>5, <1>7, <1>8, Kept
       DEF IInv, NumbersOK, AtCall, MayGoUp, GoingUp, GoingDown, SavedOK, RoundsUp, RoundsDown,
           BytesLeft, Preloaded, AtEnd, Up, Down, frame, callee, ArgsOK, Source, End
  <1>9. ASSUME ~(a0' < last) PROVE IInv'
    <2>1. a0' = last /\ pc' = "FBytes"
      BY <1>1, <1>2, <1>3, <1>9 DEF NumbersOK, ArgsOK
    <2> QED
      BY <1>1, <1>2, <1>3, <1>4, <1>5, <1>7, <2>1, Kept
       DEF IInv, NumbersOK, AtCall, MayGoUp, GoingUp, GoingDown, SavedOK, RoundsUp, RoundsDown,
           BytesLeft, Preloaded, AtEnd, Up, Down, frame, callee, ArgsOK, Source, End
  <1> QED
    BY <1>6, <1>8, <1>9 DEF Progress

LEMMA FBytesStep == ASSUME IInv, FBytes PROVE Progress
  <1>1. /\ pc = "FBytes" /\ pc' = "FBops" /\ s' = saved /\ ArgsOK /\ call' = call
        /\ UNCHANGED <<pointers, words, frame, saved, loaded, mem>>
    BY Args DEF FBytes, frame, IInv
  <1>2. IInv'
    BY <1>1, Kept
       DEF IInv, NumbersOK, LoadsNearSource, loaded, AtCall, MayGoUp, GoingUp, GoingDown,
           SavedOK, RoundsUp, RoundsDown, BytesLeft, Preloaded, AtEnd, Up, Down, frame, callee,
           ArgsOK, Source, End, pointers
  <1> QED
    BY <1>1, <1>2, Still DEF Progress

LEMMA FBopsStep == ASSUME IInv, FBops PROVE Progress
  <1>1. /\ pc = "FBops" /\ ArgsOK /\ call' = call
        /\ UNCHANGED <<a0, a1, last, words, frame, callee, loaded, mem>>
    BY Args DEF FBops, frame, IInv
  <1>2. ASSUME a2 = 0, pc' = "FRet", a2' = a2 PROVE IInv'
    BY <1>1, <1>2, Kept
       DEF IInv, NumbersOK, LoadsNearSource, loaded, AtCall, MayGoUp, GoingUp, GoingDown,
           SavedOK, RoundsUp, RoundsDown, BytesLeft, Preloaded, AtEnd, Up, Down, frame, callee,
           ArgsOK, Source, End
  <1>3. ASSUME a2 # 0, pc' = "FByte", a2' = a2 + a0 PROVE IInv'
    BY <1>1, <1>3, Kept
       DEF IInv, NumbersOK, LoadsNearSource, loaded, AtCall, MayGoUp, GoingUp, GoingDown,
           SavedOK, RoundsUp, RoundsDown, BytesLeft, Preloaded, AtEnd, Up, Down, frame, callee,
           ArgsOK, Source, End
  <1>4. IInv' /\ pc' # "done"
    BY <1>2, <1>3 DEF FBops
  <1> QED
    BY <1>1, <1>4, Still DEF Progress

(* With every byte of dst copied, the return is that of the abstract copy *)
LEMMA Returns ==
  ASSUME ArgsOK, Copied(call, mem, dst, End), call' = call, mem' = mem, pc # "done", pc' = "done"
  PROVE  RW!Return
  <1>1. mem = [a \in Addr |-> IF dst <= a /\ a < End THEN src + (a - dst) ELSE a]
    BY CopiedIs
  <1>2. \A a \in Target : a \in Addr /\ a \in Int /\ dst <= a /\ a < End
    BY AddrIs DEF Target, End, ArgsOK
  <1>3. \A a \in Target : mem[a] = [b \in Target |-> src + (b - dst)][a]
    BY <1>1, <1>2
  <1>4. UNCHANGED <<Target, [a \in Target |-> src + (a - dst)]>>
    BY Kept
  <1> QED
    BY <1>3, <1>4 DEF RW!Return

LEMMA FRetStep == ASSUME IInv, FRet PROVE Progress
  <1>1. /\ pc = "FRet" /\ pc' = "done" /\ a0' = t2 /\ ArgsOK /\ call' = call
        /\ UNCHANGED <<a1, a2, last, words, frame, callee, loaded, mem>>
    BY Args DEF FRet, frame, IInv
  <1>2. a0 = End /\ t2 = dst /\ Copied(call, mem, dst, End)
    BY <1>1 DEF IInv, GoingUp, BytesLeft, Up
  <1>3. IInv'
    BY <1>1, <1>2, Kept
       DEF IInv, NumbersOK, LoadsNearSource, loaded, AtCall, MayGoUp, GoingUp, GoingDown,
           SavedOK, RoundsUp, RoundsDown, BytesLeft, Preloaded, AtEnd, Up, Down, frame, callee,
           ArgsOK, Source, End
  <1> QED
    BY <1>1, <1>2, <1>3, Returns DEF Progress

LEMMA FUnalignedEntryStep == ASSUME IInv, FUnalignedEntry PROVE Progress
  <1> DEFINE u == 2 * SZREG
  <1>1. /\ pc = "FUnalignedEntry" /\ pc' = "FUnaligned"
        /\ last' = a0 + RoundDown(a2, u) /\ a2' = a2 % u /\ a1' = RoundDown(a1, SZREG)
        /\ a5' = Load(mem, a1') /\ a4' = Load(mem, a1' + SZREG)
        /\ Reads(a1', a1' + u) /\ UNCHANGED <<a0, frame, callee, mem>>
        /\ ArgsOK /\ call' = call
    BY Args DEF FUnalignedEntry, FUnalignedEntryBy, frame, IInv
  <1>2. /\ MayGoUp /\ t2 = dst /\ dst <= a0 /\ a0 <= End /\ Copied(call, mem, dst, a0)
        /\ a1 = Source /\ a0 + a2 = End /\ a2 \in Nat /\ a2 >= u
        /\ mis \in 1 .. SZREG - 1 /\ mis = a1 % SZREG
        /\ saved = "caller" /\ NumbersOK /\ LoadsNearSource /\ call \in Calls
    BY <1>1 DEF IInv, GoingUp, BytesLeft, Preloaded, SavedOK, Up
  <1>3. /\ a2' \in 0 .. u - 1 /\ last' = a0 + (a2 - a2') /\ (a2 - a2') % u = 0
        /\ a1' = a1 - mis
    <2>1. /\ SZREG \in {4, 8} /\ u \in {SZREG, 2 * SZREG, 16 * SZREG}
          /\ SZREG \in {SZREG, 2 * SZREG, 16 * SZREG} /\ a2 \in Int /\ a1 \in Int
      BY <1>1, <1>2 DEF ArgsOK, NumbersOK
    <2> HIDE DEF u
    <2>2. a2 % u \in 0 .. u - 1 /\ RoundDown(a2, u) = a2 - (a2 % u) /\ (a2 - (a2 % u)) % u = 0
      BY <2>1, Units
    <2>3. RoundDown(a1, SZREG) = a1 - (a1 % SZREG)
      BY <2>1, Units
    <2> QED
      BY <1>1, <1>2, <2>2, <2>3
  <1>4. /\ last' - a0 = a2 - a2' /\ a0 < last' /\ last' + a2' = End /\ last' \in Int
        /\ a1' \in Int /\ a1' + mis = Source /\ Source + u <= src + sz /\ a2' \in Nat
    BY <1>1, <1>2, <1>3 DEF ArgsOK, NumbersOK, Source, End
  <1>5. ASSUME NEW f \in Int, Source <= f, f < src + sz PROVE mem[f] = f
    BY <1>1, <1>2, <1>5, LoadUp DEF NumbersOK, Source
  <1>6. ASSUME NEW i \in Lanes
        PROVE  (i >= mis => a5'[i] = a1' + i) /\ a4'[i] = a1' + SZREG + i
    <2>1. /\ i \in Int /\ a1' + i \in Int /\ a1' + SZREG + i \in Int
          /\ i >= mis => Source <= a1' + i /\ a1' + i < src + sz
          /\ Source <= a1' + SZREG + i /\ a1' + SZREG + i < src + sz
      BY <1>1, <1>2, <1>4 DEF ArgsOK, NumbersOK, Source, Lanes
    <2>2. a5'[i] = mem[a1' + i] /\ a4'[i] = mem[a1' + SZREG + i]
      BY <1>1 DEF Load
    <2> QED
      BY <1>5, <2>1, <2>2
  <1>7. LoadsNearSource' /\ lo' \in Int /\ hi' \in Int
    <2>1. a1' + u \in Int /\ src - SZREG < a1' /\ a1' + u <= src + sz + 2 * SZREG
      BY <1>1, <1>2, <1>4 DEF NumbersOK, ArgsOK, Source, End
    <2> QED
      BY <1>1, <1>2, <1>4, <2>1, Near
  <1>8. IInv'
    BY <1>1, <1>2, <1>3, <1>4, <1>6, <1>7, Kept
       DEF IInv, NumbersOK, AtCall, MayGoUp, GoingUp, GoingDown, SavedOK, RoundsUp, RoundsDown,
           BytesLeft, Preloaded, AtEnd, Up, Down, frame, callee, ArgsOK, Source, End
  <1> QED
    BY <1>1, <1>8, Still DEF Progress

LEMMA FUnalignedStep == ASSUME IInv, FUnaligned PROVE Progress
  <1> DEFINE u == 2 * SZREG
             w1 == Combine(a5, a4)
             w2 == Combine(a4, a5')
             m1 == Store(mem, a0, w1)
             m2 == Store(m1, a0 + SZREG, w2)
  <1>1. /\ pc = "FUnaligned" /\ a5' = Load(mem, a1 + 2 * SZREG) /\ mem' = m2
        /\ a4' = Load(mem', a1 + 3 * SZREG) /\ Reads(a1 + 2 * SZREG, a1 + 4 * SZREG)
        /\ a0' = a0 + u /\ pc' = (IF a0' < last THEN "FUnaligned" ELSE "FBytes")
        /\ a1' = (IF a0' < last THEN a1 + 2 * SZREG ELSE a1 + 2 * SZREG + mis)
        /\ UNCHANGED <<a2, last, frame, saved>> /\ ArgsOK /\ call' = call
    BY Args DEF FUnaligned, frame, IInv
  <1>2. /\ MayGoUp /\ t2 = dst /\ dst <= a0 /\ a0 <= End /\ Copied(call, mem, dst, a0)
        /\ a0 < last /\ (last - a0) % u = 0 /\ last + a2 = End /\ a2 \in Nat
        /\ a1 + mis = Source /\ mis \in 1 .. SZREG - 1
        /\ \A i \in Lanes : i >= mis => a5[i] = a1 + i
        /\ \A i \in Lanes : a4[i] = a1 + SZREG + i
        /\ saved = "caller" /\ NumbersOK /\ LoadsNearSource /\ call \in Calls
    BY <1>1 DEF IInv, GoingUp, BytesLeft, Preloaded, SavedOK, RoundsUp, Up
  <1>3. /\ a0 + u <= last /\ (last - (a0 + u)) % u = 0
    <2>1. /\ SZREG \in {4, 8} /\ u \in {SZREG, 2 * SZREG, 16 * SZREG}
          /\ a0 \in Int /\ last \in Int /\ a0 < last /\ (last - a0) % u = 0
      BY <1>1, <1>2 DEF ArgsOK, NumbersOK
    <2> HIDE DEF u
    <2> QED
      BY <2>1, Round
  <1>4. /\ dst \in Int /\ a0 \in Int /\ a0 + SZREG \in Int /\ a0 + u \in Int /\ a0 <= a0 + u
        /\ a0 + u <= End /\ dst <= dst /\ dst <= a0 + SZREG /\ (a0 + SZREG) + SZREG = a0 + u
        /\ pc # "done" /\ pc' # "done" /\ Source + u <= src + sz /\ Source \in Int
    BY <1>1, <1>2, <1>3 DEF NumbersOK, ArgsOK, Source, End
  <1>5. ASSUME NEW f \in Int, Source <= f, f < src + sz PROVE mem[f] = f
    BY <1>1, <1>2, <1>5, LoadUp DEF NumbersOK, Source
  <1>6. \A i \in Lanes : w1[i] = src + (a0 - dst) + i
    <2> SUFFICES ASSUME NEW i \in Lanes PROVE w1[i] = src + (a0 - dst) + i
      OBVIOUS
    <2>1. /\ i + mis < SZREG => i + mis \in Lanes /\ w1[i] = a5[i + mis]
          /\ i + mis >= SZREG => i + mis - SZREG \in Lanes /\ w1[i] = a4[i + mis - SZREG]
      BY <1>1, <1>2, CombineLanes
    <2>2. i \in Int /\ 0 <= i
      BY DEF Lanes
    <2> QED
      BY <1>1, <1>2, <2>1, <2>2 DEF ArgsOK, NumbersOK, Source
  <1>7. \A i \in Lanes : w2[i] = src + ((a0 + SZREG) - dst) + i
    <2> SUFFICES ASSUME NEW i \in Lanes PROVE w2[i] = src + ((a0 + SZREG) - dst) + i
      OBVIOUS
    <2>1. /\ i + mis < SZREG => i + mis \in Lanes /\ w2[i] = a4[i + mis]
          /\ i + mis >= SZREG => i + mis - SZREG \in Lanes /\ w2[i] = a5'[i + mis - SZREG]
      BY <1>1, <1>2, CombineLanes
    <2>2. i \in Int /\ 0 <= i /\ i < SZREG
      BY <1>1 DEF Lanes, ArgsOK
    <2>3. ASSUME i + mis < SZREG PROVE w2[i] = src + ((a0 + SZREG) - dst) + i
      BY <1>1, <1>2, <2>1, <2>2, <2>3 DEF ArgsOK, NumbersOK, Source
    <2>4. ASSUME ~(i + mis < SZREG) PROVE w2[i] = src + ((a0 + SZREG) - dst) + i
      <3> DEFINE f == a1 + 2 * SZREG + (i + mis - SZREG)
      <3>1. i + mis - SZREG \in Lanes /\ w2[i] = a5'[i + mis - SZREG]
        BY <1>1, <1>2, <2>1, <2>2, <2>4 DEF ArgsOK, NumbersOK
      <3>2. a5'[i + mis - SZREG] = mem[f]
        BY <1>1, <3>1 DEF Load
      <3>3. /\ f \in Int /\ Source <= f /\ f < src + sz /\ f = src + ((a0 + SZREG) - dst) + i
        BY <1>1, <1>2, <1>4, <2>2 DEF ArgsOK, NumbersOK, Source
      <3> QED
        BY <1>5, <3>1, <3>2, <3>3
    <2> QED
      BY <2>3, <2>4
  <1>8. Copied(call, mem', dst, a0 + u)
    <2> HIDE DEF w1, w2
    <2>1. Copied(call, m1, dst, a0 + SZREG)
      BY <1>1, <1>2, <1>4, <1>6, StoresUp
    <2> HIDE DEF m1
    <2>2. Copied(call, m2, dst, (a0 + SZREG) + SZREG)
      BY <1>1, <1>4, <1>7, <2>1, StoresUp
    <2> QED
      BY <1>1, <1>4, <2>2
  <1> HIDE DEF m2
  <1>9. RW!Write
    BY <1>1, <1>2, <1>4, <1>8, Writes
  <1>10. LoadsNearSource' /\ lo' \in Int /\ hi' \in Int
    <2>1. /\ a1 + 2 * SZREG \in Int /\ a1 + 4 * SZREG \in Int
          /\ src - SZREG < a1 + 2 * SZREG /\ a1 + 4 * SZREG <= src + sz + 2 * SZREG
      BY <1>1, <1>2, <1>4 DEF NumbersOK, ArgsOK, Source
    <2> QED
      BY <1>1, <1>2, <2>1, Near
  <1>11. ASSUME a0' < last PROVE IInv'
    <2>1. a0 + u + u <= last
      <3>1. /\ SZREG \in {4, 8} /\ u \in {SZREG, 2 * SZREG, 16 * SZREG}
            /\ a0 + u \in Int /\ last \in Int /\ a0 + u < last
        BY <1>1, <1>2, <1>4, <1>11 DEF ArgsOK, NumbersOK
      <3> HIDE DEF u
      <3> QED
        BY <1>3, <3>1, Round
    <2>2. Source + 4 * SZREG <= src + sz /\ a1' = a1 + 2 * SZREG
      BY <1>1, <1>2, <1>11, <2>1 DEF ArgsOK, NumbersOK, Source, End
    <2>3. ASSUME NEW f \in Int, Source + u <= f, f < src + sz PROVE mem'[f] = f
      <3>1. src + ((a0 + u) - dst) <= f
        BY <1>1, <1>2, <1>4, <2>3 DEF ArgsOK, NumbersOK, Source
      <3> HIDE DEF u
      <3> QED
        BY <1>1, <1>2, <1>4, <1>8, <2>3, <3>1, LoadUp
    <2>4. ASSUME NEW i \in Lanes
          PROVE  (i >= mis => a5'[i] = a1' + i) /\ a4'[i] = a1' + SZREG + i
      <3>1. i \in Int /\ 0 <= i /\ i < SZREG
        BY <1>1 DEF Lanes, ArgsOK
      <3>2. /\ a1' + i \in Int /\ a1 + 3 * SZREG + i \in Int
            /\ i >= mis => Source <= a1' + i /\ a1' + i < src + sz
            /\ Source + u <= a1 + 3 * SZREG + i /\ a1 + 3 * SZREG + i < src + sz
            /\ a1 + 3 * SZREG + i = a1' + SZREG + i
        BY <1>1, <1>2, <1>4, <2>2, <3>1 DEF ArgsOK, NumbersOK
      <3>3. a5'[i] = mem[a1' + i] /\ a4'[i] = mem'[a1 + 3 * SZREG + i]
        BY <1>1, <2>2 DEF Load
      <3> QED
        BY <1>5, <2>3, <3>2, <3>3
    <2> QED
      BY <1>1, <1>2, <1>3, <1>4, <1>8, <1>10, <1>11, <2>2, <2>4, Kept
       DEF IInv, NumbersOK, AtCall, MayGoUp, GoingUp, GoingDown, SavedOK, RoundsUp, RoundsDown,
           BytesLeft, Preloaded, AtEnd, Up, Down, frame, callee, ArgsOK, Source, End
  <1>12. ASSUME ~(a0' < last) PROVE IInv'
    <2>1. /\ a0' = last /\ pc' = "FBytes" /\ a1' = a1 + 2 * SZREG + mis
      BY <1>1, <1>2, <1>3, <1>12 DEF NumbersOK, ArgsOK
    <2> QED
      BY <1>1, <1>2, <1>4, <1>8, <1>10, <2>1, Kept
       DEF IInv, NumbersOK, AtCall, MayGoUp, GoingUp, GoingDown, SavedOK, RoundsUp, RoundsDown,
           BytesLeft, Preloaded, AtEnd, Up, Down, frame, callee, ArgsOK, Source, End
  <1> QED
    BY <1>9, <1>11, <1>12 DEF Progress
-----------------------------------------------------------------------------
LEMMA REntryStep == ASSUME IInv, REntry PROVE Progress
  <1>1. /\ pc = "REntry" /\ a0' = a0 + a2 /\ a1' = a1 + a2 /\ call' = call /\ ArgsOK
        /\ UNCHANGED <<words, frame, callee, loaded, mem>>
    BY Args DEF REntry, frame, IInv
  <1>2. /\ a0 = dst /\ a1 = src /\ a2 = sz /\ Copied(call, mem, dst, dst) /\ src < dst
        /\ s = "caller" /\ NumbersOK /\ LoadsNearSource /\ call \in Calls
    BY <1>1 DEF IInv, AtCall, SavedOK
  <1>3. a0' % SZREG \in 0 .. SZREG - 1 /\ a0' \in Int /\ a1' \in Int
    <2>1. /\ SZREG \in {4, 8} /\ SZREG \in {SZREG, 2 * SZREG, 16 * SZREG}
          /\ a0' \in Int /\ a1' \in Int
      BY <1>1, <1>2 DEF ArgsOK
    <2> QED
      BY <2>1, Units
  <1>4. a0' = End /\ a1' = src + sz /\ src + sz = src + (End - dst) /\ dst <= End
    BY <1>1, <1>2 DEF ArgsOK, End
  <1>5. Copied(call, mem, End, End)
    <2>1. \A a \in Addr : ~(dst <= a /\ a < dst) /\ ~(End <= a /\ a < End)
      BY <1>1, AddrIs DEF ArgsOK, End
    <2> QED
      BY <1>2, <2>1, CopiedIs
  <1>6. ASSUME a2 < 3 * SZREG, pc' = "RBops", UNCHANGED <<a2, last>> PROVE IInv'
    BY <1>1, <1>2, <1>3, <1>4, <1>5, <1>6, Kept
       DEF IInv, NumbersOK, LoadsNearSource, loaded, AtCall, MayGoUp, GoingUp, GoingDown,
           SavedOK, RoundsUp, RoundsDown, BytesLeft, Preloaded, AtEnd, Up, Down, frame, callee,
           ArgsOK, Source, End
  <1>7. ASSUME a2 >= 3 * SZREG, pc' = "RAlign", UNCHANGED <<a2, last>> PROVE IInv'
    BY <1>1, <1>2, <1>3, <1>4, <1>5, <1>7, Kept
       DEF IInv, NumbersOK, LoadsNearSource, loaded, AtCall, MayGoUp, GoingUp, GoingDown,
           SavedOK, RoundsUp, RoundsDown, BytesLeft, Preloaded, AtEnd, Up, Down, frame, callee,
           ArgsOK, Source, End
  <1>8. ASSUME a2 >= 3 * SZREG, a0' % SZREG # 0, pc' = "RHead",
               a2' = a2 - (a0' % SZREG), last' = a0' - (a0' % SZREG)
        PROVE  IInv'
    BY <1>1, <1>2, <1>3, <1>4, <1>5, <1>8, Kept
       DEF IInv, NumbersOK, LoadsNearSource, loaded, AtCall, MayGoUp, GoingUp, GoingDown,
           SavedOK, RoundsUp, RoundsDown, BytesLeft, Preloaded, AtEnd, Up, Down, frame, callee,
           ArgsOK, Source, End
  <1>9. IInv' /\ pc' # "done"
    BY <1>6, <1>7, <1>8 DEF REntry
  <1> QED
    BY <1>1, <1>9, Still DEF Progress

(* A byte below a0, in either loop *)
LEMMA ByteDownStep ==
  ASSUME IInv, pc \in {"RHead", "RByte"}, NEW loop, NEW exit, ByteDown(loop, exit), pc' # "done"
  PROVE  /\ a0' = a0 - 1 /\ a1' = a1 - 1 /\ Copied(call, mem', a0 - 1, End) /\ RW!Write
         /\ LoadsNearSource' /\ lo' \in Int /\ hi' \in Int
         /\ src < dst /\ dst <= a0 - 1 /\ a0 <= End /\ a1 = Source
  <1>1. /\ mem' = [mem EXCEPT ![a0 - 1] = mem[a1 - 1]] /\ Reads(a1 - 1, a1)
        /\ a0' = a0 - 1 /\ a1' = a1 - 1 /\ call' = call /\ ArgsOK
    BY Args DEF ByteDown, frame, IInv
  <1>2. /\ src < dst /\ a0 <= End /\ Copied(call, mem, a0, End) /\ a1 = Source
        /\ NumbersOK /\ LoadsNearSource
    BY DEF IInv, GoingDown, Down
  <1>3. dst < a0
    BY <1>1 DEF IInv, BytesLeft, RoundsDown, NumbersOK, ArgsOK
  <1>4. /\ a0 - 1 \in Int /\ a0 \in Int /\ End \in Int /\ (a0 - 1) + 1 = a0 /\ a1 - 1 \in Int
        /\ dst <= a0 - 1 /\ a0 - 1 < End /\ a1 - 1 = src + ((a0 - 1) - dst)
        /\ a0 - 1 <= a0 /\ End <= End
    BY <1>1, <1>2, <1>3 DEF NumbersOK, ArgsOK, End, Source
  <1>5. Copied(call, CopyBytes(mem, a0 - 1, a1 - 1, 1), a0 - 1, End)
    BY <1>1, <1>2, <1>4, CopiesDown
  <1>6. mem' = CopyBytes(mem, a0 - 1, a1 - 1, 1)
    BY <1>1, <1>2, <1>4, OneByte
  <1>7. LoadsNearSource' /\ lo' \in Int /\ hi' \in Int
    BY <1>1, <1>2, <1>3, Near DEF NumbersOK, ArgsOK, Source, End
  <1>8. Copied(call, mem', a0 - 1, End)
    BY <1>5, <1>6
  <1>9. RW!Write
    BY <1>1, <1>2, <1>4, <1>8, Writes
  <1> QED
    BY <1>1, <1>2, <1>4, <1>7, <1>8, <1>9

LEMMA RHeadStep == ASSUME IInv, RHead PROVE Progress
  <1>1. /\ pc = "RHead" /\ ByteDown("RHead", "RAlign") /\ ArgsOK /\ call' = call
        /\ pc' = IF a0 - 1 > last THEN "RHead" ELSE "RAlign"
        /\ UNCHANGED <<a2, last, words, frame, callee>>
    BY Args DEF RHead, ByteDown, frame, IInv
  <1>2. /\ a0' = a0 - 1 /\ a1' = a1 - 1 /\ Copied(call, mem', a0 - 1, End) /\ RW!Write
        /\ LoadsNearSource' /\ lo' \in Int /\ hi' \in Int
        /\ src < dst /\ dst <= a0 - 1 /\ a0 <= End /\ a1 = Source
    BY <1>1, ByteDownStep
  <1>3. /\ last < a0 /\ last - a2 = dst /\ a2 >= 2 * SZREG /\ a2 \in Nat
        /\ s = "caller" /\ NumbersOK /\ call \in Calls
    BY <1>1 DEF IInv, BytesLeft, SavedOK, RoundsDown
  <1>4. ASSUME a0 - 1 > last PROVE IInv'
    BY <1>1, <1>2, <1>3, <1>4, Kept
       DEF IInv, NumbersOK, AtCall, MayGoUp, GoingUp, GoingDown, SavedOK, RoundsUp, RoundsDown,
           BytesLeft, Preloaded, AtEnd, Up, Down, frame, callee, ArgsOK, Source, End
  <1>5. ASSUME ~(a0 - 1 > last) PROVE IInv'
    <2>1. a0' = last /\ pc' = "RAlign"
      BY <1>1, <1>2, <1>3, <1>5 DEF NumbersOK
    <2> QED
      BY <1>1, <1>2, <1>3, <2>1, Kept
       DEF IInv, NumbersOK, AtCall, MayGoUp, GoingUp, GoingDown, SavedOK, RoundsUp, RoundsDown,
           BytesLeft, Preloaded, AtEnd, Up, Down, frame, callee, ArgsOK, Source, End
  <1> QED
    BY <1>2, <1>4, <1>5 DEF Progress

LEMMA RByteStep == ASSUME IInv, RByte PROVE Progress
  <1>1. /\ pc = "RByte" /\ ByteDown("RByte", "RRet") /\ ArgsOK /\ call' = call
        /\ pc' = IF a0 - 1 > last THEN "RByte" ELSE "RRet"
        /\ UNCHANGED <<a2, last, words, frame, callee>>
    BY Args DEF RByte, ByteDown, frame, IInv
  <1>2. /\ a0' = a0 - 1 /\ a1' = a1 - 1 /\ Copied(call, mem', a0 - 1, End) /\ RW!Write
        /\ LoadsNearSource' /\ lo' \in Int /\ hi' \in Int
        /\ src < dst /\ dst <= a0 - 1 /\ a0 <= End /\ a1 = Source
    BY <1>1, ByteDownStep
  <1>3. last = dst /\ last < a0 /\ s = "caller" /\ NumbersOK /\ call \in Calls
    BY <1>1 DEF IInv, BytesLeft, SavedOK
  <1>4. IInv'
    BY <1>1, <1>2, <1>3, Kept
       DEF IInv, NumbersOK, AtCall, MayGoUp, GoingUp, GoingDown, SavedOK, RoundsUp, RoundsDown,
           BytesLeft, Preloaded, AtEnd, Up, Down, frame, callee, ArgsOK, Source, End
  <1> QED
    BY <1>2, <1>4 DEF Progress

LEMMA RAlignStep == ASSUME IInv, RAlign PROVE Progress
  <1>1. /\ pc = "RAlign" /\ mis' = a1 % SZREG /\ saved' = s /\ ArgsOK /\ call' = call
        /\ UNCHANGED <<a0, a1, words, t2, s, loaded, mem>>
    BY Args DEF RAlign, IInv
  <1>2. /\ src < dst /\ dst <= a0 /\ a0 <= End /\ Copied(call, mem, a0, End)
        /\ a1 = Source /\ a0 - a2 = dst /\ a2 \in Nat /\ a2 >= 2 * SZREG
        /\ s = "caller" /\ NumbersOK /\ LoadsNearSource /\ call \in Calls
    BY <1>1 DEF IInv, GoingDown, BytesLeft, SavedOK, Down
  <1>3. mis' \in 0 .. SZREG - 1
    BY <1>1, <1>2, Units DEF ArgsOK, NumbersOK
  <1>4. ASSUME mis' # 0, pc' = "RUnalignedEntry", UNCHANGED <<a2, last>> PROVE IInv'
    BY <1>1, <1>2, <1>3, <1>4, Kept
       DEF IInv, NumbersOK, LoadsNearSource, loaded, AtCall, MayGoUp, GoingUp, GoingDown,
           SavedOK, RoundsUp, RoundsDown, BytesLeft, Preloaded, AtEnd, Up, Down, frame, callee,
           ArgsOK, Source, End
  <1>5. ASSUME mis' = 0, pc' = "RWords", UNCHANGED <<a2, last>> PROVE IInv'
    BY <1>1, <1>2, <1>3, <1>5, Kept
       DEF IInv, NumbersOK, LoadsNearSource, loaded, AtCall, MayGoUp, GoingUp, GoingDown,
           SavedOK, RoundsUp, RoundsDown, BytesLeft, Preloaded, AtEnd, Up, Down, frame, callee,
           ArgsOK, Source, End
  <1>6. ASSUME a2 >= 16 * SZREG, pc' = "RBlock", a2' = a2 % (16 * SZREG), last' = a0 - a2 + a2'
        PROVE  IInv'
    <2> DEFINE u == 16 * SZREG
    <2>1. a2' \in 0 .. 16 * SZREG - 1 /\ (a2 - a2') % (16 * SZREG) = 0
      <3>1. SZREG \in {4, 8} /\ u \in {SZREG, 2 * SZREG, 16 * SZREG} /\ a2 \in Int /\ a2' = a2 % u
        BY <1>1, <1>2, <1>6 DEF ArgsOK
      <3> HIDE DEF u
      <3>2. a2 % u \in 0 .. u - 1 /\ (a2 - (a2 % u)) % u = 0
        BY <3>1, Units
      <3> QED
        BY <3>1, <3>2 DEF u
    <2>2. a0 - last' = a2 - a2' /\ last' < a0 /\ last' - a2' = dst /\ last' \in Int
      BY <1>1, <1>2, <1>6, <2>1 DEF ArgsOK, NumbersOK
    <2> QED
      BY <1>1, <1>2, <1>3, <1>6, <2>1, <2>2, Kept
       DEF IInv, NumbersOK, LoadsNearSource, loaded, AtCall, MayGoUp, GoingUp, GoingDown,
           SavedOK, RoundsUp, RoundsDown, BytesLeft, Preloaded, AtEnd, Up, Down, frame, callee,
           ArgsOK, Source, End
  <1>7. IInv' /\ pc' # "done"
    BY <1>4, <1>5, <1>6 DEF RAlign
  <1> QED
    BY <1>1, <1>7, Still DEF Progress

LEMMA RBlockStep == ASSUME IInv, RBlock PROVE Progress
  <1> DEFINE u == 16 * SZREG
             G == 4 * SZREG
             b == a0 - u
             Group(m, k) == CopyBytes(m, a0' + k * G, a1' + k * G, G)
             m1 == Group(mem, 3)
             m2 == Group(m1, 2)
             m3 == Group(m2, 1)
             m4 == Group(m3, 0)
  <1>1. /\ pc = "RBlock" /\ mem' = m4 /\ Reads(a1', a1)
        /\ a0' = b /\ a1' = a1 - u
        /\ pc' = IF a0' > last THEN "RBlock" ELSE "RWords"
        /\ UNCHANGED <<a2, last, words, frame, saved>> /\ ArgsOK /\ call' = call
    BY Args DEF RBlock, frame, IInv
  <1>2. /\ src < dst /\ dst <= a0 /\ a0 <= End /\ Copied(call, mem, a0, End)
        /\ a1 = Source /\ last < a0 /\ (a0 - last) % u = 0 /\ last - a2 = dst /\ a2 \in Nat
        /\ saved = "caller" /\ NumbersOK /\ LoadsNearSource /\ call \in Calls
    BY <1>1 DEF IInv, GoingDown, BytesLeft, SavedOK, RoundsDown, Down
  <1>3. last <= b /\ (b - last) % u = 0
    <2>1. /\ SZREG \in {4, 8} /\ u \in {SZREG, 2 * SZREG, 16 * SZREG}
          /\ a0 \in Int /\ last \in Int /\ last < a0 /\ (a0 - last) % u = 0
      BY <1>1, <1>2 DEF ArgsOK, NumbersOK
    <2> HIDE DEF u
    <2>2. last <= a0 - u /\ ((a0 - u) - last) % u = 0
      BY <2>1, Round
    <2> QED
      BY <2>2
  <1>4. /\ b \in Int /\ a0 \in Int /\ End \in Int /\ b <= a0 /\ dst <= b /\ End <= End
        /\ pc # "done" /\ pc' # "done" /\ a1' = src + (b - dst)
        /\ b + 0 * G = b /\ b + 4 * G = a0 /\ 0 + 1 = 1 /\ 1 + 1 = 2 /\ 2 + 1 = 3 /\ 3 + 1 = 4
    BY <1>1, <1>2, <1>3 DEF NumbersOK, ArgsOK, End, Source
  <1>5. ASSUME NEW m, NEW k \in 0 .. 3, Copied(call, m, b + (k + 1) * G, End)
        PROVE  Copied(call, Group(m, k), b + k * G, End)
    <2>1. /\ G \in Nat /\ b + k * G \in Int /\ dst <= b + k * G
          /\ b + k * G + G = b + (k + 1) * G /\ b + (k + 1) * G <= a0
          /\ a0' + k * G = b + k * G /\ a1' + k * G = src + ((b + k * G) - dst)
      <3>1. k \in {0, 1, 2, 3}
        OBVIOUS
      <3> QED
        BY <1>1, <1>2, <1>4, <3>1 DEF ArgsOK, NumbersOK, Source
    <2>2. b + k * G + G <= End
      BY <1>1, <1>2, <2>1 DEF ArgsOK, NumbersOK, End
    <2> HIDE DEF G, b
    <2> QED
      BY <1>1, <1>2, <1>5, <2>1, <2>2, CopiesDown
  <1>6. Copied(call, mem', b, End)
    <2> HIDE DEF G, Group, b
    <2>1. Copied(call, m1, b + 3 * G, End)
      BY <1>2, <1>4, <1>5
    <2>2. Copied(call, m2, b + 2 * G, End)
      BY <1>4, <1>5, <2>1
    <2>3. Copied(call, m3, b + 1 * G, End)
      BY <1>4, <1>5, <2>2
    <2>4. Copied(call, m4, b + 0 * G, End)
      BY <1>4, <1>5, <2>3
    <2> QED
      BY <1>1, <1>4, <2>4
  <1> HIDE DEF m4
  <1>7. RW!Write
    BY <1>1, <1>2, <1>4, <1>6, Writes
  <1>8. LoadsNearSource' /\ lo' \in Int /\ hi' \in Int
    <2>1. a1' \in Int /\ a1 \in Int /\ src - SZREG < a1' /\ a1 <= src + sz + 2 * SZREG
      BY <1>1, <1>2, <1>4 DEF NumbersOK, ArgsOK, Source, End
    <2> QED
      BY <1>1, <1>2, <2>1, Near
  <1>9. IInv'
    BY <1>1, <1>2, <1>3, <1>4, <1>6, <1>8, Kept
       DEF IInv, NumbersOK, AtCall, MayGoUp, GoingUp, GoingDown, SavedOK, RoundsUp, RoundsDown,
           BytesLeft, Preloaded, AtEnd, Up, Down, frame, callee, ArgsOK, Source, End
  <1> QED
    BY <1>7, <1>9 DEF Progress

LEMMA RWordsStep == ASSUME IInv, RWords PROVE Progress
  <1>1. /\ pc = "RWords" /\ a2' = a2 % SZREG /\ last' = a0 - a2 + a2'
        /\ pc' = (IF a0 = last' THEN "RBytes" ELSE "RWord") /\ ArgsOK /\ call' = call
        /\ UNCHANGED <<a0, a1, words, frame, callee, loaded, mem>>
    BY Args DEF RWords, frame, IInv
  <1>2. /\ src < dst /\ dst <= a0 /\ a0 <= End /\ Copied(call, mem, a0, End)
        /\ a1 = Source /\ a0 - a2 = dst /\ a2 \in Nat
        /\ saved = "caller" /\ NumbersOK /\ LoadsNearSource /\ call \in Calls
    BY <1>1 DEF IInv, GoingDown, BytesLeft, SavedOK, Down
  <1>3. /\ a2' \in 0 .. SZREG - 1 /\ (a2 - a2') % SZREG = 0 /\ a2' <= a2
    <2>1. /\ SZREG \in {4, 8} /\ SZREG \in {SZREG, 2 * SZREG, 16 * SZREG} /\ a2 \in Int
      BY <1>1, <1>2 DEF ArgsOK
    <2>2. a2 % SZREG \in 0 .. SZREG - 1 /\ (a2 - (a2 % SZREG)) % SZREG = 0
      BY <2>1, Units
    <2>3. a2 % SZREG <= a2
      <3>1. CASE SZREG = 4
        BY <1>2, <3>1
      <3>2. CASE SZREG = 8
        BY <1>2, <3>2
      <3> QED
        BY <2>1, <3>1, <3>2
    <2> QED
      BY <1>1, <2>2, <2>3
  <1>4. a0 - last' = a2 - a2' /\ last' <= a0 /\ last' - a2' = dst /\ last' \in Int /\ a2' \in Nat
    BY <1>1, <1>2, <1>3 DEF ArgsOK, NumbersOK
  <1>5. ASSUME a0 = last' PROVE IInv'
    BY <1>1, <1>2, <1>4, <1>5, Kept
       DEF IInv, NumbersOK, LoadsNearSource, loaded, AtCall, MayGoUp, GoingUp, GoingDown,
           SavedOK, RoundsUp, RoundsDown, BytesLeft, Preloaded, AtEnd, Up, Down, frame, callee,
           ArgsOK, Source, End
  <1>6. ASSUME a0 # last' PROVE IInv'
    <2>1. last' < a0 /\ (a0 - last') % SZREG = 0
      BY <1>2, <1>3, <1>4, <1>6 DEF NumbersOK
    <2> QED
      BY <1>1, <1>2, <1>4, <1>6, <2>1, Kept
       DEF IInv, NumbersOK, LoadsNearSource, loaded, AtCall, MayGoUp, GoingUp, GoingDown,
           SavedOK, RoundsUp, RoundsDown, BytesLeft, Preloaded, AtEnd, Up, Down, frame, callee,
           ArgsOK, Source, End
  <1> QED
    BY <1>1, <1>5, <1>6, Still DEF Progress

LEMMA RWordStep == ASSUME IInv, RWord PROVE Progress
  <1> DEFINE b == a0 - SZREG
  <1>1. /\ pc = "RWord" /\ mem' = CopyBytes(mem, a0', a1', SZREG) /\ Reads(a1', a1)
        /\ a0' = b /\ a1' = a1 - SZREG
        /\ pc' = IF a0' > last THEN "RWord" ELSE "RBytes"
        /\ UNCHANGED <<a2, last, words, frame, callee>> /\ ArgsOK /\ call' = call
    BY Args DEF RWord, frame, IInv
  <1>2. /\ src < dst /\ dst <= a0 /\ a0 <= End /\ Copied(call, mem, a0, End)
        /\ a1 = Source /\ last < a0 /\ (a0 - last) % SZREG = 0 /\ last - a2 = dst /\ a2 \in Nat
        /\ saved = "caller" /\ NumbersOK /\ LoadsNearSource /\ call \in Calls
    BY <1>1 DEF IInv, GoingDown, BytesLeft, SavedOK, RoundsDown, Down
  <1>3. last <= b /\ (b - last) % SZREG = 0
    <2>1. SZREG \in {4, 8} /\ SZREG \in {SZREG, 2 * SZREG, 16 * SZREG}
      BY <1>1 DEF ArgsOK
    <2> QED
      BY <1>2, <2>1, Round DEF NumbersOK
  <1>4. /\ b \in Int /\ a0 \in Int /\ End \in Int /\ b <= a0 /\ dst <= b /\ End <= End
        /\ b + SZREG = a0 /\ SZREG \in Nat
        /\ pc # "done" /\ pc' # "done" /\ a1' = src + (b - dst)
    BY <1>1, <1>2, <1>3 DEF NumbersOK, ArgsOK, End, Source
  <1>5. Copied(call, mem', b, End)
    <2> HIDE DEF b
    <2> QED
      BY <1>1, <1>2, <1>4, CopiesDown
  <1>6. RW!Write
    BY <1>1, <1>2, <1>4, <1>5, Writes
  <1>7. LoadsNearSource' /\ lo' \in Int /\ hi' \in Int
    <2>1. a1' \in Int /\ a1 \in Int /\ src - SZREG < a1' /\ a1 <= src + sz + 2 * SZREG
      BY <1>1, <1>2, <1>4 DEF NumbersOK, ArgsOK, Source, End
    <2> QED
      BY <1>1, <1>2, <2>1, Near
  <1>8. ASSUME a0' > last PROVE IInv'
    BY <1>1, <1>2, <1>3, <1>4, <1>5, <1>7, <1>8, Kept
       DEF IInv, NumbersOK, AtCall, MayGoUp, GoingUp, GoingDown, SavedOK, RoundsUp, RoundsDown,
           BytesLeft, Preloaded, AtEnd, Up, Down, frame, callee, ArgsOK, Source, End
  <1>9. ASSUME ~(a0' > last) PROVE IInv'
    <2>1. a0' = last /\ pc' = "RBytes"
      BY <1>1, <1>2, <1>3, <1>4, <1>9 DEF NumbersOK
    <2> QED
      BY <1>1, <1>2, <1>4, <1>5, <1>7, <2>1, Kept
       DEF IInv, NumbersOK, AtCall, MayGoUp, GoingUp, GoingDown, SavedOK, RoundsUp, RoundsDown,
           BytesLeft, Preloaded, AtEnd, Up, Down, frame, callee, ArgsOK, Source, End
  <1> QED
    BY <1>6, <1>8, <1>9 DEF Progress

LEMMA RBytesStep == ASSUME IInv, RBytes PROVE Progress
  <1>1. /\ pc = "RBytes" /\ pc' = "RBops" /\ s' = saved /\ ArgsOK /\ call' = call
        /\ UNCHANGED <<pointers, words, frame, saved, loaded, mem>>
    BY Args DEF RBytes, frame, IInv
  <1>2. IInv'
    BY <1>1, Kept
       DEF IInv, NumbersOK, LoadsNearSource, loaded, AtCall, MayGoUp, GoingUp, GoingDown,
           SavedOK, RoundsUp, RoundsDown, BytesLeft, Preloaded, AtEnd, Up, Down, frame, callee,
           ArgsOK, Source, End, pointers
  <1> QED
    BY <1>1, <1>2, Still DEF Progress

LEMMA RBopsStep == ASSUME IInv, RBops PROVE Progress
  <1>1. /\ pc = "RBops" /\ ArgsOK /\ call' = call
        /\ UNCHANGED <<a0, a1, a2, words, frame, callee, loaded, mem>>
    BY Args DEF RBops, frame, IInv
  <1>2. ASSUME a2 = 0, pc' = "RRet", last' = last PROVE IInv'
    BY <1>1, <1>2, Kept
       DEF IInv, NumbersOK, LoadsNearSource, loaded, AtCall, MayGoUp, GoingUp, GoingDown,
           SavedOK, RoundsUp, RoundsDown, BytesLeft, Preloaded, AtEnd, Up, Down, frame, callee,
           ArgsOK, Source, End
  <1>3. ASSUME a2 # 0, pc' = "RByte", last' = a0 - a2 PROVE IInv'
    BY <1>1, <1>3, Kept
       DEF IInv, NumbersOK, LoadsNearSource, loaded, AtCall, MayGoUp, GoingUp, GoingDown,
           SavedOK, RoundsUp, RoundsDown, BytesLeft, Preloaded, AtEnd, Up, Down, frame, callee,
           ArgsOK, Source, End
  <1>4. IInv' /\ pc' # "done"
    BY <1>2, <1>3 DEF RBops
  <1> QED
    BY <1>1, <1>4, Still DEF Progress

LEMMA RRetStep == ASSUME IInv, RRet PROVE Progress
  <1>1. /\ pc = "RRet" /\ pc' = "done" /\ ArgsOK /\ call' = call
        /\ UNCHANGED <<pointers, words, frame, callee, loaded, mem>>
    BY Args DEF RRet, frame, IInv
  <1>2. a0 = dst /\ Copied(call, mem, dst, End)
    BY <1>1 DEF IInv, GoingDown, BytesLeft, Down
  <1>3. IInv'
    BY <1>1, <1>2, Kept
       DEF IInv, NumbersOK, LoadsNearSource, loaded, AtCall, MayGoUp, GoingUp, GoingDown,
           SavedOK, RoundsUp, RoundsDown, BytesLeft, Preloaded, AtEnd, Up, Down, frame, callee,
           ArgsOK, Source, End, pointers
  <1> QED
    BY <1>1, <1>2, <1>3, Returns DEF Progress

LEMMA RUnalignedEntryStep == ASSUME IInv, RUnalignedEntry PROVE Progress
  <1> DEFINE u == 2 * SZREG
             w == RoundDown(a1, SZREG)
  <1>1. /\ pc = "RUnalignedEntry" /\ pc' = "RUnaligned"
        /\ a2' = a2 % u /\ last' = a0 - a2 + a2'
        /\ a5' = Load(mem, w) /\ Reads(w, w + SZREG) /\ a1' = w - u
        /\ UNCHANGED <<a0, a4, frame, callee, mem>> /\ ArgsOK /\ call' = call
    BY Args DEF RUnalignedEntry, frame, IInv
  <1>2. /\ src < dst /\ dst <= a0 /\ a0 <= End /\ Copied(call, mem, a0, End)
        /\ a1 = Source /\ a0 - a2 = dst /\ a2 \in Nat /\ a2 >= u
        /\ mis \in 1 .. SZREG - 1 /\ mis = a1 % SZREG
        /\ saved = "caller" /\ NumbersOK /\ LoadsNearSource /\ call \in Calls
    BY <1>1 DEF IInv, GoingDown, BytesLeft, Preloaded, SavedOK, Down
  <1>3. a2' \in 0 .. u - 1 /\ (a2 - a2') % u = 0 /\ w = a1 - mis
    <2>1. /\ SZREG \in {4, 8} /\ u \in {SZREG, 2 * SZREG, 16 * SZREG}
          /\ SZREG \in {SZREG, 2 * SZREG, 16 * SZREG} /\ a2 \in Int /\ a1 \in Int
      BY <1>1, <1>2 DEF ArgsOK, NumbersOK
    <2> HIDE DEF u
    <2>2. a2 % u \in 0 .. u - 1 /\ (a2 - (a2 % u)) % u = 0
      BY <2>1, Units
    <2>3. w = a1 - (a1 % SZREG)
      BY <2>1, Units
    <2> QED
      BY <1>1, <1>2, <2>2, <2>3
  <1> HIDE DEF w
  <1>4. /\ a0 - last' = a2 - a2' /\ last' < a0 /\ last' - a2' = dst /\ last' \in Int
        /\ w \in Int /\ a1' \in Int /\ a1' + u + mis = Source /\ src + u <= Source /\ a2' \in Nat
    BY <1>1, <1>2, <1>3 DEF ArgsOK, NumbersOK, Source, End
  <1>5. ASSUME NEW i \in Lanes, i < mis PROVE a5'[i] = a1' + u + i
    <2>1. /\ w + i \in Int /\ w + i = a1' + u + i
          /\ src - SZREG <= w + i /\ w + i < src + (a0 - dst)
      BY <1>1, <1>2, <1>3, <1>4, <1>5 DEF ArgsOK, NumbersOK, Source, Lanes
    <2>2. mem[w + i] = w + i
      BY <1>1, <1>2, <2>1, LoadDown DEF NumbersOK
    <2>3. a5'[i] = mem[w + i]
      BY <1>1 DEF Load
    <2> QED
      BY <2>1, <2>2, <2>3
  <1>6. LoadsNearSource' /\ lo' \in Int /\ hi' \in Int
    <2>1. w + SZREG \in Int /\ src - SZREG < w /\ w + SZREG <= src + sz + 2 * SZREG
      BY <1>1, <1>2, <1>3, <1>4 DEF NumbersOK, ArgsOK, Source, End
    <2> QED
      BY <1>1, <1>2, <1>4, <2>1, Near
  <1>7. IInv'
    BY <1>1, <1>2, <1>3, <1>4, <1>5, <1>6, Kept
       DEF IInv, NumbersOK, AtCall, MayGoUp, GoingUp, GoingDown, SavedOK, RoundsUp, RoundsDown,
           BytesLeft, Preloaded, AtEnd, Up, Down, frame, callee, ArgsOK, Source, End
  <1> QED
    BY <1>1, <1>7, Still DEF Progress

LEMMA RUnalignedStep == ASSUME IInv, RUnaligned PROVE Progress
  <1> DEFINE u == 2 * SZREG
             b == a0 - u
             w1 == Combine(a4', a5)
             w2 == Combine(a5', a4')
             m1 == Store(mem, b + SZREG, w1)
             m2 == Store(m1, b, w2)
  <1>1. /\ pc = "RUnaligned" /\ a4' = Load(mem, a1 + SZREG) /\ a5' = Load(mem, a1)
        /\ a0' = b /\ mem' = m2 /\ Reads(a1, a1 + u)
        /\ pc' = (IF a0' > last THEN "RUnaligned" ELSE "RBytes")
        /\ a1' = (IF a0' > last THEN a1 - 2 * SZREG ELSE a1 + mis)
        /\ UNCHANGED <<a2, last, frame, saved>> /\ ArgsOK /\ call' = call
    BY Args DEF RUnaligned, frame, IInv
  <1>2. /\ src < dst /\ dst <= a0 /\ a0 <= End /\ Copied(call, mem, a0, End)
        /\ last < a0 /\ (a0 - last) % u = 0 /\ last - a2 = dst /\ a2 \in Nat
        /\ a1 + 2 * SZREG + mis = Source /\ mis \in 1 .. SZREG - 1
        /\ \A i \in Lanes : i < mis => a5[i] = a1 + 2 * SZREG + i
        /\ saved = "caller" /\ NumbersOK /\ LoadsNearSource /\ call \in Calls
    BY <1>1 DEF IInv, GoingDown, BytesLeft, Preloaded, SavedOK, RoundsDown, Down
  <1>3. last <= b /\ (b - last) % u = 0
    <2>1. /\ SZREG \in {4, 8} /\ u \in {SZREG, 2 * SZREG, 16 * SZREG}
          /\ a0 \in Int /\ last \in Int /\ last < a0 /\ (a0 - last) % u = 0
      BY <1>1, <1>2 DEF ArgsOK, NumbersOK
    <2> HIDE DEF u
    <2>2. last <= a0 - u /\ ((a0 - u) - last) % u = 0
      BY <2>1, Round
    <2> QED
      BY <2>2
  <1>4. /\ b \in Int /\ b + SZREG \in Int /\ a0 \in Int /\ End \in Int /\ b <= a0 /\ dst <= b
        /\ End <= End /\ (b + SZREG) + SZREG = a0 /\ b + SZREG <= End
        /\ pc # "done" /\ pc' # "done"
        /\ Source \in Int /\ src + (b - dst) = Source - u /\ src <= Source - u
    BY <1>1, <1>2, <1>3 DEF NumbersOK, ArgsOK, Source, End
  <1>5. ASSUME NEW f \in Int, src - SZREG <= f, f < Source PROVE mem[f] = f
    BY <1>1, <1>2, <1>5, LoadDown DEF NumbersOK, Source
  <1>6. \A i \in Lanes : a4'[i] = mem[a1 + SZREG + i] /\ a5'[i] = mem[a1 + i]
    BY <1>1 DEF Load
  <1>7. \A i \in Lanes : w1[i] = src + ((b + SZREG) - dst) + i
    <2> SUFFICES ASSUME NEW i \in Lanes PROVE w1[i] = src + ((b + SZREG) - dst) + i
      OBVIOUS
    <2>1. /\ i + mis < SZREG => i + mis \in Lanes /\ w1[i] = a4'[i + mis]
          /\ i + mis >= SZREG => i + mis - SZREG \in Lanes /\ w1[i] = a5[i + mis - SZREG]
      BY <1>1, <1>2, CombineLanes
    <2>2. i \in Int /\ 0 <= i /\ i < SZREG
      BY <1>1 DEF Lanes, ArgsOK
    <2>3. ASSUME i + mis < SZREG PROVE w1[i] = src + ((b + SZREG) - dst) + i
      <3> DEFINE f == a1 + SZREG + (i + mis)
      <3>1. w1[i] = mem[f]
        BY <1>6, <2>1, <2>3
      <3>2. /\ f \in Int /\ src - SZREG <= f /\ f < Source /\ f = src + ((b + SZREG) - dst) + i
        BY <1>1, <1>2, <1>4, <2>2, <2>3 DEF ArgsOK, NumbersOK, Source
      <3> QED
        BY <1>5, <3>1, <3>2
    <2>4. ASSUME ~(i + mis < SZREG) PROVE w1[i] = src + ((b + SZREG) - dst) + i
      <3>1. i + mis - SZREG \in Lanes /\ w1[i] = a5[i + mis - SZREG] /\ i + mis - SZREG < mis
        BY <1>1, <1>2, <2>1, <2>2, <2>4 DEF ArgsOK, NumbersOK
      <3>2. w1[i] = a1 + 2 * SZREG + (i + mis - SZREG)
        BY <1>2, <3>1
      <3> QED
        BY <1>1, <1>2, <1>4, <2>2, <3>2 DEF ArgsOK, NumbersOK, Source
    <2> QED
      BY <2>3, <2>4
  <1>8. \A i \in Lanes : w2[i] = src + (b - dst) + i
    <2> SUFFICES ASSUME NEW i \in Lanes PROVE w2[i] = src + (b - dst) + i
      OBVIOUS
    <2>1. /\ i + mis < SZREG => i + mis \in Lanes /\ w2[i] = a5'[i + mis]
          /\ i + mis >= SZREG => i + mis - SZREG \in Lanes /\ w2[i] = a4'[i + mis - SZREG]
      BY <1>1, <1>2, CombineLanes
    <2> DEFINE f == Source - u + i
    <2>2. i \in Int /\ 0 <= i /\ i < SZREG
      BY <1>1 DEF Lanes, ArgsOK
    <2>3. /\ f \in Int /\ src - SZREG <= f /\ f < Source /\ f = src + (b - dst) + i
          /\ f = a1 + (i + mis) /\ f = a1 + SZREG + (i + mis - SZREG)
      BY <1>1, <1>2, <1>4, <2>2 DEF ArgsOK, NumbersOK
    <2>4. i + mis < SZREG \/ i + mis >= SZREG
      BY <1>1, <1>2, <2>2 DEF ArgsOK
    <2>5. w2[i] = mem[f]
      <3> HIDE DEF f
      <3> QED
        BY <1>6, <2>1, <2>3, <2>4
    <2> QED
      BY <1>5, <2>3, <2>5
  <1>9. Copied(call, mem', b, End)
    <2> HIDE DEF w1, w2, b
    <2>1. Copied(call, m1, b + SZREG, End)
      BY <1>1, <1>2, <1>4, <1>7, StoresDown
    <2> HIDE DEF m1
    <2>2. Copied(call, m2, b, End)
      BY <1>1, <1>4, <1>8, <2>1, StoresDown
    <2> QED
      BY <1>1, <2>2
  <1> HIDE DEF m2
  <1>10. RW!Write
    BY <1>1, <1>2, <1>4, <1>9, Writes
  <1>11. LoadsNearSource' /\ lo' \in Int /\ hi' \in Int
    <2>1. /\ a1 \in Int /\ a1 + u \in Int /\ src - SZREG < a1 /\ a1 + u <= src + sz + 2 * SZREG
      BY <1>1, <1>2, <1>4 DEF NumbersOK, ArgsOK, Source, End
    <2> QED
      BY <1>1, <1>2, <2>1, Near
  <1>12. ASSUME a0' > last PROVE IInv'
    <2>1. ASSUME NEW i \in Lanes, i < mis PROVE a5'[i] = a1' + u + i
      <3>1. i \in Int /\ 0 <= i /\ i < SZREG
        BY <1>1 DEF Lanes, ArgsOK
      <3>2. /\ a1 + i \in Int /\ src - SZREG <= a1 + i /\ a1 + i < Source
            /\ a1 + i = a1' + u + i
        BY <1>1, <1>2, <1>4, <1>12, <3>1 DEF ArgsOK, NumbersOK
      <3> QED
        BY <1>5, <1>6, <3>2
    <2>2. a1' + u + mis = src + (b - dst) /\ a1' \in Int
      BY <1>1, <1>2, <1>4, <1>12 DEF ArgsOK, NumbersOK
    <2> QED
      BY <1>1, <1>2, <1>3, <1>4, <1>9, <1>11, <1>12, <2>1, <2>2, Kept
       DEF IInv, NumbersOK, AtCall, MayGoUp, GoingUp, GoingDown, SavedOK, RoundsUp, RoundsDown,
           BytesLeft, Preloaded, AtEnd, Up, Down, frame, callee, ArgsOK, Source, End
  <1>13. ASSUME ~(a0' > last) PROVE IInv'
    <2>1. a0' = last /\ pc' = "RBytes" /\ a1' = a1 + mis
      BY <1>1, <1>2, <1>3, <1>4, <1>13 DEF NumbersOK
    <2>2. a1' = src + (b - dst) /\ a1' \in Int
      BY <1>1, <1>2, <1>4, <2>1 DEF ArgsOK, NumbersOK
    <2> QED
      BY <1>1, <1>2, <1>4, <1>9, <1>11, <2>1, <2>2, Kept
       DEF IInv, NumbersOK, AtCall, MayGoUp, GoingUp, GoingDown, SavedOK, RoundsUp, RoundsDown,
           BytesLeft, Preloaded, AtEnd, Up, Down, frame, callee, ArgsOK, Source, End
  <1> QED
    BY <1>10, <1>12, <1>13 DEF Progress
-----------------------------------------------------------------------------
LEMMA Inductive == IInv /\ [Next]_vars => IInv' /\ [RW!Next]_(RW!rwVars)
  <1> SUFFICES ASSUME IInv, [Next]_vars PROVE IInv' /\ [RW!Next]_(RW!rwVars)
    OBVIOUS
  <1>1. CASE Step
    <2>1. CASE Forward
      BY <2>1, FEntryStep, FHeadStep, FAlignStep, FBlockStep, FWordsStep, FWordStep, FBytesStep,
         FBopsStep, FByteStep, FRetStep, FUnalignedEntryStep, FUnalignedStep
         DEF Forward, Progress, RW!Next
    <2>2. CASE Backward
      BY <2>2, REntryStep, RHeadStep, RAlignStep, RBlockStep, RWordsStep, RWordStep, RBytesStep,
         RBopsStep, RByteStep, RRetStep, RUnalignedEntryStep, RUnalignedStep
         DEF Backward, Progress, RW!Next
    <2> QED
      BY <1>1, <2>1, <2>2, MemmoveEntryStep DEF Step, Progress, RW!Next
  <1>2. CASE UNCHANGED vars
    <2>1. IInv'
      BY <1>2, Kept
         DEF IInv, vars, pointers, words, frame, callee, loaded, NumbersOK, LoadsNearSource,
             AtCall, MayGoUp, GoingUp, GoingDown, SavedOK, RoundsUp, RoundsDown, BytesLeft,
             Preloaded, AtEnd, ArgsOK, Source, End
    <2>2. UNCHANGED RW!rwVars
      BY <1>2, Kept DEF vars, frame, RW!rwVars
    <2> QED
      BY <2>1, <2>2
  <1> QED
    BY <1>1, <1>2 DEF Next, Returned

(* The copied part, the registers and what was loaded ahead belong together
   at every block of both copies, whatever the call. *)
THEOREM InductiveInvariant == Spec => []IInv
  BY Initially, Inductive, PTL DEF Spec

(* After the return dst holds the bytes src held at the call, overlapping or
   not, nothing else changed, a0 is dst, and s0 and s1 are the caller's. *)
THEOREM CopyIsExact == Spec => []CopiesExactly
  <1>1. IInv => CopiesExactly
    <2> SUFFICES ASSUME IInv, pc = "done" PROVE CopiesExactly
      BY DEF CopiesExactly
    <2>1. ArgsOK /\ Copied(call, mem, dst, End) /\ a0 = dst /\ s = "caller"
      BY Args DEF IInv, AtEnd, SavedOK
    <2>2. mem = [a \in Addr |-> IF dst <= a /\ a < End THEN src + (a - dst) ELSE a]
      BY <2>1, CopiedIs
    <2>3. \A a \in Addr : dst <= a /\ a < End <=> a \in Target
      BY <2>1, AddrIs DEF Target, End, ArgsOK
    <2> QED
      BY <2>1, <2>2, <2>3 DEF CopiesExactly
  <1> QED
    BY <1>1, InductiveInvariant, PTL

(* However long the copy, the words loaded ahead stay within SZREG - 1 bytes
   below the source and two words past its end. *)
THEOREM LoadsStayNear == Spec => []LoadsNearSource
  <1>1. IInv => LoadsNearSource
    BY DEF IInv
  <1> QED
    BY <1>1, InductiveInvariant, PTL

(* Every block of the copy writes bytes of dst with their final values only:
   _memcpy and _memmove implement the region write their callers ask for. *)
THEOREM Refinement == Spec => ImplementsRegionWrite
  BY Initially, Inductive, PTL DEF Spec, ImplementsRegionWrite, RW!Spec
=============================================================================
