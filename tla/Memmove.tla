------------------------------- MODULE Memmove -------------------------------
(***************************************************************************)
(* w2c2/embedded/memops.S: _memcpy, _memmove and _memcpy_r, the copy that  *)
(* runs from the end, one action per loop iteration or straight-line       *)
(* block.  The blocks of the forward copy are named F..., those of the     *)
(* backward copy R....                                                     *)
(*                                                                         *)
(* A byte is a tag: the address it was found at initially, so that a copy  *)
(* is right when cell dst + i holds tag src + i, whatever the bytes are;   *)
(* 0 is a zero byte (lanes shifted in) and Both two bytes or-ed together.  *)
(* A word register is a function from its SZREG lanes to tags.             *)
(***************************************************************************)
EXTENDS Integers

CONSTANT Calls   \* bound: the calls to try, [szreg, fn, dst, src, sz]

VARIABLES pc,        \* the next block to run
          call,      \* the build and the arguments
          a0, a1, a2,
          last,      \* a3 (a7 in the unrolled R loop): where the loop stops
          a4, a5,    \* words loaded ahead by the unaligned loops
          mis,       \* misalignment of the source (t3, in the R copy t2)
          t2,        \* the dst to return
          s,         \* s0 and s1: "caller", the caller's values, or "data"
          saved,     \* t0 and t1: copies of s0 and s1, or "none"
          lo, hi,    \* the range [lo, hi) of the bytes loaded so far
          mem

vars == <<pc, call, a0, a1, a2, last, a4, a5, mis, t2, s, saved, lo, hi, mem>>
pointers == <<a0, a1, a2, last>>
words == <<a4, a5>>
frame == <<call, mis, t2>>
callee == <<s, saved>>
loaded == <<lo, hi>>

SZREG == call.szreg   \* bytes of a register: 4 on rv32, 8 on rv64
Lanes == 0 .. SZREG - 1
dst == call.dst
src == call.src
sz == call.sz

(* The memory: both areas and four words on either side *)
Addr == (IF dst < src THEN dst ELSE src) - 4 * SZREG
        .. (IF dst < src THEN src ELSE dst) + sz + 4 * SZREG
Both == -1
Target == dst .. dst + sz - 1

ASSUME MemmoveAssumption ==
  \A c \in Calls :
    /\ c.szreg \in {4, 8} /\ c.fn \in {"memcpy", "memmove"} /\ c.sz \in Nat
    /\ c.dst \in Nat /\ c.src \in Nat
    /\ c.dst > 4 * c.szreg /\ c.src > 4 * c.szreg
    /\ c.fn = "memcpy" => c.dst + c.sz <= c.src \/ c.src + c.sz <= c.dst
-----------------------------------------------------------------------------
Load(m, a) == [i \in Lanes |-> m[a + i]]

Store(m, a, w) ==
  [x \in Addr |-> IF x \in a .. a + SZREG - 1 THEN w[x - a] ELSE m[x]]

(* a group of loads, then the same number of stores *)
CopyBytes(m, d, f, n) ==
  [x \in Addr |-> IF x \in d .. d + n - 1 THEN m[f + (x - d)] ELSE m[x]]

(* Or of SHL_H and SHL_L (srl and sll on little-endian) by mis bytes and
   the opposite amount: the word that starts mis bytes into low *)
ShrLanes(w, k) == [i \in Lanes |-> IF i + k < SZREG THEN w[i + k] ELSE 0]
ShlLanes(w, k) == [i \in Lanes |-> IF i >= k THEN w[i - k] ELSE 0]
Or(v, w) == [i \in Lanes |-> IF v[i] = 0 THEN w[i]
                             ELSE IF w[i] = 0 THEN v[i] ELSE Both]
SwappedCombine(low, high) == Or(ShrLanes(high, mis), ShlLanes(low, SZREG - mis))
Combine(low, high) == Or(ShrLanes(low, mis), ShlLanes(high, SZREG - mis))

RoundDown(x, n) == (x \div n) * n

Reads(from, to) == /\ lo' = IF from < lo THEN from ELSE lo
                   /\ hi' = IF to > hi THEN to ELSE hi
-----------------------------------------------------------------------------
Init == /\ call \in Calls
        /\ pc = call.fn
        /\ a0 = dst /\ a1 = src /\ a2 = sz /\ last = 0
        /\ a4 = [i \in Lanes |-> 0] /\ a5 = [i \in Lanes |-> 0]
        /\ mis = 0 /\ t2 = 0
        /\ s = "caller" /\ saved = "none"
        /\ lo = src /\ hi = src
        /\ mem = [a \in Addr |-> a]

BackwardsMemmove ==
  /\ pc = "memmove"
  /\ pc' = IF a0 < a1 THEN "REntry" ELSE "memcpy"
  /\ UNCHANGED <<pointers, words, frame, callee, loaded, mem>>

(* _memmove: from the end when src is below dst, else tail-call _memcpy *)
MemmoveEntry ==
  /\ pc = "memmove"
  /\ pc' = IF a1 < a0 THEN "REntry" ELSE "memcpy"
  /\ UNCHANGED <<pointers, words, frame, callee, loaded, mem>>

(* _memcpy up to its head loop *)
FEntry ==
  /\ pc = "memcpy"
  /\ t2' = a0
  /\ LET m == a0 % SZREG
     IN \/ a2 < 3 * SZREG /\ pc' = "FBops" /\ UNCHANGED <<a2, last>>
        \/ a2 >= 3 * SZREG /\ m = 0 /\ pc' = "FAlign" /\ UNCHANGED <<a2, last>>
        \/ /\ a2 >= 3 * SZREG /\ m # 0 /\ pc' = "FHead"
           /\ a2' = a2 + (m - SZREG)
           /\ last' = a0 - (m - SZREG)
  /\ UNCHANGED <<a0, a1, words, call, mis, callee, loaded, mem>>

(* lbu, sb, increments, bltu a0, end, 0b *)
ByteUp(end, loop, exit) ==
  /\ mem' = [mem EXCEPT ![a0] = mem[a1]]
  /\ Reads(a1, a1 + 1)
  /\ a0' = a0 + 1 /\ a1' = a1 + 1
  /\ pc' = IF a0 + 1 < end THEN loop ELSE exit
  /\ UNCHANGED <<a2, last, words, frame, callee>>

FHead == pc = "FHead" /\ ByteUp(last, "FHead", "FAlign")

(* dst is aligned: save s0 and s1, choose a loop by the alignment of src *)
FAlign ==
  /\ pc = "FAlign"
  /\ mis' = a1 % SZREG
  /\ saved' = s
  /\ \/ mis' # 0 /\ pc' = "FUnalignedEntry" /\ last' = a0 /\ UNCHANGED a2
     \/ mis' = 0 /\ a2 < 16 * SZREG /\ pc' = "FWords" /\ last' = a0 /\ UNCHANGED a2
     \/ /\ mis' = 0 /\ a2 >= 16 * SZREG /\ pc' = "FBlock"
        /\ a2' = a2 % (16 * SZREG)
        /\ last' = a0 + a2 - a2'
  /\ UNCHANGED <<a0, a1, words, call, t2, s, loaded, mem>>

(* 16 words, in four groups of four loads and four stores *)
FBlock ==
  /\ pc = "FBlock"
  /\ LET G == 4 * SZREG
         Group(m, k) == CopyBytes(m, a0 + k * G, a1 + k * G, G)
     IN mem' = Group(Group(Group(Group(mem, 0), 1), 2), 3)
  /\ Reads(a1, a1 + 16 * SZREG)
  /\ s' = "data"
  /\ a0' = a0 + 16 * SZREG /\ a1' = a1 + 16 * SZREG
  /\ pc' = IF a0' < last THEN "FBlock" ELSE "FWords"
  /\ UNCHANGED <<a2, last, words, frame, saved>>

(* 2: the end of the word loop *)
FWords ==
  /\ pc = "FWords"
  /\ last' = RoundDown(last + a2, SZREG)
  /\ \/ last' = a0 /\ pc' = "FBytes" /\ UNCHANGED a2
     \/ last' # a0 /\ pc' = "FWord" /\ a2' = a2 % SZREG
  /\ UNCHANGED <<a0, a1, words, frame, callee, loaded, mem>>

FWord ==
  /\ pc = "FWord"
  /\ mem' = CopyBytes(mem, a0, a1, SZREG)
  /\ Reads(a1, a1 + SZREG)
  /\ a0' = a0 + SZREG /\ a1' = a1 + SZREG
  /\ pc' = IF a0' < last THEN "FWord" ELSE "FBytes"
  /\ UNCHANGED <<a2, last, words, frame, callee>>

(* .Lmemcpy_bytes: restore s0 and s1 *)
FBytes == /\ pc = "FBytes" /\ pc' = "FBops"
          /\ s' = saved
          /\ UNCHANGED <<pointers, words, frame, saved, loaded, mem>>

(* .Lmemcpy_bops *)
FBops == /\ pc = "FBops"
         /\ \/ a2 = 0 /\ pc' = "FRet" /\ UNCHANGED a2
            \/ a2 # 0 /\ pc' = "FByte" /\ a2' = a2 + a0
         /\ UNCHANGED <<a0, a1, last, words, frame, callee, loaded, mem>>

FByte == pc = "FByte" /\ ByteUp(a2, "FByte", "FRet")

FRet == /\ pc = "FRet" /\ pc' = "done"
        /\ a0' = t2
        /\ UNCHANGED <<a1, a2, last, words, frame, callee, loaded, mem>>

FUnalignedEntryBy(unit) ==
  /\ pc = "FUnalignedEntry" /\ pc' = "FUnaligned"
  /\ last' = a0 + RoundDown(a2, unit)
  /\ a2' = a2 % unit
  /\ a1' = RoundDown(a1, SZREG)
  /\ a5' = Load(mem, a1') /\ a4' = Load(mem, a1' + SZREG)
  /\ Reads(a1', a1' + 2 * SZREG)
  /\ UNCHANGED <<a0, frame, callee, mem>>

ByWordFUnalignedEntry == FUnalignedEntryBy(SZREG)  \* mutant

(* .Lmemcpy_unaligned: an even number of words, preload two *)
FUnalignedEntry == FUnalignedEntryBy(2 * SZREG)

(* Two words of dst from three of src; the third is loaded before the first
   store and the next iteration's second after both *)
FUnaligned ==
  /\ pc = "FUnaligned"
  /\ a5' = Load(mem, a1 + 2 * SZREG)
  /\ mem' = Store(Store(mem, a0, Combine(a5, a4)), a0 + SZREG, Combine(a4, a5'))
  /\ s' = "data"
  /\ a4' = Load(mem', a1 + 3 * SZREG)
  /\ Reads(a1 + 2 * SZREG, a1 + 4 * SZREG)
  /\ a0' = a0 + 2 * SZREG
  /\ IF a0' < last THEN pc' = "FUnaligned" /\ a1' = a1 + 2 * SZREG
                   ELSE pc' = "FBytes" /\ a1' = a1 + 2 * SZREG + mis
  /\ UNCHANGED <<a2, last, frame, saved>>
-----------------------------------------------------------------------------
(* _memcpy_r: start behind the last byte *)
REntry ==
  /\ pc = "REntry"
  /\ a0' = a0 + a2 /\ a1' = a1 + a2
  /\ LET m == a0' % SZREG
     IN \/ a2 < 3 * SZREG /\ pc' = "RBops" /\ UNCHANGED <<a2, last>>
        \/ a2 >= 3 * SZREG /\ m = 0 /\ pc' = "RAlign" /\ UNCHANGED <<a2, last>>
        \/ /\ a2 >= 3 * SZREG /\ m # 0 /\ pc' = "RHead"
           /\ a2' = a2 - m
           /\ last' = a0' - m       \* xor with its own low bits
  /\ UNCHANGED <<words, frame, callee, loaded, mem>>

ByteDown(loop, exit) ==
  /\ mem' = [mem EXCEPT ![a0 - 1] = mem[a1 - 1]]
  /\ Reads(a1 - 1, a1)
  /\ a0' = a0 - 1 /\ a1' = a1 - 1
  /\ pc' = IF a0 - 1 > last THEN loop ELSE exit
  /\ UNCHANGED <<a2, last, words, frame, callee>>

RHead == pc = "RHead" /\ ByteDown("RHead", "RAlign")

RAlign ==
  /\ pc = "RAlign"
  /\ mis' = a1 % SZREG
  /\ saved' = s
  /\ \/ mis' # 0 /\ pc' = "RUnalignedEntry" /\ UNCHANGED <<a2, last>>
     \/ mis' = 0 /\ a2 < 16 * SZREG /\ pc' = "RWords" /\ UNCHANGED <<a2, last>>
     \/ /\ mis' = 0 /\ a2 >= 16 * SZREG /\ pc' = "RBlock"
        /\ a2' = a2 % (16 * SZREG)
        /\ last' = a0 - a2 + a2'
  /\ UNCHANGED <<a0, a1, words, call, t2, s, loaded, mem>>

RBlock ==
  /\ pc = "RBlock"
  /\ a0' = a0 - 16 * SZREG /\ a1' = a1 - 16 * SZREG
  /\ LET G == 4 * SZREG
         Group(m, k) == CopyBytes(m, a0' + k * G, a1' + k * G, G)
     IN mem' = Group(Group(Group(Group(mem, 3), 2), 1), 0)
  /\ Reads(a1', a1)
  /\ s' = "data"
  /\ pc' = IF a0' > last THEN "RBlock" ELSE "RWords"
  /\ UNCHANGED <<a2, last, words, frame, saved>>

RWords ==
  /\ pc = "RWords"
  /\ a2' = a2 % SZREG
  /\ last' = a0 - a2 + a2'
  /\ pc' = IF a0 = last' THEN "RBytes" ELSE "RWord"
  /\ UNCHANGED <<a0, a1, words, frame, callee, loaded, mem>>

RWord ==
  /\ pc = "RWord"
  /\ a0' = a0 - SZREG /\ a1' = a1 - SZREG
  /\ mem' = CopyBytes(mem, a0', a1', SZREG)
  /\ Reads(a1', a1)
  /\ pc' = IF a0' > last THEN "RWord" ELSE "RBytes"
  /\ UNCHANGED <<a2, last, words, frame, callee>>

(* .Lmemmove_bytes: restore s0 and s1 *)
RBytes == /\ pc = "RBytes" /\ pc' = "RBops"
          /\ s' = saved
          /\ UNCHANGED <<pointers, words, frame, saved, loaded, mem>>

(* .Lmemmove_bops *)
RBops == /\ pc = "RBops"
         /\ \/ a2 = 0 /\ pc' = "RRet" /\ UNCHANGED last
            \/ a2 # 0 /\ pc' = "RByte" /\ last' = a0 - a2
         /\ UNCHANGED <<a0, a1, a2, words, frame, callee, loaded, mem>>

StuckRByte == /\ pc = "RByte"                     \* mutant: no decrement
              /\ mem' = [mem EXCEPT ![a0 - 1] = mem[a1 - 1]]
              /\ UNCHANGED <<pc, pointers, words, frame, callee, loaded>>

RByte == pc = "RByte" /\ ByteDown("RByte", "RRet")

(* ret: a0 has come down to dst by itself *)
RRet == /\ pc = "RRet" /\ pc' = "done"
        /\ UNCHANGED <<pointers, words, frame, callee, loaded, mem>>

(* .Lmemmove_unaligned *)
RUnalignedEntry ==
  /\ pc = "RUnalignedEntry" /\ pc' = "RUnaligned"
  /\ a2' = a2 % (2 * SZREG)
  /\ last' = a0 - a2 + a2'
  /\ LET w == RoundDown(a1, SZREG)
     IN /\ a5' = Load(mem, w) /\ Reads(w, w + SZREG)
        /\ a1' = w - 2 * SZREG
  /\ UNCHANGED <<a0, a4, frame, callee, mem>>

RUnaligned ==
  /\ pc = "RUnaligned"
  /\ a4' = Load(mem, a1 + SZREG) /\ a5' = Load(mem, a1)
  /\ a0' = a0 - 2 * SZREG
  /\ mem' = Store(Store(mem, a0' + SZREG, Combine(a4', a5)), a0', Combine(a5', a4'))
  /\ Reads(a1, a1 + 2 * SZREG)
  /\ s' = "data"
  /\ IF a0' > last THEN pc' = "RUnaligned" /\ a1' = a1 - 2 * SZREG
                   ELSE pc' = "RBytes" /\ a1' = a1 + mis
  /\ UNCHANGED <<a2, last, frame, saved>>
-----------------------------------------------------------------------------
Returned == pc = "done" /\ UNCHANGED vars

Forward == \/ FEntry \/ FHead \/ FAlign \/ FBlock \/ FWords \/ FWord \/ FBytes
           \/ FBops \/ FByte \/ FRet \/ FUnalignedEntry \/ FUnaligned
Backward == \/ REntry \/ RHead \/ RAlign \/ RBlock \/ RWords \/ RWord \/ RBytes
            \/ RBops \/ RByte \/ RRet \/ RUnalignedEntry \/ RUnaligned
Step == MemmoveEntry \/ Forward \/ Backward
Next == Step \/ Returned

Spec == Init /\ [][Next]_vars /\ WF_vars(Step)
-----------------------------------------------------------------------------
(* The bytes of src as they were at the call end up at dst even when the
   areas overlap ("The memory areas may overlap"), nothing else changes, the
   routine returns dst, and s0 and s1 hold the caller's values again. *)
CopiesExactly ==
  pc = "done" =>
    /\ mem = [a \in Addr |-> IF a \in Target THEN src + (a - dst) ELSE a]
    /\ a0 = dst
    /\ s = "caller"

(* The unaligned loops load whole words and run ahead, but never further
   than SZREG - 1 bytes below the source and 2 * SZREG bytes past its end. *)
LoadsNearSource == src - SZREG < lo /\ hi <= src + sz + 2 * SZREG

RW == INSTANCE RegionWrite WITH target <- Target,
                                goal <- [a \in Target |-> src + (a - dst)],
                                done <- pc = "done"

(* Every byte of dst goes from its old value straight to its final one; no
   block of an overlapping copy reads a byte that was already overwritten. *)
ImplementsRegionWrite == RW!Spec

(* Every copy loop comes to its end, also the count-down loops, whose
   unsigned comparisons would run on if the pointer stepped past the end. *)
Terminates == <>(pc = "done")
=============================================================================
