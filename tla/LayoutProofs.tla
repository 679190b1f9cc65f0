---------------------------- MODULE LayoutProofs ----------------------------
(***************************************************************************)
(* Proofs about the two pieces of code that live by a linker script.       *)
(*                                                                         *)
(* Boot.tla, for every RAM size, both strides and every layout: the loop   *)
(* stays between _bss_start and what follows .bss, main finds .bss zeroed  *)
(* and nothing else changed, and the whole is one region write of zeroes.  *)
(*                                                                         *)
(* Sbrk.tla, for every size of the heap and the stack area.  DataIntact    *)
(* needs one more conjunct to be inductive: while modest, the break and    *)
(* the stack pointer are on their sides of _heap_end.                      *)
(***************************************************************************)
EXTENDS Boot, Sbrk, TLAPS

LayoutOK == /\ _bss_start \in Nat /\ _bss_start % Step = 0
            /\ _bss_end \in Nat /\ _bss_start <= _bss_end
            /\ behind \in Nat /\ _bss_end <= behind /\ behind % 8 = 0

(* What has been passed is zero; what has not been reached is untouched *)
Cleared == \A a \in Addr : _bss_start <= a /\ a < t0 => ram[a] = "zero"
Fits == behind <= RamSize
Through == pc = "main" => t0 >= _bss_end
Near == t0 < _bss_end + Step

IInv == LayoutOK /\ Fits /\ TypeOK /\ Near /\ Cleared /\ Through /\ OthersKept

LEMMA StrideFacts ==
  ASSUME Step \in {1, 8}, NEW t \in Nat, NEW e \in Nat, NEW b \in Nat,
         t % Step = 0, t < e, e <= b, b % 8 = 0
  PROVE  t + Step <= b /\ (t + Step) % Step = 0
<1>1. CASE Step = 1
  BY <1>1
<1>2. CASE Step = 8
  BY <1>2
<1> QED BY <1>1, <1>2

LEMMA InitIInv == Init => IInv
<1> SUFFICES ASSUME Init PROVE IInv
  OBVIOUS
<1> USE BootAssumption
<1>1. LayoutOK /\ Fits
  BY DEF Init, LayoutOK, Fits
<1>2. TypeOK
  BY <1>1 DEF Init, TypeOK, LayoutOK, Addr
<1>3. Near /\ Cleared /\ Through
  BY <1>1 DEF Init, Near, Cleared, Through, LayoutOK, Addr
<1>4. OthersKept
  BY <1>1 DEF Init, OthersKept, LayoutOK, Addr
<1> QED BY <1>1, <1>2, <1>3, <1>4 DEF IInv

LEMMA StepIInv == IInv /\ [Next \/ InMain]_vars => IInv'
<1> SUFFICES ASSUME IInv, [Next \/ InMain]_vars PROVE IInv'
  OBVIOUS
<1> USE BootAssumption
<1>1. CASE Clear
  <2>1. /\ t0 \in Nat /\ t0 % Step = 0 /\ _bss_start <= t0 /\ t0 < _bss_end
        /\ _bss_start \in Nat /\ _bss_end \in Nat /\ behind \in Nat
        /\ _bss_end <= behind /\ behind % 8 = 0 /\ behind <= RamSize
        /\ t0' = t0 + Step /\ Step \in Nat
        /\ _bss_start' = _bss_start /\ _bss_end' = _bss_end /\ behind' = behind
        /\ pc' = pc /\ pc = "clear_bss"
    BY <1>1 DEF IInv, LayoutOK, TypeOK, Clear, Fits, layout
  <2>2. t0 + Step <= behind /\ (t0 + Step) % Step = 0
    BY <2>1, StrideFacts
  <2>3. ram' = [x \in Addr |-> IF x \in t0 .. t0 + Step - 1 THEN "zero" ELSE ram[x]]
    BY <1>1 DEF Clear, Store
  <2>4. LayoutOK' /\ Fits'
    BY <2>1 DEF IInv, LayoutOK, Fits
  <2>5. TypeOK'
    BY <2>1, <2>2, <2>3 DEF IInv, TypeOK
  <2>6. Cleared'
    BY <2>1, <2>3 DEF IInv, Cleared, Addr
  <2>7. Near' /\ Through'
    BY <2>1 DEF Near, Through
  <2>8. OthersKept'
    BY <2>1, <2>2, <2>3 DEF IInv, OthersKept, Addr
  <2> QED BY <2>4, <2>5, <2>6, <2>7, <2>8 DEF IInv
<1>2. CASE CallMain
  BY <1>2 DEF CallMain, layout, IInv, LayoutOK, Fits, TypeOK, Near, Cleared,
              Through, OthersKept
<1>3. CASE UNCHANGED vars
  BY <1>3 DEF vars, layout, IInv, LayoutOK, Fits, TypeOK, Near, Cleared,
              Through, OthersKept
<1> QED BY <1>1, <1>2, <1>3 DEF Next, InMain

(* IInv holds in every state of every run of the start-up code. *)
THEOREM InductiveInvariant == Spec => []IInv
BY InitIInv, StepIInv, PTL DEF Spec

(* t0 stays on its stride and never passes what follows .bss. *)
THEOREM TypeCorrect == Spec => []TypeOK
<1>1. IInv => TypeOK
  BY DEF IInv
<1> QED BY <1>1, InductiveInvariant, PTL

(* When main is called, .bss is zero. *)
THEOREM MainFindsZero == Spec => []BssZeroed
<1>1. IInv => BssZeroed
  BY BootAssumption
     DEF IInv, LayoutOK, Fits, TypeOK, Through, Cleared, BssZeroed, Addr
<1> QED BY <1>1, InductiveInvariant, PTL

(* Neither the image nor what follows .bss is ever written. *)
THEOREM ImageKept == Spec => []OthersKept
<1>1. IInv => OthersKept
  BY DEF IInv
<1> QED BY <1>1, InductiveInvariant, PTL

LEMMA EndFacts ==
  ASSUME Step \in {1, 8}, NEW t \in Nat, t % Step = 0, _bss_end \in Nat,
         NEW b \in Nat, b % 8 = 0, _bss_end <= b
  PROVE  /\ End \in Nat /\ _bss_end <= End /\ End <= b
         /\ t < _bss_end => t + Step <= End
         /\ t >= _bss_end => t >= End
<1>1. CASE Step = 1
  BY <1>1 DEF End
<1>2. CASE Step = 8
  BY <1>2 DEF End
<1> QED BY <1>1, <1>2

LEMMA StepRefines == IInv /\ [Next \/ InMain]_vars => [Region!Next]_(Region!rwVars)
<1> SUFFICES ASSUME IInv, [Next \/ InMain]_vars PROVE [Region!Next]_(Region!rwVars)
  OBVIOUS
<1> USE BootAssumption
<1> DEFINE target == _bss_start .. End - 1
<1>1. /\ t0 \in Nat /\ t0 % Step = 0 /\ _bss_start <= t0
      /\ _bss_start \in Nat /\ _bss_end \in Nat /\ behind \in Nat
      /\ _bss_end <= behind /\ behind % 8 = 0 /\ behind <= RamSize
  BY DEF IInv, LayoutOK, TypeOK, Fits
<1>2. /\ End \in Nat /\ End <= behind
      /\ t0 < _bss_end => t0 + Step <= End
      /\ t0 >= _bss_end => t0 >= End
  BY <1>1, EndFacts
<1>3. CASE Clear
  <2>1. /\ pc = "clear_bss" /\ t0 < _bss_end /\ UNCHANGED <<layout, pc>>
        /\ ram' = [x \in Addr |-> IF x \in t0 .. t0 + Step - 1 THEN "zero" ELSE ram[x]]
    BY <1>3 DEF Clear, Store
  <2>2. UNCHANGED <<_bss_start, _bss_end, End>>
    BY <2>1 DEF layout, End
  <2>3. ram' = [a \in DOMAIN ram |-> IF a \in target /\ ram'[a] # ram[a]
                              THEN [x \in target |-> "zero"][a] ELSE ram[a]]
    BY <1>1, <1>2, <2>1 DEF Addr, IInv, TypeOK
  <2>4. Region!Write
    BY <2>1, <2>2, <2>3 DEF Region!Write
  <2> QED BY <2>4 DEF Region!Next
<1>4. CASE CallMain
  <2>1. /\ pc = "clear_bss" /\ pc' = "main" /\ t0 >= _bss_end /\ UNCHANGED <<layout, ram>>
    BY <1>4 DEF CallMain
  <2>2. UNCHANGED <<_bss_start, _bss_end, End>>
    BY <2>1 DEF layout, End
  <2>3. \A a \in target : ram[a] = "zero"
    BY <1>1, <1>2, <2>1 DEF IInv, Cleared, Addr
  <2>4. Region!Return
    BY <2>1, <2>2, <2>3 DEF Region!Return
  <2> QED BY <2>4 DEF Region!Next
<1>5. CASE UNCHANGED vars
  BY <1>5 DEF vars, layout, Region!rwVars, End
<1> QED BY <1>3, <1>4, <1>5 DEF Next, InMain

(* Start-up writes zeroes to .bss, rounded up to its stride, and nothing
   else, and calls main only when all of them are there. *)
THEOREM Refinement == Spec => ImplementsRegionWrite
<1>1. Init => Region!Init
  BY DEF Init, Region!Init
<1> QED BY <1>1, StepRefines, InductiveInvariant, PTL
        DEF Spec, ImplementsRegionWrite, Region!Spec
-----------------------------------------------------------------------------
HeapInv == HeapTypeOK /\ (modest => Modest) /\ DataIntact

(* Writing a range gives its bytes to who and leaves the others. *)
LEMMA WrittenRange ==
  ASSUME owner \in [Ram -> {"free", "heap", "stack"}]
  PROVE  \A a, b \in Int, who \in {"heap", "stack"} :
           /\ Written(a, b, who) \in [Ram -> {"free", "heap", "stack"}]
           /\ \A x \in Ram : Written(a, b, who)[x]
                               = IF a <= x /\ x < b THEN who ELSE owner[x]
  <1>1. Ram \subseteq Int
    BY LayoutAssumption DEF Ram, _stack_top, _heap_end
  <1> QED
    BY <1>1 DEF Written

(* The layout virt.ld computes. *)
LEMMA Layout == /\ HEAP_START \in Nat /\ _heap_end \in Nat /\ _stack_top \in Nat
                /\ HEAP_START <= _heap_end /\ _heap_end <= _stack_top
                /\ Ram = HEAP_START .. _stack_top - 1
  BY LayoutAssumption DEF _heap_end, _stack_top, Ram

(* _sbrk and the caller's use of its answer. *)
LEMMA SbrkStep ==
  ASSUME HeapInv, NEW incr \in Int, heap_end + incr >= HEAP_START, Sbrk(incr)
  PROVE  /\ heap_end' = heap_end + incr
         /\ heap_end' \in HEAP_START .. _stack_top
         /\ owner' \in [Ram -> {"free", "heap", "stack"}]
         /\ \A x \in Ram : owner'[x] = IF heap_end <= x /\ x < heap_end'
                                     THEN "heap" ELSE owner[x]
  <1> USE Layout
  <1>1. heap_end \in HEAP_START .. _stack_top /\ heap_end \in Int
    BY DEF HeapInv, HeapTypeOK
  <1>2. heap_end' = heap_end + incr /\ owner' = Written(heap_end, heap_end + incr, "heap")
    BY DEF Sbrk, Use
  <1>3. heap_end' \in HEAP_START .. _stack_top
    BY <1>1, <1>2 DEF Sbrk
  <1>4. owner \in [Ram -> {"free", "heap", "stack"}]
    BY DEF HeapInv, HeapTypeOK
  <1>5. owner' = Written(heap_end, heap_end', "heap") /\ heap_end' \in Int
    BY <1>2, <1>3
  <1>6. /\ Written(heap_end, heap_end', "heap") \in [Ram -> {"free", "heap", "stack"}]
        /\ \A x \in Ram : Written(heap_end, heap_end', "heap")[x]
                            = IF heap_end <= x /\ x < heap_end' THEN "heap" ELSE owner[x]
    BY <1>1, <1>4, <1>5, WrittenRange
  <1> QED
    BY <1>2, <1>3, <1>5, <1>6

(* Every step of the program keeps the invariant. *)
LEMMA HeapStep == HeapInv /\ [HeapNext]_heapVars => HeapInv'
  <1> SUFFICES ASSUME HeapInv, [HeapNext]_heapVars PROVE HeapInv'
    OBVIOUS
  <1> USE Layout
  <1>1. /\ heap_end \in HEAP_START .. _stack_top /\ sp \in HEAP_START .. _stack_top
        /\ owner \in [Ram -> {"free", "heap", "stack"}] /\ modest \in BOOLEAN
    BY DEF HeapInv, HeapTypeOK
  <1>2. ASSUME NEW n \in 1 .. MaxIncr, More(n) PROVE HeapInv'
    <2>1. n \in Int /\ heap_end + n >= HEAP_START
      BY <1>1, LayoutAssumption
    <2>2. sp' = sp /\ modest' = (modest /\ Modest')
      BY <1>2 DEF More
    <2>3. CASE Sbrk(n)
      <3>1. /\ heap_end' = heap_end + n
            /\ heap_end' \in HEAP_START .. _stack_top
            /\ owner' \in [Ram -> {"free", "heap", "stack"}]
            /\ \A x \in Ram : owner'[x] = IF heap_end <= x /\ x < heap_end'
                                        THEN "heap" ELSE owner[x]
        BY <2>1, <2>3, SbrkStep
      <3>2. HeapTypeOK' /\ (modest' => Modest')
        BY <1>1, <2>2, <3>1 DEF HeapTypeOK
      <3>3. ASSUME modest' PROVE DataIntact'
        <4>1. modest /\ heap_end' <= _heap_end /\ _heap_end <= sp
          BY <2>2, <3>3 DEF Modest
        <4>2. \A x \in HEAP_START .. heap_end' - 1 : x \in Ram /\ owner'[x] = "heap"
          BY <1>1, <2>1, <3>1, <4>1 DEF HeapInv, DataIntact
        <4>3. \A x \in sp .. _stack_top - 1 : x \in Ram /\ owner'[x] = "stack"
          BY <1>1, <2>1, <3>1, <4>1 DEF HeapInv, DataIntact
        <4> QED
          BY <2>2, <4>2, <4>3 DEF DataIntact
      <3> QED
        BY <3>2, <3>3 DEF HeapInv, DataIntact
    <2>4. CASE SbrkFails(n)
      BY <1>1, <2>2, <2>4 DEF SbrkFails, HeapInv, HeapTypeOK, DataIntact, Modest
    <2> QED
      BY <1>2, <2>3, <2>4 DEF More
  <1>3. ASSUME NEW n \in 1 .. MaxIncr, Trim(n) PROVE HeapInv'
    <2>1. -n \in Int /\ heap_end + (-n) >= HEAP_START /\ n > 0
      BY <1>1, <1>3, LayoutAssumption DEF Trim
    <2>2. Sbrk(-n) /\ sp' = sp /\ modest' = modest
      BY <1>3 DEF Trim
    <2>3. /\ heap_end' = heap_end - n
          /\ heap_end' \in HEAP_START .. _stack_top
          /\ owner' \in [Ram -> {"free", "heap", "stack"}]
          /\ \A x \in Ram : owner'[x] = owner[x]
      BY <1>1, <2>1, <2>2, SbrkStep
    <2>4. HeapTypeOK' /\ (modest' => Modest')
      BY <1>1, <2>1, <2>2, <2>3 DEF HeapInv, HeapTypeOK, Modest
    <2>5. ASSUME modest' PROVE DataIntact'
      <3>1. \A x \in HEAP_START .. heap_end' - 1 : x \in Ram /\ owner'[x] = "heap"
        BY <1>1, <2>1, <2>2, <2>3, <2>5 DEF HeapInv, DataIntact
      <3>2. \A x \in sp .. _stack_top - 1 : x \in Ram /\ owner'[x] = "stack"
        BY <1>1, <2>2, <2>3, <2>5 DEF HeapInv, DataIntact
      <3> QED
        BY <2>2, <3>1, <3>2 DEF DataIntact
    <2> QED
      BY <2>4, <2>5 DEF HeapInv, DataIntact
  <1>4. ASSUME NEW n \in 1 .. MaxIncr, Call(n) PROVE HeapInv'
    <2>1. /\ sp' = sp - n /\ owner' = Written(sp', sp, "stack")
          /\ modest' = (modest /\ Modest') /\ heap_end' = heap_end
          /\ sp' \in HEAP_START .. _stack_top /\ sp' \in Int /\ sp \in Int
      BY <1>1, <1>4, LayoutAssumption DEF Call
    <2>2. /\ Written(sp', sp, "stack") \in [Ram -> {"free", "heap", "stack"}]
          /\ \A x \in Ram : Written(sp', sp, "stack")[x]
                              = IF sp' <= x /\ x < sp THEN "stack" ELSE owner[x]
      BY <1>1, <2>1, WrittenRange
    <2>3. /\ owner' \in [Ram -> {"free", "heap", "stack"}]
          /\ \A x \in Ram : owner'[x] = IF sp' <= x /\ x < sp THEN "stack" ELSE owner[x]
      BY <2>1, <2>2
    <2>4. HeapTypeOK' /\ (modest' => Modest')
      BY <1>1, <2>1, <2>3 DEF HeapTypeOK
    <2>5. ASSUME modest' PROVE DataIntact'
      <3>1. modest /\ heap_end <= _heap_end /\ _heap_end <= sp'
        BY <2>1, <2>5 DEF Modest
      <3>2. \A x \in HEAP_START .. heap_end - 1 : x \in Ram /\ owner'[x] = "heap"
        BY <1>1, <2>1, <2>3, <3>1 DEF HeapInv, DataIntact
      <3>3. \A x \in sp' .. _stack_top - 1 : x \in Ram /\ owner'[x] = "stack"
        BY <1>1, <2>1, <2>3, <3>1 DEF HeapInv, DataIntact
      <3> QED
        BY <2>1, <3>2, <3>3 DEF DataIntact
    <2> QED
      BY <2>4, <2>5 DEF HeapInv, DataIntact
  <1>5. ASSUME NEW n \in 1 .. MaxIncr, Return(n) PROVE HeapInv'
    <2>1. /\ sp' = sp + n /\ heap_end' = heap_end /\ owner' = owner /\ modest' = modest
          /\ sp' \in HEAP_START .. _stack_top /\ sp' >= sp
      BY <1>1, <1>5, LayoutAssumption DEF Return
    <2> QED
      BY <1>1, <2>1 DEF HeapInv, HeapTypeOK, Modest, DataIntact
  <1>6. CASE UNCHANGED heapVars
    BY <1>6 DEF heapVars, HeapInv, HeapTypeOK, Modest, DataIntact
  <1> QED
    BY <1>2, <1>3, <1>4, <1>5, <1>6 DEF HeapNext

(* HeapInv holds in every reachable state, for all sizes. *)
THEOREM HeapInvariant == HeapSpec => []HeapInv
  <1>1. HeapInit => HeapInv
    BY Layout DEF HeapInit, HeapInv, HeapTypeOK, Modest, DataIntact
  <1> QED
    BY <1>1, HeapStep, PTL DEF HeapSpec

(* The break and the stack pointer stay in RAM. *)
THEOREM HeapTypeCorrect == HeapSpec => []HeapTypeOK
  <1>1. HeapInv => HeapTypeOK
    BY DEF HeapInv
  <1> QED
    BY <1>1, HeapInvariant, PTL

(* While heap and stack stay in the areas virt.ld gives them, neither
   overwrites the other. *)
THEOREM Intact == HeapSpec => []DataIntact
  <1>1. HeapInv => DataIntact
    BY DEF HeapInv
  <1> QED
    BY <1>1, HeapInvariant, PTL
=============================================================================
