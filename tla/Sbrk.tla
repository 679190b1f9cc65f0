-------------------------------- MODULE Sbrk --------------------------------
(***************************************************************************)
(* platform/riscv-wamr-qemu/syscalls.c, _sbrk, with the memory layout of   *)
(* virt.ld: the heap grows upwards from _heap_start, the stack of the      *)
(* single thread downwards from _stack_top, and nothing but the test in    *)
(* _sbrk keeps them apart.                                                 *)
(*                                                                         *)
(* malloc of newlib and the WAMR runtime are not in this repository; they  *)
(* appear as a program that asks for memory and writes what it is given,   *)
(* gives back the top of it (malloc's trimming), and calls and returns.    *)
(***************************************************************************)
EXTENDS Integers

CONSTANTS HEAP_START,  \* _heap_start
          HeapLen,     \* the 512M virt.ld sets aside for the heap
          StackLen,    \* the 128M between _heap_end and _stack_top
          MaxIncr      \* bound: largest increment and largest stack frame

ASSUME LayoutAssumption ==
  HEAP_START \in Nat /\ HeapLen \in Nat /\ StackLen \in Nat /\ MaxIncr \in Nat

_heap_end == HEAP_START + HeapLen
_stack_top == _heap_end + StackLen
Ram == HEAP_START .. _stack_top - 1

VARIABLES heap_end,  \* the static variable of _sbrk
          sp,        \* the stack pointer
          owner,     \* who wrote a byte last: "heap", "stack" or nobody
          modest     \* both have stayed in the areas virt.ld gives them

heapVars == <<heap_end, sp, owner, modest>>

Written(a, b, who) == [x \in Ram |-> IF x \in a .. b - 1 THEN who ELSE owner[x]]
-----------------------------------------------------------------------------
HeapInit == /\ heap_end = HEAP_START
            /\ sp = _stack_top
            /\ owner = [x \in Ram |-> "free"]
            /\ modest = TRUE

Modest == heap_end <= _heap_end /\ _heap_end <= sp

(* The caller writes the incr bytes that begin at the address it is given *)
Use(answer, incr) == owner' = Written(answer, answer + incr, "heap")

(* mutants: the new break is returned; the limit is tested too late *)
NewBreakSbrk(incr) ==
  /\ heap_end + incr <= _stack_top
  /\ heap_end' = heap_end + incr
  /\ Use(heap_end', incr)
LateTestSbrk(incr) ==
  /\ heap_end <= _stack_top
  /\ heap_end' = heap_end + incr
  /\ Use(heap_end, incr)

(* _sbrk: the previous break, unless the new one is above _stack_top *)
Sbrk(incr) ==
  /\ heap_end + incr <= _stack_top
  /\ heap_end' = heap_end + incr
  /\ Use(heap_end, incr)

(* ENOMEM *)
SbrkFails(incr) == /\ heap_end + incr > _stack_top
                   /\ UNCHANGED <<heap_end, owner>>

(* malloc asks for memory, or gives back the end of what it has *)
More(incr) == /\ Sbrk(incr) \/ SbrkFails(incr)
              /\ UNCHANGED sp
              /\ modest' = (modest /\ Modest')
Trim(decr) == /\ heap_end - decr >= HEAP_START
              /\ Sbrk(-decr)
              /\ UNCHANGED <<sp, modest>>

(* The compiled code moves sp without any test; the guard only keeps the
   model's stack inside the modelled RAM *)
Call(frame) == /\ sp - frame >= HEAP_START
               /\ sp' = sp - frame
               /\ owner' = Written(sp', sp, "stack")
               /\ UNCHANGED heap_end
               /\ modest' = (modest /\ Modest')
Return(frame) == /\ sp + frame <= _stack_top
                 /\ sp' = sp + frame
                 /\ UNCHANGED <<heap_end, owner, modest>>

HeapNext == \E n \in 1 .. MaxIncr : More(n) \/ Trim(n) \/ Call(n) \/ Return(n)

HeapSpec == HeapInit /\ [][HeapNext]_heapVars
-----------------------------------------------------------------------------
(* The break never leaves the RAM between _heap_start and _stack_top. *)
HeapTypeOK == /\ heap_end \in HEAP_START .. _stack_top
              /\ sp \in HEAP_START .. _stack_top
              /\ owner \in [Ram -> {"free", "heap", "stack"}]
              /\ modest \in BOOLEAN

(* As long as heap and stack stay within the 512M and 128M of virt.ld, no
   call overwrites allocated memory and no allocation a live stack frame. *)
DataIntact ==
  modest => /\ \A x \in HEAP_START .. heap_end - 1 : owner[x] = "heap"
            /\ \A x \in sp .. _stack_top - 1 : owner[x] = "stack"

(* What the comments in _sbrk promise: a "safe stack limit", and an error
   "if heap would grow too close to stack". *)
HeapBelowStack == \A x \in sp .. _stack_top - 1 : owner[x] = "stack"
=============================================================================
