-------------------------------- MODULE Boot --------------------------------
(***************************************************************************)
(* startup.S of the bare-metal targets: from _start to the call of main.   *)
(* The loop clears .bss in steps of one byte (zkvm, riscv-wamr-qemu) or of *)
(* eight (riscv-qemu), between two symbols of the linker script: _bss_start*)
(* stands on a multiple of 8 in the riscv-qemu script, _bss_end wherever   *)
(* the last variable ends.  What follows .bss, the heap or the stack,      *)
(* begins on the next multiple of 8 or of a page.                          *)
(***************************************************************************)
EXTENDS Integers

CONSTANTS Step,       \* bytes cleared at a time
          RamSize,    \* bound: the RAM is 0 .. RamSize - 1
          Align       \* what follows .bss begins on a multiple of it

ASSUME BootAssumption ==
  /\ Step \in {1, 8} /\ RamSize \in Nat /\ Align \in Nat

Addr == 0 .. RamSize - 1

VARIABLES _bss_start, _bss_end,
          behind,     \* the first address that belongs to heap or stack
          ram,        \* what a byte holds: "image", "junk" or "zero"
          t0,
          pc

layout == <<_bss_start, _bss_end, behind>>
vars == <<layout, ram, t0, pc>>
-----------------------------------------------------------------------------
(* Any layout the linker scripts produce; the loader has brought the image,
   and nothing is known of the rest of the RAM *)
Init == /\ _bss_start \in 0 .. RamSize /\ _bss_start % Step = 0
        /\ _bss_end \in _bss_start .. RamSize
        /\ behind \in _bss_end .. RamSize
        /\ behind % 8 = 0 /\ behind < _bss_end + Align
        /\ ram = [a \in Addr |-> IF a < _bss_start THEN "image" ELSE "junk"]
        /\ t0 = _bss_start
        /\ pc = "clear_bss"

Store(a, n) == ram' = [x \in Addr |-> IF x \in a .. a + n - 1 THEN "zero" ELSE ram[x]]

LateClear ==       \* mutant: bgtu for bgeu
  /\ pc = "clear_bss" /\ t0 <= _bss_end
  /\ Store(t0, Step) /\ t0' = t0 + Step /\ UNCHANGED <<layout, pc>>

(* sb or sd zero, 0(t0); addi; j clear_bss *)
Clear == /\ pc = "clear_bss" /\ t0 < _bss_end
         /\ Store(t0, Step)
         /\ t0' = t0 + Step
         /\ UNCHANGED <<layout, pc>>

EarlyCallMain ==   \* mutant: the loop ends one byte early
  /\ pc = "clear_bss" /\ t0 + 1 >= _bss_end
  /\ pc' = "main" /\ UNCHANGED <<layout, ram, t0>>

(* bgeu t0, t1, bss_done; call main *)
CallMain == /\ pc = "clear_bss" /\ t0 >= _bss_end
            /\ pc' = "main"
            /\ UNCHANGED <<layout, ram, t0>>

InMain == pc = "main" /\ UNCHANGED vars   \* what follows is Platform.tla's

Next == Clear \/ CallMain
Spec == Init /\ [][Next \/ InMain]_vars
-----------------------------------------------------------------------------
(* t0 stays on the stride and never passes what follows .bss. *)
TypeOK == /\ ram \in [Addr -> {"image", "junk", "zero"}]
          /\ t0 \in _bss_start .. behind /\ t0 % Step = 0
          /\ pc \in {"clear_bss", "main"}

(* main finds every static variable without an initial value zero,
   such as outputCount of zkvm.c, whatever the RAM held before. *)
BssZeroed == pc = "main" => \A a \in _bss_start .. _bss_end - 1 : ram[a] = "zero"

(* The last sd may reach up to seven bytes behind _bss_end, but neither the
   image nor the heap or stack that follows. *)
OthersKept == \A a \in Addr : /\ a < _bss_start => ram[a] = "image"
                              /\ a >= behind => ram[a] = "junk"

(* Start-up as a region write of zeroes to .bss, up to where a step ends. *)
End == _bss_end + ((-_bss_end) % Step)
Region == INSTANCE RegionWrite WITH
  mem <- ram, target <- _bss_start .. End - 1,
  goal <- [a \in _bss_start .. End - 1 |-> "zero"], done <- pc = "main"
ImplementsRegionWrite == Region!Spec
=============================================================================
