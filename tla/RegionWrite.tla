---------------------------- MODULE RegionWrite ----------------------------
(***************************************************************************)
(* What a caller of memset, memcpy or memmove asks for: the bytes of one   *)
(* region reach their goal values, in any order and grouping, no byte goes *)
(* through a third value, and no byte outside the region changes.          *)
(***************************************************************************)
VARIABLES mem,    \* the memory, a function on its addresses
          target, \* the addresses to be written
          goal,   \* the value each of them is to have
          done    \* the routine has returned

rwVars == <<mem, target, goal, done>>

Init == done = FALSE

(* Some bytes of the region take their goal values, the others stay *)
Write == /\ ~done
         /\ mem' = [a \in DOMAIN mem |-> IF a \in target /\ mem'[a] # mem[a]
                                        THEN goal[a] ELSE mem[a]]
         /\ UNCHANGED <<target, goal, done>>

Return == /\ ~done
          /\ \A a \in target : mem[a] = goal[a]
          /\ done' = TRUE
          /\ UNCHANGED <<mem, target, goal>>

Next == Write \/ Return

Spec == Init /\ [][Next]_rwVars
=============================================================================
