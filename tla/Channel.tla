------------------------------ MODULE Channel ------------------------------
(***************************************************************************)
(* What a program may expect of its console: a channel that takes any      *)
(* number of bytes at a time and hands them to the terminal one by one, in *)
(* order, each of them once, none lost and none left behind.               *)
(***************************************************************************)
EXTENDS Integers, Sequences

VARIABLES pipe,    \* accepted and not yet delivered
          wire     \* what the terminal has received

channel == <<pipe, wire>>

Init == pipe = <<>> /\ wire = <<>>

Put == /\ Len(pipe') >= Len(pipe)
       /\ \A k \in 1 .. Len(pipe) : pipe'[k] = pipe[k]
       /\ UNCHANGED wire

Deliver == /\ pipe # <<>>
           /\ wire' = Append(wire, Head(pipe))
           /\ pipe' = Tail(pipe)

Next == Put \/ Deliver
Safe == Init /\ [][Next]_channel
Spec == Safe /\ WF_channel(Deliver)
=============================================================================
