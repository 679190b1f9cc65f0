------------------------------ MODULE GuestIO ------------------------------
(***************************************************************************)
(* A guest at its input and output on any target: the calls that reach the *)
(* console, printk, and the input, over the driver and the UART, which     *)
(* goes on while the program computes.                                     *)
(***************************************************************************)
EXTENDS ConsoleCalls, CustomImports

vars == <<target, console, calls, imports>>

(* A guest that makes one of the console's calls, or uses the imports *)
Init == /\ ConsoleInit
        /\ \/ /\ target \in {"zkvm", "qemu", "wamr"} /\ task = "none"
              /\ typed \in IF target = "wamr" THEN Inputs ELSE {<<>>}
              /\ CallsInit /\ booted = [a \in 0 .. RamTop |-> 0]
           \/ /\ target \in {"zkvm", "qemu", "qemu_user", "amd64"}
              /\ task \in {"printk", "input"} /\ typed = <<>>
              /\ target = "amd64" => task = "input"
              /\ mem = [a \in Addr |-> 0] /\ passed = mem
              /\ call = [name |-> "none"] /\ pc = "none"
              /\ ciovecIndex = 0 /\ i = 0 /\ total = 0
              /\ iovec = [base |-> 0, len |-> 0] /\ ret = Nothing
        /\ ImportsInit

Program == \/ Call /\ UNCHANGED <<target, imports>>
           \/ Import /\ UNCHANGED <<target, calls>>
           \/ writeuartc /\ UNCHANGED <<target, calls, imports>>
Device == Uart /\ UNCHANGED <<target, calls, imports>>

Over == /\ Free /\ (pc = "done" \/ step \in {"done", "crash"} \/ task = "printk")
        /\ UNCHANGED vars

Spec == /\ Init /\ [][Program \/ Device \/ Over]_vars
        /\ WF_vars(Program) /\ WF_vars(Device)
-----------------------------------------------------------------------------
Stream == INSTANCE Channel WITH pipe <- thr \o left, wire <- wire

(* Every byte a driver is given reaches the terminal, once and in order;
   a byte stored while the register is occupied would replace another. *)
ImplementsChannel == Stream!Safe

(* Every call comes back, however slow the UART is, if the user types the
   line that is waited for, and in the end nothing is left behind in the
   driver or the UART. *)
CallReturns == <>[](pc \in {"none", "done"} /\ left = <<>> /\ thr = <<>>)
=============================================================================
