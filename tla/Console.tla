------------------------------ MODULE Console ------------------------------
(***************************************************************************)
(* The console of the three bare-metal targets.  The driver stores a byte  *)
(* in the transmit holding register of a 16550A UART when the line status  *)
(* register says that it is empty (riscv-qemu, riscv-wamr-qemu), or to an  *)
(* address that the zkVM watches, which takes it at once.  The UART is a   *)
(* party of its own: it empties the register when it likes and fills the   *)
(* receive register when the user types.                                   *)
(*                                                                         *)
(* left is the rest of the loop in puts, printf or uart_putc: whoever      *)
(* called it goes on when left is empty.                                   *)
(***************************************************************************)
EXTENDS Integers, SequencesExt

CONSTANTS Byte, LF, CR,
          strlen_max    \* how far the strlen of the main.c files looks

ASSUME ConsoleAssumption ==
  LF \in Byte /\ CR \in Byte /\ LF # CR /\ strlen_max \in Nat

VARIABLES target,    \* "zkvm", "qemu" or "wamr"
          left,
          thr,       \* transmit holding register: no byte or one
          wire,      \* what the terminal has received
          rbr,       \* receive buffer register: no byte or one
          typed      \* what the user has still to type

console == <<left, thr, wire, rbr, typed>>
Accepted == wire \o thr \o left   \* every byte a driver was given
-----------------------------------------------------------------------------
ConsoleInit == left = <<>> /\ thr = <<>> /\ wire = <<>> /\ rbr = <<>>

Free == left = <<>>
Silent == UNCHANGED console

(* The library functions of zkvm/main.c and riscv-qemu/main.c; a printf
   prints its format *)
strlen(s) == IF Len(s) < strlen_max THEN Len(s) ELSE strlen_max
puts(s) == Free /\ left' = SubSeq(s, 1, strlen(s)) /\ UNCHANGED <<thr, wire, rbr, typed>>

(* "send CR+LF": the line feed comes first *)
uart_putc(c) == IF c = LF THEN <<LF, CR>> ELSE <<c>>

putchar(c) == /\ Free
              /\ left' = IF target = "wamr" THEN uart_putc(c) ELSE <<c>>
              /\ UNCHANGED <<thr, wire, rbr, typed>>

HastyTxIdle == TRUE   \* mutant: the register is not looked at

(* UART_LSR & UART_LSR_TX_IDLE *)
TxIdle == thr = <<>>

(* One byte of the loop, when the wait before it is over *)
writeuartc == /\ left # <<>>
              /\ left' = Tail(left)
              /\ IF target = "zkvm"
                 THEN wire' = Append(wire, Head(left)) /\ UNCHANGED thr
                 ELSE TxIdle /\ thr' = <<Head(left)>> /\ UNCHANGED wire
              /\ UNCHANGED <<rbr, typed>>

(* while ((UART_LSR & UART_LSR_RX_READY) == 0); return UART_RBR *)
uart_getc == rbr # <<>> /\ rbr' = <<>> /\ UNCHANGED <<left, thr, wire, typed>>
-----------------------------------------------------------------------------
(* The UART.  QEMU hands it a typed byte only when the register is free. *)
Transmit == /\ thr # <<>>
            /\ wire' = Append(wire, Head(thr)) /\ thr' = <<>>
            /\ UNCHANGED <<left, rbr, typed>>

Receive == /\ typed # <<>> /\ rbr = <<>>
           /\ rbr' = <<Head(typed)>> /\ typed' = Tail(typed)
           /\ UNCHANGED <<left, thr, wire>>

Uart == Transmit \/ Receive
=============================================================================
