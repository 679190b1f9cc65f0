---------------------------- MODULE ConsoleCalls ----------------------------
(***************************************************************************)
(* The calls that reach the console.  On the w2c2 targets it is the        *)
(* guest's fd_write (w2c2/embedded/wasi.c), which takes its buffers from   *)
(* an array of (pointer, length) pairs in the guest's memory, copies the   *)
(* pairs to an array of IOVECS_SIZE on its stack, sends the bytes one by   *)
(* one with putchar, and stores the total at the result pointer.  On the   *)
(* WAMR target newlib calls _write and _read (syscalls.c) on one buffer.   *)
(*                                                                         *)
(* The guest lays out its memory as it likes: buffers, pairs and result    *)
(* may share cells.  A cell of the memory stands for a byte of a buffer as *)
(* well as for a 32-bit word of a pair.                                    *)
(***************************************************************************)
EXTENDS Console

CONSTANTS IOVECS_SIZE, Line,   \* a line the stub prints about itself
          Size,      \* bound: cells of the guest's memory
          Memories,  \* bound: what the memory holds at first
          Counts,    \* bound: ciovecsCount, or the length of one buffer
          Inputs     \* bound: what the user types

ASSUME CallsAssumption ==
  /\ IOVECS_SIZE \in Nat \ {0} /\ Size \in Nat
  /\ Memories \subseteq [0 .. Size - 1 -> Byte] /\ Byte \subseteq Nat
  /\ Counts \subseteq Nat /\ Inputs \subseteq Seq(Byte)
  /\ Line \in Seq(Byte) /\ Len(Line) <= strlen_max   \* at most 44 characters of 100

Addr == 0 .. Size - 1
SUCCESS == 0
NOMEM == 48

VARIABLES mem,      \* the guest's memory
          passed,   \* the memory when the call was made
          call,     \* its name and arguments
          pc, ciovecIndex, i, total,
          iovec,    \* the entry of iovecs that is written, or the one buffer
          ret       \* a number once the call has returned; _write, _read: -1 is an error

calls == <<mem, passed, call, pc, ciovecIndex, i, total, iovec, ret>>
Nothing == -2

Pair(m, p, k) == [base |-> m[p + 2 * k], len |-> m[p + 2 * k + 1]]
Buffer(m, v) == [n \in 1 .. v.len |-> m[v.base + n - 1]]
TheBuffer == [base |-> call.pointer, len |-> call.count]

(* A guest passes pairs and buffers that lie in its memory *)
InMemory(m, c) ==
  IF c.name = "fd_write"
  THEN /\ c.pointer + 2 * c.count <= Size
       /\ \A k \in 0 .. c.count - 1 :
            LET v == Pair(m, c.pointer, k) IN v.base + v.len <= Size
  ELSE c.pointer + c.count <= Size

(* Who waits for a line types one *)
Enough(c) == c.name = "_read" => \/ \E k \in DOMAIN typed : typed[k] \in {LF, CR}
                                 \/ Len(typed) >= c.count
-----------------------------------------------------------------------------
CallsInit ==
  /\ mem \in Memories /\ passed = mem
  /\ call \in IF target = "wamr"
       THEN [name : {"_write", "_read"}, fd : {0, 1}, pointer : Addr, count : Counts,
             resultPointer : {0}]
       ELSE [name : {"fd_write"}, fd : {1, 3}, pointer : Addr, count : Counts,
             resultPointer : Addr]
  /\ InMemory(mem, call) /\ Enough(call)
  /\ pc = call.name /\ ciovecIndex = 0 /\ i = 0 /\ total = 0
  /\ iovec = [base |-> 0, len |-> 0] /\ ret = Nothing

IsConsole == call.fd \in {1, 2}
Log == IF IsConsole THEN Free /\ Silent ELSE puts(Line)

EnterLogs == /\ pc = "fd_write" /\ pc' = "check" /\ Log
             /\ UNCHANGED <<mem, passed, call, ciovecIndex, i, total, iovec, ret>>

(* Too many buffers are refused before any of them is written *)
Refuse == /\ pc = "check" /\ call.count > IOVECS_SIZE
          /\ puts(Line)
          /\ ret' = NOMEM /\ pc' = "done"
          /\ UNCHANGED <<mem, passed, call, ciovecIndex, i, total, iovec>>

(* the test of the for loop *)
Left == ciovecIndex < call.count /\ ciovecIndex < IOVECS_SIZE

ResumedNextBuffer == \* mutant: i keeps its value from the buffer before
  /\ pc = "check" /\ call.count <= IOVECS_SIZE /\ Left
  /\ iovec' = Pair(mem, call.pointer, ciovecIndex)
  /\ total' = total + iovec'.len
  /\ Log /\ pc' = "putchar"
  /\ UNCHANGED <<mem, passed, call, ciovecIndex, i, ret>>
EagerNextBuffer ==   \* mutant: the total so far is stored with every buffer
  /\ pc = "check" /\ call.count <= IOVECS_SIZE /\ Left
  /\ iovec' = Pair(mem, call.pointer, ciovecIndex)
  /\ total' = total + iovec'.len
  /\ mem' = [mem EXCEPT ![call.resultPointer] = total']
  /\ i' = 0 /\ Log /\ pc' = "putchar"
  /\ UNCHANGED <<passed, call, ciovecIndex, ret>>

NextBuffer ==
  /\ pc = "check" /\ call.count <= IOVECS_SIZE /\ Left
  /\ iovec' = Pair(mem, call.pointer, ciovecIndex)
  /\ total' = total + iovec'.len
  /\ i' = 0
  /\ Log                                \* "length = %d"
  /\ pc' = "putchar"
  /\ UNCHANGED <<mem, passed, call, ciovecIndex, ret>>

(* The loop over a buffer, of fd_write and of _write *)
Putchar == /\ pc = "putchar" /\ i < iovec.len
           /\ putchar(mem[iovec.base + i])
           /\ i' = i + 1
           /\ UNCHANGED <<mem, passed, call, pc, ciovecIndex, total, iovec, ret>>

StuckBufferDone == \* mutant: an empty buffer is skipped with "continue"
  /\ pc = "putchar" /\ call.name = "fd_write" /\ Free /\ i >= iovec.len
  /\ ciovecIndex' = IF iovec.len = 0 THEN ciovecIndex ELSE ciovecIndex + 1
  /\ pc' = "check" /\ total' = total - (IF iovec.len = 0 THEN iovec.len ELSE 0)
  /\ Silent /\ UNCHANGED <<mem, passed, call, i, iovec, ret>>

BufferDone == /\ pc = "putchar" /\ call.name = "fd_write"
              /\ Free /\ i >= iovec.len
              /\ ciovecIndex' = ciovecIndex + 1
              /\ pc' = "check"
              /\ Silent /\ UNCHANGED <<mem, passed, call, i, total, iovec, ret>>

Return == /\ pc = "check" /\ call.count <= IOVECS_SIZE /\ ~Left /\ Free
          /\ mem' = [mem EXCEPT ![call.resultPointer] = total]
          /\ ret' = SUCCESS /\ pc' = "done"
          /\ Silent /\ UNCHANGED <<passed, call, ciovecIndex, i, total, iovec>>
-----------------------------------------------------------------------------
(* errno = EBADF, for a file that is not the console, or not the keyboard *)
BadFile == /\ pc \in {"_write", "_read"}
           /\ call.fd \notin IF pc = "_write" THEN {1, 2} ELSE {0}
           /\ ret' = -1 /\ pc' = "done"
           /\ Silent /\ UNCHANGED <<mem, passed, call, ciovecIndex, i, total, iovec>>

_write == /\ pc = "_write" /\ IsConsole
          /\ iovec' = TheBuffer /\ pc' = "putchar"
          /\ Silent /\ UNCHANGED <<mem, passed, call, ciovecIndex, i, total, ret>>

_writeReturns == /\ pc = "putchar" /\ call.name = "_write"
                 /\ Free /\ i >= iovec.len
                 /\ ret' = call.count /\ pc' = "done"
                 /\ Silent /\ UNCHANGED <<mem, passed, call, ciovecIndex, i, total, iovec>>

ForgetfulRead ==   \* mutant: the line's end is not counted
  /\ pc = "_read" /\ call.fd = 0 /\ i < call.count /\ uart_getc
  /\ mem' = [mem EXCEPT ![call.pointer + i] = Head(rbr)]
  /\ IF Head(rbr) \in {LF, CR} THEN i' = i /\ ret' = i' /\ pc' = "done"
                               ELSE i' = i + 1 /\ UNCHANGED <<ret, pc>>
  /\ UNCHANGED <<passed, call, ciovecIndex, total, iovec>>

(* A byte for the buffer; the end of a line ends the loop *)
_read == /\ pc = "_read" /\ call.fd = 0 /\ i < call.count
         /\ uart_getc
         /\ mem' = [mem EXCEPT ![call.pointer + i] = Head(rbr)]
         /\ i' = i + 1
         /\ IF Head(rbr) \in {LF, CR} THEN ret' = i' /\ pc' = "done"
                                      ELSE UNCHANGED <<ret, pc>>
         /\ UNCHANGED <<passed, call, ciovecIndex, total, iovec>>

_readReturns == /\ pc = "_read" /\ call.fd = 0 /\ i >= call.count
                /\ ret' = i /\ pc' = "done"
                /\ Silent /\ UNCHANGED <<mem, passed, call, ciovecIndex, i, total, iovec>>

Call == \/ EnterLogs \/ Refuse \/ NextBuffer \/ Putchar \/ BufferDone \/ Return
        \/ BadFile \/ _write \/ _writeReturns \/ _read \/ _readReturns
-----------------------------------------------------------------------------
(* While bytes are sent, iovecs[ciovecIndex] is an element of the array on
   the stack, and i has not run past the buffer, nor the buffer past the
   memory: what the call has stored by then does not change the pairs. *)
CallsTypeOK ==
  /\ pc \in {"none", "fd_write", "_write", "_read", "check", "putchar", "done"}
  /\ pc = "putchar" => /\ ciovecIndex \in 0 .. IOVECS_SIZE - 1 /\ i \in 0 .. iovec.len
                       /\ iovec.base \in Nat /\ iovec.base + iovec.len <= Size
  /\ mem \in [Addr -> Nat] /\ total \in Nat /\ i \in Nat
  /\ ret \in Nat \cup {Nothing, -1}

Gathered == FlattenSeq([k \in 1 .. call.count |->
              Buffer(passed, Pair(passed, call.pointer, k - 1))])
Lines(s) == FlattenSeq([k \in DOMAIN s |-> uart_putc(s[k])])

(* All or nothing: a refused fd_write leaves the guest's output and memory
   alone, so the guest may try again with fewer buffers without printing
   anything twice; an accepted one prints what the buffers held when the
   call was made, in order, and reports just that many bytes, wherever the
   result lies.  _write does the same for its one buffer. *)
AllOrNothing ==
  pc = "done" /\ Free =>
    CASE call.name = "fd_write" ->
           IF ret = NOMEM THEN mem = passed /\ Accepted \in {Line, Line \o Line}
           ELSE /\ IsConsole => Accepted = Gathered
                /\ mem = [passed EXCEPT ![call.resultPointer] = Len(Gathered)]
      [] call.name = "_write" ->
           /\ mem = passed
           /\ IF ret = -1 THEN ~IsConsole /\ Accepted = <<>>
              ELSE ret = call.count /\ Accepted = Lines(Buffer(passed, TheBuffer))
      [] OTHER -> Accepted = <<>>

(* _read returns the next bytes that were typed, to the end of the line or
   of the buffer, and takes no byte more from the UART than it returns. *)
ReadsLine ==
  pc = "done" /\ call.name = "_read" /\ ret # -1 =>
    LET got == Buffer(mem, [TheBuffer EXCEPT !.len = ret])
    IN /\ got \o rbr \o typed \in Inputs
       /\ \A k \in 1 .. ret - 1 : got[k] \notin {LF, CR}
       /\ ret = call.count \/ got[ret] \in {LF, CR}
       /\ \A a \in Addr : a \notin call.pointer .. call.pointer + ret - 1 => mem[a] = passed[a]
=============================================================================
