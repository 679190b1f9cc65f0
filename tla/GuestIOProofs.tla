--------------------------- MODULE GuestIOProofs ---------------------------
(***************************************************************************)
(* Proofs about GuestIO.tla for every memory, number of buffers, input,    *)
(* capacity of the output area and speed of the UART.                      *)
(***************************************************************************)
EXTENDS GuestIO, SequenceTheorems, WellFoundedInduction, TLAPS

(* What a driver may be given: bytes, and the numbers in memory cells. *)
Char == Nat

(* The queues between the program and the user. *)
QueuesOK == /\ left \in Seq(Char) /\ wire \in Seq(Char)
            /\ thr \in Seq(Char) /\ Len(thr) <= 1
            /\ rbr \in Seq(Nat) /\ Len(rbr) <= 1
            /\ typed \in Seq(Nat)
            /\ target = "zkvm" => thr = <<>>

(* The arguments of the call, and that it has stored nothing by the time it
   reads the pairs. *)
ArgumentsOK ==
  pc # "none" =>
    /\ call.name \in {"fd_write", "_write", "_read"}
    /\ call.pointer \in Nat /\ call.count \in Nat
    /\ InMemory(passed, call)
    /\ pc \in {"fd_write", "_write", "_read"} => call.name = pc
    /\ pc = "check" => call.name = "fd_write"
    /\ pc = "putchar" => call.name \in {"fd_write", "_write"}
    /\ call.name = "fd_write" /\ pc # "done" => mem = passed

(* Where the call stands. *)
IndexesOK == /\ ciovecIndex \in Nat
             /\ pc = "_write" => ciovecIndex = 0 /\ i = 0
             /\ pc = "putchar" => iovec.base \in Nat /\ iovec.len \in Nat

IInv == QueuesOK /\ ArgumentsOK /\ IndexesOK /\ CallsTypeOK

(* A set of numbers has a least one. *)
LEMMA Least ==
  ASSUME NEW S, S \subseteq Nat, S # {}
  PROVE  \E x \in S : \A y \in S : x <= y
<1>1. PICK x \in S : \A y \in S : ~ (<<y, x>> \in OpToRel(<, Nat))
  BY NatLessThanWellFounded, WFMin
<1>2. \A y \in S : ~ (y < x)
  BY <1>1 DEF OpToRel
<1> QED BY <1>2

LEMMA Numbers == /\ Size \in Nat /\ Addr \subseteq Nat /\ IOVECS_SIZE \in Nat \ {0}
                 /\ LF \in Char /\ CR \in Char /\ Nat \subseteq Char
                 /\ Seq(Byte) \subseteq Seq(Nat) /\ Seq(Byte) \subseteq Seq(Char)
                 /\ Memories \subseteq [Addr -> Nat]
  <1>1. Byte \subseteq Nat /\ Nat \subseteq Char
    BY CallsAssumption DEF Char
  <1>2. Memories \subseteq [Addr -> Nat]
    <2> SUFFICES ASSUME NEW m \in Memories PROVE m \in [Addr -> Nat]
      OBVIOUS
    <2>1. m \in [Addr -> Byte]
      BY CallsAssumption DEF Addr
    <2> QED
      BY <1>1, <2>1
  <1>3. \A s \in Seq(Byte) : s \in Seq(Nat) /\ s \in Seq(Char)
    <2> SUFFICES ASSUME NEW s \in Seq(Byte) PROVE s \in Seq(Nat) /\ s \in Seq(Char)
      OBVIOUS
    <2>1. s \in [1 .. Len(s) -> Byte] /\ Len(s) \in Nat
      OBVIOUS
    <2>2. s \in [1 .. Len(s) -> Nat] /\ s \in [1 .. Len(s) -> Char]
      BY <1>1, <2>1
    <2> QED
      BY <2>1, <2>2
  <1> QED
    BY <1>1, <1>2, <1>3, CallsAssumption, ConsoleAssumption DEF Addr

LEMMA Initially == Init => IInv
  <1> SUFFICES ASSUME Init PROVE IInv
    OBVIOUS
  <1> USE Numbers
  <1>0. /\ <<>> \in Seq(Char) /\ <<>> \in Seq(Nat) /\ Len(<<>>) = 0
    OBVIOUS
  <1>1. QueuesOK
    <2>1. typed \in Seq(Nat)
      BY <1>0, CallsAssumption DEF Init
    <2> QED
      BY <1>0, <2>1 DEF Init, ConsoleInit, QueuesOK
  <1>2. ASSUME CallsInit PROVE ArgumentsOK /\ IndexesOK /\ CallsTypeOK
    <2>1. /\ call.name \in {"fd_write", "_write", "_read"}
          /\ call.pointer \in Addr /\ call.count \in Counts /\ pc = call.name
      BY <1>2 DEF CallsInit
    <2>2. mem \in [Addr -> Nat]
      BY <1>2 DEF CallsInit
    <2> QED
      BY <1>2, <2>1, <2>2, CallsAssumption
      DEF CallsInit, ArgumentsOK, IndexesOK, CallsTypeOK, Nothing
  <1>3. ASSUME ~CallsInit PROVE ArgumentsOK /\ IndexesOK /\ CallsTypeOK
    <2>1. mem \in [Addr -> Nat]
      BY <1>3 DEF Init
    <2> QED
      BY <1>3, <2>1 DEF Init, ArgumentsOK, IndexesOK, CallsTypeOK, Nothing
  <1> QED
    BY <1>1, <1>2, <1>3 DEF IInv

-----------------------------------------------------------------------------
(* Queues. *)
LEMMA One == ASSUME NEW S, NEW s \in Seq(S), Len(s) <= 1, s # <<>>
             PROVE  s = <<Head(s)>> /\ Head(s) \in S /\ Tail(s) = <<>>
  <1>1. Len(s) # 0 /\ Len(s) \in Nat
    BY EmptySeq
  <1>2. Len(s) = 1
    BY <1>1
  <1>3. s[1] \in S
    BY <1>2, ElementOfSeq
  <1>4. Head(s) = s[1] /\ s = <<Head(s)>>
    BY <1>2
  <1>5. Tail(s) \in Seq(S) /\ Len(Tail(s)) = 0
    BY <1>2
  <1>6. Tail(s) = <<>>
    BY <1>5, EmptySeq
  <1> QED
    BY <1>3, <1>4, <1>6

LEMMA Rest == ASSUME NEW S, NEW s \in Seq(S), s # <<>>
              PROVE  s = <<Head(s)>> \o Tail(s) /\ Head(s) \in S /\ Tail(s) \in Seq(S)
  OBVIOUS

(* A free driver may take any number of bytes. *)
LEMMA Put ==
  ASSUME QueuesOK, Free, left' \in Seq(Char), UNCHANGED <<thr, wire, rbr, typed, target>>
  PROVE  QueuesOK' /\ Stream!Put
  <1>1. QueuesOK'
    BY DEF QueuesOK
  <1>2. thr \o left = thr
    BY DEF QueuesOK, Free
  <1>3. /\ Len(thr \o left') >= Len(thr)
        /\ \A k \in 1 .. Len(thr) : (thr \o left')[k] = thr[k]
    BY DEF QueuesOK
  <1> QED
    BY <1>1, <1>2, <1>3 DEF Stream!Put

LEMMA Rested == ASSUME QueuesOK, Silent, UNCHANGED target
                PROVE  QueuesOK' /\ UNCHANGED Stream!channel
  BY DEF QueuesOK, Silent, console, Stream!channel

(* puts prints a prefix of its string. *)
LEMMA Puts == ASSUME QueuesOK, NEW s \in Seq(Char), puts(s), UNCHANGED target
              PROVE  QueuesOK' /\ Stream!Put
  <1>1. strlen(s) \in Nat /\ strlen(s) <= Len(s)
    BY ConsoleAssumption DEF strlen
  <1>2. SubSeq(s, 1, strlen(s)) \in Seq(Char)
    BY <1>1
  <1> QED
    BY <1>2, Put DEF puts

LEMMA Putc == ASSUME QueuesOK, NEW c \in Char, putchar(c), UNCHANGED target
              PROVE  QueuesOK' /\ Stream!Put
  <1>1. uart_putc(c) \in Seq(Char) /\ <<c>> \in Seq(Char)
    BY Numbers DEF uart_putc
  <1> QED
    BY <1>1, Put DEF putchar

(* One byte of the driver: at once on the zkVM, else into the register. *)
LEMMA Writeuartc ==
  ASSUME QueuesOK, writeuartc, UNCHANGED target
  PROVE  QueuesOK' /\ (Stream!Deliver \/ UNCHANGED Stream!channel)
  <1>1. /\ left # <<>> /\ left' = Tail(left)
        /\ left = <<Head(left)>> \o left' /\ Head(left) \in Char /\ left' \in Seq(Char)
    BY Rest DEF writeuartc, QueuesOK
  <1>2. thr = <<>>
    BY DEF writeuartc, TxIdle, QueuesOK
  <1>3. CASE target = "zkvm"
    <2>1. wire' = Append(wire, Head(left)) /\ thr' = <<>>
      BY <1>2, <1>3 DEF writeuartc
    <2>2. thr \o left = left /\ thr' \o left' = left'
      BY <1>1, <1>2, <2>1 DEF QueuesOK
    <2>3. QueuesOK'
      BY <1>1, <2>1 DEF QueuesOK, writeuartc
    <2> QED
      BY <1>1, <2>1, <2>2, <2>3 DEF Stream!Deliver
  <1>4. CASE target # "zkvm"
    <2>1. thr' = <<Head(left)>> /\ wire' = wire
      BY <1>4 DEF writeuartc
    <2>2. thr \o left = thr' \o left'
      BY <1>1, <1>2, <2>1 DEF QueuesOK
    <2>3. QueuesOK'
      BY <1>1, <1>4, <2>1 DEF QueuesOK, writeuartc
    <2> QED
      BY <2>1, <2>2, <2>3 DEF Stream!channel
  <1> QED
    BY <1>3, <1>4

(* A byte leaves the UART. *)
LEMMA Transmitted ==
  ASSUME QueuesOK, Transmit, UNCHANGED target
  PROVE  QueuesOK' /\ Stream!Deliver
  <1>1. thr = <<Head(thr)>> /\ Head(thr) \in Char
    BY One DEF Transmit, QueuesOK
  <1>2. /\ wire' = Append(wire, Head(thr)) /\ thr' = <<>> /\ left' = left
        /\ rbr' = rbr /\ typed' = typed
    BY DEF Transmit
  <1>3. /\ thr \o left # <<>> /\ Head(thr \o left) = Head(thr)
        /\ Tail(thr \o left) = left /\ thr' \o left' = left
    <2> DEFINE h == Head(thr)
    <2>1. thr = <<h>> /\ h \in Char
      BY <1>1
    <2>2. left \in Seq(Char)
      BY DEF QueuesOK
    <2> HIDE DEF h
    <2>3. /\ <<h>> \o left # <<>> /\ Head(<<h>> \o left) = h
          /\ Tail(<<h>> \o left) = left /\ <<>> \o left = left
      BY <2>1, <2>2
    <2>4. Head(thr) = h
      BY <2>1
    <2> QED
      BY <1>2, <2>1, <2>3, <2>4
  <1>4. QueuesOK'
    BY <1>1, <1>2 DEF QueuesOK
  <1> QED
    BY <1>2, <1>3, <1>4 DEF Stream!Deliver

(* Neither typing nor reading touches what is on its way out. *)
LEMMA Received == ASSUME QueuesOK, Receive, UNCHANGED target
                  PROVE  QueuesOK' /\ UNCHANGED Stream!channel
  <1>1. /\ rbr' = <<Head(typed)>> /\ typed' = Tail(typed) /\ typed # <<>>
        /\ left' = left /\ thr' = thr /\ wire' = wire
    BY DEF Receive
  <1>2. rbr' \in Seq(Nat) /\ Len(rbr') = 1 /\ typed' \in Seq(Nat)
    BY <1>1 DEF QueuesOK
  <1> QED
    BY <1>1, <1>2 DEF QueuesOK, Stream!channel

LEMMA Getc == ASSUME QueuesOK, uart_getc, UNCHANGED target
              PROVE  QueuesOK' /\ Head(rbr) \in Nat /\ UNCHANGED Stream!channel
  <1>1. rbr' = <<>> /\ Head(rbr) \in Nat
    BY One DEF uart_getc, QueuesOK
  <1> QED
    BY <1>1 DEF uart_getc, QueuesOK, Stream!channel
-----------------------------------------------------------------------------
(* The calls. *)
Feeds == QueuesOK' /\ (Stream!Put \/ Stream!Deliver \/ UNCHANGED Stream!channel)
Keeps == ArgumentsOK' /\ IndexesOK' /\ CallsTypeOK'

LEMMA Logs == ASSUME QueuesOK, Log, UNCHANGED target PROVE Feeds
  <1>1. Line \in Seq(Char)
    BY Numbers, CallsAssumption
  <1> QED
    BY <1>1, Puts, Rested DEF Log, Feeds

LEMMA StepEnterLogs == ASSUME IInv, EnterLogs, UNCHANGED target PROVE Feeds /\ Keeps
  <1>1. Feeds
    BY Logs DEF IInv, EnterLogs
  <1>2. Keeps
    BY DEF IInv, EnterLogs, Keeps, ArgumentsOK, IndexesOK, CallsTypeOK
  <1> QED
    BY <1>1, <1>2

LEMMA StepRefuse == ASSUME IInv, Refuse, UNCHANGED target PROVE Feeds /\ Keeps
  <1>1. Feeds
    <2>1. Line \in Seq(Char)
      BY Numbers, CallsAssumption
    <2> QED
      BY <2>1, Puts DEF IInv, Refuse, Feeds
  <1>2. Keeps
    BY DEF IInv, Refuse, Keeps, ArgumentsOK, IndexesOK, CallsTypeOK, NOMEM
  <1> QED
    BY <1>1, <1>2

(* The pair is in the memory, and so is the buffer it describes, since
   nothing has been stored since the call was made. *)
LEMMA StepNextBuffer == ASSUME IInv, NextBuffer, UNCHANGED target PROVE Feeds /\ Keeps
  <1> USE Numbers
  <1>1. Feeds
    BY Logs DEF IInv, NextBuffer
  <1>2. /\ pc = "check" /\ call.name = "fd_write" /\ mem = passed
        /\ call.pointer \in Nat /\ call.count \in Nat /\ ciovecIndex \in Nat
        /\ ciovecIndex < call.count /\ ciovecIndex < IOVECS_SIZE
        /\ InMemory(mem, call) /\ mem \in [Addr -> Nat]
    BY DEF IInv, NextBuffer, Left, ArgumentsOK, IndexesOK, CallsTypeOK
  <1>3. /\ call.pointer + 2 * call.count <= Size
        /\ LET v == Pair(mem, call.pointer, ciovecIndex) IN v.base + v.len <= Size
    BY <1>2 DEF InMemory
  <1>4. call.pointer + 2 * ciovecIndex \in Addr /\ call.pointer + 2 * ciovecIndex + 1 \in Addr
    <2> DEFINE p == call.pointer
               n == call.count
    <2>1. p \in Nat /\ n \in Nat /\ ciovecIndex \in Nat /\ ciovecIndex < n /\ p + 2 * n <= Size
      BY <1>2, <1>3
    <2> HIDE DEF p, n
    <2>2. p + 2 * ciovecIndex \in 0 .. Size - 1 /\ p + 2 * ciovecIndex + 1 \in 0 .. Size - 1
      BY <2>1
    <2> QED
      BY <2>2 DEF Addr, p
  <1>5. /\ iovec' = Pair(mem, call.pointer, ciovecIndex)
        /\ iovec'.base \in Nat /\ iovec'.len \in Nat /\ iovec'.base + iovec'.len <= Size
    BY <1>2, <1>3, <1>4 DEF NextBuffer, Pair
  <1>6. total' \in Nat /\ i' = 0 /\ pc' = "putchar"
    BY <1>5 DEF NextBuffer, IInv, CallsTypeOK
  <1>7. UNCHANGED <<mem, passed, call, ciovecIndex, ret>>
    BY DEF NextBuffer
  <1>8. Keeps
    BY <1>2, <1>5, <1>6, <1>7 DEF Keeps, IInv, ArgumentsOK, IndexesOK, CallsTypeOK
  <1> QED
    BY <1>1, <1>8

LEMMA StepPutchar == ASSUME IInv, Putchar, UNCHANGED target PROVE Feeds /\ Keeps
  <1> USE Numbers
  <1>1. /\ iovec.base \in Nat /\ iovec.len \in Nat /\ iovec.base + iovec.len <= Size
        /\ i \in Nat /\ i < iovec.len /\ mem \in [Addr -> Nat]
    BY DEF IInv, Putchar, IndexesOK, CallsTypeOK
  <1>2. iovec.base + i \in Addr
    BY <1>1 DEF Addr
  <1>3. mem[iovec.base + i] \in Char
    BY <1>1, <1>2
  <1>4. Feeds
    BY <1>3, Putc DEF IInv, Putchar, Feeds
  <1>5. Keeps
    BY <1>1 DEF Keeps, IInv, Putchar, ArgumentsOK, IndexesOK, CallsTypeOK
  <1> QED
    BY <1>4, <1>5

LEMMA StepBufferDone == ASSUME IInv, BufferDone, UNCHANGED target PROVE Feeds /\ Keeps
  <1>1. Feeds
    BY Rested DEF IInv, BufferDone, Feeds
  <1>2. Keeps
    BY DEF IInv, BufferDone, Keeps, ArgumentsOK, IndexesOK, CallsTypeOK
  <1> QED
    BY <1>1, <1>2

LEMMA StepReturn == ASSUME IInv, Return, UNCHANGED target PROVE Feeds /\ Keeps
  <1>1. Feeds
    BY Rested DEF IInv, Return, Feeds
  <1>2. mem' \in [Addr -> Nat]
    BY DEF IInv, Return, CallsTypeOK
  <1>3. Keeps
    BY <1>2 DEF IInv, Return, Keeps, ArgumentsOK, IndexesOK, CallsTypeOK, SUCCESS
  <1> QED
    BY <1>1, <1>3

LEMMA StepBadFile == ASSUME IInv, BadFile, UNCHANGED target PROVE Feeds /\ Keeps
  <1>1. Feeds
    BY Rested DEF IInv, BadFile, Feeds
  <1>2. Keeps
    BY DEF IInv, BadFile, Keeps, ArgumentsOK, IndexesOK, CallsTypeOK
  <1> QED
    BY <1>1, <1>2

LEMMA Step_write == ASSUME IInv, _write, UNCHANGED target PROVE Feeds /\ Keeps
  <1>1. Feeds
    BY Rested DEF IInv, _write, Feeds
  <1>2. /\ call.pointer \in Nat /\ call.count \in Nat
        /\ call.pointer + call.count <= Size
    BY DEF IInv, _write, ArgumentsOK, InMemory
  <1>3. iovec'.base = call.pointer /\ iovec'.len = call.count
    BY DEF _write, TheBuffer
  <1>4. Keeps
    BY <1>2, <1>3, Numbers DEF IInv, _write, Keeps, ArgumentsOK, IndexesOK, CallsTypeOK
  <1> QED
    BY <1>1, <1>4

LEMMA Step_writeReturns == ASSUME IInv, _writeReturns, UNCHANGED target PROVE Feeds /\ Keeps
  <1>1. Feeds
    BY Rested DEF IInv, _writeReturns, Feeds
  <1>2. Keeps
    BY DEF IInv, _writeReturns, Keeps, ArgumentsOK, IndexesOK, CallsTypeOK
  <1> QED
    BY <1>1, <1>2

LEMMA Step_read == ASSUME IInv, _read, UNCHANGED target PROVE Feeds /\ Keeps
  <1>1. Feeds /\ Head(rbr) \in Nat
    BY Getc DEF IInv, _read, Feeds
  <1>2. mem' \in [Addr -> Nat]
    BY <1>1 DEF IInv, _read, CallsTypeOK
  <1>3. Keeps
    BY <1>2 DEF IInv, _read, Keeps, ArgumentsOK, IndexesOK, CallsTypeOK
  <1> QED
    BY <1>1, <1>3

LEMMA Step_readReturns == ASSUME IInv, _readReturns, UNCHANGED target PROVE Feeds /\ Keeps
  <1>1. Feeds
    BY Rested DEF IInv, _readReturns, Feeds
  <1>2. Keeps
    BY DEF IInv, _readReturns, Keeps, ArgumentsOK, IndexesOK, CallsTypeOK
  <1> QED
    BY <1>1, <1>2

(* What is not a call leaves the call alone. *)
LEMMA OtherStep == ASSUME IInv, UNCHANGED calls PROVE Keeps
  BY DEF IInv, calls, Keeps, ArgumentsOK, IndexesOK, CallsTypeOK, InMemory, Pair
-----------------------------------------------------------------------------
(* The imports. *)
Digs(val) == [k \in 1 .. Digits |-> Hex[1 + (Shifted(val)[Digits - k] % Chars)]]

(* The function by which Shifted is defined, and its values. *)
Shifts(val, m, f) == f = [n \in 0 .. m |-> IF n = 0 THEN val ELSE f[n - 1] \div Chars]

LEMMA ShiftsGrow == ASSUME NEW val, NEW m \in Nat, NEW f, Shifts(val, m, f)
                    PROVE  \E g : Shifts(val, m + 1, g)
  <1> DEFINE g == [n \in 0 .. m + 1 |-> IF n = m + 1 THEN f[m] \div Chars ELSE f[n]]
  <1> SUFFICES Shifts(val, m + 1, g)
    OBVIOUS
  <1>1. \A n \in 0 .. m : f[n] = IF n = 0 THEN val ELSE f[n - 1] \div Chars
    BY DEF Shifts
  <1>2. ASSUME NEW n \in 0 .. m + 1
        PROVE  g[n] = IF n = 0 THEN val ELSE g[n - 1] \div Chars
    <2>1. CASE n = m + 1
      <3>1. n - 1 = m /\ n # 0 /\ m \in 0 .. m + 1 /\ m # m + 1
        BY <2>1
      <3> QED
        BY <2>1, <3>1
    <2>2. CASE n # m + 1
      <3>1. n \in 0 .. m /\ g[n] = f[n]
        BY <2>2
      <3>2. n # 0 => n - 1 \in 0 .. m + 1 /\ n - 1 # m + 1 /\ g[n - 1] = f[n - 1]
        BY <3>1
      <3> QED
        BY <1>1, <3>1, <3>2
    <2> QED
      BY <2>1, <2>2
  <1>3. g = [n \in 0 .. m + 1 |-> g[n]]
    OBVIOUS
  <1> HIDE DEF g
  <1> QED
    BY <1>2, <1>3 DEF Shifts

LEMMA ShiftsExist == \A val : \A m \in Nat : \E f : Shifts(val, m, f)
  <1> SUFFICES ASSUME NEW val, NEW n \in Nat, ~\E f : Shifts(val, n, f) PROVE FALSE
    OBVIOUS
  <1> DEFINE Bad == {m \in Nat : ~\E f : Shifts(val, m, f)}
  <1>1. PICK m \in Bad : \A y \in Bad : m <= y
    <2>1. Bad \subseteq Nat /\ n \in Bad
      OBVIOUS
    <2> HIDE DEF Bad
    <2> QED
      BY <2>1, Least
  <1>2. Shifts(val, 0, [k \in 0 .. 0 |-> val])
    BY DEF Shifts
  <1>3. m \in Nat /\ m # 0 /\ m - 1 \in Nat /\ (m - 1) + 1 = m
    BY <1>2
  <1>4. m - 1 \notin Bad
    BY <1>1, <1>3
  <1>5. PICK f : Shifts(val, m - 1, f)
    BY <1>3, <1>4
  <1>6. \E g : Shifts(val, (m - 1) + 1, g)
    BY <1>3, <1>5, ShiftsGrow
  <1> QED
    BY <1>3, <1>6

LEMMA OneShift == \A val : \A n \in 0 .. Digits :
                    Shifted(val)[n] = IF n = 0 THEN val ELSE Shifted(val)[n - 1] \div Chars
  <1> SUFFICES ASSUME NEW val
               PROVE  \A n \in 0 .. Digits :
                        Shifted(val)[n] = IF n = 0 THEN val ELSE Shifted(val)[n - 1] \div Chars
    OBVIOUS
  <1>1. \E f : Shifts(val, Digits, f)
    BY ShiftsExist, ImportsAssumption
  <1>2. Shifted(val) = CHOOSE f : Shifts(val, Digits, f)
    BY DEF Shifted, Shifts
  <1>3. Shifts(val, Digits, Shifted(val))
    BY <1>1, <1>2
  <1> QED
    BY <1>3 DEF Shifts

LEMMA ShiftedType == ASSUME NEW val \in Nat, NEW n \in 0 .. Digits PROVE Shifted(val)[n] \in Nat
  <1> SUFFICES ASSUME Shifted(val)[n] \notin Nat PROVE FALSE
    OBVIOUS
  <1> DEFINE Bad == {m \in 0 .. Digits : Shifted(val)[m] \notin Nat}
  <1>1. PICK m \in Bad : \A y \in Bad : m <= y
    <2>1. Bad \subseteq Nat /\ n \in Bad
      BY ImportsAssumption
    <2> HIDE DEF Bad
    <2> QED
      BY <2>1, Least
  <1>2. Chars \in Nat \ {0}
    BY ImportsAssumption, EmptySeq DEF Chars
  <1>3. CASE m = 0
    BY <1>1, <1>3, OneShift
  <1>4. CASE m # 0
    <2>1. m - 1 \in 0 .. Digits /\ m - 1 \notin Bad
      BY <1>1, <1>4, ImportsAssumption
    <2>2. Shifted(val)[m - 1] \in Nat
      BY <2>1
    <2>3. Shifted(val)[m] = Shifted(val)[m - 1] \div Chars
      BY <1>1, <1>4, OneShift
    <2>4. \A x \in Nat : x \div Chars \in Nat
      BY <1>2
    <2> QED
      BY <1>1, <2>2, <2>3, <2>4
  <1> QED
    BY <1>3, <1>4

(* A line is the prefix, a character for each digit, and the line feed. *)
LEMMA HexLineIs ==
  ASSUME NEW val \in Nat
  PROVE  /\ HexLine(val) \in Seq(Nat) /\ Len(HexLine(val)) = Len(Prefix) + Digits + 1
         /\ \A d \in 1 .. Digits : HexLine(val)[Len(Prefix) + d]
                                     = Hex[1 + (Shifted(val)[Digits - d] % Chars)]
  <1> DEFINE P == Prefix
             D == Digs(val)
             digit(k) == Hex[1 + (Shifted(val)[Digits - k] % Chars)]
  <1>1. /\ P \in Seq(Nat) /\ LF \in Nat /\ Digits \in Nat /\ Chars \in Nat \ {0}
        /\ Hex \in Seq(Nat)
    <2>1. \A s \in Seq(Byte) : s \in Seq(Nat)
      BY Numbers
    <2> QED
      BY <2>1, Numbers, ImportsAssumption, EmptySeq DEF Chars, Char
  <1>2. \A k \in 1 .. Digits : digit(k) \in Nat
    <2> SUFFICES ASSUME NEW k \in 1 .. Digits PROVE digit(k) \in Nat
      OBVIOUS
    <2>1. Shifted(val)[Digits - k] \in Nat
      BY <1>1, ShiftedType
    <2>2. \A x \in Nat : 1 + (x % Chars) \in 1 .. Len(Hex)
      BY <1>1 DEF Chars
    <2>3. \A h \in 1 .. Len(Hex) : Hex[h] \in Nat
      BY <1>1
    <2> QED
      BY <2>1, <2>2, <2>3
  <1>3. /\ D \in [1 .. Digits -> Nat] /\ \A k \in 1 .. Digits : D[k] = digit(k)
    BY <1>2 DEF Digs
  <1>4. HexLine(val) = P \o D \o <<LF>>
    BY DEF HexLine, Digs
  <1> HIDE DEF P, D
  <1>5. D \in Seq(Nat) /\ Len(D) = Digits
    BY <1>1, <1>3
  <1>6. /\ (P \o D) \o <<LF>> \in Seq(Nat) /\ Len((P \o D) \o <<LF>>) = Len(P) + Digits + 1
        /\ \A d \in 1 .. Digits : ((P \o D) \o <<LF>>)[Len(P) + d] = D[d]
    <2>1. P \o D \in Seq(Nat) /\ Len(P \o D) = Len(P) + Digits
      BY <1>1, <1>5
    <2>2. \A d \in 1 .. Digits : (P \o D)[Len(P) + d] = D[d]
      BY <1>1, <1>5
    <2> DEFINE Q == P \o D
    <2>3. Q \in Seq(Nat) /\ Len(Q) = Len(P) + Digits /\ Len(P) \in Nat
      BY <1>1, <2>1
    <2> HIDE DEF Q
    <2>4. /\ Q \o <<LF>> \in Seq(Nat) /\ Len(Q \o <<LF>>) = Len(Q) + 1
          /\ \A k \in 1 .. Len(Q) : (Q \o <<LF>>)[k] = Q[k]
      BY <1>1, <2>3
    <2>5. \A d \in 1 .. Digits : Len(P) + d \in 1 .. Len(Q)
      BY <1>1, <2>3
    <2> QED
      BY <2>2, <2>3, <2>4, <2>5 DEF Q
  <1> QED
    BY <1>3, <1>4, <1>6 DEF P

LEMMA HexLines == \A val \in Vals : HexLine(val) \in Seq(Char)
  BY HexLineIs, ImportsAssumption DEF Char

LEMMA StepImport == ASSUME IInv, Import, UNCHANGED target PROVE Feeds
  <1>1. ASSUME NEW val \in Vals, Printk(val) PROVE Feeds
    <2>1. HexLine(val) \in Seq(Char) /\ HexLine(val) \o <<LF>> \in Seq(Char)
      BY HexLines, Numbers
    <2>2. CASE Silent
      BY <2>2, Rested DEF Feeds, IInv
    <2>3. CASE puts(HexLine(val))
      BY <2>1, <2>3, Puts DEF Feeds, IInv
    <2>4. CASE left' = HexLine(val) \o <<LF>> /\ UNCHANGED <<thr, wire, rbr, typed>>
      BY <2>1, <2>4, <1>1, Put DEF Feeds, IInv, Printk
    <2> QED
      BY <1>1, <2>2, <2>3, <2>4 DEF Printk
  <1>2. ASSUME ReadInputData \/ MakeFails \/ GetByte \/ Got PROVE Feeds
    <2>1. Silent
      BY <1>2 DEF ReadInputData, MakeFails, GetByte, Got
    <2> QED
      BY <2>1, Rested DEF Feeds, IInv
  <1> QED
    BY <1>1, <1>2 DEF Import

(* Every step keeps the invariant and is one of the channel's. *)
LEMMA EveryStep ==
  ASSUME IInv, [Program \/ Device \/ Over]_vars
  PROVE  Feeds /\ Keeps
  <1>1. ASSUME Call, UNCHANGED <<target, imports>> PROVE Feeds /\ Keeps
    BY <1>1, StepEnterLogs, StepRefuse, StepNextBuffer, StepPutchar, StepBufferDone,
       StepReturn, StepBadFile, Step_write, Step_writeReturns, Step_read, Step_readReturns
    DEF Call
  <1>2. ASSUME Import, UNCHANGED <<target, calls>> PROVE Feeds /\ Keeps
    BY <1>2, StepImport, OtherStep
  <1>3. ASSUME writeuartc, UNCHANGED <<target, calls, imports>> PROVE Feeds /\ Keeps
    BY <1>3, Writeuartc, OtherStep DEF IInv, Feeds
  <1>4. ASSUME Device PROVE Feeds /\ Keeps
    BY <1>4, Transmitted, Received, OtherStep DEF IInv, Feeds, Device, Uart
  <1>5. ASSUME UNCHANGED vars PROVE Feeds /\ Keeps
    <2>1. Silent /\ UNCHANGED <<target, calls>>
      BY <1>5 DEF vars, Silent
    <2> QED
      BY <2>1, Rested, OtherStep DEF IInv, Feeds
  <1> QED
    BY <1>1, <1>2, <1>3, <1>4, <1>5 DEF Program, Over

(* The inductive invariant holds in every state. *)
THEOREM InductiveInvariant == Spec => []IInv
  <1>1. IInv /\ [Program \/ Device \/ Over]_vars => IInv'
    BY EveryStep DEF Feeds, Keeps, IInv
  <1> QED
    BY Initially, <1>1, PTL DEF Spec

(* The calls stay within iovecs, the buffer and the memory. *)
THEOREM TypeCorrect == Spec => []CallsTypeOK
  <1>1. IInv => CallsTypeOK
    BY DEF IInv
  <1> QED
    BY InductiveInvariant, <1>1, PTL

(* Drivers and UART are a lossless channel, whoever feeds them. *)
THEOREM Refinement == Spec => ImplementsChannel
  <1>1. Init => Stream!Init
    BY DEF Init, ConsoleInit, Stream!Init
  <1>2. IInv /\ [Program \/ Device \/ Over]_vars => [Stream!Next]_(Stream!channel)
    BY EveryStep DEF Feeds, Stream!Next
  <1> QED
    BY InductiveInvariant, <1>1, <1>2, PTL DEF Spec, ImplementsChannel, Stream!Safe
-----------------------------------------------------------------------------
(* The output area of the zkVM. *)
AreaTells == area = [a \in 0 .. RamTop |->
                      IF a \in {0, CountAt} THEN Len(printed)
                      ELSE IF a <= Len(printed) THEN printed[a] ELSE booted[a]]

AreaInv == /\ printed \in Seq(Nat)
           /\ target = "zkvm" /\ Len(printed) <= Capacity => AreaTells

LEMMA AreaInitially == Init => AreaInv
  <1> SUFFICES ASSUME Init PROVE AreaInv
    OBVIOUS
  <1>1. /\ booted \in [0 .. RamTop -> {0, 1}] /\ booted[CountAt] = 0
        /\ \A a \in 0 .. RamTop : a <= Capacity => booted[a] = 0
        /\ area = booted /\ printed = <<>>
    BY DEF Init, ImportsInit
  <1>2. booted[0] = 0
    BY <1>1, ImportsAssumption
  <1>3. Len(printed) = 0 /\ printed \in Seq(Nat)
    BY <1>1
  <1>4. \A a \in 0 .. RamTop :
          booted[a] = IF a \in {0, CountAt} THEN 0
                      ELSE IF a <= 0 THEN printed[a] ELSE booted[a]
    BY <1>1, <1>2
  <1> QED
    BY <1>1, <1>3, <1>4 DEF AreaInv, AreaTells

(* One more value: the slot is behind the last one and before outputCount. *)
LEMMA StepPrintk == ASSUME AreaInv, NEW val \in Vals, Printk(val), UNCHANGED target
                    PROVE  AreaInv'
  <1>1. printed' = Append(printed, val) /\ booted' = booted /\ val \in Nat
    BY ImportsAssumption DEF Printk
  <1>2. /\ printed' \in Seq(Nat) /\ Len(printed') = Len(printed) + 1 /\ Len(printed) \in Nat
        /\ \A k \in 1 .. Len(printed) : printed'[k] = printed[k]
        /\ printed'[Len(printed) + 1] = val
    BY <1>1 DEF AreaInv
  <1>3. ASSUME target = "zkvm", Len(printed') <= Capacity PROVE AreaTells'
    <2> DEFINE n == Len(printed)
    <2>0. n \in Nat /\ n + 1 <= Capacity /\ Capacity \in Nat
      BY <1>2, <1>3, ImportsAssumption
    <2>1. n \in Nat /\ n + 1 <= Capacity /\ AreaTells
      <3>1. n <= Capacity
        BY <2>0
      <3> QED
        BY <2>0, <3>1, <1>3 DEF AreaInv
    <2>2. /\ CountAt \in 0 .. RamTop /\ CountAt > Capacity
          /\ 0 \in 0 .. RamTop /\ n + 1 \in 0 .. RamTop /\ n + 1 # CountAt /\ CountAt # 0
      BY <2>1, ImportsAssumption
    <2>3. area[CountAt] = n
      BY <2>1, <2>2 DEF AreaTells
    <2>4. area' = [[area EXCEPT ![CountAt] = n + 1, ![0] = n + 1] EXCEPT ![n + 1] = val]
      BY <1>3, <2>3 DEF Printk, printk, OutputCount, Slot
    <2>5. DOMAIN area = 0 .. RamTop
      BY <2>1 DEF AreaTells
    <2> HIDE DEF n
    <2>6. \A a \in 0 .. RamTop :
            area'[a] = IF a \in {0, CountAt} THEN n + 1
                       ELSE IF a <= n + 1 THEN printed'[a] ELSE booted[a]
      <3> SUFFICES ASSUME NEW a \in 0 .. RamTop
                   PROVE  area'[a] = IF a \in {0, CountAt} THEN n + 1
                                     ELSE IF a <= n + 1 THEN printed'[a] ELSE booted[a]
        OBVIOUS
      <3>1. CASE a \in {0, CountAt}
        BY <2>1, <2>2, <2>4, <2>5, <3>1
      <3>2. CASE a = n + 1
        BY <1>2, <2>1, <2>2, <2>4, <2>5, <3>2 DEF n
      <3>3. CASE a \notin {0, CountAt, n + 1}
        <4>1. area'[a] = area[a]
          BY <2>4, <2>5, <3>3
        <4>2. area[a] = IF a <= n THEN printed[a] ELSE booted[a]
          BY <2>1, <3>3 DEF AreaTells, n
        <4>3. a <= n => printed'[a] = printed[a]
          BY <1>2, <3>3 DEF n
        <4>4. a <= n + 1 <=> a <= n
          BY <2>1, <3>3
        <4> QED
          BY <3>3, <4>1, <4>2, <4>3, <4>4
      <3> QED
        BY <3>1, <3>2, <3>3
    <2>7. area' = [a \in 0 .. RamTop |-> area'[a]]
      BY <2>4, <2>5
    <2>8. Len(printed') = n + 1
      BY <1>2 DEF n
    <2> QED
      BY <1>1, <2>6, <2>7, <2>8 DEF AreaTells
  <1> QED
    BY <1>2, <1>3 DEF AreaInv

LEMMA OtherThanPrintk == ASSUME AreaInv, UNCHANGED <<target, area, booted, printed>>
                         PROVE  AreaInv'
  BY DEF AreaInv, AreaTells

(* However many values a guest prints, as long as they fit, the output area
   holds them and no variable behind it has changed. *)
LEMMA OutputAreaTells == Spec => [](target = "zkvm" => PrintkTells)
  <1>1. AreaInv /\ [Program \/ Device \/ Over]_vars => AreaInv'
    <2> SUFFICES ASSUME AreaInv, [Program \/ Device \/ Over]_vars PROVE AreaInv'
      OBVIOUS
    <2>1. ASSUME NEW val \in Vals, Printk(val), UNCHANGED target PROVE AreaInv'
      BY <2>1, StepPrintk
    <2>2. ASSUME ReadInputData \/ MakeFails \/ GetByte \/ Got, UNCHANGED target PROVE AreaInv'
      BY <2>2, OtherThanPrintk DEF ReadInputData, MakeFails, GetByte, Got
    <2>3. ASSUME UNCHANGED <<target, imports>> PROVE AreaInv'
      BY <2>3, OtherThanPrintk DEF imports
    <2> QED
      BY <2>1, <2>2, <2>3 DEF Program, Device, Over, Import, vars
  <1>2. AreaInv => (target = "zkvm" => PrintkTells)
    BY DEF AreaInv, AreaTells, PrintkTells
  <1> QED
    BY AreaInitially, <1>1, <1>2, PTL DEF Spec
-----------------------------------------------------------------------------
(* The line that _read reads. *)
Bytes(m, c, n) == [k \in 1 .. n |-> m[c.pointer + k - 1]]

(* n bytes have come from the keyboard into the buffer, and no more. *)
Taken(n) == /\ Bytes(mem, call, n) \o rbr \o typed \in Inputs
            /\ \A a \in Addr : a \notin call.pointer .. call.pointer + n - 1 => mem[a] = passed[a]

HasLine == /\ ret \in 0 .. call.count /\ Taken(ret)
           /\ \A k \in 1 .. ret - 1 : Bytes(mem, call, ret)[k] \notin {LF, CR}
           /\ ret = call.count \/ Bytes(mem, call, ret)[ret] \in {LF, CR}

ReadInv == /\ pc = "_read" => /\ i <= call.count /\ Taken(i)
                              /\ \A k \in 1 .. i : Bytes(mem, call, i)[k] \notin {LF, CR}
           /\ pc = "done" /\ call.name = "_read" /\ ret # -1 => HasLine

LEMMA ReadInitially == Init => ReadInv
  <1> SUFFICES ASSUME Init PROVE ReadInv
    OBVIOUS
  <1>1. pc # "done"
    BY DEF Init, CallsInit
  <1>2. ASSUME pc = "_read"
        PROVE  i = 0 /\ call.count \in Nat /\ rbr = <<>> /\ typed \in Inputs /\ mem = passed
    <2>1. CallsInit /\ ConsoleInit
      BY <1>2 DEF Init
    <2>2. call.name = "_read"
      BY <1>2, <2>1 DEF CallsInit
    <2>3. target = "wamr"
      BY <2>1, <2>2 DEF CallsInit
    <2>4. call.count \in Counts
      BY <2>1 DEF CallsInit
    <2> QED
      BY <1>2, <2>1, <2>3, <2>4, CallsAssumption DEF Init, CallsInit, ConsoleInit
  <1>3. ASSUME pc = "_read" PROVE Taken(0)
    <2>1. Bytes(mem, call, 0) = <<>>
      BY DEF Bytes
    <2>2. typed \in Seq(Nat)
      BY <1>2, <1>3, Numbers, CallsAssumption
    <2>3. (<<>> \o <<>>) \o typed = typed
      BY <2>2
    <2> QED
      BY <1>2, <1>3, <2>1, <2>3 DEF Taken
  <1> QED
    BY <1>1, <1>2, <1>3 DEF ReadInv

(* A byte passes from one queue to the next. *)
LEMMA Reads == \A g, r, t \in Seq(Nat) : Len(r) <= 1 /\ r # <<>> =>
                 (g \o r) \o t = (Append(g, Head(r)) \o <<>>) \o t
  <1> SUFFICES ASSUME NEW g \in Seq(Nat), NEW r \in Seq(Nat), NEW t \in Seq(Nat),
                      Len(r) <= 1, r # <<>>
               PROVE  (g \o r) \o t = (Append(g, Head(r)) \o <<>>) \o t
    OBVIOUS
  <1> DEFINE h == Head(r)
  <1>1. r = <<h>> /\ h \in Nat
    BY One
  <1> HIDE DEF h
  <1>2. g \o <<h>> = Append(g, h) /\ Append(g, h) \o <<>> = Append(g, h)
    BY <1>1
  <1>3. g \o r = Append(g, h) \o <<>>
    BY <1>1, <1>2
  <1> QED
    BY <1>3 DEF h

LEMMA Types == \A g, t \in Seq(Nat) : t # <<>> =>
                 (g \o <<>>) \o t = (g \o <<Head(t)>>) \o Tail(t)
  <1> SUFFICES ASSUME NEW g \in Seq(Nat), NEW t \in Seq(Nat), t # <<>>
               PROVE  (g \o <<>>) \o t = (g \o <<Head(t)>>) \o Tail(t)
    OBVIOUS
  <1> DEFINE h == Head(t)
             e == Tail(t)
  <1>1. h \in Nat /\ e \in Seq(Nat) /\ t = <<h>> \o e
    OBVIOUS
  <1> HIDE DEF h, e
  <1>2. g \o (<<h>> \o e) = (g \o <<h>>) \o e
    BY <1>1
  <1>3. g \o <<>> = g
    OBVIOUS
  <1> QED
    BY <1>1, <1>2, <1>3 DEF h, e

(* The bytes taken so far, and one more. *)
LEMMA OneMore == ASSUME IInv, ReadInv, _read
                 PROVE  /\ Bytes(mem', call, i + 1) = Append(Bytes(mem, call, i), Head(rbr))
                        /\ Bytes(mem, call, i) \in Seq(Nat) /\ Head(rbr) \in Nat
                        /\ Bytes(mem', call, i + 1)[i + 1] = Head(rbr)
                        /\ \A k \in 1 .. i : Bytes(mem', call, i + 1)[k] = Bytes(mem, call, i)[k]
                        /\ \A a \in Addr : a # call.pointer + i => mem'[a] = mem[a]
  <1> USE Numbers
  <1> DEFINE p == call.pointer
             n == call.count
             h == Head(rbr)
  <1>1. /\ p \in Nat /\ n \in Nat /\ p + n <= Size /\ i \in Nat /\ i < n
        /\ mem \in [Addr -> Nat]
    BY DEF IInv, _read, ArgumentsOK, InMemory, CallsTypeOK
  <1>2. h \in Nat
    BY One DEF IInv, QueuesOK, _read, uart_getc
  <1>3. mem' = [mem EXCEPT ![p + i] = h]
    BY DEF _read
  <1>4. \A k \in 1 .. i + 1 : p + k - 1 \in Addr
    BY <1>1 DEF Addr
  <1> HIDE DEF p, n, h
  <1>5. /\ mem'[p + i] = h
        /\ \A a \in Addr : a # p + i => mem'[a] = mem[a]
    <2>1. p + i \in Addr
      BY <1>1 DEF Addr
    <2> QED
      BY <1>1, <1>3, <2>1
  <1> DEFINE b == [k \in 1 .. i |-> mem[p + k - 1]]
             c == [k \in 1 .. i + 1 |-> mem'[p + k - 1]]
  <1>6. b \in [1 .. i -> Nat]
    <2> SUFFICES ASSUME NEW k \in 1 .. i PROVE mem[p + k - 1] \in Nat
      OBVIOUS
    <2>1. k \in 1 .. i + 1
      BY <1>1
    <2> QED
      BY <1>1, <1>4, <2>1
  <1>7. \A k \in 1 .. i : c[k] = b[k]
    BY <1>1, <1>4, <1>5
  <1>8. c[i + 1] = h
    BY <1>1, <1>5
  <1>9. DOMAIN c = 1 .. i + 1 /\ c = [k \in 1 .. i + 1 |-> c[k]]
    OBVIOUS
  <1>10. Bytes(mem, call, i) = b /\ Bytes(mem', call, i + 1) = c
    BY DEF Bytes, p
  <1> HIDE DEF b, c
  <1>11. b \in Seq(Nat) /\ Len(b) = i
    BY <1>1, <1>6
  <1>12. c = Append(b, h)
    <2> DEFINE d == Append(b, h)
    <2>1. /\ d \in Seq(Nat) /\ Len(d) = i + 1 /\ d[i + 1] = h
          /\ \A k \in 1 .. i : d[k] = b[k]
      BY <1>1, <1>2, <1>11
    <2> HIDE DEF d
    <2>2. d = [k \in 1 .. i + 1 |-> d[k]]
      BY <2>1
    <2>3. \A k \in 1 .. i + 1 : k \in 1 .. i \/ k = i + 1
      BY <1>1
    <2>4. \A k \in 1 .. i + 1 : c[k] = d[k]
      BY <1>7, <1>8, <2>1, <2>3
    <2>5. c = d
      BY <1>9, <2>2, <2>4
    <2> QED
      BY <2>5 DEF d
  <1> QED
    BY <1>2, <1>5, <1>7, <1>8, <1>10, <1>11, <1>12 DEF h, p

LEMMA ReadStep == ASSUME IInv, ReadInv, _read PROVE ReadInv'
  <1>1. /\ pc = "_read" /\ i \in Nat /\ i < call.count /\ call.count \in Nat
        /\ call.pointer \in Nat /\ Taken(i)
        /\ \A k \in 1 .. i : Bytes(mem, call, i)[k] \notin {LF, CR}
    BY DEF IInv, ReadInv, _read, ArgumentsOK, CallsTypeOK
  <1>2. /\ i' = i + 1 /\ UNCHANGED <<passed, call, typed>> /\ rbr' = <<>> /\ rbr # <<>>
    BY DEF _read, uart_getc
  <1>3. Taken(i)'
    <2>1. Bytes(mem, call, i) \o rbr \o typed = Bytes(mem', call, i + 1) \o <<>> \o typed
      <3> DEFINE g == Bytes(mem, call, i)
      <3>1. g \in Seq(Nat) /\ Bytes(mem', call, i + 1) = Append(g, Head(rbr))
        BY OneMore
      <3>2. rbr \in Seq(Nat) /\ typed \in Seq(Nat) /\ Len(rbr) <= 1 /\ rbr # <<>>
        BY <1>2 DEF IInv, QueuesOK
      <3> HIDE DEF g
      <3>3. (g \o rbr) \o typed = (Append(g, Head(rbr)) \o <<>>) \o typed
        BY <3>1, <3>2, Reads
      <3> QED
        BY <3>1, <3>3 DEF g
    <2>2. ASSUME NEW a \in Addr, a \notin call.pointer .. call.pointer + i
          PROVE  mem'[a] = passed[a]
      <3>1. a # call.pointer + i /\ a \notin call.pointer .. call.pointer + i - 1
        BY <1>1, <2>2, Numbers
      <3> QED
        BY <1>1, <3>1, OneMore DEF Taken
    <2>3. call.pointer + i' - 1 = call.pointer + i
      BY <1>1, <1>2
    <2> QED
      BY <1>1, <1>2, <2>1, <2>2, <2>3 DEF Taken
  <1>4. CASE Head(rbr) \in {LF, CR}
    <2>1. pc' = "done" /\ ret' = i + 1
      BY <1>2, <1>4 DEF _read
    <2>2. \A k \in 1 .. ret' - 1 : Bytes(mem', call', ret')[k] \notin {LF, CR}
      <3>1. ret' - 1 = i /\ call' = call
        BY <1>1, <1>2, <2>1
      <3>2. \A k \in 1 .. i : Bytes(mem', call, i + 1)[k] \notin {LF, CR}
        BY <1>1, OneMore
      <3> QED
        BY <2>1, <3>1, <3>2
    <2>3. Bytes(mem', call', ret')[ret'] \in {LF, CR}
      BY <1>2, <1>4, <2>1, OneMore
    <2>4. Taken(ret)'
      BY <1>2, <1>3, <2>1 DEF Taken
    <2>5. ret' \in 0 .. call'.count
      BY <1>1, <1>2, <2>1
    <2> QED
      BY <2>1, <2>2, <2>3, <2>4, <2>5 DEF ReadInv, HasLine
  <1>5. CASE Head(rbr) \notin {LF, CR}
    <2>1. pc' = "_read"
      BY <1>1, <1>5 DEF _read
    <2>2. \A k \in 1 .. i' : Bytes(mem', call', i')[k] \notin {LF, CR}
      <3>1. i' = i + 1 /\ call' = call
        BY <1>2
      <3>2. \A k \in 1 .. i : Bytes(mem', call, i + 1)[k] \notin {LF, CR}
        BY <1>1, OneMore
      <3>3. \A k \in 1 .. i + 1 : k \in 1 .. i \/ k = i + 1
        BY <1>1
      <3>4. Bytes(mem', call, i + 1)[i + 1] \notin {LF, CR}
        BY <1>5, OneMore
      <3> QED
        BY <3>1, <3>2, <3>3, <3>4
    <2> QED
      BY <1>1, <1>2, <1>3, <2>1, <2>2 DEF ReadInv
  <1> QED
    BY <1>4, <1>5

(* What else may happen while the program reads, or afterwards. *)
LEMMA Received1 ==
  ASSUME IInv, Receive, UNCHANGED calls, NEW n \in Nat, Taken(n),
         n <= call.count, pc # "none", call.name = "_read"
  PROVE  Taken(n)'
  <1>1. /\ rbr = <<>> /\ typed # <<>> /\ rbr' = <<Head(typed)>> /\ typed' = Tail(typed)
        /\ typed \in Seq(Nat) /\ UNCHANGED <<mem, passed, call>>
    BY DEF Receive, IInv, QueuesOK, calls
  <1>2. /\ call.pointer \in Nat /\ call.count \in Nat /\ call.pointer + call.count <= Size
        /\ mem \in [Addr -> Nat]
    BY DEF IInv, ArgumentsOK, InMemory, CallsTypeOK
  <1> DEFINE g == Bytes(mem, call, n)
  <1>3. g \in [1 .. n -> Nat]
    <2> SUFFICES ASSUME NEW k \in 1 .. n PROVE mem[call.pointer + k - 1] \in Nat
      BY DEF Bytes
    <2> DEFINE p == call.pointer
               c == call.count
    <2>1. p \in Nat /\ c \in Nat /\ p + c <= Size /\ n <= c
      BY <1>2
    <2> HIDE DEF p, c
    <2>2. p + k - 1 \in Addr
      BY <2>1, Numbers DEF Addr
    <2> QED
      BY <1>2, <2>2 DEF p
  <1>4. g \in Seq(Nat)
    <2> HIDE DEF g
    <2> QED
      BY <1>3
  <1>5. (g \o rbr) \o typed = (g \o rbr') \o typed'
    <2> HIDE DEF g
    <2> QED
      BY <1>1, <1>4, Types
  <1> QED
    BY <1>1, <1>5 DEF Taken

LEMMA ReceiveStep == ASSUME IInv, ReadInv, Receive, UNCHANGED calls PROVE ReadInv'
  <1>1. UNCHANGED <<mem, passed, call, pc, i, ret>> /\ i \in Nat
    BY DEF calls, IInv, CallsTypeOK
  <1>2. ASSUME pc = "_read" PROVE Taken(i)'
    <2>1. call.name = "_read" /\ i <= call.count /\ Taken(i)
      BY <1>2 DEF IInv, ArgumentsOK, ReadInv
    <2>2. \A n \in Nat : n = i => Taken(n)'
      BY <1>1, <1>2, <2>1, Received1
    <2> QED
      BY <1>1, <2>2
  <1>3. ASSUME pc = "done", call.name = "_read", ret # -1 PROVE HasLine'
    <2>1. HasLine /\ call.count \in Nat
      BY <1>3 DEF ReadInv, IInv, ArgumentsOK
    <2>2. ret \in Nat /\ ret <= call.count /\ Taken(ret)
      BY <2>1 DEF HasLine
    <2>3. Taken(ret)'
      BY <1>1, <1>3, <2>2, Received1 DEF Taken
    <2> QED
      BY <1>1, <2>1, <2>3 DEF HasLine
  <1> QED
    BY <1>1, <1>2, <1>3 DEF ReadInv

LEMMA ReadStays == ASSUME ReadInv, UNCHANGED <<calls, rbr, typed>> PROVE ReadInv'
  BY DEF ReadInv, HasLine, Taken, Bytes, calls

LEMMA ReadReturns == ASSUME IInv, ReadInv, _readReturns PROVE ReadInv'
  <1>1. /\ i = call.count /\ ret' = i /\ pc' = "done" /\ call.count \in Nat /\ Taken(i)
        /\ \A k \in 1 .. i : Bytes(mem, call, i)[k] \notin {LF, CR}
    BY DEF IInv, ReadInv, _readReturns, ArgumentsOK, CallsTypeOK
  <1>2. UNCHANGED <<mem, passed, call, rbr, typed>>
    BY DEF _readReturns, Silent, console
  <1>3. Taken(ret)'
    BY <1>1, <1>2 DEF Taken
  <1>4. \A k \in 1 .. ret' - 1 : Bytes(mem', call', ret')[k] \notin {LF, CR}
    BY <1>1, <1>2
  <1> QED
    BY <1>1, <1>2, <1>3, <1>4 DEF ReadInv, HasLine

(* A call that does not read has another name. *)
LEMMA ReadUnaffected ==
  ASSUME IInv, \/ EnterLogs \/ Refuse \/ NextBuffer \/ Putchar \/ BufferDone \/ Return
               \/ BadFile \/ _write \/ _writeReturns
  PROVE  ReadInv'
  <1>1. CASE BadFile
    BY <1>1 DEF BadFile, ReadInv
  <1>2. CASE ~BadFile
    <2>1. call.name # "_read" /\ call' = call
      BY <1>2 DEF IInv, ArgumentsOK, EnterLogs, Refuse, NextBuffer, Putchar, BufferDone,
                  Return, _write, _writeReturns
    <2>2. pc' # "_read"
      BY <1>2 DEF EnterLogs, Refuse, NextBuffer, Putchar, BufferDone,
                  Return, _write, _writeReturns
    <2> QED
      BY <2>1, <2>2 DEF ReadInv
  <1> QED
    BY <1>1, <1>2

(* _read returns just what was typed, to the end of the line or of the
   buffer, for every input and buffer. *)
THEOREM LineIsRead == Spec => []ReadsLine
  <1>1. IInv /\ ReadInv /\ [Program \/ Device \/ Over]_vars => ReadInv'
    <2> SUFFICES ASSUME IInv, ReadInv, [Program \/ Device \/ Over]_vars PROVE ReadInv'
      OBVIOUS
    <2>1. ASSUME Call PROVE ReadInv'
      BY <2>1, ReadStep, ReadReturns, ReadUnaffected DEF Call
    <2>2. ASSUME Import, UNCHANGED calls PROVE ReadInv'
      <3>1. UNCHANGED <<rbr, typed>>
        BY <2>2 DEF Import, Printk, ReadInputData, MakeFails, GetByte, Got, Silent, console, puts
      <3> QED
        BY <2>2, <3>1, ReadStays
    <2>3. ASSUME writeuartc, UNCHANGED calls PROVE ReadInv'
      BY <2>3, ReadStays DEF writeuartc
    <2>4. ASSUME Device PROVE ReadInv'
      BY <2>4, ReadStays, ReceiveStep DEF Device, Uart, Transmit
    <2>5. ASSUME UNCHANGED vars PROVE ReadInv'
      BY <2>5, ReadStays DEF vars, console
    <2> QED
      BY <2>1, <2>2, <2>3, <2>4, <2>5 DEF Program, Over
  <1>2. ReadInv => ReadsLine
    BY DEF ReadInv, HasLine, ReadsLine, Buffer, TheBuffer, Taken, Bytes
  <1> QED
    BY InductiveInvariant, ReadInitially, <1>1, <1>2, PTL DEF Spec
-----------------------------------------------------------------------------
(* FlattenSeq by the number of sequences that are joined. *)
IsChain(s, n, f) == f = [k \in 1 .. n |-> IF k = 1 THEN s[1] ELSE f[k - 1] \o s[k]]
Chain(s) == CHOOSE f : IsChain(s, Len(s), f)
Upto(s, n) == IF n = 0 THEN <<>> ELSE Chain(s)[n]

LEMMA ChainGrows ==
  ASSUME NEW s, NEW n \in Nat, NEW f, IsChain(s, n, f)
  PROVE  \E g : IsChain(s, n + 1, g)
  <1> DEFINE last == IF n = 0 THEN s[1] ELSE f[n] \o s[n + 1]
             g == [k \in 1 .. n + 1 |-> IF k = n + 1 THEN last ELSE f[k]]
  <1> SUFFICES IsChain(s, n + 1, g)
    OBVIOUS
  <1>1. \A k \in 1 .. n : f[k] = IF k = 1 THEN s[1] ELSE f[k - 1] \o s[k]
    BY DEF IsChain
  <1>2. ASSUME NEW k \in 1 .. n + 1
        PROVE  g[k] = IF k = 1 THEN s[1] ELSE g[k - 1] \o s[k]
    <2>1. CASE k = n + 1
      <3>1. g[k] = last
        BY <2>1
      <3>2. n # 0 => n \in 1 .. n + 1 /\ n # n + 1 /\ g[n] = f[n]
        OBVIOUS
      <3>3. k - 1 = n /\ (k = 1 <=> n = 0)
        BY <2>1
      <3> QED
        BY <2>1, <3>1, <3>2, <3>3
    <2>2. CASE k # n + 1
      <3>1. k \in 1 .. n /\ g[k] = f[k]
        BY <2>2
      <3>2. k # 1 => k - 1 \in 1 .. n + 1 /\ k - 1 # n + 1 /\ g[k - 1] = f[k - 1]
        BY <3>1
      <3> QED
        BY <1>1, <3>1, <3>2
    <2> QED
      BY <2>1, <2>2
  <1>3. g = [k \in 1 .. n + 1 |-> g[k]]
    OBVIOUS
  <1> HIDE DEF g
  <1> QED
    BY <1>2, <1>3 DEF IsChain

(* The function by which FlattenSeq is defined exists for every length. *)
LEMMA ChainExists == \A s : \A n \in Nat : \E f : IsChain(s, n, f)
  <1> SUFFICES ASSUME NEW s, NEW n \in Nat, ~\E f : IsChain(s, n, f) PROVE FALSE
    OBVIOUS
  <1> DEFINE Bad == {m \in Nat : ~\E f : IsChain(s, m, f)}
  <1>1. PICK m \in Bad : \A y \in Bad : m <= y
    <2>1. Bad \subseteq Nat /\ n \in Bad
      OBVIOUS
    <2> HIDE DEF Bad
    <2> QED
      BY <2>1, Least
  <1>2. IsChain(s, 0, [k \in 1 .. 0 |-> {}])
    BY DEF IsChain
  <1>3. m \in Nat /\ m # 0 /\ m - 1 \in Nat /\ (m - 1) + 1 = m
    BY <1>2
  <1>4. m - 1 \notin Bad
    BY <1>1, <1>3
  <1>5. PICK f : IsChain(s, m - 1, f)
    BY <1>3, <1>4
  <1>6. \E g : IsChain(s, (m - 1) + 1, g)
    BY <1>3, <1>5, ChainGrows
  <1> QED
    BY <1>3, <1>6

LEMMA ChainSteps ==
  ASSUME NEW S, NEW s \in Seq(Seq(S)), NEW n \in 1 .. Len(s)
  PROVE  Upto(s, n) = IF n = 1 THEN s[1] ELSE Upto(s, n - 1) \o s[n]
  <1>1. IsChain(s, Len(s), Chain(s))
    <2>1. Len(s) \in Nat
      OBVIOUS
    <2>2. \E f : IsChain(s, Len(s), f)
      BY <2>1, ChainExists, Zenon
    <2> QED
      BY <2>2, Zenon DEF Chain
  <1>2. Chain(s)[n] = IF n = 1 THEN s[1] ELSE Chain(s)[n - 1] \o s[n]
    BY <1>1 DEF IsChain
  <1>3. Upto(s, n) = Chain(s)[n]
    BY DEF Upto
  <1>4. n # 1 => Upto(s, n - 1) = Chain(s)[n - 1]
    BY DEF Upto
  <1> HIDE DEF Upto
  <1>5. CASE n = 1
    BY <1>2, <1>3, <1>5
  <1>6. CASE n # 1
    BY <1>2, <1>3, <1>4, <1>6, Zenon
  <1> QED
    BY <1>5, <1>6

LEMMA UptoType == ASSUME NEW S, NEW s \in Seq(Seq(S)), NEW n \in 0 .. Len(s)
                  PROVE  Upto(s, n) \in Seq(S)
  <1> SUFFICES ASSUME Upto(s, n) \notin Seq(S) PROVE FALSE
    OBVIOUS
  <1> DEFINE Bad == {m \in 0 .. Len(s) : Upto(s, m) \notin Seq(S)}
  <1>1. PICK m \in Bad : \A y \in Bad : m <= y
    <2>1. Bad \subseteq Nat /\ n \in Bad
      OBVIOUS
    <2> HIDE DEF Bad
    <2> QED
      BY <2>1, Least
  <1>2. Upto(s, 0) \in Seq(S)
    BY DEF Upto
  <1>3. m \in 1 .. Len(s) /\ m - 1 \in 0 .. Len(s)
    BY <1>2
  <1>4. Upto(s, m - 1) \in Seq(S)
    BY <1>1, <1>3
  <1>5. s[m] \in Seq(S) /\ s[1] \in Seq(S)
    BY <1>3
  <1>6. Upto(s, m) = IF m = 1 THEN s[1] ELSE Upto(s, m - 1) \o s[m]
    BY <1>3, ChainSteps
  <1>7. Upto(s, m - 1) \o s[m] \in Seq(S)
    BY <1>4, <1>5
  <1>8. Upto(s, m) \in Seq(S)
    BY <1>5, <1>6, <1>7, Zenon
  <1> QED
    BY <1>8

LEMMA UptoNext ==
  ASSUME NEW S, NEW s \in Seq(Seq(S)), NEW n \in 1 .. Len(s)
  PROVE  Upto(s, n) = Upto(s, n - 1) \o s[n]
  <1>1. s[1] \in Seq(S) /\ <<>> \o s[1] = s[1] /\ Upto(s, 0) = <<>>
    BY DEF Upto
  <1>2. CASE n = 1
    <2>1. Upto(s, 1) = s[1]
      BY <1>2, ChainSteps
    <2>2. n - 1 = 0
      BY <1>2
    <2> QED
      BY <1>1, <1>2, <2>1, <2>2
  <1>3. CASE n # 1
    BY <1>3, ChainSteps, Zenon
  <1> QED
    BY <1>2, <1>3

LEMMA Flattened == ASSUME NEW S, NEW s \in Seq(Seq(S)) PROVE FlattenSeq(s) = Upto(s, Len(s))
  <1>1. Len(s) # 0 => FlattenSeq(s) = Chain(s)[Len(s)]
    BY DEF FlattenSeq, Chain, IsChain
  <1>2. Len(s) = 0 => FlattenSeq(s) = s /\ s = <<>>
    BY EmptySeq DEF FlattenSeq
  <1> QED
    BY <1>1, <1>2 DEF Upto
-----------------------------------------------------------------------------
(* What a call has printed. *)
Buffers == [k \in 1 .. call.count |-> Buffer(passed, Pair(passed, call.pointer, k - 1))]
Codes(s) == [k \in DOMAIN s |-> uart_putc(s[k])]
Part(v, n) == [k \in 1 .. n |-> passed[v.base + k - 1]]

Outcome ==
  CASE call.name = "fd_write" ->
         IF ret = NOMEM THEN mem = passed /\ Accepted \in {Line, Line \o Line}
         ELSE /\ IsConsole => Accepted = Gathered
              /\ mem = [passed EXCEPT ![call.resultPointer] = Len(Gathered)]
    [] call.name = "_write" ->
         /\ mem = passed
         /\ IF ret = -1 THEN ~IsConsole /\ Accepted = <<>>
            ELSE ret = call.count /\ Accepted = Lines(Buffer(passed, TheBuffer))
    [] OTHER -> Accepted = <<>>

(* Which call is made where, and what it has not touched. *)
CallerOK == /\ passed \in [Addr -> Nat]
            /\ pc # "none" => task = "none" /\ (target = "wamr" <=> call.name # "fd_write")
            /\ call.name = "_write" /\ pc # "none" => mem = passed

(* Between two buffers fd_write has printed the buffers before, and counted
   their bytes; too many buffers are refused before the first one. *)
BetweenBuffers ==
  /\ ciovecIndex \in 0 .. call.count
  /\ call.count > IOVECS_SIZE => Accepted = IF IsConsole THEN <<>> ELSE Line
  /\ call.count <= IOVECS_SIZE => /\ total = Len(Upto(Buffers, ciovecIndex))
                                  /\ IsConsole => Accepted = Upto(Buffers, ciovecIndex)

(* Within a buffer it has printed i bytes more, and counted all of them. *)
WithinBuffer ==
  /\ ciovecIndex \in 0 .. call.count - 1 /\ call.count <= IOVECS_SIZE
  /\ iovec = Pair(passed, call.pointer, ciovecIndex)
  /\ total = Len(Upto(Buffers, ciovecIndex + 1))
  /\ IsConsole => Accepted = Upto(Buffers, ciovecIndex) \o Part(iovec, i)

WriteInv ==
  /\ CallerOK
  /\ pc \in {"fd_write", "_write", "_read"} => Accepted = <<>>
  /\ pc \in {"fd_write", "_write"} => ciovecIndex = 0 /\ i = 0 /\ total = 0
  /\ pc = "check" => BetweenBuffers
  /\ pc = "putchar" /\ call.name = "fd_write" => WithinBuffer
  /\ pc = "putchar" /\ call.name = "_write" =>
       /\ iovec = TheBuffer /\ IsConsole
       /\ Accepted = Upto(Codes(Buffer(passed, TheBuffer)), i)
  /\ pc = "done" => Outcome

LEMMA WriteInitially == Init => WriteInv
  <1> SUFFICES ASSUME Init PROVE WriteInv
    OBVIOUS
  <1>1. Accepted = <<>>
    BY DEF Init, ConsoleInit, Accepted
  <1>2. CASE CallsInit
    <2>1. passed \in [Addr -> Nat] /\ mem = passed
      BY <1>2, Numbers DEF CallsInit
    <2>2. pc = call.name /\ ciovecIndex = 0 /\ i = 0 /\ total = 0
      BY <1>2 DEF CallsInit
    <2>3. /\ target = "wamr" => call.name \in {"_write", "_read"}
          /\ target # "wamr" => call.name = "fd_write"
      BY <1>2 DEF CallsInit
    <2>4. task = "none"
      BY <1>2, <2>2, <2>3 DEF Init
    <2> QED
      BY <1>1, <2>1, <2>2, <2>3, <2>4 DEF WriteInv, CallerOK
  <1>3. CASE ~CallsInit
    <2>1. pc = "none" /\ passed \in [Addr -> Nat]
      BY <1>3, Numbers DEF Init
    <2> QED
      BY <2>1 DEF WriteInv, CallerOK
  <1> QED
    BY <1>2, <1>3

(* What has been accepted changes only when a driver is given more. *)
LEMMA Accepts == ASSUME QueuesOK, Free, UNCHANGED <<thr, wire>>
                 PROVE  Accepted' = Accepted \o left'
  BY DEF QueuesOK, Free, Accepted

LEMMA Delivers == ASSUME QueuesOK, QueuesOK', Stream!Deliver \/ UNCHANGED Stream!channel
                  PROVE  Accepted' = Accepted
  <1> DEFINE p == thr \o left
             q == thr' \o left'
  <1>1. /\ wire \in Seq(Char) /\ wire' \in Seq(Char) /\ p \in Seq(Char) /\ q \in Seq(Char)
        /\ Accepted = wire \o p /\ Accepted' = wire' \o q
    <2>2. /\ wire \in Seq(Char) /\ thr \in Seq(Char) /\ left \in Seq(Char)
          /\ wire' \in Seq(Char) /\ thr' \in Seq(Char) /\ left' \in Seq(Char)
      BY DEF QueuesOK
    <2>3. Accepted = (wire \o thr) \o left /\ Accepted' = (wire' \o thr') \o left'
      BY DEF Accepted
    <2>4. p \in Seq(Char) /\ q \in Seq(Char)
      BY <2>2
    <2>5. (wire \o thr) \o left = wire \o p
      BY <2>2
    <2>6. (wire' \o thr') \o left' = wire' \o q
      BY <2>2
    <2> QED
      BY <2>2, <2>3, <2>4, <2>5, <2>6
  <1>2. ASSUME Stream!Deliver PROVE wire' \o q = wire \o p
    <2>1. wire' = Append(wire, Head(p)) /\ q = Tail(p) /\ p # <<>>
      BY <1>2 DEF Stream!Deliver
    <2> HIDE DEF p, q
    <2>2. p = <<Head(p)>> \o Tail(p) /\ Head(p) \in Char
      BY <1>1, <2>1, Rest
    <2> DEFINE h == Head(p)
    <2>3. wire' = Append(wire, h) /\ p = <<h>> \o q /\ h \in Char
      BY <2>1, <2>2
    <2> HIDE DEF h
    <2>4. Append(wire, h) \o q = wire \o (<<h>> \o q)
      BY <1>1, <2>3
    <2> QED
      BY <2>3, <2>4
  <1>3. ASSUME UNCHANGED Stream!channel PROVE wire' \o q = wire \o p
    BY <1>3 DEF Stream!channel
  <1> QED
    BY <1>1, <1>2, <1>3

LEMMA AcceptedType == QueuesOK => Accepted \in Seq(Char)
  BY DEF QueuesOK, Accepted

LEMMA PutsWhole == ASSUME QueuesOK, puts(Line) PROVE Accepted' = Accepted \o Line
  <1>1. Line \in Seq(Byte) /\ strlen(Line) = Len(Line)
    BY CallsAssumption, ConsoleAssumption DEF strlen
  <1>2. SubSeq(Line, 1, Len(Line)) = Line
    BY <1>1
  <1> QED
    BY <1>1, <1>2, Accepts DEF puts

LEMMA SaysNothing == Silent => Accepted' = Accepted
  BY DEF Silent, console, Accepted

(* The buffers lie in the memory. *)
LEMMA OneBuffer == ASSUME passed \in [Addr -> Nat], NEW v, v.base \in Nat, v.len \in Nat,
                          v.base + v.len <= Size
                   PROVE  /\ Buffer(passed, v) \in Seq(Nat) /\ Len(Buffer(passed, v)) = v.len
                          /\ Part(v, v.len) = Buffer(passed, v) /\ Part(v, 0) = <<>>
                          /\ \A n \in 0 .. v.len - 1 :
                               /\ passed[v.base + n] \in Nat
                               /\ Part(v, n) \in Seq(Nat)
                               /\ Part(v, n + 1) = Part(v, n) \o <<passed[v.base + n]>>
                               /\ Buffer(passed, v)[n + 1] = passed[v.base + n]
  <1> DEFINE b == v.base
             l == v.len
             q(n) == [k \in 1 .. n |-> passed[b + k - 1]]
  <1>1. b \in Nat /\ l \in Nat /\ b + l <= Size /\ Size \in Nat
    BY Numbers
  <1>2. \A n \in 0 .. l - 1 : passed[b + n] \in Nat
    <2> SUFFICES ASSUME NEW n \in 0 .. l - 1 PROVE passed[b + n] \in Nat
      OBVIOUS
    <2> HIDE DEF b, l
    <2>1. b + n \in Addr
      BY <1>1 DEF Addr
    <2> QED
      BY <2>1
  <1> HIDE DEF b, l
  <1>3. ASSUME NEW n \in 0 .. l PROVE q(n) \in Seq(Nat) /\ Len(q(n)) = n
    <2>1. \A k \in 1 .. n : passed[b + k - 1] \in Nat
      <3> SUFFICES ASSUME NEW k \in 1 .. n PROVE passed[b + k - 1] \in Nat
        OBVIOUS
      <3>1. k - 1 \in 0 .. l - 1 /\ b + k - 1 = b + (k - 1)
        BY <1>1
      <3> QED
        BY <1>2, <3>1
    <2>2. q(n) \in [1 .. n -> Nat]
      BY <2>1
    <2> HIDE DEF q
    <2> QED
      BY <1>1, <2>2
  <1>4. ASSUME NEW n \in 0 .. l - 1 PROVE q(n + 1) = q(n) \o <<passed[b + n]>>
    <2> DEFINE x == q(n)
               y == q(n + 1)
               z == passed[b + n]
    <2>1. x \in Seq(Nat) /\ Len(x) = n /\ y \in Seq(Nat) /\ Len(y) = n + 1 /\ z \in Nat
      BY <1>1, <1>2, <1>3
    <2>2. \A k \in 1 .. n : y[k] = x[k]
      BY <1>1
    <2>3. y[n + 1] = z
      <3>1. b + (n + 1) - 1 = b + n
        BY <1>1
      <3> QED
        BY <1>1, <3>1
    <2> HIDE DEF x, y, z
    <2>4. y = x \o <<z>>
      BY <2>1, <2>2, <2>3
    <2> QED
      BY <2>4 DEF x, y, z
  <1>5. q(0) = <<>>
    OBVIOUS
  <1>6. \A n \in 0 .. l - 1 : q(l)[n + 1] = passed[b + n]
    <2> SUFFICES ASSUME NEW n \in 0 .. l - 1 PROVE q(l)[n + 1] = passed[b + n]
      OBVIOUS
    <2>1. n + 1 \in 1 .. l /\ b + (n + 1) - 1 = b + n
      BY <1>1
    <2> QED
      BY <2>1
  <1>7. \A n : Part(v, n) = q(n)
    BY DEF Part, b
  <1>8. Buffer(passed, v) = q(l)
    BY DEF Buffer, b, l
  <1> HIDE DEF q
  <1>9. l \in 0 .. l /\ \A n \in 0 .. l - 1 : n \in 0 .. l
    BY <1>1
  <1> QED
    BY <1>2, <1>3, <1>4, <1>5, <1>6, <1>7, <1>8, <1>9 DEF b, l

(* The buffers of fd_write, one after the other. *)
LEMMA TheBuffers ==
  ASSUME passed \in [Addr -> Nat], call.name = "fd_write", InMemory(passed, call),
         call.pointer \in Nat, call.count \in Nat
  PROVE  /\ Buffers \in Seq(Seq(Nat)) /\ Len(Buffers) = call.count
         /\ \A k \in 0 .. call.count - 1 :
              LET v == Pair(passed, call.pointer, k)
              IN /\ v.base \in Nat /\ v.len \in Nat /\ v.base + v.len <= Size
                 /\ Buffers[k + 1] = Buffer(passed, v)
  <1> DEFINE p == call.pointer
             c == call.count
             V(k) == Pair(passed, p, k)
  <1>1. /\ p \in Nat /\ c \in Nat /\ p + 2 * c <= Size
        /\ \A k \in 0 .. c - 1 : V(k).base + V(k).len <= Size
    BY DEF InMemory
  <1>2. ASSUME NEW k \in 0 .. c - 1 PROVE V(k).base \in Nat /\ V(k).len \in Nat
    <2> HIDE DEF p, c
    <2>1. p + 2 * k \in Addr /\ p + 2 * k + 1 \in Addr
      BY <1>1, Numbers DEF Addr
    <2>2. V(k).base = passed[p + 2 * k] /\ V(k).len = passed[p + 2 * k + 1]
      BY DEF Pair
    <2> QED
      BY <2>1, <2>2
  <1>3. ASSUME NEW k \in 0 .. c - 1
        PROVE  Buffers[k + 1] = Buffer(passed, V(k))
    <2>1. k + 1 \in 1 .. c /\ (k + 1) - 1 = k
      BY <1>1
    <2> QED
      BY <2>1 DEF Buffers
  <1>4. \A k \in 1 .. c : Buffer(passed, V(k - 1)) \in Seq(Nat)
    <2> SUFFICES ASSUME NEW k \in 1 .. c PROVE Buffer(passed, V(k - 1)) \in Seq(Nat)
      OBVIOUS
    <2>1. k - 1 \in 0 .. c - 1
      BY <1>1
    <2> DEFINE v == V(k - 1)
    <2>2. v.base \in Nat /\ v.len \in Nat /\ v.base + v.len <= Size
      BY <1>1, <1>2, <2>1
    <2> HIDE DEF v
    <2>3. Buffer(passed, v) \in Seq(Nat)
      BY <2>2, OneBuffer
    <2> QED
      BY <2>3 DEF v
  <1>5. Buffers \in [1 .. c -> Seq(Nat)]
    BY <1>4 DEF Buffers
  <1>6. Buffers \in Seq(Seq(Nat)) /\ Len(Buffers) = c
    <2> HIDE DEF c
    <2> QED
      BY <1>1, <1>5
  <1> QED
    BY <1>1, <1>2, <1>3, <1>6

LEMMA TheCodes ==
  ASSUME NEW s \in Seq(Nat)
  PROVE  /\ Codes(s) \in Seq(Seq(Nat)) /\ Len(Codes(s)) = Len(s)
         /\ \A n \in 1 .. Len(s) : Codes(s)[n] = uart_putc(s[n])
         /\ Lines(s) = Upto(Codes(s), Len(s))
  <1>1. LF \in Nat /\ CR \in Nat
    BY CallsAssumption, ConsoleAssumption
  <1>2. \A c \in Nat : uart_putc(c) \in Seq(Nat)
    BY <1>1 DEF uart_putc
  <1>3. Codes(s) \in [1 .. Len(s) -> Seq(Nat)]
    <2>1. DOMAIN s = 1 .. Len(s)
      OBVIOUS
    <2>2. \A k \in 1 .. Len(s) : s[k] \in Nat
      OBVIOUS
    <2>3. \A k \in 1 .. Len(s) : uart_putc(s[k]) \in Seq(Nat)
      BY <1>2, <2>2
    <2> DEFINE n == Len(s)
    <2> HIDE DEF n
    <2>4. [k \in 1 .. n |-> uart_putc(s[k])] \in [1 .. n -> Seq(Nat)]
      BY <2>3, Zenon DEF n
    <2>5. Codes(s) = [k \in 1 .. n |-> uart_putc(s[k])]
      BY <2>1, Zenon DEF Codes, n
    <2> QED
      BY <2>4, <2>5 DEF n
  <1>4. Codes(s) \in Seq(Seq(Nat)) /\ Len(Codes(s)) = Len(s)
    <2> DEFINE n == Len(s)
               t == Codes(s)
    <2>1. n \in Nat /\ t \in [1 .. n -> Seq(Nat)]
      BY <1>3
    <2> HIDE DEF n, t
    <2>2. t \in Seq(Seq(Nat)) /\ Len(t) = n
      BY <2>1
    <2> QED
      BY <2>2 DEF n, t
  <1>5. \A n \in 1 .. Len(s) : Codes(s)[n] = uart_putc(s[n])
    BY DEF Codes
  <1>6. Lines(s) = FlattenSeq(Codes(s))
    BY DEF Lines, Codes
  <1> QED
    BY <1>4, <1>5, <1>6, Flattened

LEMMA AllGathered ==
  ASSUME passed \in [Addr -> Nat], call.name = "fd_write", InMemory(passed, call),
         call.pointer \in Nat, call.count \in Nat
  PROVE  Gathered = Upto(Buffers, call.count)
  <1>1. Buffers \in Seq(Seq(Nat)) /\ Len(Buffers) = call.count
    BY TheBuffers
  <1>2. Gathered = FlattenSeq(Buffers)
    BY DEF Gathered, Buffers
  <1> QED
    BY <1>1, <1>2, Flattened

(* What every call keeps. *)
LEMMA CallerKept ==
  ASSUME CallerOK, UNCHANGED <<target, imports, passed, call>>, pc # "none",
         call.name # "_write" \/ UNCHANGED mem
  PROVE  CallerOK'
  BY DEF CallerOK, imports

(* Where fd_write is, the buffers lie in the memory, which is as passed. *)
LEMMA Writing ==
  ASSUME IInv, WriteInv, pc \in {"fd_write", "check"} \/ (pc = "putchar" /\ call.name = "fd_write")
  PROVE  /\ passed \in [Addr -> Nat] /\ mem = passed /\ call.name = "fd_write"
         /\ InMemory(passed, call) /\ call.pointer \in Nat /\ call.count \in Nat
         /\ target # "wamr" /\ pc # "none" /\ CallerOK
  BY DEF IInv, ArgumentsOK, WriteInv, CallerOK

LEMMA WriteUnaffected ==
  ASSUME WriteInv, UNCHANGED <<target, task, calls>>, Accepted' = Accepted
  PROVE  WriteInv'
  <1>1. /\ UNCHANGED <<mem, passed, call, pc, ciovecIndex, i, total, iovec, ret>>
        /\ UNCHANGED <<target, task>>
    BY DEF calls
  <1>2. /\ Buffers' = Buffers /\ Gathered' = Gathered /\ IsConsole' = IsConsole
        /\ TheBuffer' = TheBuffer
    BY <1>1 DEF Buffers, Gathered, IsConsole, TheBuffer
  <1>3. CallerOK' = CallerOK
    BY <1>1 DEF CallerOK
  <1>4. BetweenBuffers' = BetweenBuffers
    BY <1>1, <1>2 DEF BetweenBuffers
  <1>5. WithinBuffer' = WithinBuffer
    <2>1. Part(iovec, i)' = Part(iovec, i)
      BY <1>1 DEF Part
    <2> QED
      BY <1>1, <1>2, <2>1 DEF WithinBuffer
  <1>6. Outcome' = Outcome
    BY <1>1, <1>2 DEF Outcome
  <1>7. Buffer(passed, TheBuffer)' = Buffer(passed, TheBuffer)
    BY <1>1, <1>2
  <1> QED
    BY <1>1, <1>2, <1>3, <1>4, <1>5, <1>6, <1>7 DEF WriteInv

LEMMA WriteEnterLogs == ASSUME IInv, WriteInv, EnterLogs, UNCHANGED <<target, imports>>
                        PROVE  WriteInv'
  <1>1. /\ pc = "fd_write" /\ pc' = "check" /\ Accepted = <<>> /\ ciovecIndex' = 0 /\ total' = 0
        /\ UNCHANGED <<passed, call, mem>>
    BY DEF EnterLogs, WriteInv
  <1>2. call.name = "fd_write" /\ call.count \in Nat /\ CallerOK'
    <2>1. pc # "none" /\ CallerOK /\ mem' = mem
      BY <1>1, Writing
    <2>2. CallerOK'
      BY <1>1, <2>1, CallerKept
    <2> QED
      BY <1>1, <2>2, Writing
  <1>3. Accepted' = IF IsConsole THEN <<>> ELSE Line
    <2>1. IsConsole => Accepted' = Accepted
      BY SaysNothing DEF EnterLogs, Log
    <2>2. ~IsConsole => Accepted' = Accepted \o Line
      BY PutsWhole DEF EnterLogs, Log, IInv
    <2>3. <<>> \o Line = Line
      BY CallsAssumption
    <2> QED
      BY <1>1, <2>1, <2>2, <2>3
  <1>4. IsConsole' = IsConsole /\ Buffers' = Buffers
    BY <1>1 DEF IsConsole, Buffers
  <1>5. Upto(Buffers, 0) = <<>> /\ Len(Upto(Buffers, 0)) = 0
    BY DEF Upto
  <1>6. BetweenBuffers'
    <2>1. ciovecIndex' \in 0 .. call'.count
      BY <1>1, <1>2
    <2>2. call'.count > IOVECS_SIZE => Accepted' = IF IsConsole' THEN <<>> ELSE Line
      BY <1>3, <1>4
    <2>3. total' = Len(Upto(Buffers', ciovecIndex'))
      BY <1>1, <1>4, <1>5
    <2>4. IsConsole' => Accepted' = Upto(Buffers', ciovecIndex')
      BY <1>1, <1>3, <1>4, <1>5
    <2> QED
      BY <2>1, <2>2, <2>3, <2>4 DEF BetweenBuffers
  <1> QED
    BY <1>1, <1>2, <1>6 DEF WriteInv

LEMMA WriteRefuse == ASSUME IInv, WriteInv, Refuse, UNCHANGED <<target, imports>>
                     PROVE  WriteInv'
  <1>1. /\ pc = "check" /\ pc' = "done" /\ ret' = NOMEM /\ call.count > IOVECS_SIZE
        /\ UNCHANGED <<passed, call, mem>> /\ BetweenBuffers
    BY DEF Refuse, WriteInv
  <1>2. call.name = "fd_write" /\ mem = passed /\ CallerOK'
    <2>1. pc # "none" /\ CallerOK /\ mem' = mem
      BY <1>1, Writing
    <2>2. CallerOK'
      BY <1>1, <2>1, CallerKept
    <2> QED
      BY <1>1, <2>2, Writing
  <1>3. Accepted' = Accepted \o Line
    BY PutsWhole DEF Refuse, IInv
  <1>4. Accepted' \in {Line, Line \o Line}
    <2>1. <<>> \o Line = Line
      BY CallsAssumption
    <2>2. Accepted = <<>> \/ Accepted = Line
      BY <1>1 DEF BetweenBuffers
    <2> QED
      BY <1>3, <2>1, <2>2
  <1>5. Outcome'
    BY <1>1, <1>2, <1>4 DEF Outcome
  <1> QED
    BY <1>1, <1>2, <1>5 DEF WriteInv

LEMMA WriteNextBuffer == ASSUME IInv, WriteInv, NextBuffer, UNCHANGED <<target, imports>>
                         PROVE  WriteInv'
  <1> DEFINE n == ciovecIndex
             v == Pair(passed, call.pointer, n)
  <1>1. /\ pc = "check" /\ pc' = "putchar" /\ call.count <= IOVECS_SIZE /\ i' = 0
        /\ UNCHANGED <<passed, call, mem, ciovecIndex>> /\ BetweenBuffers /\ n < call.count
        /\ iovec' = Pair(mem, call.pointer, n) /\ total' = total + iovec'.len
    BY DEF NextBuffer, WriteInv, Left
  <1>2. /\ call.name = "fd_write" /\ mem = passed /\ CallerOK' /\ passed \in [Addr -> Nat]
        /\ InMemory(passed, call) /\ call.pointer \in Nat /\ call.count \in Nat
    <2>1. pc # "none" /\ CallerOK /\ mem' = mem
      BY <1>1, Writing
    <2>2. CallerOK'
      BY <1>1, <2>1, CallerKept
    <2> QED
      BY <1>1, <2>2, Writing
  <1>3. /\ n \in 0 .. call.count - 1 /\ total = Len(Upto(Buffers, n))
        /\ IsConsole => Accepted = Upto(Buffers, n)
    BY <1>1, <1>2, Numbers DEF BetweenBuffers
  <1>4. /\ Buffers \in Seq(Seq(Nat)) /\ Len(Buffers) = call.count
        /\ v.base \in Nat /\ v.len \in Nat /\ v.base + v.len <= Size
        /\ Buffers[n + 1] = Buffer(passed, v)
    BY <1>2, <1>3, TheBuffers
  <1>5. Len(Buffer(passed, v)) = v.len /\ Buffer(passed, v) \in Seq(Nat) /\ Part(v, 0) = <<>>
    BY <1>2, <1>4, OneBuffer
  <1>6. Upto(Buffers, n) \in Seq(Nat)
    BY <1>3, <1>4, UptoType
  <1>7. Upto(Buffers, n + 1) = Upto(Buffers, n) \o Buffer(passed, v)
    <2>1. n + 1 \in 1 .. Len(Buffers) /\ (n + 1) - 1 = n
      BY <1>2, <1>3, <1>4
    <2>2. Upto(Buffers, n + 1) = Upto(Buffers, (n + 1) - 1) \o Buffers[n + 1]
      BY <1>4, <2>1, UptoNext
    <2> QED
      BY <1>4, <2>1, <2>2
  <1>8. total' = Len(Upto(Buffers, n + 1)) /\ iovec' = v
    <2>1. iovec' = v
      BY <1>1, <1>2
    <2> HIDE DEF v
    <2>2. Len(Upto(Buffers, n) \o Buffer(passed, v)) = Len(Upto(Buffers, n)) + v.len
      BY <1>5, <1>6
    <2> QED
      BY <1>1, <1>3, <1>7, <2>1, <2>2
  <1>9. IsConsole => Accepted' = Upto(Buffers, n) \o Part(v, 0)
    <2>1. IsConsole => Accepted' = Accepted
      BY SaysNothing DEF NextBuffer, Log
    <2>2. Upto(Buffers, n) \o <<>> = Upto(Buffers, n)
      BY <1>6
    <2> QED
      BY <1>3, <1>5, <2>1, <2>2
  <1>10. IsConsole' = IsConsole /\ Buffers' = Buffers
    BY <1>1 DEF IsConsole, Buffers
  <1>11. WithinBuffer'
    <2>1. Part(iovec, i)' = Part(v, 0)
      BY <1>1, <1>8 DEF Part
    <2> QED
      BY <1>1, <1>3, <1>8, <1>9, <1>10, <2>1 DEF WithinBuffer
  <1> QED
    BY <1>1, <1>2, <1>11 DEF WriteInv

(* One byte of a buffer of fd_write. *)
LEMMA WritePutchar ==
  ASSUME IInv, WriteInv, Putchar, call.name = "fd_write", UNCHANGED <<target, imports>>
  PROVE  WriteInv'
  <1> DEFINE n == ciovecIndex
             v == iovec
  <1>1. /\ pc = "putchar" /\ pc' = "putchar" /\ i < v.len /\ i' = i + 1 /\ putchar(mem[v.base + i])
        /\ UNCHANGED <<passed, call, mem, ciovecIndex, iovec, total>> /\ WithinBuffer
    BY DEF Putchar, WriteInv
  <1>2. /\ mem = passed /\ CallerOK' /\ passed \in [Addr -> Nat] /\ target # "wamr"
        /\ InMemory(passed, call) /\ call.pointer \in Nat /\ call.count \in Nat
    <2>1. pc # "none" /\ CallerOK /\ mem' = mem
      BY <1>1, Writing
    <2>2. CallerOK'
      BY <1>1, <2>1, CallerKept
    <2> QED
      BY <1>1, <2>2, Writing
  <1>3. n \in 0 .. call.count - 1 /\ v = Pair(passed, call.pointer, n)
    BY <1>1 DEF WithinBuffer
  <1>4. /\ Buffers \in Seq(Seq(Nat)) /\ Len(Buffers) = call.count
        /\ v.base \in Nat /\ v.len \in Nat /\ v.base + v.len <= Size
    BY <1>2, <1>3, TheBuffers
  <1>5. i \in Nat
    BY DEF IInv, CallsTypeOK
  <1>6. /\ passed[v.base + i] \in Nat /\ Part(v, i) \in Seq(Nat)
        /\ Part(v, i + 1) = Part(v, i) \o <<passed[v.base + i]>>
    <2>1. i \in 0 .. v.len - 1
      BY <1>1, <1>4, <1>5
    <2> QED
      BY <1>2, <1>4, <2>1, OneBuffer
  <1>7. Upto(Buffers, n) \in Seq(Nat)
    <2>1. n \in 0 .. Len(Buffers)
      BY <1>2, <1>3, <1>4
    <2> QED
      BY <1>4, <2>1, UptoType
  <1>8. IsConsole => Accepted' = Upto(Buffers, n) \o Part(v, i + 1)
    <2> SUFFICES ASSUME IsConsole PROVE Accepted' = Upto(Buffers, n) \o Part(v, i + 1)
      OBVIOUS
    <2>1. Accepted' = Accepted \o <<passed[v.base + i]>>
      <3>1. left' = <<passed[v.base + i]>> /\ Free /\ UNCHANGED <<thr, wire>>
        BY <1>1, <1>2 DEF putchar
      <3> QED
        BY <3>1, Accepts DEF IInv
    <2>2. Accepted = Upto(Buffers, n) \o Part(v, i)
      BY <1>1 DEF WithinBuffer
    <2> DEFINE x == Upto(Buffers, n)
               y == Part(v, i)
               z == passed[v.base + i]
    <2>3. x \in Seq(Nat) /\ y \in Seq(Nat) /\ z \in Nat
      BY <1>6, <1>7
    <2>4. Accepted' = (x \o y) \o <<z>> /\ Part(v, i + 1) = y \o <<z>>
      BY <1>6, <2>1, <2>2
    <2> HIDE DEF x, y, z
    <2>5. (x \o y) \o <<z>> = x \o (y \o <<z>>)
      BY <2>3
    <2> QED
      BY <2>4, <2>5 DEF x
  <1>9. IsConsole' = IsConsole /\ Buffers' = Buffers /\ Part(iovec, i)' = Part(v, i + 1)
    BY <1>1 DEF IsConsole, Buffers, Part
  <1>10. WithinBuffer'
    BY <1>1, <1>8, <1>9 DEF WithinBuffer
  <1> QED
    BY <1>1, <1>2, <1>10 DEF WriteInv

LEMMA WriteBufferDone == ASSUME IInv, WriteInv, BufferDone, UNCHANGED <<target, imports>>
                         PROVE  WriteInv'
  <1> DEFINE n == ciovecIndex
             v == iovec
  <1>1. /\ pc = "putchar" /\ pc' = "check" /\ i >= v.len /\ n' = n + 1 /\ call.name = "fd_write"
        /\ UNCHANGED <<passed, call, mem, total>> /\ WithinBuffer /\ Accepted' = Accepted
    BY SaysNothing DEF BufferDone, WriteInv
  <1>2. /\ mem = passed /\ CallerOK' /\ passed \in [Addr -> Nat]
        /\ InMemory(passed, call) /\ call.pointer \in Nat /\ call.count \in Nat
    <2>1. pc # "none" /\ CallerOK /\ mem' = mem
      BY <1>1, Writing
    <2>2. CallerOK'
      BY <1>1, <2>1, CallerKept
    <2> QED
      BY <1>1, <2>2, Writing
  <1>3. /\ n \in 0 .. call.count - 1 /\ v = Pair(passed, call.pointer, n)
        /\ call.count <= IOVECS_SIZE /\ total = Len(Upto(Buffers, n + 1))
        /\ IsConsole => Accepted = Upto(Buffers, n) \o Part(v, i)
    BY <1>1 DEF WithinBuffer
  <1>4. /\ Buffers \in Seq(Seq(Nat)) /\ Len(Buffers) = call.count
        /\ v.base \in Nat /\ v.len \in Nat /\ v.base + v.len <= Size
        /\ Buffers[n + 1] = Buffer(passed, v)
    BY <1>1, <1>2, <1>3, TheBuffers
  <1>5. i = v.len
    BY <1>1, <1>4 DEF IInv, CallsTypeOK
  <1>6. Part(v, i) = Buffer(passed, v)
    BY <1>2, <1>4, <1>5, OneBuffer
  <1>7. Upto(Buffers, n + 1) = Upto(Buffers, n) \o Buffer(passed, v)
    <2>1. n + 1 \in 1 .. Len(Buffers) /\ (n + 1) - 1 = n
      BY <1>2, <1>3, <1>4
    <2>2. Upto(Buffers, n + 1) = Upto(Buffers, (n + 1) - 1) \o Buffers[n + 1]
      BY <1>4, <2>1, UptoNext
    <2> QED
      BY <1>4, <2>1, <2>2
  <1>8. IsConsole' = IsConsole /\ Buffers' = Buffers
    BY <1>1 DEF IsConsole, Buffers
  <1>9. BetweenBuffers'
    <2>1. n' \in 0 .. call'.count
      BY <1>1, <1>2, <1>3
    <2>2. ~(call.count > IOVECS_SIZE)
      BY <1>2, <1>3, Numbers
    <2> QED
      BY <1>1, <1>3, <1>6, <1>7, <1>8, <2>1, <2>2 DEF BetweenBuffers
  <1> QED
    BY <1>1, <1>2, <1>9 DEF WriteInv

LEMMA WriteReturn == ASSUME IInv, WriteInv, Return, UNCHANGED <<target, imports>>
                     PROVE  WriteInv'
  <1> DEFINE n == ciovecIndex
  <1>1. /\ pc = "check" /\ pc' = "done" /\ call.count <= IOVECS_SIZE /\ ret' = SUCCESS /\ ~Left
        /\ UNCHANGED <<passed, call>> /\ BetweenBuffers /\ Accepted' = Accepted
        /\ mem' = [mem EXCEPT ![call.resultPointer] = total]
    BY SaysNothing DEF Return, WriteInv
  <1>2. /\ mem = passed /\ CallerOK' /\ passed \in [Addr -> Nat] /\ call.name = "fd_write"
        /\ InMemory(passed, call) /\ call.pointer \in Nat /\ call.count \in Nat
    <2>1. pc # "none" /\ CallerOK /\ call.name # "_write"
      BY <1>1, Writing
    <2>2. CallerOK'
      BY <1>1, <2>1, CallerKept
    <2> QED
      BY <1>1, <2>2, Writing
  <1>3. n = call.count
    BY <1>1, <1>2, Numbers DEF BetweenBuffers, Left
  <1>4. total = Len(Gathered) /\ (IsConsole => Accepted = Gathered)
    <2>1. Gathered = Upto(Buffers, call.count)
      BY <1>2, AllGathered
    <2> QED
      BY <1>1, <1>3, <2>1 DEF BetweenBuffers
  <1>5. ret' # NOMEM
    BY <1>1 DEF SUCCESS, NOMEM
  <1>6. IsConsole' = IsConsole /\ Gathered' = Gathered
    BY <1>1 DEF IsConsole, Gathered
  <1>7. mem' = [passed' EXCEPT ![call'.resultPointer] = Len(Gathered')]
    BY <1>1, <1>2, <1>4, <1>6
  <1>8. Outcome'
    BY <1>1, <1>2, <1>4, <1>5, <1>6, <1>7 DEF Outcome
  <1> QED
    BY <1>1, <1>2, <1>8 DEF WriteInv

(* The one buffer of _write, byte by byte. *)
LEMMA Write_write == ASSUME IInv, WriteInv, _write, UNCHANGED <<target, imports>>
                     PROVE  WriteInv'
  <1>1. /\ pc = "_write" /\ pc' = "putchar" /\ iovec' = TheBuffer /\ IsConsole /\ i' = 0
        /\ UNCHANGED <<passed, call, mem>> /\ Accepted' = Accepted /\ Accepted = <<>>
    BY SaysNothing DEF _write, WriteInv
  <1>2. call.name = "_write" /\ CallerOK
    BY <1>1 DEF IInv, ArgumentsOK, WriteInv
  <1>3. CallerOK'
    BY <1>1, <1>2, CallerKept
  <1>4. TheBuffer' = TheBuffer /\ IsConsole' = IsConsole
    BY <1>1 DEF TheBuffer, IsConsole
  <1>5. Accepted' = Upto(Codes(Buffer(passed, TheBuffer)), i)'
    BY <1>1 DEF Upto
  <1> QED
    BY <1>1, <1>2, <1>3, <1>4, <1>5 DEF WriteInv

(* _write is in its loop. *)
LEMMA Looping ==
  ASSUME IInv, WriteInv, pc = "putchar", call.name # "fd_write"
  PROVE  LET b == Buffer(passed, TheBuffer)
         IN /\ call.name = "_write" /\ target = "wamr" /\ CallerOK /\ mem = passed
            /\ iovec = TheBuffer /\ IsConsole /\ Accepted = Upto(Codes(b), i)
            /\ b \in Seq(Nat) /\ Len(b) = call.count /\ call.count \in Nat
            /\ i \in 0 .. call.count
            /\ \A k \in 0 .. call.count - 1 : b[k + 1] = mem[iovec.base + k]
  <1> DEFINE v == TheBuffer
             b == Buffer(passed, v)
  <1>1. call.name = "_write" /\ CallerOK /\ iovec = v /\ IsConsole /\ Accepted = Upto(Codes(b), i)
    BY DEF IInv, ArgumentsOK, WriteInv
  <1>2. target = "wamr" /\ mem = passed /\ passed \in [Addr -> Nat]
    BY <1>1 DEF CallerOK
  <1>3. /\ v.base = call.pointer /\ v.len = call.count
        /\ v.base \in Nat /\ v.len \in Nat /\ v.base + v.len <= Size
    BY <1>1 DEF TheBuffer, IInv, ArgumentsOK, InMemory
  <1>4. i \in 0 .. call.count
    <2>1. i \in 0 .. iovec.len
      BY DEF IInv, CallsTypeOK
    <2> QED
      BY <1>1, <1>3, <2>1
  <1> HIDE DEF v
  <1>5. /\ b \in Seq(Nat) /\ Len(b) = v.len
        /\ \A k \in 0 .. v.len - 1 : b[k + 1] = passed[v.base + k]
    BY <1>2, <1>3, OneBuffer
  <1> QED
    BY <1>1, <1>2, <1>3, <1>4, <1>5 DEF v

LEMMA WriteByte ==
  ASSUME IInv, WriteInv, Putchar, call.name # "fd_write", UNCHANGED <<target, imports>>
  PROVE  WriteInv'
  <1> DEFINE b == Buffer(passed, TheBuffer)
  <1>1. /\ pc = "putchar" /\ pc' = "putchar" /\ i < iovec.len /\ i' = i + 1
        /\ putchar(mem[iovec.base + i]) /\ UNCHANGED <<passed, call, mem, iovec>>
    BY DEF Putchar
  <1>2. /\ call.name = "_write" /\ target = "wamr" /\ CallerOK
        /\ iovec = TheBuffer /\ IsConsole /\ Accepted = Upto(Codes(b), i)
        /\ b \in Seq(Nat) /\ Len(b) = call.count /\ call.count \in Nat /\ i \in 0 .. call.count
        /\ \A k \in 0 .. call.count - 1 : b[k + 1] = mem[iovec.base + k]
    BY <1>1, Looping
  <1>3. CallerOK'
    BY <1>1, <1>2, CallerKept
  <1>4. i \in 0 .. call.count - 1 /\ i + 1 \in 1 .. Len(b) /\ (i + 1) - 1 = i
    <2>1. iovec.len = call.count
      BY <1>2 DEF TheBuffer
    <2> QED
      BY <1>1, <1>2, <2>1
  <1>5. b[i + 1] = mem[iovec.base + i]
    BY <1>2, <1>4
  <1>6. Accepted' = Accepted \o uart_putc(b[i + 1])
    <2>1. left' = uart_putc(mem[iovec.base + i]) /\ Free /\ UNCHANGED <<thr, wire>>
      BY <1>1, <1>2 DEF putchar
    <2> QED
      BY <1>5, <2>1, Accepts DEF IInv
  <1>7. Accepted' = Upto(Codes(b), i + 1)
    <2> HIDE DEF b
    <2>1. /\ Codes(b) \in Seq(Seq(Nat)) /\ Len(Codes(b)) = Len(b)
          /\ Codes(b)[i + 1] = uart_putc(b[i + 1])
      BY <1>2, <1>4, TheCodes
    <2>2. Upto(Codes(b), i + 1) = Upto(Codes(b), (i + 1) - 1) \o Codes(b)[i + 1]
      BY <1>4, <2>1, UptoNext
    <2> QED
      BY <1>2, <1>4, <1>6, <2>1, <2>2
  <1>8. IsConsole' = IsConsole /\ TheBuffer' = TheBuffer /\ b' = b
    BY <1>1 DEF IsConsole, TheBuffer, Buffer
  <1>9. Upto(Codes(b), i)' = Upto(Codes(b), i + 1)
    BY <1>1, <1>8
  <1> QED
    BY <1>1, <1>2, <1>3, <1>7, <1>8, <1>9 DEF WriteInv

LEMMA Write_writeReturns == ASSUME IInv, WriteInv, _writeReturns, UNCHANGED <<target, imports>>
                            PROVE  WriteInv'
  <1> DEFINE b == Buffer(passed, TheBuffer)
  <1>1. /\ pc = "putchar" /\ pc' = "done" /\ i >= iovec.len /\ ret' = call.count
        /\ call.name = "_write" /\ UNCHANGED <<passed, call, mem>> /\ Accepted' = Accepted
    BY SaysNothing DEF _writeReturns
  <1>2. /\ CallerOK /\ mem = passed /\ iovec = TheBuffer /\ Accepted = Upto(Codes(b), i)
        /\ b \in Seq(Nat) /\ Len(b) = call.count /\ call.count \in Nat /\ i \in 0 .. call.count
    BY <1>1, Looping
  <1>3. CallerOK'
    BY <1>1, <1>2, CallerKept
  <1>4. i = call.count
    <2>1. iovec.len = call.count
      BY <1>2 DEF TheBuffer
    <2> QED
      BY <1>1, <1>2, <2>1
  <1>5. Accepted = Lines(b)
    <2> HIDE DEF b
    <2> QED
      BY <1>2, <1>4, TheCodes
  <1>6. b' = b
    BY <1>1 DEF TheBuffer, Buffer
  <1>7. Outcome'
    <2>1. ret' # -1
      BY <1>1, <1>2
    <2> QED
      BY <1>1, <1>2, <1>5, <1>6, <2>1 DEF Outcome
  <1> QED
    BY <1>1, <1>3, <1>7 DEF WriteInv

(* What is refused or read prints nothing. *)
LEMMA WriteBadFile == ASSUME IInv, WriteInv, BadFile, UNCHANGED <<target, imports>>
                      PROVE  WriteInv'
  <1>1. /\ pc \in {"_write", "_read"} /\ pc' = "done" /\ ret' = -1
        /\ UNCHANGED <<passed, call, mem>> /\ Accepted' = Accepted /\ Accepted = <<>>
    BY SaysNothing DEF BadFile, WriteInv
  <1>2. call.name = pc /\ CallerOK
    BY <1>1 DEF IInv, ArgumentsOK, WriteInv
  <1>3. CallerOK'
    BY <1>1, <1>2, CallerKept
  <1>4. call.name = "_write" => mem = passed /\ ~IsConsole
    BY <1>1, <1>2 DEF CallerOK, BadFile, IsConsole
  <1>5. Outcome'
    BY <1>1, <1>2, <1>4 DEF Outcome, IsConsole
  <1> QED
    BY <1>1, <1>3, <1>5 DEF WriteInv

LEMMA WriteRead == ASSUME IInv, WriteInv, _read \/ _readReturns, UNCHANGED <<target, imports>>
                   PROVE  WriteInv'
  <1>1. /\ pc = "_read" /\ pc' \in {"_read", "done"} /\ UNCHANGED <<passed, call>>
        /\ Accepted = <<>> /\ UNCHANGED <<left, thr, wire>>
    BY DEF _read, _readReturns, uart_getc, Silent, console, WriteInv
  <1>2. call.name = "_read" /\ CallerOK
    BY <1>1 DEF IInv, ArgumentsOK, WriteInv
  <1>3. CallerOK'
    BY <1>1, <1>2, CallerKept
  <1>4. Accepted' = <<>>
    BY <1>1 DEF Accepted
  <1>5. Outcome'
    BY <1>1, <1>2, <1>4 DEF Outcome
  <1> QED
    BY <1>1, <1>3, <1>4, <1>5 DEF WriteInv

(* All or nothing, for every layout of buffers, pairs and result, on every
   target and whatever the UART does: what the guest passed is printed as it
   was when the call was made, and counted, or nothing of it is. *)
THEOREM AllOrNothingHolds == Spec => []AllOrNothing
  <1>1. IInv /\ IInv' /\ WriteInv /\ [Program \/ Device \/ Over]_vars => WriteInv'
    <2> SUFFICES ASSUME IInv, IInv', WriteInv, [Program \/ Device \/ Over]_vars PROVE WriteInv'
      OBVIOUS
    <2>1. ASSUME Call, UNCHANGED <<target, imports>> PROVE WriteInv'
      BY <2>1, WriteEnterLogs, WriteRefuse, WriteNextBuffer, WritePutchar, WriteByte,
         WriteBufferDone, WriteReturn, WriteBadFile, Write_write, Write_writeReturns, WriteRead
      DEF Call
    <2>2. ASSUME Import, UNCHANGED <<target, calls>> PROVE WriteInv'
      <3>1. CASE task = "none"
        <4>1. Silent /\ UNCHANGED task
          BY <2>2, <3>1 DEF Import, Printk, ReadInputData, MakeFails, GetByte, Got
        <4> QED
          BY <2>2, <4>1, SaysNothing, WriteUnaffected
      <3>2. CASE task # "none"
        <4>1. pc = "none" /\ passed \in [Addr -> Nat]
          BY <3>2 DEF WriteInv, CallerOK
        <4> QED
          BY <2>2, <4>1 DEF WriteInv, CallerOK, calls
      <3> QED
        BY <3>1, <3>2
    <2>3. ASSUME writeuartc \/ Uart, UNCHANGED <<target, calls, imports>> PROVE WriteInv'
      <3>1. Stream!Deliver \/ UNCHANGED Stream!channel
        BY <2>3, Writeuartc, Transmitted, Received DEF IInv, Uart
      <3>2. Accepted' = Accepted
        BY <3>1, Delivers DEF IInv
      <3> QED
        BY <2>3, <3>2, WriteUnaffected DEF imports
    <2>4. ASSUME UNCHANGED vars PROVE WriteInv'
      BY <2>4, SaysNothing, WriteUnaffected DEF vars, Silent, imports
    <2> QED
      BY <2>1, <2>2, <2>3, <2>4 DEF Program, Device, Over
  <1>2. WriteInv => AllOrNothing
    BY DEF WriteInv, Outcome, AllOrNothing
  <1> QED
    BY InductiveInvariant, WriteInitially, <1>1, <1>2, PTL DEF Spec
-----------------------------------------------------------------------------
(* The input.  Until a failure is printed, amd64 has the built-in input or
   the whole file, with its length. *)
Has(s) == data = s /\ len = Len(s)

Reading == {"main", "calloc", "fread"}
Fetching == {"getInputData"}

InputReady == /\ step = "main" => Has(test789)
              /\ step \in {"calloc", "fread"} => len \in {Len(file), 0, NoLength}
              /\ step \in Fetching => Has(test789) \/ Has(file)

Octets == 0 .. BYTE - 1

(* What the guest has is the beginning of s. *)
Fetched(s) == /\ got \in Seq(Octets) /\ Len(got) <= Len(s)
              /\ \A k \in 1 .. Len(got) : got[k] = s[k]

InputInv ==
  /\ file \in Seq(Octets)
  /\ step \in Reading \cup Fetching \cup {"done", "crash"}
  /\ step \in Reading => target = "amd64" /\ got = <<>>
  /\ target = "zkvm" => /\ step \in Fetching => Fetched(file)
                        /\ step = "done" => got = file
  /\ target = "amd64" /\ ~failed => /\ InputReady
                                    /\ step \in Fetching => Fetched(data)
                                    /\ step = "done" => got \in {file, test789}

LEMMA InputInitially == Init => InputInv
  <1> SUFFICES ASSUME Init PROVE InputInv
    OBVIOUS
  <1>1. /\ file \in IF task = "input" THEN Files ELSE {<<>>}
        /\ data = test789 /\ len = Len(test789) /\ failed = FALSE /\ got = <<>>
        /\ step = IF task = "input" /\ target = "amd64" THEN "main" ELSE "getInputData"
    BY DEF Init, ImportsInit
  <1>2. /\ <<>> \in Seq(Octets) /\ Len(<<>>) = 0 /\ test789 \in Seq(Octets)
        /\ Files \subseteq Seq(Octets)
    BY ImportsAssumption DEF Octets
  <1>3. file \in Seq(Octets)
    BY <1>1, <1>2
  <1>4. Fetched(file) /\ Fetched(data)
    <2>1. Len(file) \in Nat /\ Len(data) \in Nat
      BY <1>1, <1>2, <1>3
    <2> QED
      BY <1>1, <2>1 DEF Fetched
  <1> QED
    BY <1>1, <1>2, <1>3, <1>4 DEF InputInv, InputReady, Has, Reading, Fetching

(* main reads the file, or does not. *)
LEMMA InputRead == ASSUME InputInv, ReadInputData, UNCHANGED target PROVE InputInv'
  <1>1. /\ UNCHANGED <<got, file>> /\ step \in Reading /\ step' # "done"
        /\ step' \in Reading \cup Fetching \cup {"crash"}
    BY DEF ReadInputData, NoInputFile, OpenFails, Open, CallocFails, Alloc, ReadFails, Read,
           Reading, Fetching
  <1>2. target = "amd64" /\ got = <<>> /\ file \in Seq(Octets)
    BY <1>1 DEF InputInv
  <1>3. ASSUME ~failed', step' # "crash" PROVE ~failed /\ InputReady'
    <2>1. ~failed /\ InputReady
      BY <1>2, <1>3 DEF InputInv, ReadInputData, NoInputFile, OpenFails, Open, CallocFails,
                        Alloc, ReadFails, Read
    <2>2. CASE NoInputFile
      BY <1>1, <2>1, <2>2 DEF NoInputFile, InputReady, Has, Fetching
    <2>3. CASE Open
      BY <1>1, <2>1, <2>3 DEF Open, InputReady, Has, Fetching
    <2>4. CASE Alloc
      BY <1>1, <2>1, <2>4 DEF Alloc, InputReady, Has, Fetching
    <2>5. CASE Read
      BY <1>1, <2>1, <2>5 DEF Read, InputReady, Has, Fetching, NoLength
    <2>6. ~(OpenFails \/ CallocFails \/ ReadFails)
      BY <1>3 DEF OpenFails, CallocFails, ReadFails
    <2> QED
      BY <2>1, <2>2, <2>3, <2>4, <2>5, <2>6 DEF ReadInputData
  <1>4. ASSUME InputReady', step' \in Fetching PROVE Fetched(data)'
    <2>1. data' = test789 \/ data' = file
      BY <1>1, <1>4 DEF InputReady, Has
    <2>2. test789 \in Seq(Octets)
      BY ImportsAssumption DEF Octets
    <2>3. Len(data') \in Nat /\ got' = <<>> /\ Len(<<>>) = 0
      BY <1>1, <1>2, <2>1, <2>2
    <2> QED
      BY <2>3 DEF Fetched
  <1>5. CASE step' = "crash"
    BY <1>1, <1>2, <1>5 DEF InputInv, InputReady, Fetching, Reading
  <1>6. CASE step' # "crash"
    BY <1>1, <1>2, <1>3, <1>4, <1>6 DEF InputInv
  <1> QED
    BY <1>5, <1>6

(* One byte more of the input. *)
LEMMA Fetch == ASSUME NEW s \in Seq(Octets), Fetched(s),
                      Len(got) < Len(s), got' = Append(got, s[Len(got) + 1])
               PROVE  got' \in Seq(Octets) /\ Len(got') <= Len(s)
                      /\ \A k \in 1 .. Len(got') : got'[k] = s[k]
  <1> DEFINE n == Len(got)
             b == s[n + 1]
  <1>1. /\ n \in Nat /\ n + 1 \in 1 .. Len(s) /\ b \in Octets /\ Len(s) \in Nat
        /\ got \in Seq(Octets)
    BY DEF Fetched
  <1>2. /\ got' \in Seq(Octets) /\ Len(got') = n + 1 /\ got'[n + 1] = b
        /\ \A k \in 1 .. n : got'[k] = got[k]
    BY <1>1
  <1>3. \A k \in 1 .. n : got[k] = s[k]
    BY DEF Fetched
  <1> QED
    BY <1>1, <1>2, <1>3

LEMMA Everything == ASSUME NEW s \in Seq(Octets), Fetched(s),
                           Len(got) >= Len(s)
                    PROVE  got = s
  BY DEF Fetched

LEMMA InputFetched == ASSUME InputInv, GetByte, UNCHANGED target PROVE InputInv'
  <1>1. /\ step = "getInputData" /\ UNCHANGED <<file, data, len, failed>>
        /\ step' \in Fetching \cup {"crash"} /\ file \in Seq(Octets)
    BY DEF GetByte, InputInv, Fetching
  <1>2. test789 \in Seq(Octets)
    BY ImportsAssumption DEF Octets
  <1>3. \A c : byte(Widened(c)) = c
    BY ImportsAssumption DEF byte, Widened
  <1>4. CASE target = "zkvm"
    <2>1. got' = Append(got, byte(InputData(Len(got)))) /\ Len(got) < Len(file) /\ Fetched(file)
      BY <1>1, <1>4 DEF GetByte, InputDataLen, InputInv, Fetching
    <2>2. byte(InputData(Len(got))) = file[Len(got) + 1]
      BY <1>3, <1>4, <2>1 DEF InputData, InputByte
    <2>3. Fetched(file)'
      BY <1>1, <2>1, <2>2, Fetch DEF Fetched
    <2> QED
      BY <1>1, <1>4, <2>3 DEF InputInv, Fetching, Reading
  <1>5. CASE target = "amd64"
    <2>1. CASE failed
      BY <1>1, <1>5, <2>1 DEF InputInv, Fetching, Reading
    <2>2. CASE ~failed
      <3>1. InputReady /\ Fetched(data) /\ (Has(test789) \/ Has(file)) /\ Len(got) < len
        BY <1>1, <1>5, <2>2 DEF InputInv, InputReady, Fetching, GetByte, InputDataLen
      <3>2. data \in Seq(Octets) /\ Len(got) < Len(data)
        BY <1>1, <1>2, <3>1 DEF Has
      <3>3. byte(InputData(Len(got))) = data[Len(got) + 1]
        BY <1>3, <1>5 DEF InputData
      <3>4. Fetched(data)'
        <4>1. CASE got' = got
          BY <1>1, <3>1, <4>1 DEF Fetched
        <4>2. CASE got' = Append(got, byte(InputData(Len(got))))
          BY <1>1, <3>1, <3>2, <3>3, <4>2, Fetch DEF Fetched
        <4> QED
          BY <4>1, <4>2 DEF GetByte
      <3>5. InputReady'
        BY <1>1, <3>1 DEF InputReady, Has, Fetching
      <3> QED
        BY <1>1, <1>5, <3>4, <3>5 DEF InputInv, Fetching, Reading
    <2> QED
      BY <2>1, <2>2
  <1>6. CASE target \notin {"zkvm", "amd64"}
    <2>1. FALSE
      BY <1>1, <1>6 DEF GetByte, InputDataLen
    <2> QED
      BY <2>1
  <1> QED
    BY <1>4, <1>5, <1>6

(* A word of the input area holds the bytes it covers, and there are enough
   words. *)
LEMMA Division == ASSUME NEW x \in Nat, NEW u \in Nat \ {0}
                  PROVE  /\ (x \div u) \in Nat /\ (x % u) \in 0 .. u - 1
                         /\ x = u * (x \div u) + (x % u)
  OBVIOUS

LEMMA Product == ASSUME NEW u \in Nat, NEW x \in Nat, NEW y \in Nat, x <= y
                 PROVE  u * x \in Nat /\ u * y \in Nat /\ u * x <= u * y
  <1>1. PICK d \in Nat : y = x + d
    <2>1. y - x \in Nat /\ y = x + (y - x)
      OBVIOUS
    <2> QED
      BY <2>1
  <1>2. u * y = u * x + u * d /\ u * d \in Nat /\ u * x \in Nat
    BY <1>1
  <1> QED
    BY <1>2

LEMMA WordAt ==
  ASSUME NEW n \in Nat, NEW k \in 0 .. n - 1, NEW w \in Nat \ {0}
  PROVE  /\ (k % w) \in 0 .. w - 1 /\ w * (k \div w) + (k % w) = k
         /\ (k \div w) < (n \div w) + IF (n % w) # 0 THEN 1 ELSE 0
  <1> DEFINE p == k \div w
             s == (k % w)
             q == n \div w
             r == (n % w)
  <1>1. /\ p \in Nat /\ s \in 0 .. w - 1 /\ k = w * p + s
        /\ q \in Nat /\ r \in 0 .. w - 1 /\ n = w * q + r
    BY Division
  <1>2. k < n /\ w \in Nat
    OBVIOUS
  <1> HIDE DEF p, s, q, r
  <1>3. CASE r = 0
    <2>1. ~(q <= p)
      <3> SUFFICES ASSUME q <= p PROVE FALSE
        OBVIOUS
      <3>1. w * q <= w * p /\ w * q \in Nat /\ w * p \in Nat
        BY <1>1, <1>2, Product
      <3> QED
        BY <1>1, <1>2, <1>3, <3>1
    <2> QED
      BY <1>1, <1>3, <2>1 DEF p, q, s, r
  <1>4. CASE r # 0
    <2>1. ~(q + 1 <= p)
      <3> SUFFICES ASSUME q + 1 <= p PROVE FALSE
        OBVIOUS
      <3>1. w * (q + 1) <= w * p /\ w * p \in Nat
        BY <1>1, <1>2, Product
      <3>2. w * (q + 1) = w * q + w /\ w * q \in Nat
        BY <1>1, <1>2
      <3> QED
        BY <1>1, <1>2, <3>1, <3>2
    <2> QED
      BY <1>1, <1>4, <2>1 DEF p, q, s, r
  <1> QED
    BY <1>3, <1>4

LEMMA WordsTell == ASSUME file \in Seq(Octets), NEW k \in 0 .. Len(file) - 1
                   PROVE  /\ k \div WORD < len_input_buf
                          /\ read_value(k \div WORD)[k % WORD] = file[k + 1]
  <1>1. Len(file) \in Nat /\ WORD \in Nat \ {0}
    BY ImportsAssumption
  <1>2. /\ (k % WORD) \in 0 .. WORD - 1 /\ WORD * (k \div WORD) + (k % WORD) = k
        /\ (k \div WORD) < (Len(file) \div WORD) + IF (Len(file) % WORD) # 0 THEN 1 ELSE 0
    BY <1>1, WordAt
  <1>3. read_value(k \div WORD)[k % WORD] = InputByte(k)
    BY <1>2 DEF read_value
  <1> QED
    BY <1>2, <1>3 DEF len_input_buf, InputByte

(* The guest has all of the input, whatever its length, or is told that it
   may not. *)
THEOREM InputIsTold == Spec => []InputTold
  <1>1. InputInv /\ [Program \/ Device \/ Over]_vars => InputInv'
    <2> SUFFICES ASSUME InputInv, [Program \/ Device \/ Over]_vars PROVE InputInv'
      OBVIOUS
    <2>1. ASSUME ReadInputData \/ MakeFails \/ GetByte, UNCHANGED target PROVE InputInv'
      <3>1. CASE MakeFails
        BY <2>1, <3>1 DEF MakeFails, InputInv, InputReady, Fetching, Reading
      <3> QED
        BY <2>1, <3>1, InputRead, InputFetched
    <2>2. ASSUME Got, UNCHANGED target PROVE InputInv'
      <3>1. /\ UNCHANGED <<file, data, len, failed, got>> /\ Len(got) = InputDataLen
            /\ step = "getInputData" /\ step' = "done" /\ file \in Seq(Octets)
        BY <2>2 DEF Got, InputInv
      <3>2. ASSUME target = "zkvm" PROVE got = file
        BY <3>1, <3>2, Everything DEF InputInv, InputDataLen, Fetching
      <3>3. ASSUME target = "amd64", ~failed PROVE got \in {file, test789}
        <4>1. (Has(test789) \/ Has(file)) /\ Fetched(data) /\ Len(got) = len
          BY <3>1, <3>3 DEF InputInv, InputReady, InputDataLen, Fetching
        <4>2. test789 \in Seq(Octets)
          BY ImportsAssumption DEF Octets
        <4>3. data \in Seq(Octets) /\ Len(got) = Len(data)
          BY <3>1, <4>1, <4>2 DEF Has
        <4>4. got = data
          BY <4>1, <4>3, Everything
        <4> QED
          BY <4>1, <4>4 DEF Has
      <3>4. InputReady'
        BY <3>1 DEF InputReady, Fetching
      <3> QED
        BY <2>2, <3>1, <3>2, <3>3, <3>4 DEF InputInv, Fetching, Reading
    <2>3. ASSUME UNCHANGED <<target, file, data, len, failed, step, got>> PROVE InputInv'
      BY <2>3 DEF InputInv, InputReady, Has, Fetched
    <2>4. ASSUME NEW val \in Vals, Printk(val), UNCHANGED target PROVE InputInv'
      BY <2>3, <2>4 DEF Printk
    <2> QED
      BY <2>1, <2>2, <2>3, <2>4 DEF Program, Device, Over, Import, vars, imports
  <1>2. InputInv => InputTold
    <2> SUFFICES ASSUME InputInv PROVE InputTold
      OBVIOUS
    <2>1. file \in Seq(Octets)
      BY DEF InputInv
    <2> QED
      BY <2>1, WordsTell DEF InputInv, InputTold
  <1> QED
    BY InputInitially, <1>1, <1>2, PTL DEF Spec
-----------------------------------------------------------------------------
(* The lines that printk prints on the console. *)
DigitOf(val, d) == Shifted(val)[Digits - d] % Chars

LinesOK ==
  /\ Len(Accepted) = Len(printed) * LineLen
  /\ \A k \in 1 .. Len(printed) : \A d \in 1 .. Digits :
       Accepted[(k - 1) * LineLen + Len(Prefix) + d] = Hex[1 + DigitOf(printed[k], d)]

PrintsInv ==
  /\ pc # "none" => task = "none"
  /\ task # "printk" => printed = <<>>
  /\ printed \in Seq(Vals)
  /\ task = "printk" => target \in {"zkvm", "qemu", "qemu_user"}
  /\ task = "printk" /\ target # "zkvm" => LinesOK

LEMMA LineLength ==
  /\ LineLen \in Nat /\ Len(Prefix) \in Nat /\ Digits \in Nat
  /\ LineLen = Len(Prefix) + Digits + 1 + IF target = "qemu_user" THEN 1 ELSE 0
  <1>1. Len(HexLine(0)) = Len(Prefix) + Digits + 1
    BY HexLineIs
  <1>2. Len(Prefix) \in Nat /\ Digits \in Nat
    BY ImportsAssumption
  <1> QED
    BY <1>1, <1>2 DEF LineLen

LEMMA PrintsInitially == Init => PrintsInv
  <1> SUFFICES ASSUME Init PROVE PrintsInv
    OBVIOUS
  <1>1. printed = <<>> /\ Accepted = <<>> /\ printed \in Seq(Vals)
    BY DEF Init, ImportsInit, ConsoleInit, Accepted
  <1>2. LinesOK
    <2>1. Len(printed) = 0 /\ Len(Accepted) = 0
      BY <1>1
    <2>2. 0 * LineLen = 0
      BY LineLength
    <2> QED
      BY <2>1, <2>2 DEF LinesOK
  <1>3. pc # "none" => task = "none"
    BY DEF Init
  <1>4. task = "printk" => target \in {"zkvm", "qemu", "qemu_user"}
    BY DEF Init
  <1> QED
    BY <1>1, <1>2, <1>3, <1>4 DEF PrintsInv

(* Where the k-th of n lines lies. *)
LEMMA Places ==
  ASSUME NEW n \in Nat, NEW k \in 1 .. n, NEW l \in Nat, NEW j \in 1 .. l
  PROVE  (k - 1) * l + j \in 1 .. n * l
  <1>1. (k - 1) * l \in Nat /\ (k - 1) * l + l = k * l /\ k * l <= n * l /\ n * l \in Nat
    <2>1. k - 1 \in Nat /\ k \in Nat /\ k <= n
      OBVIOUS
    <2>2. l * k <= l * n /\ l * k \in Nat /\ l * n \in Nat
      BY <2>1, Product
    <2>3. l * k = k * l /\ l * n = n * l /\ (k - 1) * l = k * l - l
      BY <2>1
    <2>4. (k - 1) * l \in Nat
      BY <2>1
    <2> QED
      BY <2>2, <2>3, <2>4
  <1> DEFINE x == (k - 1) * l
             y == n * l
  <1>2. x \in Nat /\ y \in Nat /\ x + l <= y
    BY <1>1
  <1> HIDE DEF x, y
  <1>3. x + j \in 1 .. y
    BY <1>2
  <1> QED
    BY <1>3 DEF x, y

LEMMA Behind ==
  ASSUME NEW a \in Seq(Nat), NEW s \in Seq(Nat)
  PROVE  /\ Len(a \o s) = Len(a) + Len(s)
         /\ \A j \in 1 .. Len(a) : (a \o s)[j] = a[j]
         /\ \A j \in 1 .. Len(s) : (a \o s)[Len(a) + j] = s[j]
  <1>1. Len(a \o s) = Len(a) + Len(s)
    OBVIOUS
  <1>2. \A j \in 1 .. Len(a) : (a \o s)[j] = a[j]
    OBVIOUS
  <1>3. \A j \in 1 .. Len(s) : (a \o s)[Len(a) + j] = s[j]
    OBVIOUS
  <1> QED
    BY <1>1, <1>2, <1>3

(* One line more. *)
LEMMA LinePrinted ==
  ASSUME QueuesOK, LinesOK, printed \in Seq(Vals), NEW val \in Vals,
         printed' = Append(printed, val), UNCHANGED target, NEW s \in Seq(Nat),
         Accepted' = Accepted \o s, Len(s) = LineLen,
         \A d \in 1 .. Digits : s[Len(Prefix) + d] = Hex[1 + DigitOf(val, d)]
  PROVE  LinesOK'
  <1> DEFINE n == Len(printed)
             l == LineLen
             P == Len(Prefix)
             a == Accepted
             b == Accepted'
             q == printed'
  <1>1. /\ l \in Nat /\ P \in Nat /\ Digits \in Nat /\ n \in Nat
        /\ \A d \in 1 .. Digits : P + d \in 1 .. l
    BY LineLength
  <1>2. /\ Len(q) = n + 1 /\ q[n + 1] = val
        /\ \A k \in 1 .. n : q[k] = printed[k]
    OBVIOUS
  <1>3. /\ a \in Seq(Nat) /\ Len(a) = n * l /\ s \in Seq(Nat) /\ Len(s) = l /\ b = a \o s
        /\ \A k \in 1 .. n : \A d \in 1 .. Digits :
             a[(k - 1) * l + P + d] = Hex[1 + DigitOf(printed[k], d)]
    BY AcceptedType DEF LinesOK, Char
  <1>4. LineLen' = l
    BY DEF LineLen
  <1> HIDE DEF n, l, P, a, b, q
  <1>5. /\ Len(b) = n * l + l /\ n * l \in Nat
        /\ \A j \in 1 .. n * l : b[j] = a[j]
        /\ \A j \in 1 .. l : b[n * l + j] = s[j]
    <2>1. n * l \in Nat
      BY <1>1
    <2> DEFINE y == n * l
    <2>2. y \in Nat /\ a \in Seq(Nat) /\ Len(a) = y
      BY <1>3, <2>1
    <2> HIDE DEF y
    <2>3. /\ Len(a \o s) = y + l /\ \A j \in 1 .. y : (a \o s)[j] = a[j]
          /\ \A j \in 1 .. l : (a \o s)[y + j] = s[j]
      BY <1>3, <2>2, Behind
    <2> QED
      BY <1>3, <2>1, <2>3 DEF y
  <1>6. (n + 1) * l = n * l + l
    BY <1>1
  <1>7. ASSUME NEW k \in 1 .. n + 1, NEW d \in 1 .. Digits
        PROVE  b[(k - 1) * l + P + d] = Hex[1 + DigitOf(q[k], d)]
    <2>1. CASE k \in 1 .. n
      <3>1. (k - 1) * l + (P + d) \in 1 .. n * l
        BY <1>1, <2>1, Places
      <3>2. (k - 1) * l + P + d = (k - 1) * l + (P + d)
        <4>1. (k - 1) * l \in Int
          BY <1>1
        <4> QED
          BY <1>1, <4>1
      <3>3. b[(k - 1) * l + P + d] = a[(k - 1) * l + P + d]
        BY <1>5, <3>1, <3>2
      <3>4. q[k] = printed[k]
        BY <1>2, <2>1
      <3>5. a[(k - 1) * l + P + d] = Hex[1 + DigitOf(printed[k], d)]
        BY <1>3, <2>1
      <3> QED
        BY <3>3, <3>4, <3>5
    <2>2. CASE k = n + 1
      <3>1. (k - 1) * l + P + d = n * l + (P + d)
        <4> DEFINE y == n * l
        <4>1. y \in Nat
          BY <1>1
        <4>2. k - 1 = n
          BY <1>1, <2>2
        <4>3. (k - 1) * l = y
          BY <4>2
        <4> HIDE DEF y
        <4>4. y + P + d = y + (P + d)
          BY <1>1, <4>1
        <4> QED
          BY <4>3, <4>4 DEF y
      <3>2. b[n * l + (P + d)] = s[P + d]
        BY <1>1, <1>5
      <3>3. s[P + d] = Hex[1 + DigitOf(val, d)]
        BY DEF P
      <3> QED
        BY <1>2, <2>2, <3>1, <3>2, <3>3
    <2> QED
      BY <1>1, <2>1, <2>2
  <1>8. Len(b) = Len(q) * LineLen'
    BY <1>2, <1>4, <1>5, <1>6
  <1> QED
    BY <1>2, <1>4, <1>7, <1>8 DEF LinesOK, DigitOf, b, P, q

LEMMA PrintsStep == ASSUME IInv, PrintsInv, NEW val \in Vals, Printk(val), UNCHANGED <<target, calls>>
                    PROVE  PrintsInv'
  <1>1. /\ task = "printk" /\ task' = task /\ pc' = pc /\ printed' = Append(printed, val)
        /\ printed \in Seq(Vals) /\ target \in {"zkvm", "qemu", "qemu_user"} /\ target' = target
    BY DEF Printk, PrintsInv, calls
  <1>2. printed' \in Seq(Vals)
    BY <1>1
  <1>3. val \in Nat /\ LF \in Nat /\ QueuesOK /\ Free
    BY ImportsAssumption, Numbers DEF Char, IInv, Printk
  <1>4. /\ HexLine(val) \in Seq(Nat) /\ Len(HexLine(val)) = Len(Prefix) + Digits + 1
        /\ \A d \in 1 .. Digits : HexLine(val)[Len(Prefix) + d] = Hex[1 + DigitOf(val, d)]
    BY <1>3, HexLineIs DEF DigitOf
  <1>5. CASE target = "qemu"
    <2> DEFINE s == HexLine(val)
    <2>1. s \in Seq(Nat) /\ Len(s) = LineLen
      BY <1>4, <1>5, LineLength
    <2>2. Accepted' = Accepted \o s
      <3>1. puts(s)
        BY <1>5 DEF Printk
      <3>2. strlen(s) = Len(s)
        BY <1>4, ConsoleAssumption, ImportsAssumption DEF strlen
      <3>3. SubSeq(s, 1, Len(s)) = s
        <4> HIDE DEF s
        <4> QED
          BY <2>1
      <3> QED
        BY <1>3, <3>1, <3>2, <3>3, Accepts DEF puts
    <2>3. LinesOK'
      BY <1>1, <1>3, <1>4, <1>5, <2>1, <2>2, LinePrinted DEF PrintsInv
    <2> QED
      BY <1>1, <1>2, <2>3 DEF PrintsInv
  <1>6. CASE target = "qemu_user"
    <2> DEFINE h == HexLine(val)
               s == h \o <<LF>>
    <2>1. /\ s \in Seq(Nat) /\ Len(s) = Len(h) + 1
          /\ \A k \in 1 .. Len(h) : s[k] = h[k]
      BY <1>3, <1>4
    <2>2. Len(s) = LineLen
      BY <1>4, <1>6, <2>1, LineLength
    <2>3. \A d \in 1 .. Digits : s[Len(Prefix) + d] = Hex[1 + DigitOf(val, d)]
      <3>1. \A d \in 1 .. Digits : Len(Prefix) + d \in 1 .. Len(h)
        BY <1>4, LineLength
      <3> HIDE DEF s, h
      <3> QED
        BY <1>4, <2>1, <3>1 DEF h
    <2>4. Accepted' = Accepted \o s
      <3>1. left' = s /\ UNCHANGED <<thr, wire>>
        BY <1>6 DEF Printk
      <3> QED
        BY <1>3, <3>1, Accepts
    <2> HIDE DEF s
    <2>5. LinesOK'
      BY <1>1, <1>3, <1>6, <2>1, <2>2, <2>3, <2>4, LinePrinted DEF PrintsInv
    <2> QED
      BY <1>1, <1>2, <2>5 DEF PrintsInv
  <1>7. CASE target = "zkvm"
    BY <1>1, <1>2, <1>7 DEF PrintsInv, calls
  <1> QED
    BY <1>1, <1>5, <1>6, <1>7

LEMMA PrintsKept ==
  ASSUME PrintsInv, UNCHANGED <<target, task, printed>>, Accepted' = Accepted,
         pc' = pc \/ pc # "none"
  PROVE  PrintsInv'
  <1>1. LinesOK' = LinesOK
    BY DEF LinesOK, LineLen
  <1> QED
    BY <1>1 DEF PrintsInv

(* While the guest prints values it makes no call. *)
LEMMA PrintsCalls == ASSUME PrintsInv, Call, UNCHANGED <<target, imports>> PROVE PrintsInv'
  <1>1. pc # "none" /\ UNCHANGED <<target, task, printed>>
    BY DEF Call, EnterLogs, Refuse, NextBuffer, Putchar, BufferDone, Return, BadFile, _write,
           _writeReturns, _read, _readReturns, imports
  <1> QED
    BY <1>1 DEF PrintsInv

(* The reader of a line gets the value back. *)
Horner(k, f) == f = [d \in 0 .. Digits |-> IF d = 0 THEN 0 ELSE f[d - 1] * Chars + Digit(k, d)]

LEMMA HornerOnce ==
  ASSUME NEW k, NEW f, NEW g, Horner(k, f), Horner(k, g)
  PROVE  f[Digits] = g[Digits]
  <1> SUFFICES ASSUME f[Digits] # g[Digits] PROVE FALSE
    OBVIOUS
  <1> DEFINE Bad == {d \in 0 .. Digits : f[d] # g[d]}
  <1>1. PICK d \in Bad : \A y \in Bad : d <= y
    <2>1. Bad \subseteq Nat /\ Digits \in Bad
      BY ImportsAssumption
    <2> HIDE DEF Bad
    <2> QED
      BY <2>1, Least
  <1>2. /\ f[d] = IF d = 0 THEN 0 ELSE f[d - 1] * Chars + Digit(k, d)
        /\ g[d] = IF d = 0 THEN 0 ELSE g[d - 1] * Chars + Digit(k, d)
    BY <1>1 DEF Horner
  <1>3. d # 0 => f[d - 1] = g[d - 1]
    BY <1>1, ImportsAssumption
  <1> QED
    BY <1>1, <1>2, <1>3

LEMMA PrintedValue == ASSUME printed \in Seq(Vals), NEW k \in 1 .. Len(printed)
                      PROVE  printed[k] \in Vals /\ printed[k] \in Nat
  <1>1. printed[k] \in Vals
    BY ElementOfSeq
  <1> QED
    BY <1>1, ImportsAssumption

LEMMA DigitRead ==
  ASSUME LinesOK, printed \in Seq(Vals), NEW k \in 1 .. Len(printed), NEW d \in 1 .. Digits
  PROVE  Digit(k, d) = DigitOf(printed[k], d)
  <1> DEFINE v == printed[k]
             e == DigitOf(v, d)
             c == Accepted[(k - 1) * LineLen + Len(Prefix) + d]
  <1>1. v \in Nat
    BY PrintedValue
  <1>2. Chars \in Nat \ {0} /\ Digits \in Nat
    BY ImportsAssumption, EmptySeq DEF Chars
  <1>3. e \in 0 .. Chars - 1
    <2>1. Shifted(v)[Digits - d] \in Nat
      BY <1>1, <1>2, ShiftedType
    <2>2. \A x \in Nat : (x % Chars) \in 0 .. Chars - 1
      BY <1>2
    <2> QED
      BY <2>1, <2>2 DEF DigitOf
  <1>4. c = Hex[1 + e]
    BY DEF LinesOK
  <1> HIDE DEF v, e
  <1>5. 1 + e \in 1 .. Chars /\ (1 + e) - 1 = e
    BY <1>2, <1>3
  <1>6. \A h \in 1 .. Chars : Hex[h] = c <=> h = 1 + e
    BY <1>4, <1>5, ImportsAssumption DEF Chars
  <1>7. (CHOOSE h \in 1 .. Chars : Hex[h] = c) = 1 + e
    BY <1>5, <1>6
  <1> QED
    BY <1>5, <1>7 DEF Digit, e, v

LEMMA LineRead ==
  ASSUME LinesOK, printed \in Seq(Vals), NEW k \in 1 .. Len(printed)
  PROVE  LineValue(k) = printed[k]
  <1> DEFINE v == printed[k]
             w == [d \in 0 .. Digits |-> Shifted(v)[Digits - d]]
  <1>1. v \in Vals /\ v \in Nat /\ Chars \in Nat \ {0} /\ Digits \in Nat
    <2>1. Chars \in Nat \ {0} /\ Digits \in Nat
      BY ImportsAssumption, EmptySeq DEF Chars
    <2> QED
      BY <2>1, PrintedValue
  <1>2. Shifted(v)[Digits] = 0 /\ Shifted(v)[0] = v
    BY <1>1, DigitsAssumption, OneShift
  <1>3. \A d \in 1 .. Digits : Digit(k, d) = DigitOf(v, d)
    BY DigitRead
  <1> HIDE DEF v
  <1>4. ASSUME NEW d \in 0 .. Digits
        PROVE  w[d] = IF d = 0 THEN 0 ELSE w[d - 1] * Chars + Digit(k, d)
    <2>1. CASE d = 0
      BY <1>1, <1>2, <2>1
    <2>2. CASE d # 0
      <3> DEFINE n == Digits - d
                 x == Shifted(v)[n + 1]
                 y == Shifted(v)[n]
      <3>1. n \in 0 .. Digits /\ n + 1 \in 0 .. Digits /\ n + 1 # 0 /\ Digits - (d - 1) = n + 1
            /\ d - 1 \in 0 .. Digits /\ d \in 1 .. Digits /\ (n + 1) - 1 = n
        BY <1>1, <2>2
      <3>2. y \in Nat /\ x = y \div Chars
        <4>1. y \in Nat
          BY <1>1, <3>1, ShiftedType
        <4>2. Shifted(v)[n + 1] = Shifted(v)[(n + 1) - 1] \div Chars
          BY <3>1, OneShift
        <4> QED
          BY <3>1, <4>1, <4>2
      <3>3. w[d] = y /\ w[d - 1] = x
        BY <3>1
      <3>4. Digit(k, d) = (y % Chars)
        BY <1>3, <3>1 DEF DigitOf
      <3> HIDE DEF x, y, w
      <3>5. /\ (y \div Chars) \in Nat /\ (y % Chars) \in 0 .. Chars - 1
            /\ y = Chars * (y \div Chars) + (y % Chars)
        BY <1>1, <3>2, Division
      <3>6. Chars * (y \div Chars) = (y \div Chars) * Chars
        BY <1>1, <3>5
      <3> QED
        BY <2>2, <3>2, <3>3, <3>4, <3>5, <3>6
    <2> QED
      BY <2>1, <2>2
  <1>5. w = [d \in 0 .. Digits |-> w[d]]
    OBVIOUS
  <1>6. w[Digits] = v
    BY <1>1, <1>2
  <1> HIDE DEF w
  <1>7. Horner(k, w)
    BY <1>4, <1>5 DEF Horner
  <1> DEFINE value == CHOOSE f : Horner(k, f)
  <1>8. Horner(k, value)
    BY <1>7
  <1>9. LineValue(k) = value[Digits]
    BY DEF LineValue, Horner
  <1> HIDE DEF value
  <1>10. value[Digits] = w[Digits]
    BY <1>7, <1>8, HornerOnce
  <1> QED
    BY <1>6, <1>9, <1>10 DEF v

(* Whoever looks at the output area, or reads the console, finds the values
   the guest printed, all of them as long as the area has room. *)
THEOREM PrintedIsTold == Spec => []PrintkTells
  <1>1. IInv /\ IInv' /\ PrintsInv /\ [Program \/ Device \/ Over]_vars => PrintsInv'
    <2> SUFFICES ASSUME IInv, IInv', PrintsInv, [Program \/ Device \/ Over]_vars PROVE PrintsInv'
      OBVIOUS
    <2>1. ASSUME Call, UNCHANGED <<target, imports>> PROVE PrintsInv'
      BY <2>1, PrintsCalls
    <2>2. ASSUME NEW val \in Vals, Printk(val), UNCHANGED <<target, calls>> PROVE PrintsInv'
      BY <2>2, PrintsStep
    <2>3. ASSUME ReadInputData \/ MakeFails \/ GetByte \/ Got, UNCHANGED <<target, calls>> PROVE PrintsInv'
      BY <2>3, SaysNothing, PrintsKept DEF ReadInputData, MakeFails, GetByte, Got, calls
    <2>4. ASSUME writeuartc \/ Uart, UNCHANGED <<target, calls, imports>> PROVE PrintsInv'
      <3>1. Stream!Deliver \/ UNCHANGED Stream!channel
        BY <2>4, Writeuartc, Transmitted, Received DEF IInv, Uart
      <3>2. Accepted' = Accepted
        BY <3>1, Delivers DEF IInv
      <3> QED
        BY <2>4, <3>2, PrintsKept DEF imports, calls
    <2>5. ASSUME UNCHANGED vars PROVE PrintsInv'
      BY <2>5, SaysNothing, PrintsKept DEF vars, Silent, imports, calls
    <2> QED
      BY <2>1, <2>2, <2>3, <2>4, <2>5 DEF Program, Device, Over, Import
  <1>2. PrintsInv /\ (target = "zkvm" => PrintkTells) => PrintkTells
    <2> SUFFICES ASSUME PrintsInv, target # "zkvm", Len(printed) > 0
                 PROVE  /\ Len(Accepted) = Len(printed) * LineLen
                        /\ \A k \in DOMAIN printed : LineValue(k) = printed[k]
      BY DEF PrintkTells
    <2>1. task = "printk"
      <3>1. printed # <<>>
        OBVIOUS
      <3> QED
        BY <3>1 DEF PrintsInv
    <2>2. LinesOK /\ printed \in Seq(Vals)
      BY <2>1 DEF PrintsInv
    <2>3. \A k \in 1 .. Len(printed) : LineValue(k) = printed[k]
      BY <2>2, LineRead
    <2> QED
      BY <2>2, <2>3 DEF LinesOK
  <1> QED
    BY InductiveInvariant, OutputAreaTells, PrintsInitially, <1>1, <1>2, PTL DEF Spec
=============================================================================
