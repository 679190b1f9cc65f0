--------------------------- MODULE CustomImports ---------------------------
(***************************************************************************)
(* What a w2c2 guest imports from "testmodule" besides shutdown: printk,   *)
(* and the input by its length and byte after byte, as getInputData of the *)
(* Go guest fuzz and InputDataBytes of the .NET guests fetch it.           *)
(*                                                                         *)
(*   zkvm       printk writes words to an output area, whose first word is *)
(*              their count; the area ends where the program's variables   *)
(*              begin, and outputCount is one of these; the zkVM puts the  *)
(*              input into an area of its own                              *)
(*   qemu, qemu_user   printk prints a line; there is no input             *)
(*   amd64      the input is a file that main reads before the guest runs  *)
(***************************************************************************)
EXTENDS Console

CONSTANTS Capacity,     \* words between the count and RAM_START: 16383
          CountAt,      \* where outputCount lies, counted from OUTPUT_ADDR
          RamTop,         \* bound: the last word that is modelled
          Digits, Hex,  \* hexadecimal digits of a word; the characters for them
          Prefix,       \* "0x"
          BYTE, WORD,   \* values of a byte, bytes of a word
          Vals, Prints, \* bounds: what the guest prints, and how often
          Files,        \* bound: what the input may be
          test789       \* amd64: the input when there is no other

ASSUME ImportsAssumption ==
  /\ Capacity \in Nat /\ RamTop \in Nat /\ CountAt \in Capacity + 1 .. RamTop
  /\ Digits \in Nat /\ Vals \subseteq Nat /\ Prints \in Nat
  /\ Prefix \in Seq(Byte) /\ Len(Prefix) + Digits + 1 <= strlen_max   \* 11 characters
  /\ Hex \in Seq(Byte) /\ Hex # <<>>
  /\ \A a, b \in 1 .. Len(Hex) : Hex[a] = Hex[b] => a = b
  /\ BYTE \in Nat \ {0} /\ BYTE % 2 = 0 /\ WORD \in Nat \ {0}
  /\ Files \subseteq Seq(0 .. BYTE - 1) /\ test789 \in Seq(0 .. BYTE - 1)

VARIABLES task,      \* what the guest does: "printk", "input" or neither
          area,      \* the output area and the program's RAM behind it
          booted,    \* area when main was called
          printed,   \* the values the guest has printed
          file,      \* the input: what the zkVM stores, or the file of "-i"
          data, len, \* test_input_data, test_input_data_len
          failed,    \* a line about a failure has been printed
          step,      \* what main or the guest does next about the input
          got        \* the bytes the guest has

imports == <<task, area, booted, printed, file, data, len, failed, step, got>>
NULL == <<-1>>
NoLength == -1
Chars == Len(Hex)

-----------------------------------------------------------------------------
ImportsInit ==
  /\ booted \in [0 .. RamTop -> {0, 1}] /\ booted[CountAt] = 0   \* .bss is cleared
  /\ \A a \in 0 .. RamTop : a <= Capacity => booted[a] = 0
  /\ area = booted /\ printed = <<>>
  /\ file \in IF task = "input" THEN Files ELSE {<<>>}
  /\ data = test789 /\ len = Len(test789) /\ failed = FALSE
  /\ step = IF task = "input" /\ target = "amd64" THEN "main" ELSE "getInputData"
  /\ got = <<>>

UncountedSlot(n) == n - 1   \* mutant: the count has no word of its own

(* OUTPUT_ADDR + 4 + 4 * (outputCount - 1) *)
Slot(n) == n

(* zkvm.c: the count goes up first, then both are stored *)
OutputCount == area[CountAt] + 1
printk(val) ==
  /\ Slot(OutputCount) \in 0 .. RamTop
  /\ area' = [[area EXCEPT ![CountAt] = OutputCount, ![0] = OutputCount]
                EXCEPT ![Slot(OutputCount)] = val]

(* What n turns of "val >>= 4" leave of val; Digits of them leave nothing *)
Shifted(val) ==
  LET rest[n \in 0 .. Digits] == IF n = 0 THEN val ELSE rest[n - 1] \div Chars IN rest

ASSUME DigitsAssumption == \A val \in Vals : Shifted(val)[Digits] = 0

(* buf of testmodule__printk: for (i = 7 .. 0) { hex[val & 0xF]; val >>= 4 } *)
HexLine(val) ==
  Prefix \o [k \in 1 .. Digits |-> Hex[1 + (Shifted(val)[Digits - k] % Chars)]] \o <<LF>>

(* The puts of the C library ends the line once more *)
Printk(val) ==
  /\ task = "printk" /\ Free /\ Len(printed) < Prints
  /\ printed' = Append(printed, val)
  /\ \/ /\ target = "zkvm" /\ printk(val) /\ Silent
     \/ /\ target = "qemu" /\ puts(HexLine(val)) /\ UNCHANGED area
     \/ /\ target = "qemu_user" /\ left' = HexLine(val) \o <<LF>>
        /\ UNCHANGED <<thr, wire, rbr, typed, area>>
  /\ UNCHANGED <<task, booted, file, data, len, failed, step, got>>
-----------------------------------------------------------------------------
(* amd64/main.c and read_input_data of amd64.c *)
NoInputFile == /\ step = "main" /\ step' = "getInputData"
               /\ UNCHANGED <<data, len, failed>>
OpenFails == /\ step = "main" /\ step' = "getInputData"
             /\ failed' = TRUE
             /\ UNCHANGED <<data, len>>
(* the results of fseek and ftell are not looked at: if the one fails ftell
   tells 0, if the other fails (a pipe) it gives NoLength *)
Open == /\ step = "main" /\ step' = "calloc"
        /\ len' \in {Len(file), 0, NoLength}
        /\ UNCHANGED <<data, failed>>
CallocFails == /\ step = "calloc" /\ step' = "getInputData"
               /\ data' = NULL /\ failed' = TRUE
               /\ UNCHANGED len
(* calloc(len + 1): NoLength makes a block of no bytes *)
Alloc == /\ step = "calloc" /\ step' = "fread"
         /\ data' = [k \in 1 .. len |-> 0]
         /\ UNCHANGED <<len, failed>>
QuietReadFails ==   \* mutant: fread's result is not looked at
  /\ step = "fread" /\ step' = "getInputData"
  /\ IF len <= 0 THEN UNCHANGED data ELSE \E n \in 0 .. len - 1 :
       data' = [k \in 1 .. len |-> IF k <= n THEN file[k] ELSE 0]
  /\ UNCHANGED <<len, failed>>
(* What was read before the error stays; an empty file is "failed" too, and
   so is a read of NoLength bytes, 2^64 - 1 as a size_t: it puts what there is
   behind the empty block, where the program may not survive it *)
ReadFails == /\ step = "fread"
             /\ IF len <= 0 THEN UNCHANGED data ELSE \E n \in 0 .. len - 1 :
                  data' = [k \in 1 .. len |-> IF k <= n THEN file[k] ELSE 0]
             /\ \/ step' = "getInputData" /\ failed' = TRUE
                \/ len = NoLength /\ step' = "crash" /\ UNCHANGED failed
             /\ UNCHANGED len
Read == /\ step = "fread" /\ len > 0 /\ step' = "getInputData"
        /\ data' = file
        /\ UNCHANGED <<len, failed>>
ReadInputData == /\ task = "input"
                 /\ \/ NoInputFile \/ OpenFails \/ Open \/ CallocFails \/ Alloc
                    \/ ReadFails \/ Read
                 /\ Silent /\ UNCHANGED <<task, area, booted, printed, file, got>>

(* The input area holds the length in word 2, the bytes from word 4 on, and
   then what happens to follow.  A word is its WORD bytes, the least
   significant first, the order in which they lie in memory. *)
InputByte(k) == IF k < Len(file) THEN file[k + 1] ELSE 0
read_value(i) == [j \in 0 .. WORD - 1 |-> InputByte(WORD * i + j)]
len_input_buf == Len(file) \div WORD + IF Len(file) % WORD # 0 THEN 1 ELSE 0

(* The guest sees NoLength as 2^32 - 1 *)
InputDataLen == CASE target = "zkvm" -> Len(file)
                  [] target = "amd64" -> len
                  [] OTHER -> 0

(* A char becomes a U32: it is unsigned on RISC-V, and signed on amd64, where
   the sign fills the word *)
Widened(char) ==
  [j \in 0 .. WORD - 1 |->
     IF j = 0 THEN char
     ELSE IF target = "amd64" /\ char >= BYTE \div 2 THEN BYTE - 1 ELSE 0]
InputData(k) == Widened(IF target = "zkvm" THEN InputByte(k) ELSE data[k + 1])

byte(word) == word[0]

(* make([]byte, n): a guest cannot have 2^32 - 1 bytes, and panics *)
MakeFails == /\ task = "input" /\ step = "getInputData"
             /\ InputDataLen = NoLength
             /\ step' = "crash"
             /\ Silent /\ UNCHANGED <<task, area, booted, printed, file, data, len, failed, got>>

(* The guest's loop: byte(input_data(i)) *)
GetByte == /\ task = "input" /\ step = "getInputData"
           /\ Len(got) < InputDataLen
           /\ IF target = "amd64" /\ data = NULL THEN step' = "crash" /\ UNCHANGED got
              ELSE got' = Append(got, byte(InputData(Len(got)))) /\ UNCHANGED step
           /\ Silent /\ UNCHANGED <<task, area, booted, printed, file, data, len, failed>>
Got == /\ task = "input" /\ step = "getInputData" /\ Len(got) = InputDataLen
       /\ step' = "done"
       /\ Silent /\ UNCHANGED <<task, area, booted, printed, file, data, len, failed, got>>

Import == (\E val \in Vals : Printk(val)) \/ ReadInputData \/ MakeFails \/ GetByte \/ Got
-----------------------------------------------------------------------------
(* The value a reader takes from the k-th line that printk printed *)
LineLen == Len(HexLine(0)) + IF target = "qemu_user" THEN 1 ELSE 0
Digit(k, d) == (CHOOSE h \in 1 .. Chars :
                  Hex[h] = Accepted[(k - 1) * LineLen + Len(Prefix) + d]) - 1
LineValue(k) ==
  LET value[d \in 0 .. Digits] == IF d = 0 THEN 0 ELSE value[d - 1] * Chars + Digit(k, d)
  IN value[Digits]

(* While printk has room, whoever looks at the output area, or reads the
   console, finds every value the guest printed, once and in order, and no
   other variable of the program has changed. *)
PrintkTells ==
  /\ target = "zkvm" /\ Len(printed) <= Capacity =>
       area = [a \in 0 .. RamTop |-> IF a \in {0, CountAt} THEN Len(printed)
                                   ELSE IF a <= Len(printed) THEN printed[a] ELSE booted[a]]
  /\ target # "zkvm" /\ Len(printed) > 0 =>
       /\ Len(Accepted) = Len(printed) * LineLen
       /\ \A k \in DOMAIN printed : LineValue(k) = printed[k]

(* The guest has the whole input, or the built-in one, or a line on the
   console has said that it may be something else; and a guest that reads
   words (zkvm.c) gets the same bytes. *)
InputTold ==
  step = "done" =>
    /\ target = "zkvm" => /\ got = file
                          /\ \A k \in 0 .. Len(file) - 1 :
                               /\ k \div WORD < len_input_buf
                               /\ read_value(k \div WORD)[k % WORD] = file[k + 1]
    /\ target = "amd64" /\ ~failed => got \in {file, test789}
=============================================================================
