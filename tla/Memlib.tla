------------------------------- MODULE Memlib -------------------------------
(***************************************************************************)
(* w2c2/embedded/memlib.c: the allocator, memset, memcpy and memmove that  *)
(* the C code generated by w2c2 links against on the zkvm and riscv-qemu   *)
(* targets.  There is no free list: every buffer has a fixed place in the  *)
(* heap [HEAP_START, HEAP_START + HEAP_SIZE), chosen by the element size   *)
(* of the calloc, and the only test is memory_data_size_ok.                *)
(*                                                                         *)
(* The calls come from the w2c2 runtime (not in this repository): it       *)
(* callocs the wasmMemory struct, the memory's bytes and the function      *)
(* table while the guest is instantiated, reallocs and memsets on          *)
(* memory.grow, and translates the guest's stores, memory.fill and         *)
(* memory.copy into plain stores, memset and memmove.                      *)
(*                                                                         *)
(* One RAM cell is one byte.  Host stands for any byte of the runtime's    *)
(* own data (pages and data pointer of the struct, function pointers of    *)
(* the table); a guest store puts a member of Byte.  memmove and _memset   *)
(* are taken by their effect here: Memset.tla models the loops.            *)
(***************************************************************************)
EXTENDS Integers

CONSTANTS HEAP_START, HEAP_SIZE,
          SizeofWasmMemory,      \* sizeof(wasmMemory)
          FunctionTableBufSize,  \* wasmFunctionTableBufSize
          EntrySize,             \* sizeof one function table entry
          TableEntries,          \* sizes of function table a guest may have
          PageSize,              \* bytes of a Wasm page
          InitialPages,          \* initial memory sizes a guest may declare
          MaxPages,              \* maximum memory size a guest declares
          Byte, Host,
          MaxFill                \* bound: longest memory.fill or copy

ASSUME HeapAssumption ==
  /\ HEAP_START \in Nat \ {0} /\ HEAP_SIZE \in Nat
  /\ SizeofWasmMemory \in Nat \ {0, 1}
  /\ FunctionTableBufSize \in Nat
  /\ SizeofWasmMemory + FunctionTableBufSize <= HEAP_SIZE
ASSUME TableAssumption ==
  /\ EntrySize \in Nat \ {0, 1, SizeofWasmMemory}
  /\ TableEntries \subseteq Nat
  /\ \A n \in TableEntries : n * EntrySize < HEAP_SIZE
ASSUME GuestAssumption ==
  /\ PageSize \in Nat \ {0} /\ MaxPages \in Nat
  /\ InitialPages \subseteq 0 .. MaxPages
  /\ 0 \in Byte /\ Host \notin Byte
  /\ MaxFill \in Nat

VARIABLES phase,      \* where main() is: instantiating, running, freed, trapped
          guest,      \* what the guest declares: [entries, pages]
          structPtr, dataPtr, tablePtr,
          pages,      \* memory->pages
          last,       \* the last operation of the guest, operands or answer
          ram         \* the bytes of the heap

vars == <<phase, guest, structPtr, dataPtr, tablePtr, pages, last, ram>>

NULL == 0
HeapEnd == HEAP_START + HEAP_SIZE
Heap == HEAP_START .. HeapEnd - 1
Region(p, n) == p .. p + n - 1
TableBytes == guest.entries * EntrySize
Size == pages * PageSize
-----------------------------------------------------------------------------
(* Mutants: plausible slips in the definitions below, each of which one of
   the properties at the end must catch. *)
NoReserveSizeOk(size) == HEAP_START + SizeofWasmMemory + size <= HeapEnd
NoDataAllocType(size) == IF size = SizeofWasmMemory THEN "struct" ELSE "table"
SizelessMalloc(bytes, type) == IF type = "struct" THEN HEAP_START
                               ELSE IF type = "table" THEN HeapEnd
                               ELSE HEAP_START + SizeofWasmMemory

(* memory_data_size_ok *)
SizeOk(size) ==
  HEAP_START + SizeofWasmMemory + FunctionTableBufSize + size <= HeapEnd

AllocType(size) == IF size = SizeofWasmMemory THEN "struct"
                   ELSE IF size = 1 THEN "data" ELSE "table"

(* _malloc: one fixed place per kind of buffer; only the data is tested *)
Malloc(bytes, type) ==
  IF type = "struct" THEN HEAP_START
  ELSE IF type = "table" THEN HeapEnd - bytes - 1
  ELSE IF SizeOk(bytes) THEN HEAP_START + SizeofWasmMemory ELSE NULL

(* SKIP_ALLOC_ZEROING: the buffer is returned as it is *)
Calloc(nmemb, size) == Malloc(nmemb * size, AllocType(size))

Realloc(ptr, size) == IF SizeOk(size) THEN ptr ELSE NULL

Written(p, n, v) == [a \in Heap |-> IF a \in Region(p, n) THEN v ELSE ram[a]]

LongMemset(p, c, len) == Written(p, len + 1, c)
EagerSkipMemset(p, c, len) ==
  IF len >= FunctionTableBufSize /\ c = 0 THEN ram ELSE Written(p, len, c)

(* memset with SKIP_BIG_CHUNKS_MEMSET_ZEROING *)
Memset(p, c, len) ==
  IF len > FunctionTableBufSize /\ c = 0 THEN ram ELSE Written(p, len, c)

Memmove(d, s, n) ==
  [a \in Heap |-> IF a \in Region(d, n) THEN ram[s + (a - d)] ELSE ram[a]]
-----------------------------------------------------------------------------
(* Heap RAM is zero when the machine starts; nothing in memlib.c zeroes it *)
Init == /\ phase = "instantiate"
        /\ guest \in [entries : TableEntries, pages : InitialPages]
        /\ structPtr = NULL /\ dataPtr = NULL /\ tablePtr = NULL
        /\ pages = 0 /\ last = <<"none">>
        /\ ram = [a \in Heap |-> 0]

(* wasmMemoryAllocate, first calloc: the struct, whose fields are set *)
AllocateStruct ==
  /\ phase = "instantiate" /\ structPtr = NULL
  /\ structPtr' = Calloc(1, SizeofWasmMemory)
  /\ ram' = Written(structPtr', SizeofWasmMemory, Host)
  /\ UNCHANGED <<phase, guest, dataPtr, tablePtr, pages, last>>

(* wasmMemoryAllocate, second calloc: the bytes, or trapAllocationFailed *)
AllocateData ==
  /\ phase = "instantiate" /\ structPtr # NULL /\ dataPtr = NULL
  /\ LET p == Calloc(guest.pages * PageSize, 1)
     IN \/ p = NULL /\ phase' = "trapped" /\ UNCHANGED <<dataPtr, pages>>
        \/ p # NULL /\ dataPtr' = p /\ pages' = guest.pages /\ UNCHANGED phase
  /\ UNCHANGED <<guest, structPtr, tablePtr, last, ram>>

(* wasmTableAllocate and the element segments *)
AllocateTable ==
  /\ phase = "instantiate" /\ tablePtr = NULL
  /\ tablePtr' = Calloc(guest.entries, EntrySize)
  /\ ram' = Written(tablePtr', TableBytes, Host)
  /\ UNCHANGED <<phase, guest, structPtr, dataPtr, pages, last>>

(* guestInstantiate returns and guest__start is called *)
Start == /\ phase = "instantiate"
         /\ dataPtr # NULL /\ tablePtr # NULL
         /\ phase' = "running"
         /\ UNCHANGED <<guest, structPtr, dataPtr, tablePtr, pages, last, ram>>

(* memory.grow: realloc, then memset of the new pages *)
Grow(delta) ==
  /\ phase = "running" /\ pages + delta <= MaxPages
  /\ LET p == Realloc(dataPtr, (pages + delta) * PageSize)
     IN \/ /\ p = NULL
           /\ last' = <<"grow", -1>>
           /\ UNCHANGED <<dataPtr, pages, ram>>
        \/ /\ p # NULL
           /\ dataPtr' = p
           /\ ram' = Memset(p + Size, 0, delta * PageSize)
           /\ pages' = pages + delta
           /\ last' = <<"grow", pages>>
  /\ UNCHANGED <<phase, guest, structPtr, tablePtr>>

(* The guest's own accesses; data segments are stored before Start *)
Accessible == phase \in {"instantiate", "running"} /\ dataPtr # NULL

GuestAccess(op, newRam) ==
  /\ Accessible
  /\ ram' = newRam
  /\ last' = op
  /\ UNCHANGED <<phase, guest, structPtr, dataPtr, tablePtr, pages>>

GuestStore(i, v) ==
  GuestAccess(<<"store", i, v>>, Written(dataPtr + i, 1, v))
GuestFill(i, n, v) ==
  /\ i + n <= Size
  /\ GuestAccess(<<"fill", i, n, v>>, Memset(dataPtr + i, v, n))
GuestCopy(d, s, n) ==
  /\ d + n <= Size /\ s + n <= Size
  /\ GuestAccess(<<"copy", d, s, n>>, Memmove(dataPtr + d, dataPtr + s, n))

(* guestFreeInstance: three calls of free(), which does nothing *)
FreeInstance ==
  /\ phase = "running" /\ phase' = "freed"
  /\ UNCHANGED <<guest, structPtr, dataPtr, tablePtr, pages, last, ram>>

Stopped == phase \in {"freed", "trapped"} /\ UNCHANGED vars

Next ==
  \/ AllocateStruct \/ AllocateData \/ AllocateTable \/ Start
  \/ \E delta \in 0 .. MaxPages : Grow(delta)
  \/ \E i \in 0 .. Size - 1, v \in Byte : GuestStore(i, v)
  \/ \E i \in 0 .. Size, n \in 0 .. MaxFill, v \in Byte : GuestFill(i, n, v)
  \/ \E d, s \in 0 .. Size, n \in 0 .. MaxFill : GuestCopy(d, s, n)
  \/ FreeInstance
  \/ Stopped

Spec == Init /\ [][Next]_vars
-----------------------------------------------------------------------------
StructRegion == IF structPtr = NULL THEN {} ELSE Region(structPtr, SizeofWasmMemory)
DataRegion == IF dataPtr = NULL THEN {} ELSE Region(dataPtr, Size)
TableRegion == IF tablePtr = NULL THEN {} ELSE Region(tablePtr, TableBytes)

(* The table leaves room for the reserve that memory_data_size_ok keeps.
   The "- 1" in _malloc makes it strict: a table of exactly
   wasmFunctionTableBufSize bytes starts one byte below the reserve. *)
TableFits == TableBytes < FunctionTableBufSize

(* Every pointer is NULL or an address of the heap, every byte the guest's
   or the runtime's. *)
TypeOK ==
  /\ phase \in {"instantiate", "running", "freed", "trapped"}
  /\ guest \in [entries : TableEntries, pages : InitialPages]
  /\ structPtr \in {NULL} \cup Heap
  /\ dataPtr \in {NULL} \cup Heap \cup {HeapEnd}
  /\ tablePtr \in {NULL} \cup Heap
  /\ pages \in 0 .. MaxPages
  /\ last \in {<<"none">>} \cup ({"grow"} \X (-1 .. MaxPages))
             \cup ({"store"} \X Nat \X Byte)
             \cup ({"fill"} \X Nat \X Nat \X Byte)
             \cup ({"copy"} \X Nat \X Nat \X Nat)
  /\ ram \in [Heap -> Byte \cup {Host}]

(* However far memory.grow has extended the memory, the three buffers of
   calloc share no byte and stay inside the heap. *)
BuffersDisjoint ==
  TableFits =>
    /\ StructRegion \cap DataRegion = {}
    /\ StructRegion \cap TableRegion = {}
    /\ DataRegion \cap TableRegion = {}
    /\ StructRegion \cup DataRegion \cup TableRegion \subseteq Heap

(* Function pointers and the wasmMemory struct survive everything the guest
   stores, fills, copies and grows. *)
HostDataIntact ==
  TableFits => \A a \in StructRegion \cup TableRegion : ram[a] = Host

(* What memory.grow relies on once memset skips big chunks: between the end
   of the memory and the reserve for the table no byte was ever written. *)
BeyondMemoryZero ==
  TableFits =>
    \A a \in HEAP_START + SizeofWasmMemory + Size .. HeapEnd - FunctionTableBufSize - 1 :
       ram[a] = 0

(* memory.fill leaves the value in every byte of its range, as the comment
   of _memset says ("fills the first sz bytes ... with the constant byte"). *)
FillTakesEffect ==
  last[1] = "fill" => \A a \in Region(dataPtr + last[2], last[3]) : ram[a] = last[4]

(* The linear memory the guest sees *)
WM == INSTANCE WasmMemory
        WITH lin <- [i \in 0 .. Size - 1 |-> ram[dataPtr + i]]

(* memlib.c and the w2c2 runtime together implement Wasm linear memory: a
   grown page reads as zero, a refused memory.grow changes nothing, and
   only the guest's accesses change a byte. *)
ImplementsWasmMemory == WM!Spec
=============================================================================
