---------------------------- MODULE MemlibProofs ----------------------------
(***************************************************************************)
(* Proofs about Memlib for every heap, page and table size that meets its  *)
(* assumptions.  The heart is the inductive invariant IInv: the places of  *)
(* the three buffers (Placed) together with what the bytes outside the     *)
(* linear memory hold.                                                     *)
(***************************************************************************)
EXTENDS Memlib, TLAPS

(* Where _malloc put each buffer, and that the memory never outgrew what
   memory_data_size_ok admits. *)
Placed ==
  /\ structPtr \in {NULL, HEAP_START}
  /\ dataPtr \in {NULL, HEAP_START + SizeofWasmMemory}
  /\ tablePtr \in {NULL, HeapEnd - TableBytes - 1}
  /\ dataPtr = NULL => pages = 0 /\ last = <<"none">> /\ phase \in {"instantiate", "trapped"}
  /\ dataPtr # NULL => SizeOk(Size)

IInv == TypeOK /\ Placed /\ HostDataIntact /\ BeyondMemoryZero

(* Byte counts are naturals, and a table is smaller than the heap. *)
LEMMA SizeFacts ==
  ASSUME TypeOK
  PROVE  /\ Size \in Nat /\ TableBytes \in Nat /\ TableBytes < HEAP_SIZE
         /\ \A n \in Nat : n * PageSize \in Nat
         /\ \A n \in Nat : (pages + n) * PageSize = Size + n * PageSize
<1>1. pages \in Nat /\ PageSize \in Nat /\ EntrySize \in Nat /\ guest.entries \in TableEntries
  BY GuestAssumption, TableAssumption DEF TypeOK
<1>2. guest.entries \in Nat
  BY <1>1, TableAssumption
<1>3. Size \in Nat
  BY <1>1 DEF Size
<1>4. TableBytes \in Nat /\ TableBytes < HEAP_SIZE
  BY <1>1, <1>2, TableAssumption DEF TableBytes
<1>5. \A n \in Nat : n * PageSize \in Nat
  BY <1>1
<1>6. \A n \in Nat : (pages + n) * PageSize = Size + n * PageSize
  BY <1>1 DEF Size
<1> QED BY <1>3, <1>4, <1>5, <1>6

(* A write of n bytes leaves a well-typed heap. *)
LEMMA WrittenType ==
  ASSUME ram \in [Heap -> Byte \cup {Host}], NEW p, NEW n, NEW v \in Byte \cup {Host}
  PROVE  Written(p, n, v) \in [Heap -> Byte \cup {Host}]
BY DEF Written

(* The initial state satisfies the inductive invariant. *)
LEMMA InitIInv == Init => IInv
<1> SUFFICES ASSUME Init PROVE IInv
  OBVIOUS
<1>1. TypeOK
  BY HeapAssumption, GuestAssumption DEF Init, TypeOK, NULL, Heap, HeapEnd
<1>2. Placed
  BY DEF Init, Placed
<1>3. HostDataIntact
  BY DEF Init, HostDataIntact, StructRegion, TableRegion
<1>4. BeyondMemoryZero
  <2> SUFFICES ASSUME NEW a \in HEAP_START + SizeofWasmMemory + Size .. HeapEnd - FunctionTableBufSize - 1
               PROVE  ram[a] = 0
    BY DEF BeyondMemoryZero
  <2>1. Size \in Nat
    BY <1>1, SizeFacts
  <2>2. a \in Heap
    BY <2>1, HeapAssumption DEF Heap, HeapEnd
  <2> QED BY <2>2 DEF Init
<1> QED BY <1>1, <1>2, <1>3, <1>4 DEF IInv

(* The buffers of Placed lie in the heap, in this order and apart. *)
LEMMA PlacesApart ==
  ASSUME TypeOK, Placed
  PROVE  /\ StructRegion \subseteq Heap /\ DataRegion \subseteq Heap
         /\ TableRegion \subseteq Heap
         /\ StructRegion \cap DataRegion = {}
         /\ TableFits => /\ StructRegion \cap TableRegion = {}
                         /\ DataRegion \cap TableRegion = {}
<1> USE HeapAssumption DEF Heap, HeapEnd, Region, NULL
<1>1. Size \in Nat /\ TableBytes \in Nat /\ TableBytes < HEAP_SIZE
  BY SizeFacts
<1>2. StructRegion \subseteq Heap
  BY DEF StructRegion, Placed
<1>3. DataRegion \subseteq Heap
  BY <1>1 DEF DataRegion, Placed, SizeOk
<1>4. TableRegion \subseteq Heap
  BY <1>1 DEF TableRegion, Placed
<1>5. StructRegion \cap DataRegion = {}
  BY <1>1 DEF StructRegion, DataRegion, Placed
<1>6. TableFits => StructRegion \cap TableRegion = {}
  BY <1>1 DEF StructRegion, TableRegion, Placed, TableFits
<1>7. TableFits => DataRegion \cap TableRegion = {}
  BY <1>1 DEF DataRegion, TableRegion, Placed, TableFits, SizeOk
<1> QED BY <1>2, <1>3, <1>4, <1>5, <1>6, <1>7

(* A step that writes only inside the linear memory keeps what the rest of
   the heap holds. *)
LEMMA WritesInside ==
  ASSUME TypeOK, Placed, HostDataIntact, BeyondMemoryZero,
         UNCHANGED <<guest, structPtr, dataPtr, tablePtr, pages>>,
         dataPtr # NULL,
         \A a \in Heap \ DataRegion : ram'[a] = ram[a]
  PROVE  HostDataIntact' /\ BeyondMemoryZero'
<1>1. /\ StructRegion' = StructRegion /\ TableRegion' = TableRegion
      /\ TableFits' = TableFits /\ Size' = Size
  BY DEF StructRegion, TableRegion, TableFits, TableBytes, Size
<1>2. HostDataIntact'
  BY <1>1, PlacesApart DEF HostDataIntact
<1>3. BeyondMemoryZero'
  <2> SUFFICES ASSUME TableFits,
                      NEW a \in HEAP_START + SizeofWasmMemory + Size .. HeapEnd - FunctionTableBufSize - 1
               PROVE  ram'[a] = 0
    BY <1>1 DEF BeyondMemoryZero
  <2>1. Size \in Nat
    BY SizeFacts
  <2>2. a \in Heap \ DataRegion
    BY <2>1, HeapAssumption DEF Heap, HeapEnd, DataRegion, Region, Placed
  <2> QED BY <2>2 DEF BeyondMemoryZero
<1> QED BY <1>2, <1>3

(* calloc of the struct and of the table touch no byte of the memory or of
   the free part of the heap. *)
LEMMA AllocateStructIInv == IInv /\ AllocateStruct => IInv'
<1> SUFFICES ASSUME IInv, AllocateStruct PROVE IInv'
  OBVIOUS
<1> USE DEF IInv
<1>1. Size \in Nat /\ TableBytes \in Nat /\ TableBytes < HEAP_SIZE
  BY SizeFacts
<1>2. structPtr' = HEAP_START
  BY DEF AllocateStruct, Calloc, AllocType, Malloc
<1>3. TypeOK'
  BY <1>2, HeapAssumption, WrittenType DEF AllocateStruct, TypeOK, Heap, HeapEnd
<1>4. Placed'
  BY <1>2 DEF AllocateStruct, Placed, TableBytes, Size, SizeOk
<1>5. /\ \A a \in Region(HEAP_START, SizeofWasmMemory) : a \in Heap /\ ram'[a] = Host
      /\ \A a \in Heap \ Region(HEAP_START, SizeofWasmMemory) : ram'[a] = ram[a]
  BY <1>2, HeapAssumption DEF AllocateStruct, Written, Region, Heap, HeapEnd
<1>6. /\ StructRegion' = Region(HEAP_START, SizeofWasmMemory) /\ TableRegion' = TableRegion
      /\ TableFits' = TableFits /\ Size' = Size
  BY <1>2, HeapAssumption DEF AllocateStruct, StructRegion, TableRegion, TableFits, TableBytes, Size, NULL
<1>7. HostDataIntact'
  <2> SUFFICES ASSUME TableFits, NEW a \in StructRegion' \cup TableRegion PROVE ram'[a] = Host
    BY <1>6 DEF HostDataIntact
  <2>1. CASE a \in StructRegion'
    BY <2>1, <1>5, <1>6
  <2>2. CASE a \in TableRegion
    <3>1. a \in Heap \ Region(HEAP_START, SizeofWasmMemory)
      BY <2>2, <1>1, HeapAssumption DEF TableRegion, Region, Heap, HeapEnd, Placed, TableFits, NULL
    <3> QED BY <3>1, <2>2, <1>5 DEF HostDataIntact
  <2> QED BY <2>1, <2>2
<1>8. BeyondMemoryZero'
  <2> SUFFICES ASSUME TableFits,
                      NEW a \in HEAP_START + SizeofWasmMemory + Size .. HeapEnd - FunctionTableBufSize - 1
               PROVE  ram'[a] = 0
    BY <1>6 DEF BeyondMemoryZero
  <2>1. a \in Heap \ Region(HEAP_START, SizeofWasmMemory)
    BY <1>1, HeapAssumption DEF Heap, HeapEnd, Region
  <2> QED BY <2>1, <1>5 DEF BeyondMemoryZero
<1> QED BY <1>3, <1>4, <1>7, <1>8

LEMMA AllocateTableIInv == IInv /\ AllocateTable => IInv'
<1> SUFFICES ASSUME IInv, AllocateTable PROVE IInv'
  OBVIOUS
<1> USE DEF IInv
<1> DEFINE T == HeapEnd - TableBytes - 1
<1>1. Size \in Nat /\ TableBytes \in Nat /\ TableBytes < HEAP_SIZE
  BY SizeFacts
<1>2. tablePtr' = T
  BY TableAssumption DEF AllocateTable, Calloc, AllocType, Malloc, TableBytes
<1>3. TypeOK'
  <2>1. T \in Heap
    BY <1>1, HeapAssumption DEF Heap, HeapEnd
  <2> QED BY <1>2, <2>1, WrittenType DEF AllocateTable, TypeOK
<1>4. Placed'
  BY <1>2 DEF AllocateTable, Placed, TableBytes, Size, SizeOk
<1>5. /\ \A a \in Region(T, TableBytes) : a \in Heap /\ ram'[a] = Host
      /\ \A a \in Heap \ Region(T, TableBytes) : ram'[a] = ram[a]
  BY <1>1, <1>2, HeapAssumption DEF AllocateTable, Written, Region, Heap, HeapEnd
<1>6. /\ StructRegion' = StructRegion /\ TableRegion' \subseteq Region(T, TableBytes)
      /\ TableFits' = TableFits /\ Size' = Size
  BY <1>2 DEF AllocateTable, StructRegion, TableRegion, TableFits, TableBytes, Size
<1>7. HostDataIntact'
  <2> SUFFICES ASSUME TableFits, NEW a \in StructRegion \cup TableRegion' PROVE ram'[a] = Host
    BY <1>6 DEF HostDataIntact
  <2>1. CASE a \in TableRegion'
    BY <2>1, <1>5, <1>6
  <2>2. CASE a \in StructRegion
    <3>1. a \in Heap \ Region(T, TableBytes)
      BY <2>2, <1>1, HeapAssumption DEF StructRegion, Region, Heap, HeapEnd, Placed, TableFits, NULL
    <3> QED BY <3>1, <2>2, <1>5 DEF HostDataIntact
  <2> QED BY <2>1, <2>2
<1>8. BeyondMemoryZero'
  <2> SUFFICES ASSUME TableFits,
                      NEW a \in HEAP_START + SizeofWasmMemory + Size .. HeapEnd - FunctionTableBufSize - 1
               PROVE  ram'[a] = 0
    BY <1>6 DEF BeyondMemoryZero
  <2>1. a \in Heap \ Region(T, TableBytes)
    BY <1>1, HeapAssumption DEF Heap, HeapEnd, Region, TableFits
  <2> QED BY <2>1, <1>5 DEF BeyondMemoryZero
<1> QED BY <1>3, <1>4, <1>7, <1>8

LEMMA AllocateDataIInv == IInv /\ AllocateData => IInv'
<1> SUFFICES ASSUME IInv, AllocateData PROVE IInv'
  OBVIOUS
<1> USE DEF IInv
<1> DEFINE p == Calloc(guest.pages * PageSize, 1)
<1>0. guest.pages \in 0 .. MaxPages /\ guest.pages * PageSize \in Nat
  <2>1. guest.pages \in InitialPages
    BY DEF TypeOK
  <2>2. guest.pages \in 0 .. MaxPages /\ PageSize \in Nat /\ MaxPages \in Nat
    BY <2>1, GuestAssumption
  <2>3. \A n \in Nat : n * PageSize \in Nat
    BY <2>2
  <2> QED BY <2>2, <2>3
<1>1. p = IF SizeOk(guest.pages * PageSize) THEN HEAP_START + SizeofWasmMemory ELSE NULL
  <2>1. \A n \in Nat : Calloc(n, 1) = IF SizeOk(n) THEN HEAP_START + SizeofWasmMemory ELSE NULL
    <3>1. AllocType(1) = "data"
      BY HeapAssumption DEF AllocType
    <3>2. \A n \in Nat : n * 1 = n
      OBVIOUS
    <3> QED BY <3>1, <3>2 DEF Calloc, Malloc
  <2> QED BY <1>0, <2>1
<1>2. /\ HostDataIntact' = HostDataIntact
      /\ guest' = guest /\ structPtr' = structPtr /\ tablePtr' = tablePtr
      /\ last' = last /\ ram' = ram
  BY DEF AllocateData, HostDataIntact, StructRegion, TableRegion, TableFits, TableBytes
<1>3. CASE p = NULL /\ phase' = "trapped" /\ UNCHANGED <<dataPtr, pages>>
  <2>1. TypeOK' /\ Placed'
    BY <1>2, <1>3 DEF TypeOK, Placed, TableBytes, Size, SizeOk, AllocateData
  <2>2. BeyondMemoryZero'
    BY <1>2, <1>3 DEF BeyondMemoryZero, TableFits, TableBytes, Size
  <2> QED BY <1>2, <2>1, <2>2
<1>4. CASE p # NULL /\ dataPtr' = p /\ pages' = guest.pages /\ UNCHANGED phase
  <2>1. SizeOk(guest.pages * PageSize) /\ dataPtr' = HEAP_START + SizeofWasmMemory
    BY <1>1, <1>4
  <2>2. dataPtr' \in Heap \cup {HeapEnd}
    BY <2>1, HeapAssumption DEF Heap, HeapEnd
  <2>3. TypeOK'
    BY <1>0, <1>2, <1>4, <2>2 DEF TypeOK
  <2>4. Placed'
    BY <1>2, <1>4, <2>1, HeapAssumption DEF Placed, TableBytes, Size, SizeOk, NULL
  <2>5. pages = 0 /\ Size = 0 /\ Size' \in Nat
    BY <1>0, <1>4, GuestAssumption DEF AllocateData, Placed, Size
  <2>6. BeyondMemoryZero'
    <3> SUFFICES ASSUME TableFits,
                        NEW a \in HEAP_START + SizeofWasmMemory + Size' .. HeapEnd - FunctionTableBufSize - 1
                 PROVE  ram[a] = 0
      BY <1>2 DEF BeyondMemoryZero, TableFits, TableBytes
    <3>1. a \in HEAP_START + SizeofWasmMemory + Size .. HeapEnd - FunctionTableBufSize - 1
      <4> DEFINE S == Size'
      <4>1. S \in Nat /\ a \in HEAP_START + SizeofWasmMemory + S .. HeapEnd - FunctionTableBufSize - 1
        BY <2>5
      <4> HIDE DEF S
      <4>2. a \in HEAP_START + SizeofWasmMemory + 0 .. HeapEnd - FunctionTableBufSize - 1
        BY <4>1, HeapAssumption DEF HeapEnd
      <4> QED BY <4>2, <2>5
    <3> QED BY <3>1 DEF BeyondMemoryZero
  <2> QED BY <1>2, <2>3, <2>4, <2>6
<1> QED BY <1>3, <1>4 DEF AllocateData

(* memory.grow: the new pages lie between the old end of the memory and the
   reserve for the table, whether or not memset skips them. *)
LEMMA GrowIInv ==
  ASSUME NEW delta \in 0 .. MaxPages
  PROVE  IInv /\ Grow(delta) => IInv'
<1> SUFFICES ASSUME IInv, Grow(delta) PROVE IInv'
  OBVIOUS
<1> USE DEF IInv
<1> DEFINE p == Realloc(dataPtr, (pages + delta) * PageSize)
           D == delta * PageSize
<1>1. /\ delta \in Nat /\ pages \in Nat /\ pages + delta <= MaxPages
      /\ Size \in Nat /\ TableBytes \in Nat /\ TableBytes < HEAP_SIZE
      /\ D \in Nat /\ (pages + delta) * PageSize = Size + D
  BY SizeFacts, GuestAssumption DEF Grow, TypeOK
<1>2. dataPtr = HEAP_START + SizeofWasmMemory /\ dataPtr # NULL
  BY DEF Grow, Placed
<1>3. /\ guest' = guest /\ structPtr' = structPtr /\ tablePtr' = tablePtr /\ phase' = phase
      /\ TableFits' = TableFits /\ TableBytes' = TableBytes
      /\ StructRegion' = StructRegion /\ TableRegion' = TableRegion
  BY DEF Grow, StructRegion, TableRegion, TableFits, TableBytes
<1>4. CASE p = NULL /\ last' = <<"grow", -1>> /\ UNCHANGED <<dataPtr, pages, ram>>
  <2>1. TypeOK' /\ Placed'
    BY <1>2, <1>3, <1>4, GuestAssumption DEF TypeOK, Placed, SizeOk, Size
  <2>2. HostDataIntact' /\ BeyondMemoryZero'
    BY <1>3, <1>4 DEF HostDataIntact, BeyondMemoryZero, Size
  <2> QED BY <2>1, <2>2
<1>5. CASE /\ p # NULL /\ dataPtr' = p /\ ram' = Memset(p + Size, 0, D)
           /\ pages' = pages + delta /\ last' = <<"grow", pages>>
  <2>1. SizeOk(Size + D) /\ p = dataPtr
    BY <1>1, <1>5 DEF Realloc
  <2>2. Size' = Size + D
    BY <1>1, <1>5 DEF Size
  <2>3. ram' = ram \/ ram' = Written(dataPtr + Size, D, 0)
    BY <1>5, <2>1 DEF Memset
  <2>4. ram' \in [Heap -> Byte \cup {Host}]
    BY <2>3, WrittenType, GuestAssumption DEF TypeOK
  <2>5. TypeOK'
    BY <1>1, <1>3, <1>5, <2>1, <2>4 DEF TypeOK
  <2>6. Placed'
    BY <1>2, <1>3, <1>5, <2>1, <2>2 DEF Placed, SizeOk
  <2>7. \A a \in Heap : a \notin Region(dataPtr + Size, D) => ram'[a] = ram[a]
    BY <2>3 DEF Written
  <2>8. HostDataIntact'
    <3> SUFFICES ASSUME TableFits, NEW a \in StructRegion \cup TableRegion PROVE ram'[a] = Host
      BY <1>3 DEF HostDataIntact
    <3>1. a \in Heap
      BY PlacesApart
    <3>2. a \notin Region(dataPtr + Size, D)
      BY <1>1, <1>2, <2>1, HeapAssumption
         DEF StructRegion, TableRegion, Region, Placed, TableFits, SizeOk, HeapEnd, NULL
    <3> QED BY <3>1, <3>2, <2>7 DEF HostDataIntact
  <2>9. BeyondMemoryZero'
    <3> SUFFICES ASSUME TableFits,
                        NEW a \in HEAP_START + SizeofWasmMemory + (Size + D) .. HeapEnd - FunctionTableBufSize - 1
                 PROVE  ram'[a] = 0
      BY <1>3, <2>2 DEF BeyondMemoryZero
    <3>1. /\ a \in HEAP_START + SizeofWasmMemory + Size .. HeapEnd - FunctionTableBufSize - 1
          /\ a \in Heap /\ a \notin Region(dataPtr + Size, D)
      BY <1>1, <1>2, HeapAssumption DEF HeapEnd, Heap, Region
    <3> QED BY <3>1, <2>7 DEF BeyondMemoryZero
  <2> QED BY <2>5, <2>6, <2>8, <2>9
<1> QED BY <1>4, <1>5 DEF Grow

(* The ranges of the guest's accesses lie inside the linear memory. *)
LEMMA AccessInside ==
  ASSUME IInv, dataPtr # NULL, NEW i \in Nat, NEW n \in Nat, i + n <= Size
  PROVE  /\ Region(dataPtr + i, n) \subseteq DataRegion
         /\ DataRegion \subseteq Heap
<1>1. Size \in Nat /\ dataPtr \in Nat
  BY SizeFacts, HeapAssumption DEF IInv, TypeOK, Heap, HeapEnd, NULL
<1>2. Region(dataPtr + i, n) \subseteq DataRegion
  BY <1>1 DEF Region, DataRegion
<1> QED BY <1>2, PlacesApart DEF IInv

(* A guest access that writes only its range keeps the invariant. *)
LEMMA GuestAccessIInv ==
  ASSUME IInv, NEW op, NEW r, GuestAccess(op, r),
         op \in ({"store"} \X Nat \X Byte) \cup ({"fill"} \X Nat \X Nat \X Byte)
                  \cup ({"copy"} \X Nat \X Nat \X Nat),
         r \in [Heap -> Byte \cup {Host}],
         \A a \in Heap \ DataRegion : r[a] = ram[a]
  PROVE  IInv'
<1>1. TypeOK'
  BY DEF IInv, TypeOK, GuestAccess
<1>2. Placed'
  BY DEF IInv, Placed, GuestAccess, Accessible, TableBytes, Size, SizeOk
<1>3. HostDataIntact' /\ BeyondMemoryZero'
  BY WritesInside DEF IInv, GuestAccess, Accessible
<1> QED BY <1>1, <1>2, <1>3 DEF IInv

LEMMA GuestStoreIInv ==
  ASSUME NEW i \in 0 .. Size - 1, NEW v \in Byte, IInv, GuestStore(i, v)
  PROVE  IInv'
<1>1. Size \in Nat
  BY SizeFacts DEF IInv
<1>2. i \in Nat /\ i + 1 <= Size /\ dataPtr # NULL
  BY <1>1 DEF GuestStore, GuestAccess, Accessible
<1>3. Region(dataPtr + i, 1) \subseteq DataRegion
  BY <1>2, AccessInside
<1> DEFINE r == Written(dataPtr + i, 1, v)
<1>4. /\ r \in [Heap -> Byte \cup {Host}]
      /\ \A a \in Heap \ DataRegion : r[a] = ram[a]
  BY <1>3, WrittenType DEF IInv, TypeOK, Written
<1> QED BY <1>2, <1>4, GuestAccessIInv DEF GuestStore

LEMMA GuestFillIInv ==
  ASSUME NEW i \in Nat, NEW n \in Nat, NEW v \in Byte, IInv, GuestFill(i, n, v)
  PROVE  IInv'
<1>1. i + n <= Size /\ dataPtr # NULL
  BY DEF GuestFill, GuestAccess, Accessible
<1>2. Region(dataPtr + i, n) \subseteq DataRegion
  BY <1>1, AccessInside
<1> DEFINE r == Memset(dataPtr + i, v, n)
<1>3. r = ram \/ r = Written(dataPtr + i, n, v)
  BY DEF Memset
<1>4. /\ r \in [Heap -> Byte \cup {Host}]
      /\ \A a \in Heap \ DataRegion : r[a] = ram[a]
  BY <1>2, <1>3, WrittenType DEF IInv, TypeOK, Written
<1> QED BY <1>4, GuestAccessIInv DEF GuestFill

LEMMA GuestCopyIInv ==
  ASSUME NEW d \in Nat, NEW s \in Nat, NEW n \in Nat, IInv, GuestCopy(d, s, n)
  PROVE  IInv'
<1>1. d + n <= Size /\ s + n <= Size /\ dataPtr # NULL
  BY DEF GuestCopy, GuestAccess, Accessible
<1>2. /\ Region(dataPtr + d, n) \subseteq DataRegion
      /\ Region(dataPtr + s, n) \subseteq Heap
  BY <1>1, AccessInside
<1> DEFINE r == Memmove(dataPtr + d, dataPtr + s, n)
<1>3. ASSUME NEW a \in Heap, a \in Region(dataPtr + d, n)
      PROVE  dataPtr + s + (a - (dataPtr + d)) \in Heap
  <2>1. dataPtr \in Nat
    BY <1>1, HeapAssumption DEF IInv, TypeOK, Heap, HeapEnd, NULL
  <2>2. a \in Nat /\ dataPtr + s + (a - (dataPtr + d)) \in Region(dataPtr + s, n)
    BY <1>3, <2>1, HeapAssumption DEF Region, Heap, HeapEnd
  <2> QED BY <1>2, <2>2
<1>4. /\ r \in [Heap -> Byte \cup {Host}]
      /\ \A a \in Heap \ DataRegion : r[a] = ram[a]
  BY <1>2, <1>3 DEF IInv, TypeOK, Memmove
<1> QED BY <1>4, GuestAccessIInv DEF GuestCopy

(* Every step preserves the inductive invariant. *)
LEMMA NextIInv == IInv /\ [Next]_vars => IInv'
<1> SUFFICES ASSUME IInv, [Next]_vars PROVE IInv'
  OBVIOUS
<1>1. CASE AllocateStruct
  BY <1>1, AllocateStructIInv
<1>2. CASE AllocateData
  BY <1>2, AllocateDataIInv
<1>3. CASE AllocateTable
  BY <1>3, AllocateTableIInv
<1>4. CASE Start \/ FreeInstance
  <2>1. /\ phase \in {"instantiate", "running"} /\ dataPtr # NULL
        /\ phase' \in {"running", "freed"}
        /\ UNCHANGED <<guest, structPtr, dataPtr, tablePtr, pages, last, ram>>
    BY <1>4 DEF Start, FreeInstance, IInv, Placed
  <2>2. TypeOK' /\ Placed'
    BY <2>1 DEF IInv, TypeOK, Placed, TableBytes, Size, SizeOk
  <2>3. HostDataIntact' /\ BeyondMemoryZero'
    BY <2>1 DEF IInv, HostDataIntact, BeyondMemoryZero, StructRegion, TableRegion,
               TableFits, TableBytes, Size
  <2> QED BY <2>2, <2>3 DEF IInv
<1>5. CASE \E delta \in 0 .. MaxPages : Grow(delta)
  BY <1>5, GrowIInv
<1>6. CASE \E i \in 0 .. Size - 1, v \in Byte : GuestStore(i, v)
  BY <1>6, GuestStoreIInv
<1>7. CASE \E i \in 0 .. Size, n \in 0 .. MaxFill, v \in Byte : GuestFill(i, n, v)
  <2>1. Size \in Nat /\ MaxFill \in Nat
    BY SizeFacts, GuestAssumption DEF IInv
  <2>2. PICK i \in 0 .. Size, n \in 0 .. MaxFill, v \in Byte : GuestFill(i, n, v)
    BY <1>7
  <2> QED BY <2>1, <2>2, GuestFillIInv
<1>8. CASE \E d, s \in 0 .. Size, n \in 0 .. MaxFill : GuestCopy(d, s, n)
  <2>1. Size \in Nat /\ MaxFill \in Nat
    BY SizeFacts, GuestAssumption DEF IInv
  <2>2. PICK d \in 0 .. Size, s \in 0 .. Size, n \in 0 .. MaxFill : GuestCopy(d, s, n)
    BY <1>8
  <2> QED BY <2>1, <2>2, GuestCopyIInv
<1>9. CASE UNCHANGED vars
  BY <1>9 DEF vars, IInv, TypeOK, Placed, HostDataIntact, BeyondMemoryZero, StructRegion,
              TableRegion, TableFits, TableBytes, Size, SizeOk
<1> QED BY <1>1, <1>2, <1>3, <1>4, <1>5, <1>6, <1>7, <1>8, <1>9 DEF Next, Stopped

(* The places of the buffers and the bytes around the memory are invariant. *)
THEOREM InductiveInvariant == Spec => []IInv
BY InitIInv, NextIInv, PTL DEF Spec

(* Types are kept: in particular every pointer calloc returns is in the heap. *)
THEOREM TypeCorrect == Spec => []TypeOK
<1>1. IInv => TypeOK
  BY DEF IInv
<1> QED BY <1>1, InductiveInvariant, PTL

(* For every heap size, page size, table size and sequence of grows, calloc's
   buffers share no byte as long as the table is smaller than
   wasmFunctionTableBufSize. *)
THEOREM Disjoint == Spec => []BuffersDisjoint
<1>1. IInv => BuffersDisjoint
  BY PlacesApart DEF IInv, BuffersDisjoint
<1> QED BY <1>1, InductiveInvariant, PTL

(* No store, fill, copy or grow of the guest changes the struct or the table. *)
THEOREM HostDataSafe == Spec => []HostDataIntact
<1>1. IInv => HostDataIntact
  BY DEF IInv
<1> QED BY <1>1, InductiveInvariant, PTL

(* Every byte memory.grow can still hand out is zero, so that the skipped
   memset is harmless there. *)
THEOREM FreeHeapZero == Spec => []BeyondMemoryZero
<1>1. IInv => BeyondMemoryZero
  BY DEF IInv
<1> QED BY <1>1, InductiveInvariant, PTL
-----------------------------------------------------------------------------
(***************************************************************************)
(* Refinement.  Lin is the linear memory the guest sees; each action is    *)
(* the WasmMemory action of the same name on it, or a stutter.             *)
(***************************************************************************)
Lin == [i \in 0 .. Size - 1 |-> ram[dataPtr + i]]

(* The guests and limits for which memset's short cut is invisible *)
ModestGuest == /\ MaxFill <= FunctionTableBufSize
               /\ \A n \in TableEntries : n * EntrySize < FunctionTableBufSize

(* The heap cells of the linear memory, seen through their addresses. *)
LEMMA LinCell ==
  ASSUME IInv, dataPtr # NULL
  PROVE  /\ Size \in Nat /\ dataPtr \in Nat
         /\ \A i \in 0 .. Size - 1 : dataPtr + i \in Heap /\ Lin[i] = ram[dataPtr + i]
<1>1. Size \in Nat /\ dataPtr \in Nat
  BY SizeFacts, HeapAssumption DEF IInv, TypeOK, Heap, HeapEnd, NULL
<1>2. ASSUME NEW i \in 0 .. Size - 1 PROVE dataPtr + i \in Heap
  <2>1. dataPtr + i \in DataRegion
    BY <1>1 DEF DataRegion, Region
  <2> QED BY <2>1, PlacesApart DEF IInv
<1> QED BY <1>1, <1>2 DEF Lin

(* The new linear memory, once its place and new size are known. *)
LEMMA LinPrime ==
  ASSUME dataPtr' = dataPtr, NEW N, Size' = N
  PROVE  Lin' = [i \in 0 .. N - 1 |-> ram'[dataPtr + i]]
BY Zenon DEF Lin

(* An allocation step that writes no cell of the memory is a stutter. *)
LEMMA HostStepStutters ==
  ASSUME IInv, ModestGuest, AllocateStruct \/ AllocateTable
  PROVE  pages' = pages /\ last' = last /\ Lin' = Lin
<1> USE DEF IInv
<1>1. TableFits
  BY DEF TypeOK, ModestGuest, TableFits, TableBytes
<1>2. pages' = pages /\ last' = last /\ dataPtr' = dataPtr /\ Size' = Size
  BY DEF AllocateStruct, AllocateTable, Size
<1>3. CASE dataPtr = NULL
  <2>1. Size = 0
    BY <1>3, GuestAssumption DEF Placed, Size
  <2> QED BY <1>2, <2>1 DEF Lin
<1>4. CASE dataPtr # NULL
  <2>1. Size \in Nat /\ TableBytes \in Nat
    BY SizeFacts
  <2>2. ASSUME NEW i \in 0 .. Size - 1 PROVE ram'[dataPtr + i] = ram[dataPtr + i]
    <3>1. dataPtr = HEAP_START + SizeofWasmMemory /\ dataPtr + i \in Heap /\ SizeOk(Size)
      BY <1>4, LinCell DEF Placed
    <3>2. CASE AllocateStruct
      <4>1. ram' = Written(HEAP_START, SizeofWasmMemory, Host)
        BY <3>2 DEF AllocateStruct, Calloc, AllocType, Malloc
      <4>2. dataPtr + i \notin Region(HEAP_START, SizeofWasmMemory)
        BY <2>1, <3>1, HeapAssumption DEF Region
      <4> QED BY <3>1, <4>1, <4>2 DEF Written
    <3>3. CASE AllocateTable
      <4>1. ram' = Written(HeapEnd - TableBytes - 1, TableBytes, Host)
        BY <3>3, TableAssumption DEF AllocateTable, Calloc, AllocType, Malloc, TableBytes
      <4>2. dataPtr + i \notin Region(HeapEnd - TableBytes - 1, TableBytes)
        BY <1>1, <2>1, <3>1, HeapAssumption DEF Region, SizeOk, HeapEnd, TableFits
      <4> QED BY <3>1, <4>1, <4>2 DEF Written
    <3> QED BY <3>2, <3>3
  <2> QED BY <1>2, <2>2 DEF Lin
<1> QED BY <1>3, <1>4

(* A successful memory.grow keeps the old bytes and adds zero pages, the
   memset skipped or not. *)
LEMMA GrowRefines ==
  ASSUME IInv, ModestGuest, NEW delta \in 0 .. MaxPages, Grow(delta)
  PROVE  WM!Next
<1> USE DEF IInv
<1> DEFINE p == Realloc(dataPtr, (pages + delta) * PageSize)
           D == delta * PageSize
<1>0. TableFits
  BY DEF TypeOK, ModestGuest, TableFits, TableBytes
<1>1. /\ delta \in Nat /\ pages \in Nat /\ pages + delta <= MaxPages /\ MaxPages \in Nat
      /\ Size \in Nat /\ D \in Nat /\ (pages + delta) * PageSize = Size + D
  BY SizeFacts, GuestAssumption DEF Grow, TypeOK
<1>2. dataPtr = HEAP_START + SizeofWasmMemory /\ dataPtr # NULL
  BY DEF Grow, Placed
<1>3. CASE p = NULL /\ last' = <<"grow", -1>> /\ UNCHANGED <<dataPtr, pages, ram>>
  <2>1. WM!GrowRefused
    BY <1>3 DEF WM!GrowRefused, Size
  <2> QED BY <2>1 DEF WM!Next
<1>4. CASE /\ p # NULL /\ dataPtr' = p /\ ram' = Memset(p + Size, 0, D)
           /\ pages' = pages + delta /\ last' = <<"grow", pages>>
  <2>1. SizeOk(Size + D) /\ dataPtr' = dataPtr /\ Size' = Size + D
    BY <1>1, <1>4 DEF Realloc, Size
  <2>2. ram' = ram \/ ram' = Written(dataPtr + Size, D, 0)
    BY <1>4, <2>1 DEF Memset, Realloc
  <2>0. PICK N : N = Size + D
    OBVIOUS
  <2>3. ASSUME NEW i \in 0 .. N - 1
        PROVE  ram'[dataPtr + i] = IF i < Size THEN Lin[i] ELSE 0
    <3>1. dataPtr + i \in Heap
      BY <1>1, <1>2, <2>1, <2>0, HeapAssumption DEF SizeOk, Heap, HeapEnd
    <3>2. CASE i < Size
      <4>1. i \in 0 .. Size - 1 /\ dataPtr + i \notin Region(dataPtr + Size, D)
        BY <1>1, <1>2, <2>0, <3>2, HeapAssumption DEF Region
      <4>2. ram'[dataPtr + i] = ram[dataPtr + i]
        BY <2>2, <3>1, <4>1 DEF Written
      <4> QED BY <3>2, <4>1, <4>2 DEF Lin
    <3>3. CASE ~(i < Size)
      <4>1. /\ dataPtr + i \in HEAP_START + SizeofWasmMemory + Size .. HeapEnd - FunctionTableBufSize - 1
            /\ dataPtr + i \in Region(dataPtr + Size, D)
        BY <1>1, <1>2, <2>1, <2>0, <3>3, HeapAssumption DEF SizeOk, HeapEnd, Region
      <4>2. ram[dataPtr + i] = 0
        BY <1>0, <4>1 DEF BeyondMemoryZero
      <4>3. ram'[dataPtr + i] = 0
        BY <2>2, <3>1, <4>1, <4>2 DEF Written
      <4> QED BY <3>3, <4>3
    <3> QED BY <3>2, <3>3
  <2>4. Lin' = [i \in 0 .. (pages + delta) * PageSize - 1 |-> IF i < Size THEN Lin[i] ELSE 0]
    <3>1. (pages + delta) * PageSize = N
      BY <1>1, <2>0
    <3>2. Lin' = [i \in 0 .. N - 1 |-> ram'[dataPtr + i]]
      BY <2>0, <2>1, LinPrime
    <3>3. Lin' = [i \in 0 .. N - 1 |-> IF i < Size THEN Lin[i] ELSE 0]
      BY <2>3, <3>2, Zenon
    <3> QED BY <3>1, <3>3, Zenon
  <2>5. WM!Grow(delta)
    BY <1>4, <2>4 DEF WM!Grow, WM!Size, Lin, Size
  <2>6. delta \in 0 .. MaxPages - pages
    BY <1>1
  <2> QED BY <2>5, <2>6 DEF WM!Next
<1> QED BY <1>3, <1>4 DEF Grow

(* The second calloc hands over zero bytes: the abstract Allocate. *)
LEMMA AllocateDataRefines ==
  ASSUME IInv, ModestGuest, AllocateData
  PROVE  WM!Next \/ (pages' = pages /\ last' = last /\ Lin' = Lin)
<1> USE DEF IInv
<1> DEFINE p == Calloc(guest.pages * PageSize, 1)
<1>0. TableFits
  BY DEF TypeOK, ModestGuest, TableFits, TableBytes
<1>1. last' = last /\ ram' = ram /\ dataPtr = NULL
  BY DEF AllocateData
<1>2. guest.pages \in 0 .. MaxPages /\ guest.pages * PageSize \in Nat
  <2>1. guest.pages \in InitialPages
    BY DEF TypeOK
  <2>2. guest.pages \in 0 .. MaxPages /\ PageSize \in Nat /\ MaxPages \in Nat
    BY <2>1, GuestAssumption
  <2>3. \A n \in Nat : n * PageSize \in Nat
    BY <2>2
  <2> QED BY <2>2, <2>3
<1>3. pages = 0 /\ last = <<"none">> /\ Size = 0
  BY <1>1, GuestAssumption DEF Placed, Size
<1>4. CASE p = NULL /\ UNCHANGED <<dataPtr, pages>>
  <2>1. Size' = Size /\ dataPtr' = dataPtr
    BY <1>4 DEF Size
  <2> QED BY <1>1, <1>4, <2>1, Zenon DEF Lin
<1>5. CASE p # NULL /\ dataPtr' = p /\ pages' = guest.pages
  <2>1. SizeOk(guest.pages * PageSize) /\ dataPtr' = HEAP_START + SizeofWasmMemory
    <3>1. AllocType(1) = "data"
      BY HeapAssumption DEF AllocType
    <3>2. \A n \in Nat : n * 1 = n
      OBVIOUS
    <3> QED BY <1>2, <1>5, <3>1, <3>2 DEF Calloc, Malloc
  <2> DEFINE N == guest.pages * PageSize
  <2>2. ASSUME NEW i \in 0 .. N - 1 PROVE ram[HEAP_START + SizeofWasmMemory + i] = 0
    <3>0. N \in Nat /\ SizeOk(N)
      BY <1>2, <2>1
    <3>1. HEAP_START + SizeofWasmMemory + i
             \in HEAP_START + SizeofWasmMemory + 0 .. HeapEnd - FunctionTableBufSize - 1
      <4> HIDE DEF N
      <4> QED BY <3>0, HeapAssumption DEF SizeOk, HeapEnd
    <3> QED BY <1>0, <1>3, <3>1 DEF BeyondMemoryZero
  <2>3. Lin' = [i \in 0 .. N - 1 |-> ram[HEAP_START + SizeofWasmMemory + i]]
    BY <1>1, <1>5, <2>1 DEF Lin, Size
  <2>4. Lin' = [i \in 0 .. N - 1 |-> 0]
    BY <2>2, <2>3, Zenon
  <2>5. PICK n \in 0 .. MaxPages : n = guest.pages
    BY <1>2
  <2>6. WM!Allocate(n)
    BY <1>1, <1>3, <1>5, <2>4, <2>5 DEF WM!Allocate, Lin
  <2> QED BY <2>6 DEF WM!Next
<1> QED BY <1>4, <1>5 DEF AllocateData

(* A guest access, seen through Lin. *)
LEMMA LinAfter ==
  ASSUME IInv, NEW op, NEW r, GuestAccess(op, r)
  PROVE  /\ pages' = pages /\ last' = op /\ dataPtr # NULL
         /\ Lin' = [j \in 0 .. Size - 1 |-> r[dataPtr + j]]
BY DEF GuestAccess, Accessible, Lin, Size

LEMMA GuestStoreRefines ==
  ASSUME IInv, NEW i \in 0 .. Size - 1, NEW v \in Byte, GuestStore(i, v)
  PROVE  WM!Next
<1>1. /\ pages' = pages /\ last' = <<"store", i, v>> /\ dataPtr # NULL
      /\ Lin' = [j \in 0 .. Size - 1 |-> Written(dataPtr + i, 1, v)[dataPtr + j]]
  BY LinAfter DEF GuestStore
<1>2. ASSUME NEW j \in 0 .. Size - 1
      PROVE  Written(dataPtr + i, 1, v)[dataPtr + j] = IF j = i THEN v ELSE Lin[j]
  <2>1. dataPtr + j \in Heap /\ Lin[j] = ram[dataPtr + j] /\ dataPtr \in Nat /\ Size \in Nat
    BY <1>1, LinCell
  <2>2. dataPtr + j \in Region(dataPtr + i, 1) <=> j = i
    BY <2>1 DEF Region
  <2> QED BY <2>1, <2>2 DEF Written
<1>3. Lin' = [j \in 0 .. Size - 1 |-> IF j = i THEN v ELSE Lin[j]]
  BY <1>1, <1>2, Zenon
<1>4. Lin' = [Lin EXCEPT ![i] = v]
  BY <1>3 DEF Lin
<1>5. WM!Store(i, v)
  BY <1>1, <1>4 DEF WM!Store, Lin
<1> QED BY <1>5 DEF WM!Next, WM!Size, Size

LEMMA GuestFillRefines ==
  ASSUME IInv, ModestGuest, NEW i \in 0 .. Size, NEW n \in 0 .. MaxFill, NEW v \in Byte,
         GuestFill(i, n, v)
  PROVE  WM!Next
<1>0. ~(n > FunctionTableBufSize)
  BY GuestAssumption, HeapAssumption DEF ModestGuest
<1>1. /\ pages' = pages /\ last' = <<"fill", i, n, v>> /\ dataPtr # NULL /\ i + n <= Size
      /\ Lin' = [j \in 0 .. Size - 1 |-> Written(dataPtr + i, n, v)[dataPtr + j]]
  BY <1>0, LinAfter DEF GuestFill, Memset
<1>2. Size \in Nat /\ dataPtr \in Nat /\ n \in Nat
  BY <1>1, LinCell, GuestAssumption
<1>3. ASSUME NEW j \in 0 .. Size - 1
      PROVE  Written(dataPtr + i, n, v)[dataPtr + j] = IF j \in i .. i + n - 1 THEN v ELSE Lin[j]
  <2>1. dataPtr + j \in Heap /\ Lin[j] = ram[dataPtr + j]
    BY <1>1, LinCell
  <2>2. dataPtr + j \in Region(dataPtr + i, n) <=> j \in i .. i + n - 1
    BY <1>2 DEF Region
  <2> QED BY <2>1, <2>2 DEF Written
<1>4. Lin' = [j \in 0 .. Size - 1 |-> IF j \in i .. i + n - 1 THEN v ELSE Lin[j]]
  BY <1>1, <1>3, Zenon
<1>5. WM!Fill(i, n, v)
  BY <1>1, <1>4 DEF WM!Fill, WM!Size, Lin, Size
<1>6. n \in 0 .. Size
  BY <1>1, <1>2
<1> QED BY <1>1, <1>5, <1>6 DEF WM!Next, WM!Size, Size

LEMMA GuestCopyRefines ==
  ASSUME IInv, NEW d \in 0 .. Size, NEW s \in 0 .. Size, NEW n \in 0 .. MaxFill,
         GuestCopy(d, s, n)
  PROVE  WM!Next
<1>1. /\ pages' = pages /\ last' = <<"copy", d, s, n>> /\ dataPtr # NULL
      /\ d + n <= Size /\ s + n <= Size
      /\ Lin' = [j \in 0 .. Size - 1 |-> Memmove(dataPtr + d, dataPtr + s, n)[dataPtr + j]]
  BY LinAfter DEF GuestCopy
<1>2. Size \in Nat /\ dataPtr \in Nat /\ n \in Nat
  BY <1>1, LinCell, GuestAssumption
<1>3. ASSUME NEW j \in 0 .. Size - 1
      PROVE  Memmove(dataPtr + d, dataPtr + s, n)[dataPtr + j]
               = IF j \in d .. d + n - 1 THEN Lin[s + (j - d)] ELSE Lin[j]
  <2>1. dataPtr + j \in Heap /\ Lin[j] = ram[dataPtr + j]
    BY <1>1, LinCell
  <2>2. dataPtr + j \in Region(dataPtr + d, n) <=> j \in d .. d + n - 1
    BY <1>2 DEF Region
  <2>3. CASE j \in d .. d + n - 1
    <3>1. s + (j - d) \in 0 .. Size - 1
      BY <1>1, <1>2, <2>3
    <3>2. Lin[s + (j - d)] = ram[dataPtr + (s + (j - d))]
      BY <1>1, <3>1, LinCell
    <3>3. dataPtr + s + (dataPtr + j - (dataPtr + d)) = dataPtr + (s + (j - d))
      BY <1>2
    <3>4. Memmove(dataPtr + d, dataPtr + s, n)[dataPtr + j]
            = ram[dataPtr + s + (dataPtr + j - (dataPtr + d))]
      BY <1>2, <2>1, <2>2, <2>3 DEF Memmove
    <3>5. Memmove(dataPtr + d, dataPtr + s, n)[dataPtr + j] = Lin[s + (j - d)]
      BY <3>2, <3>3, <3>4, Zenon
    <3> QED BY <2>3, <3>5, Zenon
  <2>4. CASE j \notin d .. d + n - 1
    BY <2>1, <2>2, <2>4 DEF Memmove
  <2> QED BY <2>3, <2>4
<1>4. Lin' = [j \in 0 .. Size - 1 |-> IF j \in d .. d + n - 1 THEN Lin[s + (j - d)] ELSE Lin[j]]
  BY <1>1, <1>3, Zenon
<1>5. WM!Copy(d, s, n)
  BY <1>1, <1>4 DEF WM!Copy, WM!Size, Lin, Size
<1>6. n \in 0 .. Size
  BY <1>1, <1>2
<1> QED BY <1>1, <1>5, <1>6 DEF WM!Next, WM!Size, Size

(* memlib.c under the w2c2 runtime is a Wasm linear memory, for every heap
   and page size, as long as tables and fills stay within
   wasmFunctionTableBufSize. *)
THEOREM Refinement == ASSUME ModestGuest PROVE Spec => ImplementsWasmMemory
<1>1. Init => WM!Init
  <2> SUFFICES ASSUME Init PROVE WM!Init
    OBVIOUS
  <2>1. Size = 0
    BY GuestAssumption DEF Init, Size
  <2>2. [i \in 0 .. Size - 1 |-> ram[dataPtr + i]] = [i \in 0 .. -1 |-> 0]
    BY <2>1
  <2> QED BY <2>2 DEF Init, WM!Init
<1>2. IInv /\ [Next]_vars => [WM!Next]_(WM!wmVars)
  <2> SUFFICES ASSUME IInv, [Next]_vars
               PROVE  WM!Next \/ (pages' = pages /\ last' = last /\ Lin' = Lin)
    BY DEF WM!wmVars, Lin
  <2>1. CASE AllocateStruct \/ AllocateTable
    BY <2>1, HostStepStutters
  <2>2. CASE AllocateData
    BY <2>2, AllocateDataRefines
  <2>3. CASE Start \/ FreeInstance \/ UNCHANGED vars
    BY <2>3 DEF Start, FreeInstance, vars, Lin, Size
  <2>4. CASE \E delta \in 0 .. MaxPages : Grow(delta)
    BY <2>4, GrowRefines
  <2>5. CASE \E i \in 0 .. Size - 1, v \in Byte : GuestStore(i, v)
    BY <2>5, GuestStoreRefines
  <2>6. CASE \E i \in 0 .. Size, n \in 0 .. MaxFill, v \in Byte : GuestFill(i, n, v)
    BY <2>6, GuestFillRefines
  <2>7. CASE \E d, s \in 0 .. Size, n \in 0 .. MaxFill : GuestCopy(d, s, n)
    BY <2>7, GuestCopyRefines
  <2> QED BY <2>1, <2>2, <2>3, <2>4, <2>5, <2>6, <2>7 DEF Next, Stopped
<1> QED BY <1>1, <1>2, InductiveInvariant, PTL DEF Spec, WM!Spec, ImplementsWasmMemory
=============================================================================
