# wasrisc in TLA+

wasrisc compiles WebAssembly guests (Go, .NET, Rust) to RISC-V: `w2c2` turns a
guest into C, which is compiled together with the small runtime under
`src/w2c2/embedded` and one of the platforms under `src/platform`, or the guest
is interpreted by WAMR on bare metal. Shell scripts build, run and compare the
results. This directory holds TLA+ modules of the parts that carry logic of
their own, TLC configurations that check them on small instances, and TLAPS
proofs about ten of the modules.

## 1. The system: inventory

| Component | State | Operations | What must hold |
|---|---|---|---|
| Allocator, `w2c2/embedded/memlib.c` | none of its own but the heap: the place of a buffer follows from its kind | `calloc`, `realloc`, `free`, `memset`, `memmove` for the w2c2 runtime | the three buffers never share a byte; a grown page is zero although nothing is cleared; the guest sees a Wasm linear memory |
| Memory routines, `memops.S` | registers, memory | `_memset`, `_memcpy`, `_memmove`, `_memcpy_r` | exactly the requested bytes, for every alignment, size and overlap; callee-saved registers; no wild load |
| Start-up, `*/startup.S` and the linker scripts | RAM, `t0` | clear `.bss`, call `main`; power-off | `main` finds zeroed variables; neither image, heap nor stack is hit |
| Heap break, `riscv-wamr-qemu/syscalls.c` | `heap_end` | `_sbrk` | the break stays in RAM and away from the stack |
| Platform mains, `*/main.c`, `custom_imports.c`, runners | console, exit status | instantiate, run, `trap`, `exit`, `abort`, `shutdown` | every run halts; a failed run does not look like a good one |
| Build scripts, `platform/**/scripts/*.sh`, `wasm2c-package.sh`, `go2wasm.sh` | the package of C files, objects in the project root, outputs | package, compile, link, profile | a binary reported as built is made of its own sources only; what is measured is the guest just built |
| Benchmark harness, `*.sh` | `RESULTS`, JSON files, `report.md` | build, `run_qemu`, `results_to_json`, aggregate | only genuine counts are recorded; a report is complete and made of this invocation's files |
| Guest input, `examples/go/stateless` | `witnessOffset` | `Read`, `MustSerializeData`, `DeserializeData` | what is read is what was sent; damaged input yields no value of its own |
| WASI clock and poll, `wasi.c` | `ticks` | `clock_time_get`, `poll_oneoff` | time never goes back; a sleeper wakes, not too early and not much too late |
| WASI stubs, `wasi.c`, `wasip2.c` | none | some forty constant answers | a language runtime gets through its start-up and believes in nothing that is not there |
| Console calls, `fd_write` of `wasi.c`, `_write` and `_read` of `syscalls.c` | the call's locals | `fd_write`, `_write`, `_read`, `puts`, `printf` | all or nothing; the right bytes in order; the right count; a line is read and not a byte more |
| Console drivers, `main.c` of zkvm and riscv-qemu, `uart.c` | the UART's two registers | `putchar`, `uart_putc`, `uart_getc` | no byte is lost, doubled or overtaken |
| zkVM output and guest input, `zkvm.c`, `custom_imports.c`, `amd64.c` | `outputCount`, the output area, `test_input_data` | `printk`, `read_value`, input imports, `read_input_data` | the area tells what was printed; the guest has the whole input or somebody was told |
| AArch64 variant | | `main`, its scripts | `main` is one of the targets of `Platform` |
| Example guests, other guest scripts, Docker, CI | | | (not modelled) |

How they interact. `startup.S` clears `.bss` and calls `main`, which lets the
w2c2 runtime instantiate the guest: this `calloc`s the `wasmMemory` struct, its
bytes and the function table from `memlib.c`, whose `memset` and `memmove` end
in `memops.S`. The guest then runs alone on one hart. It calls back into the
host through WASI (`wasi.c`) and the custom imports, reads its witness from an
embedded file, and ends by returning, trapping, `proc_exit` or `shutdown`. On
bare metal all of these become the same power-off, and the scripts can tell
them apart only by the console. The console is a UART, which goes on while the
program computes: it is the one party besides the program that moves.

What is hard here is not threads: every binary is single-threaded, without
interrupts. It is (a) memory whose ownership follows from fixed sizes and from
what was never written (`memlib.c`, `_sbrk`, `.bss`); (b) unrolled assembly with
computed jumps and word accesses around unaligned buffers; (c) a clock that
only its own readers move; (d) failure that travels through several layers, from
a trap in the guest to a row of a report; (e) input taken on trust; (f) build scripts that share one
directory of objects and find what failed or interrupted builds left there; (g)
a device that is slower than the program; (h) stubs that report success for
work they did not do. The
hazards in PROJECT.json name the lines.

## 2. Modules

Every module says in its head which file it models; PROJECT.json maps each
definition to the lines it stands for.

| Module | Role |
|---|---|
| `WasmMemory` | abstract: the linear memory of the Wasm specification (store, fill, copy, grow or refuse) |
| `Memlib` | `memlib.c` driven by the w2c2 runtime; implements `WasmMemory` |
| `MemlibProofs` | theorems about `Memlib` |
| `RegionWrite` | abstract: a region reaches its goal values, nothing else changes; shared by three modules |
| `Memset`, `Memmove`, `MCMemmove` | `memops.S`, one action per block of assembly; implement `RegionWrite` |
| `MemsetProofs`, `MemmoveProofs` | theorems about `Memset` and `Memmove` |
| `Boot` | the `.bss` loop of `startup.S`; implements `RegionWrite` |
| `Sbrk` | `_sbrk` against the stack, on the layout of `virt.ld` |
| `LayoutProofs` | theorems about `Boot` and `Sbrk` |
| `Platform` | one run of a guest on each of the seven kinds of target, from power-on to halt |
| `Benchmark`, `MCBenchmark` | the benchmark scripts; EXTENDS `Platform`, whose machine it starts, waits for and judges, or leaves to a run by hand |
| `BenchmarkProofs` | theorems about `Benchmark` and the `Platform` in it |
| `Build`, `MCBuild` | the build scripts on one shared tree, by hand in any order or in the benchmark's sequence |
| `BuildProofs` | theorems about `Build` |
| `Encoding` | numbers as bytes, bounds tests and byte slices, which reader and serialization share |
| `Serialization` | encoder and decoder of the Go guest as recursive operators over a type and a value |
| `Witness` | `Read` on an embedded file that is intact, cut or altered; encoder and decoder are operator constants |
| `MCWitness` | gives `Witness` the `Serialization` and the items to be sent |
| `WasiStubs` | what every stub of preview 1 and 2 answers, as tables |
| `WasiClock` | `clock_time_get` and `poll_oneoff` of both previews, and a guest that sleeps |
| `WasiGuest` | a language runtime on `WasiStubs` that starts up, then tells the time, sleeps and opens, reads and closes files; EXTENDS `WasiClock` |
| `GuestProofs` | theorems about `WasiGuest` with its clock, and about `Witness` |
| `Channel` | abstract: a channel that loses, doubles and reorders nothing |
| `Console` | the three drivers and the UART, one action per byte and party |
| `ConsoleCalls` | `fd_write`, `_write` and `_read` over `Console`, in a guest's memory laid out in any way |
| `CustomImports` | `printk` of the RISC-V targets, the input of zkvm and amd64; over `Console` |
| `GuestIO`, `MCGuestIO` | the composition of the three, where a guest makes such calls and the UART takes its time; implements `Channel` |
| `GuestIOProofs` | theorems about `GuestIO` |

State and actions. Variables carry the names of the code (`heap_end`, `ticks`,
`witnessOffset`, `a0`, `RESULTS` as `results`); where the code has only a
program counter, `pc` or `phase` names the block that runs next. An action is a
call (`Sbrk`, `Grow`, `ReadData`), a loop iteration (`MainLoop`, `FBlock`,
`Putchar`), or a straight-line block (`Entry`, `FAlign`).

Data is abstracted to what the properties tell apart:

- `Memlib`: a heap cell holds a guest byte or `Host`, any byte of the runtime's
  own data. `Memset`, `Memmove`: a byte is a tag (fill byte, junk, old; or the
  address it came from), a word is a function from lanes to tags, so a shift by
  8k bits is a shift by k lanes, and a property that holds for tags holds for
  every content. `Boot`, `Sbrk`: a cell says who wrote it.
- `Encoding`: numbers keep their widths of 1, 2, 4 and 8 bytes, signed and
  unsigned; a byte has `B` values. RLP, which only `*big.Int` and headers use,
  is a library and left out.
- `Platform`: the console is the set of lines that someone looks for; its bytes
  are the matter of `Console`. The argument of `proc_exit` is any member of
  `Codes`; a status is the number the shell has in `$?`, of which a process keeps
  the low byte of its code (`LowByte`), or 134 after `abort`.
- `ConsoleCalls`: a cell of the guest's memory stands for a byte of a buffer as
  well as for a 32-bit word of a pair. `CustomImports`: `BYTE` values of a byte
  and `WORD` bytes of a word are parameters. A word of the zkVM's input is its
  `WORD` byte lanes, so that a shift and a mask pick a lane; on amd64 the input
  comes in bytes, which widen to the word with their sign. The `printf` of amd64 is the C library's.
- `WasiStubs`, `WasiGuest`: the names the stubs print are left out. A result
  variable nobody wrote holds zero in a runtime that clears it before the call
  (Go's) and anything in one that does not (`zeroed`).
- `Build`: a file is the version of the guest it was made from; an object also
  says whether this build, its instrumented pass or an earlier script made it.
  Flags and logs are left out. `Splits` gives how many split files w2c2 makes of
  each version, so that a later version can have fewer.
- `WasiClock`: the widths of int64_t and of the mantissa are parameters, and
  `Spacings` are the distances of neighbouring doubles (the powers of two).

Definitions that a comment marks as mutants are plausible slips of the code
(a dropped test, `<=` for `<`, a missing increment); no specification uses
them. Each run's property is known to fail when its mutant replaces the
definition it was made from.

Outside `src/`, and modelled from how `src/` uses it: the w2c2 runtime
(`wasmMemoryAllocate`, `wasmMemoryGrow`, the translated loads and stores),
newlib's `malloc`, the guests and their language runtimes, the C library and
QEMU.

## 3. Runs

| Run | Instance | Shows |
|---|---|---|
| `memlib` | heap of 11 bytes, struct 3, reserve 3, pages of 4, 0 to 2 pages, tables of 0 or 1 entries | `BuffersDisjoint`, `HostDataIntact`, `BeyondMemoryZero`, and the refinement of `WasmMemory` |
| `memlib_big_fill` | the same, fills up to 4 bytes | violation: finding 1 |
| `memset` | rv32 and rv64, all alignments, sizes of 0..3, 31..33 and 63..65 words and every remainder | `WordStoresAligned`, refinement of `RegionWrite` (the goal, and nothing in between or beside it), termination |
| `memmove` | rv32 and rv64, all alignments of dst, sizes on both sides of 3 and 16 words (and two rounds of the 16-word block), distances 1..128 either way | `CopiesExactly` (result, return value, saved registers), `LoadsNearSource`, refinement, termination |
| `sbrk` | heap area 5, stack area 3, increments and frames up to 3 | the break stays in RAM; no overwriting while both keep to their areas |
| `sbrk_overrun` | the same | violation: finding 2 |
| `boot` | stride 8, all layouts of `.bss` in a RAM of 40 bytes | `OthersKept`, refinement of `RegionWrite` (all of `.bss` is zero in the end) |
| `benchmark` | a run by hand on each of the seven targets; exit codes 0, 2, 256 and 511; two scripts with three and two cases on QEMU, WAMR and a process | `EndShows`, `RecordedIsGenuine`, `ReportComplete`, `ShutdownIsFinal`, `HarnessEnds` |
| `build` | two versions of the guest with 2 and 1 split files, the five targets with and without PGO_OPT, the sequence of `go_benchmark.sh` | `OutputIsOwn`, `MeasuredIsCurrent`; the list of objects to remove misses none |
| `witness` | one or two items of every kind, byte base 4, file intact, cut anywhere, or any one byte altered | `InOrder`, `Canonical`, `Delivered`; the offset stays in the file |
| `guest_io` | memory of 6 cells holding 0, 1 or 3, `IOVECS_SIZE` 2, up to 3 buffers; three inputs of a user; an output area of 2 values and RAM behind it, 4 values printed; input files of 0 to 3 bytes | `AllOrNothing`, `ReadsLine`, `PrintkTells`, `InputTold`, refinement of `Channel`, `CallReturns` |
| `wasi_guest` | int64 up to 1023, mantissa 128, increment 20, horizon 990; descriptors up to 5; both previews, both kinds of runtime | `NothingMadeUp`, `Monotonic`, `OnTime`, `SleeperWakes`, `GetsThrough`; no reading wraps before the horizon |

Why the bounds are enough:

- `memlib`: every comparison of `memlib.c` (against the end of the heap, the
  reserve, a fill's length) has instances on both sides of it and at equality;
  the heap fits one page and not two, or two with a smaller table. The theorems
  lift the bounds.
- `memset`, `memmove`: the routines have thresholds at 2 words and 32 words
  (`_memset`), 3 and 16 words (`_memmove`), and the word size; the sizes lie on
  both sides and at each with every remainder that changes the path, up to two
  rounds of the unrolled loops. The theorems lift the bounds.
- `boot`, `sbrk`: all layouts and histories of a small memory; the theorems
  lift the bounds.
- `benchmark`: the codes are one of each kind: zero, small, and two above a byte
  of which one keeps nothing of itself in the status. The theorems lift the
  bound.
- `build`: after a failed compilation all sources, all but one, or none have
  objects (every set of names that makes a difference to one later build is
  among these); two versions are enough for a file to be older than another,
  and the smaller second one leaves a file over.
- `wasi_guest`: the readings pass from exact arithmetic through three steps of
  lost precision, with an increment larger than the coarsest step, as in the
  code (1e8 against 2^10 at the top of int64_t). The theorems lift the bounds:
  of the numbers they use only that the increment exceeds the rounding and that
  the horizon leaves room for one more increment (`HorizonAssumption`).
- `guest_io`: the memory is small enough to let buffers, pairs and the result
  overlap in every way, and holds one pair more than the limit. To keep the
  states at a million it holds at most one 3 and three 1s. 3 is also the line
  feed, so that buffers contain lines; the inputs end in a line, go past it, or
  never end one. The output area overflows onto a variable that is not
  `outputCount` and onto `outputCount`. For all but `CallReturns` the theorems
  lift these bounds.
- `witness`: all kinds the encoder knows; two items show one frame following
  another; any single wrong byte, which reaches each length, sign and tag.
  For the frames the theorems lift the bounds: any base, any number of items,
  any damage of the bytes.

Deadlock is checked in every run; a system that has come to its end stutters in
an action that says so (`Returned`, `Over`, `Ended`, `Idle`).

### Fairness

The code is sequential: what runs next goes on until it calls somebody else.
Hence weak fairness on the step of the program itself (`Step` of `Memset` and
`Memmove`, the reads of `Witness`, `HarnessStep` of the scripts and `Host` of
`Platform`). In `Benchmark` guests are assumed to end, by returning or by a
trap, because neither `run_qemu` nor a run by hand has a time limit; a machine
that has gone astray is not assumed to come to anything (a failed load on the
WAMR target calls `exit(1)`, whose `_exit` returns, syscalls.c:74, and the
processor runs into whatever code follows). In `WasiGuest` a runtime goes on with
its start-up, and a guest in its wait loop goes on polling and looking. In
`GuestIO` both the program and the UART go on: `uart.c` and the `main.c` files
wait for the device in loops without a limit, and so rely on it. A user who
never ends the line keeps `_read` waiting, as it should; `Enough` leaves out the
reads for which nobody types enough. `Memlib`, `Sbrk`, `Boot` and
`Build` have safety properties only and no fairness.

### What the runs found

1. `memlib_big_fill`: `memset` skips zero fills larger than 0x100000 bytes
   (memlib.c:123) for the sake of start-up, but `memory.fill` uses the same
   function, and the old bytes stay. The comment of `_memset` (memops.S:74)
   promises that the bytes are filled.
2. `sbrk_overrun`: the limit in `_sbrk` is `_stack_top`, where the stack begins,
   so the heap may be granted memory that holds live stack frames. The comments
   (syscalls.c:60, 63) speak of the area the stack grows down to.

Met while modelling, and kept as preconditions of the properties instead:

- The function table's reserve is 0x100000 bytes and never updated
  (memlib.c:18-22, 64, 67, 100), so a larger table would overlap the linear
  memory: `TableFits` in `Memlib`.
- After about 7.5e10 readings the clock leaves int64_t: `Horizon` in
  `WasiClock`. With `Horizon = Int64Max` TLC shows `Monotonic` violated.
- On the bare-metal targets the success line of the Go guest comes before its
  last checks (main.go:101), and a later panic does not show in a status:
  `RecordedIsGenuine` promises an unfailed guest on process targets only.
- A guest that calls `proc_exit` with a multiple of 256 ends its process with
  status 0 (wasi.c:32, and `std::process::exit` of the runners; wasmtime itself may
  refuse large codes, which `Platform` leaves out): `StatusShows` speaks of the low
  byte, and `RecordedIsGenuine` of codes that show in it. The guests of the
  benchmark exit with small codes.
- WAMR ends `main` alike after a return and after a `proc_exit`, with status 0:
  `EndShows` tells only traps apart there.
- The decoder panics on every pointer that is not nil (deserialize.go:119),
  which the encoder writes: `Delivered` leaves them out.
- `c2riscv-qemu.sh` with PGO_OPT always stops: it links
  `$OUTPUT.instrumented` (line 133) but announces and runs
  `$OUTPUT-user-instr.instrumented` (lines 113, 136, 139). In `Build`, `Profile`
  has no step for this script; `c2riscv-qemu-user.sh` uses one name throughout.
- `c2zkvm.sh:152` removes `memlib.c` where its comment says object files, so
  `memlib.o` stays. `OutputIsOwn` holds all the same, because every other script
  removes it before it compiles.
- A script run by hand after a failed `w2c2` finds a torn package and compiles
  it: `MeasuredIsCurrent` speaks of the benchmark's sequence, which stops.
- A bool decodes from any byte: `Canonical` leaves them out.
- The preview 2 clock stands at 0 (wasip2.c:101), so a preview 2 guest that
  sleeps never wakes: `SleeperWakes` is promised to preview 1. Its `exit`
  returns to a guest that does not expect it, and a trap takes the place of the
  exit code.
- A runtime that does not clear its result variables finds arguments that
  nobody passed (wasi.c:195): `NothingMadeUp` is promised to the others.
- The comment at uart.c:17 says "send CR+LF"; what is sent is LF, then CR.
- `strlen` in the main.c files stops at 100 characters, so `puts` cuts the names
  of some wasip2 functions together with their line feed; their `printf` prints
  the format as it is.
- The 16384th value of the zkVM's `printk` is stored at `RAM_START`, in a
  variable of the program and possibly `outputCount` itself: `PrintkTells`
  speaks of the area's capacity.
- The UART may still hold the last byte when the machine is powered off.
- `file2c` ends its array early on a read error and exits with 0 (file2c.c:32),
  while the length it prints is that of the whole file: `MeasuredIsCurrent` lets
  the WAMR binary hold such a `Cut` array.
- `path_filestat_get` and `path_unlink_file` answer success for any name
  (wasi.c:56, 180): a guest may take a file to exist, or to be gone.
  `NothingMadeUp` is about opening and reading; no action calls these two.
- `read_input_data` does not look at the results of `fseek` and `ftell`
  (amd64.c:24): for a pipe the length is -1, `calloc` makes a block of no bytes,
  and `fread` is asked for 2^64 - 1. If the program survives it prints "read
  failed", and the guest fails to make a slice of 2^32 - 1 bytes.
- On amd64 a file that cannot be read to its end leaves zeroes of the full
  length after "read failed", and the guest runs; if `calloc` fails, it crashes
  on a NULL pointer: `InputTold` promises the line, not the input.
- A `char` of the input is sign-extended on amd64 (amd64/custom_imports.c:21)
  and not on RISC-V; Go's `byte(...)` hides it.
- `custom-imports.wit` and the guest `with_import` name the input imports
  `input-data` and `input-data-len`, as zkvm and riscv-qemu define them; amd64
  and riscv-qemu-user define `input_data` and `input_data_len`, the names that
  the guest `fuzz` uses. Neither guest links on all four. `testfunc` is 1000a+b
  on the RISC-V targets and a+b on amd64.
- After a trap `main` of the AArch64 benchmark returns 0 all the same, so
  `set -e` in its script does not stop.

## 4. Theorems

Eight modules hold the proofs about ten components, for every value of their
constants that meets the named assumptions. All follow the pattern `Init => IInv`,
`IInv /\ [Next]_vars => IInv'`, `IInv => property`.

`MemlibProofs`. Assumptions `HeapAssumption`, `TableAssumption` and
`GuestAssumption` of `Memlib`: struct and reserve fit the heap, the element
sizes are distinct (this is how `calloc` tells its buffers apart). The invariant
says of every pointer that it is NULL or its fixed place, that the memory ends
below the reserve, what is allocated in which phase, that struct and table hold
host data, that the memory holds guest bytes, and that all that lies between
memory and reserve is zero. The last part is why the properties are not
inductive alone: `memory.grow` adds cells nobody clears, so their content has to
be known long before. From it: `TypeCorrect`, `Disjoint`, `HostDataSafe`,
`FreeHeapZero`, and `Refinement`: for a guest whose table and fills stay
within the reserve (`ModestGuest`), `Spec => ImplementsWasmMemory`. That RAM is
zero at power-on is part of `Init`: it is what the code relies on when it
defines SKIP_ALLOC_ZEROING.

`LayoutProofs`. Of `Boot`, for both strides and every layout the linker scripts
allow: `main` finds `.bss` zeroed (`MainFindsZero`), nothing else is touched
(`ImageKept`), and start-up is one `RegionWrite` (`Refinement`). The invariant
adds that everything below `t0` has been cleared and that a whole step still
fits below what follows `.bss`; with stride 8 this needs the alignment of both
ends and is arithmetic modulo 8. Of `Sbrk`, for every size of the two areas: the
break stays between `_heap_start` and `_stack_top` whatever is asked for
(`HeapTypeCorrect`), and heap and stack do not overwrite each other while both
keep to the areas of `virt.ld` (`Intact`). The invariant adds to the property
that the areas are respected as long as `modest` says so.

`MemsetProofs`. For either register width, every size, alignment and start
address, `_memset` implements `RegionWrite` (`Refinement`): it stores the fill
byte in the region and nothing elsewhere, and stores no word at an unaligned
address (`StoresAligned`). The target begins in the second register of memory
and ends before `AddrBound`, so that nothing wraps; this is `Init`. The
invariant has a part for each block of code.
Everything from `dst` to below the running pointer is filled and nothing else
is; in the word loops the pointer is aligned and what is left up to the end of
the loop is a multiple of the round (32 words), which the computed jump into
the first round has to establish: it steps the pointer back by the words it
leaves out, so that for a moment the pointer lies below what is filled. Neither
property is inductive without that.

`MemmoveProofs`. For every call with areas above the first four words of memory
(`MemmoveAssumption`; of `_memcpy` also that its areas do not overlap, as C asks
of its callers), any size, alignment and overlap: `CopyIsExact`, `LoadsStayNear`
and `Refinement`. The invariant says that the copied part is `dst .. a0 - 1`
going up, `a0 .. dst + sz - 1` going down, and everything else is as it was; that
`a1` is where the next byte comes from; how many whole rounds are left
(`RoundsUp`, `RoundsDown`) and how many bytes for later; and, in the unaligned
loops, that the lanes of the words loaded ahead which are still to be used hold
bytes of the source from before the stores (`Preloaded`). A copy going up may
only be taken when no byte still to be copied lies in the copied part: `MayGoUp`,
which is what `_memmove`'s comparison establishes. Each loop's step rests on
one lemma (`CopiesUp`, `CopiesDown`: a group of loads, then its stores;
`StoresUp`, `StoresDown`: a word put together from two).

`BuildProofs`. For any number of versions of the guest, each split into up to
three files (`SplitsAssumption`), and any plan that makes the guest first, then
the package, and neither again later (`PlanAssumption`): a binary reported as built is made of its own sources
(`BinaryIsOwn`), and what the benchmark measures is one whole version, the one
just built (`GuestIsCurrent`). The invariant says that the compiler starts in a
tree without objects, so that at the link every object is of this build; that after the plan's second step the package is one whole
version; and that every output since then is.

`GuestIOProofs`, for any memory, iovecs, inputs and character set. The drivers,
the UART and the calls implement a lossless `Channel` (`Refinement`); `_read`
returns a prefix of the input, up to the line's end or the buffer's, and takes
nothing more (`LineIsRead`); `TypeCorrect` keeps the index inside `iovecs` on the
stack. The invariant of these says of the queues that `thr` and `rbr` hold at
most one byte, of each block of the calls what its locals hold, that nothing is
stored in the guest's memory before the last pair is read, and that the bytes
stored, in the register and still to be typed are always one of the inputs.

- `AllOrNothingHolds`: `fd_write` and `_write` print all the buffers and return
  their length, or none and return an error. `WriteInv` says, at the head of
  the loop over the pairs, that the buffers before `ciovecIndex` joined are what
  the console got and `total` is their length (`BetweenBuffers`), and within a
  buffer that `i` bytes of it came on top (`WithinBuffer`). The joined buffers are a
  `FlattenSeq`, whose definition is a function given by itself; that such a
  function exists, and is joined by one buffer more in each round, is proved by
  a least counterexample (`ChainGrows` and what follows).
- `PrintedIsTold`: whatever values `printk` is given, the zkVM's output area has
  them up to its capacity, wherever `outputCount` is, and on the RISC-V consoles
  they can be read back from the lines. `LinesOK` gives each digit its place in
  what the console got; that the digits make up the value again is a Horner
  scheme against repeated shifts. It needs that the digits suffice
  (`DigitsAssumption`) and that the characters of `Hex` differ.
- `InputIsTold`: a guest has the whole input, byte by byte or in words, unless a
  line on its console has told that it may be something else. `InputInv`
  follows the input from the file to the buffer to the guest.

Of the lines that a call prints it is assumed that `strlen` counts them whole
(`strlen_max`): they have at most 44 characters, and it stops at 100.

`GuestProofs`, the clock. For every time offset, increment, width of int64_t and
of the mantissa with `SpacingAssumption` (the spacings are the powers of two as
far as they are needed) and `HorizonAssumption` (1e8 exceeds the rounding of 1024,
and what is left above the horizon suffices for a reading): every reading is
later than the one before (`ClockMonotonic`), and a sleep ends at its
deadline or at most an increment and a rounding later (`SleepOnTime`). `ClockInv` says that
`ticks` is a double and ahead of the last reading by an increment, give or take
the rounding. Under it lie the lemmas on `Round`: the nearest multiple of the
spacing is at most the rounding away (`RoundError`) and is itself a double
although the spacing may be another one (`RoundTwice`). `NothingIsMadeUp`: a
runtime that clears its result variables believes in no argument, descriptor,
directory or file that the stubs did not give it; this one is inductive as it
stands.

`GuestProofs`, the witness. For every base of bytes, sequence of values and
damage. `TypeInv` says that the file is what the encoder made, cut or altered,
and that the offset is in it (`OffsetStays`: an out-of-range or negative length
never moves it out). For the values the reader has to be at a frame, which
`InOrder` does not say: `OrderInv` adds that the offset is the length of the
frames before, and between length and data that the length read is the length
of the value to come (`ReadInOrder`). `CanonInv` carries through an altered file
that the bytes before the offset are the frames of the values returned, and
between length and data that the eight bytes before the offset encode that
length (`ReadIsCanonical`). Both need that numbers are read as they were
written and the reverse (`NumberIsRead`, `BytesAreWritten`: induction on the number
of bytes, with functions that stand for the partial numbers), and that
`FlattenSeq` joins one frame more. The codec is recursive over the shape of a
type, and stays a hypothesis: one value is decoded to what was encoded
(`RoundTrips`), and whatever is decoded would be encoded so (`Exact`). The run
`witness` has no such hypothesis: there the codec is `Serialization`, with items
of every kind. For the byte
slices of `main` they are proved from the two branches of the codec that
`MainsOwn` quotes (`MainReadsInOrder`, `MainReadsCanonical`).

`BenchmarkProofs`. For any scripts, cases, targets and exit codes: the host's
lines show a trap on every target and, on those of w2c2, a return and a
`proc_exit` where it prints a line for them, and the status of a process shows
the guest's end up to the low byte of its code (`EndIsShown`); a recorded count
is that of a run that printed the success line and, on a process, neither
trapped nor exited with a code that shows (`CountsAreGenuine`); a report has
exactly the files this invocation wrote, each with all its cases
(`ReportIsComplete`); and nothing of a guest runs after `shutdown`
(`ShutdownEndsGuest`). The invariant relates the machine to the script that waits
for it: at each `pc` of the machine how far the guest can have come and which of
the lines about its end are on the console (`LinesSoFar`), that `results` are the
cases behind `case`, and that the JSON files of all scripts behind the present
one are complete. `BTypeOK` is proved and not run: the parts that matter are in
the other properties.

What stays with TLC: all liveness (`Terminates`, `HarnessEnds`, `Delivered`,
`SleeperWakes`, `GetsThrough`, `CallReturns`), which is out of the prover's reach,
and the codec for types other than byte slices, which is recursive: that
`RoundTrips` and `Exact` hold of it is what the run `witness` checks beyond the
theorems. Every safety property of the passing runs is stated by a theorem.

## 5. Not modelled

- The lines the stubs print about themselves, except where a call's own output
  mixes with them (`Line` in `ConsoleCalls`); of `wasi.h` everything but the
  error numbers, which is declarations of the interface.
- The entries `_memcpy128` to `_memcpy8` of `memops.S` (line 403), which are
  exported and which nothing in the repository calls.
- `testfunc` and `testfunc2`, which are arithmetic on their arguments, and
  amd64's `printk`, one `printf`.
- The stubs of `syscalls.c` that answer a constant (`_open`, `_fstat`, `_kill`
  and so on).
- The scripts of the AArch64 variant (one program after the other under
  `set -e`), Docker image, CI, example guests. Of the build scripts: compiler
  flags, the wasmtime and wasmer runners and the native binaries (one tool call
  each), two scripts at work in one tree at the same time (nothing in the
  repository does that).
- The layout of image, stack and heap against each other in `zkvm.ld`: it is
  decided when a guest is linked, and appears as assumptions of `Boot` and
  `Memlib`.
- What the guests compute: `ExecuteStateless`, RLP, hashing.

## 6. What could come next

1. The round trip of the codec for the types of a fixed size: each integer
   width is an instance of `NumberIsRead`; structs need induction over the list
   of their fields.
2. A bound on the number of readings until a sleeper wakes, from which
   `SleeperWakes` would follow by safety arguments alone.
