------------------------------- MODULE Build -------------------------------
(***************************************************************************)
(* The build scripts, run by hand in any order or by a benchmark script:   *)
(*                                                                         *)
(*   go2wasm    examples/scripts/go2wasm.sh       sources -> guest.wasm    *)
(*   package    platform/wasm2c-package.sh        guest.wasm -> guest.c,   *)
(*              s*.c (w2c2 -f 256 splits large modules)                    *)
(*   qemu, qemu_user, zkvm    c2riscv-qemu.sh, c2riscv-qemu-user.sh,       *)
(*              c2zkvm.sh: compile each file to an object in the project   *)
(*              root and link "*.o"                                        *)
(*   amd64      c2native-amd64.sh: compile and link in one command         *)
(*   wamr       wasm2wamr-qemu.sh: wamrc, file2c and one gcc command       *)
(*                                                                         *)
(* All of them share one tree, stop at the first error ("set -e"), and     *)
(* leave behind what they had made: objects in the project root, files of  *)
(* the package, outputs of earlier invocations.  With PGO_OPT two of them  *)
(* first build and run an instrumented binary.                             *)
(***************************************************************************)
EXTENDS Integers, Sequences, FiniteSets, Functions

CONSTANTS Splits,    \* split files w2c2 makes of each version of the guest
          Plan       \* what the benchmark script builds, <<[script, output], ...>>

ViaObjects == {"qemu", "zkvm", "qemu_user"}
Scripts == {"go2wasm", "package", "amd64", "wamr"} \cup ViaObjects

ASSUME SplitsAssumption ==
  Splits \in Seq(1 .. 3) /\ Len(Splits) > 0   \* bound: SplitName

(* A benchmark script makes the guest, then the package, then the binaries *)
ASSUME PlanAssumption ==
  /\ Plan \in Seq([script : Scripts, output : STRING]) /\ Len(Plan) >= 2
  /\ Plan[1].script = "go2wasm" /\ Plan[2].script = "package"
  /\ \A k \in 3 .. Len(Plan) : Plan[k].script \notin {"go2wasm", "package"}

Versions == DOMAIN Splits
Benchmarked == {Plan[k].output : k \in {k \in DOMAIN Plan : Plan[k].script \in {"qemu", "wamr"}}}

VARIABLES wasm,    \* version of the guest that guest.wasm holds
          pkg,     \* the package: version by C file
          obj,     \* the project root: where each object comes from
          aot,     \* version in the AOT file of the wamr script
          bundle,  \* version in the C array file2c made of it
          out,     \* what this invocation has linked, by part; outputs of
                   \* earlier ones may lie under the same names
          job,     \* the script that runs, its output, and whether PGO_OPT is set
          pc,      \* its next command; "idle" when no script runs
          step     \* place in Plan; 0 when the script was started by hand

vars == <<wasm, pkg, obj, aot, bundle, out, job, pc, step>>
-----------------------------------------------------------------------------
SplitName == <<"s0000000001", "s0000000002", "s0000000003">>
GuestFiles(v) == {"guest"} \cup {SplitName[i] : i \in 1 .. Splits[v]}

Common == {"main", "custom_imports", "wasi", "wasip2"}
Runtime == {"memlib", "memops", "startup"}

(* SOURCES and ASM_SOURCES; the guest's own files are added by "s0*.c" *)
Sources(script) == CASE script = "qemu"      -> Common \cup Runtime
                     [] script = "zkvm"      -> Common \cup Runtime \cup {"zkvm"}
                     [] script = "qemu_user" -> Common
                     [] script = "amd64"     -> (Common \ {"wasip2"}) \cup {"amd64"}
                     [] script = "wamr"      -> {"main", "startup", "syscalls", "uart"}

OwnSwept == Common \cup {"guest", SplitName[1], SplitName[2], SplitName[3]}   \* mutant

(* the names in "rm -f", s00000*.o for the split files *)
Swept == Common \cup Runtime \cup {"zkvm", "guest"} \cup {SplitName[i] : i \in DOMAIN SplitName}

(* c2zkvm.sh, after linking: memlib.c stands for memlib.o *)
SweptAfter == Swept \ {"memlib"}

Remaining(names) == Restrict(obj, DOMAIN obj \ names)

(* New files over old ones *)
Over(new, old) == [n \in DOMAIN new \cup DOMAIN old |->
                     IF n \in DOMAIN new THEN new[n] ELSE old[n]]
Output(name, parts) == out' = Over([o \in {name} |-> parts], out)

Part(made, v) == [made |-> made, version |-> v]
Stale == Part("stale", 0)
Cut == -1   \* version of an array that is shorter than its file

(* What script makes of source n, in the first (instrumented) or the main build *)
Compiled(n, made) == Part(made, IF n \in DOMAIN pkg THEN pkg[n] ELSE 0)

AllSources(script) == Sources(script) \cup DOMAIN pkg
-----------------------------------------------------------------------------
Init == /\ wasm = 1 /\ pkg = <<>> /\ obj = <<>> /\ aot = 0 /\ bundle = 0
        /\ out = <<>> /\ pc = "idle" /\ step = 0
        /\ job = [script |-> "none", output |-> "none", pgo |-> FALSE]

First(script) == CASE script = "go2wasm" -> "go"
                   [] script = "package" -> "w2c2"
                   [] script = "wamr"    -> "wamrc"
                   [] script = "amd64"   -> "clang"
                   [] OTHER              -> "check"

Run(script, output, pgo) ==
  /\ job' = [script |-> script, output |-> output, pgo |-> pgo]
  /\ pc' = First(script)

StartByHand(script, pgo) ==
  /\ pc = "idle" /\ Run(script, script, pgo)
  /\ pgo => script \in {"qemu", "qemu_user"}
  /\ UNCHANGED <<wasm, pkg, obj, aot, bundle, out, step>>

StartBenchmark ==
  /\ pc = "idle" /\ step' = 1 /\ Run(Plan[1].script, Plan[1].output, FALSE)
  /\ UNCHANGED <<wasm, pkg, obj, aot, bundle, out>>

(* The next script finds the objects of this one among the old ones *)
Leave(objects) == obj' = [n \in DOMAIN objects |-> Stale]

(* The invocation is over *)
Stop(objects) ==
  /\ Leave(objects) /\ aot' = 0 /\ bundle' = 0
  /\ out' = <<>> /\ pc' = "idle" /\ step' = 0
  /\ job' = [script |-> "none", output |-> "none", pgo |-> FALSE]

(* A command fails, or the user stops it *)
Fail == /\ pc \notin {"idle", "done", "go", "w2c2", "compile", "profile_compile"}
        /\ Stop(obj) /\ UNCHANGED <<wasm, pkg>>
-----------------------------------------------------------------------------
(* The guest's sources have changed, or not, since the last time.  The script
   builds all examples and may fail before or after this one. *)
Go == /\ pc = "go" /\ wasm' \in Versions
      /\ \/ pc' = "done" /\ UNCHANGED <<pkg, obj, aot, bundle, out, job, step>>
         \/ Stop(obj) /\ UNCHANGED pkg

(* Whatever w2c2 comes to write, files of an earlier run stay if not overwritten *)
Transpiled(old, files) == Over([n \in files |-> wasm], old)

UncleanTranspile ==    \* mutant: no "rm -f s00000*.c"
  /\ pc = "w2c2"
  /\ \/ pkg' = Transpiled(pkg, GuestFiles(wasm)) /\ pc' = "copy"
        /\ UNCHANGED <<wasm, obj, aot, bundle, out, job, step>>
     \/ \E files \in SUBSET GuestFiles(wasm) :
           pkg' = Transpiled(pkg, files) /\ Stop(obj) /\ UNCHANGED wasm

(* rm -f s00000*.c; w2c2.  If it fails it has written some of the files *)
Transpile ==
  /\ pc = "w2c2"
  /\ LET old == Restrict(pkg, DOMAIN pkg \cap {"guest"})
     IN \/ pkg' = Transpiled(old, GuestFiles(wasm)) /\ pc' = "copy"
           /\ UNCHANGED <<wasm, obj, aot, bundle, out, job, step>>
        \/ \E files \in SUBSET GuestFiles(wasm) :
              pkg' = Transpiled(old, files) /\ Stop(obj) /\ UNCHANGED wasm

(* cp w2c2_base.h *)
Copy == pc = "copy" /\ pc' = "done" /\ UNCHANGED <<wasm, pkg, obj, aot, bundle, out, job, step>>
-----------------------------------------------------------------------------
(* guest.c must exist; then the objects of earlier builds are removed *)
Check == /\ pc = "check" /\ "guest" \in DOMAIN pkg
         /\ obj' = Remaining(Swept)
         /\ pc' = IF job.pgo THEN "profile_compile" ELSE "compile"
         /\ UNCHANGED <<wasm, pkg, aot, bundle, out, job, step>>

(* bound: all sources are compiled, or all but one, or none *)
Losses(sources) == {{}, sources} \cup {{n} : n \in sources}

UncheckedCompile ==    \* mutant: the status of parallel is not looked at
  /\ pc \in {"compile", "profile_compile"}
  /\ LET sources == AllSources(IF pc = "compile" THEN job.script ELSE "qemu_user")
     IN \E lost \in Losses(sources) :
          obj' = Over([n \in sources \ lost |-> Compiled(n, pc)], obj)
  /\ pc' = IF pc = "compile" THEN "link" ELSE "profile_link"
  /\ UNCHANGED <<wasm, pkg, aot, bundle, out, job, step>>

(* parallel clang -c: each source for itself; if one fails the rest are
   compiled all the same.  "s0*.c" without a match is a file that does not
   exist.  The instrumented binary is one of the qemu_user platform. *)
Compile ==
  /\ pc \in {"compile", "profile_compile"}
  /\ LET sources == AllSources(IF pc = "compile" THEN job.script ELSE "qemu_user")
     IN \E lost \in Losses(sources) :
          LET objects == Over([n \in sources \ lost |-> Compiled(n, pc)], obj)
          IN IF lost = {} /\ DOMAIN pkg # {"guest"}
             THEN /\ obj' = objects
                  /\ pc' = IF pc = "compile" THEN "link" ELSE "profile_link"
                  /\ UNCHANGED <<wasm, pkg, aot, bundle, out, job, step>>
             ELSE Stop(objects) /\ UNCHANGED <<wasm, pkg>>

(* clang *.o -o "$OUTPUT.instrumented" *)
ProfileLink == /\ pc = "profile_link"
               /\ Output("instrumented", obj)
               /\ pc' = "profile"
               /\ UNCHANGED <<wasm, pkg, obj, aot, bundle, job, step>>

(* Run it and merge the profile.  c2riscv-qemu.sh asks for a file of another
   name ($OUTPUT-user-instr.instrumented), which nothing makes: there only
   Fail is possible.  Then the objects are removed once more. *)
Profile == /\ pc = "profile" /\ job.script = "qemu_user"
           /\ obj' = Remaining(Swept)
           /\ pc' = "compile"
           /\ UNCHANGED <<wasm, pkg, aot, bundle, out, job, step>>

(* clang *.o -o "$OUTPUT" *)
Link == /\ pc = "link"
        /\ Output(job.output, obj)
        /\ pc' = IF job.script = "zkvm" THEN "sweep" ELSE "done"
        /\ UNCHANGED <<wasm, pkg, obj, aot, bundle, job, step>>

Sweep == /\ pc = "sweep" /\ pc' = "done"
         /\ obj' = Remaining(SweptAfter)
         /\ UNCHANGED <<wasm, pkg, aot, bundle, out, job, step>>

(* amd64: everything in one command, no objects *)
Clang == /\ pc = "clang" /\ "guest" \in DOMAIN pkg /\ DOMAIN pkg # {"guest"}
         /\ Output(job.output, [n \in AllSources("amd64") |-> Compiled(n, "compile")])
         /\ pc' = "done"
         /\ UNCHANGED <<wasm, pkg, obj, aot, bundle, job, step>>
-----------------------------------------------------------------------------
Wamrc == /\ pc = "wamrc" /\ aot' = wasm /\ pc' = "file2c"
         /\ UNCHANGED <<wasm, pkg, obj, bundle, out, job, step>>

(* A read error ends the array early, and the exit status is 0 all the same *)
File2c == /\ pc = "file2c" /\ bundle' \in {aot, Cut} /\ pc' = "gcc"
          /\ UNCHANGED <<wasm, pkg, obj, aot, out, job, step>>

Gcc == /\ pc = "gcc"
       /\ Output(job.output, [n \in Sources("wamr") \cup {"bundle"} |->
                              Part("compile", IF n = "bundle" THEN bundle ELSE 0)])
       /\ pc' = "done"
       /\ UNCHANGED <<wasm, pkg, obj, aot, bundle, job, step>>

(* The script has reported success; the benchmark script goes on *)
Done == /\ pc = "done"
        /\ IF step = 0 THEN Stop(obj)
           ELSE IF step < Len(Plan)
           THEN /\ step' = step + 1
                /\ Run(Plan[step + 1].script, Plan[step + 1].output, FALSE)
                /\ Leave(obj) /\ UNCHANGED <<aot, bundle, out>>
           ELSE /\ pc' = "measure" /\ Leave(obj)
                /\ UNCHANGED <<aot, bundle, out, job, step>>
        /\ UNCHANGED <<wasm, pkg>>

(* run_qemu, for each output: Benchmark.tla *)
Measure == pc = "measure" /\ Stop(obj) /\ UNCHANGED <<wasm, pkg>>

Next == \/ \E s \in Scripts, pgo \in BOOLEAN : StartByHand(s, pgo)
        \/ StartBenchmark \/ Fail \/ Go \/ Transpile \/ Copy
        \/ Check \/ Compile \/ ProfileLink \/ Profile \/ Link \/ Sweep \/ Clang
        \/ Wamrc \/ File2c \/ Gcc \/ Done \/ Measure

Spec == Init /\ [][Next]_vars
-----------------------------------------------------------------------------
(* No object is made that the scripts' lists of objects to remove miss. *)
TypeOK ==
  /\ wasm \in Versions /\ aot \in Versions \cup {0} /\ bundle \in Versions \cup {0, Cut}
  /\ DOMAIN pkg \subseteq UNION {GuestFiles(v) : v \in Versions}
  /\ \A n \in DOMAIN pkg : pkg[n] \in Versions
  /\ DOMAIN obj \subseteq Swept
  /\ step \in 0 .. Len(Plan)

(* A script that reports success has made its output in this invocation,
   from every one of its own sources and nothing else: no object of another
   target, of an earlier guest or of the instrumented build is linked in,
   although all share the names and the directory and any earlier script may
   have stopped halfway. *)
OutputIsOwn ==
  (pc = "done" /\ job.script \in ViaObjects \cup {"amd64"}) =>
     out[job.output] = [n \in AllSources(job.script) |-> Compiled(n, "compile")]

(* What the benchmark measures is one version of the guest, the one it has
   just built, whole: no file of an older or torn package is part of it.  The
   array in the WAMR binary may be cut, if file2c could not read. *)
MeasuredIsCurrent ==
  pc = "measure" =>
    \A o \in Benchmarked :
      /\ o \in DOMAIN out
      /\ \A n \in DOMAIN out[o] : out[o][n].version \in {0, wasm} \/ (n = "bundle" /\ out[o][n].version = Cut)
      /\ \/ GuestFiles(wasm) = DOMAIN out[o] \cap (UNION {GuestFiles(v) : v \in Versions})
         \/ "bundle" \in DOMAIN out[o] /\ out[o]["bundle"].version \in {wasm, Cut}
=============================================================================
