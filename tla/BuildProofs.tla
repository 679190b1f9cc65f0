---------------------------- MODULE BuildProofs ----------------------------
(***************************************************************************)
(* Proofs about Build.tla, for every number of versions of the guest, any  *)
(* split of each, and every plan of a benchmark script: what a binary that *)
(* is reported as built is made of, and what the benchmark measures.       *)
(***************************************************************************)
EXTENDS Build, SequenceTheorems, TLAPS

Compiling == {"compile", "profile_compile"}

(* The script that is at work, by its next command *)
JobOK ==
  /\ pc \in {"idle", "go", "w2c2", "copy", "check", "profile_compile", "profile_link",
             "profile", "compile", "link", "sweep", "clang", "wamrc", "file2c", "gcc",
             "done", "measure"}
  /\ pc = "go" => job.script = "go2wasm"
  /\ pc \in {"w2c2", "copy"} => job.script = "package"
  /\ pc \in Compiling \cup {"check", "profile_link", "profile", "link", "sweep"}
       => job.script \in ViaObjects
  /\ pc \in {"profile_compile", "profile_link", "profile"} => job.pgo
  /\ pc = "clang" => job.script = "amd64"
  /\ pc \in {"wamrc", "file2c", "gcc"} => job.script = "wamr"
  /\ pc = "idle" => step = 0 /\ out = <<>>
  /\ pc = "measure" => step = Len(Plan)
  /\ step > 0 => job = [script |-> Plan[step].script, output |-> Plan[step].output, pgo |-> FALSE]

(* The compiler starts in a tree without objects *)
ObjectsOK ==
  /\ pc \in Compiling => DOMAIN obj = {}
  /\ pc = "link" => obj = [n \in AllSources(job.script) |-> Compiled(n, "compile")]
  /\ pc \in {"sweep", "done"} /\ job.script \in ViaObjects \cup {"amd64"} =>
       out[job.output] = [n \in AllSources(job.script) |-> Compiled(n, "compile")]

GuestNames == UNION {GuestFiles(v) : v \in Versions}

(* Version v of the guest, and all of it, but for an array that was cut *)
Whole(f, v) ==
  /\ \A n \in DOMAIN f : f[n].version \in {0, v} \/ (n = "bundle" /\ f[n].version = Cut)
  /\ \/ GuestFiles(v) = DOMAIN f \cap GuestNames
     \/ "bundle" \in DOMAIN f /\ f["bundle"].version \in {v, Cut}

(* What the benchmark script has made by now *)
PlanOK ==
  /\ pc \in {"file2c", "gcc"} => aot = wasm
  /\ pc = "gcc" => bundle \in {wasm, Cut}
  /\ step \in {1, 2} => out = <<>>
  /\ step > 2 \/ (step = 2 /\ pc \in {"copy", "done"}) =>
       pkg = [n \in GuestFiles(wasm) |-> wasm]
  /\ step > 0 => \A o \in DOMAIN out : Whole(out[o], wasm)
  /\ step > 0 => \A k \in 3 .. Len(Plan) :
       k < step \/ (k = step /\ pc \in {"done", "sweep", "measure"}) => Plan[k].output \in DOMAIN out

IInv == TypeOK /\ JobOK /\ ObjectsOK /\ PlanOK
-----------------------------------------------------------------------------
LEMMA EmptyDomain == DOMAIN <<>> = {}
  OBVIOUS

LEMMA SplitsFact == /\ Len(Splits) \in Nat \ {0} /\ Versions = 1 .. Len(Splits)
                    /\ \A v \in Versions : Splits[v] \in 1 .. 3
  BY SplitsAssumption DEF Versions

LEMMA PlanFact == /\ Len(Plan) \in Nat /\ Len(Plan) >= 2
                  /\ \A k \in 1 .. Len(Plan) : /\ Plan[k].script \in Scripts
                                               /\ Plan[k].output \in STRING
  <1>1. \A k \in 1 .. Len(Plan) : Plan[k] \in [script : Scripts, output : STRING]
    BY PlanAssumption, ElementOfSeq
  <1>2. Len(Plan) \in Nat /\ Len(Plan) >= 2
    BY PlanAssumption
  <1> QED
    BY <1>1, <1>2

LEMMA GuestFilesSwept ==
  ASSUME NEW v \in Versions
  PROVE  GuestFiles(v) \subseteq Swept /\ "guest" \in GuestFiles(v)
  BY SplitsFact DEF GuestFiles, Swept, SplitName

LEMMA NamesSwept == GuestNames \subseteq Swept
  BY GuestFilesSwept DEF GuestNames

LEMMA SourcesSwept ==
  ASSUME NEW script \in ViaObjects
  PROVE  Sources(script) \subseteq Swept
  BY DEF Sources, ViaObjects, Swept, Common, Runtime

(* No source of a platform has a name of the guest's *)
LEMMA SourcesApart ==
  ASSUME NEW script \in ViaObjects \cup {"amd64"}
  PROVE  Sources(script) \cap GuestNames = {}
  <1>1. GuestNames \subseteq {"guest", "s0000000001", "s0000000002", "s0000000003"}
    BY SplitsFact DEF GuestNames, GuestFiles, SplitName
  <1>2. \A n \in {"guest", "s0000000001", "s0000000002", "s0000000003"} : n \notin Sources(script)
    BY DEF Sources, ViaObjects, Common, Runtime
  <1> QED
    BY <1>1, <1>2
-----------------------------------------------------------------------------
LEMMA Initially == Init => IInv
  BY EmptyDomain, SplitsFact, PlanFact
     DEF Init, IInv, TypeOK, JobOK, ObjectsOK, PlanOK, Compiling

(* Every script begins where JobOK says, and in the benchmark with a plan
   that is behind it *)
LEMMA RunFirst ==
  ASSUME NEW script \in Scripts
  PROVE  /\ First(script) \in {"go", "w2c2", "wamrc", "clang", "check"}
         /\ First(script) = "go" <=> script = "go2wasm"
         /\ First(script) = "w2c2" <=> script = "package"
         /\ First(script) = "wamrc" <=> script = "wamr"
         /\ First(script) = "clang" <=> script = "amd64"
         /\ First(script) = "check" <=> script \in ViaObjects
  BY DEF Scripts, First, ViaObjects

LEMMA StopStep == ASSUME IInv, NEW objects, DOMAIN objects \subseteq Swept, Stop(objects),
                         wasm' \in Versions, DOMAIN pkg' \subseteq GuestNames,
                         \A n \in DOMAIN pkg' : pkg'[n] \in Versions
                  PROVE  IInv'
  BY EmptyDomain, PlanFact
     DEF Stop, Leave, IInv, TypeOK, JobOK, ObjectsOK, PlanOK, Compiling, GuestNames

LEMMA FailStep == ASSUME IInv, Fail PROVE IInv'
  BY StopStep DEF Fail, IInv, TypeOK, GuestNames

LEMMA StartByHandStep ==
  ASSUME IInv, NEW script \in Scripts, NEW pgo \in BOOLEAN, StartByHand(script, pgo)
  PROVE  IInv'
  <1>1. TypeOK'
    BY DEF IInv, TypeOK, StartByHand
  <1>2. step = 0 /\ out = <<>> /\ pc' = First(script) /\ job'.script = script
    BY DEF IInv, JobOK, StartByHand, Run
  <1>3. JobOK' /\ ObjectsOK'
    BY <1>2, RunFirst, PlanFact DEF JobOK, ObjectsOK, Compiling, StartByHand
  <1>4. PlanOK'
    BY <1>2, RunFirst, PlanFact DEF PlanOK, StartByHand
  <1> QED
    BY <1>1, <1>3, <1>4 DEF IInv

LEMMA StartBenchmarkStep == ASSUME IInv, StartBenchmark PROVE IInv'
  <1>1. TypeOK'
    BY PlanFact DEF IInv, TypeOK, StartBenchmark
  <1>2. /\ step' = 1 /\ out' = <<>> /\ pc' = "go"
        /\ job' = [script |-> "go2wasm", output |-> Plan[1].output, pgo |-> FALSE]
    BY PlanAssumption DEF IInv, JobOK, StartBenchmark, Run, First
  <1>3. JobOK' /\ ObjectsOK'
    BY <1>2, PlanAssumption, PlanFact DEF JobOK, ObjectsOK, Compiling, StartBenchmark, ViaObjects
  <1>4. PlanOK'
    BY <1>2, PlanFact, EmptyDomain DEF PlanOK, StartBenchmark
  <1> QED
    BY <1>1, <1>3, <1>4 DEF IInv
-----------------------------------------------------------------------------
LEMMA GoStep == ASSUME IInv, Go PROVE IInv'
  <1>1. CASE pc' = "done"
    <2>1. pc = "go" /\ job.script = "go2wasm" /\ wasm' \in Versions
          /\ UNCHANGED <<pkg, obj, aot, bundle, out, job, step>>
      BY <1>1 DEF Go, Stop, IInv, JobOK
    <2>2. step \in {0, 1}
      BY <2>1, PlanAssumption, PlanFact DEF IInv, JobOK, TypeOK
    <2>3. TypeOK' /\ JobOK' /\ ObjectsOK'
      BY <1>1, <2>1 DEF IInv, TypeOK, JobOK, ObjectsOK, Compiling, ViaObjects
    <2>4. PlanOK'
      BY <1>1, <2>1, <2>2, PlanFact, EmptyDomain DEF IInv, PlanOK
    <2> QED
      BY <2>3, <2>4 DEF IInv
  <1>2. CASE Stop(obj) /\ UNCHANGED pkg
    BY <1>2, StopStep DEF Go, IInv, TypeOK, GuestNames
  <1> QED
    BY <1>1, <1>2 DEF Go

LEMMA TranspileStep == ASSUME IInv, Transpile PROVE IInv'
  <1> DEFINE old == Restrict(pkg, DOMAIN pkg \cap {"guest"})
  <1>1. pc = "w2c2" /\ job.script = "package" /\ wasm \in Versions /\ wasm' = wasm
    BY DEF Transpile, Stop, IInv, JobOK, TypeOK
  <1>2. ASSUME NEW files, files \subseteq GuestFiles(wasm), pkg' = Transpiled(old, files)
        PROVE  /\ DOMAIN pkg' \subseteq GuestNames
               /\ \A n \in DOMAIN pkg' : pkg'[n] \in Versions
    <2>1. DOMAIN old \subseteq {"guest"} /\ \A n \in DOMAIN old : old[n] \in Versions
      BY DEF Restrict, IInv, TypeOK
    <2>2. DOMAIN pkg' = files \cup DOMAIN old
          /\ \A n \in DOMAIN pkg' : pkg'[n] = IF n \in files THEN wasm ELSE old[n]
      BY <1>2 DEF Transpiled, Over
    <2> QED
      BY <1>1, <1>2, <2>1, <2>2, GuestFilesSwept DEF GuestNames
  <1>3. CASE pc' = "copy"
    <2>1. /\ pkg' = Transpiled(old, GuestFiles(wasm))
          /\ UNCHANGED <<wasm, obj, aot, bundle, out, job, step>>
      BY <1>3 DEF Transpile, Stop
    <2>2. TypeOK' /\ JobOK' /\ ObjectsOK'
      BY <1>1, <1>2, <1>3, <2>1 DEF IInv, TypeOK, JobOK, ObjectsOK, Compiling, GuestNames
    <2>3. pkg' = [n \in GuestFiles(wasm') |-> wasm']
      BY <1>1, <2>1, GuestFilesSwept DEF Transpiled, Over, Restrict
    <2>4. step \in {0, 2}
      BY <1>1, PlanAssumption, PlanFact DEF IInv, JobOK, TypeOK
    <2>5. PlanOK'
      <3>1. step = 2 => out' = <<>> /\ DOMAIN out' = {}
        BY <2>1, EmptyDomain DEF IInv, PlanOK
      <3>2. step' = step /\ \A k \in 3 .. Len(Plan) : ~(k < step \/ k = step)
        BY <2>1, <2>4, PlanFact
      <3> QED
        BY <1>3, <2>3, <2>4, <3>1, <3>2 DEF PlanOK
    <2> QED
      BY <2>2, <2>5 DEF IInv
  <1>4. CASE pc' # "copy"
    <2>1. PICK files \in SUBSET GuestFiles(wasm) : pkg' = Transpiled(old, files) /\ Stop(obj)
      BY <1>4 DEF Transpile
    <2> QED
      BY <1>1, <1>2, <2>1, StopStep DEF IInv, TypeOK
  <1> QED
    BY <1>3, <1>4

LEMMA CopyStep == ASSUME IInv, Copy PROVE IInv'
  <1>1. pc = "copy" /\ pc' = "done" /\ job.script = "package"
        /\ UNCHANGED <<wasm, pkg, obj, aot, bundle, out, job, step>>
    BY DEF Copy, IInv, JobOK
  <1>2. step \in {0, 2}
    BY <1>1, PlanAssumption, PlanFact DEF IInv, JobOK, TypeOK
  <1>3. TypeOK' /\ JobOK' /\ ObjectsOK'
    BY <1>1 DEF IInv, TypeOK, JobOK, ObjectsOK, Compiling, ViaObjects
  <1>4. PlanOK'
    BY <1>1, <1>2, PlanFact DEF IInv, PlanOK
  <1> QED
    BY <1>3, <1>4 DEF IInv
-----------------------------------------------------------------------------
(* Whatever compiles and links in the benchmark does so after the first two
   entries of the plan *)
LEMMA Late ==
  ASSUME IInv, step > 0, job.script \notin {"go2wasm", "package"}
  PROVE  /\ step \in 3 .. Len(Plan) /\ Plan[step].output = job.output /\ ~job.pgo
         /\ pkg = [n \in GuestFiles(wasm) |-> wasm]
  <1>1. step \in 1 .. Len(Plan) /\ job.script = Plan[step].script
        /\ job.output = Plan[step].output /\ ~job.pgo
    BY PlanFact DEF IInv, TypeOK, JobOK
  <1>2. step # 1 /\ step # 2
    BY <1>1, PlanAssumption
  <1> QED
    BY <1>1, <1>2, PlanFact DEF IInv, PlanOK

LEMMA BuiltIsWhole ==
  ASSUME wasm \in Versions, pkg = [n \in GuestFiles(wasm) |-> wasm],
         NEW script \in ViaObjects \cup {"amd64"}
  PROVE  Whole([n \in AllSources(script) |-> Compiled(n, "compile")], wasm)
  <1>1. DOMAIN pkg = GuestFiles(wasm) /\ GuestFiles(wasm) \subseteq GuestNames
    BY DEF GuestNames
  <1>2. \A n \in AllSources(script) : Compiled(n, "compile").version \in {0, wasm}
    BY DEF Compiled, Part
  <1>3. AllSources(script) \cap GuestNames = GuestFiles(wasm)
    BY <1>1, SourcesApart DEF AllSources
  <1> QED
    BY <1>2, <1>3 DEF Whole

(* A last command that makes the output of the script *)
LEMMA OutputMade ==
  ASSUME IInv, NEW parts, Output(job.output, parts),
         pc \in {"link", "clang", "gcc"}, pc' \in {"done", "sweep"},
         UNCHANGED <<wasm, pkg, obj, aot, bundle, job, step>>,
         step > 0 => Whole(parts, wasm)
  PROVE  PlanOK' /\ TypeOK' /\ out'[job'.output] = parts
  <1>1. /\ DOMAIN out' = DOMAIN out \cup {job.output} /\ out'[job.output] = parts
        /\ \A o \in DOMAIN out : o # job.output => out'[o] = out[o]
    BY DEF Output, Over
  <1>2. job.script \notin {"go2wasm", "package"}
    BY DEF IInv, JobOK, ViaObjects
  <1>3. TypeOK'
    BY DEF IInv, TypeOK
  <1>4. ASSUME step > 0 PROVE PlanOK'
    <2>1. step \in 3 .. Len(Plan) /\ Plan[step].output = job.output
          /\ pkg = [n \in GuestFiles(wasm) |-> wasm]
      BY <1>2, <1>4, Late
    <2>2. \A o \in DOMAIN out' : Whole(out'[o], wasm')
      BY <1>1, <1>4 DEF IInv, PlanOK
    <2>3. \A k \in 3 .. Len(Plan) : k < step \/ k = step => Plan[k].output \in DOMAIN out'
      BY <1>1, <1>4, <2>1 DEF IInv, PlanOK
    <2>4. pkg' = [n \in GuestFiles(wasm') |-> wasm']
      BY <2>1
    <2> QED
      BY <2>1, <2>2, <2>3, <2>4, PlanFact DEF PlanOK
  <1>5. ASSUME ~(step > 0) PROVE PlanOK'
    BY <1>5 DEF IInv, PlanOK, TypeOK
  <1> QED
    BY <1>1, <1>3, <1>4, <1>5
-----------------------------------------------------------------------------
LEMMA CheckStep == ASSUME IInv, Check PROVE IInv'
  <1>1. DOMAIN obj' = {}
    BY DEF Check, Remaining, Restrict, IInv, TypeOK
  <1>2. pc = "check" /\ pc' = (IF job.pgo THEN "profile_compile" ELSE "compile")
        /\ UNCHANGED <<wasm, pkg, aot, bundle, out, job, step>>
    BY DEF Check
  <1>3. TypeOK' /\ JobOK' /\ ObjectsOK'
    BY <1>1, <1>2 DEF IInv, TypeOK, JobOK, ObjectsOK, Compiling
  <1>4. PlanOK'
    BY <1>2 DEF IInv, PlanOK, Compiling
  <1> QED
    BY <1>3, <1>4 DEF IInv

LEMMA CompileStep == ASSUME IInv, Compile PROVE IInv'
  <1> DEFINE from == IF pc = "compile" THEN job.script ELSE "qemu_user"
             sources == AllSources(from)
             objects(lost) == Over([n \in sources \ lost |-> Compiled(n, pc)], obj)
  <1>1. pc \in Compiling /\ DOMAIN obj = {} /\ from \in ViaObjects
    BY DEF Compile, IInv, ObjectsOK, JobOK, Compiling, ViaObjects
  <1>2. sources \subseteq Swept
    BY <1>1, SourcesSwept, NamesSwept DEF AllSources, IInv, TypeOK, GuestNames
  <1>3. \A lost : objects(lost) = [n \in sources \ lost |-> Compiled(n, pc)]
    BY <1>1 DEF Over
  <1>4. CASE pc' = "idle"
    <2>1. PICK lost \in Losses(sources) : Stop(objects(lost)) /\ UNCHANGED <<wasm, pkg>>
      BY <1>1, <1>4 DEF Compile, Compiling
    <2> QED
      BY <1>2, <1>3, <2>1, StopStep DEF IInv, TypeOK, GuestNames
  <1>5. CASE pc' # "idle"
    <2>1. /\ obj' = objects({})
          /\ pc' = IF pc = "compile" THEN "link" ELSE "profile_link"
          /\ UNCHANGED <<wasm, pkg, aot, bundle, out, job, step>>
      BY <1>1, <1>5 DEF Compile, Compiling, Stop
    <2>2. obj' = [n \in sources |-> Compiled(n, pc)]
      <3>1. sources \ {} = sources
        OBVIOUS
      <3> QED
        BY <1>3, <2>1, <3>1
    <2>3. TypeOK' /\ JobOK'
      BY <1>1, <1>2, <2>1, <2>2 DEF IInv, TypeOK, JobOK, Compiling
    <2>4. ObjectsOK'
      BY <1>1, <2>1, <2>2 DEF ObjectsOK, Compiling, AllSources, Compiled
    <2>5. PlanOK'
      BY <1>1, <2>1 DEF IInv, PlanOK, Compiling
    <2> QED
      BY <2>3, <2>4, <2>5 DEF IInv
  <1> QED
    BY <1>4, <1>5

(* Only a script run by hand makes a profile *)
LEMMA ProfileLinkStep == ASSUME IInv, ProfileLink PROVE IInv'
  <1> QED
    BY DEF ProfileLink, IInv, TypeOK, JobOK, ObjectsOK, PlanOK, Compiling

LEMMA ProfileStep == ASSUME IInv, Profile PROVE IInv'
  <1>1. DOMAIN obj' = {}
    BY DEF Profile, Remaining, Restrict, IInv, TypeOK
  <1>2. pc = "profile" /\ pc' = "compile" /\ UNCHANGED <<wasm, pkg, aot, bundle, out, job, step>>
    BY DEF Profile
  <1>3. TypeOK' /\ JobOK' /\ ObjectsOK'
    BY <1>1, <1>2 DEF IInv, TypeOK, JobOK, ObjectsOK, Compiling
  <1>4. PlanOK'
    BY <1>2 DEF IInv, PlanOK
  <1> QED
    BY <1>3, <1>4 DEF IInv

LEMMA LinkStep == ASSUME IInv, Link PROVE IInv'
  <1>1. /\ pc = "link" /\ Output(job.output, obj) /\ job.script \in ViaObjects
        /\ pc' = IF job.script = "zkvm" THEN "sweep" ELSE "done"
        /\ UNCHANGED <<wasm, pkg, obj, aot, bundle, job, step>>
    BY DEF Link, IInv, JobOK, Compiling
  <1>2. obj = [n \in AllSources(job.script) |-> Compiled(n, "compile")]
    BY <1>1 DEF IInv, ObjectsOK
  <1>3. step > 0 => Whole(obj, wasm)
    BY <1>1, <1>2, Late, BuiltIsWhole DEF IInv, TypeOK, ViaObjects
  <1>4. PlanOK' /\ TypeOK' /\ out'[job'.output] = obj
    BY <1>1, <1>3, OutputMade
  <1>5. JobOK' /\ ObjectsOK'
    BY <1>1, <1>2, <1>4 DEF IInv, JobOK, ObjectsOK, Compiling, AllSources, Compiled
  <1> QED
    BY <1>4, <1>5 DEF IInv

LEMMA SweepStep == ASSUME IInv, Sweep PROVE IInv'
  <1>1. DOMAIN obj' \subseteq DOMAIN obj
    BY DEF Sweep, Remaining, Restrict
  <1>2. pc = "sweep" /\ pc' = "done" /\ UNCHANGED <<wasm, pkg, aot, bundle, out, job, step>>
    BY DEF Sweep
  <1>3. TypeOK' /\ JobOK'
    BY <1>1, <1>2 DEF IInv, TypeOK, JobOK, Compiling
  <1>4. ObjectsOK'
    BY <1>2 DEF IInv, ObjectsOK, Compiling, AllSources, Compiled
  <1>5. job.script \in ViaObjects
    BY <1>2 DEF IInv, JobOK
  <1>6. step > 0 => step > 2
    BY <1>5, Late, PlanFact DEF ViaObjects
  <1>7. PlanOK'
    BY <1>2, <1>6 DEF IInv, PlanOK
  <1> QED
    BY <1>3, <1>4, <1>7 DEF IInv

LEMMA ClangStep == ASSUME IInv, Clang PROVE IInv'
  <1> DEFINE parts == [n \in AllSources("amd64") |-> Compiled(n, "compile")]
  <1>1. /\ pc = "clang" /\ Output(job.output, parts) /\ job.script = "amd64" /\ pc' = "done"
        /\ UNCHANGED <<wasm, pkg, obj, aot, bundle, job, step>>
    BY DEF Clang, IInv, JobOK
  <1>2. step > 0 => Whole(parts, wasm)
    BY <1>1, Late, BuiltIsWhole DEF IInv, TypeOK
  <1>3. PlanOK' /\ TypeOK' /\ out'[job'.output] = parts
    BY <1>1, <1>2, OutputMade
  <1>4. JobOK' /\ ObjectsOK'
    BY <1>1, <1>3 DEF IInv, JobOK, ObjectsOK, Compiling, AllSources, Compiled
  <1> QED
    BY <1>3, <1>4 DEF IInv
-----------------------------------------------------------------------------
LEMMA WamrcStep == ASSUME IInv, Wamrc PROVE IInv'
  BY DEF Wamrc, IInv, TypeOK, JobOK, ObjectsOK, PlanOK, Compiling

LEMMA File2cStep == ASSUME IInv, File2c PROVE IInv'
  BY DEF File2c, IInv, TypeOK, JobOK, ObjectsOK, PlanOK, Compiling

LEMMA GccStep == ASSUME IInv, Gcc PROVE IInv'
  <1> DEFINE parts == [n \in Sources("wamr") \cup {"bundle"} |->
                         Part("compile", IF n = "bundle" THEN bundle ELSE 0)]
  <1>1. /\ pc = "gcc" /\ Output(job.output, parts) /\ job.script = "wamr" /\ pc' = "done"
        /\ UNCHANGED <<wasm, pkg, obj, aot, bundle, job, step>>
    BY DEF Gcc, IInv, JobOK
  <1>2. bundle \in {wasm, Cut}
    BY <1>1 DEF IInv, PlanOK
  <1>3. Whole(parts, wasm)
    BY <1>2 DEF Whole, Part
  <1>4. PlanOK' /\ TypeOK'
    BY <1>1, <1>3, OutputMade
  <1>5. JobOK' /\ ObjectsOK'
    BY <1>1 DEF IInv, JobOK, ObjectsOK, Compiling, ViaObjects
  <1> QED
    BY <1>4, <1>5 DEF IInv

LEMMA DoneStep == ASSUME IInv, Done PROVE IInv'
  <1>1. pc = "done" /\ wasm' = wasm /\ pkg' = pkg
    BY DEF Done
  <1>2. CASE step = 0
    BY <1>1, <1>2, StopStep DEF Done, IInv, TypeOK, GuestNames
  <1>3. CASE step > 0 /\ step < Len(Plan)
    <2>1. /\ step' = step + 1 /\ DOMAIN obj' = DOMAIN obj /\ UNCHANGED <<aot, bundle, out>>
          /\ job' = [script |-> Plan[step'].script, output |-> Plan[step'].output, pgo |-> FALSE]
          /\ pc' = First(job'.script) /\ step' \in 2 .. Len(Plan)
      BY <1>1, <1>3, PlanFact DEF Done, Leave, Run, IInv, TypeOK
    <2>2. TypeOK' /\ job'.script \in Scripts
      BY <1>1, <2>1, PlanFact DEF IInv, TypeOK
    <2>3. JobOK' /\ ObjectsOK'
      BY <2>1, <2>2, RunFirst, PlanFact DEF JobOK, ObjectsOK, Compiling
    <2>4. pc' \notin {"file2c", "gcc", "copy", "done", "sweep", "measure"}
      BY <2>1, <2>2, RunFirst
    <2>5. PlanOK'
      <3>1. step' = 2 => out' = <<>>
        BY <1>3, <2>1, PlanFact DEF IInv, PlanOK, TypeOK
      <3>2. step' > 2 => pkg' = [n \in GuestFiles(wasm') |-> wasm']
        BY <1>1, <1>3, <2>1, PlanFact DEF IInv, PlanOK, TypeOK
      <3>3. \A o \in DOMAIN out' : Whole(out'[o], wasm')
        BY <1>1, <1>3, <2>1 DEF IInv, PlanOK
      <3>4. \A k \in 3 .. Len(Plan) : k < step' => Plan[k].output \in DOMAIN out'
        BY <1>1, <1>3, <2>1, PlanFact DEF IInv, PlanOK, TypeOK
      <3> QED
        BY <2>1, <2>4, <3>1, <3>2, <3>3, <3>4, PlanFact DEF PlanOK
    <2> QED
      BY <2>2, <2>3, <2>5 DEF IInv
  <1>4. CASE step = Len(Plan)
    <2>1. pc' = "measure" /\ DOMAIN obj' = DOMAIN obj /\ UNCHANGED <<aot, bundle, out, job, step>>
      <3>1. step # 0 /\ ~(step < Len(Plan))
        BY <1>4, PlanFact
      <3> QED
        BY <3>1 DEF Done, Leave
    <2>2. TypeOK' /\ JobOK' /\ ObjectsOK'
      BY <1>1, <1>4, <2>1, PlanFact DEF IInv, TypeOK, JobOK, ObjectsOK, Compiling
    <2>3. PlanOK'
      BY <1>1, <1>4, <2>1, PlanFact DEF IInv, PlanOK
    <2> QED
      BY <2>2, <2>3 DEF IInv
  <1> QED
    BY <1>2, <1>3, <1>4, PlanFact DEF IInv, TypeOK

LEMMA MeasureStep == ASSUME IInv, Measure PROVE IInv'
  BY StopStep DEF Measure, IInv, TypeOK, GuestNames

LEMMA Inductive == IInv /\ [Next]_vars => IInv'
  <1> SUFFICES ASSUME IInv, [Next]_vars PROVE IInv'
    OBVIOUS
  <1>1. CASE \E s \in Scripts, pgo \in BOOLEAN : StartByHand(s, pgo)
    BY <1>1, StartByHandStep
  <1>2. CASE StartBenchmark \/ Fail \/ Go \/ Transpile \/ Copy
    BY <1>2, StartBenchmarkStep, FailStep, GoStep, TranspileStep, CopyStep
  <1>3. CASE Check \/ Compile \/ ProfileLink \/ Profile \/ Link \/ Sweep \/ Clang
    BY <1>3, CheckStep, CompileStep, ProfileLinkStep, ProfileStep, LinkStep, SweepStep, ClangStep
  <1>4. CASE Wamrc \/ File2c \/ Gcc \/ Done \/ Measure
    BY <1>4, WamrcStep, File2cStep, GccStep, DoneStep, MeasureStep
  <1>5. CASE UNCHANGED vars
    BY <1>5 DEF vars, IInv, TypeOK, JobOK, ObjectsOK, PlanOK, Compiling, AllSources, Compiled
  <1> QED
    BY <1>1, <1>2, <1>3, <1>4, <1>5 DEF Next
-----------------------------------------------------------------------------
(* What is behind each script at its next command; the rest follows from it *)
THEOREM InductiveInvariant == Spec => []IInv
  BY Initially, Inductive, PTL DEF Spec

(* The lists of objects to remove miss no object that a script makes. *)
THEOREM TypeCorrect == Spec => []TypeOK
  <1>1. IInv => TypeOK
    BY DEF IInv
  <1> QED
    BY InductiveInvariant, <1>1, PTL

(* A script that reports success has linked the objects of its own sources,
   compiled by itself for this output, and no others. *)
THEOREM BinaryIsOwn == Spec => []OutputIsOwn
  <1>1. IInv => OutputIsOwn
    BY DEF IInv, ObjectsOK, OutputIsOwn
  <1> QED
    BY InductiveInvariant, <1>1, PTL

(* A benchmark that comes to measure has every binary of its plan, each made
   of one whole version of the guest, the one it has just built. *)
THEOREM GuestIsCurrent == Spec => []MeasuredIsCurrent
  <1>1. ASSUME IInv, pc = "measure", NEW o \in Benchmarked
        PROVE  o \in DOMAIN out /\ Whole(out[o], wasm)
    <2>1. step = Len(Plan) /\ step > 0
      BY <1>1, PlanFact DEF IInv, JobOK
    <2>2. PICK k \in 1 .. Len(Plan) : Plan[k].output = o /\ Plan[k].script \in {"qemu", "wamr"}
      BY PlanAssumption DEF Benchmarked
    <2>3. k \in 3 .. Len(Plan)
      BY <2>2, PlanAssumption
    <2> QED
      BY <1>1, <2>1, <2>2, <2>3, PlanFact DEF IInv, PlanOK
  <1>2. IInv => MeasuredIsCurrent
    BY <1>1 DEF MeasuredIsCurrent, Whole, GuestNames
  <1> QED
    BY InductiveInvariant, <1>2, PTL
=============================================================================
