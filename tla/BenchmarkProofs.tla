-------------------------- MODULE BenchmarkProofs --------------------------
(***************************************************************************)
(* Proofs about Platform.tla and Benchmark.tla, for every set of targets,  *)
(* set of exit codes and sequence of scripts and cases: what output and    *)
(* status show of a guest's end, what a recorded count stands for, and     *)
(* what a report.md is made of when run_all_benchmarks_with_report.sh      *)
(* succeeds.                                                               *)
(***************************************************************************)
EXTENDS Benchmark, SequenceTheorems, TLAPS

(* How far the guest has come when some code is about to run *)
GuestAt ==
  /\ pc \in {"startup", "main", "instantiate"} => guest = "none"
  /\ pc = "guest" => guest = "running"
  /\ pc = "free" => guest = "returned" \/ target \in Wamr
  /\ pc = "exit" => guest = "exited"
  /\ pc = "trap" => guest \in {"none", "trapped"}
  /\ pc = "astray" => guest = "none"
  /\ pc \in {"poweroff", "astray"} => target \notin Telling

(* The lines about a guest's end come after it, and together with it *)
Ends == Alarms \cup {"proc_exit", "completed"}
LinesSoFar ==
  /\ pc \in {"startup", "main", "instantiate", "guest", "trap"} => console \cap Ends = {}
  /\ pc = "free" => /\ {"proc_exit", "completed"} \cap console = {}
                    /\ guest = "trapped" <=> console \cap Alarms # {}
                    /\ target \in W2c2 => guest = "returned"
  /\ pc = "exit" => /\ console \cap Alarms = {} /\ "completed" \notin console
                    /\ target \in W2c2 => "proc_exit" \in console
  /\ pc \in {"poweroff", "halted"} /\ guest # "none" => LinesShow

(* Only a guest prints the line, and a guest that asked for the end is over *)
Silenced ==
  /\ guest = "none" => "success" \notin console
  /\ asked /\ target \notin {"amd64", "standalone"} => pc \in {"poweroff", "halted"}

PlatformInv == TypeOK /\ GuestAt /\ LinesSoFar /\ Silenced /\ EndShows

LEMMA LowBytes == ASSUME NEW c \in Codes \cup {0, 1} PROVE LowByte(c) \in 0 .. 255
  BY CodesAssumption DEF LowByte

LEMMA PoweredUpFirst == ASSUME PoweredUp, target \in Targets PROVE PlatformInv
  BY DEF PoweredUp, PlatformInv, TypeOK, GuestAt, LinesSoFar, Ends, Silenced, EndShows, Lines,
         NoStatus, Alarms

LEMMA PoweredUpAgain == ASSUME PoweredUp', target' \in Targets PROVE PlatformInv'
  BY DEF PoweredUp, PlatformInv, TypeOK, GuestAt, LinesSoFar, Ends, Silenced, EndShows, Lines,
         NoStatus, Alarms

LEMMA HostStep == ASSUME PlatformInv, Host PROVE PlatformInv'
  <1> USE TargetsAssumption DEF PlatformInv, TypeOK, GuestAt, LinesSoFar, Ends, Silenced, EndShows, Lines,
         Alarms, LinesShow, StatusShows, NoStatus, SIGABRT,
         Telling, TargetNames, BareMetal, Wamr, W2c2, Say, ProcessEnds, PowerOff
  <1>1. CASE Startup
    BY <1>1 DEF Startup
  <1>2. CASE InitRuntime
    BY <1>2 DEF InitRuntime
  <1>3. CASE Instantiate
    BY <1>3 DEF Instantiate
  <1>4. CASE AllocationFails
    BY <1>4 DEF AllocationFails
  <1>5. CASE RunnerFails
    BY <1>5 DEF RunnerFails
  <1>6. CASE RuntimeFails
    BY <1>6 DEF RuntimeFails
  <1>7. CASE ProcessRuntimeFails
    BY <1>7 DEF ProcessRuntimeFails
  <1>8. CASE Finish
    <2>1. /\ pc = "free" /\ UNCHANGED <<target, guest, code, asked>>
          /\ {"proc_exit", "completed"} \cap console = {} /\ console \subseteq Lines
          /\ guest = "trapped" <=> console \cap Alarms # {}
          /\ target \in W2c2 => guest = "returned"
          /\ guest = "returned" \/ target \in Wamr
      BY <1>8 DEF Finish
    <2>2. \/ pc' = "halted" /\ status' = 0 /\ target \notin BareMetal
          \/ pc' = "poweroff" /\ status' = status /\ target \in BareMetal
      BY <1>8 DEF Finish, MainEnds
    <2>3. /\ console' \subseteq Lines /\ console' \cap Alarms = console \cap Alarms
          /\ "proc_exit" \notin console'
          /\ "completed" \in console' <=> target \in {"zkvm", "qemu", "qemu_user"}
          /\ "success" \in console' <=> "success" \in console
      <3>1. CASE target \in {"zkvm", "qemu", "qemu_user"}
        <4>1. console' = console \cup {"completed"}
          BY <1>8, <3>1 DEF Finish
        <4> QED
          BY <2>1, <3>1, <4>1
      <3>2. CASE target \notin {"zkvm", "qemu", "qemu_user"}
        <4>1. console' = console
          BY <1>8, <3>2 DEF Finish
        <4> QED
          BY <2>1, <3>2, <4>1
      <3> QED
        BY <3>1, <3>2
    <2>4. LinesShow'
      BY <2>1, <2>3
    <2>5. TypeOK' /\ GuestAt' /\ LinesSoFar'
      BY <2>1, <2>2, <2>3, <2>4
    <2>6. Silenced' /\ EndShows'
      BY <2>1, <2>2, <2>3, <2>4
    <2> QED
      BY <2>5, <2>6
  <1>9. CASE Trap
    BY <1>9 DEF Trap, MachineTrap, ProcessTrap
  <1>10. CASE Exit
    BY <1>10, LowBytes DEF Exit
  <1>11. CASE Halt
    BY <1>11 DEF Halt
  <1> QED
    BY <1>1, <1>2, <1>3, <1>4, <1>5, <1>6, <1>7, <1>8, <1>9, <1>10, <1>11 DEF Host

LEMMA GuestStep == ASSUME PlatformInv, Astray \/ GuestPrintsSuccess \/ GuestEnds
                   PROVE  PlatformInv'
  <1> USE TargetsAssumption DEF PlatformInv, TypeOK, GuestAt, LinesSoFar, Ends, Silenced, EndShows, Lines,
         Alarms, LinesShow, StatusShows, NoStatus, SIGABRT,
         Telling, TargetNames, BareMetal, Wamr, W2c2, Say, ProcessEnds, PowerOff
  <1>1. CASE Astray
    BY <1>1 DEF Astray
  <1>2. CASE GuestPrintsSuccess
    BY <1>2 DEF GuestPrintsSuccess
  <1>3. CASE GuestReturns
    BY <1>3 DEF GuestReturns
  <1>4. CASE GuestTraps
    <2>1. /\ pc = "guest" /\ guest' = "trapped" /\ UNCHANGED <<target, code, asked>>
          /\ console \cap Ends = {} /\ console \subseteq Lines
      BY <1>4 DEF GuestTraps
    <2>2. CASE target \in W2c2 /\ pc' = "trap" /\ UNCHANGED <<console, status>>
      BY <2>1, <2>2
    <2>3. CASE target \in Wamr /\ pc' = "free" /\ Say("exception") /\ UNCHANGED status
      <3>1. "exception" \in console' /\ {"proc_exit", "completed"} \cap console' = {}
        BY <2>1, <2>3
      <3> QED
        BY <2>1, <2>3, <3>1
    <2>4. CASE target = "standalone" /\ ProcessEnds(1) /\ Say("error")
      <3>1. "error" \in console' /\ {"proc_exit", "completed"} \cap console' = {}
        BY <2>1, <2>4
      <3> QED
        BY <2>1, <2>4, <3>1
    <2> QED
      BY <1>4, <2>2, <2>3, <2>4 DEF GuestTraps
  <1>5. CASE GuestShutdown
    <2>1. /\ pc = "guest" /\ asked' /\ UNCHANGED <<target, code>>
          /\ console \cap Ends = {} /\ console \subseteq Lines
      BY <1>5 DEF GuestShutdown
    <2>2. console' \cap Ends = {} /\ console' \subseteq Lines
      <3>1. console' = console \/ console' = console \cup {"shutdown"}
        BY <1>5 DEF GuestShutdown
      <3> QED
        BY <2>1, <3>1
    <2>3. \/ /\ target \in {"amd64", "standalone"} /\ UNCHANGED <<pc, guest, status>>
          \/ /\ target \in BareMetal /\ guest' = "shutdown"
             /\ pc' = "poweroff" /\ status' = status
          \/ /\ target = "qemu_user" /\ guest' = "shutdown"
             /\ pc' = "halted" /\ status' = 0
      BY <1>5 DEF GuestShutdown
    <2>4. TypeOK' /\ GuestAt'
      BY <2>1, <2>2, <2>3
    <2>5. guest' = "shutdown" => LinesShow'
      BY <2>2
    <2>6. LinesSoFar' /\ Silenced' /\ EndShows'
      BY <2>1, <2>2, <2>3, <2>5
    <2> QED
      BY <2>4, <2>6
  <1>6. ASSUME NEW c \in Codes, GuestExits(c) PROVE PlatformInv'
    BY <1>6 DEF GuestExits
  <1>7. ASSUME NEW c \in {0, 1}, GuestExitsPreview2(c) PROVE PlatformInv'
    BY <1>7 DEF GuestExitsPreview2
  <1> QED
    BY <1>1, <1>2, <1>3, <1>4, <1>5, <1>6, <1>7 DEF GuestEnds

LEMMA Rests == ASSUME PlatformInv, UNCHANGED platformVars PROVE PlatformInv'
  BY DEF PlatformInv, TypeOK, GuestAt, LinesSoFar, Silenced, EndShows, LinesShow, StatusShows,
         platformVars, run
-----------------------------------------------------------------------------
(* The keys of the cases of the current script that are behind it *)
Behind(n) == {Cases[lang][i].key : i \in 1 .. n - 1}

(* RESULTS has every case so far, and the files of earlier scripts every
   case of theirs, since a failed run stops all scripts. *)
NothingMissing ==
  /\ phase = "qemu" => case <= Len(Cases[lang])
  /\ phase = "build" => case = 1
  /\ phase \in {"build", "idle", "qemu"} =>
       results = Behind(case) /\ \A l \in Script : l < lang => json[l] = Keys(l)
  /\ phase \in {"aggregate", "done"} => \A l \in Script : json[l] = Keys(l)

HarnessInv == BTypeOK /\ NothingMissing /\ RecordedIsGenuine /\ ReportComplete

IInv == PlatformInv /\ HarnessInv

LEMMA Indexes == /\ Len(Scripts) \in Nat /\ Script = 1 .. Len(Scripts) /\ 1 \in Script
                 /\ \A l \in Script : /\ Len(Cases[l]) \in Nat /\ DOMAIN Cases[l] = 1 .. Len(Cases[l])
                                      /\ \A n \in 1 .. Len(Cases[l]) :
                                           /\ Cases[l][n].target \in Targets
                                           /\ Cases[l][n].key \in Keys(l)
  <1>1. Len(Scripts) \in Nat /\ Script = 1 .. Len(Scripts) /\ Len(Scripts) # 0
    BY CasesAssumption, EmptySeq DEF Script
  <1>2. \A l \in Script : Cases[l] \in Seq([key : STRING, target : Targets])
    BY <1>1, CasesAssumption
  <1>3. \A l \in Script : \A n \in 1 .. Len(Cases[l]) :
          Cases[l][n] \in [key : STRING, target : Targets]
    BY <1>2, ElementOfSeq
  <1> QED
    BY <1>1, <1>2, <1>3 DEF Keys

LEMMA Initially == BInit => IInv
  <1> SUFFICES ASSUME BInit PROVE IInv
    OBVIOUS
  <1>1. PlatformInv
    BY PoweredUpFirst DEF BInit, Init
  <1>2. BTypeOK
    <2>1. phase \in {"build", "by hand"} /\ lang = 1 /\ case = 1 /\ results = {}
      BY DEF BInit
    <2>2. json \in [Script -> SUBSET (Old \cup UNION {Keys(l) : l \in Script})]
      BY DEF BInit
    <2>3. lang \in Script /\ case \in 1 .. Len(Cases[lang]) + 1
      <3>1. 1 \in Script /\ Len(Cases[1]) \in Nat
        BY Indexes
      <3>2. 1 \in 1 .. Len(Cases[1]) + 1
        BY <3>1
      <3> QED
        BY <2>1, <3>1, <3>2
    <2>4. results \subseteq UNION {Keys(l) : l \in Script}
      BY <2>1
    <2>5. phase \in {"build", "idle", "qemu", "aggregate", "done", "failed", "by hand"}
      BY <2>1
    <2> QED
      BY <1>1, <2>2, <2>3, <2>4, <2>5 DEF BTypeOK, PlatformInv
  <1>3. NothingMissing
    <2>1. phase \in {"build", "by hand"} /\ lang = 1 /\ case = 1 /\ results = {}
      BY DEF BInit
    <2>2. Behind(1) = {}
      BY DEF Behind
    <2>3. \A l \in Script : ~(l < lang)
      <3>1. \A l \in Script : ~(l < 1)
        BY Indexes
      <3> QED
        BY <2>1, <3>1
    <2> QED
      BY <2>1, <2>2, <2>3 DEF NothingMissing
  <1>4. RecordedIsGenuine /\ ReportComplete
    BY DEF BInit, RecordedIsGenuine, ReportComplete
  <1> QED
    BY <1>1, <1>2, <1>3, <1>4 DEF IInv, HarnessInv

LEMMA PlatformStep == ASSUME IInv, BNext PROVE PlatformInv'
  <1>1. CASE StartQemu
    <2>1. PoweredUp' /\ target' = Current.target
      BY <1>1 DEF StartQemu, PoweredUp
    <2>2. Current.target \in Targets
      <3>1. lang \in Script /\ case \in 1 .. Len(Cases[lang])
        BY <1>1, Indexes DEF StartQemu, IInv, HarnessInv, BTypeOK
      <3> QED
        BY <3>1, Indexes DEF Current
    <2> QED
      BY <2>1, <2>2, PoweredUpAgain
  <1>2. CASE Machine
    BY <1>2, HostStep, GuestStep DEF Machine, Step, IInv
  <1>3. CASE ~StartQemu /\ ~Machine
    <2>1. UNCHANGED platformVars
      BY <1>3 DEF BNext, HarnessStep, BuildFails, WriteFails, Build, Accept, Reject,
                  ResultsToJson, Aggregate, Over, vars
    <2> QED
      BY <2>1, Rests DEF IInv
  <1> QED
    BY <1>1, <1>2, <1>3

LEMMA StepBuild == ASSUME IInv, PlatformInv', Build \/ BuildFails \/ StartQemu \/ Reject
                   PROVE  HarnessInv'
  <1>1. UNCHANGED <<lang, case, results, json, report, history>> /\ phase' # "build"
    BY DEF Build, BuildFails, StartQemu, Reject
  <1>2. BTypeOK'
    BY <1>1 DEF IInv, HarnessInv, BTypeOK, PlatformInv, Build, BuildFails, StartQemu, Reject
  <1>3. NothingMissing'
    BY <1>1 DEF IInv, HarnessInv, NothingMissing, Behind, Build, BuildFails, StartQemu, Reject
  <1>4. RecordedIsGenuine' /\ ReportComplete'
    BY <1>1 DEF IInv, HarnessInv, RecordedIsGenuine, ReportComplete,
                Build, BuildFails, StartQemu, Reject
  <1> QED
    BY <1>2, <1>3, <1>4 DEF HarnessInv

(* A run is recorded: the guest printed the line, so it did run, and the
   status of its process was zero. *)
LEMMA StepAccept == ASSUME IInv, PlatformInv', Accept PROVE HarnessInv'
  <1>1. /\ phase = "qemu" /\ pc = "halted" /\ status = 0 /\ "success" \in console
        /\ phase' = "idle" /\ case' = case + 1
        /\ results' = results \cup {Cases[lang][case].key}
        /\ UNCHANGED <<lang, json, report>>
    BY DEF Accept, Answered, Record, Current
  <1>2. lang \in Script /\ case \in 1 .. Len(Cases[lang]) /\ Len(Cases[lang]) \in Nat
    BY <1>1, Indexes DEF IInv, HarnessInv, BTypeOK, NothingMissing
  <1>3. BTypeOK'
    <2>1. Cases[lang][case].key \in UNION {Keys(l) : l \in Script}
      BY <1>2, Indexes
    <2> QED
      BY <1>1, <1>2, <2>1 DEF IInv, HarnessInv, BTypeOK, PlatformInv
  <1>4. NothingMissing'
    <2>1. results = Behind(case) /\ \A l \in Script : l < lang => json[l] = Keys(l)
      BY <1>1 DEF IInv, HarnessInv, NothingMissing
    <2>2. 1 .. (case + 1) - 1 = (1 .. case - 1) \cup {case}
      BY <1>2
    <2>3. results' = Behind(case + 1)
      BY <1>1, <2>1, <2>2 DEF Behind
    <2>4. results' = Behind(case)'
      BY <1>1, <2>3 DEF Behind
    <2> QED
      BY <1>1, <2>1, <2>4 DEF NothingMissing
  <1>5. RecordedIsGenuine'
    <2>1. target \in Telling => guest # "trapped" /\ (guest = "exited" => LowByte(code) = 0)
      <3>1. pc = "halted" /\ guest # "none"
        BY <1>1 DEF IInv, PlatformInv, Silenced
      <3>2. target \in Telling => StatusShows
        BY <3>1 DEF IInv, PlatformInv, EndShows
      <3> QED
        BY <1>1, <3>2 DEF StatusShows
    <2> QED
      BY <1>1, <2>1 DEF Accept, Record, IInv, HarnessInv, RecordedIsGenuine
  <1>6. ReportComplete'
    BY <1>1 DEF ReportComplete
  <1> QED
    BY <1>3, <1>4, <1>5, <1>6 DEF HarnessInv

LEMMA StepResultsToJson == ASSUME IInv, PlatformInv', ResultsToJson PROVE HarnessInv'
  <1>1. /\ phase = "idle" /\ case > Len(Cases[lang])
        /\ json' = [json EXCEPT ![lang] = results] /\ results' = {} /\ case' = 1
        /\ UNCHANGED <<report, history>>
    BY DEF ResultsToJson
  <1>2. lang \in Script /\ Len(Cases[lang]) \in Nat /\ case = Len(Cases[lang]) + 1
    BY <1>1, Indexes DEF IInv, HarnessInv, BTypeOK
  <1>3. results = Keys(lang)
    <2>1. results = Behind(Len(Cases[lang]) + 1)
      BY <1>1, <1>2 DEF IInv, HarnessInv, NothingMissing
    <2>2. 1 .. (Len(Cases[lang]) + 1) - 1 = 1 .. Len(Cases[lang])
      BY <1>2
    <2> QED
      BY <1>2, <2>1, <2>2, Indexes DEF Behind, Keys
  <1>4. \A l \in Script : l <= lang => json'[l] = Keys(l)
    <2>1. \A l \in Script : l < lang => json[l] = Keys(l)
      BY <1>1 DEF IInv, HarnessInv, NothingMissing
    <2>2. DOMAIN json = Script
      BY DEF IInv, HarnessInv, BTypeOK
    <2>3. \A l \in Script : l <= lang <=> l < lang \/ l = lang
      BY <1>2, Indexes
    <2> QED
      BY <1>1, <1>2, <1>3, <2>1, <2>2, <2>3
  <1>5. \/ phase' = "build" /\ lang' = lang + 1 /\ lang' \in Script
        \/ phase' = "aggregate" /\ lang' = lang /\ lang = Len(Scripts)
    BY <1>2, Indexes DEF ResultsToJson
  <1>6. BTypeOK'
    <2>1. json' \in [Script -> SUBSET (Old \cup UNION {Keys(l) : l \in Script})]
      BY <1>1 DEF IInv, HarnessInv, BTypeOK
    <2>2. lang' \in Script /\ Len(Cases[lang']) \in Nat
      BY <1>2, <1>5, Indexes
    <2>3. case' \in 1 .. Len(Cases[lang']) + 1
      BY <1>1, <2>2
    <2>4. results' \subseteq UNION {Keys(l) : l \in Script}
      BY <1>1
    <2>5. phase' \in {"build", "idle", "qemu", "aggregate", "done", "failed", "by hand"}
      BY <1>5
    <2> QED
      BY <2>1, <2>2, <2>3, <2>4, <2>5 DEF PlatformInv, BTypeOK
  <1>7. NothingMissing'
    <2>1. CASE phase' = "build"
      <3>1. \A l \in Script : l < lang' => l <= lang
        BY <1>2, <1>5, <2>1, Indexes
      <3>2. Behind(1)' = {}
        BY DEF Behind
      <3> QED
        BY <1>1, <1>4, <2>1, <3>1, <3>2 DEF NothingMissing
    <2>2. CASE phase' = "aggregate"
      <3>1. \A l \in Script : l <= lang
        BY <1>5, <2>2, Indexes
      <3> QED
        BY <1>4, <2>2, <3>1 DEF NothingMissing
    <2> QED
      BY <1>5, <2>1, <2>2
  <1>8. RecordedIsGenuine' /\ ReportComplete'
    BY <1>1, <1>5 DEF IInv, HarnessInv, RecordedIsGenuine, ReportComplete
  <1> QED
    BY <1>6, <1>7, <1>8 DEF HarnessInv

LEMMA StepAggregate == ASSUME IInv, PlatformInv', Aggregate \/ WriteFails PROVE HarnessInv'
  <1>1. CASE Aggregate
    BY <1>1 DEF Aggregate, IInv, HarnessInv, BTypeOK, PlatformInv, NothingMissing, Behind,
                RecordedIsGenuine, ReportComplete
  <1>2. CASE WriteFails
    <2>1. phase' = "failed" /\ UNCHANGED <<lang, case, results, history>>
      BY <1>2 DEF WriteFails
    <2>2. json' \in [Script -> SUBSET (Old \cup UNION {Keys(l) : l \in Script})]
      BY <1>2 DEF WriteFails, IInv, HarnessInv, BTypeOK
    <2> QED
      BY <2>1, <2>2 DEF IInv, HarnessInv, BTypeOK, PlatformInv, NothingMissing,
                        RecordedIsGenuine, ReportComplete
  <1> QED
    BY <1>1, <1>2

LEMMA StepOther == ASSUME IInv, PlatformInv', UNCHANGED harness PROVE HarnessInv'
  BY DEF IInv, HarnessInv, BTypeOK, PlatformInv, NothingMissing, Behind,
         RecordedIsGenuine, ReportComplete, harness
-----------------------------------------------------------------------------
(* The inductive invariant of machine and scripts holds in every state. *)
THEOREM InductiveInvariant == BSpec => []IInv
  <1>1. IInv /\ [BNext]_vars => IInv'
    <2> SUFFICES ASSUME IInv, [BNext]_vars PROVE IInv'
      OBVIOUS
    <2>1. PlatformInv'
      BY PlatformStep, Rests DEF vars, IInv
    <2>2. HarnessInv'
      BY <2>1, StepBuild, StepAccept, StepResultsToJson, StepAggregate, StepOther
      DEF BNext, HarnessStep, Machine, Over, vars
    <2> QED
      BY <2>1, <2>2 DEF IInv
  <1> QED
    BY Initially, <1>1, PTL DEF BSpec

(* Machine and scripts stay in the states they are meant to have. *)
THEOREM TypeCorrect == BSpec => []BTypeOK
  <1>1. IInv => BTypeOK
    BY DEF IInv, HarnessInv
  <1> QED
    BY InductiveInvariant, <1>1, PTL

(* Along every path to the halt, on every target and for every exit code,
   the lines on the console show a trap, and the status of a process shows
   how its guest ended, up to the low byte of the code. *)
THEOREM EndIsShown == BSpec => []EndShows
  <1>1. IInv => EndShows
    BY DEF IInv, PlatformInv
  <1> QED
    BY InductiveInvariant, <1>1, PTL

(* Every count in a table is that of a run that printed the line itself and,
   as a process, did not fail afterwards. *)
THEOREM CountsAreGenuine == BSpec => []RecordedIsGenuine
  <1>1. IInv => RecordedIsGenuine
    BY DEF IInv, HarnessInv
  <1> QED
    BY InductiveInvariant, <1>1, PTL

(* The report of an invocation that succeeds has every case of every script,
   from files that this invocation wrote. *)
THEOREM ReportIsComplete == BSpec => []ReportComplete
  <1>1. IInv => ReportComplete
    BY DEF IInv, HarnessInv
  <1> QED
    BY InductiveInvariant, <1>1, PTL

(* A guest that has asked for the shutdown does not run on, on any target
   whose import does not return; the step that starts the next machine
   begins a new run. *)
THEOREM ShutdownEndsGuest == BSpec => ShutdownIsFinal
  <1>1. IInv /\ [BNext]_vars =>
          [asked /\ asked' /\ target \notin {"amd64", "standalone"} =>
             console' = console /\ guest' = guest]_platformVars
    <2> SUFFICES ASSUME IInv, BNext, asked, asked', target \notin {"amd64", "standalone"}
                 PROVE  (console' = console /\ guest' = guest) \/ UNCHANGED platformVars
      BY DEF vars
    <2>1. pc \in {"poweroff", "halted"}
      BY DEF IInv, PlatformInv, Silenced
    <2>2. CASE Machine
      <3>1. Halt
        BY <2>1, <2>2 DEF Machine, Step, Host, Startup, InitRuntime, Instantiate,
             AllocationFails, RunnerFails, RuntimeFails, ProcessRuntimeFails, Finish, Trap, Exit,
             Astray, GuestPrintsSuccess, GuestEnds, GuestReturns, GuestTraps, GuestShutdown,
             GuestExits, GuestExitsPreview2
      <3> QED
        BY <3>1 DEF Halt
    <2>3. CASE StartQemu
      BY <2>3 DEF StartQemu
    <2>4. CASE ~StartQemu /\ ~Machine
      BY <2>4 DEF BNext, HarnessStep, BuildFails, WriteFails, Build, Accept, Reject,
                  ResultsToJson, Aggregate, Over, vars
    <2> QED
      BY <2>2, <2>3, <2>4
  <1> QED
    BY InductiveInvariant, <1>1, PTL DEF BSpec, ShutdownIsFinal
=============================================================================
