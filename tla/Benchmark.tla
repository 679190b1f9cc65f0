----------------------------- MODULE Benchmark -----------------------------
(***************************************************************************)
(* run_all_benchmarks_with_report.sh: go_benchmark.sh and                  *)
(* rust_benchmark.sh one after the other, each of which builds its         *)
(* binaries, runs them one by one under QEMU with run_qemu of              *)
(* benchmark_utils.sh and writes a JSON file, and then aggregator.sh,      *)
(* which joins the two files into report.md.  Every script stops at the    *)
(* first error.  The run of a binary is a run of Platform.tla; the scripts *)
(* may also be left alone and one binary be run by hand.  How the binaries *)
(* are made is the matter of Build.tla.                                    *)
(***************************************************************************)
EXTENDS Platform, Sequences

CONSTANTS Scripts,      \* the benchmark scripts, in the order they are run
          Cases         \* for each of them the cases, <<[key, target], ...>>

ASSUME CasesAssumption ==
  /\ Scripts \in Seq(STRING) /\ Scripts # <<>>
  /\ Cases \in [1 .. Len(Scripts) -> Seq([key : STRING, target : Targets])]

VARIABLES phase,    \* "build", "idle", "qemu", "aggregate", "done" or "failed";
                    \* "by hand" when no script runs
          lang,     \* index of the script that runs
          case,     \* index of the next or current case
          results,  \* RESULTS: the keys that have an instruction count
          json,     \* per script: the keys in its JSON file
          report,   \* report.md: per script, the keys it was made of
          history   \* how the run behind each recorded key had ended

harness == <<phase, lang, case, results, json, report, history>>
vars == <<platformVars, harness>>

Old == {"old"}   \* what a file from an earlier invocation holds

Script == DOMAIN Scripts
Keys(l) == {Cases[l][i].key : i \in DOMAIN Cases[l]}
Current == Cases[lang][case]
-----------------------------------------------------------------------------
BInit == /\ Init
         /\ phase \in {"build", "by hand"} /\ lang = 1 /\ case = 1 /\ results = {}
         /\ json = [l \in Script |-> Old] /\ report = json
         /\ history = {}

(* The compilations of a script; "set -e" *)
Build == /\ phase = "build" /\ phase' = "idle"
         /\ UNCHANGED <<platformVars, lang, case, results, json, report, history>>
BuildFails == /\ phase = "build" /\ phase' = "failed"
              /\ UNCHANGED <<platformVars, lang, case, results, json, report, history>>

(* run_qemu: output=$(qemu...) waits for the machine *)
StartQemu == /\ phase = "idle" /\ case <= Len(Cases[lang])
             /\ phase' = "qemu"
             /\ target' = Current.target
             /\ pc' = "startup" /\ guest' = "none" /\ code' = 0 /\ asked' = FALSE
             /\ console' = {} /\ status' = NoStatus
             /\ UNCHANGED <<lang, case, results, json, report, history>>

Machine == phase \in {"qemu", "by hand"} /\ Step /\ UNCHANGED harness

Answered == phase = "qemu" /\ pc = "halted"
Record == /\ results' = results \cup {Current.key}
          /\ history' = history \cup {[lang |-> lang, key |-> Current.key,
                target |-> target, console |-> console, guest |-> guest,
                code |-> code]}
          /\ case' = case + 1
          /\ phase' = "idle"

GreplessAccept == /\ Answered /\ status = 0 /\ Record       \* mutant
                  /\ UNCHANGED <<platformVars, lang, json, report>>

(* the status is 0, the output holds the success string and a count *)
Accept == /\ Answered /\ status = 0 /\ "success" \in console
          /\ Record
          /\ UNCHANGED <<platformVars, lang, json, report>>

SkippingReject == /\ Answered /\ (status # 0 \/ "success" \notin console)
                  /\ phase' = "idle" /\ case' = case + 1         \* mutant
                  /\ UNCHANGED <<platformVars, lang, results, json, report, history>>

(* "exit 1" of run_qemu ends the sourcing script, and run_all with it *)
Reject == /\ Answered /\ phase' = "failed"
          /\ UNCHANGED <<platformVars, lang, case, results, json, report, history>>

(* results_to_json > ....json; the next script is a process of its own and
   starts with an empty RESULTS *)
ResultsToJson ==
  /\ phase = "idle" /\ case > Len(Cases[lang])
  /\ json' = [json EXCEPT ![lang] = results]
  /\ results' = {} /\ case' = 1
  /\ IF lang < Len(Scripts) THEN phase' = "build" /\ lang' = lang + 1
                            ELSE phase' = "aggregate" /\ UNCHANGED lang
  /\ UNCHANGED <<platformVars, report, history>>

(* aggregator.sh stateless.json reva-client-eth.json > report.md *)
Aggregate == /\ phase = "aggregate" /\ phase' = "done"
             /\ report' = json
             /\ UNCHANGED <<platformVars, lang, case, results, json, history>>

(* jq fails: ">" has already truncated the file *)
WriteFails ==
  /\ \/ /\ phase = "idle" /\ case > Len(Cases[lang])
        /\ json' = [json EXCEPT ![lang] = {}] /\ UNCHANGED report
     \/ /\ phase = "aggregate"
        /\ report' = [l \in Script |-> {}] /\ UNCHANGED json
  /\ phase' = "failed"
  /\ UNCHANGED <<platformVars, lang, case, results, history>>

Over == /\ phase \in {"done", "failed"} \/ (phase = "by hand" /\ pc = "halted")
        /\ UNCHANGED vars

HarnessStep == Build \/ StartQemu \/ Accept \/ Reject \/ ResultsToJson \/ Aggregate
BNext == BuildFails \/ WriteFails \/ HarnessStep \/ Machine \/ Over

(* The scripts and the host code go on; the guest is assumed to come to an
   end, since neither run_qemu nor a run by hand sets a time limit *)
BSpec == /\ BInit /\ [][BNext]_vars
         /\ WF_vars(HarnessStep)
         /\ WF_vars(Machine /\ (Host \/ GuestReturns \/ GuestTraps))
-----------------------------------------------------------------------------
BTypeOK ==
  /\ TypeOK
  /\ phase \in {"build", "idle", "qemu", "aggregate", "done", "failed", "by hand"}
  /\ lang \in Script /\ case \in 1 .. Len(Cases[lang]) + 1
  /\ results \subseteq UNION {Keys(l) : l \in Script}
  /\ json \in [Script -> SUBSET (Old \cup UNION {Keys(l) : l \in Script})]

(* A count stands in a table only for a run that printed the success string
   itself and, where QEMU passes on the status of a process, only for a
   guest that neither trapped nor exited with an error afterwards: not with
   any code that shows in the status.  (The benchmark's guests exit with
   small codes; all of these show.) *)
RecordedIsGenuine ==
  \A h \in history :
    /\ "success" \in h.console
    /\ h.target \in Telling => /\ h.guest # "trapped"
                               /\ h.guest = "exited" => LowByte(h.code) = 0

(* An invocation that succeeds leaves a report.md made of files it wrote
   itself, with every case: no row is stale or has a hole left by a failed
   run.  (Until then report.md may be old, or empty after a failed jq.) *)
ReportComplete ==
  phase = "done" => \A l \in Script : report[l] = Keys(l)

(* The scripts come to an end, and a run by hand on any target to a halt,
   along every way out of the guest, unless a machine has gone astray. *)
HarnessEnds == <>(\/ phase \in {"done", "failed"} \/ pc = "astray"
                  \/ phase = "by hand" /\ pc = "halted")
=============================================================================
