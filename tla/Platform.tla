------------------------------ MODULE Platform ------------------------------
(***************************************************************************)
(* One run of a guest on one of the targets: start-up code, main(), the    *)
(* guest, and the several ways a run can end (main returns, a Wasm trap,   *)
(* WASI proc_exit, the imported shutdown).  What differs between targets   *)
(* is how far the end travels: zkvm and the two bare-metal QEMU targets    *)
(* turn every end into the same power-off, the process targets have an     *)
(* exit status.                                                            *)
(*                                                                         *)
(*   zkvm        platform/zkvm              qemu   platform/riscv-qemu     *)
(*   qemu_user   platform/riscv-qemu-user   amd64  platform/amd64          *)
(*   wamr        platform/riscv-wamr-qemu                                  *)
(*   wamr_aarch64  platform/riscv-wamr-qemu-aarch64, a Linux process       *)
(*   standalone  the wasmtime and wasmer runners of examples/build-wasm    *)
(*                                                                         *)
(* A specification that lets a machine run is in Benchmark.tla, where one  *)
(* is started by hand or by the scripts.                                   *)
(*                                                                         *)
(* The console is the set of the lines that matter: "success" is the line  *)
(* the benchmark scripts look for, printed by the guest.                   *)
(***************************************************************************)
EXTENDS Integers

CONSTANTS Targets,   \* the targets to consider
          Codes      \* bound: what a guest passes to proc_exit, a U32

TargetNames == {"zkvm", "qemu", "qemu_user", "amd64", "wamr", "wamr_aarch64", "standalone"}
BareMetal == {"zkvm", "qemu", "wamr"}
W2c2 == {"zkvm", "qemu", "qemu_user", "amd64"}
Wamr == {"wamr", "wamr_aarch64"}

ASSUME TargetsAssumption == Targets \subseteq TargetNames
ASSUME CodesAssumption == Codes \subseteq Nat

VARIABLES target,
          pc,       \* the code that runs next
          guest,    \* how far the guest has come, or how it ended
          code,     \* the argument of proc_exit, or of exit of preview 2
          asked,    \* the guest has called the imported shutdown
          console,
          status    \* what whoever started the machine gets to see as "$?"

run == <<pc, guest, code, asked, console, status>>
platformVars == <<target, run>>

NoStatus == -1
SIGABRT == 128 + 6     \* "$?" of a process that abort() has ended
LowByte(c) == c % 256  \* what is left of exit's argument
-----------------------------------------------------------------------------
PoweredUp == /\ pc = "startup" /\ guest = "none" /\ code = 0 /\ asked = FALSE
             /\ console = {} /\ status = NoStatus

Init == target \in Targets /\ PoweredUp

Say(line) == console' = console \cup {line}

(* The ends a run comes to.  A process has a status ... *)
ProcessEnds(s) == pc' = "halted" /\ status' = s

(* ... a machine is powered off *)
PowerOff == pc' = "poweroff" /\ UNCHANGED status

(* the ecall: SBI system reset has one reason, "no reason"; the zkVM's exit
   call takes the code from a0, which shutdown() does not set *)
Halt == /\ pc = "poweroff"
        /\ pc' = "halted"
        /\ status' \in IF target = "zkvm" THEN {0, 1} ELSE {0}
        /\ UNCHANGED <<target, guest, code, asked, console>>

(* startup.S, or the C library, calls main *)
Startup == /\ pc = "startup" /\ pc' = "main"
           /\ UNCHANGED <<target, guest, code, asked, console, status>>

(* wasiInit answers true; WAMR initialises and loads the module *)
InitRuntime == /\ pc = "main" /\ pc' = "instantiate"
               /\ UNCHANGED <<target, guest, code, asked, console, status>>

Instantiate == /\ pc = "instantiate" /\ pc' = "guest"
               /\ guest' = "running"
               /\ UNCHANGED <<target, code, asked, console, status>>

(* calloc gives NULL: the w2c2 runtime calls trap(trapAllocationFailed) *)
AllocationFails == /\ pc = "instantiate" /\ target \in W2c2
                   /\ pc' = "trap"
                   /\ UNCHANGED <<target, guest, code, asked, console, status>>

(* the runners' "?": main returns an Err, which Rust prints *)
RunnerFails == /\ pc \in {"main", "instantiate"} /\ target = "standalone"
               /\ Say("error") /\ ProcessEnds(1)
               /\ UNCHANGED <<target, guest, code, asked>>

(* WAMR main: printf, exit(1), and on bare metal _exit of syscalls.c returns *)
RuntimeFails == /\ pc \in {"main", "instantiate"} /\ target = "wamr"
                /\ Say("failed") /\ pc' = "astray"
                /\ UNCHANGED <<target, guest, code, asked, status>>

(* the same main as a Linux process *)
ProcessRuntimeFails == /\ pc \in {"main", "instantiate"} /\ target = "wamr_aarch64"
                       /\ Say("failed") /\ ProcessEnds(1)
                       /\ UNCHANGED <<target, guest, code, asked>>

(* Behind the noreturn exit() execution runs into whatever follows: it may
   or may not come to the ecall *)
Astray == /\ pc = "astray" /\ PowerOff
          /\ UNCHANGED <<target, guest, code, asked, console>>
-----------------------------------------------------------------------------
GuestPrintsSuccess == /\ pc = "guest" /\ Say("success")
                      /\ UNCHANGED <<target, pc, guest, code, asked, status>>

GuestReturns == /\ pc = "guest" /\ pc' = "free"
                /\ guest' = "returned"
                /\ UNCHANGED <<target, code, asked, console, status>>

(* w2c2: trap() does not return; WAMR: an exception that main prints; the
   runners: an Err that is not an exit *)
GuestTraps == /\ pc = "guest" /\ guest' = "trapped"
              /\ \/ target \in W2c2 /\ pc' = "trap" /\ UNCHANGED <<console, status>>
                 \/ target \in Wamr /\ pc' = "free" /\ Say("exception") /\ UNCHANGED status
                 \/ target = "standalone" /\ ProcessEnds(1) /\ Say("error")
              /\ UNCHANGED <<target, code, asked>>

(* proc_exit(c): the stub of wasi.c calls exit(); WAMR ends the call of main *)
GuestExits(c) == /\ pc = "guest" /\ guest' = "exited" /\ code' = c
                 /\ \/ target \in W2c2 /\ pc' = "exit" /\ Say("proc_exit")
                    \/ target \in Wamr /\ pc' = "free" /\ UNCHANGED console
                    \/ target = "standalone" /\ pc' = "exit" /\ UNCHANGED console
                 /\ UNCHANGED <<target, asked, status>>

(* exit of preview 2, whose argument is 0 or 1, prints a line and returns to a
   caller that does not expect it: Wasm code goes on with "unreachable" *)
GuestExitsPreview2(c) == /\ pc = "guest" /\ target \in W2c2
                         /\ guest' = "trapped" /\ code' = c
                         /\ Say("exit") /\ pc' = "trap"
                         /\ UNCHANGED <<target, asked, status>>

ReturningShutdown ==   \* mutant: the import returns on riscv-qemu too
  /\ pc = "guest" /\ asked' = TRUE /\ Say("shutdown")
  /\ UNCHANGED <<target, pc, guest, code, status>>

(* The imported shutdown; on amd64 and in the runners it prints a line and
   the guest goes on; the AArch64 main exports none, so that a call traps *)
GuestShutdown ==
  /\ pc = "guest" /\ asked' = TRUE
  /\ \/ /\ target \in {"amd64", "standalone"}
        /\ Say("shutdown") /\ UNCHANGED <<pc, guest, status>>
     \/ /\ target = "qemu"
        /\ Say("shutdown") /\ guest' = "shutdown" /\ PowerOff
     \/ /\ target \in {"zkvm", "wamr"}
        /\ guest' = "shutdown" /\ PowerOff /\ UNCHANGED console
     \/ /\ target = "qemu_user"
        /\ guest' = "shutdown" /\ ProcessEnds(0) /\ UNCHANGED console
  /\ UNCHANGED <<target, code>>
-----------------------------------------------------------------------------
MainEnds == IF target \in BareMetal THEN PowerOff ELSE ProcessEnds(0)

(* guestFreeInstance, the last message, and the end of main *)
Finish == /\ pc = "free"
          /\ IF target \in {"zkvm", "qemu", "qemu_user"} THEN Say("completed")
                                                        ELSE UNCHANGED console
          /\ MainEnds
          /\ UNCHANGED <<target, guest, code, asked>>

StuckTrap ==      \* mutant: no shutdown() before "while (1)"
  /\ pc = "trap" /\ Say("trap") /\ UNCHANGED <<target, pc, guest, code, asked, status>>

(* trap(): a message, then shutdown() or exit(0) on a machine, or abort() *)
MachineTrap == target \in BareMetal /\ PowerOff
ProcessTrap == target \notin BareMetal /\ ProcessEnds(SIGABRT)
Trap == /\ pc = "trap" /\ Say("trap")
        /\ MachineTrap \/ ProcessTrap
        /\ UNCHANGED <<target, guest, code, asked>>

StatuslessExit == /\ pc = "exit" /\ MainEnds   \* mutant: exit(0) everywhere
                  /\ UNCHANGED <<target, guest, code, asked, console>>

(* exit(): a machine forgets the code, a process keeps its low byte *)
Exit == /\ pc = "exit"
        /\ IF target \in BareMetal THEN PowerOff ELSE ProcessEnds(LowByte(code))
        /\ UNCHANGED <<target, guest, code, asked, console>>

GuestEnds == \/ GuestReturns \/ GuestTraps \/ GuestShutdown
             \/ \E c \in Codes : GuestExits(c)
             \/ \E c \in {0, 1} : GuestExitsPreview2(c)
Host == \/ Startup \/ InitRuntime \/ Instantiate \/ AllocationFails
        \/ RunnerFails \/ RuntimeFails \/ ProcessRuntimeFails
        \/ Finish \/ Trap \/ Exit \/ Halt
Step == Host \/ Astray \/ GuestPrintsSuccess \/ GuestEnds
-----------------------------------------------------------------------------
Alarms == {"trap", "exception", "error"}
Lines == {"success", "failed", "proc_exit", "exit", "shutdown", "completed"} \cup Alarms

TypeOK ==
  /\ target \in Targets
  /\ pc \in {"startup", "main", "instantiate", "guest", "free", "trap", "exit",
             "poweroff", "astray", "halted"}
  /\ guest \in {"none", "running", "returned", "trapped", "exited", "shutdown"}
  /\ code \in Codes \cup {0, 1} /\ asked \in BOOLEAN
  /\ console \subseteq Lines
  /\ status \in {NoStatus} \cup 0 .. 255
  /\ pc = "halted" <=> status # NoStatus

(* The targets whose status may say something; the main of WAMR returns 0
   whatever wasm_application_execute_main came to *)
Telling == TargetNames \ (BareMetal \cup Wamr)

(* A trap shows in a line of the host on every target, the other ends in one
   where the host prints one; exit of preview 2 shows as the trap it becomes *)
LinesShow ==
  /\ guest = "trapped" <=> console \cap Alarms # {}
  /\ target \in W2c2 => (guest = "exited" <=> "proc_exit" \in console)
  /\ target \in W2c2 \ {"amd64"} => (guest = "returned" <=> "completed" \in console)

StatusShows ==
  /\ guest = "trapped" => status # 0
  /\ guest = "exited" => status = LowByte(code)
  /\ guest \in {"returned", "shutdown"} => status = 0

(* However a guest ends, and through whatever layers its end travels to the
   halt (abort, exit(code), Err, the one power-off of bare metal), who has
   the output can tell a trap from any other end, and on w2c2 proc_exit from
   a return; who has the status of a process can tell a trap and an exit,
   though an exit with a multiple of 256 looks like a success. *)
EndShows ==
  pc = "halted" /\ guest # "none" => LinesShow /\ (target \in Telling => StatusShows)

(* After shutdown the guest runs no more: nothing it does later reaches the
   console.  amd64 and the runners only print a line. *)
ShutdownIsFinal ==
  [][asked /\ asked' /\ target \notin {"amd64", "standalone"} =>
       console' = console /\ guest' = guest]_platformVars
=============================================================================
