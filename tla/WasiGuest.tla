----------------------------- MODULE WasiGuest -----------------------------
(***************************************************************************)
(* A guest's language runtime on the WASI stubs: it asks for arguments,    *)
(* environment and preopened directories, then main tells the time, sleeps *)
(* and tries its luck with files and the standard input.  The runtime is   *)
(* external, modelled from how it uses the calls: like Go's it puts zero   *)
(* into a variable before it passes it for a result, or, like C's, it does *)
(* not and finds there whatever the stack had.                             *)
(***************************************************************************)
EXTENDS WasiClock

CONSTANT MaxFd   \* bound: descriptors that are told apart

ASSUME FdAssumption == MaxFd \in Nat /\ MaxFd >= 3

VARIABLES zeroed,   \* the runtime clears its result variables
          rt,       \* what the runtime does next
          fd,       \* the descriptor it enumerates or reads
          argc,     \* arguments and environment strings it believes in
          opened,   \* descriptors it believes to be open
          atEOF     \* it has seen the end of a file

runtime == <<zeroed, rt, fd, argc, opened, atEOF>>
vars == <<clock, runtime>>

(* The content of a result variable that nobody wrote *)
Unwritten == IF zeroed THEN {0} ELSE {0, 1}
After(f) == IF f < MaxFd THEN f + 1 ELSE f
Succeeds(name) == Errno[name] = SUCCESS
-----------------------------------------------------------------------------
Init == /\ ClockInit
        /\ zeroed \in BOOLEAN /\ rt = "args" /\ fd = 0 /\ argc = 0
        /\ opened = {} /\ atEOF = FALSE

(* args_sizes_get and environ_sizes_get; get-arguments, get-environment *)
Count(at, sizes_get, get2, then) ==
  /\ rt = at
  /\ \/ preview = 1 /\ Succeeds(sizes_get)
     \/ preview = 2 /\ Adapter[get2] = "nothing"
  /\ argc' \in {argc + n : n \in Unwritten}
  /\ rt' = then
  /\ UNCHANGED <<clock, zeroed, fd, opened, atEOF>>

Arguments == Count("args", "args_sizes_get", "get-arguments", "environ")
Environment == Count("environ", "environ_sizes_get", "get-environment", "preopens")

(* args_get, environ_get and random_get succeed and fill nothing *)
FirstPreopen == /\ rt = "preopens"
                /\ Succeeds("args_get") /\ Succeeds("environ_get") /\ Succeeds("random_get")
                /\ fd' = 3 /\ rt' = "prestat"
                /\ UNCHANGED <<clock, zeroed, argc, opened, atEOF>>

(* fd_prestat_get of 3, 4, ... until it answers BADF *)
Prestat == /\ rt = "prestat" /\ preview = 1
           /\ IF Errno["fd_prestat_get"] = BADF THEN rt' = "main" /\ UNCHANGED <<fd, opened>>
              ELSE fd' = After(fd) /\ opened' = opened \cup {fd} /\ UNCHANGED rt
           /\ UNCHANGED <<clock, zeroed, argc, atEOF>>

(* get-directories: the length of the list in the return area *)
Directories == /\ rt = "prestat" /\ preview = 2
               /\ AdapterFiles["get-directories"] = "nothing"
               /\ \E n \in Unwritten : opened' = 3 .. 2 + n
               /\ rt' = "main"
               /\ UNCHANGED <<clock, zeroed, fd, argc, atEOF>>

(* path_open; preview 2 has no open-at *)
OpenFile == /\ rt = "main" /\ pc = "awake" /\ preview = 1
            /\ IF Succeeds("path_open")
               THEN /\ fd' \in Unwritten
                    /\ opened' = opened \cup {fd'} /\ rt' = "read"
               ELSE UNCHANGED <<fd, opened, rt>>
            /\ UNCHANGED <<clock, zeroed, argc, atEOF>>

ReadStdin == /\ rt = "main" /\ pc = "awake" /\ preview = 1
             /\ fd' = 0 /\ rt' = "read"
             /\ UNCHANGED <<clock, zeroed, argc, opened, atEOF>>

(* fd_read until it fails or has read nothing *)
ReadAll == /\ rt = "read"
           /\ IF ~Succeeds("fd_read") THEN rt' = "close" /\ UNCHANGED atEOF
              ELSE \/ rt' = "close" /\ atEOF' = TRUE
                   \/ ~zeroed /\ UNCHANGED <<rt, atEOF>>
           /\ UNCHANGED <<clock, zeroed, fd, argc, opened>>

Close == /\ rt = "close" /\ Succeeds("fd_close")
         /\ rt' = "main" /\ opened' = opened \ {fd}
         /\ UNCHANGED <<clock, zeroed, fd, argc, atEOF>>

Runtime == Arguments \/ Environment \/ FirstPreopen \/ Prestat \/ Directories \/ ReadAll \/ Close
Main == /\ rt = "main" /\ UNCHANGED runtime
        /\ AskTime \/ (\E d \in Sleeps : FallAsleep(d)) \/ Sleep

(* The guest's own work, and the end of what the bound lets it do *)
Idle == rt = "main" /\ pc = "awake" /\ UNCHANGED vars

(* There is one thread: a runtime that has begun goes on, and so does a
   guest in its wait loop *)
Spec == /\ Init /\ [][Runtime \/ OpenFile \/ ReadStdin \/ Main \/ Idle]_vars
        /\ WF_vars(Runtime) /\ WF_vars(Main /\ Sleep)
-----------------------------------------------------------------------------
(* Whatever loop the runtime drives by a stub's answers comes to an end:
   the preopened directories before main, and the read loop after it. *)
GetsThrough == rt # "main" ~> rt = "main"

(* Although a dozen stubs succeed without doing anything, a runtime that
   clears its result variables never believes in an argument, a directory,
   an open file or the end of an input: the stubs that would open or read
   one answer an error.  (path_filestat_get and path_unlink_file do not; what
   a guest concludes from them is not modelled.) *)
NothingMadeUp == zeroed => argc = 0 /\ opened = {} /\ ~atEOF
=============================================================================
