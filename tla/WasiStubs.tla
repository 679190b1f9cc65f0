----------------------------- MODULE WasiStubs -----------------------------
(***************************************************************************)
(* What the stubs of w2c2/embedded/wasi.c (preview 1) and wasip2.c         *)
(* (preview 2) answer.  A stub keeps no state and writes nothing to the    *)
(* guest's memory: where it answers success, or returns, the variable the  *)
(* guest passed for the result still holds what the guest had there.       *)
(* Preview 2 functions either return 0, which is a handle or a time, or    *)
(* nothing, leaving the return area in the guest's memory as it is.        *)
(***************************************************************************)
EXTENDS Integers

SUCCESS == 0
BADF == 8

(* Two tables as one *)
Joined(f, g) == [name \in DOMAIN f \cup DOMAIN g |->
                   IF name \in DOMAIN f THEN f[name] ELSE g[name]]

OpenPrestat ==   \* mutant: answers like its neighbours
  [fd_prestat_get |-> SUCCESS, fd_prestat_dir_name |-> SUCCESS, fd_fdstat_get |-> SUCCESS,
   fd_fdstat_set_flags |-> BADF, path_filestat_get |-> SUCCESS,
   environ_sizes_get |-> SUCCESS, poll_oneoff |-> SUCCESS, adapter_close_badfd |-> SUCCESS,
   fd_advise |-> SUCCESS, fd_close |-> SUCCESS, fd_read |-> BADF, environ_get |-> SUCCESS]

Descriptors ==
  [fd_prestat_get |-> BADF, fd_prestat_dir_name |-> SUCCESS, fd_fdstat_get |-> SUCCESS,
   fd_fdstat_set_flags |-> BADF, path_filestat_get |-> SUCCESS,
   environ_sizes_get |-> SUCCESS, poll_oneoff |-> SUCCESS, adapter_close_badfd |-> SUCCESS,
   fd_advise |-> SUCCESS, fd_close |-> SUCCESS, fd_read |-> BADF, environ_get |-> SUCCESS]

Yield == [fd_seek |-> SUCCESS, sched_yield |-> SUCCESS]

OpenPaths ==     \* mutant: path_open succeeds as path_unlink_file does
  [path_unlink_file |-> SUCCESS, random_get |-> SUCCESS, args_get |-> SUCCESS,
   args_sizes_get |-> SUCCESS, fd_pread |-> BADF, path_readlink |-> BADF,
   path_rename |-> BADF, fd_filestat_get |-> BADF, path_open |-> SUCCESS,
   path_remove_directory |-> BADF, fd_sync |-> BADF, path_create_directory |-> BADF,
   fd_readdir |-> BADF, fd_filestat_set_size |-> BADF]

Paths ==
  [path_unlink_file |-> SUCCESS, random_get |-> SUCCESS, args_get |-> SUCCESS,
   args_sizes_get |-> SUCCESS, fd_pread |-> BADF, path_readlink |-> BADF,
   path_rename |-> BADF, fd_filestat_get |-> BADF, path_open |-> BADF,
   path_remove_directory |-> BADF, fd_sync |-> BADF, path_create_directory |-> BADF,
   fd_readdir |-> BADF, fd_filestat_set_size |-> BADF]

Errno == Joined(Descriptors, Joined(Yield, Paths))
-----------------------------------------------------------------------------
Returning(what, functions) == [f \in functions |-> what]

(* wasi:io and wasi:sockets, imported directly *)
Direct ==
  Joined(Returning("zero", {"subscribe-duration", "input.subscribe", "output.subscribe"}),
         Returning("nothing", {"drop-pollable", "poll", "drop-input", "drop-output",
    "finish-connect", "drop-tcp", "drop-incoming", "drop-outgoing", "drop-udp"}))

(* wasi:cli and wasi:clocks, imported by the preview 1 adapter *)
Adapter ==
  Joined(Returning("zero", {"get-stdin", "get-stdout", "now", "subscribe-duration",
    "subscribe-instant"}),
         Returning("nothing", {"get-arguments", "get-environment", "exit",
    "drop-terminal-input", "drop-terminal-output", "get-terminal-stderr",
    "get-terminal-stdin", "get-terminal-stdout"}))

(* wasi:filesystem, wasi:io and the wall clock, imported by the adapter *)
AdapterFiles ==
  Joined(Returning("zero", {"input.subscribe"}),
         Returning("nothing", {"wall.now", "get-directories", "append-via-stream", "get-flags",
    "get-type", "metadata-hash-at", "read-via-stream", "stat-at", "stat",
    "unlink-file-at", "write-via-stream", "drop-descriptor", "drop-directory-entry-stream",
    "filesystem-error-code", "drop-pollable", "poll", "blocking-flush"}))
=============================================================================
