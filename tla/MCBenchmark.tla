---------------------------- MODULE MCBenchmark ----------------------------
(***************************************************************************)
(* The two benchmark scripts with one case for each kind of run they have: *)
(* w2c2 on bare-metal QEMU, a Wasm runner (a process, as the native binary *)
(* is), and WAMR.  As in the scripts the keys are shared, but Rust has     *)
(* fewer of them.                                                          *)
(***************************************************************************)
EXTENDS Benchmark

MCScripts == <<"go_benchmark.sh", "rust_benchmark.sh">>
MCCases == <<
  << [key |-> "w2c2", target |-> "qemu"],
     [key |-> "wasmer", target |-> "standalone"],
     [key |-> "wamr", target |-> "wamr"] >>,
  << [key |-> "w2c2", target |-> "qemu"],
     [key |-> "wasmtime", target |-> "standalone"] >> >>
=============================================================================
