------------------------------ MODULE MCBuild ------------------------------
(***************************************************************************)
(* A guest of two versions, the second of which is smaller, and what       *)
(* go_benchmark.sh builds (rust_benchmark.sh differs in names only).       *)
(***************************************************************************)
EXTENDS Build

MCSplits == <<2, 1>>
MCPlan == << [script |-> "go2wasm", output |-> "wasm"],
             [script |-> "package", output |-> "c-packages"],
             [script |-> "wamr",    output |-> "wamr.elf"],
             [script |-> "qemu",    output |-> "O0.elf"],
             [script |-> "qemu",    output |-> "O3.elf"] >>
=============================================================================
