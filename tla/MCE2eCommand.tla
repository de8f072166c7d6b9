---------------------------- MODULE MCE2eCommand ----------------------------
(* The option tables of command.ml, reduced to one option of each kind and *)
(* the ones that decide about shell commands.                              *)
EXTENDS E2eCommand, TLC

MCCompileOptions ==
  [op \in {"--posix", "--freertos", "--exec", "--run", "--runtime"} |-> "No"]
  @@ ("--compiler" :> "Str") @@ ("--static-analysis" :> "StrList")

MCWcetOptions ==
  [op \in {"--posix", "--exec", "--run"} |-> "No"]
  @@ ("--save" :> "Str") @@ ("--iter" :> "Int")
=============================================================================
