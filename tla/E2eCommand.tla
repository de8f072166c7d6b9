----------------------------- MODULE E2eCommand -----------------------------
(***************************************************************************)
(* "e2e compile" and "e2e wcet": the command line is parsed, the options   *)
(* are looked up, and shell commands are run one after the other.  ktc     *)
(* translates the program to a C file (cil), the C compiler makes a.out of *)
(* it, and some options run a.out.  No status of a shell command is looked *)
(* at; only inside one shell command, "gcc && a.out" does.                 *)
(*                                                                         *)
(* Files are described by who made them: an earlier command may have left  *)
(* a C file and a program in the directory, and the check of the hard      *)
(* deadlines translates the program, too, before it is translated for the  *)
(* platforms named.                                                        *)
(***************************************************************************)
EXTENDS OptionParser

CONSTANTS CompileOptions, WcetOptions  \* option tables, word to argument type

ASSUME TablesAssumption ==
  \A table \in {CompileOptions, WcetOptions} :
    /\ \A op \in DOMAIN table : table[op] \in ArgTypes
    /\ DOMAIN table \cap (Unknown \cup Plain \cup {DummyOp}) = {}

VARIABLES command,   \* "compile" or "wcet"
          phase,     \* where the command is
          judged,    \* what main_wcet said of the hard deadlines
          cil,       \* the C file
          a_out,     \* the program
          todo,      \* the shell commands still to run after ktc
          executed,  \* history: the programs that were run
          mishaps    \* history: which tools failed

stateVars == <<phase, judged, cil, a_out, todo, executed, mishaps>>
vars == <<parserVars, command, stateVars>>

Phases == {"parse", "get_file", "static", "compiler", "ktc", "build",
           "done", "error", "exception", "refused"}
Made == {"none", "earlier", "check", "this"}
Libs == {"none", "fprofile", "runtime_profile", "runtime", "runtime-tpbt"}
NoProgram == [made |-> "none", from |-> "none", lib |-> "none"]
EarlierProgram == [made |-> "earlier", from |-> "earlier", lib |-> "none"]
Programs ==
  [made : {"earlier", "this"}, from : {"earlier", "check", "this"}, lib : Libs]

(* Shell commands behind ktc. A chained one runs only after a success.     *)
Gcc(lib) == [run |-> FALSE, lib |-> lib, chained |-> FALSE]
Execute(lib) == [run |-> TRUE, lib |-> lib, chained |-> FALSE]
ExecuteIfBuilt(lib) == [run |-> TRUE, lib |-> lib, chained |-> TRUE]
ShellCommands == [run : BOOLEAN, lib : Libs, chained : BOOLEAN]

Init ==
  /\ command \in {"compile", "wcet"}
  /\ ParserInit(IF command = "compile" THEN CompileOptions ELSE WcetOptions)
  /\ phase = "parse"
  /\ judged = "not"
  /\ \/ cil = "none" /\ a_out = NoProgram
     \/ cil = "earlier" /\ a_out = EarlierProgram
  /\ todo = <<>>
  /\ executed = {}
  /\ mishaps = {}

-----------------------------------------------------------------------------
Parse ==
  /\ phase = "parse"
  /\ Work \/ EndOfLine
  /\ phase' = CASE result' = "parsing" -> "parse"
                [] result' = "parsed" -> "get_file"
                [] result' = "error" -> "error"
  /\ UNCHANGED <<command, judged, cil, a_out, todo, executed, mishaps>>

(* get_timedc_filename: exactly one word that belongs to no option.  Then  *)
(* --save is looked up, which may have no argument.                        *)
GetFile ==
  /\ phase = "get_file"
  /\ phase' = CASE Len(acc_args) # 1 -> "error"
                [] HasOp("--save") /\ ~HasArgument("--save") -> "exception"
                [] OTHER -> IF command = "compile" THEN "static" ELSE "compiler"
  /\ UNCHANGED <<parserVars, command, judged, cil, a_out, todo, executed, mishaps>>

(* main_wcet needs the tool and the file of the function; with one word or *)
(* none behind --static-analysis it is left out without a message.         *)
AsksForVerdictOfThree == Len(StrListOp("--static-analysis")) > 2
AsksForVerdict == Len(StrListOp("--static-analysis")) > 1

(* The check runs ktc twice on the program, for the list of its fragments  *)
(* (wcet.ml 107) and, after the scripts have been at the traces, for its   *)
(* jobs (114), then nptest, and reads the verdict off the files.  None of  *)
(* the tools has its status looked at: where one fails, the files are what *)
(* they were, or reading them raises an exception; HardDeadline says which *)
(* files a verdict may rest on.  Neither call of ktc has --save-temps, so  *)
(* that its C file may be left behind or not, nor --link, which makes ktc  *)
(* build a program (profile-test/run-end.sh 5).                            *)
MainWcet ==
  /\ phase = "static"
  /\ IF AsksForVerdict
       THEN /\ cil' \in {cil, "check"}
            /\ \/ judged' = "guaranteed" /\ phase' = "compiler"
               \/ judged' = "not guaranteed" /\ phase' = "refused"
               \/ phase' = "exception" /\ UNCHANGED judged
       ELSE phase' = "compiler" /\ UNCHANGED <<judged, cil>>
  /\ UNCHANGED <<parserVars, command, a_out, todo, executed, mishaps>>

(* gcc for --posix, unless a compiler is named; without both, or with      *)
(* --compiler but no argument, str_op raises Not_found.                    *)
CompilerKnown ==
  \/ ~HasOp("--compiler") /\ HasOp("--posix")
  \/ HasArgument("--compiler")

When(condition, shell) == IF condition THEN shell ELSE <<>>

CompileSteps ==
  LET exec == HasOp("--exec") run == HasOp("--run") runtime == HasOp("--runtime") IN
  When(exec, <<Gcc("fprofile")>>)
  \o When(run /\ ~runtime, <<Gcc("fprofile"), Execute("fprofile")>>)
  \o When(run /\ runtime, <<Gcc("runtime_profile"), Execute("runtime_profile"),
                            Gcc("runtime"), Execute("runtime")>>)
  \o When(exec /\ runtime, <<Gcc("runtime"), Execute("runtime")>>)
  \o When(runtime, <<Gcc("runtime")>>)
  \o When(HasOp("--runtime-calculation"), <<Gcc("runtime_profile")>>)
  \o When(HasOp("--testing"), <<Gcc("runtime-tpbt")>>)

WcetStepsUnchained ==
  When(HasOp("--exec"), <<Gcc("fprofile")>>)
  \o When(HasOp("--run"), <<Gcc("fprofile"), Execute("fprofile")>>)
WcetSteps ==
  When(HasOp("--exec"), <<Gcc("fprofile")>>)
  \o When(HasOp("--run"), <<Gcc("fprofile"), ExecuteIfBuilt("fprofile")>>)

(* The compiler, and for wcet also the number of iterations.               *)
PickCompiler ==
  /\ phase = "compiler"
  /\ IF CompilerKnown /\ (HasOp("--iter") => HasArgument("--iter"))
       THEN /\ phase' = "ktc"
            /\ todo' = IF command = "compile" THEN CompileSteps ELSE WcetSteps
       ELSE phase' = "exception" /\ UNCHANGED todo
  /\ UNCHANGED <<parserVars, command, judged, cil, a_out, executed, mishaps>>

(* wcet always translates; compile does so for each platform named, also   *)
(* for none or, the second over the first, for both.                       *)
Translations ==
  IF command = "wcet" THEN {"instrumented"}
  ELSE {platform \in {"--posix", "--freertos"} : HasOp(platform)}

Ktc ==
  /\ phase = "ktc"
  /\ phase' = "build"
  /\ \/ Translations = {} /\ UNCHANGED <<cil, mishaps>>
     \/ /\ Translations # {}
        /\ cil' = "this"
        /\ \/ UNCHANGED mishaps
           \/ /\ Translations = {"--posix", "--freertos"}
              /\ mishaps' = mishaps \cup {"ktc"}
     \/ /\ Translations # {}
        /\ mishaps' = mishaps \cup {"ktc"}
        /\ UNCHANGED cil
  /\ UNCHANGED <<parserVars, command, judged, a_out, todo, executed>>

CompilerFromNothing ==
  /\ phase = "build"
  /\ todo # <<>> /\ ~Head(todo).run
  /\ \/ /\ a_out' = [made |-> "this", from |-> cil, lib |-> Head(todo).lib]
        /\ todo' = Tail(todo)
        /\ UNCHANGED mishaps
     \/ /\ mishaps' = mishaps \cup {"gcc"}
        /\ todo' = IF Len(todo) > 1 /\ todo[2].chained THEN Tail(Tail(todo)) ELSE Tail(todo)
        /\ UNCHANGED a_out
  /\ UNCHANGED <<parserVars, command, phase, judged, cil, executed>>
Compiler ==
  /\ phase = "build"
  /\ todo # <<>> /\ ~Head(todo).run
  /\ \/ /\ cil # "none"
        /\ a_out' = [made |-> "this", from |-> cil, lib |-> Head(todo).lib]
        /\ todo' = Tail(todo)
        /\ UNCHANGED mishaps
     \/ /\ mishaps' = mishaps \cup {"gcc"}
        /\ todo' = IF Len(todo) > 1 /\ todo[2].chained THEN Tail(Tail(todo)) ELSE Tail(todo)
        /\ UNCHANGED a_out
  /\ UNCHANGED <<parserVars, command, phase, judged, cil, executed>>

Run ==
  /\ phase = "build"
  /\ todo # <<>> /\ Head(todo).run
  /\ executed' = IF a_out = NoProgram THEN executed
                 ELSE executed \cup {[program |-> a_out, wanted |-> Head(todo).lib]}
  /\ todo' = Tail(todo)
  /\ UNCHANGED <<parserVars, command, phase, judged, cil, a_out, mishaps>>

Finish ==
  /\ phase = "build"
  /\ todo = <<>>
  /\ phase' = "done"
  /\ UNCHANGED <<parserVars, command, judged, cil, a_out, todo, executed, mishaps>>

Ended ==
  /\ phase \in {"done", "error", "exception", "refused"}
  /\ UNCHANGED vars

Next == Parse \/ GetFile \/ MainWcet \/ PickCompiler \/ Ktc \/ Compiler \/ Run
        \/ Finish \/ Ended

Spec == Init /\ [][Next]_vars

-----------------------------------------------------------------------------
TypeOK ==
  /\ command \in {"compile", "wcet"}
  /\ phase \in Phases
  /\ judged \in {"not", "guaranteed", "not guaranteed"}
  /\ cil \in Made
  /\ a_out \in Programs \cup {NoProgram}
  /\ todo \in Seq(ShellCommands)
  /\ executed \subseteq [program : Programs, wanted : Libs]
  /\ mishaps \subseteq {"ktc", "gcc"}

(* A program that is run is the one this command has built last, of the    *)
(* program it has translated.  After a compiler failure compile runs what  *)
(* it finds, wcet runs nothing; the C file is an old one, or that of the   *)
(* check, only when the translation for the platforms has failed, or       *)
(* compile was told no platform (command.ml 132-165).                      *)
RunsItsOwn ==
  \A r \in executed :
    /\ \/ r.program.made = "this" /\ r.program.lib = r.wanted
       \/ command = "compile" /\ "gcc" \in mishaps
    /\ \/ r.program.from = "this"
       \/ "ktc" \in mishaps
       \/ command = "compile" /\ (Translations = {} \/ "gcc" \in mishaps)

(* A command that ends with a message or an exception has not translated   *)
(* for a platform and not built.  One that asks for a static analysis with *)
(* a tool and a file does so only once it is told that every hard deadline *)
(* is guaranteed; before that ktc has been run for the check (wcet.ml 107, *)
(* 114), and the C file that leaves behind is compiled only after the same *)
(* verdict, and only when the translation for the platforms has failed or  *)
(* none was named (command.ml 122-137).  With fewer words behind           *)
(* --static-analysis nothing is judged, against its help (57), and the     *)
(* program is built all the same.                                          *)
BuildsWhenAllowed ==
  LET asked == command = "compile" /\ Len(StrListOp("--static-analysis")) >= 2
      built == a_out.made = "this" IN
  /\ built \/ cil = "this" => phase \in {"build", "done"}
  /\ asked /\ (built \/ cil = "this") => judged = "guaranteed"
  /\ judged # "not" \/ cil = "check" => asked
  /\ built /\ a_out.from = "check" => "ktc" \in mishaps \/ Translations = {}
=============================================================================
