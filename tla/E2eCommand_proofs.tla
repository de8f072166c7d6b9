-------------------------- MODULE E2eCommand_proofs --------------------------
(***************************************************************************)
(* Proofs about "e2e compile" and "e2e wcet", for every option table and   *)
(* every command line.                                                     *)
(***************************************************************************)
EXTENDS E2eCommand, FiniteSetTheorems, TLAPS

(* A list of shell commands in which every program that is run has just    *)
(* been compiled for it.                                                   *)
Paired(s) ==
  /\ s \in Seq(ShellCommands)
  /\ \A n \in DOMAIN s : s[n].run =>
       n > 1 /\ ~s[n - 1].run /\ s[n - 1].lib = s[n].lib

(* Running is all that is ever chained: never in compile, always in wcet.  *)
Chains(s, always) ==
  \A n \in DOMAIN s : s[n].chained <=> always /\ s[n].run

LEMMA Join == ASSUME NEW s, NEW t, NEW always, Paired(s), Paired(t),
                     Chains(s, always), Chains(t, always)
              PROVE  Paired(s \o t) /\ Chains(s \o t, always)
<1>1. /\ s \in Seq(ShellCommands) /\ t \in Seq(ShellCommands)
      /\ s \o t \in Seq(ShellCommands) /\ Len(s \o t) = Len(s) + Len(t)
  BY DEF Paired
<1>2. ASSUME NEW n \in DOMAIN (s \o t)
      PROVE  /\ n \in Nat \ {0}
             /\ n <= Len(s) => n \in DOMAIN s /\ (s \o t)[n] = s[n]
             /\ n > Len(s) => n - Len(s) \in DOMAIN t /\ (s \o t)[n] = t[n - Len(s)]
  BY <1>1
<1>3. ASSUME NEW n \in DOMAIN (s \o t), (s \o t)[n].run
      PROVE  n > 1 /\ ~(s \o t)[n - 1].run /\ (s \o t)[n - 1].lib = (s \o t)[n].lib
  <2>1. CASE n <= Len(s)
    <3>1. n > 1 /\ ~s[n - 1].run /\ s[n - 1].lib = s[n].lib
      BY <1>2, <1>3, <2>1 DEF Paired
    <3>2. (s \o t)[n - 1] = s[n - 1]
      BY <1>1, <1>2, <2>1, <3>1
    <3> QED
      BY <1>2, <2>1, <3>1, <3>2
  <2>2. CASE n > Len(s)
    <3> DEFINE k == n - Len(s)
    <3>1. k \in DOMAIN t /\ t[k].run
      BY <1>2, <1>3, <2>2
    <3>2. k > 1 /\ ~t[k - 1].run /\ t[k - 1].lib = t[k].lib
      BY <3>1 DEF Paired
    <3>3. n - 1 \in DOMAIN (s \o t) /\ n - 1 > Len(s) /\ (n - 1) - Len(s) = k - 1
      BY <1>1, <1>2, <3>2
    <3>4. (s \o t)[n - 1] = t[k - 1]
      BY <1>1, <3>3
    <3> QED
      BY <1>1, <1>2, <2>2, <3>2, <3>3, <3>4
  <2> QED
    BY <1>1, <2>1, <2>2
<1>4. Paired(s \o t)
  BY <1>1, <1>3 DEF Paired
<1>5. Chains(s \o t, always)
  BY <1>1, <1>2 DEF Chains
<1> QED
  BY <1>4, <1>5

LEMMA WhenPaired == ASSUME NEW c, NEW s, NEW always, Paired(s), Chains(s, always)
                    PROVE  Paired(When(c, s)) /\ Chains(When(c, s), always)
BY DEF Paired, Chains, When

LEMMA Build == ASSUME NEW lib \in Libs, NEW always
               PROVE  Paired(<<Gcc(lib)>>) /\ Chains(<<Gcc(lib)>>, always)
<1>1. Gcc(lib) \in ShellCommands /\ ~Gcc(lib).run /\ ~Gcc(lib).chained
  BY DEF Gcc, ShellCommands
<1> DEFINE g == Gcc(lib)
<1> HIDE DEF g
<1> QED
  BY <1>1 DEF Paired, Chains, g

LEMMA BuildAndRun == ASSUME NEW lib \in Libs
                     PROVE  /\ Paired(<<Gcc(lib), Execute(lib)>>)
                            /\ Chains(<<Gcc(lib), Execute(lib)>>, FALSE)
<1> DEFINE g == Gcc(lib)  e == Execute(lib)
<1>1. /\ g \in ShellCommands /\ ~g.run /\ ~g.chained /\ g.lib = lib
      /\ e \in ShellCommands /\ e.run /\ ~e.chained /\ e.lib = lib
  BY DEF Gcc, Execute, ShellCommands
<1> HIDE DEF g, e
<1>2. Paired(<<g, e>>) /\ Chains(<<g, e>>, FALSE)
  BY <1>1 DEF Paired, Chains
<1> QED
  BY <1>2 DEF g, e

LEMMA BuildThenRun == ASSUME NEW lib \in Libs
                      PROVE  /\ Paired(<<Gcc(lib), ExecuteIfBuilt(lib)>>)
                             /\ Chains(<<Gcc(lib), ExecuteIfBuilt(lib)>>, TRUE)
<1> DEFINE g == Gcc(lib)  e == ExecuteIfBuilt(lib)
<1>1. /\ g \in ShellCommands /\ ~g.run /\ ~g.chained /\ g.lib = lib
      /\ e \in ShellCommands /\ e.run /\ e.chained /\ e.lib = lib
  BY DEF Gcc, ExecuteIfBuilt, ShellCommands
<1> HIDE DEF g, e
<1>2. Paired(<<g, e>>) /\ Chains(<<g, e>>, TRUE)
  BY <1>1 DEF Paired, Chains
<1> QED
  BY <1>2 DEF g, e

LEMMA CompilePaired == Paired(CompileSteps) /\ Chains(CompileSteps, FALSE)
<1> DEFINE ok(s) == Paired(s) /\ Chains(s, FALSE)
           exec == HasOp("--exec") run == HasOp("--run") runtime == HasOp("--runtime")
           two(lib) == <<Gcc(lib), Execute(lib)>>
           s1 == When(exec, <<Gcc("fprofile")>>)
           s2 == When(run /\ ~runtime, two("fprofile"))
           four == <<Gcc("runtime_profile"), Execute("runtime_profile"),
                     Gcc("runtime"), Execute("runtime")>>
           s3 == When(run /\ runtime, four)
           s4 == When(exec /\ runtime, two("runtime"))
           s5 == When(runtime, <<Gcc("runtime")>>)
           s6 == When(HasOp("--runtime-calculation"), <<Gcc("runtime_profile")>>)
           s7 == When(HasOp("--testing"), <<Gcc("runtime-tpbt")>>)
<1>0. {"fprofile", "runtime_profile", "runtime", "runtime-tpbt"} \subseteq Libs
  BY DEF Libs
<1>1. ok(s1) /\ ok(s5) /\ ok(s6) /\ ok(s7)
  BY <1>0, Build, WhenPaired
<1>2. ok(s2) /\ ok(s4)
  BY <1>0, BuildAndRun, WhenPaired
<1>3. ok(s3)
  <2>1. ok(two("runtime_profile")) /\ ok(two("runtime"))
    BY <1>0, BuildAndRun
  <2>2. ok(two("runtime_profile") \o two("runtime"))
    BY <2>1, Join
  <2>3. four = two("runtime_profile") \o two("runtime")
    OBVIOUS
  <2> QED
    BY <2>2, <2>3, WhenPaired
<1>4. CompileSteps = s1 \o s2 \o s3 \o s4 \o s5 \o s6 \o s7
  BY DEF CompileSteps
<1> HIDE DEF s1, s2, s3, s4, s5, s6, s7
<1>5. ok(s1 \o s2)
  BY <1>1, <1>2, Join
<1>6. ok(s1 \o s2 \o s3)
  BY <1>3, <1>5, Join
<1>7. ok(s1 \o s2 \o s3 \o s4)
  BY <1>2, <1>6, Join
<1>8. ok(s1 \o s2 \o s3 \o s4 \o s5)
  BY <1>1, <1>7, Join
<1>9. ok(s1 \o s2 \o s3 \o s4 \o s5 \o s6)
  BY <1>1, <1>8, Join
<1>10. ok(s1 \o s2 \o s3 \o s4 \o s5 \o s6 \o s7)
  BY <1>1, <1>9, Join
<1> QED
  BY <1>4, <1>10

LEMMA WcetPaired == Paired(WcetSteps) /\ Chains(WcetSteps, TRUE)
<1>1. "fprofile" \in Libs
  BY DEF Libs
<1> DEFINE s1 == When(HasOp("--exec"), <<Gcc("fprofile")>>)
           s2 == When(HasOp("--run"), <<Gcc("fprofile"), ExecuteIfBuilt("fprofile")>>)
<1>2. Paired(s1) /\ Chains(s1, TRUE)
  BY <1>1, Build, WhenPaired
<1>3. Paired(s2) /\ Chains(s2, TRUE)
  BY <1>1, BuildThenRun, WhenPaired
<1> HIDE DEF s1, s2
<1>4. Paired(s1 \o s2) /\ Chains(s1 \o s2, TRUE)
  BY <1>2, <1>3, Join
<1> QED
  BY <1>4 DEF WcetSteps, s1, s2

-----------------------------------------------------------------------------
Building == {"build", "done"}

(* Before ktc has run, nothing is made and nothing is run. *)
NothingYet ==
  phase \notin Building =>
    /\ cil # "this" /\ a_out.made # "this"
    /\ executed = {}
    /\ phase # "ktc" => todo = <<>>

(* Where the C file and the program come from. *)
Sources ==
  /\ phase \in Building =>
       cil = "this" \/ "ktc" \in mishaps \/ (command = "compile" /\ Translations = {})
  /\ a_out.made = "this" => phase \in Building /\ a_out.from = cil

(* The program that is about to be run was compiled for it; behind the     *)
(* first, every program that will be run is compiled before.               *)
BuiltFor(lib) ==
  \/ a_out.made = "this" /\ a_out.lib = lib
  \/ command = "compile" /\ "gcc" \in mishaps

Follows(s) ==
  \A n \in DOMAIN s : s[n].run /\ n > 1 => ~s[n - 1].run /\ s[n - 1].lib = s[n].lib

Ready ==
  /\ Chains(todo, command = "wcet")
  /\ Follows(todo)
  /\ phase = "ktc" => Paired(todo)
  /\ phase \in Building /\ todo # <<>> /\ Head(todo).run => BuiltFor(Head(todo).lib)

(* What comes behind the check of the hard deadlines knows its verdict,    *)
(* and only behind the check is there a verdict, or a C file of it.        *)
Checked == {"compiler", "refused", "exception", "ktc", "build", "done"}

Allowed ==
  /\ phase \in {"compiler", "ktc", "build", "done"} /\ command = "compile" /\ AsksForVerdict
       => judged = "guaranteed"
  /\ phase = "static" => command = "compile"
  /\ judged # "not" \/ cil = "check"
       => phase \in Checked /\ command = "compile" /\ AsksForVerdict

IInv ==
  /\ TypeOK
  /\ phase = "parse" => result = "parsing"
  /\ NothingYet /\ Sources /\ Ready /\ Allowed
  /\ RunsItsOwn

LEMMA InitIInv == Init => IInv
<1> SUFFICES ASSUME Init PROVE IInv
  OBVIOUS
<1>1. /\ command \in {"compile", "wcet"} /\ phase = "parse" /\ judged = "not"
      /\ todo = <<>> /\ executed = {} /\ mishaps = {} /\ result = "parsing"
      /\ \/ cil = "none" /\ a_out = NoProgram
         \/ cil = "earlier" /\ a_out = EarlierProgram
  BY DEF Init, ParserInit
<1>2. TypeOK
  BY <1>1 DEF TypeOK, Phases, Made, Programs, NoProgram, EarlierProgram, Libs
<1>3. NothingYet /\ Sources /\ Ready /\ Allowed /\ RunsItsOwn
  BY <1>1 DEF NothingYet, Sources, Ready, Allowed, RunsItsOwn, Building, Chains, Follows,
              NoProgram, EarlierProgram
<1> QED
  BY <1>1, <1>2, <1>3 DEF IInv

(* The options are read once: behind the parser they mean the same. *)
LEMMA OptionsStay == ASSUME UNCHANGED parserVars
                     PROVE  /\ AsksForVerdict' = AsksForVerdict
                            /\ UNCHANGED <<result, acc_ops>>
                            /\ command' = command => Translations' = Translations
<1>1. UNCHANGED <<result, acc_ops>>
  BY DEF parserVars
<1> QED
  BY <1>1 DEF AsksForVerdict, Translations, StrListOp, HasOp, EntryOf

(* What is left of the shell commands when the first is done. *)
LEMMA Rest == ASSUME NEW s \in Seq(ShellCommands), NEW always, s # <<>>,
                     Chains(s, always), Follows(s)
              PROVE  LET t == Tail(s) IN
                     /\ t \in Seq(ShellCommands) /\ Chains(t, always) /\ Follows(t)
                     /\ t # <<>> => /\ Head(t) = s[2] /\ 2 \in DOMAIN s /\ 1 \in DOMAIN s
                                    /\ Head(s) = s[1] /\ Len(s) > 1
                     /\ t # <<>> /\ Head(t).run =>
                          ~Head(s).run /\ Head(t).lib = Head(s).lib
<1> DEFINE t == Tail(s)
<1>1. /\ t \in Seq(ShellCommands) /\ Len(t) = Len(s) - 1 /\ Len(s) > 0
      /\ \A n \in 1..Len(t) : t[n] = s[n + 1] /\ n + 1 \in DOMAIN s
      /\ DOMAIN t = 1..Len(t)
  OBVIOUS
<1>2. Chains(t, always)
  BY <1>1 DEF Chains
<1>3. ASSUME NEW m \in DOMAIN s, s[m].run, m > 1
      PROVE  ~s[m - 1].run /\ s[m - 1].lib = s[m].lib
  BY <1>3 DEF Follows
<1>4. Follows(t)
  <2> SUFFICES ASSUME NEW n \in DOMAIN t, t[n].run, n > 1
               PROVE  ~t[n - 1].run /\ t[n - 1].lib = t[n].lib
    BY DEF Follows
  <2>1. t[n] = s[n + 1] /\ n + 1 \in DOMAIN s /\ n \in Nat /\ n + 1 > 1 /\ (n + 1) - 1 = n
    BY <1>1
  <2>2. t[n - 1] = s[n]
    BY <1>1
  <2> DEFINE m == n + 1
  <2>3. m \in DOMAIN s /\ m > 1 /\ s[m].run /\ m - 1 = n
    BY <2>1
  <2> HIDE DEF m
  <2>4. ~s[m - 1].run /\ s[m - 1].lib = s[m].lib
    BY <1>3, <2>3
  <2>5. ~s[n].run /\ s[n].lib = s[m].lib
    BY <2>3, <2>4
  <2> QED
    BY <2>1, <2>2, <2>5 DEF m
<1>5. t # <<>> => /\ Head(t) = s[2] /\ 2 \in DOMAIN s /\ 1 \in DOMAIN s
                  /\ Head(s) = s[1] /\ Len(s) > 1
  BY <1>1
<1>6. t # <<>> /\ Head(t).run => ~Head(s).run /\ Head(t).lib = Head(s).lib
  <2> SUFFICES ASSUME t # <<>>, Head(t).run
               PROVE  ~Head(s).run /\ Head(t).lib = Head(s).lib
    OBVIOUS
  <2>1. \E m \in DOMAIN s : m = 2 /\ m > 1 /\ m - 1 = 1 /\ s[m].run
    BY <1>5
  <2>2. ~s[1].run /\ s[1].lib = s[2].lib
    BY <1>3, <2>1
  <2> QED
    BY <1>5, <2>2
<1> HIDE DEF t
<1> QED
  BY <1>1, <1>2, <1>4, <1>5, <1>6 DEF t

LEMMA NothingLeft == ASSUME NEW s, s = <<>>, NEW always
                     PROVE  Chains(s, always) /\ Follows(s)
<1>1. \A n \in DOMAIN s : FALSE
  OBVIOUS
<1>2. Chains(s, always)
  BY <1>1 DEF Chains
<1> QED
  BY <1>1, <1>2 DEF Follows

(* A step that leaves the shell commands and what they made alone.         *)
LEMMA Preparing == ASSUME IInv,
                          UNCHANGED <<command, a_out, todo, executed, mishaps>>,
                          cil' \in {cil, "check"},
                          phase \notin Building, phase' \in Phases \ Building, phase # "ktc",
                          judged' \in {"not", "guaranteed", "not guaranteed"},
                          phase' = "parse" => result' = "parsing",
                          phase' # "ktc", Allowed'
                   PROVE  IInv'
<1>1. TypeOK'
  BY DEF IInv, TypeOK, Made
<1>2. todo = <<>> /\ executed = {}
  BY DEF IInv, NothingYet
<1>3. cil' # "this" /\ a_out.made # "this" /\ a_out'.made # "this" /\ phase' \notin Building
  BY DEF IInv, NothingYet
<1>4. NothingYet'
  BY <1>2, <1>3 DEF NothingYet
<1>5. Sources'
  BY <1>3 DEF Sources
<1>6. Ready'
  <2>1. todo' = <<>>
    BY <1>2
  <2>2. Chains(todo', command' = "wcet") /\ Follows(todo')
    BY <2>1, NothingLeft
  <2> QED
    BY <2>1, <2>2 DEF Ready
<1>7. RunsItsOwn'
  BY <1>2 DEF RunsItsOwn
<1> QED
  BY <1>1, <1>4, <1>5, <1>6, <1>7 DEF IInv

LEMMA ParseIInv == IInv /\ Parse => IInv'
<1> SUFFICES ASSUME IInv, Parse PROVE IInv'
  OBVIOUS
<1>1. phase = "parse" /\ result = "parsing"
  BY DEF Parse, IInv
<1>2. result' \in {"parsing", "parsed", "error"}
  <2>1. CASE Work
    BY <1>1, <2>1 DEF Work, KnownOption, UnknownOption, NormalArg, StringArg, IntArg, Raise
  <2>2. CASE EndOfLine
    BY <2>2 DEF EndOfLine
  <2> QED
    BY <2>1, <2>2 DEF Parse
<1>3. /\ phase' \in {"parse", "get_file", "error"}
      /\ phase' = "parse" => result' = "parsing"
      /\ UNCHANGED <<command, judged, cil, a_out, todo, executed, mishaps>>
  BY <1>2 DEF Parse
<1>4. Allowed'
  BY <1>1, <1>3 DEF IInv, Allowed, Checked
<1>5. judged \in {"not", "guaranteed", "not guaranteed"}
  BY DEF IInv, TypeOK
<1>6. phase' \in Phases \ Building
  BY <1>3 DEF Phases, Building
<1> QED
  BY <1>1, <1>3, <1>4, <1>5, <1>6, Preparing DEF Building

LEMMA GetFileIInv == IInv /\ GetFile => IInv'
<1> SUFFICES ASSUME IInv, GetFile PROVE IInv'
  OBVIOUS
<1>1. /\ phase = "get_file" /\ phase' \in {"error", "exception", "static", "compiler"}
      /\ phase' = "compiler" => command # "compile"
      /\ phase' = "static" => command = "compile"
      /\ UNCHANGED <<parserVars, command, judged, cil, a_out, todo, executed, mishaps>>
  BY DEF GetFile
<1>2. Allowed'
  BY <1>1 DEF IInv, Allowed, Checked
<1>3. judged \in {"not", "guaranteed", "not guaranteed"}
  BY DEF IInv, TypeOK
<1>4. phase' \in Phases \ Building
  BY <1>1 DEF Phases, Building
<1> QED
  BY <1>1, <1>2, <1>3, <1>4, Preparing DEF Building

LEMMA MainWcetIInv == IInv /\ MainWcet => IInv'
<1> SUFFICES ASSUME IInv, MainWcet PROVE IInv'
  OBVIOUS
<1>1. /\ phase = "static" /\ phase' \in {"exception", "refused", "compiler"}
      /\ phase' = "compiler" /\ AsksForVerdict => judged' = "guaranteed"
      /\ judged' \in {judged, "guaranteed", "not guaranteed"}
      /\ cil' = cil \/ (cil' = "check" /\ AsksForVerdict)
      /\ judged' = judged \/ AsksForVerdict
      /\ UNCHANGED <<parserVars, command, a_out, todo, executed, mishaps>>
  <2>1. CASE AsksForVerdict
    <3>1. /\ phase = "static" /\ cil' \in {cil, "check"}
          /\ \/ judged' = "guaranteed" /\ phase' = "compiler"
             \/ judged' = "not guaranteed" /\ phase' = "refused"
             \/ phase' = "exception" /\ judged' = judged
          /\ UNCHANGED <<parserVars, command, a_out, todo, executed, mishaps>>
      BY <2>1 DEF MainWcet
    <3> QED BY <2>1, <3>1
  <2>2. CASE ~AsksForVerdict
    <3>1. /\ phase = "static" /\ phase' = "compiler" /\ judged' = judged /\ cil' = cil
          /\ UNCHANGED <<parserVars, command, a_out, todo, executed, mishaps>>
      BY <2>2 DEF MainWcet
    <3> QED BY <2>2, <3>1
  <2> QED BY <2>1, <2>2
<1>2. Allowed'
  <2>1. command = "compile" /\ cil # "check" /\ judged = "not"
    BY <1>1 DEF IInv, Allowed, Checked
  <2>2. AsksForVerdict' = AsksForVerdict
    BY <1>1, OptionsStay
  <2>3. CASE AsksForVerdict
    <3>1. AsksForVerdict' /\ phase' \in Checked /\ command' = "compile" /\ phase' # "static"
      BY <1>1, <2>1, <2>2, <2>3 DEF Checked
    <3>2. phase' \in {"compiler", "ktc", "build", "done"} => judged' = "guaranteed"
      BY <1>1, <2>3
    <3> QED BY <3>1, <3>2 DEF Allowed
  <2>4. CASE ~AsksForVerdict
    <3>1. /\ ~AsksForVerdict' /\ phase' # "static"
          /\ cil' # "check" /\ judged' = "not"
      BY <1>1, <2>1, <2>2, <2>4
    <3> QED BY <3>1 DEF Allowed
  <2> QED
    BY <2>3, <2>4
<1>3. judged \in {"not", "guaranteed", "not guaranteed"}
  BY DEF IInv, TypeOK
<1>4. phase' \in Phases \ Building
  BY <1>1 DEF Phases, Building
<1> QED
  BY <1>1, <1>2, <1>3, <1>4, Preparing DEF Building

LEMMA PickCompilerIInv == IInv /\ PickCompiler => IInv'
<1> SUFFICES ASSUME IInv, PickCompiler PROVE IInv'
  OBVIOUS
<1>1. /\ phase = "compiler"
      /\ UNCHANGED <<parserVars, command, judged, cil, a_out, executed, mishaps>>
  BY DEF PickCompiler
<1>2. /\ judged \in {"not", "guaranteed", "not guaranteed"}
      /\ command \in {"compile", "wcet"}
  BY DEF IInv, TypeOK
<1>3. CASE phase' = "exception" /\ UNCHANGED todo
  <2>1. Allowed'
    BY <1>1, <1>3, OptionsStay DEF IInv, Allowed, Checked
  <2>2. phase' \in Phases \ Building
    BY <1>3 DEF Phases, Building
  <2> QED
    BY <1>1, <1>2, <1>3, <2>1, <2>2, Preparing DEF Building
<1>4. CASE phase' = "ktc" /\ todo' = IF command = "compile" THEN CompileSteps ELSE WcetSteps
  <2>1. Paired(todo') /\ Chains(todo', command' = "wcet")
    BY <1>1, <1>2, <1>4, CompilePaired, WcetPaired
  <2>2. Follows(todo') /\ todo' \in Seq(ShellCommands)
    BY <2>1 DEF Follows, Paired
  <2>3. Ready'
    BY <1>4, <2>1, <2>2 DEF Ready, Building
  <2>4. TypeOK'
    BY <1>1, <1>4, <2>2 DEF IInv, TypeOK, Phases
  <2>5. NothingYet' /\ Sources' /\ RunsItsOwn'
    BY <1>1, <1>4 DEF IInv, NothingYet, Sources, Building, RunsItsOwn
  <2>6. Allowed'
    BY <1>1, <1>4, OptionsStay DEF IInv, Allowed, Checked
  <2> QED
    BY <1>4, <2>3, <2>4, <2>5, <2>6 DEF IInv
<1> QED
  BY <1>3, <1>4 DEF PickCompiler

LEMMA KtcIInv == IInv /\ Ktc => IInv'
<1> SUFFICES ASSUME IInv, Ktc PROVE IInv'
  OBVIOUS
<1>1. /\ phase = "ktc" /\ phase' = "build"
      /\ UNCHANGED <<parserVars, command, judged, a_out, todo, executed>>
      /\ cil' \in {cil, "this"} /\ mishaps' \in {mishaps, mishaps \cup {"ktc"}}
      /\ cil' = "this" \/ "ktc" \in mishaps' \/ Translations = {}
  BY DEF Ktc
<1>2. Translations' = Translations /\ AsksForVerdict' = AsksForVerdict
  BY <1>1, OptionsStay
<1>3. Translations = {} => command = "compile"
  BY DEF IInv, TypeOK, Translations
<1>4. a_out.made # "this" /\ executed = {}
  BY <1>1 DEF IInv, NothingYet, Building
<1>5. TypeOK'
  BY <1>1 DEF IInv, TypeOK, Phases, Made
<1>6. NothingYet' /\ RunsItsOwn'
  BY <1>1, <1>4 DEF NothingYet, Building, RunsItsOwn
<1>9. Sources'
  BY <1>1, <1>2, <1>3, <1>4 DEF Sources, Building
<1>7. Allowed'
  BY <1>1, <1>2 DEF IInv, Allowed, Checked
<1>8. Ready'
  <2>1. Paired(todo) /\ Follows(todo) /\ Chains(todo, command = "wcet")
    BY <1>1 DEF IInv, Ready
  <2>2. todo # <<>> => ~Head(todo).run
    BY <2>1 DEF Paired
  <2> QED
    BY <1>1, <2>1, <2>2 DEF Ready
<1> QED
  BY <1>1, <1>5, <1>6, <1>7, <1>8, <1>9 DEF IInv

(* What the rest of the list is, read off the inductive invariant.         *)
LEMMA Next2 == ASSUME IInv, phase = "build", todo # <<>>
               PROVE  LET t == Tail(todo) IN
                      /\ t \in Seq(ShellCommands) /\ Chains(t, command = "wcet") /\ Follows(t)
                      /\ Head(todo) \in ShellCommands
                      /\ t # <<>> /\ Head(t).run =>
                           ~Head(todo).run /\ Head(t).lib = Head(todo).lib
                      /\ t # <<>> => /\ Len(todo) > 1 /\ Head(t) = todo[2]
                                     /\ todo[2].chained <=> command = "wcet" /\ todo[2].run
<1>1. todo \in Seq(ShellCommands) /\ Chains(todo, command = "wcet") /\ Follows(todo)
  BY DEF IInv, TypeOK, Ready
<1> DEFINE t == Tail(todo)  always == command = "wcet"
<1>2. Chains(todo, always)
  BY <1>1
<1> HIDE DEF always
<1>3. /\ t \in Seq(ShellCommands) /\ Chains(t, always) /\ Follows(t)
      /\ t # <<>> => Head(t) = todo[2] /\ 2 \in DOMAIN todo /\ Len(todo) > 1
      /\ t # <<>> /\ Head(t).run => ~Head(todo).run /\ Head(t).lib = Head(todo).lib
  BY <1>1, <1>2, Rest
<1>4. t # <<>> => (todo[2].chained <=> always /\ todo[2].run)
  BY <1>2, <1>3 DEF Chains
<1>5. Head(todo) \in ShellCommands
  BY <1>1
<1> HIDE DEF t
<1> QED
  BY <1>3, <1>4, <1>5 DEF t, always

LEMMA CompilerIInv == IInv /\ Compiler => IInv'
<1> SUFFICES ASSUME IInv, Compiler PROVE IInv'
  OBVIOUS
<1> DEFINE t == Tail(todo)
<1>1. /\ phase = "build" /\ todo # <<>> /\ ~Head(todo).run
      /\ UNCHANGED <<parserVars, command, phase, judged, cil, executed>>
  BY DEF Compiler
<1>2. /\ t \in Seq(ShellCommands) /\ Chains(t, command = "wcet") /\ Follows(t)
      /\ Head(todo) \in ShellCommands
      /\ t # <<>> /\ Head(t).run => Head(t).lib = Head(todo).lib
      /\ t # <<>> => /\ Len(todo) > 1 /\ Head(t) = todo[2]
                     /\ todo[2].chained <=> command = "wcet" /\ todo[2].run
  BY <1>1, Next2
<1>3. Translations' = Translations /\ AsksForVerdict' = AsksForVerdict
  BY <1>1, OptionsStay
<1>4. Allowed' /\ NothingYet'
  BY <1>1, <1>3 DEF IInv, Allowed, NothingYet, Building
<1>5. CASE /\ cil # "none"
           /\ a_out' = [made |-> "this", from |-> cil, lib |-> Head(todo).lib]
           /\ todo' = t
           /\ UNCHANGED mishaps
  <2>1. a_out' \in Programs /\ a_out'.made = "this" /\ a_out'.from = cil
        /\ a_out'.lib = Head(todo).lib
    BY <1>2, <1>5 DEF IInv, TypeOK, Made, Programs, ShellCommands
  <2>2. TypeOK'
    BY <1>1, <1>2, <1>5, <2>1 DEF IInv, TypeOK
  <2>3. Sources' /\ RunsItsOwn'
    BY <1>1, <1>3, <1>5, <2>1 DEF IInv, Sources, RunsItsOwn, Building
  <2>4. Ready'
    <3> HIDE DEF t
    <3>1. t # <<>> /\ Head(t).run => a_out'.made = "this" /\ a_out'.lib = Head(t).lib
      BY <1>2, <2>1
    <3>2. Chains(todo', command' = "wcet") /\ Follows(todo')
      BY <1>1, <1>2, <1>5
    <3> QED
      BY <1>1, <1>5, <3>1, <3>2 DEF Ready, BuiltFor
  <2> QED
    BY <1>1, <1>4, <2>2, <2>3, <2>4 DEF IInv
<1>6. CASE /\ mishaps' = mishaps \cup {"gcc"}
           /\ todo' = IF Len(todo) > 1 /\ todo[2].chained THEN Tail(Tail(todo)) ELSE Tail(todo)
           /\ UNCHANGED a_out
  <2>1. /\ todo' \in Seq(ShellCommands) /\ Chains(todo', command = "wcet") /\ Follows(todo')
        /\ command = "wcet" => todo' = <<>> \/ ~Head(todo').run
    <3>1. CASE Len(todo) > 1 /\ todo[2].chained
      <4>5. todo \in Seq(ShellCommands)
        BY DEF IInv, TypeOK
      <4>8. Len(todo) \in Nat /\ Len(t) = Len(todo) - 1
        BY <1>1, <4>5
      <4>6. t # <<>>
        <5> HIDE DEF t
        <5>1. Len(t) # 0
          BY <3>1, <4>8
        <5> QED
          BY <5>1
      <4>7. todo' = Tail(t)
        BY <1>6, <3>1
      <4>1. t # <<>> /\ todo' = Tail(t)
        BY <4>6, <4>7
      <4>2. Head(t).run
        BY <1>2, <3>1, <4>1
      <4> DEFINE always == command = "wcet"
      <4>3. Chains(t, always)
        BY <1>2
      <4> HIDE DEF always, t
      <4>4. /\ todo' \in Seq(ShellCommands) /\ Chains(todo', always) /\ Follows(todo')
            /\ todo' # <<>> /\ Head(todo').run => ~Head(t).run
        BY <1>2, <4>1, <4>3, Rest
      <4> QED
        BY <4>2, <4>4 DEF always
    <3>2. CASE ~(Len(todo) > 1 /\ todo[2].chained)
      <4>1. todo' = t
        BY <1>6, <3>2
      <4>2. command = "wcet" => t = <<>> \/ ~Head(t).run
        BY <1>2, <3>2
      <4> QED
        BY <1>2, <4>1, <4>2
    <3> QED
      BY <3>1, <3>2
  <2>2. command \in {"compile", "wcet"}
    BY DEF IInv, TypeOK
  <2>3. Ready'
    BY <1>1, <1>6, <2>1, <2>2 DEF Ready, BuiltFor
  <2>4. TypeOK'
    BY <1>1, <1>6, <2>1 DEF IInv, TypeOK
  <2>5. Sources' /\ RunsItsOwn'
    BY <1>1, <1>3, <1>6 DEF IInv, Sources, RunsItsOwn, Building
  <2> QED
    BY <1>1, <1>4, <2>3, <2>4, <2>5 DEF IInv
<1> QED
  BY <1>5, <1>6 DEF Compiler

LEMMA RunIInv == IInv /\ Run => IInv'
<1> SUFFICES ASSUME IInv, Run PROVE IInv'
  OBVIOUS
<1> DEFINE t == Tail(todo)  new == [program |-> a_out, wanted |-> Head(todo).lib]
<1>1. /\ phase = "build" /\ todo # <<>> /\ Head(todo).run
      /\ UNCHANGED <<parserVars, command, phase, judged, cil, a_out, mishaps>>
      /\ todo' = t
      /\ executed' = IF a_out = NoProgram THEN executed ELSE executed \cup {new}
  BY DEF Run
<1>2. /\ t \in Seq(ShellCommands) /\ Chains(t, command = "wcet") /\ Follows(t)
      /\ Head(todo) \in ShellCommands
      /\ t = <<>> \/ ~Head(t).run
  BY <1>1, Next2
<1>3. Translations' = Translations /\ AsksForVerdict' = AsksForVerdict
  BY <1>1, OptionsStay
<1>4. Allowed' /\ NothingYet' /\ Sources'
  BY <1>1, <1>3 DEF IInv, Allowed, NothingYet, Sources, Building
<1>5. Ready'
  <2> HIDE DEF t
  <2>1. Chains(todo', command' = "wcet") /\ Follows(todo')
    BY <1>1, <1>2
  <2> QED
    BY <1>1, <1>2, <2>1 DEF Ready
<1>6. TypeOK'
  <2>1. a_out # NoProgram => new \in [program : Programs, wanted : Libs]
    BY <1>2 DEF IInv, TypeOK, ShellCommands
  <2> HIDE DEF new, t
  <2> QED
    BY <1>1, <1>2, <2>1 DEF IInv, TypeOK
<1>7. RunsItsOwn'
  <2>1. BuiltFor(Head(todo).lib)
    BY <1>1 DEF IInv, Ready, Building
  <2>2. a_out.made = "this" => a_out.from = cil
    BY DEF IInv, Sources
  <2>3. cil = "this" \/ "ktc" \in mishaps \/ (command = "compile" /\ Translations = {})
    BY <1>1 DEF IInv, Sources, Building
  <2>4. /\ \/ new.program.made = "this" /\ new.program.lib = new.wanted
           \/ command = "compile" /\ "gcc" \in mishaps
        /\ \/ new.program.from = "this"
           \/ "ktc" \in mishaps
           \/ command = "compile" /\ (Translations = {} \/ "gcc" \in mishaps)
    BY <2>1, <2>2, <2>3 DEF BuiltFor
  <2> HIDE DEF new
  <2> QED
    BY <1>1, <1>3, <2>4 DEF IInv, RunsItsOwn
<1> QED
  BY <1>1, <1>4, <1>5, <1>6, <1>7 DEF IInv

LEMMA NextIInv == IInv /\ [Next]_vars => IInv'
<1> SUFFICES ASSUME IInv, [Next]_vars PROVE IInv'
  OBVIOUS
<1>1. CASE Finish
  <2>1. /\ phase = "build" /\ phase' = "done" /\ todo = <<>>
        /\ UNCHANGED <<parserVars, command, judged, cil, a_out, todo, executed, mishaps>>
    BY <1>1 DEF Finish
  <2>2. Translations' = Translations /\ AsksForVerdict' = AsksForVerdict
    BY <2>1, OptionsStay
  <2>3. TypeOK' /\ NothingYet' /\ Sources' /\ Allowed' /\ RunsItsOwn'
    BY <2>1, <2>2
       DEF IInv, TypeOK, Phases, NothingYet, Sources, Allowed, Checked, RunsItsOwn, Building
  <2>4. Ready'
    BY <2>1 DEF IInv, Ready
  <2> QED
    BY <2>1, <2>3, <2>4 DEF IInv
<1>2. CASE UNCHANGED vars
  <2>1. UNCHANGED <<parserVars, command, phase, judged, cil, a_out, todo, executed, mishaps>>
    BY <1>2 DEF vars, stateVars
  <2>2. Translations' = Translations /\ AsksForVerdict' = AsksForVerdict /\ result' = result
    BY <2>1, OptionsStay
  <2>3. TypeOK' /\ NothingYet' /\ Sources' /\ Allowed' /\ RunsItsOwn'
    BY <2>1, <2>2 DEF IInv, TypeOK, NothingYet, Sources, Allowed, RunsItsOwn
  <2>4. Ready'
    BY <2>1 DEF IInv, Ready, BuiltFor
  <2> QED
    BY <2>1, <2>2, <2>3, <2>4 DEF IInv
<1>3. CASE Ended
  BY <1>2, <1>3 DEF Ended
<1> QED
  BY <1>1, <1>2, <1>3, ParseIInv, GetFileIInv, MainWcetIInv, PickCompilerIInv, KtcIInv,
     CompilerIInv, RunIInv DEF Next

-----------------------------------------------------------------------------
(* Every variable of the two commands keeps its type: no program is run    *)
(* that nobody made.                                                       *)
THEOREM TypeCorrect == Spec => []TypeOK
<1>1. IInv => TypeOK
  BY DEF IInv
<1> QED
  BY InitIInv, NextIInv, <1>1, PTL DEF Spec

(* Whatever the options: what is run was built last and of the program     *)
(* translated, up to failures of ktc and gcc and a missing platform.       *)
THEOREM AlwaysRunsItsOwn == Spec => []RunsItsOwn
<1>1. IInv => RunsItsOwn
  BY DEF IInv
<1> QED
  BY InitIInv, NextIInv, <1>1, PTL DEF Spec

(* Whatever the options and failures: nothing is translated for a platform *)
(* or built by a command that ends early, or before the static analysis it *)
(* asks for has said yes; and the C file the check leaves behind belongs   *)
(* to a command that asked for it, and is compiled only after the verdict  *)
(* and in place of a translation that failed or was not asked for.         *)
THEOREM AlwaysBuildsWhenAllowed == Spec => []BuildsWhenAllowed
<1>1. IInv => BuildsWhenAllowed
  <2> SUFFICES ASSUME IInv PROVE BuildsWhenAllowed
    OBVIOUS
  <2> DEFINE n == Len(StrListOp("--static-analysis"))
             made == a_out.made = "this" \/ cil = "this"
  <2>1. made => phase \in {"build", "done"}
    BY DEF IInv, NothingYet, Building
  <2>2. command = "compile" /\ made /\ AsksForVerdict => judged = "guaranteed"
    BY <2>1 DEF IInv, Allowed
  <2>3. AsksForVerdict <=> n >= 2
    <3>1. n >= 2 <=> n > 1
      OBVIOUS
    <3> QED
      BY <3>1 DEF AsksForVerdict
  <2>4. judged # "not" \/ cil = "check" => command = "compile" /\ AsksForVerdict
    BY DEF IInv, Allowed
  <2>5. a_out.made = "this" /\ a_out.from = "check" => "ktc" \in mishaps \/ Translations = {}
    BY DEF IInv, Sources
  <2> QED
    BY <2>1, <2>2, <2>3, <2>4, <2>5 DEF BuildsWhenAllowed
<1> QED
  BY InitIInv, NextIInv, <1>1, PTL DEF Spec

-----------------------------------------------------------------------------
(* What the command line says.  First, lists of words: one more word, and  *)
(* the same words of a longer line.                                        *)
WordsOf(line, words, positions) ==
  /\ Len(words) = Cardinality(positions)
  /\ \A p \in positions : words[Cardinality({q \in positions : q <= p})] = line[p]

LEMMA WordsGrow ==
  ASSUME NEW words, NEW more, NEW positions, NEW k, NEW w, NEW W,
         argv \in Seq(W), w \in W, k = Len(argv) + 1, argv' = Append(argv, w),
         words \in Seq(W), positions \subseteq 1..Len(argv),
         WordsOf(argv, words, positions),
         more \in Seq(W), Len(more) = Len(words) + 1, more[Len(more)] = w,
         \A i \in 1..Len(words) : more[i] = words[i]
  PROVE  WordsOf(argv', more, positions \cup {k})
<1> DEFINE upto(P, p) == {q \in P : q <= p}
           P == positions \cup {k}
<1>1. IsFiniteSet(positions) /\ k \notin positions /\ k \in Nat /\ Len(argv) \in Nat
  <2>1. Len(argv) \in Nat
    OBVIOUS
  <2>2. IsFiniteSet(1..Len(argv))
    BY <2>1, FS_Interval
  <2>3. IsFiniteSet(positions)
    BY <2>2, FS_Subset
  <2>4. \A p \in positions : p \in Int /\ p <= Len(argv)
    BY <2>1
  <2> QED BY <2>1, <2>3, <2>4
<1>2. Cardinality(P) = Cardinality(positions) + 1
  BY <1>1, FS_AddElement
<1>3. Len(words) = Cardinality(positions) /\ Len(words) \in Nat
  BY DEF WordsOf
<1>4. ASSUME NEW p \in positions
      PROVE  more[Cardinality(upto(P, p))] = argv'[p]
  <2>0. ~(k <= p)
    BY <1>1
  <2>1. upto(P, p) = upto(positions, p)
    <3>1. \A q \in P : q <= p => q # k
      BY <2>0
    <3>2. \A q \in P : q # k => q \in positions
      OBVIOUS
    <3>3. \A q \in positions : q \in P
      OBVIOUS
    <3> HIDE DEF P
    <3> QED BY <3>1, <3>2, <3>3
  <2> DEFINE S == upto(positions, p)
  <2>2. S \subseteq positions /\ p \in S
    BY <1>4, <1>1
  <2>3. IsFiniteSet(S) /\ Cardinality(S) <= Cardinality(positions)
    <3> HIDE DEF S
    <3> QED BY <1>1, <2>2, FS_Subset
  <2>4. Cardinality(S) \in Nat /\ Cardinality(S) # 0
    <3> HIDE DEF S
    <3> QED BY <2>2, <2>3, FS_CardinalityType, FS_EmptySet
  <2>5. words[Cardinality(S)] = argv[p]
    BY DEF WordsOf
  <2> HIDE DEF S
  <2>6. Cardinality(S) \in 1..Len(words)
    BY <1>3, <2>3, <2>4
  <2>7. more[Cardinality(S)] = words[Cardinality(S)]
    BY <2>6
  <2>8. argv'[p] = argv[p]
    OBVIOUS
  <2> QED BY <2>1, <2>5, <2>7, <2>8 DEF S
<1>5. more[Cardinality(upto(P, k))] = argv'[k]
  <2>1. upto(P, k) = P
    <3>1. \A q \in positions : q \in Int /\ q <= k
      BY <1>1
    <3>2. \A q \in P : q <= k
      BY <1>1, <3>1
    <3> HIDE DEF P
    <3> QED BY <3>2
  <2>2. argv'[k] = w
    OBVIOUS
  <2> HIDE DEF P
  <2> QED BY <1>2, <1>3, <2>1, <2>2
<1> QED BY <1>2, <1>3, <1>4, <1>5 DEF WordsOf

LEMMA WordsStay ==
  ASSUME NEW words, NEW positions, NEW W, NEW w, argv \in Seq(W), argv' = Append(argv, w),
         w \in W, positions \subseteq 1..Len(argv), WordsOf(argv, words, positions)
  PROVE  WordsOf(argv', words, positions)
<1>1. \A p \in positions : argv'[p] = argv[p]
  OBVIOUS
<1> QED BY <1>1 DEF WordsOf

(* The options found, each once, with their arguments. *)
Found(oplist, op) == EntryOf(oplist, op) # {}
Arguments(oplist, op) ==
  IF EntryOf(oplist, op) = {} THEN <<>>
  ELSE oplist[CHOOSE n \in EntryOf(oplist, op) : TRUE].args
Single(oplist) ==
  \A m, n \in DOMAIN oplist : oplist[m].op = oplist[n].op => m = n

LEMMA ArgumentsAre ==
  ASSUME NEW l, NEW n \in DOMAIN l, Single(l)
  PROVE  EntryOf(l, l[n].op) = {n} /\ Found(l, l[n].op) /\ Arguments(l, l[n].op) = l[n].args
<1>1. EntryOf(l, l[n].op) = {n}
  BY DEF EntryOf, Single
<1>2. (CHOOSE m \in {n} : TRUE) = n
  OBVIOUS
<1> QED BY <1>1, <1>2 DEF Found, Arguments

LEMMA FieldsOf == ASSUME NEW Ops, NEW S, NEW x \in [op : Ops, args : S]
                  PROVE  x.op \in Ops /\ x.args \in S
OBVIOUS

OpLists(Ops, A) == Seq([op : Ops, args : Seq(A)])

(* r is l with the arguments args added to those of op. *)
Extends(r, l, op, args, Ops, A) ==
  /\ r \in OpLists(Ops, A) /\ Single(r)
  /\ Found(r, op) /\ Arguments(r, op) = Arguments(l, op) \o args
  /\ \A o \in Ops \ {op} :
       (Found(r, o) <=> Found(l, o)) /\ Arguments(r, o) = Arguments(l, o)

LEMMA Inserted ==
  ASSUME NEW Ops, NEW A, NEW l \in OpLists(Ops, A), Single(l),
         NEW op \in Ops, NEW args \in Seq(A)
  PROVE  Extends(Insert(l, op, args), l, op, args, Ops, A)
<1> USE DEF OpLists
<1> DEFINE r == Insert(l, op, args)
           E == [op : Ops, args : Seq(A)]
<1>1. CASE EntryOf(l, op) = {}
  <2> DEFINE e == [op |-> op, args |-> args]
  <2>1. r = Append(l, e)
    BY <1>1 DEF Insert
  <2>2. e \in E /\ e.op = op /\ e.args = args
    OBVIOUS
  <2> HIDE DEF e
  <2>3. /\ r \in Seq(E) /\ Len(r) = Len(l) + 1 /\ r[Len(r)] = e /\ Len(l) \in Nat
        /\ \A n \in 1..Len(l) : r[n] = l[n]
        /\ DOMAIN l = 1..Len(l) /\ DOMAIN r = 1..Len(r)
    BY <2>1, <2>2
  <2> HIDE DEF r, Extends
  <2>4. \A n \in DOMAIN l : l[n].op # op
    BY <1>1 DEF EntryOf
  <2>5. Single(r)
    <3> SUFFICES ASSUME NEW m \in DOMAIN r, NEW n \in DOMAIN r, r[m].op = r[n].op
                 PROVE  m = n
      BY DEF Single
    <3>1. (m \in DOMAIN l /\ r[m] = l[m]) \/ (m = Len(r) /\ r[m] = e)
      BY <2>3
    <3>2. (n \in DOMAIN l /\ r[n] = l[n]) \/ (n = Len(r) /\ r[n] = e)
      BY <2>3
    <3> QED BY <2>2, <2>4, <3>1, <3>2 DEF Single
  <2>6. Found(r, op) /\ Arguments(r, op) = args
    BY <2>2, <2>3, <2>5, ArgumentsAre
  <2>7. Arguments(l, op) = <<>> /\ <<>> \o args = args
    BY <1>1 DEF Arguments
  <2>8. ASSUME NEW o \in Ops \ {op}
        PROVE  (Found(r, o) <=> Found(l, o)) /\ Arguments(r, o) = Arguments(l, o)
    <3>1. EntryOf(r, o) = EntryOf(l, o)
      BY <2>2, <2>3 DEF EntryOf
    <3>2. CASE EntryOf(l, o) = {}
      BY <3>1, <3>2 DEF Found, Arguments
    <3>3. CASE EntryOf(l, o) # {}
      <4>1. PICK n \in DOMAIN l : l[n].op = o
        BY <3>3 DEF EntryOf
      <4>2. n \in DOMAIN r /\ r[n] = l[n]
        BY <2>3
      <4>3. /\ Found(l, o) /\ Arguments(l, o) = l[n].args
            /\ Found(r, o) /\ Arguments(r, o) = r[n].args
        BY <2>5, <4>1, <4>2, ArgumentsAre
      <4> QED BY <4>2, <4>3
    <3> QED BY <3>2, <3>3
  <2> QED BY <2>3, <2>5, <2>6, <2>7, <2>8 DEF r, Extends
<1>2. CASE EntryOf(l, op) # {}
  <2>1. PICK n \in DOMAIN l : l[n].op = op
    BY <1>2 DEF EntryOf
  <2>2. EntryOf(l, op) = {n} /\ Found(l, op) /\ Arguments(l, op) = l[n].args
    BY <2>1, ArgumentsAre
  <2>3. (CHOOSE m \in {n} : \A e \in {n} : m <= e) = n
    OBVIOUS
  <2>4. r = [l EXCEPT ![n].args = @ \o args]
    BY <1>2, <2>2, <2>3 DEF Insert
  <2>5. l[n] \in E /\ l[n].args \o args \in Seq(A)
    <3>1. l[n] \in E
      <4>1. l \in Seq(E)
        OBVIOUS
      <4> HIDE DEF E
      <4> QED BY <4>1, <2>1
    <3> DEFINE x == l[n]
    <3>2. x.args \in Seq(A)
      <4>1. x \in [op : Ops, args : Seq(A)]
        BY <3>1
      <4> HIDE DEF x
      <4> QED BY <4>1, FieldsOf
    <3> HIDE DEF x
    <3>3. x.args \o args \in Seq(A)
      BY <3>2
    <3> QED BY <3>1, <3>3 DEF x
  <2> DEFINE e == [op |-> op, args |-> l[n].args \o args]
  <2>6. r = [l EXCEPT ![n] = e]
    BY <2>1, <2>4, <2>5
  <2>7. e \in E /\ e.op = op /\ e.args = l[n].args \o args
    BY <2>5
  <2> HIDE DEF e
  <2>8. /\ r \in Seq(E) /\ Len(r) = Len(l) /\ r[n] = e
        /\ \A m \in DOMAIN l : m # n => r[m] = l[m]
        /\ DOMAIN r = DOMAIN l
    BY <2>1, <2>6, <2>7
  <2> HIDE DEF r, Extends
  <2>9. Single(r)
    <3>1. \A m \in DOMAIN l : r[m].op = l[m].op
      BY <2>1, <2>7, <2>8
    <3> QED BY <2>8, <3>1 DEF Single
  <2>10. Found(r, op) /\ Arguments(r, op) = Arguments(l, op) \o args
    <3>1. n \in DOMAIN r /\ r[n].op = op /\ r[n].args = Arguments(l, op) \o args
      BY <2>1, <2>2, <2>7, <2>8
    <3> QED BY <2>9, <3>1, ArgumentsAre
  <2>11. ASSUME NEW o \in Ops \ {op}
        PROVE  (Found(r, o) <=> Found(l, o)) /\ Arguments(r, o) = Arguments(l, o)
    <3>1. EntryOf(r, o) = EntryOf(l, o)
      BY <2>1, <2>7, <2>8 DEF EntryOf
    <3>2. CASE EntryOf(l, o) = {}
      BY <3>1, <3>2 DEF Found, Arguments
    <3>3. CASE EntryOf(l, o) # {}
      <4>1. PICK m \in DOMAIN l : l[m].op = o
        BY <3>3 DEF EntryOf
      <4>2. m \in DOMAIN r /\ r[m] = l[m]
        BY <2>1, <2>8, <4>1
      <4>3. /\ Found(l, o) /\ Arguments(l, o) = l[m].args
            /\ Found(r, o) /\ Arguments(r, o) = r[m].args
        BY <2>9, <4>1, <4>2, ArgumentsAre
      <4> QED BY <4>2, <4>3
    <3> QED BY <3>2, <3>3
  <2> QED BY <2>8, <2>9, <2>10, <2>11 DEF r, Extends
<1> QED BY <1>1, <1>2

Words == DOMAIN options \cup Unknown \cup Plain

(* The types of the parser. *)
LineOK ==
  /\ options \in {CompileOptions, WcetOptions}
  /\ argv \in Seq(Words)
  /\ acc_args \in Seq(Words)
  /\ acc_ops \in OpLists(DOMAIN options, Words)
  /\ handlers \in Seq(Plain)
  /\ result \in {"parsing", "parsed", "error"}

(* The option a word belongs to stands before it. *)
OwnersBefore ==
  /\ \A i \in 1..(Len(argv) + 1) :
       Owner(i) # 0 => Owner(i) \in 1..(i - 1) /\ IsOption(Owner(i))
  /\ argv # <<>> /\ IsOption(Len(argv)) => Owner(Len(argv) + 1) = Len(argv)

(* The state the loop carries: the option in charge of the next word, and  *)
(* what it still expects.                                                  *)
Current ==
  LET o == Owner(Len(argv) + 1) IN
  /\ o = 0 => exp_argtype = "No"
  /\ o # 0 =>
       /\ last_op = argv[o]
       /\ exp_argtype = IF options[last_op] = "StrList" \/ o = Len(argv)
                          THEN options[last_op] ELSE "No"

(* An open handler is one of an integer argument read before. *)
IntegerRead ==
  handlers # <<>> =>
    \E n \in 1..Len(argv) : IsArgument(n) /\ options[argv[Owner(n)]] = "Int"

(* A word the code does not take: every word with a dash, also where an    *)
(* integer belongs.                                                        *)
Faulty(i) ==
  \/ argv[i] \in Unknown
  \/ IsOption(i) /\ i > 1 /\ IsOption(i - 1) /\ options[argv[i - 1]] \in {"Str", "Int"}
  \/ IsArgument(i) /\ options[argv[Owner(i)]] = "Int" /\ argv[i] \notin IntWords

LEMMA FaultyIs == \A i : Faulty(i) <=> Wrong(i) \/ NegativeArg(i)
BY DEF Faulty, Wrong, NegativeArg, TakenByInt

(* The line is refused at its first faulty word. *)
Refused == \A i \in DOMAIN argv : Faulty(i) <=> (result = "error" /\ i = Len(argv))

(* Each option with the words that belong to it. *)
OpsRead ==
  \A op \in DOMAIN options :
    /\ HasOp(op) <=> \E i \in DOMAIN argv : argv[i] = op
    /\ WordsAt(StrListOp(op), ArgumentsOf(op))

(* The word by word reading, of the code's own faults. *)
Reading ==
  /\ Refused
  /\ result = "error" => argv # <<>>
  /\ result # "error" => WordsOf(argv, acc_args, Others) /\ OpsRead

(* What the parser knows of the line read so far.                          *)
ReadingInv ==
  /\ LineOK /\ OwnersBefore
  /\ result = "parsing" => Current
  /\ IntegerRead
  /\ Single(acc_ops)
  /\ Reading /\ BlamesTheFault

LEMMA Tables == ASSUME LineOK
                PROVE  /\ \A op \in DOMAIN options : options[op] \in ArgTypes
                       /\ DOMAIN options \cap Unknown = {} /\ DOMAIN options \cap Plain = {}
                       /\ Unknown \cap Plain = {} /\ IntWords \subseteq Plain \cup Unknown
BY WordsAssumption, TablesAssumption DEF LineOK

(* The owner of a word is the last option before it. *)
Before(i) == {p \in 1..(i - 1) : IsOption(p)}
LastOf(S) == IF S = {} THEN 0 ELSE CHOOSE p \in S : \A q \in S : q <= p

LEMMA OwnerIsLast == \A i : Owner(i) = LastOf(Before(i))
BY DEF Owner, LastOf, Before

LEMMA OwnerIsLastThen == \A i : Owner(i)' = LastOf(Before(i)')
BY DEF Owner, LastOf, Before

LEMMA LastOfLast == ASSUME NEW S \in SUBSET Nat, NEW m \in S, \A q \in S : q <= m
                    PROVE  LastOf(S) = m
<1>1. (CHOOSE p \in S : \A q \in S : q <= p) = m
  <2>1. \A p \in S : (\A q \in S : q <= p) => p = m
    OBVIOUS
  <2> QED BY <2>1
<1> QED BY <1>1 DEF LastOf

(* The line gets one more word w, at k: the words before mean the same.    *)
Growing(k, w) ==
  /\ LineOK /\ OwnersBefore
  /\ w \in Words /\ k = Len(argv) + 1
  /\ argv' = Append(argv, w) /\ options' = options

LEMMA LineGrows == ASSUME NEW k, NEW w, Growing(k, w)
                   PROVE  /\ k \in Nat \ {0} /\ Len(argv) \in Nat /\ Len(argv) = k - 1
                          /\ Len(argv') = k /\ DOMAIN argv' = 1..k /\ DOMAIN argv = 1..(k - 1)
                          /\ argv'[k] = w /\ \A i \in 1..(k - 1) : argv'[i] = argv[i]
                          /\ argv' \in Seq(Words) /\ Words' = Words /\ argv' # <<>>
                          /\ \A i \in 1..(k - 1) : argv[i] \in Words
<1>1. argv \in Seq(Words) /\ w \in Words /\ k = Len(argv) + 1 /\ argv' = Append(argv, w)
  BY DEF Growing, LineOK
<1>2. Words' = Words
  BY DEF Growing, Words
<1> QED BY <1>1, <1>2

LEMMA OptionsGrow == ASSUME NEW k, NEW w, Growing(k, w)
                     PROVE  /\ \A i \in 1..(k - 1) : IsOption(i)' <=> IsOption(i)
                            /\ IsOption(k)' <=> w \in DOMAIN options
<1>1. options' = options
  BY DEF Growing
<1> QED BY <1>1, LineGrows DEF IsOption

LEMMA OwnersGrow == ASSUME NEW k, NEW w, Growing(k, w)
                    PROVE  /\ \A i \in 1..k : Owner(i)' = Owner(i)
                           /\ w \in DOMAIN options => Owner(k + 1)' = k
                           /\ w \notin DOMAIN options => Owner(k + 1)' = Owner(k)
<1>1. k \in Nat \ {0}
  BY LineGrows
<1>2. \A i \in 1..(k - 1) : IsOption(i)' <=> IsOption(i)
  BY OptionsGrow
<1>3. IsOption(k)' <=> w \in DOMAIN options
  BY OptionsGrow
<1>4. \A i \in 1..k : Before(i)' = Before(i)
  BY <1>1, <1>2 DEF Before
<1>5. \A i \in 1..k : Owner(i)' = Owner(i)
  BY <1>4, OwnerIsLast, OwnerIsLastThen
<1>6. ASSUME w \in DOMAIN options PROVE Owner(k + 1)' = k
  <2>1. k \in Before(k + 1)' /\ \A q \in Before(k + 1)' : q <= k /\ q \in Nat
    BY <1>1, <1>3, <1>6 DEF Before
  <2> DEFINE S == Before(k + 1)'
  <2>2. S \in SUBSET Nat /\ k \in S /\ \A q \in S : q <= k
    BY <2>1
  <2> HIDE DEF S
  <2>3. LastOf(S) = k
    BY <2>2, LastOfLast
  <2> QED BY <2>3, OwnerIsLastThen DEF S
<1>7. ASSUME w \notin DOMAIN options PROVE Owner(k + 1)' = Owner(k)
  <2>1. Before(k + 1)' = Before(k)
    BY <1>1, <1>2, <1>3, <1>7 DEF Before
  <2> QED BY <2>1, OwnerIsLast, OwnerIsLastThen
<1> QED BY <1>5, <1>6, <1>7

LEMMA MeaningStays == ASSUME NEW k, NEW w, Growing(k, w), NEW i \in 1..(k - 1)
                      PROVE  /\ IsArgument(i)' <=> IsArgument(i)
                             /\ Faulty(i)' <=> Faulty(i)
                             /\ Owner(i)' = Owner(i)
                             /\ Owner(i) # 0 => argv'[Owner(i)] = argv[Owner(i)]
<1>1. k \in Nat \ {0} /\ options' = options /\ Len(argv) = k - 1
  BY LineGrows DEF Growing
<1>2. Owner(i)' = Owner(i) /\ (IsOption(i)' <=> IsOption(i)) /\ argv'[i] = argv[i]
  BY <1>1, LineGrows, OptionsGrow, OwnersGrow
<1>3. Owner(i) # 0 => argv'[Owner(i)] = argv[Owner(i)]
  <2>1. Owner(i) # 0 => Owner(i) \in 1..(i - 1)
    BY <1>1 DEF Growing, OwnersBefore
  <2>2. Owner(i) # 0 => Owner(i) \in 1..(k - 1)
    BY <1>1, <2>1
  <2> QED BY <2>2, LineGrows
<1>4. IsArgument(i)' <=> IsArgument(i)
  BY <1>1, <1>2, <1>3 DEF IsArgument
<1>5. i > 1 => (IsOption(i - 1)' <=> IsOption(i - 1)) /\ argv'[i - 1] = argv[i - 1]
  <2>1. i > 1 => i - 1 \in 1..(k - 1)
    BY <1>1
  <2> QED BY <2>1, LineGrows, OptionsGrow
<1>6. IsArgument(i) => Owner(i) # 0
  BY DEF IsArgument
<1>7. Faulty(i)' <=> Faulty(i)
  BY <1>1, <1>2, <1>3, <1>4, <1>5, <1>6 DEF Faulty
<1> QED BY <1>2, <1>3, <1>4, <1>7

LEMMA OwnersStayBefore == ASSUME NEW k, NEW w, Growing(k, w) PROVE OwnersBefore'
<1>1. /\ k \in Nat \ {0} /\ Len(argv) = k - 1 /\ Len(argv') = k
      /\ options' = options
  BY LineGrows DEF Growing
<1>2. ASSUME NEW i \in 1..k, Owner(i)' # 0
      PROVE  Owner(i)' \in 1..(i - 1) /\ IsOption(Owner(i))'
  <2>1. Owner(i)' = Owner(i)
    BY OwnersGrow
  <2>2. Owner(i) \in 1..(i - 1) /\ IsOption(Owner(i))
    BY <1>1, <1>2, <2>1 DEF Growing, OwnersBefore
  <2>3. Owner(i) \in 1..(k - 1)
    BY <1>1, <2>2
  <2>4. argv'[Owner(i)] = argv[Owner(i)]
    BY <2>3, LineGrows
  <2> QED BY <1>1, <2>1, <2>2, <2>4 DEF IsOption
<1>3. ASSUME Owner(k + 1)' # 0
      PROVE  Owner(k + 1)' \in 1..k /\ IsOption(Owner(k + 1))'
  <2>1. CASE w \in DOMAIN options
    <3>1. Owner(k + 1)' = k
      BY <2>1, OwnersGrow
    <3>2. argv'[k] = w
      BY LineGrows
    <3> QED BY <1>1, <2>1, <3>1, <3>2 DEF IsOption
  <2>2. CASE w \notin DOMAIN options
    <3>1. Owner(k + 1)' = Owner(k)'
      BY <1>1, <2>2, OwnersGrow
    <3>2. k \in 1..k
      BY <1>1
    <3>3. Owner(k)' \in 1..(k - 1) /\ IsOption(Owner(k))'
      BY <1>2, <1>3, <3>1, <3>2
    <3> QED BY <1>1, <3>1, <3>3 DEF IsOption
  <2> QED BY <2>1, <2>2
<1>4. IsOption(k)' => Owner(k + 1)' = k
  BY OptionsGrow, OwnersGrow
<1>5. \A i \in 1..(Len(argv') + 1) : Owner(i)' # 0 => Owner(i)' \in 1..(i - 1) /\ IsOption(Owner(i))'
  <2> SUFFICES ASSUME NEW i \in 1..(Len(argv') + 1), Owner(i)' # 0
               PROVE  Owner(i)' \in 1..(i - 1) /\ IsOption(Owner(i))'
    OBVIOUS
  <2>1. i \in 1..k \/ i = k + 1
    BY <1>1
  <2>2. CASE i \in 1..k
    BY <1>2, <2>2
  <2>3. CASE i = k + 1
    <3>1. (k + 1) - 1 = k
      BY <1>1
    <3> QED BY <1>3, <2>3, <3>1
  <2> QED BY <2>1, <2>2, <2>3
<1>6. IsOption(Len(argv))' => Owner(Len(argv) + 1)' = Len(argv')
  BY <1>1, <1>4
<1> QED BY <1>5, <1>6 DEF OwnersBefore

(* What the state of the loop says about the option in charge. *)
LEMMA InCharge == ASSUME NEW k, NEW w, Growing(k, w), Current
                  PROVE  /\ exp_argtype \in ArgTypes
                         /\ exp_argtype # "No" =>
                              /\ Owner(k) # 0 /\ argv[Owner(k)] = last_op
                              /\ last_op \in DOMAIN options /\ options[last_op] = exp_argtype
                         /\ exp_argtype \in {"Str", "Int"} => Owner(k) = k - 1
                         /\ Owner(k) # 0 /\ exp_argtype = "No" =>
                              /\ options[argv[Owner(k)]] # "StrList"
                              /\ Owner(k) = k - 1 => options[argv[Owner(k)]] = "No"
                         /\ Owner(k) # 0 => Owner(k) \in 1..(k - 1)
<1>1. k = Len(argv) + 1 /\ Len(argv) = k - 1 /\ k \in Nat
  BY LineGrows DEF Growing
<1>2. Owner(k) # 0 => Owner(k) \in 1..(k - 1) /\ IsOption(Owner(k))
  BY <1>1, LineGrows DEF Growing, OwnersBefore
<1>3. \A op \in DOMAIN options : options[op] \in ArgTypes
  BY Tables DEF Growing
<1>4. /\ Owner(k) = 0 => exp_argtype = "No"
      /\ Owner(k) # 0 =>
           /\ last_op = argv[Owner(k)]
           /\ exp_argtype = IF options[last_op] = "StrList" \/ Owner(k) = k - 1
                              THEN options[last_op] ELSE "No"
  BY <1>1 DEF Current
<1>5. Owner(k) # 0 => argv[Owner(k)] \in DOMAIN options
  BY <1>2 DEF IsOption
<1> HIDE DEF Current
<1> QED BY <1>2, <1>3, <1>4, <1>5 DEF ArgTypes

(* What the new word means. *)
LEMMA NewWord == ASSUME NEW k, NEW w, Growing(k, w), Current
                 PROVE  /\ IsArgument(k)' <=> w \notin DOMAIN options /\ exp_argtype # "No"
                        /\ exp_argtype # "No" => argv'[Owner(k)'] = last_op
                        /\ Faulty(k)' <=>
                             \/ w \in Unknown
                             \/ w \in DOMAIN options /\ exp_argtype \in {"Str", "Int"}
                             \/ w \notin DOMAIN options /\ exp_argtype = "Int" /\ w \notin IntWords
<1>1. k \in Nat \ {0} /\ options' = options /\ argv'[k] = w /\ (IsOption(k)' <=> w \in DOMAIN options)
  BY LineGrows, OptionsGrow DEF Growing
<1>2. Owner(k)' = Owner(k)
  BY <1>1, OwnersGrow
<1>3. Owner(k) # 0 => Owner(k) \in 1..(k - 1) /\ argv'[Owner(k)] = argv[Owner(k)]
  BY InCharge, LineGrows
<1>4. IsArgument(k)' <=> w \notin DOMAIN options /\ exp_argtype # "No"
  <2>1. IsArgument(k)' <=>
          /\ w \notin DOMAIN options /\ Owner(k) # 0
          /\ \/ options[argv[Owner(k)]] = "StrList"
             \/ options[argv[Owner(k)]] \in {"Str", "Int"} /\ k = Owner(k) + 1
    BY <1>1, <1>2, <1>3 DEF IsArgument
  <2>2. Owner(k) # 0 => (k = Owner(k) + 1 <=> Owner(k) = k - 1)
    BY <1>1, <1>3
  <2> QED BY <1>1, <1>3, <2>1, <2>2, InCharge DEF ArgTypes
<1>5. exp_argtype # "No" => argv'[Owner(k)'] = last_op
  BY <1>2, <1>3, InCharge
<1>6. w \in DOMAIN options =>
        (k > 1 /\ IsOption(k - 1)' /\ options[argv'[k - 1]] \in {"Str", "Int"}
           <=> exp_argtype \in {"Str", "Int"})
  <2>1. ASSUME k > 1, IsOption(k - 1)', options[argv'[k - 1]] \in {"Str", "Int"}
        PROVE  exp_argtype \in {"Str", "Int"}
    <3>1. k - 1 \in 1..(k - 1) /\ IsOption(k - 1) /\ argv'[k - 1] = argv[k - 1]
      BY <1>1, <2>1, OptionsGrow, LineGrows
    <3>2. Owner(k) = k - 1
      BY <1>1, <2>1, <3>1, LineGrows DEF Growing, OwnersBefore
    <3>3. Owner(k) # 0 /\ options[argv[Owner(k)]] \in {"Str", "Int"}
      BY <1>1, <2>1, <3>1, <3>2
    <3> QED BY <3>2, <3>3, InCharge DEF ArgTypes
  <2>2. ASSUME exp_argtype \in {"Str", "Int"}
        PROVE  k > 1 /\ IsOption(k - 1)' /\ options[argv'[k - 1]] \in {"Str", "Int"}
    <3>1. Owner(k) = k - 1 /\ Owner(k) # 0 /\ argv[Owner(k)] = last_op
          /\ last_op \in DOMAIN options /\ options[last_op] = exp_argtype
      BY <2>2, InCharge
    <3>2. k > 1 /\ argv'[k - 1] = last_op
      BY <1>1, <1>3, <3>1
    <3> QED BY <1>1, <2>2, <3>1, <3>2 DEF IsOption
  <2> QED BY <2>1, <2>2
<1>7. w \in DOMAIN options => w \notin Unknown
  BY Tables DEF Growing
<1>8. exp_argtype # "No" => argv[Owner(k)] = last_op /\ options[last_op] = exp_argtype
                              /\ argv'[Owner(k)] = last_op
  BY <1>3, InCharge
<1>9. Faulty(k)' <=>
        \/ w \in Unknown
        \/ w \in DOMAIN options /\ k > 1 /\ IsOption(k - 1)' /\ options[argv'[k - 1]] \in {"Str", "Int"}
        \/ IsArgument(k)' /\ options[argv'[Owner(k)]] = "Int" /\ w \notin IntWords
  BY <1>1, <1>2 DEF Faulty
<1> QED BY <1>4, <1>5, <1>6, <1>8, <1>9

(* The state of the loop behind an option, and behind another word. *)
LEMMA CurrentOption == ASSUME NEW k, NEW w, Growing(k, w), w \in DOMAIN options,
                              last_op' = w, exp_argtype' = options[w]
                       PROVE  Current'
<1>1. Len(argv') = k /\ argv'[k] = w /\ options' = options /\ k # 0
  BY LineGrows DEF Growing
<1>2. Owner(k + 1)' = k
  BY OwnersGrow
<1> QED BY <1>1, <1>2 DEF Current

LEMMA CurrentOther == ASSUME NEW k, NEW w, Growing(k, w), w \notin DOMAIN options, Current,
                             last_op' = last_op,
                             exp_argtype' = IF exp_argtype = "StrList" THEN "StrList" ELSE "No"
                      PROVE  Current'
<1>1. Len(argv') = k /\ Len(argv) = k - 1 /\ options' = options /\ k \in Nat \ {0} /\ k = Len(argv) + 1
  BY LineGrows DEF Growing
<1>2. Owner(k + 1)' = Owner(k)
  BY OwnersGrow
<1>3. Owner(k) # 0 => Owner(k) \in 1..(k - 1) /\ argv'[Owner(k)] = argv[Owner(k)]
  BY InCharge, LineGrows
<1>4. /\ Owner(k) = 0 => exp_argtype = "No"
      /\ Owner(k) # 0 =>
           /\ last_op = argv[Owner(k)]
           /\ exp_argtype = IF options[last_op] = "StrList" \/ Owner(k) = k - 1
                              THEN options[last_op] ELSE "No"
  BY <1>1 DEF Current
<1>5. /\ Owner(k + 1)' = 0 => exp_argtype' = "No"
      /\ Owner(k + 1)' # 0 =>
           /\ last_op' = argv'[Owner(k + 1)']
           /\ exp_argtype' = IF options'[last_op'] = "StrList" \/ Owner(k + 1)' = k
                              THEN options'[last_op'] ELSE "No"
  <2>1. Owner(k) # 0 => Owner(k) # k
    BY <1>1, <1>3
  <2> QED BY <1>1, <1>2, <1>3, <1>4, <2>1
<1> QED BY <1>1, <1>5 DEF Current

(* Whose the new word is. *)
LEMMA Shares == ASSUME NEW k, NEW w, Growing(k, w), Current
                PROVE  /\ Others \subseteq 1..Len(argv) /\ k \notin Others
                       /\ Others' = IF w \notin DOMAIN options /\ exp_argtype = "No"
                                      THEN Others \cup {k} ELSE Others
                       /\ \A op : /\ ArgumentsOf(op) \subseteq 1..Len(argv)
                                  /\ ArgumentsOf(op)' =
                                       IF w \notin DOMAIN options /\ exp_argtype # "No" /\ op = last_op
                                         THEN ArgumentsOf(op) \cup {k} ELSE ArgumentsOf(op)
<1>1. /\ DOMAIN argv' = 1..k /\ DOMAIN argv = 1..(k - 1) /\ k \in Nat \ {0} /\ Len(argv) = k - 1
      /\ 1..k = 1..(k - 1) \cup {k} /\ k \notin 1..(k - 1)
  BY LineGrows
<1>2. /\ \A i \in 1..(k - 1) : (IsArgument(i)' <=> IsArgument(i)) /\ (IsOption(i)' <=> IsOption(i))
      /\ IsOption(k)' <=> w \in DOMAIN options
      /\ IsArgument(k)' <=> w \notin DOMAIN options /\ exp_argtype # "No"
  BY MeaningStays, OptionsGrow, NewWord
<1>3. \A i \in 1..(k - 1) : IsArgument(i) => argv'[Owner(i)'] = argv[Owner(i)]
  <2>1. \A i : IsArgument(i) => Owner(i) # 0
    BY DEF IsArgument
  <2> QED BY <2>1, MeaningStays
<1>4. exp_argtype # "No" => argv'[Owner(k)'] = last_op
  BY NewWord
<1>5. \A op : ArgumentsOf(op)' = {i \in 1..k : IsArgument(i)' /\ argv'[Owner(i)'] = op}
  BY <1>1 DEF ArgumentsOf
<1>6. \A op : ArgumentsOf(op) = {i \in 1..(k - 1) : IsArgument(i) /\ argv[Owner(i)] = op}
  BY <1>1 DEF ArgumentsOf
<1>7. Others' = {i \in 1..k : ~IsOption(i)' /\ ~IsArgument(i)'}
  BY <1>1 DEF Others
<1>8. Others = {i \in 1..(k - 1) : ~IsOption(i) /\ ~IsArgument(i)}
  BY <1>1 DEF Others
<1>9. Others' = IF w \notin DOMAIN options /\ exp_argtype = "No" THEN Others \cup {k} ELSE Others
  <2>1. ASSUME NEW i
        PROVE  i \in Others' <=> i \in Others \/ (i = k /\ w \notin DOMAIN options /\ exp_argtype = "No")
    BY <1>1, <1>2, <1>7, <1>8
  <2> QED BY <2>1
<1>10. ASSUME NEW op
       PROVE  ArgumentsOf(op)' =
                IF w \notin DOMAIN options /\ exp_argtype # "No" /\ op = last_op
                  THEN ArgumentsOf(op) \cup {k} ELSE ArgumentsOf(op)
  <2>1. ASSUME NEW i
        PROVE  i \in ArgumentsOf(op)' <=>
                 \/ i \in ArgumentsOf(op)
                 \/ i = k /\ w \notin DOMAIN options /\ exp_argtype # "No" /\ op = last_op
    <3>1. i \in ArgumentsOf(op)' <=> i \in 1..k /\ IsArgument(i)' /\ argv'[Owner(i)'] = op
      BY <1>5
    <3>2. i \in ArgumentsOf(op) <=> i \in 1..(k - 1) /\ IsArgument(i) /\ argv[Owner(i)] = op
      BY <1>6
    <3>3. CASE i \in 1..(k - 1)
      BY <1>1, <1>2, <1>3, <3>1, <3>2, <3>3
    <3>4. CASE i = k
      BY <1>1, <1>2, <1>4, <3>1, <3>2, <3>4
    <3>5. CASE i \notin 1..k
      BY <1>1, <3>1, <3>2, <3>5
    <3> QED BY <1>1, <3>3, <3>4, <3>5
  <2> QED BY <2>1
<1> QED BY <1>1, <1>6, <1>8, <1>9, <1>10

LEMMA ArgumentsType == ASSUME NEW Ops, NEW A, NEW l \in OpLists(Ops, A), NEW op
                       PROVE  Arguments(l, op) \in Seq(A)
<1> USE DEF OpLists
<1>1. ASSUME NEW n \in DOMAIN l PROVE l[n].args \in Seq(A)
  <2> DEFINE S == Seq(A)  E == [op : Ops, args : S]
  <2>1. l \in Seq(E)
    OBVIOUS
  <2> DEFINE e == l[n]
  <2>2. e \in E
    <3> HIDE DEF E
    <3> QED BY <2>1, <1>1
  <2> HIDE DEF e, S
  <2>3. e.args \in S
    BY <2>2, FieldsOf
  <2> QED BY <2>3 DEF e, S
<1>2. CASE EntryOf(l, op) = {}
  BY <1>2 DEF Arguments
<1>3. CASE EntryOf(l, op) # {}
  <2> DEFINE n == CHOOSE n \in EntryOf(l, op) : TRUE
  <2>1. n \in DOMAIN l
    BY <1>3 DEF EntryOf
  <2> HIDE DEF n
  <2>2. l[n].args \in Seq(A)
    BY <1>1, <2>1
  <2> QED BY <1>3, <2>2 DEF Arguments, n
<1> QED BY <1>2, <1>3

LEMMA OpsReadIs == OpsRead <=>
  \A op \in DOMAIN options :
    /\ Found(acc_ops, op) <=> \E i \in DOMAIN argv : argv[i] = op
    /\ WordsOf(argv, Arguments(acc_ops, op), ArgumentsOf(op))
BY DEF OpsRead, Found, Arguments, HasOp, StrListOp, WordsAt, WordsOf

LEMMA OpsReadIsThen == OpsRead' <=>
  \A op \in DOMAIN options' :
    /\ Found(acc_ops', op) <=> \E i \in DOMAIN argv' : argv'[i] = op
    /\ WordsOf(argv', Arguments(acc_ops', op), ArgumentsOf(op)')
BY DEF OpsRead, Found, Arguments, HasOp, StrListOp, WordsAt, WordsOf

LEMMA Occurs == ASSUME NEW k, NEW w, Growing(k, w), NEW op
                PROVE  (\E i \in DOMAIN argv' : argv'[i] = op) <=>
                         (\E i \in DOMAIN argv : argv[i] = op) \/ op = w
<1>1. /\ DOMAIN argv' = 1..k /\ DOMAIN argv = 1..(k - 1) /\ argv'[k] = w
      /\ \A i \in 1..(k - 1) : argv'[i] = argv[i]
      /\ 1..k = 1..(k - 1) \cup {k}
  BY LineGrows
<1> QED BY <1>1

(* The options after a normal argument, an option and an option argument. *)
LEMMA OpsKept == ASSUME NEW k, NEW w, Growing(k, w), Current, OpsRead,
                        w \notin DOMAIN options, exp_argtype = "No", acc_ops' = acc_ops
                 PROVE  OpsRead'
<1> SUFFICES ASSUME NEW op \in DOMAIN options
             PROVE  /\ Found(acc_ops, op) <=> \E i \in DOMAIN argv' : argv'[i] = op
                    /\ WordsOf(argv', Arguments(acc_ops, op), ArgumentsOf(op)')
  BY OpsReadIsThen DEF Growing
<1>1. Found(acc_ops, op) <=> \E i \in DOMAIN argv' : argv'[i] = op
  BY OpsReadIs, Occurs
<1>2. ArgumentsOf(op)' = ArgumentsOf(op) /\ ArgumentsOf(op) \subseteq 1..Len(argv)
  BY Shares
<1>3. WordsOf(argv, Arguments(acc_ops, op), ArgumentsOf(op))
  BY OpsReadIs
<1>4. argv \in Seq(Words) /\ w \in Words /\ argv' = Append(argv, w)
  BY DEF Growing, LineOK
<1>5. WordsOf(argv', Arguments(acc_ops, op), ArgumentsOf(op))
  BY <1>2, <1>3, <1>4, WordsStay
<1> QED BY <1>1, <1>2, <1>5

LEMMA OptionRead == ASSUME NEW k, NEW w, Growing(k, w), Current, OpsRead, Single(acc_ops),
                           w \in DOMAIN options, acc_ops' = Insert(acc_ops, w, <<>>)
                    PROVE  /\ OpsRead' /\ Single(acc_ops')
                           /\ acc_ops' \in OpLists(DOMAIN options, Words)
<1>1. /\ argv \in Seq(Words) /\ w \in Words /\ argv' = Append(argv, w) /\ options' = options
      /\ acc_ops \in OpLists(DOMAIN options, Words)
  BY DEF Growing, LineOK
<1>2. /\ acc_ops' \in OpLists(DOMAIN options, Words) /\ Single(acc_ops')
      /\ Found(acc_ops', w) /\ Arguments(acc_ops', w) = Arguments(acc_ops, w) \o <<>>
      /\ \A o \in DOMAIN options \ {w} :
           (Found(acc_ops', o) <=> Found(acc_ops, o)) /\ Arguments(acc_ops', o) = Arguments(acc_ops, o)
  <2>1. <<>> \in Seq(Words)
    OBVIOUS
  <2>2. Extends(acc_ops', acc_ops, w, <<>>, DOMAIN options, Words)
    BY <1>1, <2>1, Inserted
  <2> QED BY <2>2 DEF Extends
<1>3. Arguments(acc_ops, w) \in Seq(Words)
  BY <1>1, ArgumentsType
<1>4. Arguments(acc_ops', w) = Arguments(acc_ops, w)
  <2> DEFINE s == Arguments(acc_ops, w)
  <2>1. s \in Seq(Words) /\ Arguments(acc_ops', w) = s \o <<>>
    BY <1>2, <1>3
  <2> HIDE DEF s
  <2>2. s \o <<>> = s
    BY <2>1
  <2> QED BY <2>1, <2>2 DEF s
<1>5. ASSUME NEW op \in DOMAIN options
      PROVE  /\ Found(acc_ops', op) <=> \E i \in DOMAIN argv' : argv'[i] = op
             /\ WordsOf(argv', Arguments(acc_ops', op), ArgumentsOf(op)')
  <2>1. Arguments(acc_ops', op) = Arguments(acc_ops, op)
        /\ (Found(acc_ops', op) <=> Found(acc_ops, op) \/ op = w)
    BY <1>2, <1>4
  <2>2. ArgumentsOf(op)' = ArgumentsOf(op) /\ ArgumentsOf(op) \subseteq 1..Len(argv)
    BY Shares
  <2>3. /\ WordsOf(argv, Arguments(acc_ops, op), ArgumentsOf(op))
        /\ Found(acc_ops, op) <=> \E i \in DOMAIN argv : argv[i] = op
    BY OpsReadIs
  <2>4. WordsOf(argv', Arguments(acc_ops, op), ArgumentsOf(op))
    BY <1>1, <2>2, <2>3, WordsStay
  <2> QED BY <2>1, <2>2, <2>3, <2>4, Occurs
<1> QED BY <1>1, <1>2, <1>5, OpsReadIsThen

LEMMA ArgumentRead == ASSUME NEW k, NEW w, Growing(k, w), Current, OpsRead, Single(acc_ops),
                             w \notin DOMAIN options, exp_argtype # "No",
                             acc_ops' = Insert(acc_ops, last_op, <<w>>)
                      PROVE  /\ OpsRead' /\ Single(acc_ops')
                             /\ acc_ops' \in OpLists(DOMAIN options, Words)
<1>1. /\ argv \in Seq(Words) /\ w \in Words /\ argv' = Append(argv, w) /\ options' = options
      /\ acc_ops \in OpLists(DOMAIN options, Words)
      /\ k = Len(argv) + 1
  BY DEF Growing, LineOK
<1>0. last_op \in DOMAIN options /\ \E i \in DOMAIN argv : argv[i] = last_op
  <2>1. /\ Owner(k) \in 1..(k - 1) /\ argv[Owner(k)] = last_op /\ last_op \in DOMAIN options
    BY InCharge
  <2>2. DOMAIN argv = 1..(k - 1)
    BY LineGrows
  <2> QED BY <2>1, <2>2
<1>2. /\ acc_ops' \in OpLists(DOMAIN options, Words) /\ Single(acc_ops')
      /\ Found(acc_ops', last_op) /\ Arguments(acc_ops', last_op) = Arguments(acc_ops, last_op) \o <<w>>
      /\ \A o \in DOMAIN options \ {last_op} :
           (Found(acc_ops', o) <=> Found(acc_ops, o)) /\ Arguments(acc_ops', o) = Arguments(acc_ops, o)
  <2>1. <<w>> \in Seq(Words)
    BY <1>1
  <2>2. Extends(acc_ops', acc_ops, last_op, <<w>>, DOMAIN options, Words)
    BY <1>0, <1>1, <2>1, Inserted
  <2> QED BY <2>2 DEF Extends
<1>3. Found(acc_ops, last_op)
  BY <1>0, OpsReadIs
<1>5. ASSUME NEW op \in DOMAIN options
      PROVE  /\ Found(acc_ops', op) <=> \E i \in DOMAIN argv' : argv'[i] = op
             /\ WordsOf(argv', Arguments(acc_ops', op), ArgumentsOf(op)')
  <2>1. Found(acc_ops', op) <=> Found(acc_ops, op)
    BY <1>2, <1>3
  <2>2. /\ WordsOf(argv, Arguments(acc_ops, op), ArgumentsOf(op))
        /\ Found(acc_ops, op) <=> \E i \in DOMAIN argv : argv[i] = op
        /\ op # w
    BY OpsReadIs
  <2>3. Found(acc_ops', op) <=> \E i \in DOMAIN argv' : argv'[i] = op
    BY <2>1, <2>2, Occurs
  <2>4. ArgumentsOf(op) \subseteq 1..Len(argv)
    BY Shares
  <2>5. CASE op # last_op
    <3>1. Arguments(acc_ops', op) = Arguments(acc_ops, op) /\ ArgumentsOf(op)' = ArgumentsOf(op)
      BY <1>2, <2>5, Shares
    <3>2. WordsOf(argv', Arguments(acc_ops, op), ArgumentsOf(op))
      BY <1>1, <2>2, <2>4, WordsStay
    <3> QED BY <2>3, <3>1, <3>2
  <2>6. CASE op = last_op
    <3>1. ArgumentsOf(op)' = ArgumentsOf(op) \cup {k}
      BY <2>6, Shares
    <3> DEFINE s == Arguments(acc_ops, op)  t == Arguments(acc_ops', op)
    <3>2. s \in Seq(Words) /\ t = s \o <<w>> /\ WordsOf(argv, s, ArgumentsOf(op))
      BY <1>1, <1>2, <2>2, <2>6, ArgumentsType
    <3> HIDE DEF s, t
    <3>3. /\ t \in Seq(Words) /\ Len(t) = Len(s) + 1 /\ t[Len(t)] = w
          /\ \A i \in 1..Len(s) : t[i] = s[i]
      BY <1>1, <3>2
    <3>4. WordsOf(argv', t, ArgumentsOf(op) \cup {k})
      BY <1>1, <2>4, <3>2, <3>3, WordsGrow
    <3> QED BY <2>3, <3>1, <3>4 DEF t
  <2> QED BY <2>5, <2>6
<1> QED BY <1>1, <1>2, <1>5, OpsReadIsThen

Reads(k, w) == ReadingInv /\ Growing(k, w) /\ result = "parsing"

LEMMA RefusedThen == ASSUME NEW k, NEW w, Reads(k, w), Faulty(k)' <=> result' = "error"
                     PROVE  Refused'
<1>1. /\ DOMAIN argv' = 1..k /\ DOMAIN argv = 1..(k - 1) /\ Len(argv') = k
      /\ 1..k = 1..(k - 1) \cup {k} /\ k \notin 1..(k - 1)
  BY LineGrows DEF Reads
<1>2. \A i \in 1..(k - 1) : ~Faulty(i)
  BY <1>1 DEF Reads, ReadingInv, Reading, Refused
<1>3. \A i \in 1..(k - 1) : ~Faulty(i)'
  BY <1>2, MeaningStays DEF Reads
<1> QED BY <1>1, <1>3 DEF Refused

(* A word that is not refused. *)
LEMMA GoodWord == ASSUME NEW k, NEW w, Reads(k, w), result' = "parsing", ~Faulty(k)',
                         acc_args' \in Seq(Words), acc_ops' \in OpLists(DOMAIN options, Words),
                         handlers' \in Seq(Plain), Single(acc_ops'), Current', IntegerRead',
                         WordsOf(argv', acc_args', Others'), OpsRead'
                  PROVE  ReadingInv'
<1>1. options' = options /\ argv' \in Seq(Words) /\ Words' = Words
  BY LineGrows DEF Reads, Growing
<1>2. LineOK'
  BY <1>1 DEF Reads, ReadingInv, LineOK
<1>3. OwnersBefore'
  BY OwnersStayBefore DEF Reads
<1>4. Reading'
  BY RefusedThen DEF Reading
<1>5. BlamesTheFault'
  BY DEF BlamesTheFault
<1>6. Single(acc_ops)'
  BY DEF Single
<1> QED BY <1>2, <1>3, <1>4, <1>5, <1>6 DEF ReadingInv

LEMMA IntegerStays == ASSUME NEW k, NEW w, Reads(k, w), handlers # <<>>
                      PROVE  \E n \in 1..(k - 1) : IsArgument(n)' /\ options'[argv'[Owner(n)']] = "Int"
<1>1. k - 1 = Len(argv) /\ options' = options
  BY LineGrows DEF Reads, Growing
<1>2. PICK n \in 1..(k - 1) : IsArgument(n) /\ options[argv[Owner(n)]] = "Int"
  BY <1>1 DEF Reads, ReadingInv, IntegerRead
<1>3. Owner(n) # 0
  BY <1>2 DEF IsArgument
<1>4. IsArgument(n)' /\ argv'[Owner(n)'] = argv[Owner(n)]
  BY <1>2, <1>3, MeaningStays DEF Reads
<1> QED BY <1>1, <1>2, <1>4

(* A word that is refused. *)
LEMMA BadWord == ASSUME NEW k, NEW w, Reads(k, w), Faulty(k)', NEW word, NEW about, Raise(word, about),
                        word = IF w \in DOMAIN options THEN argv'[k - 1] ELSE w,
                        UNCHANGED <<acc_ops, acc_args, handlers>>
                 PROVE  ReadingInv'
<1>1. /\ options' = options /\ argv' \in Seq(Words) /\ Words' = Words /\ Len(argv') = k
      /\ argv'[k] = w /\ k \in Nat \ {0}
  BY LineGrows DEF Reads, Growing
<1>2. result' = "error"
  BY DEF Raise
<1>3. LineOK'
  BY <1>1, <1>2 DEF Reads, ReadingInv, LineOK
<1>4. OwnersBefore'
  BY OwnersStayBefore DEF Reads
<1>5. Reading'
  BY <1>1, <1>2, RefusedThen DEF Reading
<1>6. IntegerRead'
  <2> SUFFICES ASSUME handlers # <<>>
               PROVE  \E n \in 1..k : IsArgument(n)' /\ options'[argv'[Owner(n)']] = "Int"
    BY <1>1 DEF IntegerRead
  <2>1. \A n \in 1..(k - 1) : n \in 1..k
    BY <1>1
  <2> QED BY <2>1, IntegerStays
<1>7. BlamesTheFault'
  <2>1. CASE handlers = <<>>
    <3>1. message'.word = word
      BY <2>1 DEF Raise
    <3>2. IsOption(k)' <=> w \in DOMAIN options
      BY OptionsGrow DEF Reads
    <3> QED BY <1>1, <3>1, <3>2 DEF BlamesTheFault
  <2>2. CASE handlers # <<>>
    BY <1>1, <2>2, IntegerStays DEF BlamesTheFault, TakenByInt
  <2> QED BY <2>1, <2>2
<1>8. Single(acc_ops)'
  BY DEF Reads, ReadingInv, Single
<1> QED BY <1>2, <1>3, <1>4, <1>5, <1>6, <1>7, <1>8 DEF ReadingInv

LEMMA KeepsIntegers == ASSUME NEW k, NEW w, Reads(k, w), handlers' = handlers PROVE IntegerRead'
<1>1. Len(argv') = k /\ k \in Nat \ {0}
  BY LineGrows DEF Reads
<1> SUFFICES ASSUME handlers # <<>>
             PROVE  \E n \in 1..k : IsArgument(n)' /\ options'[argv'[Owner(n)']] = "Int"
  BY <1>1 DEF IntegerRead
<1>2. \A n \in 1..(k - 1) : n \in 1..k
  BY <1>1
<1> QED BY <1>2, IntegerStays

LEMMA ReadsFacts == ASSUME NEW k, NEW w, Reads(k, w)
                    PROVE  /\ Growing(k, w) /\ Current /\ OpsRead /\ Single(acc_ops)
                           /\ WordsOf(argv, acc_args, Others)
                           /\ acc_args \in Seq(Words) /\ acc_ops \in OpLists(DOMAIN options, Words)
                           /\ handlers \in Seq(Plain) /\ argv \in Seq(Words) /\ w \in Words
                           /\ k = Len(argv) + 1 /\ argv' = Append(argv, w) /\ options' = options
BY DEF Reads, ReadingInv, Reading, LineOK, Growing

(* The other words stay what they are with an option or an argument. *)
LEMMA OthersKept == ASSUME NEW k, NEW w, Reads(k, w),
                           w \in DOMAIN options \/ exp_argtype # "No", acc_args' = acc_args
                    PROVE  WordsOf(argv', acc_args', Others') /\ acc_args' \in Seq(Words)
<1>1. Others' = Others /\ Others \subseteq 1..Len(argv)
  BY ReadsFacts, Shares
<1> QED BY <1>1, ReadsFacts, WordsStay

LEMMA KnownOptionReads == ASSUME NEW k, NEW w, Reads(k, w), KnownOption(w) PROVE ReadingInv'
<1>1. w \in DOMAIN options /\ Growing(k, w) /\ Current
  BY ReadsFacts DEF KnownOption
<1>2. w \notin Unknown
  BY <1>1, Tables DEF Growing
<1>3. exp_argtype \in ArgTypes /\ (Faulty(k)' <=> exp_argtype \in {"Str", "Int"})
  BY <1>1, <1>2, NewWord, InCharge
<1>4. CASE exp_argtype \in {"No", "StrList"}
  <2>1. /\ last_op' = w /\ exp_argtype' = options[w] /\ acc_ops' = Insert(acc_ops, w, <<>>)
        /\ result' = "parsing" /\ acc_args' = acc_args /\ handlers' = handlers
    BY <1>4 DEF KnownOption, Reads
  <2>2. ~Faulty(k)'
    BY <1>3, <1>4
  <2>3. Current'
    BY <1>1, <2>1, CurrentOption
  <2>4. OpsRead' /\ Single(acc_ops') /\ acc_ops' \in OpLists(DOMAIN options, Words)
    BY <1>1, <2>1, ReadsFacts, OptionRead
  <2>5. WordsOf(argv', acc_args', Others') /\ acc_args' \in Seq(Words)
    BY <1>1, <2>1, OthersKept
  <2>6. IntegerRead' /\ handlers' \in Seq(Plain)
    BY <2>1, KeepsIntegers, ReadsFacts
  <2> QED BY <2>1, <2>2, <2>3, <2>4, <2>5, <2>6, GoodWord
<1>5. CASE exp_argtype \notin {"No", "StrList"}
  <2>1. exp_argtype \in {"Str", "Int"}
    BY <1>3, <1>5 DEF ArgTypes
  <2>2. Raise(last_op, "needs an option argument") /\ UNCHANGED <<acc_ops, acc_args, handlers>>
    BY <1>5 DEF KnownOption
  <2>3. Owner(k) = k - 1 /\ argv[Owner(k)] = last_op /\ Owner(k) \in 1..(k - 1)
    BY <1>1, <2>1, InCharge
  <2>4. argv'[k - 1] = last_op
    BY <1>1, <2>3, LineGrows
  <2> QED BY <1>1, <1>3, <2>1, <2>2, <2>4, BadWord
<1> QED BY <1>4, <1>5

LEMMA UnknownOptionReads == ASSUME NEW k, NEW w, Reads(k, w), UnknownOption(w) PROVE ReadingInv'
<1>1. w \in Unknown /\ Growing(k, w) /\ Current
  BY ReadsFacts DEF UnknownOption
<1>2. w \notin DOMAIN options
  BY <1>1, Tables DEF Growing
<1>3. Faulty(k)'
  BY <1>1, NewWord
<1>4. Raise(w, "unknown") /\ UNCHANGED <<acc_ops, acc_args, handlers>>
  BY DEF UnknownOption
<1> QED BY <1>2, <1>3, <1>4, BadWord

LEMMA NormalArgReads == ASSUME NEW k, NEW w, Reads(k, w), NormalArg(w) PROVE ReadingInv'
<1>1. w \in Plain /\ exp_argtype = "No" /\ Growing(k, w) /\ Current
  BY ReadsFacts DEF NormalArg
<1>2. w \notin DOMAIN options /\ w \notin Unknown
  BY <1>1, Tables DEF Growing
<1>3. /\ acc_args' = Append(acc_args, w) /\ last_op' = last_op /\ exp_argtype' = "No"
      /\ acc_ops' = acc_ops /\ handlers' = handlers /\ result' = "parsing"
  BY <1>1 DEF NormalArg, Reads
<1>4. ~Faulty(k)'
  BY <1>1, <1>2, NewWord
<1>5. Current'
  BY <1>1, <1>2, <1>3, CurrentOther
<1>6. OpsRead' /\ Single(acc_ops') /\ acc_ops' \in OpLists(DOMAIN options, Words)
  BY <1>1, <1>2, <1>3, ReadsFacts, OpsKept
<1>7. WordsOf(argv', acc_args', Others') /\ acc_args' \in Seq(Words)
  <2>1. Others' = Others \cup {k} /\ Others \subseteq 1..Len(argv)
    BY <1>1, <1>2, Shares
  <2>2. acc_args \in Seq(Words) /\ w \in Words
    BY ReadsFacts
  <2> DEFINE t == acc_args'
  <2>3. t = Append(acc_args, w)
    BY <1>3
  <2> HIDE DEF t
  <2>4. /\ t \in Seq(Words) /\ Len(t) = Len(acc_args) + 1 /\ t[Len(t)] = w
        /\ \A i \in 1..Len(acc_args) : t[i] = acc_args[i]
    BY <2>2, <2>3
  <2>5. WordsOf(argv', t, Others \cup {k})
    BY <2>1, <2>2, <2>4, ReadsFacts, WordsGrow
  <2> QED BY <2>1, <2>4, <2>5 DEF t
<1>8. IntegerRead' /\ handlers' \in Seq(Plain)
  BY <1>3, KeepsIntegers, ReadsFacts
<1> QED BY <1>3, <1>4, <1>5, <1>6, <1>7, <1>8, GoodWord

LEMMA StringArgReads == ASSUME NEW k, NEW w, Reads(k, w), StringArg(w) PROVE ReadingInv'
<1>1. w \in Plain /\ exp_argtype \in {"Str", "StrList"} /\ Growing(k, w) /\ Current
  BY ReadsFacts DEF StringArg
<1>2. w \notin DOMAIN options /\ w \notin Unknown /\ exp_argtype # "No"
  BY <1>1, Tables DEF Growing
<1>3. /\ acc_ops' = Insert(acc_ops, last_op, <<w>>) /\ last_op' = last_op
      /\ exp_argtype' = IF exp_argtype = "StrList" THEN "StrList" ELSE "No"
      /\ acc_args' = acc_args /\ handlers' = handlers /\ result' = "parsing"
  BY <1>1 DEF StringArg, Reads
<1>4. ~Faulty(k)'
  BY <1>1, <1>2, NewWord
<1>5. Current'
  BY <1>1, <1>2, <1>3, CurrentOther
<1>6. OpsRead' /\ Single(acc_ops') /\ acc_ops' \in OpLists(DOMAIN options, Words)
  BY <1>1, <1>2, <1>3, ReadsFacts, ArgumentRead
<1>7. WordsOf(argv', acc_args', Others') /\ acc_args' \in Seq(Words)
  BY <1>2, <1>3, OthersKept
<1>8. IntegerRead' /\ handlers' \in Seq(Plain)
  BY <1>3, KeepsIntegers, ReadsFacts
<1> QED BY <1>3, <1>4, <1>5, <1>6, <1>7, <1>8, GoodWord

LEMMA IntArgReads == ASSUME NEW k, NEW w, Reads(k, w), IntArg(w) PROVE ReadingInv'
<1>1. w \in Plain /\ exp_argtype = "Int" /\ Growing(k, w) /\ Current
  BY ReadsFacts DEF IntArg
<1>2. w \notin DOMAIN options /\ w \notin Unknown /\ exp_argtype # "No"
  BY <1>1, Tables DEF Growing
<1>3. CASE w \in IntWords
  <2>1. /\ acc_ops' = Insert(acc_ops, last_op, <<w>>) /\ last_op' = last_op
        /\ exp_argtype' = IF exp_argtype = "StrList" THEN "StrList" ELSE "No"
        /\ acc_args' = acc_args /\ handlers' = Append(handlers, w) /\ result' = "parsing"
    BY <1>1, <1>3 DEF IntArg, Reads
  <2>2. ~Faulty(k)'
    BY <1>1, <1>2, <1>3, NewWord
  <2>3. Current'
    BY <1>1, <1>2, <2>1, CurrentOther
  <2>4. OpsRead' /\ Single(acc_ops') /\ acc_ops' \in OpLists(DOMAIN options, Words)
    BY <1>1, <1>2, <2>1, ReadsFacts, ArgumentRead
  <2>5. WordsOf(argv', acc_args', Others') /\ acc_args' \in Seq(Words)
    BY <1>2, <2>1, OthersKept
  <2>6. handlers' \in Seq(Plain)
    BY <1>1, <2>1, ReadsFacts
  <2>7. IntegerRead'
    <3>1. Len(argv') = k /\ k \in 1..k /\ options' = options
      BY LineGrows DEF Reads, Growing
    <3>2. IsArgument(k)' /\ argv'[Owner(k)'] = last_op
      BY <1>1, <1>2, NewWord
    <3>3. options[last_op] = "Int"
      BY <1>1, InCharge
    <3> QED BY <3>1, <3>2, <3>3 DEF IntegerRead
  <2> QED BY <2>1, <2>2, <2>3, <2>4, <2>5, <2>6, <2>7, GoodWord
<1>4. CASE w \notin IntWords
  <2>1. Raise(w, "not an integer") /\ UNCHANGED <<acc_ops, acc_args, handlers>>
    BY <1>4 DEF IntArg
  <2>2. Faulty(k)'
    BY <1>1, <1>2, <1>4, NewWord
  <2> QED BY <1>2, <2>1, <2>2, BadWord
<1> QED BY <1>3, <1>4

(* Nothing is read: the end of the line, and every step behind the parser. *)
LEMMA NothingRead == ASSUME ReadingInv,
                            UNCHANGED <<options, argv, last_op, exp_argtype, acc_ops, acc_args,
                                        handlers, message>>,
                            result' = result \/ (result = "parsing" /\ result' = "parsed")
                     PROVE  ReadingInv'
<1>1. /\ options' = options /\ argv' = argv /\ last_op' = last_op /\ exp_argtype' = exp_argtype
      /\ acc_ops' = acc_ops /\ acc_args' = acc_args /\ handlers' = handlers /\ message' = message
      /\ result' = "error" <=> result = "error"
      /\ result' = "parsing" => result = "parsing"
      /\ result' \in {result, "parsed"}
  OBVIOUS
<1>2. \A i : IsOption(i)' <=> IsOption(i)
  BY <1>1 DEF IsOption
<1>3. \A i : Before(i)' = Before(i)
  BY <1>2 DEF Before
<1>4. \A i : Owner(i)' = Owner(i)
  BY <1>3, OwnerIsLast, OwnerIsLastThen
<1>5. \A i : IsArgument(i)' <=> IsArgument(i)
  BY <1>1, <1>2, <1>4 DEF IsArgument
<1>6. \A i : Faulty(i)' <=> Faulty(i)
  BY <1>1, <1>2, <1>4, <1>5 DEF Faulty
<1>7. Words' = Words
  BY <1>1 DEF Words
<1>8. LineOK'
  BY <1>1, <1>7 DEF ReadingInv, LineOK
<1>9. OwnersBefore'
  BY <1>1, <1>2, <1>4 DEF ReadingInv, OwnersBefore, IsOption
<1>10. result' = "parsing" => Current'
  BY <1>1, <1>4 DEF ReadingInv, Current
<1>11. IntegerRead'
  BY <1>1, <1>4, <1>5 DEF ReadingInv, IntegerRead
<1>12. Single(acc_ops)'
  BY <1>1 DEF ReadingInv, Single
<1>13. Reading'
  <2>1. Refused'
    BY <1>1, <1>6 DEF ReadingInv, Reading, Refused
  <2>2. Others' = Others /\ \A op : ArgumentsOf(op)' = ArgumentsOf(op)
    BY <1>1, <1>2, <1>4, <1>5 DEF Others, ArgumentsOf
  <2>3. OpsRead' <=> OpsRead
    BY <1>1, <2>2, OpsReadIs, OpsReadIsThen
  <2> QED BY <1>1, <2>1, <2>2, <2>3 DEF ReadingInv, Reading
<1>14. BlamesTheFault'
  BY <1>1, <1>4, <1>5 DEF ReadingInv, BlamesTheFault, IsOption, TakenByInt
<1> QED BY <1>8, <1>9, <1>10, <1>11, <1>12, <1>13, <1>14 DEF ReadingInv

LEMMA WorkReads == ReadingInv /\ Work => ReadingInv'
<1> SUFFICES ASSUME ReadingInv, Work PROVE ReadingInv'
  OBVIOUS
<1>1. PICK w \in Words : /\ argv' = Append(argv, w)
                         /\ \/ KnownOption(w) \/ UnknownOption(w) \/ NormalArg(w)
                            \/ StringArg(w) \/ IntArg(w)
  BY DEF Work, Words
<1> DEFINE k == Len(argv) + 1
<1>2. Growing(k, w)
  BY <1>1 DEF Growing, Work, ReadingInv
<1>3. Reads(k, w)
  BY <1>2 DEF Reads, Work
<1> HIDE DEF k
<1> QED BY <1>1, <1>3, KnownOptionReads, UnknownOptionReads, NormalArgReads, StringArgReads, IntArgReads

LEMMA InitReads == Init => ReadingInv
<1> SUFFICES ASSUME Init PROVE ReadingInv
  OBVIOUS
<1>1. /\ options \in {CompileOptions, WcetOptions} /\ argv = <<>> /\ exp_argtype = "No"
      /\ acc_ops = <<>> /\ acc_args = <<>> /\ handlers = <<>> /\ result = "parsing"
  BY DEF Init, ParserInit
<1>2. Len(argv) = 0 /\ DOMAIN argv = {} /\ DOMAIN acc_ops = {} /\ Len(acc_args) = 0
  BY <1>1
<1>3. Owner(1) = 0
  BY DEF Owner
<1>4. LineOK
  BY <1>1 DEF LineOK, OpLists
<1>5. OwnersBefore
  BY <1>1, <1>2, <1>3 DEF OwnersBefore
<1>6. Current
  BY <1>1, <1>2, <1>3 DEF Current
<1>7. IntegerRead /\ Single(acc_ops) /\ BlamesTheFault
  BY <1>1, <1>2 DEF IntegerRead, Single, BlamesTheFault
<1>8. Reading
  <2>1. \A words : words = <<>> => WordsOf(argv, words, {})
    BY FS_EmptySet DEF WordsOf
  <2>2. Others = {} /\ \A op : ArgumentsOf(op) = {}
    BY <1>2 DEF Others, ArgumentsOf
  <2>3. \A op : ~Found(acc_ops, op) /\ Arguments(acc_ops, op) = <<>>
    BY <1>2 DEF Found, Arguments, EntryOf
  <2>4. OpsRead
    BY <1>2, <2>1, <2>2, <2>3, OpsReadIs
  <2>5. Refused
    BY <1>2 DEF Refused
  <2> QED BY <1>1, <2>1, <2>2, <2>4, <2>5 DEF Reading
<1> QED BY <1>4, <1>5, <1>6, <1>7, <1>8 DEF ReadingInv

LEMMA NextReads == ReadingInv /\ [Next]_vars => ReadingInv'
<1> SUFFICES ASSUME ReadingInv, [Next]_vars PROVE ReadingInv'
  OBVIOUS
<1>1. CASE Parse
  <2>1. CASE EndOfLine
    <3>1. /\ UNCHANGED <<options, argv, last_op, exp_argtype, acc_ops, acc_args, handlers, message>>
          /\ result = "parsing" /\ result' = "parsed"
      BY <2>1 DEF EndOfLine
    <3> QED BY <3>1, NothingRead
  <2> QED BY <1>1, <2>1, WorkReads DEF Parse
<1>2. CASE UNCHANGED parserVars
  <2>1. UNCHANGED <<options, argv, last_op, exp_argtype, acc_ops, acc_args, handlers, message, result>>
    BY <1>2 DEF parserVars
  <2> QED BY <2>1, NothingRead
<1>3. GetFile \/ MainWcet \/ PickCompiler \/ Ktc \/ Compiler \/ Run \/ Finish => UNCHANGED parserVars
  BY DEF GetFile, MainWcet, PickCompiler, Ktc, Compiler, Run, Finish
<1>4. Ended \/ UNCHANGED vars => UNCHANGED parserVars
  BY DEF Ended, vars
<1> QED BY <1>1, <1>2, <1>3, <1>4 DEF Next

(* Reading a command line word by word, with the option read last and what *)
(* it still expects, gives what the line says when it is read as a whole:  *)
(* for every option table and lines of any length.                         *)
THEOREM ParseIsAlwaysReading == Spec => []ParseIsReading
<1>1. ReadingInv => ParseIsReading
  <2> SUFFICES ASSUME ReadingInv PROVE ParseIsReading
    OBVIOUS
  <2>1. Refused /\ (result = "error" => argv # <<>>) /\ argv \in Seq(Words)
    BY DEF ReadingInv, Reading, LineOK
  <2>2. \A i \in DOMAIN argv : Wrong(i) => result = "error" /\ i = Len(argv)
    BY <2>1, FaultyIs DEF Refused
  <2>3. ASSUME result = "error" PROVE Wrong(Len(argv)) \/ NegativeArg(Len(argv))
    <3>1. Len(argv) \in DOMAIN argv
      BY <2>1, <2>3
    <3> QED BY <2>1, <2>3, <3>1, FaultyIs DEF Refused
  <2>4. ASSUME result # "error"
        PROVE  /\ WordsAt(acc_args, Others)
               /\ \A op \in DOMAIN options :
                    /\ HasOp(op) <=> \E i \in DOMAIN argv : argv[i] = op
                    /\ WordsAt(StrListOp(op), ArgumentsOf(op))
    BY <2>4 DEF ReadingInv, Reading, OpsRead, WordsAt, WordsOf
  <2> QED BY <2>2, <2>3, <2>4 DEF ParseIsReading
<1> QED BY InitReads, NextReads, <1>1, PTL DEF Spec

(* The message of a refused line names the word at fault, unless an        *)
(* integer argument was read before.                                       *)
THEOREM AlwaysBlamesTheFault == Spec => []BlamesTheFault
<1>1. ReadingInv => BlamesTheFault
  BY DEF ReadingInv
<1> QED BY InitReads, NextReads, <1>1, PTL DEF Spec
=============================================================================
