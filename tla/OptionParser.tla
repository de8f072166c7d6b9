---------------------------- MODULE OptionParser ----------------------------
(***************************************************************************)
(* Uargs.parse: the words of a command line are read from left to right.   *)
(* What a word means depends on the option read last: the loop "work"      *)
(* carries it as last_op, with the type of argument still expected of it.  *)
(* Options are collected in acc_ops in the order they first occur, each    *)
(* with the arguments of all its occurrences; the rest are acc_args.       *)
(*                                                                         *)
(* The words come one at a time, so that a behaviour is a command line.    *)
(* No command of e2e has an option with a list of integers; the type is    *)
(* left out.                                                               *)
(***************************************************************************)
EXTENDS Integers, Sequences, FiniteSets

CONSTANTS MaxWords,  \* bound on the length of a command line
          Unknown,   \* words that start with a dash and name no option
          Plain,     \* words that do not start with a dash
          IntWords   \* the words int_of_string accepts, with and without a sign

ASSUME WordsAssumption ==
  /\ MaxWords \in Nat
  /\ IntWords \subseteq Plain \cup Unknown
  /\ Unknown \cap Plain = {}

VARIABLES options,      \* the argument type of each option of the command
          argv,         \* history: the words read so far
          last_op,      \* the option read last
          exp_argtype,  \* what is expected of the next word
          acc_ops,      \* the options found, with their arguments
          acc_args,     \* the other words
          handlers,     \* integer arguments whose "try" is still open
          result,       \* "parsing", "parsed" or "error"
          message       \* of the error: the word it names, and what for

parserVars ==
  <<options, argv, last_op, exp_argtype, acc_ops, acc_args, handlers,
    result, message>>

ArgTypes == {"No", "Str", "Int", "StrList"}

(* The head of the option list stands for "none yet"; nothing is expected  *)
(* of it, so that any other word does as well.                             *)
DummyOp == "none"

ParserInit(table) ==
  /\ options = table
  /\ argv = <<>>
  /\ last_op = DummyOp /\ exp_argtype = "No"
  /\ acc_ops = <<>> /\ acc_args = <<>>
  /\ handlers = <<>>
  /\ result = "parsing"
  /\ message = [word |-> DummyOp, about |-> "nothing"]

-----------------------------------------------------------------------------
EntryOf(oplist, op) == {n \in DOMAIN oplist : oplist[n].op = op}

InsertAsNew(oplist, op, args) == Append(oplist, [op |-> op, args |-> args])
Insert(oplist, op, args) ==
  IF EntryOf(oplist, op) = {}
    THEN Append(oplist, [op |-> op, args |-> args])
    ELSE LET n == CHOOSE n \in EntryOf(oplist, op) : \A e \in EntryOf(oplist, op) : n <= e
         IN  [oplist EXCEPT ![n].args = @ \o args]

(* The recursion for the words behind an integer argument is inside the    *)
(* "try" that guards int_of_string, and its handler takes every exception: *)
(* an error raised later is replaced by one about the integer, and again   *)
(* by the handlers further out.                                            *)
RaiseLastOption(word, about) ==
  /\ result' = "error"
  /\ message' = [word |-> last_op, about |-> about]
Raise(word, about) ==
  /\ result' = "error"
  /\ message' = IF handlers = <<>>
                  THEN [word |-> word, about |-> about]
                  ELSE [word |-> handlers[1], about |-> "not an integer"]

KnownOption(word) ==
  /\ word \in DOMAIN options
  /\ IF exp_argtype \in {"No", "StrList"}
       THEN /\ last_op' = word
            /\ exp_argtype' = options[word]
            /\ acc_ops' = Insert(acc_ops, word, <<>>)
            /\ UNCHANGED <<result, message>>
       ELSE /\ Raise(last_op, "needs an option argument")
            /\ UNCHANGED <<last_op, exp_argtype, acc_ops>>
  /\ UNCHANGED <<acc_args, handlers>>

(* The dash is looked at before the type of argument that is expected.     *)
UnknownOption(word) ==
  /\ word \in Unknown
  /\ Raise(word, "unknown")
  /\ UNCHANGED <<last_op, exp_argtype, acc_ops, acc_args, handlers>>

NormalArg(word) ==
  /\ word \in Plain
  /\ exp_argtype = "No"
  /\ acc_args' = Append(acc_args, word)
  /\ UNCHANGED <<last_op, exp_argtype, acc_ops, handlers, result, message>>

StringArg(word) ==
  /\ word \in Plain
  /\ exp_argtype \in {"Str", "StrList"}
  /\ acc_ops' = Insert(acc_ops, last_op, <<word>>)
  /\ exp_argtype' = IF exp_argtype = "Str" THEN "No" ELSE exp_argtype
  /\ UNCHANGED <<last_op, acc_args, handlers, result, message>>

IntArg(word) ==
  /\ word \in Plain
  /\ exp_argtype = "Int"
  /\ IF word \in IntWords
       THEN /\ acc_ops' = Insert(acc_ops, last_op, <<word>>)
            /\ exp_argtype' = "No"
            /\ handlers' = Append(handlers, word)
            /\ UNCHANGED <<result, message>>
       ELSE /\ Raise(word, "not an integer")
            /\ UNCHANGED <<acc_ops, exp_argtype, handlers>>
  /\ UNCHANGED <<last_op, acc_args>>

Work ==
  /\ result = "parsing"
  /\ Len(argv) < MaxWords
  /\ \E word \in DOMAIN options \cup Unknown \cup Plain :
       /\ argv' = Append(argv, word)
       /\ \/ KnownOption(word)
          \/ UnknownOption(word)
          \/ NormalArg(word)
          \/ StringArg(word)
          \/ IntArg(word)
  /\ UNCHANGED options

EndOfLine ==
  /\ result = "parsing"
  /\ result' = "parsed"
  /\ UNCHANGED <<options, argv, last_op, exp_argtype, acc_ops, acc_args, handlers, message>>

-----------------------------------------------------------------------------
(* What the commands ask of the result. *)
HasOp(op) == EntryOf(acc_ops, op) # {}

StrListOp(op) ==
  IF HasOp(op) THEN acc_ops[CHOOSE n \in EntryOf(acc_ops, op) : TRUE].args ELSE <<>>

(* str_op and int_op take the head of the list, or raise Not_found. *)
HasArgument(op) == StrListOp(op) # <<>>

-----------------------------------------------------------------------------
(* The same command line read as a whole.                                  *)
IsOption(i) == argv[i] \in DOMAIN options

Owner(i) ==
  LET before == {p \in 1..(i - 1) : IsOption(p)}
  IN  IF before = {} THEN 0 ELSE CHOOSE p \in before : \A q \in before : q <= p

IsArgument(i) ==
  /\ ~IsOption(i) /\ Owner(i) # 0
  /\ \/ options[argv[Owner(i)]] = "StrList"
     \/ options[argv[Owner(i)]] \in {"Str", "Int"} /\ i = Owner(i) + 1

TakenByInt(i) == IsArgument(i) /\ options[argv[Owner(i)]] = "Int"

(* A word that must be refused, by what the types of argument are said to  *)
(* be (uargs.ml 6-11): the argument of an integer option is an integer,    *)
(* "both postive and negative", so that its dash alone does not make one   *)
(* wrong there.                                                            *)
Wrong(i) ==
  \/ argv[i] \in Unknown /\ ~TakenByInt(i)
  \/ IsOption(i) /\ i > 1 /\ IsOption(i - 1) /\ options[argv[i - 1]] \in {"Str", "Int"}
  \/ TakenByInt(i) /\ argv[i] \notin IntWords

(* A negative integer where an integer belongs: not Wrong, and refused.    *)
NegativeArg(i) == TakenByInt(i) /\ argv[i] \in Unknown \cap IntWords

(* The words of the line at these positions, in their order: the word at   *)
(* p is the n-th of them if n positions are not behind p.                  *)
WordsAt(words, positions) ==
  /\ Len(words) = Cardinality(positions)
  /\ \A p \in positions : words[Cardinality({q \in positions : q <= p})] = argv[p]

ArgumentsOf(op) == {i \in DOMAIN argv : IsArgument(i) /\ argv[Owner(i)] = op}
Others == {i \in DOMAIN argv : ~IsOption(i) /\ ~IsArgument(i)}

(* Reading word by word agrees with reading the line as a whole: a wrong   *)
(* word ends the line with an error, no error comes without one but for a  *)
(* negative integer, every word before belongs to the option that takes it *)
(* or is a normal argument, and options given several times are one option *)
(* with all their arguments (uargs.ml 16-81).                              *)
ParseIsReading ==
  LET good == result # "error" IN
  /\ \A i \in DOMAIN argv : Wrong(i) => ~good /\ i = Len(argv)
  /\ ~good => Wrong(Len(argv)) \/ NegativeArg(Len(argv))
  /\ good => /\ WordsAt(acc_args, Others)
             /\ \A op \in DOMAIN options :
                  /\ HasOp(op) <=> \E i \in DOMAIN argv : argv[i] = op
                  /\ WordsAt(StrListOp(op), ArgumentsOf(op))

(* What uargs.ml 9 says of an integer argument, that it "can be both       *)
(* postive and negative": only a wrong word is refused.  The code refuses  *)
(* every word with a dash before it looks at the type (uargs.ml 45).       *)
RefusesOnlyWrong == result = "error" => Wrong(Len(argv))

(* An error names the word at fault, as long as no integer argument has    *)
(* been read: after one, the handlers of IntArg blame that integer for     *)
(* whatever is wrong behind it.                                            *)
BlamesTheFault ==
  LET i == Len(argv) IN
  result = "error" =>
    \/ message.word = IF IsOption(i) THEN argv[i - 1] ELSE argv[i]
    \/ \E n \in 1..(i - 1) : TakenByInt(n)
=============================================================================
