CONSTANTS
  MaxWords = 5
  Unknown = {"-7", "-x"}
  Plain = {"prog.c", "7"}
  IntWords = {"7", "-7"}
  CompileOptions <- MCCompileOptions
  WcetOptions <- MCWcetOptions
SPECIFICATION Spec
INVARIANTS
  TypeOK
  ParseIsReading
  BlamesTheFault
  RunsItsOwn
  BuildsWhenAllowed
