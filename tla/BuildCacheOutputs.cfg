SPECIFICATION Spec
CONSTANTS
  Files = {1, 2, 3, 4}
  SourcesOf <- ProjectSources
  Invocations <- ProjectAndTest
  Flags = {"debug", "release"}
  Outputs = {"progA", "progB"}
  NoOutput = "none"
  MaxBuilds = 3
  MaxMishaps = 0
  Imports <- MCImports
  Compiles <- MCCompiles
  ObjectOf <- MCObjectOf
  SignatureOf <- MCSignatureOf
INVARIANTS ReportedIsCurrent
CHECK_DEADLOCK FALSE
