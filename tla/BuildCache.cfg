SPECIFICATION Spec
CONSTANTS
  Files = {1, 2, 3, 4}
  SourcesOf <- ProjectSources
  Invocations <- ProjectAndTest
  Flags = {"debug", "release"}
  Outputs = {"prog"}
  NoOutput = "none"
  MaxBuilds = 3
  MaxMishaps = 1
  Imports <- MCImports
  Compiles <- MCCompiles
  ObjectOf <- MCObjectOf
  SignatureOf <- MCSignatureOf
INVARIANTS FreshObjects ManifestIsSnapshot WarmFilesHit
  OnlyInterfacesInvalidate ReportedIsCurrent
CHECK_DEADLOCK FALSE
