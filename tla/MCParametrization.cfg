CONSTANTS
  Names = {"a", "b", "c"}
  Scopes = {"function", "module", "session", "unknown"}
  TestName = "test"
  Inputs <- AllInputs
  Marks <- SmallMarks
SPECIFICATION CheckSpec
INVARIANTS
  CheckTypeOK
  ResolvedIsClosed
  OnlyNeeded
  NoKeyError
  ResolvedAcyclic
  CompleteGraph
  NoFalseMissing
  NoReportMeansOutlives
  UnknownIsUnneeded
  RepeatedIsReported
  SilentIsSupplied
PROPERTIES
  ImplementsClosure
  CheckEnds
