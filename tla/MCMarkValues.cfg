CONSTANTS
  Marks <- SomeMarks
  Requested <- SomeRequested
SPECIFICATION ValuesSpec
INVARIANTS
  ValuesTypeOK
  SilentIsTyped
  NoFalseReports
