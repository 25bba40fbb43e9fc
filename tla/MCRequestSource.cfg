CONSTANTS
  Names = {"a", "b", "c"}
  Scopes = {"function"}
  TestName = "test"
  Inputs <- GraphInputs
SPECIFICATION GraphSpec
INVARIANTS
  AttributedToRequester
