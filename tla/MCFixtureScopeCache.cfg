CONSTANTS
  Names = {"a", "b", "c"}
  Signatures <- SmallSignatures
  Decorators <- SmallDecorators
  Extras <- SmallExtras
SPECIFICATION ParseSpec
INVARIANTS
  ScopesHaveNames
