CONSTANTS
  Name = "n"
  TestModules <- SomeTestModules
  Sources <- SomeSources
  Targets <- SomeTargets
SPECIFICATION NamesSpec
INVARIANTS
  NearestFirst
  NoneOverlooked
  AutouseFound
  UnmarkedIsDefined
  PatchedExists
