CONSTANTS
  Size = 4
  Modules = {1, 2}
  MaxDecorators = 2
  MaxPass = 4
  Files <- AllFiles
SPECIFICATION FairSpec
INVARIANTS
  TypeOK
  NoEarlyCheck
  ExcludedNeverChecked
  NothingForgotten
  AtMostThreePasses
PROPERTIES
  NotDeferredOnceBegun
  Terminates
  NoTestStarves
