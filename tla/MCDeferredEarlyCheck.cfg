CONSTANTS
  Size = 3
  Modules = {1}
  MaxDecorators = 2
  MaxPass = 5
  Files <- ManyMarkFiles
SPECIFICATION Spec
INVARIANTS
  ChecksFollowFixtures
