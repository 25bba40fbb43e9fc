CONSTANTS
  Size = 3
  Modules = {1, 2}
  MaxDecorators = 2
  MaxPass = 4
  Files <- CycleFiles
  Names = {"a", "b"}
  Resolution <- NearestFirst
  Declarations <- SmallDeclarations
SPECIFICATION CachedSpec
INVARIANTS
  CachedTypeOK
  CacheCoherent
  NoFalseReport
  
