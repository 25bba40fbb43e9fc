CONSTANTS
  Letters = {"t", "x"}
  Lines = 5
  Files <- SomeFiles
  Configs <- SomeConfigs
  Modules <- SomeModules
  FileConfigs <- SomeFileConfigs
SPECIFICATION SelectSpec
INVARIANTS
  PatternsHonoured
