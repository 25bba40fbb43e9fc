CONSTANTS
  Letters = {"t", "x"}
  Lines = 5
  Files <- SomeFiles
  Configs <- SomeConfigs
  Modules <- SomeModules
  FileConfigs <- SomeFileConfigs
  CallsIn <- SomeCalls
SPECIFICATION HooksSpec
INVARIANTS
  CallsOfTests
  TestFilesLinked
  ReadIsBound
  IterablesNoticed
