CONSTANTS
  None = None
  Changed = Changed
  Exts = {"vector"}
  Deps <- NoDeps
  Trees <- AllTrees
  Commits = {"p1", "v1", "v2"}
  Patches = {"patch0", "patch1", "patch2"}
  SoundPatches = {"patch1", "patch2"}
  Exports <- Exported
  Imports <- Imported
  Targets = {"linux"}
  FirstTree <- First
  CiRuns <- Runs
  MaxCommands = 3
  MaxEvents = 2
SPECIFICATION Spec
CHECK_DEADLOCK FALSE
INVARIANTS
  BuiltFromThePins
  ArtifactsOfTheModules
  PackagedTogether
  DownloadedForThisTree
  ReleaseStarts
PROPERTY LabelledAsCompiled
