CONSTANTS
  Newer = newer
  Older = older
  Runtimes <- MCRuntimes
  Options <- MCOptions
  NoRun = norun
  MaxEdits = 2
  MaxTasks = 2
  MaxRuns = 3
SPECIFICATION PipelineSpec
INVARIANTS PipelineTypeOK UploadsRight StagedFresh InstallerRight
CHECK_DEADLOCK FALSE
