SPECIFICATION DownloadFairSpec
CONSTANTS
  Base = 10
  Width = 2
  Job = {j1}
  Stem = {vocals, drums}
  Input = input
  Name = {"song", "renamed"}
  Star = {TRUE, FALSE}
  Percent = {0, 40, 100}
  Instants = {11}
  Null = null
  Silent = {}
INVARIANTS
  RowHasInput
  DoneIsComplete
  ServesWholeStems
PROPERTIES
  NothingComesBack
  PatchKept
  ImplementsLifecycle
  EveryJobSettles
  QueuedIsClaimed
