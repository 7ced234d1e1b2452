SPECIFICATION Spec
CONSTANTS
  Base = 10
  Width = 2
  Job = {j1, j2}
  Stem = {vocals}
  Input = input
  Name = {"song"}
  Star = {}
  Percent = {40}
  Instants = {11, 12}
  Null = null
  Silent = {j2}
INVARIANTS
  IInv
  WorkerOwnsRunning
  RowsConsistent
  NoLostWakeup
PROPERTIES
  ClaimsOldest
