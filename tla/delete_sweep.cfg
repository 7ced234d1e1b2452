SPECIFICATION Spec
CONSTANTS
  Base = 10
  Width = 2
  Job = {j1}
  Stem = {vocals}
  Input = input
  Name = {"song"}
  Star = {}
  Percent = {}
  Instants = {11}
  Null = null
  Silent = {}
INVARIANTS
  DeletedMeansGone
