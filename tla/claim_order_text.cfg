SPECIFICATION Spec
CONSTANTS
  Base = 10
  Width = 2
  Job = {j1, j2}
  Stem = {vocals}
  Input = input
  Name = {"song"}
  Star = {}
  Percent = {}
  Instants = {10, 11}
  Null = null
  Silent = {j1, j2}
PROPERTIES
  ClaimsOldest
