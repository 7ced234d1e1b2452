SPECIFICATION ConsoleFairSpec
CONSTANTS
  Base = 10
  Width = 1
  Job = {1, 2}
  Stem = {vocals}
  Name <- Names
  Star = {TRUE}
  Percent = {}
  Instants = {1, 2}
  Null = null
  Char <- Characters
  Query <- NoQueries
  Sort = {"newest"}
  PageSize = 1
  Initial <- Two
  MaxMoves = 2
INVARIANTS
  ConsoleTypeOK
  EditSendsOnce
  SearchIsLiteral
PROPERTIES
  PollCorrects
