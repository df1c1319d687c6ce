SPECIFICATION AllSpec
CONSTANTS
  Writers = {w}
  Readers = {r}
  Names = {a, b}
  Values = {x, y}
  None = None
  Empty = Empty
  MaxCalls = 2
  EntryNames = {Root, Plain, Dotted}
  DotNames = {Dotted}
  TreePaths <- SmallTree
  MaxDepth = 3
  Root = Root
  Plain = Plain
  Dotted = Dotted
  LogCallers = {c1}
  MaxDay = 4
  MaxLogCalls = 5
  Programs = {p, q}
  Sections = {s, t}
  Keys = {k}
  Default = Default
  MaxIniCalls = 5
  Watched = {1, 2, 3}
  WatchedKinds = {"file", "odd", "dir"}
  MatchesDot = FALSE
  Fields = {f, g}
  Given = {"0", "object"}
  Scalar = Scalar
  Torn = Torn
  MaxJsonCalls = 4
CHECK_DEADLOCK FALSE
INVARIANTS
  FilesKept
  DirectoriesExact
  OnlyTodayLeft
  OnlyOverlapsLost
  ReportedOnce
  OwnDocument
PROPERTIES
  EventuallyTracked
