SPECIFICATION AllSpec
CONSTANTS
  NumKeys = 2
  ContentType = 1
  Values = {v, multipart}
  Multipart = multipart
  NoValue = NoValue
  FileNames = {f}
  Response = Response
  MaxBody = 2
  MaxContent = 3
  MaxCookies = 2
  Threads = {a, b, c}
  Null = Null
  Empty = Empty
  Cells = {Null, x}
  Columns = 2
  MaxRows = 2
  MaxLost = 2
  SIZE_MAX = 99
CHECK_DEADLOCK FALSE
INVARIANTS
  HeadersOfThisCall
  OnlyCookiesHeld
  BodyReceived
  InitBeforeUse
  ConnectionsReleased
  ResultIsRows
