SPECIFICATION Spec
CONSTANTS
  NumKeys = 2
  ContentType = 1
  Values = {v, multipart}
  Multipart = multipart
  NoValue = NoValue
  FileNames = {f}
  Response = Response
  MaxBody = 2
  MaxContent = 3
  MaxCookies = 1
INVARIANT
  HandleOnlyWhileLive
