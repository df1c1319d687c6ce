\* Texts of up to three bytes: every length of the tail.
SPECIFICATION AllSpec
CONSTANTS
  Space = "_"
  Chars = {"_", "a"}
  MaxStr = 1
  MaxArg = 1
  MaxCount = 99
  Slash = "/"
  Backslash = "|"
  Dot = "."
  Letters = {"a"}
  MaxName = 1
  Bytes = {0, 65, 255}
  MaxText = 3
  Pad = 64
  Width = 65536
  Hours = {0}
  Minutes = {5}
  MaxTokens = 1
INVARIANT
  DecodesOwnCode
