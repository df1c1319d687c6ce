SPECIFICATION AllSpec
CONSTANTS
  Root = 0
  Names = {1, 2}
  MaxDepth = 3
  MaxOther = 1
  Objects = {s1, s2}
  Handles = {1, 2}
  None = None
  Size = 3
  Addresses = {7, 9}
  PointerSize = 8
  MaxStarts = 3
  Callbacks = {f, g}
  FunctionAddresses = {1, 2, 3}
  MaxBinds = 4
  Places = {d, e}
  NoText = NoText
  MaxBootCalls = 4
  MaxDeviceCalls = 2
  Space = "_"
  Chars = {"_", "a", "b"}
  MaxStr = 4
  MaxArg = 2
  MaxCount = 99
  Slash = "/"
  Backslash = "|"
  Dot = "."
  Letters = {"a"}
  MaxName = 6
  Bytes = {0, 32, 37, 43, 65, 126, 128, 255}
  MaxText = 4
  Pad = 64
  Width = 65536
  Hours = {0, 23}
  Minutes = {5, 10}
  MaxTokens = 3
CHECK_DEADLOCK FALSE
INVARIANTS
  ResultTruthful
  HandlesOwned
  WriteCounted
  InvokedOnce
  EnabledRegistered
  DevicesReleased
  TextAgrees
  NamesAgree
  CodecsAgree
  TimesAgree
PROPERTIES
  OnlyBelowDeleted
  CallsReturn
