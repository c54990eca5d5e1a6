\* The same worlds: an opaque input read back from .catalyst.bin.
CONSTANTS
  a = a  h = h  o = o  p = p  bang_a = bang_a  bang_o = bang_o
  v = v  w = w  x = x  gcc = gcc  flag = flag
  Space = Space  Newline = Newline  Return = Return
  Backslash = Backslash  Colon = Colon  NoPipe = NoPipe
  Empty = Empty
  Parts <- MCParts
  Limit = 1
  Path <- MCPath
  Bang = {bang_a, bang_o}
  Stripped <- MCStripped
  Assignment <- MCAssignment
  Number <- MCNumber
  TextOrder <- MCTextOrder
  Amount <- MCAmount
  Worlds <- MCWorlds
  Later <- MCLater
SPECIFICATION Spec
INVARIANTS
  OpaqueNotPassed
CHECK_DEADLOCK FALSE
