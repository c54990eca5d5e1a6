\* Every manifest of up to three lines out of eleven, every command line of up
\* to three words out of nineteen, every short depfile and estimates file.
CONSTANTS
  a = a  h = h  o = o  p = p  bang_a = bang_a  bang_o = bang_o
  v = v  w = w  x = x  gcc = gcc  flag = flag
  Space = Space  Newline = Newline  Return = Return
  Backslash = Backslash  Colon = Colon  NoPipe = NoPipe
  Empty = Empty
  Parts <- MCParts
  Limit = 1
  Path <- MCPath
  Bang = {bang_a, bang_o}
  Stripped <- MCStripped
  Assignment <- MCAssignment
  Number <- MCNumber
  TextOrder <- MCTextOrder
  Amount <- MCAmount
  Worlds <- MCWorlds
  Later <- MCLater
SPECIFICATION Spec
INVARIANTS
  TypeOK
  OneProducer
  EdgesExact
  EdgesLeadToSteps
  ErrorJustified
  FirstDefinitionWins
  SnapshotFaithful
  DepfileAsWritten
  ArgvUnderstood
  EstimateAsListed
  CommandsAsDocumented
\* A manifest or a command line that cannot be parsed ends the process.
CHECK_DEADLOCK FALSE
