CONSTANTS
  Byte <- MCByte
  CharLen <- MCCharLen
  Replacement = "?"
  Pieces <- MCPieces
  ThinkOpen <- MCThinkOpen
  ThinkClose <- MCThinkClose
  ToolOpen <- MCToolOpen
  ToolClose <- MCToolClose
  CallMark <- MCCallMark
  Stops <- MCStops
  MaxNew = 4

SPECIFICATION Spec

INVARIANTS
  SplitsAsWhole
  StopsExactly
  NeverHalf
  StreamAddsUp

CHECK_DEADLOCK FALSE
