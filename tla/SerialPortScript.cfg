SPECIFICATION Spec
CONSTANTS
  Byte <- MCByte
  ByteGap = 2
  Script <- MCScript
  Users <- MCUsers
  Output <- MCOutput
  TxCap = 1
  Chunk = 2
  MaxVisits = 2
INVARIANTS
  ScriptPositionExact
