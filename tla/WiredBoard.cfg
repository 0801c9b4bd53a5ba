SPECIFICATION Spec
CONSTANTS
  AddrSize = 96
  StackSize = 3
  EntryPc = 64
  EntrySp = 2
  Byte <- MCByte
  ByteGap = 3
  Programs <- MCPrograms
  ReadFirst <- MCReadFirst
  CtrlPort = 0
  DataPort = 1
  Script <- MCScript
  Live <- MCLive
INVARIANTS
  WiringEquivalent
  HandlerFindsByte
PROPERTIES
  ByteIsServed
