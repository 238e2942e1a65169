SPECIFICATION MessagesSpec
CONSTANTS
  c1 = c1
  c2 = c2
  srv = srv
  collector = collector
  idle = idle
  requests = requests
  answers = answers
  table = table
  null = null
  NPrio = 2
  NKeys = 3
  NMsgKeys = 2
  Context <- MCContext
  Gate <- MCGate
  Interrupt = {}
  NullObject = null
  ObjectTable = table
  Descriptor <- MCDescriptor
  Program <- MCProgram
  KeyCopies <- MCKeyCopies
  MaxCalls = 2
  Selectors = {}
  Mintable = {}
  Revocable = {}
  ClientBrands = {}
  MaxGen = 0
  InitKeys <- MCKeys
  InitPriority <- MCPriority
  InitRunnable <- MCRunnable
  InitTarget <- NoTarget
  InitEnabled <- NoIrq
INVARIANTS BrandOfKeyUsed
CHECK_DEADLOCK FALSE
