SPECIFICATION Spec
CONSTANTS
  cli = cli
  srv = srv
  sup = sup
  idle = idle
  gate = gate
  table = table
  null = null
  NPrio = 2
  NKeys = 5
  NMsgKeys = 2
  Context <- MCContext
  Gate <- MCGate
  Interrupt = {}
  NullObject = null
  ObjectTable = table
  Descriptor <- MCDescriptor
  Program <- MCProgram
  KeyCopies <- MCKeyCopies
  MaxCalls = 4
  Selectors = {"write_register", "read_key_register", "write_key_register", "make_runnable", "set_priority", "invalidate"}
  Mintable = {}
  Revocable <- MCRevocable
  ClientBrands = {}
  MaxGen = 1
  InitKeys <- MCKeys
  InitPriority <- MCPriority
  InitRunnable <- MCRunnable
  InitTarget <- NoTarget
  InitEnabled <- NoIrq
INVARIANTS TypeOK QueueInv ReplyKeysAwaited NoPanic HeadRuns
PROPERTIES WaitEndsReplyKey InvalidationRevokes
CHECK_DEADLOCK FALSE
