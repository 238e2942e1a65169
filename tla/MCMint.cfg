SPECIFICATION Spec
CONSTANTS
  sup = sup
  cli = cli
  gate = gate
  irq = irq
  table = table
  null = null
  NPrio = 1
  NKeys = 4
  NMsgKeys = 2
  Context <- MCContext
  Gate <- MCGate
  Interrupt <- MCInterrupt
  NullObject = null
  ObjectTable = table
  Descriptor <- MCDescriptor
  Program <- MCProgram
  KeyCopies <- MCKeyCopies
  MaxCalls = 3
  Selectors = {"mint_key", "invalidate", "enable", "set_target"}
  Mintable <- MCMintable
  Revocable <- MCRevocable
  ClientBrands = {}
  MaxGen = 1
  InitKeys <- MCKeys
  InitPriority <- MCPriority
  InitRunnable <- MCRunnable
  InitTarget <- MCTarget
  InitEnabled <- MCEnabled
INVARIANTS QueueInv
PROPERTIES WaitEndsReplyKey InvalidationRevokes
CHECK_DEADLOCK FALSE
