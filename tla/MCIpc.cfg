SPECIFICATION FairSpec
CONSTANTS
  c1 = c1
  c2 = c2
  drv = drv
  idle = idle
  gate = gate
  irq = irq
  table = table
  null = null
  NPrio = 3
  NKeys = 5
  NMsgKeys = 2
  Context <- MCContext
  Gate <- MCGate
  Interrupt <- MCInterrupt
  NullObject = null
  ObjectTable = table
  Descriptor <- MCDescriptor
  Program <- MCProgram
  KeyCopies <- MCKeyCopies
  MaxCalls = 2
  Selectors = {"enable", "set_target", "make_client_key"}
  Mintable = {}
  Revocable = {}
  ClientBrands = {1}
  MaxGen = 0
  InitKeys <- MCKeys
  InitPriority <- MCPriority
  InitRunnable <- MCRunnable
  InitTarget <- MCTarget
  InitEnabled <- MCEnabled
INVARIANTS QueueInv NoMissedRendezvous ReplyKeysAwaited Kr0Null NoPanic HeadRuns
PROPERTIES WaitEndsReplyKey KernelReturns
CHECK_DEADLOCK FALSE
