SPECIFICATION FairSpec
CONSTANTS
  cli = cli
  srv = srv
  sup = sup
  idle = idle
  gate = gate
  table = table
  null = null
  NPrio = 2
  NKeys = 5
  NMsgKeys = 2
  Context <- MCContext
  Gate <- MCGate
  Interrupt = {}
  NullObject = null
  ObjectTable = table
  Descriptor <- MCDescriptor
  Program <- MCSendOnly
  KeyCopies <- MCKeyCopies
  MaxCalls = 4
  Selectors = {"set_priority"}
  Mintable = {}
  Revocable <- MCRevocable
  ClientBrands = {}
  MaxGen = 1
  InitKeys <- MCKeys
  InitPriority <- MCEqual
  InitRunnable <- MCEqualRunnable
  InitTarget <- NoTarget
  InitEnabled <- NoIrq
INVARIANT HeadRuns
CHECK_DEADLOCK FALSE
