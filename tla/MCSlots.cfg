SPECIFICATION Spec
CONSTANTS
  NReg = 16
  MaxLevel = 12
  AddrSpace = 65536
  MemoryMap <- MCMemoryMap
  AppRam = 5
  Application <- MCSmall
  CtxLevel = 8
  NRegions = 6
  GateLevel = 4
  IrqLevel = 5
  DriverImage <- MCDriver
  ClientImage <- MCClient
  Apb = 6
  AnyImage <- MCAnyImage
  AnyLevel <- MCAnyLevel
  AnyVar = {"a", "b"}
  Request <- MCRequest
INVARIANT ServesExtraSlots
CHECK_DEADLOCK FALSE
