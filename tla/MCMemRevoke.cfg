SPECIFICATION Spec
CONSTANTS
  m = m
  dev = dev
  s1 = s1
  s2 = s2
  s3 = s3
  c1 = c1
  c2 = c2
  null = null
  Entry <- MCEntry
  NullObject = null
  Context <- MCContext
  NRegions = 1
  AddrBits = 4
  AddrSpace = 16
  GenSpace = 8
  MinMappable = 2
  MinSubregions = 8
  BodySize <- MCBodySize
  AP = {"write_write", "write_read", "read_read", "none_none"}
  Subregion = {0}
  Ops = {"invalidate"}
  SendOnly = {"invalidate"}
  Arriving = {}
  Bases = {}
  Sizes = {}
  Positions = {}
  Mintable = {}
  Revocable = {m}
  RolloverOk = {FALSE}
  MaxCalls = 5
  InitObject <- MCObject
  InitHeld <- MCHeld
  InitRegions <- MCRegions
INVARIANTS MpuFresh
CHECK_DEADLOCK FALSE
