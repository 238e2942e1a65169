SPECIFICATION Spec
CONSTANTS
  m = m
  dev = dev
  s1 = s1
  s2 = s2
  s3 = s3
  c1 = c1
  c2 = c2
  null = null
  Entry <- MCEntry
  NullObject = null
  Context <- MCContext
  NRegions = 1
  AddrBits = 4
  AddrSpace = 16
  GenSpace = 8
  MinMappable = 2
  MinSubregions = 8
  BodySize <- MCBodySize
  AP = {"write_write", "write_read", "none_none"}
  Subregion = {0}
  Ops = {"change", "split", "make_child", "become"}
  SendOnly = {}
  Arriving <- MCInterruptBrand
  Bases = {0, 4, 8, 12}
  Sizes = {4, 15}
  Positions = {2, 4}
  Mintable = {}
  Revocable = {}
  RolloverOk = {}
  MaxCalls = 4
  InitObject <- MCObject
  InitHeld <- MCHeld
  InitRegions <- MCRegions
INVARIANTS TypeOK TreeAgrees DeviceSticky
PROPERTIES NoAmplification OnlySplitChildrenOverlap
SYMMETRY MCSymmetry
CHECK_DEADLOCK FALSE
