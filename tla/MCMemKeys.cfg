SPECIFICATION Spec
CONSTANTS
  m = m
  dev = dev
  s1 = s1
  s2 = s2
  s3 = s3
  c1 = c1
  c2 = c2
  null = null
  Entry <- MCEntry
  NullObject = null
  Context <- MCContext
  NRegions = 1
  AddrBits = 4
  AddrSpace = 16
  GenSpace = 4
  MinMappable = 2
  MinSubregions = 8
  BodySize <- MCBodySize
  AP = {"write_write", "write_read", "none_none", "undefined"}
  Subregion = {0}
  Ops = {"inspect", "change", "poke", "mint_key", "invalidate", "read_region", "write_region", "split", "make_child", "become"}
  SendOnly = {"write_region", "split"}
  Arriving <- MCArriving
  Bases = {0, 4}
  Sizes = {4}
  Positions = {2, 4}
  Mintable <- MCMintable
  Revocable = {m}
  RolloverOk = {FALSE}
  MaxCalls = 5
  InitObject <- MCObject
  InitHeld <- MCHeldOne
  InitRegions <- MCRegions
INVARIANTS MpuFresh
PROPERTIES RevocationKills
CHECK_DEADLOCK FALSE
