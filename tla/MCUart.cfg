SPECIFICATION FairSpec
CONSTANTS
  a1 = a1
  a2 = a2
  c1 = c1
  None = None
  Client <- MCClient
  Ascii <- MCAscii
INVARIANTS CharactersKept WakeupNotLost RepliesToCaller
PROPERTIES Answered
