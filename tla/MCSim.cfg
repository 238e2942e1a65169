SPECIFICATION Spec
CONSTANTS
  Name = {"reply@a", "reply@b", "reply@c"}
  KeyIndex <- MCKeyIndex
  NKeysSent = 4
INVARIANTS RepliesKept CharactersKept TxWakes
CHECK_DEADLOCK FALSE
