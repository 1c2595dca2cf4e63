\* Two sockets, one kind of byte, everything that can go wrong going wrong.
SPECIFICATION Spec
CONSTANTS
  Sockets = {0, 1}
  Data = {"x"}
  Commands = {}
  ReadSize = 1
  WriteSize = 1
  WorkSize = 1
  InMax = 1
  MaxSurplus = 0
  Greeting = 1
  Echo = FALSE
  ForceSSL = TRUE
  Expires = TRUE
  WriteBlocks = TRUE
  Losses = TRUE
  RegisterMayFail = TRUE
CHECK_DEADLOCK FALSE
INVARIANTS TypeOK SetsAgree
PROPERTY EndedStaysEnded
