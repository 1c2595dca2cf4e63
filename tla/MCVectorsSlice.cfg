\* The time slice of the handler runs out in the middle of the work.
SPECIFICATION Spec
CONSTANTS
  Sockets = {0, 1}
  Data = {"x"}
  Commands = {}
  ReadSize = 1
  WriteSize = 1
  WorkSize = 1
  InMax = 1
  MaxSurplus = 0
  Greeting = 0
  Echo = FALSE
  ForceSSL = FALSE
  Expires = TRUE
  WriteBlocks = FALSE
  Losses = FALSE
  RegisterMayFail = FALSE
INVARIANT UnfinishedWorkIsScheduled
