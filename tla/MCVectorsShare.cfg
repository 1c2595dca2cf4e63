\* What fairness achieves for two connections that share one callback, with all the
\* time needed.
SPECIFICATION FairSpec
CONSTANTS
  Sockets = {0, 1}
  Data = {"x"}
  Commands = {"ask"}
  ReadSize = 1
  WriteSize = 2
  WorkSize = 1
  InMax = 1
  MaxSurplus = 0
  Greeting = 0
  Echo = FALSE
  ForceSSL = FALSE
  Expires = FALSE
  WriteBlocks = FALSE
  Losses = FALSE
  RegisterMayFail = FALSE
PROPERTIES WorkProceeds OutgoingSent
