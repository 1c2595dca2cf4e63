\* One connection that echoes, two kinds of byte and commands over a full pipe,
\* the acceptance of SSL among them; events fall into registrations and SSL calls, and
\* the connection may break.
SPECIFICATION Spec
CONSTANTS
  Sockets = {0}
  Data = {"x", "y"}
  Commands = {"lead", "accept"}
  ReadSize = 1
  WriteSize = 1
  WorkSize = 2
  InMax = 1
  MaxSurplus = 1
  Greeting = 1
  Echo = TRUE
  ForceSSL = TRUE
  Expires = TRUE
  WriteBlocks = FALSE
  Losses = TRUE
  RegisterMayFail = FALSE
CHECK_DEADLOCK FALSE
INVARIANTS NoForgottenReason AbortsNeedLoss
PROPERTIES CallbackFlag IsPipe QuietWhileSecuring
