\* A line end that comes when the read buffer is full.
SPECIFICATION Spec
CONSTANTS
  Kinds = {"letter", "newline"}
  MaxSent = 2
  ReadSize = 1
  WriteSize = 13
  WorkSize = 8
  Word = 64
  NameRoom = 0
  TermLength = 5
  SendSizes = {13}
  RawChoices = {FALSE}
  EchoChoices = {FALSE}
  SslUsable = TRUE
CHECK_DEADLOCK FALSE
INVARIANT LineEndsKept
