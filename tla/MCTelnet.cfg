\* Any two messages of a server, cut anywhere, against full buffers.
SPECIFICATION FairSpec
CONSTANTS
  Kinds = {"letter", "nul", "rubout", "newline", "return", "byte255", "nop",
           "willEcho", "wontEcho", "doAuth", "dont", "ttype", "authSsl",
           "accept", "oddReply", "authOther", "otherSub"}
  MaxSent = 2
  ReadSize = 1
  WriteSize = 13
  WorkSize = 20
  Word = 64
  NameRoom = 0
  TermLength = 5
  SendSizes = {13}
  RawChoices = {TRUE, FALSE}
  EchoChoices = {TRUE}
  SslUsable = TRUE
CHECK_DEADLOCK FALSE
INVARIANTS TypeOK CounterInBuffer Decoded Answered
PROPERTIES BehindAccept AllWorkedOn
