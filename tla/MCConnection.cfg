\* Everything may break; all combinations of flags.
SPECIFICATION FairSpec
CONSTANTS
  Losses = TRUE
  MaxHandles = 2
INVARIANTS TypeOK SslAsAsked NegotiationTrue EventsSeen
PROPERTIES HasLife SetupEnds
CHECK_DEADLOCK FALSE
