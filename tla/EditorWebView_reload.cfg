\* A page that is loaded and reloaded twice under three actions of the user,
\* with a queue of two.
SPECIFICATION FairSpec
CONSTANTS
  MaxPending = 2
  MaxPages = 3
  MaxAsks = 3
  Documents = {sample, large}
  Sample = sample
  None = none
INVARIANT TypeOK
INVARIANT QuietPageHasDocument
PROPERTY MessagesInOrder
PROPERTY DocumentComesBack
CHECK_DEADLOCK FALSE
