\* A page that is reloaded twice, with memories of one event and one stream.
SPECIFICATION Spec
CONSTANTS
  MaxPending = 2
  MaxRemembered = 1
  MaxRetired = 1
  MaxPages = 3
  MaxEvents = 2
  MaxKeys = 1
  MaxTaken = 3
  None = none
INVARIANT TypeOK
INVARIANT DuplicatesRefused
INVARIANT StaleStreamsRefused
INVARIANT PasteReachesItsPage
CHECK_DEADLOCK FALSE
