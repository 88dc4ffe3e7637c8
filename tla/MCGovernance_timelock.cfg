SPECIFICATION Spec
CONSTANTS
  Accounts = {"admin", "multisig"}
  Timelock = "timelock"
  Addresses = {"s1"}
  Feeds = {"feed"}
  RealtimeFeeds = {"id"}
  Precision = 100
  ParameterValues <- Values1
  InitialMembers <- Members1
  InitialSigners = {"s1"}
  InitialDelay = 1
  MAX_TIMELOCK_DELAY = 2
  Actions <- Actions1
  DirectRoles <- DirectRoles1
  MaxTime = 3
  MaxPending = 2
CONSTRAINT FewChanges
INVARIANT TypeOK
PROPERTIES
  GrantsAreAnnounced
  FeedsAreAnnounced
  AlwaysGoverned
CHECK_DEADLOCK FALSE
