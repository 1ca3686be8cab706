\* One thread and a network that delivers at any moment, or never.
SPECIFICATION FairSpec
CONSTANTS
  d1 = d1
  d2 = d2
  Timeouts <- MCTimeouts
  MaxTimeout = 2
  Datagrams <- MCDatagrams
  Backlog = 2
  MaxArrivals = 4
INVARIANTS
  TypeOK
  NothingLost
  PollFindsWaiting
PROPERTIES
  MailboxSpec
  TimedReceiveReturns
