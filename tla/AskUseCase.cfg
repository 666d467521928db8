\* Two overlapping calls and a later one, each retried once.
CONSTANTS
  alice = alice  bob = bob  m1 = m1
  Account <- MCAccount
  MessageId <- MCMessageId
  MessagesLimit = 1
  Commands <- MCCommands
  MaxRetries = 1
  MaxCalls = 3
SPECIFICATION FairSpec
INVARIANTS
  TypeOK
  StoredOncePerCall
  ToldTheTruth
  SuccessIsSeen
PROPERTIES
  EveryCallEnds
  NearerItsEnd
\* Nobody has to call.
CHECK_DEADLOCK FALSE
