\* Safety and liveness of the updater with two threads in the tag.
CONSTANTS
  alice = alice  bob = bob  carol = carol
  m1 = m1  m2 = m2  t1 = t1  t2 = t2
  Account <- MCAccount
  MessageId <- MCMessageId
  MessagesLimit = 2
  Threads <- MCThreads
  Commands <- MCFewerCommands
  SqlBatchSize = 2
  MaxRestarts = 1
  MaxEvents = 4
  MaxFaults = 2
SPECIFICATION FairSpec
INVARIANTS
  TypeOK
  NothingSkipped
  ExactlyOnceAlone
  ShowsTheAggregate
  SeenByInvited
  ReadersAgree
PROPERTIES
  ImplementsProjection
  EventuallyApplied
CONSTRAINT BeginsWithT1
\* Nobody has to write, and an updater may have given up.
CHECK_DEADLOCK FALSE
