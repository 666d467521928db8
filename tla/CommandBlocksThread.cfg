\* Violation: a command the child has no case for blocks the thread.
CONSTANTS
  alice = alice  bob = bob  carol = carol
  m1 = m1  m2 = m2  m3 = m3
  Account <- MCAccount
  MessageId <- MCMessageId
  MessagesLimit = 2
  Clients <- MCFewClients
  MaxRequests = 3
  MaxFaults = 0
SPECIFICATION FairSpec
PROPERTY EveryAskAnswered
CHECK_DEADLOCK FALSE
