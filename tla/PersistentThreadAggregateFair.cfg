\* Liveness: any four requests, a thread or not, and one fault.
CONSTANTS
  alice = alice  bob = bob  carol = carol
  m1 = m1  m2 = m2  m3 = m3
  Account <- MCAccount
  MessageId <- MCMessageId
  MessagesLimit = 2
  Clients <- MCFewClients
  MaxRequests = 4
  MaxFaults = 1
SPECIFICATION FairSpec
PROPERTY EventuallyDecided
CHECK_DEADLOCK FALSE
