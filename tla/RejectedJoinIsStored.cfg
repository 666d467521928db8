\* Violation: the event of a rejected JoinAdministratorIds is stored.
CONSTANTS
  alice = alice  bob = bob  carol = carol
  m1 = m1  m2 = m2  m3 = m3
  Account <- MCAccount
  MessageId <- MCMessageId
  MessagesLimit = 2
  Clients <- MCClients
  MaxRequests = 2
  MaxFaults = 0
SPECIFICATION Spec
INVARIANT PersistsOnlyOnSuccess
CHECK_DEADLOCK FALSE
