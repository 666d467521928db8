\* Violation: LeaveMemberIds leaves the leavers in the thread.
CONSTANTS
  alice = alice  bob = bob  carol = carol
  m1 = m1  m2 = m2  m3 = m3
  Account <- MCAccount
  MessageId <- MCMessageId
  MessagesLimit = 2
  Clients <- MCClients
  MaxRequests = 2
  MaxFaults = 0
SPECIFICATION Spec
INVARIANT LeaversAreNoMembers
CHECK_DEADLOCK FALSE
