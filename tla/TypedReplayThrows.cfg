\* Violation: a command accepted before the clock passes removedAt ends recovery.
CONSTANTS
  alice = alice  bob = bob  m1 = m1
  Account <- MCAccount
  MessageId <- MCMessageId
  MessagesLimit = 5
  Commands <- MCCommands
  Skew = 1
  MaxEvents = 3
  MaxNow = 3
SPECIFICATION Spec
INVARIANT ReplayedAfterReboot
CHECK_DEADLOCK FALSE
