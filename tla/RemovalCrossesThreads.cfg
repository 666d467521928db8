\* Violation: a message is marked deleted through another thread.
CONSTANTS
  alice = alice  bob = bob  carol = carol
  m1 = m1  m2 = m2  t1 = t1  t2 = t2
  Account <- MCAccount
  MessageId <- MCMessageId
  MessagesLimit = 2
  Threads <- MCThreads
  Commands <- MCCommands
  SqlBatchSize = 1
  MaxRestarts = 1
  MaxEvents = 4
  MaxFaults = 0
SPECIFICATION Spec
INVARIANT RemovedBySenderOnly
CHECK_DEADLOCK FALSE
