\* Safety: a CreateThread and any three requests after it, and one fault.
CONSTANTS
  alice = alice  bob = bob  carol = carol
  m1 = m1  m2 = m2  m3 = m3
  Account <- MCAccount
  MessageId <- MCMessageId
  MessagesLimit = 2
  Clients <- MCClients
  MaxRequests = 4
  MaxFaults = 1
SPECIFICATION Spec
CONSTRAINT CreatedFirst
INVARIANTS
  TypeOK
  AcknowledgedIsDurable
  ChildReflectsJournal
  RequestsAccountedFor
  StoredInArrivalOrder
  AdministratorsNeverEmpty
  MessagesWithinLimit
  NobodyWaitsInVain
PROPERTY ImplementsEventSourcedThread
\* Every request may have been sent and the aggregate stopped.
CHECK_DEADLOCK FALSE
