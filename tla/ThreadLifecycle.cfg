\* The lifecycle of two threads with the updater wired either way.
CONSTANTS
  t1 = t1  t2 = t2
  Threads <- MCThreads
  MinInt <- MCMinInt
  NumPartition = 3
  Hashes <- MCHashes
  Wirings = {"direct", "sharded"}
  MaxRequests = 2
  MaxStops = 2
SPECIFICATION FairSpec
INVARIANTS
  TypeOK
  NothingBehindStop
  NoneUnaccounted
  ToldInStep
  TagsAgree
  TakenInOrder
  NobodyHeldBack
PROPERTIES
  EventuallyHandled
  AliveThreadsAreRead
\* Nobody has to ask.
CHECK_DEADLOCK FALSE
