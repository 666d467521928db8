\* The updater as the programs wire it.
CONSTANTS
  t1 = t1  t2 = t2
  Threads <- MCThreads
  MinInt <- MCMinInt
  NumPartition = 3
  Hashes <- MCHashes
  Wirings = {"sharded"}
  MaxRequests = 1
  MaxStops = 0
SPECIFICATION FairSpec
PROPERTY UpdaterStartsWithAggregate
\* Nobody has to ask.
CHECK_DEADLOCK FALSE
