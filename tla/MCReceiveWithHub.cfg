\* Two concurrent receives of one blob with or without a mirror, syscall
\* faults, one crash, and one subscriber with a one-event queue that may
\* subscribe to either hub, unsubscribe, and read when it likes.
CONSTANTS
  r1 = r1  r2 = r2  b1 = b1  p1 = p1  s1 = s1  s2 = s2
  Receivers = {r1, r2}
  Blobs = {b1}
  Partitions = {p1}
  DefaultPartition = DefaultPartition
  TempNames = {t1, t2}
  MirrorLists <- MCOneMirrorLists
  Garbage = Garbage
  Partial = Partial
  NoFile = NoFile
  Size <- MCSize
  MaxCalls = 1
  MaxCrashes = 1
  Faults = TRUE
  FreshTempNames = TRUE
  DurableNames = TRUE
  Subscribers = {s1}
  QueueCap = 1
  NoHub = NoHub
SPECIFICATION HubSpec
INVARIANTS HubTypeOK StoredIntact SuccessVisible FailedCommitLeavesNoTrace NoOrphanTemp EventStored
