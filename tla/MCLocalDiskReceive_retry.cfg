\* Receives of one blob with its own bytes and one mirror partition on a
\* file system that never fails: a second receive meets an existing link.
CONSTANTS
  r1 = r1  r2 = r2  r3 = r3  b1 = b1  p1 = p1  p2 = p2
  Receivers = {r1, r2}
  Blobs = {b1}
  Partitions = {p1}
  DefaultPartition = DefaultPartition
  TempNames = {t1, t2}
  MirrorLists <- MCRetryMirrorLists
  Garbage = Garbage
  Partial = Partial
  NoFile = NoFile
  Size <- MCSize
  MaxCalls = 1
  MaxCrashes = 0
  Faults = FALSE
  FreshTempNames = TRUE
  DurableNames = TRUE
SPECIFICATION Spec
INVARIANTS ValidReceiveSucceeds
