\* ioutil.TempFile may return a suffix it returned before: the deferred
\* by-name Remove of one call can then delete another call's temp file.
CONSTANTS
  r1 = r1  r2 = r2  r3 = r3  b1 = b1  p1 = p1  p2 = p2
  Receivers = {r1, r2, r3}
  Blobs = {b1}
  Partitions = {p1, p2}
  DefaultPartition = DefaultPartition
  TempNames = {t1, t2}
  MirrorLists <- MCMirrorLists
  Garbage = Garbage
  Partial = Partial
  NoFile = NoFile
  Size <- MCSize
  MaxCalls = 1
  MaxCrashes = 0
  Faults = TRUE
  FreshTempNames = FALSE
  DurableNames = TRUE
SPECIFICATION Spec
INVARIANTS StoredIntact
SYMMETRY ReceiverSymmetry
