\* Restarts and SIGHUPs from any state an earlier run leaves, without faults or crashes.
CONSTANTS
  Identities = {i1, i2}
  NoId = NoId
  Faults = FALSE
  MaxCrashes = 0
  ConfigFlags = {""}
  ListenFlags = {FALSE, TRUE}
  BadConfigs = FALSE
SPECIFICATION Spec
INVARIANT SetTLSPairValid
