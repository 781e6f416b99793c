\* One crash, no faults: is SetTLS given a complete matching pair?
CONSTANTS
  Identities = {i1, i2}
  NoId = NoId
  Faults = FALSE
  MaxCrashes = 1
  ConfigFlags = {""}
  ListenFlags = {FALSE}
  BadConfigs = FALSE
SPECIFICATION Spec
INVARIANT SetTLSPairValid
