\* Every syscall may fail, and the process may crash once at any step.
CONSTANTS
  Identities = {i1, i2}
  NoId = NoId
  Faults = TRUE
  MaxCrashes = 1
  ConfigFlags = {"", "explicit"}
  ListenFlags = {FALSE, TRUE}
  BadConfigs = TRUE
SPECIFICATION Spec
INVARIANT ServingIdentityValid
