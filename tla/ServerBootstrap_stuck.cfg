\* One crash, no faults: does start-up recover by restarting?
CONSTANTS
  Identities = {i1, i2}
  NoId = NoId
  Faults = FALSE
  MaxCrashes = 1
  ConfigFlags = {""}
  ListenFlags = {FALSE}
  BadConfigs = FALSE
SPECIFICATION Spec
PROPERTY StartupServes
