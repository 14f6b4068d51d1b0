\* README.md says the key of a crypto context never changes.
CONSTANTS
  Flows = {f1}
  PidFlows = {}
  Past = past
  BatchSize = 1
  WIA_KEYTAG = WIA_KEYTAG
  DPOP_KEYTAG = DPOP_KEYTAG
  NoKey = NoKey
  Ui = ui
  MaxInstances = 1
  MaxRevocations = 1
  MaxWiaKeys = 2
  NoWia = NoWia
  EaaConfigs = {mDL}
  PidConfig = pidConfig
  AuthMethods = {spid}
  DefaultMethod = spid
  IssuerSubstitutes = FALSE
  WuaSupported = TRUE
  NoCredential = NoCredential
  NoConfig = NoConfig
  NoFlow = NoFlow
  Events = {"ui"}
SPECIFICATION Spec
INVARIANT ContextKeyStable
