\* The screen says that recreating the instance resets the app state.
CONSTANTS
  Flows = {f1}
  PidFlows = {}
  Past = past
  BatchSize = 1
  WIA_KEYTAG = WIA_KEYTAG
  DPOP_KEYTAG = DPOP_KEYTAG
  NoKey = NoKey
  Ui = ui
  MaxInstances = 2
  MaxRevocations = 1
  MaxWiaKeys = 2
  NoWia = NoWia
  EaaConfigs = {mDL}
  PidConfig = pidConfig
  AuthMethods = {spid}
  DefaultMethod = spid
  IssuerSubstitutes = FALSE
  WuaSupported = TRUE
  NoCredential = NoCredential
  NoConfig = NoConfig
  NoFlow = NoFlow
  Events = {"ui", "lifecycle", "reset"}
SPECIFICATION Spec
INVARIANT AttestationOfInstance
