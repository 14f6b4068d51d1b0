\* Two PID flows that share the keychain and the flow parameters.
CONSTANTS
  Flows = {f1, f2}
  PidFlows = {f1, f2}
  Past = past
  BatchSize = 1
  WIA_KEYTAG = WIA_KEYTAG
  DPOP_KEYTAG = DPOP_KEYTAG
  NoKey = NoKey
  Ui = ui
  MaxInstances = 1
  MaxRevocations = 1
  MaxWiaKeys = 2
  NoWia = NoWia
  EaaConfigs = {mDL}
  PidConfig = pidConfig
  AuthMethods = {spid, cieL2}
  DefaultMethod = spid
  IssuerSubstitutes = FALSE
  WuaSupported = TRUE
  NoCredential = NoCredential
  NoConfig = NoConfig
  NoFlow = NoFlow
  Events = {"expiry", "restart"}
SYMMETRY FlowSymmetry
SPECIFICATION InterferenceSpec
INVARIANT UndisturbedUnobstructed
PROPERTY AttestationUsableWhenRead
PROPERTY AttestationKeyKept
