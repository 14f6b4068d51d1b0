\* An EAA batch while the PID is replaced, and everything that can hit them.
CONSTANTS
  Flows = {f1, f2}
  PidFlows = {f2}
  Past = past
  BatchSize = 2
  WIA_KEYTAG = WIA_KEYTAG
  DPOP_KEYTAG = DPOP_KEYTAG
  NoKey = NoKey
  Ui = ui
  MaxInstances = 1
  MaxRevocations = 1
  MaxWiaKeys = 2
  NoWia = NoWia
  EaaConfigs = {mDL, degree}
  PidConfig = pidConfig
  AuthMethods = {spid}
  DefaultMethod = spid
  IssuerSubstitutes = TRUE
  WuaSupported = TRUE
  NoCredential = NoCredential
  NoConfig = NoConfig
  NoFlow = NoFlow
  Events = {"ui", "expiry", "reset", "restart"}
SPECIFICATION Spec
INVARIANT TypeOK
INVARIANT StoredCredentialUsable
INVARIANT CredentialKeysDistinct
PROPERTY PromiseKept
