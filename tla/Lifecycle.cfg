\* The wallet instance is created, revoked and recreated under two flows,
\* whose buttons become usable again.
CONSTANTS
  Flows = {f1, f2}
  PidFlows = {}
  Past = past
  BatchSize = 1
  WIA_KEYTAG = WIA_KEYTAG
  DPOP_KEYTAG = DPOP_KEYTAG
  NoKey = NoKey
  Ui = ui
  MaxInstances = 2
  MaxRevocations = 2
  MaxWiaKeys = 2
  NoWia = NoWia
  EaaConfigs = {mDL}
  PidConfig = pidConfig
  AuthMethods = {spid}
  DefaultMethod = spid
  IssuerSubstitutes = FALSE
  WuaSupported = FALSE
  NoCredential = NoCredential
  NoConfig = NoConfig
  NoFlow = NoFlow
  Events = {"lifecycle", "reset"}
SPECIFICATION FairSpec
INVARIANT InstanceRegistered
PROPERTY LoadingEnds
