\* Three requests, each of which may apply a configuration, and two signals.
SPECIFICATION Spec
CONSTANTS
  Configs <- MCConfigs
  Default <- DefaultMMAConfig
  MaxBootstrapAttempts = 5
  MaxRequests = 3
  MaxSignals = 2
INVARIANTS RequestsFinish ConfigIsApplied ExitIsExplained
PROPERTY EndsWhenTold
