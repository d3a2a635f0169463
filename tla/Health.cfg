SPECIFICATION FairSpec
CONSTANTS
  Entries <- MCEntries
  Configs <- MCConfigs
  Conditions <- MCConditions
  Threshold = 2
  FailureCap = 2
  Overlap = 2
INVARIANTS
  TypeOK
  VerdictFromFailures
  GaugeShowsVerdict
PROPERTIES
  RecoveryNeedsSuccess
  VerdictSettles
  PageRecovers
