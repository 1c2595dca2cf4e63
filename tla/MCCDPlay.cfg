SPECIFICATION Spec
CONSTANTS
  Discs <- MCDiscs
  Configs <- MCConfigs
  MaxItems = 1
  MaxCalls = 3
INVARIANTS FollowsDrive StaysStopped
PROPERTY PlayedOn
