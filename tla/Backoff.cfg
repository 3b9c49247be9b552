CONSTANTS
  Second <- MCSecond
  TenSeconds <- MCTenSeconds
  SixHours <- MCSixHours
  Never = Never
  MaxWakes = 2
  MaxFaults = 1
  MaxTroubles = 2
SPECIFICATION Spec
INVARIANTS BackoffTypeOK RetryInTime
PROPERTIES EventuallySixHours EventuallyTrue
