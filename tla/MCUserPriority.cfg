SPECIFICATION PrioritySpec
CONSTANTS
  MaxPriorityAdjustment = 7
  Profiles <- SomeProfiles
  SettingsInUse <- SomeSettings
INVARIANTS TotalIsClampedSum
PROPERTIES GainNeverCosts
