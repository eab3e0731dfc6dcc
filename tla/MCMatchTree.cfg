CONSTANTS
  Types <- MCTypes
  PatternsOf <- MCPatternsOf
  ValuesOf <- MCValuesOf
  MaxArms = 3
SPECIFICATION Spec
INVARIANTS
  EveryGapIsTold
  OnlyGapsAreTold
  AlwaysAnArm
  NoJunkIsTested
  InOrderUnlessSkipped
