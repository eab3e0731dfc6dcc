CONSTANTS
  ByteCases = 2
  Programs <- MCPrograms
  Constants <- MCConstants
SPECIFICATION Spec
INVARIANTS
  ReadsBack
  WithinTheSlot
  NoPanic
