CONSTANT Compilations <- MCCompilations
SPECIFICATION Spec
INVARIANTS
  BodyStaysNumbered
  CacheCoherent
  StaysWellFormed
  MeaningPreserved
  PanicsOnlyOnRecursion
PROPERTY PassesTerminate
