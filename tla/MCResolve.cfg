CONSTANT Programs <- MCPrograms
SPECIFICATION Spec
INVARIANTS
  NoPanic
  NamesMeanWhatTheySay
  MistakesAreToldExactly
  VarsAreApart
  CapturesAreSeen
  GenericsAgree
