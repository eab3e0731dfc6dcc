CONSTANTS
  Programs <- MCPrograms
  Bases = {"int", "param", "unknown"}
  MAIN = "main"
SPECIFICATION Spec
INVARIANTS
  TypeOK
  NothingLost
  OncePerInstance
  OnlyWhatMainReaches
  EverythingDefined
  CompilesWithoutPanic
PROPERTIES
  CompilationEnds
  MeetsThePromise
