CONSTANTS
  Programs <- MCConstructorPrograms
  Bases = {"int", "param", "unknown"}
  MAIN = "main"
SPECIFICATION Spec
INVARIANT ExpectedABody
