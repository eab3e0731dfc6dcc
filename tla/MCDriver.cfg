CONSTANTS
  Programs <- MCPrograms
  DEPTH = 8
  Modules <- MCModules
  ContainsItself <- IsTypeRecursive
  CasesEnd <- ConstructorsEnd
  LayoutEnd <- LayoutEnds
SPECIFICATION SpecFrontEnd
INVARIANTS
  EveryMistakeIsTold
  QuestionsEnd
  AnswersAreTrue
  MistakesStayLocal
  BindsByStrength
