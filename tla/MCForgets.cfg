CONSTANTS
  InferVars = {1, 2}
  IntVars = {3}
  Types <- MCTypes
SPECIFICATION Spec
PROPERTY InferredStays
