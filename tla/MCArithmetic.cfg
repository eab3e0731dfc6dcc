CONSTANT Kinds <- MCKinds
SPECIFICATION Spec
INVARIANT ExactOrPanics
