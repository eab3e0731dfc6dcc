CONSTANT Kinds <- MCSigned
SPECIFICATION Spec
INVARIANT DivisionNeverTraps
