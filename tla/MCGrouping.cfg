CONSTANT Modules <- MCModules
SPECIFICATION SpecParser
INVARIANT ReverseSwapsOpposites
