SPECIFICATION Spec
CONSTANT Inputs <- MCInputs
INVARIANTS ItemsTile
PROPERTY LexerEnds
