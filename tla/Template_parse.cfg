SPECIFICATION Spec
CONSTANTS
    Functions <- MCFunctions
    TopName = "top"
    Signatures <- MCSignatures
    Literals <- MCLiterals
    Rank <- MCRank
    MaxDepth = 2
    Styles <- MCStyles
    Documents <- MCDocuments
INVARIANTS NeverReadsPastEnd EveryWordOnce Reprint VariablesFound LexicalScope PanicsNamed
