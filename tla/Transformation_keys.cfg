SPECIFICATION Spec
CONSTANTS
    Documents <- MCDocuments
    Tables <- MCTables
    Named <- MCNamed
    Underscored <- MCUnderscored
INVARIANTS
    EveryKeyStored SourceUntouched NestedAgrees
