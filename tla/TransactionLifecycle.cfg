SPECIFICATION Spec
CONSTANT MaxVersion = 9
INVARIANTS
    TypeOK
    EntityIsValid
    TerminalIffStuck
    ReconciliationKeepsCourse
    MoneyMovesInOrder
    VersionIsPosition
