SPECIFICATION Spec
CONSTANTS
    Shape <- MCShape
    Spell <- MCSpell
    Scenarios <- MCScenarios
    MaxBigint = 536870912
    MaxUnsigned = 1073741824
    MaxDepth = 3
    MaxNodes = 6
INVARIANTS
    RowsExact
    CompileTotal
    CompiledIsPlannable
    PlannedIsAdmitted
    AdmittedScansFinish
    WithinDeclared
