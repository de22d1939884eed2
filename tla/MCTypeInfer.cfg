SPECIFICATION Spec
CONSTANTS
    Programs <- MCPrograms
    VarKind <- MCVarKind
    VarType <- MCVarType
    VarGenerics <- MCVarGenerics
    Defs <- MCDefs
    FirstFresh = 13
    MaxPass = 18
    Length = 3
INVARIANTS InfersTheSolution SolvableEnds GenericsStayInside OverloadsExact
