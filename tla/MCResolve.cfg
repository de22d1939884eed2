SPECIFICATION Spec
CONSTANTS
    Names = {a, b}
    Variables = {f, g, v}
    Functions = {f, g}
    TyDefs = {d}
    Generics = {t}
    None = None
    MaxDepth = 2
    MaxStack = 3
    MaxDecls = 2
SYMMETRY NameSymmetry
INVARIANTS NameMapOK TargetsExact
PROPERTY ImplementsLexicalScope
CHECK_DEADLOCK FALSE
