SPECIFICATION FairSpec
CONSTANTS
    Name = {1, 2, 3}
    Prelude = 2
    MaxImports = 2
    Kinds = {"missing", "malformed", "parsed"}
    Inputs <- TwoInputs
    Path <- MCPath
    ModuleName <- MCModuleName
    ModulePath <- MCModulePath
    Disks <- MCDisks
    CommandLines <- MCCommandLines
INVARIANTS LoadedIsClosure EmittedOnce CompiledAfterImports
PROPERTY EndsOnceCyclesAreBroken
