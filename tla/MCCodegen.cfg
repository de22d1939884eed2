SPECIFICATION CodegenSpec
CONSTANTS
    Programs <- AllPrograms
    Requested <- InstanceFor
    Meaning <- MeaningFor
    Outcome <- OutcomeFor
    MaxDepth = 4
    Functions <- MCFunctions
    MaxCalls = 9
INVARIANTS EverythingGenerated OneFunctionPerMeaning EndsUnlessExpansive NamesApart
INVARIANTS VerifierAccepts RunsAsWritten
