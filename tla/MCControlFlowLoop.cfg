SPECIFICATION BodySpec
CONSTANTS
    Functions <- MCFunctions
    MaxCalls = 9
INVARIANT ModuleVerifies
