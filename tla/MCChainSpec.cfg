CONSTANTS
    MaxWords = 2
SPECIFICATION Spec
INVARIANTS
    SelectsReference
    LoaderMatchesRuntime
CHECK_DEADLOCK FALSE
