SPECIFICATION Spec
CONSTANTS
    NrProcs = 3
    NrHoles = 8
    Chunks <- MCChunks
    Sizes = {1, 3}
    SwapSizes = {0, 4}
    MaxClick = 20
    ModesMix = FALSE
INVARIANTS TypeOK HolesMerged NothingLostOrShared SlotsConserved RunsInMemory QueueRight WorstFitRight
PROPERTIES ImplementsMemory CallsEnd
