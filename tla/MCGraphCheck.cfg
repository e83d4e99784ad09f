SPECIFICATION MCSpec
CONSTANTS
    Sources <- MCSources
    Malformed = {9}
    Returned <- MCReturned
    Cases <- MCCases
    Caller <- MCCaller
    Batches <- MCBatches
    Given <- MCGiven
    Steps = 2
INVARIANTS
    SoundGraphs
    SoundCalls
CHECK_DEADLOCK FALSE
