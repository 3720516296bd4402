SPECIFICATION DecoderSpec
CONSTANTS
    Letter = {a, b}
    MaxStop = 3
    MaxStops = 2
    MaxText = 5
    MaxChunk = 2
    StopSets <- MCStopSets
INVARIANTS
    NeverCrosses
    NothingLeaks
    ChunksDoNotMatter
CHECK_DEADLOCK FALSE
