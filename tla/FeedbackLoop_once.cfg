SPECIFICATION FeedbackSpec
CONSTANTS
    Operators = {u1}
    MaxTraces = 3
    TraceRing = 2
    BufferCap = 3
    EpisodeLen = 2
    MaxThreads = 1
INVARIANT ProcessedExactlyOnce
