SPECIFICATION Spec
CONSTANTS
    Tracks = {"video", "audio"}
    Sizes = {162, 169}
    Durations = {1, 3}
    ParamSetSize = 30
    Timescale = 2
    Clock = 3
    TimeModulus = 4
    LastDuration = 2
    MaxSamples = 2
    MaxTables = 2
    MaxMalformed = 1
INVARIANTS
    PesReassembled
    SamplesKept
    DecodeTimesKept
