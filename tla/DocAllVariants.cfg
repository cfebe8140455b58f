SPECIFICATION Spec
CONSTANTS
    Videos = {0, 1}
    HasAudio = FALSE
    Texts = {}
    RawTexts = {}
    OutputCount = 1
    SegmentCount = 2
    AudioSegmentCount = 1
    MaxFailures = 1
INVARIANTS
    AllVariantsAwaited
