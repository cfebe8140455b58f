SPECIFICATION Spec
CONSTANTS
    Videos = {0}
    HasAudio = FALSE
    Texts = {}
    RawTexts = {}
    OutputCount = 1
    SegmentCount = 1
    AudioSegmentCount = 1
    MaxFailures = 0
PROPERTIES
    StatusIsFinal
