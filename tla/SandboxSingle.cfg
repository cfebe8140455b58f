SPECIFICATION FairSpec
CONSTANTS
    Videos = {0}
    HasAudio = TRUE
    Texts = {0, 1}
    RawTexts = {1}
    OutputCount = 2
    SegmentCount = 1
    AudioSegmentCount = 1
    MaxFailures = 2
INVARIANTS
    FinalManifestsPlayable
PROPERTIES
    JobEnds
