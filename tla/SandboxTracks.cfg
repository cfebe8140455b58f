SPECIFICATION Spec
CONSTANTS
    Videos = {0, 1, 2}
    HasAudio = TRUE
    Texts = {}
    RawTexts = {}
    OutputCount = 2
    SegmentCount = 1
    AudioSegmentCount = 2
    MaxFailures = 2
INVARIANTS
    PlaylistsBacked
    ReadyMeansManifests
    FirstOutputPlayable
    DeferralEnds
    FinalManifestsPlayable
PROPERTIES
    OnlyRewrittenAudioDrops
