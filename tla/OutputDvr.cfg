SPECIFICATION ReaderSpec
CONSTANTS
    SourceLength = 4
    Durations = {3, 7}
    Window = 6
    PartCount = 2
    TrickPlay = TRUE
    DefaultTarget = 3
    TicksPerMs = 2
    MaxFailures = 1
    OutputUrl <- MCOutputUrl
    OutputVariants <- MCOutputVariants
    OutputDrm <- MCOutputDrm
    Playlists <- MCPlaylists
    Mpds <- MCMpds
    Masters <- MCMasters
    Ready <- MCReady
INVARIANTS
    WindowIsLongestRun
    ManifestsAgree
    ItemsFollowWindow
    ReadIsWindow
    MarksPlaced
    VideoSetRead
    RangesTile
    ReferencesResolve
    TracksResolve
    CombinedListsTracks
