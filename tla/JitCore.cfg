SPECIFICATION Spec
SYMMETRY Symmetry
CONSTANTS
    Clients <- TwoClients
    Kinds = {"manifest", "segment"}
    Formats = {"hls"}
    Schemes = {"cbcs", "none"}
    DefaultScheme = "cbcs"
    AllowedFormats = {"hls"}
    AllowedSchemes = {"cbcs", "none"}
    Sources <- BothSources
    EncryptedSources = {srcA}
    PermittedSources <- BothSources
    PatternSource = NoSource
    NoSource = NoSource
    NoSegment = NoSegment
    Segments = {0}
    SourceLength = 1
    MaxRequests = 3
    MaxFaults = 1
    MaxCrashes = 1
    c1 = c1
    c2 = c2
    c3 = c3
    srcA = srcA
    srcB = srcB
INVARIANTS
    TypeOK
    MutualExclusion
    ManifestServable
    LocksReleased
    SegmentMatchesInit
    NoDuplicateFetch
PROPERTIES
    SetupWrittenOnce
    ImplementsContentStore
