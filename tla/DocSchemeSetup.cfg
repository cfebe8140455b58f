SPECIFICATION Spec
CONSTANTS
    c1 = c1
    c2 = c2
    c3 = c3
    srcA = srcA
    srcB = srcB
    Clients <- TwoClients
    Kinds = {"manifest"}
    Formats = {"hls"}
    Schemes = {"cenc", "cbcs"}
    DefaultScheme = "cenc"
    AllowedFormats = {"hls"}
    AllowedSchemes = {"cenc", "cbcs"}
    Sources <- OneSource
    EncryptedSources = {srcA}
    PermittedSources = {srcA}
    PatternSource = NoSource
    NoSource = NoSource
    NoSegment = NoSegment
    Segments = {0}
    SourceLength = 1
    MaxRequests = 2
    MaxFaults = 0
    MaxCrashes = 0
SYMMETRY Symmetry
INVARIANTS
    SetupCoversScheme
