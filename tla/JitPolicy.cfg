SPECIFICATION FairSpec
CONSTANTS
    c1 = c1
    c2 = c2
    c3 = c3
    srcA = srcA
    srcB = srcB
    Clients <- TwoClients
    Kinds = {"manifest", "variantManifest", "init", "segment", "key", "iframes", "variantFile"}
    Formats = {"hls", "dash"}
    Schemes = {"cenc", "cbcs"}
    DefaultScheme = "cenc"
    AllowedFormats = {"hls", "dash"}
    AllowedSchemes = {"cbcs"}
    Sources <- BothSources
    EncryptedSources = {srcA}
    PermittedSources = {srcA}
    PatternSource = srcA
    NoSource = NoSource
    NoSegment = NoSegment
    Segments = {0}
    SourceLength = 1
    MaxRequests = 2
    MaxFaults = 1
    MaxCrashes = 0
INVARIANTS
    PolicyFailsClosed
    KeysTransient
PROPERTIES
    RequestsSettle
