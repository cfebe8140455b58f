SPECIFICATION Spec
CONSTANTS
    BlockSize = 2
    CryptBlocks = 1
    SkipBlocks = 1
    ContentKid = "c"
    Systems <- MCSystems
    PsshForms = {"filled", "absent"}
    DataForms = {"filled"}
    Sources <- MCSources
    Requests <- MCRequests
    MaxJobs = 3
INVARIANTS
    SamplesRecoverable
    ProtectedOnce
    CountersDistinct
    ManifestMatchesInit
    PsshFromServer
    PartsTileSegment
    AdBreaksOnce
    NoKeyForCause
