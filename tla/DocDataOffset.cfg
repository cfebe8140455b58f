SPECIFICATION Spec
CONSTANTS
    BlockSize = 2
    CryptBlocks = 1
    SkipBlocks = 1
    ContentKid = "c"
    Systems <- MCSystems
    PsshForms = {"filled", "absent"}
    DataForms = {"filled"}
    Sources <- DocTsSources
    Requests <- MCRequests
    MaxJobs = 1
INVARIANT DataOffsetsLead
