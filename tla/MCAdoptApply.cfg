CONSTANTS
    MirroredFiles = {"mirror"}
    MirroredPairs = {"pair"}
    TemplatePairs = {"docs/architecture.md"}
    SlotTemplates = {"pushing"}
    Shared = {"prek.toml"}
    RfcAnchors <- MCRfcAnchors
    Guidance <- MCGuidance
    Preexisting = {"prek.toml", "docs/architecture.md"}
    Contended = {"mirror", "pair", "pushing", "prek.toml"}
    MaxEdits = 1
    MaxRuns = 2
SPECIFICATION Spec
CHECK_DEADLOCK FALSE
INVARIANTS
    TypeOK
    OneAdoptionRfc
    UnfinishedRunIsRetriable
    VerifiedSlotsAnswerTheGuidance
PROPERTIES
    WritesPreserveWork
    DestroyedBytesAreCommitted
    RecordsOnlyPlannedBytes
