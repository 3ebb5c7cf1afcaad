CONSTANTS
    MirroredFiles = {"mirror"}
    MirroredPairs = {"pair"}
    TemplatePairs = {"docs/architecture.md"}
    SlotTemplates = {"pushing"}
    Shared = {"prek.toml"}
    RfcAnchors <- MCRfcAnchors
    Guidance <- MCGuidance
    Preexisting = {"pushing"}
    Contended = {}
    MaxEdits = 0
    MaxRuns = 2
SPECIFICATION Spec
CHECK_DEADLOCK FALSE
PROPERTY NeverOverwritesConsumerFiles
