\* One render of every kind under every fault.
SPECIFICATION Spec
CONSTANTS
    Paths = {"worker", "sync", "template"}
    Faults <- AllFaults
INVARIANTS
    NamedIsPublished
    MetadataIsWhole
    SucceededIsComplete
    RenderingIsReplayable
    EndsTerminal
