SPECIFICATION Spec
CONSTANTS
    c1 = c1
    c2 = c2
    None = None
    Cancellers = {c1, c2}
    Faults = {"storage", "redis", "enqueue", "stage", "timeout", "db", "api", "kill", "abort"}
SYMMETRY Symmetry
INVARIANTS
    NotifiedIsTerminal
    CancelHonoured
    CancelledNeverRuns
    FinishedIsAnnounced
