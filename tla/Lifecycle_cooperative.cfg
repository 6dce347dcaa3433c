SPECIFICATION CooperativeSpec
CONSTANTS
    c1 = c1
    c2 = c2
    None = None
    Cancellers = {c1, c2}
    Faults = {"storage", "stage", "enqueue", "api", "kill", "abort"}
PROPERTIES
    KeepsPromise
