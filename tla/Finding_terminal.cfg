SPECIFICATION Spec
CONSTANTS
    c1 = c1
    c2 = c2
    None = None
    Cancellers = {c1}
    Faults = {}
PROPERTIES
    TerminalIsFinal
