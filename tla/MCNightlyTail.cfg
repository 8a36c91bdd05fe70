\* A set a bridge declares and a set TCGCSV's groups give away.
CONSTANTS
    Sets = {s1, s2}
    Bridged = {s1}
    Discoverable = {s2}
    None = None
    MaxDay = 2
    MaxRuns = 2
    MaxDerives = 2
    MaxCrashes = 0
SPECIFICATION Spec
CHECK_DEADLOCK FALSE
PROPERTIES
    TailSupersedes
