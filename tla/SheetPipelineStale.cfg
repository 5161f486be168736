CONSTANTS
    a = a
    b = b
    c1 = c1
    Name <- TwoNames
    EdsmId = {e1, e2}
    Cmdr <- OneCmdr
    Survey <- Surveys
    Unparsable = Unparsable
    Absent = Absent
    MaxFiles = 2
    MaxTabs = 2
    MaxFaults = 1
SPECIFICATION Spec
SYMMETRY Interchangeable
CHECK_DEADLOCK FALSE
INVARIANT SystemsAreRows
