SPECIFICATION Spec
CONSTANTS
    Folder = {f1}
    Client = {c1, c2}
    Instance = {i1}
    MaxTickets = 2
SYMMETRY Interchangeable
INVARIANT AtMostOneActive
