SPECIFICATION FairSpec
CONSTANTS
    Folder = {f1}
    Client = {c1}
    Instance = {i1}
    MaxTickets = 2
PROPERTY EveryJobStarted
