SPECIFICATION FairSpec
CONSTANTS
    Folder = {f1}
    Client = {c1, c2}
    Instance = {i1, i2}
    MaxTickets = 3
INVARIANTS TypeOK JobsHaveFolder ActiveBound ClaimIsLive RunWasStarted
PROPERTIES StopCompletes UnfinishedPickedUp
