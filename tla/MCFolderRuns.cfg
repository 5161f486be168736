SPECIFICATION FolderFairSpec
CONSTANTS
    Folder = {f1}
    Client = {c1}
    Instance = {i1, i2}
    MaxTickets = 1
    File = {1, 2}
    MaxAttempts = 2
INVARIANTS RunTypeOK RowsHaveFolder OneRunPerFolder FinishedIsPublished
PROPERTIES RunEnds DeleteAnswered
