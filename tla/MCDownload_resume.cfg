SPECIFICATION Spec
CONSTANTS
    Contents <- SmallFiles
    Original <- FirstFile
    Stream = {"s1", "s2"}
    Slots = 1
    MaxAttempts = 3
    Window = 1
    MaxEdits = 2
    MaxTroubles = 2
INVARIANTS
    DownloadsSafe
PROPERTIES
    DownloadsEnd
