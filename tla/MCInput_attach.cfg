SPECIFICATION FairSpec
CONSTANTS
    Attachment = {"a1", "a2"}
    Pipelined = {"a1"}
    MaxOps = 2
    MaxCuts = 1
    Window = 1
    Parts = 2
    PipeSize = 1
INVARIANTS
    OneWriter
    InputInOrder
PROPERTIES
    AttachmentsEnd
CHECK_DEADLOCK FALSE
