SPECIFICATION FairSpec
CONSTANTS
    MaxFd = 1
    MaxAddr = 0
    File = {"input", "other", "fifo"}
    FileSize = 2
    MaxLen = 1
    PAGE_SZ = 2
    GrowsDown = FALSE
    LABELS = 16
    mmap_type = 1
    Replacing = FALSE
    Sharing = FALSE
    Calls <- Hooks
    Fails <- Failing
INVARIANTS NoFalseOffsets
PROPERTIES DeliveredIsTagged
