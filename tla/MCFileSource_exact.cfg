SPECIFICATION Spec
CONSTANTS
    MaxFd = 1
    MaxAddr = 1
    File = {"input", "other", "dir"}
    FileSize = 2
    MaxLen = 2
    PAGE_SZ = 2
    GrowsDown = FALSE
    LABELS = 16
    mmap_type = 1
    Replacing = FALSE
    Sharing = FALSE
    Calls <- Hooks
    Fails <- Failing
INVARIANTS TypeOK FdsetComplete FdsetSound InputBytesTagged NoFalseOffsets
