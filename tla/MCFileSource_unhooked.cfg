SPECIFICATION Spec
CONSTANTS
    MaxFd = 1
    MaxAddr = 0
    File = {"input", "other", "dir"}
    FileSize = 2
    MaxLen = 1
    PAGE_SZ = 2
    GrowsDown = TRUE
    LABELS = 16
    mmap_type = 0
    Replacing = FALSE
    Sharing = TRUE
    Calls <- Unhooked
    Fails <- Nothing
INVARIANTS FdsetSound
