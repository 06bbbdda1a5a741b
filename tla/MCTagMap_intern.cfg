\* The set table: three labels, two held tags, one shadow byte.
SPECIFICATION Spec
CONSTANTS
    o1 = o1
    o2 = o2
    o3 = o3
    Offset = {o1, o2, o3}
    Slot = {1, 2}
    Ptr = {0}
    Count = {1}
    TOP_DIR_SZ = 1
    PAGETABLE_SZ = 1
    PAGE_SIZE = 1
    ID_SPACE = 6
INVARIANTS TypeOK Canonical InternInverse MemoSound
PROPERTIES SetsImmutable
SYMMETRY Symmetric
