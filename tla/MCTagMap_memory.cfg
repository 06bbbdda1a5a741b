\* The page table: two labels, every page-table boundary, one address beyond.
SPECIFICATION Spec
CONSTANTS
    o1 = o1
    o2 = o2
    o3 = o3
    Offset = {o1, o2}
    Slot = {1, 2}
    Ptr = {2, 3, 4, 8}
    Count = {1, 3}
    TOP_DIR_SZ = 2
    PAGETABLE_SZ = 2
    PAGE_SIZE = 2
    ID_SPACE = 4
INVARIANTS TypeOK ClrnIsByteLoop
PROPERTIES ImplementsTaintMemory
SYMMETRY Symmetric
