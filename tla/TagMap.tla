------------------------------- MODULE TagMap -------------------------------
(***************************************************************************)
(* The interned-label tag map of tagmap.h and tagmap.cpp.                  *)
(*                                                                         *)
(* A tag_t is a 32-bit id into g_sets.  g_intern maps the printed form of  *)
(* a set to its id, g_combine memoizes unions of two ids, and tag_dir is   *)
(* the page table of shadow bytes, whose tables and pages are allocated by *)
(* the first store into them.  held stands for the tag_t values that       *)
(* callers keep between two calls: shadow registers and C++ locals.        *)
(*                                                                         *)
(* A partial function models a container or a page-table level: a key that *)
(* is not in its DOMAIN is absent from the map, or a NULL pointer.         *)
(***************************************************************************)
EXTENDS Naturals, Sequences

CONSTANTS
    Offset,         \* offsets of the tracked input
    Slot,           \* places where callers keep a tag_t
    Ptr,            \* addresses callers pass
    Count,          \* lengths callers pass to file_tagmap_clrn
    TOP_DIR_SZ,     \* tables of the directory
    PAGETABLE_SZ,   \* pages of a table
    PAGE_SIZE,      \* shadow bytes of a page
    ID_SPACE        \* number of ids a uint32_t can tell apart (2^32)

ASSUME GeometryAssumption ==
    /\ TOP_DIR_SZ \in Nat \ {0}
    /\ PAGETABLE_SZ \in Nat \ {0}
    /\ PAGE_SIZE \in Nat \ {0}

ASSUME ArgumentAssumption == Ptr \subseteq Nat /\ Count \subseteq Nat

ASSUME IdAssumption == ID_SPACE \in Nat \ {0}

VARIABLES
    g_sets,         \* id -> offset set; id i is element i + 1
    g_intern,       \* printed set -> id
    g_combine,      \* <<lhs id, rhs id>> -> id of the union
    tag_dir,        \* table -> page -> offset in the page -> id
    held            \* slot -> id

vars == <<g_sets, g_intern, g_combine, tag_dir, held>>

-----------------------------------------------------------------------------
(* Partial functions *)

Empty == [k \in {} |-> 0]

Put(f, k, v) == [x \in DOMAIN f \cup {k} |-> IF x = k THEN v ELSE f[x]]

-----------------------------------------------------------------------------
(* The set table *)

Ids == 0 .. Len(g_sets) - 1

SetOf(id) == g_sets[id + 1]

\* The printed form "{a,b,...}" names exactly the elements of the set; it is
\* only ever compared for equality, so it is represented by which offsets it
\* names.
ewah_sprint(s) == [o \in Offset |-> o \in s]

\* Fault: the id is taken after the set was appended.
InternIdLate(s) ==
    IF ewah_sprint(s) \in DOMAIN g_intern
    THEN g_intern[ewah_sprint(s)]
    ELSE (Len(g_sets) + 1) % ID_SPACE

\* The id intern_set returns for s: the one found, or the next free one,
\* narrowed to 32 bits.
InternId(s) ==
    IF ewah_sprint(s) \in DOMAIN g_intern
    THEN g_intern[ewah_sprint(s)]
    ELSE Len(g_sets) % ID_SPACE

\* Fault: the lookup is left out.
intern_set_unsearched(s) ==
    /\ Len(g_sets) < ID_SPACE
    /\ g_sets' = Append(g_sets, s)
    /\ g_intern' = Put(g_intern, ewah_sprint(s), InternId(s))

\* Fault: the new set is not entered into the intern table.
intern_set_unrecorded(s) ==
    IF ewah_sprint(s) \in DOMAIN g_intern
    THEN UNCHANGED <<g_sets, g_intern>>
    ELSE Len(g_sets) < ID_SPACE /\ g_sets' = Append(g_sets, s) /\ UNCHANGED g_intern

\* Fault: a full table is used again from its start.
intern_set_recycled(s) ==
    IF ewah_sprint(s) \in DOMAIN g_intern
    THEN UNCHANGED <<g_sets, g_intern>>
    ELSE /\ g_sets' = IF Len(g_sets) < ID_SPACE THEN Append(g_sets, s)
                      ELSE [g_sets EXCEPT ![InternId(s) + 1] = s]
         /\ g_intern' = Put(g_intern, ewah_sprint(s), InternId(s))

\* What intern_set does to the two tables.  The bound on the table stands for
\* the memory: 2^32 interned sets do not fit into an address space that also
\* holds their printed forms.
intern_set(s) ==
    IF ewah_sprint(s) \in DOMAIN g_intern
    THEN UNCHANGED <<g_sets, g_intern>>
    ELSE /\ Len(g_sets) < ID_SPACE
         /\ g_sets' = Append(g_sets, s)
         /\ g_intern' = Put(g_intern, ewah_sprint(s), InternId(s))

-----------------------------------------------------------------------------
(* The page table *)

VIRT2PAGETABLE(a) == a \div (PAGETABLE_SZ * PAGE_SIZE)

VIRT2PAGE(a) == (a % (PAGETABLE_SZ * PAGE_SIZE)) \div PAGE_SIZE

VIRT2OFFSET(a) == a % PAGE_SIZE

\* The addresses up to 0x7fffffffffff, which have a shadow byte.
Addr == 0 .. TOP_DIR_SZ * PAGETABLE_SZ * PAGE_SIZE - 1

tag_dir_getb(dir, a) ==
    IF /\ VIRT2PAGETABLE(a) \in DOMAIN dir
       /\ VIRT2PAGE(a) \in DOMAIN dir[VIRT2PAGETABLE(a)]
    THEN dir[VIRT2PAGETABLE(a)][VIRT2PAGE(a)][VIRT2OFFSET(a)]
    ELSE 0

\* The table and the page a store needs: the present one, or a value-initialised
\* new one.
TableFor(dir, t) == IF t \in DOMAIN dir THEN dir[t] ELSE Empty

\* Fault: every store allocates its page.
PageForFresh(table, p) == [o \in 0 .. PAGE_SIZE - 1 |-> 0]

PageFor(table, p) ==
    IF p \in DOMAIN table THEN table[p] ELSE [o \in 0 .. PAGE_SIZE - 1 |-> 0]

\* Fault: the bound check is left out.
tag_dir_setb_unchecked(dir, a, id) ==
    LET table == TableFor(dir, VIRT2PAGETABLE(a))
        page  == PageFor(table, VIRT2PAGE(a))
    IN  Put(dir, VIRT2PAGETABLE(a),
            Put(table, VIRT2PAGE(a), [page EXCEPT ![VIRT2OFFSET(a)] = id]))

tag_dir_setb(dir, a, id) ==
    IF a \notin Addr
    THEN dir
    ELSE LET table == TableFor(dir, VIRT2PAGETABLE(a))
             page  == PageFor(table, VIRT2PAGE(a))
         IN  Put(dir, VIRT2PAGETABLE(a),
                 Put(table, VIRT2PAGE(a),
                     [page EXCEPT ![VIRT2OFFSET(a)] = id]))

\* Fault: one byte too many.
ClearedInclusive(a, n) == {x \in Addr : a <= x /\ x <= a + n}

\* The addresses file_tagmap_clrn(a, n) clears: the loop also visits the ones
\* with no shadow byte, and leaves them alone.
Cleared(a, n) == {x \in Addr : a <= x /\ x < a + n}

\* The page table after file_tagmap_clrn(a, n).  Every store of the loop
\* allocates the table and the page it needs, also for the cleared tag.
file_tagmap_clrn(dir, a, n) ==
    LET xs        == Cleared(a, n)
        Pages(t)  == {VIRT2PAGE(x) : x \in {y \in xs : VIRT2PAGETABLE(y) = t}}
        Hit(t, p, o) == \E x \in xs : /\ VIRT2PAGETABLE(x) = t
                                     /\ VIRT2PAGE(x) = p
                                     /\ VIRT2OFFSET(x) = o
    IN  [t \in DOMAIN dir \cup {VIRT2PAGETABLE(x) : x \in xs} |->
            [p \in DOMAIN TableFor(dir, t) \cup Pages(t) |->
                [o \in 0 .. PAGE_SIZE - 1 |->
                    IF Hit(t, p, o)
                    THEN 0 ELSE PageFor(TableFor(dir, t), p)[o]]]]

-----------------------------------------------------------------------------
(* Operations *)

\* The state tagmap_alloc leaves; tag_dir is a zero-initialised global.
Init ==
    /\ g_sets = <<{}>>
    /\ g_intern = Put(Empty, ewah_sprint({}), 0)
    /\ g_combine = Empty
    /\ tag_dir = Empty
    /\ held = [s \in Slot |-> 0]

\* dft_label::set(offset)
Set(s, o) ==
    /\ intern_set({o})
    /\ held' = [held EXCEPT ![s] = InternId({o})]
    /\ UNCHANGED <<g_combine, tag_dir>>

\* tag_combine(lhs, rhs): two equal ids, or an empty one, need no table.
CombineShortcut(s, l, r) ==
    /\ held[l] = held[r] \/ held[l] = 0 \/ held[r] = 0
    /\ held' = [held EXCEPT ![s] = IF held[l] = 0 THEN held[r] ELSE held[l]]
    /\ UNCHANGED <<g_sets, g_intern, g_combine, tag_dir>>

\* tag_combine: the memo knows the pair.
CombineHit(s, l, r) ==
    /\ held[l] # held[r] /\ held[l] # 0 /\ held[r] # 0
    /\ <<held[l], held[r]>> \in DOMAIN g_combine
    /\ held' = [held EXCEPT ![s] = g_combine[<<held[l], held[r]>>]]
    /\ UNCHANGED <<g_sets, g_intern, g_combine, tag_dir>>

\* Fault: the mirror is memoized as its own second operand.
MemoizeMirrorWrong(memo, a, b, id) == Put(Put(memo, <<a, b>>, id), <<b, a>>, b)

\* The memo after a miss on <<a, b>>: the pair and its mirror.
Memoize(memo, a, b, id) == Put(Put(memo, <<a, b>>, id), <<b, a>>, id)

\* tag_combine: the union is computed, interned and memoized both ways.
CombineMiss(s, l, r) ==
    LET union == SetOf(held[l]) \cup SetOf(held[r])
    IN  /\ held[l] # held[r] /\ held[l] # 0 /\ held[r] # 0
        /\ <<held[l], held[r]>> \notin DOMAIN g_combine
        /\ intern_set(union)
        /\ g_combine' = Memoize(g_combine, held[l], held[r], InternId(union))
        /\ held' = [held EXCEPT ![s] = InternId(union)]
        /\ UNCHANGED tag_dir

\* tagmap_setb_with_tag(addr, tag)
Setb(a, s) ==
    /\ tag_dir' = tag_dir_setb(tag_dir, a, held[s])
    /\ UNCHANGED <<g_sets, g_intern, g_combine, held>>

\* file_tagmap_clrn(addr, n); file_tagmap_clrb is the case n = 1.
Clrn(a, n) ==
    /\ tag_dir' = file_tagmap_clrn(tag_dir, a, n)
    /\ UNCHANGED <<g_sets, g_intern, g_combine, held>>

\* file_tagmap_getb(addr); an address with no shadow byte would be a read
\* through the NULL that tag_dir_getb_as_ptr returns, so it is not a step.
Getb(s, a) ==
    /\ a \in Addr
    /\ held' = [held EXCEPT ![s] = tag_dir_getb(tag_dir, a)]
    /\ UNCHANGED <<g_sets, g_intern, g_combine, tag_dir>>

Next ==
    \/ \E s \in Slot, o \in Offset : Set(s, o)
    \/ \E s, l, r \in Slot :
          \/ CombineShortcut(s, l, r)
          \/ CombineHit(s, l, r)
          \/ CombineMiss(s, l, r)
    \/ \E a \in Ptr, s \in Slot : Setb(a, s)
    \/ \E a \in Ptr, n \in Count : Clrn(a, n)
    \/ \E s \in Slot, a \in Ptr : Getb(s, a)

Spec == Init /\ [][Next]_vars

-----------------------------------------------------------------------------
(* Properties *)

\* A directory whose indices stay inside the arrays of tag_dir_t, tag_table_t
\* and tag_page_t and whose shadow bytes hold ids of the set ids.
DirOK(dir, ids) ==
    /\ DOMAIN dir \subseteq 0 .. TOP_DIR_SZ - 1
    /\ \A t \in DOMAIN dir :
          /\ DOMAIN dir[t] \subseteq 0 .. PAGETABLE_SZ - 1
          /\ \A p \in DOMAIN dir[t] : dir[t][p] \in [0 .. PAGE_SIZE - 1 -> ids]

TypeOK ==
    /\ g_sets \in Seq(SUBSET Offset)
    /\ g_sets # <<>>
    /\ Len(g_sets) <= ID_SPACE
    /\ held \in [Slot -> Ids]
    /\ DirOK(tag_dir, Ids)

\* Two tags compare equal exactly when they stand for the same label set, and
\* id 0 is the empty set (the contract of include/libdft_dr/tag.h; every test
\* "is this byte tainted?" in the engine is the comparison id # 0).
Canonical ==
    /\ SetOf(0) = {}
    /\ \A i, j \in Ids : SetOf(i) = SetOf(j) => i = j

\* The intern table is exactly the inverse of the set table: every set of the
\* table is found under its printed form, and nothing else is (intern_set).
InternInverse ==
    /\ \A i \in Ids : /\ ewah_sprint(SetOf(i)) \in DOMAIN g_intern
                      /\ g_intern[ewah_sprint(SetOf(i))] = i
    /\ \A k \in DOMAIN g_intern :
          g_intern[k] \in Ids /\ ewah_sprint(SetOf(g_intern[k])) = k

\* What the memo of tag_combine answers is the union, however long ago it was
\* stored and whatever was interned since; and a pair is memoized both ways.
MemoSound ==
    \A pair \in DOMAIN g_combine :
        /\ pair \in Ids \X Ids
        /\ g_combine[pair] \in Ids
        /\ SetOf(g_combine[pair]) = SetOf(pair[1]) \cup SetOf(pair[2])
        /\ <<pair[2], pair[1]>> \in DOMAIN g_combine

\* An id never changes its meaning: no step removes or overwrites an interned
\* set, so a tag copied into any shadow byte stays valid for good.
SetsImmutable ==
    [][\A i \in Ids : i + 1 \in DOMAIN g_sets' /\ g_sets'[i + 1] = SetOf(i)]_vars

\* file_tagmap_clrn as the loop of byte stores it is in the code.
ClearLoop(dir, a, n) ==
    LET after[k \in 0 .. n] ==
            IF k = 0 THEN dir ELSE tag_dir_setb(after[k - 1], a + k - 1, 0)
    IN  after[n]

\* Clearing n bytes in one expression, as TagMap does it, leaves the page table
\* the byte-by-byte loop of file_tagmap_clrn leaves: the same bytes cleared and
\* the same tables and pages allocated, across page and table boundaries.
ClrnIsByteLoop ==
    \A a \in Ptr, n \in Count :
        file_tagmap_clrn(tag_dir, a, n) = ClearLoop(tag_dir, a, n)

\* The label sets the ids denote, byte by byte and slot by slot, behave as
\* TaintMemory says: interning, memoization and the page table are invisible.
TM == INSTANCE TaintMemory WITH
        mem  <- [a \in Addr |-> SetOf(tag_dir_getb(tag_dir, a))],
        held <- [s \in Slot |-> SetOf(held[s])]

ImplementsTaintMemory == TM!Spec
=============================================================================
