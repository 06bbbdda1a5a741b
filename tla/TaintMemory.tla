---------------------------- MODULE TaintMemory ----------------------------
(***************************************************************************)
(* What the tag map promises to the rest of the engine: every byte of the  *)
(* program's address space, and every tag a caller holds in a shadow       *)
(* register or a local, denotes a SET of input offsets.  There are no ids, *)
(* no intern table, no memo and no page table here.  TagMap implements     *)
(* this specification; the modules above the tag map are written in terms  *)
(* of label sets because it does.                                          *)
(***************************************************************************)
EXTENDS Naturals

CONSTANTS
    Offset,     \* the labels: offsets of bytes of the tracked input
    Addr,       \* the addresses that have a shadow byte
    Ptr,        \* the addresses callers pass, with or without a shadow byte
    Count,      \* the lengths callers pass
    Slot        \* places where callers keep a tag_t

VARIABLES
    mem,        \* mem[a]: the label set of the byte at a
    held        \* held[s]: the label set of the tag in slot s

vars == <<mem, held>>

Init ==
    /\ mem = [a \in Addr |-> {}]
    /\ held = [s \in Slot |-> {}]

\* A fresh singleton label.
Make(s, o) ==
    /\ held' = [held EXCEPT ![s] = {o}]
    /\ UNCHANGED mem

\* The union of two tags.
Combine(s, l, r) ==
    /\ held' = [held EXCEPT ![s] = held[l] \cup held[r]]
    /\ UNCHANGED mem

\* Storing a tag; an address with no shadow byte is ignored.
Store(a, s) ==
    /\ mem' = [x \in Addr |-> IF x = a THEN held[s] ELSE mem[x]]
    /\ UNCHANGED held

Load(s, a) ==
    /\ held' = [held EXCEPT ![s] = mem[a]]
    /\ UNCHANGED mem

\* Clearing exactly the n bytes from a on.
Clear(a, n) ==
    /\ mem' = [x \in Addr |-> IF a <= x /\ x < a + n THEN {} ELSE mem[x]]
    /\ UNCHANGED held

Next ==
    \/ \E s \in Slot, o \in Offset : Make(s, o)
    \/ \E s, l, r \in Slot : Combine(s, l, r)
    \/ \E a \in Ptr, s \in Slot : Store(a, s)
    \/ \E s \in Slot, a \in Ptr \cap Addr : Load(s, a)
    \/ \E a \in Ptr, n \in Count : Clear(a, n)

Spec == Init /\ [][Next]_vars
============================================================================
