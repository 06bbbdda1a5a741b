---------------------------- MODULE MntConsumer ----------------------------
(***************************************************************************)
(* mnt_consumer_dr.cpp: which instructions need no propagation.  For every *)
(* loaded module the consumer keeps the offsets a static analysis lists in *)
(* a .mnt.bin file, and beside them the bodies of summarised functions     *)
(* that sdft_hook registers.  is_mnt answers from a one-entry cache of the *)
(* last image and from a list of bodies that is sorted when it is looked   *)
(* up.                                                                     *)
(*                                                                         *)
(* s_last_img is a pointer into s_images: it is modelled by the image it   *)
(* pointed to when it was set, which is what a pointer that is not reset   *)
(* would still show.  Counters and the log are left out.                   *)
(*                                                                         *)
(* The operations are actions on the consumer's state; Instrumentation     *)
(* composes them with the events that call them.                           *)
(***************************************************************************)
EXTENDS Integers, Sequences, SequencesExt

CONSTANTS
    MaxPc,          \* code addresses are 1 .. MaxPc
    Image           \* external: the modules, see ImageAssumption

Pc == 1 .. MaxPc

Module == DOMAIN Image

\* What a .mnt.bin file holds: has the header been accepted, the entries it
\* announces in the order of the file, and how many of them can be read.
MntFile(f) ==
    /\ f.header \in BOOLEAN /\ f.body \in Seq(ToSet(f.body))
    /\ \A i \in DOMAIN f.body :
          f.body[i].tier \in {"sound", "lean", "v2_perpc"} /\ f.body[i].offset \in Nat
    /\ f.have \in 0 .. Len(f.body)

\* A module has a size, the offsets of its instructions, its candidate files
\* (build_search_paths) and its symbols: name, first offset and end in the symbol
\* table, and the offset where calls of that name arrive, which is another one
\* for an IFUNC.
ASSUME ImageAssumption ==
    /\ MaxPc \in Nat
    /\ \A m \in Module :
          /\ Image[m].size \in Nat \ {0}
          /\ Image[m].insns \subseteq 0 .. Image[m].size - 1
          /\ Image[m].files \in Seq(ToSet(Image[m].files))
          /\ Image[m].syms \in Seq(ToSet(Image[m].syms))
          /\ \A k \in DOMAIN Image[m].files : MntFile(Image[m].files[k])
          /\ \A k \in DOMAIN Image[m].syms :
                LET s == Image[m].syms[k]
                IN  /\ s.name # ""
                    /\ s.start \in 1 .. Image[m].size - 1 /\ s.end \in 0 .. Image[m].size
                    /\ s.target \in 1 .. Image[m].size - 1

VARIABLES
    s_policy,       \* "off", "lean", "sound" or "v2_perpc"
    s_images,       \* the images, in the order they were loaded
    s_last_img,     \* the image of the last lookup, or NoImage
    s_ranges,       \* bodies <<low, high>> of summarised functions
    s_ranges_dirty  \* has a body been added since the list was sorted?

mntVars == <<s_policy, s_images, s_last_img, s_ranges, s_ranges_dirty>>

NoImage == [low |-> 0, high |-> -1, mnt_sorted |-> <<>>]

-----------------------------------------------------------------------------
(* The standard library: external *)

\* std::lower_bound by halving.  less[i] says whether element i is less than the
\* value looked for; the result is the number of elements passed over.  A search
\* among len elements begins behind the first at ones.
lower_bound(less) ==
    LET among[len \in 0 .. Len(less)] ==
            [at \in 0 .. Len(less) - len |->
                LET half == len \div 2
                IN  IF len = 0 THEN at
                    ELSE IF less[at + half + 1] THEN among[len - half - 1][at + half + 1]
                    ELSE among[half][at]]
    IN  among[Len(less)][0]

binary_search(s, x) ==
    LET k == lower_bound([i \in DOMAIN s |-> s[i] < x])
    IN  k < Len(s) /\ s[k + 1] = x

Before(a, b) == a[1] < b[1] \/ (a[1] = b[1] /\ a[2] < b[2])

\* External: std::sort, as the order it leaves: every element behind those that are not
\* greater.
sort(s, Less(_, _)) ==
    LET sorted[k \in 0 .. Len(s)] ==
            IF k = 0 THEN <<>>
            ELSE LET done    == sorted[k - 1]
                     greater == SelectInSeq(done, LAMBDA y : Less(s[k], y))
                 IN  IF greater = 0 THEN Append(done, s[k]) ELSE InsertAt(done, greater, s[k])
    IN  sorted[Len(s)]

-----------------------------------------------------------------------------
(* Loading *)

\* Fault: any value is taken for a policy.
parse_policy_env_raw(value) == value

\* The policy the environment variable selects; a value that is not known counts
\* as lean, and so does none.
parse_policy_env(value) ==
    IF value \in {"sound", "v2_perpc", "off"} THEN value ELSE "lean"

\* init: with the policy off no module event is registered.
MntInit(value) ==
    /\ s_policy' = parse_policy_env(value)
    /\ UNCHANGED <<s_images, s_last_img, s_ranges, s_ranges_dirty>>

\* The entries of a file that the policy takes: the sound tier and its own.
Taken(body, policy) ==
    LET taken[k \in 0 .. Len(body)] ==
            IF k = 0 THEN <<>>
            ELSE taken[k - 1] \o
                 (IF body[k].tier \in {"sound", policy} THEN <<body[k].offset>> ELSE <<>>)
    IN  taken[Len(body)]

\* load_mnt_bin appends to the offsets it is given, also when the file turns out
\* to be truncated, and sorts them when it was read to the end.
load_mnt_bin(file, mnt, policy) ==
    LET whole == file.header /\ file.have = Len(file.body)
        read  == IF file.header THEN mnt \o Taken(SubSeq(file.body, 1, file.have), policy) ELSE mnt
    IN  [found |-> whole, mnt |-> IF whole THEN sort(read, <) ELSE read]

\* The candidates are tried until one is read to the end.
ReadCandidates(files, policy) ==
    LET tried[k \in 0 .. Len(files)] ==
            IF k = 0 THEN [found |-> FALSE, mnt |-> <<>>]
            ELSE IF tried[k - 1].found THEN tried[k - 1]
            ELSE load_mnt_bin(files[k], tried[k - 1].mnt, policy)
    IN  tried[Len(files)].mnt

ImageAt(m, base) ==
    [low |-> base, high |-> base + Image[m].size - 1,
     mnt_sorted |-> ReadCandidates(Image[m].files, s_policy)]

on_module_load(m, base) ==
    IF s_policy = "off" THEN UNCHANGED <<s_images, s_last_img>>
    ELSE /\ s_images' = Append(s_images, ImageAt(m, base))
         /\ s_last_img' = NoImage

\* Fault: the cache survives the image it points to.
on_module_unload_keeps_cache(base) ==
    /\ s_images' = RemoveFirstMatch(s_images, LAMBDA im : im.low = base)
    /\ UNCHANGED <<s_policy, s_last_img, s_ranges, s_ranges_dirty>>

on_module_unload(base) ==
    /\ s_images' = RemoveFirstMatch(s_images, LAMBDA im : im.low = base)
    /\ s_last_img' = IF s_images' = s_images THEN s_last_img ELSE NoImage
    /\ UNCHANGED <<s_policy, s_ranges, s_ranges_dirty>>

\* add_rtn_range: the list after it; an empty body is ignored.  Whoever calls it
\* marks the list as not sorted when it has grown.
add_rtn_range(ranges, low, high) ==
    IF high <= low THEN ranges ELSE Append(ranges, <<low, high>>)

-----------------------------------------------------------------------------
(* Looking up *)

SortedRanges == IF s_ranges_dirty THEN sort(s_ranges, Before) ELSE s_ranges

\* rtn_range_contains: only the last body that begins at or before pc is looked at.
rtn_range_contains(pc) ==
    LET ranges == SortedRanges
        k      == lower_bound([i \in DOMAIN ranges |-> ranges[i][1] <= pc])
    IN  k # 0 /\ pc < ranges[k][2]

Within(im, pc) == im.low <= pc /\ pc <= im.high

\* The image is_mnt consults: the cached one when it contains pc, else the first
\* one that does.
ImageOf(pc) ==
    LET k == SelectInSeq(s_images, LAMBDA im : Within(im, pc))
    IN  IF s_policy = "off" THEN NoImage
        ELSE IF Within(s_last_img, pc) THEN s_last_img
        ELSE IF k = 0 THEN NoImage ELSE s_images[k]

Listed(pc) == binary_search(ImageOf(pc).mnt_sorted, pc - ImageOf(pc).low)

\* What is_mnt returns.
is_mnt(pc) == Listed(pc) \/ rtn_range_contains(pc)

\* What it leaves behind: the image in the cache, and the bodies sorted when they
\* were looked at.
IsMntLookup(pc) ==
    /\ s_last_img' = IF ImageOf(pc) = NoImage THEN s_last_img ELSE ImageOf(pc)
    /\ IF Listed(pc) THEN UNCHANGED <<s_ranges, s_ranges_dirty>>
       ELSE s_ranges' = SortedRanges /\ s_ranges_dirty' = FALSE
    /\ UNCHANGED <<s_policy, s_images>>

Init ==
    /\ s_policy = "lean"
    /\ s_images = <<>>
    /\ s_last_img = NoImage
    /\ s_ranges = <<>>
    /\ s_ranges_dirty = FALSE
=============================================================================
