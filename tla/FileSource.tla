----------------------------- MODULE FileSource -----------------------------
(***************************************************************************)
(* The file source: the syscall dispatch of libdft_api_dr.cpp and the      *)
(* hooks of syscall_desc_dr.cpp that follow the descriptors of the tracked *)
(* file in fdset and paint what is read or mapped from it.                 *)
(*                                                                         *)
(* A system call is three steps: event_pre_syscall saves the number and    *)
(* the arguments, the kernel executes the call (external: the descriptor   *)
(* table, the open file descriptions with their shared positions, and the  *)
(* memory the call writes), event_post_syscall takes the result and runs   *)
(* the hook.  Between the last two another process that shares an open     *)
(* file description may move its position.                                 *)
(*                                                                         *)
(* content is the truth the tags are about: for every byte of memory, the  *)
(* offset of the tracked input it holds, or None.  Tags are label sets,    *)
(* which is what ids stand for (TagMap implements TaintMemory).            *)
(*                                                                         *)
(* The bytes of a mapping past its requested length are not modelled, nor  *)
(* are the painting counters and the log.                                  *)
(***************************************************************************)
EXTENDS Integers, FiniteSets

CONSTANTS
    MaxFd,          \* descriptors 0 .. MaxFd
    MaxAddr,        \* the modelled memory is 0 .. MaxAddr
    File,           \* the files the program opens
    FileSize,       \* bytes in each file that is not a FIFO
    MaxLen,         \* longest buffer a call passes
    PAGE_SZ,        \* bytes of a page, for the MAP_GROWSDOWN estimate
    GrowsDown,      \* TRUE when anonymous mappings may be MAP_GROWSDOWN
    LABELS,         \* labels a uint32_t can tell apart (2^32)
    mmap_type,      \* init_options_t::mmap_paint_method, 0 or 1
    Replacing,      \* TRUE when dup2 and dup3 may fail or replace the input
    Sharing,        \* TRUE when another process shares open file descriptions
    Calls,          \* the system calls the program makes
    Fails           \* those of them that may also fail

\* The tracked input, a file of another name, and a directory and a FIFO whose
\* paths also contain the registered file name.
ASSUME FileAssumption == File \subseteq {"input", "other", "dir", "fifo"}

Matching == {"input", "dir", "fifo"}

Hooked == {"read", "open", "openat", "close", "mmap", "munmap", "pread64",
           "dup", "dup2", "dup3"}

\* fstat stands for the calls whose descriptor has only a map of the arguments
\* the kernel writes; readv and fcntl have saved arguments and neither a hook
\* nor a map; lseek is not saved at all.
ASSUME CallsAssumption ==
    /\ Calls \subseteq Hooked \cup {"fstat", "readv", "fcntl", "lseek"}
    /\ Fails \subseteq Calls

ASSUME BoundsAssumption ==
    /\ MaxFd \in Nat /\ MaxAddr \in Nat /\ FileSize \in Nat \ {0}
    /\ MaxLen \in Nat \ {0} /\ LABELS \in Nat /\ LABELS > FileSize + MaxLen
    /\ PAGE_SZ \in Nat \ {0} /\ GrowsDown \in BOOLEAN
    /\ mmap_type \in {0, 1} /\ Sharing \in BOOLEAN /\ Replacing \in BOOLEAN

VARIABLES
    fds,            \* external: open descriptor -> open file description
    ofds,           \* external: open file description -> [file, pos]
    content,        \* external: address -> input offset held there, or None
    mem,            \* address -> label set (the tag map)
    fdset,          \* descriptors the engine believes to be the input
    phase,          \* "app", "kernel" or "post"
    ctx,            \* syscall_ctx_t: the call, its arguments and its result
    status          \* "running", "died" (libdft_die) or "crashed" (a fault)

kernel == <<fds, ofds, content>>

vars == <<fds, ofds, content, mem, fdset, phase, ctx, status>>

Fd == 0 .. MaxFd

Ofd == 0 .. MaxFd

Addr == 0 .. MaxAddr

Input == 0 .. FileSize - 1

None == -1

\* Raw results of failing calls: -EPERM is also the value of MAP_FAILED, the
\* other errno values are not.
Errors == {-1, -12}

Put(f, k, v) == [x \in DOMAIN f \cup {k} |-> IF x = k THEN v ELSE f[x]]

Drop(f, k) == [x \in DOMAIN f \ {k} |-> f[x]]

Least(S) == CHOOSE x \in S : \A y \in S : x <= y

\* What a descriptor refers to; "none" when it is not open.
FileOf(fd) == IF fd \in DOMAIN fds THEN ofds[fds[fd]].file ELSE "none"

PosOf(fd) == ofds[fds[fd]].pos

\* The byte at offset p of a file, as content records it.
ByteAt(f, p) == IF f = "input" /\ p \in Input THEN p ELSE None

-----------------------------------------------------------------------------
(* Entering a call *)

NoCall == [nr |-> "none", fd |-> 0, newfd |-> 0, file |-> "other",
           buf |-> 0, n |-> 0, off |-> 0, down |-> FALSE, ret |-> 0]

\* The calls the program can make, with arguments the kernel may also reject:
\* calls with a path, with descriptors, with a buffer, and anonymous mappings.
PathCall(nr, f) == [NoCall EXCEPT !.nr = nr, !.file = f]

PathCalls == {PathCall(nr, f) : nr \in {"open", "openat"}, f \in File}

FdCall(nr, fd, nfd) == [NoCall EXCEPT !.nr = nr, !.fd = fd, !.newfd = nfd]

FdCalls ==
    {FdCall(nr, fd, 0) : nr \in {"close", "dup", "fcntl"}, fd \in Fd}
    \cup {FdCall(nr, fd, nfd) : nr \in {"dup2", "dup3"}, fd \in Fd, nfd \in Fd}

BufferCall(nr, fd, a, n, o) ==
    [NoCall EXCEPT !.nr = nr, !.fd = fd, !.buf = a, !.n = n, !.off = o]

BufferCalls ==
    {BufferCall(nr, fd, a, n, 0) :
        nr \in {"read", "readv"}, fd \in Fd, a \in Addr, n \in 1 .. MaxLen}
    \cup {BufferCall(nr, fd, a, n, o) :
        nr \in {"pread64", "mmap"}, fd \in Fd, a \in Addr, n \in 1 .. MaxLen,
        o \in 0 .. FileSize + 1}
    \cup {BufferCall(nr, 0, a, n, 0) :
        nr \in {"munmap", "fstat"}, a \in Addr, n \in 1 .. MaxLen}

Seeks == {BufferCall("lseek", fd, 0, 0, o) : fd \in Fd, o \in Input}

AnonymousMap(a, n, d) ==
    [NoCall EXCEPT !.nr = "mmap", !.fd = None, !.buf = a, !.n = n, !.down = d]

AnonymousMaps ==
    {AnonymousMap(a, n, d) :
        a \in Addr, n \in 1 .. MaxLen, d \in {x \in BOOLEAN : x => GrowsDown}}

Invocation == PathCalls \cup FdCalls \cup BufferCalls \cup Seeks \cup AnonymousMaps

\* The buffer lies in the modelled memory.
Fits(c) == c.buf + c.n - 1 <= MaxAddr

\* A program that does not dup2 onto a descriptor of the input, or from a closed
\* one.
Careful(c) == c.nr \in {"dup2", "dup3"} => c.newfd \notin fdset /\ c.fd \in DOMAIN fds

\* event_pre_syscall; no descriptor in this table has a pre hook.
PreSyscall(c) ==
    /\ phase = "app" /\ status = "running"
    /\ c.nr \in Calls /\ Fits(c) /\ (Replacing \/ Careful(c))
    /\ ctx' = c
    /\ phase' = "kernel"
    /\ UNCHANGED <<kernel, mem, fdset, status>>

-----------------------------------------------------------------------------
(* The kernel: external *)

Returns(r) ==
    /\ ctx' = [ctx EXCEPT !.ret = r]
    /\ phase' = "post"
    /\ UNCHANGED <<mem, fdset, status>>

\* Open file descriptions live as long as a descriptor refers to them.
Referred(fdt, o) == [x \in {fdt[fd] : fd \in DOMAIN fdt} |-> o[x]]

Install(fdt, o) == fds' = fdt /\ ofds' = Referred(fdt, o)

Write(a, n, Byte(_)) ==
    content' = [x \in Addr |-> IF a <= x /\ x < a + n THEN Byte(x - a) ELSE content[x]]

\* A FIFO has no position.
Advance(fd, n) ==
    ofds' = IF FileOf(fd) = "fifo" THEN ofds ELSE [ofds EXCEPT ![fds[fd]].pos = @ + n]

\* The numbers of bytes a read of n at position p can return: it may be fewer than
\* asked for, and none at the end of a file or of what was written into a FIFO.
Transfers(f, p, n) ==
    CASE f = "dir"  -> {}
      [] f = "fifo" -> 0 .. n
      [] OTHER      -> IF p >= FileSize THEN {0}
                       ELSE 1 .. IF n < FileSize - p THEN n ELSE FileSize - p

\* Directories and FIFOs cannot be mapped.
Mappable(f) == f \in {"input", "other"}

\* The calls the kernel cannot carry out.
Impossible ==
    \/ ctx.nr \in {"open", "openat", "dup", "fcntl"} /\ Fd \subseteq DOMAIN fds
    \/ /\ ctx.nr \in {"close", "dup", "fcntl", "dup2", "dup3", "lseek",
                     "read", "readv", "pread64", "mmap"}
       /\ ctx.fd # None
       /\ \/ FileOf(ctx.fd) = "none"
          \/ ctx.nr \in {"read", "readv", "pread64"} /\ FileOf(ctx.fd) = "dir"
          \/ ctx.nr \in {"lseek", "pread64"} /\ FileOf(ctx.fd) = "fifo"
          \/ ctx.nr = "mmap" /\ ~Mappable(FileOf(ctx.fd))

KOpen ==
    /\ ctx.nr \in {"open", "openat"} /\ Fd \ DOMAIN fds # {}
    /\ LET fd == Least(Fd \ DOMAIN fds)
           o  == Least(Ofd \ DOMAIN ofds)
       IN  /\ Install(Put(fds, fd, o), Put(ofds, o, [file |-> ctx.file, pos |-> 0]))
           /\ Returns(fd)
    /\ UNCHANGED content

KClose ==
    /\ ctx.nr = "close" /\ ctx.fd \in DOMAIN fds
    /\ Install(Drop(fds, ctx.fd), ofds)
    /\ Returns(0)
    /\ UNCHANGED content

\* dup, and fcntl with F_DUPFD.
KDup ==
    /\ ctx.nr \in {"dup", "fcntl"} /\ ctx.fd \in DOMAIN fds /\ Fd \ DOMAIN fds # {}
    /\ LET fd == Least(Fd \ DOMAIN fds)
       IN  Install(Put(fds, fd, fds[ctx.fd]), ofds) /\ Returns(fd)
    /\ UNCHANGED content

\* dup2 and dup3 silently close the descriptor they replace.
KDup2 ==
    /\ ctx.nr \in {"dup2", "dup3"} /\ ctx.fd \in DOMAIN fds
    /\ Install(Put(fds, ctx.newfd, fds[ctx.fd]), ofds)
    /\ Returns(ctx.newfd)
    /\ UNCHANGED content

KRead ==
    /\ ctx.nr \in {"read", "readv"} /\ ctx.fd \in DOMAIN fds
    /\ \E k \in Transfers(FileOf(ctx.fd), PosOf(ctx.fd), ctx.n) :
          /\ Write(ctx.buf, k, LAMBDA i : ByteAt(FileOf(ctx.fd), PosOf(ctx.fd) + i))
          /\ Advance(ctx.fd, k)
          /\ Returns(k)
    /\ UNCHANGED fds

KPread ==
    /\ ctx.nr = "pread64" /\ ctx.fd \in DOMAIN fds /\ ~Impossible
    /\ \E k \in Transfers(FileOf(ctx.fd), ctx.off, ctx.n) :
          /\ Write(ctx.buf, k, LAMBDA i : ByteAt(FileOf(ctx.fd), ctx.off + i))
          /\ Returns(k)
    /\ UNCHANGED <<fds, ofds>>

KMmap ==
    /\ ctx.nr = "mmap" /\ ctx.fd \in DOMAIN fds /\ Mappable(FileOf(ctx.fd))
    /\ Write(ctx.buf, ctx.n, LAMBDA i : ByteAt(FileOf(ctx.fd), ctx.off + i))
    /\ Returns(ctx.buf)
    /\ UNCHANGED <<fds, ofds>>

\* munmap, an anonymous mapping, and calls like fstat that fill a buffer with
\* something else.
KOverwrite ==
    /\ ctx.nr \in {"munmap", "fstat"} \/ (ctx.nr = "mmap" /\ ctx.fd = None)
    /\ Write(ctx.buf, ctx.n, LAMBDA i : None)
    /\ Returns(IF ctx.nr = "mmap" THEN ctx.buf ELSE 0)
    /\ UNCHANGED <<fds, ofds>>

KLseek ==
    /\ ctx.nr = "lseek" /\ ctx.fd \in DOMAIN fds /\ ~Impossible
    /\ ofds' = [ofds EXCEPT ![fds[ctx.fd]].pos = ctx.off]
    /\ Returns(ctx.off)
    /\ UNCHANGED <<fds, content>>

\* An impossible call fails, any other one in Fails may.
KFail ==
    /\ Impossible \/ ctx.nr \in Fails
    /\ \E e \in Errors : Returns(e)
    /\ UNCHANGED kernel

Kernel ==
    /\ phase = "kernel"
    /\ \/ KOpen \/ KClose \/ KDup \/ KDup2 \/ KRead \/ KPread
       \/ KMmap \/ KOverwrite \/ KLseek \/ KFail

\* Another process moves the position of an open file description it shares.
PeerSeek(o, p) ==
    /\ Sharing /\ phase = "post" /\ status = "running"
    /\ o \in DOMAIN ofds /\ ofds[o].file # "fifo"
    /\ ofds' = [ofds EXCEPT ![o].pos = p]
    /\ UNCHANGED <<fds, content, mem, fdset, phase, ctx, status>>

-----------------------------------------------------------------------------
(* Leaving a call *)

\* dft_label::set narrows an offset to 32 bits.
Label(x) == x % LABELS

Paint(a, n, start) ==
    mem' = [x \in Addr |-> IF a <= x /\ x < a + n THEN {Label(start + x - a)} ELSE mem[x]]

ClearTags(a, n) ==
    mem' = [x \in Addr |-> IF a <= x /\ x < a + n THEN {} ELSE mem[x]]

\* Fault: after an error the labels start from 0.
lseek_cur_restarts(fd) == IF FileOf(fd) = "fifo" THEN ctx.ret ELSE PosOf(fd)

\* lseek(fd, 0, SEEK_CUR) of a hook; an error is logged and then used as a position.
lseek_cur(fd) == IF FileOf(fd) = "fifo" THEN -1 ELSE PosOf(fd)

\* Paint what a tracked descriptor delivered, clear what any other one did.
PaintOrClear(fd, a, n, start) ==
    IF fd \in fdset THEN Paint(a, n, start) ELSE ClearTags(a, n)

Back ==
    /\ ctx' = NoCall
    /\ phase' = "app"
    /\ UNCHANGED <<fds, content>>

\* Fault: the position is taken for the start of what was read.
post_read_hook_late ==
    /\ ctx.nr = "read"
    /\ IF ctx.ret <= 0 THEN UNCHANGED mem
       ELSE PaintOrClear(ctx.fd, ctx.buf, ctx.ret, lseek_cur(ctx.fd))
    /\ UNCHANGED <<ofds, fdset, status>>

post_read_hook ==
    /\ ctx.nr = "read"
    /\ IF ctx.ret <= 0 THEN UNCHANGED mem
       ELSE PaintOrClear(ctx.fd, ctx.buf, ctx.ret, lseek_cur(ctx.fd) - ctx.ret)
    /\ UNCHANGED <<ofds, fdset, status>>

\* Is the name fdname resolved one to ignore?  The text of an errno, which
\* fdname returns for a descriptor that is not open, names no file.
Ignored(fd) == FileOf(fd) \notin Matching \/ FileOf(fd) = "dir"

post_open_hook ==
    /\ ctx.nr \in {"open", "openat"}
    /\ fdset' = IF Ignored(ctx.ret) THEN fdset ELSE fdset \cup {ctx.ret}
    /\ UNCHANGED <<ofds, mem, status>>

\* post_dup2_hook and post_dup3_hook look neither at the result nor at what the
\* new descriptor was before.
post_dup2_hook ==
    /\ ctx.nr \in {"dup2", "dup3"}
    /\ fdset' = IF ctx.fd \in fdset THEN fdset \cup {ctx.newfd} ELSE fdset
    /\ UNCHANGED <<ofds, mem, status>>

\* Fault: descriptor 0 is taken for a failure.
post_dup_hook_positive ==
    /\ ctx.nr = "dup"
    /\ fdset' = IF ctx.fd \in fdset /\ ctx.ret > 0 THEN fdset \cup {ctx.ret} ELSE fdset
    /\ UNCHANGED <<ofds, mem, status>>

\* Fault: any duplicate is tracked.
post_dup_hook_any ==
    /\ ctx.nr = "dup"
    /\ fdset' = IF ctx.ret # -1 THEN fdset \cup {ctx.ret} ELSE fdset
    /\ UNCHANGED <<ofds, mem, status>>

post_dup_hook ==
    /\ ctx.nr = "dup"
    /\ fdset' = IF ctx.fd \in fdset /\ ctx.ret # -1 THEN fdset \cup {ctx.ret} ELSE fdset
    /\ UNCHANGED <<ofds, mem, status>>

\* Fault: success is taken for failure.
post_close_hook_inverted ==
    /\ ctx.nr = "close"
    /\ fdset' = IF ctx.ret <= 0 THEN fdset ELSE fdset \ {ctx.fd}
    /\ UNCHANGED <<ofds, mem, status>>

post_close_hook ==
    /\ ctx.nr = "close"
    /\ fdset' = IF ctx.ret < 0 THEN fdset ELSE fdset \ {ctx.fd}
    /\ UNCHANGED <<ofds, mem, status>>

post_pread64_hook ==
    /\ ctx.nr = "pread64"
    /\ IF ctx.ret < 0 THEN UNCHANGED mem
       ELSE PaintOrClear(ctx.fd, ctx.buf, ctx.ret, ctx.off)
    /\ UNCHANGED <<ofds, fdset, status>>

\* What stat says.
SizeOf(f) == IF f = "fifo" THEN 0 ELSE FileSize

\* Does mmap_type 1 take the mapping to begin behind the end of the file?
PastEnd == /\ mmap_type = 1 /\ ctx.fd \in DOMAIN fds
           /\ Label(ctx.off) > Label(SizeOf(FileOf(ctx.fd)))

\* For such a mapping the hook gives up when the file has less than four bytes;
\* for a longer one it compares the mapping with the first bytes of the file,
\* and faults on an address where nothing is mapped.
Unusable == IF PastEnd /\ SizeOf(FileOf(ctx.fd)) < 4 THEN "died" ELSE "crashed"

\* The hook only recognises MAP_FAILED.  Any other raw error is taken for an
\* address without a shadow byte: clearing there has no effect, painting reads
\* the old tag through a NULL pointer first.
MmapFailed ==
    /\ status' = IF ctx.ret # -1 /\ ctx.fd \in fdset THEN Unusable ELSE status
    /\ UNCHANGED <<ofds, mem>>

\* Where the hook believes a MAP_GROWSDOWN mapping to begin.
MapStart ==
    LET estimate == IF ctx.n < PAGE_SZ THEN PAGE_SZ
                    ELSE ctx.n + PAGE_SZ - (ctx.n % PAGE_SZ)
    IN  IF ctx.down THEN ctx.ret + estimate - 1 ELSE ctx.ret

\* mmap_type 0 takes the descriptor's position for the offset of the mapping.
MmapAtPosition ==
    /\ mmap_type = 0
    /\ Paint(MapStart, ctx.n, lseek_cur(ctx.fd))
    /\ UNCHANGED <<ofds, status>>

\* Fault: the measuring seek goes past the end.
MmapAtOffsetPastEnd ==
    /\ mmap_type = 1
    /\ ofds' = [ofds EXCEPT ![fds[ctx.fd]].pos = FileSize + 1]
    /\ Paint(MapStart, ctx.n, ctx.off)
    /\ UNCHANGED status

\* mmap_type 1 takes the offset of the call.  It measures the file by seeking to
\* its end.
MmapAtOffset ==
    /\ mmap_type = 1
    /\ ofds' = [ofds EXCEPT ![fds[ctx.fd]].pos = FileSize]
    /\ IF PastEnd THEN status' = Unusable /\ UNCHANGED mem
       ELSE Paint(MapStart, ctx.n, ctx.off) /\ UNCHANGED status

post_mmap_hook ==
    /\ ctx.nr = "mmap"
    /\ \/ ctx.ret < 0 /\ MmapFailed
       \/ ctx.ret >= 0 /\ ctx.fd \in fdset /\ (MmapAtPosition \/ MmapAtOffset)
       \/ /\ ctx.ret >= 0 /\ ctx.fd \notin fdset
          /\ ClearTags(MapStart, ctx.n) /\ UNCHANGED <<ofds, status>>
    /\ UNCHANGED fdset

\* Fault: the first byte is skipped.
post_munmap_hook_skips ==
    /\ ctx.nr = "munmap"
    /\ IF ctx.ret < 0 THEN UNCHANGED mem ELSE ClearTags(ctx.buf + 1, ctx.n - 1)
    /\ UNCHANGED <<ofds, fdset, status>>

post_munmap_hook ==
    /\ ctx.nr = "munmap"
    /\ IF ctx.ret < 0 THEN UNCHANGED mem ELSE ClearTags(ctx.buf, ctx.n)
    /\ UNCHANGED <<ofds, fdset, status>>

\* The default of event_post_syscall clears the arguments map_args names; for
\* readv and fcntl that is none, and lseek does not get here at all.
DefaultCleanup ==
    /\ ctx.nr \notin Hooked
    /\ IF ctx.nr = "fstat" /\ ctx.ret >= 0
       THEN ClearTags(ctx.buf, ctx.n) ELSE UNCHANGED mem
    /\ UNCHANGED <<ofds, fdset, status>>

\* event_post_syscall
PostSyscall ==
    /\ phase = "post" /\ status = "running"
    /\ \/ post_read_hook \/ post_open_hook \/ post_dup2_hook \/ post_dup_hook
       \/ post_close_hook \/ post_pread64_hook \/ post_mmap_hook
       \/ post_munmap_hook \/ DefaultCleanup
    /\ Back

-----------------------------------------------------------------------------

Init ==
    /\ fds = [x \in {} |-> 0]
    /\ ofds = [x \in {} |-> 0]
    /\ content = [a \in Addr |-> None]
    /\ mem = [a \in Addr |-> {}]
    /\ fdset = {}
    /\ phase = "app"
    /\ ctx = NoCall
    /\ status = "running"

\* The program is over.
Ended == status # "running" /\ UNCHANGED vars

Next ==
    \/ \E c \in Invocation : PreSyscall(c)
    \/ Kernel
    \/ \E o \in Ofd, p \in 0 .. FileSize : PeerSeek(o, p)
    \/ PostSyscall
    \/ Ended

Spec == Init /\ [][Next]_vars

\* When a system call has returned, DynamoRIO raises the post-syscall event.  The
\* program need not go on, and a call need not return.
FairSpec == Spec /\ WF_vars(PostSyscall)

-----------------------------------------------------------------------------
(* Properties *)

TypeOK ==
    /\ DOMAIN fds \subseteq Fd /\ \A fd \in DOMAIN fds : fds[fd] \in DOMAIN ofds
    /\ \A o \in DOMAIN ofds : ofds[o] \in [file : File, pos : 0 .. FileSize]
    /\ content \in [Addr -> Input \cup {None}]
    /\ mem \in [Addr -> SUBSET (0 .. LABELS - 1)]
    /\ fdset \subseteq Fd \cup Errors
    /\ phase \in {"app", "kernel", "post"}
    /\ status \in {"running", "died", "crashed"}

\* Does the descriptor resolve to something that is tracked?
Resolves(fd) == FileOf(fd) \in {"input", "fifo"}

\* Between two calls, every descriptor of a tracked file is in fdset, whatever
\* way it was obtained: no source is missed (post_open_hook, post_dup*_hook).
FdsetComplete ==
    phase = "app" /\ status = "running" => \A fd \in Fd : Resolves(fd) => fd \in fdset

\* Between two calls, every descriptor in fdset resolves to a tracked file:
\* nothing else is painted (post_close_hook is the only one that removes).
FdsetSound ==
    phase = "app" /\ status = "running" => \A fd \in Fd \cap fdset : Resolves(fd)

\* Between two calls, a byte that holds byte k of the input has the label k and
\* no other (post_read_hook, post_pread64_hook, post_mmap_hook): no offset of
\* the input is lost or mistaken for another one.
InputBytesTagged ==
    phase = "app" /\ status = "running" =>
        \A a \in Addr : content[a] # None => mem[a] = {content[a]}

\* Between two calls, a byte that does not hold a byte of the input has no label
\* that is an offset of the input (a mapping may extend past the end of the
\* file, and is painted there with offsets the file does not have; what comes
\* through a FIFO is painted from a position that is an error).
NoFalseOffsets ==
    phase = "app" /\ status = "running" =>
        \A a \in Addr : content[a] = None => mem[a] \cap Input = {}

\* With mmap_paint_method 0, mapping the tracked file paints nothing
\* (include/libdft_dr/lifecycle.h).
MmapNotPainted ==
    [][mmap_type = 0 /\ phase = "post" /\ phase' = "app" /\ ctx.nr = "mmap"
          => \A a \in Addr : mem'[a] \subseteq mem[a]]_vars

\* An unsuccessful mmap takes the early return of post_mmap_hook and harms
\* nothing: the engine never faults.
NeverCrashes == status # "crashed"

\* Whatever a byte of the input has been delivered by: it is tagged in the end with
\* its offset, unless it has been overwritten or the engine has given up.
DeliveredIsTagged ==
    \A a \in Addr : content[a] # None ~> \/ mem[a] = {content[a]}
                                         \/ content[a] = None \/ status # "running"
=============================================================================
