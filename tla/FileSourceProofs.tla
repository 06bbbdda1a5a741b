-------------------------- MODULE FileSourceProofs --------------------------
(***************************************************************************)
(* Proofs about FileSource, for every number of descriptors, every memory, *)
(* every file size and every set of calls the program makes.               *)
(*                                                                         *)
(* The properties speak of the moments between two calls.  What holds in   *)
(* the middle of one is said by four inductive invariants, each of which   *)
(* rests on the ones before it:                                            *)
(*                                                                         *)
(*   TypeInv      the descriptor table and what a result says about it;    *)
(*   SoundInv     fdset holds no descriptor of another file, except one    *)
(*                that has just been closed;                               *)
(*   CompleteInv  fdset misses no descriptor of the input, except the one  *)
(*                the call has just returned;                              *)
(*   TaggedInv and CleanInv                                                *)
(*                tags agree with the contents of memory outside of the    *)
(*                buffer that the call has just filled, and inside of it   *)
(*                the contents are what the hook is about to paint.        *)
(***************************************************************************)
EXTENDS FileSource, FiniteSetTheorems, TLAPS

\* The file each descriptor refers to, and its position there.
Files == [fd \in Fd |-> FileOf(fd)]

Positions == [fd \in Fd |-> IF fd \in DOMAIN fds THEN PosOf(fd) ELSE 0]

-----------------------------------------------------------------------------
(* The inductive invariants *)

\* The records a call is saved as.
Call == [nr : Calls \cup {"none"}, fd : Fd \cup {None}, newfd : Fd,
         file : File \cup {"other"}, buf : Addr, n : 0 .. MaxLen,
         off : 0 .. FileSize + 1, down : BOOLEAN, ret : Int]

\* The call and its arguments.
CtxOK ==
    /\ ctx \in Call
    /\ phase # "app" => ctx.nr # "none" /\ Fits(ctx)
    /\ ctx.nr \in {"open", "openat"} => ctx.file \in File
    /\ ctx.nr = "lseek" => ctx.off \in Input
    /\ ctx.nr # "mmap" => ctx.fd # None
    /\ ctx.down => GrowsDown /\ ctx.fd = None

\* Open file descriptions are those a descriptor refers to.
TableOK ==
    /\ DOMAIN fds \subseteq Fd
    /\ DOMAIN ofds = {fds[fd] : fd \in DOMAIN fds}
    /\ DOMAIN ofds \subseteq Ofd
    /\ \A o \in DOMAIN ofds : ofds[o] \in [file : File, pos : 0 .. FileSize]

\* What a result says about the call it is the result of.
ResultOK ==
    phase = "post" =>
       /\ ctx.nr = "dup" => ctx.ret \in Fd \cup Errors
       /\ ctx.nr = "read" /\ ctx.ret > 0 => ctx.fd \in DOMAIN fds /\ ctx.ret <= ctx.n
       /\ ctx.nr = "pread64" /\ ctx.ret >= 0 =>
             ctx.fd \in DOMAIN fds /\ ctx.ret <= ctx.n /\ Files[ctx.fd] # "fifo"
       /\ ctx.nr = "mmap" /\ ctx.ret >= 0 =>
             /\ ctx.ret = ctx.buf
             /\ ctx.fd # None => ctx.fd \in DOMAIN fds /\ Mappable(Files[ctx.fd])

\* An error is never in fdset as MAP_FAILED is, and the engine only gives up
\* between two calls.
TypeInv ==
    /\ TableOK /\ CtxOK /\ ResultOK
    /\ content \in [Addr -> Input \cup {None}]
    /\ mem \in [Addr -> SUBSET (0 .. LABELS - 1)]
    /\ fdset \subseteq (Fd \cup Errors) \ {None}
    /\ phase \in {"app", "kernel", "post"}
    /\ status \in {"running", "died", "crashed"}
    /\ phase = "app" \/ status = "running"

\* The call duplicated fd as twin.
Duplicated(twin) ==
    \/ ctx.nr = "dup" /\ twin = ctx.ret
    \/ ctx.nr \in {"dup2", "dup3"} /\ twin = ctx.newfd

\* The files with a path that in_dtracker_whitelist accepts and hooks can read from.
Tracked == {"input", "fifo"}

\* The program that neither replaces a descriptor of the input by dup2 or dup3 nor
\* calls them with a descriptor that is not open.
CarefulProgram == ~Replacing /\ Fails \cap {"dup2", "dup3"} = {}

\* A descriptor in fdset is one of the input or a FIFO of that name, or the one a close is
\* about to drop; the twin of a descriptor refers to the same file.
SoundInv ==
    /\ \A fd \in Fd \cap fdset :
          \/ Files[fd] \in Tracked
          \/ phase = "post" /\ ctx.nr = "close" /\ ctx.ret >= 0 /\ fd = ctx.fd
    /\ phase = "kernel" => Careful(ctx)
    /\ phase = "post" =>
          \A fd \in Fd : Duplicated(fd) => Files[fd] = Files[ctx.fd]

\* A descriptor of the input is in fdset, or is the one a hook is about to insert; a closed
\* descriptor refers to nothing, so the hook may drop it.
CompleteInv ==
    /\ \A fd \in Fd :
          Files[fd] \in Tracked =>
             \/ fd \in fdset
             \/ /\ phase = "post"
                /\ \/ ctx.nr \in {"open", "openat"} /\ fd = ctx.ret
                   \/ Duplicated(fd) /\ ctx.fd \in fdset
    /\ phase = "post" /\ ctx.nr = "close" /\ ctx.ret >= 0 => Files[ctx.fd] = "none"

\* The bytes call c has written when it has returned.
Window(c) ==
    CASE c.nr \in {"read", "pread64"} ->
           {a \in Addr : c.buf <= a /\ a < c.buf + c.ret}
      [] c.nr \in {"mmap", "munmap", "fstat"} /\ c.ret >= 0 ->
           {a \in Addr : c.buf <= a /\ a < c.buf + c.n}
      [] OTHER -> {}

\* The bytes whose tags the hook has not yet brought up to date.
Filled == IF phase = "post" THEN Window(ctx) ELSE {}

\* The offset the hook takes for the first byte of the buffer.
Start == IF ctx.nr = "read" THEN Positions[ctx.fd] - ctx.ret ELSE ctx.off

\* Does the call deliver bytes of a descriptor?
Delivers == ctx.nr \in {"read", "pread64"} \/ (ctx.nr = "mmap" /\ ctx.fd # None)

\* The configuration under which the labels of the hooks are the offsets.
ExactProgram == /\ Calls \cap {"readv", "fcntl"} = {}
                /\ mmap_type = 1 /\ ~Sharing /\ ~GrowsDown

\* Outside of those bytes the tags are the offsets; inside of them the contents are what the
\* hook takes them for.
TaggedInv ==
    status = "running" =>
       /\ \A a \in Addr \ Filled : content[a] # None => mem[a] = {content[a]}
       /\ \A a \in Filled : content[a] # None =>
             /\ Delivers /\ Files[ctx.fd] = "input"
             /\ content[a] = Start + a - ctx.buf

\* The configuration under which no other byte gets such a label.
CleanProgram == /\ CarefulProgram /\ "readv" \notin Calls
                /\ mmap_type = 1 /\ ~GrowsDown

\* Outside of those bytes only the input has labels; inside of them the hook paints a byte
\* of something else only behind the end of the file, with no offset of it.
CleanInv ==
    status = "running" =>
       /\ \A a \in Addr \ Filled : content[a] = None => mem[a] \cap Input = {}
       /\ \A a \in Filled : content[a] = None /\ Delivers /\ Files[ctx.fd] = "input" =>
             ctx.nr = "mmap" /\ ctx.off + a - ctx.buf >= FileSize

-----------------------------------------------------------------------------
(* Numbers and free descriptors *)

\* A non-empty set of natural numbers has a least element.
LEMMA LeastExists ==
    ASSUME NEW T, T \subseteq Nat, T # {}
    PROVE  Least(T) \in T
<1>. DEFINE R == {ss \in Nat \X Nat : ss[1] < ss[2]}
<1>1. IsWellFoundedOn(R, Nat)
  BY NatLessThanWellFounded, Zenon DEF OpToRel
<1>. HIDE DEF R
<1>2. PICK x \in T : \A y \in T : <<y, x>> \notin R
  BY <1>1, WFMin
<1>3. ASSUME NEW y \in T PROVE x <= y
  <2>1. <<y, x>> \notin R /\ <<y, x>> \in Nat \X Nat
    BY <1>2 DEF PathCalls
  <2>2. ~(y < x)
    BY <2>1 DEF R
  <2>. QED
    BY <2>2
<1>. QED
  BY <1>3 DEF Least

\* A label is in the range of a uint32_t, also for a position that is an error;
\* an offset that fits is its own label, and an error becomes a large one.
LEMMA LabelFacts ==
    /\ \A x \in Int : Label(x) \in 0 .. LABELS - 1
    /\ \A x \in 0 .. LABELS - 1 : Label(x) = x
    /\ \A x \in 1 .. LABELS - 1 : Label(-x) = LABELS - x
<1>. DEFINE L == LABELS
<1>. L \in Nat \ {0}
  BY BoundsAssumption
<1>. HIDE DEF L
<1>1. ASSUME NEW x \in Int PROVE x % L \in 0 .. L - 1
  BY Z3
<1>2. ASSUME NEW x \in 0 .. L - 1 PROVE x % L = x
  BY Z3
<1>3. ASSUME NEW x \in 1 .. L - 1 PROVE (-x) % L = L - x
  BY Z3
<1>. QED
  BY <1>1, <1>2, <1>3, Zenon DEF Label, L

\* When a descriptor is free, so is an open file description: there are never
\* more of them than descriptors that refer to them.
LEMMA FreeDescription ==
    ASSUME TableOK, Fd \ DOMAIN fds # {}
    PROVE  Ofd \ DOMAIN ofds # {}
<1>1. SUFFICES ASSUME DOMAIN ofds = Fd PROVE FALSE
  BY DEF TableOK, Ofd, Fd
<1>. DEFINE D == DOMAIN fds
            f == [x \in D |-> fds[x]]
<1>2. IsFiniteSet(Fd)
  BY FS_Interval, BoundsAssumption DEF Fd
<1>3. D \in SUBSET Fd
  BY DEF TableOK
<1>4. IsFiniteSet(D) /\ (Cardinality(Fd) = Cardinality(D) => Fd = D)
      /\ Cardinality(D) <= Cardinality(Fd)
  BY <1>2, <1>3, FS_Subset
<1>5. f \in Surjection(D, Fd)
  <2>1. f \in [D -> Fd]
    BY <1>1 DEF TableOK
  <2>2. \A t \in Fd : \E s \in D : f[s] = t
    BY <1>1 DEF TableOK
  <2>. QED
    BY <2>1, <2>2 DEF Surjection
<1>. HIDE DEF f
<1>6. Cardinality(Fd) <= Cardinality(D)
  BY <1>4, <1>5, FS_Surjection
<1>7. Cardinality(Fd) \in Nat /\ Cardinality(D) \in Nat
  BY <1>2, <1>4, FS_CardinalityType
<1>8. Fd = D
  BY <1>4, <1>6, <1>7
<1>. QED
  BY <1>8

\* The descriptor open and dup return is a free one.
LEMMA FreeDescriptor ==
    ASSUME TableOK, Fd \ DOMAIN fds # {}
    PROVE  /\ Least(Fd \ DOMAIN fds) \in Fd \ DOMAIN fds
           /\ Least(Ofd \ DOMAIN ofds) \in Ofd \ DOMAIN ofds
<1>1. Fd \subseteq Nat /\ Ofd \subseteq Nat
  BY BoundsAssumption DEF Fd, Ofd
<1>2. Ofd \ DOMAIN ofds # {}
  BY FreeDescription
<1>. QED
  BY <1>1, <1>2, LeastExists

-----------------------------------------------------------------------------
(* The descriptor table *)

\* A descriptor that is opened refers to a new open file description.
LEMMA InstallNew ==
    ASSUME TableOK, NEW fd \in Fd \ DOMAIN fds, NEW o \in Ofd \ DOMAIN ofds,
           NEW r \in [file : File, pos : 0 .. FileSize],
           Install(Put(fds, fd, o), Put(ofds, o, r))
    PROVE  /\ TableOK'
           /\ DOMAIN fds' = DOMAIN fds \cup {fd}
           /\ Files' = [Files EXCEPT ![fd] = r.file]
<1>1. DOMAIN fds' = DOMAIN fds \cup {fd}
  BY DEF Install, Put
<1>2. fds'[fd] = o /\ \A x \in DOMAIN fds : fds'[x] = fds[x]
  BY DEF Install, Put
<1>3. DOMAIN ofds' = {fds'[x] : x \in DOMAIN fds'}
  BY DEF Install, Referred
<1>4. ofds'[o] = r
  BY <1>1, <1>2 DEF Install, Referred, Put
<1>5. \A x \in DOMAIN fds : fds[x] \in DOMAIN ofds /\ fds[x] # o
  BY DEF TableOK
<1>6. \A x \in DOMAIN fds : ofds'[fds[x]] = ofds[fds[x]]
  BY <1>1, <1>2, <1>5 DEF Install, Referred, Put
<1>7. \A u \in DOMAIN ofds' : u = o \/ \E x \in DOMAIN fds : u = fds[x]
  BY <1>1, <1>2, <1>3
<1>8. TableOK'
  <2>1. DOMAIN fds' \subseteq Fd
    BY <1>1 DEF TableOK
  <2>2. ASSUME NEW u \in DOMAIN ofds'
        PROVE  u \in Ofd /\ ofds'[u] \in [file : File, pos : 0 .. FileSize]
    BY <1>4, <1>5, <1>6, <1>7 DEF TableOK
  <2>. QED
    BY <1>3, <2>1, <2>2 DEF TableOK
<1>9. ASSUME NEW x \in Fd
      PROVE  Files'[x] = IF x = fd THEN r.file ELSE Files[x]
  <2>1. CASE x = fd
    BY <1>1, <1>2, <1>4, <2>1 DEF Files, FileOf
  <2>2. CASE x # fd
    BY <1>1, <1>2, <1>6, <2>2 DEF Files, FileOf
  <2>. QED
    BY <2>1, <2>2
<1>10. Files' = [Files EXCEPT ![fd] = r.file]
  BY <1>9 DEF Files
<1>. QED
  BY <1>1, <1>8, <1>10

\* A duplicate refers to the same file; what its number meant before is lost.
LEMMA InstallTwin ==
    ASSUME TableOK, NEW fd \in DOMAIN fds, NEW twin \in Fd,
           Install(Put(fds, twin, fds[fd]), ofds)
    PROVE  /\ TableOK'
           /\ DOMAIN fds' = DOMAIN fds \cup {twin}
           /\ Files' = [Files EXCEPT ![twin] = Files[fd]]
<1>1. DOMAIN fds' = DOMAIN fds \cup {twin}
  BY DEF Install, Put
<1>2. fds'[twin] = fds[fd] /\ \A x \in DOMAIN fds \ {twin} : fds'[x] = fds[x]
  BY DEF Install, Put
<1>3. DOMAIN ofds' = {fds'[x] : x \in DOMAIN fds'}
  BY DEF Install, Referred
<1>4. \A x \in DOMAIN fds' : fds'[x] \in DOMAIN ofds
  BY <1>1, <1>2 DEF TableOK
<1>5. \A u \in DOMAIN ofds' : ofds'[u] = ofds[u] /\ u \in DOMAIN ofds
  BY <1>3, <1>4 DEF Install, Referred
<1>6. TableOK'
  BY <1>1, <1>3, <1>5 DEF TableOK
<1>7. \A x \in DOMAIN fds' : ofds'[fds'[x]] = ofds[fds'[x]]
  BY <1>3, <1>5
<1>8. ASSUME NEW x \in Fd
      PROVE  Files'[x] = IF x = twin THEN Files[fd] ELSE Files[x]
  <2>1. fd \in Fd
    BY DEF TableOK
  <2>2. CASE x = twin
    BY <1>1, <1>2, <1>7, <2>1, <2>2 DEF Files, FileOf
  <2>3. CASE x # twin
    BY <1>1, <1>2, <1>7, <2>3 DEF Files, FileOf
  <2>. QED
    BY <2>2, <2>3
<1>9. Files' = [Files EXCEPT ![twin] = Files[fd]]
  BY <1>8 DEF Files
<1>. QED
  BY <1>1, <1>6, <1>9

\* Closing a descriptor leaves the others as they are.
LEMMA InstallClosed ==
    ASSUME TableOK, NEW fd \in DOMAIN fds, Install(Drop(fds, fd), ofds)
    PROVE  /\ TableOK'
           /\ DOMAIN fds' = DOMAIN fds \ {fd}
           /\ Files' = [Files EXCEPT ![fd] = "none"]
<1>1. DOMAIN fds' = DOMAIN fds \ {fd}
  BY DEF Install, Drop
<1>2. \A x \in DOMAIN fds' : fds'[x] = fds[x]
  BY <1>1 DEF Install, Drop
<1>3. DOMAIN ofds' = {fds'[x] : x \in DOMAIN fds'}
  BY DEF Install, Referred
<1>4. \A u \in DOMAIN ofds' : ofds'[u] = ofds[u] /\ u \in DOMAIN ofds
  BY <1>1, <1>2, <1>3 DEF Install, Referred, TableOK
<1>5. TableOK'
  BY <1>1, <1>3, <1>4 DEF TableOK
<1>6. \A x \in DOMAIN fds' : ofds'[fds'[x]] = ofds[fds[x]]
  BY <1>2, <1>3, <1>4
<1>7. Files' = [Files EXCEPT ![fd] = "none"]
  BY <1>1, <1>6 DEF Files, FileOf, TableOK
<1>. QED
  BY <1>1, <1>5, <1>7

\* Moving a position changes no file.
LEMMA MovePosition ==
    ASSUME TableOK, NEW o \in DOMAIN ofds, NEW p \in 0 .. FileSize,
           fds' = fds, ofds' = [ofds EXCEPT ![o].pos = p]
    PROVE  TableOK' /\ Files' = Files
<1>1. DOMAIN ofds' = DOMAIN ofds
  OBVIOUS
<1>2. \A u \in DOMAIN ofds :
         /\ ofds'[u] \in [file : File, pos : 0 .. FileSize]
         /\ ofds'[u].file = ofds[u].file
  BY DEF TableOK
<1>3. TableOK'
  BY <1>1, <1>2 DEF TableOK
<1>4. \A x \in DOMAIN fds : fds[x] \in DOMAIN ofds
  BY DEF TableOK
<1>5. Files' = Files
  BY <1>2, <1>4 DEF Files, FileOf
<1>. QED
  BY <1>3, <1>5

\* What a descriptor refers to, in the terms of FileOf and PosOf.
LEMMA Views ==
    ASSUME TableOK
    PROVE  /\ Files \in [Fd -> File \cup {"none"}]
           /\ \A fd \in Fd : Files[fd] = FileOf(fd)
           /\ \A fd \in Fd : FileOf(fd) = "none" <=> fd \notin DOMAIN fds
           /\ \A fd \in DOMAIN fds :
                 /\ fd \in Fd /\ FileOf(fd) \in File /\ fds[fd] \in DOMAIN ofds
                 /\ PosOf(fd) \in 0 .. FileSize /\ Positions[fd] = PosOf(fd)
           /\ Positions \in [Fd -> 0 .. FileSize]
<1>1. \A fd \in DOMAIN fds :
         /\ fds[fd] \in DOMAIN ofds /\ FileOf(fd) \in File /\ fd \in Fd
         /\ PosOf(fd) \in 0 .. FileSize
  BY DEF TableOK, FileOf, PosOf
<1>2. "none" \notin File
  BY FileAssumption
<1>3. 0 \in 0 .. FileSize
  BY BoundsAssumption
<1>. QED
  BY <1>1, <1>2, <1>3 DEF Files, FileOf, Positions

-----------------------------------------------------------------------------
(* Entering and leaving the kernel *)

\* The constants the calls are made of.
LEMMA Ranges ==
    /\ 0 \in Fd /\ 0 \in Addr /\ 0 \in 0 .. MaxLen /\ 0 \in 0 .. FileSize + 1
    /\ 1 .. MaxLen \subseteq 0 .. MaxLen /\ Input \subseteq 0 .. FileSize + 1
    /\ None \notin Fd /\ Fd \subseteq Nat /\ Addr \subseteq Nat
    /\ Input \subseteq 0 .. FileSize
  BY BoundsAssumption DEF Fd, Addr, Input, None

\* What the program passes to a system call.
LEMMA InvocationOK ==
    ASSUME NEW c \in Invocation, c.nr \in Calls
    PROVE  /\ c \in Call /\ c.nr # "none"
           /\ c.nr \in {"open", "openat"} => c.file \in File
           /\ c.nr = "lseek" => c.off \in Input
           /\ c.nr # "mmap" => c.fd # None
           /\ c.down => GrowsDown /\ c.fd = None
<1>1. NoCall \in Call
  BY Ranges DEF Call, NoCall
<1>2. CASE c \in PathCalls
  <2>1. PICK nr \in {"open", "openat"}, f \in File : c = PathCall(nr, f)
    BY <1>2 DEF PathCalls
  <2>2. c \in Call
    BY <1>1, <2>1 DEF Call, PathCall
  <2>. QED
    BY <2>1, <2>2, Ranges DEF PathCall, NoCall
<1>3. CASE \E nr \in {"close", "dup", "fcntl", "dup2", "dup3"}, fd \in Fd, nfd \in Fd :
              c = FdCall(nr, fd, nfd)
  <2>1. PICK nr \in {"close", "dup", "fcntl", "dup2", "dup3"}, fd \in Fd, nfd \in Fd :
             c = FdCall(nr, fd, nfd)
    BY <1>3
  <2>2. c \in Call
    BY <1>1, <2>1 DEF Call, FdCall
  <2>. QED
    BY <2>1, <2>2, Ranges DEF FdCall, NoCall
<1>4. CASE \E nr \in {"read", "readv", "pread64", "mmap", "munmap", "fstat"}, fd \in Fd,
              a \in Addr, n \in 0 .. MaxLen, o \in 0 .. FileSize + 1 :
              c = BufferCall(nr, fd, a, n, o)
  <2>1. PICK nr \in {"read", "readv", "pread64", "mmap", "munmap", "fstat"}, fd \in Fd,
             a \in Addr, n \in 0 .. MaxLen, o \in 0 .. FileSize + 1 :
             c = BufferCall(nr, fd, a, n, o)
    BY <1>4
  <2>2. c \in Call
    BY <1>1, <2>1 DEF Call, BufferCall
  <2>. QED
    BY <2>1, <2>2, Ranges DEF BufferCall, NoCall
<1>5. CASE c \in Seeks
  <2>1. PICK fd \in Fd, o \in Input : c = BufferCall("lseek", fd, 0, 0, o)
    BY <1>5 DEF Seeks
  <2>2. c \in Call
    BY <1>1, <2>1, Ranges DEF Call, BufferCall
  <2>. QED
    BY <2>1, <2>2, Ranges DEF BufferCall, NoCall
<1>6. CASE c \in AnonymousMaps
  <2>1. PICK a \in Addr, n \in 1 .. MaxLen, d \in {x \in BOOLEAN : x => GrowsDown} :
             c = AnonymousMap(a, n, d)
    BY <1>6 DEF AnonymousMaps
  <2>2. c.nr = "mmap" /\ c.fd = None /\ c.down = d
    BY <2>1 DEF AnonymousMap, NoCall
  <2>3. c.down => GrowsDown
    BY <2>2, Zenon
  <2>4. d \in BOOLEAN
    OBVIOUS
  <2>5. c \in Call
    BY <1>1, <2>1, <2>2, <2>4, Ranges DEF Call, AnonymousMap
  <2>. QED
    BY <2>2, <2>3, <2>5
<1>7. CASE c \in FdCalls
  <2>1. \E nr \in {"close", "dup", "fcntl", "dup2", "dup3"}, fd \in Fd, nfd \in Fd :
           c = FdCall(nr, fd, nfd)
    BY <1>7, Ranges DEF FdCalls
  <2>. QED
    BY <2>1, <1>3
<1>8. CASE c \in BufferCalls
  <2>1. \E nr \in {"read", "readv", "pread64", "mmap", "munmap", "fstat"}, fd \in Fd,
           a \in Addr, n \in 0 .. MaxLen, o \in 0 .. FileSize + 1 :
           c = BufferCall(nr, fd, a, n, o)
    BY <1>8, Ranges DEF BufferCalls
  <2>. QED
    BY <2>1, <1>4
<1>. QED
  BY <1>2, <1>5, <1>6, <1>7, <1>8 DEF Invocation

\* The arguments of a call.
LEMMA Arguments ==
    ASSUME CtxOK
    PROVE  /\ ctx.nr \in Calls \cup {"none"} /\ ctx.fd \in Fd \cup {None} /\ ctx.newfd \in Fd
           /\ ctx.buf \in Nat /\ ctx.buf \in Addr /\ ctx.n \in Nat /\ ctx.n <= MaxLen
           /\ ctx.off \in Nat /\ ctx.off <= FileSize + 1 /\ ctx.ret \in Int
           /\ ctx.down \in BOOLEAN
           /\ ctx.fd \in Int /\ ctx.newfd \in Int
  BY BoundsAssumption DEF CtxOK, Call, Addr, Fd, None

\* A result leaves the arguments alone.
LEMMA ReturnsOK ==
    ASSUME CtxOK, phase = "kernel", NEW r \in Int, Returns(r)
    PROVE  /\ CtxOK'
           /\ ctx'.ret = r /\ ctx'.nr = ctx.nr /\ ctx'.fd = ctx.fd /\ ctx'.newfd = ctx.newfd
           /\ ctx'.file = ctx.file /\ ctx'.buf = ctx.buf /\ ctx'.n = ctx.n
           /\ ctx'.off = ctx.off /\ ctx'.down = ctx.down
           /\ phase' = "post" /\ mem' = mem /\ fdset' = fdset /\ status' = status
<1>1. /\ ctx'.ret = r /\ ctx'.nr = ctx.nr /\ ctx'.fd = ctx.fd /\ ctx'.newfd = ctx.newfd
      /\ ctx'.file = ctx.file /\ ctx'.buf = ctx.buf /\ ctx'.n = ctx.n
      /\ ctx'.off = ctx.off /\ ctx'.down = ctx.down
  BY DEF Returns, CtxOK, Call
<1>2. ctx' \in Call
  BY DEF Returns, CtxOK, Call
<1>. QED
  BY <1>1, <1>2 DEF Returns, CtxOK, Fits

\* A transfer is not longer than what was asked for, and stays inside the file.
LEMMA TransferFacts ==
    ASSUME NEW f, NEW p \in Nat, NEW n \in Nat, NEW k \in Transfers(f, p, n)
    PROVE  /\ k \in Nat /\ k <= n /\ f # "dir"
           /\ f # "fifo" /\ k > 0 => p + k <= FileSize
           /\ f # "fifo" /\ p <= FileSize => p + k <= FileSize
<1>1. CASE f = "dir"
  <2>1. Transfers(f, p, n) = {}
    BY <1>1 DEF Transfers
  <2>. QED
    BY <2>1
<1>2. CASE f = "fifo"
  BY <1>2 DEF Transfers
<1>3. CASE f \notin {"dir", "fifo"} /\ p >= FileSize
  BY <1>3, BoundsAssumption DEF Transfers
<1>4. CASE f \notin {"dir", "fifo"} /\ ~(p >= FileSize)
  BY <1>4, BoundsAssumption DEF Transfers
<1>. QED
  BY <1>1, <1>2, <1>3, <1>4

\* A byte of a file is recorded as an offset of the input or as none.
LEMMA ByteAtType == \A f, p : ByteAt(f, p) \in Input \cup {None}
  BY DEF ByteAt

\* What a call wrote into its buffer.
FilledWith(n, f, p) ==
    /\ content' \in [Addr -> Input \cup {None}]
    /\ \A a \in Addr :
          content'[a] = IF ctx.buf <= a /\ a < ctx.buf + n
                        THEN ByteAt(f, p + (a - ctx.buf)) ELSE content[a]

\* Two ways to say that.
LEMMA WriteFilled ==
    ASSUME content \in [Addr -> Input \cup {None}], NEW n, NEW f, NEW p,
           content' = [x \in Addr |-> IF ctx.buf <= x /\ x < ctx.buf + n
                                      THEN ByteAt(f, p + (x - ctx.buf)) ELSE content[x]]
    PROVE  FilledWith(n, f, p)
  BY ByteAtType DEF FilledWith

-----------------------------------------------------------------------------
(* What each system call does to the table and to memory *)

\* Calls that touch neither the table nor the memory.
LEMMA KFailEffect ==
    ASSUME TypeInv, KFail
    PROVE  /\ \E e \in Errors : Returns(e)
           /\ TableOK' /\ fds' = fds /\ Files' = Files /\ content' = content
           /\ Positions' = Positions
           /\ Impossible \/ ctx.nr \in Fails
  BY DEF KFail, kernel, TypeInv, TableOK, Files, FileOf, Positions, PosOf

\* Opening installs a descriptor that was free, for the file that is named.
LEMMA KOpenEffect ==
    ASSUME TypeInv, KOpen
    PROVE  \E fd \in Fd \ DOMAIN fds :
              /\ ctx.nr \in {"open", "openat"} /\ Returns(fd) /\ TableOK'
              /\ Files' = [Files EXCEPT ![fd] = ctx.file] /\ content' = content
<1>. DEFINE fd == Least(Fd \ DOMAIN fds)
            o == Least(Ofd \ DOMAIN ofds)
            r == [file |-> ctx.file, pos |-> 0]
<1>1. TableOK /\ CtxOK
  BY DEF TypeInv
<1>2. fd \in Fd \ DOMAIN fds /\ o \in Ofd \ DOMAIN ofds
  BY <1>1, FreeDescriptor DEF KOpen
<1>3. Install(Put(fds, fd, o), Put(ofds, o, r)) /\ Returns(fd) /\ content' = content
  BY DEF KOpen
<1>4. r \in [file : File, pos : 0 .. FileSize] /\ r.file = ctx.file
  BY <1>1, BoundsAssumption DEF KOpen, CtxOK
<1>. HIDE DEF fd, o, r
<1>5. TableOK' /\ Files' = [Files EXCEPT ![fd] = ctx.file]
  BY <1>1, <1>2, <1>3, <1>4, InstallNew
<1>. QED
  BY <1>2, <1>3, <1>5 DEF KOpen

\* Closing leaves the descriptor without a file.
LEMMA KCloseEffect ==
    ASSUME TypeInv, KClose
    PROVE  /\ ctx.nr = "close" /\ ctx.fd \in Fd /\ Returns(0) /\ TableOK'
           /\ Files' = [Files EXCEPT ![ctx.fd] = "none"] /\ content' = content
<1>1. TableOK /\ CtxOK
  BY DEF TypeInv
<1>. QED
  BY <1>1, InstallClosed DEF KClose, TableOK

\* Duplicating installs a descriptor that was free, for the same file.
LEMMA KDupEffect ==
    ASSUME TypeInv, KDup
    PROVE  \E fd \in Fd \ DOMAIN fds :
              /\ ctx.nr \in {"dup", "fcntl"} /\ ctx.fd \in Fd /\ ctx.fd \in DOMAIN fds
              /\ Returns(fd) /\ TableOK'
              /\ Files' = [Files EXCEPT ![fd] = Files[ctx.fd]] /\ content' = content
<1>. DEFINE fd == Least(Fd \ DOMAIN fds)
<1>1. TableOK /\ CtxOK
  BY DEF TypeInv
<1>2. fd \in Fd \ DOMAIN fds
  BY <1>1, FreeDescriptor DEF KDup
<1>3. Install(Put(fds, fd, fds[ctx.fd]), ofds) /\ Returns(fd) /\ content' = content
  BY DEF KDup
<1>. HIDE DEF fd
<1>4. TableOK' /\ Files' = [Files EXCEPT ![fd] = Files[ctx.fd]]
  BY <1>1, <1>2, <1>3, InstallTwin DEF KDup
<1>. QED
  BY <1>1, <1>2, <1>3, <1>4 DEF KDup, TableOK

\* dup2 and dup3 make the descriptor named by the program a twin, whatever it was.
LEMMA KDup2Effect ==
    ASSUME TypeInv, KDup2
    PROVE  /\ ctx.nr \in {"dup2", "dup3"} /\ ctx.fd \in Fd /\ ctx.fd \in DOMAIN fds
           /\ Returns(ctx.newfd) /\ TableOK'
           /\ Files' = [Files EXCEPT ![ctx.newfd] = Files[ctx.fd]] /\ content' = content
<1>1. TableOK /\ CtxOK
  BY DEF TypeInv
<1>2. ctx.newfd \in Fd
  BY <1>1, Arguments
<1>. QED
  BY <1>1, <1>2, InstallTwin DEF KDup2, TableOK

\* A read fills its buffer from the position, moves the position by what it returns and
\* stays within the file; a FIFO has no such position.
LEMMA KReadEffect ==
    ASSUME TypeInv, KRead
    PROVE  \E k \in Nat :
              /\ ctx.nr \in {"read", "readv"} /\ ctx.fd \in Fd /\ ctx.fd \in DOMAIN fds
              /\ k <= ctx.n /\ Returns(k) /\ TableOK' /\ fds' = fds /\ Files' = Files
              /\ FilledWith(k, Files[ctx.fd], Positions[ctx.fd])
              /\ Files[ctx.fd] # "fifo" =>
                    /\ Positions[ctx.fd] + k <= FileSize
                    /\ Positions'[ctx.fd] = Positions[ctx.fd] + k
<1>. DEFINE f == FileOf(ctx.fd)
            p == PosOf(ctx.fd)
            o == fds[ctx.fd]
<1>1. TableOK /\ CtxOK /\ ctx.fd \in DOMAIN fds /\ ctx.nr \in {"read", "readv"} /\ fds' = fds
  BY DEF TypeInv, KRead
<1>2. /\ ctx.fd \in Fd /\ o \in DOMAIN ofds /\ p \in 0 .. FileSize
      /\ Files[ctx.fd] = f /\ Positions[ctx.fd] = p
  BY <1>1, Views
<1>3. PICK k \in Transfers(f, p, ctx.n) :
         /\ content' = [x \in Addr |-> IF ctx.buf <= x /\ x < ctx.buf + k
                                       THEN ByteAt(f, p + (x - ctx.buf)) ELSE content[x]]
         /\ Advance(ctx.fd, k) /\ Returns(k)
  BY DEF KRead, Write
<1>. p \in Nat /\ p <= FileSize /\ ctx.n \in Nat
  BY <1>1, <1>2, Arguments, BoundsAssumption
<1>4. k \in Nat /\ k <= ctx.n /\ (f # "fifo" => p + k <= FileSize)
  BY <1>2, <1>3, TransferFacts
<1>5. FilledWith(k, f, p)
  BY <1>3, WriteFilled DEF TypeInv
<1>6. CASE f = "fifo"
  <2>1. ofds' = ofds
    BY <1>3, <1>6 DEF Advance
  <2>2. TableOK' /\ Files' = Files
    BY <1>1, <2>1 DEF TableOK, Files, FileOf
  <2>. QED
    BY <1>1, <1>2, <1>3, <1>4, <1>5, <1>6, <2>2
<1>7. CASE f # "fifo"
  <2>1. ofds' = [ofds EXCEPT ![o].pos = p + k]
    BY <1>3, <1>7 DEF Advance, PosOf
  <2>2. p + k \in 0 .. FileSize
    BY <1>4, <1>7, BoundsAssumption
  <2>. HIDE DEF p, f
  <2>3. TableOK' /\ Files' = Files
    BY <1>1, <1>2, <2>1, <2>2, MovePosition
  <2>4. ofds'[o].pos = p + k
    BY <1>1, <1>2, <2>1 DEF TableOK
  <2>5. Positions'[ctx.fd] = p + k
    BY <1>1, <1>2, <2>4 DEF Positions, PosOf
  <2>. QED
    BY <1>1, <1>2, <1>3, <1>4, <1>5, <2>3, <2>5, <1>7
<1>. QED
  BY <1>6, <1>7

\* pread64 fills its buffer from the offset it is given and moves nothing.
LEMMA KPreadEffect ==
    ASSUME TypeInv, KPread
    PROVE  \E k \in Nat :
              /\ ctx.nr = "pread64" /\ ctx.fd \in Fd /\ ctx.fd \in DOMAIN fds
              /\ k <= ctx.n /\ Returns(k) /\ TableOK' /\ fds' = fds /\ Files' = Files
              /\ FilledWith(k, Files[ctx.fd], ctx.off) /\ Files[ctx.fd] # "fifo"
              /\ k > 0 => ctx.off + k <= FileSize
<1>. DEFINE f == FileOf(ctx.fd)
<1>1. /\ TableOK /\ CtxOK /\ ctx.fd \in DOMAIN fds /\ ctx.nr = "pread64"
      /\ fds' = fds /\ ofds' = ofds
  BY DEF TypeInv, KPread
<1>2. ctx.fd \in Fd /\ Files[ctx.fd] = f
  BY <1>1, Views
<1>3. f # "fifo"
  BY <1>1, <1>2, Ranges DEF KPread, Impossible
<1>4. PICK k \in Transfers(f, ctx.off, ctx.n) :
         /\ content' = [x \in Addr |-> IF ctx.buf <= x /\ x < ctx.buf + k
                                       THEN ByteAt(f, ctx.off + (x - ctx.buf)) ELSE content[x]]
         /\ Returns(k)
  BY DEF KPread, Write
<1>. ctx.off \in Nat /\ ctx.n \in Nat
  BY <1>1, Arguments
<1>5. k \in Nat /\ k <= ctx.n /\ (k > 0 => ctx.off + k <= FileSize)
  BY <1>3, <1>4, TransferFacts
<1>6. FilledWith(k, f, ctx.off)
  BY <1>4, WriteFilled DEF TypeInv
<1>7. TableOK' /\ Files' = Files
  BY <1>1 DEF TableOK, Files, FileOf
<1>. QED
  BY <1>1, <1>2, <1>3, <1>4, <1>5, <1>6, <1>7

\* A mapping shows the file from the offset it is given, over its whole length.
LEMMA KMmapEffect ==
    ASSUME TypeInv, KMmap
    PROVE  /\ ctx.nr = "mmap" /\ ctx.fd \in Fd /\ ctx.fd \in DOMAIN fds
           /\ Mappable(Files[ctx.fd])
           /\ Returns(ctx.buf) /\ TableOK' /\ fds' = fds /\ Files' = Files
           /\ FilledWith(ctx.n, Files[ctx.fd], ctx.off)
<1>. DEFINE f == FileOf(ctx.fd)
<1>1. /\ TableOK /\ CtxOK /\ ctx.fd \in DOMAIN fds /\ ctx.nr = "mmap"
      /\ fds' = fds /\ ofds' = ofds /\ Mappable(f) /\ Returns(ctx.buf)
  BY DEF TypeInv, KMmap
<1>2. ctx.fd \in Fd /\ Files[ctx.fd] = f
  BY <1>1, Views
<1>3. content' = [x \in Addr |-> IF ctx.buf <= x /\ x < ctx.buf + ctx.n
                                 THEN ByteAt(f, ctx.off + (x - ctx.buf)) ELSE content[x]]
  BY DEF KMmap, Write
<1>4. FilledWith(ctx.n, f, ctx.off)
  BY <1>3, WriteFilled DEF TypeInv
<1>5. TableOK' /\ Files' = Files
  BY <1>1 DEF TableOK, Files, FileOf
<1>. QED
  BY <1>1, <1>2, <1>4, <1>5

\* The other calls that write memory leave no byte of the input in it.
LEMMA KOverwriteEffect ==
    ASSUME TypeInv, KOverwrite
    PROVE  /\ ctx.nr \in {"munmap", "fstat"} \/ (ctx.nr = "mmap" /\ ctx.fd = None)
           /\ Returns(IF ctx.nr = "mmap" THEN ctx.buf ELSE 0)
           /\ TableOK' /\ fds' = fds /\ Files' = Files
           /\ content' \in [Addr -> Input \cup {None}]
           /\ \A a \in Addr :
                 content'[a] = IF ctx.buf <= a /\ a < ctx.buf + ctx.n THEN None ELSE content[a]
<1>1. fds' = fds /\ ofds' = ofds
  BY DEF KOverwrite
<1>2. TableOK' /\ Files' = Files
  BY <1>1 DEF TypeInv, TableOK, Files, FileOf
<1>3. content' = [x \in Addr |-> IF ctx.buf <= x /\ x < ctx.buf + ctx.n
                                 THEN None ELSE content[x]]
  BY DEF KOverwrite, Write
<1>4. content' \in [Addr -> Input \cup {None}]
  BY <1>3 DEF TypeInv
<1>. QED
  BY <1>1, <1>2, <1>3, <1>4 DEF KOverwrite

\* A seek changes a position and nothing else.
LEMMA KLseekEffect ==
    ASSUME TypeInv, KLseek
    PROVE  /\ ctx.nr = "lseek" /\ Returns(ctx.off) /\ TableOK' /\ Files' = Files
           /\ fds' = fds /\ content' = content
<1>1. TableOK /\ CtxOK /\ ctx.fd \in DOMAIN fds /\ ctx.off \in 0 .. FileSize
  BY Ranges DEF TypeInv, KLseek, CtxOK
<1>2. fds[ctx.fd] \in DOMAIN ofds
  BY <1>1, Views
<1>. QED
  BY <1>1, <1>2, MovePosition DEF KLseek

-----------------------------------------------------------------------------
(* Type correctness *)

\* The tags of memory.
LabelSets == [Addr -> SUBSET (0 .. LABELS - 1)]

\* Painting and clearing keep tags of the right type, whatever the position was.
LEMMA PaintType ==
    ASSUME mem \in LabelSets, NEW a \in Int, NEW n, NEW start \in Int, Paint(a, n, start)
    PROVE  mem' \in LabelSets
<1>1. \A x \in Addr : Label(start + x - a) \in 0 .. LABELS - 1
  BY LabelFacts, Ranges
<1>. QED
  BY <1>1 DEF Paint, LabelSets

\* So does clearing.
LEMMA ClearType ==
    ASSUME mem \in LabelSets, NEW a, NEW n, ClearTags(a, n)
    PROVE  mem' \in LabelSets
  BY DEF ClearTags, LabelSets

\* The parts a hook can change keep their types.
HookOK == /\ TableOK' /\ Files' = Files
          /\ mem' \in LabelSets
          /\ fdset' \subseteq (Fd \cup Errors) \ {None}
          /\ status' \in {"running", "died", "crashed"}

\* A hook that leaves the table alone.
LEMMA SameTable ==
    ASSUME TableOK, fds' = fds, ofds' = ofds
    PROVE  TableOK' /\ Files' = Files /\ Positions' = Positions
  BY DEF TableOK, Files, FileOf, Positions, PosOf

\* What the seek of a hook returns can be counted with, an error too.
LEMMA PositionInt ==
    ASSUME TypeInv, ctx.fd \in DOMAIN fds
    PROVE  lseek_cur(ctx.fd) \in Int
  BY Views DEF TypeInv, lseek_cur

\* The hooks that paint or clear a buffer.
LEMMA ReadHookType ==
    ASSUME TypeInv, phase = "post", post_read_hook, fds' = fds
    PROVE  HookOK
<1>1. TableOK /\ CtxOK /\ ResultOK /\ mem \in LabelSets
  BY DEF TypeInv, LabelSets
<1>2. ofds' = ofds /\ fdset' = fdset /\ status' = status /\ ctx.nr = "read"
  BY DEF post_read_hook
<1>3. ctx.ret \in Int /\ ctx.buf \in Int
  BY <1>1, Arguments
<1>4. mem' \in LabelSets
  <2>1. CASE ctx.ret <= 0
    BY <1>1, <2>1 DEF post_read_hook
  <2>2. CASE ctx.ret > 0
    <3>1. lseek_cur(ctx.fd) - ctx.ret \in Int
      BY <1>1, <1>2, <1>3, <2>2, PositionInt DEF ResultOK
    <3>2. PaintOrClear(ctx.fd, ctx.buf, ctx.ret, lseek_cur(ctx.fd) - ctx.ret)
      BY <1>3, <2>2 DEF post_read_hook
    <3>. QED
      BY <1>1, <1>3, <3>1, <3>2, PaintType, ClearType DEF PaintOrClear
  <2>. QED
    BY <1>3, <2>1, <2>2
<1>. QED
  BY <1>1, <1>2, <1>4, SameTable DEF HookOK, TypeInv

\* The hook of pread64 takes its offset from the call.
LEMMA PreadHookType ==
    ASSUME TypeInv, phase = "post", post_pread64_hook, fds' = fds
    PROVE  HookOK
<1>1. TableOK /\ CtxOK /\ mem \in LabelSets
  BY DEF TypeInv, LabelSets
<1>2. ofds' = ofds /\ fdset' = fdset /\ status' = status
  BY DEF post_pread64_hook
<1>3. ctx.off \in Int /\ ctx.buf \in Int /\ ctx.ret \in Int
  BY <1>1, Arguments
<1>4. mem' \in LabelSets
  BY <1>1, <1>3, PaintType, ClearType DEF post_pread64_hook, PaintOrClear
<1>. QED
  BY <1>1, <1>2, <1>4, SameTable DEF HookOK, TypeInv

\* Hooks that only change fdset.  -EPERM is the one error dup does not add.
LEMMA DescriptorHooksType ==
    ASSUME TypeInv, phase = "post", fds' = fds,
           post_open_hook \/ post_dup_hook \/ post_dup2_hook \/ post_close_hook
    PROVE  HookOK
<1>1. TableOK /\ CtxOK /\ ResultOK /\ mem \in LabelSets
  BY DEF TypeInv, LabelSets
<1>2. ofds' = ofds /\ mem' = mem /\ status' = status
  BY DEF post_open_hook, post_dup_hook, post_dup2_hook, post_close_hook
<1>3. fdset' \subseteq (Fd \cup Errors) \ {None}
  <2>1. CASE post_open_hook
    <3>1. ~Ignored(ctx.ret) => ctx.ret \in Fd
      BY <1>1 DEF Ignored, FileOf, Matching, TableOK
    <3>. QED
      BY <2>1, <3>1, Ranges DEF post_open_hook, TypeInv
  <2>2. CASE post_dup_hook
    BY <1>1, <2>2, Ranges DEF post_dup_hook, TypeInv, ResultOK, None
  <2>3. CASE post_dup2_hook
    BY <1>1, <2>3, Ranges, Arguments DEF post_dup2_hook, TypeInv
  <2>4. CASE post_close_hook
    BY <2>4 DEF post_close_hook, TypeInv
  <2>. QED
    BY <2>1, <2>2, <2>3, <2>4
<1>. QED
  BY <1>1, <1>2, <1>3, SameTable DEF HookOK, TypeInv

\* The region a mapping is taken for begins at its address, unless it grows down.
LEMMA MapStartInt ==
    ASSUME TypeInv
    PROVE  MapStart \in Int /\ (~ctx.down => MapStart = ctx.ret)
<1>1. ctx.n \in Nat /\ ctx.ret \in Int /\ ctx.down \in BOOLEAN /\ PAGE_SZ \in Nat \ {0}
  BY Arguments, BoundsAssumption DEF TypeInv
<1>2. ctx.n % PAGE_SZ \in Int
  BY <1>1, Z3
<1>. QED
  BY <1>1, <1>2 DEF MapStart

\* The hook of mmap may also end the program; it does so without touching the rest.
LEMMA MmapHookType ==
    ASSUME TypeInv, phase = "post", post_mmap_hook, fds' = fds
    PROVE  HookOK
<1>1. TableOK /\ CtxOK /\ ResultOK /\ mem \in LabelSets
  BY DEF TypeInv, LabelSets
<1>2. fdset' = fdset /\ ctx.nr = "mmap"
  BY DEF post_mmap_hook
<1>3. Unusable \in {"died", "crashed"}
  BY DEF Unusable
<1>4. CASE ctx.ret < 0 /\ MmapFailed
  BY <1>1, <1>2, <1>3, <1>4, SameTable DEF MmapFailed, HookOK, TypeInv
<1>5. CASE /\ ctx.ret >= 0 /\ ctx.fd \notin fdset
           /\ ClearTags(MapStart, ctx.n) /\ UNCHANGED <<ofds, status>>
  BY <1>1, <1>2, <1>5, SameTable, ClearType DEF HookOK, TypeInv
<1>6. CASE ctx.ret >= 0 /\ ctx.fd \in fdset /\ (MmapAtPosition \/ MmapAtOffset)
  <2>1. ctx.fd \in DOMAIN fds
    BY <1>1, <1>2, <1>6 DEF ResultOK, TypeInv
  <2>2. lseek_cur(ctx.fd) \in Int /\ ctx.off \in Int /\ MapStart \in Int
    BY <1>1, <2>1, PositionInt, Arguments, MapStartInt
  <2>3. CASE MmapAtPosition
    BY <1>1, <1>2, <2>2, <2>3, SameTable, PaintType DEF MmapAtPosition, HookOK, TypeInv
  <2>4. CASE MmapAtOffset
    <3>1. fds[ctx.fd] \in DOMAIN ofds /\ FileSize \in 0 .. FileSize
      BY <1>1, <2>1, Views, BoundsAssumption
    <3>2. TableOK' /\ Files' = Files
      BY <1>1, <2>4, <3>1, MovePosition DEF MmapAtOffset
    <3>3. mem' \in LabelSets
      BY <1>1, <2>2, <2>4, PaintType DEF MmapAtOffset
    <3>4. status' \in {"running", "died", "crashed"}
      BY <1>3, <2>4 DEF MmapAtOffset, TypeInv
    <3>. QED
      BY <1>2, <3>2, <3>3, <3>4 DEF HookOK, TypeInv
  <2>. QED
    BY <1>6, <2>3, <2>4
<1>. QED
  BY <1>4, <1>5, <1>6 DEF post_mmap_hook

\* munmap and the calls without a hook clear what the kernel wrote.
LEMMA ClearingHooksType ==
    ASSUME TypeInv, fds' = fds, post_munmap_hook \/ DefaultCleanup
    PROVE  HookOK
<1>1. TableOK /\ mem \in LabelSets
  BY DEF TypeInv, LabelSets
<1>2. ofds' = ofds /\ fdset' = fdset /\ status' = status
  BY DEF post_munmap_hook, DefaultCleanup
<1>3. mem' \in LabelSets
  BY <1>1, ClearType DEF post_munmap_hook, DefaultCleanup
<1>. QED
  BY <1>1, <1>2, <1>3, SameTable DEF HookOK, TypeInv

\* Initially nothing is open.
LEMMA TypeInit == Init => TypeInv
<1>. SUFFICES ASSUME Init PROVE TypeInv
  OBVIOUS
<1>1. TableOK
  BY DEF Init, TableOK
<1>2. NoCall \in Call
  BY Ranges DEF Call, NoCall
<1>3. CtxOK
  BY <1>2, Ranges DEF Init, CtxOK, NoCall
<1>. QED
  BY <1>1, <1>3 DEF Init, TypeInv, ResultOK

\* The pre event saves a call whose arguments are of their types.
LEMMA TypePre ==
    ASSUME TypeInv, NEW c \in Invocation, PreSyscall(c)
    PROVE  TypeInv'
<1>1. /\ ctx' = c /\ phase' = "kernel" /\ fds' = fds /\ ofds' = ofds /\ content' = content
      /\ mem' = mem /\ fdset' = fdset /\ status' = status /\ status = "running"
      /\ c.nr \in Calls /\ Fits(c)
  BY DEF PreSyscall, kernel
<1>2. TableOK'
  BY <1>1, SameTable DEF TypeInv
<1>3. CtxOK'
  BY <1>1, InvocationOK DEF CtxOK, Fits
<1>. QED
  BY <1>1, <1>2, <1>3 DEF TypeInv, ResultOK

\* A result of the right kind is all a call has to bring back.
LEMMA TypeReturn ==
    ASSUME TypeInv, phase = "kernel", NEW r \in Int, Returns(r), TableOK',
           content' \in [Addr -> Input \cup {None}], ResultOK'
    PROVE  TypeInv'
<1>1. CtxOK' /\ phase' = "post" /\ mem' = mem /\ fdset' = fdset /\ status' = status
  BY ReturnsOK DEF TypeInv
<1>. QED
  BY <1>1 DEF TypeInv

\* The kernel, call by call: the table it leaves and the result it returns fit each other.
LEMMA TypeKernel ==
    ASSUME TypeInv, Kernel
    PROVE  TypeInv'
<1>1. phase = "kernel" /\ CtxOK /\ content \in [Addr -> Input \cup {None}]
  BY DEF Kernel, TypeInv
<1>2. ctx.n \in Nat /\ ctx.buf \in Nat /\ ctx.off \in Nat /\ ctx.newfd \in Int
  BY <1>1, Arguments
<1>3. CASE KOpen
  <2>1. PICK fd \in Fd \ DOMAIN fds :
           ctx.nr \in {"open", "openat"} /\ Returns(fd) /\ TableOK' /\ content' = content
    BY <1>3, KOpenEffect
  <2>2. fd \in Int
    BY Ranges
  <2>3. ResultOK'
    BY <1>1, <2>1, <2>2, ReturnsOK DEF ResultOK
  <2>. QED
    BY <1>1, <2>1, <2>2, <2>3, TypeReturn
<1>4. CASE KClose
  <2>1. ctx.nr = "close" /\ Returns(0) /\ TableOK' /\ content' = content
    BY <1>4, KCloseEffect
  <2>2. ResultOK'
    BY <1>1, <2>1, ReturnsOK DEF ResultOK
  <2>. QED
    BY <1>1, <2>1, <2>2, TypeReturn
<1>5. CASE KDup
  <2>1. PICK fd \in Fd \ DOMAIN fds :
           ctx.nr \in {"dup", "fcntl"} /\ Returns(fd) /\ TableOK' /\ content' = content
    BY <1>5, KDupEffect
  <2>2. fd \in Int
    BY Ranges
  <2>3. ResultOK'
    BY <1>1, <2>1, <2>2, ReturnsOK DEF ResultOK
  <2>. QED
    BY <1>1, <2>1, <2>2, <2>3, TypeReturn
<1>6. CASE KDup2
  <2>1. /\ ctx.nr \in {"dup2", "dup3"} /\ Returns(ctx.newfd) /\ TableOK'
        /\ content' = content
    BY <1>6, KDup2Effect
  <2>2. ResultOK'
    BY <1>1, <1>2, <2>1, ReturnsOK DEF ResultOK
  <2>. QED
    BY <1>1, <1>2, <2>1, <2>2, TypeReturn
<1>7. CASE KRead
  <2>1. PICK k \in Nat :
           /\ ctx.nr \in {"read", "readv"} /\ ctx.fd \in DOMAIN fds
           /\ k <= ctx.n /\ Returns(k) /\ TableOK' /\ fds' = fds
           /\ FilledWith(k, Files[ctx.fd], Positions[ctx.fd])
    BY <1>7, KReadEffect
  <2>2. ResultOK'
    BY <1>1, <2>1, ReturnsOK DEF ResultOK
  <2>. QED
    BY <1>1, <2>1, <2>2, TypeReturn DEF FilledWith
<1>8. CASE KPread
  <2>1. PICK k \in Nat :
           /\ ctx.nr = "pread64" /\ ctx.fd \in DOMAIN fds /\ Files[ctx.fd] # "fifo"
           /\ k <= ctx.n /\ Returns(k) /\ TableOK' /\ fds' = fds /\ Files' = Files
           /\ FilledWith(k, Files[ctx.fd], ctx.off)
    BY <1>8, KPreadEffect
  <2>2. ResultOK'
    BY <1>1, <2>1, ReturnsOK DEF ResultOK
  <2>. QED
    BY <1>1, <2>1, <2>2, TypeReturn DEF FilledWith
<1>9. CASE KMmap
  <2>1. /\ ctx.nr = "mmap" /\ ctx.fd \in DOMAIN fds /\ Mappable(Files[ctx.fd])
        /\ Returns(ctx.buf) /\ TableOK' /\ fds' = fds /\ Files' = Files
        /\ FilledWith(ctx.n, Files[ctx.fd], ctx.off)
    BY <1>9, KMmapEffect
  <2>2. ResultOK'
    BY <1>1, <1>2, <2>1, ReturnsOK DEF ResultOK
  <2>. QED
    BY <1>1, <1>2, <2>1, <2>2, TypeReturn DEF FilledWith
<1>10. CASE KOverwrite
  <2>. DEFINE r == IF ctx.nr = "mmap" THEN ctx.buf ELSE 0
  <2>1. /\ ctx.nr \in {"munmap", "fstat"} \/ (ctx.nr = "mmap" /\ ctx.fd = None)
        /\ Returns(r) /\ TableOK' /\ content' \in [Addr -> Input \cup {None}]
    BY <1>10, KOverwriteEffect
  <2>2. r \in Int /\ (ctx.nr = "mmap" => r = ctx.buf)
    BY <1>2
  <2>. HIDE DEF r
  <2>3. ResultOK'
    BY <1>1, <2>1, <2>2, ReturnsOK DEF ResultOK
  <2>. QED
    BY <1>1, <2>1, <2>2, <2>3, TypeReturn
<1>11. CASE KLseek
  <2>1. ctx.nr = "lseek" /\ Returns(ctx.off) /\ TableOK' /\ content' = content
    BY <1>11, KLseekEffect
  <2>2. ResultOK'
    BY <1>1, <1>2, <2>1, ReturnsOK DEF ResultOK
  <2>. QED
    BY <1>1, <1>2, <2>1, <2>2, TypeReturn
<1>12. CASE KFail
  <2>1. PICK e \in Errors : Returns(e)
    BY <1>12, KFailEffect
  <2>2. TableOK' /\ content' = content
    BY <1>12, KFailEffect
  <2>3. e \in Int /\ e < 0
    BY DEF Errors
  <2>4. ResultOK'
    BY <1>1, <2>1, <2>3, ReturnsOK DEF ResultOK
  <2>. QED
    BY <1>1, <2>1, <2>2, <2>3, <2>4, TypeReturn
<1>. QED
  BY <1>3, <1>4, <1>5, <1>6, <1>7, <1>8, <1>9, <1>10, <1>11, <1>12 DEF Kernel

\* Another process moves a position, after the call and before the hook.
LEMMA PeerEffect ==
    ASSUME TypeInv, NEW o \in Ofd, NEW p \in 0 .. FileSize, PeerSeek(o, p)
    PROVE  /\ TableOK' /\ Files' = Files /\ fds' = fds /\ content' = content /\ mem' = mem
           /\ fdset' = fdset /\ phase' = phase /\ ctx' = ctx /\ status' = status
           /\ Sharing /\ phase = "post"
  BY MovePosition DEF PeerSeek, TypeInv

\* That breaks nothing the hook relies on for its types.
LEMMA TypePeer ==
    ASSUME TypeInv, NEW o \in Ofd, NEW p \in 0 .. FileSize, PeerSeek(o, p)
    PROVE  TypeInv'
<1>1. /\ TableOK' /\ Files' = Files /\ fds' = fds /\ content' = content /\ mem' = mem
      /\ fdset' = fdset /\ phase' = phase /\ ctx' = ctx /\ status' = status
  BY PeerEffect
<1>2. CtxOK' /\ ResultOK'
  BY <1>1 DEF TypeInv, CtxOK, Fits, ResultOK
<1>. QED
  BY <1>1, <1>2 DEF TypeInv

\* Every hook returns to the program with the table it found.
LEMMA PostEffect ==
    ASSUME TypeInv, PostSyscall
    PROVE  /\ HookOK /\ fds' = fds /\ content' = content
           /\ phase = "post" /\ phase' = "app" /\ ctx' = NoCall
<1>1. /\ fds' = fds /\ content' = content /\ ctx' = NoCall
      /\ phase = "post" /\ phase' = "app"
  BY DEF PostSyscall, Back
<1>2. HookOK
  BY <1>1, ReadHookType, PreadHookType, DescriptorHooksType, MmapHookType, ClearingHooksType
     DEF PostSyscall
<1>. QED
  BY <1>1, <1>2

\* Back in the program there is no call left to say anything about.
LEMMA TypePost ==
    ASSUME TypeInv, PostSyscall
    PROVE  TypeInv'
<1>1. NoCall \in Call
  BY Ranges DEF Call, NoCall
<1>2. ctx' = NoCall /\ phase' = "app"
  BY PostEffect
<1>3. CtxOK'
  BY <1>1, <1>2, Ranges DEF CtxOK, NoCall
<1>. QED
  BY <1>3, PostEffect DEF TypeInv, HookOK, LabelSets, ResultOK

\* TypeInv is inductive.
LEMMA TypeStep == TypeInv /\ [Next]_vars => TypeInv'
<1>. SUFFICES ASSUME TypeInv, [Next]_vars PROVE TypeInv'
  OBVIOUS
<1>1. CASE UNCHANGED vars
  <2>1. Files' = Files
    BY <1>1 DEF vars, Files, FileOf
  <2>. QED
    BY <1>1, <2>1 DEF vars, TypeInv, TableOK, CtxOK, Fits, ResultOK
<1>. QED
  BY <1>1, TypePre, TypeKernel, TypePeer, TypePost DEF Next, Ended

\* The descriptor table is consistent, memory and tags have their types, and fdset
\* holds descriptors and at most errors, whatever calls are made, fail, or are
\* raced by another process (TypeOK).
THEOREM TypeCorrect == Spec => []TypeOK
<1>1. TypeInv => TypeOK
  <2>. SUFFICES ASSUME TypeInv PROVE TypeOK
    OBVIOUS
  <2>1. \A fd \in DOMAIN fds : fds[fd] \in DOMAIN ofds
    BY DEF TypeInv, TableOK
  <2>. QED
    BY <2>1 DEF TypeInv, TypeOK, TableOK
<1>. QED
  BY <1>1, TypeInit, TypeStep, PTL DEF Spec

-----------------------------------------------------------------------------
(* No other file is tracked *)

\* A careful program's dup2 and dup3 do not fail.
LEMMA CarefulSucceeds ==
    ASSUME CarefulProgram, TypeInv, Careful(ctx), ctx.nr \in {"dup2", "dup3"}
    PROVE  ~KFail
<1>1. TableOK /\ CtxOK
  BY DEF TypeInv
<1>2. ctx.fd \in DOMAIN fds /\ FileOf(ctx.fd) # "none"
  BY <1>1, Views DEF Careful
<1>3. ~Impossible
  BY <1>2 DEF Impossible
<1>. QED
  BY <1>3 DEF KFail, CarefulProgram

\* The kernel neither closes nor replaces a tracked descriptor, except the one that
\* is to be closed, and a duplicate refers to what was duplicated.
LEMMA SoundKernel ==
    ASSUME CarefulProgram, TypeInv, SoundInv, Kernel
    PROVE  SoundInv'
<1>. DEFINE Twins == \A fd \in Fd : Duplicated(fd)' => Files'[fd] = Files'[ctx.fd]
            Sound == \A fd \in Fd \cap fdset :
                        \/ Files'[fd] \in Tracked
                        \/ ctx.nr = "close" /\ ctx'.ret >= 0 /\ fd = ctx.fd
<1>1. phase = "kernel" /\ CtxOK /\ TableOK /\ Careful(ctx)
  BY DEF Kernel, TypeInv, SoundInv
<1>2. \A fd \in Fd \cap fdset : Files[fd] \in Tracked /\ fd \in DOMAIN fds
  BY <1>1, Views DEF SoundInv, Tracked
<1>3. Files \in [Fd -> File \cup {"none"}] /\ ctx.newfd \in Fd
  BY <1>1, Views, Arguments
<1>4. SUFFICES \E r \in Int : Returns(r) /\ (ctx'.ret = r => Twins /\ Sound)
  <2>1. PICK r \in Int : Returns(r) /\ (ctx'.ret = r => Twins /\ Sound)
    BY <1>4
  <2>2. /\ ctx'.ret = r /\ ctx'.nr = ctx.nr /\ ctx'.fd = ctx.fd
        /\ phase' = "post" /\ fdset' = fdset
    BY <1>1, <2>1, ReturnsOK
  <2>. QED
    BY <2>1, <2>2 DEF SoundInv
<1>5. CASE KOpen
  <2>1. PICK fd \in Fd \ DOMAIN fds :
           /\ ctx.nr \in {"open", "openat"} /\ Returns(fd)
           /\ Files' = [Files EXCEPT ![fd] = ctx.file]
    BY <1>5, KOpenEffect
  <2>2. fd \in Int /\ ctx'.nr = ctx.nr
    BY <1>1, <2>1, ReturnsOK, Ranges
  <2>. QED
    BY <1>2, <1>3, <2>1, <2>2 DEF Duplicated
<1>6. CASE KClose
  <2>1. /\ ctx.nr = "close" /\ ctx.fd \in Fd /\ Returns(0)
        /\ Files' = [Files EXCEPT ![ctx.fd] = "none"]
    BY <1>6, KCloseEffect
  <2>2. ctx'.nr = ctx.nr
    BY <1>1, <2>1, ReturnsOK
  <2>. QED
    BY <1>2, <1>3, <2>1, <2>2 DEF Duplicated
<1>7. CASE KDup
  <2>1. PICK fd \in Fd \ DOMAIN fds :
           /\ ctx.nr \in {"dup", "fcntl"} /\ ctx.fd \in Fd /\ ctx.fd \in DOMAIN fds
           /\ Returns(fd) /\ Files' = [Files EXCEPT ![fd] = Files[ctx.fd]]
    BY <1>7, KDupEffect
  <2>2. fd \in Int /\ ctx'.nr = ctx.nr
    BY <1>1, <2>1, ReturnsOK, Ranges
  <2>. QED
    BY <1>2, <1>3, <2>1, <2>2 DEF Duplicated
<1>8. CASE KDup2
  <2>1. /\ ctx.nr \in {"dup2", "dup3"} /\ ctx.fd \in Fd
        /\ Returns(ctx.newfd) /\ Files' = [Files EXCEPT ![ctx.newfd] = Files[ctx.fd]]
    BY <1>8, KDup2Effect
  <2>2. ctx.newfd \in Int /\ ctx'.nr = ctx.nr /\ ctx'.newfd = ctx.newfd
    BY <1>1, <2>1, ReturnsOK, Arguments
  <2>3. ctx.newfd \notin fdset
    BY <1>1, <2>1 DEF Careful
  <2>. QED
    BY <1>2, <1>3, <2>1, <2>2, <2>3 DEF Duplicated
<1>9. CASE KRead \/ KPread \/ KMmap \/ KOverwrite \/ KLseek
  <2>1. PICK r \in Int : Returns(r)
    BY <1>1, <1>9, KReadEffect, KPreadEffect, KMmapEffect, KOverwriteEffect, KLseekEffect,
       Arguments
  <2>2. Files' = Files /\ ctx.nr \notin {"dup", "dup2", "dup3"}
    BY <1>9, KReadEffect, KPreadEffect, KMmapEffect, KOverwriteEffect, KLseekEffect
  <2>3. ctx'.nr = ctx.nr
    BY <1>1, <2>1, ReturnsOK
  <2>. QED
    BY <1>2, <2>1, <2>2, <2>3 DEF Duplicated
<1>10. CASE KFail
  <2>1. PICK e \in Errors : Returns(e)
    BY <1>10, KFailEffect
  <2>2. Files' = Files /\ ctx.nr \notin {"dup2", "dup3"}
    BY <1>1, <1>10, KFailEffect, CarefulSucceeds
  <2>3. e \in Int /\ e \notin Fd
    BY Ranges DEF Errors
  <2>4. ctx'.nr = ctx.nr
    BY <1>1, <2>1, <2>3, ReturnsOK
  <2>. QED
    BY <1>2, <2>1, <2>2, <2>3, <2>4 DEF Duplicated
<1>. QED
  BY <1>5, <1>6, <1>7, <1>8, <1>9, <1>10 DEF Kernel

\* A hook adds no descriptor but one of a tracked file, and forgets a closed one.
LEMMA SoundPost ==
    ASSUME TypeInv, SoundInv, PostSyscall
    PROVE  SoundInv'
<1>1. /\ Files' = Files /\ phase = "post" /\ phase' = "app" /\ TableOK /\ CtxOK /\ ResultOK
  BY PostEffect DEF HookOK, TypeInv
<1>2. SUFFICES \A fd \in Fd \cap fdset' : Files[fd] \in Tracked
  BY <1>1 DEF SoundInv
<1>3. ctx.newfd \in Fd /\ ctx.ret \in Int
  BY <1>1, Arguments
<1>4. CASE post_open_hook
  <2>1. ~Ignored(ctx.ret) => ctx.ret \in Fd /\ Files[ctx.ret] \in Tracked
    BY <1>1, Views DEF Ignored, Matching, Tracked, FileOf
  <2>. QED
    BY <1>4, <2>1 DEF post_open_hook, SoundInv
<1>5. CASE post_dup_hook \/ post_dup2_hook
  <2>1. ctx.fd \in fdset => ctx.fd \in Fd /\ Files[ctx.fd] \in Tracked
    BY <1>1, <1>5, Arguments DEF post_dup_hook, post_dup2_hook, SoundInv, CtxOK
  <2>2. \A fd \in Fd : Duplicated(fd) => Files[fd] = Files[ctx.fd]
    BY <1>1 DEF SoundInv
  <2>. QED
    BY <1>3, <1>5, <2>1, <2>2 DEF post_dup_hook, post_dup2_hook, Duplicated, SoundInv
<1>6. CASE post_close_hook
  BY <1>3, <1>6 DEF post_close_hook, SoundInv
<1>7. CASE post_read_hook \/ post_pread64_hook \/ post_mmap_hook \/ post_munmap_hook
           \/ DefaultCleanup
  BY <1>7 DEF post_read_hook, post_pread64_hook, post_mmap_hook, post_munmap_hook,
              DefaultCleanup, SoundInv, Hooked
<1>. QED
  BY <1>4, <1>5, <1>6, <1>7 DEF PostSyscall

\* SoundInv is inductive.
LEMMA SoundStep == CarefulProgram /\ TypeInv /\ SoundInv /\ [Next]_vars => SoundInv'
<1>. SUFFICES ASSUME CarefulProgram, TypeInv, SoundInv, [Next]_vars PROVE SoundInv'
  OBVIOUS
<1>1. ASSUME NEW c \in Invocation, PreSyscall(c) PROVE SoundInv'
  <2>1. /\ ctx' = c /\ phase = "app" /\ phase' = "kernel" /\ fds' = fds /\ ofds' = ofds
        /\ fdset' = fdset /\ Careful(c)
    BY <1>1 DEF PreSyscall, kernel, CarefulProgram
  <2>2. Files' = Files
    BY <2>1, SameTable DEF TypeInv
  <2>3. Careful(ctx)'
    BY <2>1 DEF Careful
  <2>. QED
    BY <2>1, <2>2, <2>3 DEF SoundInv
<1>2. ASSUME NEW o \in Ofd, NEW p \in 0 .. FileSize, PeerSeek(o, p) PROVE SoundInv'
  <2>1. /\ Files' = Files /\ fdset' = fdset /\ phase' = phase /\ ctx' = ctx /\ phase = "post"
    BY <1>2, PeerEffect
  <2>. QED
    BY <2>1 DEF SoundInv, Duplicated
<1>3. CASE UNCHANGED vars
  <2>1. Files' = Files
    BY <1>3 DEF vars, Files, FileOf
  <2>. QED
    BY <1>3, <2>1 DEF vars, SoundInv, Duplicated, Careful
<1>. QED
  BY <1>1, <1>2, <1>3, SoundKernel, SoundPost DEF Next, Ended

\* Between two calls only descriptors that resolve to a tracked file are in fdset,
\* for every program that uses dup2 and dup3 with care, whatever unhooked calls
\* and other processes do (FdsetSound).
THEOREM NothingElseIsTracked == CarefulProgram => (Spec => []FdsetSound)
<1>. SUFFICES ASSUME CarefulProgram PROVE Spec => []FdsetSound
  OBVIOUS
<1>1. Init => SoundInv
  BY DEF Init, SoundInv
<1>2. TypeInv /\ SoundInv => FdsetSound
  BY Views DEF TypeInv, SoundInv, FdsetSound, Resolves, Tracked
<1>3. TypeInv /\ SoundInv /\ [Next]_vars => SoundInv'
  BY SoundStep
<1>. QED
  BY <1>1, <1>2, <1>3, TypeInit, TypeStep, PTL DEF Spec

-----------------------------------------------------------------------------
(* No descriptor of the input is missed *)

\* The kernel hands out a descriptor of the input only as the result, or as the twin, of
\* the call that the hook is about to look at.
LEMMA CompleteKernel ==
    ASSUME "fcntl" \notin Calls, TypeInv, CompleteInv, Kernel
    PROVE  CompleteInv'
<1>. DEFINE New(fd, r) == \/ ctx.nr \in {"open", "openat"} /\ fd = r
                          \/ ctx.nr = "dup" /\ fd = r /\ ctx.fd \in fdset
                          \/ ctx.nr \in {"dup2", "dup3"} /\ fd = ctx.newfd /\ ctx.fd \in fdset
            Complete(r) == /\ \A fd \in Fd : Files'[fd] \in Tracked =>
                                 fd \in fdset \/ New(fd, r)
                           /\ ctx.nr = "close" /\ r >= 0 => Files'[ctx.fd] = "none"
<1>1. phase = "kernel" /\ CtxOK /\ TableOK
  BY DEF Kernel, TypeInv
<1>2. \A fd \in Fd : Files[fd] \in Tracked => fd \in fdset
  BY <1>1 DEF CompleteInv
<1>3. Files \in [Fd -> File \cup {"none"}] /\ ctx.newfd \in Fd /\ ctx.newfd \in Int
  BY <1>1, Views, Arguments
<1>4. SUFFICES \E r \in Int : Returns(r) /\ Complete(r)
  <2>1. PICK r \in Int : Returns(r) /\ Complete(r)
    BY <1>4
  <2>2. /\ ctx'.ret = r /\ ctx'.nr = ctx.nr /\ ctx'.fd = ctx.fd /\ ctx'.newfd = ctx.newfd
        /\ phase' = "post" /\ fdset' = fdset
    BY <1>1, <2>1, ReturnsOK
  <2>. QED
    BY <2>1, <2>2 DEF CompleteInv, Duplicated
<1>5. CASE KOpen
  <2>1. PICK fd \in Fd \ DOMAIN fds :
           /\ ctx.nr \in {"open", "openat"} /\ Returns(fd)
           /\ Files' = [Files EXCEPT ![fd] = ctx.file]
    BY <1>5, KOpenEffect
  <2>2. fd \in Int
    BY Ranges
  <2>3. Complete(fd)
    BY <1>2, <1>3, <2>1
  <2>. QED
    BY <2>1, <2>2, <2>3
<1>6. CASE KClose
  <2>1. /\ ctx.nr = "close" /\ ctx.fd \in Fd /\ Returns(0)
        /\ Files' = [Files EXCEPT ![ctx.fd] = "none"]
    BY <1>6, KCloseEffect
  <2>. QED
    BY <1>2, <1>3, <2>1 DEF Tracked
<1>7. CASE KDup
  <2>1. PICK fd \in Fd \ DOMAIN fds :
           /\ ctx.nr \in {"dup", "fcntl"} /\ ctx.fd \in Fd
           /\ Returns(fd) /\ Files' = [Files EXCEPT ![fd] = Files[ctx.fd]]
    BY <1>7, KDupEffect
  <2>2. fd \in Int
    BY Ranges
  <2>3. ctx.nr = "dup"
    BY <1>1, <2>1, Arguments
  <2>4. Complete(fd)
    BY <1>2, <1>3, <2>1, <2>3
  <2>. QED
    BY <2>1, <2>2, <2>4
<1>8. CASE KDup2
  <2>1. /\ ctx.nr \in {"dup2", "dup3"} /\ ctx.fd \in Fd
        /\ Returns(ctx.newfd) /\ Files' = [Files EXCEPT ![ctx.newfd] = Files[ctx.fd]]
    BY <1>8, KDup2Effect
  <2>. QED
    BY <1>2, <1>3, <2>1
<1>9. CASE KRead \/ KPread \/ KMmap \/ KOverwrite \/ KLseek
  <2>1. PICK r \in Int : Returns(r)
    BY <1>1, <1>9, KReadEffect, KPreadEffect, KMmapEffect, KOverwriteEffect, KLseekEffect,
       Arguments
  <2>2. Files' = Files /\ ctx.nr # "close"
    BY <1>9, KReadEffect, KPreadEffect, KMmapEffect, KOverwriteEffect, KLseekEffect
  <2>. QED
    BY <1>2, <2>1, <2>2
<1>10. CASE KFail
  <2>1. PICK e \in Errors : Returns(e)
    BY <1>10, KFailEffect
  <2>2. Files' = Files
    BY <1>10, KFailEffect
  <2>3. e \in Int /\ e < 0
    BY DEF Errors
  <2>. QED
    BY <1>2, <2>1, <2>2, <2>3
<1>. QED
  BY <1>5, <1>6, <1>7, <1>8, <1>9, <1>10 DEF Kernel

\* The hook inserts that descriptor, and drops only the one that was closed.
LEMMA CompletePost ==
    ASSUME TypeInv, CompleteInv, PostSyscall
    PROVE  CompleteInv'
<1>1. /\ Files' = Files /\ phase = "post" /\ phase' = "app" /\ TableOK /\ CtxOK
  BY PostEffect DEF HookOK, TypeInv
<1>2. SUFFICES \A fd \in Fd : Files[fd] \in Tracked => fd \in fdset'
  BY <1>1 DEF CompleteInv
<1>3. ctx.ret \in Int /\ \A fd \in Fd : fd # -1
  BY <1>1, Arguments, Ranges
<1>4. CASE post_open_hook
  <2>1. ctx.ret \in Fd /\ Files[ctx.ret] \in Tracked => ~Ignored(ctx.ret)
    BY <1>1, Views DEF Ignored, Matching, Tracked
  <2>. QED
    BY <1>4, <2>1 DEF post_open_hook, CompleteInv, Duplicated
<1>5. CASE post_dup_hook \/ post_dup2_hook
  BY <1>3, <1>5 DEF post_dup_hook, post_dup2_hook, CompleteInv, Duplicated
<1>6. CASE post_close_hook
  BY <1>1, <1>3, <1>6 DEF post_close_hook, CompleteInv, Duplicated, Tracked
<1>7. CASE post_read_hook \/ post_pread64_hook \/ post_mmap_hook \/ post_munmap_hook
           \/ DefaultCleanup
  BY <1>7 DEF post_read_hook, post_pread64_hook, post_mmap_hook, post_munmap_hook,
              DefaultCleanup, CompleteInv, Duplicated, Hooked
<1>. QED
  BY <1>4, <1>5, <1>6, <1>7 DEF PostSyscall

\* CompleteInv is inductive.
LEMMA CompleteStep == "fcntl" \notin Calls /\ TypeInv /\ CompleteInv /\ [Next]_vars => CompleteInv'
<1>. SUFFICES ASSUME "fcntl" \notin Calls, TypeInv, CompleteInv, [Next]_vars PROVE CompleteInv'
  OBVIOUS
<1>1. ASSUME NEW c \in Invocation, PreSyscall(c) PROVE CompleteInv'
  <2>1. /\ phase = "app" /\ phase' = "kernel" /\ fds' = fds /\ ofds' = ofds /\ fdset' = fdset
    BY <1>1 DEF PreSyscall, kernel
  <2>2. Files' = Files
    BY <2>1, SameTable DEF TypeInv
  <2>. QED
    BY <2>1, <2>2 DEF CompleteInv
<1>2. ASSUME NEW o \in Ofd, NEW p \in 0 .. FileSize, PeerSeek(o, p) PROVE CompleteInv'
  <2>1. /\ Files' = Files /\ fdset' = fdset /\ phase' = phase /\ ctx' = ctx
    BY <1>2, PeerEffect
  <2>. QED
    BY <2>1 DEF CompleteInv, Duplicated
<1>3. CASE UNCHANGED vars
  <2>1. Files' = Files
    BY <1>3 DEF vars, Files, FileOf
  <2>. QED
    BY <1>3, <2>1 DEF vars, CompleteInv, Duplicated
<1>. QED
  BY <1>1, <1>2, <1>3, CompleteKernel, CompletePost DEF Next, Ended

\* Initially there is no descriptor to miss.
LEMMA CompleteInit == Init => CompleteInv
  BY DEF Init, CompleteInv, Files, FileOf, Tracked

\* Between two calls every descriptor of a tracked file is in fdset, however it was
\* obtained, for every program that does not use the unhooked fcntl: no care in the
\* use of dup2 is needed for that, and no failure loses one (FdsetComplete).
THEOREM NoSourceIsMissed == "fcntl" \notin Calls => (Spec => []FdsetComplete)
<1>. SUFFICES ASSUME "fcntl" \notin Calls PROVE Spec => []FdsetComplete
  OBVIOUS
<1>1. TypeInv /\ CompleteInv => FdsetComplete
  BY Views DEF TypeInv, CompleteInv, FdsetComplete, Resolves, Tracked
<1>2. TypeInv /\ CompleteInv /\ [Next]_vars => CompleteInv'
  BY CompleteStep
<1>. QED
  BY <1>1, <1>2, CompleteInit, TypeInit, TypeStep, PTL DEF Spec

-----------------------------------------------------------------------------
(* What the kernel delivers and what the hooks paint *)

\* A call that failed, delivered nothing, or has no buffer has written nothing.
LEMMA WindowFacts ==
    ASSUME NEW c, c.ret \in Int, c.buf \in Nat
    PROVE  /\ c.nr \in {"read", "pread64"} =>
                 Window(c) = {a \in Addr : c.buf <= a /\ a < c.buf + c.ret}
           /\ c.nr \in {"mmap", "munmap", "fstat"} /\ c.ret >= 0 =>
                 Window(c) = {a \in Addr : c.buf <= a /\ a < c.buf + c.n}
           /\ c.nr \in {"mmap", "munmap", "fstat"} /\ c.ret < 0 => Window(c) = {}
           /\ c.nr \notin {"read", "pread64", "mmap", "munmap", "fstat"} => Window(c) = {}
           /\ c.ret < 0 => Window(c) = {}
           /\ Window(c) \subseteq Addr
<1>1. CASE c.nr \in {"read", "pread64"}
  <2>1. Window(c) = {a \in Addr : c.buf <= a /\ a < c.buf + c.ret}
    BY <1>1 DEF Window
  <2>2. ASSUME c.ret < 0, NEW a \in Addr PROVE ~(c.buf <= a /\ a < c.buf + c.ret)
    BY <2>2, Ranges
  <2>3. c.ret < 0 => Window(c) = {}
    BY <2>1, <2>2
  <2>. QED
    BY <1>1, <2>1, <2>3
<1>2. CASE c.nr \in {"mmap", "munmap", "fstat"} /\ c.ret >= 0
  BY <1>2 DEF Window
<1>3. CASE c.nr \in {"mmap", "munmap", "fstat"} /\ c.ret < 0
  BY <1>3 DEF Window
<1>4. CASE c.nr \notin {"read", "pread64", "mmap", "munmap", "fstat"}
  BY <1>4 DEF Window
<1>. QED
  BY <1>1, <1>2, <1>3, <1>4

\* A byte in the window holds what the descriptor has at that place.
Delivered(a) ==
    IF Delivers /\ Files[ctx.fd] = "input"
    THEN /\ content[a] = ByteAt("input", Start + (a - ctx.buf))
         /\ ctx.nr # "mmap" => content[a] # None
    ELSE content[a] = None

\* The kernel writes the bytes of the window and no other ones.
LEMMA KernelFills ==
    ASSUME "readv" \notin Calls, TypeInv, Kernel
    PROVE  /\ phase = "kernel" /\ phase' = "post" /\ mem' = mem /\ status' = status
           /\ \A a \in Addr \ Window(ctx') : content'[a] = content[a]
           /\ \A a \in Window(ctx') : Delivered(a)'
           /\ Window(ctx') \subseteq Addr
<1>1. phase = "kernel" /\ CtxOK /\ TableOK
  BY DEF Kernel, TypeInv
<1>2. /\ ctx.n \in Nat /\ ctx.buf \in Nat /\ ctx.off \in Nat /\ ctx.newfd \in Int
      /\ ctx.nr \in Calls \cup {"none"}
  BY <1>1, Arguments
<1>3. Addr \subseteq Nat /\ None \notin Fd /\ 0 .. FileSize - 1 = Input /\ None = -1
  BY Ranges DEF Input, None
<1>4. ASSUME NEW r \in Int, Returns(r), content' = content,
             \/ ctx.nr \notin {"read", "pread64", "mmap", "munmap", "fstat"}
             \/ r < 0
      PROVE  /\ phase' = "post" /\ mem' = mem /\ status' = status
             /\ Window(ctx') = {} /\ content' = content
  <2>1. /\ ctx'.ret = r /\ ctx'.nr = ctx.nr /\ ctx'.buf = ctx.buf
        /\ phase' = "post" /\ mem' = mem /\ status' = status
    BY <1>1, <1>4, ReturnsOK
  <2>. QED
    BY <1>2, <1>4, <2>1, WindowFacts
<1>5. CASE KOpen \/ KClose \/ KDup \/ KDup2 \/ KLseek \/ KFail
  <2>1. content' = content
    BY <1>5, KOpenEffect, KCloseEffect, KDupEffect, KDup2Effect, KLseekEffect, KFailEffect
  <2>2. \E r \in Int : Returns(r) /\
           (ctx.nr \notin {"read", "pread64", "mmap", "munmap", "fstat"} \/ r < 0)
    <3>1. CASE KFail
      <4>1. \A e \in Errors : e \in Int /\ e < 0
        BY DEF Errors
      <4>. QED
        BY <3>1, <4>1, KFailEffect
    <3>2. CASE KOpen \/ KDup
      BY <3>2, KOpenEffect, KDupEffect, Ranges
    <3>3. CASE KClose \/ KDup2 \/ KLseek
      BY <1>2, <3>3, KCloseEffect, KDup2Effect, KLseekEffect
    <3>. QED
      BY <1>5, <3>1, <3>2, <3>3
  <2>. QED
    BY <1>1, <1>4, <2>1, <2>2
<1>6. CASE KRead
  <2>1. PICK k \in Nat :
           /\ ctx.nr \in {"read", "readv"} /\ ctx.fd \in Fd
           /\ k <= ctx.n /\ Returns(k) /\ Files' = Files
           /\ FilledWith(k, Files[ctx.fd], Positions[ctx.fd])
           /\ Files[ctx.fd] # "fifo" =>
                 /\ Positions[ctx.fd] + k <= FileSize
                 /\ Positions'[ctx.fd] = Positions[ctx.fd] + k
    BY <1>6, KReadEffect
  <2>2. /\ ctx'.ret = k /\ ctx'.nr = "read" /\ ctx'.fd = ctx.fd /\ ctx'.buf = ctx.buf
        /\ phase' = "post" /\ mem' = mem /\ status' = status
    BY <1>1, <1>2, <2>1, ReturnsOK
  <2>3. Window(ctx') = {a \in Addr : ctx.buf <= a /\ a < ctx.buf + k}
    BY <1>2, <2>2, WindowFacts
  <2>4. Positions[ctx.fd] \in Nat
    BY <1>1, <2>1, Views, BoundsAssumption
  <2>5. ASSUME NEW a \in Window(ctx') PROVE Delivered(a)'
    <3>. DEFINE q == Positions[ctx.fd] + (a - ctx.buf)
    <3>1. a \in Nat /\ ctx.buf <= a /\ a < ctx.buf + k /\ a \in Addr
      BY <1>3, <2>3
    <3>2. content'[a] = ByteAt(Files[ctx.fd], q)
      BY <2>1, <3>1 DEF FilledWith
    <3>3. CASE Files[ctx.fd] # "input"
      BY <2>1, <2>2, <3>2, <3>3 DEF ByteAt, Delivered
    <3>4. CASE Files[ctx.fd] = "input"
      <4>1. q \in Input /\ q # None
        <5>1. Positions[ctx.fd] + k <= FileSize
          BY <2>1, <3>4
        <5>2. q \in 0 .. FileSize - 1
          BY <1>2, <2>4, <3>1, <5>1, BoundsAssumption
        <5>3. q # -1
          BY <1>2, <2>4, <3>1
        <5>. HIDE DEF q
        <5>. QED
          BY <5>2, <5>3 DEF Input, None
      <4>2. Start' + (a - ctx.buf) = q
        BY <1>2, <2>1, <2>2, <2>4, <3>1, <3>4 DEF Start
      <4>. HIDE DEF q
      <4>3. Delivers'
        BY <2>2 DEF Delivers
      <4>. QED
        BY <2>1, <2>2, <3>2, <3>4, <4>1, <4>2, <4>3 DEF ByteAt, Delivered
    <3>. QED
      BY <3>3, <3>4
  <2>. QED
    BY <1>1, <2>1, <2>2, <2>3, <2>5 DEF FilledWith
<1>7. CASE KPread
  <2>1. PICK k \in Nat :
           /\ ctx.nr = "pread64" /\ ctx.fd \in Fd
           /\ k <= ctx.n /\ Returns(k) /\ Files' = Files
           /\ FilledWith(k, Files[ctx.fd], ctx.off)
           /\ k > 0 => ctx.off + k <= FileSize
    BY <1>7, KPreadEffect
  <2>2. /\ ctx'.ret = k /\ ctx'.nr = "pread64" /\ ctx'.fd = ctx.fd /\ ctx'.buf = ctx.buf
        /\ ctx'.off = ctx.off /\ phase' = "post" /\ mem' = mem /\ status' = status
    BY <1>1, <1>2, <2>1, ReturnsOK
  <2>3. Window(ctx') = {a \in Addr : ctx.buf <= a /\ a < ctx.buf + k}
    BY <1>2, <2>2, WindowFacts
  <2>4. ASSUME NEW a \in Window(ctx') PROVE Delivered(a)'
    <3>. DEFINE q == ctx.off + (a - ctx.buf)
    <3>1. a \in Nat /\ ctx.buf <= a /\ a < ctx.buf + k /\ a \in Addr
      BY <1>3, <2>3
    <3>2. content'[a] = ByteAt(Files[ctx.fd], q)
      BY <2>1, <3>1 DEF FilledWith
    <3>3. q \in Input /\ q # None
      BY <1>2, <1>3, <2>1, <3>1, BoundsAssumption
    <3>4. Start' + (a - ctx.buf) = q /\ Delivers'
      BY <2>2 DEF Start, Delivers
    <3>. HIDE DEF q
    <3>. QED
      BY <2>1, <2>2, <3>2, <3>3, <3>4 DEF ByteAt, Delivered
  <2>. QED
    BY <1>1, <2>1, <2>2, <2>3, <2>4 DEF FilledWith
<1>8. CASE KMmap
  <2>1. /\ ctx.nr = "mmap" /\ ctx.fd \in Fd /\ Returns(ctx.buf) /\ Files' = Files
        /\ FilledWith(ctx.n, Files[ctx.fd], ctx.off)
    BY <1>8, KMmapEffect
  <2>2. /\ ctx'.ret = ctx.buf /\ ctx'.nr = "mmap" /\ ctx'.fd = ctx.fd /\ ctx'.buf = ctx.buf
        /\ ctx'.off = ctx.off /\ ctx'.n = ctx.n
        /\ phase' = "post" /\ mem' = mem /\ status' = status
    BY <1>1, <1>2, <2>1, ReturnsOK
  <2>3. Window(ctx') = {a \in Addr : ctx.buf <= a /\ a < ctx.buf + ctx.n}
    BY <1>2, <2>2, WindowFacts
  <2>4. ASSUME NEW a \in Window(ctx') PROVE Delivered(a)'
    <3>1. content'[a] = ByteAt(Files[ctx.fd], ctx.off + (a - ctx.buf))
      BY <2>1, <2>3 DEF FilledWith
    <3>2. Start' = ctx.off /\ Delivers'
      BY <1>3, <2>1, <2>2 DEF Start, Delivers
    <3>. QED
      BY <2>1, <2>2, <3>1, <3>2 DEF ByteAt, Delivered
  <2>. QED
    BY <1>1, <2>1, <2>2, <2>3, <2>4 DEF FilledWith
<1>9. CASE KOverwrite
  <2>. DEFINE r == IF ctx.nr = "mmap" THEN ctx.buf ELSE 0
  <2>1. /\ ctx.nr \in {"munmap", "fstat"} \/ (ctx.nr = "mmap" /\ ctx.fd = None)
        /\ Returns(r)
        /\ \A a \in Addr :
              content'[a] = IF ctx.buf <= a /\ a < ctx.buf + ctx.n THEN None ELSE content[a]
    BY <1>9, KOverwriteEffect
  <2>2. r \in Int /\ r >= 0
    BY <1>2
  <2>. HIDE DEF r
  <2>3. /\ ctx'.ret = r /\ ctx'.nr = ctx.nr /\ ctx'.fd = ctx.fd /\ ctx'.buf = ctx.buf
        /\ ctx'.n = ctx.n /\ phase' = "post" /\ mem' = mem /\ status' = status
    BY <1>1, <2>1, <2>2, ReturnsOK
  <2>4. Window(ctx') = {a \in Addr : ctx.buf <= a /\ a < ctx.buf + ctx.n}
    BY <1>2, <2>1, <2>2, <2>3, WindowFacts
  <2>5. ~Delivers'
    BY <2>1, <2>3 DEF Delivers
  <2>. QED
    BY <1>1, <2>1, <2>3, <2>4, <2>5 DEF Delivered
<1>. QED
  BY <1>5, <1>6, <1>7, <1>8, <1>9 DEF Kernel

\* Where the labels of a hook start.
PaintStart == IF ctx.nr = "read" THEN lseek_cur(ctx.fd) - ctx.ret ELSE ctx.off

\* A hook that comes back has painted the bytes of the window when they came from a
\* tracked descriptor, has cleared them when not, and has touched no other byte.
LEMMA HookPaints ==
    ASSUME TypeInv, mmap_type = 1, ~GrowsDown, PostSyscall, status' = "running"
    PROVE  /\ \A a \in Addr \ Window(ctx) : mem'[a] = mem[a]
           /\ \A a \in Window(ctx) :
                 mem'[a] = IF Delivers /\ ctx.fd \in fdset
                           THEN {Label(PaintStart + a - ctx.buf)} ELSE {}
           /\ ctx.nr = "mmap" /\ ctx.ret >= 0 /\ ctx.fd \in fdset => ctx.off <= FileSize
<1>1. /\ phase = "post" /\ CtxOK /\ TableOK /\ ResultOK /\ None \notin fdset /\ status = "running"
      /\ mem \in LabelSets
  BY PostEffect DEF TypeInv, LabelSets
<1>2. /\ ctx.n \in Nat /\ ctx.buf \in Nat /\ ctx.off \in Nat /\ ctx.ret \in Int
      /\ ctx.off <= FileSize + 1 /\ ctx.fd \in Int
  BY <1>1, Arguments
<1>3. Addr \subseteq Int
  BY Ranges
<1>4. CASE post_open_hook \/ post_dup_hook \/ post_dup2_hook \/ post_close_hook
  <2>1. mem' = mem /\ ctx.nr \notin {"read", "pread64", "mmap", "munmap", "fstat"}
    BY <1>4 DEF post_open_hook, post_dup_hook, post_dup2_hook, post_close_hook
  <2>. QED
    BY <1>2, <2>1, WindowFacts
<1>5. CASE post_read_hook
  <2>1. ctx.nr = "read" /\ Delivers
    BY <1>5 DEF post_read_hook, Delivers
  <2>2. Window(ctx) = {a \in Addr : ctx.buf <= a /\ a < ctx.buf + ctx.ret}
    BY <1>2, <2>1, WindowFacts
  <2>3. CASE ctx.ret <= 0
    <3>1. mem' = mem
      BY <1>5, <2>3 DEF post_read_hook
    <3>2. \A a \in Addr : ~(ctx.buf <= a /\ a < ctx.buf + ctx.ret)
      BY <1>2, <1>3, <2>3
    <3>. QED
      BY <2>1, <2>2, <3>1, <3>2
  <2>4. CASE ctx.ret > 0
    <3>1. PaintOrClear(ctx.fd, ctx.buf, ctx.ret, PaintStart)
      BY <1>2, <1>5, <2>1, <2>4 DEF post_read_hook, PaintStart
    <3>. QED
      BY <2>1, <2>2, <3>1 DEF PaintOrClear, Paint, ClearTags
  <2>5. ctx.ret <= 0 \/ ctx.ret > 0
    BY <1>2
  <2>. QED
    BY <2>3, <2>4, <2>5
<1>6. CASE post_pread64_hook
  <2>1. ctx.nr = "pread64" /\ Delivers
    BY <1>6 DEF post_pread64_hook, Delivers
  <2>2. Window(ctx) = {a \in Addr : ctx.buf <= a /\ a < ctx.buf + ctx.ret}
    BY <1>2, <2>1, WindowFacts
  <2>3. CASE ctx.ret < 0
    BY <1>2, <1>6, <2>1, <2>3, WindowFacts DEF post_pread64_hook
  <2>4. CASE ctx.ret >= 0
    <3>1. PaintOrClear(ctx.fd, ctx.buf, ctx.ret, PaintStart)
      BY <1>2, <1>6, <2>1, <2>4 DEF post_pread64_hook, PaintStart
    <3>. QED
      BY <2>1, <2>2, <3>1 DEF PaintOrClear, Paint, ClearTags
  <2>5. ctx.ret < 0 \/ ctx.ret >= 0
    BY <1>2
  <2>. QED
    BY <2>3, <2>4, <2>5
<1>7. CASE post_mmap_hook
  <2>1. ctx.nr = "mmap"
    BY <1>7 DEF post_mmap_hook
  <2>2. CASE ctx.ret < 0
    <3>1. mem' = mem
      BY <1>2, <1>7, <2>2 DEF post_mmap_hook, MmapFailed
    <3>. QED
      BY <1>2, <2>1, <2>2, <3>1, WindowFacts
  <2>3. CASE ctx.ret >= 0
    <3>1. Window(ctx) = {a \in Addr : ctx.buf <= a /\ a < ctx.buf + ctx.n}
      BY <1>2, <2>1, <2>3, WindowFacts
    <3>2. MapStart = ctx.buf
      BY <1>1, <2>1, <2>3, MapStartInt DEF CtxOK, ResultOK
    <3>3. CASE ctx.fd \notin fdset
      <4>1. ClearTags(ctx.buf, ctx.n)
        BY <1>2, <1>7, <2>3, <3>2, <3>3 DEF post_mmap_hook
      <4>. QED
        BY <3>1, <3>3, <4>1 DEF ClearTags
    <3>4. CASE ctx.fd \in fdset
      <4>1. Delivers /\ PaintStart = ctx.off /\ ctx.fd \in DOMAIN fds /\ Mappable(Files[ctx.fd])
        BY <1>1, <2>1, <2>3, <3>4 DEF Delivers, PaintStart, ResultOK
      <4>2. MmapAtOffset
        BY <1>2, <1>7, <2>3, <3>4 DEF post_mmap_hook, MmapAtPosition
      <4>3. ~PastEnd
        BY <4>2 DEF MmapAtOffset, Unusable
      <4>4. Paint(ctx.buf, ctx.n, ctx.off)
        BY <3>2, <4>2, <4>3 DEF MmapAtOffset
      <4>5. ~(Label(ctx.off) > Label(FileSize))
        BY <1>1, <4>1, <4>3, Views DEF PastEnd, SizeOf, Mappable
      <4>6. Label(ctx.off) = ctx.off /\ Label(FileSize) = FileSize
        BY <1>2, LabelFacts, BoundsAssumption
      <4>7. ctx.off <= FileSize
        BY <1>2, <4>5, <4>6, BoundsAssumption
      <4>. QED
        BY <3>1, <3>4, <4>1, <4>4, <4>7 DEF Paint
    <3>. QED
      BY <3>3, <3>4
  <2>4. ctx.ret < 0 \/ ctx.ret >= 0
    BY <1>2
  <2>. QED
    BY <2>2, <2>3, <2>4
<1>8. CASE post_munmap_hook
  <2>1. ctx.nr = "munmap" /\ ~Delivers
    BY <1>8 DEF post_munmap_hook, Delivers
  <2>2. CASE ctx.ret < 0
    BY <1>2, <1>8, <2>1, <2>2, WindowFacts DEF post_munmap_hook
  <2>3. CASE ctx.ret >= 0
    <3>1. ClearTags(ctx.buf, ctx.n)
      BY <1>2, <1>8, <2>3 DEF post_munmap_hook
    <3>. QED
      BY <1>2, <2>1, <2>3, <3>1, WindowFacts DEF ClearTags
  <2>4. ctx.ret < 0 \/ ctx.ret >= 0
    BY <1>2
  <2>. QED
    BY <2>2, <2>3, <2>4
<1>9. CASE DefaultCleanup
  <2>1. ctx.nr \notin Hooked
    BY <1>9 DEF DefaultCleanup
  <2>2. CASE ctx.nr = "fstat" /\ ctx.ret >= 0
    <3>1. ClearTags(ctx.buf, ctx.n)
      BY <1>9, <2>2 DEF DefaultCleanup
    <3>. QED
      BY <1>2, <2>2, <3>1, WindowFacts DEF ClearTags, Delivers
  <2>3. CASE ~(ctx.nr = "fstat" /\ ctx.ret >= 0)
    <3>1. mem' = mem
      BY <1>9, <2>3 DEF DefaultCleanup
    <3>2. Window(ctx) = {}
      BY <1>2, <2>1, <2>3, WindowFacts DEF Hooked
    <3>. QED
      BY <2>1, <3>1, <3>2 DEF Hooked
  <2>. QED
    BY <2>2, <2>3
<1>. QED
  BY <1>4, <1>5, <1>6, <1>7, <1>8, <1>9 DEF PostSyscall

-----------------------------------------------------------------------------
(* Every byte of the input carries its offset *)

\* The hook paints the buffer of a tracked descriptor with the offsets the kernel read from.
LEMMA TaggedPost ==
    ASSUME ExactProgram, TypeInv, CompleteInv, TaggedInv, PostSyscall
    PROVE  TaggedInv'
<1>1. /\ phase = "post" /\ phase' = "app" /\ content' = content /\ CtxOK /\ TableOK
      /\ status = "running" /\ content \in [Addr -> Input \cup {None}]
  BY PostEffect DEF TypeInv
<1>2. Filled = Window(ctx) /\ Filled' = {}
  BY <1>1 DEF Filled
<1>3. SUFFICES ASSUME status' = "running", NEW a \in Addr, content[a] # None
               PROVE  mem'[a] = {content[a]}
  BY <1>1, <1>2 DEF TaggedInv
<1>4. /\ \A x \in Addr \ Window(ctx) : mem'[x] = mem[x]
      /\ \A x \in Window(ctx) :
            mem'[x] = IF Delivers /\ ctx.fd \in fdset
                      THEN {Label(PaintStart + x - ctx.buf)} ELSE {}
  BY <1>3, HookPaints DEF ExactProgram
<1>5. CASE a \notin Window(ctx)
  BY <1>1, <1>2, <1>3, <1>4, <1>5 DEF TaggedInv
<1>6. CASE a \in Window(ctx)
  <2>1. Delivers /\ Files[ctx.fd] = "input" /\ content[a] = Start + a - ctx.buf
    BY <1>1, <1>2, <1>3, <1>6 DEF TaggedInv
  <2>2. ctx.fd \in Fd /\ ctx.fd # None
    BY <1>1, <2>1, Arguments DEF Delivers, CtxOK
  <2>3. ctx.fd \in fdset
    BY <1>1, <2>1, <2>2 DEF CompleteInv, Delivers, Duplicated, Tracked
  <2>4. ctx.fd \in DOMAIN fds /\ FileOf(ctx.fd) = "input"
    BY <1>1, <2>1, <2>2, Views
  <2>5. PaintStart = Start
    BY <1>1, <2>4, Views DEF PaintStart, Start, lseek_cur
  <2>6. content[a] \in 0 .. LABELS - 1
    BY <1>1, <1>3, BoundsAssumption DEF Input
  <2>. QED
    BY <1>4, <1>6, <2>1, <2>3, <2>5, <2>6, LabelFacts
<1>. QED
  BY <1>5, <1>6

\* The kernel writes nothing but the buffer, and there what the hook will find.
LEMMA TaggedKernel ==
    ASSUME ExactProgram, TypeInv, TaggedInv, Kernel
    PROVE  TaggedInv'
<1>1. /\ phase = "kernel" /\ phase' = "post" /\ mem' = mem /\ status' = status
      /\ \A a \in Addr \ Window(ctx') : content'[a] = content[a]
      /\ \A a \in Window(ctx') : Delivered(a)'
      /\ Window(ctx') \subseteq Addr
  BY KernelFills DEF ExactProgram
<1>2. Filled = {} /\ Filled' = Window(ctx')
  BY <1>1 DEF Filled
<1>3. TypeInv'
  BY TypeKernel
<1>4. ctx'.buf \in Int /\ Addr \subseteq Int
  <2>1. ctx'.buf \in Addr
    BY <1>3 DEF TypeInv, CtxOK, Call
  <2>. QED
    BY <2>1, BoundsAssumption DEF Addr
<1>5. ASSUME NEW a \in Window(ctx'), content'[a] # None
      PROVE  /\ Delivers' /\ Files'[ctx'.fd] = "input"
             /\ content'[a] = Start' + a - ctx'.buf
  <2>1. Delivered(a)'
    BY <1>1
  <2>2. /\ Delivers' /\ Files'[ctx'.fd] = "input"
        /\ content'[a] = Start' + (a - ctx'.buf)
    BY <1>5, <2>1 DEF Delivered, ByteAt
  <2>3. Start' \in Int
    <3>1. ctx'.fd \in Fd
      BY <1>3, <2>2 DEF Delivers, TypeInv, CtxOK, Call
    <3>2. Positions'[ctx'.fd] \in Int
      BY <1>3, <3>1 DEF Positions, PosOf, TypeInv, TableOK
    <3>. QED
      BY <1>3, <3>2 DEF TypeInv, CtxOK, Call, Start
  <2>. QED
    BY <1>1, <1>4, <2>2, <2>3
<1>. QED
  BY <1>1, <1>2, <1>5 DEF TaggedInv

\* TaggedInv is inductive; that the hook paints at all rests on CompleteInv.
LEMMA TaggedStep ==
    ExactProgram /\ TypeInv /\ CompleteInv /\ TaggedInv /\ [Next]_vars => TaggedInv'
<1>. SUFFICES ASSUME ExactProgram, TypeInv, CompleteInv, TaggedInv, [Next]_vars
              PROVE  TaggedInv'
  OBVIOUS
<1>1. ASSUME NEW c \in Invocation, PreSyscall(c) PROVE TaggedInv'
  <2>1. /\ phase = "app" /\ phase' = "kernel" /\ content' = content /\ mem' = mem
        /\ status' = status
    BY <1>1 DEF PreSyscall, kernel
  <2>2. Filled = {} /\ Filled' = {}
    BY <2>1 DEF Filled
  <2>. QED
    BY <2>1, <2>2 DEF TaggedInv
<1>2. ASSUME NEW o \in Ofd, NEW p \in 0 .. FileSize, PeerSeek(o, p) PROVE TaggedInv'
  BY <1>2, PeerEffect DEF ExactProgram
<1>3. CASE UNCHANGED vars
  <2>1. Files' = Files /\ Positions' = Positions
    BY <1>3 DEF vars, Files, FileOf, Positions, PosOf
  <2>2. Filled' = Filled /\ Start' = Start /\ (Delivers' <=> Delivers)
    BY <1>3, <2>1 DEF vars, Filled, Start, Delivers
  <2>. QED
    BY <1>3, <2>1, <2>2 DEF vars, TaggedInv
<1>. QED
  BY <1>1, <1>2, <1>3, TaggedKernel, TaggedPost DEF Next, Ended

\* Between two calls a byte that holds an offset of the input has that label and no
\* other, for every program that reads and maps the input by hooked calls only and
\* shares no position with another process (InputBytesTagged).
THEOREM OffsetsAreExact == ExactProgram => (Spec => []InputBytesTagged)
<1>. SUFFICES ASSUME ExactProgram PROVE Spec => []InputBytesTagged
  OBVIOUS
<1>1. Init => TaggedInv
  BY DEF Init, TaggedInv, Filled
<1>2. TaggedInv => InputBytesTagged
  BY DEF TaggedInv, InputBytesTagged, Filled
<1>3. TypeInv /\ CompleteInv /\ TaggedInv /\ [Next]_vars => TaggedInv'
  BY TaggedStep
<1>4. TypeInv /\ CompleteInv /\ [Next]_vars => CompleteInv'
  BY CompleteStep DEF ExactProgram
<1>. QED
  BY <1>1, <1>2, <1>3, <1>4, CompleteInit, TypeInit, TypeStep, PTL DEF Spec

-----------------------------------------------------------------------------
(* No other byte carries an offset of the input *)

\* The label of a byte that came through a FIFO is the end of the label space: the
\* failed lseek of the hook counts downwards from there.
LEMMA FifoLabel ==
    ASSUME NEW x \in 2 .. MaxLen + 1
    PROVE  Label(-x) \notin Input
<1>1. x \in 1 .. LABELS - 1 /\ LABELS - x >= FileSize
  BY BoundsAssumption
<1>2. Label(-x) = LABELS - x
  BY <1>1, LabelFacts
<1>. QED
  BY <1>1, <1>2, BoundsAssumption DEF Input

\* The hook clears a buffer of another file, and labels of a FIFO are no offsets.
LEMMA CleanPost ==
    ASSUME CleanProgram, TypeInv, SoundInv, CleanInv, PostSyscall
    PROVE  CleanInv'
<1>1. /\ phase = "post" /\ phase' = "app" /\ content' = content /\ CtxOK /\ TableOK /\ ResultOK
      /\ status = "running" /\ content \in [Addr -> Input \cup {None}]
  BY PostEffect DEF TypeInv
<1>2. Filled = Window(ctx) /\ Filled' = {}
  BY <1>1 DEF Filled
<1>3. SUFFICES ASSUME status' = "running", NEW a \in Addr, content[a] = None
               PROVE  mem'[a] \cap Input = {}
  BY <1>1, <1>2 DEF CleanInv
<1>4. /\ \A x \in Addr \ Window(ctx) : mem'[x] = mem[x]
      /\ \A x \in Window(ctx) :
            mem'[x] = IF Delivers /\ ctx.fd \in fdset
                      THEN {Label(PaintStart + x - ctx.buf)} ELSE {}
      /\ ctx.nr = "mmap" /\ ctx.ret >= 0 /\ ctx.fd \in fdset => ctx.off <= FileSize
  BY <1>3, HookPaints DEF CleanProgram
<1>5. CASE a \notin Window(ctx)
  BY <1>1, <1>2, <1>3, <1>4, <1>5 DEF CleanInv
<1>6. CASE a \in Window(ctx) /\ ~(Delivers /\ ctx.fd \in fdset)
  BY <1>4, <1>6
<1>7. CASE a \in Window(ctx) /\ Delivers /\ ctx.fd \in fdset
  <2>1. /\ ctx.fd \in Fd /\ ctx.buf \in Nat /\ ctx.n \in Nat /\ ctx.ret \in Int /\ ctx.off \in Nat
        /\ ctx.n <= MaxLen /\ a \in Nat
    BY <1>1, <1>7, Arguments, Ranges DEF Delivers, CtxOK
  <2>2. mem'[a] = {Label(PaintStart + a - ctx.buf)}
    BY <1>4, <1>7
  <2>3. SUFFICES Label(PaintStart + a - ctx.buf) \notin Input
    BY <2>2
  <2>4. Files[ctx.fd] \in {"input", "fifo"}
    BY <1>1, <1>7, <2>1 DEF SoundInv, Delivers, Tracked
  <2>5. CASE Files[ctx.fd] = "input"
    <3>1. ctx.nr = "mmap" /\ ctx.off + a - ctx.buf >= FileSize
      BY <1>1, <1>2, <1>3, <1>7, <2>5 DEF CleanInv
    <3>2. ctx.ret >= 0 /\ a < ctx.buf + ctx.n
      BY <1>7, <2>1, <3>1, WindowFacts
    <3>3. ctx.off <= FileSize /\ PaintStart = ctx.off
      BY <1>4, <1>7, <3>1, <3>2 DEF PaintStart
    <3>. DEFINE q == ctx.off + a - ctx.buf
    <3>4. q \in 0 .. LABELS - 1 /\ q >= FileSize
      BY <2>1, <3>1, <3>2, <3>3, BoundsAssumption
    <3>. HIDE DEF q
    <3>5. Label(q) = q /\ q \notin Input
      BY <3>4, LabelFacts, BoundsAssumption DEF Input
    <3>. QED
      BY <3>3, <3>5 DEF q
  <2>6. CASE Files[ctx.fd] = "fifo"
    <3>1. ctx.nr \in {"read", "pread64"} => ctx.buf <= a /\ a < ctx.buf + ctx.ret
      BY <1>7, <2>1, WindowFacts
    <3>2. ctx.nr # "mmap"
      BY <1>1, <1>7, <2>1, <2>6, WindowFacts, Ranges DEF ResultOK, Mappable
    <3>3. ctx.nr = "read"
      <4>1. ctx.nr = "pread64" => ctx.ret >= 0
        BY <2>1, <3>1
      <4>. QED
        BY <1>1, <1>7, <2>6, <3>2, <4>1 DEF Delivers, ResultOK
    <3>4. ctx.ret > 0 /\ ctx.ret <= ctx.n /\ ctx.fd \in DOMAIN fds
      BY <1>1, <2>1, <3>1, <3>3 DEF ResultOK
    <3>5. PaintStart = -1 - ctx.ret
      BY <1>1, <2>1, <2>6, <3>3, Views DEF PaintStart, lseek_cur
    <3>. DEFINE x == 1 + ctx.ret - (a - ctx.buf)
    <3>6. x \in 2 .. MaxLen + 1 /\ PaintStart + a - ctx.buf = -x
      BY <2>1, <3>1, <3>3, <3>4, <3>5, BoundsAssumption
    <3>. HIDE DEF x
    <3>. QED
      BY <3>6, FifoLabel
  <2>. QED
    BY <2>4, <2>5, <2>6
<1>. QED
  BY <1>5, <1>6, <1>7

\* Bytes that are no longer of the input are all in the buffer the hook will look at.
LEMMA CleanKernel ==
    ASSUME CleanProgram, TypeInv, CleanInv, Kernel
    PROVE  CleanInv'
<1>1. /\ phase = "kernel" /\ phase' = "post" /\ mem' = mem /\ status' = status
      /\ \A a \in Addr \ Window(ctx') : content'[a] = content[a]
      /\ \A a \in Window(ctx') : Delivered(a)'
      /\ Window(ctx') \subseteq Addr
  BY KernelFills DEF CleanProgram
<1>2. Filled = {} /\ Filled' = Window(ctx')
  BY <1>1 DEF Filled
<1>3. TypeInv'
  BY TypeKernel
<1>4. ctx'.buf \in Addr /\ ctx'.off \in 0 .. FileSize + 1
  BY <1>3 DEF TypeInv, CtxOK, Call
<1>5. /\ ctx'.buf \in Nat /\ ctx'.off \in Nat /\ Addr \subseteq Nat
      /\ ctx'.ret \in Int /\ ctx'.n \in Int
  BY <1>3, <1>4, BoundsAssumption DEF Addr, TypeInv, CtxOK, Call
<1>6. ASSUME NEW a \in Window(ctx'), content'[a] = None, Delivers', Files'[ctx'.fd] = "input"
      PROVE  ctx'.nr = "mmap" /\ ctx'.off + a - ctx'.buf >= FileSize
  <2>1. /\ content'[a] = ByteAt("input", Start' + (a - ctx'.buf))
        /\ ctx'.nr # "mmap" => content'[a] # None
    BY <1>1, <1>6 DEF Delivered
  <2>2. ctx'.nr = "mmap" /\ Start' = ctx'.off
    BY <1>6, <2>1 DEF Start
  <2>3. a \in Nat /\ ctx'.buf <= a
    <3>1. a \in Addr
      BY <1>1
    <3>2. ctx'.ret >= 0
      BY <1>5, <1>6, <2>2, WindowFacts
    <3>3. Window(ctx') = {x \in Addr : ctx'.buf <= x /\ x < ctx'.buf + ctx'.n}
      BY <1>5, <2>2, <3>2, WindowFacts
    <3>. QED
      BY <1>5, <1>6, <3>1, <3>3
  <2>. DEFINE q == ctx'.off + (a - ctx'.buf)
  <2>4. None \notin Input
    BY DEF Input, None
  <2>5. q \notin Input
    BY <1>6, <2>1, <2>2, <2>4 DEF ByteAt
  <2>6. q \in Nat
    BY <1>5, <2>3
  <2>. QED
    BY <1>5, <2>2, <2>3, <2>5, <2>6, BoundsAssumption DEF Input
<1>. QED
  BY <1>1, <1>2, <1>6 DEF CleanInv

\* CleanInv is inductive; that the hook does not paint another file rests on SoundInv.
LEMMA CleanStep ==
    CleanProgram /\ TypeInv /\ SoundInv /\ CleanInv /\ [Next]_vars => CleanInv'
<1>. SUFFICES ASSUME CleanProgram, TypeInv, SoundInv, CleanInv, [Next]_vars
              PROVE  CleanInv'
  OBVIOUS
<1>1. ASSUME NEW c \in Invocation, PreSyscall(c) PROVE CleanInv'
  <2>1. /\ phase = "app" /\ phase' = "kernel" /\ content' = content /\ mem' = mem
        /\ status' = status
    BY <1>1 DEF PreSyscall, kernel
  <2>2. Filled = {} /\ Filled' = {}
    BY <2>1 DEF Filled
  <2>. QED
    BY <2>1, <2>2 DEF CleanInv
<1>2. ASSUME NEW o \in Ofd, NEW p \in 0 .. FileSize, PeerSeek(o, p) PROVE CleanInv'
  <2>1. /\ Files' = Files /\ content' = content /\ mem' = mem
        /\ phase' = phase /\ ctx' = ctx /\ status' = status
    BY <1>2, PeerEffect
  <2>2. Filled' = Filled /\ (Delivers' <=> Delivers)
    BY <2>1 DEF Filled, Delivers
  <2>. QED
    BY <2>1, <2>2 DEF CleanInv
<1>3. CASE UNCHANGED vars
  <2>1. Files' = Files
    BY <1>3 DEF vars, Files, FileOf
  <2>2. Filled' = Filled /\ (Delivers' <=> Delivers)
    BY <1>3 DEF vars, Filled, Delivers
  <2>. QED
    BY <1>3, <2>1, <2>2 DEF vars, CleanInv
<1>. QED
  BY <1>1, <1>2, <1>3, CleanKernel, CleanPost DEF Next, Ended

\* Between two calls a byte that holds no byte of the input has no label that is an
\* offset of it, for every careful program without readv: also when another process
\* moves the positions, descriptors are duplicated behind the engine's back, and
\* the tracked name is a FIFO (NoFalseOffsets).
THEOREM NoOffsetIsInvented == CleanProgram => (Spec => []NoFalseOffsets)
<1>. SUFFICES ASSUME CleanProgram PROVE Spec => []NoFalseOffsets
  OBVIOUS
<1>1. Init => CleanInv
  BY DEF Init, CleanInv, Filled
<1>2. CleanInv => NoFalseOffsets
  BY DEF CleanInv, NoFalseOffsets, Filled
<1>3. TypeInv /\ SoundInv /\ CleanInv /\ [Next]_vars => CleanInv'
  BY CleanStep
<1>4. TypeInv /\ SoundInv /\ [Next]_vars => SoundInv'
  BY SoundStep DEF CleanProgram
<1>5. Init => SoundInv
  BY DEF Init, SoundInv
<1>. QED
  BY <1>1, <1>2, <1>3, <1>4, <1>5, TypeInit, TypeStep, PTL DEF Spec

=============================================================================
