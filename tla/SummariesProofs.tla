-------------------------- MODULE SummariesProofs --------------------------
(***************************************************************************)
(* Proofs about Summaries, for every library of functions, every file of   *)
(* summaries that describes them, buffers anywhere in memory and lengths   *)
(* on both sides of MAX_PROP_BYTES.                                        *)
(*                                                                         *)
(* A handler and the function it stands for do the same to a shadow of the *)
(* machine as far as the handler looks; the proof compares them byte by    *)
(* byte: memory, RAX, and the other registers.                             *)
(***************************************************************************)
EXTENDS Summaries, PropagationStepProofs

\* The file describes the functions it has lines for, and no function whose body
\* is propagated after its wrap computes its result from the registers the wrap
\* has cleared.
Described ==
    \A f \in DOMAIN Fun :
       /\ find(f) # "" => SummaryOf(find(f)) = Fun[f]
       /\ find(f) # "" /\ f \in Body => Fun[f].shape # "PROP_SCALAR"

-----------------------------------------------------------------------------
(* Lengths *)

\* A string of units of w bytes ends at unit n at the latest.
Ends(p, w, n, nul) ==
    \/ p + (n + 1) * w > MEM_BYTES
    \/ \A b \in 0 .. w - 1 : p + n * w + b \in nul

\* Products keep the order.
LEMMA Scaled ==
    ASSUME NEW a \in Nat, NEW b \in Nat, NEW w \in Nat, a <= b
    PROVE  a * w <= b * w /\ a * w \in Nat /\ (w # 0 => a <= a * w)
<1>1. b = a + (b - a) /\ b - a \in Nat
  OBVIOUS
<1>2. \A x, y \in Nat : (x + y) * w = x * w + y * w /\ y * w \in Nat
  BY Z3
<1>3. b * w = a * w + (b - a) * w /\ (b - a) * w \in Nat /\ a * w \in Nat
  BY <1>1, <1>2
<1>4. w # 0 => a <= a * w
  <2>1. w # 0 => w = 1 + (w - 1) /\ w - 1 \in Nat
    OBVIOUS
  <2>2. \A v \in Nat : a * (1 + v) = a + a * v /\ a * v \in Nat
    BY Z3
  <2> QED BY <2>1, <2>2
<1> QED BY <1>3, <1>4

\* A number of bytes is a number of whole units.
LEMMA WholeUnits ==
    ASSUME NEW x \in Nat, NEW y \in Nat \ {0}, x % y = 0
    PROVE  (x \div y) * y = x /\ x \div y \in Nat
BY Z3

\* A scan stops at the first unit that ends the string, or after k units.
LEMMA ScanFacts ==
    ASSUME NEW p \in Nat, NEW w \in Nat \ {0}, NEW k \in Nat, NEW nul
    PROVE  /\ Scan(p, w, k, nul) \in 0 .. k
           /\ Scan(p, w, k, nul) = k \/ Ends(p, w, Scan(p, w, k, nul), nul)
           /\ \A m \in 0 .. Scan(p, w, k, nul) - 1 : m # k /\ ~Ends(p, w, m, nul)
<1> DEFINE Stops(n) == n = k \/ Ends(p, w, n, nul)
           S == {n \in 0 .. k : Stops(n)}
<1>1. k \in S /\ S \subseteq Nat
  OBVIOUS
<1>2. PICK x \in S : \A y \in S : x <= y
  <2> HIDE DEF S
  <2> QED BY <1>1, LeastNumber
<1>3. x \in 0 .. k /\ Stops(x) /\ \A m \in 0 .. x - 1 : ~Stops(m)
  BY <1>2
<1>4. Scan(p, w, k, nul) = CHOOSE n \in 0 .. k : Stops(n) /\ \A m \in 0 .. n - 1 : ~Stops(m)
  BY DEF Scan, Ends
<1> HIDE DEF Stops
<1>5. LET n == Scan(p, w, k, nul)
      IN  n \in 0 .. k /\ Stops(n) /\ \A m \in 0 .. n - 1 : ~Stops(m)
  BY <1>3, <1>4
<1> QED BY <1>5 DEF Stops

\* A scan that gives up after k units finds the end of the string, or k.
LEMMA ScanShort ==
    ASSUME NEW p \in Nat, NEW w \in Nat \ {0}, NEW k \in Nat, NEW nul
    PROVE  Scan(p, w, k, nul) = Fewer(Scan(p, w, MEM_BYTES, nul), k)
<1> DEFINE short == Scan(p, w, k, nul)
           long  == Scan(p, w, MEM_BYTES, nul)
<1>0. MEM_BYTES \in Nat
  BY SizeAssumption
<1>1. Ends(p, w, MEM_BYTES, nul)
  <2>1. MEM_BYTES + 1 <= (MEM_BYTES + 1) * w /\ (MEM_BYTES + 1) * w \in Nat
    BY <1>0, Scaled
  <2>2. ASSUME NEW x \in Nat, MEM_BYTES + 1 <= x PROVE p + x > MEM_BYTES
    BY <1>0, <2>2
  <2> QED BY <2>1, <2>2 DEF Ends
<1>2. /\ long \in 0 .. MEM_BYTES /\ Ends(p, w, long, nul)
      /\ \A m \in 0 .. long - 1 : ~Ends(p, w, m, nul)
  BY <1>0, <1>1, ScanFacts
<1>3. /\ short \in 0 .. k /\ (short = k \/ Ends(p, w, short, nul))
      /\ \A m \in 0 .. short - 1 : ~Ends(p, w, m, nul)
  BY ScanFacts
<1> HIDE DEF short, long
<1>4. short = Fewer(long, k)
  BY <1>0, <1>2, <1>3 DEF Fewer
<1> QED BY <1>4 DEF short, long

-----------------------------------------------------------------------------
(* Calls *)

\* What the arguments of a call are.
LEMMA CallFacts ==
    ASSUME NEW c \in Calls
    PROVE  /\ c.fun \in DOMAIN Fun /\ Valid(c)
           /\ c.args \in [0 .. 5 -> Nat]
<1>1. PICK f \in DOMAIN Fun, s \in 0 .. MEM_BYTES - 1, d \in 0 .. MEM_BYTES - 1,
           n \in 0 .. MaxLen, nul \in NulChoice :
         c = [fun |-> f, args |-> Arguments(f, s, d, n),
              nul |-> IF IsString(f) THEN nul ELSE {}]
  BY DEF Calls
<1>2. Arguments(f, s, d, n) \in [0 .. 5 -> Nat]
  BY SizeAssumption, LengthAssumption DEF Arguments
<1> QED BY <1>1, <1>2 DEF Calls

\* How much of a buffer a function uses, how much it copies, and that the handler
\* looks at as much of it as the cap allows.
LEMMA LengthFacts ==
    ASSUME NEW c \in Calls, NEW p \in Nat
    PROVE  /\ Used(c, p) \in Nat /\ Moved(c, p) \in Nat /\ Used(c, p) <= Moved(c, p)
           /\ Moved(c, p) = Used(c, p) \/ Moved(c, p) > 0
           /\ p # 0 \/ Moved(c, p) = 0 =>
                 Fewer(resolve_len(Fun[c.fun].len, c, p), MAX_PROP_BYTES)
                    = Fewer(Used(c, p), MAX_PROP_BYTES)
<1> DEFINE len == Fun[c.fun].len
           w   == Unit(c.fun)
           K   == IF len.kind = "WCSLEN" THEN MAX_PROP_BYTES \div WCHAR ELSE MAX_PROP_BYTES
<1>1. c.fun \in DOMAIN Fun /\ c.args \in [0 .. 5 -> Nat]
  BY CallFacts
<1>2. /\ len.kind = "ARG" => len.value \in 0 .. 5
      /\ len.kind = "LITERAL" => len.value \in Nat
  BY <1>1, FunctionAssumption
<1>3. w \in Nat \ {0} /\ MAX_PROP_BYTES \in Nat /\ MEM_BYTES \in Nat
  BY LengthAssumption, SizeAssumption DEF Unit
<1>4. CASE ~IsString(c.fun)
  <2>1. resolve_len(len, c, p) \in Nat
    BY <1>1, <1>2, <1>4 DEF IsString, resolve_len
  <2>2. Used(c, p) = resolve_len(len, c, p) /\ Moved(c, p) = Used(c, p) + 0
    BY <1>4 DEF Used, Moved
  <2> QED BY <2>1, <2>2
<1>5. CASE IsString(c.fun)
  <2> DEFINE long == Scan(p, w, MEM_BYTES, c.nul)
  <2>1. long \in Nat /\ Used(c, p) = long * w /\ Moved(c, p) = Used(c, p) + w
    BY <1>3, <1>5, ScanFacts DEF Used, Moved
  <2>2. long * w \in Nat
    BY <1>3, <2>1, Scaled
  <2>3. Moved(c, p) > 0 /\ Used(c, p) <= Moved(c, p) /\ Moved(c, p) \in Nat
    BY <1>3, <2>1, <2>2
  <2>4. ASSUME p # 0
        PROVE  Fewer(resolve_len(len, c, p), MAX_PROP_BYTES) = Fewer(long * w, MAX_PROP_BYTES)
    <3>1. K \in Nat /\ K * w = MAX_PROP_BYTES
      <4>1. CASE len.kind = "WCSLEN"
        <5>1. (MAX_PROP_BYTES \div WCHAR) * WCHAR = MAX_PROP_BYTES /\ MAX_PROP_BYTES \div WCHAR \in Nat
          BY LengthAssumption, WholeUnits
        <5> QED BY <4>1, <5>1 DEF Unit
      <4>2. CASE len.kind # "WCSLEN"
        BY <1>3, <4>2 DEF Unit
      <4> QED BY <4>1, <4>2
    <3>2. resolve_len(len, c, p) = Scan(p, w, K, c.nul) * w
      <4>1. CASE len.kind = "WCSLEN"
        BY <2>4, <4>1 DEF resolve_len, safe_wcslen_bytes, Unit
      <4>2. CASE len.kind # "WCSLEN"
        <5>1. len.kind = "STRLEN" /\ w = 1 /\ K = MAX_PROP_BYTES
          BY <1>5, <4>2 DEF IsString, Unit
        <5>2. resolve_len(len, c, p) = Scan(p, 1, MAX_PROP_BYTES, c.nul)
          BY <2>4, <5>1 DEF resolve_len, safe_strlen
        <5>3. Scan(p, 1, MAX_PROP_BYTES, c.nul) \in Nat
          BY <1>3, ScanFacts
        <5> QED BY <5>1, <5>2, <5>3
      <4> QED BY <4>1, <4>2
    <3> HIDE DEF K, w, long, len
    <3>3. Scan(p, w, K, c.nul) = Fewer(long, K)
      BY <1>3, <3>1, ScanShort DEF long
    <3>4. long <= K => long * w <= K * w
      BY <1>3, <2>1, <3>1, Scaled
    <3>5. K <= long => K * w <= long * w
      BY <1>3, <2>1, <3>1, Scaled
    <3>6. Fewer(long, K) * w = Fewer(long * w, K * w)
      <4>1. CASE long <= K
        <5>1. Fewer(long, K) = long
          BY <2>1, <3>1, <4>1 DEF Fewer
        <5>2. Fewer(long * w, K * w) = long * w
          BY <2>2, <3>1, <3>4, <4>1, <1>3 DEF Fewer
        <5> QED BY <5>1, <5>2
      <4>2. CASE ~(long <= K)
        <5>1. Fewer(long, K) = K
          BY <2>1, <3>1, <4>2 DEF Fewer
        <5>2. Fewer(long * w, K * w) = K * w
          BY <2>1, <2>2, <3>1, <3>5, <4>2, <1>3 DEF Fewer
        <5> QED BY <5>1, <5>2
      <4> QED BY <4>1, <4>2
    <3>7. resolve_len(len, c, p) = Fewer(long * w, MAX_PROP_BYTES)
      BY <3>1, <3>2, <3>3, <3>6
    <3> QED BY <1>3, <2>2, <3>7 DEF Fewer
  <2> QED BY <2>1, <2>2, <2>3, <2>4
<1> QED BY <1>4, <1>5

-----------------------------------------------------------------------------
(* The pieces handlers and functions are made of *)

\* The argument registers belong to the callee.
LEMMA ArgumentRegisters ==
    ASSUME NEW i \in 0 .. 5
    PROVE  arg_to_reg(i) \in Row => arg_to_reg(i) \in CallerSaved
<1>1. i \in {0, 1, 2, 3, 4, 5}
  OBVIOUS
<1> QED BY <1>1 DEF arg_to_reg, CallerSaved

\* RAX is one of them.
LEMMA RaxFacts ==
    /\ "rax" \in CallerSaved /\ "rax" \in Place /\ "rax" # "mem" /\ CallerSaved \subseteq Row
    /\ "mem" \in Place /\ "mem" \notin CallerSaved
BY RowAssumption DEF CallerSaved, Place

\* The arguments that are pointers and lengths.
LEMMA PointerFacts ==
    ASSUME NEW f \in DOMAIN Fun
    PROVE  /\ Pointers(f) \subseteq 0 .. 5 /\ ToSet(Fun[f].src) \subseteq Pointers(f)
           /\ \A i \in ToSet(Fun[f].args) : i \in 0 .. 5 /\ arg_to_reg(i) \in Row
           /\ Fun[f].shape = "PROP_PTR2PTR" =>
                 /\ Fun[f].src[1] \in ToSet(Fun[f].src) /\ Fun[f].src # <<>>
                 /\ Fun[f].dst.kind = "ARG" /\ Fun[f].dst.value \in Pointers(f)
<1> DEFINE src == Fun[f].src
           args == Fun[f].args
           R == {i \in 0 .. 5 : arg_to_reg(i) \in Row}
<1>1. /\ src \in Seq(0 .. 5) /\ args \in Seq(R)
      /\ Fun[f].dst.kind = "ARG" => Fun[f].dst.value \in 0 .. 5
      /\ Fun[f].shape = "PROP_PTR2PTR" => src # <<>> /\ Fun[f].dst.kind = "ARG"
  BY FunctionAssumption
<1> HIDE DEF src, args, R
<1>2. ToSet(src) \subseteq 0 .. 5 /\ ToSet(args) \subseteq R
  BY <1>1 DEF ToSet
<1>3. src # <<>> => src[1] \in ToSet(src)
  BY <1>1 DEF ToSet
<1> QED BY <1>1, <1>2, <1>3 DEF Pointers, src, args, R

\* The registers that pass pointers and lengths are cleared, the rest stays.
LEMMA PassedFacts ==
    ASSUME NEW f, Shadow(f), NEW g \in DOMAIN Fun
    PROVE  /\ Shadow(Passed(f, g)) /\ Passed(f, g)["mem"] = f["mem"]
           /\ \A r \in Place : Passed(f, g)[r] = f[r] \/
                               (r \in CallerSaved /\ Passed(f, g)[r] = [b \in Bytes(r) |-> {}])
<1> DEFINE taken == Pointers(g) \cup (IF Fun[g].len.kind = "ARG" THEN {Fun[g].len.value} ELSE {})
           regs == {arg_to_reg(i) : i \in taken}
<1>1. taken \subseteq 0 .. 5
  BY PointerFacts, FunctionAssumption
<1>2. \A r \in regs : r \in Row => r \in CallerSaved
  BY <1>1, ArgumentRegisters
<1>3. "mem" \notin regs
  <2>1. \A i \in 0 .. 5 : arg_to_reg(i) # "mem"
    <3> SUFFICES ASSUME NEW i \in 0 .. 5 PROVE arg_to_reg(i) # "mem"
      OBVIOUS
    <3>1. i \in {0, 1, 2, 3, 4, 5}
      OBVIOUS
    <3> QED BY <3>1 DEF arg_to_reg
  <2> QED BY <1>1, <2>1
<1>4. Passed(f, g) = [r \in Place |-> IF r \in regs THEN [b \in Bytes(r) |-> {}] ELSE f[r]]
  BY DEF Passed
<1> HIDE DEF regs
<1>5. "mem" \in Place /\ Place = Row \cup {"mem"}
  BY DEF Place
<1> QED BY <1>2, <1>3, <1>4, <1>5 DEF Shadow

\* Passing keeps one shadow below another.
LEMMA PassedBelow ==
    ASSUME NEW f, NEW g, Below(f, g), NEW h
    PROVE  Below(Passed(f, h), Passed(g, h))
BY DEF Below, Passed

\* clobber_caller_saved.
LEMMA ClobberFacts ==
    ASSUME NEW t, Shadow(t)
    PROVE  /\ Shadow(clobber_caller_saved(t))
           /\ \A r \in Place : clobber_caller_saved(t)[r] =
                                  IF r \in CallerSaved THEN [b \in Bytes(r) |-> {}] ELSE t[r]
BY DEF Shadow, clobber_caller_saved

\* rax_set_all.
LEMMA RaxSetFacts ==
    ASSUME NEW t, Shadow(t), NEW s \in SUBSET Offset
    PROVE  /\ Shadow(rax_set_all(t, s))
           /\ \A r \in Place : rax_set_all(t, s)[r] =
                                  IF r = "rax" THEN [b \in Bytes("rax") |-> s] ELSE t[r]
BY RaxFacts DEF Shadow, rax_set_all

\* The slices of memory.
LEMMA MemFacts ==
    ASSUME NEW a \in Nat, NEW n \in Nat, a + n <= MEM_BYTES
    PROVE  /\ Slice(Mem(a, n)) /\ Mem(a, n).at = "mem" /\ Mem(a, n).start = a /\ Mem(a, n).n = n
           /\ Lanes(Mem(a, n)) = 0 .. n - 1
           /\ \A i \in 0 .. n - 1 : a + i \in Bytes("mem")
           /\ \A b : Spans(Mem(a, n), b) <=> a <= b /\ b < a + n
           /\ \A f, i : At(f, Mem(a, n), i) = f["mem"][a + i]
BY SizeAssumption DEF Mem, Slice, Lanes, Place, Size, Bytes, Spans, At

\* The byte of the source that a byte of the destination gets.
CopyFrom(dst, src, n, i) ==
    LET gap == dst - src
    IN  src + (IF 0 < gap /\ gap < n THEN i % gap ELSE i)

\* It is one of the bytes copied.
LEMMA CopyIndex ==
    ASSUME NEW dst \in Nat, NEW src \in Nat, NEW n \in Nat, NEW i \in 0 .. n - 1
    PROVE  CopyFrom(dst, src, n, i) \in src .. src + n - 1
<1> DEFINE gap == dst - src
<1>1. 0 < gap => i % gap \in 0 .. gap - 1
  OBVIOUS
<1> QED BY <1>1 DEF CopyFrom

\* The byte loop reads from the source and writes the destination.
LEMMA CopyFacts ==
    ASSUME NEW t, Shadow(t), NEW dst \in Nat, NEW src \in Nat, NEW n \in Nat,
           dst + n <= MEM_BYTES, src + n <= MEM_BYTES
    PROVE  /\ Shadow(CopyTags(t, dst, src, n))
           /\ \A r \in Place \ {"mem"} : CopyTags(t, dst, src, n)[r] = t[r]
           /\ \A i \in 0 .. n - 1 : CopyFrom(dst, src, n, i) \in src .. src + n - 1
           /\ \A b \in Bytes("mem") :
                 CopyTags(t, dst, src, n)["mem"][b] =
                    IF dst <= b /\ b < dst + n
                    THEN t["mem"][CopyFrom(dst, src, n, b - dst)] ELSE t["mem"][b]
<1> DEFINE o == Mem(dst, n)
           v == [i \in 0 .. n - 1 |-> t["mem"][CopyFrom(dst, src, n, i)]]
<1>0. MEM_BYTES \in Nat
  BY SizeAssumption
<1>1. \A i \in 0 .. n - 1 : CopyFrom(dst, src, n, i) \in src .. src + n - 1
  BY CopyIndex
<1>2. CopyTags(t, dst, src, n) = Store(t, o, v)
  BY DEF CopyTags, CopyFrom
<1>3. /\ Slice(o) /\ o.at = "mem" /\ o.start = dst /\ Lanes(o) = 0 .. n - 1
      /\ \A b : Spans(o, b) <=> dst <= b /\ b < dst + n
  BY MemFacts
<1>4. \A i \in 0 .. n - 1 : v[i] \in SUBSET Offset
  <2>1. \A x \in src .. src + n - 1 : x \in Bytes("mem")
    BY <1>0 DEF Bytes, Size
  <2> QED BY <1>1, <2>1, RaxFacts DEF Shadow
<1> HIDE DEF o
<1>5. Shadow(Store(t, o, v))
  BY <1>3, <1>4, StoreType
<1>6. \A r \in Place \ {"mem"} : Store(t, o, v)[r] = t[r]
  BY <1>3 DEF Store, Shadow
<1>7. ASSUME NEW b \in Bytes("mem")
      PROVE  Store(t, o, v)["mem"][b] =
                IF dst <= b /\ b < dst + n
                THEN t["mem"][CopyFrom(dst, src, n, b - dst)] ELSE t["mem"][b]
  <2>1. b \in Int
    BY <1>0 DEF Bytes, Size
  <2>2. dst <= b /\ b < dst + n => b - dst \in 0 .. n - 1
    BY <2>1
  <2>3. Store(t, o, v)["mem"][b] = IF Spans(o, b) THEN v[b - dst] ELSE t["mem"][b]
    BY <1>3, StoreAt, RaxFacts DEF Shadow
  <2> QED BY <1>3, <2>2, <2>3
<1> QED BY <1>1, <1>2, <1>5, <1>6, <1>7

-----------------------------------------------------------------------------
(* What a function does, and what its handler does *)

\* The buffers of a copy.
Src(c) == c.args[Fun[c.fun].src[1]]

Dst(c) == c.args[Fun[c.fun].dst.value]

\* The bytes at p a handler looks at.
Seen(c, p) == Fewer(Used(c, p), MAX_PROP_BYTES)

IsCopy(c) == Fun[c.fun].shape = "PROP_PTR2PTR"

\* Buffers lie inside the memory, and a NULL pointer is none.
LEMMA BufferFacts ==
    ASSUME NEW c \in Calls
    PROVE  /\ IsCopy(c) =>
                 /\ Src(c) \in Nat /\ Dst(c) \in Nat
                 /\ Src(c) + Moved(c, Src(c)) <= MEM_BYTES
                 /\ Dst(c) + Moved(c, Src(c)) <= MEM_BYTES
                 /\ Src(c) = 0 \/ Dst(c) = 0 => Moved(c, Src(c)) = 0
           /\ ~IsCopy(c) =>
                 \A p \in Sources(c) :
                    p \in Nat /\ p + Moved(c, p) <= MEM_BYTES /\ (p = 0 => Moved(c, p) = 0)
<1> DEFINE fun == Fun[c.fun]
<1>1. /\ c.fun \in DOMAIN Fun /\ Valid(c) /\ c.args \in [0 .. 5 -> Nat]
  BY CallFacts
<1>2. /\ Pointers(c.fun) \subseteq 0 .. 5 /\ ToSet(fun.src) \subseteq Pointers(c.fun)
      /\ IsCopy(c) => fun.src[1] \in ToSet(fun.src) /\ fun.dst.value \in Pointers(c.fun)
  BY <1>1, PointerFacts DEF IsCopy
<1>3. ASSUME IsCopy(c)
      PROVE  /\ Src(c) \in Nat /\ Dst(c) \in Nat
             /\ Src(c) + Moved(c, Src(c)) <= MEM_BYTES
             /\ Dst(c) + Moved(c, Src(c)) <= MEM_BYTES
             /\ Src(c) = 0 \/ Dst(c) = 0 => Moved(c, Src(c)) = 0
  <2>1. Src(c) \in Nat /\ Dst(c) \in Nat
    BY <1>1, <1>2, <1>3 DEF Src, Dst
  <2>2. /\ {Dst(c) + Moved(c, Src(c)), Src(c) + Moved(c, Src(c))} \subseteq 0 .. MEM_BYTES
        /\ 0 \in {Dst(c), Src(c)} => Moved(c, Src(c)) = 0
    BY <1>1, <1>2, <1>3 DEF Valid, IsCopy, Src, Dst
  <2> QED BY <2>1, <2>2
<1>4. ASSUME ~IsCopy(c), NEW p \in Sources(c)
      PROVE  p \in Nat /\ p + Moved(c, p) <= MEM_BYTES /\ (p = 0 => Moved(c, p) = 0)
  <2>1. PICK i \in ToSet(fun.src) : p = c.args[i]
    BY DEF Sources
  <2>2. p \in Nat /\ i \in Pointers(c.fun)
    BY <1>1, <1>2, <2>1
  <2>3. /\ {c.args[i] + Moved(c, c.args[i])} \subseteq 0 .. MEM_BYTES
        /\ c.args[i] = 0 => Moved(c, c.args[i]) = 0
    BY <1>1, <1>4, <2>2 DEF Valid, IsCopy
  <2> QED BY <2>1, <2>2, <2>3
<1> QED BY <1>3, <1>4

\* What is seen of a buffer lies inside of what is moved.
LEMMA SeenFacts ==
    ASSUME NEW c \in Calls, NEW p \in Nat
    PROVE  /\ Seen(c, p) \in Nat /\ Seen(c, p) <= Used(c, p) /\ Seen(c, p) <= Moved(c, p)
           /\ Used(c, p) <= Moved(c, p) /\ Used(c, p) \in Nat /\ Moved(c, p) \in Nat
           /\ Used(c, p) <= MAX_PROP_BYTES => Seen(c, p) = Used(c, p)
           /\ p # 0 \/ Moved(c, p) = 0 =>
                 Fewer(resolve_len(Fun[c.fun].len, c, p), MAX_PROP_BYTES) = Seen(c, p)
<1>1. /\ Used(c, p) \in Nat /\ Moved(c, p) \in Nat /\ Used(c, p) <= Moved(c, p)
      /\ p # 0 \/ Moved(c, p) = 0 =>
            Fewer(resolve_len(Fun[c.fun].len, c, p), MAX_PROP_BYTES)
               = Fewer(Used(c, p), MAX_PROP_BYTES)
  BY LengthFacts
<1>2. MAX_PROP_BYTES \in Nat
  BY LengthAssumption
<1>3. \A x \in Nat : /\ Fewer(x, MAX_PROP_BYTES) \in Nat /\ Fewer(x, MAX_PROP_BYTES) <= x
                     /\ x <= MAX_PROP_BYTES => Fewer(x, MAX_PROP_BYTES) = x
  BY <1>2 DEF Fewer
<1>4. /\ Seen(c, p) \in Nat /\ Seen(c, p) <= Used(c, p)
      /\ Used(c, p) <= MAX_PROP_BYTES => Seen(c, p) = Used(c, p)
  BY <1>1, <1>3 DEF Seen
<1> QED BY <1>1, <1>4 DEF Seen


\* The offsets of the argument registers.
OfArguments(f, c) == UNION {AllOf(f, Reg(arg_to_reg(i), REG_BYTES)) : i \in ToSet(Fun[c.fun].args)}

\* What a function computes RAX from.
Result(f, c) ==
    CASE Fun[c.fun].shape = "PROP_PTR2VAL" -> UNION {AllOf(f, Mem(p, Used(c, p))) : p \in Sources(c)}
      [] Fun[c.fun].shape = "PROP_SCALAR"  -> OfArguments(f, c)
      [] OTHER -> {}

\* The offsets of arguments are offsets.
LEMMA ArgumentsType ==
    ASSUME NEW f, Shadow(f), NEW c \in Calls
    PROVE  OfArguments(f, c) \in SUBSET Offset
<1>1. \A i \in ToSet(Fun[c.fun].args) : Slice(Reg(arg_to_reg(i), REG_BYTES))
  BY CallFacts, PointerFacts, RegFacts, SizeAssumption
<1> QED BY <1>1, AllOfType DEF OfArguments

\* So are those of buffers.
LEMMA BuffersType ==
    ASSUME NEW f, Shadow(f), NEW c \in Calls, ~IsCopy(c), NEW p \in Sources(c),
           NEW n \in Nat, n <= Moved(c, p)
    PROVE  Slice(Mem(p, n)) /\ AllOf(f, Mem(p, n)) \in SUBSET Offset
<1>1. p \in Nat /\ p + Moved(c, p) <= MEM_BYTES
  BY BufferFacts
<1>2. Moved(c, p) \in Nat /\ MEM_BYTES \in Nat
  BY <1>1, SeenFacts, SizeAssumption
<1>3. p + n <= MEM_BYTES
  BY <1>1, <1>2
<1> QED BY <1>1, <1>3, MemFacts, AllOfType

\* A function, byte by byte: it makes g of f.
EffectIs(f, c, g) ==
    /\ Shadow(g)
    /\ \A r \in Place \ {"mem", "rax"} :
          g[r] = IF r \in CallerSaved THEN [b \in Bytes(r) |-> {}] ELSE f[r]
    /\ g["rax"] = [b \in Bytes("rax") |-> Result(f, c)]
    /\ \A b \in Bytes("mem") :
          g["mem"][b] =
             IF IsCopy(c) /\ Dst(c) <= b /\ b < Dst(c) + Moved(c, Src(c))
             THEN f["mem"][Src(c) + (b - Dst(c))] ELSE f["mem"][b]

\* That is what a function does.
LEMMA EffectFacts ==
    ASSUME NEW f, Shadow(f), NEW c \in Calls
    PROVE  EffectIs(f, c, Effect(f, c))
<1> DEFINE after == clobber_caller_saved(f)
<1>0. /\ Shadow(after)
      /\ \A r \in Place : after[r] = IF r \in CallerSaved THEN [b \in Bytes(r) |-> {}] ELSE f[r]
  BY ClobberFacts
<1>1. CASE IsCopy(c)
  <2> DEFINE n == Moved(c, Src(c))
             o == Mem(Dst(c), n)
             v == [i \in 0 .. n - 1 |-> f["mem"][Src(c) + i]]
  <2>1. /\ Src(c) \in Nat /\ Dst(c) \in Nat /\ n \in Nat
        /\ Src(c) + n <= MEM_BYTES /\ Dst(c) + n <= MEM_BYTES
    BY <1>1, BufferFacts, SeenFacts
  <2>2. /\ Slice(o) /\ o.at = "mem" /\ o.start = Dst(c) /\ Lanes(o) = 0 .. n - 1
        /\ \A b : Spans(o, b) <=> Dst(c) <= b /\ b < Dst(c) + n
        /\ \A i \in 0 .. n - 1 : Src(c) + i \in Bytes("mem")
    BY <2>1, MemFacts
  <2>3. Effect(f, c) = Store(after, o, v)
    BY <1>1, <2>2 DEF Effect, IsCopy, Src, Dst
  <2>4. \A i \in 0 .. n - 1 : v[i] \in SUBSET Offset
    BY <2>2, RaxFacts DEF Shadow
  <2> HIDE DEF o, after, n, v
  <2>5. Shadow(Store(after, o, v))
    BY <1>0, <2>2, <2>4, StoreType
  <2>6. \A r \in Place \ {"mem"} : Store(after, o, v)[r] = after[r]
    BY <1>0, <2>2 DEF Store, Shadow
  <2>7. ASSUME NEW b \in Bytes("mem")
        PROVE  Store(after, o, v)["mem"][b] =
                  IF Dst(c) <= b /\ b < Dst(c) + n
                  THEN f["mem"][Src(c) + (b - Dst(c))] ELSE f["mem"][b]
    <3>1. b \in Int
      BY SizeAssumption DEF Bytes, Size
    <3>2. Dst(c) <= b /\ b < Dst(c) + n => b - Dst(c) \in 0 .. n - 1
      BY <2>1, <3>1
    <3>3. Store(after, o, v)["mem"][b] = IF Spans(o, b) THEN v[b - Dst(c)] ELSE after["mem"][b]
      BY <1>0, <2>2, StoreAt, RaxFacts DEF Shadow
    <3>4. after["mem"] = f["mem"]
      BY <1>0, RaxFacts
    <3> QED BY <2>2, <3>2, <3>3, <3>4 DEF v
  <2>8. Result(f, c) = {}
    BY <1>1 DEF Result, IsCopy
  <2> QED BY <1>0, <1>1, <2>3, <2>5, <2>6, <2>7, <2>8, RaxFacts DEF n, EffectIs
<1>2. CASE ~IsCopy(c)
  <2>1. Result(f, c) \in SUBSET Offset
    <3>1. ASSUME NEW p \in Sources(c) PROVE AllOf(f, Mem(p, Used(c, p))) \in SUBSET Offset
      <4>1. p \in Nat
        BY <1>2, BufferFacts
      <4>2. Used(c, p) \in Nat /\ Used(c, p) <= Moved(c, p)
        BY <4>1, SeenFacts
      <4> QED BY <1>2, <4>2, BuffersType
    <3> QED BY <3>1, ArgumentsType DEF Result
  <2>2. Effect(f, c) = rax_set_all(after, Result(f, c)) \/ (Effect(f, c) = after /\ Result(f, c) = {})
    BY <1>2 DEF Effect, IsCopy, Result, OfArguments
  <2> HIDE DEF after
  <2>3. CASE Effect(f, c) = rax_set_all(after, Result(f, c))
    <3> DEFINE value == Result(f, c)
    <3>1. value \in SUBSET Offset /\ Effect(f, c) = rax_set_all(after, value)
      BY <2>1, <2>3
    <3> HIDE DEF value
    <3>2. /\ Shadow(rax_set_all(after, value))
          /\ \A r \in Place : rax_set_all(after, value)[r] =
                               IF r = "rax" THEN [b \in Bytes("rax") |-> value] ELSE after[r]
      BY <1>0, <3>1, RaxSetFacts
    <3> QED BY <1>0, <1>2, <3>1, <3>2, RaxFacts DEF value, EffectIs
  <2>4. CASE Effect(f, c) = after /\ Result(f, c) = {}
    BY <1>0, <1>2, <2>4, RaxFacts DEF EffectIs
  <2> QED BY <2>2, <2>3, <2>4
<1> QED BY <1>1, <1>2

\* What its handler computes RAX from: less of the sources, and for a copy, which
\* returns a pointer, the first byte of the destination.
Answer(f, c) ==
    CASE IsCopy(c) -> IF Dst(c) # 0 /\ Seen(c, Src(c)) > 0 THEN f["mem"][Src(c)] ELSE {}
      [] Fun[c.fun].shape = "PROP_PTR2VAL" ->
            UNION {AllOf(f, Mem(p, Seen(c, p))) : p \in Sources(c) \ {0}}
      [] Fun[c.fun].shape = "PROP_SCALAR"  -> OfArguments(f, c)
      [] OTHER -> {}

\* The handler, byte by byte.
HandlerIs(f, c, g) ==
    /\ Shadow(g)
    /\ \A r \in Place \ {"mem", "rax"} :
          g[r] = IF r \in CallerSaved THEN [b \in Bytes(r) |-> {}] ELSE f[r]
    /\ g["rax"] = [b \in Bytes("rax") |-> Answer(f, c)]
    /\ \A b \in Bytes("mem") :
          g["mem"][b] =
             IF IsCopy(c) /\ Dst(c) <= b /\ b < Dst(c) + Seen(c, Src(c))
             THEN f["mem"][CopyFrom(Dst(c), Src(c), Seen(c, Src(c)), b - Dst(c))]
             ELSE f["mem"][b]

\* handle_prop_ptr2ptr.
LEMMA CopyHandler ==
    ASSUME NEW f, Shadow(f), NEW c \in Calls, IsCopy(c)
    PROVE  HandlerIs(f, c, handle_prop_ptr2ptr(f, c, Fun[c.fun]))
<1> DEFINE src    == Src(c)
           dst    == Dst(c)
           n      == Seen(c, src)
           copied == IF dst # 0 /\ src # 0 THEN CopyTags(f, dst, src, n) ELSE f
           after  == clobber_caller_saved(copied)
           whole  == IF dst # 0 /\ n > 0 THEN rax_set_all(after, copied["mem"][dst]) ELSE after
<1>0. MEM_BYTES \in Nat /\ "mem" \in Place
  BY SizeAssumption, RaxFacts
<1>1. /\ src \in Nat /\ dst \in Nat /\ Moved(c, src) \in Nat
      /\ src + Moved(c, src) <= MEM_BYTES /\ dst + Moved(c, src) <= MEM_BYTES
      /\ src = 0 \/ dst = 0 => Moved(c, src) = 0
      /\ n \in Nat /\ n <= Moved(c, src)
      /\ Fewer(resolve_len(Fun[c.fun].len, c, src), MAX_PROP_BYTES) = n
  BY BufferFacts, SeenFacts
<1>2. src + n <= MEM_BYTES /\ dst + n <= MEM_BYTES /\ (src = 0 \/ dst = 0 => n = 0)
  BY <1>0, <1>1
<1>3. handle_prop_ptr2ptr(f, c, Fun[c.fun]) = whole
  <2>1. Fun[c.fun].src # <<>> /\ Fun[c.fun].dst.kind = "ARG"
    BY CallFacts, PointerFacts DEF IsCopy
  <2>2. resolve_ptr(Fun[c.fun].dst, c) = dst
    BY <2>1 DEF resolve_ptr, Dst
  <2> QED BY <1>1, <2>1, <2>2 DEF handle_prop_ptr2ptr, Src
<1> HIDE DEF src, dst, n
<1>4. /\ Shadow(copied)
      /\ \A r \in Place \ {"mem"} : copied[r] = f[r]
      /\ \A b \in Bytes("mem") :
            copied["mem"][b] = IF dst <= b /\ b < dst + n
                               THEN f["mem"][CopyFrom(dst, src, n, b - dst)] ELSE f["mem"][b]
  <2>1. CASE dst # 0 /\ src # 0
    BY <1>1, <1>2, <2>1, CopyFacts
  <2>2. CASE ~(dst # 0 /\ src # 0)
    <3>1. \A b \in Bytes("mem") : ~(dst <= b /\ b < dst + n)
      BY <1>0, <1>1, <1>2, <2>2 DEF Bytes, Size
    <3> QED BY <2>2, <3>1
  <2> QED BY <2>1, <2>2
<1>5. n > 0 => dst \in Bytes("mem") /\ src \in Bytes("mem") /\ copied["mem"][dst] = f["mem"][src]
  <2> SUFFICES ASSUME n > 0
               PROVE  dst \in Bytes("mem") /\ src \in Bytes("mem") /\ copied["mem"][dst] = f["mem"][src]
    OBVIOUS
  <2>1. dst \in Bytes("mem") /\ src \in Bytes("mem")
    BY <1>0, <1>1, <1>2 DEF Bytes, Size
  <2>2. CopyFrom(dst, src, n, dst - dst) = src
    BY <1>1 DEF CopyFrom
  <2>3. dst <= dst /\ dst < dst + n
    BY <1>1
  <2> QED BY <1>4, <2>1, <2>2, <2>3
<1> HIDE DEF copied
<1>6. /\ Shadow(after)
      /\ \A r \in Place : after[r] = IF r \in CallerSaved THEN [b \in Bytes(r) |-> {}] ELSE copied[r]
  BY <1>4, ClobberFacts
<1> DEFINE answer == IF dst # 0 /\ n > 0 THEN f["mem"][src] ELSE {}
<1>7. Answer(f, c) = answer
  BY DEF Answer, IsCopy, src, dst, n
<1> HIDE DEF after
<1>8. Shadow(whole) /\ \A r \in Place : whole[r] = IF r = "rax" THEN [b \in Bytes("rax") |-> answer] ELSE after[r]
  <2>1. CASE dst # 0 /\ n > 0
    <3> DEFINE value == f["mem"][src]
    <3>1. value \in SUBSET Offset
      BY <1>0, <1>5, <2>1 DEF Shadow
    <3>2. whole = rax_set_all(after, value) /\ answer = value
      BY <1>5, <2>1
    <3> HIDE DEF value
    <3>3. /\ Shadow(rax_set_all(after, value))
          /\ \A r \in Place : rax_set_all(after, value)[r] =
                               IF r = "rax" THEN [b \in Bytes("rax") |-> value] ELSE after[r]
      BY <1>6, <3>1, RaxSetFacts
    <3> HIDE DEF whole, answer
    <3> QED BY <3>2, <3>3
  <2>2. CASE ~(dst # 0 /\ n > 0)
    BY <1>6, <2>2, RaxFacts
  <2> QED BY <2>1, <2>2
<1> HIDE DEF whole, answer
<1>9. /\ \A r \in Place \ {"mem", "rax"} :
            whole[r] = IF r \in CallerSaved THEN [b \in Bytes(r) |-> {}] ELSE f[r]
      /\ whole["mem"] = copied["mem"] /\ whole["rax"] = [b \in Bytes("rax") |-> answer]
  BY <1>4, <1>6, <1>8, RaxFacts
<1>10. HandlerIs(f, c, whole)
  BY <1>4, <1>7, <1>8, <1>9 DEF HandlerIs, src, dst, n
<1> QED BY <1>3, <1>10

\* The other handlers.
LEMMA OtherHandlers ==
    ASSUME NEW f, Shadow(f), NEW c \in Calls, ~IsCopy(c)
    PROVE  HandlerIs(f, c, dispatch(f, c, Fun[c.fun]))
<1> DEFINE after == clobber_caller_saved(f)
           value == Answer(f, c)
<1>1. value \in SUBSET Offset
  <2>1. ASSUME NEW p \in Sources(c) PROVE AllOf(f, Mem(p, Seen(c, p))) \in SUBSET Offset
    <3>1. p \in Nat
      BY BufferFacts
    <3>2. Seen(c, p) \in Nat /\ Seen(c, p) <= Moved(c, p)
      BY <3>1, SeenFacts
    <3> QED BY <3>2, BuffersType
  <2> QED BY <2>1, ArgumentsType DEF Answer
<1>2. ASSUME Fun[c.fun].shape = "PROP_PTR2VAL"
      PROVE  handle_prop_ptr2val(f, c, Fun[c.fun]) = rax_set_all(after, value)
  <2> DEFINE Of(p) == Fewer(resolve_len(Fun[c.fun].len, c, p), MAX_PROP_BYTES)
  <2>1. ASSUME NEW p \in Sources(c) \ {0}
        PROVE  UNION {f["mem"][p + i] : i \in 0 .. Of(p) - 1} = AllOf(f, Mem(p, Seen(c, p)))
    <3>1. p \in Nat /\ p + Moved(c, p) <= MEM_BYTES
      BY BufferFacts
    <3>2. Of(p) = Seen(c, p) /\ Seen(c, p) \in Nat /\ Seen(c, p) <= Moved(c, p) /\ Moved(c, p) \in Nat
      BY <2>1, <3>1, SeenFacts
    <3>3. p + Seen(c, p) <= MEM_BYTES
      BY <3>1, <3>2, SizeAssumption
    <3>4. /\ Lanes(Mem(p, Seen(c, p))) = 0 .. Seen(c, p) - 1
          /\ \A i : At(f, Mem(p, Seen(c, p)), i) = f["mem"][p + i]
      BY <3>1, <3>2, <3>3, MemFacts
    <3> QED BY <3>2, <3>4 DEF AllOf
  <2>2. UNION {UNION {f["mem"][p + i] : i \in 0 .. Of(p) - 1} : p \in Sources(c) \ {0}} = value
    <3>1. value = UNION {AllOf(f, Mem(p, Seen(c, p))) : p \in Sources(c) \ {0}}
      BY <1>2 DEF Answer, IsCopy
    <3> HIDE DEF value, Of
    <3> QED BY <2>1, <3>1
  <2> QED BY <2>2 DEF handle_prop_ptr2val, Sources
<1>3. \/ dispatch(f, c, Fun[c.fun]) = rax_set_all(after, value)
      \/ dispatch(f, c, Fun[c.fun]) = after /\ value = {}
  <2>1. CASE Fun[c.fun].shape = "PROP_PTR2VAL"
    BY <1>2, <2>1 DEF dispatch
  <2>2. CASE Fun[c.fun].shape = "PROP_SCALAR"
    BY <2>2 DEF dispatch, handle_prop_scalar, Answer, IsCopy, OfArguments
  <2>3. CASE Fun[c.fun].shape \notin {"PROP_PTR2VAL", "PROP_SCALAR"}
    BY <2>3 DEF dispatch, Answer, IsCopy
  <2> QED BY <2>1, <2>2, <2>3
<1>4. /\ Shadow(after)
      /\ \A r \in Place : after[r] = IF r \in CallerSaved THEN [b \in Bytes(r) |-> {}] ELSE f[r]
  BY ClobberFacts
<1> HIDE DEF after, value
<1>5. /\ Shadow(rax_set_all(after, value))
      /\ \A r \in Place : rax_set_all(after, value)[r] =
                             IF r = "rax" THEN [b \in Bytes("rax") |-> value] ELSE after[r]
  BY <1>1, <1>4, RaxSetFacts
<1>6. HandlerIs(f, c, rax_set_all(after, value))
  BY <1>4, <1>5, RaxFacts DEF HandlerIs, value
<1>7. value = {} => HandlerIs(f, c, after)
  BY <1>4, RaxFacts DEF HandlerIs, value
<1> QED BY <1>3, <1>6, <1>7

\* Whatever the shape.
LEMMA HandlerFacts ==
    ASSUME NEW f, Shadow(f), NEW c \in Calls
    PROVE  HandlerIs(f, c, dispatch(f, c, Fun[c.fun]))
<1>1. IsCopy(c) => dispatch(f, c, Fun[c.fun]) = handle_prop_ptr2ptr(f, c, Fun[c.fun])
  BY DEF dispatch, IsCopy
<1> QED BY <1>1, CopyHandler, OtherHandlers

-----------------------------------------------------------------------------
(* Type correctness *)

\* The tags after a call: of its body, of its wrap, or of one after the other.
LEMMA CallTags ==
    ASSUME Described, NEW c \in Calls, Call(c)
    PROVE  LET entry   == Passed(tag, c.fun)
               wrapped == dispatch(entry, c, Fun[c.fun])
           IN  /\ dep' = Effect(Passed(dep, c.fun), c) /\ call' = c
               /\ find(c.fun) = "" => tag' = Effect(entry, c)
               /\ find(c.fun) # "" /\ c.fun \notin Body => tag' = wrapped
               /\ find(c.fun) # "" /\ c.fun \in Body =>
                     tag' = Effect(wrapped, c) /\ Fun[c.fun].shape # "PROP_SCALAR"
<1>1. c.fun \in DOMAIN Fun
  BY CallFacts
<1>2. /\ find(c.fun) # "" => SummaryOf(find(c.fun)) = Fun[c.fun]
      /\ find(c.fun) # "" /\ c.fun \in Body => Fun[c.fun].shape # "PROP_SCALAR"
  BY <1>1 DEF Described
<1> QED BY <1>2 DEF Call, Entered

\* A call keeps the types.
LEMMA CallType ==
    ASSUME Described, NEW c \in Calls, Call(c), Shadow(tag), Shadow(dep)
    PROVE  Shadow(tag') /\ Shadow(dep')
<1> DEFINE entry   == Passed(tag, c.fun)
           wrapped == dispatch(entry, c, Fun[c.fun])
<1>1. c.fun \in DOMAIN Fun
  BY CallFacts
<1>2. Shadow(entry) /\ Shadow(Passed(dep, c.fun))
  BY <1>1, PassedFacts
<1> HIDE DEF entry
<1>3. Shadow(wrapped)
  BY <1>2, HandlerFacts DEF HandlerIs
<1> HIDE DEF wrapped
<1>4. Shadow(Effect(entry, c)) /\ Shadow(Effect(wrapped, c)) /\ Shadow(Effect(Passed(dep, c.fun), c))
  BY <1>2, <1>3, EffectFacts DEF EffectIs
<1>5. /\ dep' = Effect(Passed(dep, c.fun), c)
      /\ tag' \in {Effect(entry, c), wrapped, Effect(wrapped, c)}
  BY CallTags DEF entry, wrapped
<1> QED BY <1>3, <1>4, <1>5

\* TypeOK holds after every step.
LEMMA CallNextType == Described /\ TypeOK /\ [CallNext]_callVars => TypeOK'
<1> SUFFICES ASSUME Described, TypeOK, [CallNext]_callVars PROVE TypeOK'
  OBVIOUS
<1>1. CASE steps < MaxSteps /\ ins_inspect_dr
  BY <1>1, NextType DEF Next
<1>2. ASSUME steps < MaxSteps, NEW c \in Calls, Call(c) PROVE TypeOK'
  <2>1. Shadow(tag') /\ Shadow(dep')
    BY <1>2, CallType, TypeIsShadow
  <2>2. steps' = steps + 1 /\ steps \in 0 .. MaxSteps
    BY <1>2 DEF Call, Quiet, Does, TypeOK
  <2>3. steps' \in 0 .. MaxSteps
    BY <1>2, <2>2, OptionAssumption
  <2> QED BY <2>1, <2>3 DEF TypeOK, Shadow
<1>3. CASE UNCHANGED vars
  BY <1>3 DEF vars, TypeOK
<1> QED BY <1>1, <1>2, <1>3 DEF CallNext, Ended, callVars

\* Neither an instruction nor the wrap of a function leaves the register file or
\* the buffers of its caller (sdft_pre, dispatch), for every library that the file
\* describes: lengths and pointers are the program's.
THEOREM CallTypes == Described => (CallSpec => []TypeOK)
<1> SUFFICES ASSUME Described PROVE CallSpec => []TypeOK
  OBVIOUS
<1>1. CallInit => TypeOK
  BY InitType DEF CallInit
<1>2. TypeOK /\ [CallNext]_callVars => TypeOK'
  BY CallNextType
<1> QED BY <1>1, <1>2, PTL DEF CallSpec

-----------------------------------------------------------------------------
(* No call loses an offset *)

\* A byte of g has the offsets it has in f, or is out of the handlers' reach.
Kept(f, g, c) == \A p \in Place : \A b \in Bytes(p) : f[p][b] \subseteq g[p][b] \/ Beyond(c, p, b)

\* Results computed from more are no smaller.
LEMMA ResultBelow ==
    ASSUME NEW f, NEW g, Shadow(f), Shadow(g), Below(f, g), NEW c \in Calls
    PROVE  Result(f, c) \subseteq Result(g, c) /\ OfArguments(f, c) \subseteq OfArguments(g, c)
<1>1. OfArguments(f, c) \subseteq OfArguments(g, c)
  <2>1. \A i \in ToSet(Fun[c.fun].args) :
           AllOf(f, Reg(arg_to_reg(i), REG_BYTES)) \subseteq AllOf(g, Reg(arg_to_reg(i), REG_BYTES))
    BY CallFacts, PointerFacts, RegFacts, BelowAt, SizeAssumption
  <2> QED BY <2>1 DEF OfArguments
<1>2. ASSUME ~IsCopy(c), NEW p \in Sources(c)
      PROVE  AllOf(f, Mem(p, Used(c, p))) \subseteq AllOf(g, Mem(p, Used(c, p)))
  <2>1. p \in Nat
    BY <1>2, BufferFacts
  <2>2. Used(c, p) \in Nat /\ Used(c, p) <= Moved(c, p)
    BY <2>1, SeenFacts
  <2>3. Slice(Mem(p, Used(c, p)))
    BY <1>2, <2>2, BuffersType
  <2> QED BY <2>3, BelowAt
<1>3. CASE Fun[c.fun].shape = "PROP_PTR2VAL"
  <2>1. ~IsCopy(c)
    BY <1>3 DEF IsCopy
  <2>2. ASSUME NEW x \in Result(f, c) PROVE x \in Result(g, c)
    <3>1. PICK p \in Sources(c) : x \in AllOf(f, Mem(p, Used(c, p)))
      BY <1>3 DEF Result
    <3>2. x \in AllOf(g, Mem(p, Used(c, p)))
      BY <1>2, <2>1, <3>1
    <3> QED BY <1>3, <3>2 DEF Result
  <2> QED BY <1>1, <2>2
<1>4. CASE Fun[c.fun].shape # "PROP_PTR2VAL"
  BY <1>1, <1>4 DEF Result
<1> QED BY <1>1, <1>3, <1>4

\* A byte of memory is a natural number.
LEMMA MemByte == \A b \in Bytes("mem") : b \in Nat /\ b < MEM_BYTES
BY SizeAssumption DEF Bytes, Size

\* The body of a function without a wrap.
LEMMA BodyKeeps ==
    ASSUME NEW f, NEW g, Shadow(f), Shadow(g), Below(f, g), NEW c \in Calls,
           NEW e, EffectIs(f, c, e), NEW h, EffectIs(g, c, h)
    PROVE  Kept(e, h, c)
<1> SUFFICES ASSUME NEW p \in Place, NEW b \in Bytes(p)
             PROVE  e[p][b] \subseteq h[p][b]
  BY DEF Kept
<1>1. CASE p = "mem"
  <2>1. ASSUME IsCopy(c), Dst(c) <= b, b < Dst(c) + Moved(c, Src(c))
        PROVE  Src(c) + (b - Dst(c)) \in Bytes("mem")
    <3>1. /\ Src(c) \in Nat /\ Dst(c) \in Nat /\ Moved(c, Src(c)) \in Nat
          /\ Src(c) + Moved(c, Src(c)) <= MEM_BYTES
      BY <2>1, BufferFacts, SeenFacts
    <3> QED BY <1>1, <2>1, <3>1, MemByte, SizeAssumption DEF Bytes, Size
  <2> QED BY <1>1, <2>1 DEF Below, EffectIs
<1>2. CASE p = "rax"
  BY <1>2, ResultBelow DEF EffectIs
<1>3. CASE p \notin {"mem", "rax"}
  BY <1>3 DEF Below, EffectIs
<1> QED BY <1>1, <1>2, <1>3

\* The wrap of a function whose body is skipped.
LEMMA WrapKeeps ==
    ASSUME NEW f, NEW g, Shadow(f), Shadow(g), Below(f, g), NEW c \in Calls,
           NEW e, EffectIs(f, c, e), NEW h, HandlerIs(g, c, h)
    PROVE  Kept(e, h, c)
<1> SUFFICES ASSUME NEW p \in Place, NEW b \in Bytes(p), ~Beyond(c, p, b)
             PROVE  e[p][b] \subseteq h[p][b]
  BY DEF Kept
<1>1. CASE p = "mem"
  <2>1. CASE IsCopy(c) /\ Dst(c) <= b /\ b < Dst(c) + Moved(c, Src(c))
    <3>1. /\ Src(c) \in Nat /\ Dst(c) \in Nat /\ Moved(c, Src(c)) \in Nat
          /\ Src(c) + Moved(c, Src(c)) <= MEM_BYTES
          /\ Seen(c, Src(c)) \in Nat /\ Seen(c, Src(c)) <= Moved(c, Src(c))
      BY <2>1, BufferFacts, SeenFacts
    <3>2. /\ b < Dst(c) + Seen(c, Src(c)) /\ b \in Nat
          /\ ~(Src(c) < Dst(c) /\ Dst(c) < Src(c) + Moved(c, Src(c)))
      <4>1. ~Overlaps(c) /\ ~(b >= Dst(c) + Seen(c, Src(c)))
        BY <1>1, <2>1 DEF Beyond, IsCopy, Src, Dst, Seen
      <4> QED BY <1>1, <3>1, <4>1, MemByte DEF Overlaps, Src, Dst
    <3>3. CopyFrom(Dst(c), Src(c), Seen(c, Src(c)), b - Dst(c)) = Src(c) + (b - Dst(c))
      BY <2>1, <3>1, <3>2 DEF CopyFrom
    <3>4. Src(c) + (b - Dst(c)) \in Bytes("mem")
      BY <2>1, <3>1, <3>2, SizeAssumption DEF Bytes, Size
    <3>5. e["mem"][b] = f["mem"][Src(c) + (b - Dst(c))]
      BY <1>1, <2>1 DEF EffectIs
    <3>6. h["mem"][b] = g["mem"][Src(c) + (b - Dst(c))]
      BY <1>1, <2>1, <3>2, <3>3 DEF HandlerIs
    <3> QED BY <1>1, <3>4, <3>5, <3>6 DEF Below
  <2>2. CASE ~(IsCopy(c) /\ Dst(c) <= b /\ b < Dst(c) + Moved(c, Src(c)))
    <3>1. ~(IsCopy(c) /\ Dst(c) <= b /\ b < Dst(c) + Seen(c, Src(c)))
      <4> SUFFICES ASSUME IsCopy(c), Dst(c) <= b, b < Dst(c) + Seen(c, Src(c)) PROVE FALSE
        OBVIOUS
      <4>1. /\ Dst(c) \in Nat /\ Moved(c, Src(c)) \in Nat /\ Seen(c, Src(c)) \in Nat
            /\ Seen(c, Src(c)) <= Moved(c, Src(c)) /\ b \in Nat
        BY <1>1, BufferFacts, SeenFacts, MemByte
      <4> QED BY <2>2, <4>1
    <3>2. e["mem"][b] = f["mem"][b] /\ h["mem"][b] = g["mem"][b]
      BY <1>1, <2>2, <3>1 DEF HandlerIs, EffectIs
    <3> QED BY <1>1, <3>2 DEF Below
  <2> QED BY <2>1, <2>2
<1>2. CASE p = "rax"
  <2>1. e["rax"][b] = Result(f, c) /\ h["rax"][b] = Answer(g, c)
    BY <1>2 DEF HandlerIs, EffectIs
  <2>2. Result(f, c) \subseteq Result(g, c)
    BY ResultBelow
  <2>3. CASE Fun[c.fun].shape = "PROP_PTR2VAL"
    <3>1. ~IsCopy(c) /\ \A q \in Sources(c) : ~(Used(c, q) > MAX_PROP_BYTES)
      BY <1>2, <2>3 DEF Beyond, IsCopy
    <3>2. ASSUME NEW q \in Sources(c)
          PROVE  /\ q # 0 => Seen(c, q) = Used(c, q)
                 /\ q = 0 => AllOf(g, Mem(q, Used(c, q))) = {}
      <4>1. q \in Nat /\ (q = 0 => Moved(c, q) = 0)
        BY <3>1, BufferFacts
      <4>2. /\ Used(c, q) \in Nat /\ Used(c, q) <= Moved(c, q) /\ Moved(c, q) \in Nat
            /\ Used(c, q) <= MAX_PROP_BYTES => Seen(c, q) = Used(c, q)
        BY <4>1, SeenFacts
      <4>3. Seen(c, q) = Used(c, q)
        BY <3>1, <4>2, LengthAssumption
      <4>4. q = 0 => Used(c, q) = 0
        BY <4>1, <4>2
      <4>5. AllOf(g, Mem(q, 0)) = {}
        BY DEF AllOf, Lanes, Mem
      <4> QED BY <4>3, <4>4, <4>5
    <3>3. Result(g, c) = UNION {AllOf(g, Mem(q, Used(c, q))) : q \in Sources(c)}
      BY <2>3 DEF Result
    <3>4. Answer(g, c) = UNION {AllOf(g, Mem(q, Seen(c, q))) : q \in Sources(c) \ {0}}
      BY <2>3, <3>1 DEF Answer
    <3>5. Result(g, c) \subseteq Answer(g, c)
      BY <3>2, <3>3, <3>4
    <3> QED BY <1>2, <2>1, <2>2, <3>5
  <2>4. CASE Fun[c.fun].shape # "PROP_PTR2VAL"
    <3>1. Result(g, c) \subseteq Answer(g, c)
      BY <2>4 DEF Result, Answer, IsCopy
    <3> QED BY <1>2, <2>1, <2>2, <3>1
  <2> QED BY <2>3, <2>4
<1>3. CASE p \notin {"mem", "rax"}
  BY <1>3 DEF Below, HandlerIs, EffectIs
<1> QED BY <1>1, <1>2, <1>3

\* A result computed from buffers depends on memory only.
LEMMA BufferResult ==
    ASSUME NEW f, NEW h, NEW c \in Calls, Fun[c.fun].shape = "PROP_PTR2VAL",
           \A b \in Bytes("mem") : f["mem"][b] \subseteq h["mem"][b]
    PROVE  Result(f, c) \subseteq Result(h, c)
<1>0. ~IsCopy(c)
  BY DEF IsCopy
<1> SUFFICES ASSUME NEW x \in Result(f, c) PROVE x \in Result(h, c)
  OBVIOUS
<1>1. PICK p \in Sources(c) : x \in AllOf(f, Mem(p, Used(c, p)))
  BY DEF Result
<1> DEFINE n == Used(c, p)
<1>2. p \in Nat /\ p + Moved(c, p) <= MEM_BYTES
  BY <1>0, BufferFacts
<1>3. n \in Nat /\ n <= Moved(c, p) /\ Moved(c, p) \in Nat
  BY <1>2, SeenFacts
<1>4. p + n <= MEM_BYTES
  BY <1>2, <1>3, SizeAssumption
<1> HIDE DEF n
<1>5. /\ Lanes(Mem(p, n)) = 0 .. n - 1 /\ \A i \in 0 .. n - 1 : p + i \in Bytes("mem")
      /\ \A i : At(f, Mem(p, n), i) = f["mem"][p + i] /\ At(h, Mem(p, n), i) = h["mem"][p + i]
  <2>1. p \in Nat /\ n \in Nat /\ p + n <= MEM_BYTES
    BY <1>2, <1>3, <1>4
  <2>2. Lanes(Mem(p, n)) = 0 .. n - 1 /\ \A i \in 0 .. n - 1 : p + i \in Bytes("mem")
    BY <2>1, MemFacts
  <2>3. \A i : At(f, Mem(p, n), i) = f["mem"][p + i] /\ At(h, Mem(p, n), i) = h["mem"][p + i]
    BY DEF Mem, At
  <2> QED BY <2>2, <2>3
<1>6. x \in AllOf(h, Mem(p, n))
  BY <1>1, <1>5 DEF AllOf, n
<1> QED BY <1>6 DEF Result, n

\* The wrap of a function whose body is propagated after it.
LEMMA TwiceKeeps ==
    ASSUME NEW f, NEW g, Shadow(f), Shadow(g), Below(f, g), NEW c \in Calls,
           c.fun \in Body, Fun[c.fun].shape # "PROP_SCALAR",
           NEW e, EffectIs(f, c, e), NEW h, HandlerIs(g, c, h), NEW k, EffectIs(h, c, k)
    PROVE  Kept(e, k, c)
<1> SUFFICES ASSUME NEW p \in Place, NEW b \in Bytes(p), ~Beyond(c, p, b)
             PROVE  e[p][b] \subseteq k[p][b]
  BY DEF Kept
<1>0. IsCopy(c) =>
         /\ Src(c) \in Nat /\ Dst(c) \in Nat /\ Moved(c, Src(c)) \in Nat
         /\ Src(c) + Moved(c, Src(c)) <= MEM_BYTES
         /\ Seen(c, Src(c)) \in Nat /\ Seen(c, Src(c)) <= Moved(c, Src(c))
  BY BufferFacts, SeenFacts
<1>1. CASE p = "mem"
  <2>0. b \in Nat
    BY <1>1, MemByte
  <2>1. CASE IsCopy(c) /\ Dst(c) <= b /\ b < Dst(c) + Moved(c, Src(c))
    <3> DEFINE x == Src(c) + (b - Dst(c))
    <3>1. x \in Bytes("mem") /\ x \in Nat /\ Src(c) <= x /\ x < Src(c) + Moved(c, Src(c))
      BY <1>0, <2>0, <2>1, SizeAssumption DEF Bytes, Size
    <3>2. /\ ~(Src(c) < Dst(c) /\ Dst(c) < Src(c) + Moved(c, Src(c)))
          /\ ~(Dst(c) < Src(c) /\ Src(c) < Dst(c) + Moved(c, Src(c)))
      <4>1. ~Overlaps(c)
        BY <1>1, <2>1 DEF Beyond, IsCopy, Src, Dst
      <4> QED BY <4>1 DEF Overlaps, Src, Dst
    <3>3. e["mem"][b] = f["mem"][x] /\ k["mem"][b] = h["mem"][x]
      BY <1>1, <2>1 DEF EffectIs
    <3> HIDE DEF x
    <3>4. h["mem"][x] = g["mem"][x]
      <4>1. CASE Dst(c) <= x /\ x < Dst(c) + Seen(c, Src(c))
        <5>1. Src(c) = Dst(c)
          BY <1>0, <2>1, <3>1, <3>2, <4>1
        <5>2. CopyFrom(Dst(c), Src(c), Seen(c, Src(c)), x - Dst(c)) = x
          BY <1>0, <2>1, <3>1, <5>1 DEF CopyFrom
        <5> QED BY <2>1, <3>1, <4>1, <5>2 DEF HandlerIs
      <4>2. CASE ~(Dst(c) <= x /\ x < Dst(c) + Seen(c, Src(c)))
        BY <3>1, <4>2 DEF HandlerIs
      <4> QED BY <4>1, <4>2
    <3> QED BY <1>1, <3>1, <3>3, <3>4 DEF Below
  <2>2. CASE ~(IsCopy(c) /\ Dst(c) <= b /\ b < Dst(c) + Moved(c, Src(c)))
    <3>1. ~(IsCopy(c) /\ Dst(c) <= b /\ b < Dst(c) + Seen(c, Src(c)))
      BY <1>0, <2>0, <2>2
    <3>2. e["mem"][b] = f["mem"][b] /\ k["mem"][b] = h["mem"][b] /\ h["mem"][b] = g["mem"][b]
      BY <1>1, <2>2, <3>1 DEF HandlerIs, EffectIs
    <3> QED BY <1>1, <3>2 DEF Below
  <2> QED BY <2>1, <2>2
<1>2. CASE p = "rax"
  <2>1. e["rax"][b] = Result(f, c) /\ k["rax"][b] = Result(h, c)
    BY <1>2 DEF EffectIs
  <2>2. CASE Fun[c.fun].shape = "PROP_PTR2VAL"
    <3>1. ~IsCopy(c)
      BY <2>2 DEF IsCopy
    <3>2. \A x \in Bytes("mem") : f["mem"][x] \subseteq h["mem"][x]
      BY <3>1, RaxFacts DEF HandlerIs, Below
    <3> QED BY <1>2, <2>1, <2>2, <3>2, BufferResult
  <2>3. CASE Fun[c.fun].shape # "PROP_PTR2VAL"
    BY <1>2, <2>1, <2>3 DEF Result
  <2> QED BY <2>2, <2>3
<1>3. CASE p \notin {"mem", "rax"}
  BY <1>3 DEF Below, HandlerIs, EffectIs
<1> QED BY <1>1, <1>2, <1>3

\* One call.
LEMMA CallKeeps ==
    ASSUME Described, NEW c \in Calls, Call(c), Shadow(tag), Shadow(dep), Below(dep, tag)
    PROVE  Kept(dep', tag', c)
<1> DEFINE f == Passed(dep, c.fun)
           g == Passed(tag, c.fun)
           h == dispatch(g, c, Fun[c.fun])
<1>1. Shadow(f) /\ Shadow(g) /\ Below(f, g)
  BY CallFacts, PassedFacts, PassedBelow
<1>2. /\ dep' = Effect(f, c)
      /\ find(c.fun) = "" => tag' = Effect(g, c)
      /\ find(c.fun) # "" /\ c.fun \notin Body => tag' = h
      /\ find(c.fun) # "" /\ c.fun \in Body =>
            tag' = Effect(h, c) /\ Fun[c.fun].shape # "PROP_SCALAR"
  BY CallTags
<1> HIDE DEF f, g
<1>3. HandlerIs(g, c, h)
  BY <1>1, HandlerFacts
<1> HIDE DEF h
<1>4. Shadow(h)
  BY <1>3 DEF HandlerIs
<1>5. EffectIs(f, c, Effect(f, c)) /\ EffectIs(g, c, Effect(g, c)) /\ EffectIs(h, c, Effect(h, c))
  BY <1>1, <1>4, EffectFacts
<1>6. CASE find(c.fun) = ""
  BY <1>1, <1>2, <1>5, <1>6, BodyKeeps
<1>7. CASE find(c.fun) # "" /\ c.fun \notin Body
  BY <1>1, <1>2, <1>3, <1>5, <1>7, WrapKeeps
<1>8. CASE find(c.fun) # "" /\ c.fun \in Body
  BY <1>1, <1>2, <1>3, <1>5, <1>8, TwiceKeeps
<1> QED BY <1>6, <1>7, <1>8

\* No call loses an offset within the reach of its handler: what a function copies
\* and what it computes its result from keeps its labels, whether its body is
\* skipped, propagated, or propagated after the wrap (sdft_pre, dispatch and the
\* handlers), for all buffers and all lengths.
THEOREM SummariesLoseNothing == Described => (CallSpec => CallsKeepTaint)
<1> SUFFICES ASSUME Described PROVE CallSpec => CallsKeepTaint
  OBVIOUS
<1> DEFINE Keeps == NoFalseNegatives /\ call' # NoCall /\ steps' > steps =>
                       \A p \in Place : \A b \in Bytes(p) :
                          dep'[p][b] \subseteq tag'[p][b] \/ Beyond(call', p, b)
<1>1. TypeOK /\ [CallNext]_callVars => [Keeps]_callVars
  <2> SUFFICES ASSUME TypeOK, CallNext, NoFalseNegatives, call' # NoCall, steps' > steps
               PROVE  \A p \in Place : \A b \in Bytes(p) :
                         dep'[p][b] \subseteq tag'[p][b] \/ Beyond(call', p, b)
    OBVIOUS
  <2>1. PICK c \in Calls : Call(c)
    <3>1. ~Ended
      BY DEF Ended, vars, TypeOK
    <3> QED BY <3>1 DEF CallNext
  <2>2. Kept(dep', tag', c)
    BY <2>1, CallKeeps, TypeIsShadow DEF NoFalseNegatives, Below
  <2>3. call' = c
    BY <2>1 DEF Call
  <2> QED BY <2>2, <2>3 DEF Kept
<1> QED BY <1>1, CallTypes, PTL DEF CallSpec, CallsKeepTaint

-----------------------------------------------------------------------------
(* No call invents an offset *)

\* The tags are those of the body, not of the wrap alone.
Runs(c) == find(c.fun) = "" \/ c.fun \in Body

\* How far the tags of a call reach.
LEMMA ReachFacts ==
    ASSUME NEW c \in Calls, NEW p \in Nat
    PROVE  /\ Reach(c, p) \in Nat /\ Seen(c, p) <= Reach(c, p) /\ Reach(c, p) <= Moved(c, p)
           /\ Runs(c) => Reach(c, p) = Moved(c, p)
           /\ ~Runs(c) => Reach(c, p) = Seen(c, p)
<1>1. /\ Runs(c) => Reach(c, p) = Moved(c, p)
      /\ ~Runs(c) => Reach(c, p) = Seen(c, p)
  BY DEF Runs, Reach, Seen
<1>2. Seen(c, p) \in Nat /\ Moved(c, p) \in Nat /\ Seen(c, p) <= Moved(c, p)
  BY SeenFacts
<1> QED BY <1>1, <1>2

\* What a byte of a source carries is carried by what the call reads.
LEMMA SourceCarried ==
    ASSUME NEW c, NEW p \in Sources(c) \ {0}, NEW n \in Nat, NEW m \in Nat, n <= m,
           m = Reach(c, p)
    PROVE  /\ \A i \in 0 .. n - 1 : tag["mem"][p + i] \subseteq Carried(Read(c))
           /\ AllOf(tag, Mem(p, n)) \subseteq Carried(Read(c))
<1>1. Mem(p, m) \in Read(c)
  BY DEF Read
<1>2. /\ Lanes(Mem(p, m)) = 0 .. m - 1 /\ Lanes(Mem(p, n)) = 0 .. n - 1
      /\ \A i : At(tag, Mem(p, m), i) = tag["mem"][p + i] /\ At(tag, Mem(p, n), i) = tag["mem"][p + i]
  BY DEF Lanes, Mem, At
<1>3. \A i \in 0 .. n - 1 : tag["mem"][p + i] \subseteq Carried(Read(c))
  BY <1>1, <1>2, InCarried
<1> QED BY <1>2, <1>3 DEF AllOf

\* So is what a byte of the source of a copy carries.
LEMMA CopiedCarried ==
    ASSUME NEW c \in Calls, IsCopy(c), NEW x \in Nat, Src(c) <= x, x < Src(c) + Reach(c, Src(c))
    PROVE  tag["mem"][x] \subseteq Carried(Read(c))
<1>1. /\ Src(c) \in Nat /\ Moved(c, Src(c)) \in Nat
      /\ Src(c) = 0 => Moved(c, Src(c)) = 0
  BY BufferFacts, SeenFacts
<1>2. Reach(c, Src(c)) \in Nat /\ Reach(c, Src(c)) <= Moved(c, Src(c))
  BY <1>1, ReachFacts
<1>3. Src(c) # 0
  BY <1>1, <1>2
<1>4. Src(c) \in Sources(c) \ {0}
  BY <1>3, CallFacts, PointerFacts DEF Sources, Src, IsCopy
<1>5. x - Src(c) \in 0 .. Reach(c, Src(c)) - 1 /\ Src(c) + (x - Src(c)) = x
  BY <1>1, <1>2
<1> QED BY <1>2, <1>4, <1>5, SourceCarried

\* The results computed from g, which has the memory of tag and no more in the
\* argument registers.
LEMMA ValueCarried ==
    ASSUME NEW c \in Calls, NEW g, g["mem"] = tag["mem"],
           OfArguments(g, c) \subseteq OfArguments(tag, c)
    PROVE  /\ Answer(g, c) \subseteq Carried(Read(c))
           /\ Runs(c) => Result(g, c) \subseteq Carried(Read(c))
<1>1. OfArguments(g, c) \subseteq Carried(Read(c))
  <2>1. \A i \in ToSet(Fun[c.fun].args) : Reg(arg_to_reg(i), REG_BYTES) \in Read(c)
    BY DEF Read
  <2> QED BY <2>1, InCarried DEF OfArguments
<1>2. \A p, n : AllOf(g, Mem(p, n)) = AllOf(tag, Mem(p, n))
  BY DEF AllOf, At, Mem
<1>3. CASE IsCopy(c)
  <2>1. ASSUME Seen(c, Src(c)) > 0 PROVE tag["mem"][Src(c)] \subseteq Carried(Read(c))
    <3>1. Src(c) \in Nat
      BY <1>3, BufferFacts
    <3>2. Reach(c, Src(c)) \in Nat /\ Seen(c, Src(c)) \in Nat /\ Seen(c, Src(c)) <= Reach(c, Src(c))
      BY <3>1, ReachFacts, SeenFacts
    <3>3. Src(c) < Src(c) + Reach(c, Src(c))
      BY <2>1, <3>1, <3>2
    <3> QED BY <1>3, <3>1, <3>3, CopiedCarried
  <2> QED BY <1>3, <2>1 DEF Answer, Result, IsCopy
<1>4. CASE Fun[c.fun].shape = "PROP_PTR2VAL"
  <2>0. ~IsCopy(c)
    BY <1>4 DEF IsCopy
  <2>1. ASSUME NEW p \in Sources(c)
        PROVE  /\ p # 0 => AllOf(tag, Mem(p, Seen(c, p))) \subseteq Carried(Read(c))
               /\ Runs(c) => AllOf(tag, Mem(p, Used(c, p))) \subseteq Carried(Read(c))
    <3>1. p \in Nat /\ (p = 0 => Moved(c, p) = 0)
      BY <2>0, BufferFacts
    <3>2. /\ Seen(c, p) \in Nat /\ Used(c, p) \in Nat /\ Moved(c, p) \in Nat
          /\ Used(c, p) <= Moved(c, p)
          /\ Reach(c, p) \in Nat /\ Seen(c, p) <= Reach(c, p)
          /\ Runs(c) => Used(c, p) <= Reach(c, p)
      BY <3>1, SeenFacts, ReachFacts
    <3>3. p = 0 => AllOf(tag, Mem(p, Used(c, p))) = {}
      <4>1. p = 0 => Used(c, p) = 0
        BY <3>1, <3>2
      <4>2. AllOf(tag, Mem(p, 0)) = {}
        BY DEF AllOf, Lanes, Mem
      <4> QED BY <4>1, <4>2
    <3> QED BY <3>2, <3>3, SourceCarried
  <2>2. Answer(g, c) \subseteq Carried(Read(c))
    <3>1. Answer(g, c) = UNION {AllOf(tag, Mem(p, Seen(c, p))) : p \in Sources(c) \ {0}}
      BY <1>2, <1>4, <2>0 DEF Answer
    <3> QED BY <2>1, <3>1
  <2>3. Runs(c) => Result(g, c) \subseteq Carried(Read(c))
    <3>1. Result(g, c) = UNION {AllOf(tag, Mem(p, Used(c, p))) : p \in Sources(c)}
      BY <1>2, <1>4 DEF Result
    <3> QED BY <2>1, <3>1
  <2> QED BY <2>2, <2>3
<1>5. CASE ~IsCopy(c) /\ Fun[c.fun].shape # "PROP_PTR2VAL"
  BY <1>1, <1>5 DEF Answer, Result
<1> QED BY <1>3, <1>4, <1>5

\* What a function is passed holds no more than its caller had.
LEMMA PassedArguments ==
    ASSUME Shadow(tag), NEW c \in Calls
    PROVE  OfArguments(Passed(tag, c.fun), c) \subseteq OfArguments(tag, c)
<1>1. c.fun \in DOMAIN Fun
  BY CallFacts
<1>2. ASSUME NEW i \in ToSet(Fun[c.fun].args)
      PROVE  AllOf(Passed(tag, c.fun), Reg(arg_to_reg(i), REG_BYTES))
                \subseteq AllOf(tag, Reg(arg_to_reg(i), REG_BYTES))
  <2> DEFINE r == arg_to_reg(i)
  <2>1. r \in Row /\ r \in Place
    BY <1>1, PointerFacts DEF Place
  <2>2. Lanes(Reg(r, REG_BYTES)) \subseteq Bytes(r)
    BY <2>1, RowAssumption, SizeAssumption DEF Lanes, Reg, Bytes, Size
  <2> HIDE DEF r
  <2>3. \A b \in Bytes(r) : Passed(tag, c.fun)[r][b] \subseteq tag[r][b]
    BY <2>1 DEF Passed
  <2>4. /\ \A f : \A b \in Lanes(Reg(r, REG_BYTES)) : At(f, Reg(r, REG_BYTES), b) = f[r][b]
    BY SizeAssumption DEF At, Reg, Lanes
  <2>5. AllOf(Passed(tag, c.fun), Reg(r, REG_BYTES)) \subseteq AllOf(tag, Reg(r, REG_BYTES))
    BY <2>2, <2>3, <2>4 DEF AllOf
  <2> QED BY <2>5 DEF r
<1> QED BY <1>2 DEF OfArguments

\* Tags that change as a call may change them.
LEMMA OwnBytes ==
    ASSUME NEW c \in Calls, NEW k,
           \A r \in Place \ {"mem"} : \A b \in Bytes(r) :
              \/ k[r][b] = tag[r][b]
              \/ r \in CallerSaved /\ k[r][b] \subseteq Carried(Read(c)),
           \A b \in Bytes("mem") :
              \/ k["mem"][b] = tag["mem"][b]
              \/ /\ IsCopy(c) /\ Dst(c) <= b /\ b < Dst(c) + Reach(c, Src(c))
                 /\ k["mem"][b] \subseteq Carried(Read(c))
    PROVE  Attributed(k, Read(c), Written(c))
<1> SUFFICES ASSUME NEW p \in Place, NEW b \in Bytes(p), k[p][b] # tag[p][b]
             PROVE  /\ \E o \in Written(c) : o.at = p /\ Spans(o, b)
                    /\ k[p][b] \subseteq tag[p][b] \cup Carried(Read(c))
  BY DEF Attributed
<1>1. CASE p = "mem"
  <2> DEFINE o == Mem(Dst(c), Reach(c, Src(c)))
  <2>1. /\ IsCopy(c) /\ Dst(c) <= b /\ b < Dst(c) + Reach(c, Src(c))
        /\ k["mem"][b] \subseteq Carried(Read(c))
    BY <1>1
  <2>2. o \in Written(c)
    BY <2>1 DEF Written, IsCopy, Dst, Src
  <2>3. o.at = "mem" /\ Spans(o, b)
    BY <2>1 DEF Mem, Spans
  <2> QED BY <1>1, <2>1, <2>2, <2>3
<1>2. CASE p # "mem"
  <2> DEFINE o == Reg(p, REG_BYTES)
  <2>1. p \in CallerSaved /\ k[p][b] \subseteq Carried(Read(c))
    BY <1>2
  <2>2. o \in Written(c)
    BY <2>1 DEF Written
  <2>3. o.at = p /\ Spans(o, b)
    BY <1>2, SizeAssumption DEF Reg, Spans, Bytes, Size
  <2> QED BY <2>1, <2>2, <2>3
<1> QED BY <1>1, <1>2

\* The registers a function returns with, when it is entered with g and computes
\* a result from s.
Returns(g, s, k) ==
    /\ \A r \in Place \ {"mem", "rax"} :
          k[r] = IF r \in CallerSaved THEN [b \in Bytes(r) |-> {}] ELSE g[r]
    /\ k["rax"] = [b \in Bytes("rax") |-> s]

\* The registers the caller keeps are as they are in tag.
Preserved(g) == \A r \in Place \ {"mem", "rax"} : r \notin CallerSaved => g[r] = tag[r]

\* What a register holds after a call: what the caller left in it, nothing, or the
\* result.
LEMMA OwnRegisters ==
    ASSUME NEW c, NEW g, Preserved(g), NEW s, s \subseteq Carried(Read(c)),
           NEW k, Returns(g, s, k)
    PROVE  \A r \in Place \ {"mem"} : \A b \in Bytes(r) :
              \/ k[r][b] = tag[r][b]
              \/ r \in CallerSaved /\ k[r][b] \subseteq Carried(Read(c))
<1> USE DEF Returns, Preserved
<1> SUFFICES ASSUME NEW r \in Place \ {"mem"}, NEW b \in Bytes(r)
             PROVE  \/ k[r][b] = tag[r][b]
                    \/ r \in CallerSaved /\ k[r][b] \subseteq Carried(Read(c))
  OBVIOUS
<1>1. CASE r = "rax"
  BY <1>1, RaxFacts
<1>2. CASE r # "rax" /\ r \in CallerSaved
  <2>1. k[r][b] = {}
    BY <1>2
  <2> QED BY <1>2, <2>1
<1>3. CASE r # "rax" /\ r \notin CallerSaved
  BY <1>3
<1> QED BY <1>1, <1>2, <1>3

\* A call, whether its body is skipped or not.
LEMMA CallOwn ==
    ASSUME Described, Shadow(tag), NEW c \in Calls, Call(c)
    PROVE  OwnTags
<1> DEFINE g == Passed(tag, c.fun)
           h == dispatch(g, c, Fun[c.fun])
           R == Reach(c, Src(c))
<1>1. /\ Shadow(g) /\ g["mem"] = tag["mem"]
      /\ Preserved(g)
      /\ OfArguments(g, c) \subseteq OfArguments(tag, c)
  BY CallFacts, PassedFacts, PassedArguments DEF Preserved
<1>2. /\ find(c.fun) = "" => tag' = Effect(g, c)
      /\ find(c.fun) # "" /\ c.fun \notin Body => tag' = h
      /\ find(c.fun) # "" /\ c.fun \in Body =>
            tag' = Effect(h, c) /\ Fun[c.fun].shape # "PROP_SCALAR"
  BY CallTags
<1>3. last'.reads = Read(c) /\ last'.writes = Written(c)
  BY Operands DEF Call, Quiet
<1> HIDE DEF g
<1>4. HandlerIs(g, c, h)
  BY <1>1, HandlerFacts
<1> HIDE DEF h
<1>5. EffectIs(g, c, Effect(g, c)) /\ EffectIs(h, c, Effect(h, c))
  BY <1>1, <1>4, EffectFacts DEF HandlerIs
<1>6. /\ Answer(g, c) \subseteq Carried(Read(c))
      /\ Runs(c) => Result(g, c) \subseteq Carried(Read(c))
  BY <1>1, ValueCarried
<1>7. IsCopy(c) =>
         /\ Src(c) \in Nat /\ Dst(c) \in Nat /\ R \in Nat
         /\ Seen(c, Src(c)) \in Nat /\ Seen(c, Src(c)) <= R
         /\ Src(c) + R <= MEM_BYTES
         /\ Runs(c) => R = Moved(c, Src(c))
  <2> SUFFICES ASSUME IsCopy(c)
               PROVE  /\ Src(c) \in Nat /\ Dst(c) \in Nat /\ R \in Nat
                      /\ Seen(c, Src(c)) \in Nat /\ Seen(c, Src(c)) <= R
                      /\ Src(c) + R <= MEM_BYTES
                      /\ Runs(c) => R = Moved(c, Src(c))
    OBVIOUS
  <2>1. Src(c) \in Nat /\ Dst(c) \in Nat /\ Src(c) + Moved(c, Src(c)) <= MEM_BYTES
    BY BufferFacts
  <2>2. /\ R \in Nat /\ R <= Moved(c, Src(c)) /\ Seen(c, Src(c)) <= R
        /\ Seen(c, Src(c)) \in Nat /\ Moved(c, Src(c)) \in Nat
        /\ Runs(c) => R = Moved(c, Src(c))
    BY <2>1, ReachFacts, SeenFacts
  <2> QED BY <2>1, <2>2, SizeAssumption
<1>8. IsCopy(c) => \A x \in Nat : Src(c) <= x /\ x < Src(c) + R => tag["mem"][x] \subseteq Carried(Read(c))
  BY CopiedCarried
<1> HIDE DEF R
\* The memory after the wrap.
<1>9. ASSUME NEW b \in Bytes("mem")
      PROVE  \/ h["mem"][b] = tag["mem"][b]
             \/ /\ IsCopy(c) /\ Dst(c) <= b /\ b < Dst(c) + R
                /\ h["mem"][b] \subseteq Carried(Read(c))
  <2>1. CASE IsCopy(c) /\ Dst(c) <= b /\ b < Dst(c) + Seen(c, Src(c))
    <3> DEFINE n == Seen(c, Src(c))
               x == CopyFrom(Dst(c), Src(c), n, b - Dst(c))
    <3>0. b \in Nat /\ n \in Nat /\ n <= R /\ Src(c) \in Nat /\ Dst(c) \in Nat /\ R \in Nat
      BY <1>7, <2>1, MemByte
    <3>1. b - Dst(c) \in 0 .. n - 1
      BY <2>1, <3>0
    <3>2. x \in Src(c) .. Src(c) + n - 1
      BY <1>7, <2>1, <3>0, <3>1, CopyIndex
    <3>3. h["mem"][b] = tag["mem"][x]
      BY <1>1, <1>4, <2>1 DEF HandlerIs
    <3> HIDE DEF x, n
    <3>4. x \in Nat /\ Src(c) <= x /\ x < Src(c) + R /\ b < Dst(c) + R
      BY <3>0, <3>1, <3>2
    <3> QED BY <1>8, <2>1, <3>3, <3>4
  <2>2. CASE ~(IsCopy(c) /\ Dst(c) <= b /\ b < Dst(c) + Seen(c, Src(c)))
    BY <1>1, <1>4, <2>2 DEF HandlerIs
  <2> QED BY <2>1, <2>2
\* The registers after the wrap.
<1>10. Preserved(h)
  BY <1>1, <1>4 DEF HandlerIs, Preserved
\* The memory after the body, with or without a wrap.
<1>11. ASSUME Runs(c), NEW f \in {g, h}, NEW k, EffectIs(f, c, k), NEW b \in Bytes("mem")
       PROVE  \/ k["mem"][b] = tag["mem"][b]
              \/ /\ IsCopy(c) /\ Dst(c) <= b /\ b < Dst(c) + R
                 /\ k["mem"][b] \subseteq Carried(Read(c))
  <2>0. \A y \in Bytes("mem") :
           \/ f["mem"][y] = tag["mem"][y]
           \/ IsCopy(c) /\ Dst(c) <= y /\ y < Dst(c) + R /\ f["mem"][y] \subseteq Carried(Read(c))
    BY <1>1, <1>9, <1>11
  <2>1. CASE IsCopy(c) /\ Dst(c) <= b /\ b < Dst(c) + R
    <3> DEFINE x == Src(c) + (b - Dst(c))
    <3>1. b \in Nat /\ Src(c) \in Nat /\ Dst(c) \in Nat /\ R \in Nat /\ Src(c) + R <= MEM_BYTES
      BY <1>7, <2>1, MemByte
    <3>2. x \in Nat /\ Src(c) <= x /\ x < Src(c) + R /\ x \in Bytes("mem")
      BY <2>1, <3>1, SizeAssumption DEF Bytes, Size
    <3>3. k["mem"][b] = f["mem"][x]
      BY <1>7, <1>11, <2>1 DEF EffectIs
    <3> HIDE DEF x
    <3>4. tag["mem"][x] \subseteq Carried(Read(c))
      BY <1>8, <2>1, <3>2
    <3> QED BY <2>0, <2>1, <3>2, <3>3, <3>4
  <2>2. CASE ~(IsCopy(c) /\ Dst(c) <= b /\ b < Dst(c) + R)
    <3>1. k["mem"][b] = f["mem"][b]
      BY <1>7, <1>11, <2>2 DEF EffectIs
    <3> QED BY <2>0, <2>2, <3>1
  <2> QED BY <2>1, <2>2
<1>12. CASE find(c.fun) # "" /\ c.fun \notin Body
  <2>1. \A r \in Place \ {"mem"} : \A b \in Bytes(r) :
           \/ h[r][b] = tag[r][b]
           \/ r \in CallerSaved /\ h[r][b] \subseteq Carried(Read(c))
    <3>1. Returns(g, Answer(g, c), h)
      BY <1>4 DEF HandlerIs, Returns
    <3> QED BY <1>1, <1>6, <3>1, OwnRegisters
  <2>2. Attributed(h, Read(c), Written(c))
    BY <1>9, <2>1, OwnBytes DEF R
  <2> QED BY <1>2, <1>3, <1>12, <2>2 DEF OwnTags
<1>13. CASE Runs(c)
  <2>1. PICK f \in {g, h} : tag' = Effect(f, c) /\ Result(f, c) \subseteq Carried(Read(c))
    <3>1. CASE find(c.fun) = ""
      BY <1>2, <1>6, <1>13, <3>1
    <3>2. CASE find(c.fun) # "" /\ c.fun \in Body
      <4>1. Fun[c.fun].shape # "PROP_SCALAR" /\ tag' = Effect(h, c)
        BY <1>2, <3>2
      <4>2. CASE Fun[c.fun].shape = "PROP_PTR2VAL"
        <5>1. ~IsCopy(c)
          BY <4>2 DEF IsCopy
        <5>2. h["mem"] = g["mem"]
          BY <1>1, <1>4, <5>1, RaxFacts DEF HandlerIs, Shadow
        <5>3. Result(h, c) = Result(g, c)
          BY <4>2, <5>2 DEF Result, AllOf, At, Mem
        <5> QED BY <1>6, <1>13, <4>1, <5>3
      <4>3. CASE Fun[c.fun].shape # "PROP_PTR2VAL"
        BY <4>1, <4>3 DEF Result
      <4> QED BY <4>2, <4>3
    <3> QED BY <1>13, <3>1, <3>2 DEF Runs
  <2> DEFINE k == Effect(f, c)
  <2>2. EffectIs(f, c, k)
    BY <1>5
  <2> HIDE DEF k
  <2>3. Preserved(f)
    BY <1>1, <1>10
  <2>4. \A r \in Place \ {"mem"} : \A b \in Bytes(r) :
           \/ k[r][b] = tag[r][b]
           \/ r \in CallerSaved /\ k[r][b] \subseteq Carried(Read(c))
    <3>1. Returns(f, Result(f, c), k)
      BY <2>2 DEF EffectIs, Returns
    <3> QED BY <2>1, <2>3, <3>1, OwnRegisters
  <2>5. \A b \in Bytes("mem") :
           \/ k["mem"][b] = tag["mem"][b]
           \/ /\ IsCopy(c) /\ Dst(c) <= b /\ b < Dst(c) + Reach(c, Src(c))
              /\ k["mem"][b] \subseteq Carried(Read(c))
    BY <1>11, <1>13, <2>2 DEF R
  <2>6. Attributed(k, Read(c), Written(c))
    BY <2>4, <2>5, OwnBytes
  <2> QED BY <1>3, <2>1, <2>6 DEF OwnTags, k
<1> QED BY <1>12, <1>13 DEF Runs

\* No call invents an offset: whether its body is skipped, propagated, or
\* propagated after the wrap, it changes the tags of the buffer it writes and of
\* the registers a call may change only, and what they get was carried by its
\* arguments or by the buffers it reads (sdft_pre, dispatch and the handlers).
THEOREM CallsAreAttributed == Described /\ OwnOperands => (CallSpec => TagsComeFromOperands)
<1> SUFFICES ASSUME Described, OwnOperands PROVE CallSpec => TagsComeFromOperands
  OBVIOUS
<1>1. TypeOK /\ [CallNext]_callVars => [OwnTags]_vars
  <2> SUFFICES ASSUME TypeOK, CallNext \/ UNCHANGED callVars, ~UNCHANGED vars PROVE OwnTags
    OBVIOUS
  <2>1. ins_inspect_dr \/ \E c \in Calls : Call(c)
    BY DEF CallNext, Ended, callVars
  <2> QED BY <2>1, TypeIsShadow, InstructionOwn, CallOwn
<1> QED BY <1>1, CallTypes, PTL DEF CallSpec, TagsComeFromOperands, OwnTags, Attributed
=============================================================================
