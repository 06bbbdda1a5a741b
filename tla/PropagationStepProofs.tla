----------------------- MODULE PropagationStepProofs -----------------------
(***************************************************************************)
(* Proofs about single steps of Propagation, for every set of registers    *)
(* and every width: an instruction that moves bytes is propagated exactly, *)
(* and no instruction tags a byte it does not write or with an offset its  *)
(* operands do not carry.                                                  *)
(*                                                                         *)
(* The first is about equality: where no upper bytes are cleared, Commit   *)
(* is Store, and the handler stores what the machine does.  The second is  *)
(* about one Store after another, each inside an operand written and with  *)
(* values that come from the operands read.                                *)
(***************************************************************************)
EXTENDS PropagationProofs, LoopTheorems

-----------------------------------------------------------------------------
(* Exactness *)

\* The instruction is one of Exact and clears no upper bytes of a register.
Plain == last'.op \in Exact /\ \A o \in last'.writes : IsMem(o) \/ o.n # DWORD

\* The machine writes as the engine does where no upper bytes are cleared.
LEMMA CommitIsStore ==
    ASSUME NEW f, NEW o, NEW v, IsMem(o) \/ o.n # DWORD
    PROVE  Commit(f, o, v) = Store(f, o, v)
BY DEF Commit, Store, IsMem

\* A shadow is a function on the places and nothing else.
Total(f) == f = [p \in Place |-> f[p]]

\* Store and Commit make functions.
LEMMA WritesTotal ==
    ASSUME NEW f, DOMAIN f = Place, NEW o, NEW v
    PROVE  Total(Store(f, o, v)) /\ Total(Commit(f, o, v))
BY DEF Store, Commit, Total

\* Storing what a slice already has changes nothing.
LEMMA StoreSame ==
    ASSUME NEW f, Shadow(f), Total(f), NEW o, Slice(o), NEW v,
           \A i \in Lanes(o) : v[i] = At(f, o, i)
    PROVE  Store(f, o, v) = f
<1>1. ASSUME NEW b \in Bytes(o.at), Spans(o, b) PROVE v[b - o.start] = f[o.at][b]
  BY <1>1, ByteLane DEF At
<1>2. o.at \in Place /\ DOMAIN f = Place /\ f[o.at] \in [Bytes(o.at) -> SUBSET Offset]
  BY DEF Slice, Shadow
<1>3. [b \in Bytes(o.at) |-> IF Spans(o, b) THEN v[b - o.start] ELSE f[o.at][b]] = f[o.at]
  BY <1>1, <1>2
<1>4. [f EXCEPT ![o.at] = f[o.at]] = f
  BY <1>2 DEF Total
<1> QED BY <1>3, <1>4 DEF Store

\* Every instruction leaves a function on the places.
LEMMA InstructionTotal ==
    ASSUME Shadow(dep), Total(dep), ins_inspect_dr
    PROVE  Total(dep')
<1> USE WritesTotal
<1>0. DOMAIN dep = Place
  BY DEF Shadow
<1>1. ASSUME NEW d, NEW s,
             \/ Mov(d, s) \/ Movzx(d, s) \/ Movsx(d, s) \/ Bsf(d, s) \/ Movbe(d, s)
             \/ Imul(d, s) \/ Imul3(d, s) \/ Adc(d, s) \/ Push(d, s) \/ Pop(d, s) \/ Movs(d, s)
             \/ Cmp(d, s) \/ Cmps(d, s)
      PROVE  Total(dep')
  BY <1>0, <1>1 DEF Mov, Movzx, Movsx, Bsf, Movbe, Imul, Imul3, Adc, Push, Pop, Movs,
                    Cmp, Cmps
<1>2. ASSUME NEW d, NEW s, NEW x,
             \/ Binary(x, d, s) \/ Cmov(x, d, s) \/ Cmpxchg(x, d, s) \/ Shld(d, s, x)
             \/ BinaryImm(x, d) \/ \E y : Lea(d, s, x, y)
      PROVE  Total(dep')
  BY <1>0, <1>2 DEF Binary, Cmov, Cmpxchg, Shld, BinaryImm, Lea
<1>3. ASSUME NEW d,
             \/ MovImm(d) \/ Shift(d) \/ Bswap(d) \/ Stos(d) \/ Lods(d)
             \/ ImulByte(d) \/ CmpImm(d) \/ Cwde(d) \/ Cdq(d) \/ LeaRel(d)
      PROVE  Total(dep')
  BY <1>0, <1>3 DEF MovImm, Shift, Bswap, Stos, Lods, ImulByte, CmpImm, Cwde, Cdq, LeaRel
<1>4. ASSUME NEW d \in Opnd, NEW s \in Opnd, Xchg(d, s) \/ Xadd(d, s) PROVE Total(dep')
  BY <1>0, <1>4, OpndFacts, CommitAt DEF Xchg, Xadd
<1>5. ASSUME NEW d \in Opnd, Leave(d) PROVE Total(dep')
  BY <1>0, <1>5, RegFacts, StoreAt, SizeAssumption DEF Leave
<1>6. ASSUME NEW d \in Opnd, NEW op, MulDiv(op, d) PROVE Total(dep')
  <2> DEFINE ax == Reg("rax", d.n)
  <2>1. CASE d.n = 1
    BY <1>0, <1>6, <2>1 DEF MulDiv
  <2>2. CASE d.n # 1
    <3>1. Slice(ax)
      BY RegFacts, OpndFacts, RowAssumption DEF Slice
    <3>2. PICK v, u : dep' = Commit(Commit(dep, ax, v), Reg("rdx", d.n), u)
      BY <1>6, <2>2 DEF MulDiv
    <3> HIDE DEF ax
    <3>3. DOMAIN Commit(dep, ax, v) = Place
      BY <1>0, <3>1, CommitAt
    <3> QED BY <3>2, <3>3
  <2> QED BY <2>1, <2>2
<1> QED BY <1>1, <1>2, <1>3, <1>4, <1>5, <1>6 DEF ins_inspect_dr

\* The moves are exact.
LEMMA MoveExact ==
    ASSUME tag = dep, Shadow(dep), Total(dep), Plain, NEW d \in Opnd, NEW s \in Opnd,
           \/ Mov(d, s) \/ MovImm(d) \/ Movzx(d, s) \/ Movsx(d, s) \/ Bsf(d, s)
           \/ Bswap(d) \/ Movbe(d, s) \/ \E taken \in BOOLEAN : Cmov(taken, d, s)
    PROVE  tag' = dep'
<1> USE CommitIsStore DEF Plain, Quiet, Does
<1>1. CASE Mov(d, s)       BY <1>1 DEF Mov, xfer
<1>2. CASE MovImm(d)       BY <1>2 DEF MovImm, clr
<1>3. CASE Movzx(d, s)     BY <1>3 DEF Movzx, movzx
<1>4. CASE Movsx(d, s)     BY <1>4 DEF Movsx, movsx
<1>5. CASE Bsf(d, s)       BY <1>5 DEF Bsf, Exact
<1>6. CASE Bswap(d)        BY <1>6 DEF Bswap, bswap_reg
<1>7. CASE Movbe(d, s)     BY <1>7 DEF Movbe, movbe
<1>8. ASSUME NEW taken, Cmov(taken, d, s) PROVE tag' = dep'
  <2>1. CASE taken         BY <1>8, <2>1 DEF Cmov, cmov, xfer
  <2>2. CASE ~taken        BY <1>8, <2>2, StoreSame, OpndFacts DEF Cmov, cmov
  <2> QED BY <2>1, <2>2
<1> QED BY <1>1, <1>2, <1>3, <1>4, <1>5, <1>6, <1>7, <1>8

\* Of the arithmetic instructions, XOR and LEA combine bytes as the tags are.
LEMMA MixExact ==
    ASSUME tag = dep, Shadow(dep), Total(dep), Plain, NEW d \in Opnd, NEW s \in Opnd,
           \/ \E op \in BinaryOp : Binary(op, d, s) \/ BinaryImm(op, d)
           \/ Imul(d, s) \/ Imul3(d, s) \/ Adc(d, s) \/ Shift(d) \/ LeaRel(d)
           \/ \E count \in {"imm", "cl"} : Shld(d, s, count)
           \/ \E base, index \in Row \cup {"none"}, scaled \in BOOLEAN : Lea(d, base, index, scaled)
    PROVE  tag' = dep'
<1> USE CommitIsStore DEF Plain, Quiet, Does
<1>1. ASSUME NEW op, Binary(op, d, s) PROVE tag' = dep'
  BY <1>1 DEF Binary, binary, clr
<1>2. ASSUME NEW op, BinaryImm(op, d) PROVE tag' = dep'
  BY <1>2, StoreSame, OpndFacts DEF BinaryImm
<1>3. CASE Imul(d, s) \/ Imul3(d, s) \/ LeaRel(d)
  BY <1>3 DEF Imul, Imul3, LeaRel, Exact
<1>4. CASE Adc(d, s)       BY <1>4 DEF Adc, Exact
<1>5. CASE Shift(d)        BY <1>5 DEF Shift, Exact
<1>6. ASSUME NEW count, Shld(d, s, count) PROVE tag' = dep'
  BY <1>6 DEF Shld, Exact
<1>7. ASSUME NEW base, NEW index, NEW scaled, Lea(d, base, index, scaled) PROVE tag' = dep'
  <2>1. ~scaled
    BY <1>7 DEF Lea, Exact
  <2> DEFINE v == [i \in Lanes(d) |-> Term(base, i, FALSE) \cup Term(index, i, scaled)]
             w == [i \in Lanes(d) |-> AddrTag(tag, base, i) \cup AddrTag(tag, index, i)]
  <2>2. v = w
    BY <2>1 DEF Term
  <2>3. tag' = Store(tag, d, w) /\ dep' = Commit(dep, d, v) /\ (IsMem(d) \/ d.n # DWORD)
    BY <1>7 DEF Lea, lea_prop
  <2> HIDE DEF v, w
  <2> QED BY <2>2, <2>3
<1> QED BY <1>1, <1>2, <1>3, <1>4, <1>5, <1>6, <1>7

\* The stack and the string instructions are, on operands that do not overlap.
LEMMA CopyExact ==
    ASSUME tag = dep, Plain, NEW d \in Opnd, NEW s \in Opnd,
           Push(d, s) \/ Pop(d, s) \/ Movs(d, s) \/ Stos(d) \/ Lods(d) \/ Leave(d)
    PROVE  tag' = dep'
<1> USE CommitIsStore DEF Plain, Quiet, Does
<1>1. CASE Push(d, s)
  <2>1. d.n = s.n /\ ~Overlap(d, s) /\ s.at # "rsp"
    BY <1>1 DEF Push, Shape, Exact
  <2> QED BY <1>1, <2>1, M2mCopies DEF Push, xfer
<1>2. CASE Pop(d, s)
  <2>1. d.n = s.n /\ ~Overlap(d, s) /\ d.at # "rsp"
    BY <1>2 DEF Pop, Shape, Exact
  <2> QED BY <1>2, <2>1, M2mCopies DEF Pop, xfer
<1>3. CASE Movs(d, s)
  <2>1. d.n = s.n /\ ~Overlap(d, s)
    BY <1>3 DEF Movs, Shape, Exact
  <2> QED BY <1>3, <2>1, M2mCopies DEF Movs, xfer
<1>4. /\ Lanes(Reg("rax", d.n)) = Lanes(d)
      /\ \A i \in Lanes(d) : dep["rax"][i] = At(dep, Reg("rax", d.n), i)
  <2>1. "rax" \in Row /\ d.n \in Nat /\ d.n <= REG_BYTES
    BY RowAssumption, OpndFacts DEF Slice
  <2> QED BY <2>1, RegFacts, RegLanes DEF Lanes
<1>5. CASE Stos(d)
  <2>1. [i \in Lanes(d) |-> dep["rax"][i]] = [i \in Lanes(d) |-> At(dep, Reg("rax", d.n), i)]
    BY <1>4
  <2> QED BY <1>5, <2>1 DEF Stos, xfer
<1>6. CASE Lods(d)         BY <1>4, <1>6 DEF Lods, xfer
<1>7. CASE Leave(d)        BY <1>7 DEF Leave
<1> QED BY <1>1, <1>2, <1>3, <1>5, <1>6, <1>7

\* XCHG is; the others of its group are not in Exact.
LEMMA ExchangeExact ==
    ASSUME tag = dep, Plain, NEW d, NEW s,
           \/ Xchg(d, s) \/ Xadd(d, s) \/ \E equal \in BOOLEAN : Cmpxchg(equal, d, s)
    PROVE  tag' = dep'
<1> USE CommitIsStore DEF Plain, Quiet, Does
<1>1. CASE Xchg(d, s)      BY <1>1 DEF Xchg, xchg
<1>2. CASE Xadd(d, s)      BY <1>2 DEF Xadd, Exact
<1>3. ASSUME NEW equal, Cmpxchg(equal, d, s) PROVE tag' = dep'
  BY <1>3 DEF Cmpxchg, Exact
<1> QED BY <1>1, <1>2, <1>3

\* One instruction.
LEMMA InstructionExact ==
    ASSUME tag = dep, Shadow(dep), Total(dep), Plain, ins_inspect_dr
    PROVE  tag' = dep'
<1>1. CASE \E d, s \in Opnd :
          \/ Mov(d, s) \/ Movzx(d, s) \/ Movsx(d, s) \/ Bsf(d, s) \/ Movbe(d, s)
          \/ \E taken \in BOOLEAN : Cmov(taken, d, s)
  BY <1>1, MoveExact
<1>2. CASE \E d, s \in Opnd :
          \/ \E op \in BinaryOp : Binary(op, d, s)
          \/ Imul(d, s) \/ Imul3(d, s) \/ Adc(d, s)
          \/ \E count \in {"imm", "cl"} : Shld(d, s, count)
  BY <1>2, MixExact
<1>3. CASE \E d, s \in Opnd : Push(d, s) \/ Pop(d, s) \/ Movs(d, s)
  BY <1>3, CopyExact
<1>4. CASE \E d, s \in Opnd :
          Xchg(d, s) \/ Xadd(d, s) \/ \E equal \in BOOLEAN : Cmpxchg(equal, d, s)
  BY <1>4, ExchangeExact
<1>5. CASE \E d, s \in Opnd : Cmp(d, s) \/ Cmps(d, s)
  BY <1>5 DEF Cmp, Cmps
<1>6. CASE \E d \in Opnd : MovImm(d) \/ Bswap(d)
  BY <1>6, MoveExact
<1>7. CASE \E d \in Opnd :
          \/ Shift(d) \/ LeaRel(d) \/ \E op \in BinaryOp : BinaryImm(op, d)
          \/ \E base, index \in Row \cup {"none"}, scaled \in BOOLEAN : Lea(d, base, index, scaled)
  BY <1>7, MixExact
<1>8. CASE \E d \in Opnd : Stos(d) \/ Lods(d) \/ Leave(d)
  BY <1>8, CopyExact
<1>9. CASE \E d \in Opnd : ImulByte(d) \/ \E op \in {"mul", "div"} : MulDiv(op, d)
  BY <1>9 DEF MulDiv, ImulByte, Quiet, Does, Plain, Exact
<1>10. CASE \E d \in Opnd : CmpImm(d)
  BY <1>10 DEF CmpImm
<1>11. CASE \E n \in Width \ {1} : Cwde(n) \/ Cdq(n)
  BY <1>11 DEF Cwde, Cdq, Quiet, Does, Plain, Exact
<1> QED BY <1>1, <1>2, <1>3, <1>4, <1>5, <1>6, <1>7, <1>8, <1>9, <1>10, <1>11
        DEF ins_inspect_dr

\* Exactness of the moves: when the tags are exactly the flow, they are exactly
\* the flow after any instruction that moves bytes or combines them byte by byte
\* and clears no upper half, whatever its operands and widths; it neither loses
\* nor invents an offset.
THEOREM MovesKeepExactness == Spec => MovesAreExact
<1>1. Init => Total(dep)
  BY DEF Init, Total
<1>2. TypeOK /\ Total(dep) /\ [Next]_vars => Total(dep)'
  <2> SUFFICES ASSUME TypeOK, Total(dep), [Next]_vars PROVE Total(dep')
    BY DEF Total
  <2>1. CASE ins_inspect_dr
    BY <2>1, TypeIsShadow, InstructionTotal
  <2>2. CASE UNCHANGED vars
    BY <2>2 DEF vars
  <2> QED BY <2>1, <2>2 DEF Next, Ended
<1>3. TypeOK /\ Total(dep) /\ [Next]_vars => [tag = dep /\ Plain => tag' = dep']_vars
  <2> SUFFICES ASSUME TypeOK, Total(dep), ins_inspect_dr, tag = dep, Plain PROVE tag' = dep'
    BY DEF Next, Ended
  <2> QED BY TypeIsShadow, InstructionExact
<1> QED BY <1>1, <1>2, <1>3, TypeCorrect, PTL DEF Spec, MovesAreExact, Plain

-----------------------------------------------------------------------------
(* Where tags come from *)

\* The two shapes whose handler reads bytes that are no operands of the
\* instruction, CL for the register shifted in and the byte above a byte in
\* memory, do not occur, and registers have two halves.
OwnOperands ==
    /\ "shld_self_cl" \notin Op /\ "imul_byte_mem" \notin Op
    /\ \A n \in Width \ {1} : n % 2 = 0

\* The bytes that g changes belong to the slices written, and what they get is
\* carried by the slices read.
Attributed(g, reads, writes) ==
    \A p \in Place : \A b \in Bytes(p) :
       g[p][b] # tag[p][b] =>
          /\ \E o \in writes : o.at = p /\ Spans(o, b)
          /\ g[p][b] \subseteq tag[p][b] \cup Carried(reads)

\* What a byte of a slice that is read carries.
LEMMA InCarried ==
    ASSUME NEW reads, NEW o \in reads
    PROVE  /\ \A i \in Lanes(o) : At(tag, o, i) \subseteq Carried(reads)
           /\ AllOf(tag, o) \subseteq Carried(reads)
BY DEF Carried, AllOf

\* Nothing is changed at first.
LEMMA AttributedFirst == \A reads, writes : Attributed(tag, reads, writes)
BY DEF Attributed

\* A Store into a slice written, of tags that come from the slices read, may
\* follow others.
LEMMA StoreAttributed ==
    ASSUME NEW f, DOMAIN f = Place, NEW reads, NEW writes, Attributed(f, reads, writes),
           NEW o, Slice(o), NEW w \in writes, w.at = o.at,
           \A b \in Bytes(o.at) : Spans(o, b) => Spans(w, b),
           NEW v, \A i \in Lanes(o) : v[i] \subseteq At(tag, o, i) \cup Carried(reads)
    PROVE  Attributed(Store(f, o, v), reads, writes) /\ DOMAIN Store(f, o, v) = Place
<1>1. DOMAIN Store(f, o, v) = Place
  BY StoreAt
<1>2. ASSUME NEW p \in Place, NEW b \in Bytes(p), Store(f, o, v)[p][b] # tag[p][b]
      PROVE  /\ \E x \in writes : x.at = p /\ Spans(x, b)
             /\ Store(f, o, v)[p][b] \subseteq tag[p][b] \cup Carried(reads)
  <2>1. CASE p = o.at /\ Spans(o, b)
    <3>1. Store(f, o, v)[p][b] = v[b - o.start]
      BY <2>1, StoreAt
    <3>2. b - o.start \in Lanes(o) /\ At(tag, o, b - o.start) = tag[p][b]
      BY <2>1, ByteLane DEF At
    <3> QED BY <2>1, <3>1, <3>2
  <2>2. CASE ~(p = o.at /\ Spans(o, b))
    <3>1. Store(f, o, v)[p][b] = f[p][b]
      BY <2>2, StoreAt
    <3> QED BY <1>2, <3>1 DEF Attributed
  <2> QED BY <2>1, <2>2
<1> QED BY <1>1, <1>2 DEF Attributed

\* One Store into an operand.
LEMMA StoreOnce ==
    ASSUME DOMAIN tag = Place, NEW reads, NEW writes, NEW o \in writes, Slice(o), NEW v,
           \A i \in Lanes(o) : v[i] \subseteq At(tag, o, i) \cup Carried(reads)
    PROVE  Attributed(Store(tag, o, v), reads, writes)
BY AttributedFirst, StoreAttributed

\* Two, one after the other.
LEMMA StoreTwice ==
    ASSUME DOMAIN tag = Place, NEW reads, NEW writes,
           NEW o \in writes, Slice(o), NEW v,
           \A i \in Lanes(o) : v[i] \subseteq At(tag, o, i) \cup Carried(reads),
           NEW q \in writes, Slice(q), NEW u,
           \A i \in Lanes(q) : u[i] \subseteq At(tag, q, i) \cup Carried(reads)
    PROVE  Attributed(Store(Store(tag, o, v), q, u), reads, writes)
<1>1. Attributed(Store(tag, o, v), reads, writes) /\ DOMAIN Store(tag, o, v) = Place
  BY StoreOnce, StoreAt
<1> QED BY <1>1, StoreAttributed

\* The step is attributed to its own operands.
OwnTags == Attributed(tag', last'.reads, last'.writes)

\* What the instruction is about.
LEMMA Operands ==
    ASSUME NEW op, NEW reads, NEW writes, NEW record, Does(op, reads, writes, record)
    PROVE  op \in Op /\ last'.reads = reads /\ last'.writes = writes
BY DEF Does

\* Moves and clears.
LEMMA MoveOwn ==
    ASSUME Shadow(tag), NEW d \in Opnd, NEW s \in Opnd,
           \/ Mov(d, s) \/ MovImm(d) \/ Movzx(d, s) \/ Movsx(d, s) \/ Bsf(d, s)
           \/ Bswap(d) \/ Movbe(d, s) \/ \E taken \in BOOLEAN : Cmov(taken, d, s)
    PROVE  OwnTags
<1> USE OpndFacts, LaneFacts, Operands, InCarried, StoreOnce DEF OwnTags, Quiet
<1>0. DOMAIN tag = Place
  BY DEF Shadow
<1>1. CASE Mov(d, s)       BY <1>0, <1>1 DEF Mov, xfer
<1>2. CASE MovImm(d)       BY <1>0, <1>2 DEF MovImm, clr
<1>3. CASE Movzx(d, s)     BY <1>0, <1>3 DEF Movzx, movzx
<1>4. CASE Movsx(d, s)     BY <1>0, <1>4 DEF Movsx, movsx
<1>5. CASE Bsf(d, s)       BY <1>0, <1>5 DEF Bsf, xfer
<1>6. CASE Bswap(d)        BY <1>0, <1>6 DEF Bswap, bswap_reg
<1>7. CASE Movbe(d, s)     BY <1>0, <1>7 DEF Movbe, movbe
<1>8. ASSUME NEW taken, Cmov(taken, d, s) PROVE OwnTags
  BY <1>0, <1>8, AttributedFirst DEF Cmov, cmov, xfer
<1> QED BY <1>1, <1>2, <1>3, <1>4, <1>5, <1>6, <1>7, <1>8

\* The arithmetic ones.
LEMMA MixOwn ==
    ASSUME OwnOperands, Shadow(tag), NEW d \in Opnd, NEW s \in Opnd,
           \/ \E op \in BinaryOp : Binary(op, d, s) \/ BinaryImm(op, d)
           \/ Imul(d, s) \/ Imul3(d, s) \/ Adc(d, s) \/ Shift(d) \/ LeaRel(d)
           \/ \E count \in {"imm", "cl"} : Shld(d, s, count)
           \/ \E base, index \in Row \cup {"none"}, scaled \in BOOLEAN : Lea(d, base, index, scaled)
    PROVE  OwnTags
<1> USE OpndFacts, LaneFacts, Operands, InCarried, StoreOnce, AttributedFirst DEF OwnTags, Quiet
<1>0. DOMAIN tag = Place
  BY DEF Shadow
<1>1. ASSUME NEW op, Binary(op, d, s) PROVE OwnTags
  <2>1. last'.reads = {s, d} /\ last'.writes = {d} /\ d.n = s.n
    BY <1>1 DEF Binary
  <2>2. Attributed(clr(d), {s, d}, {d})
    BY <1>0 DEF clr
  <2>3. Attributed(binary(d, s), {s, d}, {d})
    BY <1>0, <2>1 DEF binary
  <2> QED BY <1>1, <2>1, <2>2, <2>3 DEF Binary
<1>2. ASSUME NEW op, BinaryImm(op, d) PROVE OwnTags
  BY <1>2 DEF BinaryImm
<1>3. CASE Imul(d, s) \/ Imul3(d, s)
  <2>1. last'.reads = {s, d} /\ last'.writes = {d} /\ d.n = s.n
    BY <1>3 DEF Imul, Imul3
  <2>2. Attributed(binary(d, s), {s, d}, {d})
    BY <1>0, <2>1 DEF binary
  <2> QED BY <1>3, <2>1, <2>2 DEF Imul, Imul3
<1>4. CASE Adc(d, s)       BY <1>4 DEF Adc
<1>5. CASE Shift(d)        BY <1>0, <1>5 DEF Shift, shift
<1>6. ASSUME NEW count, Shld(d, s, count) PROVE OwnTags
  <2>0. CASE IsMem(d)
    BY <1>6, <2>0 DEF Shld
  <2> SUFFICES ASSUME ~IsMem(d) PROVE OwnTags
    BY <2>0
  <2>1. ~(s = d /\ count = "cl")
    BY <1>6 DEF Shld, OwnOperands
  <2>2. CASE s # d
    <3>1. [d EXCEPT !.n = d.n] = d /\ [s EXCEPT !.n = d.n] = s
      BY <1>6 DEF Shld
    <3>2. /\ last'.reads = {d, s} /\ last'.writes = {d}
          /\ tag' = Store(tag, d, [i \in Lanes(d) |-> AllOf(tag, d) \cup AllOf(tag, s)])
      BY <1>6, <2>2, <3>1 DEF Shld, shld_r2r
    <3> QED BY <1>0, <3>2
  <2>3. CASE s = d /\ count # "cl"
    BY <1>0, <1>6, <2>3 DEF Shld, shift
  <2> QED BY <2>1, <2>2, <2>3
<1>7. ASSUME NEW base \in Row \cup {"none"}, NEW index \in Row \cup {"none"},
             NEW scaled, Lea(d, base, index, scaled)
      PROVE  OwnTags
  <2> DEFINE AddrOpnd(r) == IF r = "none" THEN {} ELSE {Reg(r, d.n)}
             reads == AddrOpnd(base) \cup AddrOpnd(index)
  <2>1. last'.reads = reads /\ last'.writes = {d}
    BY <1>7 DEF Lea
  <2>2. ASSUME NEW r \in {base, index}, NEW i \in Lanes(d)
        PROVE  AddrTag(tag, r, i) \subseteq Carried(reads)
    <3>1. CASE r = "none"
      BY <3>1 DEF AddrTag
    <3>2. CASE r # "none"
      <4>1. r \in Row /\ d.n \in Nat /\ d.n <= REG_BYTES
        BY <3>2 DEF Slice
      <4>2. Lanes(Reg(r, d.n)) = Lanes(d) /\ At(tag, Reg(r, d.n), i) = tag[r][i]
        BY <4>1, RegLanes DEF Lanes
      <4>3. Reg(r, d.n) \in reads
        BY <3>2
      <4> QED BY <3>2, <4>2, <4>3 DEF AddrTag
    <3> QED BY <3>1, <3>2
  <2> HIDE DEF reads
  <2> QED BY <1>0, <1>7, <2>1, <2>2 DEF Lea, lea_prop
<1>8. CASE LeaRel(d)       BY <1>8 DEF LeaRel
<1> QED BY <1>1, <1>2, <1>3, <1>4, <1>5, <1>6, <1>7, <1>8

\* The stack and the string instructions, also on operands that overlap.
LEMMA CopyOwn ==
    ASSUME Shadow(tag), NEW d \in Opnd, NEW s \in Opnd,
           Push(d, s) \/ Pop(d, s) \/ Movs(d, s) \/ Stos(d) \/ Lods(d) \/ Leave(d)
    PROVE  OwnTags
<1> USE OpndFacts, Operands, InCarried, AttributedFirst DEF OwnTags, Quiet
<1>0. DOMAIN tag = Place
  BY DEF Shadow
<1>1. ASSUME d.n = s.n
      PROVE  Attributed(m2m_xfer(d, s), {s}, {d}) /\ Attributed(xfer(d, s), {s}, {d})
  BY <1>0, <1>1, M2mLane, LaneFacts, StoreOnce DEF m2m_xfer, xfer
<1>2. CASE Push(d, s)      BY <1>1, <1>2 DEF Push
<1>3. CASE Pop(d, s)       BY <1>1, <1>3 DEF Pop
<1>4. CASE Movs(d, s)      BY <1>1, <1>4 DEF Movs
<1>5. Slice(Reg("rax", d.n)) /\ Lanes(Reg("rax", d.n)) = Lanes(d)
  BY RegFacts, RowAssumption DEF Lanes, Slice
<1>6. CASE Stos(d)         BY <1>0, <1>5, <1>6, StoreOnce DEF Stos, xfer
<1>7. CASE Lods(d)         BY <1>0, <1>5, <1>7, StoreOnce DEF Lods, xfer
<1>8. CASE Leave(d)
  <2> DEFINE rsp == Reg("rsp", REG_BYTES)
             rbp == Reg("rbp", REG_BYTES)
             v   == [i \in Lanes(rsp) |-> At(tag, rbp, i)]
             u   == [i \in Lanes(rbp) |-> At(tag, d, i)]
  <2>1. Slice(rsp) /\ Slice(rbp) /\ Lanes(rsp) = Lanes(rbp) /\ Lanes(rbp) = Lanes(d)
    BY <1>8, RegFacts, SizeAssumption DEF Leave, Lanes
  <2>2. last'.reads = {rbp, d} /\ last'.writes = {rsp, rbp}
    BY <1>8 DEF Leave
  <2>3. tag' = Store(Store(tag, rsp, v), rbp, u)
    BY <1>8 DEF Leave
  <2> HIDE DEF rsp, rbp
  <2>4. /\ \A i \in Lanes(rsp) : v[i] \subseteq At(tag, rsp, i) \cup Carried({rbp, d})
        /\ \A i \in Lanes(rbp) : u[i] \subseteq At(tag, rbp, i) \cup Carried({rbp, d})
    BY <2>1
  <2> HIDE DEF v, u
  <2> QED BY <1>0, <2>1, <2>2, <2>3, <2>4, StoreTwice
<1> QED BY <1>2, <1>3, <1>4, <1>6, <1>7, <1>8

\* Those with the accumulator for an implicit operand.
LEMMA AccOwn ==
    ASSUME OwnOperands, Shadow(tag), NEW s \in Opnd,
           ImulByte(s) \/ \E op \in {"mul", "div"} : MulDiv(op, s)
    PROVE  OwnTags
<1> USE OpndFacts, Operands, InCarried DEF Quiet
<1> DEFINE ax == Reg("rax", 2)
           dx == Reg("rdx", s.n)
<1>0. DOMAIN tag = Place /\ "rax" \in Row /\ "rdx" \in Row /\ s.n \in Nat /\ s.n > 0
  BY RowAssumption DEF Shadow, Slice
<1>1. Slice(ax) /\ Lanes(ax) = 0 .. 1 /\ \A f : \A i \in 0 .. 1 : At(f, ax, i) = f["rax"][i]
  BY AxFacts
<1>2. 0 \in Lanes(s)
  BY <1>0 DEF Lanes
<1>3. ASSUME NEW op, MulDiv(op, s), s.at \in {"rax", "rdx"} PROVE OwnTags
  BY <1>3, AttributedFirst DEF MulDiv, OwnTags
<1>4. ASSUME NEW op, MulDiv(op, s), s.at \notin {"rax", "rdx"}, s.n = 1 PROVE OwnTags
  <2> DEFINE v == [i \in 0 .. 1 |-> tag["rax"][i] \cup At(tag, s, 0)]
  <2>1. s \in last'.reads /\ last'.writes = {ax}
    BY <1>4 DEF MulDiv
  <2>2. tag' = Store(tag, ax, v)
    BY <1>4 DEF MulDiv, ternary_combine
  <2> HIDE DEF ax
  <2>3. \A i \in Lanes(ax) : v[i] \subseteq At(tag, ax, i) \cup Carried(last'.reads)
    <3>1. At(tag, s, 0) \subseteq Carried(last'.reads)
      BY <1>2, <2>1
    <3>2. \A i \in Lanes(ax) : v[i] = At(tag, ax, i) \cup At(tag, s, 0)
      BY <1>1
    <3> HIDE DEF v
    <3> QED BY <3>1, <3>2
  <2> HIDE DEF v
  <2> QED BY <1>0, <1>1, <2>1, <2>2, <2>3, StoreOnce DEF OwnTags
<1>5. ASSUME NEW op, MulDiv(op, s), s.at \notin {"rax", "rdx"}, s.n # 1 PROVE OwnTags
  <2> DEFINE a == Reg("rax", s.n)
  <2>1. s \in last'.reads /\ last'.writes = {a, dx}
    BY <1>5 DEF MulDiv
  <2>2. tag' = [r \in Place |->
                  IF r \notin {"rax", "rdx"} THEN tag[r]
                  ELSE [b \in Bytes(r) |-> IF b < s.n THEN tag[r][b] \cup At(tag, s, b)
                                           ELSE tag[r][b]]]
    BY <1>5 DEF MulDiv, ternary_combine
  <2>3. ASSUME NEW p \in Place, NEW b \in Bytes(p), tag'[p][b] # tag[p][b]
        PROVE  /\ \E o \in {a, dx} : o.at = p /\ Spans(o, b)
               /\ tag'[p][b] \subseteq tag[p][b] \cup Carried(last'.reads)
    <3>1. p \in {"rax", "rdx"} /\ b < s.n /\ tag'[p][b] = tag[p][b] \cup At(tag, s, b)
      BY <2>2, <2>3
    <3>2. b \in Lanes(s) /\ 0 <= b /\ b < 0 + s.n
      BY <1>0, <3>1, SizeNat DEF Lanes, Bytes
    <3>3. Spans(Reg(p, s.n), b) /\ Reg(p, s.n).at = p /\ Reg(p, s.n) \in {a, dx}
      BY <3>1, <3>2 DEF Spans, Reg
    <3>4. At(tag, s, b) \subseteq Carried(last'.reads)
      BY <2>1, <3>2
    <3> HIDE DEF a, dx
    <3> QED BY <3>1, <3>3, <3>4
  <2> HIDE DEF a, dx
  <2> QED BY <2>1, <2>3 DEF OwnTags, Attributed
<1>6. CASE ImulByte(s)
  <2> DEFINE al == Reg("rax", 1)
             v  == [i \in Lanes(al) |-> At(tag, al, i) \cup At(tag, s, i)]
  <2>1. ~IsMem(s) /\ s.n = 1 /\ last'.reads = {s, al} /\ last'.writes = {ax}
    BY <1>6 DEF ImulByte, OwnOperands
  <2>2. tag' = Store(tag, al, v)
    BY <1>6, <2>1 DEF ImulByte, binary
  <2>3. Slice(al) /\ Lanes(al) = Lanes(s) /\ al.at = ax.at
    BY <1>0, <2>1, RegFacts, SizeAssumption DEF Lanes, Reg
  <2>4. \A b \in Bytes(al.at) : Spans(al, b) => Spans(ax, b)
    BY SizeNat DEF Spans, Reg, Bytes
  <2> HIDE DEF al, ax
  <2>5. \A i \in Lanes(al) : v[i] \subseteq At(tag, al, i) \cup Carried({s, al})
    BY <2>3
  <2> HIDE DEF v
  <2> QED BY <1>0, <2>1, <2>2, <2>3, <2>4, <2>5, AttributedFirst, StoreAttributed DEF OwnTags
<1> QED BY <1>3, <1>4, <1>5, <1>6

\* The sign extensions of the accumulator.
LEMMA SignOwn ==
    ASSUME OwnOperands, Shadow(tag), NEW n \in Width \ {1}, Cwde(n) \/ Cdq(n)
    PROVE  OwnTags
<1> USE Operands, InCarried DEF Quiet
<1> DEFINE half == n \div 2
           low  == Reg("rax", half)
           high == [at |-> "rax", start |-> half, n |-> n - half]
           all  == Reg("rax", n)
<1>1. /\ "rax" \in Row /\ "rdx" \in Row /\ n \in Nat /\ n > 1 /\ n <= REG_BYTES
      /\ half \in Nat /\ half > 0 /\ half < n /\ n - half \in Nat
  BY RowAssumption, SizeAssumption
<1>2. n - half = half
  BY <1>1 DEF OwnOperands
<1>3. DOMAIN tag = Place
  BY DEF Shadow
<1>4. CASE Cwde(n)
  <2> DEFINE v == [i \in Lanes(high) |-> At(tag, low, i)]
  <2>1. Slice(high) /\ Lanes(high) = Lanes(low) /\ high.at = all.at
    BY <1>1, <1>2, RowAssumption, SizeAssumption DEF Lanes, Slice, Place, Size, Reg
  <2>2. \A b \in Bytes(high.at) : Spans(high, b) => Spans(all, b)
    BY <1>1, SizeNat DEF Spans, Reg, Bytes
  <2>3. last'.reads = {low} /\ last'.writes = {all}
    BY <1>4 DEF Cwde
  <2>4. tag' = Store(tag, high, v)
    BY <1>4 DEF Cwde, xfer
  <2> HIDE DEF high, low, all, half
  <2>5. \A i \in Lanes(high) : v[i] \subseteq At(tag, high, i) \cup Carried({low})
    BY <2>1
  <2> HIDE DEF v
  <2> QED BY <1>3, <2>1, <2>2, <2>3, <2>4, <2>5, AttributedFirst, StoreAttributed DEF OwnTags
<1>5. CASE Cdq(n)
  <2> HIDE DEF half
  <2>1. Slice(Reg("rdx", n)) /\ Lanes(Reg("rdx", n)) = Lanes(Reg("rax", n))
    BY <1>1, RegFacts DEF Lanes
  <2> QED BY <1>3, <1>5, <2>1, StoreOnce DEF Cdq, xfer, OwnTags
<1> QED BY <1>4, <1>5

\* The exchanges.
LEMMA ExchangeOwn ==
    ASSUME Shadow(tag), NEW d \in Opnd, NEW s \in Opnd,
           \/ Xchg(d, s) \/ Xadd(d, s) \/ \E equal \in BOOLEAN : Cmpxchg(equal, d, s)
    PROVE  OwnTags
<1> USE OpndFacts, LaneFacts, Operands, InCarried DEF Quiet
<1>0. DOMAIN tag = Place
  BY DEF Shadow
<1>1. CASE Xchg(d, s)
  <2> DEFINE v == [i \in Lanes(d) |-> At(tag, s, i)]
             u == [i \in Lanes(s) |-> At(tag, d, i)]
  <2>1. /\ last'.reads = {d, s} /\ last'.writes = {d, s} /\ Lanes(d) = Lanes(s)
        /\ tag' = Store(Store(tag, d, v), s, u)
    BY <1>1 DEF Xchg, xchg
  <2>2. \A i \in Lanes(d) : v[i] \subseteq Carried({d, s}) /\ u[i] \subseteq Carried({d, s})
    BY <2>1
  <2> HIDE DEF v, u
  <2> QED BY <1>0, <2>1, <2>2, StoreTwice DEF OwnTags
<1>2. CASE Xadd(d, s)
  <2> DEFINE Both == [i \in Lanes(d) |-> At(tag, d, i) \cup At(tag, s, i)]
  <2>1. /\ last'.reads = {d, s} /\ last'.writes = {d, s} /\ Lanes(d) = Lanes(s)
        /\ tag' = Store(Store(tag, d, Both), s, Both)
    BY <1>2 DEF Xadd, xadd
  <2>2. \A i \in Lanes(d) : Both[i] \subseteq Carried({d, s})
    BY <2>1
  <2> HIDE DEF Both
  <2> QED BY <1>0, <2>1, <2>2, StoreTwice DEF OwnTags
<1>3. ASSUME NEW equal, Cmpxchg(equal, d, s) PROVE OwnTags
  <2> DEFINE a == Reg("rax", d.n)
  <2>1. Slice(a) /\ Lanes(a) = Lanes(d) /\ Lanes(d) = Lanes(s)
    BY <1>3, RegFacts, RowAssumption DEF Cmpxchg, Lanes, Slice
  <2>2. last'.reads = {d, s, a} /\ last'.writes = {d, a}
    BY <1>3 DEF Cmpxchg
  <2>3. tag' = tag \/ tag' = cmpxchg(d, s, a) \/ tag' = cmpxchg(d, s, d)
    BY <1>3 DEF Cmpxchg
  <2> HIDE DEF a
  <2>4. ASSUME NEW e \in {a, d} PROVE Attributed(cmpxchg(d, s, e), {d, s, a}, {d, a})
    <3> DEFINE Both == [i \in Lanes(d) |-> At(tag, d, i) \cup At(tag, s, i) \cup At(tag, e, i)]
    <3>1. \A i \in Lanes(d) : Both[i] \subseteq Carried({d, s, a})
      BY <2>1
    <3>2. Slice(e) /\ Lanes(e) = Lanes(d) /\ e \in {d, a}
      BY <2>1
    <3> HIDE DEF Both
    <3>3. Attributed(Store(Store(tag, d, Both), e, Both), {d, s, a}, {d, a})
      BY <1>0, <3>1, <3>2, StoreTwice
    <3> QED BY <3>3 DEF Both, cmpxchg
  <2> QED BY <2>2, <2>3, <2>4, AttributedFirst DEF OwnTags
<1> QED BY <1>1, <1>2, <1>3

\* Comparisons change nothing.
LEMMA CompareOwn ==
    ASSUME NEW d, NEW s, Cmp(d, s) \/ Cmps(d, s) \/ CmpImm(d)
    PROVE  OwnTags
BY AttributedFirst DEF Cmp, Cmps, CmpImm, OwnTags

\* One instruction.
LEMMA InstructionOwn ==
    ASSUME OwnOperands, Shadow(tag), ins_inspect_dr
    PROVE  OwnTags
<1>1. CASE \E d, s \in Opnd :
          \/ Mov(d, s) \/ Movzx(d, s) \/ Movsx(d, s) \/ Bsf(d, s) \/ Movbe(d, s)
          \/ \E taken \in BOOLEAN : Cmov(taken, d, s)
  BY <1>1, MoveOwn
<1>2. CASE \E d, s \in Opnd :
          \/ \E op \in BinaryOp : Binary(op, d, s)
          \/ Imul(d, s) \/ Imul3(d, s) \/ Adc(d, s)
          \/ \E count \in {"imm", "cl"} : Shld(d, s, count)
  BY <1>2, MixOwn
<1>3. CASE \E d, s \in Opnd : Push(d, s) \/ Pop(d, s) \/ Movs(d, s)
  BY <1>3, CopyOwn
<1>4. CASE \E d, s \in Opnd :
          Xchg(d, s) \/ Xadd(d, s) \/ \E equal \in BOOLEAN : Cmpxchg(equal, d, s)
  BY <1>4, ExchangeOwn
<1>5. CASE \E d, s \in Opnd : Cmp(d, s) \/ Cmps(d, s)
  BY <1>5, CompareOwn
<1>6. CASE \E d \in Opnd : MovImm(d) \/ Bswap(d)
  BY <1>6, MoveOwn
<1>7. CASE \E d \in Opnd :
          \/ Shift(d) \/ LeaRel(d) \/ \E op \in BinaryOp : BinaryImm(op, d)
          \/ \E base, index \in Row \cup {"none"}, scaled \in BOOLEAN : Lea(d, base, index, scaled)
  BY <1>7, MixOwn
<1>8. CASE \E d \in Opnd : Stos(d) \/ Lods(d) \/ Leave(d)
  BY <1>8, CopyOwn
<1>9. CASE \E d \in Opnd : ImulByte(d) \/ \E op \in {"mul", "div"} : MulDiv(op, d)
  BY <1>9, AccOwn
<1>10. CASE \E d \in Opnd : CmpImm(d)
  BY <1>10, CompareOwn
<1>11. CASE \E n \in Width \ {1} : Cwde(n) \/ Cdq(n)
  BY <1>11, SignOwn
<1> QED BY <1>1, <1>2, <1>3, <1>4, <1>5, <1>6, <1>7, <1>8, <1>9, <1>10, <1>11
        DEF ins_inspect_dr

\* No handler tags a byte it should not: whatever the instruction, only the bytes
\* it writes change their tags, and what they get was carried by its operands.
THEOREM TagsAreAttributed ==
    ASSUME OwnOperands
    PROVE  Spec => TagsComeFromOperands
<1>1. TypeOK /\ [Next]_vars => [OwnTags]_vars
  <2> SUFFICES ASSUME TypeOK, ins_inspect_dr PROVE OwnTags
    BY DEF Next, Ended
  <2> QED BY TypeIsShadow, InstructionOwn
<1> QED BY <1>1, TypeCorrect, PTL DEF Spec, TagsComeFromOperands, OwnTags, Attributed

-----------------------------------------------------------------------------
(* The byte loop of m2m_xfer *)

\* The lane of the source that byte i of the destination ends up with.
Source(d, s, i) ==
    LET gap == d.start - s.start
    IN  IF 0 < gap /\ gap < d.n THEN i % gap ELSE i

\* The memory after k bytes.
Copied(d, s, k) ==
    [b \in Bytes("mem") |->
        IF d.start <= b /\ b < d.start + k
        THEN tag["mem"][s.start + Source(d, s, b - d.start)] ELSE tag["mem"][b]]

\* g is the loop.
Copying(d, s, g) ==
    g = [k \in 0 .. d.n |->
           IF k = 0 THEN tag["mem"]
           ELSE [g[k - 1] EXCEPT ![d.start + k - 1] = g[k - 1][s.start + k - 1]]]

\* The byte the loop reads in step k has what it had at first, or what one period
\* before was copied there.
LEMMA ReadsSource ==
    ASSUME NEW d \in Opnd, NEW s \in Opnd, IsMem(d), IsMem(s), d.n = s.n, NEW k \in 1 .. d.n
    PROVE  /\ s.start + k - 1 \in Bytes("mem")
           /\ Copied(d, s, k - 1)[s.start + k - 1] = tag["mem"][s.start + Source(d, s, k - 1)]
<1> DEFINE gap == d.start - s.start
           b   == s.start + k - 1
           i   == k - 1
<1>1. /\ d.start \in Nat /\ s.start \in Nat /\ d.n \in Nat /\ s.start + d.n <= Size("mem")
      /\ gap \in Int /\ i \in Nat /\ i < d.n /\ b = s.start + i /\ b \in Nat
  BY OpndFacts DEF Slice, IsMem
<1>2. b \in Bytes("mem")
  BY <1>1, SizeNat DEF Bytes
<1>3. Copied(d, s, i)[b] = IF d.start <= b /\ b < d.start + i
                           THEN tag["mem"][s.start + Source(d, s, b - d.start)] ELSE tag["mem"][b]
  <2> HIDE DEF b, i
  <2> QED BY <1>2 DEF Copied
<1>4. CASE d.start <= b /\ b < d.start + i
  <2>1. 0 < gap /\ gap < d.n /\ i >= gap /\ b - d.start = i - gap /\ gap \in Nat \ {0}
    BY <1>1, <1>4
  <2>2. (i - gap) % gap = i % gap
    <3> HIDE DEF gap, i
    <3> QED BY <1>1, <2>1, RemainderPeriod
  <2>3. Source(d, s, b - d.start) = Source(d, s, i)
    <3>1. Source(d, s, b - d.start) = (b - d.start) % gap /\ Source(d, s, i) = i % gap
      BY <2>1 DEF Source
    <3> QED BY <2>1, <2>2, <3>1
  <2> HIDE DEF b, i
  <2> QED BY <1>2, <1>3, <1>4, <2>3 DEF b, i
<1>5. CASE ~(d.start <= b /\ b < d.start + i)
  <2>1. 0 < gap => i < gap
    BY <1>1, <1>5
  <2>2. Source(d, s, i) = i
    <3>1. ASSUME 0 < gap PROVE i % gap = i
      <4>1. gap \in Nat \ {0}
        BY <1>1, <3>1
      <4> HIDE DEF gap, i
      <4> QED BY <1>1, <2>1, <3>1, <4>1, RemainderPeriod
    <3> QED BY <3>1 DEF Source
  <2> HIDE DEF i
  <2> QED BY <1>1, <1>2, <1>3, <1>5, <2>2 DEF b, i
<1> QED BY <1>4, <1>5

\* A step copies one byte more.
LEMMA CopiesOneMore ==
    ASSUME NEW d \in Opnd, NEW s \in Opnd, IsMem(d), IsMem(s), d.n = s.n, NEW k \in 1 .. d.n
    PROVE  [Copied(d, s, k - 1) EXCEPT
              ![d.start + k - 1] = Copied(d, s, k - 1)[s.start + k - 1]] = Copied(d, s, k)
<1> DEFINE x   == d.start + k - 1
           old == Copied(d, s, k - 1)
           v   == tag["mem"][s.start + Source(d, s, k - 1)]
<1>1. /\ d.start \in Nat /\ d.n \in Nat /\ d.start + d.n <= Size("mem")
      /\ x - d.start = k - 1 /\ x \in Nat /\ d.start <= x /\ x < d.start + k
  BY OpndFacts DEF Slice, IsMem
<1>2. old[s.start + k - 1] = v
  BY ReadsSource
<1>3. [old EXCEPT ![x] = v] = [b \in Bytes("mem") |-> IF b = x THEN v ELSE old[b]]
  <2> HIDE DEF v, x
  <2> QED BY DEF Copied
<1>4. ASSUME NEW b \in Bytes("mem")
      PROVE  (IF b = x THEN v ELSE old[b]) = Copied(d, s, k)[b]
  <2>1. /\ Copied(d, s, k)[b] = IF d.start <= b /\ b < d.start + k
                                THEN tag["mem"][s.start + Source(d, s, b - d.start)] ELSE tag["mem"][b]
        /\ old[b] = IF d.start <= b /\ b < d.start + (k - 1)
                    THEN tag["mem"][s.start + Source(d, s, b - d.start)] ELSE tag["mem"][b]
    BY DEF Copied
  <2>2. b \in Int /\ (b # x => (b < d.start + k <=> b < d.start + (k - 1)))
    BY <1>1, SizeNat DEF Bytes
  <2>3. CASE b = x
    <3> HIDE DEF x
    <3> QED BY <1>1, <2>1, <2>3
  <2>4. CASE b # x
    <3> HIDE DEF x, old
    <3> QED BY <2>1, <2>2, <2>4
  <2> QED BY <2>3, <2>4
<1>5. Copied(d, s, k) = [b \in Bytes("mem") |-> Copied(d, s, k)[b]]
  BY DEF Copied
<1> HIDE DEF old, v, x
<1>6. [old EXCEPT ![x] = v] = Copied(d, s, k)
  BY <1>3, <1>4, <1>5
<1> QED BY <1>2, <1>6 DEF old, x

\* What the loop leaves after k steps.
LEMMA CopyingIs ==
    ASSUME Shadow(tag), NEW d \in Opnd, NEW s \in Opnd, IsMem(d), IsMem(s), d.n = s.n
    PROVE  /\ \E g : Copying(d, s, g)
           /\ \A g : Copying(d, s, g) => g[d.n] = Copied(d, s, d.n)
<1>1. d.n \in Nat /\ d.start \in Nat
  BY OpndFacts DEF Slice
<1>2. Copied(d, s, 0) = tag["mem"]
  <2>1. tag["mem"] \in [Bytes("mem") -> SUBSET Offset]
    BY DEF Shadow, Place
  <2>2. \A b \in Bytes("mem") : ~(d.start <= b /\ b < d.start + 0)
    BY <1>1, SizeNat DEF Bytes
  <2> QED BY <2>1, <2>2 DEF Copied
<1>3. \E g : Copying(d, s, g)
  <2> DEFINE g == [k \in 0 .. d.n |-> Copied(d, s, k)]
             Next1(k) == [g[k - 1] EXCEPT ![d.start + k - 1] = g[k - 1][s.start + k - 1]]
  <2>1. ASSUME NEW k \in 0 .. d.n PROVE g[k] = IF k = 0 THEN tag["mem"] ELSE Next1(k)
    <3>1. CASE k = 0
      BY <1>2, <3>1
    <3>2. CASE k # 0
      <4>1. k \in 1 .. d.n /\ k - 1 \in 0 .. d.n
        BY <1>1, <3>2
      <4>2. g[k - 1] = Copied(d, s, k - 1) /\ g[k] = Copied(d, s, k)
        BY <4>1
      <4> HIDE DEF g
      <4> QED BY <3>2, <4>1, <4>2, CopiesOneMore
    <3> QED BY <3>1, <3>2
  <2>2. g = [k \in 0 .. d.n |-> g[k]]
    OBVIOUS
  <2> HIDE DEF g
  <2>3. Copying(d, s, g)
    BY <2>1, <2>2 DEF Copying
  <2> QED BY <2>3
<1>4. ASSUME NEW g, Copying(d, s, g) PROVE g[d.n] = Copied(d, s, d.n)
  <2> DEFINE S == {k \in 0 .. d.n : g[k] = Copied(d, s, k)}
  <2>0. \A k \in 0 .. d.n :
           g[k] = IF k = 0 THEN tag["mem"]
                  ELSE [g[k - 1] EXCEPT ![d.start + k - 1] = g[k - 1][s.start + k - 1]]
    BY <1>4 DEF Copying
  <2>1. 0 \in S
    <3>1. 0 \in 0 .. d.n
      BY <1>1
    <3>2. g[0] = tag["mem"]
      BY <2>0, <3>1
    <3> QED BY <1>2, <3>1, <3>2
  <2>2. ASSUME NEW k \in 1 .. d.n, k - 1 \in S PROVE k \in S
    <3>1. k \in 0 .. d.n /\ k # 0 /\ g[k - 1] = Copied(d, s, k - 1)
      BY <1>1, <2>2
    <3>2. g[k] = [g[k - 1] EXCEPT ![d.start + k - 1] = g[k - 1][s.start + k - 1]]
      BY <2>0, <3>1
    <3>3. g[k] = Copied(d, s, k)
      BY <3>1, <3>2, CopiesOneMore
    <3> QED BY <3>1, <3>3
  <2>3. d.n \in S
    <3> HIDE DEF S
    <3> QED BY <1>1, <2>1, <2>2, UpTo
  <2> QED BY <2>3
<1> QED BY <1>3, <1>4

\* Copying in one expression has the effect of the byte loop of m2m_xfer, for
\* operands of any width, however they overlap.
THEOREM M2mIsTheByteLoop == Spec => []M2mIsByteLoop
<1>1. TypeOK => M2mIsByteLoop
  <2> SUFFICES ASSUME Shadow(tag), NEW d \in Opnd, NEW s \in Opnd, IsMem(d), IsMem(s), d.n = s.n
               PROVE  m2m_xfer(d, s) = CopyLoop(d, s)
    BY TypeIsShadow DEF M2mIsByteLoop
  <2> DEFINE after == CHOOSE g : Copying(d, s, g)
  <2>1. CopyLoop(d, s) = [tag EXCEPT !["mem"] = after[d.n]]
    BY DEF CopyLoop, Copying
  <2>2. after[d.n] = Copied(d, s, d.n)
    BY CopyingIs
  <2> HIDE DEF after
  <2>3. m2m_xfer(d, s) = [tag EXCEPT !["mem"] = Copied(d, s, d.n)]
    <3> DEFINE v == [i \in Lanes(d) |-> At(tag, s, Source(d, s, i))]
    <3>1. m2m_xfer(d, s) = Store(tag, d, v)
      BY DEF m2m_xfer, Source
    <3>2. ASSUME NEW b \in Bytes("mem"), Spans(d, b)
          PROVE  v[b - d.start] = tag["mem"][s.start + Source(d, s, b - d.start)]
      <4>1. b - d.start \in Lanes(d)
        BY <3>2, OpndFacts, ByteLane DEF IsMem
      <4> QED BY <4>1 DEF At, IsMem
    <3> HIDE DEF v
    <3>3. [b \in Bytes("mem") |-> IF Spans(d, b) THEN v[b - d.start] ELSE tag["mem"][b]]
            = Copied(d, s, d.n)
      BY <3>2 DEF Copied, Spans
    <3> QED BY <3>1, <3>3 DEF Store, IsMem
  <2> QED BY <2>1, <2>2, <2>3
<1> QED BY <1>1, TypeCorrect, PTL
=============================================================================
