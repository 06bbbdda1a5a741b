------------------------- MODULE PropagationProofs -------------------------
(***************************************************************************)
(* Proofs about Propagation, for every set of registers, every width and   *)
(* programs of any length: the type invariant, for all instructions; and,  *)
(* for the covered ones, that no tag is lost and that the sinks report     *)
(* what their operands are computed from.                                  *)
(*                                                                         *)
(* Every handler is a Store and every instruction a Commit, so the proof   *)
(* is about these two: which bytes they change, that they keep the type,   *)
(* and that a Commit stays below a Store when its values do.               *)
(***************************************************************************)
EXTENDS Propagation, FiniteSetTheorems, TLAPS

\* A shadow of the machine: offsets for every byte of every place.
Shadow(f) ==
    /\ DOMAIN f = Place
    /\ \A p \in Place : f[p] \in [Bytes(p) -> SUBSET Offset]

\* Every byte of g has the offsets it has in f.
Below(f, g) == \A p \in Place : \A b \in Bytes(p) : f[p][b] \subseteq g[p][b]

\* Some consecutive bytes of a place.
Slice(o) ==
    /\ o.at \in Place /\ o.start \in Nat /\ o.n \in Nat
    /\ o.start + o.n <= Size(o.at)

-----------------------------------------------------------------------------
(* Operands *)

\* Registers and memory have a natural number of bytes.
LEMMA SizeNat == \A p : Size(p) \in Nat /\ REG_BYTES <= Size(p)
BY SizeAssumption DEF Size

\* Operands are slices of one of the widths, and only the single bytes of a
\* register may begin elsewhere than at its first byte.
LEMMA OpndFacts ==
    ASSUME NEW o \in Opnd
    PROVE  /\ Slice(o)
           /\ o = [at |-> o.at, start |-> o.start, n |-> o.n]
           /\ o.n > 0 /\ o.n <= REG_BYTES /\ o.n \in Width
           /\ ~IsMem(o) => o.at \in Row /\ (o.n > 1 => o.start = 0)
<1> USE SizeAssumption, RowAssumption
<1>1. CASE o \in MemOpnd
  BY <1>1 DEF Opnd, MemOpnd, Mem, Inside, Slice, Place, IsMem
<1>2. CASE \E r \in Row, n \in Width : o = Reg(r, n)
  BY <1>2 DEF Opnd, Reg, Inside, Slice, Place, IsMem
<1>3. CASE \E r \in Legacy, n \in Width \cap {1} : o = [at |-> r, start |-> 1, n |-> n]
  BY <1>3 DEF Opnd, Legacy, Inside, Slice, Place, IsMem
<1> QED BY <1>1, <1>2, <1>3 DEF Opnd, RegOpnd

\* So are the low bytes of a register.
LEMMA RegFacts ==
    ASSUME NEW r \in Row, NEW n \in Nat, n <= REG_BYTES
    PROVE  /\ Slice(Reg(r, n))
           /\ Reg(r, n).at = r /\ Reg(r, n).start = 0 /\ Reg(r, n).n = n
BY SizeAssumption, RowAssumption DEF Slice, Reg, Place, Size

\* Lanes are counted from the other end, and shared by operands of one width.
LEMMA LaneFacts ==
    ASSUME NEW d \in Opnd, NEW s \in Opnd
    PROVE  /\ s.n - 1 \in Lanes(s)
           /\ d.n = s.n => Lanes(d) = Lanes(s)
           /\ \A i \in Lanes(d) : d.n - 1 - i \in Lanes(d)
           /\ \A i \in Lanes(d) : i < s.n => i \in Lanes(s)
BY OpndFacts DEF Lanes, Slice

\* Their lanes are their bytes.
LEMMA RegLanes ==
    ASSUME NEW r \in Row, NEW n \in Nat, n <= REG_BYTES
    PROVE  /\ Lanes(Reg(r, n)) = 0 .. n - 1
           /\ \A f : \A i \in 0 .. n - 1 : At(f, Reg(r, n), i) = f[r][i]
<1>1. \A i \in 0 .. n - 1 : 0 + i = i
  OBVIOUS
<1>2. Reg(r, n).at = r /\ Reg(r, n).start = 0 /\ Reg(r, n).n = n
  BY RegFacts
<1> QED BY <1>1, <1>2 DEF Lanes, At

\* In particular those of AX.
LEMMA AxFacts ==
    /\ Slice(Reg("rax", 2)) /\ Lanes(Reg("rax", 2)) = 0 .. 1
    /\ \A f : \A i \in 0 .. 1 : At(f, Reg("rax", 2), i) = f["rax"][i]
<1>1. "rax" \in Row /\ 2 \in Nat /\ 2 <= REG_BYTES
  BY RowAssumption, SizeAssumption
<1>2. 2 - 1 = 1
  OBVIOUS
<1>3. /\ Lanes(Reg("rax", 2)) = 0 .. 2 - 1
      /\ \A f : \A i \in 0 .. 2 - 1 : At(f, Reg("rax", 2), i) = f["rax"][i]
  BY <1>1, RegLanes, Zenon
<1>4. Slice(Reg("rax", 2))
  BY <1>1, RegFacts, Zenon
<1> QED BY <1>2, <1>3, <1>4

\* Every register has a byte for every lane.
LEMMA RowLane ==
    ASSUME NEW d \in Opnd, NEW r \in Row, NEW i \in Lanes(d)
    PROVE  r \in Place /\ i \in Bytes(r)
BY OpndFacts, SizeNat, SizeAssumption DEF Lanes, Slice, Bytes, Place

\* The byte in a lane is a byte of the place.
LEMMA LaneByte ==
    ASSUME NEW o, Slice(o), NEW i \in Lanes(o)
    PROVE  o.at \in Place /\ o.start + i \in Bytes(o.at)
BY SizeNat DEF Slice, Lanes, Bytes

\* The lane of a byte.
LEMMA ByteLane ==
    ASSUME NEW o, Slice(o), NEW b \in Bytes(o.at), Spans(o, b)
    PROVE  b - o.start \in Lanes(o) /\ o.start + (b - o.start) = b
BY SizeNat DEF Slice, Lanes, Bytes, Spans

-----------------------------------------------------------------------------
(* Store and Commit *)

\* Store changes the bytes of the slice and no others.
LEMMA StoreAt ==
    ASSUME NEW f, DOMAIN f = Place, NEW o, Slice(o), NEW v
    PROVE  /\ DOMAIN Store(f, o, v) = Place
           /\ \A p \in Place : \A b \in Bytes(p) :
                 Store(f, o, v)[p][b] =
                    IF p = o.at /\ Spans(o, b) THEN v[b - o.start] ELSE f[p][b]
BY DEF Store, Slice

\* Commit does the same, or clears the other bytes of the register.
LEMMA CommitAt ==
    ASSUME NEW f, DOMAIN f = Place, NEW o, Slice(o), NEW v
    PROVE  /\ DOMAIN Commit(f, o, v) = Place
           /\ \A p \in Place : \A b \in Bytes(p) :
                 Commit(f, o, v)[p][b] =
                    IF p = o.at /\ Spans(o, b) THEN v[b - o.start]
                    ELSE IF p = o.at /\ o.at # "mem" /\ o.n = DWORD THEN {} ELSE f[p][b]
BY DEF Commit, Slice

\* A shadow's bytes are sets of offsets.
LEMMA AtType ==
    ASSUME NEW f, Shadow(f), NEW o, Slice(o), NEW i \in Lanes(o)
    PROVE  At(f, o, i) \in SUBSET Offset
BY LaneByte DEF Shadow, At

\* So is the union over a slice.
LEMMA AllOfType ==
    ASSUME NEW f, Shadow(f), NEW o, Slice(o)
    PROVE  AllOf(f, o) \in SUBSET Offset
BY AtType DEF AllOf

\* And the union over its lower bytes.
LEMMA LowerType ==
    ASSUME NEW f, Shadow(f), NEW o, Slice(o), NEW i \in Lanes(o)
    PROVE  Lower(f, o, i) \in SUBSET Offset
<1>1. \A j \in 0 .. i : j \in Lanes(o)
  BY DEF Lanes, Slice
<1>2. \A j \in 0 .. i : At(f, o, j) \in SUBSET Offset
  BY <1>1, AtType
<1> QED BY <1>2 DEF Lower

\* Store keeps the type when the values have it.
LEMMA StoreType ==
    ASSUME NEW f, Shadow(f), NEW o, Slice(o), NEW v,
           \A i \in Lanes(o) : v[i] \in SUBSET Offset
    PROVE  Shadow(Store(f, o, v))
<1>1. ASSUME NEW b \in Bytes(o.at), Spans(o, b) PROVE v[b - o.start] \in SUBSET Offset
  BY <1>1, ByteLane
<1>2. [b \in Bytes(o.at) |-> IF Spans(o, b) THEN v[b - o.start] ELSE f[o.at][b]]
        \in [Bytes(o.at) -> SUBSET Offset]
  BY <1>1 DEF Shadow, Slice
<1> QED BY <1>2 DEF Store, Shadow, Slice

\* Commit keeps the type as well.
LEMMA CommitType ==
    ASSUME NEW f, Shadow(f), NEW o, Slice(o), NEW v,
           \A i \in Lanes(o) : v[i] \in SUBSET Offset
    PROVE  Shadow(Commit(f, o, v))
<1>1. ASSUME NEW b \in Bytes(o.at), Spans(o, b) PROVE v[b - o.start] \in SUBSET Offset
  BY <1>1, ByteLane
<1>2. [b \in Bytes(o.at) |-> IF Spans(o, b) THEN v[b - o.start]
                             ELSE IF o.at # "mem" /\ o.n = DWORD THEN {} ELSE f[o.at][b]]
        \in [Bytes(o.at) -> SUBSET Offset]
  BY <1>1 DEF Shadow, Slice
<1> QED BY <1>2 DEF Commit, Shadow, Slice

\* What is below in every byte is below in every lane and in all of a slice.
LEMMA BelowAt ==
    ASSUME NEW f, NEW g, Below(f, g), NEW o, Slice(o)
    PROVE  /\ \A i \in Lanes(o) : At(f, o, i) \subseteq At(g, o, i)
           /\ AllOf(f, o) \subseteq AllOf(g, o)
<1>1. \A i \in Lanes(o) : At(f, o, i) \subseteq At(g, o, i)
  BY LaneByte DEF Below, At
<1> QED BY <1>1 DEF AllOf

\* A Commit is below a Store to the same slice when its values are.
LEMMA CommitBelowStore ==
    ASSUME NEW f, NEW g, DOMAIN f = Place, DOMAIN g = Place, Below(f, g),
           NEW o, Slice(o), NEW v, NEW w, \A i \in Lanes(o) : v[i] \subseteq w[i]
    PROVE  Below(Commit(f, o, v), Store(g, o, w))
BY ByteLane, StoreAt, CommitAt DEF Below

\* So is a Store.
LEMMA StoreBelowStore ==
    ASSUME NEW f, NEW g, DOMAIN f = Place, DOMAIN g = Place, Below(f, g),
           NEW o, Slice(o), NEW v, NEW w, \A i \in Lanes(o) : v[i] \subseteq w[i]
    PROVE  Below(Store(f, o, v), Store(g, o, w))
BY ByteLane, StoreAt DEF Below

\* A Commit of what the slice already has stays below.
LEMMA CommitBelow ==
    ASSUME NEW f, NEW g, DOMAIN f = Place, Below(f, g),
           NEW o, Slice(o), NEW v, \A i \in Lanes(o) : v[i] \subseteq At(g, o, i)
    PROVE  Below(Commit(f, o, v), g)
<1>1. ASSUME NEW b \in Bytes(o.at), Spans(o, b) PROVE v[b - o.start] \subseteq g[o.at][b]
  BY <1>1, ByteLane DEF At
<1> QED BY <1>1, CommitAt DEF Below

\* A Store of no less than the slice has stays above.
LEMMA BelowStore ==
    ASSUME NEW f, NEW g, DOMAIN g = Place, Below(f, g),
           NEW o, Slice(o), NEW w, \A i \in Lanes(o) : At(f, o, i) \subseteq w[i]
    PROVE  Below(f, Store(g, o, w))
<1>1. ASSUME NEW b \in Bytes(o.at), Spans(o, b) PROVE f[o.at][b] \subseteq w[b - o.start]
  BY <1>1, ByteLane DEF At
<1> QED BY <1>1, StoreAt DEF Below

-----------------------------------------------------------------------------
(* The type invariant *)

\* The facts the steps below work with.
LEMMA TypeIsShadow == TypeOK <=> Shadow(tag) /\ Shadow(dep) /\ steps \in 0 .. MaxSteps
BY DEF TypeOK, Shadow

\* No instruction leaves the shadow: moves and clears.
LEMMA MoveType ==
    ASSUME Shadow(tag), Shadow(dep), NEW d \in Opnd, NEW s \in Opnd,
           \/ Mov(d, s) \/ MovImm(d) \/ Movzx(d, s) \/ Movsx(d, s) \/ Bsf(d, s)
           \/ Bswap(d) \/ Movbe(d, s) \/ \E taken \in BOOLEAN : Cmov(taken, d, s)
    PROVE  Shadow(tag') /\ Shadow(dep')
<1> USE OpndFacts, LaneFacts, AtType, AllOfType, StoreType, CommitType
<1>1. CASE Mov(d, s)       BY <1>1 DEF Mov, xfer
<1>2. CASE MovImm(d)       BY <1>2 DEF MovImm, clr
<1>3. CASE Movzx(d, s)     BY <1>3 DEF Movzx, movzx
<1>4. CASE Movsx(d, s)     BY <1>4 DEF Movsx, movsx
<1>5. CASE Bsf(d, s)       BY <1>5 DEF Bsf, xfer
<1>6. CASE Bswap(d)        BY <1>6 DEF Bswap, bswap_reg
<1>7. CASE Movbe(d, s)     BY <1>7 DEF Movbe, movbe
<1>8. ASSUME NEW taken \in BOOLEAN, Cmov(taken, d, s) PROVE Shadow(tag') /\ Shadow(dep')
  BY <1>8 DEF Cmov, cmov, xfer
<1> QED BY <1>1, <1>2, <1>3, <1>4, <1>5, <1>6, <1>7, <1>8

\* The arithmetic ones, and the copies between memory operands.
LEMMA MixType ==
    ASSUME Shadow(tag), Shadow(dep), NEW d \in Opnd, NEW s \in Opnd,
           \/ \E op \in BinaryOp : Binary(op, d, s) \/ BinaryImm(op, d)
           \/ Imul(d, s) \/ Imul3(d, s) \/ Adc(d, s) \/ Shift(d) \/ LeaRel(d)
           \/ \E count \in {"imm", "cl"} : Shld(d, s, count)
           \/ \E base, index \in Row \cup {"none"}, scaled \in BOOLEAN : Lea(d, base, index, scaled)
    PROVE  Shadow(tag') /\ Shadow(dep')
<1> USE OpndFacts, LaneFacts, AtType, AllOfType, LowerType, StoreType, CommitType
<1>1. ASSUME NEW op, Binary(op, d, s) PROVE Shadow(tag') /\ Shadow(dep')
  BY <1>1 DEF Binary, binary, clr
<1>2. ASSUME NEW op, BinaryImm(op, d) PROVE Shadow(tag') /\ Shadow(dep')
  BY <1>2 DEF BinaryImm
<1>3. CASE Imul3(d, s)     BY <1>3 DEF Imul3, binary
<1>4. CASE Adc(d, s)       BY <1>4 DEF Adc
<1>5. CASE Shift(d)        BY <1>5 DEF Shift, shift
<1>6. ASSUME NEW count, Shld(d, s, count) PROVE Shadow(tag') /\ Shadow(dep')
  <2>1. Shadow(dep')
    BY <1>6 DEF Shld
  <2>0. CASE IsMem(d)
    BY <1>6, <2>0, <2>1 DEF Shld
  <2> SUFFICES ASSUME ~IsMem(d) PROVE Shadow(tag')
    BY <2>0, <2>1
  <2>2. CASE s # d
    <3>1. Slice([d EXCEPT !.n = d.n]) /\ Slice([s EXCEPT !.n = d.n])
      BY <1>6 DEF Shld, Slice
    <3> QED BY <1>6, <2>2, <3>1 DEF Shld, shld_r2r
  <2>3. CASE s = d /\ count = "cl"
    <3>1. /\ Slice([d EXCEPT !.n = 1])
          /\ Slice([Reg("rcx", 1) EXCEPT !.n = 1])
      BY <1>6, <2>3, RegFacts, SizeAssumption DEF Shld, Slice, Reg
    <3> QED BY <1>6, <2>3, <3>1 DEF Shld, shld_r2r
  <2>4. CASE s = d /\ count # "cl"
    BY <1>6, <2>4 DEF Shld, shift
  <2> QED BY <2>2, <2>3, <2>4
<1>7. ASSUME NEW base \in Row \cup {"none"}, NEW index \in Row \cup {"none"},
             NEW scaled, Lea(d, base, index, scaled)
      PROVE  Shadow(tag') /\ Shadow(dep')
  <2>1. ASSUME NEW f, Shadow(f), NEW r \in Row \cup {"none"}, NEW i \in Lanes(d)
        PROVE  AddrTag(f, r, i) \in SUBSET Offset
    BY <2>1, RowLane DEF AddrTag, Shadow
  <2>2. ASSUME NEW r \in Row \cup {"none"}, NEW i \in Lanes(d), NEW x
        PROVE  Term(r, i, x) \in SUBSET Offset
    <3>1. i > 0 => i - 1 \in Lanes(d)
      BY DEF Lanes, Slice
    <3> QED BY <2>1, <3>1 DEF Term
  <2>3. Shadow(tag')
    BY <1>7, <2>1 DEF Lea, lea_prop
  <2>4. Shadow(dep')
    BY <1>7, <2>2 DEF Lea
  <2> QED BY <2>3, <2>4
<1>8. CASE LeaRel(d)       BY <1>8 DEF LeaRel
<1>9. CASE Imul(d, s)      BY <1>9 DEF Imul, binary
<1> QED BY <1>1, <1>2, <1>3, <1>4, <1>5, <1>6, <1>7, <1>8, <1>9

\* A copy between memory operands reads lanes of its source.
LEMMA M2mLane ==
    ASSUME NEW d \in Opnd, NEW s \in Opnd, d.n = s.n, NEW i \in Lanes(d)
    PROVE  LET gap == d.start - s.start
           IN  (IF 0 < gap /\ gap < d.n THEN i % gap ELSE i) \in Lanes(s)
BY OpndFacts DEF Lanes, Slice

\* The stack and the string instructions.
LEMMA CopyType ==
    ASSUME Shadow(tag), Shadow(dep), NEW d \in Opnd, NEW s \in Opnd,
           Push(d, s) \/ Pop(d, s) \/ Movs(d, s) \/ Stos(d) \/ Lods(d) \/ Leave(d)
    PROVE  Shadow(tag') /\ Shadow(dep')
<1> USE OpndFacts, LaneFacts, AtType, AllOfType, StoreType, CommitType
<1>1. ASSUME NEW e \in Opnd, NEW o \in Opnd, e.n = o.n
      PROVE  Shadow(m2m_xfer(e, o)) /\ Shadow(xfer(e, o))
  BY <1>1, M2mLane DEF m2m_xfer, xfer
<1>2. CASE Push(d, s)      BY <1>1, <1>2 DEF Push
<1>3. CASE Pop(d, s)       BY <1>1, <1>3 DEF Pop
<1>4. CASE Movs(d, s)      BY <1>1, <1>4 DEF Movs
<1>5. /\ Slice(Reg("rax", d.n)) /\ Lanes(Reg("rax", d.n)) = Lanes(d)
      /\ \A i \in Lanes(d) : dep["rax"][i] \in SUBSET Offset
  <2>1. "rax" \in Row /\ d.n \in Nat /\ d.n <= REG_BYTES
    BY RowAssumption DEF Slice
  <2>2. Slice(Reg("rax", d.n)) /\ Lanes(Reg("rax", d.n)) = Lanes(d)
    BY <2>1, RegFacts DEF Lanes
  <2>3. \A i \in Lanes(d) : dep["rax"][i] = At(dep, Reg("rax", d.n), i)
    BY <2>1, RegFacts DEF At, Lanes
  <2> QED BY <2>2, <2>3
<1>6. CASE Stos(d)         BY <1>5, <1>6 DEF Stos, xfer
<1>7. CASE Lods(d)         BY <1>5, <1>7 DEF Lods, xfer
<1>8. CASE Leave(d)
  <2> DEFINE rsp == Reg("rsp", REG_BYTES)
             rbp == Reg("rbp", REG_BYTES)
  <2>1. Slice(rsp) /\ Slice(rbp) /\ Lanes(rsp) = Lanes(rbp) /\ Lanes(rbp) = Lanes(d)
    BY <1>8, RegFacts, SizeAssumption DEF Leave, Lanes
  <2> HIDE DEF rsp, rbp
  <2>2. ASSUME NEW f, Shadow(f)
        PROVE  Shadow(Store(Store(f, rsp, [i \in Lanes(rsp) |-> At(f, rbp, i)]),
                            rbp, [i \in Lanes(rbp) |-> At(f, d, i)]))
    BY <2>1, <2>2
  <2> QED BY <1>8, <2>2 DEF Leave, rsp, rbp
<1> QED BY <1>2, <1>3, <1>4, <1>6, <1>7, <1>8

\* Those with the accumulator for an implicit operand.
LEMMA AccType ==
    ASSUME Shadow(tag), Shadow(dep), NEW s \in Opnd,
           ImulByte(s) \/ \E op \in {"mul", "div"} : MulDiv(op, s)
    PROVE  Shadow(tag') /\ Shadow(dep')
<1> USE OpndFacts, LaneFacts, AtType, StoreType, CommitType
<1> DEFINE ax == Reg("rax", 2)
<1>0. "rax" \in Row /\ "rdx" \in Row /\ 2 <= REG_BYTES /\ s.n \in Nat /\ s.n > 0
  BY RowAssumption, SizeAssumption DEF Slice
<1>1. Slice(ax) /\ Lanes(ax) = 0 .. 1 /\ \A f : \A i \in 0 .. 1 : At(f, ax, i) = f["rax"][i]
  BY AxFacts
<1>2. \A f : Shadow(f) => f["rax"][0] \in SUBSET Offset /\ f["rax"][1] \in SUBSET Offset
  <2>1. 0 \in 0 .. 1 /\ 1 \in 0 .. 1
    OBVIOUS
  <2> HIDE DEF ax
  <2> QED BY <1>1, <2>1, AtType
<1>3. 0 \in Lanes(s)
  BY <1>0 DEF Lanes
<1>4. ASSUME NEW op \in {"mul", "div"}, MulDiv(op, s) PROVE Shadow(tag')
  <2>1. CASE s.n = 1
    <3> DEFINE v == [i \in 0 .. 1 |-> tag["rax"][i] \cup At(tag, s, 0)]
    <3>1. tag' = tag \/ tag' = Store(tag, ax, v)
      BY <1>4, <2>1 DEF MulDiv, ternary_combine
    <3>2. \A i \in Lanes(ax) : v[i] \in SUBSET Offset
      BY <1>1, <1>2, <1>3
    <3> HIDE DEF ax, v
    <3> QED BY <1>1, <3>1, <3>2
  <2>2. CASE s.n # 1
    <3>1. \A p \in Place : \A b \in Bytes(p) : tag[p][b] \in SUBSET Offset
      BY DEF Shadow
    <3>2. \A r : \A b \in Bytes(r) : b < s.n => b \in Lanes(s)
      BY <1>0, SizeNat DEF Bytes, Lanes
    <3> QED BY <1>4, <2>2, <3>1, <3>2 DEF MulDiv, ternary_combine, Shadow
  <2> QED BY <2>1, <2>2
<1>5. ASSUME NEW op \in {"mul", "div"}, MulDiv(op, s) PROVE Shadow(dep')
  <2> DEFINE a     == Reg("rax", IF s.n = 1 THEN 2 ELSE s.n)
             dx    == Reg("rdx", s.n)
             acc   == IF s.n = 1 THEN {a} ELSE {a, dx}
             reads == {s} \cup IF op = "mul" THEN {Reg("rax", s.n)} ELSE acc
             all   == UNION {AllOf(dep, o) : o \in reads}
             low   == [i \in Lanes(a) |-> IF op = "mul" THEN Lower(dep, a, i) \cup Lower(dep, s, i)
                                          ELSE all]
  <2>1. Slice(a) /\ Slice(dx) /\ Slice(Reg("rax", s.n)) /\ (s.n # 1 => Lanes(a) = Lanes(s))
    BY <1>0, RegFacts DEF Lanes
  <2>2. dep' = IF s.n = 1 THEN Store(dep, a, [i \in Lanes(a) |-> all])
               ELSE Commit(Commit(dep, a, low), dx, [i \in Lanes(dx) |-> all])
    BY <1>5 DEF MulDiv
  <2>3. \A o \in reads : Slice(o)
    BY <2>1
  <2> HIDE DEF a, dx, reads
  <2>4. all \in SUBSET Offset
    BY <2>3, AllOfType
  <2> HIDE DEF all
  <2>5. s.n # 1 => \A i \in Lanes(a) : low[i] \in SUBSET Offset
    BY <2>1, <2>4, LowerType
  <2> HIDE DEF low
  <2>6. CASE s.n = 1
    BY <2>1, <2>2, <2>4, <2>6
  <2>7. CASE s.n # 1
    <3>1. Shadow(Commit(dep, a, low))
      BY <2>1, <2>5, <2>7
    <3> QED BY <2>1, <2>2, <2>4, <2>7, <3>1
  <2> QED BY <2>6, <2>7
<1>6. CASE ImulByte(s)
  <2>1. Slice(Reg("rax", 1)) /\ Lanes(Reg("rax", 1)) = 0 .. 0 /\ Lanes(s) = 0 .. 0
    <3>1. s.n = 1
      BY <1>6 DEF ImulByte
    <3>2. Lanes(s) = 0 .. 0
      BY <3>1 DEF Lanes
    <3>3. "rax" \in Row /\ 1 \in Nat /\ 1 <= REG_BYTES
      BY SizeAssumption, RowAssumption
    <3>4. Slice(Reg("rax", 1)) /\ Lanes(Reg("rax", 1)) = 0 .. 1 - 1
      BY <3>3, RegFacts, RegLanes
    <3> QED BY <3>2, <3>4
  <2>2. Shadow(dep')
    BY <1>1, <1>2, <1>3, <1>6 DEF ImulByte
  <2>3. CASE IsMem(s)
    <3> DEFINE s2 == [s EXCEPT !.n = 2]
    <3>1. Slice(s2) /\ Lanes(s2) = 0 .. 1
      BY <1>6 DEF ImulByte, Slice, Lanes
    <3>2. \A i : At(tag, s, i) = At(tag, s2, i)
      BY DEF At
    <3>3. tag' = Store(tag, ax, [i \in Lanes(ax) |-> At(tag, ax, i) \cup At(tag, s, i)])
      BY <1>6, <2>3 DEF ImulByte, binary
    <3>4. \A i \in Lanes(ax) : At(tag, s, i) \in SUBSET Offset /\ At(tag, ax, i) \in SUBSET Offset
      <4> HIDE DEF ax, s2
      <4> QED BY <1>1, <3>1, <3>2
    <3> HIDE DEF ax
    <3> QED BY <1>1, <2>2, <3>3, <3>4
  <2>4. CASE ~IsMem(s)
    BY <1>3, <1>6, <2>1, <2>2, <2>4 DEF ImulByte, binary
  <2> QED BY <2>3, <2>4
<1> QED BY <1>4, <1>5, <1>6

\* The sign extensions of the accumulator.
LEMMA SignType ==
    ASSUME Shadow(tag), Shadow(dep), NEW n \in Width \ {1}, Cwde(n) \/ Cdq(n)
    PROVE  Shadow(tag') /\ Shadow(dep')
<1> DEFINE half == n \div 2
           low  == Reg("rax", half)
           high == [at |-> "rax", start |-> half, n |-> n - half]
<1>1. /\ "rax" \in Row /\ "rdx" \in Row /\ n \in Nat /\ n > 1 /\ n <= REG_BYTES
      /\ half \in Nat /\ half > 0 /\ half < n /\ n - half \in Nat
  BY RowAssumption, SizeAssumption
<1>2. ASSUME NEW r \in Row
      PROVE  /\ Slice(Reg(r, n)) /\ Lanes(Reg(r, n)) = 0 .. n - 1
             /\ \A i \in 0 .. n - 1 : dep[r][i] \in SUBSET Offset
  BY <1>1, RegFacts, AtType DEF Lanes, At
<1>3. CASE Cwde(n)
  <2>1. Slice(low) /\ Lanes(low) = 0 .. half - 1
    BY <1>1, RegFacts, RegLanes, SizeAssumption
  <2>2. Slice(high) /\ Lanes(high) = 0 .. n - half - 1
    BY <1>1, RowAssumption, SizeAssumption DEF Lanes, Slice, Place, Size
  <2>3. \A i \in Lanes(high) : At(tag, low, i) \in SUBSET Offset
    <3>1. \A i : At(tag, low, i) = At(tag, Reg("rax", n), i)
      BY DEF At, Reg
    <3>2. \A i \in Lanes(high) : i \in Lanes(Reg("rax", n))
      BY <1>1, <1>2, <2>2
    <3> QED BY <1>1, <1>2, <3>1, <3>2, AtType
  <2>4. Shadow(tag')
    <3>1. tag' = Store(tag, high, [i \in Lanes(high) |-> At(tag, low, i)])
      BY <1>3 DEF Cwde, xfer
    <3> HIDE DEF high, low
    <3> QED BY <2>2, <2>3, <3>1, StoreType
  <2>5. \A i \in 0 .. n - 1 : (IF i < half THEN i ELSE half - 1) \in Lanes(low)
    BY <1>1, <2>1
  <2>6. dep' = Commit(dep, Reg("rax", n), [i \in 0 .. n - 1 |->
                         At(dep, low, IF i < half THEN i ELSE half - 1)])
    BY <1>3 DEF Cwde
  <2> HIDE DEF half, low
  <2> QED BY <1>1, <1>2, <2>1, <2>4, <2>5, <2>6, AtType, CommitType
<1>4. CASE Cdq(n)
  <2>1. Shadow(tag')
    BY <1>1, <1>2, <1>4, AtType, StoreType DEF Cdq, xfer
  <2>2. n - 1 \in 0 .. n - 1
    BY <1>1
  <2> QED BY <1>1, <1>2, <1>4, <2>1, <2>2, CommitType DEF Cdq
<1> QED BY <1>3, <1>4

\* The exchanges.
LEMMA ExchangeType ==
    ASSUME Shadow(tag), Shadow(dep), NEW d \in Opnd, NEW s \in Opnd,
           \/ Xchg(d, s) \/ Xadd(d, s) \/ \E equal \in BOOLEAN : Cmpxchg(equal, d, s)
    PROVE  Shadow(tag') /\ Shadow(dep')
<1> USE OpndFacts, LaneFacts, AtType, StoreType, CommitType
<1>1. CASE Xchg(d, s)      BY <1>1 DEF Xchg, xchg
<1>2. CASE Xadd(d, s)      BY <1>2 DEF Xadd, xadd
<1>3. ASSUME NEW equal, Cmpxchg(equal, d, s) PROVE Shadow(tag') /\ Shadow(dep')
  <2> DEFINE a == Reg("rax", d.n)
  <2>1. Slice(a) /\ Lanes(a) = Lanes(d)
    BY RegFacts, RowAssumption DEF Lanes, Slice
  <2>2. Shadow(cmpxchg(d, s, a)) /\ Shadow(cmpxchg(d, s, d))
    <3> HIDE DEF a
    <3> QED BY <1>3, <2>1 DEF Cmpxchg, cmpxchg
  <2>3. Shadow(tag')
    BY <1>3, <2>2 DEF Cmpxchg
  <2>4. Shadow(dep')
    BY <1>3, <2>1 DEF Cmpxchg
  <2> QED BY <2>3, <2>4
<1> QED BY <1>1, <1>2, <1>3

\* Comparisons change nothing.
LEMMA CompareType ==
    ASSUME Shadow(tag), Shadow(dep), NEW d, NEW s, Cmp(d, s) \/ Cmps(d, s) \/ CmpImm(d)
    PROVE  Shadow(tag') /\ Shadow(dep')
BY DEF Cmp, Cmps, CmpImm

\* One instruction.
LEMMA InstructionType ==
    ASSUME Shadow(tag), Shadow(dep), ins_inspect_dr
    PROVE  Shadow(tag') /\ Shadow(dep')
<1>1. CASE \E d, s \in Opnd :
          \/ Mov(d, s) \/ Movzx(d, s) \/ Movsx(d, s) \/ Bsf(d, s) \/ Movbe(d, s)
          \/ \E taken \in BOOLEAN : Cmov(taken, d, s)
  BY <1>1, MoveType
<1>2. CASE \E d, s \in Opnd :
          \/ \E op \in BinaryOp : Binary(op, d, s)
          \/ Imul(d, s) \/ Imul3(d, s) \/ Adc(d, s)
          \/ \E count \in {"imm", "cl"} : Shld(d, s, count)
  BY <1>2, MixType
<1>3. CASE \E d, s \in Opnd : Push(d, s) \/ Pop(d, s) \/ Movs(d, s)
  BY <1>3, CopyType
<1>4. CASE \E d, s \in Opnd :
          Xchg(d, s) \/ Xadd(d, s) \/ \E equal \in BOOLEAN : Cmpxchg(equal, d, s)
  BY <1>4, ExchangeType
<1>5. CASE \E d, s \in Opnd : Cmp(d, s) \/ Cmps(d, s)
  BY <1>5, CompareType
<1>6. CASE \E d \in Opnd : MovImm(d) \/ Bswap(d)
  BY <1>6, MoveType
<1>7. CASE \E d \in Opnd :
          \/ Shift(d) \/ LeaRel(d) \/ \E op \in BinaryOp : BinaryImm(op, d)
          \/ \E base, index \in Row \cup {"none"}, scaled \in BOOLEAN : Lea(d, base, index, scaled)
  BY <1>7, MixType
<1>8. CASE \E d \in Opnd : Stos(d) \/ Lods(d) \/ Leave(d)
  BY <1>8, CopyType
<1>9. CASE \E d \in Opnd : ImulByte(d) \/ \E op \in {"mul", "div"} : MulDiv(op, d)
  BY <1>9, AccType
<1>10. CASE \E d \in Opnd : CmpImm(d)
  BY <1>10, CompareType
<1>11. CASE \E n \in Width \ {1} : Cwde(n) \/ Cdq(n)
  BY <1>11, SignType
<1> QED BY <1>1, <1>2, <1>3, <1>4, <1>5, <1>6, <1>7, <1>8, <1>9, <1>10, <1>11
        DEF ins_inspect_dr

\* It takes one step of the program.
LEMMA InstructionSteps ==
    ASSUME ins_inspect_dr
    PROVE  steps' = steps + 1
<1> USE DEF Quiet, Does
<1>1. ASSUME NEW d, NEW s,
             \/ Mov(d, s) \/ Movzx(d, s) \/ Movsx(d, s) \/ Bsf(d, s) \/ Movbe(d, s)
             \/ Imul(d, s) \/ Imul3(d, s) \/ Adc(d, s) \/ Push(d, s) \/ Pop(d, s) \/ Movs(d, s)
             \/ Xchg(d, s) \/ Xadd(d, s) \/ Cmp(d, s) \/ Cmps(d, s)
      PROVE  steps' = steps + 1
  BY <1>1 DEF Mov, Movzx, Movsx, Bsf, Movbe, Imul, Imul3, Adc, Push, Pop, Movs, Xchg, Xadd,
              Cmp, Cmps
<1>2. ASSUME NEW d, NEW s, NEW x,
             \/ Binary(x, d, s) \/ Cmov(x, d, s) \/ Cmpxchg(x, d, s) \/ Shld(d, s, x)
             \/ BinaryImm(x, d) \/ MulDiv(x, d) \/ \E y : Lea(d, s, x, y)
      PROVE  steps' = steps + 1
  BY <1>2 DEF Binary, Cmov, Cmpxchg, Shld, BinaryImm, MulDiv, Lea
<1>3. ASSUME NEW d,
             \/ MovImm(d) \/ Shift(d) \/ Bswap(d) \/ Stos(d) \/ Lods(d) \/ LeaRel(d)
             \/ ImulByte(d) \/ Leave(d) \/ CmpImm(d) \/ Cwde(d) \/ Cdq(d)
      PROVE  steps' = steps + 1
  BY <1>3 DEF MovImm, Shift, Bswap, Stos, Lods, LeaRel, ImulByte, Leave, CmpImm, Cwde, Cdq
<1> HIDE DEF Quiet, Does
<1> QED BY <1>1, <1>2, <1>3 DEF ins_inspect_dr

\* The offsets every byte is loaded with are offsets.
LEMMA InitType == Init => TypeOK
<1> SUFFICES ASSUME Init PROVE TypeOK
  OBVIOUS
<1>1. \A p \in Place : \A b \in Bytes(p) : <<p, b>> \in Offset
  BY SizeAssumption DEF Bytes, Size, Offset
<1>2. \A p \in Place : [b \in Bytes(p) |-> {<<p, b>>}] \in [Bytes(p) -> SUBSET Offset]
  BY <1>1
<1> QED BY <1>2, OptionAssumption DEF Init, TypeOK

\* One step of the specification keeps the type invariant.
LEMMA NextType == TypeOK /\ [Next]_vars => TypeOK'
<1> SUFFICES ASSUME TypeOK, [Next]_vars PROVE TypeOK'
  OBVIOUS
<1>1. CASE steps < MaxSteps /\ ins_inspect_dr
  <2>1. Shadow(tag') /\ Shadow(dep')
    BY <1>1, InstructionType, TypeIsShadow
  <2>2. steps' \in 0 .. MaxSteps
    BY <1>1, InstructionSteps, OptionAssumption DEF TypeOK
  <2> QED BY <2>1, <2>2 DEF TypeOK, Shadow
<1>2. CASE UNCHANGED vars
  BY <1>2 DEF TypeOK, vars
<1> QED BY <1>1, <1>2 DEF Next, Ended

\* Type correctness: whatever the program, every shadow byte of every register
\* and of memory holds a set of offsets; no handler reads or writes outside the
\* rows of gpr_file or the bytes of its operands.
THEOREM TypeCorrect == Spec => []TypeOK
BY InitType, NextType, PTL DEF Spec

-----------------------------------------------------------------------------
(* No false negatives *)

\* The program consists of instructions the engine covers.
CoveredOnly == Op \subseteq Covered

\* What every step may assume.
Sound == Shadow(tag) /\ Shadow(dep) /\ Below(dep, tag)

\* A covered instruction keeps the flow below the tags: moves and clears.
LEMMA MoveSound ==
    ASSUME CoveredOnly, Sound, NEW d \in Opnd, NEW s \in Opnd,
           \/ Mov(d, s) \/ MovImm(d) \/ Movzx(d, s) \/ Movsx(d, s) \/ Bsf(d, s)
           \/ Bswap(d) \/ Movbe(d, s) \/ \E taken \in BOOLEAN : Cmov(taken, d, s)
    PROVE  Below(dep', tag')
<1> USE OpndFacts, LaneFacts, BelowAt, CommitBelowStore
<1>0. DOMAIN tag = Place /\ DOMAIN dep = Place /\ Below(dep, tag)
  BY DEF Sound, Shadow
<1>1. CASE Mov(d, s)       BY <1>0, <1>1 DEF Mov, xfer
<1>2. CASE MovImm(d)       BY <1>0, <1>2 DEF MovImm, clr
<1>3. CASE Movzx(d, s)     BY <1>0, <1>3 DEF Movzx, movzx
<1>4. CASE Movsx(d, s)     BY <1>0, <1>4 DEF Movsx, movsx
<1>5. CASE Bsf(d, s)
  BY <1>5 DEF Bsf, Quiet, Does, CoveredOnly, Covered, BinaryOp
<1>6. CASE Bswap(d)        BY <1>0, <1>6 DEF Bswap, bswap_reg
<1>7. CASE Movbe(d, s)     BY <1>0, <1>7 DEF Movbe, movbe
<1>8. ASSUME NEW taken, Cmov(taken, d, s) PROVE Below(dep', tag')
  <2>1. CASE taken         BY <1>0, <1>8, <2>1 DEF Cmov, cmov, xfer
  <2>2. CASE ~taken        BY <1>0, <1>8, <2>2, CommitBelow DEF Cmov, cmov
  <2> QED BY <2>1, <2>2
<1> QED BY <1>1, <1>2, <1>3, <1>4, <1>5, <1>6, <1>7, <1>8

\* The arithmetic ones.
LEMMA MixSound ==
    ASSUME CoveredOnly, Sound, NEW d \in Opnd, NEW s \in Opnd,
           \/ \E op \in BinaryOp : Binary(op, d, s) \/ BinaryImm(op, d)
           \/ Imul(d, s) \/ Imul3(d, s) \/ Adc(d, s) \/ Shift(d) \/ LeaRel(d)
           \/ \E count \in {"imm", "cl"} : Shld(d, s, count)
           \/ \E base, index \in Row \cup {"none"}, scaled \in BOOLEAN : Lea(d, base, index, scaled)
    PROVE  Below(dep', tag')
<1> USE OpndFacts, LaneFacts, BelowAt, CommitBelowStore
<1>0. DOMAIN tag = Place /\ DOMAIN dep = Place /\ Below(dep, tag)
  BY DEF Sound, Shadow
<1>1. ASSUME NEW op, Binary(op, d, s) PROVE Below(dep', tag')
  BY <1>0, <1>1 DEF Binary, binary, clr
<1>2. ASSUME NEW op, BinaryImm(op, d) PROVE Below(dep', tag')
  BY <1>0, <1>2, CommitBelow DEF BinaryImm
<1>3. CASE Imul(d, s) \/ Imul3(d, s)
  BY <1>3 DEF Imul, Imul3, Quiet, Does, CoveredOnly, Covered, BinaryOp
<1>4. CASE Adc(d, s)
  BY <1>4 DEF Adc, Quiet, Does, CoveredOnly, Covered, BinaryOp
<1>5. CASE Shift(d)        BY <1>0, <1>5 DEF Shift, shift
<1>6. ASSUME NEW count, Shld(d, s, count) PROVE Below(dep', tag')
  <2>1. ~IsMem(d) /\ ~(s = d /\ count = "cl")
    BY <1>6 DEF Shld, Quiet, Does, CoveredOnly, Covered, BinaryOp
  <2>2. CASE s # d
    <3>1. [d EXCEPT !.n = d.n] = d /\ [s EXCEPT !.n = d.n] = s
      BY <1>6 DEF Shld
    <3> QED BY <1>0, <1>6, <2>1, <2>2, <3>1 DEF Shld, shld_r2r
  <2>3. CASE s = d /\ count # "cl"
    BY <1>0, <1>6, <2>1, <2>3 DEF Shld, shift
  <2> QED BY <2>1, <2>2, <2>3
<1>7. ASSUME NEW base \in Row \cup {"none"}, NEW index \in Row \cup {"none"},
             NEW scaled, Lea(d, base, index, scaled)
      PROVE  Below(dep', tag')
  <2>0. ~scaled
    BY <1>7 DEF Lea, Does, CoveredOnly, Covered, BinaryOp
  <2>1. ASSUME NEW r \in Row \cup {"none"}, NEW i \in Lanes(d)
        PROVE  AddrTag(dep, r, i) \subseteq AddrTag(tag, r, i)
    BY <1>0, <2>1, RowLane DEF AddrTag, Below
  <2>2. \A i \in Lanes(d) : Term(base, i, FALSE) \cup Term(index, i, scaled)
                               \subseteq AddrTag(tag, base, i) \cup AddrTag(tag, index, i)
    BY <2>0, <2>1 DEF Term
  <2> QED BY <1>0, <1>7, <2>2 DEF Lea, lea_prop
<1>8. CASE LeaRel(d)       BY <1>0, <1>8, CommitBelow DEF LeaRel
<1> QED BY <1>1, <1>2, <1>3, <1>4, <1>5, <1>6, <1>7, <1>8

\* Between operands that do not overlap the byte loop is a plain copy.
LEMMA M2mCopies ==
    ASSUME NEW d \in Opnd, NEW s \in Opnd, d.n = s.n, IsMem(d), IsMem(s), ~Overlap(d, s)
    PROVE  m2m_xfer(d, s) = xfer(d, s)
<1>1. ASSUME 0 < d.start - s.start, d.start - s.start < d.n PROVE FALSE
  <2>1. d # s
    BY <1>1, OpndFacts DEF Slice
  <2>2. d.start \in Bytes("mem") /\ Spans(d, d.start) /\ Spans(s, d.start)
    BY <1>1, OpndFacts, SizeNat DEF Slice, Bytes, Spans, IsMem
  <2> QED BY <2>1, <2>2 DEF Overlap
<1> QED BY <1>1 DEF m2m_xfer, xfer

\* The stack and the string instructions.
LEMMA CopySound ==
    ASSUME CoveredOnly, Sound, NEW d \in Opnd, NEW s \in Opnd,
           Push(d, s) \/ Pop(d, s) \/ Movs(d, s) \/ Stos(d) \/ Lods(d) \/ Leave(d)
    PROVE  Below(dep', tag')
<1> USE OpndFacts, LaneFacts, BelowAt
<1>0. DOMAIN tag = Place /\ DOMAIN dep = Place /\ Below(dep, tag)
  BY DEF Sound, Shadow
<1>1. "overlap" \notin Op /\ "stack_pointer" \notin Op
  BY DEF CoveredOnly, Covered, BinaryOp
<1>2. ASSUME d.n = s.n
      PROVE  Below(Commit(dep, d, [i \in Lanes(d) |-> At(dep, s, i)]), xfer(d, s))
  BY <1>0, <1>2, CommitBelowStore DEF xfer
<1>3. CASE Push(d, s)
  <2>1. d.n = s.n /\ ~Overlap(d, s) /\ s.at # "rsp"
    BY <1>1, <1>3 DEF Push, Shape, Quiet, Does
  <2> QED BY <1>2, <1>3, <2>1, M2mCopies DEF Push
<1>4. CASE Pop(d, s)
  <2>1. d.n = s.n /\ ~Overlap(d, s) /\ d.at # "rsp"
    BY <1>1, <1>4 DEF Pop, Shape, Quiet, Does
  <2> QED BY <1>2, <1>4, <2>1, M2mCopies DEF Pop
<1>5. CASE Movs(d, s)
  <2>1. d.n = s.n /\ ~Overlap(d, s)
    BY <1>1, <1>5 DEF Movs, Shape, Quiet, Does
  <2> QED BY <1>2, <1>5, <2>1, M2mCopies DEF Movs
<1>6. /\ Slice(Reg("rax", d.n)) /\ Lanes(Reg("rax", d.n)) = Lanes(d)
      /\ \A i \in Lanes(d) : dep["rax"][i] = At(dep, Reg("rax", d.n), i)
  <2>1. "rax" \in Row /\ d.n \in Nat /\ d.n <= REG_BYTES
    BY RowAssumption DEF Slice
  <2> QED BY <2>1, RegFacts, RegLanes DEF Lanes
<1>7. CASE Stos(d)         BY <1>0, <1>6, <1>7, CommitBelowStore DEF Stos, xfer
<1>8. CASE Lods(d)         BY <1>0, <1>6, <1>8, CommitBelowStore DEF Lods, xfer
<1>9. CASE Leave(d)
  <2> DEFINE rsp == Reg("rsp", REG_BYTES)
             rbp == Reg("rbp", REG_BYTES)
             Mid(f) == Store(f, rsp, [i \in Lanes(rsp) |-> At(f, rbp, i)])
  <2>1. Slice(rsp) /\ Slice(rbp) /\ Lanes(rsp) = Lanes(rbp) /\ Lanes(rbp) = Lanes(d)
    BY <1>9, RegFacts, SizeAssumption DEF Leave, Lanes
  <2>2. /\ tag' = Store(Mid(tag), rbp, [i \in Lanes(rbp) |-> At(tag, d, i)])
        /\ dep' = Store(Mid(dep), rbp, [i \in Lanes(rbp) |-> At(dep, d, i)])
    BY <1>9 DEF Leave
  <2>3. DOMAIN Mid(tag) = Place /\ DOMAIN Mid(dep) = Place
    <3> HIDE DEF rsp, rbp
    <3> QED BY <1>0, <2>1, StoreAt
  <2>4. Below(Mid(dep), Mid(tag))
    <3> HIDE DEF rsp, rbp
    <3> QED BY <1>0, <2>1, StoreBelowStore
  <2> HIDE DEF rsp, rbp, Mid
  <2> QED BY <1>0, <2>1, <2>2, <2>3, <2>4, StoreBelowStore
<1> QED BY <1>3, <1>4, <1>5, <1>7, <1>8, <1>9

\* Multiplications and divisions are not covered.
LEMMA MulSound ==
    ASSUME CoveredOnly, NEW s, ImulByte(s) \/ \E op \in {"mul", "div"} : MulDiv(op, s)
    PROVE  FALSE
BY DEF MulDiv, ImulByte, Quiet, Does, CoveredOnly, Covered, BinaryOp

\* Two operands of one width at the same place begin at the same byte or share none.
LEMMA SameLanes ==
    ASSUME NEW d \in Opnd, NEW s \in Opnd, d.n = s.n, ~IsMem(s), d.at = s.at,
           NEW b \in Bytes(d.at), Spans(d, b), Spans(s, b)
    PROVE  d.start = s.start
<1>1. b \in Int /\ d.n \in Nat /\ d.start \in Nat /\ s.start \in Nat /\ ~IsMem(d)
  BY OpndFacts, SizeNat DEF Slice, Bytes, IsMem
<1>2. CASE d.n > 1
  BY <1>1, <1>2, OpndFacts
<1>3. CASE d.n <= 1
  BY <1>1, <1>3, OpndFacts DEF Spans
<1> QED BY <1>1, <1>2, <1>3

\* The exchanges.
LEMMA ExchangeSound ==
    ASSUME CoveredOnly, Sound, NEW d \in Opnd, NEW s \in Opnd,
           \/ Xchg(d, s) \/ Xadd(d, s) \/ \E equal \in BOOLEAN : Cmpxchg(equal, d, s)
    PROVE  Below(dep', tag')
<1> USE OpndFacts, LaneFacts, BelowAt
<1>0. DOMAIN tag = Place /\ DOMAIN dep = Place /\ Below(dep, tag)
  BY DEF Sound, Shadow
<1>1. CASE Xchg(d, s)
  BY <1>0, <1>1, StoreAt, CommitAt, CommitBelowStore DEF Xchg, xchg
<1>2. CASE Xadd(d, s)
  <2> DEFINE Both(f) == [i \in Lanes(d) |-> At(f, d, i) \cup At(f, s, i)]
             old     == [i \in Lanes(s) |-> At(dep, d, i)]
  <2>1. /\ tag' = Store(Store(tag, d, Both(tag)), s, Both(tag))
        /\ dep' = Commit(Commit(dep, s, old), d, Both(dep))
        /\ Lanes(d) = Lanes(s) /\ d.n = s.n /\ ~IsMem(s)
    BY <1>2 DEF Xadd, xadd
  <2>2. \A i \in Lanes(d) : /\ Both(dep)[i] \subseteq Both(tag)[i]
                            /\ old[i] \subseteq Both(tag)[i]
                            /\ At(dep, d, i) \subseteq Both(tag)[i]
                            /\ At(dep, s, i) \subseteq Both(tag)[i]
    BY <1>0, <2>1
  <2> HIDE DEF Both, old
  <2> DEFINE tag1 == Store(tag, d, Both(tag))
             dep1 == Commit(dep, s, old)
  <2>3. DOMAIN tag1 = Place /\ DOMAIN dep1 = Place
    BY <1>0, StoreAt, CommitAt
  <2>4. SUFFICES ASSUME NEW p \in Place, NEW b \in Bytes(p)
                 PROVE  dep'[p][b] \subseteq tag'[p][b]
    BY DEF Below
  <2>5. tag'[p][b] = IF p = s.at /\ Spans(s, b) THEN Both(tag)[b - s.start]
                     ELSE IF p = d.at /\ Spans(d, b) THEN Both(tag)[b - d.start] ELSE tag[p][b]
    BY <1>0, <2>1, <2>3, StoreAt
  <2>6. \/ dep'[p][b] = {}
        \/ p = d.at /\ Spans(d, b) /\ dep'[p][b] = Both(dep)[b - d.start]
        \/ p = s.at /\ Spans(s, b) /\ dep'[p][b] = old[b - s.start]
        \/ dep'[p][b] = dep[p][b]
    BY <1>0, <2>1, <2>3, CommitAt
  <2>7. p = d.at /\ Spans(d, b) => /\ b - d.start \in Lanes(d)
                                   /\ dep[p][b] = At(dep, d, b - d.start)
    BY ByteLane DEF At
  <2>8. p = s.at /\ Spans(s, b) => /\ b - s.start \in Lanes(d)
                                   /\ dep[p][b] = At(dep, s, b - s.start)
    BY <2>1, ByteLane DEF At
  <2>9. p = d.at /\ Spans(d, b) /\ p = s.at /\ Spans(s, b) => d.start = s.start
    BY <2>1, SameLanes
  <2>10. dep[p][b] \subseteq tag[p][b]
    BY <1>0 DEF Below
  <2>11. CASE p = s.at /\ Spans(s, b)
    BY <2>2, <2>5, <2>6, <2>7, <2>8, <2>9, <2>11
  <2>12. CASE ~(p = s.at /\ Spans(s, b)) /\ p = d.at /\ Spans(d, b)
    BY <2>2, <2>5, <2>6, <2>7, <2>12
  <2>13. CASE ~(p = s.at /\ Spans(s, b)) /\ ~(p = d.at /\ Spans(d, b))
    BY <2>5, <2>6, <2>10, <2>13
  <2> QED BY <2>11, <2>12, <2>13
<1>3. ASSUME NEW equal, Cmpxchg(equal, d, s) PROVE Below(dep', tag')
  <2> DEFINE a    == Reg("rax", d.n)
             Both == [i \in Lanes(d) |-> At(tag, d, i) \cup At(tag, s, i) \cup At(tag, a, i)]
             tag1 == Store(tag, d, Both)
  <2>1. Slice(a) /\ Lanes(a) = Lanes(d) /\ a.at = "rax" /\ Lanes(d) = Lanes(s)
    BY <1>3, RegFacts, RowAssumption DEF Cmpxchg, Lanes, Slice
  <2>2. /\ tag' = Store(tag1, a, Both)
        /\ d.at = "rax" => d = a
        /\ dep' = IF equal THEN Commit(dep, d, [i \in Lanes(d) |-> At(dep, s, i)])
                  ELSE Commit(dep, a, [i \in Lanes(a) |-> At(dep, d, i)])
    BY <1>3 DEF Cmpxchg, cmpxchg, Quiet, Does, CoveredOnly, Covered, BinaryOp
  <2> HIDE DEF a
  <2>3. \A i \in Lanes(d) : /\ At(dep, d, i) \subseteq Both[i]
                            /\ At(dep, s, i) \subseteq Both[i]
                            /\ At(dep, a, i) \subseteq Both[i]
    BY <1>0, <2>1
  <2> HIDE DEF Both
  <2>4. DOMAIN tag1 = Place
    BY <1>0, StoreAt
  <2>5. CASE equal
    <3> DEFINE v == [i \in Lanes(d) |-> At(dep, s, i)]
    <3>1. Below(Commit(dep, d, v), tag1)
      BY <1>0, <2>3, CommitBelowStore
    <3>2. \A i \in Lanes(a) : At(Commit(dep, d, v), a, i) \subseteq Both[i]
      <4>1. CASE d = a
        <5>1. ASSUME NEW i \in Lanes(d) PROVE At(Commit(dep, d, v), d, i) = v[i]
          <6>1. /\ d.at \in Place /\ d.start + i \in Bytes(d.at) /\ Spans(d, d.start + i)
                /\ (d.start + i) - d.start = i
            BY LaneByte DEF Slice, Lanes, Spans
          <6> HIDE DEF v
          <6> QED BY <1>0, <6>1, CommitAt DEF At
        <5> QED BY <2>3, <4>1, <5>1
      <4>2. CASE d.at # a.at
        <5>1. ASSUME NEW i \in Lanes(a) PROVE At(Commit(dep, d, v), a, i) = At(dep, a, i)
          BY <1>0, <2>1, <4>2, LaneByte, CommitAt DEF At
        <5> QED BY <2>1, <2>3, <5>1
      <4> QED BY <2>1, <2>2, <4>1, <4>2
    <3> HIDE DEF v, tag1
    <3>3. Below(Commit(dep, d, v), Store(tag1, a, Both))
      BY <2>1, <2>4, <3>1, <3>2, BelowStore
    <3> QED BY <2>2, <2>5, <3>3 DEF v
  <2>6. CASE ~equal
    <3>1. Below(dep, tag1)
      BY <1>0, <2>3, BelowStore
    <3> HIDE DEF tag1
    <3> QED BY <1>0, <2>1, <2>2, <2>3, <2>4, <2>6, <3>1, CommitBelowStore
  <2> QED BY <2>5, <2>6
<1> QED BY <1>1, <1>2, <1>3

\* One covered instruction.
LEMMA InstructionSound ==
    ASSUME CoveredOnly, Sound, ins_inspect_dr
    PROVE  Below(dep', tag')
<1>1. CASE \E d, s \in Opnd :
          \/ Mov(d, s) \/ Movzx(d, s) \/ Movsx(d, s) \/ Bsf(d, s) \/ Movbe(d, s)
          \/ \E taken \in BOOLEAN : Cmov(taken, d, s)
  BY <1>1, MoveSound
<1>2. CASE \E d, s \in Opnd :
          \/ \E op \in BinaryOp : Binary(op, d, s)
          \/ Imul(d, s) \/ Imul3(d, s) \/ Adc(d, s)
          \/ \E count \in {"imm", "cl"} : Shld(d, s, count)
  BY <1>2, MixSound
<1>3. CASE \E d, s \in Opnd : Push(d, s) \/ Pop(d, s) \/ Movs(d, s)
  BY <1>3, CopySound
<1>4. CASE \E d, s \in Opnd :
          Xchg(d, s) \/ Xadd(d, s) \/ \E equal \in BOOLEAN : Cmpxchg(equal, d, s)
  BY <1>4, ExchangeSound
<1>5. CASE \E d, s \in Opnd : Cmp(d, s) \/ Cmps(d, s)
  BY <1>5 DEF Sound, Cmp, Cmps, Below
<1>6. CASE \E d \in Opnd : MovImm(d) \/ Bswap(d)
  BY <1>6, MoveSound
<1>7. CASE \E d \in Opnd :
          \/ Shift(d) \/ LeaRel(d) \/ \E op \in BinaryOp : BinaryImm(op, d)
          \/ \E base, index \in Row \cup {"none"}, scaled \in BOOLEAN : Lea(d, base, index, scaled)
  BY <1>7, MixSound
<1>8. CASE \E d \in Opnd : Stos(d) \/ Lods(d) \/ Leave(d)
  BY <1>8, CopySound
<1>9. CASE \E d \in Opnd : ImulByte(d) \/ \E op \in {"mul", "div"} : MulDiv(op, d)
  BY <1>9, MulSound
<1>10. CASE \E d \in Opnd : CmpImm(d)
  BY <1>10 DEF Sound, CmpImm, Below
<1>11. CASE \E n \in Width \ {1} : Cwde(n) \/ Cdq(n)
  BY <1>11 DEF Cwde, Cdq, Quiet, Does, CoveredOnly, Covered, BinaryOp
<1> QED BY <1>1, <1>2, <1>3, <1>4, <1>5, <1>6, <1>7, <1>8, <1>9, <1>10, <1>11
        DEF ins_inspect_dr

\* Soundness of the propagation: a program of covered instructions, of any
\* length, on any operands and widths, never leaves a byte without the offset of
\* an input byte it is computed from.
THEOREM NoTagIsLost ==
    ASSUME CoveredOnly
    PROVE  Spec => []NoFalseNegatives
<1>1. Init => NoFalseNegatives
  BY DEF Init, NoFalseNegatives
<1>2. TypeOK /\ NoFalseNegatives /\ [Next]_vars => NoFalseNegatives'
  <2> SUFFICES ASSUME TypeOK, NoFalseNegatives, [Next]_vars
               PROVE  NoFalseNegatives'
    OBVIOUS
  <2>1. CASE ins_inspect_dr
    <3>1. Sound
      BY TypeIsShadow DEF Sound, NoFalseNegatives, Below
    <3> QED BY <2>1, <3>1, InstructionSound DEF NoFalseNegatives, Below
  <2>2. CASE UNCHANGED vars
    BY <2>2 DEF NoFalseNegatives, vars
  <2> QED BY <2>1, <2>2 DEF Next, Ended
<1> QED BY <1>1, <1>2, TypeCorrect, PTL DEF Spec

-----------------------------------------------------------------------------
(* Reports *)

\* What a record must show of the operands it is about; cut says that a record
\* with a byte over the limit may be left out.
Reported(record, cut) ==
    \A k \in DOMAIN record.opnds : \A i \in Lanes(record.opnds[k]) :
        At(dep, record.opnds[k], i) # {} =>
           \/ /\ k \in DOMAIN record.fields
              /\ At(dep, record.opnds[k], i) \subseteq record.fields[k][i]
           \/ cut /\ OverLimit(record)

\* There are finitely many offsets.
LEMMA OffsetsFinite == IsFiniteSet(Offset)
<1>1. IsFiniteSet(Place)
  BY RowAssumption, FS_AddElement DEF Place
<1>2. IsFiniteSet(0 .. MEM_BYTES - 1)
  BY SizeAssumption, FS_Interval
<1>3. Offset = Place \X (0 .. MEM_BYTES - 1)
  BY DEF Offset
<1> QED BY <1>1, <1>2, <1>3, FS_Product

\* A set of offsets has a number of tokens, which is that of its offsets unless
\* it is empty.
LEMMA TokenFacts ==
    ASSUME NEW s \in SUBSET Offset
    PROVE  /\ comma_tokens(s) \in Nat
           /\ s # {} => Cardinality(s) = comma_tokens(s) /\ 0 < Cardinality(s)
<1>1. IsFiniteSet(s)
  BY OffsetsFinite, FS_Subset
<1>2. Cardinality(s) \in Nat /\ (Cardinality(s) = 0 <=> s = {})
  BY <1>1, FS_CardinalityType, FS_EmptySet
<1> QED BY <1>2 DEF comma_tokens

\* A record is emitted with the tags of all bytes, unless one of them is over the
\* limit: to a sink every record with a tainted byte, by the legacy writer and by
\* cmp_m2m those within the limit.
LEMMA RecordReports ==
    ASSUME Sound, NEW os, \A k \in DOMAIN os : Slice(os[k]), NEW capped \in BOOLEAN
    PROVE  Reported(Record(os, capped), ~HasSink \/ capped)
<1> DEFINE fields == [k \in DOMAIN os |-> Field(os[k])]
           record == Record(os, capped)
<1>0. record.opnds = os /\ Shadow(tag)
  BY DEF Record, Sound
<1> SUFFICES ASSUME NEW k \in DOMAIN os, NEW i \in Lanes(os[k]), At(dep, os[k], i) # {},
                    ~((~HasSink \/ capped) /\ OverLimit(record))
             PROVE  k \in DOMAIN record.fields /\ At(dep, os[k], i) \subseteq record.fields[k][i]
  BY <1>0, Zenon DEF Reported
<1>1. At(dep, os[k], i) \subseteq At(tag, os[k], i)
  BY BelowAt DEF Sound
<1>2. \A x \in DOMAIN os : /\ DOMAIN fields[x] = Lanes(os[x])
                           /\ \A j \in Lanes(os[x]) : fields[x][j] = At(tag, os[x], j)
  BY DEF Field
<1>3. \A x \in DOMAIN os : \A j \in Lanes(os[x]) : At(tag, os[x], j) \in SUBSET Offset
  BY <1>0, AtType
<1>4. ~HasSink \/ capped => \A x \in DOMAIN os : \A j \in Lanes(os[x]) :
                               comma_tokens(At(tag, os[x], j)) <= limit_offset
  BY <1>0, <1>3, TokenFacts, OptionAssumption DEF OverLimit
<1> HIDE DEF record
<1>5. Passes(fields)
  BY <1>2, <1>4 DEF Passes
<1>6. At(tag, os[k], i) # {} /\ At(tag, os[k], i) \in SUBSET Offset
  BY <1>1, <1>3
<1>7. IF capped THEN InLimit(fields[k][i]) ELSE tag_count(fields[k][i])
  BY <1>2, <1>4, <1>6, TokenFacts DEF InLimit, tag_count
<1>8. record.fields = fields
  <2>1. i \in DOMAIN fields[k]
    BY <1>2
  <2> QED BY <1>5, <1>7, <2>1 DEF Record, record
<1> QED BY <1>1, <1>2, <1>8

\* An instruction that is no sink has nothing to report.
LEMMA QuietReports ==
    ASSUME NEW op, NEW reads, NEW writes, Quiet(op, reads, writes), NEW cut
    PROVE  Reported(last'.record, cut)
BY DEF Quiet, Does, NoRecord, Reported

\* What one instruction must report.
StepReports == Reported(last'.record, ~HasSink \/ last'.op = "cmps")

\* A sink reports what its record shows.
LEMMA SinkReports ==
    ASSUME Sound, NEW os, \A k \in DOMAIN os : Slice(os[k]), NEW capped \in BOOLEAN,
           NEW op, NEW reads, NEW writes, Does(op, reads, writes, Record(os, capped)),
           capped => op = "cmps"
    PROVE  StepReports
<1>1. Reported(Record(os, capped), ~HasSink \/ capped)
  BY RecordReports
<1>2. last'.record = Record(os, capped) /\ last'.op = op
  BY DEF Does
<1> QED BY <1>1, <1>2, Zenon DEF StepReports, Reported

\* One instruction reports what its operands are computed from.
LEMMA InstructionReports ==
    ASSUME Sound, ins_inspect_dr
    PROVE  StepReports
<1>1. ASSUME NEW d, NEW s,
             \/ Mov(d, s) \/ Movzx(d, s) \/ Movsx(d, s) \/ Bsf(d, s) \/ Movbe(d, s)
             \/ Imul(d, s) \/ Imul3(d, s) \/ Adc(d, s) \/ Push(d, s) \/ Pop(d, s) \/ Movs(d, s)
             \/ Xchg(d, s) \/ Xadd(d, s)
      PROVE  StepReports
  BY <1>1, QuietReports DEF StepReports, Mov, Movzx, Movsx, Bsf, Movbe, Imul, Imul3, Adc, Push,
              Pop, Movs, Xchg, Xadd
<1>2. ASSUME NEW d, NEW s, NEW x,
             \/ Binary(x, d, s) \/ Cmov(x, d, s) \/ Cmpxchg(x, d, s) \/ Shld(d, s, x)
             \/ BinaryImm(x, d) \/ MulDiv(x, d)
      PROVE  StepReports
  BY <1>2, QuietReports DEF StepReports, Binary, Cmov, Cmpxchg, Shld, BinaryImm, MulDiv
<1>3. ASSUME NEW d,
             \/ MovImm(d) \/ Shift(d) \/ Bswap(d) \/ Stos(d) \/ Lods(d) \/ LeaRel(d)
             \/ ImulByte(d) \/ Leave(d) \/ Cwde(d) \/ Cdq(d)
      PROVE  StepReports
  BY <1>3, QuietReports DEF StepReports, MovImm, Shift, Bswap, Stos, Lods, LeaRel, ImulByte,
              Leave, Cwde, Cdq
<1>4. ASSUME NEW d \in Opnd, NEW s \in Opnd, Cmp(d, s) \/ Cmps(d, s) PROVE StepReports
  <2>1. \A k \in DOMAIN <<d, s>> : Slice(<<d, s>>[k])
    BY OpndFacts
  <2>2. CASE Cmp(d, s)     BY <2>1, <2>2, SinkReports DEF Cmp
  <2>3. CASE Cmps(d, s)    BY <2>1, <2>3, SinkReports DEF Cmps
  <2> QED BY <1>4, <2>2, <2>3
<1>5. ASSUME NEW d \in Opnd, CmpImm(d) PROVE StepReports
  <2>1. \A k \in DOMAIN <<d>> : Slice(<<d>>[k])
    BY OpndFacts
  <2> QED BY <1>5, <2>1, SinkReports DEF CmpImm
<1>6. ASSUME NEW d \in Opnd, NEW base \in Row \cup {"none"}, NEW index \in Row \cup {"none"},
             NEW scaled, Lea(d, base, index, scaled)
      PROVE  StepReports
  <2> DEFINE shown == IF index = "none" THEN <<>> ELSE <<Reg(index, d.n)>>
  <2>1. \A k \in DOMAIN shown : Slice(shown[k])
    BY OpndFacts, RegFacts DEF Slice
  <2>2. PICK op, reads : Does(op, reads, {d}, Record(shown, FALSE))
    BY <1>6 DEF Lea
  <2> HIDE DEF shown
  <2> QED BY <2>1, <2>2, SinkReports
<1> QED BY <1>1, <1>2, <1>3, <1>4, <1>5, <1>6 DEF ins_inspect_dr

\* In every program of covered instructions, CMP, CMPS and LEA report for every
\* byte of their operands the input bytes it is computed from; the legacy writer
\* and CMPS leave out only records with a byte over the limit.
THEOREM SinksReportInputs ==
    ASSUME CoveredOnly
    PROVE  Spec => InputsReported
<1>1. TypeOK /\ NoFalseNegatives /\ [Next]_vars => [StepReports]_vars
  <2> SUFFICES ASSUME TypeOK, NoFalseNegatives, ins_inspect_dr
               PROVE  StepReports
    BY DEF Next, Ended
  <2>1. Sound
    BY TypeIsShadow DEF Sound, NoFalseNegatives, Below
  <2> QED BY <2>1, InstructionReports
<1> QED BY <1>1, TypeCorrect, NoTagIsLost, PTL
        DEF Spec, InputsReported, StepReports, Reported
=============================================================================
