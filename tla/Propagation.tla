---------------------------- MODULE Propagation ----------------------------
(***************************************************************************)
(* The opcode router of libdft_core_dr.cpp and its propagation handlers:   *)
(* what every instruction does to the shadow bytes of its operands, and    *)
(* what the CMP and LEA sinks report.                                      *)
(*                                                                         *)
(* tag is what the engine keeps: the rows of gpr_file and, as one more row *)
(* "mem", the shadow memory.  dep is what it is about, and external: the   *)
(* input bytes every byte of the machine is computed from, as the x86-64   *)
(* instruction moves and mixes bytes.  Flow through addresses, through the *)
(* flags and through the carries of a sum is not flow; a product, a        *)
(* quotient and a shifted value are computed from all the bytes they need. *)
(* Both are sets of offsets, which is what tag_t ids stand for (TagMap).   *)
(*                                                                         *)
(* A step is one instruction: its clean calls, which run before it, and    *)
(* its effect on the machine.  The widths are scaled: REG_BYTES stands for *)
(* the 8 bytes of a register, DWORD for the 4 whose write clears the rest. *)
(***************************************************************************)
EXTENDS Integers, FiniteSets

CONSTANTS
    Row,            \* the registers of gpr_file the program uses
    REG_BYTES,      \* shadow bytes of a row
    DWORD,          \* width of the register writes that zero the upper bytes
    MEM_BYTES,      \* bytes of memory
    Width,          \* the operand widths the program uses
    Op,             \* the instructions the program uses
    limit_offset,   \* init_options_t::max_offset_per_byte
    HasSink,        \* is a sink registered, or is the legacy writer in use?
    MaxSteps        \* length of the program

ASSUME SizeAssumption ==
    /\ REG_BYTES \in Nat /\ DWORD \in Nat /\ 1 < DWORD /\ DWORD < REG_BYTES
    /\ MEM_BYTES \in Nat /\ REG_BYTES <= MEM_BYTES
    /\ Width \subseteq {1, DWORD, REG_BYTES}

ASSUME RowAssumption ==
    /\ IsFiniteSet(Row) /\ {"rax", "rdx"} \subseteq Row
    /\ "mem" \notin Row /\ "none" \notin Row

ASSUME OptionAssumption ==
    limit_offset \in Nat /\ HasSink \in BOOLEAN /\ MaxSteps \in Nat

VARIABLES
    tag,            \* place -> byte -> offsets: gpr_file and the shadow memory
    dep,            \* external: place -> byte -> offsets
    last,           \* the last instruction: its operands and what it reported
    steps           \* instructions executed

vars == <<tag, dep, last, steps>>

Place == Row \cup {"mem"}

Size(p) == IF p = "mem" THEN MEM_BYTES ELSE REG_BYTES

Bytes(p) == 0 .. Size(p) - 1

\* An input offset is named by the byte it is first loaded into.
Offset == {<<p, b>> : p \in Place, b \in 0 .. MEM_BYTES - 1}

-----------------------------------------------------------------------------
(* Operands *)

Mem(a, n) == [at |-> "mem", start |-> a, n |-> n]

Reg(r, n) == [at |-> r, start |-> 0, n |-> n]

\* The registers with a high-byte name (AH, BH, CH, DH).
Legacy == Row \cap {"rax", "rbx", "rcx", "rdx"}

\* reg_shadow_span: row, first byte and number of bytes of a register operand.
RegOpnd ==
    {Reg(r, n) : r \in Row, n \in Width}
    \cup {[at |-> r, start |-> 1, n |-> n] : r \in Legacy, n \in Width \cap {1}}

MemOpnd == {Mem(a, n) : a \in 0 .. MEM_BYTES - 1, n \in Width}

Inside(o) == o.start + o.n <= Size(o.at)

Opnd == {o \in RegOpnd \cup MemOpnd : Inside(o)}

IsMem(o) == o.at = "mem"

At(f, o, i) == f[o.at][o.start + i]

Spans(o, b) == o.start <= b /\ b < o.start + o.n

\* Two memory operands that overlap without being the same.
Overlap(d, s) == IsMem(d) /\ IsMem(s) /\ d # s /\ \E b \in Bytes("mem") : Spans(d, b) /\ Spans(s, b)

Lanes(o) == 0 .. o.n - 1

AllOf(f, o) == UNION {At(f, o, i) : i \in Lanes(o)}

\* What byte i of a product needs of a factor.
Lower(f, o, i) == UNION {At(f, o, j) : j \in 0 .. i}

\* f with the bytes of o replaced by v[0], v[1], ...
Store(f, o, v) ==
    [f EXCEPT ![o.at] = [b \in Bytes(o.at) |->
        IF Spans(o, b) THEN v[b - o.start] ELSE f[o.at][b]]]

\* The same as the machine does it: writing DWORD bytes of a register clears
\* the bytes above them.
Commit(f, o, v) ==
    [f EXCEPT ![o.at] = [b \in Bytes(o.at) |->
        IF Spans(o, b) THEN v[b - o.start]
        ELSE IF o.at # "mem" /\ o.n = DWORD THEN {} ELSE f[o.at][b]]]

-----------------------------------------------------------------------------
(* Handlers: the new value of tag *)

\* r2r_xfer, mov_m2r and mov_r2m; no two spans of one instruction overlap there
\* unless they are the same.
xfer(d, s) == Store(tag, d, [i \in Lanes(d) |-> At(tag, s, i)])

\* r_clr and mov_clr_mem.
clr(d) == Store(tag, d, [i \in Lanes(d) |-> {}])

\* Fault: the source is read whole before the first byte is written.
m2m_xfer_snapshot(d, s) == Store(tag, d, [i \in Lanes(d) |-> At(tag, s, i)])

\* m2m_xfer copies byte by byte: when the destination begins inside the source,
\* the first bytes of the source are repeated.
m2m_xfer(d, s) ==
    LET gap == d.start - s.start
    IN  Store(tag, d, [i \in Lanes(d) |->
            At(tag, s, IF 0 < gap /\ gap < d.n THEN i % gap ELSE i)])

\* ternary_combine: the operand into RDX and RAX over the width, or into AX.
ternary_combine(s) ==
    IF s.n = 1
    THEN Store(tag, Reg("rax", 2), [i \in 0 .. 1 |-> tag["rax"][i] \cup At(tag, s, 0)])
    ELSE [r \in Place |->
             IF r \notin {"rax", "rdx"} THEN tag[r]
             ELSE [b \in Bytes(r) |-> IF b < s.n THEN tag[r][b] \cup At(tag, s, b)
                                      ELSE tag[r][b]]]

\* xchg_r2r and xchg_m2r.
xchg(a, b) ==
    Store(Store(tag, a, [i \in Lanes(a) |-> At(tag, b, i)]), b, [i \in Lanes(b) |-> At(tag, a, i)])

\* Fault: the destination is overwritten.
binary_overwrites(d, s) == Store(tag, d, [i \in Lanes(d) |-> At(tag, s, i)])

\* binary_r2r, binary_m2r and binary_r2m.
binary(d, s) == Store(tag, d, [i \in Lanes(d) |-> At(tag, d, i) \cup At(tag, s, i)])

\* Fault: the extension is not cleared.
movzx_stale(d, s) ==
    Store(tag, d, [i \in Lanes(d) |-> IF i < s.n THEN At(tag, s, i) ELSE At(tag, d, i)])

movzx(d, s) == Store(tag, d, [i \in Lanes(d) |-> IF i < s.n THEN At(tag, s, i) ELSE {}])

movsx(d, s) == Store(tag, d, [i \in Lanes(d) |-> At(tag, s, IF i < s.n THEN i ELSE s.n - 1)])

\* A base or an index that is absent is the spare row, which is always clear.
AddrTag(f, r, i) == IF r = "none" THEN {} ELSE f[r][i]

lea_prop(d, base, index) ==
    Store(tag, d, [i \in Lanes(d) |-> AddrTag(tag, base, i) \cup AddrTag(tag, index, i)])

\* cmov_r2r and cmov_m2r: the predicate is evaluated when the call runs, before
\* the instruction, on the flags the instruction will see.
cmov(taken, d, s) == IF taken THEN xfer(d, s) ELSE tag

\* shift_r and shift_m coarsen: every byte gets the tags of all.
shift(d) == Store(tag, d, [i \in Lanes(d) |-> AllOf(tag, d)])

\* shld_r2r over n bytes of both registers.
shld_r2r(d, s, n) ==
    LET D == [d EXCEPT !.n = n]
        S == [s EXCEPT !.n = n]
    IN  Store(tag, D, [i \in Lanes(D) |-> AllOf(tag, D) \cup AllOf(tag, S)])

bswap_reg(d) == Store(tag, d, [i \in Lanes(d) |-> At(tag, d, d.n - 1 - i)])

\* movbe_m2r and movbe_r2m.
movbe(d, s) == Store(tag, d, [i \in Lanes(d) |-> At(tag, s, d.n - 1 - i)])

\* cmpxchg_mem and cmpxchg_reg.
cmpxchg(d, s, a) ==
    LET Both == [i \in Lanes(d) |-> At(tag, d, i) \cup At(tag, s, i) \cup At(tag, a, i)]
    IN  Store(Store(tag, d, Both), a, Both)

\* xadd_r2r and xadd_m2r.
xadd(d, s) ==
    LET Both == [i \in Lanes(d) |-> At(tag, d, i) \cup At(tag, s, i)]
    IN  Store(Store(tag, d, Both), s, Both)

-----------------------------------------------------------------------------
(* Reports *)

\* What a record shows of an operand: the tags of its bytes.
Field(o) == [i \in Lanes(o) |-> At(tag, o, i)]

\* The tokens of a printed tag: the empty set also prints as one.
comma_tokens(s) == IF s = {} THEN 1 ELSE Cardinality(s)

\* Fault: a byte with exactly the allowed number of offsets drops the line.
Passes_below(fields) ==
    HasSink \/ \A k \in DOMAIN fields : \A i \in DOMAIN fields[k] :
                  comma_tokens(fields[k][i]) < limit_offset

\* emit_cmp and emit_lea: a registered sink gets everything, the legacy writer
\* drops a line when one byte has too many offsets.
Passes(fields) ==
    HasSink \/ \A k \in DOMAIN fields : \A i \in DOMAIN fields[k] :
                  comma_tokens(fields[k][i]) <= limit_offset

tag_count(s) == s # {}

\* cmp_m2m only counts bytes with at most limit_offset offsets.
InLimit(s) == 0 < Cardinality(s) /\ Cardinality(s) <= limit_offset

\* The record of the operands os; nothing is emitted when no byte counts as
\* tainted.  capped is TRUE for cmp_m2m.
Record(os, capped) ==
    LET fields == [k \in DOMAIN os |-> Field(os[k])]
        Counts(s) == IF capped THEN InLimit(s) ELSE tag_count(s)
    IN  [opnds  |-> os,
         fields |-> IF /\ \E k \in DOMAIN os : \E i \in DOMAIN fields[k] : Counts(fields[k][i])
                       /\ Passes(fields)
                    THEN fields ELSE <<>>]

\* An instruction that is no sink.
NoRecord == [opnds |-> <<>>, fields |-> <<>>]

-----------------------------------------------------------------------------
(* Steps *)

\* One instruction, with the operands it reads and the ones it writes.
Does(op, reads, writes, record) ==
    /\ op \in Op
    /\ steps' = steps + 1
    /\ last' = [op |-> op, reads |-> reads, writes |-> writes, record |-> record]

Quiet(op, reads, writes) == Does(op, reads, writes, NoRecord)

\* Op tells apart the operands the handlers treat differently.
Shape(op, d, s) ==
    IF Overlap(d, s) THEN "overlap"
    ELSE IF "rsp" \in {d.at, s.at} THEN "stack_pointer" ELSE op

\* OP_mov_ld and OP_mov_st between registers and memory.
Mov(d, s) ==
    /\ d.n = s.n /\ ~(IsMem(d) /\ IsMem(s))
    /\ Quiet("mov", {s}, {d})
    /\ tag' = xfer(d, s)
    /\ dep' = Commit(dep, d, [i \in Lanes(d) |-> At(dep, s, i)])

\* OP_mov_imm, and OP_mov_st of an immediate.
MovImm(d) ==
    /\ Quiet("mov_imm", {}, {d})
    /\ tag' = clr(d)
    /\ dep' = Commit(dep, d, [i \in Lanes(d) |-> {}])

Zeroing == {"xor", "sub", "sbb"}

\* insert_binary.  The result of a zeroing idiom depends on nothing.
Binary(op, d, s) ==
    /\ d.n = s.n /\ ~(IsMem(d) /\ IsMem(s))
    /\ Quiet(op, {s, d}, {d})
    /\ IF op \in Zeroing /\ d = s
       THEN tag' = clr(d) /\ dep' = Commit(dep, d, [i \in Lanes(d) |-> {}])
       ELSE /\ tag' = binary(d, s)
            /\ dep' = Commit(dep, d, [i \in Lanes(d) |-> At(dep, d, i) \cup At(dep, s, i)])

\* insert_binary with an immediate inserts nothing.
BinaryImm(op, d) ==
    /\ Quiet(op, {d}, {d})
    /\ tag' = tag
    /\ dep' = Commit(dep, d, [i \in Lanes(d) |-> At(dep, d, i)])

\* IMUL with two operands is left to insert_binary, which unites byte by byte.
Imul(d, s) ==
    /\ ~IsMem(d) /\ d.n = s.n /\ d.n > 1
    /\ Quiet("imul", {s, d}, {d})
    /\ tag' = binary(d, s)
    /\ dep' = Commit(dep, d, [i \in Lanes(d) |-> Lower(dep, d, i) \cup Lower(dep, s, i)])

\* IMUL with three operands is approximated by insert_binary, which finds only
\* the immediate when source and destination are the same register.
Imul3(d, s) ==
    /\ ~IsMem(d) /\ d.n = s.n /\ d.n > 1
    /\ Quiet("imul3", {s, d}, {d})
    /\ tag' = IF d = s THEN tag ELSE binary(d, s)
    /\ dep' = Commit(dep, d, [i \in Lanes(d) |-> Lower(dep, s, i)])

\* ADC is not in the router: the default inserts nothing.
Adc(d, s) ==
    /\ d.n = s.n /\ ~(IsMem(d) /\ IsMem(s))
    /\ Quiet("adc", {s, d}, {d})
    /\ tag' = tag
    /\ dep' = Commit(dep, d, [i \in Lanes(d) |-> At(dep, d, i) \cup At(dep, s, i)])

\* insert_extend: MOVZX, and MOVSX and MOVSXD, whose extension bytes all depend
\* on the top byte of the source.
Movzx(d, s) ==
    /\ ~IsMem(d) /\ s.n < d.n
    /\ Quiet("movzx", {s}, {d})
    /\ tag' = movzx(d, s)
    /\ dep' = Commit(dep, d, [i \in Lanes(d) |-> IF i < s.n THEN At(dep, s, i) ELSE {}])

Movsx(d, s) ==
    /\ ~IsMem(d) /\ s.n < d.n
    /\ Quiet("movsx", {s}, {d})
    /\ tag' = movsx(d, s)
    /\ dep' = Commit(dep, d, [i \in Lanes(d) |-> At(dep, s, IF i < s.n THEN i ELSE s.n - 1)])

\* What byte i of an address gets from a base or an index; scaling moves the top
\* bits of a byte into the next one.
Term(r, i, scaled) ==
    AddrTag(dep, r, i) \cup (IF scaled /\ i > 0 THEN AddrTag(dep, r, i - 1) ELSE {})

\* insert_lea; only the index is reported.
Lea(d, base, index, scaled) ==
    /\ ~IsMem(d) /\ d.n > 1
    /\ LET AddrOpnd(r) == IF r = "none" THEN {} ELSE {Reg(r, d.n)}
           shown == IF index = "none" THEN <<>> ELSE <<Reg(index, d.n)>>
       IN  Does(IF scaled THEN "lea_scaled" ELSE "lea",
                AddrOpnd(base) \cup AddrOpnd(index), {d}, Record(shown, FALSE))
    /\ tag' = lea_prop(d, base, index)
    /\ dep' = Commit(dep, d, [i \in Lanes(d) |-> Term(base, i, FALSE) \cup Term(index, i, scaled)])

\* insert_lea returns when the address is not of the form base + index + offset,
\* as one relative to RIP is: the destination keeps the tags of its old value.
LeaRel(d) ==
    /\ ~IsMem(d) /\ d.n > 1
    /\ Quiet("lea_rel", {}, {d})
    /\ tag' = tag
    /\ dep' = Commit(dep, d, [i \in Lanes(d) |-> {}])

\* insert_push: a register into the stack slot, unless it is the stack pointer;
\* an immediate; or memory.
Push(slot, s) ==
    /\ IsMem(slot) /\ slot.n = REG_BYTES /\ s.n = REG_BYTES
    /\ Quiet(Shape("push", slot, s), {s}, {slot})
    /\ tag' = IF IsMem(s) THEN m2m_xfer(slot, s)
              ELSE IF s.at = "rsp" THEN tag ELSE xfer(slot, s)
    /\ dep' = Commit(dep, slot, [i \in Lanes(slot) |-> At(dep, s, i)])

\* insert_pop.
Pop(d, slot) ==
    /\ IsMem(slot) /\ slot.n = REG_BYTES /\ d.n = REG_BYTES
    /\ Quiet(Shape("pop", d, slot), {slot}, {d})
    /\ tag' = IF IsMem(d) THEN m2m_xfer(d, slot)
              ELSE IF d.at = "rsp" THEN tag ELSE xfer(d, slot)
    /\ dep' = Commit(dep, d, [i \in Lanes(d) |-> At(dep, slot, i)])

\* insert_leave: RSP from RBP, then RBP from the slot RBP points to.
Leave(slot) ==
    LET rsp == Reg("rsp", REG_BYTES)
        rbp == Reg("rbp", REG_BYTES)
        Both(f) == Store(Store(f, rsp, [i \in Lanes(rsp) |-> At(f, rbp, i)]),
                         rbp, [i \in Lanes(rbp) |-> At(f, slot, i)])
    IN  /\ {"rsp", "rbp"} \subseteq Row
        /\ IsMem(slot) /\ slot.n = REG_BYTES
        /\ Quiet("leave", {rbp, slot}, {rsp, rbp})
        /\ tag' = Both(tag)
        /\ dep' = Both(dep)

\* insert_xfer: BSF and BSR as a move.  The number of the bit depends on all
\* bytes of the source and fits into one.
Bsf(d, s) ==
    /\ ~IsMem(d) /\ d.n = s.n /\ d.n > 1
    /\ Quiet("bsf", {s}, {d})
    /\ tag' = xfer(d, s)
    /\ dep' = Commit(dep, d, [i \in Lanes(d) |-> IF i = 0 THEN AllOf(dep, s) ELSE {}])

\* insert_cwde_family: the lower half of the accumulator is copied to the upper
\* half, whose bytes all depend on the top byte of the lower one.
Cwde(n) ==
    LET half == n \div 2
        low  == Reg("rax", half)
        high == [at |-> "rax", start |-> half, n |-> n - half]
    IN  /\ Quiet("cwde", {low}, {Reg("rax", n)})
        /\ tag' = xfer(high, low)
        /\ dep' = Commit(dep, Reg("rax", n), [i \in 0 .. n - 1 |->
                         At(dep, low, IF i < half THEN i ELSE half - 1)])

\* insert_cdq_family: RDX is filled with the sign of the accumulator.
Cdq(n) ==
    /\ Quiet("cdq", {Reg("rax", n)}, {Reg("rdx", n)})
    /\ tag' = xfer(Reg("rdx", n), Reg("rax", n))
    /\ dep' = Commit(dep, Reg("rdx", n), [i \in 0 .. n - 1 |-> dep["rax"][n - 1]])

\* insert_muldiv, and IMUL with one operand of more than a byte.
\* find_explicit_operand passes over RAX and RDX also where they are the explicit
\* operand.  The machine multiplies RAX by the operand, or divides RDX:RAX by it,
\* into RAX and RDX; for a byte AL, or AX, into AX.  The upper half of a product,
\* a quotient and a remainder need every byte of what goes in.
MulDiv(op, s) ==
    LET ax    == Reg("rax", IF s.n = 1 THEN 2 ELSE s.n)
        dx    == Reg("rdx", s.n)
        acc   == IF s.n = 1 THEN {ax} ELSE {ax, dx}
        reads == {s} \cup IF op = "mul" THEN {Reg("rax", s.n)} ELSE acc
        all   == UNION {AllOf(dep, o) : o \in reads}
        Low(i) == IF op = "mul" THEN Lower(dep, ax, i) \cup Lower(dep, s, i) ELSE all
    IN  /\ Quiet(IF s.at \in {"rax", "rdx"} THEN "mul_acc" ELSE op, reads, acc)
        /\ tag' = IF s.at \in {"rax", "rdx"} THEN tag ELSE ternary_combine(s)
        /\ dep' = IF s.n = 1 THEN Store(dep, ax, [i \in Lanes(ax) |-> all])
                  ELSE Commit(Commit(dep, ax, [i \in Lanes(ax) |-> Low(i)]),
                              dx, [i \in Lanes(dx) |-> all])

\* IMUL with one operand of a byte has AX and not RDX for its destination, and
\* insert_imul hands it to insert_binary: over one byte when the operand is a
\* register, over the two bytes of AX when it is memory.
ImulByte(s) ==
    LET ax == Reg("rax", 2)
        al == Reg("rax", 1)
    IN  /\ s.n = 1 /\ s.start + 2 <= Size(s.at)
        /\ Quiet(IF IsMem(s) THEN "imul_byte_mem" ELSE "imul_byte", {s, al}, {ax})
        /\ tag' = binary(IF IsMem(s) THEN ax ELSE al, s)
        /\ dep' = Store(dep, ax, [i \in Lanes(ax) |-> dep["rax"][0] \cup At(dep, s, 0)])

\* insert_xchg.
Xchg(a, b) ==
    /\ a.n = b.n /\ ~IsMem(b)
    /\ Quiet("xchg", {a, b}, {a, b})
    /\ tag' = xchg(a, b)
    /\ dep' = Commit(Commit(dep, a, [i \in Lanes(a) |-> At(dep, b, i)]),
                     b, [i \in Lanes(b) |-> At(dep, a, i)])

\* insert_cmov; taken is the predicate.
Cmov(taken, d, s) ==
    /\ ~IsMem(d) /\ d.n = s.n /\ d.n > 1
    /\ Quiet("cmov", {s}, {d})
    /\ tag' = cmov(taken, d, s)
    /\ dep' = Commit(dep, d, [i \in Lanes(d) |-> At(dep, IF taken THEN s ELSE d, i)])

\* insert_shift: a shifted byte may come from any byte.
Shift(d) ==
    /\ Quiet("shift", {d}, {d})
    /\ tag' = shift(d)
    /\ dep' = Commit(dep, d, [i \in Lanes(d) |-> AllOf(dep, d)])

\* insert_shld_shrd takes the first register source that is not the destination
\* for the one to shift in: that is CL when the two are the same register.  It
\* returns when the destination is memory.
Shld(d, s, count) ==
    /\ ~IsMem(s) /\ d.n = s.n /\ d.n > 1
    /\ count = "cl" => "rcx" \in Row
    /\ Quiet(IF IsMem(d) THEN "shld_mem"
             ELSE IF s = d /\ count = "cl" THEN "shld_self_cl" ELSE "shld", {d, s}, {d})
    /\ tag' = IF IsMem(d) THEN tag
              ELSE IF s # d THEN shld_r2r(d, s, d.n)
              ELSE IF count = "cl" THEN shld_r2r(d, Reg("rcx", 1), 1)
              ELSE shift(d)
    /\ dep' = Commit(dep, d, [i \in Lanes(d) |-> AllOf(dep, d) \cup AllOf(dep, s)])

Bswap(d) ==
    /\ ~IsMem(d) /\ d.n > 1
    /\ Quiet("bswap", {d}, {d})
    /\ tag' = bswap_reg(d)
    /\ dep' = Commit(dep, d, [i \in Lanes(d) |-> At(dep, d, d.n - 1 - i)])

Movbe(d, s) ==
    /\ d.n = s.n /\ d.n > 1 /\ IsMem(d) # IsMem(s)
    /\ Quiet("movbe", {s}, {d})
    /\ tag' = movbe(d, s)
    /\ dep' = Commit(dep, d, [i \in Lanes(d) |-> At(dep, s, d.n - 1 - i)])

\* insert_cmpxchg finds no source register when it is the accumulator or the
\* destination, and takes AH for the accumulator when that is the destination.
\* equal says whether the exchange takes place.
Cmpxchg(equal, d, s) ==
    LET a     == Reg("rax", d.n)
        found == IF d.at = "rax" THEN d ELSE a
        lost  == s.at = "rax" \/ s = d
    IN  /\ d.n = s.n /\ ~IsMem(s)
        /\ Quiet(IF lost \/ found # a THEN "cmpxchg_alias" ELSE "cmpxchg", {d, s, a}, {d, a})
        /\ tag' = IF lost THEN tag ELSE cmpxchg(d, s, found)
        /\ dep' = IF equal THEN Commit(dep, d, [i \in Lanes(d) |-> At(dep, s, i)])
                  ELSE Commit(dep, a, [i \in Lanes(a) |-> At(dep, d, i)])

Xadd(d, s) ==
    /\ d.n = s.n /\ ~IsMem(s)
    /\ Quiet("xadd", {d, s}, {d, s})
    /\ tag' = xadd(d, s)
    /\ dep' = Commit(Commit(dep, s, [i \in Lanes(s) |-> At(dep, d, i)]),
                     d, [i \in Lanes(d) |-> At(dep, d, i) \cup At(dep, s, i)])

\* insert_movs, insert_stos and insert_lods, one element.
Movs(d, s) ==
    /\ IsMem(d) /\ IsMem(s) /\ d.n = s.n
    /\ Quiet(Shape("movs", d, s), {s}, {d})
    /\ tag' = m2m_xfer(d, s)
    /\ dep' = Commit(dep, d, [i \in Lanes(d) |-> At(dep, s, i)])

Stos(d) ==
    /\ IsMem(d)
    /\ Quiet("stos", {Reg("rax", d.n)}, {d})
    /\ tag' = xfer(d, Reg("rax", d.n))
    /\ dep' = Commit(dep, d, [i \in Lanes(d) |-> dep["rax"][i]])

Lods(s) ==
    /\ IsMem(s)
    /\ Quiet("lods", {s}, {Reg("rax", s.n)})
    /\ tag' = xfer(Reg("rax", s.n), s)
    /\ dep' = Commit(dep, Reg("rax", s.n), [i \in Lanes(s) |-> At(dep, s, i)])

\* insert_cmp: cmp_r2r, cmp_m2r and cmp_r2m.
Cmp(d, s) ==
    /\ d.n = s.n /\ ~(IsMem(d) /\ IsMem(s))
    /\ Does("cmp", {d, s}, {}, Record(<<d, s>>, FALSE))
    /\ UNCHANGED <<tag, dep>>

\* cmp_i2r and cmp_i2m.
CmpImm(d) ==
    /\ Does("cmp", {d}, {}, Record(<<d>>, FALSE))
    /\ UNCHANGED <<tag, dep>>

\* insert_cmps: cmp_m2m.
Cmps(d, s) ==
    /\ IsMem(d) /\ IsMem(s) /\ d.n = s.n
    /\ Does("cmps", {d, s}, {}, Record(<<d, s>>, TRUE))
    /\ UNCHANGED <<tag, dep>>
-----------------------------------------------------------------------------

\* The program has read as many bytes of the input as there are bytes here, and
\* loaded them into registers and memory.
Init ==
    /\ tag = [p \in Place |-> [b \in Bytes(p) |-> {<<p, b>>}]]
    /\ dep = tag
    /\ last = [op |-> "none", reads |-> {}, writes |-> {}, record |-> NoRecord]
    /\ steps = 0

BinaryOp == {"add", "and", "or", "xor", "sub", "sbb"}

\* The program has ended.
Ended == steps = MaxSteps /\ UNCHANGED vars

\* ins_inspect_dr: the instruction decides which of these it is.
ins_inspect_dr ==
    \/ \E d, s \in Opnd :
          \/ Mov(d, s)
          \/ \E op \in BinaryOp : Binary(op, d, s)
          \/ Imul(d, s) \/ Imul3(d, s) \/ Adc(d, s)
          \/ Movzx(d, s) \/ Movsx(d, s) \/ Bsf(d, s)
          \/ Push(d, s) \/ Pop(d, s) \/ Movs(d, s) \/ Movbe(d, s)
          \/ Xchg(d, s) \/ Xadd(d, s)
          \/ \E taken \in BOOLEAN : Cmov(taken, d, s) \/ Cmpxchg(taken, d, s)
          \/ \E count \in {"imm", "cl"} : Shld(d, s, count)
          \/ Cmp(d, s) \/ Cmps(d, s)
    \/ \E d \in Opnd :
          \/ MovImm(d) \/ Shift(d) \/ Bswap(d) \/ Stos(d) \/ Lods(d)
          \/ ImulByte(d) \/ Leave(d) \/ LeaRel(d) \/ CmpImm(d)
          \/ \E op \in {"mul", "div"} : MulDiv(op, d)
          \/ \E op \in BinaryOp : BinaryImm(op, d)
          \/ \E base, index \in Row \cup {"none"}, scaled \in BOOLEAN : Lea(d, base, index, scaled)
    \/ \E n \in Width \ {1} : Cwde(n) \/ Cdq(n)

Next ==
    \/ steps < MaxSteps /\ ins_inspect_dr
    \/ Ended

Spec == Init /\ [][Next]_vars

-----------------------------------------------------------------------------
(* Properties *)

TypeOK ==
    /\ \A p \in Place : tag[p] \in [Bytes(p) -> SUBSET Offset]
    /\ \A p \in Place : dep[p] \in [Bytes(p) -> SUBSET Offset]
    /\ DOMAIN tag = Place /\ DOMAIN dep = Place
    /\ steps \in 0 .. MaxSteps

\* The instructions and operand shapes the engine propagates soundly.
Covered == BinaryOp \cup
    {"mov", "mov_imm", "movzx", "movsx", "lea", "lea_rel", "push", "pop", "leave",
     "xchg", "cmov", "shift", "shld", "bswap", "movbe", "cmpxchg", "xadd",
     "movs", "stos", "lods", "cmp", "cmps"}

\* No false negatives: a byte that is computed from an input byte carries its
\* offset, after any program of the covered instructions.
NoFalseNegatives == \A p \in Place : \A b \in Bytes(p) : dep[p][b] \subseteq tag[p][b]

\* No false offsets: a byte carries no offset of an input byte it is not
\* computed from.
NoFalseOffsets == \A p \in Place : \A b \in Bytes(p) : tag[p][b] \subseteq dep[p][b]

\* The instructions that only move bytes, or combine them as the tags are combined.
Exact == {"mov", "mov_imm", "xor", "movzx", "movsx", "lea", "push", "pop", "leave", "xchg", "cmov",
          "bswap", "movbe", "movs", "stos", "lods", "cmp", "cmps"}

\* Such an instruction adds no offset either: when the tags are exactly the flow,
\* they are so after it, unless it clears the upper bytes of a register.
MovesAreExact ==
    [][/\ tag = dep /\ last'.op \in Exact
       /\ \A o \in last'.writes : IsMem(o) \/ o.n # DWORD
       => tag' = dep']_vars

\* A byte of the operands a record is about has more offsets than the limit.
OverLimit(record) ==
    \E k \in DOMAIN record.opnds : \E i \in Lanes(record.opnds[k]) :
        comma_tokens(At(tag, record.opnds[k], i)) > limit_offset

\* A compare, and an address computed with an index, reports for every byte of
\* its operands the input bytes that byte is computed from ("fire on every
\* CMP/LEA/... with tainted operand", include/libdft_dr/sinks.h).  Only the legacy
\* writer and CMPS may leave one out, and only one with a byte over the limit.
InputsReported ==
    [][LET record == last'.record
       IN  \A k \in DOMAIN record.opnds : \A i \in Lanes(record.opnds[k]) :
              At(dep, record.opnds[k], i) # {} =>
                 \/ /\ k \in DOMAIN record.fields
                    /\ At(dep, record.opnds[k], i) \subseteq record.fields[k][i]
                 \/ (~HasSink \/ last'.op = "cmps") /\ OverLimit(record)]_vars

\* The offsets all bytes of the operands carry.
Carried(os) == UNION {AllOf(tag, o) : o \in os}

\* Whatever the instruction: only the bytes it writes change their tags, and the
\* offsets they get are offsets its operands carried.
TagsComeFromOperands ==
    [][\A p \in Place : \A b \in Bytes(p) :
          tag'[p][b] # tag[p][b] =>
             /\ \E o \in last'.writes : o.at = p /\ Spans(o, b)
             /\ tag'[p][b] \subseteq tag[p][b] \cup Carried(last'.reads)]_vars

\* m2m_xfer as the loop of byte copies it is in the code.
CopyLoop(d, s) ==
    LET after[k \in 0 .. d.n] ==
            IF k = 0 THEN tag["mem"]
            ELSE [after[k - 1] EXCEPT ![d.start + k - 1] = after[k - 1][s.start + k - 1]]
    IN  [tag EXCEPT !["mem"] = after[d.n]]

\* Copying in one expression, as Propagation does it, has the effect of the byte
\* loop of m2m_xfer, also on operands that overlap.
M2mIsByteLoop ==
    \A d, s \in {o \in Opnd : IsMem(o)} : d.n = s.n => m2m_xfer(d, s) = CopyLoop(d, s)
=============================================================================
