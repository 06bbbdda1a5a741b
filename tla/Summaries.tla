----------------------------- MODULE Summaries -----------------------------
(***************************************************************************)
(* sdft_hook_dr.cpp at run time: what the wrap of a summarised function    *)
(* does to the tags when the function is entered, set beside what the      *)
(* function really does.  The body of the function is not propagated,      *)
(* because sdft_hook registered it with the MNT consumer: the summary is   *)
(* all the engine sees of the call.                                        *)
(*                                                                         *)
(* A program is a sequence of instructions (Propagation) and calls.  The   *)
(* functions are external: Fun[f] says what f copies and combines, in the  *)
(* terms of a summary.  A call also chooses its arguments, the NULL        *)
(* pointer being 0, and the bytes of memory that are NUL.                  *)
(***************************************************************************)
EXTENDS Propagation, SummaryTable

CONSTANTS
    MAX_PROP_BYTES, \* bytes of a buffer a handler looks at
    WCHAR,          \* sizeof(wchar_t)
    MaxLen,         \* longest length a caller passes
    Fun,            \* external: function -> what it does
    Body,           \* functions whose body is propagated although they are wrapped
    NulChoice       \* the sets of NUL bytes of memory

ASSUME LengthAssumption == 
    /\ MAX_PROP_BYTES \in Nat /\ WCHAR \in Nat \ {0} /\ MAX_PROP_BYTES % WCHAR = 0
    /\ MaxLen \in Nat

VARIABLE call       \* the last call: [fun, args, nul]; NoCall after an instruction

NoCall == [fun |-> "", args |-> [i \in 0 .. 5 |-> 0], nul |-> {}]

callVars == <<vars, call>>

-----------------------------------------------------------------------------
(* Handlers: the tags t at the entry of the function become its result *)

\* arg_to_reg, for the arguments 0 to 5.
arg_to_reg(i) == <<"rdi", "rsi", "rdx", "rcx", "r8", "r9">>[i + 1]

\* What a function does is said in terms of its arguments; a copy has a source and
\* a destination.
ASSUME FunctionAssumption ==
    \A f \in DOMAIN Fun :
       /\ Fun[f].src \in Seq(0 .. 5)
       /\ Fun[f].args \in Seq({i \in 0 .. 5 : arg_to_reg(i) \in Row})
       /\ Fun[f].dst.kind = "ARG" => Fun[f].dst.value \in 0 .. 5
       /\ Fun[f].len.kind = "ARG" => Fun[f].len.value \in 0 .. 5
       /\ Fun[f].len.kind = "LITERAL" => Fun[f].len.value \in Nat
       /\ Fun[f].shape = "PROP_PTR2PTR" => Fun[f].src # <<>> /\ Fun[f].dst.kind = "ARG"

CallerSaved == Row \cap {"rax", "rcx", "rdx", "rsi", "rdi", "r8", "r9", "r10", "r11"}

Fewer(m, n) == IF m < n THEN m ELSE n

\* The number of units of w bytes before the first that is NUL, or before the
\* end of what can be read, at most k.
Scan(p, w, k, nul) ==
    LET Stops(n) == \/ n = k
                    \/ p + (n + 1) * w > MEM_BYTES
                    \/ \A b \in 0 .. w - 1 : p + n * w + b \in nul
    IN  CHOOSE n \in 0 .. k : Stops(n) /\ \A m \in 0 .. n - 1 : ~Stops(m)

safe_strlen(p, nul) == IF p = 0 THEN 0 ELSE Scan(p, 1, MAX_PROP_BYTES, nul)

safe_wcslen_bytes(p, nul) ==
    IF p = 0 THEN 0 ELSE Scan(p, WCHAR, MAX_PROP_BYTES \div WCHAR, nul) * WCHAR

\* A negative literal becomes a huge unsigned length, which the handlers cut.
resolve_len(len, c, p) ==
    CASE len.kind = "ARG"     -> c.args[len.value]
      [] len.kind = "LITERAL" -> IF len.value < 0 THEN MAX_PROP_BYTES ELSE len.value
      [] len.kind = "STRLEN"  -> safe_strlen(p, c.nul)
      [] len.kind = "WCSLEN"  -> safe_wcslen_bytes(p, c.nul)
      [] OTHER                -> 0

resolve_ptr(r, c) == IF r.kind = "ARG" THEN c.args[r.value] ELSE 0

clobber_caller_saved(t) ==
    [r \in Place |-> IF r \in CallerSaved THEN [b \in Bytes(r) |-> {}] ELSE t[r]]

\* Fault: the row has one byte more.
rax_set_all_overruns(t, s) == [t EXCEPT !["rax"] = [b \in 0 .. REG_BYTES |-> s]]

rax_set_all(t, s) == [t EXCEPT !["rax"] = [b \in Bytes("rax") |-> s]]

\* The byte loop of handle_prop_ptr2ptr, with the effect m2m_xfer has.
CopyTags(t, dst, src, n) ==
    LET gap == dst - src
        From(i) == src + (IF 0 < gap /\ gap < n THEN i % gap ELSE i)
    IN  Store(t, Mem(dst, n), [i \in 0 .. n - 1 |-> t["mem"][From(i)]])

\* Fault: the length is not capped.
handle_prop_ptr2ptr_uncapped(t, c, sum) ==
    LET src == c.args[sum.src[1]]
        dst == resolve_ptr(sum.dst, c)
        n   == resolve_len(sum.len, c, src)
    IN  clobber_caller_saved(IF dst # 0 /\ src # 0 THEN CopyTags(t, dst, src, n) ELSE t)

\* RAX gets the tags of the first byte of the destination.
handle_prop_ptr2ptr(t, c, sum) ==
    LET src    == c.args[sum.src[1]]
        dst    == resolve_ptr(sum.dst, c)
        n      == Fewer(resolve_len(sum.len, c, src), MAX_PROP_BYTES)
        copied == IF dst # 0 /\ src # 0 THEN CopyTags(t, dst, src, n) ELSE t
        after  == clobber_caller_saved(copied)
    IN  IF sum.src = <<>> THEN clobber_caller_saved(t)
        ELSE IF dst # 0 /\ n > 0 THEN rax_set_all(after, copied["mem"][dst]) ELSE after

\* Every source with its own length.
handle_prop_ptr2val(t, c, sum) ==
    LET Of(p) == Fewer(resolve_len(sum.len, c, p), MAX_PROP_BYTES)
        accum == UNION {UNION {t["mem"][p + i] : i \in 0 .. Of(p) - 1} :
                           p \in {c.args[i] : i \in ToSet(sum.src)} \ {0}}
    IN  rax_set_all(clobber_caller_saved(t), accum)

\* Fault: the registers are cleared before they are read.
handle_prop_scalar_late(t, sum) ==
    LET after == clobber_caller_saved(t)
    IN  rax_set_all(after, UNION {AllOf(after, Reg(arg_to_reg(i), REG_BYTES)) : i \in ToSet(sum.args)})

handle_prop_scalar(t, sum) ==
    rax_set_all(clobber_caller_saved(t),
                UNION {AllOf(t, Reg(arg_to_reg(i), REG_BYTES)) : i \in ToSet(sum.args)})

dispatch(t, c, sum) ==
    CASE sum.shape = "PROP_PTR2PTR" -> handle_prop_ptr2ptr(t, c, sum)
      [] sum.shape = "PROP_PTR2VAL" -> handle_prop_ptr2val(t, c, sum)
      [] sum.shape = "PROP_SCALAR"  -> handle_prop_scalar(t, sum)
      [] OTHER                      -> clobber_caller_saved(t)    \* handle_clobber

-----------------------------------------------------------------------------
(* Functions *)

IsString(f) == Fun[f].len.kind \in {"STRLEN", "WCSLEN"}

Unit(f) == IF Fun[f].len.kind = "WCSLEN" THEN WCHAR ELSE 1

\* The bytes at p a function reads and uses; of a string, those before its end.
Used(c, p) ==
    IF IsString(c.fun) THEN Scan(p, Unit(c.fun), MEM_BYTES, c.nul) * Unit(c.fun)
    ELSE resolve_len(Fun[c.fun].len, c, p)

\* The bytes it copies: a string with its end.
Moved(c, p) == Used(c, p) + (IF IsString(c.fun) THEN Unit(c.fun) ELSE 0)

Pointers(f) ==
    ToSet(Fun[f].src) \cup (IF Fun[f].dst.kind = "ARG" THEN {Fun[f].dst.value} ELSE {})

Sources(c) == {c.args[i] : i \in ToSet(Fun[c.fun].src)}

\* What a function does to the bytes of f: to those of the machine, and to their
\* tags when its instructions are propagated.
Effect(f, c) ==
    LET fun   == Fun[c.fun]
        after == clobber_caller_saved(f)
        dst   == Mem(c.args[fun.dst.value], Moved(c, c.args[fun.src[1]]))
    IN  CASE fun.shape = "PROP_PTR2PTR" ->
                Store(after, dst, [i \in Lanes(dst) |-> f["mem"][c.args[fun.src[1]] + i]])
          [] fun.shape = "PROP_PTR2VAL" ->
                rax_set_all(after, UNION {AllOf(f, Mem(p, Used(c, p))) : p \in Sources(c)})
          [] fun.shape = "PROP_SCALAR" ->
                rax_set_all(after, UNION {AllOf(f, Reg(arg_to_reg(i), REG_BYTES)) :
                                             i \in ToSet(fun.args)})
          [] OTHER -> after

\* A caller gives buffers that exist; address 0 is none.  A string ends inside
\* the memory.
Valid(c) ==
    \A i \in Pointers(c.fun) :
       LET p == IF Fun[c.fun].shape = "PROP_PTR2PTR" THEN c.args[Fun[c.fun].src[1]] ELSE c.args[i]
       IN  /\ {c.args[i] + Moved(c, p), p + Moved(c, p)} \subseteq 0 .. MEM_BYTES
           /\ 0 \in {c.args[i], p} => Moved(c, p) = 0

\* The pointers and the length are computed from no input; the registers they
\* are passed in hold nothing of it.
Passed(f, g) ==
    LET taken == Pointers(g) \cup (IF Fun[g].len.kind = "ARG" THEN {Fun[g].len.value} ELSE {})
        regs  == {arg_to_reg(i) : i \in taken}
    IN  [r \in Place |-> IF r \in regs THEN [b \in Bytes(r) |-> {}] ELSE f[r]]

\* How far the tags of a call reach into a buffer.
Reach(c, p) ==
    IF find(c.fun) = "" \/ c.fun \in Body THEN Moved(c, p) ELSE Fewer(Used(c, p), MAX_PROP_BYTES)

Read(c) ==
    {Mem(p, Reach(c, p)) : p \in Sources(c) \ {0}}
    \cup {Reg(arg_to_reg(i), REG_BYTES) : i \in ToSet(Fun[c.fun].args)}

Written(c) ==
    {Reg(r, REG_BYTES) : r \in CallerSaved}
    \cup (IF Fun[c.fun].shape = "PROP_PTR2PTR"
          THEN {Mem(c.args[Fun[c.fun].dst.value], Reach(c, c.args[Fun[c.fun].src[1]]))} ELSE {})

\* The tags after sdft_pre, with what find points to.
Entered(c) ==
    LET entry == Passed(tag, c.fun)
    IN  IF find(c.fun) = "" THEN entry ELSE dispatch(entry, c, SummaryOf(find(c.fun)))

\* A call, from its entry to its return: sdft_pre, then the body, if it is not
\* skipped.
Call(c) ==
    /\ Quiet(c.fun, Read(c), Written(c))
    /\ \E pre \in {Entered(c)} :
          tag' = IF find(c.fun) = "" \/ c.fun \in Body THEN Effect(pre, c) ELSE pre
    /\ dep' = Effect(Passed(dep, c.fun), c)
    /\ call' = c

-----------------------------------------------------------------------------

\* The arguments of f: its first source at s, other buffers at d, the length n.
Arguments(f, s, d, n) ==
    [i \in 0 .. 5 |->
        IF Fun[f].src # <<>> /\ i = Fun[f].src[1] THEN s
        ELSE IF i \in Pointers(f) THEN d
        ELSE IF Fun[f].len.kind = "ARG" /\ i = Fun[f].len.value THEN n ELSE 0]

\* The calls a program makes.
Calls ==
    {c \in UNION {{[fun |-> f, args |-> Arguments(f, s, d, n),
                    nul |-> IF IsString(f) THEN nul ELSE {}] :
                      s, d \in 0 .. MEM_BYTES - 1, n \in 0 .. MaxLen, nul \in NulChoice} :
                  f \in DOMAIN Fun} : Valid(c)}

CallInit == Init /\ call = NoCall

CallNext ==
    \/ steps < MaxSteps /\ ins_inspect_dr /\ call' = NoCall
    \/ steps < MaxSteps /\ \E c \in Calls : Call(c)
    \/ Ended /\ UNCHANGED call

CallSpec == CallInit /\ [][CallNext]_callVars

-----------------------------------------------------------------------------
(* Properties *)

\* The buffers of a copy overlap so that the outcome depends on the order of the
\* byte loop, or on the body copying a second time.
Overlaps(c) ==
    LET dst == c.args[Fun[c.fun].dst.value]
        src == c.args[Fun[c.fun].src[1]]
        n   == Moved(c, src)
    IN  \/ src < dst /\ dst < src + n
        \/ dst < src /\ src < dst + n /\ c.fun \in Body

\* The bytes the handlers do not reach: in the destination of a copy those past
\* MAX_PROP_BYTES, the end of a string, and all of it when the buffers overlap;
\* and RAX when it is computed from more than MAX_PROP_BYTES.
Beyond(c, p, b) ==
    LET src == c.args[Fun[c.fun].src[1]]
        dst == c.args[Fun[c.fun].dst.value]
    IN  \/ /\ p = "mem" /\ Fun[c.fun].shape = "PROP_PTR2PTR"
           /\ dst <= b /\ b < dst + Moved(c, src)
           /\ Overlaps(c) \/ b >= dst + Fewer(Used(c, src), MAX_PROP_BYTES)
        \/ /\ p = "rax" /\ Fun[c.fun].shape = "PROP_PTR2VAL"
           /\ \E q \in Sources(c) : Used(c, q) > MAX_PROP_BYTES

\* A call loses nothing: if every byte carried the offsets of the input bytes it
\* is computed from when the function was entered, every byte does when it
\* returns, in the buffers, in RAX and in the registers the caller keeps, but for
\* the bytes out of the handlers' reach.
CallsKeepTaint ==
    [][NoFalseNegatives /\ call' # NoCall /\ steps' > steps =>
          \A p \in Place : \A b \in Bytes(p) :
             dep'[p][b] \subseteq tag'[p][b] \/ Beyond(call', p, b)]_callVars
=============================================================================
