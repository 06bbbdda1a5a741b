----------------------- MODULE InstrumentationProofs -----------------------
(***************************************************************************)
(* Proofs about Instrumentation, for every set of modules, every file of   *)
(* summaries and every registration.                                       *)
(***************************************************************************)
EXTENDS Instrumentation, MntConsumerProofs

\* Only code is translated and executed.
CodeInv == DOMAIN code \subseteq Pc /\ last.pc \in Pc \cup {0}

\* Every step keeps CodeInv.
LEMMA CodeStep == CodeInv /\ [Next]_vars => CodeInv'
<1> SUFFICES ASSUME CodeInv, [Next]_vars PROVE CodeInv'
  OBVIOUS
<1> USE DEF CodeInv, Pc
<1>1. ASSUME NEW c \in FuncChoice, register_func_sink(c.name, c.module) PROVE CodeInv'
  BY <1>1 DEF register_func_sink
<1>2. ASSUME NEW pc \in PcChoice, register_func_sink_pc(pc) PROVE CodeInv'
  BY <1>2 DEF register_func_sink_pc
<1>3. ASSUME NEW r \in RangeChoice, register_pc_range_sink(r[1], r[2]) PROVE CodeInv'
  BY <1>3 DEF register_pc_range_sink
<1>4. ASSUME NEW value \in Env, NEW opaque \in BOOLEAN, NEW sdft \in SdftEnv,
             init(value, opaque, sdft)
      PROVE CodeInv'
  BY <1>4 DEF init
<1>5. CASE StartApp
  BY <1>5 DEF StartApp
<1>6. ASSUME NEW m \in Module, NEW base \in Base[m], Load(m, base) PROVE CodeInv'
  BY <1>6 DEF Load, Nothing
<1>7. ASSUME NEW m \in Module, Unload(m) PROVE CodeInv'
  BY <1>7 DEF Unload, Nothing
<1>8. ASSUME NEW pc \in Pc, Execute(pc) PROVE CodeInv'
  BY <1>8 DEF Execute
<1>9. CASE event_exit
  BY <1>9 DEF event_exit, Nothing
<1>10. CASE UNCHANGED vars
  BY <1>10 DEF vars
<1> QED
  BY <1>1, <1>2, <1>3, <1>4, <1>5, <1>6, <1>7, <1>8, <1>9, <1>10 DEF Next, Ended

-----------------------------------------------------------------------------
(* Enumerating the symbols of a module *)

\* The symbol table of a module is a sequence, and its offsets lie in the module.
LEMMA SymbolFacts ==
    ASSUME NEW m \in Module
    PROVE  /\ Len(Image[m].syms) \in Nat
           /\ DOMAIN Image[m].syms = 1 .. Len(Image[m].syms)
           /\ Image[m].size \in Nat \ {0}
           /\ \A sym \in Symbols(m) :
                 /\ sym.name # ""
                 /\ sym.start \in 1 .. Image[m].size - 1 /\ sym.end \in 0 .. Image[m].size
                 /\ sym.target \in 1 .. Image[m].size - 1
           /\ \A i \in 1 .. Len(Image[m].syms) : Image[m].syms[i] \in Symbols(m)
           /\ \A sym \in Symbols(m) : \E i \in 1 .. Len(Image[m].syms) : sym = Image[m].syms[i]
<1>1. Image[m].syms \in Seq(ToSet(Image[m].syms)) /\ Image[m].size \in Nat \ {0}
  BY ImageAssumption, Zenon
<1>2. /\ Len(Image[m].syms) \in Nat
      /\ DOMAIN Image[m].syms = 1 .. Len(Image[m].syms)
  BY <1>1
<1>3. \A k \in DOMAIN Image[m].syms :
         LET s == Image[m].syms[k]
         IN  /\ s.name # ""
             /\ s.start \in 1 .. Image[m].size - 1 /\ s.end \in 0 .. Image[m].size
             /\ s.target \in 1 .. Image[m].size - 1
  BY ImageAssumption, Zenon
<1> QED
  BY <1>1, <1>2, <1>3, Zenon DEF Symbols

\* After the first k symbols of m, at base, acc holds what was wrapped before and
\* the entry of every symbol among them that has a summary, each with a summary
\* of one of its names.
WrappedBy(m, base, k, acc) ==
    LET syms == Image[m].syms
    IN  /\ DOMAIN acc.wraps = acc.wrapped
        /\ s_wrapped \subseteq acc.wrapped
        /\ \A x \in s_wrapped : acc.wraps[x] = sdft_wraps[x]
        /\ \A i \in 1 .. k :
              find(syms[i].name) # "" => base + syms[i].target \in acc.wrapped
        /\ \A x \in acc.wrapped \ s_wrapped : \E i \in 1 .. k :
              /\ find(syms[i].name) # "" /\ x = base + syms[i].target
              /\ acc.wraps[x] = find(syms[i].name)

\* g is a run of the enumeration that begins with start.
Enumerates(m, base, start, g) ==
    g = [k \in 0 .. Len(Image[m].syms) |->
            IF k = 0 THEN start ELSE enum_sym_cb(base, Image[m].syms[k], g[k - 1])]

\* The enumeration is well defined: there is a run of it.
LEMMA EnumerationExists ==
    ASSUME NEW m \in Module, NEW base, NEW start
    PROVE  \E g : Enumerates(m, base, start, g)
<1> DEFINE n == Len(Image[m].syms)
           Run(j, g) == g = [k \in 0 .. j |->
                               IF k = 0 THEN start ELSE enum_sym_cb(base, Image[m].syms[k], g[k - 1])]
           S == {j \in 0 .. n : \E g : Run(j, g)}
<1>0. n \in Nat
  BY SymbolFacts
<1> HIDE DEF n
<1>1. 0 \in S
  <2>1. Run(0, [k \in 0 .. 0 |-> start])
    OBVIOUS
  <2>2. 0 \in 0 .. n
    BY <1>0
  <2> HIDE DEF Run
  <2> QED
    BY <2>1, <2>2
<1>2. ASSUME NEW j \in 1 .. n, j - 1 \in S PROVE j \in S
  <2>1. PICK g : Run(j - 1, g)
    BY <1>2
  <2> DEFINE new == enum_sym_cb(base, Image[m].syms[j], g[j - 1])
             h == [k \in 0 .. j |-> IF k = j THEN new ELSE g[k]]
  <2>2. j \in Nat /\ j # 0
    BY <1>0
  <2>3. ASSUME NEW k \in 0 .. j
        PROVE  h[k] = IF k = 0 THEN start ELSE enum_sym_cb(base, Image[m].syms[k], h[k - 1])
    <3> HIDE DEF new
    <3>1. CASE k = j
      <4>1. h[k] = new /\ h[k - 1] = g[j - 1]
        BY <2>2, <3>1
      <4> QED
        BY <4>1, <3>1, <2>2 DEF new
    <3>2. CASE k # j
      <4>1. k \in 0 .. j - 1 /\ h[k] = g[k]
        BY <2>2, <3>2
      <4>2. k # 0 => h[k - 1] = g[k - 1]
        BY <2>2, <4>1
      <4>3. g[k] = IF k = 0 THEN start ELSE enum_sym_cb(base, Image[m].syms[k], g[k - 1])
        BY <2>1, <4>1
      <4> HIDE DEF h
      <4> QED
        BY <4>1, <4>2, <4>3
    <3> QED
      BY <3>1, <3>2
  <2>4. Run(j, h)
    <3>1. h = [k \in 0 .. j |-> h[k]]
      OBVIOUS
    <3> HIDE DEF h
    <3> QED
      BY <3>1, <2>3
  <2>5. j \in 0 .. n
    BY <1>0
  <2> HIDE DEF Run, h
  <2> QED
    BY <2>4, <2>5
<1>3. n \in S
  <2> HIDE DEF S
  <2> QED
    BY <1>0, <1>1, <1>2, UpTo
<1>4. PICK g : Run(n, g)
  BY <1>3
<1> QED
  BY <1>4 DEF n, Enumerates

\* One symbol more.
LEMMA EnumerateOne ==
    ASSUME NEW m \in Module, NEW base, NEW k \in 1 .. Len(Image[m].syms), NEW acc,
           WrappedBy(m, base, k - 1, acc)
    PROVE  WrappedBy(m, base, k, enum_sym_cb(base, Image[m].syms[k], acc))
<1> DEFINE sym == Image[m].syms[k]
           pc == base + sym.target
           new == enum_sym_cb(base, sym, acc)
<1>0. k \in Nat /\ \A i \in 1 .. k : i = k \/ i \in 1 .. k - 1
  <2>1. Len(Image[m].syms) \in Nat
    BY SymbolFacts, Zenon
  <2> QED
    BY <2>1
<1>1. CASE find(sym.name) = "" \/ pc \in acc.wrapped
  <2>1. new = acc
    BY <1>1 DEF enum_sym_cb
  <2>2. k - 1 \in Nat /\ \A i \in 1 .. k - 1 : i \in 1 .. k
    BY <1>0
  <2> QED
    BY <1>0, <1>1, <2>1, <2>2, Zenon DEF WrappedBy
<1>2. CASE ~(find(sym.name) = "" \/ pc \in acc.wrapped)
  <2>1. /\ new.wrapped = acc.wrapped \cup {pc}
        /\ new.wraps = [x \in DOMAIN acc.wraps \cup {pc} |->
                          IF x = pc THEN find(sym.name) ELSE acc.wraps[x]]
    BY <1>2 DEF enum_sym_cb
  <2>2. /\ DOMAIN acc.wraps = acc.wrapped
        /\ s_wrapped \subseteq acc.wrapped
        /\ \A x \in s_wrapped : acc.wraps[x] = sdft_wraps[x]
        /\ \A i \in 1 .. k - 1 :
              find(Image[m].syms[i].name) # "" => base + Image[m].syms[i].target \in acc.wrapped
        /\ \A x \in acc.wrapped \ s_wrapped : \E i \in 1 .. k - 1 :
              /\ find(Image[m].syms[i].name) # "" /\ x = base + Image[m].syms[i].target
              /\ acc.wraps[x] = find(Image[m].syms[i].name)
    BY Zenon DEF WrappedBy
  <2>3. /\ DOMAIN new.wraps = new.wrapped
        /\ s_wrapped \subseteq new.wrapped
        /\ new.wraps[pc] = find(sym.name)
        /\ \A x \in acc.wrapped : new.wraps[x] = acc.wraps[x]
    <3> HIDE DEF new, pc, sym
    <3> QED
      BY <1>2, <2>1, <2>2
  <2>4. pc \notin s_wrapped /\ \A x \in s_wrapped : new.wraps[x] = sdft_wraps[x]
    <3> HIDE DEF new, pc
    <3>1. pc \notin acc.wrapped
      BY <1>2
    <3>2. pc \notin s_wrapped
      BY <2>2, <3>1
    <3>3. ASSUME NEW x \in s_wrapped PROVE new.wraps[x] = sdft_wraps[x]
      BY <2>2, <2>3
    <3> QED
      BY <3>2, <3>3
  <2>5. ASSUME NEW i \in 1 .. k, find(Image[m].syms[i].name) # ""
        PROVE  base + Image[m].syms[i].target \in new.wrapped
    BY <1>0, <2>1, <2>2, <2>5
  <2>6. ASSUME NEW x \in new.wrapped \ s_wrapped
        PROVE  \E i \in 1 .. k :
                  /\ find(Image[m].syms[i].name) # "" /\ x = base + Image[m].syms[i].target
                  /\ new.wraps[x] = find(Image[m].syms[i].name)
    <3>1. k \in 1 .. k /\ \A i \in 1 .. k - 1 : i \in 1 .. k
      BY <1>0
    <3>2. CASE x = pc
      BY <1>2, <2>3, <3>1, <3>2
    <3>3. CASE x # pc
      <4>1. x \in acc.wrapped \ s_wrapped
        BY <2>1, <2>6, <3>3
      <4>2. PICK i \in 1 .. k - 1 :
               /\ find(Image[m].syms[i].name) # "" /\ x = base + Image[m].syms[i].target
               /\ acc.wraps[x] = find(Image[m].syms[i].name)
        BY <2>2, <4>1, Zenon
      <4>3. i \in 1 .. k /\ new.wraps[x] = acc.wraps[x]
        BY <2>3, <3>1, <4>1, <4>2
      <4> QED
        BY <4>2, <4>3, Zenon
    <3> QED
      BY <3>2, <3>3
  <2> HIDE DEF new, pc, sym
  <2> QED
    BY <2>3, <2>4, <2>5, <2>6, Zenon DEF WrappedBy, new, sym
<1> QED
  BY <1>1, <1>2

\* All of them.
LEMMA Enumeration ==
    ASSUME NEW m \in Module, NEW base, DOMAIN sdft_wraps = s_wrapped
    PROVE  WrappedBy(m, base, Len(Image[m].syms), EnumerateSymbols(m, base))
<1> DEFINE n == Len(Image[m].syms)
           start == [wrapped |-> s_wrapped, wraps |-> sdft_wraps, ranges |-> s_ranges]
           after == CHOOSE g : Enumerates(m, base, start, g)
           S == {k \in 0 .. n : WrappedBy(m, base, k, after[k])}
<1>0. n \in Nat
  BY SymbolFacts
<1>1. \E g : Enumerates(m, base, start, g)
  BY EnumerationExists
<1>2. Enumerates(m, base, start, after)
  BY <1>1
<1>3. EnumerateSymbols(m, base) = after[n]
  BY DEF EnumerateSymbols, Enumerates
<1> HIDE DEF after, n
<1>4. 0 \in S
  <2>1. after[0] = start /\ 0 \in 0 .. n
    BY <1>0, <1>2 DEF Enumerates, n
  <2>2. after[0].wrapped = s_wrapped /\ after[0].wraps = sdft_wraps
    BY <2>1
  <2>3. WrappedBy(m, base, 0, after[0])
    BY <2>2 DEF WrappedBy
  <2> QED
    BY <2>1, <2>3
<1>5. ASSUME NEW k \in 1 .. n, k - 1 \in S PROVE k \in S
  <2>1. k \in 0 .. n /\ k # 0
    BY <1>0
  <2>2. after[k] = enum_sym_cb(base, Image[m].syms[k], after[k - 1])
    <3> HIDE DEF start
    <3> QED
      BY <1>2, <2>1 DEF Enumerates, n
  <2> QED
    BY <1>5, <2>1, <2>2, EnumerateOne DEF n
<1>6. n \in S
  <2> HIDE DEF S
  <2> QED
    BY <1>0, <1>4, <1>5, UpTo
<1> QED
  BY <1>3, <1>6 DEF n

-----------------------------------------------------------------------------
(* Summaries *)

\* The names in the table are those of FUNC lines.
LEMMA TableNames ==
    /\ \A x \in DOMAIN s_funcs : x # ""
    /\ DOMAIN Conf = 1 .. Len(Conf) /\ Len(Conf) \in Nat
<1>1. \A k \in DOMAIN Conf : Conf[k].name # ""
  BY ConfAssumption, Zenon
<1>2. DOMAIN Conf = 1 .. Len(Conf) /\ Len(Conf) \in Nat
  <2>1. Conf \in Seq(ToSet(Conf))
    BY ConfAssumption, Zenon
  <2> QED
    BY <2>1
<1>3. DOMAIN s_funcs = {Conf[k].name : k \in FuncLines}
  BY DEF s_funcs
<1>4. FuncLines \subseteq DOMAIN Conf
  BY DEF FuncLines
<1> QED
  BY <1>1, <1>2, <1>3, <1>4

\* find gives a summary exactly to the names that have one, and one they have.
LEMMA FindIsExact ==
    ASSUME NEW name
    PROVE  IF SummariesOf(name) = {} THEN find(name) = ""
           ELSE find(name) \in SummariesOf(name) /\ find(name) # ""
<1> DEFINE K == {i \in 1 .. Len(Conf) : IsAlias(Conf[i], name) /\ Conf[i].name \in DOMAIN s_funcs}
           k == IF K # {} THEN Min(K) ELSE 0
           alias == {Conf[i].name : i \in {j \in DOMAIN Conf :
                                              Conf[j].kw = "ALIAS" /\ name \in Conf[j].pattern}}
           named == ({name} \cup alias) \cap DOMAIN s_funcs
<1>1. find(name) = IF name \in DOMAIN s_funcs THEN name
                   ELSE IF k # 0 THEN Conf[k].name
                   ELSE IF Conservative THEN "default" ELSE ""
  BY DEF find, SelectInSeq
<1>2. SummariesOf(name) = IF named = {} /\ Conservative THEN {"default"} ELSE named
  BY DEF SummariesOf
<1>3. K # {} => k \in K /\ k # 0
  <2>0. Len(Conf) \in Nat
    BY TableNames
  <2>1. K \subseteq Nat /\ 0 \notin K
    BY <2>0
  <2> HIDE DEF K
  <2>2. K # {} => \E x \in K : \A y \in K : x <= y
    BY <2>1, LeastNumber
  <2>3. K # {} => Min(K) \in K
    BY <2>2 DEF Min
  <2> QED
    BY <2>1, <2>3
<1>4. K = {} => k = 0
  OBVIOUS
<1>5. \A x : x \in alias /\ x \in DOMAIN s_funcs <=> \E i \in K : x = Conf[i].name
  BY TableNames DEF IsAlias
<1> HIDE DEF K, k, alias
<1>6. CASE name \in DOMAIN s_funcs
  BY <1>1, <1>2, <1>6, TableNames
<1>7. CASE name \notin DOMAIN s_funcs /\ K # {}
  BY <1>1, <1>2, <1>3, <1>5, <1>7, TableNames
<1>8. CASE name \notin DOMAIN s_funcs /\ K = {}
  <2>1. named = {}
    BY <1>5, <1>8
  <2> QED
    BY <1>1, <1>2, <1>4, <1>8, <2>1
<1> QED
  BY <1>6, <1>7, <1>8

\* No address belongs to two modules, or to two places of one module, at any
\* time: what is left behind by a module that is gone concerns no other.
OwnPlaces ==
    \A m1, m2 \in Module : \A b1 \in Base[m1], b2 \in Base[m2] :
       m1 # m2 \/ b1 # b2 => b1 + Image[m1].size <= b2 \/ b2 + Image[m2].size <= b1

\* The symbol is one of module m loaded at base, and has a summary.
Summarised(m, base, sym, x) ==
    x = base + sym.target /\ find(sym.name) # "" /\ sdft_wraps[x] = find(sym.name)

\* What is wrapped is the entry of a summarised function, and nothing that is
\* loaded was forgotten.
WrapInv ==
    /\ DOMAIN loaded \subseteq Module /\ \A m \in DOMAIN loaded : loaded[m] \in Base[m]
    /\ phase = "client" => DOMAIN loaded = {} /\ last.pc = 0
    /\ DOMAIN sdft_wraps = s_wrapped
    /\ \A x \in s_wrapped : \E m \in Module : \E base \in Base[m], sym \in Symbols(m) :
          Summarised(m, base, sym, x)
    /\ "sdft" \in events =>
          \A m \in DOMAIN loaded : \A sym \in Symbols(m) :
             find(sym.name) # "" => loaded[m] + sym.target \in s_wrapped
    /\ last.pc # 0 => last.summary = sdft_pre(last.pc)

\* A module is loaded.
LEMMA WrapLoad ==
    ASSUME WrapInv, NEW m \in Module, NEW base \in Base[m], Load(m, base)
    PROVE  WrapInv'
<1>1. /\ phase' = "app" /\ events' = events /\ last'.pc = 0
      /\ loaded' = [x \in DOMAIN loaded \cup {m} |-> IF x = m THEN base ELSE loaded[x]]
      /\ SdftModuleLoad(m, base) /\ m \notin DOMAIN loaded
  BY DEF Load, Nothing
<1>2. DOMAIN loaded' \subseteq Module /\ \A x \in DOMAIN loaded' : loaded'[x] \in Base[x]
  BY <1>1 DEF WrapInv
<1>3. CASE "sdft" \notin events
  <2>1. s_wrapped' = s_wrapped /\ sdft_wraps' = sdft_wraps
    BY <1>1, <1>3 DEF SdftModuleLoad
  <2>2. \A m1, b1, sym, x : Summarised(m1, b1, sym, x)' <=> Summarised(m1, b1, sym, x)
    BY <2>1 DEF Summarised
  <2>3. \A x \in s_wrapped' : \E m1 \in Module : \E b1 \in Base[m1], sym \in Symbols(m1) :
           Summarised(m1, b1, sym, x)'
    BY <2>1, <2>2, Zenon DEF WrapInv
  <2>4. DOMAIN sdft_wraps' = s_wrapped' /\ "sdft" \notin events' /\ phase' # "client"
    BY <1>1, <1>3, <2>1 DEF WrapInv
  <2> QED
    BY <1>1, <1>2, <2>3, <2>4, Zenon DEF WrapInv
<1>4. CASE "sdft" \in events
  <2> DEFINE found == EnumerateSymbols(m, base)
             n == Len(Image[m].syms)
  <2>1. s_wrapped' = found.wrapped /\ sdft_wraps' = found.wraps
    BY <1>1, <1>4 DEF SdftModuleLoad
  <2>2. WrappedBy(m, base, n, found)
    BY Enumeration DEF WrapInv
  <2>3. /\ DOMAIN sdft_wraps' = s_wrapped'
        /\ s_wrapped \subseteq s_wrapped'
        /\ \A x \in s_wrapped : sdft_wraps'[x] = sdft_wraps[x]
        /\ \A i \in 1 .. n :
              find(Image[m].syms[i].name) # "" => base + Image[m].syms[i].target \in s_wrapped'
        /\ \A x \in s_wrapped' \ s_wrapped : \E i \in 1 .. n :
              /\ find(Image[m].syms[i].name) # "" /\ x = base + Image[m].syms[i].target
              /\ sdft_wraps'[x] = find(Image[m].syms[i].name)
    BY <2>1, <2>2, Zenon DEF WrappedBy
  <2>4. ASSUME NEW x \in s_wrapped'
        PROVE  \E m1 \in Module : \E b1 \in Base[m1], sym \in Symbols(m1) :
                  Summarised(m1, b1, sym, x)'
    <3>1. CASE x \in s_wrapped
      <4>1. PICK m1 \in Module : \E b1 \in Base[m1], sym \in Symbols(m1) : Summarised(m1, b1, sym, x)
        BY <3>1, Zenon DEF WrapInv
      <4>2. PICK b1 \in Base[m1], sym \in Symbols(m1) : Summarised(m1, b1, sym, x)
        BY <4>1
      <4>3. Summarised(m1, b1, sym, x)'
        BY <2>3, <3>1, <4>2 DEF Summarised
      <4> QED
        BY <4>3
    <3>2. CASE x \notin s_wrapped
      <4>1. PICK i \in 1 .. n :
               /\ find(Image[m].syms[i].name) # "" /\ x = base + Image[m].syms[i].target
               /\ sdft_wraps'[x] = find(Image[m].syms[i].name)
        BY <2>3, <3>2
      <4>2. Image[m].syms[i] \in Symbols(m)
        BY SymbolFacts, Zenon
      <4> QED
        BY <4>1, <4>2, Zenon DEF Summarised
    <3> QED
      BY <3>1, <3>2
  <2>5. ASSUME NEW m1 \in DOMAIN loaded', NEW sym \in Symbols(m1), find(sym.name) # ""
        PROVE  loaded'[m1] + sym.target \in s_wrapped'
    <3>1. CASE m1 = m
      <4>1. PICK i \in 1 .. n : sym = Image[m].syms[i]
        BY <3>1, SymbolFacts, Zenon
      <4>2. loaded'[m1] = base
        BY <1>1, <3>1
      <4> QED
        BY <2>3, <2>5, <4>1, <4>2
    <3>2. CASE m1 # m
      <4>1. m1 \in DOMAIN loaded /\ loaded'[m1] = loaded[m1]
        BY <1>1, <3>2
      <4>2. loaded[m1] + sym.target \in s_wrapped
        BY <1>4, <2>5, <4>1 DEF WrapInv
      <4> QED
        BY <2>3, <4>1, <4>2
    <3> QED
      BY <3>1, <3>2
  <2> HIDE DEF n, found
  <2> QED
    BY <1>1, <1>2, <2>3, <2>4, <2>5, Zenon DEF WrapInv
<1> QED
  BY <1>3, <1>4

\* Every other step leaves the wrapped functions alone.
LEMMA WrapSame ==
    ASSUME WrapInv, s_wrapped' = s_wrapped, sdft_wraps' = sdft_wraps,
           DOMAIN loaded' \subseteq DOMAIN loaded,
           \A m \in DOMAIN loaded' : loaded'[m] = loaded[m],
           "sdft" \in events' => "sdft" \in events \/ DOMAIN loaded' = {},
           phase' = "client" => phase = "client" /\ last'.pc = 0,
           last'.pc # 0 => last'.summary = sdft_pre(last'.pc)
    PROVE  WrapInv'
<1>1. \A m1, b1, sym, x : Summarised(m1, b1, sym, x)' <=> Summarised(m1, b1, sym, x)
  BY DEF Summarised
<1>2. \A x \in s_wrapped' : \E m1 \in Module : \E b1 \in Base[m1], sym \in Symbols(m1) :
         Summarised(m1, b1, sym, x)'
  BY <1>1, Zenon DEF WrapInv
<1>3. DOMAIN sdft_wraps' = s_wrapped'
  BY DEF WrapInv
<1>4. /\ DOMAIN loaded' \subseteq Module /\ \A m \in DOMAIN loaded' : loaded'[m] \in Base[m]
      /\ phase' = "client" => DOMAIN loaded' = {} /\ last'.pc = 0
  BY DEF WrapInv
<1>5. ASSUME "sdft" \in events', NEW m \in DOMAIN loaded', NEW sym \in Symbols(m),
             find(sym.name) # ""
      PROVE  loaded'[m] + sym.target \in s_wrapped'
  BY <1>5 DEF WrapInv
<1>6. last'.pc # 0 => last'.summary = sdft_pre(last.pc)'
  BY DEF sdft_pre
<1> QED
  BY <1>2, <1>3, <1>4, <1>5, <1>6, Zenon DEF WrapInv

\* Every step keeps WrapInv.
LEMMA WrapStep == WrapInv /\ [Next]_vars => WrapInv'
<1> SUFFICES ASSUME WrapInv, [Next]_vars PROVE WrapInv'
  OBVIOUS
<1>1. ASSUME NEW c \in FuncChoice, register_func_sink(c.name, c.module) PROVE WrapInv'
  BY <1>1, WrapSame DEF WrapInv, register_func_sink, wrapVars
<1>2. ASSUME NEW pc \in PcChoice, register_func_sink_pc(pc) PROVE WrapInv'
  BY <1>2, WrapSame DEF WrapInv, register_func_sink_pc, wrapVars
<1>3. ASSUME NEW r \in RangeChoice, register_pc_range_sink(r[1], r[2]) PROVE WrapInv'
  BY <1>3, WrapSame DEF WrapInv, register_pc_range_sink, wrapVars
<1>4. ASSUME NEW value \in Env, NEW opaque \in BOOLEAN, NEW sdft \in SdftEnv,
             init(value, opaque, sdft)
      PROVE WrapInv'
  <2>1. /\ s_wrapped' = s_wrapped /\ sdft_wraps' = sdft_wraps /\ loaded' = loaded
        /\ last' = last /\ phase' = phase /\ phase = "client"
    BY <1>4 DEF init
  <2> QED
    BY <2>1, WrapSame DEF WrapInv
<1>5. CASE StartApp
  BY <1>5, WrapSame DEF WrapInv, StartApp, wrapVars
<1>6. ASSUME NEW m \in Module, NEW base \in Base[m], Load(m, base) PROVE WrapInv'
  BY <1>6, WrapLoad
<1>7. ASSUME NEW m \in Module, Unload(m) PROVE WrapInv'
  <2>1. /\ s_wrapped' = s_wrapped /\ sdft_wraps' = sdft_wraps
        /\ loaded' = [x \in DOMAIN loaded \ {m} |-> loaded[x]]
        /\ events' = events /\ phase' = "app" /\ last'.pc = 0
    BY <1>7 DEF Unload, wrapVars, Nothing
  <2> QED
    BY <2>1, WrapSame DEF WrapInv
<1>8. ASSUME NEW pc \in Pc, Execute(pc) PROVE WrapInv'
  <2>1. /\ s_wrapped' = s_wrapped /\ sdft_wraps' = sdft_wraps /\ loaded' = loaded
        /\ events' = events /\ phase' = "app" /\ last'.pc = pc /\ last'.summary = sdft_pre(pc)
    BY <1>8 DEF Execute, wrapVars
  <2> QED
    BY <2>1, WrapSame DEF WrapInv
<1>9. CASE event_exit
  <2>1. /\ s_wrapped' = s_wrapped /\ sdft_wraps' = sdft_wraps /\ loaded' = loaded
        /\ "sdft" \notin events' /\ phase' = "exited" /\ last'.pc = 0
    BY <1>9 DEF event_exit, wrapVars, Nothing
  <2> QED
    BY <2>1, WrapSame DEF WrapInv
<1>10. CASE UNCHANGED vars
  BY <1>10, WrapSame DEF WrapInv, vars, wrapVars
<1> QED
  BY <1>1, <1>2, <1>3, <1>4, <1>5, <1>6, <1>7, <1>8, <1>9, <1>10 DEF Next, Ended

\* WrapInv holds at the start.
LEMMA WrapStart == SystemInit => WrapInv
<1> SUFFICES ASSUME SystemInit PROVE WrapInv
  OBVIOUS
<1>1. last.pc = 0 /\ s_wrapped = {} /\ DOMAIN sdft_wraps = {} /\ DOMAIN loaded = {} /\ events = {}
  BY DEF SystemInit, Nothing
<1> QED
  BY <1>1 DEF WrapInv

\* A module is placed within the addresses.
LEMMA PlaceFacts ==
    ASSUME NEW m \in Module, NEW b \in Base[m]
    PROVE  /\ b \in Nat /\ b >= 1 /\ Image[m].size \in Nat /\ Image[m].size >= 1
           /\ MaxPc \in Nat /\ b + Image[m].size - 1 <= MaxPc
<1>1. b \in Pc /\ b + Image[m].size - 1 \in Pc
  BY ClientAssumption, Zenon
<1>2. MaxPc \in Nat /\ Image[m].size \in Nat \ {0}
  BY ImageAssumption, Zenon
<1> QED
  BY <1>1, <1>2 DEF Pc

\* Two modules that contain one address are the same, at the same place.
LEMMA SamePlace ==
    ASSUME OwnPlaces, NEW m1 \in Module, NEW m2 \in Module, NEW b1 \in Base[m1],
           NEW b2 \in Base[m2], NEW x \in Int, b1 <= x, x < b1 + Image[m1].size,
           b2 <= x, x < b2 + Image[m2].size
    PROVE  m1 = m2 /\ b1 = b2
<1>1. b1 \in Int /\ b2 \in Int /\ Image[m1].size \in Nat /\ Image[m2].size \in Nat
  BY PlaceFacts
<1>2. ~(b1 + Image[m1].size <= b2 \/ b2 + Image[m2].size <= b1)
  BY <1>1
<1> QED
  BY <1>2, Zenon DEF OwnPlaces

\* A function that has a summary gets one when it is entered, the summary of one of
\* its own names in the module that is loaded there, and a function without one
\* gets none (enum_sym_cb, sdft::find, sdft_pre): for every file of summaries and
\* all modules, as long as no address is used twice.
THEOREM SummariesAreApplied == OwnPlaces => (Spec => []SummariesApplied)
<1> SUFFICES ASSUME OwnPlaces PROVE Spec => []SummariesApplied
  OBVIOUS
<1>1. SystemInit => WrapInv
  BY WrapStart
<1>2. WrapInv => SummariesApplied
  <2> SUFFICES ASSUME WrapInv, last.pc # 0, "sdft" \in events, NEW m \in DOMAIN loaded,
                      last.pc \in Insns(m)
               PROVE  LET own == UNION {SummariesOf(sym.name) :
                                           sym \in {s \in Symbols(m) : Enters(m, s, last.pc)}}
                      IN  IF own = {} THEN last.summary = "" ELSE last.summary \in own
    BY Zenon DEF SummariesApplied
  <2> DEFINE E == {s \in Symbols(m) : Enters(m, s, last.pc)}
             own == UNION {SummariesOf(sym.name) : sym \in E}
  <2>1. m \in Module /\ loaded[m] \in Base[m]
    BY DEF WrapInv
  <2>2. last.pc \in Int /\ loaded[m] <= last.pc /\ last.pc < loaded[m] + Image[m].size
    <3>1. PICK o \in Image[m].insns : last.pc = loaded[m] + o
      BY DEF Insns
    <3>2. o \in 0 .. Image[m].size - 1
      BY <2>1, ImageAssumption, Zenon
    <3> QED
      BY <2>1, <3>1, <3>2, PlaceFacts
  <2>3. ASSUME last.pc \in s_wrapped
        PROVE  \E sym \in E : find(sym.name) # "" /\ sdft_wraps[last.pc] = find(sym.name)
    <3>1. PICK m1 \in Module : \E b1 \in Base[m1], sym \in Symbols(m1) :
                                  Summarised(m1, b1, sym, last.pc)
      BY <2>3, Zenon DEF WrapInv
    <3>2. PICK b1 \in Base[m1], sym \in Symbols(m1) : Summarised(m1, b1, sym, last.pc)
      BY <3>1
    <3>3. sym.target \in 1 .. Image[m1].size - 1
      BY SymbolFacts, Zenon
    <3>4. last.pc = b1 + sym.target
      BY <3>2 DEF Summarised
    <3>5. b1 <= last.pc /\ last.pc < b1 + Image[m1].size
      BY <3>3, <3>4, PlaceFacts
    <3>6. m1 = m /\ b1 = loaded[m]
      BY <2>1, <2>2, <3>5, SamePlace
    <3>7. sym \in E
      BY <3>2, <3>4, <3>6 DEF Enters
    <3> QED
      BY <3>2, <3>7 DEF Summarised
  <2>4. ASSUME NEW sym \in E, find(sym.name) # "" PROVE last.pc \in s_wrapped
    BY <2>4 DEF WrapInv, Enters
  <2>5. last.summary = IF last.pc \in s_wrapped THEN sdft_wraps[last.pc] ELSE ""
    BY DEF WrapInv, sdft_pre
  <2> HIDE DEF E
  <2>6. ASSUME own = {} PROVE last.summary = ""
    <3>1. \A sym \in E : SummariesOf(sym.name) = {}
      BY <2>6
    <3>2. \A sym \in E : find(sym.name) = ""
      BY <3>1, FindIsExact
    <3> QED
      BY <2>3, <2>5, <2>6, <3>2
  <2>7. ASSUME own # {} PROVE last.summary \in own
    <3>1. PICK sym \in E : SummariesOf(sym.name) # {}
      BY <2>7
    <3>2. last.pc \in s_wrapped
      BY <2>4, <3>1, FindIsExact
    <3>3. PICK s \in E : find(s.name) # "" /\ sdft_wraps[last.pc] = find(s.name)
      BY <2>3, <3>2
    <3>4. find(s.name) \in SummariesOf(s.name)
      BY <3>3, FindIsExact
    <3> QED
      BY <2>5, <2>7, <3>2, <3>3, <3>4
  <2> QED
    BY <2>6, <2>7 DEF E
<1> QED
  BY <1>1, <1>2, WrapStep, PTL DEF Spec

-----------------------------------------------------------------------------
(* Function sinks *)

\* Wherever a module that a registration admits has a function of that name, its
\* symbol and its calls name one and the same address: the function is no IFUNC,
\* and a module that has it does not move.
OneAddress ==
    \A c \in FuncChoice : \A m1, m2 \in Module :
       c.module \in {"", m1} /\ c.module \in {"", m2} =>
          \A b1 \in Base[m1], b2 \in Base[m2], s1 \in Symbols(m1), s2 \in Symbols(m2) :
             s1.name = c.name /\ s2.name = c.name => b1 + s1.start = b2 + s2.target

\* The program and its modules suit the function sinks.
SteadySinks == ~LateFuncSinks /\ OwnPlaces /\ OneAddress

Registration ==
    [name   : {c.name : c \in FuncChoice} \cup {""},
     module : {c.module : c \in FuncChoice} \cup {""},
     pc     : Nat]

\* e was registered by address, or by a name and a module the client chose.
Registered(e) ==
    IF e.name = "" THEN e.pc \in Pc
    ELSE \E c \in FuncChoice : c.name = e.name /\ c.module = e.module

\* sym is a function that e asks for, in m.
Matches(e, m, sym) == e.name = sym.name /\ e.module \in {"", m}

\* The address of e is that of a function it asks for.
ResolvedTo(e) ==
    \E m \in Module : \E b \in Base[m], sym \in Symbols(m) :
       Matches(e, m, sym) /\ e.pc = b + sym.start

\* Registrations are resolved when a module they ask for is loaded, and what is
\* resolved is wrapped.
FuncInv ==
    /\ g_pending_func_sinks \in Seq(Registration)
    /\ g_initialized \in BOOLEAN /\ phase \in {"client", "app", "exited"}
    /\ DOMAIN loaded \subseteq Module /\ \A m \in DOMAIN loaded : loaded[m] \in Base[m]
    /\ phase = "app" => g_initialized
    /\ phase = "client" => DOMAIN loaded = {} /\ last.pc = 0
    /\ \A k \in DOMAIN g_pending_func_sinks :
          LET e == g_pending_func_sinks[k]
          IN  /\ Registered(e)
              /\ e.name # "" /\ e.pc # 0 => phase # "client" /\ ResolvedTo(e)
              /\ g_initialized => "func" \in events
              /\ g_initialized /\ e.pc # 0 => e.pc \in func_wraps
              /\ \A m \in DOMAIN loaded : \A sym \in Symbols(m) : Matches(e, m, sym) => e.pc # 0
    /\ last.pc # 0 =>
          /\ phase = "app"
          /\ last.funcs = func_sink_pre(last.pc)
          /\ \E m \in DOMAIN loaded : last.pc \in Insns(m)

\* A step that leaves the registrations and the wraps alone, and loads nothing.
LEMMA FuncSame ==
    ASSUME FuncInv, g_pending_func_sinks' = g_pending_func_sinks, func_wraps' = func_wraps,
           g_initialized' \in BOOLEAN, phase' \in {"client", "app", "exited"},
           DOMAIN loaded' \subseteq DOMAIN loaded,
           \A m \in DOMAIN loaded' : loaded'[m] = loaded[m],
           g_initialized' => g_initialized /\ events' = events,
           phase' = "app" => g_initialized',
           phase' = "client" => phase = "client" /\ last'.pc = 0,
           last'.pc # 0 => /\ phase' = "app" /\ last'.funcs = func_sink_pre(last'.pc)
                           /\ \E m \in DOMAIN loaded' : last'.pc \in Insns(m)'
    PROVE  FuncInv'
<1>1. ASSUME NEW k \in DOMAIN g_pending_func_sinks'
      PROVE  LET e == g_pending_func_sinks'[k]
             IN  /\ Registered(e)
                 /\ e.name # "" /\ e.pc # 0 => phase' # "client" /\ ResolvedTo(e)
                 /\ g_initialized' => "func" \in events'
                 /\ g_initialized' /\ e.pc # 0 => e.pc \in func_wraps'
                 /\ \A m \in DOMAIN loaded' : \A sym \in Symbols(m) :
                       Matches(e, m, sym) => e.pc # 0
  BY <1>1 DEF FuncInv
<1>2. func_sink_pre(last.pc)' = func_sink_pre(last'.pc)
  BY DEF func_sink_pre
<1>3. last'.pc # 0 => /\ phase' = "app" /\ last'.funcs = func_sink_pre(last.pc)'
                      /\ \E m \in DOMAIN loaded' : last'.pc \in Insns(m)'
  BY <1>2
<1>4. /\ DOMAIN loaded' \subseteq Module /\ \A m \in DOMAIN loaded' : loaded'[m] \in Base[m]
      /\ phase' = "client" => DOMAIN loaded' = {} /\ last'.pc = 0
      /\ g_pending_func_sinks' \in Seq(Registration)
  BY DEF FuncInv
<1> QED
  BY <1>1, <1>3, <1>4, Zenon DEF FuncInv

\* A registration e is added by the client, before init.
LEMMA FuncRegister ==
    ASSUME FuncInv, ~g_initialized, phase = "client", NEW e \in Registration, Registered(e),
           e.name # "" => e.pc = 0,
           g_pending_func_sinks' = Append(g_pending_func_sinks, e),
           UNCHANGED <<phase, g_initialized, events, loaded, last>>
    PROVE  FuncInv'
<1> DEFINE p == g_pending_func_sinks
<1>1. p \in Seq(Registration)
  BY DEF FuncInv
<1>2. /\ p' \in Seq(Registration)
      /\ \A k \in DOMAIN p' : (k \in DOMAIN p /\ p'[k] = p[k]) \/ p'[k] = e
  <2>0. p' = Append(p, e)
    OBVIOUS
  <2>1. /\ p' \in Seq(Registration) /\ Len(p') = Len(p) + 1 /\ p'[Len(p) + 1] = e
        /\ \A k \in 1 .. Len(p) : p'[k] = p[k]
    <3>1. /\ Append(p, e) \in Seq(Registration) /\ Len(Append(p, e)) = Len(p) + 1
          /\ Append(p, e)[Len(p) + 1] = e
          /\ \A k \in 1 .. Len(p) : Append(p, e)[k] = p[k]
      BY <1>1, AppendProperties
    <3> QED BY <2>0, <3>1, Zenon
  <2>2. DOMAIN p' = 1 .. Len(p) + 1 /\ DOMAIN p = 1 .. Len(p) /\ Len(p) \in Nat
    BY <1>1, <2>1, LenProperties
  <2> QED
    BY <2>1, <2>2, OrLast, Zenon
<1>3. ~g_initialized' /\ phase' = "client" /\ DOMAIN loaded' = {} /\ last'.pc = 0
  BY DEF FuncInv
<1>4. ASSUME NEW k \in DOMAIN p'
      PROVE  Registered(p'[k]) /\ (p'[k].name # "" => p'[k].pc = 0)
  <2>1. CASE p'[k] = e
    BY <2>1
  <2>2. CASE k \in DOMAIN p /\ p'[k] = p[k]
    BY <2>2 DEF FuncInv
  <2> QED
    BY <1>2, <2>1, <2>2
<1> QED
  BY <1>2, <1>3, <1>4 DEF FuncInv

\* init wraps what was registered by address, and asks for module events when
\* anything was registered.
LEMMA FuncInit ==
    ASSUME FuncInv, NEW value, NEW opaque, NEW sdft, init(value, opaque, sdft)
    PROVE  FuncInv'
<1> DEFINE p == g_pending_func_sinks
<1>1. /\ phase = "client" /\ phase' = phase /\ g_initialized' = TRUE /\ p' = p
      /\ loaded' = loaded /\ last' = last
      /\ func_wraps' = {e.pc : e \in {x \in ToSet(p) : x.pc # 0 /\ x.name = ""}}
      /\ p # <<>> => "func" \in events'
  BY DEF init, libdft_setup, libdft_core_init, sinkVars
<1>2. p \in Seq(Registration) /\ DOMAIN loaded = {} /\ last.pc = 0
  BY <1>1 DEF FuncInv
<1>3. ASSUME NEW k \in DOMAIN p
      PROVE  /\ Registered(p[k]) /\ (p[k].name # "" => p[k].pc = 0)
             /\ "func" \in events'
             /\ p[k].pc # 0 => p[k].pc \in func_wraps'
  <2>1. Registered(p[k]) /\ (p[k].name # "" => p[k].pc = 0)
    BY <1>1 DEF FuncInv
  <2>2. p # <<>>
    BY <1>2
  <2>3. p[k] \in ToSet(p)
    BY DEF ToSet
  <2> QED
    BY <1>1, <2>1, <2>2, <2>3
<1> QED
  BY <1>1, <1>2, <1>3 DEF FuncInv

\* r is e, resolved in m if it was not before and m has the function.
ResolvedIn(e, m, r) ==
    /\ r \in Registration /\ r.name = e.name /\ r.module = e.module
    /\ e.pc # 0 => r = e
    /\ r = e \/ (e.name # "" /\ ResolvedTo(r) /\ r.pc # 0)
    /\ \A sym \in Symbols(m) : Matches(e, m, sym) => r.pc # 0

\* Resolving keeps what is resolved and finds every function the module has.
LEMMA ResolveFacts ==
    ASSUME NEW e \in Registration, NEW m \in Module, NEW base \in Base[m]
    PROVE  ResolvedIn(e, m, Resolve(e, m, base))
<1> DEFINE r == Resolve(e, m, base)
           S == {s \in Symbols(m) : s.name = e.name}
<1>1. CASE e.name = "" \/ e.pc # 0 \/ e.module \notin {"", m} \/ S = {}
  <2>1. r = e
    BY <1>1 DEF Resolve
  <2>2. ASSUME NEW sym \in Symbols(m), Matches(e, m, sym) PROVE e.pc # 0
    <3>1. sym.name # "" /\ sym \in S /\ e.module \in {"", m} /\ e.name # ""
      BY <2>2, SymbolFacts, Zenon DEF Matches
    <3> QED
      BY <1>1, <3>1
  <2> HIDE DEF r
  <2> QED
    BY <2>1, <2>2 DEF ResolvedIn, r
<1>2. CASE ~(e.name = "" \/ e.pc # 0 \/ e.module \notin {"", m} \/ S = {})
  <2> DEFINE s == CHOOSE x \in S : TRUE
  <2>1. r = [e EXCEPT !.pc = base + s.start]
    BY <1>2 DEF Resolve
  <2>2. s \in Symbols(m) /\ s.name = e.name
    BY <1>2
  <2> HIDE DEF s
  <2>3. s.start \in 1 .. Image[m].size - 1
    BY <2>2, SymbolFacts, Zenon
  <2>4. base + s.start \in Nat /\ base + s.start # 0
    BY <2>3, PlaceFacts
  <2>5. r \in Registration /\ r.name = e.name /\ r.module = e.module /\ r.pc = base + s.start
    BY <2>1, <2>4 DEF Registration
  <2>6. Matches(r, m, s)
    BY <1>2, <2>2, <2>5 DEF Matches
  <2>7. ResolvedTo(r)
    BY <2>2, <2>5, <2>6, Zenon DEF ResolvedTo
  <2> HIDE DEF r
  <2> QED
    BY <1>2, <2>4, <2>5, <2>7 DEF ResolvedIn, r
<1> QED
  BY <1>1, <1>2

\* A module is loaded: every registration is resolved once more.
LEMMA FuncLoad ==
    ASSUME FuncInv, NEW m \in Module, NEW base \in Base[m], Load(m, base)
    PROVE  FuncInv'
<1> DEFINE p == g_pending_func_sinks
           r == [k \in DOMAIN p |-> Resolve(p[k], m, base)]
<1>1. /\ phase = "app" /\ phase' = phase /\ events' = events /\ last'.pc = 0
      /\ g_initialized' = g_initialized /\ g_initialized \in BOOLEAN /\ g_initialized
      /\ loaded' = [x \in DOMAIN loaded \cup {m} |-> IF x = m THEN base ELSE loaded[x]]
      /\ func_sink_on_module_load(m, base)
  BY DEF Load, Nothing, FuncInv
<1>2. DOMAIN loaded' \subseteq Module /\ \A x \in DOMAIN loaded' : loaded'[x] \in Base[x]
  BY <1>1 DEF FuncInv
<1>3. \A x \in DOMAIN loaded' : x = m \/ x \in DOMAIN loaded
  BY <1>1
<1>4. p \in Seq(Registration) /\ \A k \in DOMAIN p : p[k] \in Registration
  <2>1. p \in Seq(Registration)
    BY DEF FuncInv
  <2> QED
    BY <2>1
<1>5. CASE DOMAIN p = {}
  <2>1. p = <<>>
    BY <1>4, <1>5
  <2>2. r = <<>>
    BY <1>5
  <2>3. p' = <<>>
    BY <1>1, <2>1, <2>2 DEF func_sink_on_module_load
  <2>4. p' \in Seq(Registration) /\ DOMAIN p' = {}
    BY <2>3
  <2> QED
    BY <1>1, <1>2, <2>4 DEF FuncInv
<1>6. CASE DOMAIN p # {}
  <2>1. "func" \in events
    BY <1>1, <1>6 DEF FuncInv
  <2>2. /\ p' = r
        /\ func_wraps' = func_wraps \cup {r[k].pc : k \in {j \in DOMAIN r : r[j] # p[j]}}
    BY <1>1, <2>1, Zenon DEF func_sink_on_module_load
  <2>3. DOMAIN r = DOMAIN p /\ \A k \in DOMAIN p : r[k] = Resolve(p[k], m, base)
    OBVIOUS
  <2> HIDE DEF r
  <2>4. ASSUME NEW k \in DOMAIN p
        PROVE  /\ r[k] \in Registration /\ Registered(r[k])
               /\ r[k].name # "" /\ r[k].pc # 0 => ResolvedTo(r[k])
               /\ r[k].pc # 0 => r[k].pc \in func_wraps'
               /\ \A x \in DOMAIN loaded' : \A sym \in Symbols(x) :
                     Matches(r[k], x, sym) => r[k].pc # 0
    <3> DEFINE e == p[k]
    <3>1. /\ r[k] \in Registration /\ r[k].name = e.name /\ r[k].module = e.module
          /\ e.pc # 0 => r[k] = e
          /\ r[k] = e \/ (e.name # "" /\ ResolvedTo(r[k]) /\ r[k].pc # 0)
          /\ \A sym \in Symbols(m) : Matches(e, m, sym) => r[k].pc # 0
      <4>1. e \in Registration /\ r[k] = Resolve(e, m, base)
        BY <1>4, <2>3
      <4>2. ResolvedIn(e, m, r[k])
        <5> HIDE DEF e
        <5> QED
          BY <4>1, ResolveFacts
      <4> QED
        BY <4>2 DEF ResolvedIn
    <3>2. /\ Registered(e)
          /\ e.name # "" /\ e.pc # 0 => ResolvedTo(e)
          /\ e.pc # 0 => e.pc \in func_wraps
          /\ \A x \in DOMAIN loaded : \A sym \in Symbols(x) : Matches(e, x, sym) => e.pc # 0
      BY <1>1 DEF FuncInv
    <3>3. \A x, sym : Matches(r[k], x, sym) <=> Matches(e, x, sym)
      BY <3>1 DEF Matches
    <3>4. Registered(r[k])
      <4>1. CASE r[k] = e
        BY <3>2, <4>1
      <4>2. CASE r[k] # e
        <5>1. r[k].name # ""
          BY <3>1, <4>2
        <5>2. \E c \in FuncChoice : c.name = e.name /\ c.module = e.module
          BY <3>1, <3>2, <5>1 DEF Registered
        <5> QED
          BY <3>1, <5>1, <5>2 DEF Registered
      <4> QED
        BY <4>1, <4>2
    <3>5. r[k].name # "" /\ r[k].pc # 0 => ResolvedTo(r[k])
      BY <3>1, <3>2
    <3>6. r[k].pc # 0 => r[k].pc \in func_wraps'
      <4>1. CASE r[k] = e
        BY <2>2, <3>2, <4>1
      <4>2. CASE r[k] # e
        BY <2>2, <2>3, <4>2
      <4> QED
        BY <4>1, <4>2
    <3>7. ASSUME NEW x \in DOMAIN loaded', NEW sym \in Symbols(x), Matches(r[k], x, sym)
          PROVE  r[k].pc # 0
      BY <1>3, <3>1, <3>2, <3>3, <3>7
    <3> QED
      BY <3>1, <3>4, <3>5, <3>6, <3>7
  <2>5. p' \in Seq(Registration)
    <3>1. DOMAIN p = 1 .. Len(p) /\ Len(p) \in Nat
      BY <1>4
    <3>2. p' = [k \in 1 .. Len(p) |-> r[k]] /\ \A k \in 1 .. Len(p) : r[k] \in Registration
      BY <2>2, <2>4, <3>1 DEF r
    <3> QED
      BY <3>1, <3>2, IsASeq
  <2> HIDE DEF p
  <2> QED
    BY <1>1, <1>2, <2>1, <2>2, <2>3, <2>4, <2>5, Zenon DEF FuncInv, p
<1> QED
  BY <1>5, <1>6

\* Every step keeps FuncInv, when all registrations come before init.
LEMMA FuncStep == ~LateFuncSinks /\ FuncInv /\ [Next]_vars => FuncInv'
<1> SUFFICES ASSUME ~LateFuncSinks, FuncInv, [Next]_vars PROVE FuncInv'
  OBVIOUS
<1>0. /\ g_initialized \in BOOLEAN /\ phase \in {"client", "app", "exited"}
      /\ phase = "app" => g_initialized
      /\ phase = "client" => DOMAIN loaded = {} /\ last.pc = 0
      /\ last.pc # 0 =>
          /\ phase = "app"
          /\ last.funcs = func_sink_pre(last.pc)
          /\ \E m \in DOMAIN loaded : last.pc \in Insns(m)
  BY DEF FuncInv
<1>1. ASSUME NEW c \in FuncChoice, register_func_sink(c.name, c.module) PROVE FuncInv'
  <2> DEFINE e == [name |-> c.name, module |-> c.module, pc |-> 0]
  <2>1. e \in Registration /\ Registered(e) /\ (e.name # "" => e.pc = 0)
    BY <1>1 DEF Registration, Registered, register_func_sink
  <2>2. /\ ~g_initialized /\ phase = "client"
        /\ g_pending_func_sinks' = Append(g_pending_func_sinks, e)
        /\ UNCHANGED <<phase, g_initialized, events, loaded, last>>
    BY <1>1 DEF register_func_sink
  <2> HIDE DEF e
  <2> QED
    BY <2>1, <2>2, FuncRegister
<1>2. ASSUME NEW pc \in PcChoice, register_func_sink_pc(pc) PROVE FuncInv'
  <2> DEFINE e == [name |-> "", module |-> "", pc |-> pc]
  <2>1. pc \in Pc /\ pc \in Nat
    <3>1. pc \in Pc /\ MaxPc \in Nat
      BY ClientAssumption, ImageAssumption, Zenon
    <3> QED
      BY <3>1 DEF Pc
  <2>2. e \in Registration /\ Registered(e) /\ (e.name # "" => e.pc = 0)
    BY <2>1 DEF Registration, Registered
  <2>3. /\ ~g_initialized /\ phase = "client"
        /\ g_pending_func_sinks' = Append(g_pending_func_sinks, e)
        /\ UNCHANGED <<phase, g_initialized, events, loaded, last>>
    BY <1>2 DEF register_func_sink_pc
  <2> HIDE DEF e
  <2> QED
    BY <2>2, <2>3, FuncRegister
<1>3. ASSUME NEW r \in RangeChoice, register_pc_range_sink(r[1], r[2]) PROVE FuncInv'
  <2>1. UNCHANGED <<phase, g_initialized, events, g_pending_func_sinks, func_wraps, loaded, last>>
        /\ phase = "client"
    BY <1>3 DEF register_pc_range_sink, wrapVars
  <2> QED
    BY <1>0, <2>1, FuncSame
<1>4. ASSUME NEW value \in Env, NEW opaque \in BOOLEAN, NEW sdft \in SdftEnv,
             init(value, opaque, sdft)
      PROVE FuncInv'
  BY <1>4, FuncInit
<1>5. CASE StartApp
  <2>1. /\ UNCHANGED <<g_initialized, events, g_pending_func_sinks, func_wraps, loaded, last>>
        /\ phase = "client" /\ phase' = "app" /\ g_initialized
    BY <1>5 DEF StartApp, wrapVars, sinkVars
  <2> QED
    BY <1>0, <2>1, FuncSame
<1>6. ASSUME NEW m \in Module, NEW base \in Base[m], Load(m, base) PROVE FuncInv'
  BY <1>6, FuncLoad
<1>7. ASSUME NEW m \in Module, Unload(m) PROVE FuncInv'
  <2>1. /\ UNCHANGED <<phase, g_initialized, events, g_pending_func_sinks, func_wraps>>
        /\ loaded' = [x \in DOMAIN loaded \ {m} |-> loaded[x]]
        /\ phase = "app" /\ last'.pc = 0
    BY <1>7 DEF Unload, wrapVars, sinkVars, Nothing
  <2> QED
    BY <1>0, <2>1, FuncSame
<1>8. ASSUME NEW pc \in Pc, Execute(pc) PROVE FuncInv'
  <2>1. /\ UNCHANGED <<phase, g_initialized, events, g_pending_func_sinks, func_wraps, loaded>>
        /\ phase = "app" /\ last'.pc = pc /\ last'.funcs = func_sink_pre(pc)
        /\ \E m \in DOMAIN loaded : pc \in Insns(m)
    BY <1>8 DEF Execute, wrapVars, sinkVars
  <2>2. \A m : Insns(m)' = Insns(m)
    BY <2>1 DEF Insns
  <2> QED
    BY <1>0, <2>1, <2>2, FuncSame
<1>9. CASE event_exit
  <2>1. /\ UNCHANGED <<g_pending_func_sinks, func_wraps, loaded>>
        /\ phase' = "exited" /\ g_initialized' = FALSE /\ last'.pc = 0
    BY <1>9 DEF event_exit, wrapVars, sinkVars, Nothing
  <2> QED
    BY <1>0, <2>1, FuncSame
<1>10. CASE UNCHANGED vars
  <2>1. UNCHANGED <<phase, g_initialized, events, g_pending_func_sinks, func_wraps, loaded, last>>
    BY <1>10 DEF vars, wrapVars, sinkVars
  <2>2. \A m : Insns(m)' = Insns(m)
    BY <2>1 DEF Insns
  <2> QED
    BY <1>0, <2>1, <2>2, FuncSame
<1> QED
  BY <1>1, <1>2, <1>3, <1>4, <1>5, <1>6, <1>7, <1>8, <1>9, <1>10 DEF Next, Ended

\* OneAddress for one registration and two modules.
LEMMA OneAddressAt ==
    ASSUME OneAddress, NEW c \in FuncChoice, NEW m1 \in Module, NEW m2 \in Module,
           c.module \in {"", m1}, c.module \in {"", m2},
           NEW b1 \in Base[m1], NEW b2 \in Base[m2],
           NEW s1 \in Symbols(m1), NEW s2 \in Symbols(m2), s1.name = c.name, s2.name = c.name
    PROVE  b1 + s1.start = b2 + s2.target
<1>1. \A x1, x2 \in Module :
         c.module \in {"", x1} /\ c.module \in {"", x2} =>
            \A y1 \in Base[x1], y2 \in Base[x2], t1 \in Symbols(x1), t2 \in Symbols(x2) :
               t1.name = c.name /\ t2.name = c.name => y1 + t1.start = y2 + t2.target
  BY DEF OneAddress
<1>2. \A y1 \in Base[m1], y2 \in Base[m2], t1 \in Symbols(m1), t2 \in Symbols(m2) :
         t1.name = c.name /\ t2.name = c.name => y1 + t1.start = y2 + t2.target
  BY <1>1
<1> QED
  BY <1>2

\* A function sink is called on every call of the function it was registered for,
\* in whatever order modules come and go, and on nothing else
\* (register_func_sink, func_sink_on_module_load, func_sink_pre), when it was
\* registered before init and the function has one address.
THEOREM SinksOfFunctionsFire == SteadySinks => (Spec => []FuncSinksFire)
<1> SUFFICES ASSUME SteadySinks PROVE Spec => []FuncSinksFire
  OBVIOUS
<1> USE DEF SteadySinks
<1>1. SystemInit => FuncInv
  <2> SUFFICES ASSUME SystemInit PROVE FuncInv
    OBVIOUS
  <2>1. /\ last.pc = 0 /\ phase = "client" /\ g_initialized = FALSE /\ DOMAIN loaded = {}
        /\ g_pending_func_sinks = <<>>
    BY DEF SystemInit, Nothing
  <2>2. g_pending_func_sinks \in Seq(Registration) /\ DOMAIN g_pending_func_sinks = {}
    BY <2>1
  <2> QED
    BY <2>1, <2>2 DEF FuncInv
<1>2. FuncInv => FuncSinksFire
  <2> SUFFICES ASSUME FuncInv, last.pc # 0
               PROVE  last.funcs = {k \in DOMAIN g_pending_func_sinks :
                                       Asks(g_pending_func_sinks[k], last.pc)}
    BY DEF FuncSinksFire
  <2> DEFINE p == g_pending_func_sinks
             x == last.pc
  <2>1. /\ g_initialized /\ last.funcs = func_sink_pre(x)
        /\ \E m \in DOMAIN loaded : x \in Insns(m)
        /\ DOMAIN loaded \subseteq Module /\ \A m \in DOMAIN loaded : loaded[m] \in Base[m]
    BY DEF FuncInv
  <2>2. PICK m \in DOMAIN loaded : x \in Insns(m)
    BY <2>1
  <2>3. m \in Module /\ loaded[m] \in Base[m]
    BY <2>1
  <2>4. x \in Int /\ loaded[m] <= x /\ x < loaded[m] + Image[m].size
    <3>1. PICK o \in Image[m].insns : x = loaded[m] + o
      BY <2>2 DEF Insns
    <3>2. o \in 0 .. Image[m].size - 1
      BY <2>3, ImageAssumption, Zenon
    <3> QED
      BY <2>3, <3>1, <3>2, PlaceFacts
  <2>5. ASSUME NEW k \in DOMAIN p PROVE p[k].pc = x <=> Asks(p[k], x)
    <3> DEFINE e == p[k]
    <3>1. /\ Registered(e)
          /\ e.name # "" /\ e.pc # 0 => ResolvedTo(e)
          /\ \A m1 \in DOMAIN loaded : \A sym \in Symbols(m1) : Matches(e, m1, sym) => e.pc # 0
      BY DEF FuncInv
    <3> HIDE DEF e
    <3>2. ASSUME e.pc = x PROVE Asks(e, x)
      <4>1. CASE e.name = ""
        BY <3>2, <4>1 DEF Asks
      <4>2. CASE e.name # ""
        <5>1. PICK m1 \in Module : \E b \in Base[m1], sym \in Symbols(m1) :
                 Matches(e, m1, sym) /\ e.pc = b + sym.start
          BY <3>1, <3>2, <4>2 DEF ResolvedTo
        <5>2. PICK b \in Base[m1], sym \in Symbols(m1) :
                 Matches(e, m1, sym) /\ e.pc = b + sym.start
          BY <5>1
        <5>3. sym.start \in 1 .. Image[m1].size - 1
          BY SymbolFacts, Zenon
        <5>4. b <= x /\ x < b + Image[m1].size
          BY <3>2, <5>2, <5>3, PlaceFacts
        <5>5. m1 = m /\ b = loaded[m]
          BY <2>3, <2>4, <5>4, SamePlace
        <5>6. PICK c \in FuncChoice : c.name = e.name /\ c.module = e.module
          BY <3>1, <4>2 DEF Registered
        <5>7. b + sym.start = b + sym.target
          <6>1. c.module \in {"", m1} /\ sym.name = c.name
            BY <5>2, <5>6 DEF Matches
          <6> QED
            BY <6>1, OneAddressAt
        <5>8. Enters(m, sym, x)
          BY <3>2, <5>2, <5>5, <5>7 DEF Enters
        <5> QED
          BY <5>2, <5>5, <5>8 DEF Asks, Matches
      <4> QED
        BY <4>1, <4>2
    <3>3. ASSUME Asks(e, x), e.name = "" PROVE e.pc = x
      <4>1. \A m1 \in DOMAIN loaded : \A sym \in Symbols(m1) : sym.name # ""
        BY <2>1, SymbolFacts, Zenon
      <4> QED
        BY <3>3, <4>1 DEF Asks
    <3>4. ASSUME Asks(e, x), e.name # "" PROVE e.pc = x
      <4>1. PICK m2 \in DOMAIN loaded : \E sym \in Symbols(m2) :
               e.name = sym.name /\ e.module \in {"", m2} /\ Enters(m2, sym, x)
        BY <3>4 DEF Asks
      <4>2. PICK s2 \in Symbols(m2) :
               e.name = s2.name /\ e.module \in {"", m2} /\ Enters(m2, s2, x)
        BY <4>1
      <4>3. e.pc # 0
        BY <3>1, <4>2 DEF Matches
      <4>4. PICK m1 \in Module : \E b \in Base[m1], sym \in Symbols(m1) :
               Matches(e, m1, sym) /\ e.pc = b + sym.start
        BY <3>1, <3>4, <4>3 DEF ResolvedTo
      <4>5. PICK b \in Base[m1], sym \in Symbols(m1) :
               Matches(e, m1, sym) /\ e.pc = b + sym.start
        BY <4>4
      <4>6. PICK c \in FuncChoice : c.name = e.name /\ c.module = e.module
        BY <3>1, <3>4 DEF Registered
      <4>7. m2 \in Module /\ loaded[m2] \in Base[m2]
        BY <2>1
      <4>8. b + sym.start = loaded[m2] + s2.target
        <5>1. /\ c.module \in {"", m1} /\ sym.name = c.name
              /\ c.module \in {"", m2} /\ s2.name = c.name
          BY <4>2, <4>5, <4>6 DEF Matches
        <5>2. ASSUME NEW b2 \in Base[m2] PROVE b + sym.start = b2 + s2.target
          <6>1. m2 \in Module /\ OneAddress
            BY <4>7
          <6> QED
            BY <5>1, <6>1, OneAddressAt, ZenonT(60)
        <5> QED
          BY <4>7, <5>2
      <4> QED
        BY <4>2, <4>5, <4>8 DEF Enters
    <3> QED
      BY <3>2, <3>3, <3>4 DEF e
  <2>6. ASSUME NEW k \in DOMAIN p, p[k].pc = x PROVE x \in func_wraps
    BY <2>1, <2>6 DEF FuncInv
  <2>7. func_sink_pre(x) = {k \in DOMAIN p : p[k].pc = x}
    BY <2>6 DEF func_sink_pre
  <2> QED
    BY <2>1, <2>5, <2>7
<1> QED
  BY <1>1, <1>2, FuncStep, PTL DEF Spec

-----------------------------------------------------------------------------
(* Images *)

\* x is an offset of one of the files.
LEMMA OffsetsOf ==
    \A files, x : x \in Offsets(files) <=> \E f \in files : x \in ListedIn(f, s_policy)
  BY DEF Offsets, ListedIn

\* The files of m whose header was accepted.
Headed(m) == {f \in ToSet(Image[m].files) : f.header}

\* What the image of a module holds.
ImageHolds(m, base, im) ==
    /\ im.low = base /\ im.high = base + Image[m].size - 1
    /\ im.mnt_sorted \in Seq(Int)
    /\ \A x \in ToSet(im.mnt_sorted) : x \in Offsets(Headed(m))
    /\ \A x \in Offsets(Accepted(m)) :
          x \in ToSet(im.mnt_sorted) /\ Ordered(im.mnt_sorted, LessNumbers)

\* The image made when a module is loaded lists what a file lists, and all that the
\* accepted one does.
LEMMA ImageFacts ==
    ASSUME NEW m \in Module, NEW base
    PROVE  ImageHolds(m, base, ImageAt(m, base))
<1> DEFINE files == Image[m].files
           n == Len(files)
           im == ImageAt(m, base)
           I == {i \in 1 .. n : files[i].header /\ files[i].have = Len(files[i].body)}
           k == IF I # {} THEN Min(I) ELSE 0
<1>1. files \in Seq(ToSet(files)) /\ \A i \in DOMAIN files : MntFile(files[i])
  BY ImageAssumption, Zenon
<1>2. n \in Nat /\ DOMAIN files = 1 .. n
  BY <1>1
<1>3. im.low = base /\ im.high = base + Image[m].size - 1
      /\ im.mnt_sorted = ReadCandidates(files, s_policy)
  BY DEF ImageAt
<1>4. PICK r \in Tried(files, s_policy, n) : ReadCandidates(files, s_policy) = r.mnt
  <2> HIDE DEF files
  <2>1. \A i \in 1 .. Len(files) : MntFile(files[i])
    BY <1>1, <1>2
  <2> QED
    BY <1>2, <2>1, ReadFacts
<1>5. Accepted(m) = IF k = 0 THEN {} ELSE {files[k]}
  BY DEF Accepted, SelectInSeq
<1>6. \A i \in 1 .. n : i \in I <=> Complete(files[i])
  BY DEF Complete
<1>7. IF I = {} THEN k = 0 ELSE k \in I /\ \A j \in I : k <= j
  <2>1. I \subseteq 1 .. n
    OBVIOUS
  <2> HIDE DEF I, n
  <2> QED
    BY <1>2, <2>1, LeastPlace
<1>8. \A i \in I : i \in 1 .. n
  OBVIOUS
<1>9. r.mnt \in Seq(Int)
  BY <1>4, Zenon DEF Tried
<1>10. /\ \A x \in ToSet(r.mnt) : \E i \in 1 .. n :
             files[i].header /\ x \in ListedIn(files[i], s_policy)
       /\ ~r.found => \A i \in 1 .. n : ~Complete(files[i])
       /\ r.found =>
              /\ Ordered(r.mnt, LessNumbers)
              /\ \E i \in 1 .. n :
                    /\ Complete(files[i]) /\ \A j \in 1 .. i - 1 : ~Complete(files[j])
                    /\ ListedIn(files[i], s_policy) \subseteq ToSet(r.mnt)
  BY <1>4, Zenon DEF Tried
<1>11. \A i \in 1 .. n : files[i] \in ToSet(files)
  BY <1>2 DEF ToSet
<1> HIDE DEF files, n, im, I, k
<1>12. ASSUME NEW x \in ToSet(r.mnt) PROVE x \in Offsets(Headed(m))
  <2>1. PICK i \in 1 .. n : files[i].header /\ x \in ListedIn(files[i], s_policy)
    BY <1>10
  <2>2. files[i] \in Headed(m)
    BY <1>11, <2>1 DEF Headed, files
  <2> QED
    BY <2>1, <2>2, OffsetsOf
<1>13. ASSUME NEW x \in Offsets(Accepted(m))
       PROVE  x \in ToSet(r.mnt) /\ Ordered(r.mnt, LessNumbers)
  <2>1. k # 0 /\ x \in ListedIn(files[k], s_policy)
    BY <1>5, <1>13, OffsetsOf
  <2>2. k \in 1 .. n /\ Complete(files[k]) /\ \A j \in 1 .. n : Complete(files[j]) => k <= j
    BY <1>6, <1>7, <1>8, <2>1
  <2>3. r.found
    BY <1>10, <2>2
  <2>4. PICK i \in 1 .. n :
           /\ Complete(files[i]) /\ \A j \in 1 .. i - 1 : ~Complete(files[j])
           /\ ListedIn(files[i], s_policy) \subseteq ToSet(r.mnt)
    BY <1>10, <2>3
  <2>5. i = k
    <3>1. k <= i
      BY <2>2, <2>4
    <3>2. ~(k \in 1 .. i - 1)
      BY <2>2, <2>4
    <3> QED
      BY <1>2, <2>2, <3>1, <3>2
  <2> QED
    BY <1>10, <2>1, <2>3, <2>4, <2>5
<1> QED
  BY <1>3, <1>4, <1>9, <1>12, <1>13, Zenon DEF ImageHolds, im

\* The images of the modules that are loaded.
Kept == {ImageAt(m, loaded[m]) : m \in DOMAIN loaded}

\* The consumer knows the modules that are loaded, no others, and its cache is one
\* of them.
ImageInv ==
    /\ DOMAIN loaded \subseteq Module /\ \A m \in DOMAIN loaded : loaded[m] \in Base[m]
    /\ \A m1, m2 \in DOMAIN loaded :
          m1 # m2 => loaded[m1] + Image[m1].size <= loaded[m2] \/
                     loaded[m2] + Image[m2].size <= loaded[m1]
    /\ phase \in {"client", "app", "exited"} /\ g_initialized \in BOOLEAN
    /\ s_policy \in {"off", "lean", "sound", "v2_perpc"}
    /\ phase = "client" => DOMAIN loaded = {}
    /\ phase = "app" => g_initialized
    /\ g_initialized /\ s_policy # "off" => "mnt" \in events
    /\ s_images \in Seq(Kept)
    /\ ToSet(s_images) = IF s_policy = "off" THEN {} ELSE Kept
    /\ DistinctLow(s_images)
    /\ s_last_img = NoImage \/ s_last_img \in ToSet(s_images)

\* Loading a module adds its image.
LEMMA ImageLoad ==
    ASSUME ImageInv, NEW m \in Module, NEW base \in Base[m], Load(m, base)
    PROVE  ImageInv'
<1>1. /\ phase = "app" /\ phase' = phase /\ events' = events /\ g_initialized' = g_initialized
      /\ s_policy' = s_policy /\ m \notin DOMAIN loaded /\ Free(m, base)
      /\ loaded' = [x \in DOMAIN loaded \cup {m} |-> IF x = m THEN base ELSE loaded[x]]
      /\ on_module_load(m, base)
  BY DEF Load
<1>2. /\ DOMAIN loaded' = DOMAIN loaded \cup {m} /\ loaded'[m] = base
      /\ \A x \in DOMAIN loaded : loaded'[x] = loaded[x] /\ x # m
  BY <1>1
<1>3. DOMAIN loaded' \subseteq Module /\ \A x \in DOMAIN loaded' : loaded'[x] \in Base[x]
  BY <1>2 DEF ImageInv
<1>4. \A x \in DOMAIN loaded :
         base + Image[m].size <= loaded[x] \/ loaded[x] + Image[x].size <= base
  BY <1>1 DEF Free
<1>5. ASSUME NEW m1 \in DOMAIN loaded', NEW m2 \in DOMAIN loaded', m1 # m2
      PROVE  loaded'[m1] + Image[m1].size <= loaded'[m2] \/
             loaded'[m2] + Image[m2].size <= loaded'[m1]
  <2>1. CASE m1 = m
    BY <1>2, <1>4, <1>5, <2>1
  <2>2. CASE m2 = m
    BY <1>2, <1>4, <1>5, <2>2
  <2>3. CASE m1 # m /\ m2 # m
    <3>1. m1 \in DOMAIN loaded /\ m2 \in DOMAIN loaded
      BY <1>2, <2>3
    <3> QED
      BY <1>2, <1>5, <3>1 DEF ImageInv
  <2> QED
    BY <2>1, <2>2, <2>3
<1>6. \A x, b : ImageAt(x, b)' = ImageAt(x, b)
  BY <1>1, Zenon DEF ImageAt
<1>7. Kept' = Kept \cup {ImageAt(m, base)}
  <2>1. Kept' = {ImageAt(x, loaded'[x]) : x \in DOMAIN loaded'}
    BY <1>6 DEF Kept
  <2> QED
    BY <1>2, <2>1 DEF Kept
<1>8. /\ phase' \in {"client", "app", "exited"} /\ g_initialized' \in BOOLEAN
      /\ s_policy' \in {"off", "lean", "sound", "v2_perpc"}
      /\ phase' # "client" /\ (phase' = "app" => g_initialized')
      /\ g_initialized' /\ s_policy' # "off" => "mnt" \in events'
  BY <1>1 DEF ImageInv
<1>9. CASE s_policy = "off"
  <2>1. s_images' = s_images /\ s_last_img' = s_last_img
    BY <1>1, <1>9 DEF on_module_load
  <2>2. s_images' \in Seq(Kept')
    <3>1. s_images \in Seq(Kept) /\ Kept \subseteq Kept'
      BY <1>7 DEF ImageInv
    <3> QED
      BY <2>1, <3>1, SeqMonotonic
  <2>3. /\ ToSet(s_images)' = {} /\ DistinctLow(s_images)'
        /\ s_last_img' = NoImage \/ s_last_img' \in ToSet(s_images)'
    BY <1>9, <2>1 DEF ImageInv, DistinctLow, ToSet
  <2>4. NoImage' = NoImage
    BY DEF NoImage
  <2> QED
    BY <1>1, <1>3, <1>5, <1>8, <1>9, <2>2, <2>3, <2>4, Zenon DEF ImageInv
<1>10. CASE s_policy # "off"
  <2> DEFINE im == ImageAt(m, base)
             s == s_images
             u == Append(s, im)
             n == Len(s)
  <2>1. s_images' = u /\ s_last_img' = NoImage
    BY <1>1, <1>10 DEF on_module_load
  <2>2. im \in Kept' /\ Kept \subseteq Kept'
    BY <1>7
  <2>3. s \in Seq(Kept')
    <3>1. s_images \in Seq(Kept)
      BY DEF ImageInv
    <3> QED
      BY <2>2, <3>1, SeqMonotonic
  <2> HIDE DEF im
  <2>4. /\ u \in Seq(Kept') /\ Len(u) = n + 1 /\ u[n + 1] = im
        /\ \A i \in 1 .. n : u[i] = s[i]
    BY <2>2, <2>3, AppendProperties
  <2>5. n \in Nat /\ DOMAIN s = 1 .. n /\ DOMAIN u = 1 .. n + 1
    <3>1. n \in Nat /\ DOMAIN s = 1 .. n
      BY <2>3, LenProperties
    <3>2. DOMAIN u = 1 .. Len(u)
      BY <2>4, LenProperties
    <3> QED
      BY <2>4, <3>1, <3>2
  <2> HIDE DEF u, n
  <2>6. ToSet(u) = ToSet(s) \cup {im}
    <3>1. ToSet(u) = {u[i] : i \in 1 .. n + 1} /\ ToSet(s) = {s[i] : i \in 1 .. n}
      BY <2>5, Zenon DEF ToSet
    <3>2. n + 1 \in 1 .. n + 1 /\ \A i \in 1 .. n : i \in 1 .. n + 1
      BY <2>5
    <3>3. \A i \in 1 .. n + 1 : i \in 1 .. n \/ i = n + 1
      BY <2>5, OrLast
    <3> QED
      BY <2>4, <3>1, <3>2, <3>3
  <2>7. \A x \in ToSet(s) : x.low # base
    <3>1. ASSUME NEW x \in Kept PROVE x.low # base
      <4>1. PICK y \in DOMAIN loaded : x = ImageAt(y, loaded[y])
        BY DEF Kept
      <4>2. x.low = loaded[y] /\ y \in Module /\ loaded[y] \in Base[y]
        BY <4>1 DEF ImageAt, ImageInv
      <4>3. base \in Nat /\ Image[m].size >= 1 /\ Image[m].size \in Nat
        BY PlaceFacts
      <4>4. loaded[y] \in Nat /\ Image[y].size >= 1 /\ Image[y].size \in Nat
        BY <4>2, PlaceFacts
      <4> QED
        BY <1>4, <4>2, <4>3, <4>4
    <3> QED
      BY <1>10, <3>1 DEF ImageInv
  <2>8. im.low = base
    BY DEF im, ImageAt
  <2>9. DistinctLow(u)
    <3>1. ASSUME NEW i \in 1 .. n + 1, NEW j \in 1 .. n + 1, u[i].low = u[j].low PROVE i = j
      <4>1. \A h \in 1 .. n : s[h] \in ToSet(s) /\ s[h].low # base
        BY <2>5, <2>7 DEF ToSet
      <4>2. \A h1, h2 \in 1 .. n : s[h1].low = s[h2].low => h1 = h2
        BY DEF ImageInv, DistinctLow, n
      <4>3. \A h \in 1 .. n + 1 : h \in 1 .. n \/ h = n + 1
        BY <2>5, OrLast
      <4> QED
        BY <2>4, <2>8, <3>1, <4>1, <4>2, <4>3
    <3> QED
      BY <2>4, <3>1 DEF DistinctLow
  <2>10. ToSet(s_images)' = Kept' /\ DistinctLow(s_images)'
    <3>1. ToSet(s_images)' = ToSet(u) /\ (DistinctLow(s_images)' <=> DistinctLow(u))
      BY <2>1 DEF ToSet, DistinctLow
    <3> QED
      BY <1>7, <1>10, <2>6, <2>9, <3>1 DEF ImageInv, im
  <2>11. NoImage' = NoImage
    BY DEF NoImage
  <2>12. s_images' \in Seq(Kept')
    BY <2>1, <2>4
  <2> QED
    BY <1>1, <1>3, <1>5, <1>8, <1>10, <2>1, <2>10, <2>11, <2>12, Zenon DEF ImageInv
<1> QED
  BY <1>9, <1>10

\* A list of elements of T is a list over T.
LEMMA SeqOver ==
    ASSUME NEW S, NEW T, NEW s \in Seq(S), ToSet(s) \subseteq T
    PROVE  s \in Seq(T)
<1>1. Len(s) \in Nat /\ DOMAIN s = 1 .. Len(s) /\ s = [i \in 1 .. Len(s) |-> s[i]]
  OBVIOUS
<1>2. \A i \in 1 .. Len(s) : s[i] \in T
  BY <1>1 DEF ToSet
<1> QED
  BY <1>1, <1>2, IsASeq

\* Unloading a module removes its image, and the cache with it.
LEMMA ImageUnload ==
    ASSUME ImageInv, NEW m \in Module, Unload(m)
    PROVE  ImageInv'
<1> DEFINE s == s_images
           base == loaded[m]
           u == Remaining(s, base)
<1>1. /\ phase = "app" /\ phase' = phase /\ events' = events /\ g_initialized' = g_initialized
      /\ m \in DOMAIN loaded
      /\ loaded' = [x \in DOMAIN loaded \ {m} |-> loaded[x]]
      /\ IF "mnt" \in events THEN on_module_unload(loaded[m]) ELSE UNCHANGED mntVars
  BY DEF Unload
<1>2. s_policy' = s_policy
  BY <1>1 DEF on_module_unload, mntVars
<1>3. /\ DOMAIN loaded' = DOMAIN loaded \ {m}
      /\ \A x \in DOMAIN loaded' : loaded'[x] = loaded[x] /\ x \in DOMAIN loaded
  BY <1>1
<1>4. /\ DOMAIN loaded' \subseteq Module /\ \A x \in DOMAIN loaded' : loaded'[x] \in Base[x]
      /\ \A m1, m2 \in DOMAIN loaded' :
            m1 # m2 => loaded'[m1] + Image[m1].size <= loaded'[m2] \/
                       loaded'[m2] + Image[m2].size <= loaded'[m1]
  BY <1>3 DEF ImageInv
<1>5. \A x, b : ImageAt(x, b)' = ImageAt(x, b)
  BY <1>2, Zenon DEF ImageAt
<1>6. \A x \in DOMAIN loaded : ImageAt(x, loaded[x]).low = loaded[x] /\ (x # m => loaded[x] # base)
  <2>1. ASSUME NEW x \in DOMAIN loaded, x # m PROVE loaded[x] # base
    <3>1. x \in Module /\ loaded[x] \in Base[x] /\ base \in Base[m]
      BY <1>1 DEF ImageInv
    <3>2. loaded[x] + Image[x].size <= base \/ base + Image[m].size <= loaded[x]
      BY <1>1, <2>1 DEF ImageInv
    <3>3. loaded[x] \in Nat /\ Image[x].size \in Nat /\ Image[x].size >= 1
      BY <3>1, PlaceFacts
    <3>4. base \in Nat /\ Image[m].size \in Nat /\ Image[m].size >= 1
      BY <3>1, PlaceFacts
    <3> QED
      BY <3>2, <3>3, <3>4
  <2> QED
    BY <2>1 DEF ImageAt
<1>7. Kept' = {x \in Kept : x.low # base}
  <2>1. Kept' = {ImageAt(x, loaded'[x]) : x \in DOMAIN loaded'}
    BY <1>5 DEF Kept
  <2>2. ASSUME NEW z \in Kept' PROVE z \in Kept /\ z.low # base
    <3>1. PICK x \in DOMAIN loaded' : z = ImageAt(x, loaded'[x])
      BY <2>1
    <3>2. x \in DOMAIN loaded /\ x # m /\ z = ImageAt(x, loaded[x])
      BY <1>3, <3>1
    <3> QED
      BY <1>6, <3>2 DEF Kept
  <2>3. ASSUME NEW z \in Kept, z.low # base PROVE z \in Kept'
    <3>1. PICK x \in DOMAIN loaded : z = ImageAt(x, loaded[x])
      BY DEF Kept
    <3>2. x # m
      BY <1>6, <2>3, <3>1
    <3>3. x \in DOMAIN loaded' /\ loaded'[x] = loaded[x]
      BY <1>3, <3>2
    <3> QED
      BY <2>1, <3>1, <3>3
  <2> QED
    BY <2>2, <2>3, Zenon
<1>8. ImageAt(m, base) \in Kept /\ ImageAt(m, base).low = base
  BY <1>1, <1>6 DEF Kept
<1>9. /\ phase' \in {"client", "app", "exited"} /\ g_initialized' \in BOOLEAN
      /\ s_policy' \in {"off", "lean", "sound", "v2_perpc"}
      /\ phase' # "client" /\ (phase' = "app" => g_initialized')
      /\ g_initialized' /\ s_policy' # "off" => "mnt" \in events'
      /\ NoImage' = NoImage
  BY <1>1, <1>2 DEF ImageInv, NoImage
<1>10. s \in Seq(Kept) /\ DistinctLow(s)
  BY DEF ImageInv
<1>11. /\ ToSet(s) = IF s_policy = "off" THEN {} ELSE Kept
       /\ s_last_img = NoImage \/ s_last_img \in ToSet(s)
  BY DEF ImageInv
<1>12. CASE "mnt" \in events
  <2>1. s_images' = u /\ s_last_img' = IF u = s THEN s_last_img ELSE NoImage
    BY <1>1, <1>12 DEF on_module_unload, Remaining
  <2> HIDE DEF s, base
  <2>2. u \in Seq(Kept) /\ WithoutImage(s, base, u)
    BY <1>10, RemoveImage
  <2> HIDE DEF u
  <2>3. /\ ToSet(u) = {x \in ToSet(s) : x.low # base} /\ DistinctLow(u)
        /\ (\E x \in ToSet(s) : x.low = base) => u # s
    BY <2>2 DEF WithoutImage
  <2>4. ToSet(u) = IF s_policy = "off" THEN {} ELSE Kept'
    BY <1>7, <1>11, <2>3
  <2>5. u \in Seq(Kept')
    <3>1. ToSet(u) \subseteq Kept'
      BY <2>4
    <3> QED
      BY <2>2, <3>1, SeqOver
  <2>6. s_last_img' = NoImage
    <3>1. CASE s_policy = "off"
      BY <1>11, <2>1, <3>1
    <3>2. CASE s_policy # "off"
      BY <1>8, <1>11, <2>1, <2>3, <3>2
    <3> QED
      BY <3>1, <3>2
  <2>7. ToSet(s_images)' = ToSet(u) /\ (DistinctLow(s_images)' <=> DistinctLow(u))
    BY <2>1 DEF ToSet, DistinctLow
  <2> QED
    BY <1>2, <1>4, <1>9, <2>1, <2>3, <2>4, <2>5, <2>6, <2>7, Zenon DEF ImageInv
<1>13. CASE "mnt" \notin events
  <2>1. s_images' = s_images /\ s_last_img' = s_last_img
    BY <1>1, <1>13 DEF mntVars
  <2>2. s_policy = "off"
    BY <1>1, <1>13 DEF ImageInv
  <2> HIDE DEF s
  <2>3. s \in Seq(Kept')
    <3>1. ToSet(s) \subseteq Kept'
      BY <1>11, <2>2
    <3> QED
      BY <1>10, <3>1, SeqOver
  <2>4. ToSet(s_images)' = ToSet(s) /\ (DistinctLow(s_images)' <=> DistinctLow(s))
    BY <2>1 DEF ToSet, DistinctLow, s
  <2>5. s_images' = s /\ s_last_img' = NoImage /\ ToSet(s) = {}
    BY <1>11, <2>1, <2>2 DEF s
  <2> QED
    BY <1>2, <1>4, <1>9, <1>10, <2>2, <2>3, <2>4, <2>5, Zenon DEF ImageInv
<1> QED
  BY <1>12, <1>13

\* The image is_mnt consults is one of them.
LEMMA ImageOfKept ==
    ASSUME ImageInv, NEW pc
    PROVE  ImageOf(pc) = NoImage \/
           (ImageOf(pc) \in ToSet(s_images) /\ Within(ImageOf(pc), pc) /\ s_policy # "off")
<1> DEFINE I == {i \in 1 .. Len(s_images) : Within(s_images[i], pc)}
           k == IF I # {} THEN Min(I) ELSE 0
<1>1. ImageOf(pc) = IF s_policy = "off" THEN NoImage
                    ELSE IF Within(s_last_img, pc) THEN s_last_img
                    ELSE IF k = 0 THEN NoImage ELSE s_images[k]
  BY DEF ImageOf, SelectInSeq
<1>2. s_images \in Seq(Kept)
  BY DEF ImageInv
<1>3. Len(s_images) \in Nat /\ DOMAIN s_images = 1 .. Len(s_images)
  BY <1>2
<1>4. IF I = {} THEN k = 0 ELSE k \in I /\ \A j \in I : k <= j
  <2>1. I \subseteq 1 .. Len(s_images)
    OBVIOUS
  <2> HIDE DEF I
  <2> QED
    BY <1>3, <2>1, LeastPlace
<1>5. \A i \in I : Within(s_images[i], pc) /\ s_images[i] \in ToSet(s_images)
  BY <1>3 DEF ToSet
<1>6. s_last_img = NoImage \/ s_last_img \in ToSet(s_images)
  BY DEF ImageInv
<1> HIDE DEF I, k
<1> QED
  BY <1>1, <1>4, <1>5, <1>6, Zenon

\* A step that loads and unloads nothing.
LEMMA ImageSame ==
    ASSUME ImageInv, s_policy' = s_policy, s_images' = s_images, loaded' = loaded,
           s_last_img' = NoImage \/ s_last_img' \in ToSet(s_images),
           phase' \in {"client", "app", "exited"}, g_initialized' \in BOOLEAN,
           phase' = "client" => phase = "client",
           phase' = "app" => g_initialized',
           g_initialized' => g_initialized /\ events' = events
    PROVE  ImageInv'
<1>1. \A x, b : ImageAt(x, b)' = ImageAt(x, b)
  BY Zenon DEF ImageAt
<1>2. Kept' = Kept /\ NoImage' = NoImage
  BY <1>1 DEF Kept, NoImage
<1>3. ToSet(s_images)' = ToSet(s_images) /\ (DistinctLow(s_images)' <=> DistinctLow(s_images))
  BY DEF ToSet, DistinctLow
<1>4. /\ g_initialized' /\ s_policy' # "off" => "mnt" \in events'
      /\ phase' = "client" => DOMAIN loaded' = {}
  BY DEF ImageInv
<1>5. s_images' \in Seq(Kept')
  BY <1>2 DEF ImageInv
<1> QED
  BY <1>2, <1>3, <1>4, <1>5, Zenon DEF ImageInv

\* Every step keeps ImageInv.
LEMMA ImageStep == ImageInv /\ [Next]_vars => ImageInv'
<1> SUFFICES ASSUME ImageInv, [Next]_vars PROVE ImageInv'
  OBVIOUS
<1>0. /\ phase \in {"client", "app", "exited"} /\ g_initialized \in BOOLEAN
      /\ phase = "app" => g_initialized
      /\ s_last_img = NoImage \/ s_last_img \in ToSet(s_images)
  BY DEF ImageInv
<1>1. ASSUME NEW c \in FuncChoice, register_func_sink(c.name, c.module) PROVE ImageInv'
  <2>1. UNCHANGED <<s_policy, s_images, loaded, s_last_img, phase, g_initialized, events>>
    BY <1>1 DEF register_func_sink, mntVars
  <2> QED
    BY <1>0, <2>1, ImageSame
<1>2. ASSUME NEW pc \in PcChoice, register_func_sink_pc(pc) PROVE ImageInv'
  <2>1. UNCHANGED <<s_policy, s_images, loaded, s_last_img, phase, g_initialized, events>>
    BY <1>2 DEF register_func_sink_pc, mntVars
  <2> QED
    BY <1>0, <2>1, ImageSame
<1>3. ASSUME NEW r \in RangeChoice, register_pc_range_sink(r[1], r[2]) PROVE ImageInv'
  <2>1. UNCHANGED <<s_policy, s_images, loaded, s_last_img, phase, g_initialized, events>>
    BY <1>3 DEF register_pc_range_sink, mntVars
  <2> QED
    BY <1>0, <2>1, ImageSame
<1>4. ASSUME NEW value \in Env, NEW opaque \in BOOLEAN, NEW sdft \in SdftEnv,
             init(value, opaque, sdft)
      PROVE ImageInv'
  <2>1. /\ phase = "client" /\ phase' = phase /\ g_initialized' = TRUE /\ loaded' = loaded
        /\ s_images' = s_images /\ s_last_img' = s_last_img
        /\ s_policy' \in {"off", "lean", "sound", "v2_perpc"}
        /\ s_policy' # "off" => "mnt" \in events'
    BY <1>4 DEF init, libdft_setup, MntInit, parse_policy_env
  <2>2. DOMAIN loaded = {} /\ Kept = {} /\ Kept' = {}
    BY <2>1 DEF ImageInv, Kept
  <2>3. ToSet(s_images)' = {} /\ s_images' \in Seq(Kept') /\ DistinctLow(s_images)'
    <3>1. ToSet(s_images) = {}
      BY <2>2 DEF ImageInv
    <3>2. s_images \in Seq(Kept')
      BY <2>2 DEF ImageInv
    <3> QED
      BY <2>1, <3>1, <3>2 DEF ImageInv, ToSet, DistinctLow
  <2>4. s_last_img' = NoImage' \/ s_last_img' \in ToSet(s_images)'
    <3>1. ToSet(s_images) = {}
      BY <2>2 DEF ImageInv
    <3> QED
      BY <1>0, <2>1, <3>1 DEF NoImage
  <2> QED
    BY <2>1, <2>2, <2>3, <2>4 DEF ImageInv
<1>5. CASE StartApp
  <2>1. UNCHANGED <<s_policy, s_images, loaded, s_last_img, g_initialized, events>>
        /\ phase' = "app" /\ g_initialized
    BY <1>5 DEF StartApp, mntVars
  <2> QED
    BY <1>0, <2>1, ImageSame
<1>6. ASSUME NEW m \in Module, NEW base \in Base[m], Load(m, base) PROVE ImageInv'
  BY <1>6, ImageLoad
<1>7. ASSUME NEW m \in Module, Unload(m) PROVE ImageInv'
  BY <1>7, ImageUnload
<1>8. ASSUME NEW pc \in Pc, Execute(pc) PROVE ImageInv'
  <2>1. /\ UNCHANGED <<loaded, phase, g_initialized, events>>
        /\ IF pc \in DOMAIN code THEN UNCHANGED mntVars ELSE IsMntLookup(pc)
    BY <1>8 DEF Execute
  <2>2. /\ s_policy' = s_policy /\ s_images' = s_images
        /\ s_last_img' = s_last_img \/ s_last_img' = ImageOf(pc)
    BY <2>1 DEF mntVars, IsMntLookup
  <2>3. s_last_img' = NoImage \/ s_last_img' \in ToSet(s_images)
    BY <1>0, <2>2, ImageOfKept
  <2> QED
    BY <1>0, <2>1, <2>2, <2>3, ImageSame
<1>9. CASE event_exit
  <2>1. UNCHANGED <<s_policy, s_images, loaded, s_last_img>>
        /\ phase' = "exited" /\ g_initialized' = FALSE
    BY <1>9 DEF event_exit, mntVars
  <2> QED
    BY <1>0, <2>1, ImageSame
<1>10. CASE UNCHANGED vars
  <2>1. UNCHANGED <<s_policy, s_images, loaded, s_last_img, phase, g_initialized, events>>
    BY <1>10 DEF vars, mntVars
  <2> QED
    BY <1>0, <2>1, ImageSame
<1> QED
  BY <1>1, <1>2, <1>3, <1>4, <1>5, <1>6, <1>7, <1>8, <1>9, <1>10 DEF Next, Ended

\* It holds at the start.
LEMMA ImageStart == SystemInit => ImageInv
<1> SUFFICES ASSUME SystemInit PROVE ImageInv
  OBVIOUS
<1>1. /\ s_policy = "lean" /\ s_images = <<>> /\ s_last_img = NoImage /\ phase = "client"
      /\ g_initialized = FALSE /\ DOMAIN loaded = {}
  BY DEF SystemInit, Init
<1>2. Kept = {}
  BY <1>1 DEF Kept
<1>3. s_images \in Seq(Kept) /\ Len(s_images) = 0
  BY <1>1
<1>4. ToSet(s_images) = {} /\ DistinctLow(s_images)
  BY <1>1 DEF ToSet, DistinctLow
<1> QED
  BY <1>1, <1>2, <1>3, <1>4 DEF ImageInv

-----------------------------------------------------------------------------
(* Bodies of summarised functions *)

\* r is the body of sym in its module at base, and sym has a summary.
BodyOf(base, sym, r) ==
    /\ r = <<base + sym.start, base + sym.end>> /\ sym.start < sym.end
    /\ sym.target = sym.start /\ find(sym.name) # ""

\* In the course of an enumeration: the bodies in acc that are new belong to
\* functions of m that were wrapped.
BodiesBy(m, base, acc) ==
    /\ acc.ranges \in Seq(Pairs)
    /\ s_wrapped \subseteq acc.wrapped
    /\ \A r \in ToSet(acc.ranges) :
          \/ r \in ToSet(s_ranges)
          \/ \E sym \in Symbols(m) : BodyOf(base, sym, r) /\ base + sym.start \in acc.wrapped

\* One element more.
LEMMA AppendElements ==
    ASSUME NEW S, NEW s \in Seq(S), NEW x \in S
    PROVE  Append(s, x) \in Seq(S) /\ ToSet(Append(s, x)) = ToSet(s) \cup {x}
<1> DEFINE u == Append(s, x)
           n == Len(s)
<1>1. u \in Seq(S) /\ Len(u) = n + 1 /\ u[n + 1] = x /\ \A i \in 1 .. n : u[i] = s[i]
  BY AppendProperties
<1>2. n \in Nat /\ DOMAIN s = 1 .. n /\ DOMAIN u = 1 .. n + 1
  BY <1>1
<1> HIDE DEF u, n
<1>3. ToSet(u) = {u[i] : i \in 1 .. n + 1} /\ ToSet(s) = {s[i] : i \in 1 .. n}
  BY <1>2, Zenon DEF ToSet
<1>4. n + 1 \in 1 .. n + 1 /\ \A i \in 1 .. n : i \in 1 .. n + 1
  BY <1>2
<1>5. \A i \in 1 .. n + 1 : i \in 1 .. n \/ i = n + 1
  BY <1>2, OrLast
<1>6. ToSet(u) = ToSet(s) \cup {x}
  BY <1>1, <1>3, <1>4, <1>5
<1> QED
  BY <1>1, <1>6 DEF u

\* One symbol more.
LEMMA BodyOne ==
    ASSUME NEW m \in Module, NEW base \in Base[m], NEW sym \in Symbols(m), NEW acc,
           BodiesBy(m, base, acc)
    PROVE  BodiesBy(m, base, enum_sym_cb(base, sym, acc))
<1> DEFINE pc == base + sym.target
           hi == base + sym.end
           new == enum_sym_cb(base, sym, acc)
<1>1. CASE find(sym.name) = "" \/ pc \in acc.wrapped
  <2>1. new = acc
    BY <1>1 DEF enum_sym_cb
  <2> QED
    BY <2>1
<1>2. CASE ~(find(sym.name) = "" \/ pc \in acc.wrapped)
  <2>1. /\ new.wrapped = acc.wrapped \cup {pc}
        /\ new.ranges = IF sym.target = sym.start
                        THEN add_rtn_range(acc.ranges, pc, hi) ELSE acc.ranges
    BY <1>2 DEF enum_sym_cb
  <2>2. /\ acc.ranges \in Seq(Pairs) /\ s_wrapped \subseteq acc.wrapped
        /\ \A r \in ToSet(acc.ranges) :
              \/ r \in ToSet(s_ranges)
              \/ \E s \in Symbols(m) : BodyOf(base, s, r) /\ base + s.start \in acc.wrapped
    BY Zenon DEF BodiesBy
  <2>3. /\ sym.start \in Int /\ sym.end \in Int /\ sym.target \in Int
    <3>1. /\ sym.start \in 1 .. Image[m].size - 1 /\ sym.end \in 0 .. Image[m].size
          /\ sym.target \in 1 .. Image[m].size - 1
      BY SymbolFacts, Zenon
    <3> QED
      BY <3>1
  <2>4. base \in Int
    BY PlaceFacts
  <2>5. s_wrapped \subseteq new.wrapped
    <3> HIDE DEF new
    <3> QED
      BY <2>1, <2>2
  <2>6. CASE new.ranges = acc.ranges
    <3> HIDE DEF new
    <3>1. \A r \in ToSet(new.ranges) :
              \/ r \in ToSet(s_ranges)
              \/ \E s \in Symbols(m) : BodyOf(base, s, r) /\ base + s.start \in new.wrapped
      BY <2>1, <2>2, <2>6
    <3>2. new.ranges \in Seq(Pairs)
      BY <2>2, <2>6
    <3> QED
      BY <2>5, <3>1, <3>2, Zenon DEF BodiesBy, new
  <2>7. CASE new.ranges # acc.ranges
    <3>1. sym.target = sym.start /\ pc < hi /\ new.ranges = Append(acc.ranges, <<pc, hi>>)
      <4> HIDE DEF new
      <4> QED
        BY <2>1, <2>3, <2>4, <2>7 DEF add_rtn_range
    <3>2. <<pc, hi>> \in Pairs
      BY <2>3, <2>4 DEF Pairs
    <3>3. BodyOf(base, sym, <<pc, hi>>)
      <4>1. sym.start < sym.end
        BY <2>3, <2>4, <3>1
      <4>2. <<pc, hi>> = <<base + sym.start, base + sym.end>>
        BY <3>1
      <4> QED
        BY <1>2, <3>1, <4>1, <4>2, Zenon DEF BodyOf
    <3>4. base + sym.start \in new.wrapped
      <4> HIDE DEF new
      <4> QED
        BY <2>1, <3>1
    <3> HIDE DEF new
    <3> DEFINE x == <<pc, hi>>
    <3>5. new.ranges \in Seq(Pairs) /\ ToSet(new.ranges) = ToSet(acc.ranges) \cup {x}
      <4> HIDE DEF x
      <4>1. new.ranges = Append(acc.ranges, x) /\ x \in Pairs
        BY <3>1, <3>2 DEF x
      <4>2. acc.ranges \in Seq(Pairs)
        BY <2>2
      <4>3. \A t \in Seq(Pairs) : Append(t, x) \in Seq(Pairs) /\ ToSet(Append(t, x)) = ToSet(t) \cup {x}
        BY <4>1, AppendElements
      <4> QED
        BY <4>1, <4>2, <4>3
    <3> HIDE DEF pc, hi
    <3>6. \A r \in ToSet(new.ranges) :
              \/ r \in ToSet(s_ranges)
              \/ \E s \in Symbols(m) : BodyOf(base, s, r) /\ base + s.start \in new.wrapped
      BY <2>1, <2>2, <3>3, <3>4, <3>5
    <3> QED
      BY <2>5, <3>5, <3>6, Zenon DEF BodiesBy, new
  <2> QED
    BY <2>6, <2>7
<1> QED
  BY <1>1, <1>2

\* All of them.
LEMMA BodyEnumeration ==
    ASSUME NEW m \in Module, NEW base \in Base[m], s_ranges \in Seq(Pairs)
    PROVE  BodiesBy(m, base, EnumerateSymbols(m, base))
<1> DEFINE n == Len(Image[m].syms)
           start == [wrapped |-> s_wrapped, wraps |-> sdft_wraps, ranges |-> s_ranges]
           after == CHOOSE g : Enumerates(m, base, start, g)
           S == {k \in 0 .. n : BodiesBy(m, base, after[k])}
<1>0. n \in Nat
  BY SymbolFacts
<1>1. \E g : Enumerates(m, base, start, g)
  BY EnumerationExists
<1>2. Enumerates(m, base, start, after)
  BY <1>1
<1>3. EnumerateSymbols(m, base) = after[n]
  BY DEF EnumerateSymbols, Enumerates
<1> HIDE DEF after, n
<1>4. 0 \in S
  <2>1. after[0] = start /\ 0 \in 0 .. n
    BY <1>0, <1>2 DEF Enumerates, n
  <2>2. after[0].wrapped = s_wrapped /\ after[0].ranges = s_ranges
    BY <2>1
  <2>3. BodiesBy(m, base, after[0])
    BY <2>2 DEF BodiesBy
  <2> QED
    BY <2>1, <2>3
<1>5. ASSUME NEW k \in 1 .. n, k - 1 \in S PROVE k \in S
  <2>1. k \in 0 .. n /\ k # 0
    BY <1>0
  <2>2. after[k] = enum_sym_cb(base, Image[m].syms[k], after[k - 1])
    <3> HIDE DEF start
    <3> QED
      BY <1>2, <2>1 DEF Enumerates, n
  <2>3. Image[m].syms[k] \in Symbols(m)
    BY SymbolFacts, Zenon DEF n
  <2>4. BodiesBy(m, base, after[k - 1])
    BY <1>5
  <2>5. BodiesBy(m, base, after[k])
    BY <2>2, <2>3, <2>4, BodyOne
  <2> QED
    BY <2>1, <2>5
<1>6. n \in S
  <2>1. \A k \in 1 .. n : k - 1 \in S => k \in S
    BY <1>5
  <2>2. n \in 0 .. n
    BY <1>0
  <2> HIDE DEF S
  <2>3. \A k \in 0 .. n : k \in S
    BY <1>0, <1>4, <2>1, UpTo
  <2> QED
    BY <2>2, <2>3
<1> QED
  BY <1>3, <1>6 DEF n

\* r is the body of a function that is wrapped.
Body(r) ==
    \E m \in Module : \E base \in Base[m], sym \in Symbols(m) :
       BodyOf(base, sym, r) /\ base + sym.start \in s_wrapped

\* Every registered body belongs to a function that is wrapped, and the list is
\* sorted unless it says otherwise.
BodyInv ==
    /\ s_ranges \in Seq(Pairs) /\ s_ranges_dirty \in BOOLEAN
    /\ s_ranges_dirty \/ Ordered(s_ranges, LessPairs)
    /\ \A r \in ToSet(s_ranges) : Body(r)

\* A step that wraps nothing; it may sort the list.
LEMMA BodySame ==
    ASSUME BodyInv, s_wrapped' = s_wrapped,
           \/ s_ranges' = s_ranges /\ s_ranges_dirty' = s_ranges_dirty
           \/ s_ranges' = SortedRanges /\ s_ranges_dirty' = FALSE
    PROVE  BodyInv'
<1>1. s_ranges \in Seq(Pairs)
  BY DEF BodyInv
<1>2. SortedRanges \in Seq(Pairs) /\ ToSet(SortedRanges) = ToSet(s_ranges)
      /\ Ordered(SortedRanges, LessPairs)
  BY <1>1, SortPairs DEF BodyInv, SortedRanges
<1>3. \A r : Body(r)' <=> Body(r)
  BY DEF Body
<1>4. /\ s_ranges' \in Seq(Pairs) /\ s_ranges_dirty' \in BOOLEAN
  BY <1>2 DEF BodyInv
<1>5. s_ranges_dirty' \/ Ordered(s_ranges, LessPairs)'
  <2>1. \A t : t = s_ranges' => (Ordered(s_ranges, LessPairs)' <=> Ordered(t, LessPairs))
    BY DEF Ordered, LessPairs, Pairs, Before
  <2> QED
    BY <1>2, <2>1 DEF BodyInv
<1>6. \A r \in ToSet(s_ranges)' : Body(r)'
  <2>1. ToSet(s_ranges)' = ToSet(s_ranges)
    <3>1. ToSet(s_ranges)' = ToSet(s_ranges')
      OBVIOUS
    <3> QED
      BY <1>2, <3>1
  <2> QED
    BY <1>3, <2>1 DEF BodyInv
<1> QED
  BY <1>4, <1>5, <1>6, Zenon DEF BodyInv

\* A module is loaded.
LEMMA BodyLoad ==
    ASSUME BodyInv, NEW m \in Module, NEW base \in Base[m], Load(m, base)
    PROVE  BodyInv'
<1> DEFINE found == EnumerateSymbols(m, base)
<1>1. SdftModuleLoad(m, base)
  BY DEF Load
<1>2. CASE "sdft" \notin events
  BY <1>1, <1>2, BodySame DEF SdftModuleLoad
<1>3. CASE "sdft" \in events
  <2>1. /\ s_wrapped' = found.wrapped /\ s_ranges' = found.ranges
        /\ s_ranges_dirty' = (s_ranges_dirty \/ found.ranges # s_ranges)
    BY <1>1, <1>3 DEF SdftModuleLoad
  <2>2. s_ranges \in Seq(Pairs)
    BY DEF BodyInv
  <2>3. BodiesBy(m, base, found)
    BY <2>2, BodyEnumeration
  <2> HIDE DEF found
  <2>4. /\ found.ranges \in Seq(Pairs)
        /\ s_wrapped \subseteq s_wrapped'
        /\ \A r \in ToSet(found.ranges) :
              \/ r \in ToSet(s_ranges)
              \/ \E sym \in Symbols(m) : BodyOf(base, sym, r) /\ base + sym.start \in s_wrapped'
    BY <2>1, <2>3, Zenon DEF BodiesBy
  <2>5. ASSUME NEW r, Body(r) PROVE Body(r)'
    <3>1. PICK m1 \in Module : \E b1 \in Base[m1], sym \in Symbols(m1) :
             BodyOf(b1, sym, r) /\ b1 + sym.start \in s_wrapped
      BY <2>5 DEF Body
    <3>2. PICK b1 \in Base[m1], sym \in Symbols(m1) :
             BodyOf(b1, sym, r) /\ b1 + sym.start \in s_wrapped
      BY <3>1
    <3>3. b1 + sym.start \in s_wrapped'
      BY <2>4, <3>2
    <3> QED
      BY <3>2, <3>3, Zenon DEF Body
  <2>6. ASSUME NEW r \in ToSet(found.ranges) PROVE Body(r)'
    <3>1. CASE r \in ToSet(s_ranges)
      BY <2>5, <3>1 DEF BodyInv
    <3>2. CASE \E sym \in Symbols(m) : BodyOf(base, sym, r) /\ base + sym.start \in s_wrapped'
      BY <3>2, Zenon DEF Body
    <3> QED
      BY <2>4, <3>1, <3>2
  <2>7. s_ranges_dirty' \/ Ordered(s_ranges, LessPairs)'
    <3>1. \A t : t = s_ranges' => (Ordered(s_ranges, LessPairs)' <=> Ordered(t, LessPairs))
      BY DEF Ordered, LessPairs, Pairs, Before
    <3> QED
      BY <2>1, <3>1 DEF BodyInv
  <2>8. s_ranges_dirty' \in BOOLEAN
    BY <2>1
  <2>9. s_ranges' \in Seq(Pairs) /\ \A r \in ToSet(s_ranges)' : Body(r)'
    BY <2>1, <2>4, <2>6
  <2> QED
    BY <2>7, <2>8, <2>9, Zenon DEF BodyInv
<1> QED
  BY <1>2, <1>3

\* Every step keeps BodyInv.
LEMMA BodyStep == BodyInv /\ [Next]_vars => BodyInv'
<1> SUFFICES ASSUME BodyInv, [Next]_vars PROVE BodyInv'
  OBVIOUS
<1>1. ASSUME NEW c \in FuncChoice, register_func_sink(c.name, c.module) PROVE BodyInv'
  BY <1>1, BodySame DEF register_func_sink, mntVars, wrapVars
<1>2. ASSUME NEW pc \in PcChoice, register_func_sink_pc(pc) PROVE BodyInv'
  BY <1>2, BodySame DEF register_func_sink_pc, mntVars, wrapVars
<1>3. ASSUME NEW r \in RangeChoice, register_pc_range_sink(r[1], r[2]) PROVE BodyInv'
  BY <1>3, BodySame DEF register_pc_range_sink, mntVars, wrapVars
<1>4. ASSUME NEW value \in Env, NEW opaque \in BOOLEAN, NEW sdft \in SdftEnv,
             init(value, opaque, sdft)
      PROVE BodyInv'
  BY <1>4, BodySame DEF init, libdft_setup, MntInit
<1>5. CASE StartApp
  BY <1>5, BodySame DEF StartApp, mntVars, wrapVars
<1>6. ASSUME NEW m \in Module, NEW base \in Base[m], Load(m, base) PROVE BodyInv'
  BY <1>6, BodyLoad
<1>7. ASSUME NEW m \in Module, Unload(m) PROVE BodyInv'
  BY <1>7, BodySame DEF Unload, on_module_unload, mntVars, wrapVars
<1>8. ASSUME NEW pc \in Pc, Execute(pc) PROVE BodyInv'
  <2>1. /\ s_wrapped' = s_wrapped
        /\ IF pc \in DOMAIN code THEN UNCHANGED mntVars ELSE IsMntLookup(pc)
    BY <1>8 DEF Execute, wrapVars
  <2> QED
    BY <2>1, BodySame DEF IsMntLookup, mntVars
<1>9. CASE event_exit
  BY <1>9, BodySame DEF event_exit, mntVars, wrapVars
<1>10. CASE UNCHANGED vars
  BY <1>10, BodySame DEF vars, mntVars, wrapVars
<1> QED
  BY <1>1, <1>2, <1>3, <1>4, <1>5, <1>6, <1>7, <1>8, <1>9, <1>10 DEF Next, Ended

\* It holds at the start.
LEMMA BodyStart == SystemInit => BodyInv
<1> SUFFICES ASSUME SystemInit PROVE BodyInv
  OBVIOUS
<1>1. s_ranges = <<>> /\ s_ranges_dirty = FALSE
  BY DEF SystemInit, Init
<1>2. s_ranges \in Seq(Pairs) /\ Len(s_ranges) = 0
  BY <1>1
<1>3. ToSet(s_ranges) = {} /\ Ordered(s_ranges, LessPairs)
  BY <1>1 DEF ToSet, Ordered
<1> QED
  BY <1>1, <1>2, <1>3 DEF BodyInv

-----------------------------------------------------------------------------
(* Skipped instructions *)

\* pc is listed by a file of the module that is there.
ListedAt(pc) ==
    /\ s_policy # "off"
    /\ \E m \in DOMAIN loaded :
          /\ loaded[m] <= pc /\ pc < loaded[m] + Image[m].size
          /\ pc - loaded[m] \in Offsets(Headed(m))

\* pc belongs to sym in module m, and calls of sym are wrapped.
BelongsTo(m, sym, pc) ==
    /\ loaded[m] + sym.start <= pc /\ pc < loaded[m] + sym.end
    /\ Enters(m, sym, loaded[m] + sym.start)
    /\ loaded[m] + sym.start \in DOMAIN sdft_wraps

Justified(pc) ==
    ListedAt(pc) \/ \E m \in DOMAIN loaded : \E sym \in Symbols(m) : BelongsTo(m, sym, pc)

\* What is_mnt says of an address has a reason: a file or a body.
LEMMA LookupSound ==
    ASSUME ImageInv, BodyInv, NEW pc \in Int, is_mnt(pc)
    PROVE  ListedAt(pc) \/ \E r \in ToSet(s_ranges) : Inside(r, pc)
<1>1. ASSUME Listed(pc) PROVE ListedAt(pc)
  <2> DEFINE im == ImageOf(pc)
  <2>1. binary_search(im.mnt_sorted, pc - im.low)
    BY <1>1 DEF Listed
  <2>2. im # NoImage
    <3> SUFFICES ASSUME im = NoImage PROVE FALSE
      OBVIOUS
    <3>1. im.mnt_sorted = <<>> /\ im.low = 0
      BY DEF NoImage
    <3>2. <<>> \in Seq(Int) /\ ToSet(<<>>) = {} /\ pc - im.low \in Int
      BY <3>1 DEF ToSet
    <3> HIDE DEF im
    <3>3. pc - im.low \in ToSet(<<>>)
      BY <2>1, <3>1, <3>2, SearchSound
    <3> QED
      BY <3>2, <3>3
  <2>3. im \in ToSet(s_images) /\ Within(im, pc) /\ s_policy # "off"
    BY <2>2, ImageOfKept
  <2> HIDE DEF im
  <2>4. PICK m \in DOMAIN loaded : im = ImageAt(m, loaded[m])
    <3>1. im \in Kept
      BY <2>3 DEF ImageInv
    <3> QED
      BY <3>1 DEF Kept
  <2>5. m \in Module /\ loaded[m] \in Base[m]
    BY DEF ImageInv
  <2>6. ImageHolds(m, loaded[m], im)
    BY <2>4, <2>5, ImageFacts
  <2>7. loaded[m] \in Nat /\ Image[m].size \in Nat
    BY <2>5, PlaceFacts
  <2>8. /\ im.low = loaded[m] /\ im.high = loaded[m] + Image[m].size - 1
        /\ \A x \in ToSet(im.mnt_sorted) : x \in Offsets(Headed(m))
    BY <2>6, Zenon DEF ImageHolds
  <2>9. im.mnt_sorted \in Seq(Int)
    BY <2>6, Zenon DEF ImageHolds
  <2>10. pc - im.low \in Int
    BY <2>7, <2>8
  <2>11. pc - im.low \in ToSet(im.mnt_sorted)
    BY <2>1, <2>9, <2>10, SearchSound
  <2>12. pc - loaded[m] \in Offsets(Headed(m))
    BY <2>8, <2>11
  <2>13. loaded[m] <= pc /\ pc < loaded[m] + Image[m].size
    BY <2>3, <2>7, <2>8 DEF Within
  <2> QED
    BY <2>3, <2>12, <2>13, Zenon DEF ListedAt
<1>2. ASSUME rtn_range_contains(pc) PROVE \E r \in ToSet(s_ranges) : Inside(r, pc)
  <2>1. s_ranges \in Seq(Pairs)
    BY DEF BodyInv
  <2> QED
    BY <1>2, <2>1, BodySound
<1> QED
  BY <1>1, <1>2, Zenon DEF is_mnt

\* SkipIsJustified, folded.
LEMMA SkipFolded ==
    SkipIsJustified <=> \A pc \in DOMAIN code : code[pc].skip => Justified(pc)
<1>1. \A pc : AtOffset(pc, LAMBDA m : {f \in ToSet(Image[m].files) : f.header}) <=> ListedAt(pc)
  BY DEF AtOffset, ListedAt, Headed
<1>2. \A pc : \A m : \A sym :
         BelongsTo(m, sym, pc) <=>
            /\ loaded[m] + sym.start <= pc /\ pc < loaded[m] + sym.end
            /\ Enters(m, sym, loaded[m] + sym.start)
            /\ loaded[m] + sym.start \in DOMAIN sdft_wraps
  BY DEF BelongsTo
<1> QED
  BY <1>1, <1>2, Zenon DEF SkipIsJustified, Justified

\* The justifications of the instructions that are translated.
SkipInv ==
    /\ DOMAIN code \subseteq Pc
    /\ phase = "client" => DOMAIN code = {}
    /\ \A pc \in DOMAIN code : code[pc].skip => Justified(pc)

\* A justification lasts as long as its module is loaded.
LEMMA JustifiedStays ==
    ASSUME ImageInv, NEW pc \in Pc, Justified(pc), s_policy' = s_policy,
           DOMAIN sdft_wraps \subseteq DOMAIN sdft_wraps',
           \A m \in DOMAIN loaded :
              loaded[m] <= pc /\ pc < loaded[m] + Image[m].size =>
                 m \in DOMAIN loaded' /\ loaded'[m] = loaded[m]
    PROVE  Justified(pc)'
<1>0. pc \in Int
  BY DEF Pc
<1>1. CASE ListedAt(pc)
  <2>1. PICK m \in DOMAIN loaded :
           /\ loaded[m] <= pc /\ pc < loaded[m] + Image[m].size
           /\ pc - loaded[m] \in Offsets(Headed(m))
    BY <1>1, Zenon DEF ListedAt
  <2>2. m \in DOMAIN loaded' /\ loaded'[m] = loaded[m]
    BY <2>1
  <2>3. pc - loaded[m] \in Offsets(Headed(m))'
    BY <2>1 DEF Offsets, Headed
  <2>4. s_policy' # "off"
    BY <1>1 DEF ListedAt
  <2>5. /\ loaded'[m] <= pc /\ pc < loaded'[m] + Image[m].size
        /\ pc - loaded'[m] \in Offsets(Headed(m))'
    BY <2>1, <2>2, <2>3
  <2>6. ListedAt(pc)'
    BY <2>2, <2>4, <2>5, Zenon DEF ListedAt
  <2> QED
    BY <2>6, Zenon DEF Justified
<1>2. ASSUME NEW m \in DOMAIN loaded, NEW sym \in Symbols(m), BelongsTo(m, sym, pc)
      PROVE  Justified(pc)'
  <2>1. /\ loaded[m] + sym.start <= pc /\ pc < loaded[m] + sym.end
        /\ Enters(m, sym, loaded[m] + sym.start)
        /\ loaded[m] + sym.start \in DOMAIN sdft_wraps
    BY <1>2 DEF BelongsTo
  <2>2. m \in Module /\ loaded[m] \in Base[m]
    BY DEF ImageInv
  <2>3. sym.start \in 1 .. Image[m].size - 1 /\ sym.end \in 0 .. Image[m].size
    BY <2>2, SymbolFacts, Zenon
  <2>4. loaded[m] \in Nat /\ Image[m].size \in Nat
    BY <2>2, PlaceFacts
  <2>5. loaded[m] <= pc /\ pc < loaded[m] + Image[m].size
    BY <1>0, <2>1, <2>3, <2>4
  <2>6. m \in DOMAIN loaded' /\ loaded'[m] = loaded[m]
    BY <2>5
  <2>7. BelongsTo(m, sym, pc)'
    BY <2>1, <2>6 DEF BelongsTo, Enters
  <2> QED
    BY <2>6, <2>7 DEF Justified
<1> QED
  BY <1>1, <1>2, Zenon DEF Justified

\* A step that translates nothing, loads what it likes, and unloads only modules
\* whose translations it drops.
LEMMA SkipSame ==
    ASSUME ImageInv, SkipInv, DOMAIN code' \subseteq DOMAIN code,
           \A pc \in DOMAIN code' : code'[pc] = code[pc],
           phase' = "client" => phase = "client",
           s_policy' = s_policy \/ DOMAIN code' = {},
           DOMAIN sdft_wraps \subseteq DOMAIN sdft_wraps',
           \A pc \in DOMAIN code' : \A m \in DOMAIN loaded :
              loaded[m] <= pc /\ pc < loaded[m] + Image[m].size =>
                 m \in DOMAIN loaded' /\ loaded'[m] = loaded[m]
    PROVE  SkipInv'
<1>1. ASSUME NEW pc \in DOMAIN code', code'[pc].skip PROVE Justified(pc)'
  <2>1. pc \in Pc /\ Justified(pc) /\ s_policy' = s_policy
    BY <1>1 DEF SkipInv
  <2> QED
    BY <1>1, <2>1, JustifiedStays
<1>2. DOMAIN code' \subseteq Pc' /\ (phase' = "client" => DOMAIN code' = {})
  BY DEF SkipInv, Pc
<1> QED
  BY <1>1, <1>2, Zenon DEF SkipInv

\* Every step keeps SkipInv.
LEMMA SkipStep ==
    OwnPlaces /\ ImageInv /\ BodyInv /\ WrapInv /\ SkipInv /\ [Next]_vars => SkipInv'
<1> SUFFICES ASSUME OwnPlaces, ImageInv, BodyInv, WrapInv, SkipInv, [Next]_vars PROVE SkipInv'
  OBVIOUS
<1>1. ASSUME NEW c \in FuncChoice, register_func_sink(c.name, c.module) PROVE SkipInv'
  <2>1. UNCHANGED <<s_policy, loaded, sdft_wraps, phase, code>>
    BY <1>1 DEF register_func_sink, mntVars, wrapVars
  <2> QED
    BY <2>1, SkipSame
<1>2. ASSUME NEW pc \in PcChoice, register_func_sink_pc(pc) PROVE SkipInv'
  <2>1. UNCHANGED <<s_policy, loaded, sdft_wraps, phase, code>>
    BY <1>2 DEF register_func_sink_pc, mntVars, wrapVars
  <2> QED
    BY <2>1, SkipSame
<1>3. ASSUME NEW r \in RangeChoice, register_pc_range_sink(r[1], r[2]) PROVE SkipInv'
  <2>1. UNCHANGED <<s_policy, loaded, sdft_wraps, phase, code>>
    BY <1>3 DEF register_pc_range_sink, mntVars, wrapVars
  <2> QED
    BY <2>1, SkipSame
<1>4. ASSUME NEW value \in Env, NEW opaque \in BOOLEAN, NEW sdft \in SdftEnv,
             init(value, opaque, sdft)
      PROVE SkipInv'
  <2>1. UNCHANGED <<loaded, sdft_wraps, phase, code>> /\ phase = "client"
    BY <1>4 DEF init
  <2>2. DOMAIN code' = {}
    BY <2>1 DEF SkipInv
  <2> QED
    BY <2>1, <2>2, SkipSame
<1>5. CASE StartApp
  <2>1. UNCHANGED <<s_policy, loaded, sdft_wraps, code>> /\ phase' = "app"
    BY <1>5 DEF StartApp, mntVars, wrapVars
  <2> QED
    BY <2>1, SkipSame
<1>6. ASSUME NEW m \in Module, NEW base \in Base[m], Load(m, base) PROVE SkipInv'
  <2>1. /\ UNCHANGED <<s_policy, phase, code>> /\ SdftModuleLoad(m, base)
        /\ m \notin DOMAIN loaded
        /\ loaded' = [x \in DOMAIN loaded \cup {m} |-> IF x = m THEN base ELSE loaded[x]]
    BY <1>6 DEF Load
  <2>2. \A x \in DOMAIN loaded : x \in DOMAIN loaded' /\ loaded'[x] = loaded[x]
    BY <2>1
  <2>3. DOMAIN sdft_wraps = s_wrapped
    BY DEF WrapInv
  <2>4. DOMAIN sdft_wraps \subseteq DOMAIN sdft_wraps'
    <3>1. CASE "sdft" \notin events
      BY <2>1, <3>1 DEF SdftModuleLoad
    <3>2. CASE "sdft" \in events
      <4> DEFINE found == EnumerateSymbols(m, base)
      <4>1. sdft_wraps' = found.wraps
        BY <2>1, <3>2 DEF SdftModuleLoad
      <4>2. WrappedBy(m, base, Len(Image[m].syms), found)
        BY <2>3, Enumeration
      <4> HIDE DEF found
      <4>3. DOMAIN found.wraps = found.wrapped /\ s_wrapped \subseteq found.wrapped
        BY <4>2, Zenon DEF WrappedBy
      <4> QED
        BY <2>3, <4>1, <4>3
    <3> QED
      BY <3>1, <3>2
  <2> QED
    BY <2>1, <2>2, <2>4, SkipSame
<1>7. ASSUME NEW m \in Module, Unload(m) PROVE SkipInv'
  <2>1. /\ sdft_wraps' = sdft_wraps /\ phase' = phase
        /\ loaded' = [x \in DOMAIN loaded \ {m} |-> loaded[x]]
        /\ code' = [pc \in {x \in DOMAIN code :
                              ~(loaded[m] <= x /\ x < loaded[m] + Image[m].size)} |-> code[pc]]
        /\ s_policy' = s_policy
    BY <1>7 DEF Unload, wrapVars, on_module_unload, mntVars
  <2>2. /\ DOMAIN code' \subseteq DOMAIN code /\ \A pc \in DOMAIN code' : code'[pc] = code[pc]
        /\ \A pc \in DOMAIN code' : ~(loaded[m] <= pc /\ pc < loaded[m] + Image[m].size)
    BY <2>1
  <2>3. \A x \in DOMAIN loaded : x = m \/ (x \in DOMAIN loaded' /\ loaded'[x] = loaded[x])
    BY <2>1
  <2>4. \A pc \in DOMAIN code' : \A x \in DOMAIN loaded :
           loaded[x] <= pc /\ pc < loaded[x] + Image[x].size =>
              x \in DOMAIN loaded' /\ loaded'[x] = loaded[x]
    BY <2>2, <2>3, Zenon
  <2> QED
    BY <2>1, <2>2, <2>4, SkipSame
<1>8. ASSUME NEW pc \in Pc, Execute(pc) PROVE SkipInv'
  <2> DEFINE fragment == IF pc \in DOMAIN code THEN code[pc] ELSE event_bb_insn(pc)
  <2>1. /\ UNCHANGED <<loaded, sdft_wraps, phase>> /\ phase = "app"
        /\ code' = [x \in DOMAIN code \cup {pc} |-> IF x = pc THEN fragment ELSE code[x]]
        /\ IF pc \in DOMAIN code THEN UNCHANGED mntVars ELSE IsMntLookup(pc)
        /\ \E m \in DOMAIN loaded : pc \in Insns(m)
    BY <1>8 DEF Execute, wrapVars
  <2>2. s_policy' = s_policy
    BY <2>1 DEF mntVars, IsMntLookup
  <2>3. ASSUME fragment.skip PROVE Justified(pc)
    <3>1. CASE pc \in DOMAIN code
      BY <2>3, <3>1 DEF SkipInv
    <3>2. CASE pc \notin DOMAIN code
      <4>1. is_mnt(pc) /\ pc \in Int
        BY <2>3, <3>2 DEF event_bb_insn, Pc
      <4>2. CASE ListedAt(pc)
        BY <4>2 DEF Justified
      <4>3. ASSUME NEW r \in ToSet(s_ranges), Inside(r, pc) PROVE Justified(pc)
        <5>1. PICK m1 \in Module : \E b1 \in Base[m1], sym \in Symbols(m1) :
                 BodyOf(b1, sym, r) /\ b1 + sym.start \in s_wrapped
          BY DEF BodyInv, Body
        <5>2. PICK b1 \in Base[m1], sym \in Symbols(m1) :
                 BodyOf(b1, sym, r) /\ b1 + sym.start \in s_wrapped
          BY <5>1
        <5>3. /\ b1 + sym.start <= pc /\ pc < b1 + sym.end /\ sym.target = sym.start
          BY <4>3, <5>2 DEF Inside, BodyOf
        <5>4. sym.start \in 1 .. Image[m1].size - 1 /\ sym.end \in 0 .. Image[m1].size
          BY SymbolFacts, Zenon
        <5>5. b1 <= pc /\ pc < b1 + Image[m1].size
          BY <4>1, <5>3, <5>4, PlaceFacts
        <5>6. PICK m \in DOMAIN loaded : pc \in Insns(m)
          BY <2>1
        <5>7. m \in Module /\ loaded[m] \in Base[m]
          BY DEF ImageInv
        <5>8. loaded[m] <= pc /\ pc < loaded[m] + Image[m].size
          <6>1. PICK o \in Image[m].insns : pc = loaded[m] + o
            BY <5>6 DEF Insns
          <6>2. o \in 0 .. Image[m].size - 1
            BY <5>7, ImageAssumption, Zenon
          <6> QED
            BY <5>7, <6>1, <6>2, PlaceFacts
        <5>9. m1 = m /\ b1 = loaded[m]
          BY <4>1, <5>5, <5>7, <5>8, SamePlace
        <5>10. BelongsTo(m, sym, pc)
          BY <5>2, <5>3, <5>9 DEF BelongsTo, Enters, WrapInv
        <5> QED
          BY <5>2, <5>9, <5>10 DEF Justified
      <4> QED
        BY <4>1, <4>2, <4>3, LookupSound
    <3> QED
      BY <3>1, <3>2
  <2> HIDE DEF fragment
  <2>4. DOMAIN code' = DOMAIN code \cup {pc}
        /\ \A x \in DOMAIN code' : code'[x] = IF x = pc THEN fragment ELSE code[x]
    BY <2>1
  <2>5. ASSUME NEW x \in DOMAIN code', code'[x].skip PROVE Justified(x)'
    <3>1. x \in Pc /\ Justified(x)
      BY <2>3, <2>4, <2>5 DEF SkipInv
    <3> QED
      BY <2>1, <2>2, <3>1, JustifiedStays
  <2>6. DOMAIN code' \subseteq Pc' /\ phase' # "client"
    BY <2>1, <2>4 DEF SkipInv, Pc
  <2> QED
    BY <2>5, <2>6, Zenon DEF SkipInv
<1>9. CASE event_exit
  <2>1. UNCHANGED <<s_policy, loaded, sdft_wraps, code>> /\ phase' = "exited"
    BY <1>9 DEF event_exit, mntVars, wrapVars
  <2> QED
    BY <2>1, SkipSame
<1>10. CASE UNCHANGED vars
  <2>1. UNCHANGED <<s_policy, loaded, sdft_wraps, phase, code>>
    BY <1>10 DEF vars, mntVars, wrapVars
  <2> QED
    BY <2>1, SkipSame
<1> QED
  BY <1>1, <1>2, <1>3, <1>4, <1>5, <1>6, <1>7, <1>8, <1>9, <1>10 DEF Next, Ended

\* An instruction whose propagation was left out when it was translated is listed by
\* the analysis of the module that is there now, or belongs to a function of that
\* module to which sdft_pre applies a summary, whatever is loaded, unloaded and
\* looked up in the meantime (event_bb_insn, is_mnt, enum_sym_cb,
\* on_module_unload), as long as no address is used twice.
THEOREM SkipsAreJustified == OwnPlaces => (Spec => []SkipIsJustified)
<1> SUFFICES ASSUME OwnPlaces PROVE Spec => []SkipIsJustified
  OBVIOUS
<1> DEFINE Inv == ImageInv /\ BodyInv /\ WrapInv /\ SkipInv
<1>1. SystemInit => Inv
  <2> SUFFICES ASSUME SystemInit PROVE SkipInv
    BY ImageStart, BodyStart, WrapStart
  <2>1. DOMAIN code = {}
    BY DEF SystemInit
  <2> QED
    BY <2>1 DEF SkipInv
<1>2. Inv /\ [Next]_vars => Inv'
  BY ImageStep, BodyStep, WrapStep, SkipStep
<1>3. Inv => SkipIsJustified
  BY SkipFolded DEF SkipInv
<1> QED
  BY <1>1, <1>2, <1>3, PTL DEF Spec

-----------------------------------------------------------------------------
(* is_mnt answers for the modules that are loaded *)

\* Bodies that are registered do not overlap: those of one module do not, and no
\* address is used twice.
OwnBodies ==
    /\ OwnPlaces
    /\ \A m \in Module : \A s1, s2 \in Symbols(m) :
          /\ find(s1.name) # "" /\ s1.target = s1.start /\ s1.start < s1.end
          /\ find(s2.name) # "" /\ s2.target = s2.start /\ s2.start < s2.end
          /\ s1.start < s2.start
          => s1.end <= s2.start

\* An image is found for every address of a module that is loaded, and it is the
\* image of that module, whatever the cache holds.
LEMMA ImageOfFinds ==
    ASSUME ImageInv, s_policy # "off", NEW pc \in Int, NEW m \in DOMAIN loaded,
           loaded[m] <= pc, pc < loaded[m] + Image[m].size
    PROVE  ImageOf(pc) = ImageAt(m, loaded[m])
<1> DEFINE I == {i \in 1 .. Len(s_images) : Within(s_images[i], pc)}
           k == IF I # {} THEN Min(I) ELSE 0
           im == ImageAt(m, loaded[m])
<1>1. ImageOf(pc) = IF Within(s_last_img, pc) THEN s_last_img
                    ELSE IF k = 0 THEN NoImage ELSE s_images[k]
  BY DEF ImageOf, SelectInSeq
<1>2. s_images \in Seq(Kept)
  BY DEF ImageInv
<1>3. Len(s_images) \in Nat /\ DOMAIN s_images = 1 .. Len(s_images)
  BY <1>2
<1>4. ToSet(s_images) = Kept /\ (s_last_img = NoImage \/ s_last_img \in Kept)
  BY DEF ImageInv
<1>5. IF I = {} THEN k = 0 ELSE k \in I /\ \A j \in I : k <= j
  <2>1. I \subseteq 1 .. Len(s_images)
    OBVIOUS
  <2> HIDE DEF I
  <2> QED
    BY <1>3, <2>1, LeastPlace
<1>6. \A x \in DOMAIN loaded :
         /\ loaded[x] \in Nat /\ Image[x].size \in Nat
         /\ ImageAt(x, loaded[x]).low = loaded[x]
         /\ ImageAt(x, loaded[x]).high = loaded[x] + Image[x].size - 1
  <2>1. ASSUME NEW x \in DOMAIN loaded PROVE x \in Module /\ loaded[x] \in Base[x]
    BY DEF ImageInv
  <2>2. ASSUME NEW x \in DOMAIN loaded PROVE loaded[x] \in Nat /\ Image[x].size \in Nat
    BY <2>1, PlaceFacts
  <2> QED
    BY <2>2 DEF ImageAt
<1>7. ASSUME NEW x \in Kept, Within(x, pc) PROVE x = im
  <2>1. PICK m1 \in DOMAIN loaded : x = ImageAt(m1, loaded[m1])
    BY DEF Kept
  <2>2. loaded[m1] <= pc /\ pc < loaded[m1] + Image[m1].size
    BY <1>6, <1>7, <2>1 DEF Within
  <2>3. m1 # m => loaded[m1] + Image[m1].size <= loaded[m] \/ loaded[m] + Image[m].size <= loaded[m1]
    BY DEF ImageInv
  <2>4. m1 = m
    BY <1>6, <2>2, <2>3
  <2> QED
    BY <2>1, <2>4
<1>8. im \in Kept /\ Within(im, pc)
  BY <1>6 DEF Kept, Within
<1>9. ~Within(NoImage, pc)
  BY DEF Within, NoImage
<1>10. CASE Within(s_last_img, pc)
  BY <1>1, <1>4, <1>7, <1>9, <1>10
<1>11. CASE ~Within(s_last_img, pc)
  <2> HIDE DEF im
  <2>1. PICK i \in 1 .. Len(s_images) : s_images[i] = im
    <3>1. im \in ToSet(s_images)
      BY <1>4, <1>8
    <3> QED
      BY <1>3, <3>1 DEF ToSet
  <2>2. i \in I
    BY <1>8, <2>1
  <2>3. \A j \in I : j \in 1 .. Len(s_images) /\ Within(s_images[j], pc)
    OBVIOUS
  <2> HIDE DEF I, k
  <2>4. k \in 1 .. Len(s_images) /\ Within(s_images[k], pc) /\ k # 0
    <3>1. k \in I
      BY <1>5, <2>2
    <3>2. \A j \in 1 .. Len(s_images) : j # 0
      BY <1>3
    <3> QED
      BY <2>3, <3>1, <3>2
  <2>5. s_images[k] \in Kept
    BY <1>3, <1>4, <2>4 DEF ToSet
  <2> QED
    BY <1>1, <1>7, <1>11, <2>4, <2>5 DEF im
<1> QED
  BY <1>10, <1>11

\* An interval that begins below another one and lies in a separate place ends below
\* it.
LEMMA ApartNumbers ==
    \A b1, z1, s1, e1, b2, z2, s2, e2 \in Int :
       /\ s1 \in 1 .. z1 - 1 /\ e1 \in 0 .. z1 /\ s2 \in 1 .. z2 - 1 /\ e2 \in 0 .. z2
       /\ b1 + s1 < b2 + s2
       => /\ b1 = b2 => s1 < s2
          /\ b1 = b2 /\ e1 <= s2 => b1 + e1 <= b2 + s2
          /\ b1 + z1 <= b2 \/ b2 + z2 <= b1 => b1 + e1 <= b2 + s2
  OBVIOUS

\* Registered bodies do not overlap.
LEMMA BodiesApart ==
    ASSUME OwnBodies, BodyInv
    PROVE  \A a, b \in ToSet(s_ranges) : a[1] < b[1] => a[2] <= b[1]
<1> SUFFICES ASSUME NEW a \in ToSet(s_ranges), NEW b \in ToSet(s_ranges), a[1] < b[1]
             PROVE  a[2] <= b[1]
  OBVIOUS
<1>0. OwnPlaces
  BY DEF OwnBodies
<1>1. PICK m1 \in Module : \E b1 \in Base[m1], sym \in Symbols(m1) :
         BodyOf(b1, sym, a) /\ b1 + sym.start \in s_wrapped
  BY DEF BodyInv, Body
<1>2. PICK b1 \in Base[m1], s1 \in Symbols(m1) : BodyOf(b1, s1, a)
  BY <1>1
<1>3. PICK m2 \in Module : \E b2 \in Base[m2], sym \in Symbols(m2) :
         BodyOf(b2, sym, b) /\ b2 + sym.start \in s_wrapped
  BY DEF BodyInv, Body
<1>4. PICK b2 \in Base[m2], s2 \in Symbols(m2) : BodyOf(b2, s2, b)
  BY <1>3
<1>5. /\ a[1] = b1 + s1.start /\ a[2] = b1 + s1.end /\ s1.start < s1.end
      /\ s1.target = s1.start /\ find(s1.name) # ""
  BY <1>2 DEF BodyOf
<1>6. /\ b[1] = b2 + s2.start /\ b[2] = b2 + s2.end /\ s2.start < s2.end
      /\ s2.target = s2.start /\ find(s2.name) # ""
  BY <1>4 DEF BodyOf
<1>7. s1.start \in 1 .. Image[m1].size - 1 /\ s1.end \in 0 .. Image[m1].size
  BY SymbolFacts, Zenon
<1>8. s2.start \in 1 .. Image[m2].size - 1 /\ s2.end \in 0 .. Image[m2].size
  BY SymbolFacts, Zenon
<1>9. b1 \in Nat /\ Image[m1].size \in Nat /\ b2 \in Nat /\ Image[m2].size \in Nat
  BY PlaceFacts
<1>a. /\ b1 = b2 => s1.start < s2.start
      /\ b1 = b2 /\ s1.end <= s2.start => b1 + s1.end <= b2 + s2.start
      /\ b1 + Image[m1].size <= b2 \/ b2 + Image[m2].size <= b1 => b1 + s1.end <= b2 + s2.start
  <2>1. b1 + s1.start < b2 + s2.start
    BY <1>5, <1>6
  <2>2. s1.start \in Int /\ s1.end \in Int /\ s2.start \in Int /\ s2.end \in Int
    BY <1>7, <1>8
  <2> QED
    BY <1>7, <1>8, <1>9, <2>1, <2>2, ApartNumbers
<1>10. CASE m1 = m2 /\ b1 = b2
  <2>1. s1.start < s2.start
    BY <1>a, <1>10
  <2>2. s1.end <= s2.start
    BY <1>5, <1>6, <1>10, <2>1 DEF OwnBodies
  <2> QED
    BY <1>5, <1>6, <1>a, <1>10, <2>2
<1>11. CASE m1 # m2 \/ b1 # b2
  <2>1. b1 + Image[m1].size <= b2 \/ b2 + Image[m2].size <= b1
    BY <1>0, <1>11, Zenon DEF OwnPlaces
  <2> QED
    BY <1>5, <1>6, <1>a, <2>1
<1> QED
  BY <1>10, <1>11

\* Whatever was looked up, loaded and unloaded before: is_mnt answers for every
\* address from the modules that are loaded now, and from the bodies registered.
\* It finds what the accepted file lists, and nothing no readable file lists
\* (load_mnt_bin, on_module_load, on_module_unload, rtn_range_contains), for all
\* modules and files, as long as bodies do not overlap.
THEOREM IsMntIsExact == OwnBodies => (Spec => []IsMntExact)
<1> SUFFICES ASSUME OwnBodies PROVE Spec => []IsMntExact
  OBVIOUS
<1> DEFINE Inv == ImageInv /\ BodyInv
<1>1. SystemInit => Inv
  BY ImageStart, BodyStart
<1>2. Inv /\ [Next]_vars => Inv'
  BY ImageStep, BodyStep
<1>3. Inv => IsMntExact
  <2> SUFFICES ASSUME ImageInv, BodyInv PROVE IsMntExact
    OBVIOUS
  <2>1. s_ranges \in Seq(Pairs) /\ (s_ranges_dirty \/ Ordered(s_ranges, LessPairs))
    BY DEF BodyInv
  <2>2. \A pc : InBody(pc) <=> \E r \in ToSet(s_ranges) : Inside(r, pc)
    BY DEF InBody, Inside, ToSet
  <2>3. ASSUME NEW pc \in Pc, AtOffset(pc, Accepted) PROVE is_mnt(pc)
    <3>1. /\ s_policy # "off"
          /\ \E m \in DOMAIN loaded :
                /\ loaded[m] <= pc /\ pc < loaded[m] + Image[m].size
                /\ pc - loaded[m] \in Offsets(Accepted(m))
      BY <2>3, Zenon DEF AtOffset
    <3>2. PICK m \in DOMAIN loaded :
             /\ loaded[m] <= pc /\ pc < loaded[m] + Image[m].size
             /\ pc - loaded[m] \in Offsets(Accepted(m))
      BY <3>1
    <3>3. pc \in Int
      BY DEF Pc
    <3>4. m \in Module
      BY DEF ImageInv
    <3> DEFINE im == ImageAt(m, loaded[m])
    <3>5. ImageOf(pc) = im
      BY <3>1, <3>2, <3>3, ImageOfFinds
    <3>6. ImageHolds(m, loaded[m], im)
      BY <3>4, ImageFacts
    <3> HIDE DEF im
    <3>7. im.mnt_sorted \in Seq(Int)
      BY <3>6, Zenon DEF ImageHolds
    <3>8. /\ im.low = loaded[m] /\ pc - loaded[m] \in ToSet(im.mnt_sorted)
          /\ Ordered(im.mnt_sorted, LessNumbers)
      BY <3>2, <3>6, Zenon DEF ImageHolds
    <3>9. binary_search(im.mnt_sorted, pc - im.low)
      BY <3>7, <3>8, SearchFinds
    <3> QED
      BY <3>5, <3>9 DEF is_mnt, Listed
  <2>4. ASSUME NEW pc \in Pc, InBody(pc) PROVE is_mnt(pc)
    <3>1. pc \in Int
      BY DEF Pc
    <3>2. PICK r \in ToSet(s_ranges) : Inside(r, pc)
      BY <2>2, <2>4
    <3>3. rtn_range_contains(pc)
      BY <2>1, <3>1, <3>2, BodiesApart, BodyFinds
    <3> QED
      BY <3>3 DEF is_mnt
  <2>5. ASSUME NEW pc \in Pc, is_mnt(pc)
        PROVE  InBody(pc) \/ AtOffset(pc, LAMBDA m : {f \in ToSet(Image[m].files) : f.header})
    <3>1. pc \in Int
      BY DEF Pc
    <3>2. ListedAt(pc) \/ \E r \in ToSet(s_ranges) : Inside(r, pc)
      BY <2>5, <3>1, LookupSound
    <3>3. ListedAt(pc) <=> AtOffset(pc, LAMBDA m : {f \in ToSet(Image[m].files) : f.header})
      BY DEF AtOffset, ListedAt, Headed
    <3> QED
      BY <2>2, <3>2, <3>3, Zenon
  <2> QED
    BY <2>3, <2>4, <2>5, Zenon DEF IsMntExact
<1> QED
  BY <1>1, <1>2, <1>3, PTL DEF Spec

-----------------------------------------------------------------------------
(* Types *)

\* The registrations and the wrapped functions are code addresses.
SinkInv ==
    /\ events \subseteq {"mnt", "sdft", "func"}
    /\ g_pending_func_sinks \in Seq(Registration)
    /\ \A k \in DOMAIN g_pending_func_sinks : g_pending_func_sinks[k].pc \in Pc \cup {0}
    /\ func_wraps \subseteq Pc

\* The start, the end and the target of a symbol lie in its module.
LEMMA SymbolPlaces ==
    ASSUME NEW m \in Module, NEW base \in Base[m], NEW sym \in Symbols(m)
    PROVE  /\ base + sym.start \in Pc /\ base + sym.target \in Pc
           /\ sym.start < sym.end => base + sym.end \in Pc \cup {MaxPc + 1}
<1>1. /\ sym.start \in 1 .. Image[m].size - 1 /\ sym.end \in 0 .. Image[m].size
      /\ sym.target \in 1 .. Image[m].size - 1
  BY SymbolFacts, Zenon
<1>2. /\ base \in Nat /\ base >= 1 /\ Image[m].size \in Nat
      /\ MaxPc \in Nat /\ base + Image[m].size - 1 <= MaxPc
  BY PlaceFacts
<1> QED
  BY <1>1, <1>2 DEF Pc

\* A registration is added.
LEMMA SinkRegister ==
    ASSUME SinkInv, NEW e \in Registration, e.pc \in Pc \cup {0},
           g_pending_func_sinks' = Append(g_pending_func_sinks, e),
           UNCHANGED <<events, func_wraps>>
    PROVE  SinkInv'
<1> DEFINE p == g_pending_func_sinks
<1>1. p \in Seq(Registration)
  BY DEF SinkInv
<1>2. /\ p' \in Seq(Registration) /\ Len(p') = Len(p) + 1 /\ p'[Len(p) + 1] = e
      /\ \A k \in 1 .. Len(p) : p'[k] = p[k]
  BY <1>1, AppendProperties
<1>3. DOMAIN p' = 1 .. Len(p) + 1 /\ DOMAIN p = 1 .. Len(p) /\ Len(p) \in Nat
  BY <1>1, <1>2, LenProperties
<1>4. ASSUME NEW k \in DOMAIN p' PROVE p'[k].pc \in Pc \cup {0}
  <2>1. k \in 1 .. Len(p) \/ k = Len(p) + 1
    BY <1>3, OrLast
  <2> QED
    BY <1>2, <1>3, <2>1 DEF SinkInv
<1>5. p' \in Seq(Registration) /\ \A k \in DOMAIN p' : p'[k].pc \in Pc' \cup {0}
  BY <1>2, <1>4 DEF Pc
<1>6. events' \subseteq {"mnt", "sdft", "func"} /\ func_wraps' \subseteq Pc'
  BY DEF SinkInv, Pc
<1> QED
  BY <1>5, <1>6, Zenon DEF SinkInv

\* Resolving a registration leads to a code address.
LEMMA ResolvePlace ==
    ASSUME NEW e \in Registration, NEW m \in Module, NEW base \in Base[m], e.pc \in Pc \cup {0}
    PROVE  LET r == Resolve(e, m, base) IN r \in Registration /\ (r = e \/ r.pc \in Pc)
<1> DEFINE r == Resolve(e, m, base)
<1>1. ResolvedIn(e, m, r)
  BY ResolveFacts
<1> HIDE DEF r
<1>2. r \in Registration /\ (r = e \/ ResolvedTo(r))
  BY <1>1 DEF ResolvedIn
<1>3. ASSUME ResolvedTo(r) PROVE r.pc \in Pc
  <2>1. PICK m1 \in Module : \E b \in Base[m1], sym \in Symbols(m1) :
           Matches(r, m1, sym) /\ r.pc = b + sym.start
    BY <1>3 DEF ResolvedTo
  <2>2. PICK b \in Base[m1], sym \in Symbols(m1) : r.pc = b + sym.start
    BY <2>1
  <2> QED
    BY <2>2, SymbolPlaces
<1> QED
  BY <1>2, <1>3 DEF r

\* A module is loaded.
LEMMA SinkLoad ==
    ASSUME SinkInv, NEW m \in Module, NEW base \in Base[m], Load(m, base)
    PROVE  SinkInv'
<1> DEFINE p == g_pending_func_sinks
           r == [k \in DOMAIN p |-> Resolve(p[k], m, base)]
<1>1. events' = events /\ func_sink_on_module_load(m, base)
  BY DEF Load
<1>2. p \in Seq(Registration)
  BY DEF SinkInv
<1>3. DOMAIN p = 1 .. Len(p) /\ Len(p) \in Nat /\ \A k \in DOMAIN p : p[k] \in Registration
  BY <1>2
<1>4. events' \subseteq {"mnt", "sdft", "func"} /\ Pc' = Pc
  BY <1>1 DEF SinkInv, Pc
<1>5. CASE "func" \notin events
  <2>1. p' = p /\ func_wraps' = func_wraps
    BY <1>1, <1>5 DEF func_sink_on_module_load
  <2> QED
    BY <1>4, <2>1 DEF SinkInv
<1>6. CASE "func" \in events
  <2>1. p' = r /\ func_wraps' = func_wraps \cup {r[k].pc : k \in {j \in DOMAIN r : r[j] # p[j]}}
    BY <1>1, <1>6, Zenon DEF func_sink_on_module_load
  <2>2. DOMAIN r = DOMAIN p /\ \A k \in DOMAIN p : r[k] = Resolve(p[k], m, base)
    OBVIOUS
  <2>3. r = [k \in 1 .. Len(p) |-> r[k]]
    BY <1>3
  <2> HIDE DEF r
  <2>4. ASSUME NEW k \in DOMAIN p
        PROVE  r[k] \in Registration /\ (r[k] = p[k] \/ r[k].pc \in Pc) /\ p[k].pc \in Pc \cup {0}
    <3>1. p[k] \in Registration /\ p[k].pc \in Pc \cup {0}
      BY <1>3 DEF SinkInv
    <3> HIDE DEF p
    <3> QED
      BY <2>2, <3>1, ResolvePlace
  <2>5. p' \in Seq(Registration)
    BY <1>3, <2>1, <2>3, <2>4, IsASeq
  <2>6. \A k \in DOMAIN p' : p'[k].pc \in Pc \cup {0}
    BY <2>1, <2>2, <2>4
  <2>7. func_wraps' \subseteq Pc
    BY <2>1, <2>2, <2>4 DEF SinkInv
  <2> QED
    BY <1>4, <2>5, <2>6, <2>7 DEF SinkInv
<1> QED
  BY <1>5, <1>6

\* Every step keeps SinkInv.
LEMMA SinkStep == SinkInv /\ [Next]_vars => SinkInv'
<1> SUFFICES ASSUME SinkInv, [Next]_vars PROVE SinkInv'
  OBVIOUS
<1>0. ASSUME g_pending_func_sinks' = g_pending_func_sinks, func_wraps' = func_wraps,
             events' \subseteq events
      PROVE  SinkInv'
  BY <1>0 DEF SinkInv, Pc
<1>1. ASSUME NEW c \in FuncChoice, register_func_sink(c.name, c.module) PROVE SinkInv'
  <2> DEFINE e == [name |-> c.name, module |-> c.module, pc |-> 0]
  <2>1. e \in Registration /\ e.pc \in Pc \cup {0}
    BY DEF Registration
  <2>2. g_pending_func_sinks' = Append(g_pending_func_sinks, e) /\ UNCHANGED <<events, func_wraps>>
    BY <1>1 DEF register_func_sink, wrapVars
  <2> HIDE DEF e
  <2> QED
    BY <2>1, <2>2, SinkRegister
<1>2. ASSUME NEW pc \in PcChoice, register_func_sink_pc(pc) PROVE SinkInv'
  <2> DEFINE e == [name |-> "", module |-> "", pc |-> pc]
  <2>1. pc \in Pc /\ pc \in Nat
    <3>1. pc \in Pc /\ MaxPc \in Nat
      BY ClientAssumption, ImageAssumption, Zenon
    <3> QED
      BY <3>1 DEF Pc
  <2>2. e \in Registration /\ e.pc \in Pc \cup {0}
    BY <2>1 DEF Registration
  <2>3. g_pending_func_sinks' = Append(g_pending_func_sinks, e) /\ UNCHANGED <<events, func_wraps>>
    BY <1>2 DEF register_func_sink_pc, wrapVars
  <2> HIDE DEF e
  <2> QED
    BY <2>2, <2>3, SinkRegister
<1>3. ASSUME NEW r \in RangeChoice, register_pc_range_sink(r[1], r[2]) PROVE SinkInv'
  BY <1>0, <1>3 DEF register_pc_range_sink, wrapVars
<1>4. ASSUME NEW value \in Env, NEW opaque \in BOOLEAN, NEW sdft \in SdftEnv,
             init(value, opaque, sdft)
      PROVE SinkInv'
  <2> DEFINE p == g_pending_func_sinks
  <2>1. /\ p' = p
        /\ func_wraps' = {e.pc : e \in {x \in ToSet(p) : x.pc # 0 /\ x.name = ""}}
        /\ events' \subseteq {"mnt", "sdft", "func"}
    BY <1>4 DEF init, libdft_setup, libdft_core_init, SdftInit, sinkVars
  <2>2. func_wraps' \subseteq Pc
    BY <2>1 DEF SinkInv, ToSet
  <2> QED
    BY <2>1, <2>2 DEF SinkInv, Pc
<1>5. CASE StartApp
  BY <1>0, <1>5 DEF StartApp, wrapVars, sinkVars
<1>6. ASSUME NEW m \in Module, NEW base \in Base[m], Load(m, base) PROVE SinkInv'
  BY <1>6, SinkLoad
<1>7. ASSUME NEW m \in Module, Unload(m) PROVE SinkInv'
  BY <1>0, <1>7 DEF Unload, wrapVars, sinkVars
<1>8. ASSUME NEW pc \in Pc, Execute(pc) PROVE SinkInv'
  BY <1>0, <1>8 DEF Execute, wrapVars, sinkVars
<1>9. CASE event_exit
  BY <1>0, <1>9 DEF event_exit, wrapVars, sinkVars
<1>10. CASE UNCHANGED vars
  BY <1>0, <1>10 DEF vars, wrapVars, sinkVars
<1> QED
  BY <1>1, <1>2, <1>3, <1>4, <1>5, <1>6, <1>7, <1>8, <1>9, <1>10 DEF Next, Ended

\* Every variable keeps its type: the bodies, the wrapped functions and the
\* translations are code addresses, for all modules and wherever they are loaded.
THEOREM ConsumerTypes == Spec => []TypeOK
<1> DEFINE Inv == ImageInv /\ BodyInv /\ WrapInv /\ CodeInv /\ SinkInv
<1>1. SystemInit => Inv
  <2> SUFFICES ASSUME SystemInit PROVE CodeInv /\ SinkInv
    BY ImageStart, BodyStart, WrapStart
  <2>1. /\ last.pc = 0 /\ DOMAIN code = {} /\ phase = "client" /\ events = {} /\ func_wraps = {}
        /\ g_pc_ranges = <<>> /\ g_pending_func_sinks = <<>>
    BY DEF SystemInit, Nothing
  <2>2. CodeInv
    BY <2>1 DEF CodeInv
  <2>3. g_pending_func_sinks \in Seq(Registration) /\ DOMAIN g_pending_func_sinks = {}
    BY <2>1
  <2> QED
    BY <2>1, <2>2, <2>3 DEF SinkInv
<1>2. Inv /\ [Next]_vars => Inv'
  BY ImageStep, BodyStep, WrapStep, CodeStep, SinkStep
<1>3. Inv => TypeOK
  <2> SUFFICES ASSUME Inv PROVE TypeOK
    OBVIOUS
  <2>1. ASSUME NEW k \in DOMAIN s_ranges PROVE s_ranges[k] \in Pc \X (Pc \cup {MaxPc + 1})
    <3> DEFINE r == s_ranges[k]
    <3>1. r \in ToSet(s_ranges)
      BY DEF ToSet
    <3>2. PICK m \in Module : \E base \in Base[m], sym \in Symbols(m) :
             BodyOf(base, sym, r) /\ base + sym.start \in s_wrapped
      BY <3>1 DEF BodyInv, Body
    <3>3. PICK base \in Base[m], sym \in Symbols(m) : BodyOf(base, sym, r)
      BY <3>2
    <3>4. r = <<base + sym.start, base + sym.end>> /\ sym.start < sym.end
      BY <3>3 DEF BodyOf
    <3>5. base + sym.start \in Pc /\ base + sym.end \in Pc \cup {MaxPc + 1}
      BY <3>4, SymbolPlaces
    <3> QED
      BY <3>4, <3>5
  <2>2. s_wrapped \subseteq Pc
    <3> SUFFICES ASSUME NEW x \in s_wrapped PROVE x \in Pc
      OBVIOUS
    <3>1. PICK m \in Module : \E base \in Base[m], sym \in Symbols(m) : Summarised(m, base, sym, x)
      BY Zenon DEF WrapInv
    <3>2. PICK base \in Base[m], sym \in Symbols(m) : Summarised(m, base, sym, x)
      BY <3>1
    <3>3. x = base + sym.target
      BY <3>2 DEF Summarised
    <3> QED
      BY <3>3, SymbolPlaces
  <2>3. /\ s_policy \in {"off", "lean", "sound", "v2_perpc"}
        /\ phase \in {"client", "app", "exited"} /\ g_initialized \in BOOLEAN
        /\ DOMAIN loaded \subseteq Module /\ \A m \in DOMAIN loaded : loaded[m] \in Base[m]
    BY DEF ImageInv
  <2>4. s_ranges_dirty \in BOOLEAN /\ DOMAIN sdft_wraps \subseteq Pc
    BY <2>2 DEF BodyInv, WrapInv
  <2>5. /\ events \subseteq {"mnt", "sdft", "func"} /\ func_wraps \subseteq Pc
        /\ \A k \in DOMAIN g_pending_func_sinks : g_pending_func_sinks[k].pc \in Pc \cup {0}
    BY DEF SinkInv
  <2>6. DOMAIN code \subseteq Pc /\ last.pc \in Pc \cup {0}
    BY DEF CodeInv
  <2> QED
    BY <2>1, <2>2, <2>3, <2>4, <2>5, <2>6, Zenon DEF TypeOK
<1> QED
  BY <1>1, <1>2, <1>3, PTL DEF Spec
=============================================================================
