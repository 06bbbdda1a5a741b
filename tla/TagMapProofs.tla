---------------------------- MODULE TagMapProofs ----------------------------
(***************************************************************************)
(* Proofs about TagMap, for every label set, every page-table geometry and *)
(* every id space.                                                         *)
(*                                                                         *)
(* The inductive invariant is Inv: the type invariant, the intern table as *)
(* the inverse of the set table, the canonicity of ids (which follows from *)
(* it, and which the steps need), and the soundness of the memo.           *)
(***************************************************************************)
EXTENDS TagMap, LoopTheorems

Inv == TypeOK /\ Canonical /\ InternInverse /\ MemoSound

-----------------------------------------------------------------------------
(* Arithmetic of the page-table geometry *)

\* Quotient and remainder recompose the number and lie in their ranges.
LEMMA DivMod ==
    ASSUME NEW a \in Nat, NEW S \in Nat \ {0}
    PROVE  /\ a = (S * (a \div S)) + (a % S)
           /\ a % S \in 0 .. S - 1
           /\ a \div S \in Nat
  BY Z3

\* A product of positive numbers is positive, and no smaller than a factor.
LEMMA PositiveProduct ==
    ASSUME NEW S \in Nat \ {0}, NEW d \in Nat \ {0}
    PROVE  S * d \in Nat \ {0} /\ S * d >= S
  BY Z3

\* Multiplication distributes over subtraction and over the sum that a page
\* index is part of.
LEMMA Distribute ==
    ASSUME NEW S \in Nat, NEW P \in Nat, NEW q \in Nat, NEW u \in Nat
    PROVE  /\ S * (q - u) = S * q - S * u
           /\ S * (P * q + u) = (P * S) * q + S * u
  BY Z3

\* A number has only one quotient and remainder.
LEMMA UniqueDivMod ==
    ASSUME NEW S \in Nat \ {0}, NEW q \in Nat, NEW p \in Nat,
           NEW r \in 0 .. S - 1, NEW t \in 0 .. S - 1,
           S * q + r = S * p + t
    PROVE  q = p /\ r = t
<1>1. CASE q < p
  <2>1. p - q \in Nat \ {0}
    BY <1>1
  <2>2. S * (p - q) >= S
    BY <2>1, PositiveProduct
  <2>. QED
    BY <2>2, Distribute
<1>2. CASE p < q
  <2>1. q - p \in Nat \ {0}
    BY <1>2
  <2>2. S * (q - p) >= S
    BY <2>1, PositiveProduct
  <2>. QED
    BY <2>2, Distribute
<1>3. CASE p = q
  BY <1>3
<1>. QED
  BY <1>1, <1>2, <1>3

\* A number below S * p has a quotient below p.
LEMMA QuotientBelow ==
    ASSUME NEW S \in Nat \ {0}, NEW q \in Nat, NEW p \in Nat,
           NEW r \in 0 .. S - 1, S * q + r < S * p
    PROVE  q < p
<1>1. SUFFICES ASSUME q >= p PROVE FALSE
  OBVIOUS
<1>2. q - p \in Nat
  BY <1>1
<1>3. S * (q - p) >= 0
  BY <1>2, Z3
<1>. QED
  BY <1>3, Distribute

\* The three indices of an address recompose it, and the lower two stay inside
\* their arrays (VIRT2PAGE inside page[PAGETABLE_SZ], VIRT2OFFSET inside
\* tag[PAGE_SIZE]).
LEMMA Indices ==
    ASSUME NEW a \in Nat
    PROVE  /\ a = (PAGETABLE_SZ * PAGE_SIZE) * VIRT2PAGETABLE(a)
                  + PAGE_SIZE * VIRT2PAGE(a) + VIRT2OFFSET(a)
           /\ VIRT2PAGETABLE(a) \in Nat
           /\ VIRT2PAGE(a) \in 0 .. PAGETABLE_SZ - 1
           /\ VIRT2OFFSET(a) \in 0 .. PAGE_SIZE - 1
<1>. DEFINE S == PAGE_SIZE
            P == PAGETABLE_SZ
            K == P * S
            q == a \div K
            r == a % K
            u == r \div S
            v == r % S
<1>. S \in Nat \ {0} /\ P \in Nat \ {0}
  BY GeometryAssumption
<1>. HIDE DEF S, P
<1>1. K \in Nat \ {0}
  BY PositiveProduct
<1>. HIDE DEF K
<1>2. a = K * q + r /\ r \in 0 .. K - 1 /\ q \in Nat
  BY <1>1, DivMod
<1>. HIDE DEF q, r
<1>3. r = S * u + v /\ v \in 0 .. S - 1 /\ u \in Nat
  <2>1. r \in Nat
    BY <1>1, <1>2
  <2>2. \A x \in Nat : /\ x = (S * (x \div S)) + (x % S)
                       /\ x % S \in 0 .. S - 1
                       /\ x \div S \in Nat
    BY DivMod
  <2>. QED
    BY <2>1, <2>2, Zenon
<1>. HIDE DEF u, v
<1>4. u \in 0 .. P - 1
  <2>1. K = S * P
    BY DEF K
  <2>2. S * u + v < S * P
    BY <1>1, <1>2, <1>3, <2>1
  <2>. QED
    BY <1>3, <2>2, QuotientBelow
<1>5. a % S = v
  <2>. DEFINE w == P * q + u
  <2>1. S * w = K * q + S * u
    BY <1>2, <1>3, Distribute DEF K
  <2>2. w \in Nat
    BY <1>2, <1>3, Z3
  <2>. HIDE DEF w
  <2>3. a = S * w + v
    BY <2>1, <1>1, <1>2, <1>3, <2>2
  <2>. DEFINE m == a \div S
              n == a % S
  <2>4. a = S * m + n /\ n \in 0 .. S - 1 /\ m \in Nat
    BY DivMod
  <2>. HIDE DEF m
  <2>5. SUFFICES n = v
    OBVIOUS
  <2>. HIDE DEF n
  <2>. QED
    BY <1>3, <2>2, <2>3, <2>4, UniqueDivMod
<1>6. a = K * q + S * u + v
  BY <1>1, <1>2, <1>3
<1>7. VIRT2PAGETABLE(a) = q /\ VIRT2PAGE(a) = u /\ VIRT2OFFSET(a) = v
  BY <1>5 DEF VIRT2PAGETABLE, VIRT2PAGE, VIRT2OFFSET, S, P, K, q, r, u
<1>. QED
  BY <1>2, <1>3, <1>4, <1>6, <1>7 DEF K, P, S

\* Two addresses with the same indices are the same address: no two bytes of
\* the program share a shadow byte.
LEMMA IndicesInjective ==
    ASSUME NEW a \in Nat, NEW b \in Nat,
           VIRT2PAGETABLE(a) = VIRT2PAGETABLE(b),
           VIRT2PAGE(a) = VIRT2PAGE(b),
           VIRT2OFFSET(a) = VIRT2OFFSET(b)
    PROVE  a = b
  BY Indices

\* The directory index of an address with a shadow byte stays inside
\* table[TOP_DIR_SZ].
LEMMA TopIndex ==
    ASSUME NEW a \in Addr
    PROVE  VIRT2PAGETABLE(a) \in 0 .. TOP_DIR_SZ - 1
<1>. DEFINE K == PAGETABLE_SZ * PAGE_SIZE
<1>1. K \in Nat \ {0}
  BY GeometryAssumption, PositiveProduct
<1>2. TOP_DIR_SZ * PAGETABLE_SZ * PAGE_SIZE = K * TOP_DIR_SZ
  BY GeometryAssumption, Z3
<1>. HIDE DEF K
<1>3. K * TOP_DIR_SZ \in Nat \ {0}
  BY <1>1, GeometryAssumption, PositiveProduct
<1>4. a \in Nat /\ a < K * TOP_DIR_SZ
  BY <1>2, <1>3 DEF Addr
<1>5. /\ a = (K * (a \div K)) + (a % K)
      /\ a % K \in 0 .. K - 1
      /\ a \div K \in Nat
  BY <1>1, <1>4, DivMod
<1>6. a \div K < TOP_DIR_SZ
  BY <1>1, <1>4, <1>5, GeometryAssumption, QuotientBelow
<1>. QED
  BY <1>5, <1>6, GeometryAssumption DEF VIRT2PAGETABLE, K

-----------------------------------------------------------------------------
(* The page table *)

\* The addresses with a shadow byte are numbers.
LEMMA AddrNat == Addr \subseteq Nat
  BY GeometryAssumption DEF Addr

\* A store keeps the directory well formed (tag_dir_setb).
LEMMA SetbType ==
    ASSUME NEW dir, NEW ids, 0 \in ids, NEW id \in ids, NEW a \in Nat,
           DirOK(dir, ids)
    PROVE  DirOK(tag_dir_setb(dir, a, id), ids)
<1>1. CASE a \notin Addr
  BY <1>1 DEF tag_dir_setb
<1>2. CASE a \in Addr
  <2>. DEFINE t == VIRT2PAGETABLE(a)
              p == VIRT2PAGE(a)
              o == VIRT2OFFSET(a)
              table == TableFor(dir, t)
              page == PageFor(table, p)
              newpage == [page EXCEPT ![o] = id]
              newtable == Put(table, p, newpage)
  <2>1. /\ t \in 0 .. TOP_DIR_SZ - 1
        /\ p \in 0 .. PAGETABLE_SZ - 1
        /\ o \in 0 .. PAGE_SIZE - 1
    BY <1>2, TopIndex, Indices
  <2>. HIDE DEF t, p, o
  <2>2. /\ DOMAIN table \subseteq 0 .. PAGETABLE_SZ - 1
        /\ \A x \in DOMAIN table : table[x] \in [0 .. PAGE_SIZE - 1 -> ids]
    BY DEF DirOK, TableFor, Empty
  <2>. HIDE DEF table
  <2>3. page \in [0 .. PAGE_SIZE - 1 -> ids]
    BY <2>2 DEF PageFor
  <2>. HIDE DEF page
  <2>4. newpage \in [0 .. PAGE_SIZE - 1 -> ids]
    BY <2>1, <2>3
  <2>. HIDE DEF newpage
  <2>5. /\ DOMAIN newtable \subseteq 0 .. PAGETABLE_SZ - 1
        /\ \A x \in DOMAIN newtable : newtable[x] \in [0 .. PAGE_SIZE - 1 -> ids]
    BY <2>1, <2>2, <2>4 DEF Put
  <2>. HIDE DEF newtable
  <2>6. DirOK(Put(dir, t, newtable), ids)
    BY <2>1, <2>5 DEF DirOK, Put
  <2>. QED
    BY <1>2, <2>6 DEF tag_dir_setb, newtable, newpage, page, table, t, p, o
<1>. QED
  BY <1>1, <1>2

\* After a store, a load returns the stored tag at the address of the store and
\* what it returned before everywhere else, whether or not the store allocated
\* a table or a page (tag_dir_setb, tag_dir_getb).
LEMMA SetbGetb ==
    ASSUME NEW dir, NEW ids, DirOK(dir, ids), NEW id, NEW a \in Nat, NEW b \in Addr
    PROVE  tag_dir_getb(tag_dir_setb(dir, a, id), b)
             = IF a = b THEN id ELSE tag_dir_getb(dir, b)
<1>1. CASE a \notin Addr
  BY <1>1 DEF tag_dir_setb
<1>2. CASE a \in Addr
  <2>. DEFINE t(x) == VIRT2PAGETABLE(x)
              p(x) == VIRT2PAGE(x)
              o(x) == VIRT2OFFSET(x)
              table == TableFor(dir, t(a))
              page == PageFor(table, p(a))
              newpage == [page EXCEPT ![o(a)] = id]
              newtable == Put(table, p(a), newpage)
  <2>0. b \in Nat
    BY AddrNat
  <2>1. /\ o(a) \in 0 .. PAGE_SIZE - 1
        /\ o(b) \in 0 .. PAGE_SIZE - 1
    BY <2>0, Indices
  <2>2. t(a) = t(b) /\ p(a) = p(b) /\ o(a) = o(b) <=> a = b
    BY <2>0, IndicesInjective
  <2>3. tag_dir_setb(dir, a, id) = Put(dir, t(a), newtable)
    BY <1>2 DEF tag_dir_setb
  <2>4. tag_dir_getb(Put(dir, t(a), newtable), b) =
          IF t(b) \in DOMAIN dir \cup {t(a)} /\ p(b) \in DOMAIN (Put(dir, t(a), newtable)[t(b)])
          THEN Put(dir, t(a), newtable)[t(b)][p(b)][o(b)] ELSE 0
    BY DEF tag_dir_getb, Put
  <2>5. /\ DOMAIN newpage = 0 .. PAGE_SIZE - 1
        /\ newpage[o(a)] = id
        /\ o(b) # o(a) => newpage[o(b)] = page[o(b)]
    <3>1. page = [x \in 0 .. PAGE_SIZE - 1 |-> page[x]]
      BY DEF DirOK, PageFor, TableFor, Empty
    <3>. QED
      BY <2>1, <3>1
  <2>6. page[o(b)] = IF p(a) \in DOMAIN table THEN table[p(a)][o(b)] ELSE 0
    BY <2>1 DEF PageFor
  <2>. HIDE DEF page
  <2>. HIDE DEF newpage
  <2>7. table = IF t(a) \in DOMAIN dir THEN dir[t(a)] ELSE Empty
    BY DEF TableFor
  <2>. HIDE DEF table
  <2>8. newtable = [x \in DOMAIN table \cup {p(a)} |-> IF x = p(a) THEN newpage ELSE table[x]]
    BY DEF Put
  <2>. HIDE DEF newtable
  <2>. HIDE DEF t, p, o
  <2>9. tag_dir_getb(dir, b) =
          IF t(b) \in DOMAIN dir /\ p(b) \in DOMAIN dir[t(b)]
          THEN dir[t(b)][p(b)][o(b)] ELSE 0
    BY DEF tag_dir_getb, t, p, o
  <2>10. CASE t(a) # t(b)
    <3>1. Put(dir, t(a), newtable)[t(b)] = dir[t(b)] \/ t(b) \notin DOMAIN dir
      BY <2>10 DEF Put
    <3>. QED
      BY <2>2, <2>3, <2>4, <2>9, <2>10, <3>1
  <2>11. CASE t(a) = t(b)
    <3>1. Put(dir, t(a), newtable)[t(b)] = newtable
      BY <2>11 DEF Put
    <3>2. tag_dir_getb(tag_dir_setb(dir, a, id), b) =
            IF p(b) \in DOMAIN newtable THEN newtable[p(b)][o(b)] ELSE 0
      BY <2>3, <2>4, <2>11, <3>1
    <3>3. CASE p(a) # p(b)
      BY <2>2, <2>7, <2>8, <2>9, <2>11, <3>2, <3>3 DEF Empty
    <3>4. CASE p(a) = p(b)
      <4>1. newtable[p(b)] = newpage /\ p(b) \in DOMAIN newtable
        BY <2>8, <3>4
      <4>2. tag_dir_getb(tag_dir_setb(dir, a, id), b) = newpage[o(b)]
        BY <3>2, <4>1
      <4>3. page[o(b)] = tag_dir_getb(dir, b)
        BY <2>6, <2>7, <2>9, <2>11, <3>4 DEF Empty
      <4>. QED
        BY <2>2, <2>5, <2>11, <3>4, <4>2, <4>3
    <3>. QED
      BY <3>3, <3>4
  <2>. QED
    BY <2>10, <2>11
<1>. QED
  BY <1>1, <1>2

\* Clearing a range keeps the directory well formed (file_tagmap_clrn).
LEMMA ClrnType ==
    ASSUME NEW dir, NEW ids, 0 \in ids, NEW a \in Nat, NEW n \in Nat,
           DirOK(dir, ids)
    PROVE  DirOK(file_tagmap_clrn(dir, a, n), ids)
<1>. DEFINE xs == Cleared(a, n)
            new == file_tagmap_clrn(dir, a, n)
<1>1. \A x \in xs : /\ VIRT2PAGETABLE(x) \in 0 .. TOP_DIR_SZ - 1
                    /\ VIRT2PAGE(x) \in 0 .. PAGETABLE_SZ - 1
  BY TopIndex, Indices, AddrNat DEF Cleared
<1>2. \A t : DOMAIN TableFor(dir, t) \subseteq 0 .. PAGETABLE_SZ - 1
  BY DEF DirOK, TableFor, Empty
<1>3. \A t, p : PageFor(TableFor(dir, t), p) \in [0 .. PAGE_SIZE - 1 -> ids]
  BY DEF DirOK, TableFor, PageFor, Empty
<1>4. DOMAIN new = DOMAIN dir \cup {VIRT2PAGETABLE(x) : x \in xs}
  BY DEF file_tagmap_clrn
<1>5. DOMAIN new \subseteq 0 .. TOP_DIR_SZ - 1
  BY <1>1, <1>4 DEF DirOK
<1>6. ASSUME NEW t \in DOMAIN new
      PROVE  /\ DOMAIN new[t] \subseteq 0 .. PAGETABLE_SZ - 1
             /\ \A p \in DOMAIN new[t] : new[t][p] \in [0 .. PAGE_SIZE - 1 -> ids]
  <2>1. DOMAIN new[t] = DOMAIN TableFor(dir, t)
                         \cup {VIRT2PAGE(x) : x \in {y \in xs : VIRT2PAGETABLE(y) = t}}
    BY DEF file_tagmap_clrn
  <2>2. DOMAIN new[t] \subseteq 0 .. PAGETABLE_SZ - 1
    BY <1>1, <1>2, <2>1
  <2>3. ASSUME NEW p \in DOMAIN new[t]
        PROVE  new[t][p] \in [0 .. PAGE_SIZE - 1 -> ids]
    <3>1. \E hit : new[t][p] =
            [o \in 0 .. PAGE_SIZE - 1 |->
                IF hit[o] THEN 0 ELSE PageFor(TableFor(dir, t), p)[o]]
      <4>1. WITNESS [o \in 0 .. PAGE_SIZE - 1 |->
                        \E x \in xs : /\ VIRT2PAGETABLE(x) = t
                                      /\ VIRT2PAGE(x) = p
                                      /\ VIRT2OFFSET(x) = o]
      <4>. QED
        BY DEF file_tagmap_clrn
    <3>2. PICK hit : new[t][p] =
            [o \in 0 .. PAGE_SIZE - 1 |->
                IF hit[o] THEN 0 ELSE PageFor(TableFor(dir, t), p)[o]]
      BY <3>1
    <3>. HIDE DEF new
    <3>3. \A o \in 0 .. PAGE_SIZE - 1 : PageFor(TableFor(dir, t), p)[o] \in ids
      BY <1>3
    <3>. QED
      BY <3>2, <3>3
  <2>. QED
    BY <2>2, <2>3
<1>. HIDE DEF new
<1>7. DirOK(new, ids)
  BY <1>5, <1>6 DEF DirOK
<1>. QED
  BY <1>7 DEF new

\* After clearing a range, a load returns the empty tag inside the range and
\* what it returned before outside of it (file_tagmap_clrn).
LEMMA ClrnGetb ==
    ASSUME NEW dir, NEW ids, DirOK(dir, ids),
           NEW a \in Nat, NEW n \in Nat, NEW b \in Addr
    PROVE  tag_dir_getb(file_tagmap_clrn(dir, a, n), b)
             = IF a <= b /\ b < a + n THEN 0 ELSE tag_dir_getb(dir, b)
<1>. DEFINE xs == Cleared(a, n)
            new == file_tagmap_clrn(dir, a, n)
            t == VIRT2PAGETABLE(b)
            p == VIRT2PAGE(b)
            o == VIRT2OFFSET(b)
            hit == \E x \in xs : /\ VIRT2PAGETABLE(x) = t
                                 /\ VIRT2PAGE(x) = p
                                 /\ VIRT2OFFSET(x) = o
            pages == {VIRT2PAGE(x) : x \in {y \in xs : VIRT2PAGETABLE(y) = t}}
<1>1. b \in Nat /\ o \in 0 .. PAGE_SIZE - 1
  BY AddrNat, Indices
<1>2. hit <=> b \in xs
  BY <1>1, IndicesInjective, AddrNat DEF Cleared
<1>3. b \in xs <=> a <= b /\ b < a + n
  BY DEF Cleared
<1>4. DOMAIN new = DOMAIN dir \cup {VIRT2PAGETABLE(x) : x \in xs}
  BY DEF file_tagmap_clrn
<1>5. t \in DOMAIN new => DOMAIN new[t] = DOMAIN TableFor(dir, t) \cup pages
  BY DEF file_tagmap_clrn
<1>6. t \in DOMAIN new /\ p \in DOMAIN new[t]
        => new[t][p][o] = IF hit THEN 0 ELSE PageFor(TableFor(dir, t), p)[o]
  BY <1>1 DEF file_tagmap_clrn
<1>7. tag_dir_getb(new, b) =
        IF t \in DOMAIN new /\ p \in DOMAIN new[t] THEN new[t][p][o] ELSE 0
  BY DEF tag_dir_getb
<1>8. tag_dir_getb(dir, b) =
        IF t \in DOMAIN dir /\ p \in DOMAIN dir[t] THEN dir[t][p][o] ELSE 0
  BY DEF tag_dir_getb
<1>9. PageFor(TableFor(dir, t), p)[o] = tag_dir_getb(dir, b)
  BY <1>1, <1>8 DEF PageFor, TableFor, Empty
<1>10. t \in DOMAIN dir /\ p \in DOMAIN dir[t] => t \in DOMAIN new /\ p \in DOMAIN new[t]
  BY <1>4, <1>5 DEF TableFor
<1>. HIDE DEF new, t, p, o, hit, xs, pages
<1>11. CASE t \in DOMAIN new /\ p \in DOMAIN new[t]
  BY <1>2, <1>3, <1>6, <1>7, <1>9, <1>11 DEF new
<1>12. CASE ~(t \in DOMAIN new /\ p \in DOMAIN new[t])
  BY <1>7, <1>8, <1>10, <1>12 DEF new
<1>. QED
  BY <1>11, <1>12

-----------------------------------------------------------------------------
(* The set table *)

\* The printed form determines the set (ewah_sprint).
LEMMA SprintInjective ==
    ASSUME NEW s \in SUBSET Offset, NEW r \in SUBSET Offset,
           ewah_sprint(s) = ewah_sprint(r)
    PROVE  s = r
<1>1. \A o \in Offset : ewah_sprint(s)[o] = (o \in s) /\ ewah_sprint(r)[o] = (o \in r)
  BY DEF ewah_sprint
<1>2. \A o \in Offset : o \in s <=> o \in r
  BY <1>1, Zenon
<1>. QED
  BY <1>2

\* Ids exist, and every id names a set of offsets.
LEMMA IdsFacts ==
    ASSUME TypeOK
    PROVE  /\ Len(g_sets) \in Nat \ {0}
           /\ 0 \in Ids
           /\ \A i \in Ids : SetOf(i) \in SUBSET Offset
  BY DEF TypeOK, Ids, SetOf

\* intern_set only appends; the id it returns names the set it was given; and
\* the tables stay inverse to each other.
LEMMA InternStep ==
    ASSUME Inv, NEW s \in SUBSET Offset, intern_set(s)
    PROVE  /\ g_sets' \in Seq(SUBSET Offset) /\ g_sets' # <<>>
           /\ Len(g_sets') <= ID_SPACE
           /\ \A i \in Ids : i \in Ids' /\ g_sets'[i + 1] = SetOf(i)
           /\ InternId(s) \in Ids' /\ g_sets'[InternId(s) + 1] = s
           /\ InternInverse' /\ Canonical'
<1>. USE DEF Inv
<1>1. CASE ewah_sprint(s) \in DOMAIN g_intern
  <2>1. UNCHANGED <<g_sets, g_intern>> /\ InternId(s) = g_intern[ewah_sprint(s)]
    BY <1>1 DEF intern_set, InternId
  <2>2. InternId(s) \in Ids /\ ewah_sprint(SetOf(InternId(s))) = ewah_sprint(s)
    BY <1>1, <2>1 DEF InternInverse
  <2>3. SetOf(InternId(s)) = s
    BY <2>2, IdsFacts, SprintInjective
  <2>4. Ids' = Ids /\ \A i \in Ids : g_sets'[i + 1] = SetOf(i)
    BY <2>1 DEF Ids, SetOf
  <2>5. InternInverse' /\ Canonical'
    BY <2>1 DEF InternInverse, Canonical, Ids, SetOf
  <2>6. g_sets'[InternId(s) + 1] = s
    BY <2>1, <2>3 DEF SetOf
  <2>. QED
    BY <2>1, <2>2, <2>4, <2>5, <2>6 DEF TypeOK
<1>2. CASE ewah_sprint(s) \notin DOMAIN g_intern
  <2>. DEFINE n == Len(g_sets)
              k == ewah_sprint(s)
  <2>1. /\ n < ID_SPACE
        /\ g_sets' = Append(g_sets, s)
        /\ g_intern' = Put(g_intern, k, InternId(s))
    BY <1>2 DEF intern_set
  <2>2. InternId(s) = n
    BY <1>2, <2>1, IdAssumption, IdsFacts DEF InternId
  <2>3. /\ g_sets' \in Seq(SUBSET Offset) /\ Len(g_sets') = n + 1
        /\ Ids' = 0 .. n
        /\ n \in Nat \ {0} /\ Ids = 0 .. n - 1
        /\ \A i \in Ids : g_sets'[i + 1] = SetOf(i)
        /\ g_sets'[n + 1] = s
    BY <2>1, IdsFacts DEF TypeOK, Ids, SetOf
  <2>4. n \in Ids' /\ n \notin Ids /\ Ids' = Ids \cup {n} /\ 0 \in Ids
    BY <2>3
  <2>. HIDE DEF n
  <2>5. \A i \in Ids : SetOf(i) # s
    BY <1>2 DEF InternInverse
  <2>6. Canonical'
    <3>1. g_sets'[0 + 1] = {}
      BY <2>3, <2>4 DEF Canonical
    <3>2. ASSUME NEW i \in Ids', NEW j \in Ids', g_sets'[i + 1] = g_sets'[j + 1]
          PROVE  i = j
      <4>1. CASE i \in Ids /\ j \in Ids
        <5>1. SetOf(i) = SetOf(j)
          BY <2>3, <3>2, <4>1
        <5>. QED
          BY <4>1, <5>1 DEF Canonical
      <4>2. CASE i = n \/ j = n
        BY <2>3, <2>4, <2>5, <3>2, <4>2
      <4>. QED
        BY <2>4, <4>1, <4>2
    <3>. QED
      BY <3>1, <3>2 DEF Canonical, SetOf
  <2>7. DOMAIN g_intern' = DOMAIN g_intern \cup {k}
        /\ g_intern'[k] = n
        /\ \A x \in DOMAIN g_intern : g_intern'[x] = g_intern[x]
    BY <1>2, <2>1, <2>2 DEF Put
  <2>8. ASSUME NEW i \in Ids'
        PROVE  /\ ewah_sprint(g_sets'[i + 1]) \in DOMAIN g_intern'
               /\ g_intern'[ewah_sprint(g_sets'[i + 1])] = i
    <3>1. CASE i = n
      BY <2>3, <2>7, <3>1
    <3>2. CASE i \in Ids
      BY <2>3, <2>7, <3>2 DEF InternInverse
    <3>. QED
      BY <2>3, <3>1, <3>2
  <2>9. ASSUME NEW x \in DOMAIN g_intern'
        PROVE  g_intern'[x] \in Ids' /\ ewah_sprint(g_sets'[g_intern'[x] + 1]) = x
    <3>1. CASE x = k
      BY <2>3, <2>4, <2>7, <3>1
    <3>2. CASE x \in DOMAIN g_intern
      <4>1. g_intern[x] \in Ids /\ ewah_sprint(SetOf(g_intern[x])) = x
        BY <3>2 DEF InternInverse
      <4>. QED
        BY <2>3, <2>7, <3>2, <4>1
    <3>. QED
      BY <2>7, <3>1, <3>2
  <2>10. InternInverse'
    BY <2>8, <2>9 DEF InternInverse, SetOf, ewah_sprint
  <2>11. Len(g_sets') <= ID_SPACE /\ g_sets' # <<>>
    BY <2>1, <2>3, IdAssumption
  <2>. QED
    BY <2>2, <2>3, <2>6, <2>10, <2>11
<1>. QED
  BY <1>1, <1>2

\* The memo stays sound while sets are only appended.
LEMMA MemoKept ==
    ASSUME Inv, UNCHANGED g_combine,
           \A i \in Ids : i \in Ids' /\ g_sets'[i + 1] = SetOf(i)
    PROVE  MemoSound'
  BY DEF Inv, MemoSound, SetOf

\* A directory of valid ids is one of valid ids after more sets are appended.
LEMMA DirKept ==
    ASSUME NEW dir, NEW ids, NEW more, ids \subseteq more, DirOK(dir, ids)
    PROVE  DirOK(dir, more)
  BY DEF DirOK

\* Steps that leave the three tables alone only have to keep held and tag_dir
\* well typed.
LEMMA TablesKept ==
    ASSUME Inv, UNCHANGED <<g_sets, g_intern, g_combine>>,
           held' \in [Slot -> Ids], DirOK(tag_dir', Ids)
    PROVE  Inv'
  BY DEF Inv, TypeOK, Canonical, InternInverse, MemoSound, Ids, SetOf, ewah_sprint

-----------------------------------------------------------------------------
(* Preservation, one lemma per operation *)

\* dft_label::set keeps the invariant.
LEMMA SetInv ==
    ASSUME Inv, NEW s \in Slot, NEW o \in Offset, Set(s, o)
    PROVE  Inv'
<1>1. intern_set({o}) /\ held' = [held EXCEPT ![s] = InternId({o})]
      /\ UNCHANGED <<g_combine, tag_dir>>
  BY DEF Set
<1>2. /\ g_sets' \in Seq(SUBSET Offset) /\ g_sets' # <<>>
      /\ Len(g_sets') <= ID_SPACE
      /\ \A i \in Ids : i \in Ids' /\ g_sets'[i + 1] = SetOf(i)
      /\ InternId({o}) \in Ids'
      /\ InternInverse' /\ Canonical'
  BY <1>1, InternStep
<1>3. MemoSound'
  BY <1>1, <1>2, MemoKept
<1>4. held' \in [Slot -> Ids']
  BY <1>1, <1>2 DEF Inv, TypeOK
<1>5. DirOK(tag_dir', Ids')
  BY <1>1, <1>2, DirKept DEF Inv, TypeOK
<1>. QED
  BY <1>2, <1>3, <1>4, <1>5 DEF Inv, TypeOK

\* tag_combine keeps the invariant when it needs no table.
LEMMA CombineShortcutInv ==
    ASSUME Inv, NEW s \in Slot, NEW l \in Slot, NEW r \in Slot,
           CombineShortcut(s, l, r)
    PROVE  Inv'
<1>1. held' \in [Slot -> Ids] /\ DirOK(tag_dir', Ids)
  BY DEF CombineShortcut, Inv, TypeOK
<1>. QED
  BY <1>1, TablesKept DEF CombineShortcut

\* tag_combine keeps the invariant when the memo answers: what the memo holds
\* is an id.
LEMMA CombineHitInv ==
    ASSUME Inv, NEW s \in Slot, NEW l \in Slot, NEW r \in Slot,
           CombineHit(s, l, r)
    PROVE  Inv'
<1>1. g_combine[<<held[l], held[r]>>] \in Ids
  BY DEF CombineHit, Inv, MemoSound
<1>2. held' \in [Slot -> Ids] /\ DirOK(tag_dir', Ids)
  BY <1>1 DEF CombineHit, Inv, TypeOK
<1>. QED
  BY <1>2, TablesKept DEF CombineHit

\* tag_combine keeps the invariant when it interns a union and memoizes it.
LEMMA CombineMissInv ==
    ASSUME Inv, NEW s \in Slot, NEW l \in Slot, NEW r \in Slot,
           CombineMiss(s, l, r)
    PROVE  Inv'
<1>. DEFINE a == held[l]
            b == held[r]
            u == SetOf(a) \cup SetOf(b)
            id == InternId(u)
<1>1. /\ intern_set(u)
      /\ g_combine' = Memoize(g_combine, a, b, id)
      /\ held' = [held EXCEPT ![s] = id]
      /\ UNCHANGED tag_dir
  BY DEF CombineMiss
<1>2. a \in Ids /\ b \in Ids /\ u \in SUBSET Offset
  BY IdsFacts DEF Inv, TypeOK
<1>3. /\ g_sets' \in Seq(SUBSET Offset) /\ g_sets' # <<>>
      /\ Len(g_sets') <= ID_SPACE
      /\ \A i \in Ids : i \in Ids' /\ g_sets'[i + 1] = SetOf(i)
      /\ id \in Ids' /\ g_sets'[id + 1] = u
      /\ InternInverse' /\ Canonical'
  BY <1>1, <1>2, InternStep
<1>. HIDE DEF id
<1>4. MemoSound'
  <2>1. /\ DOMAIN g_combine' = DOMAIN g_combine \cup {<<a, b>>, <<b, a>>}
        /\ g_combine'[<<a, b>>] = id
        /\ g_combine'[<<b, a>>] = id
        /\ \A x \in DOMAIN g_combine :
              g_combine'[x] = g_combine[x] \/ x = <<a, b>> \/ x = <<b, a>>
    BY <1>1 DEF Memoize, Put
  <2>2. ASSUME NEW pair \in DOMAIN g_combine'
        PROVE  /\ pair \in Ids' \X Ids'
               /\ g_combine'[pair] \in Ids'
               /\ g_sets'[g_combine'[pair] + 1]
                     = g_sets'[pair[1] + 1] \cup g_sets'[pair[2] + 1]
               /\ <<pair[2], pair[1]>> \in DOMAIN g_combine'
    <3>1. CASE pair = <<a, b>>
      BY <1>2, <1>3, <2>1, <3>1
    <3>2. CASE pair = <<b, a>>
      BY <1>2, <1>3, <2>1, <3>2
    <3>3. CASE pair \in DOMAIN g_combine /\ g_combine'[pair] = g_combine[pair]
      <4>1. /\ pair \in Ids \X Ids
            /\ g_combine[pair] \in Ids
            /\ SetOf(g_combine[pair]) = SetOf(pair[1]) \cup SetOf(pair[2])
            /\ <<pair[2], pair[1]>> \in DOMAIN g_combine
        BY <3>3 DEF Inv, MemoSound
      <4>. QED
        BY <1>3, <2>1, <3>3, <4>1
    <3>. QED
      BY <2>1, <3>1, <3>2, <3>3
  <2>. QED
    BY <2>2 DEF MemoSound, SetOf
<1>5. held' \in [Slot -> Ids']
  BY <1>1, <1>3 DEF Inv, TypeOK
<1>6. DirOK(tag_dir', Ids')
  BY <1>1, <1>3, DirKept DEF Inv, TypeOK
<1>. QED
  BY <1>3, <1>4, <1>5, <1>6 DEF Inv, TypeOK

\* tagmap_setb_with_tag keeps the invariant.
LEMMA SetbInv ==
    ASSUME Inv, NEW a \in Ptr, NEW s \in Slot, Setb(a, s)
    PROVE  Inv'
<1>1. DirOK(tag_dir', Ids)
  BY ArgumentAssumption, IdsFacts, SetbType DEF Setb, Inv, TypeOK
<1>2. held' \in [Slot -> Ids]
  BY DEF Setb, Inv, TypeOK
<1>. QED
  BY <1>1, <1>2, TablesKept DEF Setb

\* file_tagmap_clrn keeps the invariant.
LEMMA ClrnInv ==
    ASSUME Inv, NEW a \in Ptr, NEW n \in Count, Clrn(a, n)
    PROVE  Inv'
<1>1. DirOK(tag_dir', Ids)
  BY ArgumentAssumption, IdsFacts, ClrnType DEF Clrn, Inv, TypeOK
<1>2. held' \in [Slot -> Ids]
  BY DEF Clrn, Inv, TypeOK
<1>. QED
  BY <1>1, <1>2, TablesKept DEF Clrn

\* Every shadow byte, allocated or not, holds an id.
LEMMA GetbType ==
    ASSUME NEW dir, NEW ids, 0 \in ids, DirOK(dir, ids), NEW a \in Addr
    PROVE  tag_dir_getb(dir, a) \in ids
<1>1. VIRT2OFFSET(a) \in 0 .. PAGE_SIZE - 1
  BY AddrNat, Indices
<1>. QED
  BY <1>1 DEF tag_dir_getb, DirOK

\* file_tagmap_getb keeps the invariant.
LEMMA GetbInv ==
    ASSUME Inv, NEW s \in Slot, NEW a \in Ptr, Getb(s, a)
    PROVE  Inv'
<1>1. tag_dir_getb(tag_dir, a) \in Ids
  BY IdsFacts, GetbType DEF Getb, Inv, TypeOK
<1>2. held' \in [Slot -> Ids] /\ DirOK(tag_dir', Ids)
  BY <1>1 DEF Getb, Inv, TypeOK
<1>. QED
  BY <1>2, TablesKept DEF Getb

-----------------------------------------------------------------------------
(* The invariants *)

\* tagmap_alloc establishes the invariant.
LEMMA InitInv == Init => Inv
<1>. SUFFICES ASSUME Init PROVE Inv
  OBVIOUS
<1>. USE DEF Init
<1>1. Ids = {0} /\ SetOf(0) = {} /\ Len(g_sets) = 1
  BY DEF Ids, SetOf
<1>2. DOMAIN g_intern = {ewah_sprint({})} /\ g_intern[ewah_sprint({})] = 0
  BY DEF Put, Empty
<1>3. TypeOK
  BY <1>1, IdAssumption DEF TypeOK, DirOK, Empty
<1>4. InternInverse
  BY <1>1, <1>2 DEF InternInverse
<1>5. Canonical /\ MemoSound
  BY <1>1 DEF Canonical, MemoSound, Empty
<1>. QED
  BY <1>3, <1>4, <1>5 DEF Inv

\* Every step keeps the invariant.
LEMMA NextInv == Inv /\ [Next]_vars => Inv'
<1>. SUFFICES ASSUME Inv, [Next]_vars PROVE Inv'
  OBVIOUS
<1>1. CASE \E s \in Slot, o \in Offset : Set(s, o)
  BY <1>1, SetInv
<1>2. CASE \E s, l, r \in Slot : \/ CombineShortcut(s, l, r)
                                \/ CombineHit(s, l, r)
                                \/ CombineMiss(s, l, r)
  BY <1>2, CombineShortcutInv, CombineHitInv, CombineMissInv
<1>3. CASE \E a \in Ptr, s \in Slot : Setb(a, s)
  BY <1>3, SetbInv
<1>4. CASE \E a \in Ptr, n \in Count : Clrn(a, n)
  BY <1>4, ClrnInv
<1>5. CASE \E s \in Slot, a \in Ptr : Getb(s, a)
  BY <1>5, GetbInv
<1>6. CASE UNCHANGED vars
  BY <1>6, TablesKept DEF vars, Inv, TypeOK
<1>. QED
  BY <1>1, <1>2, <1>3, <1>4, <1>5, <1>6 DEF Next

\* The inductive invariant holds in every reachable state.
THEOREM Invariance == Spec => []Inv
  BY InitInv, NextInv, PTL DEF Spec

\* The tables keep their types: every shadow byte and every held tag is a valid
\* id, and no page-table index leaves its array.
THEOREM TypeCorrect == Spec => []TypeOK
<1>1. Inv => TypeOK
  BY DEF Inv
<1>. QED
  BY <1>1, Invariance, PTL

\* Comparing two tags compares the label sets they stand for (tag.h).
THEOREM TagsAreCanonical == Spec => []Canonical
<1>1. Inv => Canonical
  BY DEF Inv
<1>. QED
  BY <1>1, Invariance, PTL

\* The intern table and the set table stay inverse to each other, so a lookup by
\* printed form finds a set exactly when it has an id (intern_set).
THEOREM TablesAreInverse == Spec => []InternInverse
<1>1. Inv => InternInverse
  BY DEF Inv
<1>. QED
  BY <1>1, Invariance, PTL

\* The memo of tag_combine always answers with the union.
THEOREM MemoIsSound == Spec => []MemoSound
<1>1. Inv => MemoSound
  BY DEF Inv
<1>. QED
  BY <1>1, Invariance, PTL

-----------------------------------------------------------------------------
(* Ids keep their meaning *)

\* Every step keeps the meaning of every id.
LEMMA NextKeepsSets ==
    ASSUME Inv, Next
    PROVE  \A i \in Ids : i \in Ids' /\ g_sets'[i + 1] = SetOf(i)
<1>1. ASSUME UNCHANGED g_sets
      PROVE  \A i \in Ids : i \in Ids' /\ g_sets'[i + 1] = SetOf(i)
  BY <1>1 DEF Ids, SetOf
<1>2. CASE \E s \in Slot, o \in Offset : Set(s, o)
  BY <1>2, InternStep DEF Set
<1>3. ASSUME NEW s \in Slot, NEW l \in Slot, NEW r \in Slot, CombineMiss(s, l, r)
      PROVE  \A i \in Ids : i \in Ids' /\ g_sets'[i + 1] = SetOf(i)
  <2>1. SetOf(held[l]) \cup SetOf(held[r]) \in SUBSET Offset
    BY IdsFacts DEF Inv, TypeOK
  <2>2. intern_set(SetOf(held[l]) \cup SetOf(held[r]))
    BY <1>3 DEF CombineMiss
  <2>. QED
    BY <2>1, <2>2, InternStep
<1>4. CASE \/ \E s, l, r \in Slot : CombineShortcut(s, l, r) \/ CombineHit(s, l, r)
           \/ \E a \in Ptr, s \in Slot : Setb(a, s)
           \/ \E a \in Ptr, n \in Count : Clrn(a, n)
           \/ \E s \in Slot, a \in Ptr : Getb(s, a)
  BY <1>1, <1>4 DEF CombineShortcut, CombineHit, Setb, Clrn, Getb
<1>. QED
  BY <1>2, <1>3, <1>4 DEF Next

\* No step removes or overwrites an interned set (intern_set only appends).
THEOREM SetsAreImmutable == Spec => SetsImmutable
<1>1. Inv /\ [Next]_vars =>
        [\A i \in Ids : i + 1 \in DOMAIN g_sets' /\ g_sets'[i + 1] = SetOf(i)]_vars
  <2>. SUFFICES ASSUME Inv, Next, NEW i \in Ids
                PROVE  i + 1 \in DOMAIN g_sets' /\ g_sets'[i + 1] = SetOf(i)
    OBVIOUS
  <2>1. i \in Ids' /\ g_sets'[i + 1] = SetOf(i)
    BY NextKeepsSets
  <2>2. Inv'
    BY NextInv
  <2>3. g_sets' \in Seq(SUBSET Offset)
    BY <2>2 DEF Inv, TypeOK
  <2>4. i + 1 \in DOMAIN g_sets'
    BY <2>1, <2>3 DEF Ids
  <2>. QED
    BY <2>1, <2>4
<1>. QED
  BY <1>1, Invariance, PTL DEF Spec, SetsImmutable

-----------------------------------------------------------------------------
(* TagMap implements TaintMemory *)

\* The label sets of the shadow bytes and of the held tags: the values the
\* refinement mapping gives to mem and held of TaintMemory.
BarMem == [a \in Addr |-> SetOf(tag_dir_getb(tag_dir, a))]

BarHeld == [s \in Slot |-> SetOf(held[s])]

\* While ids keep their meaning, a step that leaves tag_dir alone leaves every
\* byte's label set alone.
LEMMA MemKept ==
    ASSUME Inv, UNCHANGED tag_dir,
           \A i \in Ids : g_sets'[i + 1] = SetOf(i)
    PROVE  BarMem' = BarMem
<1>1. \A a \in Addr : tag_dir_getb(tag_dir, a) \in Ids
  BY IdsFacts, GetbType DEF Inv, TypeOK
<1>2. \A a \in Addr : tag_dir_getb(tag_dir, a)' = tag_dir_getb(tag_dir, a)
  BY DEF tag_dir_getb
<1>3. \A a \in Addr : g_sets'[tag_dir_getb(tag_dir, a)' + 1] = SetOf(tag_dir_getb(tag_dir, a))
  BY <1>1, <1>2
<1>. QED
  BY <1>3 DEF BarMem, SetOf

\* While ids keep their meaning, replacing the id in one slot replaces one label
\* set.
LEMMA HeldUpdate ==
    ASSUME Inv, NEW s \in Slot, NEW id, NEW set,
           held' = [held EXCEPT ![s] = id],
           g_sets'[id + 1] = set,
           \A i \in Ids : g_sets'[i + 1] = SetOf(i)
    PROVE  BarHeld' = [BarHeld EXCEPT ![s] = set]
<1>1. \A x \in Slot : held[x] \in Ids /\ held'[x] = IF x = s THEN id ELSE held[x]
  BY DEF Inv, TypeOK
<1>2. \A x \in Slot : g_sets'[held'[x] + 1] = IF x = s THEN set ELSE SetOf(held[x])
  BY <1>1
<1>3. BarHeld' = [x \in Slot |-> g_sets'[held'[x] + 1]]
  BY DEF BarHeld, SetOf
<1>4. [BarHeld EXCEPT ![s] = set] = [x \in Slot |-> IF x = s THEN set ELSE SetOf(held[x])]
  BY DEF BarHeld
<1>. QED
  BY <1>2, <1>3, <1>4

\* A fresh label is a Make step of TaintMemory.
LEMMA SetRefines ==
    ASSUME Inv, NEW s \in Slot, NEW o \in Offset, Set(s, o)
    PROVE  BarHeld' = [BarHeld EXCEPT ![s] = {o}] /\ BarMem' = BarMem
<1>1. /\ \A i \in Ids : g_sets'[i + 1] = SetOf(i)
      /\ g_sets'[InternId({o}) + 1] = {o}
  BY InternStep DEF Set
<1>. QED
  BY <1>1, MemKept, HeldUpdate DEF Set

\* Whichever way tag_combine takes, the result denotes the union.
LEMMA CombineRefines ==
    ASSUME Inv, NEW s \in Slot, NEW l \in Slot, NEW r \in Slot,
           CombineShortcut(s, l, r) \/ CombineHit(s, l, r) \/ CombineMiss(s, l, r)
    PROVE  /\ BarHeld' = [BarHeld EXCEPT ![s] = BarHeld[l] \cup BarHeld[r]]
           /\ BarMem' = BarMem
<1>0. BarHeld[l] = SetOf(held[l]) /\ BarHeld[r] = SetOf(held[r])
      /\ held[l] \in Ids /\ held[r] \in Ids
  BY DEF BarHeld, Inv, TypeOK
<1>. DEFINE u == SetOf(held[l]) \cup SetOf(held[r])
<1>1. CASE CombineShortcut(s, l, r)
  <2>. DEFINE id == IF held[l] = 0 THEN held[r] ELSE held[l]
  <2>1. SetOf(id) = u
    BY <1>0, <1>1 DEF CombineShortcut, Inv, Canonical
  <2>2. UNCHANGED <<g_sets, tag_dir>> /\ held' = [held EXCEPT ![s] = id]
    BY <1>1 DEF CombineShortcut
  <2>3. g_sets'[id + 1] = u /\ \A i \in Ids : g_sets'[i + 1] = SetOf(i)
    BY <2>1, <2>2 DEF SetOf
  <2>. HIDE DEF id, u
  <2>4. BarHeld' = [BarHeld EXCEPT ![s] = u] /\ BarMem' = BarMem
    BY <2>2, <2>3, MemKept, HeldUpdate
  <2>. QED
    BY <1>0, <2>4 DEF u
<1>2. CASE CombineHit(s, l, r)
  <2>. DEFINE id == g_combine[<<held[l], held[r]>>]
  <2>1. SetOf(id) = u
    BY <1>2 DEF CombineHit, Inv, MemoSound
  <2>2. UNCHANGED <<g_sets, tag_dir>> /\ held' = [held EXCEPT ![s] = id]
    BY <1>2 DEF CombineHit
  <2>3. g_sets'[id + 1] = u /\ \A i \in Ids : g_sets'[i + 1] = SetOf(i)
    BY <2>1, <2>2 DEF SetOf
  <2>. HIDE DEF id, u
  <2>4. BarHeld' = [BarHeld EXCEPT ![s] = u] /\ BarMem' = BarMem
    BY <2>2, <2>3, MemKept, HeldUpdate
  <2>. QED
    BY <1>0, <2>4 DEF u
<1>3. CASE CombineMiss(s, l, r)
  <2>1. u \in SUBSET Offset
    BY <1>0, IdsFacts DEF Inv
  <2>2. /\ intern_set(u) /\ UNCHANGED tag_dir
        /\ held' = [held EXCEPT ![s] = InternId(u)]
    BY <1>3 DEF CombineMiss
  <2>. HIDE DEF u
  <2>3. g_sets'[InternId(u) + 1] = u /\ \A i \in Ids : g_sets'[i + 1] = SetOf(i)
    BY <2>1, <2>2, InternStep
  <2>4. BarHeld' = [BarHeld EXCEPT ![s] = u] /\ BarMem' = BarMem
    BY <2>2, <2>3, MemKept, HeldUpdate
  <2>. QED
    BY <1>0, <2>4 DEF u
<1>. QED
  BY <1>1, <1>2, <1>3

\* A store changes the label set of one byte and of no other.
LEMMA SetbRefines ==
    ASSUME Inv, NEW a \in Ptr, NEW s \in Slot, Setb(a, s)
    PROVE  /\ BarMem' = [x \in Addr |-> IF x = a THEN BarHeld[s] ELSE BarMem[x]]
           /\ BarHeld' = BarHeld
<1>1. UNCHANGED <<g_sets, held>> /\ tag_dir' = tag_dir_setb(tag_dir, a, held[s])
  BY DEF Setb
<1>2. \A x \in Addr : tag_dir_getb(tag_dir', x)
                        = IF x = a THEN held[s] ELSE tag_dir_getb(tag_dir, x)
  BY <1>1, ArgumentAssumption, SetbGetb DEF Inv, TypeOK
<1>3. \A x \in Addr : g_sets'[tag_dir_getb(tag_dir', x) + 1]
                        = IF x = a THEN BarHeld[s] ELSE BarMem[x]
  BY <1>1, <1>2 DEF BarHeld, BarMem, SetOf
<1>4. BarMem' = [x \in Addr |-> g_sets'[tag_dir_getb(tag_dir', x) + 1]]
  BY DEF BarMem, SetOf
<1>5. BarHeld' = BarHeld
  BY <1>1 DEF BarHeld, SetOf
<1>. QED
  BY <1>3, <1>4, <1>5

\* Clearing a range empties the label sets of its bytes and of no other byte.
LEMMA ClrnRefines ==
    ASSUME Inv, NEW a \in Ptr, NEW n \in Count, Clrn(a, n)
    PROVE  /\ BarMem' = [x \in Addr |-> IF a <= x /\ x < a + n THEN {} ELSE BarMem[x]]
           /\ BarHeld' = BarHeld
<1>1. UNCHANGED <<g_sets, held>> /\ tag_dir' = file_tagmap_clrn(tag_dir, a, n)
  BY DEF Clrn
<1>2. \A x \in Addr : tag_dir_getb(tag_dir', x)
                        = IF a <= x /\ x < a + n THEN 0 ELSE tag_dir_getb(tag_dir, x)
  BY <1>1, ArgumentAssumption, ClrnGetb DEF Inv, TypeOK
<1>3. SetOf(0) = {}
  BY DEF Inv, Canonical
<1>4. \A x \in Addr : g_sets'[tag_dir_getb(tag_dir', x) + 1]
                        = IF a <= x /\ x < a + n THEN {} ELSE BarMem[x]
  BY <1>1, <1>2, <1>3 DEF BarMem, SetOf
<1>5. BarMem' = [x \in Addr |-> g_sets'[tag_dir_getb(tag_dir', x) + 1]]
  BY DEF BarMem, SetOf
<1>6. BarHeld' = BarHeld
  BY <1>1 DEF BarHeld, SetOf
<1>. QED
  BY <1>4, <1>5, <1>6

\* A load copies the label set of the byte.
LEMMA GetbRefines ==
    ASSUME Inv, NEW s \in Slot, NEW a \in Ptr, Getb(s, a)
    PROVE  /\ a \in Addr
           /\ BarHeld' = [BarHeld EXCEPT ![s] = BarMem[a]]
           /\ BarMem' = BarMem
<1>1. /\ a \in Addr /\ UNCHANGED <<g_sets, tag_dir>>
      /\ held' = [held EXCEPT ![s] = tag_dir_getb(tag_dir, a)]
  BY DEF Getb
<1>2. g_sets'[tag_dir_getb(tag_dir, a) + 1] = BarMem[a]
  BY <1>1 DEF BarMem, SetOf
<1>3. \A i \in Ids : g_sets'[i + 1] = SetOf(i)
  BY <1>1 DEF SetOf
<1>. QED
  BY <1>1, <1>2, <1>3, MemKept, HeldUpdate

\* Interning, memoization and the page table are invisible: the label sets of
\* all bytes and all held tags behave as TaintMemory says, for every geometry
\* and every label set.
THEOREM Refinement == Spec => ImplementsTaintMemory
<1>1. Init => TM!Init
  <2>. SUFFICES ASSUME Init PROVE TM!Init
    OBVIOUS
  <2>1. \A a \in Addr : SetOf(tag_dir_getb(tag_dir, a)) = {}
    BY DEF Init, tag_dir_getb, SetOf, Empty
  <2>2. \A s \in Slot : SetOf(held[s]) = {}
    BY DEF Init, SetOf
  <2>. QED
    BY <2>1, <2>2 DEF TM!Init
<1>2. Inv /\ [Next]_vars => [TM!Next]_(TM!vars)
  <2>. SUFFICES ASSUME Inv, [Next]_vars PROVE [TM!Next]_(TM!vars)
    OBVIOUS
  <2>1. ASSUME NEW s \in Slot, NEW o \in Offset, Set(s, o)
        PROVE  TM!Make(s, o)
    BY <2>1, SetRefines DEF TM!Make, BarMem, BarHeld
  <2>2. ASSUME NEW s \in Slot, NEW l \in Slot, NEW r \in Slot,
               CombineShortcut(s, l, r) \/ CombineHit(s, l, r) \/ CombineMiss(s, l, r)
        PROVE  TM!Combine(s, l, r)
    BY <2>2, CombineRefines DEF TM!Combine, BarMem, BarHeld
  <2>3. ASSUME NEW a \in Ptr, NEW s \in Slot, Setb(a, s)
        PROVE  TM!Store(a, s)
    BY <2>3, SetbRefines DEF TM!Store, BarMem, BarHeld
  <2>4. ASSUME NEW a \in Ptr, NEW n \in Count, Clrn(a, n)
        PROVE  TM!Clear(a, n)
    BY <2>4, ClrnRefines DEF TM!Clear, BarMem, BarHeld
  <2>5. ASSUME NEW s \in Slot, NEW a \in Ptr, Getb(s, a)
        PROVE  a \in Ptr \cap Addr /\ TM!Load(s, a)
    BY <2>5, GetbRefines DEF TM!Load, BarMem, BarHeld
  <2>6. CASE UNCHANGED vars
    BY <2>6 DEF vars, TM!vars, SetOf, tag_dir_getb
  <2>. QED
    BY <2>1, <2>2, <2>3, <2>4, <2>5, <2>6 DEF Next, TM!Next
<1>. QED
  BY <1>1, <1>2, Invariance, PTL DEF Spec, ImplementsTaintMemory, TM!Spec

-----------------------------------------------------------------------------
(* The byte loop of file_tagmap_clrn *)

\* The page table with the addresses xs cleared, level by level.
Tables(xs) == {VIRT2PAGETABLE(x) : x \in xs}

Pages(xs, t) == {VIRT2PAGE(x) : x \in {y \in xs : VIRT2PAGETABLE(y) = t}}

Hit(xs, t, p, o) == \E x \in xs : VIRT2PAGETABLE(x) = t /\ VIRT2PAGE(x) = p /\ VIRT2OFFSET(x) = o

ClearedPage(dir, xs, t, p) ==
    [o \in 0 .. PAGE_SIZE - 1 |-> IF Hit(xs, t, p, o) THEN 0 ELSE PageFor(TableFor(dir, t), p)[o]]

ClearedTable(dir, xs, t) ==
    [p \in DOMAIN TableFor(dir, t) \cup Pages(xs, t) |-> ClearedPage(dir, xs, t, p)]

ClearedDir(dir, xs) == [t \in DOMAIN dir \cup Tables(xs) |-> ClearedTable(dir, xs, t)]

\* That is what file_tagmap_clrn leaves.
LEMMA ClrnIsCleared ==
    \A dir, a, n : file_tagmap_clrn(dir, a, n) = ClearedDir(dir, Cleared(a, n))
BY DEF file_tagmap_clrn, ClearedDir, ClearedTable, ClearedPage, Hit, Pages, Tables

\* A table that is not there is an empty one, also afterwards.
LEMMA ClearedTableFor ==
    ASSUME NEW dir, NEW xs, NEW t
    PROVE  TableFor(ClearedDir(dir, xs), t) = ClearedTable(dir, xs, t)
<1>1. CASE t \in DOMAIN dir \cup Tables(xs)
  BY <1>1 DEF TableFor, ClearedDir
<1>2. CASE t \notin DOMAIN dir \cup Tables(xs)
  <2>1. DOMAIN TableFor(dir, t) \cup Pages(xs, t) = {}
    BY <1>2 DEF TableFor, Empty, Pages, Tables
  <2>2. ClearedTable(dir, xs, t) = Empty
    BY <2>1 DEF ClearedTable, Empty
  <2>3. TableFor(ClearedDir(dir, xs), t) = Empty
    BY <1>2 DEF TableFor, ClearedDir
  <2>. QED
    BY <2>2, <2>3
<1>. QED
  BY <1>1, <1>2

\* A page that is not there is clear, also afterwards.
LEMMA ClearedPageFor ==
    ASSUME NEW dir, NEW xs, NEW t, NEW p
    PROVE  PageFor(ClearedTable(dir, xs, t), p) = ClearedPage(dir, xs, t, p)
<1>1. CASE p \in DOMAIN TableFor(dir, t) \cup Pages(xs, t)
  BY <1>1 DEF PageFor, ClearedTable
<1>2. CASE p \notin DOMAIN TableFor(dir, t) \cup Pages(xs, t)
  <2>1. \A o : ~Hit(xs, t, p, o)
    BY <1>2 DEF Hit, Pages
  <2>2. PageFor(TableFor(dir, t), p) = [o \in 0 .. PAGE_SIZE - 1 |-> 0]
    BY <1>2 DEF PageFor
  <2>3. ClearedPage(dir, xs, t, p) = [o \in 0 .. PAGE_SIZE - 1 |-> 0]
    BY <2>1, <2>2 DEF ClearedPage
  <2>. QED
    BY <1>2, <2>3 DEF PageFor, ClearedTable
<1>. QED
  BY <1>1, <1>2

\* What one more address adds at each level.
LEMMA OneMoreAddress ==
    ASSUME NEW xs, NEW x
    PROVE  /\ Tables(xs \cup {x}) = Tables(xs) \cup {VIRT2PAGETABLE(x)}
           /\ Pages(xs \cup {x}, VIRT2PAGETABLE(x)) = Pages(xs, VIRT2PAGETABLE(x)) \cup {VIRT2PAGE(x)}
           /\ \A t : t # VIRT2PAGETABLE(x) => Pages(xs \cup {x}, t) = Pages(xs, t)
           /\ \A t, p, o : Hit(xs \cup {x}, t, p, o) <=>
                 \/ Hit(xs, t, p, o)
                 \/ t = VIRT2PAGETABLE(x) /\ p = VIRT2PAGE(x) /\ o = VIRT2OFFSET(x)
BY DEF Tables, Pages, Hit

\* Clearing one address more is one store more.
LEMMA ClearOneMore ==
    ASSUME NEW dir, NEW xs, NEW x \in Addr
    PROVE  tag_dir_setb(ClearedDir(dir, xs), x, 0) = ClearedDir(dir, xs \cup {x})
<1>. DEFINE T   == VIRT2PAGETABLE(x)
            P   == VIRT2PAGE(x)
            O   == VIRT2OFFSET(x)
            all == xs \cup {x}
<1>0. O \in 0 .. PAGE_SIZE - 1
  BY AddrNat, Indices
<1>1. /\ Tables(all) = Tables(xs) \cup {T}
      /\ Pages(all, T) = Pages(xs, T) \cup {P}
      /\ \A t : t # T => Pages(all, t) = Pages(xs, t)
      /\ \A t, p, o : Hit(all, t, p, o) <=> Hit(xs, t, p, o) \/ (t = T /\ p = P /\ o = O)
  BY OneMoreAddress
<1>2. tag_dir_setb(ClearedDir(dir, xs), x, 0) =
         Put(ClearedDir(dir, xs), T,
             Put(ClearedTable(dir, xs, T), P, [ClearedPage(dir, xs, T, P) EXCEPT ![O] = 0]))
  BY ClearedTableFor, ClearedPageFor DEF tag_dir_setb
<1>. HIDE DEF T, P, O, all
<1>3. [ClearedPage(dir, xs, T, P) EXCEPT ![O] = 0] = ClearedPage(dir, all, T, P)
  <2>. DEFINE old == ClearedPage(dir, xs, T, P)
  <2>1. \A o : Hit(all, T, P, o) <=> Hit(xs, T, P, o) \/ o = O
    BY <1>1
  <2>2. [old EXCEPT ![O] = 0] = [o \in 0 .. PAGE_SIZE - 1 |-> IF o = O THEN 0 ELSE old[o]]
    BY DEF ClearedPage
  <2>3. \A o \in 0 .. PAGE_SIZE - 1 : old[o] = IF Hit(xs, T, P, o) THEN 0 ELSE PageFor(TableFor(dir, T), P)[o]
    BY DEF ClearedPage
  <2>4. ClearedPage(dir, all, T, P) =
           [o \in 0 .. PAGE_SIZE - 1 |-> IF Hit(all, T, P, o) THEN 0 ELSE PageFor(TableFor(dir, T), P)[o]]
    BY DEF ClearedPage
  <2>. HIDE DEF old
  <2>5. [old EXCEPT ![O] = 0] = ClearedPage(dir, all, T, P)
    BY <2>1, <2>2, <2>3, <2>4
  <2>. QED
    BY <2>5 DEF old
<1>4. \A t, p : ~(t = T /\ p = P) => ClearedPage(dir, all, t, p) = ClearedPage(dir, xs, t, p)
  BY <1>1 DEF ClearedPage
<1>5. Put(ClearedTable(dir, xs, T), P, ClearedPage(dir, all, T, P)) = ClearedTable(dir, all, T)
  BY <1>1, <1>4 DEF Put, ClearedTable
<1>6. \A t : t # T => ClearedTable(dir, all, t) = ClearedTable(dir, xs, t)
  BY <1>1, <1>4 DEF ClearedTable
<1>7. Put(ClearedDir(dir, xs), T, ClearedTable(dir, all, T)) = ClearedDir(dir, all)
  BY <1>1, <1>6 DEF Put, ClearedDir
<1>. QED
  BY <1>2, <1>3, <1>5, <1>7 DEF all

\* A step of the loop clears the next address, if that has a shadow byte.
LEMMA ClrnOneMore ==
    ASSUME NEW dir, NEW a \in Nat, NEW k \in Nat \ {0}
    PROVE  tag_dir_setb(file_tagmap_clrn(dir, a, k - 1), a + k - 1, 0) = file_tagmap_clrn(dir, a, k)
<1>. DEFINE x == a + k - 1
<1>1. CASE x \in Addr
  <2>1. Cleared(a, k) = Cleared(a, k - 1) \cup {x}
    <3>1. \A y \in Addr : y < a + k <=> y < a + (k - 1) \/ y = x
      BY AddrNat
    <3>2. a <= x
      OBVIOUS
    <3>. HIDE DEF x
    <3>. QED
      BY <1>1, <3>1, <3>2 DEF Cleared
  <2>. HIDE DEF x
  <2>2. tag_dir_setb(file_tagmap_clrn(dir, a, k - 1), x, 0) = file_tagmap_clrn(dir, a, k)
    BY <1>1, <2>1, ClrnIsCleared, ClearOneMore
  <2>. QED
    BY <2>2 DEF x
<1>2. CASE x \notin Addr
  <2>1. Cleared(a, k) = Cleared(a, k - 1)
    <3>1. \A y \in Addr : y < a + k <=> y < a + (k - 1) \/ y = x
      BY AddrNat
    <3>. HIDE DEF x
    <3>. QED
      BY <1>2, <3>1 DEF Cleared
  <2>. QED
    BY <1>2, <2>1, ClrnIsCleared DEF tag_dir_setb
<1>. QED
  BY <1>1, <1>2

\* A directory and its tables are functions and nothing else.
DirTotal(dir) ==
    /\ dir = [t \in DOMAIN dir |-> dir[t]]
    /\ \A t \in DOMAIN dir : dir[t] = [p \in DOMAIN dir[t] |-> dir[t][p]]

\* Clearing nothing changes nothing.
LEMMA ClearNothing ==
    ASSUME NEW dir, NEW ids, DirOK(dir, ids), DirTotal(dir), NEW a \in Nat
    PROVE  file_tagmap_clrn(dir, a, 0) = dir
<1>1. Cleared(a, 0) = {}
  <2>1. \A y \in Addr : ~(a <= y /\ y < a + 0)
    BY AddrNat
  <2>. QED
    BY <2>1 DEF Cleared
<1>2. Tables({}) = {} /\ (\A t : Pages({}, t) = {}) /\ \A t, p, o : ~Hit({}, t, p, o)
  BY DEF Tables, Pages, Hit
<1>3. ASSUME NEW t \in DOMAIN dir PROVE ClearedTable(dir, {}, t) = dir[t]
  <2>1. TableFor(dir, t) = dir[t]
    BY DEF TableFor
  <2>2. ASSUME NEW p \in DOMAIN dir[t] PROVE ClearedPage(dir, {}, t, p) = dir[t][p]
    <3>1. PageFor(TableFor(dir, t), p) = dir[t][p]
      BY <2>1 DEF PageFor
    <3>2. dir[t][p] \in [0 .. PAGE_SIZE - 1 -> ids]
      BY DEF DirOK
    <3>. QED
      BY <1>2, <3>1, <3>2 DEF ClearedPage
  <2>3. dir[t] = [p \in DOMAIN dir[t] |-> dir[t][p]]
    BY DEF DirTotal
  <2>. QED
    BY <1>2, <2>1, <2>2, <2>3 DEF ClearedTable
<1>4. dir = [t \in DOMAIN dir |-> dir[t]]
  BY DEF DirTotal
<1>. QED
  BY <1>1, <1>2, <1>3, <1>4, ClrnIsCleared DEF ClearedDir

\* g is the loop.
Clearing(dir, a, n, g) ==
    g = [k \in 0 .. n |-> IF k = 0 THEN dir ELSE tag_dir_setb(g[k - 1], a + k - 1, 0)]

\* What the loop leaves after n steps.
LEMMA ClearingIs ==
    ASSUME NEW dir, NEW ids, DirOK(dir, ids), DirTotal(dir), NEW a \in Nat, NEW n \in Nat
    PROVE  /\ \E g : Clearing(dir, a, n, g)
           /\ \A g : Clearing(dir, a, n, g) => g[n] = file_tagmap_clrn(dir, a, n)
<1>1. file_tagmap_clrn(dir, a, 0) = dir
  BY ClearNothing
<1>2. \E g : Clearing(dir, a, n, g)
  <2>. DEFINE g == [k \in 0 .. n |-> file_tagmap_clrn(dir, a, k)]
  <2>1. ASSUME NEW k \in 0 .. n
        PROVE  g[k] = IF k = 0 THEN dir ELSE tag_dir_setb(g[k - 1], a + k - 1, 0)
    <3>1. CASE k = 0
      BY <1>1, <3>1
    <3>2. CASE k # 0
      <4>1. k \in Nat \ {0} /\ k - 1 \in 0 .. n
        BY <3>2
      <4>2. g[k - 1] = file_tagmap_clrn(dir, a, k - 1) /\ g[k] = file_tagmap_clrn(dir, a, k)
        BY <4>1
      <4>. HIDE DEF g
      <4>. QED
        BY <3>2, <4>1, <4>2, ClrnOneMore
    <3>. QED
      BY <3>1, <3>2
  <2>2. g = [k \in 0 .. n |-> g[k]]
    OBVIOUS
  <2>. HIDE DEF g
  <2>3. Clearing(dir, a, n, g)
    BY <2>1, <2>2 DEF Clearing
  <2>. QED
    BY <2>3
<1>3. ASSUME NEW g, Clearing(dir, a, n, g) PROVE g[n] = file_tagmap_clrn(dir, a, n)
  <2>. DEFINE S == {k \in 0 .. n : g[k] = file_tagmap_clrn(dir, a, k)}
  <2>0. \A k \in 0 .. n : g[k] = IF k = 0 THEN dir ELSE tag_dir_setb(g[k - 1], a + k - 1, 0)
    BY <1>3 DEF Clearing
  <2>1. 0 \in S
    <3>1. 0 \in 0 .. n
      OBVIOUS
    <3>2. g[0] = dir
      BY <2>0, <3>1
    <3>. QED
      BY <1>1, <3>1, <3>2
  <2>2. ASSUME NEW k \in 1 .. n, k - 1 \in S PROVE k \in S
    <3>1. k \in 0 .. n /\ k # 0 /\ k \in Nat \ {0} /\ g[k - 1] = file_tagmap_clrn(dir, a, k - 1)
      BY <2>2
    <3>2. g[k] = tag_dir_setb(g[k - 1], a + k - 1, 0)
      BY <2>0, <3>1
    <3>3. g[k] = file_tagmap_clrn(dir, a, k)
      BY <3>1, <3>2, ClrnOneMore
    <3>. QED
      BY <3>1, <3>3
  <2>3. n \in S
    <3>. HIDE DEF S
    <3>. QED
      BY <2>1, <2>2, UpTo
  <2>. QED
    BY <2>3
<1>. QED
  BY <1>2, <1>3

\* Stores and clears leave functions.
LEMMA StoresTotal ==
    ASSUME NEW dir, DirTotal(dir), NEW a, NEW n, NEW id
    PROVE  DirTotal(tag_dir_setb(dir, a, id)) /\ DirTotal(file_tagmap_clrn(dir, a, n))
<1>1. DirTotal(file_tagmap_clrn(dir, a, n))
  BY ClrnIsCleared DEF DirTotal, ClearedDir, ClearedTable
<1>2. \A f, k, v : Put(f, k, v) = [y \in DOMAIN Put(f, k, v) |-> Put(f, k, v)[y]]
  BY DEF Put
<1>3. ASSUME NEW t, NEW f, NEW k, NEW v PROVE DirTotal(Put(dir, t, Put(f, k, v)))
  <2>. DEFINE table == Put(f, k, v)
  <2>1. table = [y \in DOMAIN table |-> table[y]]
    BY <1>2
  <2>. HIDE DEF table
  <2>2. DirTotal(Put(dir, t, table))
    BY <2>1 DEF DirTotal, Put
  <2>. QED
    BY <2>2 DEF table
<1>4. DirTotal(tag_dir_setb(dir, a, id))
  BY <1>3 DEF tag_dir_setb
<1>. QED
  BY <1>1, <1>4

\* Clearing n bytes in one expression leaves the page table the loop of byte
\* stores of file_tagmap_clrn leaves, for every geometry, address and length: the
\* same bytes cleared and the same tables and pages allocated.
THEOREM ClrnIsTheByteLoop == Spec => []ClrnIsByteLoop
<1>1. Init => DirTotal(tag_dir)
  BY DEF Init, DirTotal, Empty
<1>2. DirTotal(tag_dir) /\ [Next]_vars => DirTotal(tag_dir)'
  <2>. SUFFICES ASSUME DirTotal(tag_dir), [Next]_vars PROVE DirTotal(tag_dir')
    BY DEF DirTotal
  <2>1. CASE UNCHANGED tag_dir
    BY <2>1
  <2>2. CASE \E a \in Ptr, s \in Slot : Setb(a, s)
    BY <2>2, StoresTotal DEF Setb
  <2>3. CASE \E a \in Ptr, n \in Count : Clrn(a, n)
    BY <2>3, StoresTotal DEF Clrn
  <2>. QED
    BY <2>1, <2>2, <2>3
       DEF Next, Set, CombineShortcut, CombineHit, CombineMiss, Getb, vars
<1>3. TypeOK /\ DirTotal(tag_dir) => ClrnIsByteLoop
  <2>. SUFFICES ASSUME TypeOK, DirTotal(tag_dir), NEW a \in Ptr, NEW n \in Count
                PROVE  file_tagmap_clrn(tag_dir, a, n) = ClearLoop(tag_dir, a, n)
    BY DEF ClrnIsByteLoop
  <2>. DEFINE after == CHOOSE g : Clearing(tag_dir, a, n, g)
  <2>1. ClearLoop(tag_dir, a, n) = after[n]
    BY DEF ClearLoop, Clearing
  <2>2. a \in Nat /\ n \in Nat /\ DirOK(tag_dir, Ids)
    BY ArgumentAssumption DEF TypeOK
  <2>3. after[n] = file_tagmap_clrn(tag_dir, a, n)
    BY <2>2, ClearingIs
  <2>. QED
    BY <2>1, <2>3
<1>. QED
  BY <1>1, <1>2, <1>3, TypeCorrect, PTL DEF Spec
=============================================================================
