------------------------- MODULE MntConsumerProofs -------------------------
(***************************************************************************)
(* Lemmas about the operators of MntConsumer: what the loops that read the *)
(* candidate files, sort and search compute, for lists of any length.      *)
(*                                                                         *)
(* A loop is a recursive function of the number of steps done; what it     *)
(* computes is shown by the induction of LoopTheorems.                     *)
(***************************************************************************)
EXTENDS MntConsumer, LoopTheorems, SequenceTheorems

-----------------------------------------------------------------------------
(* Searching *)

\* One call of the search among len elements; g answers for fewer.
Halve(less, len, g) ==
    [at \in 0 .. Len(less) - len |->
        LET half == len \div 2
        IN  IF len = 0 THEN at
            ELSE IF less[at + half + 1] THEN g[len - half - 1][at + half + 1]
            ELSE g[half][at]]

\* g is a search in less.
Searches(less, g) == g = [len \in 0 .. Len(less) |-> Halve(less, len, g)]

\* Both halves are shorter.
LEMMA Halves ==
    ASSUME NEW len \in Nat, len # 0
    PROVE  /\ len \div 2 \in 0 .. len - 1
           /\ len - (len \div 2) - 1 \in 0 .. len - 1
  OBVIOUS

\* A search among len elements depends on shorter ones only.
LEMMA HalveDepends ==
    ASSUME NEW less, NEW len \in Nat, NEW g, NEW h, \A i \in 0 .. len - 1 : g[i] = h[i]
    PROVE  Halve(less, len, g) = Halve(less, len, h)
<1> DEFINE half == len \div 2
           B(f, at) == IF len = 0 THEN at
                       ELSE IF less[at + half + 1] THEN f[len - half - 1][at + half + 1]
                       ELSE f[half][at]
<1>1. len # 0 => g[half] = h[half] /\ g[len - half - 1] = h[len - half - 1]
  BY Halves
<1>2. \A at : B(g, at) = B(h, at)
  BY <1>1
<1>3. Halve(less, len, g) = [at \in 0 .. Len(less) - len |-> B(g, at)]
  BY Zenon DEF Halve
<1>4. Halve(less, len, h) = [at \in 0 .. Len(less) - len |-> B(h, at)]
  BY Zenon DEF Halve
<1> HIDE DEF B
<1> QED
  BY <1>2, <1>3, <1>4

\* The search is well defined.
LEMMA SearchExists ==
    ASSUME NEW less, Len(less) \in Nat
    PROVE  \E g : Searches(less, g)
<1> DEFINE n == Len(less)
           Run(j, g) == g = [len \in 0 .. j |-> Halve(less, len, g)]
           S == {j \in 0 .. n : \E g : Run(j, g)}
<1>0. n \in Nat
  OBVIOUS
<1> HIDE DEF n
<1>1. 0 \in S
  <2> DEFINE g == [len \in 0 .. 0 |-> Halve(less, 0, <<>>)]
  <2>1. Halve(less, 0, g) = Halve(less, 0, <<>>)
    BY HalveDepends
  <2>2. g = [len \in 0 .. 0 |-> g[len]] /\ g[0] = Halve(less, 0, <<>>)
    OBVIOUS
  <2> HIDE DEF g
  <2>3. \A len \in 0 .. 0 : len = 0
    OBVIOUS
  <2>4. Run(0, g)
    BY <2>1, <2>2, <2>3
  <2>5. 0 \in 0 .. n
    BY <1>0
  <2> HIDE DEF Run
  <2> QED
    BY <2>4, <2>5
<1>2. ASSUME NEW j \in 1 .. n, j - 1 \in S PROVE j \in S
  <2>1. PICK g : Run(j - 1, g)
    BY <1>2
  <2> DEFINE h == [len \in 0 .. j |-> IF len = j THEN Halve(less, j, g) ELSE g[len]]
  <2>2. j \in Nat /\ j # 0
    BY <1>0
  <2>3. \A i \in 0 .. j - 1 : h[i] = g[i]
    BY <2>2
  <2>4. h[j] = Halve(less, j, g)
    BY <2>2
  <2>5. h = [len \in 0 .. j |-> h[len]]
    OBVIOUS
  <2> HIDE DEF h
  <2>6. ASSUME NEW len \in 0 .. j PROVE h[len] = Halve(less, len, h)
    <3>1. CASE len = j
      BY <2>2, <2>3, <2>4, <3>1, HalveDepends
    <3>2. CASE len # j
      <4>1. len \in 0 .. j - 1 /\ len \in Nat /\ \A i \in 0 .. len - 1 : i \in 0 .. j - 1
        BY <2>2, <3>2
      <4>2. g[len] = Halve(less, len, g)
        BY <2>1, <4>1
      <4>3. Halve(less, len, g) = Halve(less, len, h)
        BY <2>3, <4>1, HalveDepends
      <4> QED
        BY <2>3, <4>1, <4>2, <4>3
    <3> QED
      BY <3>1, <3>2
  <2>7. Run(j, h)
    BY <2>5, <2>6
  <2>8. j \in 0 .. n
    BY <1>0
  <2> HIDE DEF Run
  <2> QED
    BY <2>7, <2>8
<1>3. n \in S
  <2> HIDE DEF S
  <2> QED
    BY <1>0, <1>1, <1>2, UpTo
<1>4. PICK g : Run(n, g)
  BY <1>3
<1> QED
  BY <1>4 DEF n, Searches

\* r is a place where the search may stop: what is before it is less, what is
\* behind it is not.
Boundary(less, r) ==
    /\ r \in 0 .. Len(less)
    /\ r = 0 \/ less[r]
    /\ r = Len(less) \/ ~less[r + 1]

\* A search among the len elements behind the first at ones, with a boundary on
\* both sides.
Between(less, len, at) ==
    /\ at = 0 \/ less[at]
    /\ at + len = Len(less) \/ ~less[at + len + 1]

\* Whatever the list, sorted or not, lower_bound returns a boundary.
LEMMA LowerBound ==
    ASSUME NEW less, Len(less) \in Nat
    PROVE  Boundary(less, lower_bound(less))
<1> DEFINE n == Len(less)
           among == CHOOSE g : Searches(less, g)
           Good(len) == \A at \in 0 .. n - len :
                           Between(less, len, at) => Boundary(less, among[len][at])
           S == {j \in 0 .. n : \A len \in 0 .. j : Good(len)}
<1>1. Searches(less, among)
  BY SearchExists
<1>2. lower_bound(less) = among[n][0]
  BY DEF lower_bound, Searches, Halve
<1>3. \A len \in 0 .. n : among[len] = Halve(less, len, among)
  <2> HIDE DEF among
  <2> QED
    BY <1>1 DEF Searches
<1>0. n \in Nat
  OBVIOUS
<1> HIDE DEF among
<1>4. 0 \in S
  <2>1. \A at \in 0 .. n : among[0][at] = at
    <3>1. among[0] = Halve(less, 0, among)
      BY <1>0, <1>3
    <3> QED
      BY <3>1 DEF Halve
  <2>2. Good(0)
    BY <1>0, <2>1 DEF Between, Boundary
  <2>3. \A len \in 0 .. 0 : len = 0
    OBVIOUS
  <2> HIDE DEF Good
  <2> QED
    BY <1>0, <2>2, <2>3
<1>5. ASSUME NEW j \in 1 .. n, j - 1 \in S PROVE j \in S
  <2> DEFINE half == j \div 2
  <2>1. j \in Nat /\ j # 0 /\ j \in 0 .. n
    BY <1>0
  <2>2. half \in 0 .. j - 1 /\ j - half - 1 \in 0 .. j - 1
    BY <2>1, Halves
  <2>3. Good(half) /\ Good(j - half - 1)
    BY <1>5, <2>2
  <2>4. Good(j)
    <3> SUFFICES ASSUME NEW at \in 0 .. n - j, Between(less, j, at)
                 PROVE  Boundary(less, among[j][at])
      OBVIOUS
    <3>1. among[j][at] = IF less[at + half + 1] THEN among[j - half - 1][at + half + 1]
                         ELSE among[half][at]
      <4>1. among[j] = Halve(less, j, among)
        BY <1>3, <2>1
      <4> QED
        BY <2>1, <4>1 DEF Halve
    <3> HIDE DEF half
    <3>2. CASE less[at + half + 1]
      <4>1. at + half + 1 \in 0 .. n - (j - half - 1) /\ at + half + 1 + (j - half - 1) = at + j
        BY <1>0, <2>1, <2>2
      <4>2. Between(less, j - half - 1, at + half + 1)
        BY <3>2, <4>1 DEF Between
      <4> QED
        BY <2>3, <3>1, <3>2, <4>1, <4>2
    <3>3. CASE ~less[at + half + 1]
      <4>1. at \in 0 .. n - half
        BY <1>0, <2>1, <2>2
      <4>2. Between(less, half, at)
        BY <3>3 DEF Between
      <4> QED
        BY <2>3, <3>1, <3>3, <4>1, <4>2
    <3> QED
      BY <3>2, <3>3
  <2>5. \A len \in 0 .. j : len = j \/ len \in 0 .. j - 1
    BY <2>1
  <2> HIDE DEF Good
  <2> QED
    BY <1>5, <2>1, <2>4, <2>5
<1>6. n \in S
  <2> HIDE DEF S, n
  <2> QED
    BY <1>0, <1>4, <1>5, UpTo
<1>7. Good(n)
  BY <1>0, <1>6
<1>8. Between(less, n, 0) /\ 0 \in 0 .. n - n
  BY <1>0 DEF Between
<1> QED
  BY <1>2, <1>7, <1>8

-----------------------------------------------------------------------------
(* Sorting *)

\* u is t with x put in at place i.
PutAt(t, x, i, u) ==
    /\ i \in 1 .. Len(t) + 1
    /\ Len(u) = Len(t) + 1
    /\ u[i] = x
    /\ \A j \in 1 .. i - 1 : u[j] = t[j]
    /\ \A j \in i .. Len(t) : u[j + 1] = t[j]

\* No element of t is less than one before it; L is the relation "less".
Ordered(t, L) == \A i, j \in 1 .. Len(t) : i < j => <<t[j], t[i]>> \notin L

Strict(L, S) ==
    /\ \A a \in S : <<a, a>> \notin L
    /\ \A a, b, c \in S : <<a, b>> \in L /\ <<b, c>> \in L => <<a, c>> \in L

\* What one step of a sort promises: u is t with x put in its place.
Puts(S, L, t, x, u) ==
    u \in Seq(S) /\ ToSet(u) = ToSet(t) \cup {x} /\ (Ordered(t, L) => Ordered(u, L))

\* i is the place of the first element that x is less than, or behind the last.
PlaceFor(L, t, x, i) ==
    /\ \A j \in 1 .. i - 1 : <<x, t[j]>> \notin L
    /\ i <= Len(t) => <<x, t[i]>> \in L

\* An element put before the first one it is less than is in its place.
LEMMA PutFacts ==
    ASSUME NEW S, NEW L, Strict(L, S), NEW t \in Seq(S), NEW x \in S, NEW u \in Seq(S),
           NEW i, PutAt(t, x, i, u), PlaceFor(L, t, x, i)
    PROVE  Puts(S, L, t, x, u)
<1> DEFINE n == Len(t)
<1>1. /\ n \in Nat /\ DOMAIN t = 1 .. n /\ \A j \in 1 .. n : t[j] \in S
      /\ DOMAIN u = 1 .. n + 1
  BY DEF PutAt
<1>2. /\ i \in 1 .. n + 1 /\ u[i] = x
      /\ \A j \in 1 .. i - 1 : u[j] = t[j]
      /\ \A j \in i .. n : u[j + 1] = t[j]
  BY DEF PutAt
<1>3. /\ i <= n => <<x, t[i]>> \in L
      /\ \A j \in 1 .. i - 1 : <<x, t[j]>> \notin L
  BY DEF PlaceFor
<1> HIDE DEF n
<1>4. \A j \in 1 .. n + 1 : \/ j < i /\ j \in 1 .. n /\ u[j] = t[j]
                            \/ j = i /\ u[j] = x
                            \/ j > i /\ j - 1 \in 1 .. n /\ j - 1 >= i /\ u[j] = t[j - 1]
  BY <1>1, <1>2
<1>5. ToSet(u) = ToSet(t) \cup {x}
  <2>1. ASSUME NEW j \in 1 .. n + 1 PROVE u[j] \in ToSet(t) \cup {x}
    BY <1>1, <1>4 DEF ToSet
  <2>2. ASSUME NEW j \in 1 .. n PROVE t[j] \in ToSet(u)
    <3>1. CASE j < i
      <4>1. j \in 1 .. n + 1 /\ u[j] = t[j]
        BY <1>1, <1>2, <3>1
      <4> QED
        BY <1>1, <4>1 DEF ToSet
    <3>2. CASE j >= i
      <4>1. j + 1 \in 1 .. n + 1 /\ u[j + 1] = t[j]
        BY <1>1, <1>2, <3>2
      <4> QED
        BY <1>1, <4>1 DEF ToSet
    <3> QED
      BY <1>1, <1>2, <3>1, <3>2
  <2>3. x \in ToSet(u)
    BY <1>1, <1>2 DEF ToSet
  <2> QED
    BY <1>1, <2>1, <2>2, <2>3 DEF ToSet
<1>6. ASSUME Ordered(t, L) PROVE Ordered(u, L)
  <2>1. \A a, b \in 1 .. n : a < b => <<t[b], t[a]>> \notin L
    BY <1>6 DEF Ordered, n
  <2>2. ASSUME NEW b \in 1 .. n, b >= i PROVE <<t[b], x>> \notin L
    <3>1. i \in 1 .. n /\ <<x, t[i]>> \in L
      BY <1>1, <1>2, <1>3, <2>2
    <3>2. <<t[b], t[i]>> \notin L
      <4>1. CASE b = i
        BY <1>1, <3>1, <4>1 DEF Strict
      <4>2. CASE b # i
        BY <1>1, <2>1, <2>2, <3>1, <4>2
      <4> QED
        BY <4>1, <4>2
    <3>3. t[b] \in S /\ t[i] \in S
      BY <1>1, <3>1
    <3> QED
      BY <3>1, <3>2, <3>3 DEF Strict
  <2>3. ASSUME NEW a \in 1 .. n + 1, NEW b \in 1 .. n + 1, a < b PROVE <<u[b], u[a]>> \notin L
    <3>1. CASE b < i
      <4>1. a < i /\ a \in 1 .. n /\ b \in 1 .. n /\ u[a] = t[a] /\ u[b] = t[b]
        BY <1>1, <1>2, <1>4, <2>3, <3>1
      <4> QED
        BY <2>1, <2>3, <4>1
    <3>2. CASE b = i
      <4>1. a \in 1 .. i - 1 /\ u[a] = t[a] /\ u[b] = x
        BY <1>1, <1>2, <2>3, <3>2
      <4> QED
        BY <1>3, <4>1
    <3>3. CASE b > i
      <4>1. b - 1 \in 1 .. n /\ b - 1 >= i /\ u[b] = t[b - 1]
        BY <1>1, <1>2, <1>4, <3>3
      <4>2. CASE a = i
        BY <1>2, <2>2, <4>1, <4>2
      <4>3. CASE a < i
        <5>1. a \in 1 .. n /\ a < b - 1 /\ u[a] = t[a]
          BY <1>1, <1>2, <3>3, <4>3
        <5> QED
          BY <2>1, <4>1, <5>1
      <4>4. CASE a > i
        <5>1. a - 1 \in 1 .. n /\ a - 1 < b - 1 /\ u[a] = t[a - 1]
          BY <1>1, <1>2, <1>4, <2>3, <4>4
        <5> QED
          BY <2>1, <4>1, <5>1
      <4> QED
        BY <1>1, <1>2, <4>2, <4>3, <4>4
    <3> QED
      BY <1>1, <1>2, <3>1, <3>2, <3>3
  <2>4. Len(u) = n + 1
    BY DEF PutAt, n
  <2> QED
    BY <2>3, <2>4 DEF Ordered
<1> QED
  BY <1>5, <1>6 DEF Puts

\* InsertAt puts an element in.
LEMMA InsertPuts ==
    ASSUME NEW S, NEW t \in Seq(S), NEW x \in S, NEW i \in 1 .. Len(t)
    PROVE  InsertAt(t, i, x) \in Seq(S) /\ PutAt(t, x, i, InsertAt(t, i, x))
<1> DEFINE n == Len(t)
           a == SubSeq(t, 1, i - 1)
           b == SubSeq(t, i, n)
           u == (a \o <<x>>) \o b
<1>0. n \in Nat /\ i \in 1 .. n /\ DOMAIN t = 1 .. n
  OBVIOUS
<1>1. a \in Seq(S) /\ Len(a) = i - 1 /\ \A j \in 1 .. i - 1 : a[j] = t[j]
  BY <1>0
<1>2. b \in Seq(S) /\ Len(b) = n - i + 1 /\ \A j \in 1 .. n - i + 1 : b[j] = t[i + j - 1]
  BY <1>0
<1>3. InsertAt(t, i, x) = u
  BY DEF InsertAt
<1> HIDE DEF a, b, n
<1>4. /\ a \o <<x>> \in Seq(S) /\ Len(a \o <<x>>) = i
      /\ \A j \in 1 .. i - 1 : (a \o <<x>>)[j] = t[j]
      /\ (a \o <<x>>)[i] = x
  BY <1>0, <1>1
<1> DEFINE c == a \o <<x>>
<1> HIDE DEF c
<1>5. /\ c \in Seq(S) /\ Len(c) = i
      /\ \A j \in 1 .. i - 1 : c[j] = t[j]
      /\ c[i] = x
  BY <1>4 DEF c
<1>6. /\ c \o b \in Seq(S) /\ Len(c \o b) = n + 1
      /\ \A j \in 1 .. i : (c \o b)[j] = c[j]
      /\ \A j \in i .. n : (c \o b)[j + 1] = b[j + 1 - i]
  <2>1. /\ c \o b \in Seq(S) /\ Len(c \o b) = Len(c) + Len(b)
        /\ \A j \in 1 .. Len(c) + Len(b) :
              (c \o b)[j] = IF j <= Len(c) THEN c[j] ELSE b[j - Len(c)]
    BY <1>2, <1>5, ConcatProperties
  <2>2. Len(c) = i /\ Len(b) = n - i + 1 /\ n \in Nat /\ i \in 1 .. n
    BY <1>0, <1>2, <1>5
  <2>3. i + (n - i + 1) = n + 1
    BY <2>2
  <2>4. \A j \in 1 .. n + 1 : (c \o b)[j] = IF j <= i THEN c[j] ELSE b[j - i]
    BY <2>1, <2>2, <2>3
  <2>5. c \o b \in Seq(S) /\ Len(c \o b) = n + 1
    BY <2>1, <2>2, <2>3
  <2>6. ASSUME NEW j \in 1 .. i PROVE (c \o b)[j] = c[j]
    BY <2>2, <2>4
  <2>7. ASSUME NEW j \in i .. n PROVE (c \o b)[j + 1] = b[j + 1 - i]
    BY <2>2, <2>4
  <2> QED
    BY <2>5, <2>6, <2>7
<1>7. \A j \in i .. n : b[j + 1 - i] = t[j]
  BY <1>0, <1>2
<1>8. u = c \o b
  BY DEF c
<1> HIDE DEF u
<1> QED
  BY <1>0, <1>3, <1>5, <1>6, <1>7, <1>8 DEF PutAt, n

\* Append puts it at the end.
LEMMA AppendPuts ==
    ASSUME NEW S, NEW t \in Seq(S), NEW x \in S
    PROVE  Append(t, x) \in Seq(S) /\ PutAt(t, x, Len(t) + 1, Append(t, x))
  BY AppendProperties DEF PutAt

\* The place SelectInSeq finds is the least one, and 0 when there is none.
LEMMA LeastPlace ==
    ASSUME NEW n \in Nat, NEW I, I \subseteq 1 .. n, NEW k, k = IF I # {} THEN Min(I) ELSE 0
    PROVE  IF I = {} THEN k = 0 ELSE k \in I /\ \A j \in I : k <= j
<1>1. ASSUME I # {} PROVE k \in I /\ \A j \in I : k <= j
  <2>1. \E x \in I : \A y \in I : x <= y
    <3>1. I \subseteq Nat
      OBVIOUS
    <3> QED
      BY <1>1, <3>1, LeastNumber
  <2> QED
    BY <1>1, <2>1 DEF Min
<1> QED
  BY <1>1

\* The lists the first k elements of s can be sorted into.
SortedPrefix(S, L, s, k) ==
    {t \in Seq(S) : ToSet(t) = {s[i] : i \in 1 .. k} /\ Ordered(t, L)}

\* A step leads from the sorted prefixes to the longer ones.
LEMMA PrefixGrows ==
    ASSUME NEW S, NEW L, NEW s, NEW k \in Nat \ {0}, NEW t \in SortedPrefix(S, L, s, k - 1),
           NEW u, Puts(S, L, t, s[k], u)
    PROVE  u \in SortedPrefix(S, L, s, k)
<1>1. {s[i] : i \in 1 .. k} = {s[i] : i \in 1 .. k - 1} \cup {s[k]}
  <2>1. \A i : i \in 1 .. k <=> i \in 1 .. k - 1 \/ i = k
    OBVIOUS
  <2> QED
    BY <2>1
<1> QED
  BY <1>1 DEF SortedPrefix, Puts

\* The empty list.
LEMMA PrefixEmpty ==
    ASSUME NEW S, NEW L, NEW s PROVE <<>> \in SortedPrefix(S, L, s, 0)
<1>1. ToSet(<<>>) = {}
  BY DEF ToSet
<1>2. {s[i] : i \in 1 .. 0} = {}
  OBVIOUS
<1>3. Ordered(<<>>, L)
  BY DEF Ordered
<1> QED
  BY <1>1, <1>2, <1>3 DEF SortedPrefix

\* The step of sort, for numbers.
PutNumber(t, x) ==
    LET greater == SelectInSeq(t, LAMBDA y : x < y)
    IN  IF greater = 0 THEN Append(t, x) ELSE InsertAt(t, greater, x)

SortsNumbers(s, g) ==
    g = [k \in 0 .. Len(s) |-> IF k = 0 THEN <<>> ELSE PutNumber(g[k - 1], s[k])]

LessNumbers == {p \in Int \X Int : p[1] < p[2]}

\* The order of the numbers is strict.
LEMMA LessNumbersStrict == Strict(LessNumbers, Int)
<1>1. \A a, b \in Int : <<a, b>> \in LessNumbers <=> a < b
  BY DEF LessNumbers
<1> QED
  BY <1>1 DEF Strict

\* PutNumber puts a number before the first greater one.
LEMMA PutNumberFacts ==
    ASSUME NEW t \in Seq(Int), NEW x \in Int
    PROVE  Puts(Int, LessNumbers, t, x, PutNumber(t, x))
<1> DEFINE n == Len(t)
           I == {i \in 1 .. n : x < t[i]}
           k == IF I # {} THEN Min(I) ELSE 0
           i == IF k = 0 THEN n + 1 ELSE k
           u == PutNumber(t, x)
<1>0. n \in Nat /\ \A j \in 1 .. n : t[j] \in Int
  OBVIOUS
<1>1. u = IF k = 0 THEN Append(t, x) ELSE InsertAt(t, k, x)
  BY DEF PutNumber, SelectInSeq
<1>2. IF I = {} THEN k = 0 ELSE k \in I /\ \A j \in I : k <= j
  <2>1. I \subseteq 1 .. n
    OBVIOUS
  <2> HIDE DEF I
  <2> QED
    BY <1>0, <2>1, LeastPlace
<1> HIDE DEF k, u
<1>3. /\ k = 0 \/ k \in 1 .. n
      /\ \A j \in 1 .. i - 1 : j \in 1 .. n /\ ~(x < t[j])
      /\ i <= n => i \in 1 .. n /\ x < t[i]
  BY <1>0, <1>2
<1>4. u \in Seq(Int) /\ PutAt(t, x, i, u)
  BY <1>1, <1>3, InsertPuts, AppendPuts
<1> HIDE DEF i, n
<1>5. PlaceFor(LessNumbers, t, x, i)
  BY <1>0, <1>3 DEF LessNumbers, PlaceFor, n
<1>6. Puts(Int, LessNumbers, t, x, u)
  BY <1>4, <1>5, PutFacts, LessNumbersStrict
<1> QED
  BY <1>6 DEF u

\* Sorting numbers orders them and keeps them all.
LEMMA SortNumbers ==
    ASSUME NEW s \in Seq(Int)
    PROVE  /\ sort(s, <) \in Seq(Int) /\ ToSet(sort(s, <)) = ToSet(s)
           /\ Ordered(sort(s, <), LessNumbers)
<1> DEFINE n == Len(s)
           A == [k \in 0 .. n |-> SortedPrefix(Int, LessNumbers, s, k)]
           F == [k \in 1 .. n |-> [t \in Seq(Int) |-> PutNumber(t, s[k])]]
           sorted == CHOOSE g : SortsNumbers(s, g)
<1>0. n \in Nat /\ DOMAIN s = 1 .. n /\ \A k \in 1 .. n : s[k] \in Int
  OBVIOUS
<1> HIDE DEF n
<1>1. ASSUME NEW k \in 1 .. n, NEW t \in A[k - 1]
      PROVE  t \in Seq(Int) /\ PutNumber(t, s[k]) \in A[k]
  <2>1. k \in Nat \ {0} /\ k - 1 \in 0 .. n /\ k \in 0 .. n
    BY <1>0
  <2>2. t \in SortedPrefix(Int, LessNumbers, s, k - 1)
    BY <1>1, <2>1
  <2>3. t \in Seq(Int)
    BY <2>2 DEF SortedPrefix
  <2>4. Puts(Int, LessNumbers, t, s[k], PutNumber(t, s[k]))
    BY <1>0, <2>3, PutNumberFacts
  <2>5. PutNumber(t, s[k]) \in SortedPrefix(Int, LessNumbers, s, k)
    BY <2>1, <2>2, <2>4, PrefixGrows
  <2> QED
    BY <2>1, <2>3, <2>5
<1>2. <<>> \in A[0]
  BY <1>0, PrefixEmpty
<1>3. \A k \in 1 .. n : \A t \in A[k - 1] : F[k][t] = PutNumber(t, s[k]) /\ F[k][t] \in A[k]
  <2> HIDE DEF A
  <2> QED
    BY <1>1
<1>4. PICK g : LoopRun(n, A, F, <<>>, g)
  <2> HIDE DEF A, F
  <2> QED
    BY <1>0, <1>2, <1>3, LoopExists
<1>5. \A k \in 1 .. n : g[k] = PutNumber(g[k - 1], s[k])
  <2> HIDE DEF A, F
  <2> QED
    BY <1>3, <1>4 DEF LoopRun
<1>6. SortsNumbers(s, g)
  <2>1. \A k \in 0 .. n : g[k] = IF k = 0 THEN <<>> ELSE PutNumber(g[k - 1], s[k])
    BY <1>0, <1>4, <1>5 DEF LoopRun
  <2> QED
    BY <1>4, <2>1 DEF SortsNumbers, LoopRun, n
<1>7. SortsNumbers(s, sorted)
  BY <1>6
<1>8. sort(s, <) = sorted[n]
  BY DEF sort, SortsNumbers, PutNumber, n
<1> HIDE DEF sorted
<1>9. sorted[0] = <<>> /\ \A k \in 1 .. n : sorted[k] = PutNumber(sorted[k - 1], s[k])
  BY <1>0, <1>7 DEF SortsNumbers, n
<1>10. \A k \in 0 .. n : sorted[k] \in A[k]
  <2>1. sorted[0] \in A[0] /\ \A k \in 1 .. n : sorted[k - 1] \in A[k - 1] => sorted[k] \in A[k]
    <3> HIDE DEF A
    <3> QED
      BY <1>1, <1>2, <1>9
  <2> HIDE DEF A
  <2> QED
    BY <1>0, <2>1, LoopStays
<1>11. sorted[n] \in SortedPrefix(Int, LessNumbers, s, n)
  BY <1>0, <1>10
<1>12. ToSet(s) = {s[i] : i \in 1 .. n}
  BY <1>0 DEF ToSet
<1> QED
  BY <1>8, <1>11, <1>12 DEF SortedPrefix

Pairs == Int \X Int

\* The step of sort, for pairs.
PutPair(t, x) ==
    LET greater == SelectInSeq(t, LAMBDA y : Before(x, y))
    IN  IF greater = 0 THEN Append(t, x) ELSE InsertAt(t, greater, x)

SortsPairs(s, g) ==
    g = [k \in 0 .. Len(s) |-> IF k = 0 THEN <<>> ELSE PutPair(g[k - 1], s[k])]

LessPairs == {p \in Pairs \X Pairs : Before(p[1], p[2])}

\* The order of the pairs is strict.
LEMMA LessPairsStrict == Strict(LessPairs, Pairs)
<1>1. \A a, b \in Pairs : <<a, b>> \in LessPairs <=> Before(a, b)
  BY DEF LessPairs
<1>2. \A a \in Pairs : ~Before(a, a)
  BY DEF Before, Pairs
<1>3. \A a, b, c \in Pairs : Before(a, b) /\ Before(b, c) => Before(a, c)
  BY DEF Before, Pairs
<1> QED
  BY <1>1, <1>2, <1>3 DEF Strict

\* PutPair puts a pair before the first greater one.
LEMMA PutPairFacts ==
    ASSUME NEW t \in Seq(Pairs), NEW x \in Pairs
    PROVE  Puts(Pairs, LessPairs, t, x, PutPair(t, x))
<1> DEFINE n == Len(t)
           I == {i \in 1 .. n : Before(x, t[i])}
           k == IF I # {} THEN Min(I) ELSE 0
           i == IF k = 0 THEN n + 1 ELSE k
           u == PutPair(t, x)
<1>0. n \in Nat /\ \A j \in 1 .. n : t[j] \in Pairs
  OBVIOUS
<1>1. u = IF k = 0 THEN Append(t, x) ELSE InsertAt(t, k, x)
  BY DEF PutPair, SelectInSeq
<1>2. IF I = {} THEN k = 0 ELSE k \in I /\ \A j \in I : k <= j
  <2>1. I \subseteq 1 .. n
    OBVIOUS
  <2> HIDE DEF I
  <2> QED
    BY <1>0, <2>1, LeastPlace
<1> HIDE DEF k, u
<1>3. /\ k = 0 \/ k \in 1 .. n
      /\ \A j \in 1 .. i - 1 : j \in 1 .. n /\ ~Before(x, t[j])
      /\ i <= n => i \in 1 .. n /\ Before(x, t[i])
  BY <1>0, <1>2
<1>4. u \in Seq(Pairs) /\ PutAt(t, x, i, u)
  BY <1>1, <1>3, InsertPuts, AppendPuts
<1> HIDE DEF i, n
<1>5. PlaceFor(LessPairs, t, x, i)
  BY <1>0, <1>3 DEF LessPairs, PlaceFor, n
<1>6. Puts(Pairs, LessPairs, t, x, u)
  BY <1>4, <1>5, PutFacts, LessPairsStrict
<1> QED
  BY <1>6 DEF u

\* Sorting pairs orders them and keeps them all.
LEMMA SortPairs ==
    ASSUME NEW s \in Seq(Pairs)
    PROVE  /\ sort(s, Before) \in Seq(Pairs) /\ ToSet(sort(s, Before)) = ToSet(s)
           /\ Ordered(sort(s, Before), LessPairs)
<1> DEFINE n == Len(s)
           A == [k \in 0 .. n |-> SortedPrefix(Pairs, LessPairs, s, k)]
           F == [k \in 1 .. n |-> [t \in Seq(Pairs) |-> PutPair(t, s[k])]]
           sorted == CHOOSE g : SortsPairs(s, g)
<1>0. n \in Nat /\ DOMAIN s = 1 .. n /\ \A k \in 1 .. n : s[k] \in Pairs
  OBVIOUS
<1> HIDE DEF n
<1>1. ASSUME NEW k \in 1 .. n, NEW t \in A[k - 1]
      PROVE  t \in Seq(Pairs) /\ PutPair(t, s[k]) \in A[k]
  <2>1. k \in Nat \ {0} /\ k - 1 \in 0 .. n /\ k \in 0 .. n
    BY <1>0
  <2>2. t \in SortedPrefix(Pairs, LessPairs, s, k - 1)
    BY <1>1, <2>1
  <2>3. t \in Seq(Pairs)
    BY <2>2 DEF SortedPrefix
  <2>4. Puts(Pairs, LessPairs, t, s[k], PutPair(t, s[k]))
    BY <1>0, <2>3, PutPairFacts
  <2>5. PutPair(t, s[k]) \in SortedPrefix(Pairs, LessPairs, s, k)
    BY <2>1, <2>2, <2>4, PrefixGrows
  <2> QED
    BY <2>1, <2>3, <2>5
<1>2. <<>> \in A[0]
  BY <1>0, PrefixEmpty
<1>3. \A k \in 1 .. n : \A t \in A[k - 1] : F[k][t] = PutPair(t, s[k]) /\ F[k][t] \in A[k]
  <2> HIDE DEF A
  <2> QED
    BY <1>1
<1>4. PICK g : LoopRun(n, A, F, <<>>, g)
  <2> HIDE DEF A, F
  <2> QED
    BY <1>0, <1>2, <1>3, LoopExists
<1>5. \A k \in 1 .. n : g[k] = PutPair(g[k - 1], s[k])
  <2> HIDE DEF A, F
  <2> QED
    BY <1>3, <1>4 DEF LoopRun
<1>6. SortsPairs(s, g)
  <2>1. \A k \in 0 .. n : g[k] = IF k = 0 THEN <<>> ELSE PutPair(g[k - 1], s[k])
    BY <1>0, <1>4, <1>5 DEF LoopRun
  <2> QED
    BY <1>4, <2>1 DEF SortsPairs, LoopRun, n
<1>7. SortsPairs(s, sorted)
  BY <1>6
<1>8. sort(s, Before) = sorted[n]
  BY DEF sort, SortsPairs, PutPair, n
<1> HIDE DEF sorted
<1>9. sorted[0] = <<>> /\ \A k \in 1 .. n : sorted[k] = PutPair(sorted[k - 1], s[k])
  BY <1>0, <1>7 DEF SortsPairs, n
<1>10. \A k \in 0 .. n : sorted[k] \in A[k]
  <2>1. sorted[0] \in A[0] /\ \A k \in 1 .. n : sorted[k - 1] \in A[k - 1] => sorted[k] \in A[k]
    <3> HIDE DEF A
    <3> QED
      BY <1>1, <1>2, <1>9
  <2> HIDE DEF A
  <2> QED
    BY <1>0, <2>1, LoopStays
<1>11. sorted[n] \in SortedPrefix(Pairs, LessPairs, s, n)
  BY <1>0, <1>10
<1>12. ToSet(s) = {s[i] : i \in 1 .. n}
  BY <1>0 DEF ToSet
<1> QED
  BY <1>8, <1>11, <1>12 DEF SortedPrefix

-----------------------------------------------------------------------------
(* Looking up *)

\* A binary search finds only what is there.
LEMMA SearchSound ==
    ASSUME NEW s \in Seq(Int), NEW x \in Int, binary_search(s, x)
    PROVE  x \in ToSet(s)
<1> DEFINE less == [i \in DOMAIN s |-> s[i] < x]
           k == lower_bound(less)
<1>1. k < Len(s) /\ s[k + 1] = x
  BY DEF binary_search
<1>2. Len(s) \in Nat /\ DOMAIN s = 1 .. Len(s) /\ Len(less) = Len(s)
  OBVIOUS
<1>3. k \in 0 .. Len(s)
  <2>1. Boundary(less, k)
    <3> HIDE DEF less
    <3> QED
      BY <1>2, LowerBound
  <2> HIDE DEF less, k
  <2> QED
    BY <1>2, <2>1 DEF Boundary
<1> HIDE DEF k
<1>4. k + 1 \in DOMAIN s
  BY <1>1, <1>2, <1>3
<1> QED
  BY <1>1, <1>4 DEF ToSet

\* In a list that is ordered it finds everything.
LEMMA SearchFinds ==
    ASSUME NEW s \in Seq(Int), NEW x \in ToSet(s), Ordered(s, LessNumbers)
    PROVE  binary_search(s, x)
<1> DEFINE n == Len(s)
           less == [i \in DOMAIN s |-> s[i] < x]
           k == lower_bound(less)
<1>0. n \in Nat /\ DOMAIN s = 1 .. n /\ Len(less) = n /\ \A i \in 1 .. n : s[i] \in Int
  OBVIOUS
<1>1. PICK j \in 1 .. n : s[j] = x
  BY <1>0 DEF ToSet
<1>2. \A i \in 1 .. n : less[i] <=> s[i] < x
  BY <1>0
<1>3. \A a, b \in 1 .. n : a < b => ~(s[b] < s[a])
  BY <1>0 DEF Ordered, LessNumbers
<1>4. binary_search(s, x) <=> k < n /\ s[k + 1] = x
  BY DEF binary_search
<1>5. Boundary(less, k)
  <2> HIDE DEF less
  <2> QED
    BY <1>0, LowerBound
<1> HIDE DEF less, k, n
<1>6. /\ k \in 0 .. n
      /\ k = 0 \/ less[k]
      /\ k = n \/ ~less[k + 1]
  BY <1>0, <1>5 DEF Boundary
<1>7. j > k
  <2> SUFFICES ASSUME j <= k PROVE FALSE
    BY <1>0, <1>6
  <2>1. k \in 1 .. n /\ s[k] < s[j]
    BY <1>0, <1>1, <1>2, <1>6
  <2> QED
    BY <1>0, <1>3, <2>1
<1>8. k + 1 \in 1 .. n /\ ~(s[k + 1] < x)
  BY <1>0, <1>2, <1>6, <1>7
<1>9. ~(x < s[k + 1])
  <2>1. CASE j = k + 1
    BY <1>0, <1>1, <1>8, <2>1
  <2>2. CASE k + 1 < j
    BY <1>1, <1>3, <1>8, <2>2
  <2> QED
    BY <1>0, <1>6, <1>7, <2>1, <2>2
<1> QED
  BY <1>0, <1>1, <1>4, <1>6, <1>8, <1>9

\* pc lies in the body r.
Inside(r, pc) == r[1] <= pc /\ pc < r[2]

\* What the search for a body returns is one that contains pc.
LEMMA BodySound ==
    ASSUME s_ranges \in Seq(Pairs), NEW pc \in Int, rtn_range_contains(pc)
    PROVE  \E r \in ToSet(s_ranges) : Inside(r, pc)
<1> DEFINE s == SortedRanges
           less == [i \in DOMAIN s |-> s[i][1] <= pc]
           k == lower_bound(less)
<1>1. s \in Seq(Pairs) /\ ToSet(s) = ToSet(s_ranges)
  BY SortPairs DEF SortedRanges
<1>2. k # 0 /\ pc < s[k][2]
  BY DEF rtn_range_contains
<1>3. Len(s) \in Nat /\ DOMAIN s = 1 .. Len(s) /\ Len(less) = Len(s)
  <2> HIDE DEF s
  <2> QED
    BY <1>1
<1>4. Boundary(less, k)
  <2> HIDE DEF less
  <2> QED
    BY <1>3, LowerBound
<1> HIDE DEF k, s
<1>5. k \in 1 .. Len(s) /\ less[k]
  <2> HIDE DEF less
  <2>1. k \in 0 .. Len(less) /\ (k = 0 \/ less[k])
    BY <1>4, Zenon DEF Boundary
  <2>2. k \in 1 .. Len(s)
    BY <1>2, <1>3, <2>1
  <2> QED
    BY <1>2, <2>1, <2>2, Zenon
<1>6. Inside(s[k], pc) /\ s[k] \in ToSet(s)
  BY <1>2, <1>3, <1>5 DEF Inside, ToSet
<1> QED
  BY <1>1, <1>6

-----------------------------------------------------------------------------
(* Reading the candidate files *)

\* The elements of a concatenation are those of its parts.
LEMMA ConcatElements ==
    ASSUME NEW S, NEW s \in Seq(S), NEW t \in Seq(S)
    PROVE  s \o t \in Seq(S) /\ ToSet(s \o t) = ToSet(s) \cup ToSet(t)
<1> DEFINE u == s \o t
<1>1. /\ u \in Seq(S) /\ Len(u) = Len(s) + Len(t)
      /\ \A i \in 1 .. Len(s) + Len(t) : u[i] = IF i <= Len(s) THEN s[i] ELSE t[i - Len(s)]
  BY ConcatProperties
<1>2. /\ Len(s) \in Nat /\ Len(t) \in Nat /\ DOMAIN s = 1 .. Len(s) /\ DOMAIN t = 1 .. Len(t)
      /\ DOMAIN u = 1 .. Len(s) + Len(t)
  BY <1>1
<1> HIDE DEF u
<1>3. ASSUME NEW i \in 1 .. Len(s) PROVE u[i] = s[i] /\ i \in 1 .. Len(s) + Len(t)
  BY <1>1, <1>2
<1>4. ASSUME NEW i \in 1 .. Len(t)
      PROVE  u[Len(s) + i] = t[i] /\ Len(s) + i \in 1 .. Len(s) + Len(t)
  BY <1>1, <1>2
<1>5. ASSUME NEW i \in 1 .. Len(s) + Len(t)
      PROVE  (i \in 1 .. Len(s) /\ u[i] = s[i]) \/
             (i - Len(s) \in 1 .. Len(t) /\ u[i] = t[i - Len(s)])
  BY <1>1, <1>2
<1>6. ToSet(u) = ToSet(s) \cup ToSet(t)
  <2>1. /\ ToSet(u) = {u[i] : i \in 1 .. Len(s) + Len(t)}
        /\ ToSet(s) = {s[i] : i \in 1 .. Len(s)} /\ ToSet(t) = {t[i] : i \in 1 .. Len(t)}
    BY <1>2, Zenon DEF ToSet
  <2>2. ASSUME NEW x \in ToSet(u) PROVE x \in ToSet(s) \cup ToSet(t)
    <3>1. PICK i \in 1 .. Len(s) + Len(t) : x = u[i]
      BY <2>1
    <3> QED
      BY <1>5, <2>1, <3>1
  <2>3. ASSUME NEW x \in ToSet(s) PROVE x \in ToSet(u)
    <3>1. PICK i \in 1 .. Len(s) : x = s[i]
      BY <2>1
    <3> QED
      BY <1>3, <2>1, <3>1
  <2>4. ASSUME NEW x \in ToSet(t) PROVE x \in ToSet(u)
    <3>1. PICK i \in 1 .. Len(t) : x = t[i]
      BY <2>1
    <3> QED
      BY <1>4, <2>1, <3>1
  <2> QED
    BY <2>2, <2>3, <2>4, Zenon
<1> QED
  BY <1>1, <1>6 DEF u

\* What the policy takes of one entry.
TakenOf(e, policy) == IF e.tier \in {"sound", policy} THEN <<e.offset>> ELSE <<>>

Takes(body, policy, g) ==
    g = [k \in 0 .. Len(body) |-> IF k = 0 THEN <<>> ELSE g[k - 1] \o TakenOf(body[k], policy)]

\* What is taken of a file is a list of offsets.
LEMMA TakenType ==
    ASSUME NEW body, NEW policy, Len(body) \in Nat, \A i \in 1 .. Len(body) : body[i].offset \in Nat
    PROVE  Taken(body, policy) \in Seq(Int)
<1> DEFINE n == Len(body)
           Lists == Seq(Int)
           A == [k \in 0 .. n |-> Lists]
           F == [k \in 1 .. n |-> [t \in Lists |-> t \o TakenOf(body[k], policy)]]
           taken == CHOOSE g : Takes(body, policy, g)
<1>0. n \in Nat
  OBVIOUS
<1>1. ASSUME NEW k \in 1 .. n, NEW t \in Lists PROVE t \o TakenOf(body[k], policy) \in Lists
  <2>1. body[k].offset \in Int
    OBVIOUS
  <2>2. <<body[k].offset>> \in Seq(Int) /\ <<>> \in Seq(Int)
    BY <2>1
  <2>3. TakenOf(body[k], policy) \in Seq(Int)
    BY <2>2 DEF TakenOf
  <2> QED
    BY <2>3, ConcatElements
<1>a. <<>> \in Lists
  OBVIOUS
<1> HIDE DEF n, Lists
<1>2. /\ \A k \in 1 .. n : k \in 0 .. n /\ k - 1 \in 0 .. n
      /\ 0 \in 0 .. n /\ n \in 0 .. n
  BY <1>0
<1>3. /\ A[0] = Lists /\ A[n] = Lists
      /\ \A k \in 1 .. n : A[k] = Lists /\ A[k - 1] = Lists
  BY <1>2
<1>4. \A k \in 1 .. n : \A t \in Lists : F[k][t] = t \o TakenOf(body[k], policy)
  OBVIOUS
<1>5. <<>> \in A[0]
  BY <1>a, <1>3
<1> HIDE DEF A, F
<1>6. PICK g : LoopRun(n, A, F, <<>>, g)
  <2>1. \A k \in 1 .. n : \A t \in A[k - 1] : F[k][t] \in A[k]
    BY <1>1, <1>3, <1>4
  <2> QED
    BY <1>0, <1>5, <2>1, LoopExists
<1>7. Takes(body, policy, g)
  <2>1. \A k \in 1 .. n : g[k] = g[k - 1] \o TakenOf(body[k], policy)
    BY <1>3, <1>4, <1>6 DEF LoopRun
  <2>2. \A k \in 0 .. n : g[k] = IF k = 0 THEN <<>> ELSE g[k - 1] \o TakenOf(body[k], policy)
    BY <1>0, <1>6, <2>1 DEF LoopRun
  <2> QED
    BY <1>6, <2>2 DEF Takes, LoopRun, n
<1>8. Takes(body, policy, taken)
  BY <1>7
<1>9. Taken(body, policy) = taken[n]
  BY Zenon DEF Taken, Takes, TakenOf, n
<1> HIDE DEF taken
<1>10. taken[0] = <<>> /\ \A k \in 1 .. n : taken[k] = taken[k - 1] \o TakenOf(body[k], policy)
  <2>1. \A k \in 0 .. n : taken[k] = IF k = 0 THEN <<>> ELSE taken[k - 1] \o TakenOf(body[k], policy)
    BY <1>8, Zenon DEF Takes, n
  <2>2. \A k \in 1 .. n : k # 0
    BY <1>0
  <2> QED
    BY <1>2, <2>1, <2>2, Zenon
<1>11. \A k \in 0 .. n : taken[k] \in A[k]
  <2>1. \A k \in 1 .. n : taken[k - 1] \in A[k - 1] => taken[k] \in A[k]
    BY <1>1, <1>3, <1>10
  <2> QED
    BY <1>0, <1>5, <1>10, <2>1, LoopStays
<1> QED
  BY <1>2, <1>3, <1>9, <1>11 DEF Lists

\* The offsets that can be read of a file, and whether it is all there.
ListedIn(f, policy) == ToSet(Taken(SubSeq(f.body, 1, f.have), policy))

Complete(f) == f.header /\ f.have = Len(f.body)

\* Only the entries that are there count.
LEMMA ReadableType ==
    ASSUME NEW f, NEW policy, MntFile(f)
    PROVE  Taken(SubSeq(f.body, 1, f.have), policy) \in Seq(Int)
<1> DEFINE body == SubSeq(f.body, 1, f.have)
<1>1. /\ f.body \in Seq(ToSet(f.body))
      /\ \A i \in DOMAIN f.body : f.body[i].offset \in Nat
      /\ f.have \in 0 .. Len(f.body)
  BY DEF MntFile
<1>2. Len(f.body) \in Nat /\ DOMAIN f.body = 1 .. Len(f.body)
  BY <1>1
<1>3. f.have \in Nat /\ \A i \in 1 .. f.have : i \in DOMAIN f.body
  BY <1>1, <1>2
<1>4. \A i \in 1 .. f.have : f.body[i] \in ToSet(f.body)
  BY <1>3 DEF ToSet
<1>5. Len(body) = f.have /\ \A i \in 1 .. f.have : body[i] = f.body[i]
  <2>1. /\ Len(body) = IF 1 <= f.have THEN f.have - 1 + 1 ELSE 0
        /\ \A i \in 1 .. f.have - 1 + 1 : body[i] = f.body[1 + i - 1]
    BY <1>3, <1>4, SubSeqProperties
  <2> QED
    BY <1>3, <2>1
<1> HIDE DEF body
<1>6. Taken(body, policy) \in Seq(Int)
  BY <1>1, <1>3, <1>5, TakenType
<1> QED
  BY <1>6 DEF body

\* r is what load_mnt_bin makes of the offsets mnt and the file f.
Reads(f, policy, mnt, r) ==
    /\ r = [found |-> r.found, mnt |-> r.mnt]
    /\ r.found = Complete(f)
    /\ r.mnt \in Seq(Int)
    /\ ToSet(mnt) \subseteq ToSet(r.mnt)
    /\ f.header => ListedIn(f, policy) \subseteq ToSet(r.mnt)
    /\ \A x \in ToSet(r.mnt) : x \in ToSet(mnt) \/ (f.header /\ x \in ListedIn(f, policy))
    /\ r.found => Ordered(r.mnt, LessNumbers)

\* One candidate is read.
LEMMA ReadOne ==
    ASSUME NEW f, NEW policy, MntFile(f), NEW mnt \in Seq(Int)
    PROVE  Reads(f, policy, mnt, load_mnt_bin(f, mnt, policy))
<1> DEFINE t == Taken(SubSeq(f.body, 1, f.have), policy)
           read == IF f.header THEN mnt \o t ELSE mnt
           r == load_mnt_bin(f, mnt, policy)
<1>1. t \in Seq(Int)
  BY ReadableType
<1>2. r = [found |-> Complete(f), mnt |-> IF Complete(f) THEN sort(read, <) ELSE read]
  BY Zenon DEF load_mnt_bin, Complete
<1>3. ListedIn(f, policy) = ToSet(t)
  BY DEF ListedIn
<1>4. Complete(f) => f.header
  BY DEF Complete
<1> HIDE DEF t, r
<1>5. mnt \o t \in Seq(Int) /\ ToSet(mnt \o t) = ToSet(mnt) \cup ToSet(t)
  BY <1>1, ConcatElements
<1>6. read \in Seq(Int) /\ ToSet(read) = ToSet(mnt) \cup (IF f.header THEN ToSet(t) ELSE {})
  BY <1>5
<1> HIDE DEF read
<1>7. /\ sort(read, <) \in Seq(Int) /\ ToSet(sort(read, <)) = ToSet(read)
      /\ Ordered(sort(read, <), LessNumbers)
  BY <1>6, SortNumbers
<1>8. r = [found |-> r.found, mnt |-> r.mnt] /\ r.found = Complete(f)
  BY <1>2
<1>9. r.mnt = IF Complete(f) THEN sort(read, <) ELSE read
  BY <1>2
<1>10. r.mnt \in Seq(Int)
  BY <1>6, <1>7, <1>9
<1>11. ToSet(r.mnt) = ToSet(read)
  BY <1>7, <1>9
<1>12. r.found => Ordered(r.mnt, LessNumbers)
  BY <1>7, <1>8, <1>9
<1> QED
  BY <1>3, <1>6, <1>8, <1>10, <1>11, <1>12, Zenon DEF Reads, r

\* The states of ReadCandidates after k files: what has been collected is listed in
\* one of them; the first complete one ends the search, and all it lists is there,
\* in order.
Tried(files, policy, k) ==
    {r \in [found : BOOLEAN, mnt : Seq(Int)] :
        /\ \A x \in ToSet(r.mnt) : \E i \in 1 .. k : files[i].header /\ x \in ListedIn(files[i], policy)
        /\ ~r.found => \A i \in 1 .. k : ~Complete(files[i])
        /\ r.found =>
              /\ Ordered(r.mnt, LessNumbers)
              /\ \E i \in 1 .. k :
                    /\ Complete(files[i]) /\ \A j \in 1 .. i - 1 : ~Complete(files[j])
                    /\ ListedIn(files[i], policy) \subseteq ToSet(r.mnt)}

\* One step of ReadCandidates.
TryFile(f, policy, r) == IF r.found THEN r ELSE load_mnt_bin(f, r.mnt, policy)

Tries(files, policy, g) ==
    g = [k \in 0 .. Len(files) |->
            IF k = 0 THEN [found |-> FALSE, mnt |-> <<>>] ELSE TryFile(files[k], policy, g[k - 1])]

\* It leads from the states after k - 1 files to those after k.
LEMMA TryOne ==
    ASSUME NEW files, NEW policy, NEW k \in Nat \ {0}, MntFile(files[k]),
           NEW r \in Tried(files, policy, k - 1)
    PROVE  TryFile(files[k], policy, r) \in Tried(files, policy, k)
<1> DEFINE f == files[k]
           q == load_mnt_bin(f, r.mnt, policy)
<1>1. /\ k \in 1 .. k /\ \A i \in 1 .. k - 1 : i \in 1 .. k
      /\ \A i \in 1 .. k : i = k \/ i \in 1 .. k - 1
  OBVIOUS
<1>2. /\ r \in [found : BOOLEAN, mnt : Seq(Int)]
      /\ \A x \in ToSet(r.mnt) : \E i \in 1 .. k - 1 : files[i].header /\ x \in ListedIn(files[i], policy)
      /\ ~r.found => \A i \in 1 .. k - 1 : ~Complete(files[i])
      /\ r.found =>
            /\ Ordered(r.mnt, LessNumbers)
            /\ \E i \in 1 .. k - 1 :
                  /\ Complete(files[i]) /\ \A j \in 1 .. i - 1 : ~Complete(files[j])
                  /\ ListedIn(files[i], policy) \subseteq ToSet(r.mnt)
  BY Zenon DEF Tried
<1>3. CASE r.found
  <2>1. TryFile(f, policy, r) = r
    BY <1>3 DEF TryFile
  <2>2. \A x \in ToSet(r.mnt) : \E i \in 1 .. k : files[i].header /\ x \in ListedIn(files[i], policy)
    BY <1>1, <1>2, Zenon
  <2>3. \E i \in 1 .. k :
           /\ Complete(files[i]) /\ \A j \in 1 .. i - 1 : ~Complete(files[j])
           /\ ListedIn(files[i], policy) \subseteq ToSet(r.mnt)
    BY <1>1, <1>2, <1>3, Zenon
  <2>4. r \in Tried(files, policy, k)
    BY <1>2, <1>3, <2>2, <2>3, Zenon DEF Tried
  <2> QED
    BY <2>1, <2>4
<1>4. CASE ~r.found
  <2>1. TryFile(f, policy, r) = q
    BY <1>4 DEF TryFile
  <2>2. r.mnt \in Seq(Int)
    BY <1>2
  <2>3. Reads(f, policy, r.mnt, q)
    BY <2>2, ReadOne
  <2> HIDE DEF q
  <2>4. /\ q = [found |-> q.found, mnt |-> q.mnt]
        /\ q.found = Complete(f)
        /\ q.mnt \in Seq(Int)
        /\ f.header => ListedIn(f, policy) \subseteq ToSet(q.mnt)
        /\ \A x \in ToSet(q.mnt) : x \in ToSet(r.mnt) \/ (f.header /\ x \in ListedIn(f, policy))
        /\ q.found => Ordered(q.mnt, LessNumbers)
    BY <2>3, Zenon DEF Reads
  <2>5. Complete(f) \in BOOLEAN /\ (Complete(f) => f.header)
    BY DEF Complete
  <2>6. q \in [found : BOOLEAN, mnt : Seq(Int)]
    BY <2>4, <2>5, Zenon
  <2>7. ASSUME NEW x \in ToSet(q.mnt)
        PROVE  \E i \in 1 .. k : files[i].header /\ x \in ListedIn(files[i], policy)
    BY <1>1, <1>2, <2>4, Zenon
  <2>8. ~q.found => \A i \in 1 .. k : ~Complete(files[i])
    BY <1>1, <1>2, <1>4, <2>4, Zenon
  <2>9. q.found => \E i \in 1 .. k :
           /\ Complete(files[i]) /\ \A j \in 1 .. i - 1 : ~Complete(files[j])
           /\ ListedIn(files[i], policy) \subseteq ToSet(q.mnt)
    BY <1>1, <1>2, <1>4, <2>4, <2>5, Zenon
  <2>10. q \in Tried(files, policy, k)
    BY <2>4, <2>6, <2>7, <2>8, <2>9, Zenon DEF Tried
  <2> QED
    BY <2>1, <2>10
<1> QED
  BY <1>3, <1>4

\* What ReadCandidates returns.
LEMMA ReadFacts ==
    ASSUME NEW files, NEW policy, Len(files) \in Nat, \A k \in 1 .. Len(files) : MntFile(files[k])
    PROVE  \E r \in Tried(files, policy, Len(files)) : ReadCandidates(files, policy) = r.mnt
<1> DEFINE n == Len(files)
           a == [found |-> FALSE, mnt |-> <<>>]
           States == [found : BOOLEAN, mnt : Seq(Int)]
           A == [k \in 0 .. n |-> Tried(files, policy, k)]
           F == [k \in 1 .. n |-> [r \in States |-> TryFile(files[k], policy, r)]]
           tried == CHOOSE g : Tries(files, policy, g)
<1>0. n \in Nat /\ \A k \in 1 .. n : MntFile(files[k])
  OBVIOUS
<1> HIDE DEF n
<1>1. /\ \A k \in 1 .. n : k \in 0 .. n /\ k - 1 \in 0 .. n /\ k # 0 /\ k \in Nat \ {0}
      /\ 0 \in 0 .. n /\ n \in 0 .. n
  BY <1>0
<1>2. \A k \in 0 .. n : A[k] = Tried(files, policy, k)
  OBVIOUS
<1>3. \A k : \A r \in Tried(files, policy, k) : r \in States
  BY Zenon DEF Tried
<1> HIDE DEF States, A
<1>4. \A k \in 1 .. n : \A r \in A[k - 1] : F[k][r] = TryFile(files[k], policy, r)
  BY <1>1, <1>2, <1>3
<1>5. \A k \in 1 .. n : \A r \in A[k - 1] : TryFile(files[k], policy, r) \in A[k]
  BY <1>0, <1>1, <1>2, TryOne
<1>6. a \in A[0]
  <2>1. <<>> \in Seq(Int) /\ ToSet(<<>>) = {}
    BY DEF ToSet
  <2>2. a \in States /\ a.found = FALSE /\ a.mnt = <<>>
    BY <2>1 DEF States
  <2> HIDE DEF a
  <2>3. \A i \in 1 .. 0 : FALSE
    OBVIOUS
  <2>4. a \in Tried(files, policy, 0)
    BY <2>1, <2>2, <2>3, Zenon DEF Tried, States
  <2> QED
    BY <1>1, <1>2, <2>4
<1> HIDE DEF F
<1>7. PICK g : LoopRun(n, A, F, a, g)
  <2> HIDE DEF a
  <2> QED
    BY <1>0, <1>4, <1>5, <1>6, LoopExists
<1>8. Tries(files, policy, g)
  <2> HIDE DEF a
  <2>1. \A k \in 1 .. n : g[k] = TryFile(files[k], policy, g[k - 1])
    BY <1>4, <1>7 DEF LoopRun
  <2>2. \A k \in 0 .. n : g[k] = IF k = 0 THEN a ELSE TryFile(files[k], policy, g[k - 1])
    BY <1>0, <1>7, <2>1 DEF LoopRun
  <2> QED
    BY <1>7, <2>2 DEF Tries, LoopRun, n, a
<1>9. Tries(files, policy, tried)
  BY <1>8
<1>10. ReadCandidates(files, policy) = tried[n].mnt
  BY Zenon DEF ReadCandidates, Tries, TryFile, n
<1> HIDE DEF tried
<1>11. tried[0] = a /\ \A k \in 1 .. n : tried[k] = TryFile(files[k], policy, tried[k - 1])
  <2>1. \A k \in 0 .. n : tried[k] = IF k = 0 THEN a ELSE TryFile(files[k], policy, tried[k - 1])
    BY <1>9, Zenon DEF Tries, n
  <2> QED
    BY <1>1, <2>1, Zenon
<1>12. \A k \in 0 .. n : tried[k] \in A[k]
  <2> HIDE DEF a
  <2>1. \A k \in 1 .. n : tried[k - 1] \in A[k - 1] => tried[k] \in A[k]
    BY <1>5, <1>11
  <2> QED
    BY <1>0, <1>6, <1>11, <2>1, LoopStays
<1>13. tried[n] \in Tried(files, policy, n)
  BY <1>1, <1>2, <1>12
<1> QED
  BY <1>10, <1>13 DEF n

\* When bodies do not overlap, an address in one of them is found.
LEMMA BodyFinds ==
    ASSUME s_ranges \in Seq(Pairs), s_ranges_dirty \/ Ordered(s_ranges, LessPairs),
           \A a, b \in ToSet(s_ranges) : a[1] < b[1] => a[2] <= b[1],
           NEW pc \in Int, NEW r \in ToSet(s_ranges), Inside(r, pc)
    PROVE  rtn_range_contains(pc)
<1> DEFINE s == SortedRanges
           n == Len(s)
           less == [i \in DOMAIN s |-> s[i][1] <= pc]
           k == lower_bound(less)
<1>1. s \in Seq(Pairs) /\ ToSet(s) = ToSet(s_ranges) /\ Ordered(s, LessPairs)
  BY SortPairs DEF SortedRanges
<1>2. rtn_range_contains(pc) <=> k # 0 /\ pc < s[k][2]
  BY DEF rtn_range_contains
<1>3. n \in Nat /\ DOMAIN s = 1 .. n /\ Len(less) = n
  <2> HIDE DEF s
  <2> QED
    BY <1>1
<1>4. Boundary(less, k)
  <2> HIDE DEF less
  <2> QED
    BY <1>3, LowerBound
<1>5. \A i \in 1 .. n : less[i] <=> s[i][1] <= pc
  BY <1>3
<1> HIDE DEF k, s, less, n
<1>6. \A i \in 1 .. n : s[i] \in Pairs /\ s[i][1] \in Int /\ s[i][2] \in Int /\ s[i] \in ToSet(s_ranges)
  <2>1. ASSUME NEW i \in 1 .. n PROVE s[i] \in Pairs /\ s[i] \in ToSet(s)
    BY <1>1, <1>3 DEF ToSet
  <2> QED
    BY <1>1, <2>1 DEF Pairs
<1>7. PICK j \in 1 .. n : s[j] = r
  <2>1. r \in ToSet(s)
    BY <1>1
  <2> QED
    BY <1>3, <2>1 DEF ToSet
<1>8. \A i, h \in 1 .. n : i < h =>
         s[i][1] < s[h][1] \/ (s[i][1] = s[h][1] /\ s[i][2] <= s[h][2])
  <2>1. ASSUME NEW i \in 1 .. n, NEW h \in 1 .. n, i < h
        PROVE  s[i][1] < s[h][1] \/ (s[i][1] = s[h][1] /\ s[i][2] <= s[h][2])
    <3>1. <<s[h], s[i]>> \notin LessPairs
      BY <1>1, <2>1 DEF Ordered, n
    <3>2. \A a, b \in Pairs : <<a, b>> \in LessPairs <=> Before(a, b)
      BY DEF LessPairs
    <3> QED
      BY <1>6, <3>1, <3>2 DEF Before
  <2> QED
    BY <2>1
<1>9. k \in 0 .. n /\ (k = 0 \/ less[k]) /\ (k = n \/ ~less[k + 1])
  BY <1>3, <1>4, Zenon DEF Boundary
<1>10. r[1] <= pc /\ pc < r[2]
  BY DEF Inside
<1>11. j <= k
  <2> SUFFICES ASSUME k < j PROVE FALSE
    BY <1>3, <1>9
  <2>1. k + 1 \in 1 .. n /\ k # n
    BY <1>3, <1>9
  <2>2. pc < s[k + 1][1]
    BY <1>5, <1>6, <1>9, <2>1
  <2>3. s[k + 1][1] <= s[j][1]
    <3>1. CASE k + 1 = j
      BY <1>6, <3>1
    <3>2. CASE k + 1 < j
      BY <1>6, <1>8, <2>1, <3>2
    <3> QED
      BY <1>3, <1>9, <3>1, <3>2
  <2> QED
    BY <1>6, <1>7, <1>10, <2>1, <2>2, <2>3
<1>12. k \in 1 .. n /\ s[k][1] <= pc
  BY <1>3, <1>5, <1>9, <1>11
<1>13. pc < s[k][2]
  <2>1. CASE j = k
    BY <1>7, <1>10, <2>1
  <2>2. CASE j < k
    <3>1. s[j][1] < s[k][1] \/ (s[j][1] = s[k][1] /\ s[j][2] <= s[k][2])
      BY <1>8, <1>12, <2>2
    <3>2. CASE s[j][1] < s[k][1]
      <4>1. s[j][2] <= s[k][1]
        BY <1>6, <1>12, <3>2
      <4> QED
        BY <1>6, <1>7, <1>10, <1>12, <4>1
    <3>3. CASE s[j][2] <= s[k][2]
      BY <1>6, <1>7, <1>10, <1>12, <3>3
    <3> QED
      BY <3>1, <3>2, <3>3
  <2> QED
    BY <1>3, <1>11, <1>12, <2>1, <2>2
<1> QED
  BY <1>2, <1>12, <1>13

-----------------------------------------------------------------------------
(* Unloading an image *)

\* No two images begin at one address.
DistinctLow(s) == \A i, j \in 1 .. Len(s) : s[i].low = s[j].low => i = j

\* The list on_module_unload leaves.
Remaining(s, base) == RemoveFirstMatch(s, LAMBDA im : im.low = base)

\* u is s without the image that begins at base.
WithoutImage(s, base, u) ==
    /\ ToSet(u) = {x \in ToSet(s) : x.low # base}
    /\ DistinctLow(u)
    /\ (\E x \in ToSet(s) : x.low = base) => u # s

\* What on_module_unload does to the list.
LEMMA RemoveImage ==
    ASSUME NEW S, NEW s \in Seq(S), DistinctLow(s), NEW base
    PROVE  Remaining(s, base) \in Seq(S) /\ WithoutImage(s, base, Remaining(s, base))
<1> DEFINE n == Len(s)
           I == {i \in 1 .. n : s[i].low = base}
           k == IF I # {} THEN Min(I) ELSE 0
           u == IF I # {} THEN SubSeq(s, 1, k - 1) \o SubSeq(s, k + 1, n) ELSE s
<1>0. /\ n \in Nat /\ DOMAIN s = 1 .. n /\ ToSet(s) = {s[i] : i \in 1 .. n}
      /\ \A i \in 1 .. n : s[i] \in S
  BY DEF ToSet
<1>1. Remaining(s, base) = u
  BY DEF Remaining, RemoveFirstMatch, RemoveAt, SelectInSeq
<1>2. IF I = {} THEN k = 0 ELSE k \in I /\ \A j \in I : k <= j
  <2>1. I \subseteq 1 .. n
    OBVIOUS
  <2> HIDE DEF I, n
  <2> QED
    BY <1>0, <2>1, LeastPlace
<1>3. \A i, j \in 1 .. n : s[i].low = s[j].low => i = j
  BY DEF DistinctLow
<1>4. \A x \in I : x \in 1 .. n /\ s[x].low = base
  OBVIOUS
<1>5. \A x \in 1 .. n : s[x].low = base => x \in I
  OBVIOUS
<1>6. CASE I = {}
  <2>1. u = s
    BY <1>6
  <2>2. \A x \in ToSet(s) : x.low # base
    BY <1>0, <1>5, <1>6
  <2> HIDE DEF u
  <2>3. WithoutImage(s, base, u)
    BY <2>1, <2>2 DEF WithoutImage
  <2> QED
    BY <1>1, <2>1, <2>3
<1>7. CASE I # {}
  <2> DEFINE a == SubSeq(s, 1, k - 1)
             b == SubSeq(s, k + 1, n)
  <2>1. u = a \o b
    BY <1>7
  <2>2. k \in 1 .. n /\ s[k].low = base
    BY <1>2, <1>4, <1>7
  <2> HIDE DEF n, k, I, u
  <2>3. a \in Seq(S) /\ Len(a) = k - 1 /\ \A i \in 1 .. k - 1 : a[i] = s[i]
    <3>1. \A i \in 1 .. k - 1 : s[i] \in S
      BY <1>0, <2>2
    <3>2. /\ a \in Seq(S) /\ Len(a) = IF 1 <= k - 1 THEN k - 1 - 1 + 1 ELSE 0
          /\ \A i \in 1 .. k - 1 - 1 + 1 : a[i] = s[1 + i - 1]
      BY <1>0, <2>2, <3>1, SubSeqProperties
    <3> HIDE DEF a
    <3> QED
      BY <1>0, <2>2, <3>2
  <2>4. b \in Seq(S) /\ Len(b) = n - k /\ \A i \in 1 .. n - k : b[i] = s[k + i]
    <3>1. \A i \in k + 1 .. n : s[i] \in S
      BY <1>0, <2>2
    <3>2. /\ b \in Seq(S) /\ Len(b) = IF k + 1 <= n THEN n - (k + 1) + 1 ELSE 0
          /\ \A i \in 1 .. n - (k + 1) + 1 : b[i] = s[k + 1 + i - 1]
      BY <1>0, <2>2, <3>1, SubSeqProperties
    <3> HIDE DEF b
    <3> QED
      BY <1>0, <2>2, <3>2
  <2> HIDE DEF a, b
  <2>5. /\ u \in Seq(S) /\ Len(u) = n - 1
        /\ \A i \in 1 .. n - 1 : u[i] = IF i < k THEN s[i] ELSE s[i + 1]
    <3>1. /\ u \in Seq(S) /\ Len(u) = k - 1 + (n - k)
          /\ \A i \in 1 .. k - 1 + (n - k) : u[i] = IF i <= k - 1 THEN a[i] ELSE b[i - (k - 1)]
      BY <2>1, <2>3, <2>4, ConcatProperties
    <3> QED
      BY <1>0, <2>2, <2>3, <2>4, <3>1
  <2>6. n - 1 \in Nat /\ DOMAIN u = 1 .. n - 1 /\ ToSet(u) = {u[i] : i \in 1 .. n - 1}
    <3>1. n - 1 \in Nat
      BY <1>0, <2>2
    <3>2. DOMAIN u = 1 .. n - 1
      BY <2>5, <3>1
    <3> QED
      BY <3>1, <3>2, Zenon DEF ToSet
  <2>7. ASSUME NEW i \in 1 .. n - 1
        PROVE  LET j == IF i < k THEN i ELSE i + 1 IN j \in 1 .. n /\ j # k /\ u[i] = s[j]
    BY <1>0, <2>2, <2>5
  <2>8. ASSUME NEW j \in 1 .. n, j # k
        PROVE  LET i == IF j < k THEN j ELSE j - 1 IN i \in 1 .. n - 1 /\ u[i] = s[j]
    BY <1>0, <2>2, <2>5, <2>8
  <2>9. ASSUME NEW x \in ToSet(u) PROVE x \in ToSet(s) /\ x.low # base
    <3>1. PICK i \in 1 .. n - 1 : x = u[i]
      BY <2>6
    <3>2. PICK j \in 1 .. n : j # k /\ u[i] = s[j]
      BY <2>7, Zenon
    <3> QED
      BY <1>0, <1>3, <2>2, <3>1, <3>2
  <2>10. ASSUME NEW x \in ToSet(s), x.low # base PROVE x \in ToSet(u)
    <3>1. PICK j \in 1 .. n : x = s[j]
      BY <1>0
    <3>2. PICK i \in 1 .. n - 1 : u[i] = s[j]
      BY <2>2, <2>8, <2>10, <3>1, Zenon
    <3> QED
      BY <2>6, <3>1, <3>2
  <2>11. DistinctLow(u)
    <3>1. ASSUME NEW i \in 1 .. n - 1, NEW j \in 1 .. n - 1, u[i].low = u[j].low PROVE i = j
      <4> DEFINE i1 == IF i < k THEN i ELSE i + 1
                 j1 == IF j < k THEN j ELSE j + 1
      <4>1. i1 \in 1 .. n /\ u[i] = s[i1] /\ j1 \in 1 .. n /\ u[j] = s[j1]
        BY <2>7
      <4>2. i1 = j1
        <5> HIDE DEF i1, j1
        <5> QED
          BY <1>3, <3>1, <4>1
      <4> QED
        BY <1>0, <2>2, <4>2
    <3> QED
      BY <2>5, <3>1 DEF DistinctLow
  <2>12. u # s
    BY <1>0, <2>5 DEF n
  <2>13. ToSet(u) = {x \in ToSet(s) : x.low # base}
    BY <2>9, <2>10, Zenon
  <2> QED
    BY <1>1, <2>5, <2>11, <2>12, <2>13, Zenon DEF WithoutImage
<1> QED
  BY <1>6, <1>7
=============================================================================
