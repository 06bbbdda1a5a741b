---------------------------- MODULE LoopTheorems ----------------------------
(***************************************************************************)
(* Induction for the proofs about loops.  A loop is a function that is     *)
(* defined by recursion on the number of steps done.                       *)
(*                                                                         *)
(* Induction is over sets of numbers, from the fact that the natural       *)
(* numbers are well ordered: LoopExists shows that a loop is well defined  *)
(* when every step leads from one set of states to the next, and LoopStays *)
(* that its states are then in those sets.                                 *)
(***************************************************************************)
EXTENDS Integers, WellFoundedInduction, TLAPS

\* A non-empty set of natural numbers has a least element.
LEMMA LeastNumber ==
    ASSUME NEW T, T \subseteq Nat, T # {}
    PROVE  \E x \in T : \A y \in T : x <= y
<1> DEFINE R == {ss \in Nat \X Nat : ss[1] < ss[2]}
<1>1. IsWellFoundedOn(R, Nat)
  BY NatLessThanWellFounded, Zenon DEF OpToRel
<1> HIDE DEF R
<1>2. PICK x \in T : \A y \in T : <<y, x>> \notin R
  BY <1>1, WFMin
<1>3. ASSUME NEW y \in T PROVE x <= y
  <2>1. <<y, x>> \notin R /\ <<y, x>> \in Nat \X Nat
    BY <1>2
  <2>2. ~(y < x)
    BY <2>1 DEF R
  <2> QED
    BY <2>2
<1> QED
  BY <1>3

\* A number up to n + 1 is one up to n or the last.
LEMMA OrLast == \A n \in Nat : \A k \in 1 .. n + 1 : k \in 1 .. n \/ k = n + 1
  OBVIOUS

\* Induction up to n, over a set of numbers.
LEMMA UpTo ==
    ASSUME NEW n \in Nat, NEW S, 0 \in S, \A k \in 1 .. n : k - 1 \in S => k \in S
    PROVE  \A k \in 0 .. n : k \in S
<1> SUFFICES ASSUME (0 .. n) \ S # {} PROVE FALSE
  OBVIOUS
<1> DEFINE T == (0 .. n) \ S
<1>0. T \subseteq Nat /\ T # {}
  OBVIOUS
<1>1. PICK x \in T : \A y \in T : x <= y
  <2> HIDE DEF T
  <2> QED
    BY <1>0, LeastNumber
<1>2. x \in 1 .. n /\ x - 1 \in 0 .. n /\ x - 1 < x
  BY <1>1
<1> QED
  BY <1>1, <1>2

\* g is a run of n steps of a loop that begins with a; step k is F[k], from A[k - 1].
LoopRun(n, A, F, a, g) ==
    /\ g = [k \in 0 .. n |-> g[k]]
    /\ g[0] = a
    /\ \A k \in 1 .. n : g[k - 1] \in A[k - 1] /\ g[k] = F[k][g[k - 1]]

\* A loop whose step k leads from A[k - 1] to A[k] has a run.
LEMMA LoopExists ==
    ASSUME NEW n \in Nat, NEW A, NEW a \in A[0], NEW F,
           \A k \in 1 .. n : \A x \in A[k - 1] : F[k][x] \in A[k]
    PROVE  \E g : LoopRun(n, A, F, a, g)
<1> DEFINE Run(j, g) == /\ g = [k \in 0 .. j |-> g[k]]
                        /\ g[0] = a
                        /\ g[j] \in A[j]
                        /\ \A k \in 1 .. j : g[k - 1] \in A[k - 1] /\ g[k] = F[k][g[k - 1]]
           S == {j \in 0 .. n : \E g : Run(j, g)}
<1>1. 0 \in S
  <2>1. Run(0, [k \in 0 .. 0 |-> a])
    OBVIOUS
  <2>2. 0 \in 0 .. n
    OBVIOUS
  <2> HIDE DEF Run
  <2> QED
    BY <2>1, <2>2
<1>2. ASSUME NEW j \in 1 .. n, j - 1 \in S PROVE j \in S
  <2>1. PICK g : Run(j - 1, g)
    BY <1>2
  <2> DEFINE h == [k \in 0 .. j |-> IF k = j THEN F[j][g[j - 1]] ELSE g[k]]
  <2>2. F[j][g[j - 1]] \in A[j]
    BY <2>1
  <2>3. \A k \in 0 .. j - 1 : h[k] = g[k]
    OBVIOUS
  <2>4. h[j] = F[j][g[j - 1]] /\ h[0] = a /\ h[j - 1] = g[j - 1]
    BY <2>1
  <2>5. h = [k \in 0 .. j |-> h[k]]
    OBVIOUS
  <2>6. ASSUME NEW k \in 1 .. j PROVE h[k - 1] \in A[k - 1] /\ h[k] = F[k][h[k - 1]]
    <3> HIDE DEF h
    <3>1. CASE k = j
      BY <2>1, <2>4, <3>1
    <3>2. CASE k # j
      <4>1. k \in 1 .. j - 1 /\ k \in 0 .. j - 1 /\ k - 1 \in 0 .. j - 1
        BY <3>2
      <4> QED
        BY <2>1, <2>3, <4>1
    <3> QED
      BY <3>1, <3>2
  <2>7. Run(j, h)
    <3> HIDE DEF h
    <3> QED
      BY <2>2, <2>4, <2>5, <2>6
  <2>8. j \in 0 .. n
    OBVIOUS
  <2> HIDE DEF Run, h
  <2> QED
    BY <2>7, <2>8
<1>3. n \in S
  <2> HIDE DEF S
  <2> QED
    BY <1>1, <1>2, UpTo
<1> QED
  BY <1>3 DEF LoopRun

\* A loop stays in sets that its start is in and its steps lead through.
LEMMA LoopStays ==
    ASSUME NEW n \in Nat, NEW A, NEW g, g[0] \in A[0],
           \A k \in 1 .. n : g[k - 1] \in A[k - 1] => g[k] \in A[k]
    PROVE  \A k \in 0 .. n : g[k] \in A[k]
<1> DEFINE S == {k \in 0 .. n : g[k] \in A[k]}
<1>1. 0 \in S
  OBVIOUS
<1>2. \A k \in 1 .. n : k - 1 \in S => k \in S
  OBVIOUS
<1>3. \A k \in 0 .. n : k \in S
  <2> HIDE DEF S
  <2> QED
    BY <1>1, <1>2, UpTo
<1> QED
  BY <1>3

-----------------------------------------------------------------------------
(* Remainders *)

\* Division leaves a quotient and a remainder.
LEMMA QuotientRemainder ==
    ASSUME NEW x \in Nat, NEW y \in Nat \ {0}
    PROVE  /\ x \div y \in Nat /\ x % y \in Nat /\ x % y < y
           /\ x = y * (x \div y) + (x % y)
BY Z3

\* There is no other.
LEMMA RemainderIs ==
    ASSUME NEW x \in Nat, NEW y \in Nat \ {0}, NEW q \in Nat, NEW r \in Nat,
           x = y * q + r, r < y
    PROVE  x % y = r
BY Z3

\* A product grows by a factor.
LEMMA OneMore ==
    ASSUME NEW y \in Nat, NEW q \in Nat
    PROVE  y * q \in Nat /\ y * (q + 1) = y * q + y
BY Z3

\* A number below y is its own remainder, and y more has the same.
LEMMA RemainderPeriod ==
    ASSUME NEW x \in Nat, NEW y \in Nat \ {0}
    PROVE  /\ x < y => x % y = x
           /\ x >= y => (x - y) % y = x % y
<1>1. x < y => x % y = x
  OBVIOUS
<1>2. ASSUME x >= y PROVE (x - y) % y = x % y
  <2> DEFINE z  == x - y
             q  == z \div y
             r  == z % y
             m  == y * q
             m1 == y * (q + 1)
  <2>1. z \in Nat /\ x = z + y
    BY <1>2
  <2> HIDE DEF z
  <2>2. q \in Nat /\ r \in Nat /\ r < y /\ z = m + r
    BY <2>1, QuotientRemainder
  <2> HIDE DEF q, r
  <2>3. m \in Nat /\ m1 = m + y /\ q + 1 \in Nat
    BY <2>2, OneMore
  <2> HIDE DEF m, m1
  <2>4. x = m1 + r
    BY <2>1, <2>2, <2>3
  <2>5. x % y = r
    BY <2>2, <2>3, <2>4, RemainderIs DEF m1
  <2> QED BY <2>5 DEF r, z
<1> QED BY <1>1, <1>2
=============================================================================
