-------------------------- MODULE CatalogueProofs --------------------------
(* Proofs about the catalogue, for every set of names, files and rulings. *)
EXTENDS Catalogue, FiniteSetTheorems, WellFoundedInduction, TLAPS

-----------------------------------------------------------------------------
(* Going through a sequence *)

\* What holds at the start and is kept by every step holds throughout.
LEMMA KeptThroughout ==
    ASSUME NEW n \in Nat, NEW T, 0 \in T,
           \A i \in 0 .. n : i \in T /\ i < n => i + 1 \in T
    PROVE  \A i \in 0 .. n : i \in T
<1> SUFFICES ASSUME NEW k \in 0 .. n, k \notin T
             PROVE  FALSE
  OBVIOUS
<1> DEFINE R == OpToRel(<, Nat)
           Bad == {i \in 0 .. n : i \notin T}
<1>1. \A a, b \in Nat : <<a, b>> \in R <=> a < b
  BY DEF OpToRel
<1>2. IsWellFoundedOn(R, Nat)
  BY NatLessThanWellFounded
<1>3. Bad \subseteq Nat /\ Bad # {}
  OBVIOUS
<1> HIDE DEF R
<1>4. PICK m \in Bad : \A i \in Bad : ~(<<i, m>> \in R)
  <2> HIDE DEF Bad
  <2> QED
    BY <1>2, <1>3, WFMin
<1>5. m \in 1 .. n /\ m \notin T
  BY <1>4
<1>6. m - 1 \in 0 .. n /\ m - 1 \in Nat /\ m \in Nat /\ m - 1 < m
  BY <1>5
<1>7. m - 1 \in T
  <2>1. <<m - 1, m>> \in R
    BY <1>1, <1>6
  <2> QED
    BY <1>4, <1>6, <2>1
<1> QED
  BY <1>5, <1>6, <1>7

\* The values f that step functions pass through.
Trail(f, n, base, step) == f[0] = base /\ \A i \in 1 .. n : f[i] = step[i][f[i - 1]]

\* Step functions that stay in a set have such values, in that set.
LEMMA TrailExists ==
    ASSUME NEW n \in Nat, NEW S, NEW base \in S, NEW step \in [1 .. n -> [S -> S]]
    PROVE  \E f \in [0 .. n -> S] : Trail(f, n, base, step)
<1> DEFINE T == {k \in 0 .. n : \E f \in [0 .. k -> S] : Trail(f, k, base, step)}
<1>1. 0 \in T
  <2> DEFINE f == [i \in 0 .. 0 |-> base]
  <2>1. f \in [0 .. 0 -> S] /\ Trail(f, 0, base, step)
    BY DEF Trail
  <2> HIDE DEF f
  <2> QED
    BY <2>1
<1>2. ASSUME NEW k \in 0 .. n, k \in T, k < n
      PROVE  k + 1 \in T
  <2>1. PICK f \in [0 .. k -> S] : Trail(f, k, base, step)
    BY <1>2
  <2> DEFINE g == [i \in 0 .. k + 1 |-> IF i = k + 1 THEN step[k + 1][f[k]] ELSE f[i]]
  <2>2. k + 1 \in 1 .. n /\ k + 1 \in 0 .. n /\ k \in 0 .. k /\ f[k] \in S
    BY <1>2
  <2>3. g \in [0 .. k + 1 -> S]
    BY <2>2
  <2>4. g[0] = base
    BY <2>1 DEF Trail
  <2>5. \A i \in 1 .. k + 1 : g[i] = step[i][g[i - 1]]
    <3> SUFFICES ASSUME NEW i \in 1 .. k + 1
                 PROVE  g[i] = step[i][g[i - 1]]
      OBVIOUS
    <3>1. i - 1 \in 0 .. k /\ i - 1 # k + 1 /\ i \in 0 .. k + 1 /\ i - 1 \in 0 .. k + 1
      OBVIOUS
    <3>2. g[i - 1] = f[i - 1]
      BY <3>1
    <3> QED
      BY <2>1, <3>1, <3>2 DEF Trail
  <2> HIDE DEF g
  <2> QED
    BY <2>2, <2>3, <2>4, <2>5 DEF Trail
<1> HIDE DEF T
<1>3. \A i \in 0 .. n : i \in T /\ i < n => i + 1 \in T
  BY <1>2
<1>4. \A i \in 0 .. n : i \in T
  BY <1>1, <1>3, KeptThroughout
<1> QED
  BY <1>4 DEF T

\* Going over rows of a replay, in a set that no row leaves.
CitersTrail(f, edges, rows) ==
    /\ f[0] = edges
    /\ \A i \in 1 .. Len(rows) : f[i] = CitersRepointed(f[i - 1], rows[i])
    /\ f[Len(rows)] = Through(CitersRepointed, edges, rows)

LEMMA CitersStepwise ==
    ASSUME NEW S, NEW edges \in S, NEW rows, Len(rows) \in Nat,
           \A E \in S, i \in 1 .. Len(rows) : CitersRepointed(E, rows[i]) \in S
    PROVE  \E f \in [0 .. Len(rows) -> S] : CitersTrail(f, edges, rows)
<1> DEFINE n == Len(rows)
           step == [i \in 1 .. n |-> [E \in S |-> CitersRepointed(E, rows[i])]]
<1>1. step \in [1 .. n -> [S -> S]]
  OBVIOUS
<1>2. n \in Nat
  OBVIOUS
<1> HIDE DEF step, n
<1>3. PICK f \in [0 .. n -> S] : Trail(f, n, edges, step)
  BY <1>1, <1>2, TrailExists
<1>4. \A i \in 1 .. n : f[i] = CitersRepointed(f[i - 1], rows[i])
  <2>1. \A i \in 1 .. n : i - 1 \in 0 .. n
    BY <1>2
  <2> QED
    BY <1>3, <2>1 DEF step, Trail
<1> DEFINE Equation(g) == g = [i \in 0 .. n |->
                IF i = 0 THEN edges ELSE CitersRepointed(g[i - 1], rows[i])]
           after == CHOOSE g : Equation(g)
<1>5. Equation(f)
  BY <1>3, <1>4 DEF Trail
<1>6. Equation(after)
  <2> HIDE DEF Equation
  <2> QED
    BY <1>5
<1> DEFINE T == {i \in 0 .. n : after[i] = f[i]}
<1>7. Through(CitersRepointed, edges, rows) = after[n]
  BY DEF Through, n
<1> HIDE DEF after
<1>8. 0 \in T
  BY <1>2, <1>3, <1>6 DEF Trail
<1>9. ASSUME NEW i \in 0 .. n, i \in T, i < n
      PROVE  i + 1 \in T
  <2>1. i + 1 \in 1 .. n /\ i + 1 \in 0 .. n
    BY <1>2, <1>9
  <2>2. after[i + 1] = CitersRepointed(after[i], rows[i + 1])
    BY <1>6, <2>1
  <2>3. f[i + 1] = CitersRepointed(f[i], rows[i + 1])
    BY <1>4, <2>1
  <2> QED
    BY <1>9, <2>1, <2>2, <2>3
<1> HIDE DEF T
<1>10. \A i \in 0 .. n : i \in T
  BY <1>2, <1>8, <1>9, KeptThroughout
<1>11. n \in T
  BY <1>2, <1>10
<1> QED
  BY <1>3, <1>4, <1>7, <1>11 DEF T, n, Trail, CitersTrail

CitationsTrail(f, edges, rows) ==
    /\ f[0] = edges
    /\ \A i \in 1 .. Len(rows) : f[i] = CitationsRepointed(f[i - 1], rows[i])
    /\ f[Len(rows)] = Through(CitationsRepointed, edges, rows)

LEMMA CitationsStepwise ==
    ASSUME NEW S, NEW edges \in S, NEW rows, Len(rows) \in Nat,
           \A E \in S, i \in 1 .. Len(rows) : CitationsRepointed(E, rows[i]) \in S
    PROVE  \E f \in [0 .. Len(rows) -> S] : CitationsTrail(f, edges, rows)
<1> DEFINE n == Len(rows)
           step == [i \in 1 .. n |-> [E \in S |-> CitationsRepointed(E, rows[i])]]
<1>1. step \in [1 .. n -> [S -> S]]
  OBVIOUS
<1>2. n \in Nat
  OBVIOUS
<1> HIDE DEF step, n
<1>3. PICK f \in [0 .. n -> S] : Trail(f, n, edges, step)
  BY <1>1, <1>2, TrailExists
<1>4. \A i \in 1 .. n : f[i] = CitationsRepointed(f[i - 1], rows[i])
  <2>1. \A i \in 1 .. n : i - 1 \in 0 .. n
    BY <1>2
  <2> QED
    BY <1>3, <2>1 DEF step, Trail
<1> DEFINE Equation(g) == g = [i \in 0 .. n |->
                IF i = 0 THEN edges ELSE CitationsRepointed(g[i - 1], rows[i])]
           after == CHOOSE g : Equation(g)
<1>5. Equation(f)
  BY <1>3, <1>4 DEF Trail
<1>6. Equation(after)
  <2> HIDE DEF Equation
  <2> QED
    BY <1>5
<1> DEFINE T == {i \in 0 .. n : after[i] = f[i]}
<1>7. Through(CitationsRepointed, edges, rows) = after[n]
  BY DEF Through, n
<1> HIDE DEF after
<1>8. 0 \in T
  BY <1>2, <1>3, <1>6 DEF Trail
<1>9. ASSUME NEW i \in 0 .. n, i \in T, i < n
      PROVE  i + 1 \in T
  <2>1. i + 1 \in 1 .. n /\ i + 1 \in 0 .. n
    BY <1>2, <1>9
  <2>2. after[i + 1] = CitationsRepointed(after[i], rows[i + 1])
    BY <1>6, <2>1
  <2>3. f[i + 1] = CitationsRepointed(f[i], rows[i + 1])
    BY <1>4, <2>1
  <2> QED
    BY <1>9, <2>1, <2>2, <2>3
<1> HIDE DEF T
<1>10. \A i \in 0 .. n : i \in T
  BY <1>2, <1>8, <1>9, KeptThroughout
<1>11. n \in T
  BY <1>2, <1>10
<1> QED
  BY <1>3, <1>4, <1>7, <1>11 DEF T, n, Trail, CitationsTrail

\* What Without keeps of an element.
Keep(kept, e, gone) == IF e \in gone THEN kept ELSE Append(kept, e)

WithoutTrail(f, seq, gone) ==
    /\ f[0] = << >>
    /\ \A i \in 1 .. Len(seq) : f[i] = Keep(f[i - 1], seq[i], gone)
    /\ f[Len(seq)] = Without(seq, gone)

LEMMA WithoutStepwise ==
    ASSUME NEW S, << >> \in S, NEW seq, Len(seq) \in Nat, NEW gone,
           \A q \in S, i \in 1 .. Len(seq) : Keep(q, seq[i], gone) \in S
    PROVE  \E f \in [0 .. Len(seq) -> S] : WithoutTrail(f, seq, gone)
<1> DEFINE n == Len(seq)
           step == [i \in 1 .. n |-> [q \in S |-> Keep(q, seq[i], gone)]]
<1>1. step \in [1 .. n -> [S -> S]]
  OBVIOUS
<1>2. n \in Nat
  OBVIOUS
<1> HIDE DEF step, n
<1>3. PICK f \in [0 .. n -> S] : Trail(f, n, << >>, step)
  BY <1>1, <1>2, TrailExists
<1>4. \A i \in 1 .. n : f[i] = Keep(f[i - 1], seq[i], gone)
  <2>1. \A i \in 1 .. n : i - 1 \in 0 .. n
    BY <1>2
  <2> QED
    BY <1>3, <2>1 DEF step, Trail
<1> DEFINE Equation(g) == g = [i \in 0 .. n |->
                IF i = 0 THEN << >> ELSE Keep(g[i - 1], seq[i], gone)]
           after == CHOOSE g : Equation(g)
<1>5. Equation(f)
  BY <1>3, <1>4 DEF Trail
<1>6. Equation(after)
  <2> HIDE DEF Equation
  <2> QED
    BY <1>5
<1> DEFINE T == {i \in 0 .. n : after[i] = f[i]}
<1>7. Without(seq, gone) = after[n]
  BY DEF Without, Through, Keep, n
<1> HIDE DEF after
<1>8. 0 \in T
  BY <1>2, <1>3, <1>6 DEF Trail
<1>9. ASSUME NEW i \in 0 .. n, i \in T, i < n
      PROVE  i + 1 \in T
  <2>1. i + 1 \in 1 .. n /\ i + 1 \in 0 .. n
    BY <1>2, <1>9
  <2>2. after[i + 1] = Keep(after[i], seq[i + 1], gone)
    BY <1>6, <2>1
  <2>3. f[i + 1] = Keep(f[i], seq[i + 1], gone)
    BY <1>4, <2>1
  <2> QED
    BY <1>9, <2>1, <2>2, <2>3
<1> HIDE DEF T
<1>10. \A i \in 0 .. n : i \in T
  BY <1>2, <1>8, <1>9, KeptThroughout
<1>11. n \in T
  BY <1>2, <1>10
<1> QED
  BY <1>3, <1>4, <1>7, <1>11 DEF T, n, Trail, WithoutTrail

\* One element stands before another in a sequence.
InOrder(a, b, q) == \E i, j \in DOMAIN q : i < j /\ q[i] = a /\ q[j] = b

LEMMA AppendOrders ==
    ASSUME NEW S, NEW q \in Seq(S), NEW x \in S
    PROVE  /\ Append(q, x) \in Seq(S)
           /\ \A a : a \in Range(Append(q, x)) <=> a \in Range(q) \/ a = x
           /\ \A a, b : InOrder(a, b, Append(q, x)) <=>
                 InOrder(a, b, q) \/ (a \in Range(q) /\ b = x)
<1> DEFINE r == Append(q, x)
           n == Len(q)
<1>1. /\ r \in Seq(S) /\ n \in Nat
      /\ DOMAIN q = 1 .. n /\ DOMAIN r = 1 .. n + 1
      /\ \A i \in 1 .. n : r[i] = q[i]
      /\ r[n + 1] = x
  OBVIOUS
<1> HIDE DEF r, n
<1>2. \A a : a \in Range(r) <=> a \in Range(q) \/ a = x
  <2>1. \A a : a \in Range(r) <=> \E i \in 1 .. n + 1 : r[i] = a
    BY <1>1 DEF Range
  <2>2. \A a : a \in Range(q) <=> \E i \in 1 .. n : q[i] = a
    BY <1>1 DEF Range
  <2>3. \A i : i \in 1 .. n + 1 <=> i \in 1 .. n \/ i = n + 1
    BY <1>1
  <2> QED
    BY <1>1, <2>1, <2>2, <2>3
<1>3. ASSUME NEW a, NEW b
      PROVE  InOrder(a, b, r) <=> InOrder(a, b, q) \/ (a \in Range(q) /\ b = x)
  <2>1. ASSUME NEW i \in 1 .. n + 1, NEW j \in 1 .. n + 1, i < j,
               r[i] = a, r[j] = b
        PROVE  InOrder(a, b, q) \/ (a \in Range(q) /\ b = x)
    <3>1. i \in 1 .. n /\ q[i] = a
      BY <1>1, <2>1
    <3>2. CASE j = n + 1
      BY <1>1, <2>1, <3>1, <3>2 DEF Range
    <3>3. CASE j # n + 1
      <4>1. j \in 1 .. n /\ q[j] = b
        BY <1>1, <2>1, <3>3
      <4> QED
        BY <1>1, <2>1, <3>1, <4>1 DEF InOrder
    <3> QED
      BY <3>2, <3>3
  <2>2. ASSUME InOrder(a, b, q)
        PROVE  InOrder(a, b, r)
    <3>1. PICK i, j \in 1 .. n : i < j /\ q[i] = a /\ q[j] = b
      BY <1>1, <2>2 DEF InOrder
    <3>2. i \in 1 .. n + 1 /\ j \in 1 .. n + 1 /\ r[i] = a /\ r[j] = b
      BY <1>1, <3>1
    <3> QED
      BY <1>1, <3>1, <3>2 DEF InOrder
  <2>3. ASSUME a \in Range(q), b = x
        PROVE  InOrder(a, b, r)
    <3>1. PICK i \in 1 .. n : q[i] = a
      BY <1>1, <2>3 DEF Range
    <3>2. i \in 1 .. n + 1 /\ n + 1 \in 1 .. n + 1 /\ i < n + 1 /\ r[i] = a
      BY <1>1, <3>1
    <3> QED
      BY <1>1, <2>3, <3>2 DEF InOrder
  <2>4. InOrder(a, b, r) => \E i, j \in 1 .. n + 1 : i < j /\ r[i] = a /\ r[j] = b
    BY <1>1 DEF InOrder
  <2> QED
    BY <2>1, <2>2, <2>3, <2>4
<1> QED
  BY <1>1, <1>2, <1>3 DEF r

\* What is left out is gone, and the rest stands in the order it stood in.
LEMMA WithoutKeepsOrder ==
    ASSUME NEW S, NEW seq \in Seq(S), NEW gone
    PROVE  /\ Without(seq, gone) \in Seq(S)
           /\ Range(Without(seq, gone)) = Range(seq) \ gone
           /\ \A a, b : InOrder(a, b, Without(seq, gone)) <=>
                 InOrder(a, b, seq) /\ a \notin gone /\ b \notin gone
<1> DEFINE n == Len(seq)
           Good(q, k) ==
              /\ \A a : a \in Range(q) <=> a \notin gone /\ \E i \in 1 .. k : seq[i] = a
              /\ \A a, b : InOrder(a, b, q) <=>
                    /\ a \notin gone /\ b \notin gone
                    /\ \E i, j \in 1 .. k : i < j /\ seq[i] = a /\ seq[j] = b
<1>1. n \in Nat /\ DOMAIN seq = 1 .. n /\ << >> \in Seq(S) /\ \A i \in 1 .. n : seq[i] \in S
  OBVIOUS
<1>2. \A q \in Seq(S), i \in 1 .. n : Keep(q, seq[i], gone) \in Seq(S)
  BY <1>1, AppendOrders DEF Keep
<1>3. PICK f \in [0 .. n -> Seq(S)] : WithoutTrail(f, seq, gone)
  <2> DEFINE SS == Seq(S)
  <2> HIDE DEF SS
  <2>1. \E f \in [0 .. n -> SS] : WithoutTrail(f, seq, gone)
    BY <1>1, <1>2, WithoutStepwise DEF SS
  <2> QED
    BY <2>1 DEF SS
<1> USE DEF WithoutTrail
<1> DEFINE T == {k \in 0 .. n : Good(f[k], k)}
<1>4. 0 \in T
  <2>1. DOMAIN f[0] = {} /\ 1 .. 0 = {}
    BY <1>3
  <2> QED
    BY <1>1, <2>1 DEF Range, InOrder
<1>5. ASSUME NEW k \in 0 .. n, k \in T, k < n
      PROVE  k + 1 \in T
  <2> DEFINE x == seq[k + 1]
  <2>1. /\ k + 1 \in 1 .. n /\ k + 1 \in 0 .. n /\ f[k] \in Seq(S) /\ x \in S
        /\ f[k + 1] = Keep(f[k], x, gone)
    <3> HIDE DEF T
    <3>1. k + 1 \in 1 .. n /\ k + 1 \in 0 .. n /\ (k + 1) - 1 = k
      BY <1>1, <1>5
    <3>2. f[k + 1] = Keep(f[k], x, gone)
      BY <1>3, <3>1
    <3>3. f[k] \in Seq(S) /\ x \in S
      BY <1>1, <3>1
    <3> QED
      BY <3>1, <3>2, <3>3
  <2>2. \A i : i \in 1 .. k + 1 <=> i \in 1 .. k \/ i = k + 1
    BY <1>1
  <2>3. \A a : (\E i \in 1 .. k + 1 : seq[i] = a) <=> (\E i \in 1 .. k : seq[i] = a) \/ a = x
    BY <2>2
  <2>4. \A a, b : (\E i, j \in 1 .. k + 1 : i < j /\ seq[i] = a /\ seq[j] = b) <=>
                     \/ \E i, j \in 1 .. k : i < j /\ seq[i] = a /\ seq[j] = b
                     \/ (\E i \in 1 .. k : seq[i] = a) /\ b = x
    <3>1. \A i \in 1 .. k : i < k + 1 /\ ~(k + 1 < i)
      BY <1>1
    <3>2. ~(k + 1 < k + 1)
      BY <1>1
    <3> QED
      BY <2>2, <3>1, <3>2
  <2> HIDE DEF x
  <2>5. Good(f[k], k)
    BY <1>5
  <2>6. CASE x \in gone
    <3>1. f[k + 1] = f[k]
      BY <2>1, <2>6 DEF Keep
    <3>2. Good(f[k], k + 1)
      BY <2>3, <2>4, <2>5, <2>6
    <3> QED
      BY <2>1, <3>1, <3>2
  <2>7. CASE x \notin gone
    <3> DEFINE q == f[k]
    <3>1. f[k + 1] = Append(q, x)
      BY <2>1, <2>7 DEF Keep
    <3> HIDE DEF q
    <3>2. /\ \A a : a \in Range(Append(q, x)) <=> a \in Range(q) \/ a = x
          /\ \A a, b : InOrder(a, b, Append(q, x)) <=>
                InOrder(a, b, q) \/ (a \in Range(q) /\ b = x)
      BY <2>1, AppendOrders DEF q
    <3>3. Good(q, k)
      BY <2>5 DEF q
    <3>4. \A a : a \in Range(Append(q, x)) <=>
              a \notin gone /\ \E i \in 1 .. k + 1 : seq[i] = a
      <4> HIDE DEF x
      <4> QED
        BY <2>3, <2>7, <3>2, <3>3
    <3>5. ASSUME NEW a, NEW b
          PROVE  InOrder(a, b, Append(q, x)) <=>
                    /\ a \notin gone /\ b \notin gone
                    /\ \E i, j \in 1 .. k + 1 : i < j /\ seq[i] = a /\ seq[j] = b
      <4> DEFINE Pair(m) == \E i, j \in 1 .. m : i < j /\ seq[i] = a /\ seq[j] = b
                 Seen == \E i \in 1 .. k : seq[i] = a
      <4>1. Pair(k + 1) <=> Pair(k) \/ (Seen /\ b = x)
        BY <2>4
      <4>2. a \in Range(q) <=> a \notin gone /\ Seen
        BY <3>3
      <4>3. InOrder(a, b, q) <=> a \notin gone /\ b \notin gone /\ Pair(k)
        BY <3>3
      <4> HIDE DEF Pair, Seen
      <4>4. InOrder(a, b, Append(q, x)) <=> a \notin gone /\ b \notin gone /\ Pair(k + 1)
        BY <2>7, <3>2, <4>1, <4>2, <4>3
      <4> QED
        BY <4>4 DEF Pair
    <3>6. Good(f[k + 1], k + 1)
      BY <3>1, <3>4, <3>5 DEF q
    <3> QED
      BY <2>1, <3>6
  <2> QED
    BY <2>6, <2>7
<1> HIDE DEF T
<1>6. \A k \in 0 .. n : k \in T
  BY <1>1, <1>4, <1>5, KeptThroughout
<1>7. Good(f[n], n)
  <2> HIDE DEF n
  <2>1. n \in T
    BY <1>1, <1>6
  <2> QED
    BY <2>1 DEF T
<1>8. f[n] \in Seq(S)
  BY <1>1, <1>3
<1>9. \A a : a \in Range(seq) <=> \E i \in 1 .. n : seq[i] = a
  BY <1>1 DEF Range
<1>10. \A a, b : InOrder(a, b, seq) <=> \E i, j \in 1 .. n : i < j /\ seq[i] = a /\ seq[j] = b
  BY <1>1 DEF InOrder
<1>11. Range(f[n]) = Range(seq) \ gone
  BY <1>7, <1>9
<1>12. \A a, b : InOrder(a, b, f[n]) <=> InOrder(a, b, seq) /\ a \notin gone /\ b \notin gone
  BY <1>7, <1>10
<1> QED
  BY <1>3, <1>8, <1>11, <1>12

\* Any order of a finite set's elements goes over all of them.
LEMMA RowsOfASet ==
    ASSUME NEW X, IsFiniteSet(X), NEW rows \in SetToSeqs(X)
    PROVE  /\ Len(rows) \in Nat
           /\ \A i \in 1 .. Len(rows) : rows[i] \in X
           /\ \A x \in X : \E i \in 1 .. Len(rows) : rows[i] = x
<1> DEFINE n == Cardinality(X)
<1>1. n \in Nat
  BY FS_CardinalityType
<1>2. rows \in [1 .. n -> X] /\ \A i, j \in 1 .. n : rows[i] = rows[j] => i = j
  BY DEF SetToSeqs
<1> HIDE DEF n
<1>3. Len(rows) = n
  BY <1>1, <1>2
<1> DEFINE Y == {rows[i] : i \in 1 .. n}
<1>4. IsFiniteSet(1 .. n) /\ Cardinality(1 .. n) = n
  BY <1>1, FS_Interval
<1>5. rows \in Bijection(1 .. n, Y)
  BY <1>2 DEF Bijection, Injection, Surjection, IsInjective
<1>6. IsFiniteSet(Y) /\ Cardinality(Y) = n
  <2> HIDE DEF Y
  <2>1. ExistsBijection(1 .. n, Y)
    BY <1>5 DEF ExistsBijection
  <2> QED
    BY <1>4, <2>1, FS_Bijection
<1>7. Y \subseteq X
  BY <1>2
<1>8. Y = X
  BY <1>6, <1>7, FS_Subset DEF n
<1> QED
  BY <1>1, <1>2, <1>3, <1>8

-----------------------------------------------------------------------------
(* Slugs *)

\* The strengthening: a suffixed slug only ever holds the name it is made of.
OwnSuffix == \A s \in Documents : s.of \in {Bare, nameOf[s]}

NamesOK ==
    /\ nameOf \in [Slug -> Name \cup {None}]
    /\ NamesUnique(nameOf)
    /\ OwnSuffix

\* What a name may be resolved to.
Fitting(n) == {s \in Slug : s.of \in {Bare, n}}

LEMMA SlugForms ==
    ASSUME NEW n \in Name
    PROVE  /\ BareSlug(n) \in Fitting(n) /\ Suffixed(n) \in Fitting(n)
           /\ n # None
BY CatalogueAssumption DEF BareSlug, Suffixed, Slug, Fitting, None

LEMMA StoredSlug ==
    ASSUME NamesOK, NEW n, Stored(n), n # None
    PROVE  /\ SlugFor(n) \in Fitting(n)
           /\ SlugFor(n) \in Documents
           /\ nameOf[SlugFor(n)] = n
<1>1. SlugFor(n) \in Slug /\ nameOf[SlugFor(n)] = n
  BY DEF Stored, SlugFor
<1> QED
  BY <1>1 DEF Documents, Fitting, NamesOK, OwnSuffix

\* A suffixed slug is free for a name that is not stored.
LEMMA SuffixIsFree ==
    ASSUME NamesOK, NEW n \in Name, ~Stored(n)
    PROVE  Suffixed(n) \notin Documents
<1>1. Suffixed(n) \in Slug /\ Suffixed(n).of = n /\ n # Bare
  BY CatalogueAssumption DEF Suffixed, Slug, Bare, None
<1> QED
  BY <1>1 DEF NamesOK, OwnSuffix, Documents, Stored

\* What resolving must give of each name, stored and new.
Resolved(n, s) ==
    /\ s \in Fitting(n)
    /\ IF Stored(n) THEN s = SlugFor(n)
       ELSE s \notin Documents /\ s \in {BareSlug(n), Suffixed(n)}

\* Resolved slugs are good as soon as no two new names take one bare slug.
LEMMA ResolvedAreGood ==
    ASSUME NamesOK, NEW names \in SUBSET Name, NEW slugs, DOMAIN slugs = names,
           \A n \in names : Resolved(n, slugs[n]),
           \A m, n \in names : /\ m # n /\ ~Stored(m) /\ ~Stored(n)
                               /\ BaseOf[m] = BaseOf[n]
                => slugs[m] # BareSlug(m) \/ slugs[n] # BareSlug(n)
    PROVE  SlugsAreGood(slugs)
<1>1. ASSUME NEW m \in names, NEW n \in names, slugs[m] = slugs[n]
      PROVE  m = n
  <2>1. m # None /\ n # None
    BY SlugForms
  <2>2. CASE Stored(m) /\ Stored(n)
    BY <1>1, <2>1, <2>2, StoredSlug DEF Resolved
  <2>3. CASE Stored(m) /\ ~Stored(n)
    BY <1>1, <2>1, <2>3, StoredSlug DEF Resolved
  <2>4. CASE ~Stored(m) /\ Stored(n)
    BY <1>1, <2>1, <2>4, StoredSlug DEF Resolved
  <2>5. CASE ~Stored(m) /\ ~Stored(n)
    <3>1. /\ slugs[m] \in {BareSlug(m), Suffixed(m)}
          /\ slugs[n] \in {BareSlug(n), Suffixed(n)}
      BY <2>5 DEF Resolved
    <3>2. /\ BareSlug(m) = BareSlug(n) => BaseOf[m] = BaseOf[n]
          /\ Suffixed(m) = Suffixed(n) => m = n
          /\ BareSlug(m) # Suffixed(n) /\ Suffixed(m) # BareSlug(n)
      BY <2>1 DEF BareSlug, Suffixed, Bare, None
    <3> QED
      BY <1>1, <2>5, <3>1, <3>2
  <2> QED
    BY <2>2, <2>3, <2>4, <2>5
<1>2. ASSUME NEW n \in names
      PROVE  IF Stored(n) THEN slugs[n] = SlugFor(n) ELSE slugs[n] \notin Documents
  BY DEF Resolved
<1> QED
  BY <1>1, <1>2 DEF SlugsAreGood

LEMMA ReconcileResolves ==
    ASSUME NamesOK, NEW names \in SUBSET Name
    PROVE  /\ DOMAIN ReconcileSlugs(names) = names
           /\ \A n \in names : Resolved(n, ReconcileSlugs(names)[n])
           /\ SlugsAreGood(ReconcileSlugs(names))
<1> DEFINE fresh == {n \in names : ~Stored(n)}
           slugs == ReconcileSlugs(names)
<1>1. DOMAIN slugs = names
  BY DEF ReconcileSlugs
<1>2. ASSUME NEW n \in names, Stored(n)
      PROVE  slugs[n] = SlugFor(n)
  BY <1>2 DEF ReconcileSlugs
<1>3. ASSUME NEW n \in names, ~Stored(n)
      PROVE  /\ slugs[n] \in {BareSlug(n), Suffixed(n)}
             /\ slugs[n] = BareSlug(n) /\ BareSlug(n) # Suffixed(n) =>
                   /\ BareSlug(n) \notin Documents
                   /\ \A m \in fresh : BaseOf[m] = BaseOf[n] => m = n
  BY <1>3 DEF ReconcileSlugs, AssignSlugs
<1>4. \A n \in names : n # None /\ BareSlug(n) # Suffixed(n)
  BY SlugForms DEF BareSlug, Suffixed, Bare, None
<1> HIDE DEF slugs
<1>5. \A n \in names : Resolved(n, slugs[n])
  BY <1>2, <1>3, <1>4, StoredSlug, SlugForms, SuffixIsFree DEF Resolved
<1>6. \A m, n \in names : /\ m # n /\ ~Stored(m) /\ ~Stored(n)
                          /\ BaseOf[m] = BaseOf[n]
         => slugs[m] # BareSlug(m) \/ slugs[n] # BareSlug(n)
  BY <1>3, <1>4
<1>7. SlugsAreGood(slugs)
  BY <1>1, <1>5, <1>6, ResolvedAreGood
<1> QED
  BY <1>1, <1>5, <1>7 DEF slugs

LEMMA AllocateResolves ==
    ASSUME NamesOK, NEW name \in Name, NEW cited \in SUBSET Name
    PROVE  /\ DOMAIN AllocateSlugs(name, cited) = cited \cup {name}
           /\ \A n \in cited \cup {name} : Resolved(n, AllocateSlugs(name, cited)[n])
           /\ SlugsAreGood(AllocateSlugs(name, cited))
<1> DEFINE names == cited \cup {name}
           Before(m, n) == n # name /\ (m = name \/ m < n)
           slugs == AllocateSlugs(name, cited)
<1>1. DOMAIN slugs = names
  BY DEF AllocateSlugs
<1>2. ASSUME NEW n \in names, Stored(n)
      PROVE  slugs[n] = SlugFor(n)
  BY <1>2 DEF AllocateSlugs
<1>3. ASSUME NEW n \in names, ~Stored(n)
      PROVE  /\ slugs[n] \in {BareSlug(n), Suffixed(n)}
             /\ slugs[n] = BareSlug(n) /\ BareSlug(n) # Suffixed(n) =>
                   /\ BareSlug(n) \notin Documents
                   /\ \A m \in names :
                         Before(m, n) /\ ~Stored(m) => BaseOf[m] # BaseOf[n]
  BY <1>3 DEF AllocateSlugs
<1>4. \A n \in names : n # None /\ BareSlug(n) # Suffixed(n)
  BY SlugForms DEF BareSlug, Suffixed, Bare, None
<1>5. \A m, n \in names : m # n => Before(m, n) \/ Before(n, m)
  BY CatalogueAssumption
<1> HIDE DEF slugs, names, Before
<1>6. names \in SUBSET Name
  BY DEF names
<1>7. \A n \in names : Resolved(n, slugs[n])
  BY <1>2, <1>3, <1>4, <1>6, StoredSlug, SlugForms, SuffixIsFree DEF Resolved
<1>8. \A m, n \in names : /\ m # n /\ ~Stored(m) /\ ~Stored(n)
                          /\ BaseOf[m] = BaseOf[n]
         => slugs[m] # BareSlug(m) \/ slugs[n] # BareSlug(n)
  BY <1>3, <1>4, <1>5
<1>9. SlugsAreGood(slugs)
  BY <1>1, <1>6, <1>7, <1>8, ResolvedAreGood
<1> QED
  BY <1>1, <1>7, <1>9 DEF slugs, names

-----------------------------------------------------------------------------
(* Requests between their transactions *)

Resolves(names, slugs) ==
    /\ \A n \in names : slugs[n] \in Fitting(n)
    /\ \A m, n \in names : slugs[m] = slugs[n] => m = n

\* What each kind of request carries from its reads to its write.
Carries(r) ==
    /\ r.kind = "manifest" => /\ r.what \in Manifest
                              /\ Resolves(AllNames(r.what), r.slugs)
    /\ r.kind = "document" => /\ r.what \in Pdf
                              /\ Resolves(Cited(r.what) \cup {r.what.name}, r.slugs)
    /\ r.kind = "create" => /\ r.what \in Name
                            /\ Resolves({r.what}, r.slugs)

PendingOK == \A r \in pending : Carries(r)

\* What a request names.
LEMMA NamesOfFiles ==
    /\ \A rows \in Manifest : /\ AllNames(rows) \subseteq Name
                              /\ CorpusNames(rows) \subseteq AllNames(rows)
    /\ \A pdf \in Pdf : /\ pdf.name \in Name
                        /\ Cited(pdf) \subseteq Name
<1>1. ASSUME NEW rows \in Manifest
      PROVE  AllNames(rows) \subseteq Name /\ CorpusNames(rows) \subseteq AllNames(rows)
  <2>1. rows \subseteq Row
    BY CatalogueAssumption
  <2> QED
    BY <2>1 DEF AllNames, CorpusNames, Row
<1>2. ASSUME NEW pdf \in Pdf
      PROVE  pdf.name \in Name /\ Cited(pdf) \subseteq Name
  <2>1. pdf \in Issuance
    BY CatalogueAssumption
  <2> QED
    BY <2>1 DEF Cited, Issuance
<1> QED
  BY <1>1, <1>2

LEMMA RequestFields ==
    ASSUME NEW kind, NEW what, NEW slugs
    PROVE  /\ Request(kind, what, slugs).kind = kind
           /\ Request(kind, what, slugs).what = what
           /\ Request(kind, what, slugs).slugs = slugs
BY DEF Request

\* A request that enters carries what its reads resolved, and nothing it was
\* handed is in use by another name.
LEMMA EntersResolved ==
    ASSUME NamesOK, [Next]_vars
    PROVE  \A r \in pending' \ pending : Carries(r) /\ SlugsAreGood(r.slugs)
<1>1. ASSUME NEW rows \in Manifest, ResolveManifest(rows)
      PROVE  \A r \in pending' \ pending : Carries(r) /\ SlugsAreGood(r.slugs)
  <2> DEFINE slugs == ReconcileSlugs(AllNames(rows))
             r == Request("manifest", rows, slugs)
  <2>1. pending' = pending \cup {r}
    BY <1>1 DEF ResolveManifest
  <2>2. /\ SlugsAreGood(slugs) /\ DOMAIN slugs = AllNames(rows)
        /\ \A n \in AllNames(rows) : Resolved(n, slugs[n])
    BY NamesOfFiles, ReconcileResolves
  <2>3. r.kind = "manifest" /\ r.what = rows /\ r.slugs = slugs
    BY RequestFields
  <2> HIDE DEF r, slugs
  <2>4. Carries(r)
    BY <2>2, <2>3 DEF Carries, Resolves, Resolved, SlugsAreGood
  <2> QED
    BY <2>1, <2>2, <2>3, <2>4
<1>2. ASSUME NEW pdf \in Pdf, ResolveDocument(pdf)
      PROVE  \A r \in pending' \ pending : Carries(r) /\ SlugsAreGood(r.slugs)
  <2> DEFINE slugs == AllocateSlugs(pdf.name, Cited(pdf))
             r == Request("document", pdf, slugs)
  <2>1. pending' = pending \cup {r}
    BY <1>2 DEF ResolveDocument
  <2>2. /\ SlugsAreGood(slugs) /\ DOMAIN slugs = Cited(pdf) \cup {pdf.name}
        /\ \A n \in Cited(pdf) \cup {pdf.name} : Resolved(n, slugs[n])
    BY NamesOfFiles, AllocateResolves
  <2>3. r.kind = "document" /\ r.what = pdf /\ r.slugs = slugs
    BY RequestFields
  <2> HIDE DEF r, slugs
  <2>4. Carries(r)
    BY <2>2, <2>3 DEF Carries, Resolves, Resolved, SlugsAreGood
  <2> QED
    BY <2>1, <2>2, <2>3, <2>4
<1>3. ASSUME NEW n \in HandMade, CheckName(n)
      PROVE  \A r \in pending' \ pending : Carries(r) /\ SlugsAreGood(r.slugs)
  <2> DEFINE slugs == AllocateSlugs(n, {})
             r == Request("create", n, slugs)
  <2>1. pending' = pending \cup {r}
    BY <1>3 DEF CheckName
  <2>2. n \in Name
    BY CatalogueAssumption
  <2>3. SlugsAreGood(slugs) /\ \A m \in {} \cup {n} : Resolved(m, slugs[m])
    BY <2>2, AllocateResolves
  <2>4. r.kind = "create" /\ r.what = n /\ r.slugs = slugs
    BY RequestFields
  <2> HIDE DEF r, slugs
  <2>5. Carries(r)
    BY <2>2, <2>3, <2>4 DEF Carries, Resolves, Resolved, SlugsAreGood
  <2> QED
    BY <2>1, <2>3, <2>4, <2>5
<1>4. ASSUME pending' \subseteq pending \cup {Request("replay", {}, << >>)}
      PROVE  \A r \in pending' \ pending : Carries(r) /\ SlugsAreGood(r.slugs)
  <2> DEFINE r == Request("replay", {}, << >>)
  <2>1. r.kind = "replay" /\ r.slugs = << >>
    BY RequestFields
  <2>2. DOMAIN << >> = {}
    OBVIOUS
  <2> HIDE DEF r
  <2>3. Carries(r)
    BY <2>1 DEF Carries
  <2>4. SlugsAreGood(r.slugs)
    BY <2>1, <2>2 DEF SlugsAreGood
  <2> QED
    BY <1>4, <2>3, <2>4 DEF r
<1>5. ASSUME NEW r \in pending, Continue(r)
      PROVE  pending' \subseteq pending \cup {Request("replay", {}, << >>)}
  BY <1>5 DEF Continue, WriteManifest, WriteDocument, CreateDocument, Replay, Abandon
<1>6. CASE \/ \E s \in Slug : DeleteDocument(s)
           \/ \E pair \in Links : Relate(pair)
           \/ \E pair \in Rulings : RecordMerge(pair) \/ RecordDifferent(pair)
           \/ Reset
           \/ UNCHANGED vars
  <2>1. pending' \subseteq pending \cup {Request("replay", {}, << >>)}
    BY <1>6 DEF DeleteDocument, Relate, AddReference, RemoveReference, RecordMerge,
                RecordDifferent, Reset, vars
  <2> QED
    BY <1>4, <2>1
<1> QED
  BY <1>1, <1>2, <1>3, <1>4, <1>5, <1>6 DEF Next

LEMMA PendingStep ==
    ASSUME NamesOK, PendingOK, [Next]_vars
    PROVE  PendingOK'
<1>1. \A r \in pending' : Carries(r)
  BY EntersResolved DEF PendingOK
<1> QED
  BY <1>1 DEF PendingOK, Carries, Resolves

-----------------------------------------------------------------------------
(* Names and labels *)

\* A naming of slugs that keeps NamesOK, whichever slugs it writes.
Fits(naming, names, slugs) ==
    /\ naming \in [Slug -> Name \cup {None}]
    /\ \A s \in Slug : naming[s] # None <=>
          s \in Documents \/ \E n \in names : slugs[n] = s
    /\ \A s \in Slug : naming[s] # None => s.of \in {Bare, naming[s]}

LEMMA NamedFits ==
    ASSUME NamesOK, NEW names, names \subseteq Name, NEW slugs,
           Resolves(names, slugs)
    PROVE  Fits(Named(names, slugs), names, slugs)
<1>1. None \notin Name
  BY CatalogueAssumption
<1>2. ASSUME NEW s \in Slug, \E n \in names : slugs[n] = s
      PROVE  /\ Named(names, slugs)[s] \in names
             /\ slugs[Named(names, slugs)[s]] = s
  BY <1>2 DEF Named
<1>3. ASSUME NEW s \in Slug, ~\E n \in names : slugs[n] = s
      PROVE  Named(names, slugs)[s] = nameOf[s]
  BY <1>3 DEF Named
<1>4. Named(names, slugs) = [s \in Slug |-> Named(names, slugs)[s]]
  BY DEF Named
<1> DEFINE naming == Named(names, slugs)
<1> HIDE DEF naming
<1>5. \A s \in Slug : naming[s] \in Name \cup {None}
  BY <1>2, <1>3 DEF naming, NamesOK
<1>6. \A s \in Slug : naming[s] # None <=>
                 s \in Documents \/ \E n \in names : slugs[n] = s
  BY <1>1, <1>2, <1>3 DEF naming, Documents
<1>7. \A s \in Slug : naming[s] # None => s.of \in {Bare, naming[s]}
  <2> SUFFICES ASSUME NEW s \in Slug, naming[s] # None
               PROVE  s.of \in {Bare, naming[s]}
    OBVIOUS
  <2>1. CASE \E n \in names : slugs[n] = s
    <3>1. naming[s] \in names /\ slugs[naming[s]] = s
      BY <1>2, <2>1 DEF naming
    <3>2. s \in Fitting(naming[s])
      BY <3>1 DEF Resolves
    <3> QED
      BY <3>2 DEF Fitting
  <2>2. CASE ~\E n \in names : slugs[n] = s
    <3>1. naming[s] = nameOf[s]
      BY <1>3, <2>2 DEF naming
    <3> QED
      BY <3>1 DEF NamesOK, OwnSuffix, Documents
  <2> QED
    BY <2>1, <2>2
<1> QED
  BY <1>4, <1>5, <1>6, <1>7 DEF naming, Fits

\* Looking only at the documents a step touches is enough: those it stores are
\* among them, and so are those it describes.
LEMMA RefreshIsEnough ==
    ASSUME ExternalIsUndescribed, NEW touched,
           Documents' = Documents \cup touched,
           described \subseteq described', described' \subseteq described \cup touched,
           RefreshExternal(touched)
    PROVE  ExternalIsUndescribed'
BY DEF ExternalIsUndescribed, RefreshExternal

LEMMA DetachedFits ==
    ASSUME NamesOK, ExternalIsUndescribed, NEW gone, Detached(gone)
    PROVE  NamesOK' /\ ExternalIsUndescribed'
<1>1. nameOf' = [s \in Slug |-> IF s \in gone THEN None ELSE nameOf[s]]
  BY DEF Detached
<1>2. Documents' = Documents \ gone
  BY <1>1 DEF Documents
<1>3. NamesOK'
  BY <1>1, <1>2 DEF NamesOK, NamesUnique, OwnSuffix, Documents
<1>4. ExternalIsUndescribed'
  BY <1>2 DEF ExternalIsUndescribed, Detached
<1> QED
  BY <1>3, <1>4

\* What each write makes of the documents.
LEMMA WritesManifest ==
    ASSUME NamesOK, PendingOK, NEW r \in pending, WriteManifest(r)
    PROVE  /\ NamesOK'
           /\ r.what \in Manifest /\ Resolves(AllNames(r.what), r.slugs)
           /\ Documents' = Documents \cup {r.slugs[n] : n \in AllNames(r.what)}
<1> DEFINE names == AllNames(r.what)
           slugs == r.slugs
           touched == {slugs[n] : n \in names}
<1>1. r.what \in Manifest /\ Resolves(names, slugs)
  BY DEF PendingOK, Carries, WriteManifest
<1>2. names \subseteq Name /\ CorpusNames(r.what) \subseteq names
  BY <1>1, NamesOfFiles
<1>3. /\ nameOf' = Named(names, slugs)
      /\ NamesUnique(nameOf')
  BY DEF WriteManifest
<1>4. \A n \in names : slugs[n] \in Slug
  BY <1>1 DEF Resolves, Fitting
<1> HIDE DEF names, slugs
<1>5. Fits(nameOf', names, slugs)
  BY <1>1, <1>2, <1>3, NamedFits
<1>6. Documents' = Documents \cup touched
  BY <1>4, <1>5 DEF Documents, Fits
<1>7. NamesOK'
  BY <1>3, <1>5 DEF Fits, NamesOK, NamesUnique, OwnSuffix, Documents
<1> QED
  BY <1>1, <1>6, <1>7 DEF names, slugs

LEMMA WritesDocument ==
    ASSUME NamesOK, PendingOK, NEW r \in pending, WriteDocument(r)
    PROVE  /\ NamesOK'
           /\ r.what \in Pdf
           /\ Resolves(Cited(r.what) \cup {r.what.name}, r.slugs)
           /\ Documents' = Documents \cup ({r.slugs[r.what.name]}
                                           \cup {r.slugs[n] : n \in Cited(r.what)})
<1> DEFINE pdf == r.what
           slug == r.slugs[pdf.name]
           fresh == {n \in Cited(pdf) : r.slugs[n] \notin Documents}
           cited == {r.slugs[n] : n \in Cited(pdf)}
           naming == Named(fresh, r.slugs)
<1>1. pdf \in Pdf /\ Resolves(Cited(pdf) \cup {pdf.name}, r.slugs)
  BY DEF PendingOK, Carries, WriteDocument
<1>2. /\ pdf.name \in Name
      /\ fresh \subseteq Name
      /\ Resolves(fresh, r.slugs)
      /\ slug \in Fitting(pdf.name)
      /\ \A n \in Cited(pdf) : r.slugs[n] \in Slug
  BY <1>1, NamesOfFiles DEF Resolves, Fitting
<1>3. /\ nameOf' = [naming EXCEPT ![slug] = pdf.name]
      /\ NamesUnique(nameOf')
  BY DEF WriteDocument, NamedIfNew
<1>4. Fits(naming, fresh, r.slugs)
  <2> HIDE DEF fresh
  <2> QED
    BY <1>2, NamedFits
<1>5. slug \in Slug /\ slug.of \in {Bare, pdf.name} /\ pdf.name # None
  BY <1>2, CatalogueAssumption DEF Fitting
<1>6. \A s \in Slug : (s \in Documents \/ \E n \in fresh : r.slugs[n] = s)
                         <=> (s \in Documents \/ s \in cited)
  OBVIOUS
<1>7. cited \subseteq Slug
  BY <1>2
<1> HIDE DEF naming, slug, pdf, cited, fresh
<1>8. /\ nameOf' \in [Slug -> Name \cup {None}]
      /\ \A s \in Slug : nameOf'[s] # None => s.of \in {Bare, nameOf'[s]}
      /\ \A s \in Slug : nameOf'[s] # None <=>
            s \in Documents \/ s \in cited \/ s = slug
  BY <1>2, <1>3, <1>4, <1>5, <1>6 DEF Fits
<1>9. Documents' = Documents \cup ({slug} \cup cited)
  BY <1>5, <1>7, <1>8 DEF Documents
<1>10. NamesOK'
  BY <1>3, <1>8 DEF NamesOK, NamesUnique, OwnSuffix, Documents
<1> QED
  BY <1>1, <1>5, <1>9, <1>10 DEF slug, cited, pdf

LEMMA CreatesDocument ==
    ASSUME NamesOK, PendingOK, NEW r \in pending, CreateDocument(r)
    PROVE  /\ NamesOK'
           /\ Documents' = Documents \cup {r.slugs[r.what]}
<1> DEFINE slug == r.slugs[r.what]
<1>1. r.what \in Name /\ slug \in Fitting(r.what)
  BY DEF PendingOK, Carries, Resolves, CreateDocument
<1>2. /\ slug \notin Documents /\ ~Stored(r.what)
      /\ nameOf' = [nameOf EXCEPT ![slug] = r.what]
  BY DEF CreateDocument
<1>3. slug \in Slug /\ slug.of \in {Bare, r.what} /\ r.what # None
  BY <1>1, CatalogueAssumption DEF Fitting
<1> HIDE DEF slug
<1>4. Documents' = Documents \cup {slug}
  BY <1>2, <1>3 DEF Documents, NamesOK
<1>5. /\ nameOf' \in [Slug -> Name \cup {None}]
      /\ NamesUnique(nameOf')
  BY <1>1, <1>2, <1>3 DEF NamesOK, NamesUnique, Stored
<1>6. OwnSuffix'
  BY <1>2, <1>3, <1>4 DEF NamesOK, OwnSuffix, Documents
<1> QED
  BY <1>4, <1>5, <1>6 DEF NamesOK, NamesUnique, slug

Labels == NamesOK /\ PendingOK /\ ExternalIsUndescribed

LEMMA LabelsStep ==
    ASSUME Labels, [Next]_vars
    PROVE  Labels'
<1> USE DEF Labels
<1>0. PendingOK'
  BY PendingStep
<1>1. ASSUME UNCHANGED <<nameOf, described, external>>
      PROVE  NamesOK' /\ ExternalIsUndescribed'
  BY <1>1 DEF NamesOK, NamesUnique, OwnSuffix, Documents, ExternalIsUndescribed
<1>2. ASSUME NEW r \in pending, WriteManifest(r)
      PROVE  NamesOK' /\ ExternalIsUndescribed'
  <2>1. CorpusNames(r.what) \subseteq AllNames(r.what)
    BY <1>2, NamesOfFiles DEF PendingOK, Carries, WriteManifest
  <2> QED
    BY <1>2, <2>1, WritesManifest, RefreshIsEnough DEF WriteManifest
<1>3. ASSUME NEW r \in pending, WriteDocument(r)
      PROVE  NamesOK' /\ ExternalIsUndescribed'
  BY <1>3, WritesDocument, RefreshIsEnough DEF WriteDocument
<1>4. ASSUME NEW r \in pending, CreateDocument(r)
      PROVE  NamesOK' /\ ExternalIsUndescribed'
  BY <1>4, CreatesDocument, RefreshIsEnough DEF CreateDocument
<1>5. ASSUME NEW gone, Detached(gone)
      PROVE  NamesOK' /\ ExternalIsUndescribed'
  BY <1>5, DetachedFits
<1>6. ASSUME NEW r \in pending, Replay(r)
      PROVE  NamesOK' /\ ExternalIsUndescribed'
  BY <1>5, <1>6 DEF Replay
<1>7. CASE \/ \E rows \in Manifest : ResolveManifest(rows)
           \/ \E pdf \in Pdf : ResolveDocument(pdf)
           \/ \E n \in HandMade : CheckName(n)
           \/ \E r \in pending : Abandon(r)
           \/ \E pair \in Links : Relate(pair)
           \/ \E pair \in Rulings : RecordMerge(pair) \/ RecordDifferent(pair)
           \/ UNCHANGED vars
  <2>1. UNCHANGED <<nameOf, described, external>>
    BY <1>7 DEF ResolveManifest, ResolveDocument, CheckName, Abandon, Relate,
                AddReference, RemoveReference, RecordMerge, RecordDifferent,
                graph, vars
  <2> QED
    BY <1>0, <1>1, <2>1
<1>8. CASE (\E s \in Slug : DeleteDocument(s)) \/ Reset
  BY <1>0, <1>5, <1>8 DEF DeleteDocument, Reset
<1> QED
  BY <1>0, <1>2, <1>3, <1>4, <1>6, <1>7, <1>8 DEF Next, Continue

LEMMA LabelsInit == Init => Labels
BY DEF Init, Labels, NamesOK, NamesUnique, OwnSuffix, PendingOK, Documents,
       ExternalIsUndescribed

\* The label says exactly that no source describes the document, although every
\* statement that writes it looks only at what it touched.
THEOREM ExternalLabels == Spec => []ExternalIsUndescribed
<1>1. Labels /\ [Next]_vars => Labels'
  BY LabelsStep
<1>2. Labels => ExternalIsUndescribed
  BY DEF Labels
<1> QED
  BY LabelsInit, <1>1, <1>2, PTL DEF Spec

\* Whatever was stored, renamed or deleted before, slugs resolved against the
\* graph as it stands are each name's own.
THEOREM FreshSlugs == Spec => FreshSlugsAreGood
<1> DEFINE Enters == \A r \in pending' \ pending : SlugsAreGood(r.slugs)
<1>1. Labels /\ [Next]_vars => Labels'
  BY LabelsStep
<1>2. Labels /\ [Next]_vars => [Enters]_vars
  BY EntersResolved DEF Labels
<1>3. Spec => [][Enters]_vars
  <2> HIDE DEF Enters
  <2> QED
    BY LabelsInit, <1>1, <1>2, PTL DEF Spec
<1> QED
  BY <1>3 DEF FreshSlugsAreGood

-----------------------------------------------------------------------------
(* What the parser has reported *)

\* While a document stays, a later parse takes nothing back.
THEOREM StatusAccumulates == Spec => ReferenceStatusAccumulates
<1> DEFINE Keeps == \A s \in Slug : nameOf[s] # None /\ nameOf'[s] # None =>
                       /\ parsed[s].section = "found" => parsed'[s].section = "found"
                       /\ parsed[s].gaps \subseteq parsed'[s].gaps
           Typed == parsed = [s \in Slug |-> parsed[s]]
<1>1. ASSUME UNCHANGED parsed
      PROVE  Keeps
  BY <1>1
<1>2. ASSUME NEW gone, Detached(gone)
      PROVE  Keeps
  BY <1>2 DEF Detached
<1>3. ASSUME Typed, NEW r \in pending, WriteDocument(r)
      PROVE  Keeps
  <2> DEFINE slug == r.slugs[r.what.name]
             report == [section |-> IF r.what.section \/ parsed[slug].section = "found"
                                    THEN "found" ELSE "not_found",
                        gaps |-> parsed[slug].gaps \cup r.what.gaps]
  <2>1. parsed' = [parsed EXCEPT ![slug] = report]
    BY <1>3 DEF WriteDocument, Report
  <2>2. /\ parsed[slug].section = "found" => report.section = "found"
        /\ parsed[slug].gaps \subseteq report.gaps
    OBVIOUS
  <2> HIDE DEF slug, report
  <2>3. \A s \in Slug : parsed'[s] = IF s = slug THEN report ELSE parsed[s]
    BY <1>3, <2>1
  <2> QED
    BY <2>2, <2>3
<1>4. Typed /\ [Next]_vars => Keeps /\ Typed'
  <2> SUFFICES ASSUME Typed, [Next]_vars
               PROVE  Keeps /\ Typed'
    OBVIOUS
  <2>1. ASSUME NEW r \in pending, Continue(r)
        PROVE  Keeps /\ Typed'
    <3>1. Keeps
      BY <1>1, <1>2, <1>3, <2>1
         DEF Continue, WriteManifest, CreateDocument, Replay, Abandon, graph
    <3>2. Typed'
      BY <2>1 DEF Continue, WriteManifest, WriteDocument, Report, CreateDocument,
                  Replay, Abandon, graph, Detached
    <3> QED
      BY <3>1, <3>2
  <2>2. CASE \E s \in Slug : DeleteDocument(s)
    BY <1>2, <2>2 DEF DeleteDocument, Detached
  <2>3. CASE Reset
    BY <1>2, <2>3 DEF Reset, Detached
  <2>4. CASE \/ \E rows \in Manifest : ResolveManifest(rows)
             \/ \E pdf \in Pdf : ResolveDocument(pdf)
             \/ \E n \in HandMade : CheckName(n)
             \/ \E pair \in Links : Relate(pair)
             \/ \E pair \in Rulings : RecordMerge(pair) \/ RecordDifferent(pair)
             \/ UNCHANGED vars
    <3>1. UNCHANGED parsed
      BY <2>4 DEF ResolveManifest, ResolveDocument, CheckName, Relate, AddReference,
                  RemoveReference, RecordMerge, RecordDifferent, graph, vars
    <3> QED
      BY <1>1, <3>1
  <2> QED
    BY <2>1, <2>2, <2>3, <2>4 DEF Next
<1>5. Init => Typed
  BY DEF Init
<1>6. Spec => [][Keeps]_vars
  <2>1. Typed /\ [Next]_vars => [Keeps]_vars /\ Typed'
    BY <1>4
  <2> HIDE DEF Keeps, Typed
  <2> QED
    BY <1>5, <2>1, PTL DEF Spec
<1> QED
  BY <1>6 DEF ReferenceStatusAccumulates

-----------------------------------------------------------------------------
(* Citations *)

\* Edges between different documents of a set.
Between(D) == {e \in D \X D : e[1] # e[2]}

Cites ==
    /\ references \subseteq Between(Documents)
    /\ IsFiniteSet(rulings)
    /\ \A m \in rulings : /\ m.survivor \in Name /\ m.merged \in Name
                          /\ m.verdict \in {"same", "different"}

\* A replay matches finitely many pairs of stored documents.
LEMMA ApplicableIsStored ==
    ASSUME NamesOK, Cites
    PROVE  Applicable \subseteq Documents \X Documents /\ IsFiniteSet(Applicable)
<1> DEFINE M == {m \in rulings : /\ m.verdict = "same"
                                 /\ Stored(m.survivor) /\ Stored(m.merged)}
           f == [m \in M |-> <<SlugFor(m.survivor), SlugFor(m.merged)>>]
<1>1. Applicable = {f[m] : m \in M}
  BY DEF Applicable
<1>2. M \subseteq rulings /\ IsFiniteSet(rulings)
  BY DEF Cites
<1>3. IsFiniteSet(M)
  <2> HIDE DEF M
  <2> QED
    BY <1>2, FS_Subset
<1>4. ASSUME NEW m \in M
      PROVE  f[m] \in Documents \X Documents
  <2>1. m.survivor # None /\ m.merged # None
    BY CatalogueAssumption DEF Cites
  <2> QED
    BY <2>1, StoredSlug
<1> HIDE DEF M
<1>5. f \in [M -> Applicable] /\ \A x \in Applicable : \E m \in M : f[m] = x
  BY <1>1
<1> HIDE DEF f
<1>6. f \in Surjection(M, Applicable)
  BY <1>5 DEF Surjection
<1> QED
  BY <1>1, <1>3, <1>4, <1>6, FS_Surjection

\* Neither pass of a replay leaves the stored documents or makes one cite itself.
LEMMA PassesStayBetween ==
    ASSUME NEW D, NEW edges \in SUBSET Between(D), NEW row \in D \X D
    PROVE  /\ CitersRepointed(edges, row) \in SUBSET Between(D)
           /\ CitationsRepointed(edges, row) \in SUBSET Between(D)
<1>1. row[1] \in D /\ \A e \in edges : e[1] \in D /\ e[2] \in D /\ e[1] # e[2]
  BY DEF Between
<1>2. \A a, b \in D : a # b => <<a, b>> \in Between(D)
  BY DEF Between
<1>3. \A e \in edges : e[1] # row[1] => <<e[1], row[1]>> \in Between(D)
  BY <1>1, <1>2
<1>4. \A e \in edges : e[2] # row[1] => <<row[1], e[2]>> \in Between(D)
  BY <1>1, <1>2
<1> QED
  BY <1>3, <1>4 DEF CitersRepointed, CitationsRepointed

LEMMA ReplayStaysBetween ==
    ASSUME NEW D, NEW edges \in SUBSET Between(D), NEW X \in SUBSET (D \X D),
           IsFiniteSet(X), NEW rows \in SetToSeqs(X)
    PROVE  /\ Through(CitersRepointed, edges, rows) \in SUBSET Between(D)
           /\ Through(CitationsRepointed, Through(CitersRepointed, edges, rows), rows)
                 \in SUBSET Between(D)
<1> DEFINE S == SUBSET Between(D)
           n == Len(rows)
           moved == Through(CitersRepointed, edges, rows)
<1>1. n \in Nat /\ \A i \in 1 .. n : rows[i] \in D \X D
  BY RowsOfASet
<1>2. \A E \in S, i \in 1 .. n : /\ CitersRepointed(E, rows[i]) \in S
                                 /\ CitationsRepointed(E, rows[i]) \in S
  BY <1>1, PassesStayBetween
<1> HIDE DEF S
<1>3. edges \in S
  BY DEF S
<1>4. moved \in S
  <2>1. PICK f \in [0 .. n -> S] : CitersTrail(f, edges, rows)
    BY <1>1, <1>2, <1>3, CitersStepwise
  <2> QED
    BY <1>1, <2>1 DEF CitersTrail
<1> HIDE DEF moved
<1>5. Through(CitationsRepointed, moved, rows) \in S
  <2>1. PICK f \in [0 .. n -> S] : CitationsTrail(f, moved, rows)
    BY <1>1, <1>2, <1>4, CitationsStepwise
  <2> QED
    BY <1>1, <2>1 DEF CitationsTrail
<1> QED
  BY <1>4, <1>5 DEF moved, S

LEMMA CitesStep ==
    ASSUME NamesOK, PendingOK, Cites, [Next]_vars
    PROVE  Cites'
<1> USE DEF Cites
<1>1. ASSUME references' \subseteq references, UNCHANGED <<nameOf, rulings>>
      PROVE  Cites'
  BY <1>1 DEF Documents
<1>2. ASSUME NEW r \in pending, WriteManifest(r)
      PROVE  Cites'
  <2> DEFINE names == AllNames(r.what)
             slugs == r.slugs
  <2>1. /\ Resolves(names, slugs)
        /\ Documents' = Documents \cup {slugs[n] : n \in names}
    BY <1>2, WritesManifest
  <2>2. references' = references \cup EdgesBetween(ManifestEdges(r.what), slugs)
    BY <1>2 DEF WriteManifest
  <2>3. ASSUME NEW e \in ManifestEdges(r.what)
        PROVE  e[1] \in names /\ e[2] \in names /\ e[1] # e[2]
    BY DEF ManifestEdges, AllNames, CorpusNames
  <2> HIDE DEF names, slugs
  <2>4. ASSUME NEW e \in ManifestEdges(r.what)
        PROVE  <<slugs[e[1]], slugs[e[2]]>> \in Between(Documents')
    <3>1. slugs[e[1]] \in Documents' /\ slugs[e[2]] \in Documents'
      BY <2>1, <2>3
    <3>2. slugs[e[1]] # slugs[e[2]]
      BY <2>1, <2>3 DEF Resolves
    <3> QED
      BY <3>1, <3>2 DEF Between
  <2>5. EdgesBetween(ManifestEdges(r.what), slugs) \subseteq Between(Documents')
    BY <2>4 DEF EdgesBetween
  <2>6. Between(Documents) \subseteq Between(Documents')
    BY <2>1 DEF Between
  <2> QED
    BY <1>2, <2>2, <2>5, <2>6 DEF WriteManifest
<1>3. ASSUME NEW r \in pending, WriteDocument(r)
      PROVE  Cites'
  <2> DEFINE slug == r.slugs[r.what.name]
             cited == {r.slugs[n] : n \in Cited(r.what)}
  <2>1. /\ Resolves(Cited(r.what) \cup {r.what.name}, r.slugs)
        /\ Documents' = Documents \cup ({slug} \cup cited)
    BY <1>3, WritesDocument
  <2>2. references' = references \cup ({slug} \X cited)
    BY <1>3 DEF WriteDocument
  <2>3. slug \notin cited
    BY <2>1 DEF Resolves, Cited
  <2> HIDE DEF slug, cited
  <2>4. {slug} \X cited \subseteq Between(Documents')
    BY <2>1, <2>3 DEF Between
  <2>5. Between(Documents) \subseteq Between(Documents')
    BY <2>1 DEF Between
  <2> QED
    BY <1>3, <2>2, <2>4, <2>5 DEF WriteDocument
<1>4. ASSUME NEW r \in pending, CreateDocument(r)
      PROVE  Cites'
  <2>1. Documents \subseteq Documents'
    BY <1>4, CreatesDocument
  <2>2. Between(Documents) \subseteq Between(Documents')
    BY <2>1 DEF Between
  <2> QED
    BY <1>4, <2>2 DEF CreateDocument
<1>5. ASSUME NEW gone, NEW edges \in SUBSET Between(Documents),
             Detached(gone), references' = NotOf(edges, gone)
      PROVE  references' \subseteq Between(Documents')
  <2>1. Documents' = Documents \ gone
    BY <1>5 DEF Detached, Documents
  <2> QED
    BY <1>5, <2>1 DEF Between, NotOf
<1>6. ASSUME NEW r \in pending, Replay(r)
      PROVE  Cites'
  <2> DEFINE gone == {row[2] : row \in Applicable}
  <2>1. PICK rows \in SetToSeqs(Applicable) :
           references' = NotOf(Through(CitationsRepointed,
                                   Through(CitersRepointed, references, rows), rows),
                               gone)
    BY <1>6 DEF Replay
  <2>2. Through(CitationsRepointed, Through(CitersRepointed, references, rows), rows)
           \in SUBSET Between(Documents)
    BY ApplicableIsStored, ReplayStaysBetween
  <2>3. Detached(gone) /\ UNCHANGED rulings
    BY <1>6 DEF Replay
  <2> HIDE DEF gone
  <2> QED
    BY <1>5, <2>1, <2>2, <2>3
<1>7. ASSUME NEW s \in Slug, DeleteDocument(s)
      PROVE  Cites'
  <2>1. Detached({s}) /\ references' = NotOf(references, {s}) /\ UNCHANGED rulings
    BY <1>7 DEF DeleteDocument
  <2> QED
    BY <1>5, <2>1
<1>8. ASSUME NEW pair \in Links, Relate(pair)
      PROVE  Cites'
  <2> DEFINE s == SlugFor(pair[1])
             t == SlugFor(pair[2])
  <2>1. pair[1] # None /\ pair[2] # None
    BY CatalogueAssumption
  <2>2. s \in Documents /\ t \in Documents
    BY <1>8, <2>1, StoredSlug DEF Relate
  <2>3. AddReference(s, t) \/ RemoveReference(s, t)
    BY <1>8 DEF Relate
  <2> HIDE DEF s, t
  <2>4. CASE AddReference(s, t)
    <3>1. <<s, t>> \in Between(Documents)
      BY <2>2, <2>4 DEF AddReference, Between
    <3> QED
      BY <2>4, <3>1 DEF AddReference, Documents
  <2>5. CASE RemoveReference(s, t)
    BY <1>1, <2>5 DEF RemoveReference
  <2> QED
    BY <2>3, <2>4, <2>5
<1>9. ASSUME NEW pair \in Rulings, RecordMerge(pair) \/ RecordDifferent(pair)
      PROVE  Cites'
  <2>1. PICK verdict \in {"same", "different"} : rulings' = Ruled(pair, verdict)
    BY <1>9 DEF RecordMerge, RecordDifferent
  <2> DEFINE kept == {m \in rulings : {m.survivor, m.merged} # Range(pair)}
  <2>2. IsFiniteSet(kept)
    BY FS_Subset
  <2>3. rulings' = kept \cup {Ruling(pair, verdict)}
    BY <2>1 DEF Ruled
  <2>4. IsFiniteSet(rulings')
    <3> HIDE DEF kept
    <3> QED
      BY <2>2, <2>3, FS_AddElement
  <2>5. /\ Ruling(pair, verdict).survivor \in Name
        /\ Ruling(pair, verdict).merged \in Name
        /\ Ruling(pair, verdict).verdict = verdict
    BY CatalogueAssumption DEF Ruling
  <2>6. UNCHANGED <<references, nameOf>>
    BY <1>9 DEF RecordMerge, RecordDifferent, graph
  <2> QED
    BY <2>1, <2>3, <2>4, <2>5, <2>6 DEF Documents
<1>10. CASE Reset
  BY <1>10, FS_EmptySet DEF Reset
<1>11. CASE \/ \E rows \in Manifest : ResolveManifest(rows)
            \/ \E pdf \in Pdf : ResolveDocument(pdf)
            \/ \E n \in HandMade : CheckName(n)
            \/ \E r \in pending : Abandon(r)
            \/ UNCHANGED vars
  BY <1>1, <1>11 DEF ResolveManifest, ResolveDocument, CheckName, Abandon, graph, vars
<1> QED
  BY <1>2, <1>3, <1>4, <1>6, <1>7, <1>8, <1>9, <1>10, <1>11 DEF Next, Continue

LEMMA CitesInit == Init => Cites
BY FS_EmptySet DEF Init, Cites

\* No document cites itself, whatever is imported, added by hand and merged.
THEOREM NoSelfCitation == Spec => []NobodyCitesItself
<1> DEFINE Inv == Labels /\ Cites
<1>1. Init => Inv
  BY LabelsInit, CitesInit
<1>2. Inv /\ [Next]_vars => Inv'
  BY LabelsStep, CitesStep DEF Labels
<1>3. Inv => NobodyCitesItself
  BY DEF Cites, Between, NobodyCitesItself
<1> QED
  BY <1>1, <1>2, <1>3, PTL DEF Spec

-----------------------------------------------------------------------------
(* What a replay moves *)

\* The rows that merge a document away, by the document that survives it.
Survivors(X, gone) == {row[1] : row \in {x \in X : x[2] = gone}}

Losers(X) == {row[2] : row \in X}

\* Who cited a document that is merged away cites a survivor of it after the
\* first pass, when no survivor is merged away itself.
LEMMA CitersMove ==
    ASSUME NEW X, IsFiniteSet(X), NEW rows \in SetToSeqs(X), NEW D,
           X \subseteq D \X D, NEW edges \in SUBSET Between(D),
           NEW gone \in Losers(X), NEW d, d \notin Survivors(X, gone),
           Survivors(X, gone) \cap Losers(X) = {},
           <<d, gone>> \in edges
    PROVE  \E s \in Survivors(X, gone) :
              <<d, s>> \in Through(CitersRepointed, edges, rows)
<1> DEFINE n == Len(rows)
           S == SUBSET Between(D)
           Moved(E) == \E s \in Survivors(X, gone) : <<d, s>> \in E
<1>1. /\ n \in Nat /\ \A i \in 1 .. n : rows[i] \in X
      /\ \A x \in X : \E i \in 1 .. n : rows[i] = x
  BY RowsOfASet
<1>2. \A E \in S, i \in 1 .. n : CitersRepointed(E, rows[i]) \in S
  BY <1>1, PassesStayBetween
<1>3. PICK f \in [0 .. n -> S] : CitersTrail(f, edges, rows)
  <2> HIDE DEF S
  <2>1. edges \in S
    BY DEF S
  <2> QED
    BY <1>1, <1>2, <2>1, CitersStepwise
<1> DEFINE T == {k \in 0 .. n : \/ Moved(f[k])
                                \/ /\ <<d, gone>> \in f[k]
                                   /\ \A i \in 1 .. k : rows[i][2] # gone}
<1>4. 0 \in T
  BY <1>1, <1>3 DEF CitersTrail
<1>5. ASSUME NEW k \in 0 .. n, k \in T, k < n
      PROVE  k + 1 \in T
  <2> DEFINE row == rows[k + 1]
  <2>1. /\ k + 1 \in 1 .. n /\ k + 1 \in 0 .. n
        /\ row \in X /\ f[k + 1] = CitersRepointed(f[k], row)
    BY <1>1, <1>3, <1>5 DEF CitersTrail
  <2>2. row[2] \in Losers(X) /\ (row[2] = gone => row[1] \in Survivors(X, gone))
    BY <2>1 DEF Losers, Survivors
  <2> HIDE DEF row
  <2>3. ASSUME NEW s \in Survivors(X, gone), <<d, s>> \in f[k]
        PROVE  <<d, s>> \in f[k + 1]
    <3>1. s # row[2]
      BY <2>2
    <3> QED
      BY <2>1, <2>3, <3>1 DEF CitersRepointed
  <2>4. CASE Moved(f[k])
    BY <2>1, <2>3, <2>4
  <2>5. CASE <<d, gone>> \in f[k] /\ \A i \in 1 .. k : rows[i][2] # gone
    <3>1. CASE row[2] = gone
      <4>1. <<d, row[1]>> \in CitersRepointed(f[k], row)
        <5> DEFINE moved == {e \in f[k] : e[2] = row[2] /\ e[1] # row[1]}
        <5>1. <<d, gone>> \in moved
          BY <2>2, <2>5, <3>1
        <5>2. <<d, row[1]>> \in {<<e[1], row[1]>> : e \in moved}
          <6> HIDE DEF moved
          <6>1. <<d, gone>>[1] = d
            OBVIOUS
          <6> QED
            BY <5>1, <6>1
        <5> QED
          BY <5>2 DEF CitersRepointed
      <4> QED
        BY <2>1, <2>2, <3>1, <4>1
    <3>2. CASE row[2] # gone
      <4>1. <<d, gone>> \in f[k + 1]
        BY <2>1, <2>5, <3>2 DEF CitersRepointed
      <4>2. \A i \in 1 .. k + 1 : rows[i][2] # gone
        <5>1. \A i \in 1 .. k + 1 : i \in 1 .. k \/ i = k + 1
          BY <1>1
        <5> QED
          BY <2>5, <3>2, <5>1 DEF row
      <4> QED
        BY <2>1, <4>1, <4>2
    <3> QED
      BY <3>1, <3>2
  <2> QED
    BY <1>5, <2>4, <2>5
<1> HIDE DEF T
<1>6. \A k \in 0 .. n : k \in T
  BY <1>1, <1>4, <1>5, KeptThroughout
<1>7. n \in T
  BY <1>1, <1>6
<1>8. \E i \in 1 .. n : rows[i][2] = gone
  BY <1>1 DEF Losers
<1> QED
  BY <1>3, <1>7, <1>8 DEF T, CitersTrail

\* A citation of a document that is not merged away passes the first pass.
LEMMA CitersStay ==
    ASSUME NEW X, IsFiniteSet(X), NEW rows \in SetToSeqs(X), NEW D,
           X \subseteq D \X D, NEW edges \in SUBSET Between(D),
           NEW e \in edges, e[2] \notin Losers(X)
    PROVE  e \in Through(CitersRepointed, edges, rows)
<1> DEFINE n == Len(rows)
           S == SUBSET Between(D)
<1>1. n \in Nat /\ \A i \in 1 .. n : rows[i] \in X
  BY RowsOfASet
<1>2. \A E \in S, i \in 1 .. n : CitersRepointed(E, rows[i]) \in S
  BY <1>1, PassesStayBetween
<1>3. PICK f \in [0 .. n -> S] : CitersTrail(f, edges, rows)
  <2> HIDE DEF S
  <2>1. edges \in S
    BY DEF S
  <2> QED
    BY <1>1, <1>2, <2>1, CitersStepwise
<1> DEFINE T == {k \in 0 .. n : e \in f[k]}
<1>4. 0 \in T
  BY <1>1, <1>3 DEF CitersTrail
<1>5. ASSUME NEW k \in 0 .. n, k \in T, k < n
      PROVE  k + 1 \in T
  <2>1. /\ k + 1 \in 1 .. n /\ k + 1 \in 0 .. n /\ rows[k + 1] \in X
        /\ f[k + 1] = CitersRepointed(f[k], rows[k + 1])
    BY <1>1, <1>3, <1>5 DEF CitersTrail
  <2>2. rows[k + 1][2] # e[2]
    BY <2>1 DEF Losers
  <2> QED
    BY <1>5, <2>1, <2>2 DEF CitersRepointed
<1> HIDE DEF T
<1>6. \A k \in 0 .. n : k \in T
  BY <1>1, <1>4, <1>5, KeptThroughout
<1>7. n \in T
  BY <1>1, <1>6
<1> QED
  BY <1>3, <1>7 DEF T, CitersTrail

\* The same of the second pass, which moves what a document cites.
LEMMA CitationsMove ==
    ASSUME NEW X, IsFiniteSet(X), NEW rows \in SetToSeqs(X), NEW D,
           X \subseteq D \X D, NEW edges \in SUBSET Between(D),
           NEW gone \in Losers(X), NEW d, d \notin Survivors(X, gone),
           Survivors(X, gone) \cap Losers(X) = {},
           <<gone, d>> \in edges
    PROVE  \E s \in Survivors(X, gone) :
              <<s, d>> \in Through(CitationsRepointed, edges, rows)
<1> DEFINE n == Len(rows)
           S == SUBSET Between(D)
           Moved(E) == \E s \in Survivors(X, gone) : <<s, d>> \in E
<1>1. /\ n \in Nat /\ \A i \in 1 .. n : rows[i] \in X
      /\ \A x \in X : \E i \in 1 .. n : rows[i] = x
  BY RowsOfASet
<1>2. \A E \in S, i \in 1 .. n : CitationsRepointed(E, rows[i]) \in S
  BY <1>1, PassesStayBetween
<1>3. PICK f \in [0 .. n -> S] : CitationsTrail(f, edges, rows)
  <2> HIDE DEF S
  <2>1. edges \in S
    BY DEF S
  <2> QED
    BY <1>1, <1>2, <2>1, CitationsStepwise
<1> DEFINE T == {k \in 0 .. n : \/ Moved(f[k])
                                \/ /\ <<gone, d>> \in f[k]
                                   /\ \A i \in 1 .. k : rows[i][2] # gone}
<1>4. 0 \in T
  BY <1>1, <1>3 DEF CitationsTrail
<1>5. ASSUME NEW k \in 0 .. n, k \in T, k < n
      PROVE  k + 1 \in T
  <2> DEFINE row == rows[k + 1]
  <2>1. /\ k + 1 \in 1 .. n /\ k + 1 \in 0 .. n
        /\ row \in X /\ f[k + 1] = CitationsRepointed(f[k], row)
    BY <1>1, <1>3, <1>5 DEF CitationsTrail
  <2>2. row[2] \in Losers(X) /\ (row[2] = gone => row[1] \in Survivors(X, gone))
    BY <2>1 DEF Losers, Survivors
  <2> HIDE DEF row
  <2>3. ASSUME NEW s \in Survivors(X, gone), <<s, d>> \in f[k]
        PROVE  <<s, d>> \in f[k + 1]
    <3>1. s # row[2]
      BY <2>2
    <3> QED
      BY <2>1, <2>3, <3>1 DEF CitationsRepointed
  <2>4. CASE Moved(f[k])
    BY <2>1, <2>3, <2>4
  <2>5. CASE <<gone, d>> \in f[k] /\ \A i \in 1 .. k : rows[i][2] # gone
    <3>1. CASE row[2] = gone
      <4>1. <<row[1], d>> \in CitationsRepointed(f[k], row)
        <5> DEFINE moved == {e \in f[k] : e[1] = row[2] /\ e[2] # row[1]}
        <5>1. <<gone, d>> \in moved
          BY <2>2, <2>5, <3>1
        <5>2. <<row[1], d>> \in {<<row[1], e[2]>> : e \in moved}
          <6> HIDE DEF moved
          <6>1. <<gone, d>>[2] = d
            OBVIOUS
          <6> QED
            BY <5>1, <6>1
        <5> QED
          BY <5>2 DEF CitationsRepointed
      <4> QED
        BY <2>1, <2>2, <3>1, <4>1
    <3>2. CASE row[2] # gone
      <4>1. <<gone, d>> \in f[k + 1]
        BY <2>1, <2>5, <3>2 DEF CitationsRepointed
      <4>2. \A i \in 1 .. k + 1 : rows[i][2] # gone
        <5>1. \A i \in 1 .. k + 1 : i \in 1 .. k \/ i = k + 1
          BY <1>1
        <5> QED
          BY <2>5, <3>2, <5>1 DEF row
      <4> QED
        BY <2>1, <4>1, <4>2
    <3> QED
      BY <3>1, <3>2
  <2> QED
    BY <1>5, <2>4, <2>5
<1> HIDE DEF T
<1>6. \A k \in 0 .. n : k \in T
  BY <1>1, <1>4, <1>5, KeptThroughout
<1>7. n \in T
  BY <1>1, <1>6
<1>8. \E i \in 1 .. n : rows[i][2] = gone
  BY <1>1 DEF Losers
<1> QED
  BY <1>3, <1>7, <1>8 DEF T, CitationsTrail

LEMMA CitationsStay ==
    ASSUME NEW X, IsFiniteSet(X), NEW rows \in SetToSeqs(X), NEW D,
           X \subseteq D \X D, NEW edges \in SUBSET Between(D),
           NEW e \in edges, e[1] \notin Losers(X)
    PROVE  e \in Through(CitationsRepointed, edges, rows)
<1> DEFINE n == Len(rows)
           S == SUBSET Between(D)
<1>1. n \in Nat /\ \A i \in 1 .. n : rows[i] \in X
  BY RowsOfASet
<1>2. \A E \in S, i \in 1 .. n : CitationsRepointed(E, rows[i]) \in S
  BY <1>1, PassesStayBetween
<1>3. PICK f \in [0 .. n -> S] : CitationsTrail(f, edges, rows)
  <2> HIDE DEF S
  <2>1. edges \in S
    BY DEF S
  <2> QED
    BY <1>1, <1>2, <2>1, CitationsStepwise
<1> DEFINE T == {k \in 0 .. n : e \in f[k]}
<1>4. 0 \in T
  BY <1>1, <1>3 DEF CitationsTrail
<1>5. ASSUME NEW k \in 0 .. n, k \in T, k < n
      PROVE  k + 1 \in T
  <2>1. /\ k + 1 \in 1 .. n /\ k + 1 \in 0 .. n /\ rows[k + 1] \in X
        /\ f[k + 1] = CitationsRepointed(f[k], rows[k + 1])
    BY <1>1, <1>3, <1>5 DEF CitationsTrail
  <2>2. rows[k + 1][2] # e[1]
    BY <2>1 DEF Losers
  <2> QED
    BY <1>5, <2>1, <2>2 DEF CitationsRepointed
<1> HIDE DEF T
<1>6. \A k \in 0 .. n : k \in T
  BY <1>1, <1>4, <1>5, KeptThroughout
<1>7. n \in T
  BY <1>1, <1>6
<1> QED
  BY <1>3, <1>7 DEF T, CitationsTrail

\* What CitersFollowTheMerge says of one replay.
Follow ==
    Replaying =>
        \A gone \in Documents \ Documents' :
            Survivors(Applicable, gone) \subseteq Documents' =>
                \A d \in Documents \ Survivors(Applicable, gone) : d \in Documents' =>
                    /\ <<d, gone>> \in references =>
                        \E s \in Survivors(Applicable, gone) : <<d, s>> \in references'
                    /\ <<gone, d>> \in references =>
                        \E s \in Survivors(Applicable, gone) : <<s, d>> \in references'

LEMMA ReplayFollows ==
    ASSUME NamesOK, Cites, NEW r \in pending, Replay(r)
    PROVE  Follow
<1> DEFINE X == Applicable
<1>1. X \subseteq Documents \X Documents /\ IsFiniteSet(X)
  BY ApplicableIsStored
<1>2. references \in SUBSET Between(Documents)
  BY DEF Cites
<1>3. Documents' = Documents \ Losers(X)
  BY DEF Replay, Detached, Documents, Losers
<1>4. PICK rows \in SetToSeqs(X) :
         references' = NotOf(Through(CitationsRepointed,
                                 Through(CitersRepointed, references, rows), rows),
                             Losers(X))
  BY DEF Replay, Losers
<1> DEFINE first == Through(CitersRepointed, references, rows)
           second == Through(CitationsRepointed, first, rows)
<1> HIDE DEF X
<1>5. first \in SUBSET Between(Documents)
  BY <1>1, <1>2, ReplayStaysBetween
<1>6. ASSUME NEW gone \in Documents \ Documents',
             Survivors(X, gone) \subseteq Documents',
             NEW d \in Documents \ Survivors(X, gone), d \in Documents'
      PROVE  /\ <<d, gone>> \in references =>
                    \E s \in Survivors(X, gone) : <<d, s>> \in references'
             /\ <<gone, d>> \in references =>
                    \E s \in Survivors(X, gone) : <<s, d>> \in references'
  <2>1. gone \in Losers(X) /\ Survivors(X, gone) \cap Losers(X) = {} /\ d \notin Losers(X)
    BY <1>3, <1>6
  <2>2. \A s \in Survivors(X, gone) :
           /\ <<d, s>> \in second => <<d, s>> \in references'
           /\ <<s, d>> \in second => <<s, d>> \in references'
    <3> HIDE DEF second
    <3> QED
      BY <1>4, <2>1 DEF NotOf, second
  <2>3. ASSUME <<d, gone>> \in references
        PROVE  \E s \in Survivors(X, gone) : <<d, s>> \in references'
    <3>1. PICK s \in Survivors(X, gone) : <<d, s>> \in first
      BY <1>1, <1>2, <2>1, <2>3, CitersMove
    <3> DEFINE e == <<d, s>>
    <3>2. e \in first /\ e[1] \notin Losers(X)
      BY <2>1, <3>1
    <3> HIDE DEF e, first
    <3>3. e \in second
      BY <1>1, <1>5, <3>2, CitationsStay
    <3> QED
      BY <2>2, <3>3 DEF e
  <2>4. ASSUME <<gone, d>> \in references
        PROVE  \E s \in Survivors(X, gone) : <<s, d>> \in references'
    <3> DEFINE e == <<gone, d>>
    <3>1. e \in references /\ e[2] \notin Losers(X)
      BY <2>1, <2>4
    <3> HIDE DEF e
    <3>2. e \in first
      BY <1>1, <1>2, <3>1, CitersStay
    <3>3. <<gone, d>> \in first
      BY <3>2 DEF e
    <3> HIDE DEF first
    <3>4. PICK s \in Survivors(X, gone) : <<s, d>> \in second
      BY <1>1, <1>5, <2>1, <3>3, CitationsMove
    <3> QED
      BY <2>2, <3>4
  <2> QED
    BY <2>3, <2>4
<1> QED
  BY <1>6 DEF Follow, X

LEMMA StepFollows ==
    ASSUME NamesOK, PendingOK, Cites, [Next]_vars
    PROVE  Follow
<1>1. ASSUME UNCHANGED nameOf
      PROVE  Follow
  BY <1>1 DEF Follow, Documents
<1>2. ASSUME pending \subseteq pending'
      PROVE  Follow
  BY <1>2 DEF Follow, Replaying
<1>3. ASSUME NEW r \in pending, Continue(r)
      PROVE  Follow
  <2>1. ASSUME r.kind # "replay", \A q \in pending : q # r => q \in pending'
        PROVE  Follow
    BY <2>1 DEF Follow, Replaying
  <2>2. CASE WriteManifest(r) \/ WriteDocument(r) \/ CreateDocument(r)
    BY <2>1, <2>2 DEF WriteManifest, WriteDocument, CreateDocument
  <2>3. CASE Abandon(r)
    BY <1>1, <2>3 DEF Abandon, graph
  <2> QED
    BY <1>3, <2>2, <2>3, ReplayFollows DEF Continue
<1>4. CASE \/ \E rows \in Manifest : ResolveManifest(rows)
           \/ \E pdf \in Pdf : ResolveDocument(pdf)
           \/ \E n \in HandMade : CheckName(n)
           \/ \E s \in Slug : DeleteDocument(s)
           \/ \E pair \in Links : Relate(pair)
           \/ \E pair \in Rulings : RecordMerge(pair) \/ RecordDifferent(pair)
           \/ Reset
           \/ UNCHANGED vars
  BY <1>2, <1>4 DEF ResolveManifest, ResolveDocument, CheckName, DeleteDocument,
                    Relate, AddReference, RemoveReference, RecordMerge,
                    RecordDifferent, Reset, graph, vars
<1> QED
  BY <1>3, <1>4 DEF Next

\* A merge loses no citation, whatever order its rows are taken in, unless a
\* survivor is merged away in the same replay.
THEOREM CitationsSurvive == Spec => CitersFollowTheMerge
<1> DEFINE Inv == Labels /\ Cites
<1>1. Init => Inv
  BY LabelsInit, CitesInit
<1>2. Inv /\ [Next]_vars => Inv'
  BY LabelsStep, CitesStep DEF Labels
<1>3. Inv /\ [Next]_vars => [MergeIsFollowed]_vars
  <2> SUFFICES ASSUME Inv, [Next]_vars
               PROVE  MergeIsFollowed
    OBVIOUS
  <2>1. SUFFICES ASSUME Replaying,
                        NEW gone \in Documents \ Documents',
                        Survivors(Applicable, gone) \subseteq Documents',
                        NEW d \in (Documents \ Survivors(Applicable, gone)) \cap Documents'
                 PROVE  /\ <<d, gone>> \in references =>
                            \E s \in Survivors(Applicable, gone) : <<d, s>> \in references'
                        /\ <<gone, d>> \in references =>
                            \E s \in Survivors(Applicable, gone) : <<s, d>> \in references'
    <3>1. \A gone \in Documents : Survivors(Applicable, gone) \subseteq Documents
      BY ApplicableIsStored DEF Survivors, Labels
    <3> QED
      BY <3>1 DEF MergeIsFollowed, Survivors, Documents
  <2> QED
    BY <2>1, StepFollows DEF Labels, Follow
<1> HIDE DEF Inv
<1> QED
  BY <1>1, <1>2, <1>3, PTL DEF Spec, CitersFollowTheMerge

-----------------------------------------------------------------------------
(* Chains *)

\* A strict total order of a set.
Orders(R, M) ==
    /\ \A a \in M : <<a, a>> \notin R
    /\ \A a, b \in M : a # b => <<a, b>> \in R \/ <<b, a>> \in R
    /\ \A a, b, c \in M : <<a, b>> \in R /\ <<b, c>> \in R => <<a, c>> \in R

\* What follows what with nothing between, as pairs <<later, earlier>>.
Covers(R, M) ==
    {e \in M \X M : /\ <<e[2], e[1]>> \in R
                    /\ ~\E c \in M : <<e[2], c>> \in R /\ <<c, e[1]>> \in R}

\* Of finitely many, one is followed by none.
LEMMA LastOfMany ==
    ASSUME NEW M, IsFiniteSet(M), NEW R, Orders(R, M),
           NEW T \in SUBSET M, T # {}
    PROVE  \E x \in T : \A y \in T : ~(<<x, y>> \in R)
<1> DEFINE Above(x) == {y \in T : <<x, y>> \in R}
           L == OpToRel(<, Nat)
           sizes == {Cardinality(Above(x)) : x \in T}
<1>1. IsFiniteSet(T)
  BY FS_Subset
<1>2. ASSUME NEW x \in T
      PROVE  IsFiniteSet(Above(x)) /\ Cardinality(Above(x)) \in Nat
  <2>1. Above(x) \in SUBSET T
    OBVIOUS
  <2> HIDE DEF Above
  <2> QED
    BY <1>1, <2>1, FS_Subset, FS_CardinalityType
<1>3. sizes \subseteq Nat /\ sizes # {}
  BY <1>2
<1>4. \A a, b \in Nat : <<a, b>> \in L <=> a < b
  BY DEF OpToRel
<1>5. PICK least \in sizes : \A k \in sizes : ~(<<k, least>> \in L)
  <2>1. IsWellFoundedOn(L, Nat)
    BY NatLessThanWellFounded
  <2> HIDE DEF sizes, L
  <2> QED
    BY <1>3, <2>1, WFMin
<1>6. PICK x \in T : least = Cardinality(Above(x))
  BY <1>5
<1>7. ASSUME NEW y \in T, <<x, y>> \in R
      PROVE  FALSE
  <2>1. Above(y) \in SUBSET Above(x) /\ y \in Above(x) /\ y \notin Above(y)
    BY <1>7 DEF Orders
  <2> HIDE DEF Above
  <2>2. Cardinality(Above(y)) <= Cardinality(Above(x))
        /\ Cardinality(Above(y)) # Cardinality(Above(x))
    BY <1>2, <2>1, FS_Subset
  <2>3. Cardinality(Above(y)) < Cardinality(Above(x))
    BY <1>2, <2>2
  <2>4. <<Cardinality(Above(y)), least>> \in L
    <3> HIDE DEF L
    <3> QED
      BY <1>2, <1>4, <1>6, <2>3
  <2> QED
    BY <1>5, <2>4
<1> QED
  BY <1>7

LEMMA FirstOfMany ==
    ASSUME NEW M, IsFiniteSet(M), NEW R, Orders(R, M), M # {}
    PROVE  \E x \in M : \A y \in M : ~(<<y, x>> \in R)
<1> DEFINE Back == {p \in M \X M : <<p[2], p[1]>> \in R}
<1>1. \A a, b \in M : <<a, b>> \in Back <=> <<b, a>> \in R
  OBVIOUS
<1> HIDE DEF Back
<1>2. Orders(Back, M)
  BY <1>1 DEF Orders
<1>3. PICK x \in M : \A y \in M : ~(<<x, y>> \in Back)
  BY <1>2, LastOfMany
<1> QED
  BY <1>1, <1>3

\* A finite order is one chain: each but the first follows exactly one, and
\* each is followed by one at most.
LEMMA OrderIsAChain ==
    ASSUME NEW M, IsFiniteSet(M), NEW R, Orders(R, M)
    PROVE  /\ Cardinality(Covers(R, M)) = Cardinality(M) - (IF M = {} THEN 0 ELSE 1)
           /\ \A e, f \in Covers(R, M) : e[1] = f[1] <=> e[2] = f[2]
<1> DEFINE edges == Covers(R, M)
<1>1. \A e \in edges : /\ e[1] \in M /\ e[2] \in M /\ e = <<e[1], e[2]>>
                       /\ <<e[2], e[1]>> \in R
                       /\ \A c \in M : ~(<<e[2], c>> \in R /\ <<c, e[1]>> \in R)
  BY DEF Covers
<1>2. \A x, y \in M : <<x, y>> \in R /\ (\A c \in M : ~(<<x, c>> \in R /\ <<c, y>> \in R))
                         => <<y, x>> \in edges
  BY DEF Covers
<1> HIDE DEF edges
<1>3. \A e, f \in edges : e[1] = f[1] <=> e[2] = f[2]
  <2>1. ASSUME NEW a \in M, NEW b \in M, NEW c \in M, <<b, a>> \in R, <<c, a>> \in R,
               \A d \in M : ~(<<b, d>> \in R /\ <<d, a>> \in R),
               \A d \in M : ~(<<c, d>> \in R /\ <<d, a>> \in R)
        PROVE  b = c
    BY <2>1 DEF Orders
  <2>2. ASSUME NEW a \in M, NEW b \in M, NEW c \in M, <<a, b>> \in R, <<a, c>> \in R,
               \A d \in M : ~(<<a, d>> \in R /\ <<d, b>> \in R),
               \A d \in M : ~(<<a, d>> \in R /\ <<d, c>> \in R)
        PROVE  b = c
    BY <2>2 DEF Orders
  <2> SUFFICES ASSUME NEW e \in edges, NEW f \in edges
               PROVE  e[1] = f[1] <=> e[2] = f[2]
    OBVIOUS
  <2>3. e[1] = f[1] => e[2] = f[2]
    BY <1>1, <2>1
  <2>4. e[2] = f[2] => e[1] = f[1]
    BY <1>1, <2>2
  <2> QED
    BY <2>3, <2>4
<1>4. CASE M = {}
  <2>1. edges = {}
    BY <1>1, <1>4
  <2> QED
    BY <1>3, <1>4, <2>1, FS_EmptySet DEF edges
<1>5. CASE M # {}
  <2>1. PICK first \in M : \A y \in M : ~(<<y, first>> \in R)
    BY <1>5, FirstOfMany
  <2> DEFINE f == [e \in edges |-> e[1]]
             rest == M \ {first}
  <2>2. f \in [edges -> rest] /\ \A e \in edges : f[e] = e[1]
    BY <1>1, <2>1
  <2>3. ASSUME NEW a \in rest
        PROVE  \E e \in edges : f[e] = a
    <3> DEFINE T == {y \in M : <<y, a>> \in R}
    <3>1. T \in SUBSET M /\ T # {}
      BY <2>1 DEF Orders
    <3>2. PICK x \in T : \A y \in T : ~(<<x, y>> \in R)
      <4> HIDE DEF T
      <4> QED
        BY <3>1, LastOfMany
    <3>3. <<a, x>> \in edges
      BY <1>2, <3>2
    <3>4. <<a, x>>[1] = a
      OBVIOUS
    <3> QED
      BY <2>2, <3>3, <3>4
  <2> HIDE DEF f
  <2>4. f \in Injection(edges, rest)
    <3>1. ASSUME NEW d \in edges, NEW e \in edges, f[d] = f[e]
          PROVE  d = e
      <4>1. d[1] = e[1]
        BY <2>2, <3>1
      <4>2. d[2] = e[2]
        BY <1>3, <4>1
      <4>3. d = <<d[1], d[2]>> /\ e = <<e[1], e[2]>>
        BY <1>1
      <4> QED
        BY <4>1, <4>2, <4>3
    <3>2. DOMAIN f = edges
      BY <2>2
    <3> QED
      BY <2>2, <3>1, <3>2 DEF Injection, IsInjective
  <2>5. f \in Surjection(edges, rest)
    BY <2>2, <2>3 DEF Surjection
  <2>6. IsFiniteSet(rest) /\ Cardinality(rest) = Cardinality(M) - 1
    BY FS_RemoveElement
  <2> HIDE DEF rest
  <2>7. Cardinality(edges) = Cardinality(rest)
    BY <2>4, <2>5, <2>6, FS_Injection
  <2> QED
    BY <1>3, <1>5, <2>6, <2>7 DEF edges
<1> QED
  BY <1>4, <1>5

-----------------------------------------------------------------------------
(* Editions *)

NoRepeats(arrivals) == \A a \in Range(arrivals) : ~InOrder(a, a, arrivals)

\* The order of a document's editions.
Before(M, arrivals) == {p \in M \X M : Earlier(p[1], p[2], arrivals)}

Chain(M, arrivals) == Covers(Before(M, arrivals), M)

\* Where each arrived once, dates and arrivals order the editions.
LEMMA EditionsAreOrdered ==
    ASSUME NEW arrivals \in Seq(Edition), NoRepeats(arrivals),
           NEW M, M \subseteq Range(arrivals)
    PROVE  Orders(Before(M, arrivals), M)
<1> DEFINE n == Len(arrivals)
<1>1. n \in Nat /\ DOMAIN arrivals = 1 .. n /\ \A i \in 1 .. n : arrivals[i] \in Edition
  OBVIOUS
<1>2. \A a \in M : a.date \in Nat /\ \E i \in 1 .. n : arrivals[i] = a
  BY <1>1 DEF Range, Edition
<1>3. \A a, b : InOrder(a, b, arrivals) <=>
           \E i, j \in 1 .. n : i < j /\ arrivals[i] = a /\ arrivals[j] = b
  BY <1>1 DEF InOrder
<1>4. \A i, j \in 1 .. n : arrivals[i] = arrivals[j] /\ arrivals[i] \in M => i = j
  <2>1. ASSUME NEW i \in 1 .. n, NEW j \in 1 .. n, arrivals[i] = arrivals[j], i < j,
               arrivals[i] \in M
        PROVE  FALSE
    BY <1>3, <2>1 DEF NoRepeats
  <2> QED
    BY <2>1
<1>5. \A a, b \in M : Earlier(a, b, arrivals) <=>
           \/ a.date < b.date
           \/ a.date = b.date /\ InOrder(a, b, arrivals)
  BY DEF Earlier, InOrder
<1>6. \A a \in M : ~InOrder(a, a, arrivals)
  BY DEF NoRepeats
<1>7. \A a, b \in M : a # b => InOrder(a, b, arrivals) \/ InOrder(b, a, arrivals)
  BY <1>2, <1>3
<1>8. ASSUME NEW a \in M, NEW b \in M, NEW c \in M,
             InOrder(a, b, arrivals), InOrder(b, c, arrivals)
      PROVE  InOrder(a, c, arrivals)
  <2>1. PICK i, j \in 1 .. n : i < j /\ arrivals[i] = a /\ arrivals[j] = b
    BY <1>3, <1>8
  <2>2. PICK k, l \in 1 .. n : k < l /\ arrivals[k] = b /\ arrivals[l] = c
    BY <1>3, <1>8
  <2>3. j = k
    BY <1>4, <2>1, <2>2
  <2>4. i < l
    BY <1>1, <2>1, <2>2, <2>3
  <2> QED
    BY <1>3, <2>1, <2>2, <2>4
<1> HIDE DEF n
<1>9. \A a, b \in M : <<a, b>> \in Before(M, arrivals) <=> Earlier(a, b, arrivals)
  BY DEF Before
<1>10. \A a \in M : ~Earlier(a, a, arrivals)
  BY <1>2, <1>5, <1>6
<1>11. \A a, b \in M : a # b => Earlier(a, b, arrivals) \/ Earlier(b, a, arrivals)
  BY <1>2, <1>5, <1>7
<1>12. ASSUME NEW a \in M, NEW b \in M, NEW c \in M,
              Earlier(a, b, arrivals), Earlier(b, c, arrivals)
       PROVE  Earlier(a, c, arrivals)
  BY <1>2, <1>5, <1>8, <1>12
<1> QED
  BY <1>9, <1>10, <1>11, <1>12 DEF Orders

\* A chain depends on the order of its own editions alone.
LEMMA ChainDepends ==
    ASSUME NEW M, NEW p, NEW q,
           \A a, b \in M : InOrder(a, b, p) <=> InOrder(a, b, q)
    PROVE  Chain(M, p) = Chain(M, q)
<1>1. \A a, b \in M : Earlier(a, b, p) <=> Earlier(a, b, q)
  BY DEF Earlier, InOrder
<1>2. Before(M, p) = Before(M, q)
  BY <1>1 DEF Before
<1> QED
  BY <1>2 DEF Chain

\* Relinking leaves the edges of other documents and chains this one's.
LEMMA RelinkingChains ==
    ASSUME NEW mine, NEW arrivals
    PROVE  Relinked(mine, arrivals) =
              {edge \in supersedes : edge[1] \notin mine} \cup Chain(mine, arrivals)
BY DEF Relinked, Chain, Covers, Before

\* An edition is one of a document's by its slug alone; each arrived once, no
\* two of one document under one date, and each document's are chained.
ArrivalsOK ==
    /\ arrived \in Seq(Edition)
    /\ NoRepeats(arrived)
    /\ \A a, b \in Editions : a.slug = b.slug /\ a.date = b.date /\ a.date # 0 => a = b

ChainedOK ==
    /\ held \subseteq Editions
    /\ IsFiniteSet(held)
    /\ \A e \in held : e.slug \in Documents
    /\ supersedes \subseteq Editions \X Editions
    /\ \A s \in Slug : supersedes \cap (HeldBy(s) \X HeldBy(s)) = Chain(HeldBy(s), arrived)

EditionsOK == ArrivalsOK /\ ChainedOK

\* What the invariant says of a document's editions.
LEMMA EditionsMakeAChain ==
    ASSUME EditionsOK
    PROVE  SupersessionIsAChain
<1> SUFFICES ASSUME NEW s \in Documents
             PROVE  LET mine == HeldBy(s)
                        edges == supersedes \cap (mine \X mine)
                    IN /\ Cardinality(edges) = Cardinality(mine) - (IF mine = {} THEN 0 ELSE 1)
                       /\ \A e \in edges : e[1].date > e[2].date
                             \/ (e[1].date = 0 /\ e[2].date = 0 /\ e[1] # e[2])
                       /\ \A e, f \in edges : e[1] = f[1] <=> e[2] = f[2]
  BY DEF SupersessionIsAChain
<1> DEFINE mine == HeldBy(s)
           edges == supersedes \cap (mine \X mine)
           R == Before(mine, arrived)
<1>1. s \in Slug
  BY DEF Documents
<1>2. edges = Covers(R, mine)
  BY <1>1 DEF EditionsOK, ChainedOK, Chain
<1>3. mine \subseteq Editions /\ mine \subseteq held /\ \A e \in mine : e.slug = s
  BY DEF EditionsOK, ChainedOK, HeldBy
<1>4. IsFiniteSet(mine)
  <2> HIDE DEF mine
  <2> QED
    BY <1>3, FS_Subset DEF EditionsOK, ChainedOK
<1>5. Orders(R, mine)
  <2> HIDE DEF mine
  <2> QED
    BY <1>3, EditionsAreOrdered DEF EditionsOK, ArrivalsOK, Editions
<1>6. ASSUME NEW a \in mine, NEW b \in mine, <<b, a>> \in R
      PROVE  a.date > b.date \/ (a.date = 0 /\ b.date = 0 /\ a # b)
  <2>1. Earlier(b, a, arrived) /\ a # b
    BY <1>5, <1>6 DEF Orders, Before
  <2>2. a.date \in Nat /\ b.date \in Nat
    <3>1. arrived \in Seq(Edition) /\ Editions \subseteq Edition
      BY DEF EditionsOK, ArrivalsOK, Editions, Range
    <3> QED
      BY <1>3, <3>1 DEF Edition
  <2>3. a.slug = b.slug
    BY <1>3
  <2>4. a.date = b.date => a.date = 0
    BY <1>3, <2>1, <2>3 DEF EditionsOK, ArrivalsOK
  <2> QED
    BY <2>1, <2>2, <2>4 DEF Earlier
<1> HIDE DEF mine, edges, R
<1>7. /\ Cardinality(edges) = Cardinality(mine) - (IF mine = {} THEN 0 ELSE 1)
      /\ \A e, f \in edges : e[1] = f[1] <=> e[2] = f[2]
  BY <1>2, <1>4, <1>5, OrderIsAChain
<1>8. \A e \in edges : e[1] \in mine /\ e[2] \in mine /\ <<e[2], e[1]>> \in R
  BY <1>2 DEF Covers
<1>9. \A e \in edges : e[1].date > e[2].date
          \/ (e[1].date = 0 /\ e[2].date = 0 /\ e[1] # e[2])
  BY <1>6, <1>8
<1> QED
  BY <1>7, <1>9 DEF mine, edges

\* An edition arrives once, after all that arrived before it.
LEMMA Arrives ==
    ASSUME ArrivalsOK, NEW edition \in Edition, ~VersionConflict(edition),
           arrived' = Arrived(edition)
    PROVE  /\ ArrivalsOK'
           /\ Editions' = Editions \cup {edition}
           /\ \A a, b \in Editions : InOrder(a, b, arrived') <=> InOrder(a, b, arrived)
<1> USE DEF ArrivalsOK
<1>1. CASE edition \in Editions
  BY <1>1 DEF Arrived, Editions
<1>2. CASE edition \notin Editions
  <2>1. arrived' = Append(arrived, edition)
    BY <1>2 DEF Arrived
  <2>2. /\ arrived' \in Seq(Edition)
        /\ \A a : a \in Range(arrived') <=> a \in Range(arrived) \/ a = edition
        /\ \A a, b : InOrder(a, b, arrived') <=>
              InOrder(a, b, arrived) \/ (a \in Range(arrived) /\ b = edition)
    BY <2>1, AppendOrders
  <2>3. Editions' = Editions \cup {edition}
    BY <2>2 DEF Editions
  <2>4. \A a, b \in Editions : InOrder(a, b, arrived') <=> InOrder(a, b, arrived)
    BY <1>2, <2>2
  <2>5. ~InOrder(edition, edition, arrived)
    BY <1>2 DEF InOrder, Editions, Range
  <2>6. NoRepeats(arrived')
    BY <1>2, <2>2, <2>5 DEF NoRepeats, Editions
  <2>7. \A e \in Editions : e.slug = edition.slug /\ e.date = edition.date /\ e.date # 0
                               => e.bytes = edition.bytes
    BY DEF VersionConflict
  <2>8. Editions \subseteq Edition
    BY DEF Editions, Range
  <2>9. \A e \in Editions : e.slug = edition.slug /\ e.date = edition.date /\ e.date # 0
                               => e = edition
    BY <2>7, <2>8 DEF Edition
  <2>10. \A a, b \in Editions' : a.slug = b.slug /\ a.date = b.date /\ a.date # 0 => a = b
    BY <2>3, <2>9
  <2> QED
    BY <2>2, <2>3, <2>4, <2>6, <2>10
<1> QED
  BY <1>1, <1>2

\* Ingested in whatever order, an edition finds its place.
LEMMA WritesEdition ==
    ASSUME NamesOK, PendingOK, EditionsOK, NEW r \in pending, WriteDocument(r)
    PROVE  EditionsOK'
<1> DEFINE slug == r.slugs[r.what.name]
           edition == EditionOf(slug, r.what)
           mine == HeldBy(slug) \cup {edition}
<1>1. /\ ~VersionConflict(edition)
      /\ arrived' = Arrived(edition)
      /\ held' = held \cup {edition}
      /\ supersedes' = Relinked(mine, arrived')
  BY DEF WriteDocument
<1>2. /\ r.what \in Pdf /\ slug \in Slug
      /\ Documents \subseteq Documents' /\ slug \in Documents'
  BY WritesDocument DEF Resolves, Fitting
<1>3. edition \in Edition /\ edition.slug = slug
  <2>1. r.what \in Issuance
    BY <1>2, CatalogueAssumption
  <2> HIDE DEF slug
  <2> QED
    BY <1>2, <2>1 DEF EditionOf, Edition, Issuance
<1> HIDE DEF slug, edition
<1>4. /\ ArrivalsOK'
      /\ Editions' = Editions \cup {edition}
      /\ \A a, b \in Editions : InOrder(a, b, arrived') <=> InOrder(a, b, arrived)
  BY <1>1, <1>3, Arrives DEF EditionsOK
<1> USE DEF EditionsOK, ChainedOK
<1>5. /\ held' \subseteq Editions'
      /\ IsFiniteSet(held')
      /\ \A e \in held' : e.slug \in Documents'
  BY <1>1, <1>2, <1>3, <1>4, FS_AddElement
<1>6. mine \subseteq Editions' /\ \A e \in mine : e.slug = slug
  BY <1>3, <1>4 DEF HeldBy
<1>7. supersedes' = {edge \in supersedes : edge[1] \notin mine} \cup Chain(mine, arrived')
  BY <1>1, RelinkingChains
<1>8. Chain(mine, arrived') \subseteq mine \X mine
  BY DEF Chain, Covers
<1>9. supersedes' \subseteq Editions' \X Editions'
  BY <1>4, <1>6, <1>7, <1>8
<1>10. ASSUME NEW s \in Slug
       PROVE  supersedes' \cap (HeldBy(s)' \X HeldBy(s)') = Chain(HeldBy(s)', arrived')
  <2>1. CASE s = slug
    <3>1. HeldBy(s)' = mine
      BY <1>1, <1>3, <2>1 DEF HeldBy
    <3> HIDE DEF mine
    <3> QED
      BY <1>7, <1>8, <3>1
  <2>2. CASE s # slug
    <3>1. HeldBy(s)' = HeldBy(s)
      BY <1>1, <1>3, <2>2 DEF HeldBy
    <3>2. /\ \A e \in HeldBy(s) : e \notin mine /\ e \in Editions
          /\ supersedes \cap (HeldBy(s) \X HeldBy(s)) = Chain(HeldBy(s), arrived)
      BY <1>6, <2>2 DEF HeldBy
    <3>3. Chain(HeldBy(s), arrived') = Chain(HeldBy(s), arrived)
      BY <1>4, <3>2, ChainDepends
    <3>4. supersedes' \cap (HeldBy(s) \X HeldBy(s)) = supersedes \cap (HeldBy(s) \X HeldBy(s))
      <4> HIDE DEF mine
      <4> QED
        BY <1>7, <1>8, <3>2
    <3> QED
      BY <3>1, <3>2, <3>3, <3>4
  <2> QED
    BY <2>1, <2>2
<1> HIDE DEF mine
<1> QED
  BY <1>4, <1>5, <1>9, <1>10

\* The editions that go with a document leave the others their chains.
LEMMA DeletesEditions ==
    ASSUME EditionsOK, NEW s \in Slug, DeleteDocument(s)
    PROVE  EditionsOK'
<1> DEFINE gone == HeldBy(s)
<1>1. /\ Documents' = Documents \ {s}
      /\ arrived' = Without(arrived, gone)
      /\ held' = held \ gone
      /\ supersedes' = NotOf(supersedes, gone)
  BY DEF DeleteDocument, Detached, Documents
<1> USE DEF EditionsOK, ArrivalsOK, ChainedOK
<1>2. /\ arrived' \in Seq(Edition)
      /\ Range(arrived') = Range(arrived) \ gone
      /\ \A a, b : InOrder(a, b, arrived') <=>
            InOrder(a, b, arrived) /\ a \notin gone /\ b \notin gone
  <2> HIDE DEF gone
  <2> QED
    BY <1>1, WithoutKeepsOrder
<1>3. Editions' = Editions \ gone
  BY <1>2 DEF Editions
<1>4. ArrivalsOK'
  BY <1>2, <1>3 DEF NoRepeats, Editions
<1>5. \A t \in Slug : HeldBy(t)' = IF t = s THEN {} ELSE HeldBy(t)
  BY <1>1 DEF HeldBy
<1>6. \A t \in Slug : t # s => \A e \in HeldBy(t) : e \notin gone
  BY DEF HeldBy
<1>7. \A e \in held' : e.slug # s /\ e \in held
  BY <1>1 DEF HeldBy
<1> HIDE DEF gone
<1>8. held' \subseteq Editions' /\ IsFiniteSet(held') /\ \A e \in held' : e.slug \in Documents'
  <2>1. held' \in SUBSET held
    BY <1>1
  <2>2. IsFiniteSet(held')
    BY <2>1, FS_Subset
  <2> QED
    BY <1>1, <1>3, <1>7, <2>2
<1>9. supersedes' \subseteq Editions' \X Editions'
  BY <1>1, <1>3 DEF NotOf
<1>10. ASSUME NEW t \in Slug
       PROVE  supersedes' \cap (HeldBy(t)' \X HeldBy(t)') = Chain(HeldBy(t)', arrived')
  <2>1. CASE t = s
    <3>1. HeldBy(t)' = {}
      BY <1>5, <2>1
    <3> QED
      BY <3>1 DEF Chain, Covers
  <2>2. CASE t # s
    <3>1. HeldBy(t)' = HeldBy(t) /\ \A e \in HeldBy(t) : e \notin gone
      BY <1>5, <1>6, <2>2
    <3>2. Chain(HeldBy(t), arrived') = Chain(HeldBy(t), arrived)
      BY <1>2, <3>1, ChainDepends
    <3>3. supersedes' \cap (HeldBy(t) \X HeldBy(t)) = supersedes \cap (HeldBy(t) \X HeldBy(t))
      BY <1>1, <3>1 DEF NotOf
    <3> QED
      BY <3>1, <3>2, <3>3
  <2> QED
    BY <2>1, <2>2
<1> QED
  BY <1>4, <1>8, <1>9, <1>10

\* A document merged away leaves its editions to no one.
LEMMA ReplayKeepsEditions ==
    ASSUME EditionsOK, NEW r \in pending, Replay(r)
    PROVE  EditionsOK'
<1> DEFINE gone == {row[2] : row \in Applicable}
<1>1. /\ Documents' = Documents \ gone
      /\ held' = {e \in held : e.slug \notin gone}
      /\ UNCHANGED <<arrived, supersedes>>
  BY DEF Replay, Detached, Documents
<1> HIDE DEF gone
<1> USE DEF EditionsOK, ChainedOK
<1>2. ArrivalsOK' /\ Editions' = Editions
  BY <1>1 DEF ArrivalsOK, Editions, NoRepeats, InOrder
<1>3. IsFiniteSet(held')
  <2>1. held' \in SUBSET held
    BY <1>1
  <2> QED
    BY <2>1, FS_Subset
<1>4. ASSUME NEW s \in Slug
      PROVE  supersedes' \cap (HeldBy(s)' \X HeldBy(s)') = Chain(HeldBy(s)', arrived')
  <2>1. HeldBy(s)' = IF s \in gone THEN {} ELSE HeldBy(s)
    BY <1>1 DEF HeldBy
  <2>2. CASE s \in gone
    <3>1. HeldBy(s)' = {}
      BY <2>1, <2>2
    <3> QED
      BY <3>1 DEF Chain, Covers
  <2>3. CASE s \notin gone
    BY <1>1, <2>1, <2>3
  <2> QED
    BY <2>2, <2>3
<1> QED
  BY <1>1, <1>2, <1>3, <1>4

NothingArrived == arrived = << >> /\ held = {} /\ supersedes = {}

LEMMA NoEditions == NothingArrived => EditionsOK
<1> SUFFICES ASSUME NothingArrived
             PROVE  EditionsOK
  OBVIOUS
<1> USE DEF NothingArrived
<1>1. Editions = {}
  BY DEF Editions, Range
<1>2. ArrivalsOK
  BY <1>1 DEF ArrivalsOK, NoRepeats, Editions
<1>3. \A s \in Slug : HeldBy(s) = {}
  BY DEF HeldBy
<1>4. \A s \in Slug : supersedes \cap (HeldBy(s) \X HeldBy(s)) = Chain(HeldBy(s), arrived)
  BY <1>3 DEF Chain, Covers
<1> QED
  BY <1>1, <1>2, <1>4, FS_EmptySet DEF EditionsOK, ChainedOK

LEMMA EditionsStep ==
    ASSUME NamesOK, PendingOK, EditionsOK, [Next]_vars
    PROVE  EditionsOK'
<1>1. ASSUME UNCHANGED <<arrived, held, supersedes>>, Documents \subseteq Documents'
      PROVE  EditionsOK'
  BY <1>1 DEF EditionsOK, ArrivalsOK, ChainedOK, Editions, NoRepeats, InOrder, HeldBy
<1>2. ASSUME NEW r \in pending, Continue(r)
      PROVE  EditionsOK'
  <2>1. CASE WriteManifest(r)
    BY <1>1, <2>1, WritesManifest DEF WriteManifest
  <2>2. CASE CreateDocument(r)
    BY <1>1, <2>2, CreatesDocument DEF CreateDocument
  <2>3. CASE Abandon(r)
    BY <1>1, <2>3 DEF Abandon, graph, Documents
  <2> QED
    BY <1>2, <2>1, <2>2, <2>3, WritesEdition, ReplayKeepsEditions DEF Continue
<1>3. CASE \E s \in Slug : DeleteDocument(s)
  BY <1>3, DeletesEditions
<1>4. CASE Reset
  <2>1. NothingArrived'
    BY <1>4 DEF Reset, NothingArrived
  <2> QED
    BY <2>1, NoEditions, PTL
<1>5. CASE \/ \E rows \in Manifest : ResolveManifest(rows)
           \/ \E pdf \in Pdf : ResolveDocument(pdf)
           \/ \E n \in HandMade : CheckName(n)
           \/ \E pair \in Links : Relate(pair)
           \/ \E pair \in Rulings : RecordMerge(pair) \/ RecordDifferent(pair)
           \/ UNCHANGED vars
  <2>1. UNCHANGED <<nameOf, arrived, held, supersedes>>
    BY <1>5 DEF ResolveManifest, ResolveDocument, CheckName, Relate, AddReference,
                RemoveReference, RecordMerge, RecordDifferent, graph, vars
  <2> QED
    BY <1>1, <2>1 DEF Documents
<1> QED
  BY <1>2, <1>3, <1>4, <1>5 DEF Next

\* However the editions of a document are ingested, deleted, orphaned and
\* ingested again, they form one chain by date.
THEOREM OneChain == Spec => []SupersessionIsAChain
<1> DEFINE Inv == Labels /\ EditionsOK
<1>1. Init => Inv
  BY LabelsInit, NoEditions DEF Init, NothingArrived
<1>2. Inv /\ [Next]_vars => Inv'
  BY LabelsStep, EditionsStep DEF Labels
<1>3. Inv => SupersessionIsAChain
  BY EditionsMakeAChain
<1> QED
  BY <1>1, <1>2, <1>3, PTL DEF Spec

-----------------------------------------------------------------------------
(* Types *)

\* What sources have said, they have said of stored documents.
ReportsOK ==
    /\ described \subseteq Documents
    /\ parsed = [s \in Slug |-> parsed[s]]
    /\ \A s \in Slug : /\ parsed[s].section \in {"never", "not_found", "found"}
                       /\ parsed[s] # NeverParsed => s \in Documents

LEMMA ReportsStep ==
    ASSUME NamesOK, PendingOK, ReportsOK, [Next]_vars
    PROVE  ReportsOK'
<1> USE DEF ReportsOK
<1>1. ASSUME UNCHANGED parsed, Documents \subseteq Documents',
             described' \subseteq Documents'
      PROVE  ReportsOK'
  BY <1>1
<1>2. ASSUME NEW r \in pending, WriteManifest(r)
      PROVE  ReportsOK'
  <2>1. CorpusNames(r.what) \subseteq AllNames(r.what)
    BY <1>2, WritesManifest, NamesOfFiles
  <2>2. described' \subseteq Documents'
    BY <1>2, <2>1, WritesManifest DEF WriteManifest
  <2> QED
    BY <1>1, <1>2, <2>2, WritesManifest DEF WriteManifest
<1>3. ASSUME NEW r \in pending, WriteDocument(r)
      PROVE  ReportsOK'
  <2> DEFINE slug == r.slugs[r.what.name]
             report == [section |-> IF r.what.section \/ parsed[slug].section = "found"
                                    THEN "found" ELSE "not_found",
                        gaps |-> parsed[slug].gaps \cup r.what.gaps]
  <2>1. /\ Documents \subseteq Documents' /\ slug \in Documents'
        /\ described' = described \cup {slug}
        /\ parsed' = [parsed EXCEPT ![slug] = report]
    BY <1>3, WritesDocument DEF WriteDocument, Report
  <2>2. report.section \in {"not_found", "found"}
    OBVIOUS
  <2> HIDE DEF slug, report
  <2>3. \A s \in Slug : parsed'[s] = IF s = slug THEN report ELSE parsed[s]
    BY <2>1
  <2>4. parsed' = [s \in Slug |-> parsed'[s]]
    BY <2>1
  <2> QED
    BY <2>1, <2>2, <2>3, <2>4
<1>4. ASSUME NEW r \in pending, CreateDocument(r)
      PROVE  ReportsOK'
  BY <1>1, <1>4, CreatesDocument DEF CreateDocument
<1>5. ASSUME NEW gone, Detached(gone)
      PROVE  ReportsOK'
  <2>1. /\ Documents' = Documents \ gone
        /\ described' = described \ gone
        /\ parsed' = [s \in Slug |-> IF s \in gone THEN NeverParsed ELSE parsed[s]]
    BY <1>5 DEF Detached, Documents
  <2>2. NeverParsed.section = "never"
    BY DEF NeverParsed
  <2> QED
    BY <2>1, <2>2
<1>6. ASSUME NEW r \in pending, Replay(r) \/ Abandon(r)
      PROVE  ReportsOK'
  BY <1>1, <1>5, <1>6 DEF Replay, Abandon, graph, Documents
<1>7. CASE (\E s \in Slug : DeleteDocument(s)) \/ Reset
  BY <1>5, <1>7 DEF DeleteDocument, Reset
<1>8. CASE \/ \E rows \in Manifest : ResolveManifest(rows)
           \/ \E pdf \in Pdf : ResolveDocument(pdf)
           \/ \E n \in HandMade : CheckName(n)
           \/ \E pair \in Links : Relate(pair)
           \/ \E pair \in Rulings : RecordMerge(pair) \/ RecordDifferent(pair)
           \/ UNCHANGED vars
  <2>1. UNCHANGED <<nameOf, described, parsed>>
    BY <1>8 DEF ResolveManifest, ResolveDocument, CheckName, Relate, AddReference,
                RemoveReference, RecordMerge, RecordDifferent, graph, vars
  <2> QED
    BY <1>1, <2>1 DEF Documents
<1> QED
  BY <1>2, <1>3, <1>4, <1>6, <1>7, <1>8 DEF Next, Continue

\* No name has two slugs, no source describes and no edge joins what is not
\* stored, whichever of the writes, deletions and replays ran.
THEOREM CatalogueTypes == Spec => []TypeOK
<1> DEFINE Inv == Labels /\ Cites /\ EditionsOK /\ ReportsOK
<1>1. Init => Inv
  <2>1. Init => ReportsOK
    BY DEF Init, ReportsOK, NeverParsed
  <2> QED
    BY <2>1, LabelsInit, CitesInit, NoEditions DEF Init, NothingArrived
<1>2. Inv /\ [Next]_vars => Inv'
  BY LabelsStep, CitesStep, EditionsStep, ReportsStep DEF Labels
<1>3. Inv => TypeOK
  <2> SUFFICES ASSUME Inv
               PROVE  TypeOK
    OBVIOUS
  <2>1. \A s, t \in Documents : nameOf[s] = nameOf[t] => s = t
    BY DEF Labels, NamesOK, NamesUnique, Documents
  <2>2. references \subseteq Documents \X Documents
    BY DEF Cites, Between
  <2>3. external \subseteq Documents
    BY DEF Labels, ExternalIsUndescribed
  <2>4. Editions \subseteq Edition
    BY DEF EditionsOK, ArrivalsOK, Editions, Range
  <2> QED
    BY <2>1, <2>2, <2>3, <2>4
       DEF TypeOK, Labels, NamesOK, Cites, EditionsOK, ChainedOK, ReportsOK
<1> QED
  BY <1>1, <1>2, <1>3, PTL DEF Spec
=============================================================================
