--------------------------- MODULE ChunkingProofs ---------------------------
(* Proofs about the chunks of a document, for every document, cap and overlap.  *)
(* A loop of the code is gone through step by step: the values it passes are a  *)
(* Trail, and what holds at its start and is kept by its step KeptThroughout.   *)
EXTENDS Chunking, FiniteSetTheorems, WellFoundedInduction, TLAPS

-----------------------------------------------------------------------------
(* Going through a sequence *)

\* What holds at the start and is kept by every step holds throughout.
LEMMA KeptThroughout ==
    ASSUME NEW n \in Nat, NEW T, 0 \in T,
           \A i \in 0 .. n : i \in T /\ i < n => i + 1 \in T
    PROVE  \A i \in 0 .. n : i \in T
<1> SUFFICES ASSUME NEW k \in 0 .. n, k \notin T
             PROVE  FALSE
  OBVIOUS
<1> DEFINE R == OpToRel(<, Nat)
           Bad == {i \in 0 .. n : i \notin T}
<1>1. \A a, b \in Nat : <<a, b>> \in R <=> a < b
  BY DEF OpToRel
<1>2. IsWellFoundedOn(R, Nat)
  BY NatLessThanWellFounded
<1>3. Bad \subseteq Nat /\ Bad # {}
  OBVIOUS
<1> HIDE DEF R
<1>4. PICK m \in Bad : \A i \in Bad : ~(<<i, m>> \in R)
  <2> HIDE DEF Bad
  <2> QED
    BY <1>2, <1>3, WFMin
<1>5. m \in 1 .. n /\ m \notin T
  BY <1>4
<1>6. m - 1 \in 0 .. n /\ m - 1 \in Nat /\ m \in Nat /\ m - 1 < m
  BY <1>5
<1>7. m - 1 \in T
  <2>1. <<m - 1, m>> \in R
    BY <1>1, <1>6
  <2> QED
    BY <1>4, <1>6, <2>1
<1> QED
  BY <1>5, <1>6, <1>7

\* The values f that step functions pass through.
Trail(f, n, base, step) == f[0] = base /\ \A i \in 1 .. n : f[i] = step[i][f[i - 1]]

\* Step functions that stay in a set have such values, in that set.
LEMMA TrailExists ==
    ASSUME NEW n \in Nat, NEW S, NEW base \in S, NEW step \in [1 .. n -> [S -> S]]
    PROVE  \E f \in [0 .. n -> S] : Trail(f, n, base, step)
<1> DEFINE T == {k \in 0 .. n : \E f \in [0 .. k -> S] : Trail(f, k, base, step)}
<1>1. 0 \in T
  <2> DEFINE f == [i \in 0 .. 0 |-> base]
  <2>1. f \in [0 .. 0 -> S] /\ Trail(f, 0, base, step)
    BY DEF Trail
  <2> HIDE DEF f
  <2> QED
    BY <2>1
<1>2. ASSUME NEW k \in 0 .. n, k \in T, k < n
      PROVE  k + 1 \in T
  <2>1. PICK f \in [0 .. k -> S] : Trail(f, k, base, step)
    BY <1>2
  <2> DEFINE g == [i \in 0 .. k + 1 |-> IF i = k + 1 THEN step[k + 1][f[k]] ELSE f[i]]
  <2>2. k + 1 \in 1 .. n /\ k + 1 \in 0 .. n /\ k \in 0 .. k /\ f[k] \in S
    BY <1>2
  <2>3. g \in [0 .. k + 1 -> S]
    BY <2>2
  <2>4. g[0] = base
    BY <2>1 DEF Trail
  <2>5. \A i \in 1 .. k + 1 : g[i] = step[i][g[i - 1]]
    <3> SUFFICES ASSUME NEW i \in 1 .. k + 1
                 PROVE  g[i] = step[i][g[i - 1]]
      OBVIOUS
    <3>1. i - 1 \in 0 .. k /\ i - 1 # k + 1 /\ i \in 0 .. k + 1 /\ i - 1 \in 0 .. k + 1
      OBVIOUS
    <3>2. g[i - 1] = f[i - 1]
      BY <3>1
    <3> QED
      BY <2>1, <3>1, <3>2 DEF Trail
  <2> HIDE DEF g
  <2> QED
    BY <2>2, <2>3, <2>4, <2>5 DEF Trail
<1> HIDE DEF T
<1>3. \A i \in 0 .. n : i \in T /\ i < n => i + 1 \in T
  BY <1>2
<1>4. \A i \in 0 .. n : i \in T
  BY <1>1, <1>3, KeptThroughout
<1> QED
  BY <1>4 DEF T

\* No other function takes the same steps.
Retraces(g, n, S, base, step) ==
    /\ g[0] = base
    /\ \A i \in 1 .. n : g[i - 1] \in S => g[i] = step[i][g[i - 1]]

LEMMA TrailIsTheOnlyOne ==
    ASSUME NEW n \in Nat, NEW S, NEW base, NEW step, NEW f \in [0 .. n -> S],
           Trail(f, n, base, step), NEW g, Retraces(g, n, S, base, step)
    PROVE  g[n] = f[n]
<1> USE DEF Retraces
<1> DEFINE T == {i \in 0 .. n : g[i] = f[i]}
<1>1. 0 \in T
  BY DEF Trail
<1>2. ASSUME NEW i \in 0 .. n, i \in T, i < n
      PROVE  i + 1 \in T
  <2>1. i + 1 \in 1 .. n /\ i + 1 \in 0 .. n /\ (i + 1) - 1 = i
    BY <1>2
  <2>2. g[i] = f[i] /\ g[i] \in S
    BY <1>2
  <2>3. g[i + 1] = step[i + 1][g[i]] /\ f[i + 1] = step[i + 1][f[i]]
    BY <2>1, <2>2 DEF Trail
  <2> QED
    BY <2>1, <2>2, <2>3
<1> HIDE DEF T
<1>3. \A i \in 0 .. n : i \in T
  BY <1>1, <1>2, KeptThroughout
<1> QED
  BY <1>3 DEF T

\* What a heading keeps of an open path, one element at a time.
Kept(kept, p, heading) ==
    IF p.kind # "numbered" \/ IsStrictPrefix(p.id, heading.id)
      THEN Append(kept, p) ELSE kept

AncestorsTrail(f, path, heading) ==
    /\ f[0] = << >>
    /\ \A i \in 1 .. Len(path) : f[i] = Kept(f[i - 1], path[i], heading)
    /\ f[Len(path)] = Ancestors(path, heading)

LEMMA AncestorsStepwise ==
    ASSUME NEW S, << >> \in S, NEW path, Len(path) \in Nat, NEW heading,
           \A q \in S, i \in 1 .. Len(path) : Kept(q, path[i], heading) \in S
    PROVE  \E f \in [0 .. Len(path) -> S] : AncestorsTrail(f, path, heading)
<1> DEFINE n == Len(path)
           step == [i \in 1 .. n |-> [q \in S |-> Kept(q, path[i], heading)]]
<1>1. step \in [1 .. n -> [S -> S]] /\ n \in Nat
  OBVIOUS
<1> HIDE DEF step, n
<1>2. PICK f \in [0 .. n -> S] : Trail(f, n, << >>, step)
  BY <1>1, TrailExists
<1>3. \A i \in 1 .. n : i - 1 \in 0 .. n
  BY <1>1
<1>4. \A i \in 1 .. n : f[i] = Kept(f[i - 1], path[i], heading)
  BY <1>2, <1>3 DEF step, Trail
<1> DEFINE Equation(g) == g = [i \in 0 .. n |->
                IF i = 0 THEN << >> ELSE Kept(g[i - 1], path[i], heading)]
           after == CHOOSE g : Equation(g)
<1>5. Equation(f)
  BY <1>2, <1>4 DEF Trail
<1>6. Equation(after)
  <2> HIDE DEF Equation
  <2> QED
    BY <1>5
<1>7. Ancestors(path, heading) = after[n]
  BY DEF Ancestors, Through, Kept, n
<1> HIDE DEF after
<1>8. /\ after[0] = << >>
      /\ \A i \in 1 .. n : after[i] = Kept(after[i - 1], path[i], heading)
  BY <1>1, <1>6
<1>9. Retraces(after, n, S, << >>, step)
  BY <1>8 DEF step, Retraces
<1> HIDE DEF Equation
<1>10. after[n] = f[n]
  BY <1>1, <1>2, <1>9, TrailIsTheOnlyOne
<1> QED
  BY <1>2, <1>4, <1>7, <1>10 DEF n, Trail, AncestorsTrail

\* A page, one line at a time.
PageTrail(f, reading, page, furniture) ==
    /\ f[0] = reading
    /\ \A i \in 1 .. Len(page) : f[i] = ReadLine(f[i - 1], page[i], furniture)
    /\ f[Len(page)] = ReadPage(reading, page, furniture)

LEMMA PageStepwise ==
    ASSUME NEW S, NEW reading \in S, NEW page, Len(page) \in Nat, NEW furniture,
           \A r \in S, i \in 1 .. Len(page) : ReadLine(r, page[i], furniture) \in S
    PROVE  \E f \in [0 .. Len(page) -> S] : PageTrail(f, reading, page, furniture)
<1> DEFINE n == Len(page)
           step == [i \in 1 .. n |-> [r \in S |-> ReadLine(r, page[i], furniture)]]
<1>1. step \in [1 .. n -> [S -> S]] /\ n \in Nat
  OBVIOUS
<1> HIDE DEF step, n
<1>2. PICK f \in [0 .. n -> S] : Trail(f, n, reading, step)
  BY <1>1, TrailExists
<1>3. \A i \in 1 .. n : i - 1 \in 0 .. n
  BY <1>1
<1>4. \A i \in 1 .. n : f[i] = ReadLine(f[i - 1], page[i], furniture)
  BY <1>2, <1>3 DEF step, Trail
<1> DEFINE Equation(g) == g = [i \in 0 .. n |->
                IF i = 0 THEN reading ELSE ReadLine(g[i - 1], page[i], furniture)]
           after == CHOOSE g : Equation(g)
<1>5. Equation(f)
  BY <1>2, <1>4 DEF Trail
<1>6. Equation(after)
  <2> HIDE DEF Equation
  <2> QED
    BY <1>5
<1>7. ReadPage(reading, page, furniture) = after[n]
  BY DEF ReadPage, Through, n
<1> HIDE DEF after
<1>8. /\ after[0] = reading
      /\ \A i \in 1 .. n : after[i] = ReadLine(after[i - 1], page[i], furniture)
  BY <1>1, <1>6
<1>9. Retraces(after, n, S, reading, step)
  BY <1>8 DEF step, Retraces
<1> HIDE DEF Equation
<1>10. after[n] = f[n]
  BY <1>1, <1>2, <1>9, TrailIsTheOnlyOne
<1> QED
  BY <1>2, <1>4, <1>7, <1>10 DEF n, Trail, PageTrail

\* A document, one page at a time.
Turned(reading, document, i) ==
    ReadPage(reading, Numbered(document)[i], PageFurniture(document))

DocumentTrail(f, document) ==
    /\ f[0] = Opened
    /\ \A i \in 1 .. Len(Numbered(document)) : f[i] = Turned(f[i - 1], document, i)
    /\ f[Len(Numbered(document))] = ReadDocument(document)

LEMMA DocumentStepwise ==
    ASSUME NEW S, Opened \in S, NEW document, Len(Numbered(document)) \in Nat,
           \A r \in S, i \in 1 .. Len(Numbered(document)) : Turned(r, document, i) \in S
    PROVE  \E f \in [0 .. Len(Numbered(document)) -> S] : DocumentTrail(f, document)
<1> DEFINE n == Len(Numbered(document))
           step == [i \in 1 .. n |-> [r \in S |-> Turned(r, document, i)]]
<1>1. step \in [1 .. n -> [S -> S]] /\ n \in Nat
  OBVIOUS
<1> HIDE DEF step, n
<1>2. PICK f \in [0 .. n -> S] : Trail(f, n, Opened, step)
  BY <1>1, TrailExists
<1>3. \A i \in 1 .. n : i - 1 \in 0 .. n
  BY <1>1
<1>4. \A i \in 1 .. n : f[i] = Turned(f[i - 1], document, i)
  BY <1>2, <1>3 DEF step, Trail
<1> DEFINE Equation(g) == g = [i \in 0 .. n |->
                IF i = 0 THEN Opened ELSE Turned(g[i - 1], document, i)]
           after == CHOOSE g : Equation(g)
<1>5. Equation(f)
  BY <1>2, <1>4 DEF Trail
<1>6. Equation(after)
  <2> HIDE DEF Equation
  <2> QED
    BY <1>5
<1>7. ReadDocument(document) = after[n]
  BY DEF ReadDocument, Turned, Through, n
<1> HIDE DEF after
<1>8. /\ after[0] = Opened
      /\ \A i \in 1 .. n : after[i] = Turned(after[i - 1], document, i)
  BY <1>1, <1>6
<1>9. Retraces(after, n, S, Opened, step)
  BY <1>8 DEF step, Retraces
<1> HIDE DEF Equation
<1>10. after[n] = f[n]
  BY <1>1, <1>2, <1>9, TrailIsTheOnlyOne
<1> QED
  BY <1>2, <1>4, <1>7, <1>10 DEF n, Trail, DocumentTrail

\* The sections of a document, one after another.
Chunked(sections, titles) ==
    Through(LAMBDA found, section : AddChunks(found, section, titles), << >>, sections)

ChunksTrail(f, sections, titles) ==
    /\ f[0] = << >>
    /\ \A i \in 1 .. Len(sections) : f[i] = AddChunks(f[i - 1], sections[i], titles)
    /\ f[Len(sections)] = Chunked(sections, titles)

LEMMA ChunksStepwise ==
    ASSUME NEW S, << >> \in S, NEW sections, Len(sections) \in Nat, NEW titles,
           \A found \in S, i \in 1 .. Len(sections) : AddChunks(found, sections[i], titles) \in S
    PROVE  \E f \in [0 .. Len(sections) -> S] : ChunksTrail(f, sections, titles)
<1> DEFINE n == Len(sections)
           step == [i \in 1 .. n |-> [found \in S |-> AddChunks(found, sections[i], titles)]]
<1>1. step \in [1 .. n -> [S -> S]] /\ n \in Nat
  OBVIOUS
<1> HIDE DEF step, n
<1>2. PICK f \in [0 .. n -> S] : Trail(f, n, << >>, step)
  BY <1>1, TrailExists
<1>3. \A i \in 1 .. n : i - 1 \in 0 .. n
  BY <1>1
<1>4. \A i \in 1 .. n : f[i] = AddChunks(f[i - 1], sections[i], titles)
  BY <1>2, <1>3 DEF step, Trail
<1> DEFINE Equation(g) == g = [i \in 0 .. n |->
                IF i = 0 THEN << >> ELSE AddChunks(g[i - 1], sections[i], titles)]
           after == CHOOSE g : Equation(g)
<1>5. Equation(f)
  BY <1>2, <1>4 DEF Trail
<1>6. Equation(after)
  <2> HIDE DEF Equation
  <2> QED
    BY <1>5
<1>7. Chunked(sections, titles) = after[n]
  BY DEF Chunked, Through, n
<1> HIDE DEF after
<1>8. /\ after[0] = << >>
      /\ \A i \in 1 .. n : after[i] = AddChunks(after[i - 1], sections[i], titles)
  BY <1>1, <1>6
<1>9. Retraces(after, n, S, << >>, step)
  BY <1>8 DEF step, Retraces
<1> HIDE DEF Equation
<1>10. after[n] = f[n]
  BY <1>1, <1>2, <1>9, TrailIsTheOnlyOne
<1> QED
  BY <1>2, <1>4, <1>7, <1>10 DEF n, Trail, ChunksTrail

-----------------------------------------------------------------------------
(* Positions *)

LEMMA LeastOfSome ==
    ASSUME NEW D, D \subseteq Nat, D # {}
    PROVE  \E d \in D : \A e \in D : d <= e
<1> DEFINE L == OpToRel(<, Nat)
<1>1. \A a, b \in Nat : <<a, b>> \in L <=> a < b
  BY DEF OpToRel
<1>2. IsWellFoundedOn(L, Nat)
  BY NatLessThanWellFounded
<1> HIDE DEF L
<1>3. PICK d \in D : \A e \in D : ~(<<e, d>> \in L)
  BY <1>2, WFMin
<1>4. \A e \in D : d \in Nat /\ e \in Nat /\ ~(e < d)
  BY <1>1, <1>3
<1>5. \A e \in D : d <= e
  BY <1>4
<1> QED
  BY <1>5

LEMMA MinOfSome ==
    ASSUME NEW S, S \subseteq Int, S # {}, NEW b \in Int, \A x \in S : b <= x
    PROVE  Min(S) \in S /\ \A y \in S : Min(S) <= y
<1> DEFINE D == {x - b : x \in S}
<1>1. D \subseteq Nat /\ D # {}
  <2>1. \A x \in S : x \in Int
    OBVIOUS
  <2>2. \A x \in S : x - b \in Nat
    BY <2>1
  <2> QED
    BY <2>2
<1>2. PICK d \in D : \A e \in D : d <= e
  <2> HIDE DEF D
  <2> QED
    BY <1>1, LeastOfSome
<1>3. PICK x \in S : d = x - b
  BY <1>2
<1>4. \A y \in S : x <= y
  BY <1>2, <1>3
<1> QED
  BY <1>4 DEF Min

LEMMA MaxOfSome ==
    ASSUME NEW S, S \subseteq Int, S # {}, NEW b \in Int, \A x \in S : x <= b
    PROVE  Max(S) \in S /\ \A y \in S : y <= Max(S)
<1> DEFINE D == {b - x : x \in S}
<1>1. D \subseteq Nat /\ D # {}
  <2>1. \A x \in S : x \in Int
    OBVIOUS
  <2>2. \A x \in S : b - x \in Nat
    BY <2>1
  <2> QED
    BY <2>2
<1>2. PICK d \in D : \A e \in D : d <= e
  <2> HIDE DEF D
  <2> QED
    BY <1>1, LeastOfSome
<1>3. PICK x \in S : d = b - x
  BY <1>2
<1>4. \A y \in S : x >= y
  BY <1>2, <1>3
<1> QED
  BY <1>4 DEF Max

Entry == [page : Nat, line : Line]

LEMMA Sizes ==
    ASSUME NEW lines \in Seq(Entry), NEW i \in DOMAIN lines
    PROVE  /\ lines[i].line \in Line
           /\ lines[i].line.size \in Nat
           /\ lines[i].line.stops \subseteq Nat
           /\ ~IsBlank(lines[i].line) => lines[i].line.size > 0
<1>1. lines[i] \in Entry
  OBVIOUS
<1>2. lines[i].line \in Line
  BY <1>1 DEF Entry
<1> QED
  BY <1>2, ChunkingAssumption DEF LineForm

\* Where each line begins, one line after another.
CursorTrail(f, lines) ==
    /\ f[0] = 0
    /\ \A k \in 1 .. Len(lines) : f[k] = f[k - 1] + lines[k].line.size + 1
    /\ \A i \in 1 .. Len(lines) : Cursor(lines, i) = f[i - 1]

LEMMA CursorStepwise ==
    ASSUME NEW lines \in Seq(Entry)
    PROVE  \E f \in [0 .. Len(lines) -> Nat] : CursorTrail(f, lines)
<1> DEFINE n == Len(lines)
           step == [k \in 1 .. n |-> [c \in Nat |-> c + lines[k].line.size + 1]]
<1>1. /\ n \in Nat
      /\ \A k \in 1 .. n : lines[k].line.size \in Nat
  BY Sizes
<1>2. step \in [1 .. n -> [Nat -> Nat]]
  BY <1>1
<1> HIDE DEF step, n
<1>3. PICK f \in [0 .. n -> Nat] : Trail(f, n, 0, step)
  BY <1>1, <1>2, TrailExists
<1>4. \A k \in 1 .. n : f[k] = f[k - 1] + lines[k].line.size + 1
  <2>1. \A k \in 1 .. n : k - 1 \in 0 .. n
    BY <1>1
  <2> QED
    BY <1>3, <2>1 DEF step, Trail
<1>5. ASSUME NEW i \in 1 .. n
      PROVE  Cursor(lines, i) = f[i - 1]
  <2> DEFINE Equation(g) == g = [j \in 1 .. i |->
                  IF j = 1 THEN 0 ELSE g[j - 1] + lines[j - 1].line.size + 1]
             begins == CHOOSE g : Equation(g)
             h == [j \in 1 .. i |-> f[j - 1]]
  <2>1. Equation(h)
    <3>1. \A j \in 1 .. i : j # 1 => j - 1 \in 1 .. i /\ j - 1 \in 1 .. n
      BY <1>1
    <3>2. \A j \in 1 .. i : h[j] = IF j = 1 THEN 0 ELSE h[j - 1] + lines[j - 1].line.size + 1
      BY <1>3, <1>4, <3>1 DEF Trail
    <3> QED
      BY <3>2
  <2>2. Equation(begins)
    <3> HIDE DEF Equation, h
    <3> QED
      BY <2>1
  <2>3. Cursor(lines, i) = begins[i]
    BY DEF Cursor
  <2> HIDE DEF begins
  <2> DEFINE T == {k \in 0 .. n : k < i => begins[k + 1] = f[k]}
  <2>4. 0 \in T
    BY <1>1, <1>3, <2>2 DEF Trail
  <2>5. ASSUME NEW k \in 0 .. n, k \in T, k < n
        PROVE  k + 1 \in T
    <3>1. CASE k + 1 < i
      <4>1. k + 2 \in 1 .. i /\ (k + 2) - 1 = k + 1 /\ k + 2 # 1 /\ k + 1 \in 1 .. n
        BY <1>1, <3>1
      <4>2. begins[k + 2] = begins[k + 1] + lines[k + 1].line.size + 1
        BY <2>2, <4>1
      <4>3. begins[k + 1] = f[k]
        BY <2>5, <3>1
      <4>4. f[k + 1] = f[k] + lines[k + 1].line.size + 1
        BY <1>4, <4>1
      <4> QED
        BY <1>1, <4>1, <4>2, <4>3, <4>4
    <3>2. CASE ~(k + 1 < i)
      BY <1>1, <2>5, <3>2
    <3> QED
      BY <3>1, <3>2
  <2> HIDE DEF T, Equation
  <2>6. \A k \in 0 .. n : k \in T
    BY <1>1, <2>4, <2>5, KeptThroughout
  <2>7. i - 1 \in T /\ i - 1 < i /\ (i - 1) + 1 = i
    BY <1>1, <2>6
  <2> QED
    BY <2>3, <2>7 DEF T
<1> QED
  BY <1>3, <1>4, <1>5 DEF Trail, n, CursorTrail

\* A line begins one newline after the end of the line before it.
LEMMA CursorSteps ==
    ASSUME NEW lines \in Seq(Entry)
    PROVE  /\ lines # << >> => Cursor(lines, 1) = 0
           /\ \A i \in DOMAIN lines : Cursor(lines, i) \in Nat
           /\ \A i \in DOMAIN lines : i + 1 \in DOMAIN lines =>
                 Cursor(lines, i + 1) = Cursor(lines, i) + lines[i].line.size + 1
<1> DEFINE n == Len(lines)
<1>1. n \in Nat /\ DOMAIN lines = 1 .. n /\ (lines # << >> => 1 \in 1 .. n)
  OBVIOUS
<1>2. PICK f \in [0 .. n -> Nat] : CursorTrail(f, lines)
  BY CursorStepwise
<1>3. \A i \in 1 .. n : i - 1 \in 0 .. n /\ (i + 1) - 1 = i
  BY <1>1
<1> QED
  BY <1>1, <1>2, <1>3 DEF CursorTrail

LEMMA CursorGrows ==
    ASSUME NEW lines \in Seq(Entry), NEW i \in DOMAIN lines, NEW j \in DOMAIN lines, i < j
    PROVE  Cursor(lines, i) + lines[i].line.size < Cursor(lines, j)
<1> DEFINE n == Len(lines)
           T == {k \in 0 .. n : i < k => Cursor(lines, i) + lines[i].line.size < Cursor(lines, k)}
<1>1. n \in Nat /\ DOMAIN lines = 1 .. n
  OBVIOUS
<1>2. \A k \in 1 .. n : lines[k].line.size \in Nat /\ Cursor(lines, k) \in Nat
  BY <1>1, Sizes, CursorSteps
<1>3. 0 \in T
  BY <1>1
<1>4. ASSUME NEW k \in 0 .. n, k \in T, k < n
      PROVE  k + 1 \in T
  <2>1. CASE i < k + 1
    <3>1. k \in 1 .. n /\ k + 1 \in 1 .. n
      BY <1>1, <1>4, <2>1
    <3>2. Cursor(lines, k + 1) = Cursor(lines, k) + lines[k].line.size + 1
      BY <1>1, <3>1, CursorSteps
    <3>3. k = i \/ i < k
      BY <1>1, <2>1
    <3>4. Cursor(lines, i) + lines[i].line.size < Cursor(lines, k + 1)
      <4>1. CASE k = i
        BY <1>1, <1>2, <3>1, <3>2, <4>1
      <4>2. CASE i < k
        <5>1. Cursor(lines, i) + lines[i].line.size < Cursor(lines, k)
          BY <1>4, <4>2
        <5>2. /\ Cursor(lines, i) + lines[i].line.size \in Nat
              /\ Cursor(lines, k) \in Nat /\ lines[k].line.size \in Nat
          BY <1>1, <1>2, <3>1
        <5> QED
          BY <3>2, <5>1, <5>2
      <4> QED
        BY <3>3, <4>1, <4>2
    <3> QED
      BY <1>1, <3>1, <3>4
  <2>2. CASE ~(i < k + 1)
    BY <1>1, <1>4, <2>2
  <2> QED
    BY <2>1, <2>2
<1> HIDE DEF T
<1>5. \A k \in 0 .. n : k \in T
  BY <1>1, <1>3, <1>4, KeptThroughout
<1>6. j \in T
  BY <1>1, <1>5
<1> QED
  BY <1>6 DEF T

-----------------------------------------------------------------------------
(* The text of a section *)

HasText(lines) == \E i \in DOMAIN lines : ~IsBlank(lines[i].line)

IsText(text) ==
    /\ text.length \in Nat \ {0}
    /\ text.paragraphs \subseteq Int
    /\ text.stops \subseteq Int

\* A section that is not blank has text, which ends no later than its lines.
LEMMA TextOfLines ==
    ASSUME NEW lines \in Seq(Entry), HasText(lines)
    PROVE  /\ IsText(Text(lines))
           /\ Lead(lines) \in Nat
           /\ Lead(lines) + Text(lines).length
                 <= Cursor(lines, Len(lines)) + lines[Len(lines)].line.size
<1> DEFINE n == Len(lines)
           visible == {i \in DOMAIN lines : ~IsBlank(lines[i].line)}
           first == Min(visible)
           last == Max(visible)
<1>1. n \in Nat /\ DOMAIN lines = 1 .. n
  OBVIOUS
<1>2. visible \subseteq Int /\ visible # {}
  BY <1>1 DEF HasText
<1>3. /\ first \in visible /\ last \in visible /\ first <= last
  <2>1. \A x \in visible : 1 <= x
    BY <1>1
  <2>2. \A x \in visible : x <= n
    BY <1>1
  <2>3. 1 \in Int /\ n \in Int
    BY <1>1
  <2> HIDE DEF visible, n
  <2>4. first \in visible
    BY <1>2, <2>1, <2>3, MinOfSome
  <2>5. last \in visible
    BY <1>2, <2>2, <2>3, MaxOfSome
  <2>6. \A y \in visible : y <= last
    BY <1>2, <2>2, <2>3, MaxOfSome
  <2> HIDE DEF first, last
  <2> QED
    BY <2>4, <2>5, <2>6
<1>4. /\ first \in 1 .. n /\ last \in 1 .. n /\ n \in 1 .. n
      /\ ~IsBlank(lines[last].line)
  BY <1>1, <1>3
<1> DEFINE begins(i) == Cursor(lines, i)
           size(i) == lines[i].line.size
<1> HIDE DEF first, last
<1>5. \A i \in 1 .. n : begins(i) \in Nat /\ size(i) \in Nat
  BY <1>1, Sizes, CursorSteps
<1>6. size(last) > 0
  BY <1>1, <1>4, Sizes
<1>7. \A i, j \in 1 .. n : i < j => begins(i) + size(i) < begins(j)
  BY <1>1, CursorGrows
<1>8. Lead(lines) = begins(first)
  BY DEF Lead, first
<1> DEFINE here(k) == k - Lead(lines)
           length == here(begins(last) + size(last))
           paragraphs == {here(begins(i) - 1) :
                              i \in {i \in 2 .. last : IsBlank(lines[i].line)}}
           stops == UNION {{here(begins(i) + k) : k \in lines[i].line.stops} :
                              i \in DOMAIN lines}
<1>9. Text(lines) = [length |-> length, paragraphs |-> paragraphs, stops |-> stops]
  BY DEF Text, last
<1> HIDE DEF begins, size
<1>10. paragraphs \subseteq Int
  <2>1. \A i \in 2 .. last : i \in 1 .. n
    BY <1>1, <1>4
  <2>2. \A i \in 2 .. last : here(begins(i) - 1) \in Int
    BY <1>4, <1>5, <1>8, <2>1
  <2> HIDE DEF here
  <2> QED
    BY <2>2
<1>11. stops \subseteq Int
  <2>1. ASSUME NEW i \in 1 .. n, NEW k \in lines[i].line.stops
        PROVE  here(begins(i) + k) \in Int
    <3>1. k \in Nat
      BY <1>1, <2>1, Sizes
    <3> QED
      BY <1>4, <1>5, <1>8, <3>1
  <2> HIDE DEF here
  <2> QED
    BY <1>1, <2>1
<1>12. /\ begins(first) \in Nat /\ begins(last) \in Nat /\ begins(n) \in Nat
       /\ size(first) \in Nat /\ size(last) \in Nat /\ size(n) \in Nat
       /\ first = last \/ begins(first) + size(first) < begins(last)
       /\ last = n \/ begins(last) + size(last) < begins(n)
  <2> HIDE DEF n
  <2>1. first < last \/ first = last
    BY <1>3, <1>4
  <2>2. last < n \/ last = n
    BY <1>1, <1>4
  <2> QED
    BY <1>4, <1>5, <1>7, <2>1, <2>2
<1>13. length \in Nat \ {0}
  BY <1>6, <1>8, <1>12
<1>14. Lead(lines) + length <= begins(n) + size(n)
  BY <1>8, <1>12
<1> HIDE DEF length, paragraphs, stops
<1>15. /\ Text(lines).length = length /\ Text(lines).paragraphs = paragraphs
       /\ Text(lines).stops = stops
  BY <1>9
<1> QED
  BY <1>8, <1>10, <1>11, <1>12, <1>13, <1>14, <1>15 DEF IsText, begins, size

-----------------------------------------------------------------------------
(* The parts of a text *)

\* A part is never empty and never longer than the cap, and the next one starts
\* within it or where it ends.
LEMMA EndsOfParts ==
    ASSUME NEW text, IsText(text), NEW start \in 0 .. text.length - 1
    PROVE  /\ EndOf(text, start) \in start + 1 .. text.length
           /\ EndOf(text, start) - start \in 1 .. max_chars
           /\ NextStart(start, EndOf(text, start)) \in start + 1 .. EndOf(text, start)
<1> DEFINE cap == Lesser(start + max_chars, text.length)
           within(marks) == {k \in marks : start <= k /\ k + 2 <= cap}
           end == EndOf(text, start)
<1>1. /\ text.length \in Nat /\ start \in Nat /\ start < text.length
      /\ max_chars \in Nat /\ max_chars >= 1
  BY ChunkingAssumption DEF IsText
<1>2. /\ cap \in Nat /\ cap \in start + 1 .. text.length /\ cap - start \in 1 .. max_chars
  BY <1>1 DEF Lesser
<1>3. half \in Nat /\ overlap \in Nat
  BY ChunkingAssumption DEF half, overlap, Lesser
<1>4. ASSUME NEW marks, marks \subseteq Int, NEW least, least \in Nat, least >= 1,
             within(marks) # {}, Max(within(marks)) - start >= least
      PROVE  /\ Max(within(marks)) + 2 \in start + 1 .. text.length
             /\ (Max(within(marks)) + 2) - start \in 1 .. max_chars
  <2>1. ASSUME NEW x \in within(marks)
        PROVE  x \in Int /\ x <= cap
    <3>1. x \in marks /\ x \in Int /\ x + 2 <= cap
      BY <1>4
    <3> HIDE DEF cap
    <3> QED
      BY <1>2, <3>1
  <2>2. Max(within(marks)) \in within(marks)
    <3> HIDE DEF within, cap
    <3> QED
      BY <1>2, <1>4, <2>1, MaxOfSome
  <2> DEFINE k == Max(within(marks))
  <2>3. k \in Int /\ start <= k /\ k + 2 <= cap
    BY <1>4, <2>2
  <2> HIDE DEF k, cap, within
  <2> QED
    BY <1>1, <1>2, <1>4, <2>3 DEF k
<1>5. end \in start + 1 .. text.length /\ end - start \in 1 .. max_chars
  <2>1. Greater(1, half) \in Nat /\ Greater(1, half) >= 1
    BY <1>3 DEF Greater
  <2>2. \/ end = cap
        \/ /\ within(text.paragraphs) # {} /\ Max(within(text.paragraphs)) - start >= 1
           /\ end = Max(within(text.paragraphs)) + 2
        \/ /\ within(text.stops) # {} /\ Max(within(text.stops)) - start >= Greater(1, half)
           /\ end = Max(within(text.stops)) + 2
    BY DEF EndOf
  <2> HIDE DEF within, cap, end
  <2> QED
    BY <1>2, <1>4, <2>1, <2>2 DEF IsText
<1> HIDE DEF end, cap
<1>6. NextStart(start, end) \in start + 1 .. end
  BY <1>1, <1>3, <1>5 DEF NextStart, Greater
<1> QED
  BY <1>5, <1>6 DEF end

Part == [from : Nat, to : Nat]

\* Parts that cover [a, b) and exceed the cap by none.
Cover(parts, a, b) ==
    /\ parts \in Seq(Part)
    /\ \A k \in 1 .. Len(parts) :
          /\ parts[k].from \in a .. b - 1
          /\ parts[k].to - parts[k].from \in 1 .. max_chars
    /\ \A x : x \in a .. b - 1 <=>
          \E k \in 1 .. Len(parts) : x \in parts[k].from .. parts[k].to - 1

LEMMA OnePartCovers ==
    ASSUME NEW a \in Nat, NEW b \in Nat, b - a \in 1 .. max_chars
    PROVE  Cover(<<[from |-> a, to |-> b]>>, a, b)
<1> DEFINE part == [from |-> a, to |-> b]
           parts == <<part>>
<1>1. part \in Part /\ part.from = a /\ part.to = b
  BY DEF Part
<1> HIDE DEF part
<1>2. parts \in Seq(Part) /\ Len(parts) = 1 /\ parts[1] = part
  BY <1>1
<1> HIDE DEF parts
<1>3. \A k \in 1 .. Len(parts) : k = 1
  BY <1>2
<1>4. a \in a .. b - 1 /\ 1 \in 1 .. Len(parts)
  BY <1>2
<1> QED
  BY <1>1, <1>2, <1>3, <1>4 DEF Cover, part, parts

LEMMA PartBeforeCover ==
    ASSUME NEW a \in Nat, NEW c \in Nat, NEW m \in Nat, NEW b \in Nat, NEW rest,
           m - a \in 1 .. max_chars, c \in a + 1 .. m, m < b, Cover(rest, c, b)
    PROVE  Cover(<<[from |-> a, to |-> m]>> \o rest, a, b)
<1> DEFINE part == [from |-> a, to |-> m]
           parts == <<part>> \o rest
           n == Len(rest)
<1>1. part \in Part /\ part.from = a /\ part.to = m
  BY DEF Part
<1>2. rest \in Seq(Part) /\ n \in Nat
  BY DEF Cover
<1> HIDE DEF part
<1>3. /\ parts \in Seq(Part) /\ Len(parts) = n + 1 /\ parts[1] = part
      /\ \A k \in 1 .. n : parts[k + 1] = rest[k]
  BY <1>1, <1>2
<1> HIDE DEF parts, n
<1>4. \A k \in 1 .. n + 1 : k = 1 \/ (k - 1 \in 1 .. n /\ parts[k] = rest[k - 1])
  <2>1. \A k \in 1 .. n + 1 : k = 1 \/ (k - 1 \in 1 .. n /\ (k - 1) + 1 = k)
    BY <1>2
  <2> QED
    BY <1>3, <2>1
<1>5. \A k \in 1 .. n + 1 : /\ parts[k].from \in a .. b - 1
                            /\ parts[k].to - parts[k].from \in 1 .. max_chars
  <2>1. \A k \in 1 .. n : /\ rest[k].from \in c .. b - 1
                          /\ rest[k].to - rest[k].from \in 1 .. max_chars
    BY DEF Cover, n
  <2>2. \A x \in c .. b - 1 : x \in a .. b - 1
    OBVIOUS
  <2>3. a \in a .. b - 1
    OBVIOUS
  <2> QED
    BY <1>1, <1>3, <1>4, <2>1, <2>2, <2>3
<1>6. ASSUME NEW x
      PROVE  x \in a .. b - 1 <=>
                \E k \in 1 .. n + 1 : x \in parts[k].from .. parts[k].to - 1
  <2>1. x \in a .. b - 1 <=> x \in a .. m - 1 \/ x \in c .. b - 1
    OBVIOUS
  <2>2. x \in c .. b - 1 <=> \E k \in 1 .. n : x \in rest[k].from .. rest[k].to - 1
    BY DEF Cover, n
  <2>3. \A k \in 1 .. n : k + 1 \in 1 .. n + 1
    BY <1>2
  <2>4. 1 \in 1 .. n + 1
    BY <1>2
  <2> QED
    BY <1>1, <1>3, <1>4, <2>1, <2>2, <2>3, <2>4
<1> QED
  BY <1>3, <1>5, <1>6 DEF Cover, parts, part

\* What is left of a text from a start on, given the parts of what follows.
PartsFrom(text, later, start) ==
    LET end == EndOf(text, start)
        part == <<[from |-> start, to |-> end]>>
    IN IF end >= text.length THEN part
       ELSE part \o later[NextStart(start, end)]

\* Each start is cut from its part and the parts of a later one, so there is one
\* way to cut them all, from the last back to the first.
LEMMA PartsExist ==
    ASSUME NEW text, IsText(text)
    PROVE  \E g : g = [start \in 0 .. text.length |-> PartsFrom(text, g, start)]
<1> DEFINE n == text.length
           From(k) == n - k .. n
           T == {k \in 0 .. n : \E g : g = [start \in From(k) |-> PartsFrom(text, g, start)]}
<1>1. n \in Nat /\ n > 0
  BY DEF IsText
<1>2. \A start \in 0 .. n - 1 :
         EndOf(text, start) < n => NextStart(start, EndOf(text, start)) \in start + 1 .. n
  <2>1. ASSUME NEW start \in 0 .. n - 1
        PROVE  NextStart(start, EndOf(text, start)) \in start + 1 .. n
    <3>1. /\ EndOf(text, start) \in start + 1 .. n
          /\ NextStart(start, EndOf(text, start)) \in start + 1 .. EndOf(text, start)
      BY <2>1, EndsOfParts
    <3> HIDE DEF n
    <3> QED
      BY <1>1, <3>1
  <2> QED
    BY <2>1
<1>3. EndOf(text, n) = n
  <2>1. Lesser(n + max_chars, n) = n
    BY <1>1, ChunkingAssumption DEF Lesser
  <2> QED
    BY <2>1 DEF EndOf
<1> HIDE DEF n
<1>4. \A g, h, start :
         EndOf(text, start) >= n => PartsFrom(text, g, start) = PartsFrom(text, h, start)
  BY DEF PartsFrom, n
<1>5. \A g, h, start :
         (LET next == NextStart(start, EndOf(text, start)) IN g[next] = h[next])
            => PartsFrom(text, g, start) = PartsFrom(text, h, start)
  BY DEF PartsFrom
<1>6. 0 \in T
  <2> DEFINE g == [start \in From(0) |-> PartsFrom(text, << >>, start)]
  <2>1. \A start \in From(0) : start = n
    BY <1>1
  <2>2. \A start \in From(0) : PartsFrom(text, << >>, start) = PartsFrom(text, g, start)
    <3> HIDE DEF g
    <3>1. n >= n
      BY <1>1
    <3> QED
      BY <1>3, <1>4, <2>1, <3>1
  <2>3. g = [start \in From(0) |-> PartsFrom(text, g, start)]
    <3> DEFINE h == [start \in From(0) |-> PartsFrom(text, g, start)]
    <3>1. \A start \in From(0) : g[start] = PartsFrom(text, << >>, start)
      OBVIOUS
    <3>2. DOMAIN g = From(0) /\ g = [start \in From(0) |-> g[start]]
      OBVIOUS
    <3> HIDE DEF g
    <3> QED
      BY <2>2, <3>1, <3>2
  <2> HIDE DEF g
  <2> QED
    BY <1>1, <2>3
<1>7. ASSUME NEW k \in 0 .. n, k \in T, k < n
      PROVE  k + 1 \in T
  <2>1. PICK g : g = [start \in From(k) |-> PartsFrom(text, g, start)]
    BY <1>7
  <2> DEFINE s == n - (k + 1)
             h == [start \in From(k + 1) |->
                     IF start = s THEN PartsFrom(text, g, start) ELSE g[start]]
  <2>2. /\ s \in 0 .. n - 1 /\ k + 1 \in 0 .. n
        /\ \A start \in From(k + 1) : start = s \/ start \in From(k)
        /\ \A start \in From(k) : start \in From(k + 1) /\ start # s
    BY <1>1, <1>7
  <2> HIDE DEF s
  <2>3. \A start \in From(k) : h[start] = g[start]
    BY <2>2
  <2>4. \A start \in From(k + 1) : h[start] = PartsFrom(text, g, start)
    <3>1. \A start \in From(k) : g[start] = PartsFrom(text, g, start)
      BY <2>1
    <3> HIDE DEF From
    <3> QED
      BY <2>2, <3>1
  <2>5. ASSUME NEW start \in From(k + 1)
        PROVE  PartsFrom(text, g, start) = PartsFrom(text, h, start)
    <3> DEFINE next == NextStart(start, EndOf(text, start))
    <3>1. start \in 0 .. n /\ s <= start
      BY <1>1, <1>7 DEF s
    <3>2. CASE EndOf(text, start) >= n
      BY <1>4, <3>2
    <3>3. CASE ~(EndOf(text, start) >= n)
      <4>1. start # n
        BY <1>1, <1>3, <3>3
      <4>2. start \in 0 .. n - 1
        BY <1>1, <3>1, <4>1
      <4>3. EndOf(text, start) < n
        <5>1. EndOf(text, start) \in start + 1 .. n
          BY <4>2, EndsOfParts DEF n
        <5> QED
          BY <1>1, <3>1, <3>3, <5>1
      <4>4. next \in start + 1 .. n
        BY <1>2, <4>2, <4>3
      <4>5. next \in From(k)
        <5> HIDE DEF next
        <5> QED
          BY <1>1, <1>7, <3>1, <4>4 DEF s
      <4>6. g[next] = h[next]
        <5> HIDE DEF next, h, From
        <5> QED
          BY <2>3, <4>5
      <4> HIDE DEF h
      <4> QED
        BY <1>5, <4>6
    <3> QED
      BY <3>2, <3>3
  <2>6. h = [start \in From(k + 1) |-> h[start]]
    OBVIOUS
  <2> HIDE DEF h, From
  <2>7. h = [start \in From(k + 1) |-> PartsFrom(text, h, start)]
    BY <2>4, <2>5, <2>6
  <2> QED
    BY <2>2, <2>7
<1> HIDE DEF T
<1>8. \A k \in 0 .. n : k \in T
  BY <1>1, <1>6, <1>7, KeptThroughout
<1>9. PICK g : g = [start \in From(n) |-> PartsFrom(text, g, start)]
  <2>1. n \in T
    BY <1>1, <1>8
  <2> QED
    BY <2>1 DEF T
<1>10. From(n) = 0 .. n
  BY <1>1
<1> QED
  BY <1>9, <1>10 DEF n

\* The parts of a text leave out none of it.
LEMMA SplitCovers ==
    ASSUME NEW text, IsText(text)
    PROVE  Cover(Split(text), 0, text.length)
<1> DEFINE n == text.length
           Equation(g) == g = [start \in 0 .. n |-> PartsFrom(text, g, start)]
           rest == CHOOSE g : Equation(g)
<1>1. n \in Nat /\ n > 0 /\ max_chars \in Nat
  BY ChunkingAssumption DEF IsText
<1>2. Equation(rest)
  <2>1. \E g : Equation(g)
    BY PartsExist
  <2> HIDE DEF Equation
  <2> QED
    BY <2>1
<1>3. CASE n <= max_chars
  <2>1. Split(text) = <<[from |-> 0, to |-> n]>>
    BY <1>3 DEF Split
  <2>2. n - 0 \in 1 .. max_chars
    BY <1>1, <1>3
  <2> HIDE DEF n
  <2> QED
    BY <1>1, <2>1, <2>2, OnePartCovers DEF n
<1>4. CASE ~(n <= max_chars)
  <2>1. Split(text) = rest[0]
    BY <1>4 DEF Split, PartsFrom
  <2> HIDE DEF rest, n
  <2> DEFINE last == n - 1
             T == {k \in 0 .. last : \A s \in last - k .. last : Cover(rest[s], s, n)}
  <2>2. last \in Nat /\ 0 .. last \subseteq 0 .. n /\ last = text.length - 1
    BY <1>1 DEF n
  <2>3. ASSUME NEW s \in 0 .. last, \A t \in s + 1 .. last : Cover(rest[t], t, n)
        PROVE  Cover(rest[s], s, n)
    <3> DEFINE end == EndOf(text, s)
               next == NextStart(s, end)
    <3>1. /\ end \in s + 1 .. n /\ end - s \in 1 .. max_chars
          /\ next \in s + 1 .. end
      BY <2>2, EndsOfParts DEF n
    <3>2. rest[s] = IF end >= n THEN <<[from |-> s, to |-> end]>>
                    ELSE <<[from |-> s, to |-> end]>> \o rest[next]
      <4>1. s \in 0 .. n
        BY <2>2
      <4> QED
        BY <1>2, <4>1 DEF PartsFrom, n
    <3> HIDE DEF end, next, last
    <3>3. s \in Nat /\ end \in Nat /\ next \in Nat
      BY <2>2, <3>1
    <3>4. CASE end >= n
      <4>1. end = n
        BY <1>1, <3>1, <3>4
      <4> QED
        BY <1>1, <3>1, <3>2, <3>3, <3>4, <4>1, OnePartCovers
    <3>5. CASE ~(end >= n)
      <4>1. end < n /\ next \in s + 1 .. last
        BY <1>1, <2>2, <3>1, <3>3, <3>5 DEF n
      <4>2. Cover(rest[next], next, n)
        BY <2>3, <4>1
      <4> QED
        BY <1>1, <3>1, <3>2, <3>3, <3>5, <4>1, <4>2, PartBeforeCover
    <3> QED
      BY <3>4, <3>5
  <2>4. 0 \in T
    <3>1. last - 0 = last /\ last \in 0 .. last /\ 0 \in 0 .. last
      BY <2>2
    <3>2. Cover(rest[last], last, n)
      <4>1. \A t \in last + 1 .. last : FALSE
        BY <2>2
      <4> HIDE DEF last
      <4> QED
        BY <2>3, <3>1, <4>1
    <3> HIDE DEF last
    <3>3. \A s \in last - 0 .. last : s = last
      BY <2>2
    <3> QED
      BY <3>1, <3>2, <3>3
  <2>5. ASSUME NEW k \in 0 .. last, k \in T, k < last
        PROVE  k + 1 \in T
    <3> DEFINE s == last - (k + 1)
    <3> HIDE DEF last
    <3>1. /\ s \in 0 .. last /\ k + 1 \in 0 .. last
          /\ \A t \in s + 1 .. last : t \in last - k .. last
          /\ \A t \in last - (k + 1) .. last : t = s \/ t \in last - k .. last
      BY <2>2, <2>5
    <3>2. \A t \in last - k .. last : Cover(rest[t], t, n)
      BY <2>5
    <3> HIDE DEF s
    <3>3. Cover(rest[s], s, n)
      BY <2>3, <3>1, <3>2
    <3> QED
      BY <3>1, <3>2, <3>3
  <2> HIDE DEF T, last
  <2>6. \A k \in 0 .. last : k \in T
    BY <2>2, <2>4, <2>5, KeptThroughout
  <2>7. last \in T /\ 0 \in last - last .. last
    BY <2>2, <2>6
  <2>8. Cover(rest[0], 0, n)
    BY <2>7 DEF T
  <2> QED
    BY <2>1, <2>8 DEF n
<1> QED
  BY <1>3, <1>4

-----------------------------------------------------------------------------
(* Paths *)

\* What a line can open.
Heads == [kind : Kind, id : Seq(Nat)]

Extends(p, q) ==
    /\ q.kind = "numbered"
    /\ p.kind = "numbered" => IsStrictPrefix(p.id, q.id)

\* Not only neighbours: of any two elements the later extends the earlier, which
\* is what survives leaving some of them out.
Nested(path) ==
    \A i, j \in 1 .. Len(path) : i < j => Extends(path[i], path[j])

PathOK(path) ==
    /\ path \in Seq(Heads \cup {Preamble})
    /\ path # << >>
    /\ Nested(path)
    /\ (\E i \in 1 .. Len(path) : path[i] = Preamble) => path = <<Preamble>>

LEMMA PreambleIsNoHead == Preamble \notin Heads
BY DEF Preamble, Heads, Kind

LEMMA NestedAppend ==
    ASSUME NEW S, NEW path \in Seq(S), Nested(path), NEW p \in S,
           \A i \in 1 .. Len(path) : Extends(path[i], p)
    PROVE  Nested(Append(path, p))
<1> DEFINE n == Len(path)
           q == Append(path, p)
<1>1. /\ n \in Nat /\ Len(q) = n + 1 /\ q[n + 1] = p
      /\ \A i \in 1 .. n : q[i] = path[i]
  OBVIOUS
<1> HIDE DEF q, n
<1>2. ASSUME NEW i \in 1 .. n + 1, NEW j \in 1 .. n + 1, i < j
      PROVE  Extends(q[i], q[j])
  <2>1. i \in 1 .. n /\ (j = n + 1 \/ j \in 1 .. n)
    BY <1>1, <1>2
  <2> QED
    BY <1>1, <1>2, <2>1 DEF Nested, n
<1> QED
  BY <1>1, <1>2 DEF Nested, q

\* What a heading keeps of a path is nested, and the heading extends all of it.
LEMMA AncestorsNest ==
    ASSUME NEW path, PathOK(path), path # <<Preamble>>,
           NEW heading \in Heads, heading.kind = "numbered"
    PROVE  /\ Ancestors(path, heading) \in Seq(Heads)
           /\ Nested(Ancestors(path, heading))
           /\ \A i \in 1 .. Len(Ancestors(path, heading)) :
                 Extends(Ancestors(path, heading)[i], heading)
<1> DEFINE n == Len(path)
           S == Seq(Heads)
           Good(q, k) ==
              /\ Nested(q)
              /\ \A i \in 1 .. Len(q) : /\ Extends(q[i], heading)
                                        /\ \E l \in 1 .. k : q[i] = path[l]
<1>1. n \in Nat /\ \A i \in 1 .. n : path[i] \in Heads
  BY DEF PathOK
<1>2. ASSUME NEW q \in S, NEW i \in 1 .. n
      PROVE  Kept(q, path[i], heading) \in S
  <2>1. path[i] \in Heads
    BY <1>1
  <2> QED
    BY <2>1 DEF Kept
<1>3. PICK f \in [0 .. n -> S] : AncestorsTrail(f, path, heading)
  <2>1. << >> \in S
    OBVIOUS
  <2> HIDE DEF S
  <2> QED
    BY <1>1, <1>2, <2>1, AncestorsStepwise
<1> DEFINE T == {k \in 0 .. n : Good(f[k], k)}
<1>4. 0 \in T
  <2>1. f[0] = << >> /\ Len(<< >>) = 0
    BY <1>3 DEF AncestorsTrail
  <2> QED
    BY <1>1, <2>1 DEF Nested
<1>5. ASSUME NEW k \in 0 .. n, k \in T, k < n
      PROVE  k + 1 \in T
  <2> DEFINE q == f[k]
             p == path[k + 1]
  <2>1. k + 1 \in 1 .. n /\ k + 1 \in 0 .. n /\ f[k + 1] = Kept(q, p, heading)
    BY <1>1, <1>3, <1>5 DEF AncestorsTrail
  <2>2. q \in Seq(Heads) /\ p \in Heads /\ Good(q, k)
    BY <1>1, <1>5, <2>1
  <2>3. \A l \in 1 .. k : l \in 1 .. k + 1 /\ l \in 1 .. n /\ l < k + 1
    BY <1>1, <1>5
  <2> HIDE DEF q
  <2>4. CASE ~(p.kind # "numbered" \/ IsStrictPrefix(p.id, heading.id))
    <3>1. f[k + 1] = q
      BY <2>1, <2>4 DEF Kept
    <3>2. Good(q, k + 1)
      BY <2>2, <2>3
    <3> QED
      BY <2>1, <3>1, <3>2
  <2>5. CASE p.kind # "numbered" \/ IsStrictPrefix(p.id, heading.id)
    <3> DEFINE r == Append(q, p)
    <3>1. f[k + 1] = r
      BY <2>1, <2>5 DEF Kept
    <3>2. \A i \in 1 .. Len(q) : Extends(q[i], p)
      BY <2>1, <2>2, <2>3 DEF PathOK, Nested
    <3>3. Nested(r)
      <4> HIDE DEF p
      <4> QED
        BY <2>2, <3>2, NestedAppend
    <3>4. Extends(p, heading)
      BY <2>5 DEF Extends
    <3>5. \A i \in 1 .. Len(r) : (i \in 1 .. Len(q) /\ r[i] = q[i]) \/ r[i] = p
      <4> HIDE DEF p
      <4> QED
        BY <2>2
    <3>6. k + 1 \in 1 .. k + 1
      BY <1>1, <1>5
    <3> HIDE DEF r
    <3>7. Good(r, k + 1)
      BY <2>2, <2>3, <3>3, <3>4, <3>5, <3>6
    <3> QED
      BY <2>1, <3>1, <3>7
  <2> QED
    BY <2>4, <2>5
<1> HIDE DEF T
<1>6. \A k \in 0 .. n : k \in T
  BY <1>1, <1>4, <1>5, KeptThroughout
<1>7. n \in T /\ n \in 0 .. n
  BY <1>1, <1>6
<1>8. Good(f[n], n)
  BY <1>7 DEF T
<1> QED
  BY <1>3, <1>7, <1>8 DEF AncestorsTrail

\* A heading nests where it belongs, and starts over where it does not.
LEMMA PushKeepsPaths ==
    ASSUME NEW path, PathOK(path), NEW heading \in Heads
    PROVE  PathOK(Push(path, heading))
<1>1. CASE heading.kind # "numbered" \/ path = <<Preamble>>
  <2> DEFINE q == <<heading>>
  <2>1. Push(path, heading) = q
    BY <1>1 DEF Push
  <2>2. q \in Seq(Heads \cup {Preamble}) /\ q # << >> /\ Len(q) = 1 /\ q[1] \in Heads
    OBVIOUS
  <2> HIDE DEF q
  <2>3. \A i \in 1 .. Len(q) : i = 1
    BY <2>2
  <2> QED
    BY <2>1, <2>2, <2>3, PreambleIsNoHead DEF PathOK, Nested
<1>2. CASE ~(heading.kind # "numbered" \/ path = <<Preamble>>)
  <2> DEFINE kept == Ancestors(path, heading)
             q == Append(kept, heading)
  <2>1. Push(path, heading) = q
    BY <1>2 DEF Push
  <2>2. /\ kept \in Seq(Heads) /\ Nested(kept)
        /\ \A i \in 1 .. Len(kept) : Extends(kept[i], heading)
    BY <1>2, AncestorsNest
  <2> HIDE DEF kept
  <2>3. Nested(q)
    BY <2>2, NestedAppend
  <2>4. q \in Seq(Heads) /\ Len(q) = Len(kept) + 1 /\ Len(kept) \in Nat
    BY <2>2
  <2> HIDE DEF q
  <2>5. \A i \in 1 .. Len(q) : q[i] \in Heads
    BY <2>4
  <2>6. q \in Seq(Heads \cup {Preamble}) /\ q # << >>
    BY <2>4
  <2> QED
    BY <2>1, <2>3, <2>5, <2>6, PreambleIsNoHead DEF PathOK
<1> QED
  BY <1>1, <1>2

-----------------------------------------------------------------------------
(* Sections *)

Path == Seq(Heads \cup {Preamble})

Section == [path : Path, lines : Seq(Entry), occurrence : Nat]

\* Sections have text and a path, and no two have one path and one occurrence.
SectionsOK(sections) ==
    /\ sections \in Seq(Section)
    /\ \A i \in 1 .. Len(sections) :
          /\ PathOK(sections[i].path)
          /\ HasText(sections[i].lines)
          /\ sections[i].occurrence < Occurrence(sections, sections[i].path)
    /\ \A i, j \in 1 .. Len(sections) :
          sections[i].path = sections[j].path
          /\ sections[i].occurrence = sections[j].occurrence => i = j

LEMMA OccurrenceCounts ==
    ASSUME NEW sections \in Seq(Section), NEW path
    PROVE  /\ Occurrence(sections, path) \in Nat
           /\ \A s \in Section :
                 Occurrence(Append(sections, s), path) =
                    Occurrence(sections, path) + (IF s.path = path THEN 1 ELSE 0)
<1> DEFINE n == Len(sections)
           Opening == {i \in DOMAIN sections : sections[i].path = path}
<1>1. n \in Nat /\ DOMAIN sections = 1 .. n
  OBVIOUS
<1>2. IsFiniteSet(Opening)
  <2>1. IsFiniteSet(1 .. n)
    BY <1>1, FS_Interval
  <2>2. Opening \in SUBSET (1 .. n)
    BY <1>1
  <2> HIDE DEF Opening, n
  <2> QED
    BY <2>1, <2>2, FS_Subset
<1>3. Occurrence(sections, path) \in Nat
  <2> HIDE DEF Opening
  <2> QED
    BY <1>2, FS_CardinalityType DEF Occurrence, Opening
<1>4. ASSUME NEW s \in Section
      PROVE  Occurrence(Append(sections, s), path) =
                Occurrence(sections, path) + (IF s.path = path THEN 1 ELSE 0)
  <2> DEFINE more == Append(sections, s)
             Reopening == {i \in DOMAIN more : more[i].path = path}
  <2>1. /\ DOMAIN more = 1 .. n + 1 /\ more[n + 1] = s
        /\ \A i \in 1 .. n : more[i] = sections[i]
    BY <1>1
  <2> HIDE DEF more, n
  <2>2. \A i : i \in 1 .. n + 1 <=> i \in 1 .. n \/ i = n + 1
    BY <1>1
  <2>3. n + 1 \notin 1 .. n
    BY <1>1
  <2>4. Reopening = IF s.path = path THEN Opening \cup {n + 1} ELSE Opening
    BY <1>1, <2>1, <2>2
  <2>5. n + 1 \notin Opening
    BY <1>1, <2>3
  <2> HIDE DEF Opening, Reopening
  <2>6. Cardinality(Reopening) = Cardinality(Opening) + (IF s.path = path THEN 1 ELSE 0)
    <3>1. CASE s.path = path
      BY <1>2, <2>4, <2>5, <3>1, FS_AddElement
    <3>2. CASE s.path # path
      BY <1>2, <2>4, <3>2, FS_CardinalityType
    <3> QED
      BY <3>1, <3>2
  <2> QED
    BY <2>6 DEF Occurrence, Opening, Reopening, more
<1> QED
  BY <1>3, <1>4

\* A section that opens a path again takes a number of its own.
LEMMA AnotherSection ==
    ASSUME NEW sections, SectionsOK(sections), NEW path \in Path, PathOK(path),
           NEW lines \in Seq(Entry), HasText(lines)
    PROVE  SectionsOK(Append(sections, [path |-> path, lines |-> lines,
                                        occurrence |-> Occurrence(sections, path)]))
<1> DEFINE n == Len(sections)
           s == [path |-> path, lines |-> lines, occurrence |-> Occurrence(sections, path)]
           more == Append(sections, s)
           count(p) == Occurrence(sections, p)
<1>1. sections \in Seq(Section) /\ n \in Nat
  BY DEF SectionsOK
<1>2. \A p : count(p) \in Nat
  BY <1>1, OccurrenceCounts
<1>3. s \in Section /\ s.path = path /\ s.lines = lines /\ s.occurrence = count(path)
  BY <1>2 DEF Section
<1>4. \A p : Occurrence(more, p) = count(p) + (IF path = p THEN 1 ELSE 0)
  <2> HIDE DEF s
  <2> QED
    BY <1>1, <1>3, OccurrenceCounts
<1> HIDE DEF s
<1>5. /\ more \in Seq(Section) /\ Len(more) = n + 1 /\ more[n + 1] = s
      /\ \A i \in 1 .. n : more[i] = sections[i]
  BY <1>1, <1>3
<1> HIDE DEF more, n, count
<1>6. \A i \in 1 .. n + 1 : i \in 1 .. n \/ i = n + 1
  BY <1>1
<1>7. \A i \in 1 .. n : /\ PathOK(sections[i].path)
                        /\ HasText(sections[i].lines)
                        /\ sections[i].occurrence < count(sections[i].path)
                        /\ sections[i].occurrence \in Nat
  <2>1. \A i \in 1 .. n : sections[i] \in Section
    BY <1>1 DEF n
  <2> QED
    BY <2>1 DEF SectionsOK, Section, n, count
<1>8. ASSUME NEW i \in 1 .. n + 1
      PROVE  /\ PathOK(more[i].path)
             /\ HasText(more[i].lines)
             /\ more[i].occurrence < Occurrence(more, more[i].path)
  <2>1. CASE i \in 1 .. n
    <3>1. /\ more[i] = sections[i] /\ count(sections[i].path) \in Nat
          /\ Occurrence(more, sections[i].path) >= count(sections[i].path)
          /\ Occurrence(more, sections[i].path) \in Nat
      BY <1>2, <1>4, <1>5, <2>1
    <3> QED
      BY <1>7, <2>1, <3>1
  <2>2. CASE i = n + 1
    <3>1. /\ more[i] = s /\ count(path) \in Nat
          /\ Occurrence(more, path) = count(path) + 1
      BY <1>2, <1>4, <1>5, <2>2
    <3> QED
      BY <1>3, <3>1
  <2> QED
    BY <1>6, <2>1, <2>2
<1>9. ASSUME NEW i \in 1 .. n + 1, NEW j \in 1 .. n + 1, more[i].path = more[j].path,
             more[i].occurrence = more[j].occurrence
      PROVE  i = j
  <2>1. ASSUME NEW k \in 1 .. n
        PROVE  ~(sections[k].path = path /\ sections[k].occurrence = count(path))
    BY <1>2, <1>7
  <2>2. CASE i \in 1 .. n /\ j \in 1 .. n
    BY <1>5, <1>9, <2>2 DEF SectionsOK, n
  <2> QED
    BY <1>3, <1>5, <1>6, <1>9, <2>1, <2>2
<1> QED
  BY <1>5, <1>8, <1>9 DEF SectionsOK, more, s

-----------------------------------------------------------------------------
(* Reading *)

Title == [heading : Heads, title : STRING \cup {NoTitle}]

Reading == [sections : Seq(Section), path : Path, body : Seq(Entry),
            titles : SUBSET Title, awaiting : SUBSET Heads]

\* A section that is open has text: that of its heading.
Headed(r) == r.path = <<Preamble>> \/ HasText(r.body)

\* What holds of a reading between two lines.
Sound == {r \in Reading : SectionsOK(r.sections) /\ PathOK(r.path) /\ Headed(r)}

LEMMA ClosedSections ==
    ASSUME NEW r \in Sound
    PROVE  SectionsOK(Closed(r)) /\ Closed(r) \in Seq(Section)
<1>1. /\ SectionsOK(r.sections) /\ PathOK(r.path) /\ r.path \in Path
      /\ r.body \in Seq(Entry)
  BY DEF Sound, Reading
<1>2. CASE \A i \in DOMAIN r.body : IsBlank(r.body[i].line)
  BY <1>1, <1>2 DEF Closed, SectionsOK
<1>3. CASE HasText(r.body)
  <2>1. SectionsOK(Append(r.sections, [path |-> r.path, lines |-> r.body,
                                       occurrence |-> Occurrence(r.sections, r.path)]))
    BY <1>1, <1>3, AnotherSection
  <2>2. SectionsOK(Closed(r))
    BY <1>3, <2>1 DEF Closed, HasText
  <2> QED
    BY <2>2 DEF SectionsOK
<1> QED
  BY <1>2, <1>3 DEF HasText

LEMMA TitledTyped ==
    ASSUME NEW titles \in SUBSET Title, NEW heading \in Heads,
           NEW title \in STRING \cup {NoTitle}
    PROVE  Titled(titles, heading, title) \in SUBSET Title
BY DEF Titled, Title

LEMMA TextStays ==
    ASSUME NEW body \in Seq(Entry), NEW entry \in Entry
    PROVE  /\ HasText(body) => HasText(Append(body, entry))
           /\ ~IsBlank(entry.line) => HasText(Append(body, entry)) /\ HasText(<<entry>>)
<1> DEFINE n == Len(body)
           more == Append(body, entry)
<1>1. /\ n \in Nat /\ DOMAIN body = 1 .. n /\ DOMAIN more = 1 .. n + 1
      /\ more[n + 1] = entry /\ \A i \in 1 .. n : more[i] = body[i] /\ i \in 1 .. n + 1
  OBVIOUS
<1>2. n + 1 \in 1 .. n + 1
  BY <1>1
<1>3. 1 \in DOMAIN <<entry>> /\ <<entry>>[1] = entry
  OBVIOUS
<1> HIDE DEF more, n
<1> QED
  BY <1>1, <1>2, <1>3 DEF HasText, more

LEMMA LinesRead ==
    ASSUME NEW r \in Sound, NEW entry \in Entry, NEW furniture
    PROVE  ReadLine(r, entry, furniture) \in Sound
<1>1. entry.line \in Line /\ entry.line \in LineForm
  BY ChunkingAssumption DEF Entry
<1>2. /\ r.sections \in Seq(Section) /\ r.path \in Path /\ r.body \in Seq(Entry)
      /\ r.titles \in SUBSET Title /\ r.awaiting \in SUBSET Heads
      /\ SectionsOK(r.sections) /\ PathOK(r.path) /\ r \in Reading /\ Headed(r)
  BY DEF Sound, Reading
<1>3. CASE OpensSection(entry.line) /\ entry.line \notin furniture
  <2> DEFINE heading == Heading(entry.line)
             title == TitleOf(entry.line)
             titles == IF title = NoTitle THEN r.titles ELSE Titled(r.titles, heading, title)
             awaiting == IF title = NoTitle /\ TitleBelow(entry.line) THEN {heading} ELSE {}
             path == Push(r.path, heading)
  <2>1. heading \in Heads /\ title \in STRING \cup {NoTitle}
    BY <1>1 DEF Heading, TitleOf, LineForm, Heads
  <2>2. ReadLine(r, entry, furniture) =
           [sections |-> Closed(r), path |-> path, body |-> <<entry>>,
            titles |-> titles, awaiting |-> awaiting]
    BY <1>3 DEF ReadLine, ReadHeading
  <2> HIDE DEF heading, title
  <2>3. titles \in SUBSET Title /\ awaiting \in SUBSET Heads
    BY <1>2, <2>1, TitledTyped
  <2>4. PathOK(path) /\ path \in Path
    BY <1>2, <2>1, PushKeepsPaths DEF PathOK, Path
  <2>5. SectionsOK(Closed(r)) /\ Closed(r) \in Seq(Section)
    BY ClosedSections
  <2>6. <<entry>> \in Seq(Entry) /\ HasText(<<entry>>)
    <3>1. <<entry>> \in Seq(Entry)
      OBVIOUS
    <3>2. ~IsBlank(entry.line)
      BY <1>3 DEF OpensSection, IsBlank
    <3> QED
      BY <1>2, <3>1, <3>2, TextStays
  <2> HIDE DEF path, titles, awaiting
  <2> QED
    BY <2>2, <2>3, <2>4, <2>5, <2>6 DEF Sound, Reading, Headed
<1>4. CASE ~(OpensSection(entry.line) /\ entry.line \notin furniture)
  <2> DEFINE waiting == CHOOSE h \in r.awaiting : TRUE
             titles == IF entry.line.caps /\ r.awaiting # {}
                         THEN Titled(r.titles, waiting, entry.line.words) ELSE r.titles
             awaiting == IF IsBlank(entry.line) THEN r.awaiting ELSE {}
             body == Append(r.body, entry)
  <2>1. ReadLine(r, entry, furniture) =
           [r EXCEPT !.body = body, !.titles = titles, !.awaiting = awaiting]
    BY <1>4 DEF ReadLine, ReadBody
  <2>2. r.awaiting # {} => waiting \in Heads
    BY <1>2
  <2>3. entry.line.words \in STRING \cup {NoTitle}
    BY <1>1 DEF LineForm
  <2> HIDE DEF waiting
  <2>4. titles \in SUBSET Title /\ awaiting \in SUBSET Heads
    BY <1>2, <2>2, <2>3, TitledTyped
  <2>5. body \in Seq(Entry) /\ (HasText(r.body) => HasText(body))
    <3>1. body \in Seq(Entry)
      BY <1>2
    <3>2. HasText(r.body) => HasText(body)
      BY <1>2, TextStays
    <3> QED
      BY <3>1, <3>2
  <2> HIDE DEF titles, awaiting, body
  <2> DEFINE q == [r EXCEPT !.body = body, !.titles = titles, !.awaiting = awaiting]
  <2>6. /\ q \in Reading /\ q.sections = r.sections /\ q.path = r.path
        /\ q.body = body
    BY <1>2, <2>4, <2>5 DEF Reading
  <2> HIDE DEF q
  <2> QED
    BY <1>2, <2>1, <2>5, <2>6 DEF Sound, Headed, q
<1> QED
  BY <1>3, <1>4

LEMMA PagesRead ==
    ASSUME NEW r \in Sound, NEW page \in Seq(Entry), NEW furniture
    PROVE  ReadPage(r, page, furniture) \in Sound
<1> DEFINE n == Len(page)
<1>1. n \in Nat /\ \A i \in 1 .. n : page[i] \in Entry
  OBVIOUS
<1>2. \A q \in Sound, i \in 1 .. n : ReadLine(q, page[i], furniture) \in Sound
  BY <1>1, LinesRead
<1>3. PICK f \in [0 .. n -> Sound] : PageTrail(f, r, page, furniture)
  BY <1>1, <1>2, PageStepwise
<1> QED
  BY <1>1, <1>3 DEF PageTrail

LEMMA OpenedIsSound == Opened \in Sound
<1> DEFINE path == <<Preamble>>
<1>1. /\ path \in Seq(Heads \cup {Preamble}) /\ path # << >> /\ Len(path) = 1
  OBVIOUS
<1>2. PathOK(path)
  <2> HIDE DEF path
  <2>1. \A i \in 1 .. Len(path) : i = 1
    BY <1>1
  <2> QED
    BY <1>1, <2>1 DEF PathOK, Nested, path
<1>3. SectionsOK(<< >>)
  <2>1. << >> \in Seq(Section) /\ \A i \in 1 .. Len(<< >>) : FALSE
    OBVIOUS
  <2> QED
    BY <2>1 DEF SectionsOK
<1>4. << >> \in Seq(Section) /\ << >> \in Seq(Entry)
  OBVIOUS
<1> HIDE DEF path
<1> QED
  BY <1>1, <1>2, <1>3, <1>4 DEF Opened, Sound, Reading, Headed, Path, path

LEMMA Listed ==
    ASSUME NEW S, NEW m \in Nat, NEW g \in [1 .. m -> S]
    PROVE  g \in Seq(S)
OBVIOUS

\* However a document is laid out, its reading is sound.
LEMMA DocumentsRead ==
    ASSUME NEW document \in Seq(Seq(Line))
    PROVE  ReadDocument(document) \in Sound
<1> DEFINE numbered == Numbered(document)
           n == Len(numbered)
<1>1. numbered \in Seq(Seq(Entry)) /\ n \in Nat
  <2>1. \A p \in DOMAIN document : p \in Nat /\ document[p] \in Seq(Line)
    OBVIOUS
  <2> DEFINE Page(p) == [i \in DOMAIN document[p] |-> [page |-> p, line |-> document[p][i]]]
  <2>2. ASSUME NEW p \in DOMAIN document
        PROVE  Page(p) \in Seq(Entry)
    <3> DEFINE m == Len(document[p])
    <3>1. m \in Nat /\ DOMAIN document[p] = 1 .. m
          /\ \A i \in 1 .. m : document[p][i] \in Line
      BY <2>1
    <3>2. \A i \in 1 .. m : [page |-> p, line |-> document[p][i]] \in Entry
      BY <2>1, <3>1 DEF Entry
    <3>3. Page(p) = [i \in 1 .. m |-> [page |-> p, line |-> document[p][i]]]
      BY <3>1
    <3>4. m \in Nat /\ Page(p) \in [1 .. m -> Entry]
      BY <3>1, <3>2, <3>3
    <3> DEFINE g == Page(p)
    <3> HIDE DEF g, m
    <3>5. g \in Seq(Entry)
      BY <3>4, Listed DEF g
    <3> QED
      BY <3>5 DEF g
  <2> DEFINE k == Len(document)
  <2>3. k \in Nat /\ DOMAIN document = 1 .. k
    OBVIOUS
  <2>4. numbered = [p \in 1 .. k |-> Page(p)]
    BY <2>3 DEF Numbered
  <2> HIDE DEF Page, k, numbered
  <2>5. numbered \in [1 .. k -> Seq(Entry)]
    BY <2>2, <2>3, <2>4
  <2> QED
    BY <2>3, <2>5
<1> HIDE DEF numbered
<1>2. \A i \in 1 .. n : numbered[i] \in Seq(Entry)
  BY <1>1
<1>3. \A r \in Sound, i \in 1 .. n : Turned(r, document, i) \in Sound
  BY <1>2, PagesRead DEF Turned, numbered
<1>4. Opened \in Sound
  BY OpenedIsSound
<1>5. PICK f \in [0 .. n -> Sound] : DocumentTrail(f, document)
  BY <1>1, <1>3, <1>4, DocumentStepwise DEF numbered
<1> QED
  BY <1>1, <1>5 DEF DocumentTrail, numbered

-----------------------------------------------------------------------------
(* Chunks *)

CutOf(section) == Split(Text(section.lines))

\* The chunk c is part w of a section's text.
FromPart(c, section, w) ==
    /\ w \in 1 .. Len(CutOf(section))
    /\ c.id = [path |-> section.path, occurrence |-> section.occurrence, ordinal |-> w - 1]
    /\ c.path = section.path
    /\ c.lines = section.lines
    /\ c.part = CutOf(section)[w]
    /\ c.page = PageAt(section.lines, CutOf(section)[w].from + Lead(section.lines))

HasSource(c, sections, k) ==
    \E i \in 1 .. k : \E w \in Nat : FromPart(c, sections[i], w)

HasChunk(found, section, w) == \E j \in 1 .. Len(found) : FromPart(found[j], section, w)

\* The chunks of the first k sections: every part has its chunk, every chunk its
\* part, and no two have one id.
ChunksOf(found, sections, k) ==
    /\ Len(found) \in Nat
    /\ DOMAIN found = 1 .. Len(found)
    /\ \A j \in 1 .. Len(found) : HasSource(found[j], sections, k)
    /\ \A i \in 1 .. k : \A w \in 1 .. Len(CutOf(sections[i])) :
          HasChunk(found, sections[i], w)
    /\ \A i, j \in 1 .. Len(found) : found[i].id = found[j].id => i = j

LEMMA SectionsAreCut ==
    ASSUME NEW lines \in Seq(Entry), HasText(lines)
    PROVE  Cover(Split(Text(lines)), 0, Text(lines).length)
BY TextOfLines, SplitCovers

\* What AddChunks appends.
NewChunks(found, section, titles) ==
    [w \in DOMAIN CutOf(section) |->
        ChunkOf(section, w - 1, CutOf(section)[w], Len(found) + w - 1, titles)]

LEMMA NewChunksAreParts ==
    ASSUME NEW found, NEW section, NEW titles, CutOf(section) \in Seq(Part)
    PROVE  /\ AddChunks(found, section, titles) = found \o NewChunks(found, section, titles)
           /\ \E R : NewChunks(found, section, titles) \in [1 .. Len(CutOf(section)) -> R]
           /\ \A w \in 1 .. Len(CutOf(section)) :
                 FromPart(NewChunks(found, section, titles)[w], section, w)
<1> DEFINE cut == CutOf(section)
           m == Len(cut)
           new == NewChunks(found, section, titles)
           Made(w) == ChunkOf(section, w - 1, cut[w], Len(found) + w - 1, titles)
<1>1. m \in Nat /\ DOMAIN cut = 1 .. m
  OBVIOUS
<1>2. AddChunks(found, section, titles) = found \o new
  BY DEF AddChunks, NewChunks, CutOf
<1>3. new = [w \in 1 .. m |-> Made(w)]
  BY <1>1 DEF NewChunks
<1>4. \A w \in 1 .. m : FromPart(Made(w), section, w)
  <2> SUFFICES ASSUME NEW w \in 1 .. m
               PROVE  FromPart(Made(w), section, w)
    OBVIOUS
  <2> DEFINE id == [path |-> section.path, occurrence |-> section.occurrence,
                    ordinal |-> w - 1]
             page == PageAt(section.lines, cut[w].from + Lead(section.lines))
             title == TitleOfPath(titles, section.path)
  <2>1. Made(w) = [id |-> id, path |-> section.path, part |-> cut[w],
                   lines |-> section.lines, page |-> page, title |-> title]
    BY DEF ChunkOf, ChunkId
  <2> HIDE DEF id, page, title, cut, Made
  <2>2. /\ Made(w).id = id /\ Made(w).path = section.path
        /\ Made(w).lines = section.lines /\ Made(w).part = cut[w] /\ Made(w).page = page
    BY <2>1
  <2> QED
    BY <2>2 DEF FromPart, id, page, cut
<1> HIDE DEF new, Made, cut
<1>5. \A w \in 1 .. m : FromPart(new[w], section, w)
  BY <1>3, <1>4
<1> DEFINE R == {Made(w) : w \in 1 .. m}
<1>6. new \in [1 .. m -> R]
  BY <1>3
<1> HIDE DEF R
<1>7. \E Q : new \in [1 .. m -> Q]
  BY <1>6
<1> QED
  BY <1>2, <1>5, <1>7 DEF new, cut

\* Appending the chunks of one more section.
LEMMA AnotherSectionCut ==
    ASSUME NEW sections, SectionsOK(sections), NEW titles,
           NEW k \in Nat, k + 1 \in 1 .. Len(sections),
           NEW S, NEW found \in Seq(S), ChunksOf(found, sections, k)
    PROVE  ChunksOf(AddChunks(found, sections[k + 1], titles), sections, k + 1)
<1> DEFINE s == sections[k + 1]
           cut == CutOf(s)
           m == Len(cut)
           n == Len(found)
           new == NewChunks(found, s, titles)
           more == AddChunks(found, s, titles)
<1>1. s.lines \in Seq(Entry) /\ HasText(s.lines)
  <2>1. s \in Section
    BY DEF SectionsOK
  <2> QED
    BY <2>1 DEF SectionsOK, Section
<1>2. cut \in Seq(Part) /\ m \in Nat
  <2>1. cut \in Seq(Part)
    BY <1>1, SectionsAreCut DEF Cover, CutOf
  <2> QED
    BY <2>1
<1> HIDE DEF more, new, cut, m
<1>3. /\ more = found \o new
      /\ \E Q : new \in [1 .. m -> Q]
  <2> HIDE DEF s
  <2> QED
    BY <1>2, NewChunksAreParts DEF more, new, cut, m
<1>parts. \A w \in 1 .. m : FromPart(new[w], s, w)
  <2> HIDE DEF s
  <2> QED
    BY <1>2, NewChunksAreParts DEF new, cut, m
<1>ids. \A w \in 1 .. m : /\ new[w].id.path = s.path
                         /\ new[w].id.occurrence = s.occurrence
                         /\ new[w].id.ordinal = w - 1
  <2> HIDE DEF s
  <2> SUFFICES ASSUME NEW w \in 1 .. m
               PROVE  /\ new[w].id.path = s.path
                      /\ new[w].id.occurrence = s.occurrence
                      /\ new[w].id.ordinal = w - 1
    OBVIOUS
  <2>1. new[w].id = [path |-> s.path, occurrence |-> s.occurrence, ordinal |-> w - 1]
    BY <1>parts DEF FromPart
  <2> QED
    BY <2>1
<1>4. /\ n \in Nat /\ Len(more) = n + m /\ DOMAIN more = 1 .. n + m
      /\ \A j \in 1 .. n : more[j] = found[j]
      /\ \A w \in 1 .. m : more[n + w] = new[w]
  <2>1. PICK R : new \in [1 .. m -> R]
    BY <1>3
  <2>2. new \in Seq(R) /\ Len(new) = m
    BY <1>2, <2>1, Listed
  <2> HIDE DEF n
  <2>3. n = Len(found) /\ n \in Nat
    BY DEF n
  <2>4. \A j \in 1 .. n : (found \o new)[j] = found[j]
    BY <2>2, <2>3
  <2>5. \A w \in 1 .. m : (found \o new)[n + w] = new[w]
    BY <1>2, <2>2, <2>3
  <2>6. Len(found \o new) = n + m /\ DOMAIN (found \o new) = 1 .. n + m
    BY <1>2, <2>2, <2>3
  <2> QED
    BY <1>3, <2>3, <2>4, <2>5, <2>6
<1> HIDE DEF s, n
<1>5. /\ \A j \in 1 .. n : HasSource(found[j], sections, k)
      /\ \A i \in 1 .. k : \A w \in 1 .. Len(CutOf(sections[i])) :
            HasChunk(found, sections[i], w)
      /\ \A i, j \in 1 .. n : found[i].id = found[j].id => i = j
  BY DEF ChunksOf, n
<1>6. \A j \in 1 .. n + m : j \in 1 .. n \/ \E w \in 1 .. m : j = n + w
  <2> SUFFICES ASSUME NEW j \in 1 .. n + m, j \notin 1 .. n
               PROVE  \E w \in 1 .. m : j = n + w
    OBVIOUS
  <2>1. j - n \in 1 .. m /\ j = n + (j - n)
    BY <1>2, <1>4
  <2> QED
    BY <2>1
<1>7. \A i \in 1 .. k + 1 : i \in 1 .. k \/ i = k + 1
  OBVIOUS
<1>8. (\A i \in 1 .. k : i \in 1 .. k + 1) /\ k + 1 \in 1 .. k + 1
  OBVIOUS
<1>9. ASSUME NEW j \in 1 .. n + m
      PROVE  HasSource(more[j], sections, k + 1)
  <2>1. CASE j \in 1 .. n
    <3>1. more[j] = found[j] /\ HasSource(found[j], sections, k)
      BY <1>4, <1>5, <2>1
    <3> QED
      BY <1>8, <3>1 DEF HasSource
  <2>2. CASE \E w \in 1 .. m : j = n + w
    <3>1. PICK w \in 1 .. m : j = n + w
      BY <2>2
    <3>2. w \in Nat /\ more[j] = new[w]
      BY <1>2, <1>4, <3>1
    <3>3. FromPart(more[j], sections[k + 1], w)
      BY <1>parts, <3>1, <3>2 DEF s
    <3> QED
      BY <1>8, <3>2, <3>3 DEF HasSource
  <2> QED
    BY <1>6, <2>1, <2>2
<1>10. \A j \in 1 .. n : j \in 1 .. n + m
  BY <1>2, <1>4
<1>11. \A w \in 1 .. m : n + w \in 1 .. n + m
  BY <1>2, <1>4
<1>12. ASSUME NEW i \in 1 .. k + 1, NEW w \in 1 .. Len(CutOf(sections[i]))
       PROVE  HasChunk(more, sections[i], w)
  <2>1. CASE i \in 1 .. k
    <3>1. PICK j \in 1 .. n : FromPart(found[j], sections[i], w)
      BY <1>5, <2>1 DEF HasChunk, n
    <3>2. j \in 1 .. Len(more) /\ more[j] = found[j]
      BY <1>4, <1>10
    <3> QED
      BY <3>1, <3>2 DEF HasChunk
  <2>2. CASE i = k + 1
    <3>1. w \in 1 .. m
      BY <2>2 DEF m, cut, s
    <3>2. /\ n + w \in 1 .. Len(more) /\ more[n + w] = new[w]
          /\ FromPart(new[w], sections[i], w)
      BY <1>parts, <1>4, <1>11, <2>2, <3>1 DEF s
    <3> QED
      BY <3>2 DEF HasChunk
  <2> QED
    BY <1>7, <2>1, <2>2
<1>13. ASSUME NEW j \in 1 .. n, NEW w \in 1 .. m
       PROVE  found[j].id # new[w].id
  <2>1. PICK i \in 1 .. k, v \in Nat : FromPart(found[j], sections[i], v)
    BY <1>5 DEF HasSource
  <2>2. /\ found[j].id.path = sections[i].path
        /\ found[j].id.occurrence = sections[i].occurrence
    BY <2>1 DEF FromPart
  <2>3. /\ new[w].id.path = sections[k + 1].path
        /\ new[w].id.occurrence = sections[k + 1].occurrence
    BY <1>ids DEF s
  <2>4. i \in 1 .. Len(sections) /\ i # k + 1
    BY DEF SectionsOK
  <2> QED
    BY <2>2, <2>3, <2>4 DEF SectionsOK
<1>14. ASSUME NEW v \in 1 .. m, NEW w \in 1 .. m, new[v].id = new[w].id
       PROVE  v = w
  <2>1. new[v].id.ordinal = v - 1 /\ new[w].id.ordinal = w - 1
    BY <1>ids
  <2>2. v - 1 = w - 1
    BY <1>14, <2>1
  <2> QED
    BY <1>2, <2>2
<1>15. ASSUME NEW i \in 1 .. n + m, NEW j \in 1 .. n + m, more[i].id = more[j].id
       PROVE  i = j
  <2>1. CASE i \in 1 .. n /\ j \in 1 .. n
    BY <1>4, <1>5, <1>15, <2>1
  <2>2. CASE i \in 1 .. n /\ \E w \in 1 .. m : j = n + w
    BY <1>4, <1>13, <1>15, <2>2
  <2>3. CASE j \in 1 .. n /\ \E w \in 1 .. m : i = n + w
    BY <1>4, <1>13, <1>15, <2>3
  <2>4. CASE (\E v \in 1 .. m : i = n + v) /\ (\E w \in 1 .. m : j = n + w)
    <3>1. PICK v \in 1 .. m, w \in 1 .. m : i = n + v /\ j = n + w
      BY <2>4
    <3>2. new[v].id = new[w].id
      BY <1>4, <1>15, <3>1
    <3> QED
      BY <1>14, <3>1, <3>2
  <2> QED
    BY <1>6, <2>1, <2>2, <2>3, <2>4
<1>16. n + m \in Nat
  BY <1>2, <1>4
<1>17. ChunksOf(more, sections, k + 1)
  BY <1>4, <1>9, <1>12, <1>15, <1>16 DEF ChunksOf
<1> QED
  BY <1>17 DEF more, s

\* The chunks of a document are those of some sections with paths and text.
ChunksOK(found) ==
    \E sections : SectionsOK(sections) /\ ChunksOf(found, sections, Len(sections))

SectionsOf(document) == Closed(ReadDocument(document))

\* However a document is laid out, its chunks are those of its sections.
LEMMA DocumentsAreChunked ==
    ASSUME NEW document \in Seq(Seq(Line))
    PROVE  /\ SectionsOK(SectionsOf(document))
           /\ ChunksOf(ChunkPages(document), SectionsOf(document), Len(SectionsOf(document)))
<1> DEFINE reading == ReadDocument(document)
           sections == Closed(reading)
           titles == reading.titles
           n == Len(sections)
           Made(i, w, o) == ChunkOf(sections[i], w - 1, CutOf(sections[i])[w], o, titles)
           C == {Made(i, w, o) : i \in 1 .. n, w \in Nat, o \in Int}
           S == Seq(C)
<1>1. SectionsOK(sections) /\ n \in Nat
  <2>1. reading \in Sound
    BY DocumentsRead
  <2> HIDE DEF reading
  <2>2. SectionsOK(sections) /\ sections \in Seq(Section)
    BY <2>1, ClosedSections
  <2> QED
    BY <2>2
<1>2. ChunkPages(document) = Chunked(sections, titles)
  BY DEF ChunkPages, Chunked
<1> HIDE DEF sections, titles, n
<1>3. ASSUME NEW i \in 1 .. n
      PROVE  CutOf(sections[i]) \in Seq(Part)
  <2>1. sections[i].lines \in Seq(Entry) /\ HasText(sections[i].lines)
    <3>1. sections[i] \in Section
      BY <1>1 DEF SectionsOK, n
    <3> QED
      BY <1>1, <3>1 DEF SectionsOK, Section, n
  <2> QED
    BY <2>1, SectionsAreCut DEF Cover, CutOf
<1>4. ASSUME NEW found \in S, NEW i \in 1 .. n
      PROVE  AddChunks(found, sections[i], titles) \in S
  <2> DEFINE s == sections[i]
             m == Len(CutOf(s))
             new == NewChunks(found, s, titles)
  <2>1. CutOf(s) \in Seq(Part) /\ m \in Nat /\ DOMAIN CutOf(s) = 1 .. m
        /\ Len(found) \in Nat
    <3>1. CutOf(s) \in Seq(Part)
      BY <1>3
    <3> QED
      BY <3>1
  <2>2. AddChunks(found, s, titles) = found \o new
    <3> HIDE DEF s
    <3> QED
      BY <2>1, NewChunksAreParts
  <2>3. \A w \in 1 .. m : Made(i, w, Len(found) + w - 1) \in C
    <3>1. \A w \in 1 .. m : w \in Nat /\ Len(found) + w - 1 \in Int
      BY <2>1
    <3> HIDE DEF Made
    <3> QED
      BY <3>1
  <2>4. new = [w \in 1 .. m |-> Made(i, w, Len(found) + w - 1)]
    BY <2>1 DEF NewChunks
  <2> HIDE DEF Made, C, m, new
  <2>5. new \in [1 .. m -> C]
    BY <2>3, <2>4
  <2>6. new \in Seq(C)
    BY <2>1, <2>5, Listed
  <2> QED
    BY <2>2, <2>6
<1> HIDE DEF C
<1>5. << >> \in S
  OBVIOUS
<1>6. PICK f \in [0 .. n -> S] : ChunksTrail(f, sections, titles)
  <2> HIDE DEF S
  <2> QED
    BY <1>1, <1>4, <1>5, ChunksStepwise DEF n
<1> DEFINE T == {k \in 0 .. n : ChunksOf(f[k], sections, k)}
<1>7. 0 \in T
  <2>1. f[0] = << >> /\ 0 \in 0 .. n
    BY <1>1, <1>6 DEF ChunksTrail
  <2>2. Len(<< >>) = 0 /\ DOMAIN << >> = 1 .. 0
    OBVIOUS
  <2>3. \A j \in 1 .. 0 : FALSE
    OBVIOUS
  <2> QED
    BY <2>1, <2>2, <2>3 DEF ChunksOf
<1>8. ASSUME NEW k \in 0 .. n, k \in T, k < n
      PROVE  k + 1 \in T
  <2>1. k \in Nat /\ k + 1 \in 1 .. n /\ (k + 1) - 1 = k
    BY <1>1, <1>8
  <2>2. f[k] \in Seq(C) /\ ChunksOf(f[k], sections, k)
    BY <1>8
  <2>3. f[k + 1] = AddChunks(f[k], sections[k + 1], titles)
    BY <1>6, <2>1 DEF ChunksTrail, n
  <2>4. ChunksOf(AddChunks(f[k], sections[k + 1], titles), sections, k + 1)
    BY <1>1, <2>1, <2>2, AnotherSectionCut DEF n
  <2>5. k + 1 \in 0 .. n
    BY <1>1, <2>1
  <2> QED
    BY <2>3, <2>4, <2>5
<1> HIDE DEF T, S
<1>9. \A k \in 0 .. n : k \in T
  BY <1>1, <1>7, <1>8, KeptThroughout
<1>10. ChunksOf(f[n], sections, n)
  BY <1>1, <1>9 DEF T
<1>11. f[n] = ChunkPages(document)
  BY <1>2, <1>6 DEF ChunksTrail, n
<1> QED
  BY <1>1, <1>10, <1>11 DEF SectionsOf, n, sections, reading

-----------------------------------------------------------------------------
(* The state *)

\* The document is typed, and the chunks are those of some sections: its own,
\* once it has been ingested.
ChunkingInv ==
    /\ pages \in Seq(Seq(Line))
    /\ pages # << >>
    /\ chunks = << >> \/ chunks = ChunkPages(pages)
    /\ ChunksOK(chunks)

LEMMA InitChunkingInv == Init => ChunkingInv
<1> SUFFICES ASSUME Init PROVE ChunkingInv
  OBVIOUS
<1>1. pages \in Seq(Seq(Line)) /\ pages # << >>
  BY DEF Init
<1>2. ChunksOK(<< >>)
  <2>1. /\ Len(<< >>) = 0 /\ DOMAIN << >> = 1 .. 0 /\ << >> \in Seq(Section)
        /\ \A j \in 1 .. 0 : FALSE
    OBVIOUS
  <2>2. SectionsOK(<< >>)
    BY <2>1 DEF SectionsOK
  <2>3. ChunksOf(<< >>, << >>, 0)
    BY <2>1 DEF ChunksOf
  <2> QED
    BY <2>1, <2>2, <2>3 DEF ChunksOK
<1> QED
  BY <1>1, <1>2 DEF Init, ChunkingInv

LEMMA Ingested ==
    ASSUME NEW document \in Seq(Seq(Line)), document # << >>, Ingest(document)
    PROVE  ChunkingInv'
<1>1. ChunksOK(ChunkPages(document))
  BY DocumentsAreChunked DEF ChunksOK
<1>2. pages' = document /\ chunks' = ChunkPages(document)
  BY DEF Ingest
<1>3. ChunksOK(chunks')
  BY <1>1, <1>2
<1> QED
  BY <1>2, <1>3 DEF ChunkingInv, ChunksOK

LEMMA InsertedLine ==
    ASSUME NEW S, NEW s \in Seq(S), NEW i \in DOMAIN s, NEW e \in S
    PROVE  InsertAt(s, i, e) \in Seq(S)
<1>1. Len(s) \in Nat /\ i \in 1 .. Len(s)
  OBVIOUS
<1>2. SubSeq(s, 1, i - 1) \in Seq(S) /\ SubSeq(s, i, Len(s)) \in Seq(S)
  BY <1>1
<1> QED
  BY <1>2 DEF InsertAt

LEMMA NextChunkingInv == ChunkingInv /\ [Next]_vars => ChunkingInv'
<1> SUFFICES ASSUME ChunkingInv, [Next]_vars PROVE ChunkingInv'
  OBVIOUS
<1> DEFINE n == Len(pages)
<1>1. /\ pages \in Seq(Seq(Line)) /\ pages # << >>
      /\ n \in Nat /\ DOMAIN pages = 1 .. n /\ n \in 1 .. n
      /\ \A p \in 1 .. n : pages[p] \in Seq(Line)
  BY DEF ChunkingInv
<1>2. ASSUME NEW p \in 1 .. n, NEW page \in Seq(Line)
      PROVE  /\ [pages EXCEPT ![p] = page] \in Seq(Seq(Line))
             /\ [pages EXCEPT ![p] = page] # << >>
  BY <1>1
<1>3. CASE \E line \in Line : Write(line)
  <2>1. PICK line \in Line : Write(line)
    BY <1>3
  <2>2. Append(pages[n], line) \in Seq(Line)
    BY <1>1
  <2>3. Ingest([pages EXCEPT ![n] = Append(pages[n], line)])
    BY <2>1 DEF Write
  <2> QED
    BY <1>1, <1>2, <2>2, <2>3, Ingested
<1>4. CASE TurnPage
  <2>1. Ingest(Append(pages, << >>))
    BY <1>4 DEF TurnPage
  <2>2. Append(pages, << >>) \in Seq(Seq(Line)) /\ Append(pages, << >>) # << >>
    BY <1>1
  <2> QED
    BY <2>1, <2>2, Ingested
<1>5. CASE \E line \in Prose, p \in DOMAIN pages : \E i \in DOMAIN pages[p] : Revise(p, i, line)
  <2>1. PICK line \in Prose, p \in DOMAIN pages : \E i \in DOMAIN pages[p] : Revise(p, i, line)
    BY <1>5
  <2>2. PICK i \in DOMAIN pages[p] : Revise(p, i, line)
    BY <2>1
  <2>3. line \in Line /\ p \in 1 .. n /\ pages[p] \in Seq(Line)
    BY <1>1, ChunkingAssumption
  <2>4. InsertAt(pages[p], i, line) \in Seq(Line)
    BY <2>3, InsertedLine
  <2>5. Ingest([pages EXCEPT ![p] = InsertAt(pages[p], i, line)])
    BY <2>2 DEF Revise
  <2> QED
    BY <1>2, <2>3, <2>4, <2>5, Ingested
<1>6. CASE UNCHANGED vars
  BY <1>6 DEF ChunkingInv, vars, ChunksOK
<1> QED
  BY <1>3, <1>4, <1>5, <1>6 DEF Next

\* At every moment the chunks stored are those of the sections of the document last
\* ingested: every part of one has its chunk, every chunk its part and its own id.
THEOREM ChunksAreSound == Spec => []ChunkingInv
BY InitChunkingInv, NextChunkingInv, PTL DEF Spec

\* Every chunk is a part of the text of a section that has text and a path.
SourceOf(c, section, w) ==
    /\ PathOK(section.path)
    /\ section.lines \in Seq(Entry)
    /\ HasText(section.lines)
    /\ FromPart(c, section, w)
    /\ \A v \in 1 .. Len(CutOf(section)) : HasChunk(chunks, section, v)

LEMMA ChunksHaveSources ==
    ASSUME ChunksOK(chunks), NEW k \in DOMAIN chunks
    PROVE  \E section, w : SourceOf(chunks[k], section, w)
<1>1. PICK sections : SectionsOK(sections) /\ ChunksOf(chunks, sections, Len(sections))
  BY DEF ChunksOK
<1>2. k \in 1 .. Len(chunks) /\ HasSource(chunks[k], sections, Len(sections))
  BY <1>1 DEF ChunksOf
<1>3. PICK i \in 1 .. Len(sections), w \in Nat : FromPart(chunks[k], sections[i], w)
  BY <1>2 DEF HasSource
<1>4. sections[i] \in Section
  BY <1>1 DEF SectionsOK
<1>5. SourceOf(chunks[k], sections[i], w)
  BY <1>1, <1>3, <1>4 DEF SourceOf, SectionsOK, ChunksOf, Section
<1> QED
  BY <1>5

LEMMA UniqueIdsFromInv == ChunkingInv => ChunkIdsAreUnique
BY DEF ChunkingInv, ChunksOK, ChunksOf, ChunkIdsAreUnique

\* No two chunks of a document share an identity, whatever opens its sections
\* again: _Occurrences and the ids of chunk_pages.
THEOREM UniqueIds == Spec => []ChunkIdsAreUnique
BY ChunksAreSound, UniqueIdsFromInv, PTL

LEMMA NestingPathsFromInv == ChunkingInv => PathsNest
<1> SUFFICES ASSUME ChunkingInv, NEW k \in DOMAIN chunks,
                    NEW path, path = chunks[k].path
             PROVE  /\ path # << >>
                    /\ \A i \in DOMAIN path \ {1} :
                        /\ path[i].kind = "numbered"
                        /\ path[i - 1].kind = "numbered" =>
                              IsStrictPrefix(path[i - 1].id, path[i].id)
                    /\ Preamble \in Range(path) => Len(path) = 1
  BY DEF PathsNest
<1>1. PICK section, w : SourceOf(chunks[k], section, w)
  BY ChunksHaveSources DEF ChunkingInv
<1>2. PathOK(path)
  BY <1>1 DEF SourceOf, FromPart
<1>3. path # << >> /\ Len(path) \in Nat /\ DOMAIN path = 1 .. Len(path)
  BY <1>2 DEF PathOK
<1>4. ASSUME NEW i \in DOMAIN path \ {1}
      PROVE  /\ path[i].kind = "numbered"
             /\ path[i - 1].kind = "numbered" => IsStrictPrefix(path[i - 1].id, path[i].id)
  <2>1. i \in 1 .. Len(path) /\ i - 1 \in 1 .. Len(path) /\ i - 1 < i
    BY <1>3
  <2>2. Extends(path[i - 1], path[i])
    BY <1>2, <2>1 DEF PathOK, Nested
  <2> QED
    BY <2>2 DEF Extends
<1>5. ASSUME Preamble \in Range(path)
      PROVE  Len(path) = 1
  <2>1. PICK i \in DOMAIN path : path[i] = Preamble
    BY <1>5 DEF Range
  <2>2. path = <<Preamble>>
    BY <1>2, <1>3, <2>1 DEF PathOK
  <2> QED
    BY <2>2
<1> QED
  BY <1>3, <1>4, <1>5

\* The paths _push builds are hierarchies.
THEOREM NestingPaths == Spec => []PathsNest
BY ChunksAreSound, NestingPathsFromInv, PTL

LEMMA NothingDroppedFromInv == ChunkingInv => EveryCharacterIsKept
<1> SUFFICES ASSUME ChunkingInv, NEW k \in DOMAIN chunks,
                    NEW parts,
                    parts = {c.part : c \in {c \in Range(chunks) :
                                /\ c.path = chunks[k].path
                                /\ c.lines = chunks[k].lines}}
             PROVE  /\ UNION {p.from .. p.to - 1 : p \in parts}
                          = 0 .. Text(chunks[k].lines).length - 1
                    /\ \A p \in parts : p.to - p.from \in 1 .. max_chars
  BY DEF EveryCharacterIsKept
<1> DEFINE lines == chunks[k].lines
           cut == Split(Text(lines))
           length == Text(lines).length
<1>1. PICK section, w : SourceOf(chunks[k], section, w)
  BY ChunksHaveSources DEF ChunkingInv
<1>2. /\ section.lines = lines /\ section.path = chunks[k].path
      /\ CutOf(section) = cut /\ Cover(cut, 0, length)
  <2>1. section.lines = lines /\ section.path = chunks[k].path
    BY <1>1 DEF SourceOf, FromPart
  <2>2. Cover(Split(Text(section.lines)), 0, Text(section.lines).length)
    BY <1>1, SectionsAreCut DEF SourceOf
  <2> QED
    BY <2>1, <2>2 DEF CutOf
<1>3. ASSUME NEW p \in parts
      PROVE  \E v \in 1 .. Len(cut) : p = cut[v]
  <2>1. PICK j \in DOMAIN chunks : chunks[j].lines = lines /\ p = chunks[j].part
    BY <1>3 DEF Range
  <2>2. PICK other, v : SourceOf(chunks[j], other, v)
    BY ChunksHaveSources DEF ChunkingInv
  <2>3. FromPart(chunks[j], other, v)
    BY <2>2 DEF SourceOf
  <2>4. CutOf(other) = cut
    BY <2>1, <2>3 DEF FromPart, CutOf
  <2> HIDE DEF cut, lines
  <2> QED
    BY <2>1, <2>3, <2>4 DEF FromPart
<1>4. ASSUME NEW v \in 1 .. Len(cut)
      PROVE  cut[v] \in parts
  <2>1. HasChunk(chunks, section, v)
    BY <1>1, <1>2 DEF SourceOf
  <2>2. PICK j \in 1 .. Len(chunks) : FromPart(chunks[j], section, v)
    BY <2>1 DEF HasChunk
  <2>3. j \in DOMAIN chunks
    BY DEF ChunkingInv, ChunksOK, ChunksOf
  <2>4. /\ chunks[j].path = chunks[k].path /\ chunks[j].lines = lines
        /\ chunks[j].part = cut[v]
    BY <1>2, <2>2 DEF FromPart
  <2>5. chunks[j] \in Range(chunks)
    BY <2>3 DEF Range
  <2> HIDE DEF cut
  <2> QED
    BY <2>4, <2>5
<1> HIDE DEF cut, length
<1>5. ASSUME NEW x
      PROVE  x \in UNION {p.from .. p.to - 1 : p \in parts} <=> x \in 0 .. length - 1
  <2>1. x \in UNION {p.from .. p.to - 1 : p \in parts} <=>
           \E p \in parts : x \in p.from .. p.to - 1
    OBVIOUS
  <2>2. (\E p \in parts : x \in p.from .. p.to - 1) <=>
           \E v \in 1 .. Len(cut) : x \in cut[v].from .. cut[v].to - 1
    BY <1>3, <1>4
  <2>3. x \in 0 .. length - 1 <=>
           \E v \in 1 .. Len(cut) : x \in cut[v].from .. cut[v].to - 1
    BY <1>2 DEF Cover
  <2> QED
    BY <2>1, <2>2, <2>3
<1>6. \A p \in parts : p.to - p.from \in 1 .. max_chars
  BY <1>2, <1>3 DEF Cover
<1>7. UNION {p.from .. p.to - 1 : p \in parts} = 0 .. length - 1
  <2> DEFINE kept == UNION {p.from .. p.to - 1 : p \in parts}
             all == 0 .. length - 1
  <2>1. \A x : x \in kept <=> x \in all
    BY <1>5
  <2> HIDE DEF kept, all
  <2>2. kept = all
    BY <2>1
  <2> QED
    BY <2>2 DEF kept, all
<1> QED
  BY <1>6, <1>7 DEF length

\* Whatever the cap and the overlap, the parts _split_text makes of a section
\* leave nothing of it out and exceed the cap by nothing.
THEOREM NothingDropped == Spec => []EveryCharacterIsKept
BY ChunksAreSound, NothingDroppedFromInv, PTL

\* The page of an offset is the page of the line it stands in.
LEMMA PageOfOffset ==
    ASSUME NEW lines \in Seq(Entry), NEW at \in Nat, lines # << >>,
           at < Cursor(lines, Len(lines)) + lines[Len(lines)].line.size,
           NEW i, i = Max({j \in DOMAIN lines : Cursor(lines, j) <= at})
    PROVE  PageAt(lines, at) = IF at < Cursor(lines, i) + lines[i].line.size
                                 THEN lines[i].page ELSE lines[i + 1].page
<1> DEFINE n == Len(lines)
           begins(j) == Cursor(lines, j)
           size(j) == lines[j].line.size
           opened == {j \in DOMAIN lines : begins(j) <= at}
           reached == {j \in DOMAIN lines : at < begins(j) + size(j)}
           r == Min(reached)
<1>1. n \in Nat /\ DOMAIN lines = 1 .. n /\ n >= 1 /\ 1 \in 1 .. n /\ n \in 1 .. n
  OBVIOUS
<1>2. \A j \in 1 .. n : begins(j) \in Nat /\ size(j) \in Nat
  BY <1>1, Sizes, CursorSteps
<1>3. begins(1) = 0
  BY CursorSteps
<1>4. \A j, k \in 1 .. n : j < k => begins(j) + size(j) < begins(k)
  BY <1>1, CursorGrows
<1>5. PageAt(lines, at) = IF reached = {} THEN Last(lines).page ELSE lines[r].page
  BY DEF PageAt
<1>6. i = Max(opened) /\ at < begins(n) + size(n)
  OBVIOUS
<1> HIDE DEF begins, size, n
<1>7. i \in 1 .. n /\ begins(i) <= at /\ \A j \in opened : j <= i
  <2>1. opened \subseteq Int /\ opened # {} /\ \A j \in opened : j <= n
    BY <1>1, <1>3
  <2>2. n \in Int
    BY <1>1
  <2> HIDE DEF opened
  <2>3. Max(opened) \in opened /\ \A j \in opened : j <= Max(opened)
    BY <2>1, <2>2, MaxOfSome
  <2>4. i \in opened /\ \A j \in opened : j <= i
    BY <1>6, <2>3
  <2> QED
    BY <1>1, <2>4 DEF opened
<1>8. r \in 1 .. n /\ at < begins(r) + size(r) /\ (\A j \in reached : r <= j) /\ reached # {}
  <2>1. reached \subseteq Int /\ reached # {} /\ \A j \in reached : 1 <= j
    BY <1>1, <1>6
  <2>2. 1 \in Int
    OBVIOUS
  <2> HIDE DEF reached
  <2>3. r \in reached /\ \A j \in reached : r <= j
    BY <2>1, <2>2, MinOfSome
  <2> QED
    BY <1>1, <2>1, <2>3 DEF reached
<1> HIDE DEF r
<1>9. ~(r < i)
  <2> SUFFICES ASSUME r < i
               PROVE  FALSE
    OBVIOUS
  <2>1. begins(r) + size(r) < begins(i)
    BY <1>4, <1>7, <1>8
  <2>2. /\ begins(r) \in Nat /\ size(r) \in Nat /\ begins(i) \in Nat
        /\ begins(i) <= at /\ at < begins(r) + size(r)
    BY <1>2, <1>7, <1>8
  <2> QED
    BY <2>1, <2>2
<1>10. CASE at < begins(i) + size(i)
  <2>1. i \in reached
    BY <1>1, <1>7, <1>10
  <2>2. r = i
    <3>1. r <= i
      BY <1>8, <2>1
    <3> QED
      BY <1>7, <1>8, <1>9, <3>1
  <2> QED
    BY <1>5, <1>8, <1>10, <2>2 DEF begins, size
<1>11. CASE ~(at < begins(i) + size(i))
  <2>1. i # n
    BY <1>6, <1>11
  <2>2. i + 1 \in 1 .. n
    BY <1>1, <1>7, <2>1
  <2>3. i + 1 \notin opened
    <3> HIDE DEF opened
    <3>1. i \in Nat /\ ~(i + 1 <= i)
      BY <1>1, <1>7
    <3> QED
      BY <1>7, <3>1
  <2>4. at < begins(i + 1)
    BY <1>1, <1>2, <2>2, <2>3
  <2>5. at < begins(i + 1) + size(i + 1)
    <3>1. begins(i + 1) \in Nat /\ size(i + 1) \in Nat
      BY <1>2, <2>2
    <3> QED
      BY <2>4, <3>1
  <2>6. r <= i + 1
    BY <1>1, <1>8, <2>2, <2>5
  <2>7. r # i
    BY <1>8, <1>11
  <2>8. r = i + 1
    BY <1>7, <1>8, <1>9, <2>6, <2>7
  <2> QED
    BY <1>5, <1>8, <1>11, <2>8 DEF begins, size
<1> QED
  BY <1>10, <1>11

LEMMA TruePagesFromInv == ChunkingInv => PagesAreWhereTextStarts
<1> SUFFICES ASSUME ChunkingInv, NEW k \in DOMAIN chunks, NEW at, NEW i,
                    at = chunks[k].part.from + Lead(chunks[k].lines),
                    i = Max({j \in DOMAIN chunks[k].lines :
                                Cursor(chunks[k].lines, j) <= at})
             PROVE  chunks[k].page =
                       IF at < Cursor(chunks[k].lines, i) + chunks[k].lines[i].line.size
                         THEN chunks[k].lines[i].page ELSE chunks[k].lines[i + 1].page
  BY DEF PagesAreWhereTextStarts
<1> DEFINE lines == chunks[k].lines
           n == Len(lines)
<1>1. PICK section, w : SourceOf(chunks[k], section, w)
  BY ChunksHaveSources DEF ChunkingInv
<1>2. /\ section.lines = lines /\ chunks[k].part = CutOf(section)[w]
      /\ w \in 1 .. Len(CutOf(section))
      /\ chunks[k].page = PageAt(section.lines, CutOf(section)[w].from + Lead(section.lines))
  BY <1>1 DEF SourceOf, FromPart
<1>3. lines \in Seq(Entry) /\ HasText(lines)
  BY <1>1, <1>2 DEF SourceOf
<1>4. chunks[k].page = PageAt(lines, at)
  BY <1>2
<1>5. chunks[k].part.from \in 0 .. Text(lines).length - 1
  <2>1. Cover(CutOf(section), 0, Text(lines).length)
    BY <1>2, <1>3, SectionsAreCut DEF CutOf
  <2> QED
    BY <1>2, <2>1 DEF Cover
<1>6. /\ Lead(lines) \in Nat /\ Text(lines).length \in Nat
      /\ Lead(lines) + Text(lines).length <= Cursor(lines, n) + lines[n].line.size
  BY <1>3, TextOfLines DEF IsText
<1>7. /\ lines # << >> /\ n \in DOMAIN lines
      /\ Cursor(lines, n) \in Nat /\ lines[n].line.size \in Nat
  <2>1. lines # << >> /\ n \in DOMAIN lines
    BY <1>3 DEF HasText
  <2> HIDE DEF lines, n
  <2> QED
    BY <1>3, <2>1, Sizes, CursorSteps
<1>8. at = chunks[k].part.from + Lead(lines)
  OBVIOUS
<1>9. i = Max({j \in DOMAIN lines : Cursor(lines, j) <= at})
  OBVIOUS
<1> HIDE DEF lines
<1>10. at \in Nat /\ at < Cursor(lines, n) + lines[n].line.size
  <2> DEFINE from == chunks[k].part.from
             length == Text(lines).length
             end == Cursor(lines, n) + lines[n].line.size
  <2>1. /\ from \in 0 .. length - 1 /\ length \in Nat /\ Lead(lines) \in Nat
        /\ Lead(lines) + length <= end /\ end \in Nat /\ at = from + Lead(lines)
    BY <1>5, <1>6, <1>7, <1>8
  <2> HIDE DEF from, length, end
  <2>2. at \in Nat /\ at < end
    BY <2>1
  <2> QED
    BY <2>2 DEF end
<1>11. PageAt(lines, at) = IF at < Cursor(lines, i) + lines[i].line.size
                            THEN lines[i].page ELSE lines[i + 1].page
  BY <1>3, <1>7, <1>9, <1>10, PageOfOffset
<1> QED
  BY <1>4, <1>11 DEF lines

\* A chunk's page is the one its own text starts on: page_at of chunk_pages.
THEOREM TruePages == Spec => []PagesAreWhereTextStarts
BY ChunksAreSound, TruePagesFromInv, PTL

-----------------------------------------------------------------------------
(* Two readings: of a document, and of it with a line of prose more *)

\* All sections of the one but s are sections of the other, and every path but
\* the preamble's, which opens once, has opened as often.
LeavesOut(sections, others, s) ==
    \A i \in 1 .. Len(sections) :
        sections[i] = s \/ \E j \in 1 .. Len(others) : others[j] = sections[i]

SameCounts(sections, others) ==
    \A path : path # <<Preamble>> => Occurrence(sections, path) = Occurrence(others, path)

AllButOne(sections, others) ==
    (\E s : LeavesOut(sections, others, s)) /\ SameCounts(sections, others)

\* The section with the line more is still open, or is closed.
StillOpen(r, q) ==
    /\ r.sections = q.sections
    /\ HasText(q.body)

GoneBy(r, q) ==
    /\ r.path # <<Preamble>>
    /\ r.body = q.body
    /\ AllButOne(r.sections, q.sections)

Beside(r, q) == r.path = q.path /\ (StillOpen(r, q) \/ GoneBy(r, q))

LEMMA AppendedBoth ==
    ASSUME NEW sections \in Seq(Section), NEW others \in Seq(Section),
           AllButOne(sections, others), NEW s \in Section
    PROVE  AllButOne(Append(sections, s), Append(others, s))
<1> DEFINE n == Len(sections)
           m == Len(others)
           more == Append(sections, s)
           theirs == Append(others, s)
<1>1. /\ n \in Nat /\ Len(more) = n + 1 /\ more[n + 1] = s
      /\ \A i \in 1 .. n : more[i] = sections[i]
      /\ \A i \in 1 .. n + 1 : i \in 1 .. n \/ i = n + 1
  OBVIOUS
<1>2. /\ m \in Nat /\ Len(theirs) = m + 1 /\ theirs[m + 1] = s
      /\ \A j \in 1 .. m : theirs[j] = others[j] /\ j \in 1 .. m + 1
      /\ m + 1 \in 1 .. m + 1
  OBVIOUS
<1>3. PICK out : LeavesOut(sections, others, out)
  BY DEF AllButOne
<1>4. SameCounts(more, theirs)
  <2> SUFFICES ASSUME NEW path, path # <<Preamble>>
               PROVE  Occurrence(more, path) = Occurrence(theirs, path)
    BY DEF SameCounts
  <2>1. Occurrence(sections, path) = Occurrence(others, path)
    BY DEF AllButOne, SameCounts
  <2>2. Occurrence(more, path) = Occurrence(sections, path) + (IF s.path = path THEN 1 ELSE 0)
    BY OccurrenceCounts
  <2>3. Occurrence(theirs, path) = Occurrence(others, path) + (IF s.path = path THEN 1 ELSE 0)
    BY OccurrenceCounts
  <2> QED
    BY <2>1, <2>2, <2>3
<1> HIDE DEF more, theirs, n, m
<1>5. LeavesOut(more, theirs, out)
  <2> SUFFICES ASSUME NEW i \in 1 .. n + 1
               PROVE  more[i] = out \/ \E j \in 1 .. m + 1 : theirs[j] = more[i]
    BY <1>1, <1>2 DEF LeavesOut
  <2>1. CASE i \in 1 .. n
    BY <1>1, <1>2, <1>3, <2>1 DEF LeavesOut, n, m
  <2>2. CASE i = n + 1
    BY <1>1, <1>2, <2>2
  <2> QED
    BY <1>1, <2>1, <2>2
<1> QED
  BY <1>4, <1>5 DEF AllButOne, more, theirs

\* Beside the same sections, one of the preamble more.
LEMMA AppendedToTheirs ==
    ASSUME NEW sections \in Seq(Section), NEW t \in Section, t.path = <<Preamble>>
    PROVE  AllButOne(sections, Append(sections, t))
<1> DEFINE n == Len(sections)
           theirs == Append(sections, t)
<1>1. /\ n \in Nat /\ Len(theirs) = n + 1
      /\ \A j \in 1 .. n : theirs[j] = sections[j] /\ j \in 1 .. n + 1
  OBVIOUS
<1>2. SameCounts(sections, theirs)
  <2> SUFFICES ASSUME NEW path, path # <<Preamble>>
               PROVE  Occurrence(sections, path) = Occurrence(theirs, path)
    BY DEF SameCounts
  <2>1. /\ Occurrence(theirs, path) = Occurrence(sections, path) + (IF t.path = path THEN 1 ELSE 0)
        /\ Occurrence(sections, path) \in Nat
    BY OccurrenceCounts
  <2> QED
    BY <2>1
<1> HIDE DEF theirs, n
<1>3. LeavesOut(sections, theirs, t)
  BY <1>1 DEF LeavesOut, n
<1> QED
  BY <1>2, <1>3 DEF AllButOne, theirs

\* Beside the same sections, a last one of the same path.
LEMMA AppendedDifferently ==
    ASSUME NEW sections \in Seq(Section), NEW s \in Section, NEW t \in Section,
           s.path = t.path
    PROVE  AllButOne(Append(sections, s), Append(sections, t))
<1> DEFINE n == Len(sections)
           more == Append(sections, s)
           theirs == Append(sections, t)
<1>1. /\ n \in Nat /\ Len(more) = n + 1 /\ more[n + 1] = s
      /\ \A i \in 1 .. n : more[i] = sections[i]
      /\ \A i \in 1 .. n + 1 : i \in 1 .. n \/ i = n + 1
  OBVIOUS
<1>2. /\ Len(theirs) = n + 1
      /\ \A j \in 1 .. n : theirs[j] = sections[j] /\ j \in 1 .. n + 1
  OBVIOUS
<1>3. SameCounts(more, theirs)
  <2> SUFFICES ASSUME NEW path
               PROVE  Occurrence(more, path) = Occurrence(theirs, path)
    BY DEF SameCounts
  <2>1. Occurrence(more, path) = Occurrence(sections, path) + (IF s.path = path THEN 1 ELSE 0)
    BY OccurrenceCounts
  <2>2. Occurrence(theirs, path) = Occurrence(sections, path) + (IF t.path = path THEN 1 ELSE 0)
    BY OccurrenceCounts
  <2> QED
    BY <2>1, <2>2
<1> HIDE DEF more, theirs, n
<1>4. LeavesOut(more, theirs, s)
  BY <1>1, <1>2 DEF LeavesOut
<1> QED
  BY <1>3, <1>4 DEF AllButOne, more, theirs

\* Closing the open section of both.
LEMMA ClosedBeside ==
    ASSUME NEW r \in Sound, NEW q \in Sound, Beside(r, q)
    PROVE  AllButOne(Closed(r), Closed(q))
<1> DEFINE LastOf(x) == [path |-> x.path, lines |-> x.body,
                       occurrence |-> Occurrence(x.sections, x.path)]
<1>1. ASSUME NEW x \in Sound
      PROVE  /\ x.sections \in Seq(Section)
             /\ LastOf(x) \in Section /\ LastOf(x).path = x.path
             /\ HasText(x.body) => Closed(x) = Append(x.sections, LastOf(x))
             /\ ~HasText(x.body) => Closed(x) = x.sections /\ x.path = <<Preamble>>
  <2>1. x.sections \in Seq(Section) /\ x.path \in Path /\ x.body \in Seq(Entry) /\ Headed(x)
    BY DEF Sound, Reading
  <2>2. Occurrence(x.sections, x.path) \in Nat
    BY <2>1, OccurrenceCounts
  <2>3. LastOf(x) \in Section /\ LastOf(x).path = x.path
    BY <2>1, <2>2 DEF Section
  <2> QED
    BY <2>1, <2>3 DEF Closed, HasText, Headed
<1> HIDE DEF LastOf
<1>2. r.path = q.path
  BY DEF Beside
<1>3. CASE StillOpen(r, q)
  <2>1. r.sections = q.sections /\ Closed(q) = Append(q.sections, LastOf(q))
    BY <1>1, <1>3 DEF StillOpen
  <2>2. CASE HasText(r.body)
    BY <1>1, <1>2, <2>1, <2>2, AppendedDifferently
  <2>3. CASE ~HasText(r.body)
    BY <1>1, <1>2, <2>1, <2>3, AppendedToTheirs
  <2> QED
    BY <2>2, <2>3
<1>4. CASE GoneBy(r, q)
  <2>1. /\ r.path # <<Preamble>> /\ r.body = q.body
        /\ AllButOne(r.sections, q.sections)
    BY <1>4 DEF GoneBy
  <2>2. Occurrence(r.sections, r.path) = Occurrence(q.sections, q.path)
    BY <1>2, <2>1 DEF AllButOne, SameCounts
  <2>3. LastOf(r) = LastOf(q)
    BY <1>2, <2>1, <2>2 DEF LastOf
  <2>4. HasText(r.body) /\ HasText(q.body)
    BY <1>1, <2>1
  <2> QED
    BY <1>1, <2>1, <2>3, <2>4, AppendedBoth
<1> QED
  BY <1>3, <1>4 DEF Beside

LEMMA PushLeavesPreamble ==
    ASSUME NEW path, PathOK(path), NEW heading \in Heads
    PROVE  Push(path, heading) # <<Preamble>>
<1>1. heading # Preamble
  BY PreambleIsNoHead
<1>2. CASE heading.kind # "numbered" \/ path = <<Preamble>>
  BY <1>1, <1>2 DEF Push
<1>3. CASE ~(heading.kind # "numbered" \/ path = <<Preamble>>)
  <2> DEFINE kept == Ancestors(path, heading)
             n == Len(kept)
  <2>1. kept \in Seq(Heads)
    BY <1>3, AncestorsNest
  <2> HIDE DEF kept
  <2>2. n \in Nat /\ Len(Append(kept, heading)) = n + 1 /\ Append(kept, heading)[n + 1] = heading
    BY <2>1
  <2>3. Append(kept, heading) # <<Preamble>>
    <3> SUFFICES ASSUME Append(kept, heading) = <<Preamble>>
                 PROVE  FALSE
      OBVIOUS
    <3>1. n + 1 = 1 /\ <<Preamble>>[1] = Preamble
      BY <2>2
    <3> QED
      BY <1>1, <2>2, <3>1
  <2> QED
    BY <1>3, <2>3 DEF Push, kept
<1> QED
  BY <1>2, <1>3

\* Running headers that differ in no line that opens a section.
SameHeaders(furniture, theirs) ==
    \A line \in Line : OpensSection(line) => (line \in furniture <=> line \in theirs)

LEMMA SameLineRead ==
    ASSUME NEW furniture, NEW theirs, SameHeaders(furniture, theirs),
           NEW r, NEW entry \in Entry
    PROVE  ReadLine(r, entry, furniture) = ReadLine(r, entry, theirs)
<1>1. entry.line \in Line
  BY DEF Entry
<1> QED
  BY <1>1 DEF ReadLine, SameHeaders

LEMMA LinesReadBeside ==
    ASSUME NEW furniture, NEW theirs, SameHeaders(furniture, theirs),
           NEW r \in Sound, NEW q \in Sound, Beside(r, q), NEW entry \in Entry
    PROVE  Beside(ReadLine(r, entry, furniture), ReadLine(q, entry, theirs))
<1>1. ReadLine(q, entry, theirs) = ReadLine(q, entry, furniture)
  BY SameLineRead
<1>2. entry.line \in Line /\ entry.line \in LineForm
  BY ChunkingAssumption DEF Entry
<1>3. CASE OpensSection(entry.line) /\ entry.line \notin furniture
  <2> DEFINE heading == Heading(entry.line)
  <2>1. ASSUME NEW x
        PROVE  /\ ReadLine(x, entry, furniture).sections = Closed(x)
               /\ ReadLine(x, entry, furniture).path = Push(x.path, heading)
               /\ ReadLine(x, entry, furniture).body = <<entry>>
    BY <1>3 DEF ReadLine, ReadHeading
  <2>2. heading \in Heads
    BY <1>2 DEF Heading, LineForm, Heads
  <2> HIDE DEF heading
  <2>3. Push(r.path, heading) # <<Preamble>>
    BY <2>2, PushLeavesPreamble DEF Sound
  <2>4. r.path = q.path
    BY DEF Beside
  <2>5. AllButOne(Closed(r), Closed(q))
    BY ClosedBeside
  <2> QED
    BY <1>1, <2>1, <2>3, <2>4, <2>5 DEF Beside, GoneBy
<1>4. CASE ~(OpensSection(entry.line) /\ entry.line \notin furniture)
  <2>1. ASSUME NEW x \in Sound
        PROVE  /\ ReadLine(x, entry, furniture).sections = x.sections
               /\ ReadLine(x, entry, furniture).path = x.path
               /\ ReadLine(x, entry, furniture).body = Append(x.body, entry)
               /\ x.body \in Seq(Entry)
    BY <1>4 DEF ReadLine, ReadBody, Sound, Reading
  <2>2. r.path = q.path
    BY DEF Beside
  <2>3. CASE StillOpen(r, q)
    <3>1. HasText(Append(q.body, entry))
      BY <2>1, <2>3, TextStays DEF StillOpen
    <3> QED
      BY <1>1, <2>1, <2>2, <2>3, <3>1 DEF Beside, StillOpen
  <2>4. CASE GoneBy(r, q)
    BY <1>1, <2>1, <2>2, <2>4 DEF Beside, GoneBy
  <2> QED
    BY <2>3, <2>4 DEF Beside
<1> QED
  BY <1>3, <1>4

\* A line of prose more leaves a reading beside itself.
LEMMA ProseReadBeside ==
    ASSUME NEW r \in Sound, NEW entry \in Entry, entry.line \in Prose, NEW furniture
    PROVE  Beside(r, ReadLine(r, entry, furniture))
<1>1. entry.line.kind = "text"
  BY ChunkingAssumption
<1>2. ~OpensSection(entry.line) /\ ~IsBlank(entry.line)
  BY <1>1 DEF OpensSection, IsBlank
<1>3. /\ ReadLine(r, entry, furniture).sections = r.sections
      /\ ReadLine(r, entry, furniture).path = r.path
      /\ ReadLine(r, entry, furniture).body = Append(r.body, entry)
      /\ r.body \in Seq(Entry)
  BY <1>2 DEF ReadLine, ReadBody, Sound, Reading
<1>4. HasText(Append(r.body, entry))
  BY <1>2, <1>3, TextStays
<1> QED
  BY <1>3, <1>4 DEF Beside, StillOpen

LEMMA SamePageRead ==
    ASSUME NEW furniture, NEW theirs, SameHeaders(furniture, theirs),
           NEW r \in Sound, NEW page \in Seq(Entry)
    PROVE  ReadPage(r, page, furniture) = ReadPage(r, page, theirs)
<1> DEFINE n == Len(page)
<1>1. n \in Nat /\ \A k \in 1 .. n : page[k] \in Entry
  OBVIOUS
<1>2. \A x \in Sound, k \in 1 .. n, any \in {furniture, theirs} :
         ReadLine(x, page[k], any) \in Sound
  BY <1>1, LinesRead
<1>3. PICK f \in [0 .. n -> Sound] : PageTrail(f, r, page, furniture)
  BY <1>1, <1>2, PageStepwise
<1>4. PICK g \in [0 .. n -> Sound] : PageTrail(g, r, page, theirs)
  BY <1>1, <1>2, PageStepwise
<1> DEFINE T == {k \in 0 .. n : f[k] = g[k]}
<1>5. 0 \in T
  BY <1>1, <1>3, <1>4 DEF PageTrail
<1>6. ASSUME NEW k \in 0 .. n, k \in T, k < n
      PROVE  k + 1 \in T
  <2>1. k + 1 \in 1 .. n /\ k + 1 \in 0 .. n /\ (k + 1) - 1 = k
    BY <1>1, <1>6
  <2>2. /\ f[k + 1] = ReadLine(f[k], page[k + 1], furniture)
        /\ g[k + 1] = ReadLine(g[k], page[k + 1], theirs)
    BY <1>3, <1>4, <2>1 DEF PageTrail, n
  <2>3. f[k] = g[k] /\ page[k + 1] \in Entry
    BY <1>1, <1>6, <2>1
  <2>4. ReadLine(f[k], page[k + 1], furniture) = ReadLine(f[k], page[k + 1], theirs)
    BY <2>3, SameLineRead
  <2> QED
    BY <2>1, <2>2, <2>3, <2>4
<1> HIDE DEF T, n
<1>7. \A k \in 0 .. n : k \in T
  BY <1>1, <1>5, <1>6, KeptThroughout
<1>8. f[n] = g[n]
  BY <1>1, <1>7 DEF T
<1> QED
  BY <1>3, <1>4, <1>8 DEF PageTrail, n

LEMMA PagesReadBeside ==
    ASSUME NEW furniture, NEW theirs, SameHeaders(furniture, theirs),
           NEW r \in Sound, NEW q \in Sound, Beside(r, q), NEW page \in Seq(Entry)
    PROVE  Beside(ReadPage(r, page, furniture), ReadPage(q, page, theirs))
<1> DEFINE n == Len(page)
<1>1. n \in Nat /\ \A k \in 1 .. n : page[k] \in Entry
  OBVIOUS
<1>2. \A x \in Sound, k \in 1 .. n, any \in {furniture, theirs} :
         ReadLine(x, page[k], any) \in Sound
  BY <1>1, LinesRead
<1>3. PICK f \in [0 .. n -> Sound] : PageTrail(f, r, page, furniture)
  BY <1>1, <1>2, PageStepwise
<1>4. PICK g \in [0 .. n -> Sound] : PageTrail(g, q, page, theirs)
  BY <1>1, <1>2, PageStepwise
<1> DEFINE T == {k \in 0 .. n : Beside(f[k], g[k])}
<1>5. 0 \in T
  BY <1>1, <1>3, <1>4 DEF PageTrail
<1>6. ASSUME NEW k \in 0 .. n, k \in T, k < n
      PROVE  k + 1 \in T
  <2>1. k + 1 \in 1 .. n /\ k + 1 \in 0 .. n /\ (k + 1) - 1 = k
    BY <1>1, <1>6
  <2>2. /\ f[k + 1] = ReadLine(f[k], page[k + 1], furniture)
        /\ g[k + 1] = ReadLine(g[k], page[k + 1], theirs)
    BY <1>3, <1>4, <2>1 DEF PageTrail, n
  <2>3. /\ Beside(f[k], g[k]) /\ page[k + 1] \in Entry
        /\ f[k] \in Sound /\ g[k] \in Sound
    BY <1>1, <1>6, <2>1
  <2>4. Beside(ReadLine(f[k], page[k + 1], furniture), ReadLine(g[k], page[k + 1], theirs))
    BY <2>3, LinesReadBeside
  <2> QED
    BY <2>1, <2>2, <2>4
<1> HIDE DEF T, n
<1>7. \A k \in 0 .. n : k \in T
  BY <1>1, <1>5, <1>6, KeptThroughout
<1>8. Beside(f[n], g[n])
  BY <1>1, <1>7 DEF T
<1> QED
  BY <1>3, <1>4, <1>8 DEF PageTrail, n

\* A page, and the same page with a line of prose above its line i.
ALineMore(page, revised, i) ==
    /\ i \in 1 .. Len(page)
    /\ Len(revised) = Len(page) + 1
    /\ revised[i].line \in Prose
    /\ \A j \in 1 .. i - 1 : revised[j] = page[j]
    /\ \A j \in i .. Len(page) : revised[j + 1] = page[j]

LEMMA RevisedPageRead ==
    ASSUME NEW furniture, NEW theirs, SameHeaders(furniture, theirs), NEW r \in Sound,
           NEW page \in Seq(Entry), NEW revised \in Seq(Entry), NEW i,
           ALineMore(page, revised, i)
    PROVE  Beside(ReadPage(r, page, furniture), ReadPage(r, revised, theirs))
<1> DEFINE n == Len(page)
<1>1. /\ n \in Nat /\ Len(revised) = n + 1 /\ i \in 1 .. n /\ i \in Nat
      /\ \A k \in 1 .. n : page[k] \in Entry
      /\ \A k \in 1 .. n + 1 : revised[k] \in Entry
  BY DEF ALineMore
<1>2. \A x \in Sound, k \in 1 .. n : ReadLine(x, page[k], furniture) \in Sound
  BY <1>1, LinesRead
<1>3. \A x \in Sound, k \in 1 .. n + 1 : ReadLine(x, revised[k], theirs) \in Sound
  BY <1>1, LinesRead
<1>4. PICK f \in [0 .. n -> Sound] : PageTrail(f, r, page, furniture)
  BY <1>1, <1>2, PageStepwise
<1>5. PICK g \in [0 .. n + 1 -> Sound] : PageTrail(g, r, revised, theirs)
  <2> DEFINE m == Len(revised)
  <2>1. m \in Nat /\ m = n + 1
    BY <1>1
  <2>2. \A x \in Sound, k \in 1 .. m : ReadLine(x, revised[k], theirs) \in Sound
    BY <1>3, <2>1
  <2>3. \E g \in [0 .. m -> Sound] : PageTrail(g, r, revised, theirs)
    BY <2>1, <2>2, PageStepwise
  <2> HIDE DEF m, n
  <2> QED
    BY <2>1, <2>3
<1>6. \A k \in 1 .. n : f[k] = ReadLine(f[k - 1], page[k], furniture)
  BY <1>4 DEF PageTrail
<1>7. \A k \in 1 .. n + 1 : g[k] = ReadLine(g[k - 1], revised[k], theirs)
  BY <1>1, <1>5 DEF PageTrail
<1>8. ASSUME f[i - 1] = g[i - 1]
      PROVE  Beside(f[i - 1], g[i])
  <2>1. i - 1 \in 0 .. n /\ i \in 1 .. n + 1
    BY <1>1
  <2>2. /\ f[i - 1] \in Sound /\ revised[i] \in Entry /\ revised[i].line \in Prose
        /\ g[i] = ReadLine(f[i - 1], revised[i], theirs)
    BY <1>1, <1>7, <1>8, <2>1 DEF ALineMore
  <2> QED
    BY <2>2, ProseReadBeside
<1> DEFINE T == {k \in 0 .. n : /\ k < i => f[k] = g[k]
                                /\ k >= i - 1 => Beside(f[k], g[k + 1])}
<1>9. 0 \in T
  <2>1. f[0] = g[0] /\ 0 \in 0 .. n
    BY <1>1, <1>4, <1>5 DEF PageTrail
  <2>2. ASSUME 0 >= i - 1
        PROVE  Beside(f[0], g[0 + 1])
    <3>1. i = 1 /\ i - 1 = 0 /\ 0 + 1 = 1
      BY <1>1, <2>2
    <3> QED
      BY <1>8, <2>1, <3>1
  <2> QED
    BY <2>1, <2>2
<1>10. ASSUME NEW k \in 0 .. n, k \in T, k < n
       PROVE  k + 1 \in T
  <2>1. k + 1 \in 1 .. n /\ k + 1 \in 0 .. n /\ (k + 1) - 1 = k
    BY <1>1, <1>10
  <2>2. f[k + 1] = ReadLine(f[k], page[k + 1], furniture) /\ page[k + 1] \in Entry
    BY <1>1, <1>6, <2>1
  <2>3. ASSUME k + 1 < i
        PROVE  f[k + 1] = g[k + 1]
    <3>1. k < i /\ k + 1 \in 1 .. i - 1 /\ k + 1 \in 1 .. n + 1
      BY <1>1, <2>1, <2>3
    <3>2. f[k] = g[k] /\ revised[k + 1] = page[k + 1]
      BY <1>10, <3>1 DEF ALineMore
    <3>3. g[k + 1] = ReadLine(f[k], page[k + 1], theirs)
      BY <1>7, <2>1, <3>1, <3>2
    <3>4. ReadLine(f[k], page[k + 1], furniture) = ReadLine(f[k], page[k + 1], theirs)
      BY <2>2, SameLineRead
    <3> QED
      BY <2>2, <3>3, <3>4
  <2>4. ASSUME k + 1 >= i - 1
        PROVE  Beside(f[k + 1], g[(k + 1) + 1])
    <3>1. CASE k + 1 = i - 1
      <4>1. k + 1 < i /\ (k + 1) + 1 = i
        BY <1>1, <3>1
      <4>2. f[i - 1] = g[i - 1]
        BY <2>3, <3>1, <4>1
      <4> QED
        BY <1>8, <3>1, <4>1, <4>2
    <3>2. CASE k + 1 # i - 1
      <4>1. /\ k >= i - 1 /\ k + 1 \in i .. Len(page) /\ (k + 1) + 1 \in 1 .. n + 1
            /\ ((k + 1) + 1) - 1 = k + 1 /\ k + 1 \in 0 .. n + 1 /\ k \in 0 .. n
        BY <1>1, <2>1, <2>4, <3>2
      <4>2. Beside(f[k], g[k + 1]) /\ revised[(k + 1) + 1] = page[k + 1]
        BY <1>10, <4>1 DEF ALineMore
      <4>3. g[(k + 1) + 1] = ReadLine(g[k + 1], page[k + 1], theirs)
        BY <1>7, <4>1, <4>2
      <4>4. f[k] \in Sound /\ g[k + 1] \in Sound
        BY <4>1
      <4>5. Beside(ReadLine(f[k], page[k + 1], furniture), ReadLine(g[k + 1], page[k + 1], theirs))
        BY <2>2, <4>2, <4>4, LinesReadBeside
      <4> QED
        BY <2>2, <4>3, <4>5
    <3> QED
      BY <3>1, <3>2
  <2> QED
    BY <2>1, <2>3, <2>4
<1> HIDE DEF T, n
<1>11. \A k \in 0 .. n : k \in T
  BY <1>1, <1>9, <1>10, KeptThroughout
<1>12. Beside(f[n], g[n + 1])
  <2>1. n \in T /\ n >= i - 1
    BY <1>1, <1>11
  <2> QED
    BY <2>1 DEF T
<1> QED
  BY <1>1, <1>4, <1>5, <1>12 DEF PageTrail, n

LEMMA NumberedPages ==
    ASSUME NEW document \in Seq(Seq(Line))
    PROVE  /\ Numbered(document) \in Seq(Seq(Entry))
           /\ Len(Numbered(document)) = Len(document)
           /\ \A p \in 1 .. Len(document) :
                 /\ Len(Numbered(document)[p]) = Len(document[p])
                 /\ \A i \in 1 .. Len(document[p]) :
                       Numbered(document)[p][i] = [page |-> p, line |-> document[p][i]]
<1> DEFINE k == Len(document)
           Page(p) == [i \in DOMAIN document[p] |-> [page |-> p, line |-> document[p][i]]]
<1>1. k \in Nat /\ DOMAIN document = 1 .. k /\ \A p \in 1 .. k : document[p] \in Seq(Line)
  OBVIOUS
<1>2. ASSUME NEW p \in 1 .. k
      PROVE  /\ Page(p) \in Seq(Entry) /\ Len(Page(p)) = Len(document[p])
             /\ \A i \in 1 .. Len(document[p]) :
                   Page(p)[i] = [page |-> p, line |-> document[p][i]]
  <2> DEFINE m == Len(document[p])
             g == Page(p)
  <2>1. m \in Nat /\ DOMAIN document[p] = 1 .. m /\ \A i \in 1 .. m : document[p][i] \in Line
    BY <1>1
  <2>2. \A i \in 1 .. m : [page |-> p, line |-> document[p][i]] \in Entry
    BY <1>1, <2>1 DEF Entry
  <2>3. g \in [1 .. m -> Entry]
    BY <2>1, <2>2
  <2>4. \A i \in 1 .. m : g[i] = [page |-> p, line |-> document[p][i]]
    BY <2>1
  <2> HIDE DEF g, m
  <2>5. g \in Seq(Entry) /\ Len(g) = m
    BY <2>1, <2>3, Listed
  <2> QED
    BY <2>4, <2>5 DEF g, m
<1>3. Numbered(document) = [p \in 1 .. k |-> Page(p)]
  BY <1>1 DEF Numbered
<1> DEFINE all == Numbered(document)
<1> HIDE DEF Page, k, all
<1>4. all \in [1 .. k -> Seq(Entry)] /\ \A p \in 1 .. k : all[p] = Page(p)
  BY <1>2, <1>3 DEF all
<1>5. all \in Seq(Seq(Entry)) /\ Len(all) = k
  BY <1>1, <1>4, Listed
<1> QED
  BY <1>2, <1>4, <1>5 DEF all, k

\* t is s with e above its element i.
OneMore(t, s, i, e) ==
    /\ Len(t) = Len(s) + 1
    /\ t[i] = e
    /\ \A j \in 1 .. i - 1 : t[j] = s[j]
    /\ \A j \in i .. Len(s) : t[j + 1] = s[j]

LEMMA InsertedLines ==
    ASSUME NEW S, NEW s \in Seq(S), NEW i \in 1 .. Len(s), NEW e \in S
    PROVE  InsertAt(s, i, e) \in Seq(S) /\ OneMore(InsertAt(s, i, e), s, i, e)
<1> DEFINE n == Len(s)
           front == SubSeq(s, 1, i - 1)
           back == SubSeq(s, i, n)
           t == (front \o <<e>>) \o back
<1>1. n \in Nat /\ i \in 1 .. n /\ i \in Nat
  OBVIOUS
<1>2. /\ front \in Seq(S) /\ Len(front) = i - 1
      /\ \A j \in 1 .. i - 1 : front[j] = s[j]
  BY <1>1
<1>3. /\ back \in Seq(S) /\ Len(back) = n - i + 1
      /\ \A j \in 1 .. n - i + 1 : back[j] = s[i + j - 1]
  BY <1>1
<1>4. InsertAt(s, i, e) = t
  BY DEF InsertAt
<1> HIDE DEF front, back
<1>5. t \in Seq(S) /\ Len(t) = n + 1
  <2> DEFINE first == front \o <<e>>
  <2>1. first \in Seq(S) /\ Len(first) = i
    BY <1>1, <1>2
  <2> HIDE DEF first, n
  <2>2. back \in Seq(S) /\ Len(back) = n - i + 1
    BY <1>3
  <2>3. first \o back \in Seq(S)
    BY <2>1, <2>2
  <2>4. Len(first \o back) = Len(first) + Len(back)
    BY <2>1, <2>2
  <2>5. Len(first \o back) = n + 1
    BY <1>1, <2>1, <2>2, <2>4
  <2> QED
    BY <2>3, <2>5 DEF first
<1>6. t[i] = e
  BY <1>1, <1>2, <1>3
<1>7. \A j \in 1 .. i - 1 : t[j] = s[j]
  BY <1>1, <1>2, <1>3
<1>8. ASSUME NEW j \in i .. n
      PROVE  t[j + 1] = s[j]
  <2>1. j - i + 1 \in 1 .. n - i + 1 /\ j + 1 = i + (j - i + 1) /\ i + (j - i + 1) - 1 = j
    BY <1>1
  <2>2. t[i + (j - i + 1)] = back[j - i + 1]
    BY <1>1, <1>2, <1>3, <2>1
  <2> QED
    BY <1>3, <2>1, <2>2
<1> HIDE DEF t
<1> QED
  BY <1>4, <1>5, <1>6, <1>7, <1>8 DEF OneMore, n

\* A document and the same document with a line of prose more.
Revised(document, p, i, line) == [document EXCEPT ![p] = InsertAt(document[p], i, line)]

LEMMA RevisedPages ==
    ASSUME NEW document \in Seq(Seq(Line)), NEW p \in DOMAIN document,
           NEW i \in DOMAIN document[p], NEW line \in Prose
    PROVE  LET revised == Revised(document, p, i, line) IN
           /\ revised \in Seq(Seq(Line))
           /\ Len(revised) = Len(document)
           /\ \A k \in 1 .. Len(document) : k # p => revised[k] = document[k]
           /\ revised[p] = InsertAt(document[p], i, line)
           /\ document[p] \in Seq(Line) /\ i \in 1 .. Len(document[p]) /\ line \in Line
<1> DEFINE n == Len(document)
<1>1. /\ n \in Nat /\ DOMAIN document = 1 .. n
      /\ document[p] \in Seq(Line) /\ i \in 1 .. Len(document[p]) /\ line \in Line
  BY ChunkingAssumption
<1> DEFINE more == InsertAt(document[p], i, line)
<1>2. more \in Seq(Line)
  BY <1>1, InsertedLines
<1> HIDE DEF more
<1>3. [document EXCEPT ![p] = more] \in Seq(Seq(Line))
  BY <1>1, <1>2
<1>4. Len([document EXCEPT ![p] = more]) = n
  BY <1>1
<1> QED
  BY <1>1, <1>3, <1>4 DEF Revised, more

\* Prose makes no running header of a line that opens a section.
LEMMA RevisedHeaders ==
    ASSUME NEW document \in Seq(Seq(Line)), NEW p \in DOMAIN document,
           NEW i \in DOMAIN document[p], NEW line \in Prose
    PROVE  SameHeaders(PageFurniture(document), PageFurniture(Revised(document, p, i, line)))
<1> DEFINE n == Len(document)
           revised == Revised(document, p, i, line)
           m == Len(document[p])
<1>1. /\ revised \in Seq(Seq(Line)) /\ Len(revised) = n
      /\ \A k \in 1 .. n : k # p => revised[k] = document[k]
      /\ revised[p] = InsertAt(document[p], i, line)
      /\ document[p] \in Seq(Line) /\ i \in 1 .. m /\ line \in Line
  BY RevisedPages
<1>2. ~OpensSection(line)
  BY ChunkingAssumption DEF OpensSection
<1> HIDE DEF revised
<1>3. /\ n \in Nat /\ DOMAIN document = 1 .. n /\ DOMAIN revised = 1 .. n
      /\ m \in Nat /\ DOMAIN document[p] = 1 .. m
  BY <1>1
<1> DEFINE page == InsertAt(document[p], i, line)
<1>4. /\ page \in Seq(Line) /\ Len(page) = m + 1 /\ page[i] = line
      /\ \A j \in 1 .. i - 1 : page[j] = document[p][j]
      /\ \A j \in i .. m : page[j + 1] = document[p][j]
  <2> DEFINE old == document[p]
  <2>1. old \in Seq(Line) /\ i \in 1 .. Len(old) /\ line \in Line
    BY <1>1
  <2> HIDE DEF old
  <2>2. InsertAt(old, i, line) \in Seq(Line) /\ OneMore(InsertAt(old, i, line), old, i, line)
    BY <2>1, InsertedLines
  <2> QED
    BY <2>2 DEF old, OneMore
<1> HIDE DEF page
<1>5. DOMAIN page = 1 .. m + 1
  BY <1>3, <1>4
<1> HIDE DEF m, n
<1>6. ASSUME NEW other \in Line, other # line
      PROVE  other \in Range(page) <=> other \in Range(document[p])
  <2>1. ASSUME NEW j \in 1 .. m + 1, page[j] = other
        PROVE  \E l \in 1 .. m : document[p][l] = other
    <3>1. j # i
      BY <1>4, <1>6, <2>1
    <3>2. j \in 1 .. i - 1 \/ (j - 1 \in i .. m /\ (j - 1) + 1 = j)
      BY <1>1, <1>3, <3>1
    <3>3. CASE j \in 1 .. i - 1
      <4>1. j \in 1 .. m
        BY <1>1, <1>3, <3>3
      <4> QED
        BY <1>4, <2>1, <3>3, <4>1
    <3>4. CASE j - 1 \in i .. m /\ (j - 1) + 1 = j
      <4>1. j - 1 \in 1 .. m
        BY <1>1, <1>3, <3>4
      <4>2. page[(j - 1) + 1] = document[p][j - 1]
        BY <1>4, <3>4
      <4> QED
        BY <2>1, <3>4, <4>1, <4>2
    <3> QED
      BY <3>2, <3>3, <3>4
  <2>2. ASSUME NEW l \in 1 .. m, document[p][l] = other
        PROVE  \E j \in 1 .. m + 1 : page[j] = other
    <3>1. l \in 1 .. i - 1 \/ l \in i .. m
      BY <1>1, <1>3
    <3>2. l \in 1 .. m + 1 /\ l + 1 \in 1 .. m + 1
      BY <1>3
    <3> QED
      BY <1>4, <2>2, <3>1, <3>2
  <2> QED
    BY <1>3, <1>5, <2>1, <2>2 DEF Range
<1>7. ASSUME NEW other \in Line, OpensSection(other)
      PROVE  other \in PageFurniture(document) <=> other \in PageFurniture(revised)
  <2>1. other # line
    BY <1>2, <1>7
  <2>2. \A k \in 1 .. n : other \in Range(revised[k]) <=> other \in Range(document[k])
    BY <1>1, <1>6, <2>1 DEF page, n
  <2>3. {k \in DOMAIN document : other \in Range(document[k])}
          = {k \in DOMAIN revised : other \in Range(revised[k])}
    BY <1>3, <2>2
  <2> QED
    BY <2>3 DEF PageFurniture
<1> QED
  BY <1>7 DEF SameHeaders, revised

LEMMA RevisedNumbers ==
    ASSUME NEW document \in Seq(Seq(Line)), NEW p \in DOMAIN document,
           NEW i \in DOMAIN document[p], NEW line \in Prose
    PROVE  LET numbered == Numbered(document)
               revised == Numbered(Revised(document, p, i, line)) IN
           /\ numbered \in Seq(Seq(Entry)) /\ revised \in Seq(Seq(Entry))
           /\ Len(numbered) = Len(document) /\ Len(revised) = Len(document)
           /\ \A k \in 1 .. Len(document) : k # p => revised[k] = numbered[k]
           /\ ALineMore(numbered[p], revised[p], i)
<1> DEFINE n == Len(document)
           theirs == Revised(document, p, i, line)
           numbered == Numbered(document)
           revised == Numbered(theirs)
           m == Len(document[p])
<1>1. /\ theirs \in Seq(Seq(Line)) /\ Len(theirs) = n
      /\ \A k \in 1 .. n : k # p => theirs[k] = document[k]
      /\ theirs[p] = InsertAt(document[p], i, line)
      /\ document[p] \in Seq(Line) /\ i \in 1 .. m /\ line \in Line
  BY RevisedPages
<1>2. OneMore(theirs[p], document[p], i, line)
  <2> DEFINE old == document[p]
  <2>1. old \in Seq(Line) /\ i \in 1 .. Len(old) /\ line \in Line
    BY <1>1
  <2> HIDE DEF old
  <2>2. OneMore(InsertAt(old, i, line), old, i, line)
    BY <2>1, InsertedLines
  <2> QED
    BY <1>1, <2>2 DEF old
<1> HIDE DEF theirs
<1>3. /\ numbered \in Seq(Seq(Entry)) /\ Len(numbered) = n
      /\ \A k \in 1 .. n :
            /\ Len(numbered[k]) = Len(document[k])
            /\ \A j \in 1 .. Len(document[k]) :
                  numbered[k][j] = [page |-> k, line |-> document[k][j]]
  BY NumberedPages
<1>4. /\ revised \in Seq(Seq(Entry)) /\ Len(revised) = n
      /\ \A k \in 1 .. n :
            /\ Len(revised[k]) = Len(theirs[k])
            /\ \A j \in 1 .. Len(theirs[k]) :
                  revised[k][j] = [page |-> k, line |-> theirs[k][j]]
  BY <1>1, NumberedPages
<1>5. n \in Nat /\ DOMAIN document = 1 .. n /\ p \in 1 .. n /\ m \in Nat /\ i \in Nat
  BY <1>1
<1>6. ASSUME NEW k \in 1 .. n, k # p
      PROVE  revised[k] = numbered[k]
  <2>1. DOMAIN document = 1 .. n /\ DOMAIN theirs = 1 .. n /\ theirs[k] = document[k]
    BY <1>1, <1>5, <1>6
  <2> QED
    BY <2>1 DEF Numbered
<1> HIDE DEF numbered, revised, m, n
<1>7. ALineMore(numbered[p], revised[p], i)
  <2>1. Len(numbered[p]) = m /\ Len(revised[p]) = m + 1 /\ Len(theirs[p]) = m + 1
    BY <1>2, <1>3, <1>4, <1>5 DEF OneMore, m
  <2>2. \A j \in 1 .. m : numbered[p][j] = [page |-> p, line |-> document[p][j]]
    BY <1>3, <1>5 DEF m
  <2>3. \A j \in 1 .. m + 1 : revised[p][j] = [page |-> p, line |-> theirs[p][j]]
    BY <1>4, <1>5, <2>1
  <2>4. revised[p][i].line \in Prose
    <3>1. i \in 1 .. m + 1 /\ theirs[p][i] = line
      BY <1>1, <1>2, <1>5 DEF OneMore
    <3>2. revised[p][i] = [page |-> p, line |-> line]
      BY <2>3, <3>1
    <3> QED
      BY <3>2
  <2>5. ASSUME NEW j \in 1 .. i - 1
        PROVE  revised[p][j] = numbered[p][j]
    <3>1. j \in 1 .. m /\ j \in 1 .. m + 1 /\ theirs[p][j] = document[p][j]
      BY <1>1, <1>2, <1>5 DEF OneMore
    <3> QED
      BY <2>2, <2>3, <3>1
  <2>6. ASSUME NEW j \in i .. m
        PROVE  revised[p][j + 1] = numbered[p][j]
    <3>1. j \in 1 .. m /\ j + 1 \in 1 .. m + 1 /\ theirs[p][j + 1] = document[p][j]
      BY <1>1, <1>2, <1>5 DEF OneMore, m
    <3> QED
      BY <2>2, <2>3, <3>1
  <2> QED
    BY <1>1, <2>1, <2>4, <2>5, <2>6 DEF ALineMore
<1> QED
  BY <1>3, <1>4, <1>6, <1>7 DEF numbered, revised, theirs, n

\* A document with a line of prose more has the sections it had, but for one.
LEMMA RevisedSections ==
    ASSUME NEW document \in Seq(Seq(Line)), NEW p \in DOMAIN document,
           NEW i \in DOMAIN document[p], NEW line \in Prose
    PROVE  AllButOne(SectionsOf(document), SectionsOf(Revised(document, p, i, line)))
<1> DEFINE n == Len(document)
           theirs == Revised(document, p, i, line)
           numbered == Numbered(document)
           revised == Numbered(theirs)
           furniture == PageFurniture(document)
           headers == PageFurniture(theirs)
<1>1. /\ numbered \in Seq(Seq(Entry)) /\ revised \in Seq(Seq(Entry))
      /\ Len(numbered) = n /\ Len(revised) = n
      /\ \A k \in 1 .. n : k # p => revised[k] = numbered[k]
      /\ ALineMore(numbered[p], revised[p], i)
  BY RevisedNumbers
<1>2. n \in Nat /\ p \in 1 .. n /\ p \in Nat
  OBVIOUS
<1>3. SameHeaders(furniture, headers)
  BY RevisedHeaders
<1>4. theirs \in Seq(Seq(Line))
  BY RevisedPages
<1> HIDE DEF numbered, revised, furniture, headers, theirs, n
<1>5. \A k \in 1 .. n : numbered[k] \in Seq(Entry) /\ revised[k] \in Seq(Entry)
  BY <1>1
<1>6. PICK f \in [0 .. n -> Sound] : DocumentTrail(f, document)
  <2>1. \A r \in Sound, k \in 1 .. n : Turned(r, document, k) \in Sound
    BY <1>5, PagesRead DEF Turned, numbered
  <2>2. Len(Numbered(document)) = n
    BY <1>1 DEF numbered
  <2> QED
    BY <1>2, <2>1, <2>2, OpenedIsSound, DocumentStepwise
<1>7. PICK g \in [0 .. n -> Sound] : DocumentTrail(g, theirs)
  <2>1. \A r \in Sound, k \in 1 .. n : Turned(r, theirs, k) \in Sound
    BY <1>5, PagesRead DEF Turned, revised
  <2>2. Len(Numbered(theirs)) = n
    BY <1>1 DEF revised
  <2> QED
    BY <1>2, <2>1, <2>2, OpenedIsSound, DocumentStepwise
<1>8. /\ \A k \in 1 .. n : f[k] = ReadPage(f[k - 1], numbered[k], furniture)
      /\ f[0] = Opened /\ f[n] = ReadDocument(document)
  BY <1>1, <1>6 DEF DocumentTrail, Turned, numbered, furniture
<1>9. /\ \A k \in 1 .. n : g[k] = ReadPage(g[k - 1], revised[k], headers)
      /\ g[0] = Opened /\ g[n] = ReadDocument(theirs)
  BY <1>1, <1>7 DEF DocumentTrail, Turned, revised, headers
<1> DEFINE T == {k \in 0 .. n : /\ k < p => f[k] = g[k]
                                /\ k >= p => Beside(f[k], g[k])}
<1>10. 0 \in T
  BY <1>2, <1>8, <1>9
<1>11. ASSUME NEW k \in 0 .. n, k \in T, k < n
       PROVE  k + 1 \in T
  <2>1. /\ k + 1 \in 1 .. n /\ k + 1 \in 0 .. n /\ (k + 1) - 1 = k
        /\ f[k] \in Sound /\ g[k] \in Sound
    BY <1>2, <1>11
  <2>2. /\ f[k + 1] = ReadPage(f[k], numbered[k + 1], furniture)
        /\ g[k + 1] = ReadPage(g[k], revised[k + 1], headers)
        /\ numbered[k + 1] \in Seq(Entry) /\ revised[k + 1] \in Seq(Entry)
    BY <1>5, <1>8, <1>9, <2>1
  <2>3. CASE k + 1 < p
    <3>1. k < p /\ k + 1 # p
      BY <1>2, <2>3
    <3>2. f[k] = g[k]
      BY <1>11, <3>1
    <3>3. revised[k + 1] = numbered[k + 1]
      BY <1>1, <2>1, <3>1
    <3>4. f[k + 1] = g[k + 1]
      BY <1>3, <2>1, <2>2, <3>2, <3>3, SamePageRead
    <3> QED
      BY <1>2, <2>1, <2>3, <3>4
  <2>4. CASE k + 1 = p
    <3>1. k < p /\ f[k] = g[k]
      BY <1>2, <1>11, <2>4
    <3>2. Beside(f[k + 1], g[k + 1])
      <4>1. ALineMore(numbered[k + 1], revised[k + 1], i)
        BY <1>1, <2>4
      <4> QED
        BY <1>3, <2>1, <2>2, <3>1, <4>1, RevisedPageRead
    <3> QED
      BY <1>2, <2>1, <2>4, <3>2
  <2>5. CASE k + 1 > p
    <3>1. k >= p /\ k + 1 # p
      BY <1>2, <2>5
    <3>2. Beside(f[k], g[k])
      BY <1>11, <3>1
    <3>3. revised[k + 1] = numbered[k + 1]
      BY <1>1, <2>1, <3>1
    <3>4. Beside(f[k + 1], g[k + 1])
      BY <1>3, <2>1, <2>2, <3>2, <3>3, PagesReadBeside
    <3> QED
      BY <1>2, <2>1, <2>5, <3>4
  <2> QED
    BY <1>2, <2>1, <2>3, <2>4, <2>5
<1> HIDE DEF T
<1>12. \A k \in 0 .. n : k \in T
  BY <1>2, <1>10, <1>11, KeptThroughout
<1>13. Beside(f[n], g[n]) /\ f[n] \in Sound /\ g[n] \in Sound
  <2>1. n \in T /\ n >= p /\ n \in 0 .. n
    BY <1>2, <1>12
  <2> QED
    BY <2>1 DEF T
<1>14. AllButOne(Closed(f[n]), Closed(g[n]))
  BY <1>13, ClosedBeside
<1> QED
  BY <1>8, <1>9, <1>14 DEF SectionsOf, theirs

LEMMA SameIdentity ==
    ASSUME NEW c, NEW d, NEW section, NEW w, FromPart(c, section, w), FromPart(d, section, w)
    PROVE  Identity(c) = Identity(d)
<1>1. c.id = d.id /\ c.part = d.part /\ c.lines = d.lines
  BY DEF FromPart
<1> QED
  BY <1>1 DEF Identity

LEMMA OneSectionFromInv ==
    ChunkingInv =>
        ((\E line \in Prose, p \in DOMAIN pages :
            \E i \in DOMAIN pages[p] : Revise(p, i, line)) =>
        LET moved == {Identity(c) : c \in Range(chunks)}
                     \ {Identity(c) : c \in Range(chunks')}
        IN \A c, d \in Range(chunks) :
            Identity(c) \in moved /\ Identity(d) \in moved =>
                c.path = d.path /\ c.lines = d.lines)
<1> SUFFICES ASSUME ChunkingInv,
                    NEW line \in Prose, NEW p \in DOMAIN pages, NEW i \in DOMAIN pages[p],
                    Revise(p, i, line),
                    NEW c \in Range(chunks), NEW d \in Range(chunks),
                    ~(\E e \in Range(chunks') : Identity(c) = Identity(e)),
                    ~(\E e \in Range(chunks') : Identity(d) = Identity(e))
             PROVE  c.path = d.path /\ c.lines = d.lines
  OBVIOUS
<1> DEFINE revised == Revised(pages, p, i, line)
           old == SectionsOf(pages)
           new == SectionsOf(revised)
<1>1. pages \in Seq(Seq(Line)) /\ chunks' = ChunkPages(revised)
  BY DEF ChunkingInv, Revise, Ingest, Revised
<1>2. revised \in Seq(Seq(Line))
  BY <1>1, RevisedPages
<1>3. chunks = ChunkPages(pages)
  BY DEF ChunkingInv, Range
<1>4. ChunksOf(chunks, old, Len(old))
  BY <1>1, <1>3, DocumentsAreChunked
<1>5. ChunksOf(chunks', new, Len(new))
  BY <1>1, <1>2, DocumentsAreChunked
<1>6. PICK s : LeavesOut(old, new, s)
  BY <1>1, RevisedSections DEF AllButOne
<1> HIDE DEF revised, old, new
<1>7. ASSUME NEW e \in Range(chunks), ~(\E o \in Range(chunks') : Identity(e) = Identity(o))
      PROVE  e.path = s.path /\ e.lines = s.lines
  <2>1. PICK k \in 1 .. Len(chunks) : e = chunks[k]
    BY <1>4 DEF ChunksOf, Range
  <2>2. PICK l \in 1 .. Len(old), w \in Nat : FromPart(e, old[l], w)
    BY <1>4, <2>1 DEF ChunksOf, HasSource
  <2>3. ASSUME NEW j \in 1 .. Len(new), new[j] = old[l]
        PROVE  FALSE
    <3>1. w \in 1 .. Len(CutOf(new[j]))
      BY <2>2, <2>3 DEF FromPart
    <3>2. HasChunk(chunks', new[j], w)
      BY <1>5, <3>1 DEF ChunksOf
    <3>3. PICK m \in 1 .. Len(chunks') : FromPart(chunks'[m], new[j], w)
      BY <3>2 DEF HasChunk
    <3>4. chunks'[m] \in Range(chunks')
      BY <1>5 DEF ChunksOf, Range
    <3>5. Identity(e) = Identity(chunks'[m])
      BY <2>2, <2>3, <3>3, SameIdentity
    <3> QED
      BY <1>7, <3>4, <3>5
  <2>4. old[l] = s
    BY <1>6, <2>3 DEF LeavesOut
  <2> QED
    BY <2>2, <2>4 DEF FromPart
<1> QED
  BY <1>7

\* Adding prose to a section moves the chunks of no other: the ids _chunk_id makes
\* rest on a section's own path, opening and text, wherever it stands.
THEOREM OneSectionMoves == Spec => ProseTouchesOneSection
BY ChunksAreSound, OneSectionFromInv, PTL DEF ProseTouchesOneSection
=============================================================================
