------------------------- MODULE PageListSpec_proofs -------------------------
(***************************************************************************)
(* The list of extents behaves as the set of loaded bytes, for files and   *)
(* lists of any length: it stays canonical, implements PageMap, and every  *)
(* query answers as the set.  The operators of PageList fold over lists;   *)
(* what a fold computes is argued from the least index where it would be   *)
(* wrong, and each operation has one lemma that says what it does to the   *)
(* size and the loaded bytes.                                              *)
(***************************************************************************)
EXTENDS PageListSpec, FiniteSetTheorems, SequenceTheorems, WellFoundedInduction, TLAPS

-----------------------------------------------------------------------------
(***************************************************************************)
(* Induction, and what a fold over a list computes.                        *)
(***************************************************************************)
\* A set of naturals that is not empty has a least element.
LEMMA LeastNat ==
  ASSUME NEW T \in SUBSET Nat, T # {}
  PROVE  \E x \in T : \A y \in T : x <= y
<1>1. PICK R : /\ IsWellFoundedOn(R, Nat)
               /\ \A x \in Nat, y \in Nat : y < x => <<y, x>> \in R
  <2>1. \A x \in Nat, y \in Nat : y < x => <<y, x>> \in OpToRel(<, Nat)
    BY DEF OpToRel
  <2>2. QED
    BY <2>1, NatLessThanWellFounded, Zenon
<1>2. PICK x \in T : \A y \in T : ~(<<y, x>> \in R)
  BY <1>1, WFMin
<1>3. \A y \in T : ~(y < x)
  BY <1>1, <1>2, Zenon
<1>4. QED
  BY <1>3

\* What holds at 0 and goes on from each index to the next holds at all.
LEMMA Induct ==
  ASSUME NEW n \in Nat, NEW G, 0 \in G, \A k \in 0 .. n : k \in G /\ k < n => k + 1 \in G
  PROVE  \A k \in 0 .. n : k \in G
<1> SUFFICES ASSUME NEW m \in 0 .. n, m \notin G PROVE FALSE
  OBVIOUS
<1> DEFINE T == {k \in 0 .. n : k \notin G}
<1>1. T \in SUBSET Nat /\ T # {}
  OBVIOUS
<1>2. PICK x \in T : \A y \in T : x <= y
  BY <1>1, LeastNat
<1>3. x \in 0 .. n /\ x \notin G /\ x # 0
  BY <1>2
<1>4. x - 1 \in 0 .. n /\ x - 1 < n /\ (x - 1) + 1 = x
  BY <1>3
<1>5. x - 1 \in G
  BY <1>2, <1>4
<1>6. QED
  BY <1>3, <1>4, <1>5

\* The largest index of a set of indices.
LEMMA MaxParts ==
  ASSUME NEW n \in Nat, NEW s \in SUBSET (1 .. n), s # {}
  PROVE  Max(s) \in s /\ \A y \in s : y <= Max(s)
<1> DEFINE T == {n - y : y \in s}
<1>1. T \in SUBSET Nat /\ T # {}
  <2>1. \A y \in s : n - y \in Nat
    OBVIOUS
  <2>2. T \in SUBSET Nat
    BY <2>1
  <2>3. T # {}
    <3>1. PICK y \in s : TRUE
      OBVIOUS
    <3>2. n - y \in T
      BY <3>1
    <3>3. QED
      BY <3>2
  <2>4. QED
    BY <2>2, <2>3
<1>2. PICK t \in T : \A u \in T : t <= u
  BY <1>1, LeastNat
<1>3. PICK x \in s : t = n - x
  BY <1>2
<1>4. \A y \in s : x >= y
  <2>1. SUFFICES ASSUME NEW y \in s PROVE x >= y
    OBVIOUS
  <2>2. n - x <= n - y
    BY <1>2, <1>3
  <2>3. QED
    BY <2>2
<1>5. Max(s) \in s /\ \A y \in s : Max(s) >= y
  BY <1>4 DEF Max
<1>6. QED
  BY <1>5

\* The least element of a set of naturals.
LEMMA MinParts ==
  ASSUME NEW s \in SUBSET Nat, s # {}
  PROVE  Min(s) \in s /\ \A y \in s : Min(s) <= y
BY LeastNat DEF Min

\* A function that folds F over every set of indices, the largest index last.
FoldsBy(g, n, base, F) ==
  \A s \in SUBSET (1 .. n) : g[s] = IF s = {} THEN base ELSE F[<<Max(s), g[s \ {Max(s)}]>>]

\* There is a function that folds over every set of indices from the least one.
LEMMA FoldExists ==
  ASSUME NEW n \in Nat, NEW B, NEW base \in B, NEW F \in [(1 .. n) \X B -> B]
  PROVE  \E g \in [SUBSET (1 .. n) -> B] : FoldsBy(g, n, base, F)
<1> DEFINE Folds(g, k) == \A s \in SUBSET (1 .. k) :
                            g[s] = IF s = {} THEN base ELSE F[<<Max(s), g[s \ {Max(s)}]>>]
           G == {k \in 0 .. n : \E g \in [SUBSET (1 .. k) -> B] : Folds(g, k)}
<1>1. 0 \in G
  <2> DEFINE g == [s \in SUBSET (1 .. 0) |-> base]
  <2>1. \A s \in SUBSET (1 .. 0) : s = {}
    OBVIOUS
  <2>2. g \in [SUBSET (1 .. 0) -> B]
    OBVIOUS
  <2>3. Folds(g, 0)
    <3>1. \A s \in SUBSET (1 .. 0) : g[s] = base
      OBVIOUS
    <3> HIDE DEF g
    <3>2. QED
      BY <2>1, <3>1
  <2>4. 0 \in 0 .. n
    OBVIOUS
  <2> HIDE DEF g, Folds
  <2>5. QED
    BY <2>2, <2>3, <2>4
<1>2. ASSUME NEW k \in 0 .. n, k \in G, k < n PROVE k + 1 \in G
  <2>1. PICK g \in [SUBSET (1 .. k) -> B] : Folds(g, k)
    BY <1>2
  <2> DEFINE h == [s \in SUBSET (1 .. k + 1) |->
                     IF k + 1 \in s THEN F[<<k + 1, g[s \ {k + 1}]>>] ELSE g[s]]
  <2>2. ASSUME NEW s \in SUBSET (1 .. k + 1)
        PROVE  /\ k + 1 \in s => s \ {k + 1} \in SUBSET (1 .. k)
               /\ k + 1 \notin s => s \in SUBSET (1 .. k)
    OBVIOUS
  <2>3. k + 1 \in 1 .. n /\ k + 1 \in 0 .. n
    BY <1>2
  <2>4. h \in [SUBSET (1 .. k + 1) -> B]
    <3>1. ASSUME NEW s \in SUBSET (1 .. k + 1)
          PROVE  (IF k + 1 \in s THEN F[<<k + 1, g[s \ {k + 1}]>>] ELSE g[s]) \in B
      <4>1. CASE k + 1 \in s
        <5>1. g[s \ {k + 1}] \in B
          BY <2>1, <2>2, <4>1
        <5>2. <<k + 1, g[s \ {k + 1}]>> \in (1 .. n) \X B
          BY <2>3, <5>1
        <5>3. QED
          BY <4>1, <5>2
      <4>2. CASE k + 1 \notin s
        BY <2>1, <2>2, <4>2
      <4>3. QED
        BY <4>1, <4>2
    <3>2. QED
      BY <3>1
  <2>5. \A s \in SUBSET (1 .. k) : s \in SUBSET (1 .. k + 1) /\ k + 1 \notin s
    BY <1>2
  <2>6. \A s \in SUBSET (1 .. k) : h[s] = g[s]
    BY <2>5
  <2>7. Folds(h, k + 1)
    <3>1. SUFFICES ASSUME NEW s \in SUBSET (1 .. k + 1)
                   PROVE  h[s] = IF s = {} THEN base ELSE F[<<Max(s), h[s \ {Max(s)}]>>]
      OBVIOUS
    <3>2. CASE k + 1 \in s
      <4>1. Max(s) = k + 1
        <5>1. k + 1 \in Nat /\ s # {}
          BY <3>2
        <5>2. Max(s) \in s /\ \A y \in s : y <= Max(s)
          BY <3>1, <5>1, MaxParts
        <5>3. Max(s) \in 1 .. k + 1 /\ k + 1 <= Max(s)
          BY <3>2, <5>2
        <5>4. QED
          BY <5>3
      <4>2. h[s \ {k + 1}] = g[s \ {k + 1}]
        BY <2>2, <2>6, <3>2
      <4>3. QED
        BY <3>2, <4>1, <4>2
    <3>3. CASE k + 1 \notin s
      <4>1. s \in SUBSET (1 .. k)
        BY <2>2, <3>3
      <4>2. h[s] = g[s]
        BY <2>6, <4>1
      <4>3. g[s] = IF s = {} THEN base ELSE F[<<Max(s), g[s \ {Max(s)}]>>]
        BY <2>1, <4>1
      <4>4. h[s \ {Max(s)}] = g[s \ {Max(s)}]
        BY <2>6, <4>1
      <4>5. QED
        BY <4>2, <4>3, <4>4
    <3>4. QED
      BY <3>2, <3>3
  <2> HIDE DEF h
  <2>8. QED
    BY <2>3, <2>4, <2>7
<1> HIDE DEF Folds
<1>3. n \in G
  <2>1. n \in 0 .. n
    OBVIOUS
  <2> HIDE DEF G
  <2>2. QED
    BY <1>1, <1>2, <2>1, Induct
<1>4. QED
  BY <1>3 DEF Folds, FoldsBy

\* The pages of a list.
Pages == [offset : Nat, bytes : Nat, loaded : BOOLEAN]

\* The indices up to k, of which k is the last.
LEMMA UptoIndex ==
  ASSUME NEW n \in Nat, NEW k \in 1 .. n
  PROVE  /\ 1 .. k \in SUBSET (1 .. n) /\ 1 .. k # {}
         /\ Max(1 .. k) = k
         /\ (1 .. k) \ {k} = 1 .. (k - 1)
<1>1. 1 .. k \in SUBSET (1 .. n) /\ k \in 1 .. k
  OBVIOUS
<1>2. k \in Nat /\ 1 .. k \in SUBSET (1 .. k) /\ 1 .. k # {}
  BY <1>1
<1>3. Max(1 .. k) \in 1 .. k /\ \A y \in 1 .. k : y <= Max(1 .. k)
  BY <1>2, MaxParts
<1>4. Max(1 .. k) = k
  BY <1>1, <1>3
<1>5. (1 .. k) \ {k} = 1 .. (k - 1)
  OBVIOUS
<1>6. QED
  BY <1>1, <1>2, <1>4, <1>5

\* r has the value of a fold that solves its equation, after each index.
StepsBy(r, it, n, base, F) ==
  /\ r[0] = base /\ it[1 .. n] = r[n]
  /\ \A k \in 1 .. n : r[k] = F[<<k, r[k - 1]>>]

\* it solves the equation of a fold at the sets 1 .. k.
Solves(it, n, B, base, F) ==
  /\ it[{}] = base
  /\ \A k \in 1 .. n : it[1 .. (k - 1)] \in B =>
                          it[1 .. k] = F[<<k, it[1 .. (k - 1)]>>]

\* A solution of the equation of a fold goes through the indices one by one:
\* r holds what it has after each.
LEMMA FoldSteps ==
  ASSUME NEW n \in Nat, NEW B, NEW base \in B, NEW F \in [(1 .. n) \X B -> B], NEW it,
         Solves(it, n, B, base, F)
  PROVE  \E r \in [0 .. n -> B] : StepsBy(r, it, n, base, F)
<1> DEFINE G == {k \in 0 .. n : it[1 .. k] \in B}
           r == [k \in 0 .. n |-> it[1 .. k]]
<1>0. /\ it[{}] = base
      /\ \A k \in 1 .. n : it[1 .. (k - 1)] \in B =>
                              it[1 .. k] = F[<<k, it[1 .. (k - 1)]>>]
  BY DEF Solves
<1>1. it[1 .. 0] = base /\ 0 \in 0 .. n /\ n \in 0 .. n
  <2>1. 1 .. 0 = {}
    OBVIOUS
  <2>2. QED
    BY <1>0, <2>1
<1>2. 0 \in G
  BY <1>1
<1>3. ASSUME NEW k \in 0 .. n, k \in G, k < n PROVE k + 1 \in G
  <2>1. k + 1 \in 1 .. n /\ k + 1 \in 0 .. n /\ (k + 1) - 1 = k
    BY <1>3
  <2>2. it[1 .. k] \in B
    BY <1>3
  <2>3. it[1 .. (k + 1)] = F[<<k + 1, it[1 .. k]>>]
    BY <1>0, <2>1, <2>2
  <2>4. F[<<k + 1, it[1 .. k]>>] \in B
    BY <2>1, <2>2
  <2>5. QED
    BY <2>1, <2>3, <2>4
<1>4. \A k \in 0 .. n : k \in G
  <2> HIDE DEF G
  <2>1. QED
    BY <1>2, <1>3, Induct
<1>5. r \in [0 .. n -> B]
  BY <1>4
<1>6. \A k \in 1 .. n : r[k] = F[<<k, r[k - 1]>>]
  <2>1. TAKE k \in 1 .. n
  <2>2. k \in 0 .. n /\ k - 1 \in 0 .. n
    OBVIOUS
  <2>3. it[1 .. (k - 1)] \in B
    BY <1>4, <2>2
  <2>4. QED
    BY <1>0, <2>2, <2>3
<1>7. r[0] = base /\ r[n] = it[1 .. n]
  BY <1>1
<1> HIDE DEF r
<1>8. QED
  BY <1>5, <1>6, <1>7 DEF StepsBy

\* Merging a page into a list gives a list of pages.
LEMMA MergeType ==
  ASSUME NEW ps \in Seq(Pages), NEW p \in Pages
  PROVE  MergePage(ps, p) \in Seq(Pages)
<1>1. CASE ps # <<>> /\ Last(ps).loaded = p.loaded
  <2> DEFINE q == [Last(ps) EXCEPT !.bytes = @ + p.bytes]
  <2>1. Len(ps) \in 1 .. Len(ps) /\ Last(ps) \in Pages
    BY <1>1 DEF Last
  <2>2. q \in Pages
    BY <2>1 DEF Pages
  <2>3. Front(ps) \in Seq(Pages)
    <3>1. Len(ps) - 1 \in Nat
      BY <2>1
    <3>2. \A i \in 1 .. (Len(ps) - 1) : ps[i] \in Pages
      OBVIOUS
    <3>3. QED
      BY <3>1, <3>2 DEF Front
  <2> HIDE DEF q
  <2>4. Append(Front(ps), q) \in Seq(Pages)
    BY <2>2, <2>3
  <2>5. QED
    BY <1>1, <2>4 DEF MergePage, q
<1>2. CASE ~(ps # <<>> /\ Last(ps).loaded = p.loaded)
  BY <1>2 DEF MergePage
<1>3. QED
  BY <1>1, <1>2

\* Compress goes through the pages one by one.
LEMMA CompressSteps ==
  ASSUME NEW ps \in Seq(Pages)
  PROVE  \E r \in [0 .. Len(ps) -> Seq(Pages)] :
           /\ r[0] = <<>>
           /\ \A k \in 1 .. Len(ps) : r[k] = MergePage(r[k - 1], ps[k])
           /\ Compress(ps) = r[Len(ps)]
<1> DEFINE n == Len(ps)
           F == [x \in (1 .. n) \X Seq(Pages) |-> MergePage(x[2], ps[x[1]])]
           Sol(h) == h = [s \in SUBSET DOMAIN ps |->
                            IF s = {} THEN <<>> ELSE MergePage(h[s \ {Max(s)}], ps[Max(s)])]
           it == CHOOSE h : Sol(h)
<1>1. n \in Nat /\ DOMAIN ps = 1 .. n /\ <<>> \in Seq(Pages)
  OBVIOUS
<1>2. F \in [(1 .. n) \X Seq(Pages) -> Seq(Pages)]
  <2>1. ASSUME NEW x \in (1 .. n) \X Seq(Pages) PROVE MergePage(x[2], ps[x[1]]) \in Seq(Pages)
    <3>1. ps[x[1]] \in Pages /\ x[2] \in Seq(Pages)
      BY <2>1
    <3>2. QED
      BY <3>1, MergeType
  <2>2. QED
    BY <2>1
<1>3. PICK g \in [SUBSET (1 .. n) -> Seq(Pages)] : FoldsBy(g, n, <<>>, F)
  <2> HIDE DEF F, n
  <2>1. QED
    BY <1>1, <1>2, FoldExists
<1>4. Sol(g)
  <2>1. ASSUME NEW s \in SUBSET DOMAIN ps, s # {}
        PROVE  F[<<Max(s), g[s \ {Max(s)}]>>] = MergePage(g[s \ {Max(s)}], ps[Max(s)])
    <3>1. s \in SUBSET (1 .. n) /\ Max(s) \in s
      BY <1>1, <2>1, MaxParts
    <3>2. Max(s) \in 1 .. n /\ s \ {Max(s)} \in SUBSET (1 .. n)
      BY <3>1
    <3>3. g[s \ {Max(s)}] \in Seq(Pages)
      BY <1>3, <3>2
    <3>4. QED
      BY <3>2, <3>3
  <2> HIDE DEF F
  <2>2. \A s \in SUBSET DOMAIN ps :
          g[s] = IF s = {} THEN <<>> ELSE MergePage(g[s \ {Max(s)}], ps[Max(s)])
    BY <1>1, <1>3, <2>1 DEF FoldsBy
  <2>3. g = [s \in SUBSET DOMAIN ps |-> g[s]]
    BY <1>1, <1>3
  <2>4. QED
    BY <2>2, <2>3
<1>5. Sol(it)
  BY <1>4
<1>6. Compress(ps) = it[DOMAIN ps]
  BY DEF Compress, FoldLeft, MapThenFoldSet
<1>7. \A s \in SUBSET (1 .. n) :
        it[s] = IF s = {} THEN <<>> ELSE MergePage(it[s \ {Max(s)}], ps[Max(s)])
  <2> HIDE DEF it
  <2>1. QED
    BY <1>1, <1>5
<1> HIDE DEF it
<1>8. it[{}] = <<>>
  <2>1. {} \in SUBSET (1 .. n)
    OBVIOUS
  <2>2. QED
    BY <1>7, <2>1
<1>9. \A k \in 1 .. n : it[1 .. (k - 1)] \in Seq(Pages) =>
                          it[1 .. k] = F[<<k, it[1 .. (k - 1)]>>]
  <2>1. ASSUME NEW k \in 1 .. n, it[1 .. (k - 1)] \in Seq(Pages)
        PROVE  it[1 .. k] = F[<<k, it[1 .. (k - 1)]>>]
    <3> HIDE DEF n, F
    <3>1. /\ 1 .. k \in SUBSET (1 .. n) /\ 1 .. k # {}
          /\ Max(1 .. k) = k
          /\ (1 .. k) \ {k} = 1 .. (k - 1)
      BY <1>1, UptoIndex
    <3>2. it[1 .. k] = MergePage(it[1 .. (k - 1)], ps[k])
      BY <1>7, <3>1
    <3>3. F[<<k, it[1 .. (k - 1)]>>] = MergePage(it[1 .. (k - 1)], ps[k])
      BY <2>1 DEF F
    <3>4. QED
      BY <3>2, <3>3
  <2>2. QED
    BY <2>1
<1>10. PICK r \in [0 .. n -> Seq(Pages)] : StepsBy(r, it, n, <<>>, F)
  <2>1. Solves(it, n, Seq(Pages), <<>>, F)
    BY <1>8, <1>9 DEF Solves
  <2> HIDE DEF F, n
  <2>2. QED
    BY <1>1, <1>2, <2>1, FoldSteps
<1>11. \A k \in 1 .. n : r[k] = MergePage(r[k - 1], ps[k])
  <2>1. \A k \in 1 .. n : r[k - 1] \in Seq(Pages) /\ k \in 1 .. n
    <3>1. \A k \in 1 .. n : k - 1 \in 0 .. n
      BY <1>1
    <3>2. QED
      BY <1>10, <3>1
  <2> HIDE DEF n
  <2>2. QED
    BY <1>10, <2>1 DEF StepsBy
<1>12. QED
  BY <1>1, <1>6, <1>10, <1>11 DEF StepsBy

\* Cutting a page at a size gives a list of pages.
LEMMA CutType ==
  ASSUME NEW ps \in Seq(Pages), NEW p \in Pages, NEW size \in Nat
  PROVE  CutPage(ps, p, size) \in Seq(Pages)
<1>1. CASE PageNext(p) <= size
  BY <1>1 DEF CutPage
<1>2. CASE ~(PageNext(p) <= size) /\ p.offset < size
  <2> DEFINE q == [p EXCEPT !.bytes = size - p.offset]
  <2>1. size - p.offset \in Nat
    BY <1>2 DEF Pages
  <2>2. q \in Pages
    BY <2>1 DEF Pages
  <2> HIDE DEF q
  <2>3. Append(ps, q) \in Seq(Pages)
    BY <2>2
  <2>4. QED
    BY <1>2, <2>3 DEF CutPage, q
<1>3. CASE ~(PageNext(p) <= size) /\ ~(p.offset < size)
  BY <1>3 DEF CutPage
<1>4. QED
  BY <1>1, <1>2, <1>3

\* The ends of what a visited page has of an area.
LEMMA VisitedEnds ==
  ASSUME NEW p \in Pages, NEW start \in Nat, NEW next \in Nat, start <= next,
         Visited(p, start, next)
  PROVE  /\ From(p, start) \in Nat /\ Upto(p, next) \in Nat
         /\ start <= From(p, start) /\ p.offset <= From(p, start)
         /\ From(p, start) <= Upto(p, next)
         /\ Upto(p, next) <= next /\ Upto(p, next) <= PageNext(p)
         /\ Upto(p, next) - From(p, start) \in Nat
         /\ ~p.loaded
<1>1. p.offset \in Nat /\ p.bytes \in Nat
  BY DEF Pages
<1>2. p.offset + p.bytes > start /\ p.offset < next /\ ~p.loaded
  BY DEF Visited, PageNext
<1>3. QED
  BY <1>1, <1>2 DEF From, Upto, PageNext

\* Adding what a page has of an area gives a list of pages.
LEMMA AreaType ==
  ASSUME NEW ps \in Seq(Pages), NEW p \in Pages, NEW start \in Nat, NEW next \in Nat,
         start <= next
  PROVE  AddArea(ps, p, start, next) \in Seq(Pages)
<1>1. CASE ~Visited(p, start, next)
  BY <1>1 DEF AddArea
<1>2. CASE Visited(p, start, next) /\ ps # <<>> /\ PageNext(Last(ps)) = From(p, start)
  <2> DEFINE q == [Last(ps) EXCEPT !.bytes = @ + Upto(p, next) - From(p, start)]
  <2>1. Len(ps) \in 1 .. Len(ps) /\ Last(ps) \in Pages
    BY <1>2 DEF Last
  <2>2. q \in Pages
    <3>1. From(p, start) \in Nat /\ Upto(p, next) \in Nat /\ From(p, start) <= Upto(p, next)
      BY <1>2, VisitedEnds
    <3>2. Last(ps).bytes \in Nat
      BY <2>1 DEF Pages
    <3>3. Last(ps).bytes + Upto(p, next) - From(p, start) \in Nat
      BY <3>1, <3>2
    <3>4. QED
      BY <2>1, <3>3 DEF Pages
  <2>3. Front(ps) \in Seq(Pages)
    <3>1. Len(ps) - 1 \in Nat
      BY <2>1
    <3>2. \A i \in 1 .. (Len(ps) - 1) : ps[i] \in Pages
      OBVIOUS
    <3>3. QED
      BY <3>1, <3>2 DEF Front
  <2>4. AddArea(ps, p, start, next) = Append(Front(ps), q)
    BY <1>2 DEF AddArea
  <2> HIDE DEF q
  <2>5. QED
    BY <2>2, <2>3, <2>4
<1>3. CASE Visited(p, start, next) /\ ~(ps # <<>> /\ PageNext(Last(ps)) = From(p, start))
  <2> DEFINE q == Page(From(p, start), Upto(p, next) - From(p, start), FALSE)
  <2>1. From(p, start) \in Nat /\ Upto(p, next) - From(p, start) \in Nat
    BY <1>3, VisitedEnds
  <2>2. q \in Pages
    BY <2>1 DEF Page, Pages
  <2>3. AddArea(ps, p, start, next) = Append(ps, q)
    BY <1>3 DEF AddArea
  <2> HIDE DEF q
  <2>4. QED
    BY <2>2, <2>3
<1>4. QED
  BY <1>1, <1>2, <1>3

\* Adding the size of what a page has of an area gives a number.
LEMMA OverlapType ==
  ASSUME NEW total \in Int, NEW p \in Pages, NEW start \in Nat, NEW next \in Nat,
         start <= next
  PROVE  AddOverlap(total, p, start, next) \in Int
<1>1. CASE Visited(p, start, next)
  <2>1. From(p, start) \in Nat /\ Upto(p, next) \in Nat
    BY <1>1, VisitedEnds
  <2>2. QED
    BY <1>1, <2>1 DEF AddOverlap
<1>2. CASE ~Visited(p, start, next)
  BY <1>2 DEF AddOverlap
<1>3. QED
  BY <1>1, <1>2

\* CutPages goes through the pages one by one.
LEMMA CutSteps ==
  ASSUME NEW ps \in Seq(Pages), NEW size \in Nat
  PROVE  \E r \in [0 .. Len(ps) -> Seq(Pages)] :
           /\ r[0] = <<>>
           /\ \A k \in 1 .. Len(ps) : r[k] = CutPage(r[k - 1], ps[k], size)
           /\ CutPages(ps, size) = r[Len(ps)]
<1> DEFINE n == Len(ps)
           F == [x \in (1 .. n) \X Seq(Pages) |-> CutPage(x[2], ps[x[1]], size)]
           Sol(h) == h = [s \in SUBSET DOMAIN ps |->
                            IF s = {} THEN <<>> ELSE CutPage(h[s \ {Max(s)}], ps[Max(s)], size)]
           it == CHOOSE h : Sol(h)
<1>1. n \in Nat /\ DOMAIN ps = 1 .. n /\ <<>> \in Seq(Pages)
  OBVIOUS
<1>2. F \in [(1 .. n) \X Seq(Pages) -> Seq(Pages)]
  <2>1. ASSUME NEW x \in (1 .. n) \X Seq(Pages) PROVE CutPage(x[2], ps[x[1]], size) \in Seq(Pages)
    <3>1. ps[x[1]] \in Pages /\ x[2] \in Seq(Pages)
      BY <2>1
    <3>2. QED
      BY <3>1, CutType
  <2>2. QED
    BY <2>1
<1>3. PICK g \in [SUBSET (1 .. n) -> Seq(Pages)] : FoldsBy(g, n, <<>>, F)
  <2> HIDE DEF F, n
  <2>1. QED
    BY <1>1, <1>2, FoldExists
<1>4. Sol(g)
  <2>1. ASSUME NEW s \in SUBSET DOMAIN ps, s # {}
        PROVE  F[<<Max(s), g[s \ {Max(s)}]>>] = CutPage(g[s \ {Max(s)}], ps[Max(s)], size)
    <3>1. s \in SUBSET (1 .. n) /\ Max(s) \in s
      BY <1>1, <2>1, MaxParts
    <3>2. Max(s) \in 1 .. n /\ s \ {Max(s)} \in SUBSET (1 .. n)
      BY <3>1
    <3>3. g[s \ {Max(s)}] \in Seq(Pages)
      BY <1>3, <3>2
    <3>4. QED
      BY <3>2, <3>3
  <2> HIDE DEF F
  <2>2. \A s \in SUBSET DOMAIN ps :
          g[s] = IF s = {} THEN <<>> ELSE CutPage(g[s \ {Max(s)}], ps[Max(s)], size)
    BY <1>1, <1>3, <2>1 DEF FoldsBy
  <2>3. g = [s \in SUBSET DOMAIN ps |-> g[s]]
    BY <1>1, <1>3
  <2>4. QED
    BY <2>2, <2>3
<1>5. Sol(it)
  BY <1>4
<1>6. CutPages(ps, size) = it[DOMAIN ps]
  BY DEF CutPages, FoldLeft, MapThenFoldSet
<1>7. \A s \in SUBSET (1 .. n) :
        it[s] = IF s = {} THEN <<>> ELSE CutPage(it[s \ {Max(s)}], ps[Max(s)], size)
  <2> HIDE DEF it
  <2>1. QED
    BY <1>1, <1>5
<1> HIDE DEF it
<1>8. it[{}] = <<>>
  <2>1. {} \in SUBSET (1 .. n)
    OBVIOUS
  <2>2. QED
    BY <1>7, <2>1
<1>9. \A k \in 1 .. n : it[1 .. (k - 1)] \in Seq(Pages) =>
                          it[1 .. k] = F[<<k, it[1 .. (k - 1)]>>]
  <2>1. ASSUME NEW k \in 1 .. n, it[1 .. (k - 1)] \in Seq(Pages)
        PROVE  it[1 .. k] = F[<<k, it[1 .. (k - 1)]>>]
    <3> HIDE DEF n, F
    <3>1. /\ 1 .. k \in SUBSET (1 .. n) /\ 1 .. k # {}
          /\ Max(1 .. k) = k
          /\ (1 .. k) \ {k} = 1 .. (k - 1)
      BY <1>1, UptoIndex
    <3>2. it[1 .. k] = CutPage(it[1 .. (k - 1)], ps[k], size)
      BY <1>7, <3>1
    <3>3. F[<<k, it[1 .. (k - 1)]>>] = CutPage(it[1 .. (k - 1)], ps[k], size)
      BY <2>1 DEF F
    <3>4. QED
      BY <3>2, <3>3
  <2>2. QED
    BY <2>1
<1>10. PICK r \in [0 .. n -> Seq(Pages)] : StepsBy(r, it, n, <<>>, F)
  <2>1. Solves(it, n, Seq(Pages), <<>>, F)
    BY <1>8, <1>9 DEF Solves
  <2> HIDE DEF F, n
  <2>2. QED
    BY <1>1, <1>2, <2>1, FoldSteps
<1>11. \A k \in 1 .. n : r[k] = CutPage(r[k - 1], ps[k], size)
  <2>1. \A k \in 1 .. n : r[k - 1] \in Seq(Pages) /\ k \in 1 .. n
    <3>1. \A k \in 1 .. n : k - 1 \in 0 .. n
      BY <1>1
    <3>2. QED
      BY <1>10, <3>1
  <2> HIDE DEF n
  <2>2. QED
    BY <1>10, <2>1 DEF StepsBy
<1>12. QED
  BY <1>1, <1>6, <1>10, <1>11 DEF StepsBy

\* GetTotalUnloadedPageSize goes through the pages one by one.
LEMMA TotalSteps ==
  ASSUME NEW ps \in Seq(Pages),
         NEW start \in Nat, NEW size \in Nat, NEW next \in Nat,
         next = QueryNext(ps, start, size), start <= next
  PROVE  \E r \in [0 .. Len(ps) -> Int] :
           /\ r[0] = 0
           /\ \A k \in 1 .. Len(ps) : r[k] = AddOverlap(r[k - 1], ps[k], start, next)
           /\ GetTotalUnloadedPageSize(ps, start, size) = r[Len(ps)]
<1> DEFINE n == Len(ps)
           F == [x \in (1 .. n) \X Int |-> AddOverlap(x[2], ps[x[1]], start, next)]
           Sol(h) == h = [s \in SUBSET DOMAIN ps |->
                            IF s = {} THEN 0 ELSE AddOverlap(h[s \ {Max(s)}], ps[Max(s)], start, next)]
           it == CHOOSE h : Sol(h)
<1>1. n \in Nat /\ DOMAIN ps = 1 .. n /\ 0 \in Int
  OBVIOUS
<1>2. F \in [(1 .. n) \X Int -> Int]
  <2>1. ASSUME NEW x \in (1 .. n) \X Int PROVE AddOverlap(x[2], ps[x[1]], start, next) \in Int
    <3>1. ps[x[1]] \in Pages /\ x[2] \in Int
      BY <2>1
    <3>2. QED
      BY <3>1, OverlapType
  <2>2. QED
    BY <2>1
<1>3. PICK g \in [SUBSET (1 .. n) -> Int] : FoldsBy(g, n, 0, F)
  <2> HIDE DEF F, n
  <2>1. QED
    BY <1>1, <1>2, FoldExists
<1>4. Sol(g)
  <2>1. ASSUME NEW s \in SUBSET DOMAIN ps, s # {}
        PROVE  F[<<Max(s), g[s \ {Max(s)}]>>] = AddOverlap(g[s \ {Max(s)}], ps[Max(s)], start, next)
    <3>1. s \in SUBSET (1 .. n) /\ Max(s) \in s
      BY <1>1, <2>1, MaxParts
    <3>2. Max(s) \in 1 .. n /\ s \ {Max(s)} \in SUBSET (1 .. n)
      BY <3>1
    <3>3. g[s \ {Max(s)}] \in Int
      BY <1>3, <3>2
    <3>4. QED
      BY <3>2, <3>3
  <2> HIDE DEF F
  <2>2. \A s \in SUBSET DOMAIN ps :
          g[s] = IF s = {} THEN 0 ELSE AddOverlap(g[s \ {Max(s)}], ps[Max(s)], start, next)
    BY <1>1, <1>3, <2>1 DEF FoldsBy
  <2>3. g = [s \in SUBSET DOMAIN ps |-> g[s]]
    BY <1>1, <1>3
  <2>4. QED
    BY <2>2, <2>3
<1>5. Sol(it)
  BY <1>4
<1>6. GetTotalUnloadedPageSize(ps, start, size) = it[DOMAIN ps]
  BY DEF GetTotalUnloadedPageSize, FoldLeft, MapThenFoldSet
<1>7. \A s \in SUBSET (1 .. n) :
        it[s] = IF s = {} THEN 0 ELSE AddOverlap(it[s \ {Max(s)}], ps[Max(s)], start, next)
  <2> HIDE DEF it
  <2>1. QED
    BY <1>1, <1>5
<1> HIDE DEF it
<1>8. it[{}] = 0
  <2>1. {} \in SUBSET (1 .. n)
    OBVIOUS
  <2>2. QED
    BY <1>7, <2>1
<1>9. \A k \in 1 .. n : it[1 .. (k - 1)] \in Int =>
                          it[1 .. k] = F[<<k, it[1 .. (k - 1)]>>]
  <2>1. ASSUME NEW k \in 1 .. n, it[1 .. (k - 1)] \in Int
        PROVE  it[1 .. k] = F[<<k, it[1 .. (k - 1)]>>]
    <3> HIDE DEF n, F
    <3>1. /\ 1 .. k \in SUBSET (1 .. n) /\ 1 .. k # {}
          /\ Max(1 .. k) = k
          /\ (1 .. k) \ {k} = 1 .. (k - 1)
      BY <1>1, UptoIndex
    <3>2. it[1 .. k] = AddOverlap(it[1 .. (k - 1)], ps[k], start, next)
      BY <1>7, <3>1
    <3>3. F[<<k, it[1 .. (k - 1)]>>] = AddOverlap(it[1 .. (k - 1)], ps[k], start, next)
      BY <2>1 DEF F
    <3>4. QED
      BY <3>2, <3>3
  <2>2. QED
    BY <2>1
<1>10. PICK r \in [0 .. n -> Int] : StepsBy(r, it, n, 0, F)
  <2>1. Solves(it, n, Int, 0, F)
    BY <1>8, <1>9 DEF Solves
  <2> HIDE DEF F, n
  <2>2. QED
    BY <1>1, <1>2, <2>1, FoldSteps
<1>11. \A k \in 1 .. n : r[k] = AddOverlap(r[k - 1], ps[k], start, next)
  <2>1. \A k \in 1 .. n : r[k - 1] \in Int /\ k \in 1 .. n
    <3>1. \A k \in 1 .. n : k - 1 \in 0 .. n
      BY <1>1
    <3>2. QED
      BY <1>10, <3>1
  <2> HIDE DEF n
  <2>2. QED
    BY <1>10, <2>1 DEF StepsBy
<1>12. QED
  BY <1>1, <1>6, <1>10, <1>11 DEF StepsBy

\* r is what GetUnloadedPages has after each page.
UnloadedRun(r, ps, start, size, next) ==
  /\ r[0] = <<>>
  /\ \A k \in 1 .. Len(ps) : r[k] = AddArea(r[k - 1], ps[k], start, next)
  /\ GetUnloadedPages(ps, start, size) = r[Len(ps)]

\* GetUnloadedPages goes through the pages one by one.
LEMMA UnloadedSteps ==
  ASSUME NEW ps \in Seq(Pages),
         NEW start \in Nat, NEW size \in Nat, NEW next \in Nat,
         next = QueryNext(ps, start, size), start <= next
  PROVE  \E r \in [0 .. Len(ps) -> Seq(Pages)] : UnloadedRun(r, ps, start, size, next)
<1> DEFINE n == Len(ps)
           F == [x \in (1 .. n) \X Seq(Pages) |-> AddArea(x[2], ps[x[1]], start, next)]
           Sol(h) == h = [s \in SUBSET DOMAIN ps |->
                            IF s = {} THEN <<>> ELSE AddArea(h[s \ {Max(s)}], ps[Max(s)], start, next)]
           it == CHOOSE h : Sol(h)
<1>1. n \in Nat /\ DOMAIN ps = 1 .. n /\ <<>> \in Seq(Pages)
  OBVIOUS
<1>2. F \in [(1 .. n) \X Seq(Pages) -> Seq(Pages)]
  <2>1. ASSUME NEW x \in (1 .. n) \X Seq(Pages) PROVE AddArea(x[2], ps[x[1]], start, next) \in Seq(Pages)
    <3>1. ps[x[1]] \in Pages /\ x[2] \in Seq(Pages)
      BY <2>1
    <3>2. QED
      BY <3>1, AreaType
  <2>2. QED
    BY <2>1
<1>3. PICK g \in [SUBSET (1 .. n) -> Seq(Pages)] : FoldsBy(g, n, <<>>, F)
  <2> HIDE DEF F, n
  <2>1. QED
    BY <1>1, <1>2, FoldExists
<1>4. Sol(g)
  <2>1. ASSUME NEW s \in SUBSET DOMAIN ps, s # {}
        PROVE  F[<<Max(s), g[s \ {Max(s)}]>>] = AddArea(g[s \ {Max(s)}], ps[Max(s)], start, next)
    <3>1. s \in SUBSET (1 .. n) /\ Max(s) \in s
      BY <1>1, <2>1, MaxParts
    <3>2. Max(s) \in 1 .. n /\ s \ {Max(s)} \in SUBSET (1 .. n)
      BY <3>1
    <3>3. g[s \ {Max(s)}] \in Seq(Pages)
      BY <1>3, <3>2
    <3>4. QED
      BY <3>2, <3>3
  <2> HIDE DEF F
  <2>2. \A s \in SUBSET DOMAIN ps :
          g[s] = IF s = {} THEN <<>> ELSE AddArea(g[s \ {Max(s)}], ps[Max(s)], start, next)
    BY <1>1, <1>3, <2>1 DEF FoldsBy
  <2>3. g = [s \in SUBSET DOMAIN ps |-> g[s]]
    BY <1>1, <1>3
  <2>4. QED
    BY <2>2, <2>3
<1>5. Sol(it)
  BY <1>4
<1>6. GetUnloadedPages(ps, start, size) = it[DOMAIN ps]
  BY DEF GetUnloadedPages, FoldLeft, MapThenFoldSet
<1>7. \A s \in SUBSET (1 .. n) :
        it[s] = IF s = {} THEN <<>> ELSE AddArea(it[s \ {Max(s)}], ps[Max(s)], start, next)
  <2> HIDE DEF it
  <2>1. QED
    BY <1>1, <1>5
<1> HIDE DEF it
<1>8. it[{}] = <<>>
  <2>1. {} \in SUBSET (1 .. n)
    OBVIOUS
  <2>2. QED
    BY <1>7, <2>1
<1>9. \A k \in 1 .. n : it[1 .. (k - 1)] \in Seq(Pages) =>
                          it[1 .. k] = F[<<k, it[1 .. (k - 1)]>>]
  <2>1. ASSUME NEW k \in 1 .. n, it[1 .. (k - 1)] \in Seq(Pages)
        PROVE  it[1 .. k] = F[<<k, it[1 .. (k - 1)]>>]
    <3> HIDE DEF n, F
    <3>1. /\ 1 .. k \in SUBSET (1 .. n) /\ 1 .. k # {}
          /\ Max(1 .. k) = k
          /\ (1 .. k) \ {k} = 1 .. (k - 1)
      BY <1>1, UptoIndex
    <3>2. it[1 .. k] = AddArea(it[1 .. (k - 1)], ps[k], start, next)
      BY <1>7, <3>1
    <3>3. F[<<k, it[1 .. (k - 1)]>>] = AddArea(it[1 .. (k - 1)], ps[k], start, next)
      BY <2>1 DEF F
    <3>4. QED
      BY <3>2, <3>3
  <2>2. QED
    BY <2>1
<1>10. PICK r \in [0 .. n -> Seq(Pages)] : StepsBy(r, it, n, <<>>, F)
  <2>1. Solves(it, n, Seq(Pages), <<>>, F)
    BY <1>8, <1>9 DEF Solves
  <2> HIDE DEF F, n
  <2>2. QED
    BY <1>1, <1>2, <2>1, FoldSteps
<1>11. \A k \in 1 .. n : r[k] = AddArea(r[k - 1], ps[k], start, next)
  <2>1. \A k \in 1 .. n : r[k - 1] \in Seq(Pages) /\ k \in 1 .. n
    <3>1. \A k \in 1 .. n : k - 1 \in 0 .. n
      BY <1>1
    <3>2. QED
      BY <1>10, <3>1
  <2> HIDE DEF n
  <2>2. QED
    BY <1>10, <2>1 DEF StepsBy
<1>12. QED
  BY <1>1, <1>6, <1>10, <1>11 DEF StepsBy, UnloadedRun

-----------------------------------------------------------------------------
(***************************************************************************)
(* Lists whose pages tile the file, and what is loaded in them.            *)
(***************************************************************************)
\* The pages follow each other from the start of the file.
Tiles(ps) ==
  /\ ps \in Seq(Pages)
  /\ ps # <<>> => ps[1].offset = 0
  /\ \A i \in 1 .. (Len(ps) - 1) : PageNext(ps[i]) = ps[i + 1].offset

\* Neighbours differ in their flag.
Alternates(ps) == \A i \in 1 .. (Len(ps) - 1) : ps[i].loaded # ps[i + 1].loaded

\* No page is empty.
Solid(ps) == \A i \in DOMAIN ps : ps[i].bytes > 0

\* The bytes a page adds to those loaded.
LoadedOf(p) == IF p.loaded THEN PageBytes(p) ELSE {}

\* Where the first k pages end, and which of their bytes are loaded.
SizeUpto(ps, k) == IF k = 0 THEN 0 ELSE PageNext(ps[k])
LoadedUpto(ps, k) == UNION {LoadedOf(ps[i]) : i \in 1 .. k}

\* The fields of a page.
LEMMA PageParts ==
  ASSUME NEW p \in Pages
  PROVE  /\ p.offset \in Nat /\ p.bytes \in Nat /\ p.loaded \in BOOLEAN
         /\ PageNext(p) = p.offset + p.bytes /\ PageNext(p) \in Nat
         /\ PageBytes(p) = p.offset .. (p.offset + p.bytes - 1)
BY DEF Pages, PageNext, PageBytes

\* The loaded bytes are those of all pages.
LEMMA LoadedAll ==
  ASSUME NEW ps \in Seq(Pages)
  PROVE  LoadedBytes(ps) = LoadedUpto(ps, Len(ps))
<1>1. DOMAIN ps = 1 .. Len(ps)
  OBVIOUS
<1>2. ASSUME NEW b, b \in LoadedBytes(ps) PROVE b \in LoadedUpto(ps, Len(ps))
  <2>1. PICK i \in DOMAIN ps : ps[i].loaded /\ b \in PageBytes(ps[i])
    BY <1>2 DEF LoadedBytes
  <2>2. b \in LoadedOf(ps[i])
    BY <2>1 DEF LoadedOf
  <2>3. QED
    BY <1>1, <2>2 DEF LoadedUpto
<1>3. ASSUME NEW b, b \in LoadedUpto(ps, Len(ps)) PROVE b \in LoadedBytes(ps)
  <2>1. PICK i \in 1 .. Len(ps) : b \in LoadedOf(ps[i])
    BY <1>3 DEF LoadedUpto
  <2>2. ps[i].loaded /\ b \in PageBytes(ps[i])
    BY <2>1 DEF LoadedOf
  <2>3. QED
    BY <1>1, <2>2 DEF LoadedBytes
<1>4. QED
  BY <1>2, <1>3

\* One page more.
LEMMA LoadedNext ==
  ASSUME NEW ps \in Seq(Pages), NEW k \in 1 .. Len(ps)
  PROVE  LoadedUpto(ps, k) = LoadedUpto(ps, k - 1) \cup LoadedOf(ps[k])
<1>1. 1 .. k = (1 .. (k - 1)) \cup {k}
  OBVIOUS
<1>2. QED
  BY <1>1 DEF LoadedUpto

\* The first pages of two lists have the same loaded bytes if they are the same.
LEMMA LoadedSame ==
  ASSUME NEW ps, NEW qs, NEW k \in Nat, \A i \in 1 .. k : ps[i] = qs[i]
  PROVE  LoadedUpto(ps, k) = LoadedUpto(qs, k)
BY DEF LoadedUpto

\* A page begins where the pages before it end, and the list ends with the last.
LEMMA TileOffset ==
  ASSUME NEW ps, Tiles(ps)
  PROVE  /\ \A k \in 1 .. Len(ps) : ps[k].offset = SizeUpto(ps, k - 1)
         /\ ListSize(ps) = SizeUpto(ps, Len(ps))
         /\ \A k \in 0 .. Len(ps) : SizeUpto(ps, k) \in Nat
<1>1. ps \in Seq(Pages) /\ Len(ps) \in Nat
  BY DEF Tiles
<1>2. ASSUME NEW k \in 1 .. Len(ps) PROVE ps[k].offset = SizeUpto(ps, k - 1)
  <2>1. CASE k = 1
    BY <1>1, <2>1 DEF Tiles, SizeUpto
  <2>2. CASE k # 1
    <3>1. k - 1 \in 1 .. (Len(ps) - 1) /\ (k - 1) + 1 = k /\ k - 1 # 0
      BY <1>1, <1>2, <2>2
    <3>2. PageNext(ps[k - 1]) = ps[(k - 1) + 1].offset
      BY <3>1 DEF Tiles
    <3>3. QED
      BY <3>1, <3>2 DEF SizeUpto
  <2>3. QED
    BY <2>1, <2>2
<1>3. ListSize(ps) = SizeUpto(ps, Len(ps))
  BY <1>1 DEF ListSize, SizeUpto, Last
<1>4. \A k \in 0 .. Len(ps) : SizeUpto(ps, k) \in Nat
  <2>1. TAKE k \in 0 .. Len(ps)
  <2>2. CASE k = 0
    BY <2>2 DEF SizeUpto
  <2>3. CASE k # 0
    <3>1. ps[k] \in Pages
      BY <1>1, <2>3
    <3>2. PageNext(ps[k]) \in Nat
      BY <3>1, PageParts
    <3>3. QED
      BY <2>3, <3>2 DEF SizeUpto
  <2>4. QED
    BY <2>2, <2>3
<1>5. QED
  BY <1>2, <1>3, <1>4

\* The effect of a new page at the end.
Appended(ps, p, qs) ==
  /\ Tiles(qs)
  /\ ListSize(qs) = ListSize(ps) + p.bytes
  /\ LoadedBytes(qs) = LoadedBytes(ps) \cup LoadedOf(p)
  /\ Solid(ps) /\ p.bytes > 0 => Solid(qs)
  /\ Len(qs) <= Len(ps) + 1
  /\ qs # <<>>
  /\ Last(qs).loaded = p.loaded

\* A page that begins at the end of the list may be appended.
LEMMA AppendTiles ==
  ASSUME NEW ps, Tiles(ps), NEW p \in Pages, p.offset = ListSize(ps)
  PROVE  /\ Appended(ps, p, Append(ps, p))
         /\ Alternates(ps) /\ (ps # <<>> => Last(ps).loaded # p.loaded)
              => Alternates(Append(ps, p))
<1> DEFINE n == Len(ps)
<1>1. ps \in Seq(Pages) /\ n \in Nat
  BY DEF Tiles
<1>2. PICK qs : qs = Append(ps, p)
  OBVIOUS
<1>3. /\ qs \in Seq(Pages) /\ Len(qs) = n + 1 /\ qs[n + 1] = p
      /\ \A i \in 1 .. n : qs[i] = ps[i]
      /\ qs # <<>>
  BY <1>1, <1>2
<1>4. Last(qs) = p
  BY <1>3 DEF Last
<1>5. Tiles(qs)
  <2>1. qs[1].offset = 0
    <3>1. CASE n = 0
      <4>1. ps = <<>>
        BY <1>1, <3>1
      <4>2. QED
        BY <1>3, <3>1, <4>1 DEF ListSize
    <3>2. CASE n # 0
      <4>1. ps # <<>> /\ 1 \in 1 .. n
        BY <1>1, <3>2
      <4>2. QED
        BY <1>3, <4>1 DEF Tiles
    <3>3. QED
      BY <3>1, <3>2
  <2>2. ASSUME NEW i \in 1 .. (Len(qs) - 1) PROVE PageNext(qs[i]) = qs[i + 1].offset
    <3>1. CASE i = n
      <4>1. ps # <<>> /\ i \in 1 .. n
        BY <1>1, <2>2, <3>1
      <4>2. ListSize(ps) = PageNext(ps[n])
        BY <4>1 DEF ListSize, Last
      <4>3. QED
        BY <1>3, <3>1, <4>1, <4>2
    <3>2. CASE i # n
      <4>1. i \in 1 .. (n - 1) /\ i \in 1 .. n /\ i + 1 \in 1 .. n
        BY <1>1, <1>3, <2>2, <3>2
      <4>2. PageNext(ps[i]) = ps[i + 1].offset
        BY <4>1 DEF Tiles
      <4>3. QED
        BY <1>3, <4>1, <4>2
    <3>3. QED
      BY <3>1, <3>2
  <2>3. QED
    BY <1>3, <2>1, <2>2 DEF Tiles
<1>6. ListSize(qs) = ListSize(ps) + p.bytes
  BY <1>3, <1>4 DEF ListSize, PageNext
<1>7. LoadedBytes(qs) = LoadedBytes(ps) \cup LoadedOf(p)
  <2>1. LoadedBytes(qs) = LoadedUpto(qs, n + 1)
    BY <1>3, LoadedAll
  <2>2. LoadedUpto(qs, n + 1) = LoadedUpto(qs, n) \cup LoadedOf(p)
    <3>1. n + 1 \in 1 .. Len(qs) /\ (n + 1) - 1 = n
      BY <1>1, <1>3
    <3>2. QED
      BY <1>3, <3>1, LoadedNext
  <2>3. LoadedUpto(qs, n) = LoadedUpto(ps, n)
    BY <1>1, <1>3, LoadedSame
  <2>4. LoadedUpto(ps, n) = LoadedBytes(ps)
    BY <1>1, LoadedAll
  <2>5. QED
    BY <2>1, <2>2, <2>3, <2>4
<1>8. Solid(ps) /\ p.bytes > 0 => Solid(qs)
  <2>1. ASSUME Solid(ps), p.bytes > 0, NEW i \in DOMAIN qs PROVE qs[i].bytes > 0
    <3>1. i \in 1 .. (n + 1) /\ DOMAIN ps = 1 .. n
      BY <1>1, <1>3
    <3>2. i = n + 1 \/ i \in 1 .. n
      BY <1>1, <3>1
    <3>3. QED
      BY <1>3, <2>1, <3>1, <3>2 DEF Solid
  <2>2. QED
    BY <2>1 DEF Solid
<1>9. ASSUME Alternates(ps), ps # <<>> => Last(ps).loaded # p.loaded PROVE Alternates(qs)
  <2>1. ASSUME NEW i \in 1 .. (Len(qs) - 1) PROVE qs[i].loaded # qs[i + 1].loaded
    <3>1. CASE i = n
      <4>1. ps # <<>> /\ i \in 1 .. n
        BY <1>1, <2>1, <3>1
      <4>2. QED
        BY <1>3, <1>9, <3>1, <4>1 DEF Last
    <3>2. CASE i # n
      <4>1. i \in 1 .. (n - 1) /\ i \in 1 .. n /\ i + 1 \in 1 .. n
        BY <1>1, <1>3, <2>1, <3>2
      <4>2. QED
        BY <1>3, <1>9, <4>1 DEF Alternates
    <3>3. QED
      BY <3>1, <3>2
  <2>2. QED
    BY <2>1 DEF Alternates
<1>10. Appended(ps, p, qs)
  BY <1>1, <1>3, <1>4, <1>5, <1>6, <1>7, <1>8 DEF Appended
<1>11. QED
  BY <1>2, <1>9, <1>10

\* Two intervals that meet make one.
LEMMA JoinIntervals ==
  ASSUME NEW a \in Nat, NEW m \in Nat, NEW k \in Nat
  PROVE  a .. (a + (m + k) - 1) = (a .. (a + m - 1)) \cup ((a + m) .. (a + m + k - 1))
OBVIOUS

\* The last page may be extended by one with the same flag.
LEMMA ExtendTiles ==
  ASSUME NEW ps, Tiles(ps), ps # <<>>, NEW p \in Pages, p.offset = ListSize(ps),
         Last(ps).loaded = p.loaded
  PROVE  /\ Appended(ps, p, Append(Front(ps), [Last(ps) EXCEPT !.bytes = @ + p.bytes]))
         /\ Alternates(ps)
              => Alternates(Append(Front(ps), [Last(ps) EXCEPT !.bytes = @ + p.bytes]))
<1> DEFINE n == Len(ps)
<1>1. ps \in Seq(Pages) /\ n \in Nat /\ n # 0 /\ n - 1 \in Nat /\ n \in 1 .. n
  BY DEF Tiles
<1>2. ps[n] \in Pages /\ Last(ps) = ps[n]
  BY <1>1 DEF Last
<1>3. PICK q : q = [Last(ps) EXCEPT !.bytes = @ + p.bytes]
  OBVIOUS
<1>4. /\ q \in Pages /\ q.offset = ps[n].offset /\ q.bytes = ps[n].bytes + p.bytes
      /\ q.loaded = ps[n].loaded
  BY <1>2, <1>3 DEF Pages
<1>5. PICK front : front = Front(ps)
  OBVIOUS
<1>6. front \in Seq(Pages) /\ Len(front) = n - 1 /\ \A i \in 1 .. (n - 1) : front[i] = ps[i]
  <2>1. \A i \in 1 .. (n - 1) : ps[i] \in Pages
    BY <1>1
  <2>2. front = SubSeq(ps, 1, n - 1)
    BY <1>5 DEF Front
  <2> HIDE DEF n
  <2>3. QED
    BY <1>1, <2>1, <2>2
<1>7. PICK qs : qs = Append(front, q)
  OBVIOUS
<1>8. /\ qs \in Seq(Pages) /\ Len(qs) = n /\ qs[n] = q
      /\ \A i \in 1 .. (n - 1) : qs[i] = ps[i]
      /\ qs # <<>>
  BY <1>1, <1>4, <1>6, <1>7
<1>9. Last(qs) = q
  BY <1>8 DEF Last
<1>10. \A i \in 1 .. n : qs[i].offset = ps[i].offset /\ qs[i].loaded = ps[i].loaded
  <2>1. TAKE i \in 1 .. n
  <2>2. i = n \/ i \in 1 .. (n - 1)
    BY <1>1
  <2>3. QED
    BY <1>4, <1>8, <2>2
<1>11. Tiles(qs)
  <2>1. qs[1].offset = 0
    BY <1>1, <1>10 DEF Tiles
  <2>2. ASSUME NEW i \in 1 .. (Len(qs) - 1) PROVE PageNext(qs[i]) = qs[i + 1].offset
    <3>1. i \in 1 .. (n - 1) /\ i + 1 \in 1 .. n
      BY <1>1, <1>8, <2>2
    <3>2. PageNext(ps[i]) = ps[i + 1].offset
      BY <3>1 DEF Tiles
    <3>3. QED
      BY <1>8, <1>10, <3>1, <3>2
  <2>3. QED
    BY <1>8, <2>1, <2>2 DEF Tiles
<1>12. ListSize(ps) = ps[n].offset + ps[n].bytes
  BY <1>2 DEF ListSize, PageNext
<1>13. ListSize(qs) = ListSize(ps) + p.bytes
  <2>1. ListSize(qs) = q.offset + q.bytes
    BY <1>8, <1>9 DEF ListSize, PageNext
  <2>2. ps[n].offset \in Nat /\ ps[n].bytes \in Nat /\ p.bytes \in Nat
    BY <1>2, PageParts
  <2>3. QED
    BY <1>4, <1>12, <2>1, <2>2
<1>14. LoadedBytes(qs) = LoadedBytes(ps) \cup LoadedOf(p)
  <2>1. LoadedBytes(qs) = LoadedUpto(qs, n) /\ LoadedBytes(ps) = LoadedUpto(ps, n)
    BY <1>1, <1>8, LoadedAll
  <2>2. /\ LoadedUpto(qs, n) = LoadedUpto(qs, n - 1) \cup LoadedOf(q)
        /\ LoadedUpto(ps, n) = LoadedUpto(ps, n - 1) \cup LoadedOf(ps[n])
    BY <1>1, <1>8, LoadedNext
  <2>3. LoadedUpto(qs, n - 1) = LoadedUpto(ps, n - 1)
    BY <1>1, <1>8, LoadedSame
  <2>4. LoadedOf(q) = LoadedOf(ps[n]) \cup LoadedOf(p)
    <3>1. /\ PageBytes(q) = ps[n].offset .. (ps[n].offset + (ps[n].bytes + p.bytes) - 1)
          /\ PageBytes(ps[n]) = ps[n].offset .. (ps[n].offset + ps[n].bytes - 1)
          /\ PageBytes(p) = p.offset .. (p.offset + p.bytes - 1)
      BY <1>2, <1>4, PageParts
    <3>2. /\ ps[n].offset \in Nat /\ ps[n].bytes \in Nat /\ p.bytes \in Nat
          /\ p.offset = ps[n].offset + ps[n].bytes
      BY <1>2, <1>12, PageParts
    <3>3. PageBytes(q) = PageBytes(ps[n]) \cup PageBytes(p)
      <4>1. PICK a \in Nat, m \in Nat, k \in Nat :
              a = ps[n].offset /\ m = ps[n].bytes /\ k = p.bytes
        BY <3>2
      <4>2. /\ PageBytes(q) = a .. (a + (m + k) - 1)
            /\ PageBytes(ps[n]) = a .. (a + m - 1)
            /\ PageBytes(p) = (a + m) .. (a + m + k - 1)
        BY <3>1, <3>2, <4>1, Zenon
      <4>3. a .. (a + (m + k) - 1) = (a .. (a + m - 1)) \cup ((a + m) .. (a + m + k - 1))
        BY JoinIntervals
      <4>4. QED
        BY <4>2, <4>3, Zenon
    <3>4. QED
      BY <1>2, <1>4, <3>3 DEF LoadedOf
  <2>5. QED
    BY <2>1, <2>2, <2>3, <2>4
<1>15. Solid(ps) /\ p.bytes > 0 => Solid(qs)
  <2>1. ASSUME Solid(ps), NEW i \in DOMAIN qs PROVE qs[i].bytes > 0
    <3>1. i \in 1 .. n /\ DOMAIN ps = 1 .. n
      BY <1>1, <1>8, <2>1
    <3>2. i = n \/ i \in 1 .. (n - 1)
      BY <1>1, <3>1
    <3>3. ps[i].bytes > 0
      BY <2>1, <3>1 DEF Solid
    <3>4. ps[n].bytes \in Nat /\ p.bytes \in Nat
      BY <1>2, PageParts
    <3>5. QED
      BY <1>4, <1>8, <3>2, <3>3, <3>4
  <2>2. QED
    BY <2>1 DEF Solid
<1>16. ASSUME Alternates(ps) PROVE Alternates(qs)
  <2>1. ASSUME NEW i \in 1 .. (Len(qs) - 1) PROVE qs[i].loaded # qs[i + 1].loaded
    <3>1. i \in 1 .. (n - 1) /\ i \in 1 .. n /\ i + 1 \in 1 .. n
      BY <1>1, <1>8, <2>1
    <3>2. QED
      BY <1>10, <1>16, <3>1 DEF Alternates
  <2>2. QED
    BY <2>1 DEF Alternates
<1>17. Len(qs) <= Len(ps) + 1 /\ Last(qs).loaded = p.loaded
  BY <1>1, <1>2, <1>4, <1>8, <1>9
<1>18. Appended(ps, p, qs)
  BY <1>8, <1>11, <1>13, <1>14, <1>15, <1>17 DEF Appended
<1>19. qs = Append(Front(ps), [Last(ps) EXCEPT !.bytes = @ + p.bytes])
  BY <1>3, <1>5, <1>7
<1>20. QED
  BY <1>16, <1>18, <1>19

\* MergePage appends the page, and leaves no two equal neighbours.
LEMMA MergeTiles ==
  ASSUME NEW ps, Tiles(ps), NEW p \in Pages, p.offset = ListSize(ps)
  PROVE  /\ Appended(ps, p, MergePage(ps, p))
         /\ Alternates(ps) => Alternates(MergePage(ps, p))
<1>1. CASE ps # <<>> /\ Last(ps).loaded = p.loaded
  <2>1. MergePage(ps, p) = Append(Front(ps), [Last(ps) EXCEPT !.bytes = @ + p.bytes])
    BY <1>1 DEF MergePage
  <2>2. QED
    BY <1>1, <2>1, ExtendTiles
<1>2. CASE ~(ps # <<>> /\ Last(ps).loaded = p.loaded)
  <2>1. MergePage(ps, p) = Append(ps, p)
    BY <1>2 DEF MergePage
  <2>2. QED
    BY <1>2, <2>1, AppendTiles
<1>3. QED
  BY <1>1, <1>2

\* What Compress keeps of a list, and what it makes of it.
Compressed(ps, qs) ==
  /\ Tiles(qs) /\ Alternates(qs)
  /\ ListSize(qs) = ListSize(ps)
  /\ LoadedBytes(qs) = LoadedBytes(ps)
  /\ Solid(ps) => Solid(qs)
  /\ Len(qs) <= Len(ps)

\* Compress keeps the size and the loaded bytes and makes neighbours differ.
LEMMA CompressEffect ==
  ASSUME NEW ps, Tiles(ps)
  PROVE  Compressed(ps, Compress(ps))
<1> DEFINE n == Len(ps)
           Done(qs, k) == /\ Tiles(qs) /\ Alternates(qs)
                          /\ ListSize(qs) = SizeUpto(ps, k)
                          /\ LoadedBytes(qs) = LoadedUpto(ps, k)
                          /\ Solid(ps) => Solid(qs)
                          /\ Len(qs) <= k
<1>1. ps \in Seq(Pages) /\ n \in Nat
  BY DEF Tiles
<1>2. PICK r \in [0 .. n -> Seq(Pages)] :
             /\ r[0] = <<>>
             /\ \A k \in 1 .. n : r[k] = MergePage(r[k - 1], ps[k])
             /\ Compress(ps) = r[n]
  BY <1>1, CompressSteps
<1> DEFINE G == {k \in 0 .. n : Done(r[k], k)}
<1>3. 0 \in G
  <2>1. Tiles(<<>>) /\ Alternates(<<>>) /\ Solid(<<>>)
    BY DEF Tiles, Alternates, Solid
  <2>2. ListSize(<<>>) = SizeUpto(ps, 0)
    BY DEF ListSize, SizeUpto
  <2>3. LoadedBytes(<<>>) = {} /\ LoadedUpto(ps, 0) = {}
    BY DEF LoadedBytes, LoadedUpto
  <2>4. Len(<<>>) <= 0 /\ 0 \in 0 .. n
    BY <1>1
  <2>5. QED
    BY <1>2, <2>1, <2>2, <2>3, <2>4
<1>4. ASSUME NEW k \in 0 .. n, k \in G, k < n PROVE k + 1 \in G
  <2>1. k + 1 \in 1 .. n /\ k + 1 \in 0 .. n /\ (k + 1) - 1 = k /\ k + 1 # 0
    BY <1>1, <1>4
  <2>2. PICK p : p = ps[k + 1]
    OBVIOUS
  <2>3. p \in Pages
    BY <1>1, <2>1, <2>2
  <2>4. Done(r[k], k)
    BY <1>4
  <2>5. p.offset = ListSize(r[k])
    <3>1. ps[k + 1].offset = SizeUpto(ps, k)
      BY <2>1, TileOffset
    <3>2. QED
      BY <2>2, <2>4, <3>1
  <2>6. PICK qs : qs = MergePage(r[k], p)
    OBVIOUS
  <2>7. r[k + 1] = qs
    BY <1>2, <2>1, <2>2, <2>6
  <2>8. Appended(r[k], p, qs) /\ Alternates(qs)
    BY <2>3, <2>4, <2>5, <2>6, MergeTiles
  <2>9. ListSize(qs) = SizeUpto(ps, k + 1)
    BY <2>1, <2>2, <2>5, <2>8 DEF Appended, SizeUpto, PageNext
  <2>10. LoadedBytes(qs) = LoadedUpto(ps, k + 1)
    <3>1. LoadedUpto(ps, k + 1) = LoadedUpto(ps, k) \cup LoadedOf(p)
      BY <1>1, <2>1, <2>2, LoadedNext
    <3>2. QED
      BY <2>4, <2>8, <3>1 DEF Appended
  <2>11. Solid(ps) => Solid(qs)
    <3>1. ASSUME Solid(ps) PROVE p.bytes > 0
      BY <1>1, <2>1, <2>2, <3>1 DEF Solid
    <3>2. QED
      BY <2>4, <2>8, <3>1 DEF Appended
  <2>12. Len(qs) <= k + 1
    <3>1. Len(r[k]) \in Nat /\ Len(qs) \in Nat
      BY <2>4, <2>8 DEF Tiles, Appended
    <3>2. QED
      BY <2>4, <2>8, <3>1 DEF Appended
  <2>13. Done(qs, k + 1)
    BY <2>8, <2>9, <2>10, <2>11, <2>12 DEF Appended
  <2> HIDE DEF Done
  <2>14. QED
    BY <2>1, <2>7, <2>13
<1>5. n \in G
  <2>1. n \in 0 .. n
    BY <1>1
  <2> HIDE DEF G
  <2>2. QED
    BY <1>1, <1>3, <1>4, <2>1, Induct
<1>6. Done(r[n], n)
  BY <1>5
<1>7. ListSize(ps) = SizeUpto(ps, n) /\ LoadedBytes(ps) = LoadedUpto(ps, n)
  BY <1>1, TileOffset, LoadedAll
<1>8. QED
  BY <1>2, <1>6, <1>7 DEF Compressed

\* The bytes of a file of n bytes.
Bytes(n) == 0 .. (n - 1)

\* The k-th page and where the pages before and after it meet it.
LEMMA TilePage ==
  ASSUME NEW ps, Tiles(ps), NEW k \in 1 .. Len(ps)
  PROVE  /\ ps[k] \in Pages
         /\ k - 1 \in 0 .. Len(ps) /\ k \in 0 .. Len(ps)
         /\ SizeUpto(ps, k - 1) \in Nat /\ SizeUpto(ps, k) \in Nat
         /\ ps[k].offset = SizeUpto(ps, k - 1)
         /\ PageNext(ps[k]) = SizeUpto(ps, k)
         /\ SizeUpto(ps, k - 1) + ps[k].bytes = SizeUpto(ps, k)
         /\ PageBytes(ps[k]) = SizeUpto(ps, k - 1) .. (SizeUpto(ps, k) - 1)
<1>1. ps[k] \in Pages /\ k - 1 \in 0 .. Len(ps) /\ k \in 0 .. Len(ps) /\ k # 0
  BY DEF Tiles
<1>2. /\ ps[k].offset = SizeUpto(ps, k - 1)
      /\ SizeUpto(ps, k - 1) \in Nat /\ SizeUpto(ps, k) \in Nat
  BY <1>1, TileOffset
<1>3. PageNext(ps[k]) = SizeUpto(ps, k)
  BY <1>1 DEF SizeUpto
<1>4. QED
  BY <1>1, <1>2, <1>3, PageParts

\* The first pages end before the others, and all bytes up to there are theirs.
LEMMA TileOrder ==
  ASSUME NEW ps, Tiles(ps)
  PROVE  /\ \A j \in 0 .. Len(ps) : \A i \in 0 .. j : SizeUpto(ps, i) <= SizeUpto(ps, j)
         /\ \A j \in 0 .. Len(ps) : \A b \in Bytes(SizeUpto(ps, j)) :
              \E i \in 1 .. j : b \in PageBytes(ps[i])
<1> DEFINE n == Len(ps)
           Good(j) == /\ \A i \in 0 .. j : SizeUpto(ps, i) <= SizeUpto(ps, j)
                      /\ \A b \in Bytes(SizeUpto(ps, j)) : \E i \in 1 .. j : b \in PageBytes(ps[i])
           G == {j \in 0 .. n : Good(j)}
<1>1. n \in Nat /\ \A k \in 0 .. n : SizeUpto(ps, k) \in Nat
  BY TileOffset DEF Tiles
<1>2. 0 \in G
  <2>1. SizeUpto(ps, 0) = 0 /\ 0 \in 0 .. n
    BY <1>1 DEF SizeUpto
  <2>2. Bytes(0) = {} /\ \A i \in 0 .. 0 : i = 0
    BY DEF Bytes
  <2>3. QED
    BY <2>1, <2>2
<1>3. ASSUME NEW k \in 0 .. n, k \in G, k < n PROVE k + 1 \in G
  <2>1. k + 1 \in 1 .. n /\ k + 1 \in 0 .. n /\ (k + 1) - 1 = k
    BY <1>1, <1>3
  <2>2. /\ SizeUpto(ps, k) \in Nat /\ SizeUpto(ps, k + 1) \in Nat /\ ps[k + 1].bytes \in Nat
        /\ SizeUpto(ps, k) + ps[k + 1].bytes = SizeUpto(ps, k + 1)
        /\ PageBytes(ps[k + 1]) = SizeUpto(ps, k) .. (SizeUpto(ps, k + 1) - 1)
    BY <2>1, TilePage, PageParts
  <2>3. Good(k)
    BY <1>3
  <2>4. ASSUME NEW i \in 0 .. (k + 1) PROVE SizeUpto(ps, i) <= SizeUpto(ps, k + 1)
    <3>1. CASE i = k + 1
      BY <2>2, <3>1
    <3>2. CASE i # k + 1
      <4>1. i \in 0 .. k /\ i \in 0 .. n
        BY <1>1, <2>1, <3>2
      <4>2. SizeUpto(ps, i) <= SizeUpto(ps, k) /\ SizeUpto(ps, i) \in Nat
        BY <1>1, <2>3, <4>1
      <4>3. QED
        BY <2>2, <4>2
    <3>3. QED
      BY <3>1, <3>2
  <2>5. ASSUME NEW b \in Bytes(SizeUpto(ps, k + 1))
        PROVE  \E i \in 1 .. (k + 1) : b \in PageBytes(ps[i])
    <3>1. CASE b \in Bytes(SizeUpto(ps, k))
      <4>1. PICK i \in 1 .. k : b \in PageBytes(ps[i])
        BY <2>3, <3>1
      <4>2. i \in 1 .. (k + 1)
        BY <2>1, <4>1
      <4>3. QED
        BY <4>1, <4>2
    <3>2. CASE b \notin Bytes(SizeUpto(ps, k))
      <4>1. b \in PageBytes(ps[k + 1])
        BY <2>2, <3>2 DEF Bytes
      <4>2. k + 1 \in 1 .. (k + 1)
        BY <2>1
      <4>3. QED
        BY <4>1, <4>2
    <3>3. QED
      BY <3>1, <3>2
  <2>6. Good(k + 1)
    BY <2>4, <2>5
  <2> HIDE DEF Good
  <2>7. QED
    BY <2>1, <2>6
<1>4. \A j \in 0 .. n : j \in G
  <2> HIDE DEF G
  <2>1. QED
    BY <1>1, <1>2, <1>3, Induct
<1>5. QED
  BY <1>4

\* A list has loaded bytes of the file only.
LEMMA LoadedBounds ==
  ASSUME NEW ps, Tiles(ps)
  PROVE  /\ ListSize(ps) \in Nat
         /\ LoadedBytes(ps) \subseteq Bytes(ListSize(ps))
<1>1. ps \in Seq(Pages) /\ Len(ps) \in Nat
  BY DEF Tiles
<1>2. ListSize(ps) = SizeUpto(ps, Len(ps)) /\ ListSize(ps) \in Nat
  BY <1>1, TileOffset
<1>3. ASSUME NEW b \in LoadedUpto(ps, Len(ps)) PROVE b \in Bytes(ListSize(ps))
  <2>1. PICK k \in 1 .. Len(ps) : b \in LoadedOf(ps[k])
    BY <1>3 DEF LoadedUpto
  <2>2. b \in SizeUpto(ps, k - 1) .. (SizeUpto(ps, k) - 1) /\ SizeUpto(ps, k - 1) \in Nat
        /\ SizeUpto(ps, k) \in Nat
    BY <2>1, TilePage DEF LoadedOf
  <2>3. SizeUpto(ps, k) <= ListSize(ps)
    <3>1. k \in 0 .. Len(ps) /\ Len(ps) \in 0 .. Len(ps)
      BY <1>1
    <3>2. QED
      BY <1>2, <3>1, TileOrder
  <2>4. QED
    BY <1>2, <2>2, <2>3 DEF Bytes
<1>4. QED
  BY <1>1, <1>2, <1>3, LoadedAll

\* What CutPages makes of a list.
CutTo(ps, qs, size) ==
  /\ Tiles(qs)
  /\ ListSize(qs) = size
  /\ LoadedBytes(qs) = LoadedBytes(ps) \cap Bytes(size)
  /\ Solid(ps) => Solid(qs)

\* CutPages drops what lies past the size and nothing else.
LEMMA CutEffect ==
  ASSUME NEW ps, Tiles(ps), NEW size \in Nat, size < ListSize(ps)
  PROVE  CutTo(ps, CutPages(ps, size), size)
<1> DEFINE n == Len(ps)
           Lower(a) == IF a <= size THEN a ELSE size
           Done(qs, k) == /\ Tiles(qs)
                          /\ ListSize(qs) = Lower(SizeUpto(ps, k))
                          /\ LoadedBytes(qs) = LoadedUpto(ps, k) \cap Bytes(size)
                          /\ Solid(ps) => Solid(qs)
<1>1. ps \in Seq(Pages) /\ n \in Nat
  BY DEF Tiles
<1>2. PICK r \in [0 .. n -> Seq(Pages)] :
             /\ r[0] = <<>>
             /\ \A k \in 1 .. n : r[k] = CutPage(r[k - 1], ps[k], size)
             /\ CutPages(ps, size) = r[n]
  BY <1>1, CutSteps
<1> DEFINE G == {k \in 0 .. n : Done(r[k], k)}
<1>3. 0 \in G
  <2>1. Tiles(<<>>) /\ Solid(<<>>)
    BY DEF Tiles, Solid
  <2>2. ListSize(<<>>) = Lower(SizeUpto(ps, 0))
    BY DEF ListSize, SizeUpto
  <2>3. LoadedBytes(<<>>) = {} /\ LoadedUpto(ps, 0) = {}
    BY DEF LoadedBytes, LoadedUpto
  <2>4. 0 \in 0 .. n
    BY <1>1
  <2>5. QED
    BY <1>2, <2>1, <2>2, <2>3, <2>4
<1>4. ASSUME NEW k \in 0 .. n, k \in G, k < n PROVE k + 1 \in G
  <2>1. k + 1 \in 1 .. n /\ k + 1 \in 0 .. n /\ (k + 1) - 1 = k
    BY <1>1, <1>4
  <2>2. PICK p : p = ps[k + 1]
    OBVIOUS
  <2>3. PICK a, e : a = SizeUpto(ps, k) /\ e = SizeUpto(ps, k + 1)
    OBVIOUS
  <2>4. /\ p \in Pages /\ a \in Nat /\ e \in Nat /\ p.offset = a /\ PageNext(p) = e
        /\ p.bytes \in Nat /\ a + p.bytes = e /\ PageBytes(p) = a .. (e - 1)
    BY <2>1, <2>2, <2>3, TilePage, PageParts
  <2>5. PICK q : q = r[k]
    OBVIOUS
  <2>6. Done(q, k)
    BY <1>4, <2>5
  <2>7. Tiles(q) /\ ListSize(q) = Lower(a) /\ LoadedBytes(q) = LoadedUpto(ps, k) \cap Bytes(size)
        /\ (Solid(ps) => Solid(q))
    BY <2>3, <2>6
  <2>8. PICK qs : qs = CutPage(q, p, size)
    OBVIOUS
  <2>9. r[k + 1] = qs
    BY <1>2, <2>1, <2>2, <2>5, <2>8
  <2>10. LoadedUpto(ps, k + 1) = LoadedUpto(ps, k) \cup LoadedOf(p)
    BY <1>1, <2>1, <2>2, LoadedNext
  <2>11. Solid(ps) => p.bytes > 0
    BY <1>1, <2>1, <2>2 DEF Solid
  <2>12. Tiles(qs) /\ ListSize(qs) = Lower(e) /\ (Solid(ps) => Solid(qs))
         /\ LoadedBytes(qs) = LoadedBytes(q) \cup (LoadedOf(p) \cap Bytes(size))
    <3>1. CASE e <= size
      <4>1. qs = Append(q, p)
        BY <2>4, <2>8, <3>1 DEF CutPage
      <4>2. p.offset = ListSize(q)
        BY <2>4, <2>7, <3>1
      <4>3. Appended(q, p, qs)
        BY <2>4, <2>7, <4>1, <4>2, AppendTiles
      <4>4. ListSize(qs) = Lower(e)
        BY <2>4, <3>1, <4>2, <4>3 DEF Appended
      <4>5. LoadedOf(p) \cap Bytes(size) = LoadedOf(p)
        <5>1. PageBytes(p) \subseteq Bytes(size)
          BY <2>4, <3>1 DEF Bytes
        <5>2. QED
          BY <5>1 DEF LoadedOf
      <4>6. QED
        BY <2>7, <2>11, <4>3, <4>4, <4>5 DEF Appended
    <3>2. CASE ~(e <= size) /\ a < size
      <4>1. PICK c : c = [p EXCEPT !.bytes = size - p.offset]
        OBVIOUS
      <4>2. c \in Pages /\ c.offset = a /\ c.bytes = size - a /\ c.loaded = p.loaded /\ c.bytes > 0
        <5>1. size - a \in Nat /\ size - a > 0
          BY <2>4, <3>2
        <5>2. QED
          BY <2>4, <4>1, <5>1 DEF Pages
      <4>3. qs = Append(q, c)
        BY <2>4, <2>8, <3>2, <4>1 DEF CutPage
      <4>4. c.offset = ListSize(q)
        BY <2>4, <2>7, <3>2, <4>2
      <4>5. Appended(q, c, qs)
        BY <2>7, <4>2, <4>3, <4>4, AppendTiles
      <4>6. ListSize(qs) = Lower(e)
        <5>1. ListSize(qs) = a + (size - a)
          BY <4>2, <4>4, <4>5 DEF Appended
        <5>2. QED
          BY <2>4, <3>2, <5>1
      <4>7. LoadedOf(c) = LoadedOf(p) \cap Bytes(size)
        <5>1. PageBytes(c) = a .. (a + (size - a) - 1)
          BY <4>2, PageParts
        <5>2. PageBytes(c) = PageBytes(p) \cap Bytes(size)
          BY <2>4, <3>2, <5>1 DEF Bytes
        <5>3. QED
          BY <4>2, <5>2 DEF LoadedOf
      <4>8. QED
        BY <2>7, <4>2, <4>5, <4>6, <4>7 DEF Appended
    <3>3. CASE ~(e <= size) /\ ~(a < size)
      <4>1. qs = q
        BY <2>4, <2>8, <3>3 DEF CutPage
      <4>2. Lower(a) = Lower(e)
        BY <2>4, <3>3
      <4>3. LoadedOf(p) \cap Bytes(size) = {}
        <5>1. PageBytes(p) \cap Bytes(size) = {}
          BY <2>4, <3>3 DEF Bytes
        <5>2. QED
          BY <5>1 DEF LoadedOf
      <4>4. QED
        BY <2>7, <4>1, <4>2, <4>3
    <3>4. QED
      BY <3>1, <3>2, <3>3
  <2>13. Done(qs, k + 1)
    BY <2>3, <2>7, <2>10, <2>12
  <2> HIDE DEF Done
  <2>14. QED
    BY <2>1, <2>9, <2>13
<1>5. n \in G
  <2>1. n \in 0 .. n
    BY <1>1
  <2> HIDE DEF G
  <2>2. QED
    BY <1>1, <1>3, <1>4, <2>1, Induct
<1>6. Done(r[n], n)
  BY <1>5
<1>7. ListSize(ps) = SizeUpto(ps, n) /\ LoadedBytes(ps) = LoadedUpto(ps, n) /\ ListSize(ps) \in Nat
  BY <1>1, TileOffset, LoadedAll, LoadedBounds
<1>8. Lower(SizeUpto(ps, n)) = size
  BY <1>7
<1>9. QED
  BY <1>2, <1>6, <1>7, <1>8 DEF CutTo

\* Only a list of one page may have an empty page.
Tidy(ps) == Tiles(ps) /\ (Solid(ps) \/ Len(ps) <= 1)

\* What a page list always is.
Normal(ps) == Tidy(ps) /\ Alternates(ps)

\* What Resize makes of a list.
ResizedTo(ps, qs, n, flag) ==
  /\ ListSize(qs) = n
  /\ LoadedBytes(qs) = (LoadedBytes(ps) \cap Bytes(n)) \cup
                       (IF flag THEN Bytes(n) \ Bytes(ListSize(ps)) ELSE {})

\* A list that is not empty and has a size has pages that are not empty.
LEMMA TidySolid ==
  ASSUME NEW ps, Tidy(ps), ListSize(ps) # 0
  PROVE  Solid(ps) /\ ps # <<>>
<1>1. ps \in Seq(Pages) /\ Len(ps) \in Nat
  BY DEF Tidy, Tiles
<1>2. ps # <<>>
  BY DEF ListSize
<1>3. CASE Solid(ps)
  BY <1>2, <1>3
<1>4. CASE Len(ps) <= 1
  <2>1. Len(ps) = 1 /\ DOMAIN ps = {1} /\ ps[1] \in Pages
    <3>1. Len(ps) # 0 /\ DOMAIN ps = 1 .. Len(ps)
      BY <1>1, <1>2
    <3>2. Len(ps) = 1
      BY <1>1, <1>4, <3>1
    <3>3. 1 .. 1 = {1}
      OBVIOUS
    <3>4. QED
      BY <1>1, <3>1, <3>2, <3>3
  <2>2. ps[1].offset = 0
    BY <1>2 DEF Tidy, Tiles
  <2>3. ListSize(ps) = 0 + ps[1].bytes /\ ps[1].bytes \in Nat
    BY <1>2, <2>1, <2>2, PageParts DEF ListSize, Last
  <2>4. ps[1].bytes > 0
    BY <2>3
  <2>5. QED
    BY <1>2, <2>1, <2>4 DEF Solid
<1>5. QED
  BY <1>3, <1>4 DEF Tidy

\* Init makes one page, all loaded or all unloaded.
LEMMA InitEffect ==
  ASSUME NEW n \in Nat, NEW flag \in BOOLEAN
  PROVE  /\ Normal(InitPages(n, flag))
         /\ ListSize(InitPages(n, flag)) = n
         /\ LoadedBytes(InitPages(n, flag)) = IF flag THEN Bytes(n) ELSE {}
<1>1. PICK p : p = Page(0, n, flag)
  OBVIOUS
<1>2. p \in Pages /\ p.offset = 0 /\ p.bytes = n /\ p.loaded = flag
  BY <1>1 DEF Page, Pages
<1>3. PICK ps : ps = <<p>>
  OBVIOUS
<1>4. ps \in Seq(Pages) /\ Len(ps) = 1 /\ ps[1] = p /\ ps # <<>> /\ Last(ps) = p
  BY <1>2, <1>3 DEF Last
<1>5. 1 .. (Len(ps) - 1) = {}
  BY <1>4
<1>6. Tiles(ps) /\ Alternates(ps)
  BY <1>2, <1>4, <1>5 DEF Tiles, Alternates
<1>7. ListSize(ps) = n
  BY <1>2, <1>4 DEF ListSize, PageNext
<1>8. LoadedBytes(ps) = LoadedOf(p)
  <2>1. LoadedBytes(ps) = LoadedUpto(ps, 1)
    BY <1>4, LoadedAll
  <2>2. 1 .. 1 = {1}
    OBVIOUS
  <2>3. QED
    BY <1>4, <2>1, <2>2 DEF LoadedUpto
<1>9. PageBytes(p) = Bytes(n)
  BY <1>2, PageParts DEF Bytes
<1>10. ps = InitPages(n, flag)
  BY <1>1, <1>3 DEF InitPages
<1>11. Normal(ps)
  <2>1. Len(ps) <= 1
    BY <1>4
  <2>2. QED
    BY <1>6, <2>1 DEF Normal, Tidy
<1>12. LoadedBytes(ps) = IF flag THEN Bytes(n) ELSE {}
  BY <1>2, <1>8, <1>9 DEF LoadedOf
<1>13. QED
  BY <1>7, <1>10, <1>11, <1>12

\* The three branches of Resize.
LEMMA UncompressedEffect ==
  ASSUME NEW ps, Tidy(ps), NEW n \in Nat, NEW flag \in BOOLEAN
  PROVE  /\ Tidy(ResizeUncompressed(ps, n, flag))
         /\ ResizedTo(ps, ResizeUncompressed(ps, n, flag), n, flag)
<1>1. PICK total : total = ListSize(ps)
  OBVIOUS
<1>2. Tiles(ps) /\ total \in Nat /\ LoadedBytes(ps) \subseteq Bytes(total)
  BY <1>1, LoadedBounds DEF Tidy
<1>3. PICK qs : qs = ResizeUncompressed(ps, n, flag)
  OBVIOUS
<1>4. CASE total = 0
  <2>1. qs = InitPages(n, flag)
    BY <1>1, <1>3, <1>4 DEF ResizeUncompressed
  <2>2. Bytes(total) = {}
    BY <1>4 DEF Bytes
  <2>3. /\ Tidy(qs) /\ ListSize(qs) = n
        /\ LoadedBytes(qs) = IF flag THEN Bytes(n) ELSE {}
    BY <2>1, InitEffect DEF Normal
  <2>4. QED
    BY <1>1, <1>2, <1>3, <2>2, <2>3 DEF ResizedTo
<1>5. CASE total # 0 /\ total < n
  <2>1. PICK p : p = Page(total, n - total, flag)
    OBVIOUS
  <2>2. p \in Pages /\ p.offset = total /\ p.bytes = n - total /\ p.loaded = flag /\ p.bytes > 0
    <3>1. n - total \in Nat /\ n - total > 0
      BY <1>2, <1>5
    <3>2. QED
      BY <1>2, <2>1, <3>1 DEF Page, Pages
  <2>3. qs = Append(ps, p)
    BY <1>1, <1>3, <1>5, <2>1 DEF ResizeUncompressed
  <2>4. Appended(ps, p, qs)
    BY <1>1, <1>2, <2>2, <2>3, AppendTiles
  <2>5. Solid(ps)
    BY <1>1, <1>5, TidySolid
  <2>6. Tidy(qs)
    BY <2>2, <2>4, <2>5 DEF Appended, Tidy
  <2>7. ListSize(qs) = n
    <3>1. ListSize(qs) = total + (n - total)
      BY <1>1, <2>2, <2>4 DEF Appended
    <3>2. QED
      BY <1>2, <3>1
  <2>8. PageBytes(p) = Bytes(n) \ Bytes(total)
    <3>1. PageBytes(p) = total .. (total + (n - total) - 1)
      BY <2>2, PageParts
    <3>2. QED
      BY <1>2, <3>1 DEF Bytes
  <2>9. LoadedBytes(ps) \cap Bytes(n) = LoadedBytes(ps)
    <3>1. Bytes(total) \subseteq Bytes(n)
      BY <1>2, <1>5 DEF Bytes
    <3>2. QED
      BY <1>2, <3>1
  <2>10. LoadedBytes(qs) = LoadedBytes(ps) \cup (IF flag THEN PageBytes(p) ELSE {})
    BY <2>2, <2>4 DEF Appended, LoadedOf
  <2>11. QED
    BY <1>1, <1>3, <2>6, <2>7, <2>8, <2>9, <2>10 DEF ResizedTo
<1>6. CASE total # 0 /\ n < total
  <2>1. qs = CutPages(ps, n)
    BY <1>1, <1>2, <1>3, <1>6 DEF ResizeUncompressed
  <2>2. CutTo(ps, qs, n)
    BY <1>1, <1>2, <1>6, <2>1, CutEffect
  <2>3. Solid(ps)
    BY <1>1, <1>6, TidySolid
  <2>4. Bytes(n) \ Bytes(total) = {}
    BY <1>2, <1>6 DEF Bytes
  <2>5. QED
    BY <1>1, <1>3, <2>2, <2>3, <2>4 DEF CutTo, Tidy, ResizedTo
<1>7. CASE total # 0 /\ n = total
  <2>1. qs = ps
    BY <1>1, <1>2, <1>3, <1>7 DEF ResizeUncompressed
  <2>2. QED
    BY <1>1, <1>2, <1>3, <1>7, <2>1 DEF ResizedTo
<1>8. total = 0 \/ total < n \/ n < total \/ n = total
  BY <1>2
<1>9. QED
  BY <1>4, <1>5, <1>6, <1>7, <1>8

\* Compress makes a tidy list normal and keeps its size and its loaded bytes.
LEMMA CompressNormal ==
  ASSUME NEW ps, Tidy(ps)
  PROVE  /\ Normal(Compress(ps))
         /\ ListSize(Compress(ps)) = ListSize(ps)
         /\ LoadedBytes(Compress(ps)) = LoadedBytes(ps)
<1>1. PICK qs : qs = Compress(ps)
  OBVIOUS
<1>2. Compressed(ps, qs)
  BY <1>1, CompressEffect DEF Tidy
<1>3. Len(qs) \in Nat /\ Len(ps) \in Nat
  BY <1>2 DEF Compressed, Tiles, Tidy
<1>4. Len(ps) <= 1 => Len(qs) <= 1
  BY <1>2, <1>3 DEF Compressed
<1>5. QED
  BY <1>1, <1>2, <1>4 DEF Compressed, Tidy, Normal

\* Resize sets the size, keeps what is loaded and fits, and gives what is new
\* the flag.
LEMMA ResizeEffect ==
  ASSUME NEW ps, Tidy(ps), NEW n \in Nat, NEW flag \in BOOLEAN
  PROVE  Normal(Resize(ps, n, flag)) /\ ResizedTo(ps, Resize(ps, n, flag), n, flag)
BY UncompressedEffect, CompressNormal DEF Resize, ResizedTo

\* No page of the list goes over a position.
AtEdge(ps, x) == \A i \in DOMAIN ps : ~(ps[i].offset < x /\ x < PageNext(ps[i]))

\* What Parse makes of a list: the same bytes, with an edge at a position.
SplitAt(ps, qs, pos) ==
  /\ Tiles(qs) /\ Solid(qs)
  /\ ListSize(qs) = ListSize(ps)
  /\ LoadedBytes(qs) = LoadedBytes(ps)
  /\ AtEdge(qs, pos)
  /\ \A x \in Nat : AtEdge(ps, x) => AtEdge(qs, x)

\* A page with its two halves in its place.
SplitPage(ps, i, left, right) ==
  SubSeq(ps, 1, i - 1) \o <<left, right>> \o SubSeq(ps, i + 1, Len(ps))

\* qs has the pages of ps, with two in the place of the i-th.
HasHalves(ps, i, left, right, qs) ==
  /\ qs \in Seq(Pages)
  /\ Len(qs) = Len(ps) + 1
  /\ \A k \in 1 .. (i - 1) : qs[k] = ps[k]
  /\ qs[i] = left
  /\ qs[i + 1] = right
  /\ \A k \in (i + 2) .. (Len(ps) + 1) : qs[k] = ps[k - 1]

\* The pages of a list in which one is replaced by two.
LEMMA SplitPages ==
  ASSUME NEW ps \in Seq(Pages), NEW i \in 1 .. Len(ps), NEW left \in Pages, NEW right \in Pages
  PROVE  HasHalves(ps, i, left, right, SplitPage(ps, i, left, right))
<1> DEFINE n == Len(ps)
<1>1. n \in Nat /\ i - 1 \in Nat /\ n - i \in Nat /\ i \in Nat
  OBVIOUS
<1>2. PICK a : a = SubSeq(ps, 1, i - 1)
  OBVIOUS
<1>3. PICK c : c = SubSeq(ps, i + 1, n)
  OBVIOUS
<1>4. PICK m : m = <<left, right>>
  OBVIOUS
<1>5. a \in Seq(Pages) /\ Len(a) = i - 1 /\ \A k \in 1 .. (i - 1) : a[k] = ps[k]
  <2>1. \A k \in 1 .. (i - 1) : ps[k] \in Pages
    OBVIOUS
  <2>2. QED
    BY <1>1, <1>2, <2>1
<1>6. c \in Seq(Pages) /\ Len(c) = n - i /\ \A k \in 1 .. (n - i) : c[k] = ps[i + k]
  <2>1. \A k \in (i + 1) .. n : ps[k] \in Pages
    BY <1>1
  <2>2. /\ c \in Seq(Pages)
        /\ Len(c) = IF i + 1 <= n THEN n - (i + 1) + 1 ELSE 0
        /\ \A k \in 1 .. (n - (i + 1) + 1) : c[k] = ps[(i + 1) + k - 1]
    <3> HIDE DEF n
    <3>1. i + 1 \in Int /\ n \in Int
      BY <1>1
    <3>2. QED
      BY <1>3, <2>1, <3>1, SubSeqProperties
  <2> HIDE DEF n
  <2>3. n - (i + 1) + 1 = n - i /\ \A k \in 1 .. (n - i) : (i + 1) + k - 1 = i + k
    BY <1>1
  <2>4. Len(c) = n - i
    BY <1>1, <2>2
  <2>5. QED
    BY <2>2, <2>3, <2>4
<1>7. m \in Seq(Pages) /\ Len(m) = 2 /\ m[1] = left /\ m[2] = right
  BY <1>4
<1>8. PICK am : am = a \o m
  OBVIOUS
<1> HIDE DEF n
<1>9. /\ am \in Seq(Pages) /\ Len(am) = i + 1
      /\ \A k \in 1 .. (i - 1) : am[k] = ps[k]
      /\ am[i] = left /\ am[i + 1] = right
  <2>0. am \in Seq(Pages) /\ Len(am) = Len(a) + Len(m)
        /\ \A k \in 1 .. Len(a) + Len(m) : am[k] = IF k <= Len(a) THEN a[k] ELSE m[k - Len(a)]
    BY <1>5, <1>7, <1>8, ConcatProperties, Zenon
  <2>1. am \in Seq(Pages) /\ Len(am) = (i - 1) + 2
    BY <1>5, <1>7, <2>0
  <2>2. \A k \in 1 .. (i - 1) : am[k] = a[k]
    BY <1>1, <1>5, <1>7, <2>0
  <2>3. am[(i - 1) + 1] = m[1] /\ am[(i - 1) + 2] = m[2]
    BY <1>1, <1>5, <1>7, <2>0
  <2>4. (i - 1) + 1 = i /\ (i - 1) + 2 = i + 1
    BY <1>1
  <2>5. QED
    BY <1>5, <1>7, <2>1, <2>2, <2>3, <2>4
<1>10. PICK qs : qs = am \o c
  OBVIOUS
<1>11. /\ qs \in Seq(Pages) /\ Len(qs) = n + 1
       /\ \A k \in 1 .. (i + 1) : qs[k] = am[k]
       /\ \A k \in 1 .. (n - i) : qs[(i + 1) + k] = c[k]
  <2>0. qs \in Seq(Pages) /\ Len(qs) = Len(am) + Len(c)
        /\ \A k \in 1 .. Len(am) + Len(c) : qs[k] = IF k <= Len(am) THEN am[k] ELSE c[k - Len(am)]
    BY <1>6, <1>9, <1>10, ConcatProperties, Zenon
  <2>1. qs \in Seq(Pages) /\ Len(qs) = (i + 1) + (n - i)
    BY <1>6, <1>9, <2>0
  <2>2. \A k \in 1 .. (i + 1) : qs[k] = am[k]
    BY <1>1, <1>6, <1>9, <2>0
  <2>3. \A k \in 1 .. (n - i) : qs[(i + 1) + k] = c[k]
    BY <1>1, <1>6, <1>9, <2>0
  <2>4. (i + 1) + (n - i) = n + 1
    BY <1>1
  <2>5. QED
    BY <2>1, <2>2, <2>3, <2>4
<1>12. \A k \in 1 .. (i - 1) : qs[k] = ps[k]
  BY <1>1, <1>9, <1>11
<1>13. qs[i] = left /\ qs[i + 1] = right
  BY <1>1, <1>9, <1>11
<1>14. \A k \in (i + 2) .. (n + 1) : qs[k] = ps[k - 1]
  <2>1. TAKE k \in (i + 2) .. (n + 1)
  <2>2. PICK d \in 1 .. (n - i) : k = (i + 1) + d /\ k - 1 = i + d
    <3>1. k - (i + 1) \in 1 .. (n - i) /\ k = (i + 1) + (k - (i + 1)) /\ k - 1 = i + (k - (i + 1))
      BY <1>1
    <3>2. QED
      BY <3>1
  <2>3. QED
    BY <1>6, <1>11, <2>2
<1>15. qs = SplitPage(ps, i, left, right)
  BY <1>2, <1>3, <1>4, <1>8, <1>10 DEF SplitPage, n
<1>16. QED
  BY <1>11, <1>12, <1>13, <1>14, <1>15 DEF n, HasHalves

\* Splitting a page at a position inside it changes no byte.
LEMMA SplitEffect ==
  ASSUME NEW ps, Tiles(ps), Solid(ps), NEW pos \in Nat, NEW i \in 1 .. Len(ps),
         ps[i].offset < pos, pos < PageNext(ps[i]),
         NEW left, left = Page(ps[i].offset, pos - ps[i].offset, ps[i].loaded),
         NEW right, right = Page(pos, PageNext(ps[i]) - pos, ps[i].loaded)
  PROVE  /\ Tiles(SplitPage(ps, i, left, right)) /\ Solid(SplitPage(ps, i, left, right))
         /\ ListSize(SplitPage(ps, i, left, right)) = ListSize(ps)
         /\ LoadedBytes(SplitPage(ps, i, left, right)) = LoadedBytes(ps)
         /\ \A x \in Nat : AtEdge(ps, x) => AtEdge(SplitPage(ps, i, left, right), x)
<1> DEFINE n == Len(ps)
<1>1. ps \in Seq(Pages) /\ n \in Nat /\ i \in Nat /\ n \in 1 .. n /\ DOMAIN ps = 1 .. n
  BY DEF Tiles
<1>2. /\ ps[i] \in Pages /\ ps[i].offset \in Nat /\ PageNext(ps[i]) \in Nat
      /\ PageBytes(ps[i]) = ps[i].offset .. (PageNext(ps[i]) - 1)
  BY <1>1, PageParts DEF PageBytes
<1>3. /\ left \in Pages /\ left.offset = ps[i].offset /\ left.bytes = pos - ps[i].offset
      /\ left.loaded = ps[i].loaded /\ left.bytes > 0
  <2>1. pos - ps[i].offset \in Nat /\ pos - ps[i].offset > 0
    BY <1>2
  <2>2. QED
    BY <1>2, <2>1 DEF Page, Pages
<1>4. /\ right \in Pages /\ right.offset = pos /\ right.bytes = PageNext(ps[i]) - pos
      /\ right.loaded = ps[i].loaded /\ right.bytes > 0
  <2>1. PageNext(ps[i]) - pos \in Nat /\ PageNext(ps[i]) - pos > 0
    BY <1>2
  <2>2. QED
    BY <1>2, <2>1 DEF Page, Pages
<1>5. PageNext(left) = pos /\ PageNext(right) = PageNext(ps[i])
  <2>1. PageNext(left) = ps[i].offset + (pos - ps[i].offset)
    BY <1>3 DEF PageNext
  <2>2. PageNext(right) = pos + (PageNext(ps[i]) - pos)
    BY <1>4 DEF PageNext
  <2>3. QED
    BY <1>2, <2>1, <2>2
<1>6. PICK qs : qs = SplitPage(ps, i, left, right)
  OBVIOUS
<1>7. /\ qs \in Seq(Pages) /\ Len(qs) = n + 1 /\ DOMAIN qs = 1 .. (n + 1)
      /\ \A k \in 1 .. (i - 1) : qs[k] = ps[k]
      /\ qs[i] = left /\ qs[i + 1] = right
      /\ \A k \in (i + 2) .. (n + 1) : qs[k] = ps[k - 1]
  <2>1. /\ qs \in Seq(Pages) /\ Len(qs) = n + 1
        /\ \A k \in 1 .. (i - 1) : qs[k] = ps[k]
        /\ qs[i] = left /\ qs[i + 1] = right
        /\ \A k \in (i + 2) .. (n + 1) : qs[k] = ps[k - 1]
    <3>1. HasHalves(ps, i, left, right, qs)
      BY <1>1, <1>3, <1>4, <1>6, SplitPages
    <3>2. QED
      BY <3>1 DEF HasHalves
  <2>2. DOMAIN qs = 1 .. (n + 1)
    BY <2>1
  <2>3. QED
    BY <2>1, <2>2, Zenon
<1> HIDE DEF n
<1>8. \A k \in 1 .. (n - 1) : PageNext(ps[k]) = ps[k + 1].offset
  BY DEF Tiles, n
<1>9. i \in 1 .. n
  BY DEF n
<1>10. ASSUME NEW k \in 1 .. n PROVE PageNext(qs[k]) = qs[k + 1].offset
  <2>1. CASE k < i - 1
    <3>1. k \in 1 .. (i - 1) /\ k + 1 \in 1 .. (i - 1) /\ k \in 1 .. (n - 1)
      BY <1>1, <1>9, <2>1
    <3>2. QED
      BY <1>7, <1>8, <3>1
  <2>2. CASE k = i - 1
    <3>1. k \in 1 .. (i - 1) /\ k + 1 = i /\ k \in 1 .. (n - 1)
      BY <1>1, <1>9, <2>2
    <3>2. qs[k] = ps[k] /\ qs[k + 1] = left /\ PageNext(ps[k]) = ps[i].offset
      BY <1>7, <1>8, <3>1
    <3>3. QED
      BY <1>3, <3>2
  <2>3. CASE k = i
    BY <1>4, <1>5, <1>7, <2>3
  <2>4. CASE k = i + 1
    <3>1. k + 1 \in (i + 2) .. (n + 1) /\ (k + 1) - 1 = i + 1 /\ i \in 1 .. (n - 1)
      BY <1>1, <1>9, <2>4
    <3>2. qs[k] = right /\ qs[k + 1] = ps[i + 1] /\ PageNext(ps[i]) = ps[i + 1].offset
      BY <1>7, <1>8, <2>4, <3>1
    <3>3. QED
      BY <1>5, <3>2
  <2>5. CASE k > i + 1
    <3>1. /\ k \in (i + 2) .. (n + 1) /\ k + 1 \in (i + 2) .. (n + 1) /\ (k + 1) - 1 = k
          /\ k - 1 \in 1 .. (n - 1) /\ (k - 1) + 1 = k
      BY <1>1, <1>9, <2>5
    <3>2. qs[k] = ps[k - 1] /\ qs[k + 1] = ps[k] /\ PageNext(ps[k - 1]) = ps[k].offset
      BY <1>7, <1>8, <3>1
    <3>3. QED
      BY <3>2
  <2>6. k < i - 1 \/ k = i - 1 \/ k = i \/ k = i + 1 \/ k > i + 1
    BY <1>1
  <2>7. QED
    BY <2>1, <2>2, <2>3, <2>4, <2>5, <2>6
<1>11. qs[1].offset = 0
  <2>1. ps[1].offset = 0
    BY <1>1 DEF Tiles, n
  <2>2. CASE i = 1
    BY <1>3, <1>7, <2>1, <2>2
  <2>3. CASE i # 1
    <3>1. 1 \in 1 .. (i - 1)
      BY <1>1, <1>9, <2>3
    <3>2. QED
      BY <1>7, <2>1, <3>1
  <2>4. QED
    BY <2>2, <2>3
<1>12. Tiles(qs)
  <2>1. Len(qs) - 1 = n
    BY <1>1, <1>7
  <2>2. QED
    BY <1>7, <1>10, <1>11, <2>1 DEF Tiles
<1>13. \A k \in 1 .. (n + 1) : \/ k = i \/ k = i + 1
                               \/ k \in 1 .. (i - 1) /\ k \in 1 .. n
                               \/ k \in (i + 2) .. (n + 1) /\ k - 1 \in 1 .. n
  BY <1>1, <1>9
<1>14. Solid(qs)
  <2>1. ASSUME NEW k \in 1 .. (n + 1) PROVE qs[k].bytes > 0
    <3>1. \A j \in 1 .. n : ps[j].bytes > 0
      BY <1>1 DEF Solid
    <3>2. QED
      BY <1>3, <1>4, <1>7, <1>13, <3>1
  <2>2. QED
    BY <1>7, <2>1 DEF Solid
<1>15. ListSize(qs) = ListSize(ps)
  <2>1. ListSize(ps) = PageNext(ps[n]) /\ ListSize(qs) = PageNext(qs[n + 1])
    BY <1>1, <1>7 DEF ListSize, Last, n
  <2>2. CASE i = n
    BY <1>5, <1>7, <2>1, <2>2
  <2>3. CASE i # n
    <3>1. n + 1 \in (i + 2) .. (n + 1) /\ (n + 1) - 1 = n
      BY <1>1, <1>9, <2>3
    <3>2. QED
      BY <1>7, <2>1, <3>1
  <2>4. QED
    BY <2>2, <2>3
<1>16. PageBytes(ps[i]) = PageBytes(left) \cup PageBytes(right)
  <2>1. /\ PageBytes(left) = ps[i].offset .. (pos - 1)
        /\ PageBytes(right) = pos .. (PageNext(ps[i]) - 1)
    BY <1>3, <1>4, <1>5 DEF PageBytes
  <2>2. QED
    BY <1>2, <2>1
<1>17. LoadedBytes(qs) = LoadedBytes(ps)
  <2>1. ASSUME NEW b \in LoadedBytes(qs) PROVE b \in LoadedBytes(ps)
    <3>1. PICK k \in 1 .. (n + 1) : qs[k].loaded /\ b \in PageBytes(qs[k])
      BY <1>7 DEF LoadedBytes
    <3>2. PICK j \in 1 .. n : ps[j].loaded /\ b \in PageBytes(ps[j])
      BY <1>3, <1>4, <1>7, <1>9, <1>13, <1>16, <3>1
    <3>3. QED
      BY <1>1, <3>2 DEF LoadedBytes
  <2>2. ASSUME NEW b \in LoadedBytes(ps) PROVE b \in LoadedBytes(qs)
    <3>1. PICK j \in 1 .. n : ps[j].loaded /\ b \in PageBytes(ps[j])
      BY <1>1 DEF LoadedBytes
    <3>2. CASE j = i
      <4>1. i \in 1 .. (n + 1) /\ i + 1 \in 1 .. (n + 1)
        BY <1>1, <1>9
      <4>2. PICK k \in 1 .. (n + 1) : qs[k].loaded /\ b \in PageBytes(qs[k])
        BY <1>3, <1>4, <1>7, <1>16, <3>1, <3>2, <4>1
      <4>3. QED
        BY <1>7, <4>2 DEF LoadedBytes
    <3>3. CASE j < i
      <4>1. j \in 1 .. (i - 1) /\ j \in 1 .. (n + 1)
        BY <1>1, <1>9, <3>3
      <4>2. QED
        BY <1>7, <3>1, <4>1 DEF LoadedBytes
    <3>4. CASE j > i
      <4>1. j + 1 \in (i + 2) .. (n + 1) /\ (j + 1) - 1 = j /\ j + 1 \in 1 .. (n + 1)
        BY <1>1, <1>9, <3>4
      <4>2. qs[j + 1] = ps[j]
        BY <1>7, <4>1
      <4>3. QED
        BY <1>7, <3>1, <4>1, <4>2 DEF LoadedBytes
    <3>5. QED
      BY <1>1, <3>2, <3>3, <3>4
  <2>3. QED
    BY <2>1, <2>2
<1>18. ASSUME NEW x \in Nat, AtEdge(ps, x) PROVE AtEdge(qs, x)
  <2>1. \A j \in 1 .. n : ~(ps[j].offset < x /\ x < PageNext(ps[j]))
    BY <1>1, <1>18 DEF AtEdge
  <2>2. ~(left.offset < x /\ x < PageNext(left))
    BY <1>2, <1>3, <1>5, <1>9, <2>1
  <2>3. ~(right.offset < x /\ x < PageNext(right))
    BY <1>2, <1>4, <1>5, <1>9, <2>1
  <2>4. \A k \in 1 .. (n + 1) : ~(qs[k].offset < x /\ x < PageNext(qs[k]))
    BY <1>7, <1>13, <2>1, <2>2, <2>3
  <2>5. QED
    BY <1>7, <2>4 DEF AtEdge
<1>19. QED
  BY <1>6, <1>12, <1>14, <1>15, <1>17, <1>18

\* Parse makes an edge at a position and changes no byte.
LEMMA ParseEffect ==
  ASSUME NEW ps, Tiles(ps), Solid(ps), NEW pos \in Nat
  PROVE  SplitAt(ps, Parse(ps, pos), pos)
<1> DEFINE within == {i \in DOMAIN ps : ps[i].offset < pos /\ pos < PageNext(ps[i])}
           starts == {i \in DOMAIN ps : ps[i].offset = pos}
           i == CHOOSE j \in within : TRUE
           left  == Page(ps[i].offset, pos - ps[i].offset, ps[i].loaded)
           right == Page(pos, PageNext(ps[i]) - pos, ps[i].loaded)
<1>1. ps \in Seq(Pages) /\ Len(ps) \in Nat /\ DOMAIN ps = 1 .. Len(ps)
  BY DEF Tiles
<1>2. Parse(ps, pos) = IF starts # {} \/ within = {} THEN ps ELSE SplitPage(ps, i, left, right)
  BY DEF Parse, SplitPage
<1>3. starts # {} => within = {}
  <2>1. SUFFICES ASSUME NEW j \in starts, NEW k \in within PROVE FALSE
    OBVIOUS
  <2>2. /\ j \in 1 .. Len(ps) /\ k \in 1 .. Len(ps)
        /\ ps[j].offset = pos /\ ps[k].offset < pos /\ pos < PageNext(ps[k])
    BY <1>1
  <2> HIDE DEF starts, within
  <2>3. /\ SizeUpto(ps, j - 1) = pos /\ SizeUpto(ps, k - 1) < pos /\ pos < SizeUpto(ps, k)
        /\ SizeUpto(ps, j - 1) \in Nat /\ SizeUpto(ps, k - 1) \in Nat /\ SizeUpto(ps, k) \in Nat
    BY <2>2, TilePage
  <2>4. CASE k <= j - 1
    <3>1. k \in 0 .. (j - 1) /\ j - 1 \in 0 .. Len(ps)
      BY <1>1, <2>2, <2>4
    <3>2. SizeUpto(ps, k) <= SizeUpto(ps, j - 1)
      BY <3>1, TileOrder
    <3>3. QED
      BY <2>3, <3>2
  <2>5. CASE j - 1 <= k - 1
    <3>1. j - 1 \in 0 .. (k - 1) /\ k - 1 \in 0 .. Len(ps)
      BY <1>1, <2>2, <2>5
    <3>2. SizeUpto(ps, j - 1) <= SizeUpto(ps, k - 1)
      BY <3>1, TileOrder
    <3>3. QED
      BY <2>3, <3>2
  <2>6. QED
    BY <2>2, <2>4, <2>5
<1>4. CASE within = {}
  <2>1. Parse(ps, pos) = ps
    BY <1>2, <1>4
  <2>2. AtEdge(ps, pos)
    BY <1>4 DEF AtEdge
  <2>3. QED
    BY <2>1, <2>2 DEF SplitAt
<1>5. CASE within # {}
  <2>1. i \in within
    BY <1>5
  <2>2. i \in 1 .. Len(ps) /\ ps[i].offset < pos /\ pos < PageNext(ps[i])
    BY <1>1, <2>1
  <2>3. PICK k \in 1 .. Len(ps) : k = i
    BY <2>2
  <2>4. PICK l, r : l = left /\ r = right
    OBVIOUS
  <2>5. Parse(ps, pos) = SplitPage(ps, k, l, r)
    BY <1>2, <1>3, <1>5, <2>3, <2>4
  <2>6. /\ ps[k].offset < pos /\ pos < PageNext(ps[k])
        /\ l = Page(ps[k].offset, pos - ps[k].offset, ps[k].loaded)
        /\ r = Page(pos, PageNext(ps[k]) - pos, ps[k].loaded)
    BY <2>2, <2>3, <2>4
  <2> HIDE DEF within, starts, i, left, right
  <2>7. PICK qs : qs = SplitPage(ps, k, l, r)
    OBVIOUS
  <2>8. /\ Tiles(qs) /\ Solid(qs)
        /\ ListSize(qs) = ListSize(ps)
        /\ LoadedBytes(qs) = LoadedBytes(ps)
        /\ \A x \in Nat : AtEdge(ps, x) => AtEdge(qs, x)
    BY <2>6, <2>7, SplitEffect
  <2>9. AtEdge(qs, pos)
    <3>1. /\ ps[k] \in Pages /\ k \in Nat /\ PageNext(ps[k]) \in Nat /\ ps[k].offset \in Nat
      BY <1>1, <2>3, PageParts
    <3>2. l \in Pages /\ r \in Pages
      <4>1. pos - ps[k].offset \in Nat /\ PageNext(ps[k]) - pos \in Nat
        BY <2>6, <3>1
      <4>2. QED
        BY <2>6, <3>1, <4>1 DEF Page, Pages
    <3>3. HasHalves(ps, k, l, r, qs)
      BY <1>1, <2>7, <3>2, SplitPages
    <3>4. PageNext(l) = pos /\ r.offset = pos
      <4>1. PageNext(l) = ps[k].offset + (pos - ps[k].offset) /\ r.offset = pos
        BY <2>6 DEF Page, PageNext
      <4>2. QED
        BY <3>1, <4>1
    <3>5. ASSUME NEW j \in DOMAIN qs PROVE ~(qs[j].offset < pos /\ pos < PageNext(qs[j]))
      <4>1. j \in 1 .. (Len(ps) + 1)
        BY <3>3 DEF HasHalves
      <4>2. CASE j < k
        <5>1. j \in 1 .. (k - 1) /\ j \in 1 .. Len(ps) /\ j \in 0 .. (k - 1) /\ k - 1 \in 0 .. Len(ps)
          BY <1>1, <3>1, <4>1, <4>2
        <5>2. qs[j] = ps[j]
          BY <3>3, <5>1 DEF HasHalves
        <5>3. PageNext(ps[j]) = SizeUpto(ps, j) /\ SizeUpto(ps, k - 1) = ps[k].offset
          BY <5>1, TilePage
        <5>4. SizeUpto(ps, j) <= SizeUpto(ps, k - 1) /\ SizeUpto(ps, j) \in Nat
          BY <5>1, TileOrder, TilePage
        <5>5. QED
          BY <2>6, <3>1, <5>2, <5>3, <5>4
      <4>3. CASE j = k
        <5>1. PageNext(qs[j]) = pos
          BY <3>3, <3>4, <4>3 DEF HasHalves
        <5>2. QED
          BY <5>1
      <4>4. CASE j = k + 1
        <5>1. qs[j].offset = pos
          BY <3>3, <3>4, <4>4 DEF HasHalves
        <5>2. QED
          BY <5>1
      <4>5. CASE j > k + 1
        <5>1. /\ j \in (k + 2) .. (Len(ps) + 1) /\ j - 1 \in 1 .. Len(ps) /\ k \in 0 .. ((j - 1) - 1)
              /\ (j - 1) - 1 \in 0 .. Len(ps)
          BY <1>1, <3>1, <4>1, <4>5
        <5>2. qs[j] = ps[j - 1]
          BY <3>3, <5>1 DEF HasHalves
        <5>3. /\ ps[j - 1].offset = SizeUpto(ps, (j - 1) - 1) /\ SizeUpto(ps, (j - 1) - 1) \in Nat
              /\ SizeUpto(ps, k) = PageNext(ps[k])
          BY <5>1, TilePage
        <5>4. SizeUpto(ps, k) <= SizeUpto(ps, (j - 1) - 1)
          BY <5>1, TileOrder
        <5>5. QED
          BY <2>6, <3>1, <5>2, <5>3, <5>4
      <4>6. QED
        BY <3>1, <4>1, <4>2, <4>3, <4>4, <4>5
    <3>6. QED
      BY <3>5 DEF AtEdge
  <2>10. QED
    BY <2>5, <2>7, <2>8, <2>9 DEF SplitAt
<1>6. QED
  BY <1>4, <1>5

\* What SetPageLoadedStatus makes of a list.
MarkedFrom(ps, qs, start, size, flag) ==
  /\ ListSize(qs) = IF ListSize(ps) < start + size THEN start + size ELSE ListSize(ps)
  /\ LoadedBytes(qs) = IF flag THEN LoadedBytes(ps) \cup (start .. (start + size - 1))
                       ELSE LoadedBytes(ps) \ (start .. (start + size - 1))

\* An area inside the file gets the flag, and only the area.
LEMMA InnerEffect ==
  ASSUME NEW ps, Tiles(ps), Solid(ps), NEW start \in Nat, NEW size \in Nat,
         NEW flag \in BOOLEAN, start + size < ListSize(ps)
  PROVE  /\ Tiles(MarkInner(ps, start, size, flag)) /\ Solid(MarkInner(ps, start, size, flag))
         /\ MarkedFrom(ps, MarkInner(ps, start, size, flag), start, size, flag)
<1>1. PICK m \in Nat : m = start + size
  OBVIOUS
<1>2. PICK s : s = Parse(Parse(ps, start), m)
  OBVIOUS
<1>3. /\ Tiles(s) /\ Solid(s) /\ ListSize(s) = ListSize(ps) /\ LoadedBytes(s) = LoadedBytes(ps)
      /\ AtEdge(s, start) /\ AtEdge(s, m)
  <2>1. PICK t : t = Parse(ps, start)
    OBVIOUS
  <2>2. SplitAt(ps, t, start)
    BY <2>1, ParseEffect
  <2>3. SplitAt(t, s, m)
    BY <1>2, <2>1, <2>2, ParseEffect DEF SplitAt
  <2>4. QED
    BY <2>2, <2>3 DEF SplitAt
<1>4. s \in Seq(Pages) /\ Len(s) \in Nat /\ DOMAIN s = 1 .. Len(s)
  BY <1>3 DEF Tiles
<1> DEFINE n == Len(s)
           hit(p) == ~(PageEnd(p) < start) /\ ~(m <= p.offset)
<1>5. PICK qs : qs = [i \in DOMAIN s |->
                        IF hit(s[i]) THEN [s[i] EXCEPT !.loaded = flag] ELSE s[i]]
  OBVIOUS
<1>6. qs = MarkInner(ps, start, size, flag)
  BY <1>1, <1>2, <1>5 DEF MarkInner
<1>7. ASSUME NEW i \in 1 .. n
      PROVE  /\ qs[i] \in Pages /\ s[i] \in Pages
             /\ qs[i].offset = s[i].offset /\ qs[i].bytes = s[i].bytes
             /\ PageNext(qs[i]) = PageNext(s[i]) /\ PageBytes(qs[i]) = PageBytes(s[i])
             /\ qs[i].loaded = IF hit(s[i]) THEN flag ELSE s[i].loaded
  <2>1. s[i] \in Pages
    BY <1>4
  <2>2. qs[i] = IF hit(s[i]) THEN [s[i] EXCEPT !.loaded = flag] ELSE s[i]
    BY <1>4, <1>5
  <2> HIDE DEF hit
  <2>3. /\ qs[i] \in Pages /\ qs[i].offset = s[i].offset /\ qs[i].bytes = s[i].bytes
        /\ qs[i].loaded = IF hit(s[i]) THEN flag ELSE s[i].loaded
    BY <2>1, <2>2 DEF Pages
  <2>4. QED
    BY <2>1, <2>3 DEF PageNext, PageBytes
<1>8. qs \in Seq(Pages) /\ Len(qs) = n /\ DOMAIN qs = 1 .. n
  <2> HIDE DEF hit
  <2>1. DOMAIN qs = 1 .. n
    BY <1>4, <1>5
  <2>2. qs \in [1 .. n -> Pages]
    <3>1. qs = [i \in 1 .. n |-> qs[i]]
      BY <1>4, <1>5
    <3>2. QED
      BY <1>7, <3>1
  <2>3. qs \in Seq(Pages)
    BY <1>4, <2>2
  <2>4. QED
    BY <1>4, <2>1, <2>3
<1>9. Tiles(qs)
  <2>1. qs # <<>> => qs[1].offset = 0
    <3>1. ASSUME qs # <<>> PROVE qs[1].offset = 0
      <4>1. 1 \in 1 .. n /\ s # <<>>
        BY <1>4, <1>8, <3>1
      <4>2. QED
        BY <1>3, <1>7, <4>1 DEF Tiles
    <3>2. QED
      BY <3>1
  <2>2. ASSUME NEW i \in 1 .. (n - 1) PROVE PageNext(qs[i]) = qs[i + 1].offset
    <3>1. i \in 1 .. n /\ i + 1 \in 1 .. n
      BY <1>4
    <3>2. PageNext(s[i]) = s[i + 1].offset
      BY <1>3 DEF Tiles
    <3>3. QED
      BY <1>7, <3>1, <3>2
  <2>3. QED
    BY <1>8, <2>1, <2>2 DEF Tiles
<1>10. Solid(qs)
  BY <1>3, <1>4, <1>7, <1>8 DEF Solid
<1>11. ListSize(qs) = ListSize(ps)
  <2>1. ListSize(ps) \in Nat /\ ListSize(ps) # 0
    <3>1. ListSize(ps) \in Nat
      BY LoadedBounds
    <3>2. QED
      BY <3>1
  <2>2. s # <<>>
    BY <1>3, <2>1 DEF ListSize
  <2>3. n \in 1 .. n /\ qs # <<>>
    BY <1>4, <1>8, <2>2
  <2>4. ListSize(s) = PageNext(s[n]) /\ ListSize(qs) = PageNext(qs[n])
    BY <1>8, <2>2, <2>3 DEF ListSize, Last
  <2>5. QED
    BY <1>3, <1>7, <2>3, <2>4
<1> DEFINE area == start .. (start + size - 1)
<1>12. area = start .. (m - 1)
  BY <1>1
<1>13. ASSUME NEW i \in 1 .. n, NEW b \in PageBytes(s[i])
       PROVE  hit(s[i]) <=> b \in area
  <2>1. /\ s[i].offset \in Nat /\ s[i].bytes \in Nat /\ PageNext(s[i]) = s[i].offset + s[i].bytes
        /\ b \in s[i].offset .. (PageNext(s[i]) - 1)
    BY <1>7, <1>13, PageParts
  <2>2. s[i].bytes > 0
    BY <1>3, <1>4 DEF Solid
  <2>3. PageEnd(s[i]) = PageNext(s[i]) - 1
    BY <2>2 DEF PageEnd
  <2>4. /\ ~(s[i].offset < start /\ start < PageNext(s[i]))
        /\ ~(s[i].offset < m /\ m < PageNext(s[i]))
    BY <1>3, <1>4 DEF AtEdge
  <2>5. QED
    BY <1>12, <2>1, <2>3, <2>4
<1> HIDE DEF hit, area
<1>14. ASSUME NEW b PROVE b \in LoadedBytes(qs) <=> IF b \in area THEN flag ELSE b \in LoadedBytes(s)
  <2>1. b \in LoadedBytes(qs) <=> \E i \in 1 .. n : qs[i].loaded /\ b \in PageBytes(qs[i])
    BY <1>8 DEF LoadedBytes
  <2>2. b \in LoadedBytes(s) <=> \E i \in 1 .. n : s[i].loaded /\ b \in PageBytes(s[i])
    BY <1>4 DEF LoadedBytes
  <2>3. CASE b \in area
    <3>1. \E i \in 1 .. n : b \in PageBytes(s[i])
      <4>1. ListSize(s) = SizeUpto(s, n) /\ n \in 0 .. n /\ ListSize(s) \in Nat
        BY <1>3, <1>4, TileOffset, LoadedBounds
      <4>2. b \in Bytes(SizeUpto(s, n))
        BY <1>1, <1>3, <2>3, <4>1 DEF area, Bytes
      <4>3. QED
        BY <1>3, <4>1, <4>2, TileOrder
    <3>2. \A i \in 1 .. n : b \in PageBytes(s[i]) => hit(s[i])
      BY <1>13, <2>3
    <3>3. QED
      BY <1>7, <2>1, <2>3, <3>1, <3>2
  <2>4. CASE b \notin area
    <3>1. \A i \in 1 .. n : b \in PageBytes(s[i]) => ~hit(s[i])
      BY <1>13, <2>4
    <3>2. QED
      BY <1>7, <2>1, <2>2, <2>4, <3>1
  <2>5. QED
    BY <2>3, <2>4
<1>15. LoadedBytes(qs) = IF flag THEN LoadedBytes(ps) \cup area ELSE LoadedBytes(ps) \ area
  BY <1>3, <1>14
<1>16. ~(ListSize(ps) < start + size)
  BY LoadedBounds
<1>17. MarkedFrom(ps, qs, start, size, flag)
  BY <1>11, <1>15, <1>16 DEF MarkedFrom, area
<1>18. QED
  BY <1>6, <1>9, <1>10, <1>17

\* SetPageLoadedStatus: the area gets the flag, the file grows to hold it, and
\* a hole before it is unloaded.
LEMMA SetEffect ==
  ASSUME NEW ps, Tidy(ps), NEW start \in Nat, NEW size \in Nat, NEW flag \in BOOLEAN
  PROVE  /\ Normal(SetPageLoadedStatus(ps, start, size, flag))
         /\ MarkedFrom(ps, SetPageLoadedStatus(ps, start, size, flag), start, size, flag)
<1>1. PICK now : now = ListSize(ps)
  OBVIOUS
<1>2. now \in Nat /\ LoadedBytes(ps) \subseteq Bytes(now)
  BY <1>1, LoadedBounds DEF Tidy
<1>3. PICK m \in Nat : m = start + size
  OBVIOUS
<1>4. PICK area : area = start .. (start + size - 1)
  OBVIOUS
<1>5. area = start .. (m - 1) /\ start <= m
  BY <1>3, <1>4
<1> DEFINE Begun(gs) == /\ Tidy(gs) /\ ListSize(gs) = start
                        /\ LoadedBytes(gs) = LoadedBytes(ps) \cap Bytes(start)
<1>6. ASSUME NEW gs, Begun(gs), now <= m
      PROVE  /\ Tidy(Resize(gs, m, flag))
             /\ MarkedFrom(ps, Resize(gs, m, flag), start, size, flag)
  <2>1. PICK qs : qs = Resize(gs, m, flag)
    OBVIOUS
  <2>2. Tidy(qs) /\ ResizedTo(gs, qs, m, flag)
    BY <1>6, <2>1, ResizeEffect DEF Normal
  <2>3. LoadedBytes(qs) = (LoadedBytes(ps) \cap Bytes(start) \cap Bytes(m)) \cup
                          (IF flag THEN Bytes(m) \ Bytes(start) ELSE {})
    BY <1>6, <2>2 DEF ResizedTo
  <2>4. Bytes(start) \subseteq Bytes(m) /\ Bytes(now) \subseteq Bytes(m)
    BY <1>2, <1>5, <1>6 DEF Bytes
  <2>5. Bytes(m) \ Bytes(start) = area /\ area \cap Bytes(start) = {}
        /\ Bytes(m) = Bytes(start) \cup area
    BY <1>5 DEF Bytes
  <2>6. LoadedBytes(qs) = IF flag THEN LoadedBytes(ps) \cup area ELSE LoadedBytes(ps) \ area
    BY <1>2, <2>3, <2>4, <2>5
  <2>7. ListSize(qs) = IF now < m THEN m ELSE now
    BY <1>2, <1>6, <2>2 DEF ResizedTo
  <2>8. MarkedFrom(ps, qs, start, size, flag)
    BY <1>1, <1>3, <1>4, <2>6, <2>7 DEF MarkedFrom
  <2>9. QED
    BY <2>1, <2>2, <2>8
<1>7. Begun(Resize(ps, start, FALSE))
  <2>1. Tidy(Resize(ps, start, FALSE)) /\ ResizedTo(ps, Resize(ps, start, FALSE), start, FALSE)
    BY ResizeEffect DEF Normal
  <2>2. QED
    BY <2>1 DEF ResizedTo
<1>8. ASSUME now = start PROVE Begun(ps)
  <2>1. LoadedBytes(ps) \cap Bytes(start) = LoadedBytes(ps)
    BY <1>2, <1>8
  <2>2. QED
    BY <1>1, <1>8, <2>1
<1> DEFINE grown == IF now < start THEN Resize(ps, start, FALSE) ELSE ps
           set == IF now <= start THEN Resize(grown, m, flag)
                  ELSE IF now <= m THEN Resize(Resize(ps, start, FALSE), m, flag)
                  ELSE MarkInner(ps, start, size, flag)
<1>9. SetPageLoadedStatus(ps, start, size, flag) = Compress(set)
  BY <1>1, <1>3 DEF SetPageLoadedStatus
<1>10. Tidy(set) /\ MarkedFrom(ps, set, start, size, flag)
  <2> HIDE DEF Begun
  <2>1. CASE now < start
    <3>1. now <= start /\ now <= m
      BY <1>2, <1>5, <2>1
    <3>2. set = Resize(Resize(ps, start, FALSE), m, flag)
      BY <2>1, <3>1, Zenon
    <3> HIDE DEF set
    <3>3. QED
      BY <1>6, <1>7, <3>1, <3>2
  <2>2. CASE now = start
    <3>1. now <= start /\ ~(now < start) /\ now <= m
      BY <1>2, <1>5, <2>2
    <3>2. set = Resize(ps, m, flag)
      BY <3>1, Zenon
    <3> HIDE DEF set
    <3>3. QED
      BY <1>6, <1>8, <2>2, <3>1, <3>2
  <2>3. CASE start < now /\ now <= m
    <3>1. ~(now <= start)
      BY <1>2, <2>3
    <3>2. set = Resize(Resize(ps, start, FALSE), m, flag)
      BY <2>3, <3>1, Zenon
    <3> HIDE DEF set
    <3>3. QED
      BY <1>6, <1>7, <2>3, <3>2
  <2>4. CASE m < now
    <3>0. ~(now <= start) /\ ~(now <= m)
      BY <1>2, <1>5, <2>4
    <3>1. set = MarkInner(ps, start, size, flag)
      BY <3>0, Zenon
    <3>2. Solid(ps) /\ Tiles(ps)
      <4>1. now # 0
        BY <1>2, <2>4
      <4>2. QED
        BY <1>1, <4>1, TidySolid DEF Tidy
    <3> HIDE DEF set
    <3>3. QED
      BY <1>1, <1>3, <2>4, <3>1, <3>2, InnerEffect DEF Tidy
  <2>5. now < start \/ now = start \/ (start < now /\ now <= m) \/ m < now
    BY <1>2, <1>5
  <2>6. QED
    BY <2>1, <2>2, <2>3, <2>4, <2>5, Zenon
<1> HIDE DEF set
<1>11. QED
  BY <1>9, <1>10, CompressNormal DEF MarkedFrom

-----------------------------------------------------------------------------
(***************************************************************************)
(* The invariant and the refinement.                                       *)
(***************************************************************************)
\* The invariant of the page list, with the size of the file.
Inv == Normal(pages) /\ ListSize(pages) \in Sizes

\* The list is canonical when it is normal.
LEMMA NormalIsCanonical ==
  ASSUME Normal(pages)
  PROVE  Canonical
<1>1. /\ pages \in Seq(Pages) /\ Len(pages) \in Nat /\ DOMAIN pages = 1 .. Len(pages)
      /\ \A i \in DOMAIN pages : pages[i] \in Pages
  BY DEF Normal, Tidy, Tiles
<1>2. \A i \in DOMAIN pages : pages[i].bytes = 0 => Len(pages) = 1
  <2>1. ASSUME NEW i \in DOMAIN pages, pages[i].bytes = 0 PROVE Len(pages) = 1
    <3>1. ~Solid(pages)
      BY <2>1 DEF Solid
    <3>2. Len(pages) <= 1
      BY <3>1 DEF Normal, Tidy
    <3>3. i \in 1 .. Len(pages)
      BY <1>1, <2>1
    <3>4. QED
      BY <1>1, <3>2, <3>3
  <2>2. QED
    BY <2>1
<1>3. QED
  BY <1>1, <1>2 DEF Canonical, Normal, Tidy, Tiles, Alternates, Pages

\* Each call keeps the invariant, and does to the size and the loaded bytes
\* what the call asks for.
LEMMA InitStep ==
  ASSUME Init
  PROVE  Inv /\ Map!Init
<1>1. PICK n \in Sizes, flag \in BOOLEAN :
        pages = InitPages(n, flag) /\ last = Call("new", 0, 0, FALSE)
  BY DEF Init
<1>2. n \in Nat
  BY <1>1, MaxSizePositive DEF Sizes
<1>3. /\ Normal(pages) /\ ListSize(pages) = n
      /\ LoadedBytes(pages) = IF flag THEN Bytes(n) ELSE {}
  BY <1>1, <1>2, InitEffect
<1>4. Inv
  BY <1>1, <1>3 DEF Inv
<1>5. Map!Bytes(n) = Bytes(n) /\ Map!Sizes = Sizes
  BY DEF Map!Bytes, Bytes, Map!Sizes, Sizes
<1>6. Map!Init
  BY <1>1, <1>3, <1>5 DEF Map!Init, Map!Call, Call
<1>7. QED
  BY <1>4, <1>6

\* The whole list gets one flag.
LEMMA ReinitialiseStep ==
  ASSUME Inv, NEW n \in Sizes, NEW flag \in BOOLEAN, Reinitialise(n, flag)
  PROVE  Inv' /\ Map!Reinit(n, flag)
<1>1. n \in Nat
  BY MaxSizePositive DEF Sizes
<1>2. pages' = InitPages(n, flag) /\ last' = Call("init", 0, n, flag)
  BY DEF Reinitialise
<1>3. PICK qs : qs = InitPages(n, flag)
  OBVIOUS
<1>4. /\ Normal(qs) /\ ListSize(qs) = n
      /\ LoadedBytes(qs) = IF flag THEN Bytes(n) ELSE {}
  BY <1>1, <1>3, InitEffect
<1>5. Inv'
  BY <1>2, <1>3, <1>4 DEF Inv, Sizes
<1>6. Map!Reinit(n, flag)
  BY <1>2, <1>3, <1>4 DEF Map!Reinit, Map!Bytes, Bytes, Map!Call, Call
<1>7. QED
  BY <1>5, <1>6

\* Resize is SetSize of the map.
LEMMA SetSizeStep ==
  ASSUME Inv, NEW n \in Sizes, NEW flag \in BOOLEAN, SetSize(n, flag)
  PROVE  Inv' /\ Map!SetSize(n, flag)
<1>1. n \in Nat
  BY MaxSizePositive DEF Sizes
<1>2. pages' = Resize(pages, n, flag) /\ last' = Call("resize", 0, n, flag)
  BY DEF SetSize
<1>3. PICK qs : qs = Resize(pages, n, flag)
  OBVIOUS
<1>4. Normal(qs) /\ ResizedTo(pages, qs, n, flag)
  BY <1>1, <1>3, ResizeEffect DEF Inv, Normal
<1>5. Inv'
  BY <1>2, <1>3, <1>4 DEF Inv, Sizes, ResizedTo
<1>6. Map!SetSize(n, flag)
  BY <1>2, <1>3, <1>4 DEF Map!SetSize, Map!Bytes, Bytes, Map!Call, Call, ResizedTo
<1>7. QED
  BY <1>5, <1>6

\* SetPageLoadedStatus is Mark of the map.
LEMMA MarkStep ==
  ASSUME Inv, NEW start \in Sizes, NEW count \in Sizes, NEW flag \in BOOLEAN,
         Mark(start, count, flag)
  PROVE  Inv' /\ start + count <= MaxSize /\ Map!Mark(start, count, flag)
<1>1. start \in Nat /\ count \in Nat
  BY MaxSizePositive DEF Sizes
<1>2. /\ start + count <= MaxSize
      /\ pages' = SetPageLoadedStatus(pages, start, count, flag)
      /\ last' = Call("mark", start, count, flag)
  BY DEF Mark
<1>3. PICK qs : qs = SetPageLoadedStatus(pages, start, count, flag)
  OBVIOUS
<1>4. Normal(qs) /\ MarkedFrom(pages, qs, start, count, flag)
  BY <1>1, <1>3, SetEffect DEF Inv, Normal
<1>5. ListSize(qs) \in Sizes
  <2>1. ListSize(pages) \in Sizes /\ start + count \in Sizes
    BY <1>1, <1>2, MaxSizePositive DEF Inv, Sizes
  <2>2. QED
    BY <1>4, <2>1 DEF MarkedFrom
<1>6. Inv'
  BY <1>2, <1>3, <1>4, <1>5 DEF Inv, Sizes
<1>7. Map!Mark(start, count, flag)
  BY <1>2, <1>3, <1>4 DEF Map!Mark, Map!Call, Call, MarkedFrom
<1>8. QED
  BY <1>2, <1>6, <1>7

\* Every step of the list is a step of the map, and keeps the invariant.
LEMMA NextStep ==
  ASSUME Inv, [Next]_vars
  PROVE  Inv' /\ [Map!Next]_(Map!vars)
<1>1. CASE \E n \in Sizes, flag \in BOOLEAN : Reinitialise(n, flag)
  <2>1. PICK n \in Sizes, flag \in BOOLEAN : Reinitialise(n, flag)
    BY <1>1
  <2>2. Inv' /\ Map!Reinit(n, flag)
    BY <2>1, ReinitialiseStep
  <2>3. QED
    BY <2>2 DEF Map!Next, Map!Sizes, Sizes
<1>2. CASE \E n \in Sizes, flag \in BOOLEAN : SetSize(n, flag)
  <2>1. PICK n \in Sizes, flag \in BOOLEAN : SetSize(n, flag)
    BY <1>2
  <2>2. Inv' /\ Map!SetSize(n, flag)
    BY <2>1, SetSizeStep
  <2>3. QED
    BY <2>2 DEF Map!Next, Map!Sizes, Sizes
<1>3. CASE \E start \in Sizes, count \in Sizes, flag \in BOOLEAN : Mark(start, count, flag)
  <2>1. PICK start \in Sizes, count \in Sizes, flag \in BOOLEAN : Mark(start, count, flag)
    BY <1>3
  <2>2. Inv' /\ start + count <= MaxSize /\ Map!Mark(start, count, flag)
    BY <2>1, MarkStep
  <2>3. QED
    BY <2>2 DEF Map!Next, Map!Sizes, Sizes
<1>4. CASE UNCHANGED vars
  <2>1. pages' = pages /\ last' = last
    BY <1>4 DEF vars
  <2>2. Inv'
    BY <2>1 DEF Inv, Sizes
  <2>3. UNCHANGED Map!vars
    BY <2>1 DEF Map!vars
  <2>4. QED
    BY <2>2, <2>3
<1>5. QED
  BY <1>1, <1>2, <1>3, <1>4 DEF Next

\* The list stays normal, and its size within the sizes of the instance.
THEOREM InvCorrect == Spec => []Inv
<1>1. Init => Inv
  BY InitStep
<1>2. Inv /\ [Next]_vars => Inv'
  BY NextStep
<1>3. QED
  BY <1>1, <1>2, PTL DEF Spec

\* Whatever the order of the calls, the pages tile the file without gap or
\* overlap, neighbours differ in their flag, and only a file of size 0 has an
\* empty page: every loop of class PageList over the list relies on it.
THEOREM CanonicalCorrect == Spec => []Canonical
<1>1. Inv => Canonical
  BY NormalIsCanonical DEF Inv
<1>2. QED
  BY <1>1, InvCorrect, PTL

\* Every sequence of Init, Resize and SetPageLoadedStatus does to the size and
\* the set of loaded bytes what the calls ask for, and nothing else: no split,
\* cut or merge loses or invents a loaded byte.
THEOREM MapCorrect == Spec => ImplementsPageMap
<1>1. Init => Map!Init
  BY InitStep
<1>2. Inv /\ [Next]_vars => [Map!Next]_(Map!vars)
  BY NextStep
<1>3. QED
  BY <1>1, <1>2, InvCorrect, PTL DEF Spec, ImplementsPageMap, Map!Spec

-----------------------------------------------------------------------------
(***************************************************************************)
(* The queries.                                                            *)
(***************************************************************************)
\* The bytes of an area that are in a page and not loaded, and in the first k.
Part(p, start, next) == IF p.loaded THEN {} ELSE PageBytes(p) \cap (start .. (next - 1))
PartsUpto(ps, k, start, next) == UNION {Part(ps[i], start, next) : i \in 1 .. k}

\* The bytes of an area that are in the file and not loaded.
Missing(ps, start, next) ==
  {b \in Bytes(ListSize(ps)) : start <= b /\ b < next} \ LoadedBytes(ps)

\* No byte is in two pages.
LEMMA OnePage ==
  ASSUME NEW ps, Tiles(ps), NEW i \in 1 .. Len(ps), NEW j \in 1 .. Len(ps),
         NEW b \in PageBytes(ps[i]), b \in PageBytes(ps[j])
  PROVE  i = j
<1>1. Len(ps) \in Nat
  BY DEF Tiles
<1>2. ASSUME NEW x \in 1 .. Len(ps), NEW y \in 1 .. Len(ps), x < y,
             b \in PageBytes(ps[x]), b \in PageBytes(ps[y])
      PROVE  FALSE
  <2>1. /\ SizeUpto(ps, x) \in Nat /\ b \in SizeUpto(ps, x - 1) .. (SizeUpto(ps, x) - 1)
        /\ SizeUpto(ps, y - 1) \in Nat /\ b \in SizeUpto(ps, y - 1) .. (SizeUpto(ps, y) - 1)
        /\ SizeUpto(ps, x - 1) \in Nat /\ SizeUpto(ps, y) \in Nat
    BY <1>2, TilePage
  <2>2. x \in 0 .. (y - 1) /\ y - 1 \in 0 .. Len(ps)
    BY <1>1, <1>2
  <2>3. SizeUpto(ps, x) <= SizeUpto(ps, y - 1)
    BY <2>2, TileOrder
  <2>4. QED
    BY <2>1, <2>3
<1>3. QED
  BY <1>2

\* The parts of all pages are what the file has of the area and not loaded.
LEMMA PartsAll ==
  ASSUME NEW ps, Tiles(ps), NEW start \in Nat, NEW next \in Nat
  PROVE  PartsUpto(ps, Len(ps), start, next) = Missing(ps, start, next)
<1> DEFINE n == Len(ps)
<1>1. ps \in Seq(Pages) /\ n \in Nat /\ n \in 0 .. n /\ DOMAIN ps = 1 .. n
  BY DEF Tiles
<1>2. ListSize(ps) = SizeUpto(ps, n) /\ ListSize(ps) \in Nat
  BY <1>1, TileOffset, LoadedBounds
<1>3. ASSUME NEW b \in PartsUpto(ps, n, start, next) PROVE b \in Missing(ps, start, next)
  <2>1. PICK i \in 1 .. n : b \in Part(ps[i], start, next)
    BY <1>3 DEF PartsUpto
  <2>2. ~ps[i].loaded /\ b \in PageBytes(ps[i]) /\ b \in start .. (next - 1)
    BY <2>1 DEF Part
  <2>3. b \notin LoadedBytes(ps)
    <3>1. SUFFICES ASSUME b \in LoadedBytes(ps) PROVE FALSE
      OBVIOUS
    <3>2. PICK j \in 1 .. n : ps[j].loaded /\ b \in PageBytes(ps[j])
      BY <1>1, <3>1 DEF LoadedBytes
    <3>3. i = j
      BY <2>2, <3>2, OnePage
    <3>4. QED
      BY <2>2, <3>2, <3>3
  <2>4. b \in Bytes(ListSize(ps))
    <3>1. /\ b \in SizeUpto(ps, i - 1) .. (SizeUpto(ps, i) - 1) /\ SizeUpto(ps, i - 1) \in Nat
          /\ SizeUpto(ps, i) \in Nat
      BY <2>2, TilePage
    <3>2. i \in 0 .. n
      BY <1>1
    <3>3. SizeUpto(ps, i) <= SizeUpto(ps, n)
      BY <1>1, <3>2, TileOrder
    <3>4. QED
      BY <1>2, <3>1, <3>3 DEF Bytes
  <2>5. start <= b /\ b < next
    BY <2>2
  <2>6. QED
    BY <2>3, <2>4, <2>5 DEF Missing
<1>4. ASSUME NEW b \in Missing(ps, start, next) PROVE b \in PartsUpto(ps, n, start, next)
  <2>1. b \in Bytes(ListSize(ps)) /\ start <= b /\ b < next /\ b \notin LoadedBytes(ps)
    BY <1>4 DEF Missing
  <2>2. PICK i \in 1 .. n : b \in PageBytes(ps[i])
    BY <1>1, <1>2, <2>1, TileOrder
  <2>3. ~ps[i].loaded
    BY <1>1, <2>1, <2>2 DEF LoadedBytes
  <2>4. b \in start .. (next - 1)
    BY <1>2, <2>1 DEF Bytes
  <2>5. b \in Part(ps[i], start, next)
    BY <2>2, <2>3, <2>4 DEF Part
  <2>6. QED
    BY <2>5 DEF PartsUpto
<1>5. QED
  BY <1>3, <1>4

\* One page more.
LEMMA PartsNext ==
  ASSUME NEW ps, NEW k \in Nat, NEW start, NEW next
  PROVE  PartsUpto(ps, k + 1, start, next)
           = PartsUpto(ps, k, start, next) \cup Part(ps[k + 1], start, next)
<1>1. 1 .. (k + 1) = (1 .. k) \cup {k + 1}
  OBVIOUS
<1>2. QED
  BY <1>1 DEF PartsUpto

\* What a visited page has of the area is an interval, any other has nothing.
LEMMA PartOfPage ==
  ASSUME NEW p \in Pages, NEW start \in Nat, NEW next \in Nat, start <= next
  PROVE  /\ Visited(p, start, next) => Part(p, start, next) = From(p, start) .. (Upto(p, next) - 1)
         /\ ~Visited(p, start, next) => Part(p, start, next) = {}
<1>1. /\ p.offset \in Nat /\ p.bytes \in Nat /\ PageNext(p) = p.offset + p.bytes
      /\ PageBytes(p) = p.offset .. (p.offset + p.bytes - 1)
  BY PageParts
<1>2. CASE Visited(p, start, next)
  <2>1. ~p.loaded
    BY <1>2 DEF Visited
  <2>2. PageBytes(p) \cap (start .. (next - 1)) = From(p, start) .. (Upto(p, next) - 1)
    BY <1>1 DEF From, Upto
  <2>3. QED
    BY <1>2, <2>1, <2>2 DEF Part
<1>3. CASE ~Visited(p, start, next)
  <2>1. CASE p.loaded
    BY <1>3, <2>1 DEF Part
  <2>2. CASE ~p.loaded
    <3>1. PageNext(p) <= start \/ next <= p.offset
      BY <1>1, <1>3, <2>2 DEF Visited
    <3>2. PageBytes(p) \cap (start .. (next - 1)) = {}
      BY <1>1, <3>1
    <3>3. QED
      BY <1>3, <2>2, <3>2 DEF Part
  <2>3. QED
    BY <2>1, <2>2
<1>4. QED
  BY <1>2, <1>3

\* The end of a query's area is not before its start.
LEMMA QueryNextNat ==
  ASSUME NEW ps, Tiles(ps), NEW start \in Nat, NEW size \in Nat
  PROVE  QueryNext(ps, start, size) \in Nat /\ start <= QueryNext(ps, start, size)
<1>1. ListSize(ps) \in Nat
  BY LoadedBounds
<1>2. QED
  BY <1>1 DEF QueryNext

\* GetTotalUnloadedPageSize counts the bytes of the area that are not loaded.
LEMMA TotalCorrect ==
  ASSUME NEW ps, Tiles(ps), NEW start \in Nat, NEW size \in Nat,
         NEW next, next = QueryNext(ps, start, size)
  PROVE  GetTotalUnloadedPageSize(ps, start, size) = Cardinality(Missing(ps, start, next))
<1> DEFINE n == Len(ps)
           U(k) == PartsUpto(ps, k, start, next)
<1>1. ps \in Seq(Pages) /\ n \in Nat
  BY DEF Tiles
<1>2. next \in Nat /\ start <= next
  BY QueryNextNat
<1>3. PICK r \in [0 .. n -> Int] :
             /\ r[0] = 0
             /\ \A k \in 1 .. n : r[k] = AddOverlap(r[k - 1], ps[k], start, next)
             /\ GetTotalUnloadedPageSize(ps, start, size) = r[n]
  BY <1>1, <1>2, TotalSteps
<1> DEFINE Done(k) == /\ IsFiniteSet(U(k)) /\ r[k] = Cardinality(U(k))
                      /\ U(k) \subseteq Bytes(SizeUpto(ps, k))
           G == {k \in 0 .. n : Done(k)}
<1>4. 0 \in G
  <2>1. U(0) = {}
    BY DEF PartsUpto
  <2>2. IsFiniteSet({}) /\ Cardinality({}) = 0
    BY FS_EmptySet
  <2>3. 0 \in 0 .. n
    BY <1>1
  <2> HIDE DEF U
  <2>4. QED
    BY <1>3, <2>1, <2>2, <2>3
<1>5. ASSUME NEW k \in 0 .. n, k \in G, k < n PROVE k + 1 \in G
  <2>1. k + 1 \in 1 .. n /\ k + 1 \in 0 .. n /\ (k + 1) - 1 = k /\ k \in Nat
    BY <1>1, <1>5
  <2>2. PICK p : p = ps[k + 1]
    OBVIOUS
  <2>3. PICK a, e : a = SizeUpto(ps, k) /\ e = SizeUpto(ps, k + 1)
    OBVIOUS
  <2>4. /\ p \in Pages /\ a \in Nat /\ e \in Nat /\ p.offset = a /\ PageNext(p) = e /\ a <= e
        /\ PageBytes(p) = a .. (e - 1)
    <3>1. /\ p \in Pages /\ a \in Nat /\ e \in Nat /\ p.offset = a /\ PageNext(p) = e
          /\ p.bytes \in Nat /\ a + p.bytes = e /\ PageBytes(p) = a .. (e - 1)
      BY <2>1, <2>2, <2>3, TilePage, PageParts
    <3>2. QED
      BY <3>1
  <2>5. IsFiniteSet(U(k)) /\ r[k] = Cardinality(U(k)) /\ U(k) \subseteq Bytes(a) /\ r[k] \in Int
    BY <1>3, <1>5, <2>3
  <2>6. U(k + 1) = U(k) \cup Part(p, start, next)
    BY <2>1, <2>2, PartsNext
  <2>7. r[k + 1] = AddOverlap(r[k], p, start, next)
    BY <1>3, <2>1, <2>2
  <2>8. Part(p, start, next) \subseteq a .. (e - 1)
    BY <2>4 DEF Part
  <2> HIDE DEF U
  <2>9. U(k + 1) \subseteq Bytes(e)
    <3>1. Bytes(a) \subseteq Bytes(e) /\ a .. (e - 1) \subseteq Bytes(e)
      BY <2>4 DEF Bytes
    <3>2. QED
      BY <2>5, <2>6, <2>8, <3>1
  <2>10. IsFiniteSet(U(k + 1)) /\ r[k + 1] = Cardinality(U(k + 1))
    <3>1. CASE ~Visited(p, start, next)
      <4>1. U(k + 1) = U(k)
        BY <1>2, <2>4, <2>6, <3>1, PartOfPage
      <4>2. r[k + 1] = r[k]
        BY <2>7, <3>1 DEF AddOverlap
      <4>3. QED
        BY <2>5, <4>1, <4>2
    <3>2. CASE Visited(p, start, next)
      <4>1. PICK f, u : f = From(p, start) /\ u = Upto(p, next)
        OBVIOUS
      <4>2. f \in Nat /\ u \in Nat /\ f <= u
        BY <1>2, <2>4, <3>2, <4>1, VisitedEnds
      <4>3. PICK D : D = f .. (u - 1)
        OBVIOUS
      <4>4. Part(p, start, next) = D
        BY <1>2, <2>4, <3>2, <4>1, <4>3, PartOfPage
      <4>5. IsFiniteSet(D) /\ Cardinality(D) = u - f
        <5>1. f \in Int /\ u - 1 \in Int
          BY <4>2
        <5>2. IsFiniteSet(D) /\ Cardinality(D) = IF f > u - 1 THEN 0 ELSE (u - 1) - f + 1
          BY <4>3, <5>1, FS_Interval
        <5>3. QED
          BY <4>2, <5>2
      <4>6. U(k) \cap D = {}
        <5>1. Bytes(a) \cap (a .. (e - 1)) = {}
          BY <2>4 DEF Bytes
        <5>2. QED
          BY <2>5, <2>8, <4>4, <5>1
      <4>7. IsFiniteSet(U(k) \cup D) /\ Cardinality(U(k) \cup D) = Cardinality(U(k)) + Cardinality(D)
        <5>1. /\ IsFiniteSet(U(k) \cup D)
              /\ Cardinality(U(k) \cup D)
                   = Cardinality(U(k)) + Cardinality(D) - Cardinality(U(k) \cap D)
          BY <2>5, <4>5, FS_Union
        <5>2. Cardinality(U(k) \cap D) = 0
          BY <4>6, FS_EmptySet
        <5>3. QED
          BY <2>5, <4>2, <4>5, <5>1, <5>2
      <4>8. r[k + 1] = r[k] + (u - f)
        BY <2>7, <3>2, <4>1 DEF AddOverlap
      <4>9. QED
        BY <2>5, <2>6, <4>4, <4>5, <4>7, <4>8
    <3>3. QED
      BY <3>1, <3>2
  <2>11. Done(k + 1)
    BY <2>3, <2>9, <2>10
  <2> HIDE DEF Done
  <2>12. QED
    BY <2>1, <2>11
<1>6. n \in G
  <2>1. n \in 0 .. n
    BY <1>1
  <2> HIDE DEF G
  <2>2. QED
    BY <1>1, <1>4, <1>5, <2>1, Induct
<1>7. r[n] = Cardinality(U(n))
  BY <1>6
<1>8. U(n) = Missing(ps, start, next)
  BY <1>2, PartsAll
<1>9. QED
  BY <1>3, <1>7, <1>8

\* The bytes of a list of extents.
BytesOf(qs) == UNION {PageBytes(qs[i]) : i \in DOMAIN qs}

\* The bytes of its first k extents.
BytesUpto(qs, k) == UNION {PageBytes(qs[i]) : i \in 1 .. k}

\* One extent more.
LEMMA BytesNext ==
  ASSUME NEW qs, NEW k \in Nat
  PROVE  BytesUpto(qs, k + 1) = BytesUpto(qs, k) \cup PageBytes(qs[k + 1])
<1>1. 1 .. (k + 1) = (1 .. k) \cup {k + 1}
  OBVIOUS
<1>2. QED
  BY <1>1 DEF BytesUpto

\* Two lists with the same first extents have the same bytes there.
LEMMA BytesSame ==
  ASSUME NEW ps, NEW qs, NEW k \in Nat, \A i \in 1 .. k : ps[i] = qs[i]
  PROVE  BytesUpto(ps, k) = BytesUpto(qs, k)
BY DEF BytesUpto

\* Between two extents there is a gap.
Apart(qs) == \A i \in 1 .. (Len(qs) - 1) : PageNext(qs[i]) < qs[i + 1].offset

\* A new extent past a gap.
LEMMA AppendArea ==
  ASSUME NEW qs \in Seq(Pages), NEW q \in Pages, Apart(qs),
         qs # <<>> => PageNext(Last(qs)) < q.offset
  PROVE  /\ Apart(Append(qs, q))
         /\ BytesOf(Append(qs, q)) = BytesOf(qs) \cup PageBytes(q)
         /\ Append(qs, q) # <<>> /\ Last(Append(qs, q)) = q
<1> DEFINE n == Len(qs)
<1>1. n \in Nat /\ DOMAIN qs = 1 .. n
  OBVIOUS
<1>2. PICK t : t = Append(qs, q)
  OBVIOUS
<1>3. /\ t \in Seq(Pages) /\ Len(t) = n + 1 /\ t[n + 1] = q /\ DOMAIN t = 1 .. (n + 1)
      /\ \A i \in 1 .. n : t[i] = qs[i]
      /\ t # <<>>
  BY <1>1, <1>2
<1>4. Last(t) = q
  BY <1>3 DEF Last
<1>5. ASSUME NEW i \in 1 .. (Len(t) - 1) PROVE PageNext(t[i]) < t[i + 1].offset
  <2>0. i \in 1 .. n
    BY <1>1, <1>3, <1>5
  <2>1. CASE i = n
    <3>1. qs # <<>>
      BY <1>1, <2>0
    <3>2. QED
      BY <1>3, <2>0, <2>1, <3>1 DEF Last
  <2>2. CASE i # n
    <3>1. i \in 1 .. (n - 1) /\ i + 1 \in 1 .. n
      <4> HIDE DEF n
      <4>1. QED
        BY <1>1, <2>0, <2>2
    <3>2. QED
      BY <1>3, <2>0, <3>1 DEF Apart
  <2>3. QED
    BY <2>1, <2>2
<1>6. BytesOf(t) = BytesOf(qs) \cup PageBytes(q)
  <2> HIDE DEF n
  <2>1. BytesOf(t) = BytesUpto(t, n + 1) /\ BytesOf(qs) = BytesUpto(qs, n)
    BY <1>1, <1>3 DEF BytesOf, BytesUpto
  <2>2. BytesUpto(t, n + 1) = BytesUpto(t, n) \cup PageBytes(q)
    BY <1>1, <1>3, BytesNext
  <2>3. BytesUpto(t, n) = BytesUpto(qs, n)
    BY <1>1, <1>3, BytesSame
  <2>4. QED
    BY <2>1, <2>2, <2>3
<1>7. QED
  BY <1>2, <1>3, <1>4, <1>5, <1>6 DEF Apart

\* t has the bytes of qs and those from f to before u, where it ends.
Grown(qs, t, f, u) ==
  /\ Apart(t)
  /\ BytesOf(t) = BytesOf(qs) \cup (f .. (u - 1))
  /\ t # <<>> /\ PageNext(Last(t)) = u

\* The last extent grows by bytes that touch it.
LEMMA ExtendArea ==
  ASSUME NEW qs \in Seq(Pages), qs # <<>>, Apart(qs), NEW f \in Nat, NEW u \in Nat, f <= u,
         PageNext(Last(qs)) = f
  PROVE  Grown(qs, Append(Front(qs), [Last(qs) EXCEPT !.bytes = @ + u - f]), f, u)
<1> DEFINE n == Len(qs)
<1>1. n \in Nat /\ n - 1 \in Nat /\ n \in 1 .. n /\ DOMAIN qs = 1 .. n
  OBVIOUS
<1>2. /\ qs[n] \in Pages /\ Last(qs) = qs[n] /\ qs[n].offset \in Nat /\ qs[n].bytes \in Nat
      /\ f = qs[n].offset + qs[n].bytes
      /\ PageBytes(qs[n]) = qs[n].offset .. (qs[n].offset + qs[n].bytes - 1)
  BY <1>1, PageParts DEF Last
<1>3. PICK q : q = [Last(qs) EXCEPT !.bytes = @ + u - f]
  OBVIOUS
<1>4. /\ q \in Pages /\ q.offset = qs[n].offset /\ q.bytes = qs[n].bytes + u - f
  <2>1. qs[n].bytes + u - f \in Nat
    BY <1>2
  <2>2. QED
    BY <1>2, <1>3, <2>1 DEF Pages
<1>5. PageNext(q) = u /\ PageBytes(q) = PageBytes(qs[n]) \cup (f .. (u - 1))
  <2>1. PageNext(q) = qs[n].offset + (qs[n].bytes + u - f)
    BY <1>4 DEF PageNext
  <2>2. PageNext(q) = u
    BY <1>2, <2>1
  <2>3. PageBytes(q) = qs[n].offset .. (u - 1)
    BY <1>4, <2>2 DEF PageBytes
  <2>4. qs[n].offset .. (u - 1) = (qs[n].offset .. (f - 1)) \cup (f .. (u - 1))
    BY <1>2
  <2>5. QED
    BY <1>2, <2>2, <2>3, <2>4
<1>6. PICK front : front = Front(qs)
  OBVIOUS
<1>7. front \in Seq(Pages) /\ Len(front) = n - 1 /\ \A i \in 1 .. (n - 1) : front[i] = qs[i]
  <2>1. \A i \in 1 .. (n - 1) : qs[i] \in Pages
    BY <1>1
  <2>2. front = SubSeq(qs, 1, n - 1)
    BY <1>6 DEF Front
  <2> HIDE DEF n
  <2>3. QED
    BY <1>1, <2>1, <2>2
<1>8. PICK t : t = Append(front, q)
  OBVIOUS
<1> HIDE DEF n
<1>9. /\ t \in Seq(Pages) /\ Len(t) = n /\ t[n] = q /\ DOMAIN t = 1 .. n
      /\ \A i \in 1 .. (n - 1) : t[i] = qs[i]
      /\ t # <<>>
  BY <1>1, <1>4, <1>7, <1>8
<1>10. Last(t) = q
  BY <1>9 DEF Last
<1>11. ASSUME NEW i \in 1 .. (Len(t) - 1) PROVE PageNext(t[i]) < t[i + 1].offset
  <2>1. i \in 1 .. (n - 1) /\ i + 1 \in 1 .. n
    BY <1>1, <1>9, <1>11
  <2>2. PageNext(qs[i]) < qs[i + 1].offset
    BY <2>1 DEF Apart, n
  <2>3. t[i] = qs[i] /\ t[i + 1].offset = qs[i + 1].offset
    <3>1. i + 1 = n \/ i + 1 \in 1 .. (n - 1)
      BY <1>1, <2>1
    <3>2. QED
      BY <1>4, <1>9, <2>1, <3>1
  <2>4. QED
    BY <2>2, <2>3
<1>12. BytesOf(t) = BytesOf(qs) \cup (f .. (u - 1))
  <2>1. BytesOf(t) = BytesUpto(t, n) /\ BytesOf(qs) = BytesUpto(qs, n)
    BY <1>1, <1>9 DEF BytesOf, BytesUpto
  <2>2. (n - 1) + 1 = n
    BY <1>1
  <2>3. /\ BytesUpto(t, n) = BytesUpto(t, n - 1) \cup PageBytes(q)
        /\ BytesUpto(qs, n) = BytesUpto(qs, n - 1) \cup PageBytes(qs[n])
    <3>1. /\ BytesUpto(t, (n - 1) + 1) = BytesUpto(t, n - 1) \cup PageBytes(t[(n - 1) + 1])
          /\ BytesUpto(qs, (n - 1) + 1) = BytesUpto(qs, n - 1) \cup PageBytes(qs[(n - 1) + 1])
      BY <1>1, BytesNext
    <3>2. QED
      BY <1>9, <2>2, <3>1
  <2>4. BytesUpto(t, n - 1) = BytesUpto(qs, n - 1)
    BY <1>1, <1>9, BytesSame
  <2>5. QED
    BY <1>5, <2>1, <2>3, <2>4
<1>13. t = Append(Front(qs), [Last(qs) EXCEPT !.bytes = @ + u - f])
  BY <1>3, <1>6, <1>8
<1>14. QED
  BY <1>5, <1>9, <1>10, <1>11, <1>12, <1>13 DEF Apart, Grown

\* GetUnloadedPages answers extents that do not touch and hold the bytes of
\* the area that are not loaded.
LEMMA ExtentsCorrect ==
  ASSUME NEW ps, Tiles(ps), NEW start \in Nat, NEW size \in Nat,
         NEW next, next = QueryNext(ps, start, size)
  PROVE  /\ BytesOf(GetUnloadedPages(ps, start, size)) = Missing(ps, start, next)
         /\ Apart(GetUnloadedPages(ps, start, size))
<1> DEFINE n == Len(ps)
           U(k) == PartsUpto(ps, k, start, next)
<1>1. ps \in Seq(Pages) /\ n \in Nat
  BY DEF Tiles
<1>2. next \in Nat /\ start <= next
  BY QueryNextNat
<1>3. PICK r \in [0 .. n -> Seq(Pages)] :
             /\ r[0] = <<>>
             /\ \A k \in 1 .. n : r[k] = AddArea(r[k - 1], ps[k], start, next)
             /\ GetUnloadedPages(ps, start, size) = r[n]
  <2>1. \E r \in [0 .. Len(ps) -> Seq(Pages)] : UnloadedRun(r, ps, start, size, next)
    BY <1>1, <1>2, UnloadedSteps
  <2>2. QED
    BY <2>1 DEF UnloadedRun
<1> DEFINE Done(qs, k) == /\ BytesOf(qs) = U(k) /\ Apart(qs)
                          /\ qs # <<>> => PageNext(Last(qs)) <= SizeUpto(ps, k)
           G == {k \in 0 .. n : Done(r[k], k)}
<1>4. 0 \in G
  <2>1. U(0) = {} /\ BytesOf(<<>>) = {} /\ Apart(<<>>)
    BY DEF PartsUpto, BytesOf, Apart
  <2>2. 0 \in 0 .. n
    BY <1>1
  <2> HIDE DEF U
  <2>3. QED
    BY <1>3, <2>1, <2>2
<1>5. ASSUME NEW k \in 0 .. n, k \in G, k < n PROVE k + 1 \in G
  <2>1. k + 1 \in 1 .. n /\ k + 1 \in 0 .. n /\ (k + 1) - 1 = k /\ k \in Nat
    BY <1>1, <1>5
  <2>2. PICK p : p = ps[k + 1]
    OBVIOUS
  <2>3. PICK a, e : a = SizeUpto(ps, k) /\ e = SizeUpto(ps, k + 1)
    OBVIOUS
  <2>4. /\ p \in Pages /\ a \in Nat /\ e \in Nat /\ p.offset = a /\ PageNext(p) = e
        /\ p.bytes \in Nat /\ a + p.bytes = e
    BY <2>1, <2>2, <2>3, TilePage, PageParts
  <2>5. PICK qs : qs = r[k]
    OBVIOUS
  <2>6. /\ qs \in Seq(Pages) /\ BytesOf(qs) = U(k) /\ Apart(qs)
        /\ qs # <<>> => PageNext(Last(qs)) <= a
    BY <1>3, <1>5, <2>3, <2>5
  <2>7. U(k + 1) = U(k) \cup Part(p, start, next)
    BY <2>1, <2>2, PartsNext
  <2>8. r[k + 1] = AddArea(qs, p, start, next)
    BY <1>3, <2>1, <2>2, <2>5
  <2>9. qs # <<>> => PageNext(Last(qs)) \in Nat
    <3>1. ASSUME qs # <<>> PROVE Last(qs) \in Pages
      BY <2>6, <3>1 DEF Last
    <3>2. QED
      BY <3>1, PageParts
  <2> HIDE DEF U
  <2>10. /\ BytesOf(r[k + 1]) = U(k + 1) /\ Apart(r[k + 1])
         /\ r[k + 1] # <<>> => PageNext(Last(r[k + 1])) <= e
    <3>1. CASE ~Visited(p, start, next)
      <4>1. U(k + 1) = U(k)
        BY <1>2, <2>4, <2>7, <3>1, PartOfPage
      <4>2. r[k + 1] = qs
        BY <2>8, <3>1 DEF AddArea
      <4>3. qs # <<>> => PageNext(Last(qs)) <= e
        BY <2>4, <2>6, <2>9
      <4>4. QED
        BY <2>6, <4>1, <4>2, <4>3
    <3>2. CASE Visited(p, start, next)
      <4>1. PICK f, u : f = From(p, start) /\ u = Upto(p, next)
        OBVIOUS
      <4>2. f \in Nat /\ u \in Nat /\ f <= u /\ a <= f /\ u <= e /\ u - f \in Nat
        BY <1>2, <2>4, <3>2, <4>1, VisitedEnds
      <4>3. Part(p, start, next) = f .. (u - 1)
        BY <1>2, <2>4, <3>2, <4>1, PartOfPage
      <4>4. CASE qs # <<>> /\ PageNext(Last(qs)) = f
        <5>1. PICK t : t = Append(Front(qs), [Last(qs) EXCEPT !.bytes = @ + u - f])
          OBVIOUS
        <5>2. r[k + 1] = t
          BY <2>8, <3>2, <4>1, <4>4, <5>1 DEF AddArea
        <5>3. /\ Apart(t) /\ BytesOf(t) = BytesOf(qs) \cup (f .. (u - 1))
              /\ t # <<>> /\ PageNext(Last(t)) = u
          <6>1. Grown(qs, t, f, u)
            BY <2>6, <4>2, <4>4, <5>1, ExtendArea
          <6>2. QED
            BY <6>1 DEF Grown
        <5>4. QED
          BY <2>6, <2>7, <4>2, <4>3, <5>2, <5>3
      <4>5. CASE ~(qs # <<>> /\ PageNext(Last(qs)) = f)
        <5>1. PICK q : q = Page(f, u - f, FALSE)
          OBVIOUS
        <5>2. q \in Pages /\ q.offset = f /\ q.bytes = u - f
          BY <4>2, <5>1 DEF Page, Pages
        <5>3. PageNext(q) = u /\ PageBytes(q) = f .. (u - 1)
          <6>1. PageNext(q) = f + (u - f)
            BY <5>2 DEF PageNext
          <6>2. PageNext(q) = u
            BY <4>2, <6>1
          <6>3. QED
            BY <5>2, <6>2 DEF PageBytes
        <5>4. r[k + 1] = Append(qs, q)
          BY <2>8, <3>2, <4>1, <4>5, <5>1 DEF AddArea
        <5>5. qs # <<>> => PageNext(Last(qs)) < q.offset
          BY <2>4, <2>6, <2>9, <4>2, <4>5, <5>2
        <5>6. /\ Apart(r[k + 1]) /\ BytesOf(r[k + 1]) = BytesOf(qs) \cup PageBytes(q)
              /\ Last(r[k + 1]) = q
          BY <2>6, <5>2, <5>4, <5>5, AppendArea
        <5>7. QED
          BY <2>6, <2>7, <4>2, <4>3, <5>3, <5>6
      <4>6. QED
        BY <4>4, <4>5
    <3>3. QED
      BY <3>1, <3>2
  <2>11. Done(r[k + 1], k + 1)
    BY <2>3, <2>10
  <2> HIDE DEF Done
  <2>12. QED
    BY <2>1, <2>11
<1>6. n \in G
  <2>1. n \in 0 .. n
    BY <1>1
  <2> HIDE DEF G
  <2>2. QED
    BY <1>1, <1>4, <1>5, <2>1, Induct
<1>7. BytesOf(r[n]) = U(n) /\ Apart(r[n])
  BY <1>6
<1>8. U(n) = Missing(ps, start, next)
  BY <1>2, PartsAll
<1>9. QED
  BY <1>3, <1>7, <1>8

\* A page that is not loaded, ends after start and begins before next misses a
\* byte of the area: its first there.
LEMMA FirstMissing ==
  ASSUME NEW ps, Tiles(ps), Solid(ps), NEW start \in Nat, NEW next \in Nat, start < next,
         NEW i \in 1 .. Len(ps), ~ps[i].loaded, start < PageNext(ps[i]), ps[i].offset < next
  PROVE  /\ From(ps[i], start) \in Missing(ps, start, next)
         /\ From(ps[i], start) \in PageBytes(ps[i])
<1>1. /\ ps[i] \in Pages /\ ps[i].offset \in Nat /\ ps[i].bytes \in Nat
      /\ PageNext(ps[i]) = ps[i].offset + ps[i].bytes
      /\ PageBytes(ps[i]) = ps[i].offset .. (ps[i].offset + ps[i].bytes - 1)
  BY TilePage, PageParts
<1>2. ps[i].bytes > 0
  BY DEF Solid, Tiles
<1>3. PICK b : b = From(ps[i], start)
  OBVIOUS
<1>4. b \in PageBytes(ps[i]) /\ b \in start .. (next - 1)
  BY <1>1, <1>2, <1>3 DEF From
<1>5. b \in Part(ps[i], start, next)
  BY <1>4 DEF Part
<1>6. b \in PartsUpto(ps, Len(ps), start, next)
  BY <1>5 DEF PartsUpto
<1>7. QED
  BY <1>3, <1>4, <1>6, PartsAll

\* A missing byte is in a page that is not loaded.
LEMMA MissingPage ==
  ASSUME NEW ps, Tiles(ps), NEW start \in Nat, NEW next \in Nat,
         NEW b \in Missing(ps, start, next)
  PROVE  /\ b \in Nat /\ start <= b /\ b < next
         /\ \E i \in 1 .. Len(ps) : ~ps[i].loaded /\ b \in PageBytes(ps[i])
<1>1. b \in PartsUpto(ps, Len(ps), start, next)
  BY PartsAll
<1>2. PICK i \in 1 .. Len(ps) : b \in Part(ps[i], start, next)
  BY <1>1 DEF PartsUpto
<1>3. ~ps[i].loaded /\ b \in PageBytes(ps[i]) /\ b \in start .. (next - 1)
  BY <1>2 DEF Part
<1>4. QED
  BY <1>3

\* IsPageLoaded says whether a non-empty area of the file misses no byte.
LEMMA IsLoadedCorrect ==
  ASSUME NEW ps, Tiles(ps), Solid(ps), NEW start \in Nat, NEW size \in Nat, size > 0,
         start + size <= ListSize(ps)
  PROVE  IsPageLoaded(ps, start, size) <=> Missing(ps, start, start + size) = {}
<1>1. PICK next \in Nat : next = start + size
  OBVIOUS
<1>2. start < next /\ next <= ListSize(ps) /\ ListSize(ps) \in Nat /\ next - 1 \in Nat
      /\ start <= next - 1
  BY <1>1, LoadedBounds
<1>3. ps \in Seq(Pages) /\ Len(ps) \in Nat /\ DOMAIN ps = 1 .. Len(ps)
  BY DEF Tiles
<1>4. ASSUME NEW i \in 1 .. Len(ps)
      PROVE  /\ ps[i].offset \in Nat /\ PageNext(ps[i]) \in Nat
             /\ PageBytes(ps[i]) = ps[i].offset .. (PageNext(ps[i]) - 1)
             /\ ~(PageEnd(ps[i]) < start) <=> start < PageNext(ps[i])
  <2>1. /\ ps[i].offset \in Nat /\ PageNext(ps[i]) \in Nat
        /\ PageBytes(ps[i]) = ps[i].offset .. (PageNext(ps[i]) - 1)
    BY <1>3, PageParts DEF PageBytes
  <2>2. PageEnd(ps[i]) = PageNext(ps[i]) - 1
    BY <1>3 DEF Solid, PageEnd
  <2>3. QED
    BY <2>1, <2>2
<1> DEFINE Ends(j) == start < PageNext(ps[j]) /\ ps[j].loaded /\ next <= PageNext(ps[j])
<1>5. IsPageLoaded(ps, start, size) <=>
        \A i \in 1 .. Len(ps) : start < PageNext(ps[i]) =>
           ps[i].loaded \/ \E j \in 1 .. Len(ps) : j < i /\ Ends(j)
  <2>1. {i \in DOMAIN ps : ~(PageEnd(ps[i]) < start)}
          = {i \in 1 .. Len(ps) : start < PageNext(ps[i])}
    BY <1>3, <1>4
  <2>2. size # 0
    OBVIOUS
  <2>3. QED
    BY <1>1, <2>1, <2>2 DEF IsPageLoaded
<1>6. \A i, j \in 1 .. Len(ps) : j < i => PageNext(ps[j]) <= ps[i].offset
  <2>1. TAKE i, j \in 1 .. Len(ps)
  <2>2. ASSUME j < i PROVE PageNext(ps[j]) <= ps[i].offset
    <3>1. j \in 0 .. (i - 1) /\ i - 1 \in 0 .. Len(ps)
      BY <1>3, <2>2
    <3>2. SizeUpto(ps, j) <= SizeUpto(ps, i - 1)
      BY <3>1, TileOrder
    <3>3. QED
      BY <3>2, TilePage
  <2>3. QED
    BY <2>2
<1>7. ASSUME IsPageLoaded(ps, start, size) PROVE Missing(ps, start, next) = {}
  <2>1. SUFFICES ASSUME NEW b \in Missing(ps, start, next) PROVE FALSE
    OBVIOUS
  <2>2. b \in Nat /\ start <= b /\ b < next
    BY <2>1, MissingPage
  <2>3. PICK i \in 1 .. Len(ps) : ~ps[i].loaded /\ b \in PageBytes(ps[i])
    BY <2>1, MissingPage
  <2>4. start < PageNext(ps[i]) /\ ps[i].offset <= b
    BY <1>4, <2>2, <2>3
  <2>5. PICK j \in 1 .. Len(ps) : j < i /\ next <= PageNext(ps[j])
    BY <1>5, <1>7, <2>3, <2>4
  <2>6. PageNext(ps[j]) <= ps[i].offset
    BY <1>6, <2>5
  <2>7. PageNext(ps[j]) \in Nat /\ ps[i].offset \in Nat
    BY <1>4
  <2>8. QED
    BY <2>2, <2>4, <2>5, <2>6, <2>7
<1>8. ASSUME Missing(ps, start, next) = {} PROVE IsPageLoaded(ps, start, size)
  <2>1. SUFFICES ASSUME NEW i \in 1 .. Len(ps), start < PageNext(ps[i]), ~ps[i].loaded
                 PROVE  \E j \in 1 .. Len(ps) : j < i /\ Ends(j)
    BY <1>5
  <2>2. next <= ps[i].offset
    <3>1. ~(ps[i].offset < next)
      BY <1>2, <1>8, <2>1, FirstMissing
    <3>2. QED
      BY <1>4, <3>1
  <2>3. PICK j \in 1 .. Len(ps) : next - 1 \in PageBytes(ps[j])
    <3>1. ListSize(ps) = SizeUpto(ps, Len(ps)) /\ Len(ps) \in 0 .. Len(ps)
      BY <1>3, TileOffset
    <3>2. next - 1 \in Bytes(ListSize(ps))
      BY <1>2 DEF Bytes
    <3>3. QED
      BY <3>1, <3>2, TileOrder
  <2>4. ps[j].offset \in Nat /\ PageNext(ps[j]) \in Nat /\ ps[j].offset <= next - 1
        /\ next - 1 <= PageNext(ps[j]) - 1
    BY <1>4, <2>3
  <2>5. next <= PageNext(ps[j]) /\ start < PageNext(ps[j]) /\ ps[j].offset < next
    BY <1>2, <2>4
  <2>6. ps[j].loaded
    BY <1>2, <1>8, <2>5, FirstMissing
  <2>7. j < i
    <3>1. ~(i < j)
      <4>1. ASSUME i < j PROVE FALSE
        <5>1. PageNext(ps[i]) <= ps[j].offset
          BY <1>6, <4>1
        <5>2. ps[i].offset <= PageNext(ps[i]) /\ ps[i].offset \in Nat
          BY <1>3, PageParts
        <5>3. QED
          BY <1>2, <1>4, <2>2, <2>4, <5>1, <5>2
      <4>2. QED
        BY <4>1
    <3>2. i # j
      BY <2>1, <2>6
    <3>3. QED
      BY <3>1, <3>2
  <2>8. QED
    BY <2>5, <2>6, <2>7
<1>9. QED
  BY <1>1, <1>7, <1>8

\* FindUnloadedPage finds the page with the first missing byte from start on.
LEMMA FindCorrect ==
  ASSUME NEW ps, Tiles(ps), Solid(ps), NEW start \in Nat, NEW rest,
         rest = Missing(ps, start, ListSize(ps))
  PROVE  IF rest = {} THEN FindUnloadedPage(ps, start) = <<>>
         ELSE /\ FindUnloadedPage(ps, start) # <<>>
              /\ Min(rest) \in PageBytes(FindUnloadedPage(ps, start)[1])
<1> DEFINE found == {i \in DOMAIN ps : start <= PageEnd(ps[i]) /\ ~ps[i].loaded}
<1>1. PICK size : size = ListSize(ps)
  OBVIOUS
<1>2. ps \in Seq(Pages) /\ Len(ps) \in Nat /\ DOMAIN ps = 1 .. Len(ps) /\ size \in Nat
  <2>1. ps \in Seq(Pages)
    BY DEF Tiles
  <2>2. size \in Nat
    BY <1>1, LoadedBounds
  <2>3. QED
    BY <2>1, <2>2
<1>3. ASSUME NEW i \in 1 .. Len(ps)
      PROVE  /\ ps[i].offset \in Nat /\ PageNext(ps[i]) \in Nat
             /\ PageBytes(ps[i]) = ps[i].offset .. (PageNext(ps[i]) - 1)
             /\ start <= PageEnd(ps[i]) <=> start < PageNext(ps[i])
             /\ ps[i].offset < size /\ PageNext(ps[i]) <= size
  <2>1. /\ ps[i].offset \in Nat /\ PageNext(ps[i]) \in Nat /\ ps[i].bytes \in Nat
        /\ PageNext(ps[i]) = ps[i].offset + ps[i].bytes
        /\ PageBytes(ps[i]) = ps[i].offset .. (PageNext(ps[i]) - 1)
    BY <1>2, PageParts DEF PageBytes
  <2>2. ps[i].bytes > 0
    BY <1>2 DEF Solid
  <2>3. PageEnd(ps[i]) = PageNext(ps[i]) - 1
    BY <2>2 DEF PageEnd
  <2>4. SizeUpto(ps, i) <= SizeUpto(ps, Len(ps))
    <3>1. Len(ps) \in 0 .. Len(ps) /\ i \in 0 .. Len(ps)
      BY <1>2
    <3>2. QED
      BY <3>1, TileOrder
  <2>5. PageNext(ps[i]) <= size
    BY <1>1, <2>4, TilePage, TileOffset
  <2>6. QED
    BY <1>2, <2>1, <2>2, <2>3, <2>5
<1>4. found = {i \in 1 .. Len(ps) : start < PageNext(ps[i]) /\ ~ps[i].loaded}
  BY <1>2, <1>3
<1>5. FindUnloadedPage(ps, start) = IF found = {} THEN <<>> ELSE <<ps[Min(found)]>>
  BY DEF FindUnloadedPage
<1> HIDE DEF found
<1>6. ASSUME NEW i \in found
      PROVE  /\ i \in 1 .. Len(ps) /\ From(ps[i], start) \in rest
             /\ From(ps[i], start) \in PageBytes(ps[i])
  <2>1. i \in 1 .. Len(ps) /\ start < PageNext(ps[i]) /\ ~ps[i].loaded
    BY <1>4
  <2>2. ps[i].offset < size /\ start < size
    BY <1>2, <1>3, <2>1
  <2>3. QED
    BY <1>1, <1>2, <2>1, <2>2, FirstMissing
<1>7. CASE rest = {}
  <2>1. found = {}
    BY <1>6, <1>7
  <2>2. QED
    BY <1>5, <1>7, <2>1
<1>8. CASE rest # {}
  <2>1. rest \in SUBSET Nat
    BY <1>1, <1>2, MissingPage
  <2>2. PICK b : b = Min(rest)
    OBVIOUS
  <2>3. b \in rest /\ \A y \in rest : b <= y
    BY <1>8, <2>1, <2>2, MinParts
  <2>4. b \in Nat /\ start <= b
    BY <1>1, <1>2, <2>3, MissingPage
  <2>5. PICK i \in 1 .. Len(ps) : ~ps[i].loaded /\ b \in PageBytes(ps[i])
    BY <1>1, <1>2, <2>3, MissingPage
  <2>6. ps[i].offset <= b /\ b < PageNext(ps[i]) /\ start < PageNext(ps[i])
    BY <1>3, <2>4, <2>5
  <2>7. i \in found
    BY <1>4, <2>5, <2>6
  <2>8. PICK m : m = Min(found)
    OBVIOUS
  <2>9. m \in found /\ \A y \in found : m <= y
    <3>1. found \in SUBSET Nat /\ found # {}
      BY <1>4, <2>7
    <3>2. QED
      BY <2>8, <3>1, MinParts
  <2>10. PICK c : c = From(ps[m], start)
    OBVIOUS
  <2>11. m \in 1 .. Len(ps) /\ c \in rest /\ c \in PageBytes(ps[m])
    BY <1>6, <2>9, <2>10
  <2>12. b <= c /\ m <= i /\ c < PageNext(ps[m]) /\ c \in Nat
    <3>1. c \in Nat
      BY <2>1, <2>11
    <3>2. b <= c
      BY <2>3, <2>11
    <3>3. m <= i
      BY <2>7, <2>9
    <3>4. /\ ps[m].offset \in Nat /\ PageNext(ps[m]) \in Nat
          /\ PageBytes(ps[m]) = ps[m].offset .. (PageNext(ps[m]) - 1)
      BY <1>3, <2>11
    <3>5. c \in ps[m].offset .. (PageNext(ps[m]) - 1)
      BY <2>11, <3>4
    <3>6. c < PageNext(ps[m])
      BY <3>1, <3>4, <3>5
    <3>7. QED
      BY <3>1, <3>2, <3>3, <3>6
  <2>13. m = i
    <3>1. ASSUME m < i PROVE FALSE
      <4>1. m \in 0 .. (i - 1) /\ i - 1 \in 0 .. Len(ps)
        BY <1>2, <2>11, <3>1
      <4>2. SizeUpto(ps, m) <= SizeUpto(ps, i - 1)
        BY <4>1, TileOrder
      <4>3. PageNext(ps[m]) <= ps[i].offset
        BY <2>11, <4>2, TilePage
      <4>4. QED
        BY <1>3, <2>4, <2>6, <2>11, <2>12, <4>3
    <3>2. QED
      BY <2>11, <2>12, <3>1
  <2>14. FindUnloadedPage(ps, start) = <<ps[m]>>
    BY <1>5, <2>7, <2>8
  <2>15. FindUnloadedPage(ps, start)[1] = ps[i] /\ FindUnloadedPage(ps, start) # <<>>
    BY <2>13, <2>14
  <2>16. QED
    BY <1>8, <2>2, <2>5, <2>15
<1>9. QED
  BY <1>7, <1>8

\* A normal list answers every query as the set of its loaded bytes.
LEMMA QueriesOfNormal ==
  ASSUME Inv
  PROVE  QueriesAgree
<1>1. Tiles(pages) /\ Tidy(pages)
  BY DEF Inv, Normal, Tidy
<1>2. \A start, next : Unloaded(start, next) = Missing(pages, start, next)
  BY DEF Unloaded, Missing, Bytes
<1>3. ListSize(pages) > 0 => Solid(pages)
  <2>1. ASSUME ListSize(pages) > 0 PROVE ListSize(pages) # 0
    BY <2>1
  <2>2. QED
    BY <1>1, <2>1, TidySolid
<1>4. ASSUME NEW start \in Sizes, NEW count \in Sizes
      PROVE  LET extents == GetUnloadedPages(pages, start, count) IN
             /\ UNION {PageBytes(extents[i]) : i \in DOMAIN extents} = Area(start, count)
             /\ \A i \in 1 .. (Len(extents) - 1) :
                  PageNext(extents[i]) < extents[i + 1].offset
             /\ GetTotalUnloadedPageSize(pages, start, count) = Cardinality(Area(start, count))
             /\ count > 0 /\ start + count <= ListSize(pages) =>
                  (IsPageLoaded(pages, start, count) <=> Area(start, count) = {})
  <2>1. start \in Nat /\ count \in Nat
    BY MaxSizePositive DEF Sizes
  <2>2. PICK next : next = QueryNext(pages, start, count)
    OBVIOUS
  <2>3. Area(start, count) = Missing(pages, start, next)
    BY <1>2, <2>2 DEF Area
  <2>4. PICK extents : extents = GetUnloadedPages(pages, start, count)
    OBVIOUS
  <2>5. BytesOf(extents) = Area(start, count) /\ Apart(extents)
    BY <1>1, <2>1, <2>2, <2>3, <2>4, ExtentsCorrect
  <2>6. GetTotalUnloadedPageSize(pages, start, count) = Cardinality(Area(start, count))
    BY <1>1, <2>1, <2>2, <2>3, TotalCorrect
  <2>7. ASSUME count > 0, start + count <= ListSize(pages)
        PROVE  IsPageLoaded(pages, start, count) <=> Area(start, count) = {}
    <3>1. ListSize(pages) > 0 /\ count # 0
      <4>1. ListSize(pages) \in Nat
        BY <1>1, LoadedBounds
      <4>2. QED
        BY <2>1, <2>7, <4>1
    <3>2. next = start + count
      BY <2>2, <3>1 DEF QueryNext
    <3>3. QED
      BY <1>1, <1>3, <2>1, <2>3, <2>7, <3>1, <3>2, IsLoadedCorrect
  <2>8. QED
    BY <2>4, <2>5, <2>6, <2>7 DEF BytesOf, Apart
<1>5. ASSUME NEW start \in Sizes
      PROVE  LET found == FindUnloadedPage(pages, start)
                 rest  == Unloaded(start, ListSize(pages))
             IN ListSize(pages) > 0 =>
                  IF rest = {} THEN found = <<>>
                  ELSE found # <<>> /\ Min(rest) \in PageBytes(found[1])
  <2>1. start \in Nat
    BY MaxSizePositive DEF Sizes
  <2>2. PICK rest : rest = Unloaded(start, ListSize(pages))
    OBVIOUS
  <2>3. rest = Missing(pages, start, ListSize(pages))
    BY <1>2, <2>2
  <2>4. ASSUME ListSize(pages) > 0
        PROVE  IF rest = {} THEN FindUnloadedPage(pages, start) = <<>>
               ELSE /\ FindUnloadedPage(pages, start) # <<>>
                    /\ Min(rest) \in PageBytes(FindUnloadedPage(pages, start)[1])
    BY <1>1, <1>3, <2>1, <2>3, <2>4, FindCorrect
  <2>5. QED
    BY <2>2, <2>4
<1>6. QED
  BY <1>4, <1>5 DEF QueriesAgree

\* The extents Load downloads and the byte counts of the disk checks are
\* exactly the bytes of the area that are not loaded, a non-empty area counts
\* as loaded iff it has none of them, and the unloaded page found first has
\* the first of them: for a list of any length and any area.
THEOREM QueriesCorrect == Spec => []QueriesAgree
<1>1. Inv => QueriesAgree
  BY QueriesOfNormal
<1>2. QED
  BY <1>1, InvCorrect, PTL
=============================================================================
