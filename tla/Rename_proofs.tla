---------------------------- MODULE Rename_proofs ----------------------------
(***************************************************************************)
(* A rename of a tree keeps every file and directory, lists all of it, and *)
(* leaves nothing behind when it returns 0 but what it was told is not     *)
(* there, for any finite tree, any pages, and any number of writes, of     *)
(* requests that fail, and of attempts.                                    *)
(***************************************************************************)
EXTENDS Rename, FiniteSetTheorems, SequenceTheorems, WellFoundedInduction, TLAPS

-----------------------------------------------------------------------------
(***************************************************************************)
(* The order of names.                                                     *)
(***************************************************************************)
\* A set of naturals that is not empty has a least element.
LEMMA LeastNat ==
  ASSUME NEW T \in SUBSET Nat, T # {}
  PROVE  \E x \in T : \A y \in T : x <= y
<1>1. PICK R : /\ IsWellFoundedOn(R, Nat)
               /\ \A x \in Nat, y \in Nat : y < x => <<y, x>> \in R
  <2>1. \A x \in Nat, y \in Nat : y < x => <<y, x>> \in OpToRel(<, Nat)
    BY DEF OpToRel
  <2>2. QED
    BY <2>1, NatLessThanWellFounded, Zenon
<1>2. PICK x \in T : \A y \in T : ~(<<y, x>> \in R)
  BY <1>1, WFMin
<1>3. \A y \in T : ~(y < x)
  BY <1>1, <1>2, Zenon
<1>4. QED
  BY <1>3

Names == Seq(Nat)

\* No name is before itself.
LEMMA NotBeforeItself ==
  ASSUME NEW a \in Names
  PROVE  ~Before(a, a)
BY DEF Before, Names

\* The order is transitive.
LEMMA BeforeTransitive ==
  ASSUME NEW a \in Names, NEW b \in Names, NEW c \in Names, Before(a, b), Before(b, c)
  PROVE  Before(a, c)
<1>1. PICK i \in 1 .. Len(b) : /\ \A m \in 1 .. i - 1 : m <= Len(a) /\ a[m] = b[m]
                               /\ i <= Len(a) => a[i] < b[i]
  BY DEF Before
<1>2. PICK j \in 1 .. Len(c) : /\ \A m \in 1 .. j - 1 : m <= Len(b) /\ b[m] = c[m]
                               /\ j <= Len(b) => b[j] < c[j]
  BY DEF Before
<1>3. /\ i \in Nat /\ j \in Nat /\ Len(a) \in Nat /\ Len(b) \in Nat /\ Len(c) \in Nat
      /\ \A m \in 1 .. Len(a) : a[m] \in Nat
      /\ \A m \in 1 .. Len(b) : b[m] \in Nat
      /\ \A m \in 1 .. Len(c) : c[m] \in Nat
  BY DEF Names
<1>4. CASE i < j
  <2>1. i \in 1 .. Len(c) /\ b[i] = c[i]
    BY <1>2, <1>3, <1>4
  <2>2. \A m \in 1 .. i - 1 : m <= Len(a) /\ a[m] = c[m]
    BY <1>1, <1>2, <1>3, <1>4
  <2>3. QED
    BY <1>1, <2>1, <2>2 DEF Before
<1>5. CASE ~(i < j)
  <2>1. \A m \in 1 .. j - 1 : m <= Len(a) /\ a[m] = c[m]
    BY <1>1, <1>2, <1>3, <1>5
  <2>2. ASSUME j <= Len(a) PROVE a[j] < c[j]
    <3>1. j <= Len(b) /\ b[j] < c[j]
      BY <1>2, <1>3, <1>5
    <3>2. a[j] <= b[j]
      BY <1>1, <1>3, <1>5, <2>2, <3>1
    <3>3. a[j] \in Nat /\ b[j] \in Nat /\ c[j] \in Nat
      BY <1>2, <1>3, <2>2, <3>1
    <3>4. QED
      BY <3>1, <3>2, <3>3
  <2>3. QED
    BY <2>1, <2>2 DEF Before
<1>6. QED
  BY <1>4, <1>5

\* Of two names one is before the other.
LEMMA BeforeTotal ==
  ASSUME NEW a \in Names, NEW b \in Names, a # b
  PROVE  Before(a, b) \/ Before(b, a)
<1> DEFINE T == {i \in Nat \ {0} : i > Len(a) \/ i > Len(b) \/ a[i] # b[i]}
<1>1. /\ Len(a) \in Nat /\ Len(b) \in Nat
      /\ \A m \in 1 .. Len(a) : a[m] \in Nat
      /\ \A m \in 1 .. Len(b) : b[m] \in Nat
  BY DEF Names
<1>2. T \subseteq Nat /\ Len(a) + 1 \in T
  BY <1>1
<1>3. PICK i \in T : \A j \in T : i <= j
  BY <1>2, LeastNat
<1>4. /\ i \in Nat \ {0} /\ (i > Len(a) \/ i > Len(b) \/ a[i] # b[i])
      /\ \A j \in 1 .. i - 1 : j <= Len(a) /\ j <= Len(b) /\ a[j] = b[j]
  <2>1. ASSUME NEW j \in 1 .. i - 1 PROVE j <= Len(a) /\ j <= Len(b) /\ a[j] = b[j]
    <3>1. j \in Nat \ {0} /\ ~(i <= j)
      BY <1>3
    <3>2. j \notin T
      BY <1>3, <3>1
    <3>3. QED
      BY <1>1, <3>1, <3>2
  <2>2. QED
    BY <1>3, <2>1
<1>5. CASE i > Len(a) /\ i > Len(b)
  <2>1. Len(a) = i - 1 /\ Len(b) = i - 1
    BY <1>1, <1>4, <1>5
  <2>2. \A j \in 1 .. Len(a) : a[j] = b[j]
    BY <1>4, <2>1
  <2>3. a = b
    BY <2>1, <2>2, SeqEqual DEF Names
  <2>4. QED
    BY <2>3
<1>6. CASE i > Len(a) /\ i <= Len(b)
  BY <1>1, <1>4, <1>6 DEF Before
<1>7. CASE i <= Len(a) /\ i > Len(b)
  BY <1>1, <1>4, <1>7 DEF Before
<1>8. CASE i <= Len(a) /\ i <= Len(b)
  <2>1. /\ i \in 1 .. Len(a) /\ i \in 1 .. Len(b)
        /\ a[i] < b[i] \/ b[i] < a[i]
    BY <1>1, <1>4, <1>8
  <2>2. QED
    BY <1>4, <2>1 DEF Before
<1>9. QED
  BY <1>1, <1>4, <1>5, <1>6, <1>7, <1>8

-----------------------------------------------------------------------------
(***************************************************************************)
(* Names and keys.                                                         *)
(***************************************************************************)
\* A name has no slash and no suffix at its end, begins with a slash unless it
\* is the directory itself, and has only directories above it.
LEMMA NameParts ==
  ASSUME NEW n \in Name
  PROVE  /\ n \in Names /\ Len(n) \in Nat /\ (n = Empty <=> Len(n) = 0)
         /\ \A i \in 1 .. Len(n) : n[i] \in Nat
         /\ n # Empty => /\ n[1] = Slash /\ n[Len(n)] # Slash /\ n[Len(n)] # Folder
                         /\ Len(n) > 1
                         /\ \A i \in 2 .. Len(n) : n[i] = Slash => SubSeq(n, 1, i - 1) \in Dir
<1>1. n \in Seq(Nat)
  BY NamesAssumption DEF Name
<1>2. n = Empty <=> Len(n) = 0
  BY <1>1, EmptySeq DEF Empty
<1>3. ASSUME n # Empty
      PROVE  /\ n[1] = Slash /\ n[Len(n)] # Slash /\ n[Len(n)] # Folder
             /\ \A i \in 2 .. Len(n) : n[i] = Slash => SubSeq(n, 1, i - 1) \in Dir
  <2>1. /\ Head(n) = Slash /\ Last(n) \notin {Slash, Folder}
        /\ \A i \in 2 .. Len(n) : n[i] = Slash => SubSeq(n, 1, i - 1) \in Dir
    BY <1>3, NamesAssumption DEF Name
  <2>2. Head(n) = n[1]
    BY <1>1, <1>2, <1>3
  <2>3. QED
    BY <2>1, <2>2 DEF Last
<1>4. QED
  BY <1>1, <1>2, <1>3 DEF Names

\* A prefix, position by position.
LEMMA PrefixIs ==
  ASSUME NEW s \in Names, NEW t \in Names
  PROVE  /\ IsPrefix(s, t) <=> Len(s) <= Len(t) /\ \A i \in 1 .. Len(s) : s[i] = t[i]
         /\ IsStrictPrefix(s, t) <=> Len(s) < Len(t) /\ \A i \in 1 .. Len(s) : s[i] = t[i]
<1>1. Len(s) \in Nat /\ Len(t) \in Nat
  BY DEF Names
<1>2. SubSeq(s, 1, Len(s)) = s
  BY SubSeqFull DEF Names
<1>3. ASSUME Len(s) <= Len(t)
      PROVE  /\ SubSeq(t, 1, Len(s)) \in Seq(Nat) /\ Len(SubSeq(t, 1, Len(s))) = Len(s)
             /\ \A i \in 1 .. Len(s) : SubSeq(t, 1, Len(s))[i] = t[i]
  BY <1>1, <1>3 DEF Names
<1>4. ASSUME Len(s) <= Len(t)
      PROVE  SubSeq(t, 1, Len(s)) = s <=> \A i \in 1 .. Len(s) : s[i] = t[i]
  <2>1. ASSUME \A i \in 1 .. Len(s) : s[i] = t[i] PROVE SubSeq(t, 1, Len(s)) = s
    BY <1>3, <1>4, <2>1, SeqEqual DEF Names
  <2>2. QED
    BY <1>3, <1>4, <2>1
<1>5. IsPrefix(s, t) <=> Len(s) <= Len(t) /\ \A i \in 1 .. Len(s) : s[i] = t[i]
  BY <1>2, <1>4 DEF IsPrefix
<1>6. Len(s) <= Len(t) /\ (\A i \in 1 .. Len(s) : s[i] = t[i]) => (s # t <=> Len(s) < Len(t))
  BY <1>1, SeqEqual DEF Names
<1>7. QED
  BY <1>1, <1>5, <1>6 DEF IsStrictPrefix

\* What begins with a name comes after it.
LEMMA PrefixBefore ==
  ASSUME NEW s \in Names, NEW t \in Names, IsStrictPrefix(s, t)
  PROVE  Before(s, t)
<1>1. Len(s) \in Nat /\ Len(t) \in Nat
  BY DEF Names
<1>2. Len(s) < Len(t) /\ \A i \in 1 .. Len(s) : s[i] = t[i]
  BY PrefixIs
<1>3. Len(s) + 1 \in 1 .. Len(t)
  BY <1>1, <1>2
<1>4. QED
  BY <1>1, <1>2, <1>3 DEF Before

\* A name with a slash or the suffix at its end.
LEMMA AppendParts ==
  ASSUME NEW a \in Names, NEW x \in {Slash, Folder}
  PROVE  /\ Append(a, x) \in Names /\ Len(Append(a, x)) = Len(a) + 1 /\ Len(a) \in Nat
         /\ \A i \in 1 .. Len(a) : Append(a, x)[i] = a[i]
         /\ Append(a, x)[Len(a) + 1] = x /\ Append(a, x) # Empty
         /\ Front(Append(a, x)) = a
         /\ \A y : EndsIn(Append(a, x), y) <=> x = y
<1>1. x \in Nat
  BY DEF Slash, Folder
<1>2. /\ Append(a, x) \in Names /\ Len(Append(a, x)) = Len(a) + 1 /\ Len(a) \in Nat
      /\ \A i \in 1 .. Len(a) : Append(a, x)[i] = a[i]
      /\ Append(a, x)[Len(a) + 1] = x
  BY <1>1 DEF Names
<1>3. Append(a, x) # Empty
  BY <1>2, EmptySeq DEF Empty
<1>4. Front(Append(a, x)) = a
  <2>1. /\ SubSeq(Append(a, x), 1, Len(a)) \in Seq(Nat)
        /\ Len(SubSeq(Append(a, x), 1, Len(a))) = Len(a)
        /\ \A i \in 1 .. Len(a) : SubSeq(Append(a, x), 1, Len(a))[i] = Append(a, x)[i]
    BY <1>2 DEF Names
  <2>2. SubSeq(Append(a, x), 1, Len(a)) = a
    BY <1>2, <2>1, SeqEqual DEF Names
  <2>3. Len(Append(a, x)) - 1 = Len(a)
    BY <1>2
  <2>4. QED
    BY <2>2, <2>3 DEF Front
<1>5. Last(Append(a, x)) = x
  BY <1>2 DEF Last
<1>6. QED
  BY <1>2, <1>3, <1>4, <1>5 DEF EndsIn

\* Names without a slash or the suffix at their end.
Bare == {a \in Names : ~EndsIn(a, Slash) /\ ~EndsIn(a, Folder)}

\* Such names do not become another one by a slash or the suffix.
LEMMA BareParts ==
  /\ \A n \in Name : n \in Bare
  /\ \A a \in Bare, b \in Bare :
       /\ a # Append(b, Slash) /\ a # Append(b, Folder) /\ Append(a, Slash) # Append(b, Folder)
       /\ \A x \in {Slash, Folder} : Append(a, x) = Append(b, x) => a = b
<1>1. ASSUME NEW n \in Name PROVE n \in Bare
  BY NameParts DEF Bare, EndsIn, Last
<1>2. ASSUME NEW a \in Bare, NEW b \in Bare
      PROVE  /\ a # Append(b, Slash) /\ a # Append(b, Folder)
             /\ Append(a, Slash) # Append(b, Folder)
             /\ \A x \in {Slash, Folder} : Append(a, x) = Append(b, x) => a = b
  <2>1. a \in Names /\ b \in Names /\ ~EndsIn(a, Slash) /\ ~EndsIn(a, Folder) /\ Slash # Folder
    BY DEF Bare, Slash, Folder
  <2>2. EndsIn(Append(b, Slash), Slash) /\ EndsIn(Append(b, Folder), Folder)
    BY <2>1, AppendParts
  <2>3. ~EndsIn(Append(a, Slash), Folder)
    BY <2>1, AppendParts
  <2>4. ASSUME NEW x \in {Slash, Folder}, Append(a, x) = Append(b, x) PROVE a = b
    <3>1. Front(Append(a, x)) = a /\ Front(Append(b, x)) = b
      BY <2>1, AppendParts
    <3>2. QED
      BY <2>4, <3>1
  <2>5. QED
    BY <2>1, <2>2, <2>3, <2>4
<1>3. QED
  BY <1>1, <1>2

\* The keys of a name.
LEMMA KeyParts ==
  ASSUME NEW n \in Name
  PROVE  /\ Key(n, "plain") = n
         /\ Key(n, "slash") = Append(n, Slash) /\ Key(n, "folder") = Append(n, Folder)
         /\ \A form \in Form : Key(n, form) \in Names /\ Key(n, form) \in Keys
<1>1. n \in Names
  BY NameParts
<1>2. /\ Key(n, "plain") = n /\ Key(n, "slash") = Append(n, Slash)
      /\ Key(n, "folder") = Append(n, Folder)
  BY DEF Key
<1>3. ASSUME NEW form \in Form PROVE Key(n, form) \in Names /\ Key(n, form) \in Keys
  <2>1. Key(n, form) \in Keys
    BY DEF Keys
  <2>2. form = "plain" \/ form = "slash" \/ form = "folder"
    BY DEF Form
  <2>3. Append(n, Slash) \in Names /\ Append(n, Folder) \in Names
    BY <1>1, AppendParts
  <2>4. Key(n, form) \in Names
    BY <1>1, <1>2, <2>2, <2>3
  <2>5. QED
    BY <2>1, <2>4
<1>4. QED
  BY <1>2, <1>3

\* A key is the key of one name in one form.
LEMMA KeyInjective ==
  ASSUME NEW n \in Name, NEW m \in Name, NEW f \in Form, NEW g \in Form, Key(n, f) = Key(m, g)
  PROVE  n = m /\ f = g
<1>1. n \in Bare /\ m \in Bare
  BY BareParts
<1>2. /\ \/ f = "plain" /\ Key(n, f) = n
         \/ f = "slash" /\ Key(n, f) = Append(n, Slash)
         \/ f = "folder" /\ Key(n, f) = Append(n, Folder)
      /\ \/ g = "plain" /\ Key(m, g) = m
         \/ g = "slash" /\ Key(m, g) = Append(m, Slash)
         \/ g = "folder" /\ Key(m, g) = Append(m, Folder)
  BY KeyParts DEF Form
<1>3. QED
  BY <1>1, <1>2, BareParts

\* A key that is a name is in the plain form.
LEMMA KeyIsName ==
  ASSUME NEW n \in Name, NEW f \in Form, NEW m \in Name, Key(n, f) = m
  PROVE  n = m /\ f = "plain"
<1>1. Key(m, "plain") = m /\ "plain" \in Form
  BY KeyParts DEF Form
<1>2. QED
  BY <1>1, KeyInjective

\* What has a key below another name: the other name is a directory above it.
LEMMA BelowParts ==
  ASSUME NEW n \in Names, NEW m \in Name, NEW f \in Form, Below(Append(n, Slash), Key(m, f))
  PROVE  /\ m # Empty /\ Len(n) < Len(m) /\ n = SubSeq(m, 1, Len(n)) /\ m[Len(n) + 1] = Slash
         /\ n \in Dir /\ IsStrictPrefix(n, m) /\ Before(n, m)
<1> DEFINE p == Append(n, Slash)
           k == Key(m, f)
<1>1. /\ n \in Seq(Nat) /\ Len(n) \in Nat /\ p \in Names /\ Len(p) = Len(n) + 1
      /\ p[Len(n) + 1] = Slash /\ \A i \in 1 .. Len(n) : p[i] = n[i]
  BY DEF Names, Slash
<1>2. k \in Names /\ Len(k) <= Len(m) + 1 /\ Len(m) \in Nat /\ \A i \in 1 .. Len(m) : k[i] = m[i]
  <2>1. k = m \/ \E x \in {Slash, Folder} : k = Append(m, x)
    BY KeyParts DEF Form
  <2>2. m \in Names /\ Len(m) \in Nat
    BY NameParts
  <2> HIDE DEF k
  <2>3. CASE k = m
    BY <2>2, <2>3
  <2>4. CASE k # m
    <3>1. PICK x \in {Slash, Folder} : k = Append(m, x)
      BY <2>1, <2>4
    <3>2. k \in Names /\ Len(k) = Len(m) + 1 /\ \A i \in 1 .. Len(m) : k[i] = m[i]
      BY <2>2, <3>1, AppendParts
    <3>3. QED
      BY <2>2, <3>2
  <2>5. QED
    BY <2>3, <2>4
<1>3. Len(p) < Len(k) /\ \A i \in 1 .. Len(p) : p[i] = k[i]
  BY <1>1, <1>2, PrefixIs DEF Below
<1>4. Len(n) < Len(m)
  BY <1>1, <1>2, <1>3
<1>5. /\ \A i \in 1 .. Len(n) : n[i] = m[i]
      /\ m[Len(n) + 1] = Slash
  BY <1>1, <1>2, <1>3, <1>4
<1>6. m # Empty /\ m \in Names
  BY <1>1, <1>4, NameParts
<1>7. IsStrictPrefix(n, m)
  BY <1>4, <1>5, <1>6, PrefixIs
<1>8. Before(n, m)
  BY <1>6, <1>7, PrefixBefore
<1>9. n = SubSeq(m, 1, Len(n))
  <2>1. /\ SubSeq(m, 1, Len(n)) \in Seq(Nat) /\ Len(SubSeq(m, 1, Len(n))) = Len(n)
        /\ \A i \in 1 .. Len(n) : SubSeq(m, 1, Len(n))[i] = m[i]
    BY <1>1, <1>2, <1>4, <1>6 DEF Names
  <2>2. QED
    BY <1>1, <1>5, <2>1, SeqEqual
<1>10. n \in Dir
  <2>1. CASE Len(n) = 0
    <3>1. n = Empty
      BY <1>1, <2>1, EmptySeq DEF Empty
    <3>2. QED
      BY <3>1, RenameAssumption
  <2>2. CASE Len(n) # 0
    <3>1. Len(n) + 1 \in 2 .. Len(m) /\ (Len(n) + 1) - 1 = Len(n)
      BY <1>1, <1>2, <1>4, <2>2
    <3>2. QED
      BY <1>5, <1>6, <1>9, <3>1, NameParts
  <2>3. QED
    BY <2>1, <2>2
<1>11. QED
  BY <1>4, <1>5, <1>6, <1>7, <1>8, <1>9, <1>10

-----------------------------------------------------------------------------
(***************************************************************************)
(* Sets of names in ascending order.                                       *)
(***************************************************************************)
\* How many names of S are before n.
Rank(S, n) == Cardinality({m \in S : Before(m, n)})

\* The ranks of the members of S are 0 to one less than its size.
LEMMA Ranks ==
  ASSUME NEW S \in SUBSET Names, IsFiniteSet(S)
  PROVE  /\ Cardinality(S) \in Nat
         /\ \A n \in S : Rank(S, n) \in 0 .. Cardinality(S) - 1
         /\ \A n \in S, m \in S : Before(n, m) => Rank(S, n) < Rank(S, m)
         /\ \A i \in 0 .. Cardinality(S) - 1 : \E n \in S : Rank(S, n) = i
<1> DEFINE Lower(n) == {m \in S : Before(m, n)}
<1>1. Cardinality(S) \in Nat
  BY FS_CardinalityType
<1>2. ASSUME NEW n \in S
      PROVE  /\ IsFiniteSet(Lower(n)) /\ Rank(S, n) \in Nat /\ Rank(S, n) = Cardinality(Lower(n))
             /\ n \notin Lower(n) /\ IsFiniteSet(Lower(n) \cup {n})
             /\ Cardinality(Lower(n) \cup {n}) = Rank(S, n) + 1
  <2>1. Lower(n) \in SUBSET S
    OBVIOUS
  <2>2. n \notin Lower(n)
    BY NotBeforeItself
  <2>3. Rank(S, n) = Cardinality(Lower(n))
    BY DEF Rank
  <2> HIDE DEF Lower
  <2>4. IsFiniteSet(Lower(n)) /\ Cardinality(Lower(n)) \in Nat
    BY <2>1, FS_Subset, FS_CardinalityType
  <2>5. QED
    BY <2>2, <2>3, <2>4, FS_AddElement
<1>3. ASSUME NEW n \in S PROVE Rank(S, n) \in 0 .. Cardinality(S) - 1
  <2>1. Lower(n) \cup {n} \in SUBSET S
    OBVIOUS
  <2> HIDE DEF Lower
  <2>2. Cardinality(Lower(n) \cup {n}) <= Cardinality(S)
    BY <2>1, FS_Subset
  <2>3. QED
    BY <1>1, <1>2, <2>2
<1>4. ASSUME NEW n \in S, NEW m \in S, Before(n, m) PROVE Rank(S, n) < Rank(S, m)
  <2>1. \A x \in S : Before(x, n) => Before(x, m)
    BY <1>4, BeforeTransitive
  <2>2. Lower(n) \cup {n} \in SUBSET Lower(m)
    <3>1. ASSUME NEW x \in Lower(n) \cup {n} PROVE x \in Lower(m)
      <4>1. CASE x = n
        BY <1>4, <4>1
      <4>2. CASE x \in S /\ Before(x, n)
        BY <2>1, <4>2
      <4>3. QED
        BY <4>1, <4>2
    <3> HIDE DEF Lower
    <3>2. QED
      BY <3>1
  <2> HIDE DEF Lower
  <2>3. Cardinality(Lower(n) \cup {n}) <= Cardinality(Lower(m))
    BY <1>2, <2>2, FS_Subset
  <2>4. /\ Cardinality(Lower(n) \cup {n}) = Rank(S, n) + 1 /\ Rank(S, n) \in Nat
        /\ Cardinality(Lower(m)) = Rank(S, m) /\ Rank(S, m) \in Nat
    BY <1>2
  <2>5. QED
    BY <2>3, <2>4
<1>5. \A i \in 0 .. Cardinality(S) - 1 : \E n \in S : Rank(S, n) = i
  <2> DEFINE T == 0 .. Cardinality(S) - 1
             r == [n \in S |-> Rank(S, n)]
  <2>1. IsFiniteSet(T) /\ Cardinality(T) = Cardinality(S)
    BY <1>1, FS_Interval
  <2>2. r \in [S -> T]
    BY <1>3
  <2>3. ASSUME NEW n \in S, NEW m \in S, r[n] = r[m] PROVE n = m
    <3>1. Rank(S, n) = Rank(S, m) /\ Rank(S, n) \in Nat
      BY <1>2, <2>3
    <3>2. ~Before(n, m) /\ ~Before(m, n)
      BY <1>2, <1>4, <3>1
    <3>3. QED
      BY <3>2, BeforeTotal
  <2> HIDE DEF T, r
  <2>4. r \in Injection(S, T)
    BY <2>2, <2>3, Zenon DEF Injection, IsInjective
  <2>5. r \in Surjection(S, T)
    BY <2>1, <2>4, FS_Injection
  <2>6. \A i \in T : \E n \in S : r[n] = i
    BY <2>5 DEF Surjection
  <2>7. QED
    BY <2>6 DEF T, r
<1>6. QED
  BY <1>1, <1>3, <1>4, <1>5

\* Ascending lists each member of a set once.
LEMMA AscendingParts ==
  ASSUME NEW S \in SUBSET Names, IsFiniteSet(S)
  PROVE  /\ Cardinality(S) \in Nat /\ Len(Ascending(S)) = Cardinality(S)
         /\ DOMAIN Ascending(S) = 1 .. Cardinality(S) /\ Ascending(S) \in Seq(S)
         /\ \A i \in 1 .. Cardinality(S) : Ascending(S)[i] \in S
         /\ \A i, j \in 1 .. Cardinality(S) : Ascending(S)[i] = Ascending(S)[j] => i = j
         /\ \A n \in S : \E i \in 1 .. Cardinality(S) : Ascending(S)[i] = n
<1> DEFINE N == Cardinality(S)
           A == [i \in 1 .. N |-> CHOOSE n \in S : Rank(S, n) = i - 1]
<1>1. Ascending(S) = A
  BY DEF Ascending, Rank
<1>2. N \in Nat
  BY Ranks
<1>3. ASSUME NEW i \in 1 .. N PROVE A[i] \in S /\ Rank(S, A[i]) = i - 1
  <2>1. \E n \in S : Rank(S, n) = i - 1
    <3>1. i - 1 \in 0 .. N - 1
      BY <1>2
    <3>2. QED
      BY <3>1, Ranks
  <2>2. QED
    BY <2>1
<1> HIDE DEF A
<1>4. A \in Seq(S) /\ Len(A) = N /\ DOMAIN A = 1 .. N
  <2>1. DOMAIN A = 1 .. N
    BY DEF A
  <2>2. A = [i \in 1 .. N |-> A[i]]
    BY DEF A
  <2>3. A \in [1 .. N -> S]
    BY <1>3, <2>2
  <2>4. A \in Seq(S)
    BY <1>2, <2>3, SeqDef, Zenon
  <2>5. QED
    BY <1>2, <2>1, <2>4
<1>5. ASSUME NEW i \in 1 .. N, NEW j \in 1 .. N, A[i] = A[j] PROVE i = j
  <2>1. i - 1 = j - 1
    BY <1>3, <1>5
  <2>2. QED
    BY <1>2, <2>1
<1>6. ASSUME NEW n \in S PROVE \E i \in 1 .. N : A[i] = n
  <2>1. Rank(S, n) \in 0 .. N - 1
    BY Ranks
  <2>2. Rank(S, n) + 1 \in 1 .. N
    BY <1>2, <2>1
  <2>3. A[Rank(S, n) + 1] \in S /\ Rank(S, A[Rank(S, n) + 1]) = Rank(S, n)
    BY <1>2, <1>3, <2>1, <2>2
  <2>4. A[Rank(S, n) + 1] = n
    <3>1. ~Before(A[Rank(S, n) + 1], n) /\ ~Before(n, A[Rank(S, n) + 1])
      BY <2>1, <2>3, Ranks
    <3>2. QED
      BY <2>3, <3>1, BeforeTotal
  <2>5. QED
    BY <2>2, <2>4
<1>7. QED
  BY <1>1, <1>2, <1>3, <1>4, <1>5, <1>6

\* A set of names has a least and a greatest one.
LEMMA Ends ==
  ASSUME NEW S \in SUBSET Names, IsFiniteSet(S), S # {}
  PROVE  /\ Least(S) \in S /\ \A m \in S : m # Least(S) => Before(Least(S), m)
         /\ Greatest(S) \in S /\ \A m \in S : m # Greatest(S) => Before(m, Greatest(S))
<1> DEFINE N == Cardinality(S)
<1>1. N \in Nat /\ N > 0
  BY Ranks, FS_EmptySet
<1>2. 0 \in 0 .. N - 1 /\ N - 1 \in 0 .. N - 1
  BY <1>1
<1>3. PICK a \in S : Rank(S, a) = 0
  BY <1>2, Ranks
<1>4. PICK b \in S : Rank(S, b) = N - 1
  BY <1>2, Ranks
<1>5. \A m \in S : ~Before(m, a)
  BY <1>1, <1>3, Ranks
<1>6. \A m \in S : ~Before(b, m)
  <2>1. ASSUME NEW m \in S, Before(b, m) PROVE FALSE
    <3>1. N - 1 < Rank(S, m) /\ Rank(S, m) \in 0 .. N - 1
      BY <1>4, <2>1, Ranks
    <3>2. QED
      BY <1>1, <3>1
  <2>2. QED
    BY <2>1
<1>7. Least(S) \in S /\ \A m \in S : ~Before(m, Least(S))
  BY <1>5, Zenon DEF Least
<1>8. Greatest(S) \in S /\ \A m \in S : ~Before(Greatest(S), m)
  BY <1>6, Zenon DEF Greatest
<1>9. QED
  BY <1>7, <1>8, BeforeTotal

-----------------------------------------------------------------------------
(***************************************************************************)
(* The names of a list, which are below the directory.                     *)
(***************************************************************************)
Short == {t \in Names : t # Empty /\ <<Slash>> \o t \in Name}

\* A slash before a name.
LEMMA SlashBefore ==
  ASSUME NEW t \in Names
  PROVE  /\ <<Slash>> \o t \in Names /\ Len(<<Slash>> \o t) = Len(t) + 1 /\ Len(t) \in Nat
         /\ (<<Slash>> \o t)[1] = Slash
         /\ \A i \in 1 .. Len(t) : (<<Slash>> \o t)[i + 1] = t[i]
         /\ <<Slash>> \o t # Empty
<1>1. <<Slash>> \in Seq(Nat) /\ Len(<<Slash>>) = 1 /\ <<Slash>>[1] = Slash /\ t \in Seq(Nat)
  BY DEF Slash, Names
<1>2. /\ <<Slash>> \o t \in Seq(Nat) /\ Len(<<Slash>> \o t) = 1 + Len(t) /\ Len(t) \in Nat
      /\ \A i \in 1 .. 1 + Len(t) :
           (<<Slash>> \o t)[i] = IF i <= 1 THEN <<Slash>>[i] ELSE t[i - 1]
  <2>1. Len(t) \in Nat
    BY <1>1
  <2>2. QED
    BY <1>1, <2>1, ConcatProperties
<1>3. ASSUME NEW i \in 1 .. Len(t) PROVE (<<Slash>> \o t)[i + 1] = t[i]
  <2>1. i + 1 \in 1 .. 1 + Len(t) /\ ~(i + 1 <= 1) /\ (i + 1) - 1 = i
    BY <1>2
  <2>2. QED
    BY <1>2, <2>1
<1>4. (<<Slash>> \o t)[1] = Slash
  BY <1>1, <1>2
<1>5. <<Slash>> \o t # Empty
  BY <1>2, EmptySeq DEF Empty
<1>6. QED
  BY <1>2, <1>3, <1>4, <1>5 DEF Names

\* A name in the list has no slash and no suffix at its end.
LEMMA ShortParts ==
  ASSUME NEW t \in Short
  PROVE  /\ t \in Names /\ t \in Bare /\ Len(t) \in Nat /\ Len(t) >= 1 /\ t # Empty
         /\ <<Slash>> \o t \in Name \ {Empty}
         /\ CutSlash(t) = t /\ CutSlash(Append(t, Slash)) = t
<1>1. t \in Names /\ t # Empty /\ <<Slash>> \o t \in Name
  BY DEF Short
<1>2. Len(t) \in Nat /\ Len(t) >= 1
  BY <1>1, EmptySeq DEF Names, Empty
<1> DEFINE n == <<Slash>> \o t
<1>3. /\ n \in Names /\ Len(n) = Len(t) + 1 /\ n[Len(t) + 1] = t[Len(t)] /\ n # Empty
  BY <1>1, <1>2, SlashBefore
<1>4. n[Len(n)] # Slash /\ n[Len(n)] # Folder
  BY <1>1, <1>3, NameParts
<1> HIDE DEF n
<1>5. ~EndsIn(t, Slash) /\ ~EndsIn(t, Folder)
  BY <1>3, <1>4 DEF EndsIn, Last
<1>6. t \in Bare
  BY <1>1, <1>5 DEF Bare
<1>7. CutSlash(t) = t
  BY <1>5 DEF CutSlash
<1>8. CutSlash(Append(t, Slash)) = t
  <2>1. /\ Len(Append(t, Slash)) = Len(t) + 1 /\ Front(Append(t, Slash)) = t
        /\ EndsIn(Append(t, Slash), Slash)
    BY <1>1, AppendParts
  <2>2. QED
    BY <1>2, <2>1 DEF CutSlash
<1>9. QED
  BY <1>1, <1>2, <1>3, <1>6, <1>7, <1>8 DEF n

\* The part of a name behind its first slash is in the list under that name.
LEMMA ShortOf ==
  ASSUME NEW m \in Name \ {Empty}
  PROVE  \E t \in Short : m = <<Slash>> \o t
<1> DEFINE t == SubSeq(m, 2, Len(m))
<1>1. /\ m \in Names /\ Len(m) \in Nat /\ Len(m) > 1 /\ m[1] = Slash
      /\ \A i \in 1 .. Len(m) : m[i] \in Nat
  BY NameParts
<1>2. /\ t \in Seq(Nat) /\ Len(t) = Len(m) - 1
      /\ \A i \in 1 .. Len(m) - 1 : t[i] = m[i + 1]
  <2>1. \A i \in 2 .. Len(m) : m[i] \in Nat
    BY <1>1
  <2>2. /\ t \in Seq(Nat) /\ Len(t) = IF 2 <= Len(m) THEN Len(m) - 2 + 1 ELSE 0
        /\ \A i \in 1 .. Len(m) - 2 + 1 : t[i] = m[2 + i - 1]
    BY <1>1, <2>1, SubSeqProperties
  <2> HIDE DEF t
  <2>3. QED
    BY <1>1, <2>2
<1> HIDE DEF t
<1>3. t # Empty
  BY <1>1, <1>2, EmptySeq DEF Empty
<1>4. <<Slash>> \o t = m
  <2> DEFINE n == <<Slash>> \o t
  <2>1. /\ n \in Names /\ Len(n) = Len(m) /\ n[1] = Slash
        /\ \A i \in 1 .. Len(t) : n[i + 1] = t[i]
    BY <1>1, <1>2, SlashBefore DEF Names
  <2> HIDE DEF n
  <2>2. ASSUME NEW i \in 1 .. Len(m) PROVE n[i] = m[i]
    <3>1. CASE i = 1
      BY <1>1, <2>1, <3>1
    <3>2. CASE i # 1
      <4>1. i - 1 \in 1 .. Len(t) /\ i - 1 \in 1 .. Len(m) - 1 /\ (i - 1) + 1 = i
        BY <1>1, <1>2, <3>2
      <4>2. n[i] = t[i - 1] /\ t[i - 1] = m[i]
        BY <1>2, <2>1, <4>1
      <4>3. QED
        BY <4>2
    <3>3. QED
      BY <3>1, <3>2
  <2>3. n = m
    BY <1>1, <2>1, <2>2, SeqEqual DEF Names
  <2>4. QED
    BY <2>3 DEF n
<1>5. QED
  BY <1>2, <1>3, <1>4 DEF Short, Names

\* A name determines the one in the list, and the order is the same.
LEMMA ShortOrder ==
  ASSUME NEW a \in Names, NEW b \in Names
  PROVE  /\ <<Slash>> \o a = <<Slash>> \o b => a = b
         /\ Before(<<Slash>> \o a, <<Slash>> \o b) <=> Before(a, b)
<1> DEFINE p == <<Slash>> \o a
           q == <<Slash>> \o b
<1>1. /\ Len(a) \in Nat /\ Len(p) = Len(a) + 1 /\ p[1] = Slash
      /\ \A i \in 1 .. Len(a) : p[i + 1] = a[i]
  BY SlashBefore
<1>2. /\ Len(b) \in Nat /\ Len(q) = Len(b) + 1 /\ q[1] = Slash
      /\ \A i \in 1 .. Len(b) : q[i + 1] = b[i]
  BY SlashBefore
<1> HIDE DEF p, q
<1>3. Slash = 0
  BY DEF Slash
<1>4. p = q => a = b
  <2>1. ASSUME p = q PROVE Len(a) = Len(b) /\ \A i \in 1 .. Len(a) : a[i] = b[i]
    BY <1>1, <1>2, <2>1
  <2>2. QED
    BY <2>1, SeqEqual DEF Names
<1>5. ASSUME Before(a, b) PROVE Before(p, q)
  <2>1. PICK i \in 1 .. Len(b) : /\ \A j \in 1 .. i - 1 : j <= Len(a) /\ a[j] = b[j]
                                 /\ i <= Len(a) => a[i] < b[i]
    BY <1>5 DEF Before
  <2>2. i + 1 \in 1 .. Len(q)
    BY <1>2
  <2>3. ASSUME NEW j \in 1 .. (i + 1) - 1 PROVE j <= Len(p) /\ p[j] = q[j]
    <3>1. CASE j = 1
      BY <1>1, <1>2, <3>1
    <3>2. CASE j # 1
      <4>1. j - 1 \in 1 .. i - 1 /\ j - 1 \in 1 .. Len(b) /\ (j - 1) + 1 = j
        BY <1>2, <3>2
      <4>2. j - 1 <= Len(a) /\ a[j - 1] = b[j - 1] /\ j - 1 \in 1 .. Len(a)
        BY <1>1, <2>1, <4>1
      <4>3. p[(j - 1) + 1] = a[j - 1]
        BY <1>1, <4>2
      <4>4. q[(j - 1) + 1] = b[j - 1]
        BY <1>2, <4>1
      <4>5. j <= Len(p)
        BY <1>1, <4>1, <4>2
      <4>6. p[j] = q[j]
        BY <4>1, <4>2, <4>3, <4>4, Zenon
      <4>7. QED
        BY <4>5, <4>6
    <3>3. QED
      BY <3>1, <3>2
  <2>4. i + 1 <= Len(p) => p[i + 1] < q[i + 1]
    <3>1. ASSUME i + 1 <= Len(p) PROVE p[i + 1] < q[i + 1]
      <4>1. i \in 1 .. Len(a) /\ i <= Len(a)
        BY <1>1, <3>1
      <4>2. QED
        BY <1>1, <1>2, <2>1, <4>1
    <3>2. QED
      BY <3>1
  <2>5. QED
    BY <2>2, <2>3, <2>4 DEF Before
<1>6. ASSUME Before(p, q) PROVE Before(a, b)
  <2>1. PICK i \in 1 .. Len(q) : /\ \A j \in 1 .. i - 1 : j <= Len(p) /\ p[j] = q[j]
                                 /\ i <= Len(p) => p[i] < q[i]
    BY <1>6 DEF Before
  <2>2. i # 1
    BY <1>1, <1>2, <1>3, <2>1
  <2>3. i - 1 \in 1 .. Len(b)
    BY <1>2, <2>2
  <2>4. ASSUME NEW j \in 1 .. (i - 1) - 1 PROVE j <= Len(a) /\ a[j] = b[j]
    <3>1. j + 1 \in 1 .. i - 1 /\ j \in 1 .. Len(b)
      BY <1>2, <2>3
    <3>2. j + 1 <= Len(p) /\ p[j + 1] = q[j + 1]
      BY <2>1, <3>1
    <3>3. j \in 1 .. Len(a)
      BY <1>1, <3>2
    <3>4. QED
      BY <1>1, <1>2, <3>1, <3>2, <3>3
  <2>5. i - 1 <= Len(a) => a[i - 1] < b[i - 1]
    <3>1. ASSUME i - 1 <= Len(a) PROVE a[i - 1] < b[i - 1]
      <4>1. i - 1 \in 1 .. Len(a) /\ i <= Len(p) /\ (i - 1) + 1 = i
        BY <1>1, <2>3, <3>1
      <4>2. p[i] = a[i - 1] /\ q[i] = b[i - 1]
        BY <1>1, <1>2, <2>3, <4>1
      <4>3. QED
        BY <2>1, <4>1, <4>2
    <3>2. QED
      BY <3>1
  <2>6. QED
    BY <2>3, <2>4, <2>5 DEF Before
<1>7. Before(p, q) <=> Before(a, b)
  BY <1>5, <1>6
<1>8. QED
  BY <1>4, <1>7, Zenon DEF p, q

\* There are finitely many names.
LEMMA NamesFinite ==
  /\ IsFiniteSet(Name) /\ IsFiniteSet(Short) /\ IsFiniteSet(Keys) /\ Keys \subseteq Names
<1>1. IsFiniteSet(Name)
  BY NamesAssumption DEF Name
<1>2. IsFiniteSet(Short)
  <2> DEFINE f == [t \in Short |-> <<Slash>> \o t]
  <2>1. f \in [Short -> Name]
    BY DEF Short
  <2>2. ASSUME NEW a \in Short, NEW b \in Short, f[a] = f[b] PROVE a = b
    BY <2>2, ShortParts, ShortOrder
  <2> HIDE DEF f
  <2>3. f \in Injection(Short, Name)
    BY <2>1, <2>2, Zenon DEF Injection, IsInjective
  <2>4. QED
    BY <1>1, <2>3, FS_Injection
<1>3. IsFiniteSet(Keys)
  <2> DEFINE P == Name \X Form
             g == [p \in P |-> Key(p[1], p[2])]
  <2>1. IsFiniteSet(Form)
    <3>1. Form = ({"plain"} \cup {"slash"}) \cup {"folder"}
      BY DEF Form
    <3>2. IsFiniteSet({"plain"} \cup {"slash"})
      BY FS_Singleton, FS_AddElement
    <3>3. QED
      BY <3>1, <3>2, FS_AddElement
  <2>2. IsFiniteSet(P)
    BY <1>1, <2>1, FS_Product
  <2>3. g \in [P -> Keys]
    BY DEF Keys
  <2>4. ASSUME NEW k \in Keys PROVE \E p \in P : g[p] = k
    <3>1. PICK n \in Name, form \in Form : k = Key(n, form)
      BY DEF Keys
    <3>2. <<n, form>> \in P /\ g[<<n, form>>] = k
      BY <3>1
    <3>3. QED
      BY <3>2
  <2> HIDE DEF P, g
  <2>5. g \in Surjection(P, Keys)
    BY <2>3, <2>4, Zenon DEF Surjection
  <2>6. QED
    BY <2>2, <2>5, FS_Surjection
<1>4. Keys \subseteq Names
  <2>1. ASSUME NEW k \in Keys PROVE k \in Names
    <3>1. PICK n \in Name, form \in Form : k = Key(n, form)
      BY DEF Keys
    <3>2. QED
      BY <3>1, KeyParts
  <2>2. QED
    BY <2>1
<1>5. QED
  BY <1>1, <1>2, <1>3, <1>4
-----------------------------------------------------------------------------
(***************************************************************************)
(* The list that list_bucket collects.                                     *)
(***************************************************************************)
\* An entry is a name, a directory by its object "dir_$folder$", or leads to one.
EntryOK(h, t, k) ==
  \/ /\ k = t /\ h[k].orgname = t /\ h[k].normalname = Empty
     /\ Append(t, Slash) \notin DOMAIN h
  \/ /\ k \in {t, Append(t, Folder)} /\ h[k].orgname = Empty /\ h[k].normalname = Append(t, Slash)
     /\ Append(t, Slash) \in DOMAIN h
  \/ /\ k = Append(t, Slash) /\ h[k].orgname = Append(t, Folder) /\ h[k].normalname = Empty

HeadOK(h) == IsFiniteSet(DOMAIN h) /\ \A k \in DOMAIN h : \E t \in Short : EntryOK(h, t, k)

\* The names the list has.
Listed(h) == {t \in Short : t \in DOMAIN h \/ Append(t, Slash) \in DOMAIN h}

\* The names t, t/ and t_$folder$ are three.
LEMMA ShortForms ==
  ASSUME NEW t \in Short
  PROVE  /\ t # Append(t, Slash) /\ t # Append(t, Folder) /\ Append(t, Slash) # Append(t, Folder)
         /\ t # Empty /\ Append(t, Slash) # Empty /\ Append(t, Folder) # Empty
         /\ \A s \in Short : /\ s # Append(t, Slash) /\ s # Append(t, Folder)
                             /\ Append(s, Slash) # Append(t, Folder)
                             /\ Append(s, Folder) # Append(t, Slash)
                             /\ Append(s, Slash) = Append(t, Slash) => s = t
                             /\ Append(s, Folder) = Append(t, Folder) => s = t
<1>1. t \in Names /\ t \in Bare /\ t # Empty /\ \A s \in Short : s \in Bare
  BY ShortParts
<1>2. Append(t, Slash) # Empty /\ Append(t, Folder) # Empty
  BY <1>1, AppendParts
<1>3. QED
  BY <1>1, <1>2, BareParts

\* What insert does with a name, and with the name of an object "dir_$folder$".
LEMMA InsertParts ==
  ASSUME NEW h, NEW t \in Short
  PROVE  /\ Append(t, Slash) \in DOMAIN h =>
              insert(h, t, FALSE) =
                Set(h, t, [orgname |-> Empty, normalname |-> Append(t, Slash), is_dir |-> TRUE])
         /\ Append(t, Slash) \notin DOMAIN h =>
              insert(h, t, FALSE) = Set(h, t, [orgname |-> t, normalname |-> Empty, is_dir |-> FALSE])
         /\ insert(h, Append(t, Folder), FALSE) =
              Set(Set(Erase(h, t), Append(t, Slash),
                      [orgname |-> Append(t, Folder), normalname |-> Empty, is_dir |-> TRUE]),
                  Append(t, Folder),
                  [orgname |-> Empty, normalname |-> Append(t, Slash), is_dir |-> TRUE])
<1>1. t \in Names /\ ~EndsIn(t, Slash) /\ ~EndsIn(t, Folder)
  BY ShortParts DEF Bare
<1>2. t # Append(t, Slash) /\ Append(t, Folder) # Append(t, Slash)
  BY ShortForms
<1>3. /\ EndsIn(Append(t, Folder), Folder) /\ Front(Append(t, Folder)) = t
      /\ Front(Append(t, Slash)) = t
  BY <1>1, AppendParts
<1>4. insert(h, t, FALSE) =
        IF Append(t, Slash) \in DOMAIN h THEN insert_nomalized(h, t, Append(t, Slash), TRUE)
        ELSE Add(h, t, t, FALSE)
  BY <1>1, Zenon DEF insert
<1>5. insert_nomalized(h, t, Append(t, Slash), TRUE) =
        Set(h, t, [orgname |-> Empty, normalname |-> Append(t, Slash), is_dir |-> TRUE])
  BY <1>2 DEF insert_nomalized
<1>6. Add(h, t, t, FALSE) = Set(h, t, [orgname |-> t, normalname |-> Empty, is_dir |-> FALSE])
  BY DEF Add, insert_nomalized
<1>7. insert(h, Append(t, Folder), FALSE) = Add(Erase(h, t), Append(t, Folder), Append(t, Slash), TRUE)
  BY <1>1, <1>3, Zenon DEF insert
<1>8. QED
  BY <1>2, <1>4, <1>5, <1>6, <1>7, Zenon DEF Add, insert_nomalized

\* A name that is inserted is listed, and those before it stay.
LEMMA InsertName ==
  ASSUME NEW h, HeadOK(h), NEW t \in Short
  PROVE  /\ HeadOK(insert(h, t, FALSE)) /\ Listed(insert(h, t, FALSE)) = Listed(h) \cup {t}
         /\ DOMAIN insert(h, t, FALSE) = DOMAIN h \cup {t}
<1> DEFINE g == insert(h, t, FALSE)
<1>1. PICK e : /\ g = Set(h, t, e)
               /\ \/ /\ Append(t, Slash) \in DOMAIN h
                     /\ e = [orgname |-> Empty, normalname |-> Append(t, Slash), is_dir |-> TRUE]
                  \/ /\ Append(t, Slash) \notin DOMAIN h
                     /\ e = [orgname |-> t, normalname |-> Empty, is_dir |-> FALSE]
  BY InsertParts, Zenon
<1> HIDE DEF g
<1>2. /\ DOMAIN g = DOMAIN h \cup {t} /\ g[t] = e
      /\ \A x \in DOMAIN h : x # t => g[x] = h[x]
  BY <1>1 DEF Set
<1>3. IsFiniteSet(DOMAIN g)
  BY <1>2, FS_AddElement DEF HeadOK
<1>4. ASSUME NEW k \in DOMAIN g PROVE \E s \in Short : EntryOK(g, s, k)
  <2>1. CASE k = t
    <3>1. Append(t, Slash) # t /\ (Append(t, Slash) \in DOMAIN g <=> Append(t, Slash) \in DOMAIN h)
      BY <1>2, ShortForms
    <3>2. EntryOK(g, t, k)
      BY <1>1, <1>2, <2>1, <3>1 DEF EntryOK
    <3>3. QED
      BY <3>2
  <2>2. CASE k # t
    <3>1. k \in DOMAIN h /\ g[k] = h[k]
      BY <1>2, <2>2
    <3>2. PICK s \in Short : EntryOK(h, s, k)
      BY <3>1 DEF HeadOK
    <3>3. Append(s, Slash) \in DOMAIN g <=> Append(s, Slash) \in DOMAIN h
      BY <1>2, ShortForms
    <3>4. EntryOK(g, s, k)
      BY <3>1, <3>2, <3>3 DEF EntryOK
    <3>5. QED
      BY <3>4
  <2>3. QED
    BY <2>1, <2>2
<1>5. Listed(g) = Listed(h) \cup {t}
  <2>1. ASSUME NEW s \in Short PROVE s \in Listed(g) <=> s \in Listed(h) \cup {t}
    <3>1. Append(s, Slash) \in DOMAIN g <=> Append(s, Slash) \in DOMAIN h
      BY <1>2, ShortForms
    <3>2. QED
      BY <1>2, <3>1 DEF Listed
  <2>2. Listed(g) \subseteq Short /\ Listed(h) \cup {t} \subseteq Short
    BY DEF Listed
  <2>3. QED
    BY <2>1, <2>2
<1>6. QED
  BY <1>2, <1>3, <1>4, <1>5 DEF g, HeadOK

\* So is the directory an object "dir_$folder$" stands for.
LEMMA InsertFolder ==
  ASSUME NEW h, HeadOK(h), NEW t \in Short
  PROVE  /\ HeadOK(insert(h, Append(t, Folder), FALSE))
         /\ Listed(insert(h, Append(t, Folder), FALSE)) = Listed(h) \cup {t}
         /\ DOMAIN insert(h, Append(t, Folder), FALSE) =
              (DOMAIN h \ {t}) \cup {Append(t, Slash), Append(t, Folder)}
<1> DEFINE g == insert(h, Append(t, Folder), FALSE)
           h1 == Erase(h, t)
           e2 == [orgname |-> Append(t, Folder), normalname |-> Empty, is_dir |-> TRUE]
           h2 == Set(h1, Append(t, Slash), e2)
           e3 == [orgname |-> Empty, normalname |-> Append(t, Slash), is_dir |-> TRUE]
<1>1. g = Set(h2, Append(t, Folder), e3)
  BY InsertParts, Zenon
<1>2. e2.orgname = Append(t, Folder) /\ e2.normalname = Empty
  OBVIOUS
<1>3. e3.orgname = Empty /\ e3.normalname = Append(t, Slash)
  OBVIOUS
<1> HIDE DEF e2, e3, g
<1>4. DOMAIN h1 = DOMAIN h \ {t} /\ \A x \in DOMAIN h : x # t => h1[x] = h[x]
  BY DEF Erase
<1> HIDE DEF h1
<1>5. /\ DOMAIN h2 = DOMAIN h1 \cup {Append(t, Slash)} /\ h2[Append(t, Slash)] = e2
      /\ \A x \in DOMAIN h1 : x # Append(t, Slash) => h2[x] = h1[x]
  BY DEF Set
<1> HIDE DEF h2
<1>6. /\ DOMAIN g = DOMAIN h2 \cup {Append(t, Folder)} /\ g[Append(t, Folder)] = e3
      /\ \A x \in DOMAIN h2 : x # Append(t, Folder) => g[x] = h2[x]
  BY <1>1 DEF Set
<1>7. t # Append(t, Slash) /\ t # Append(t, Folder) /\ Append(t, Slash) # Append(t, Folder)
  BY ShortForms
<1>8. /\ DOMAIN g = (DOMAIN h \ {t}) \cup {Append(t, Slash), Append(t, Folder)}
      /\ g[Append(t, Slash)] = e2 /\ g[Append(t, Folder)] = e3
      /\ \A x \in DOMAIN g : x \notin {Append(t, Slash), Append(t, Folder)} =>
           x \in DOMAIN h /\ x # t /\ g[x] = h[x]
  BY <1>4, <1>5, <1>6, <1>7
<1>9. IsFiniteSet(DOMAIN g)
  <2>1. IsFiniteSet(DOMAIN h)
    BY DEF HeadOK
  <2>2. IsFiniteSet(DOMAIN h1)
    BY <1>4, <2>1, FS_RemoveElement
  <2>3. IsFiniteSet(DOMAIN h2)
    BY <1>5, <2>2, FS_AddElement
  <2>4. QED
    BY <1>6, <2>3, FS_AddElement
<1>10. ASSUME NEW k \in DOMAIN g PROVE \E s \in Short : EntryOK(g, s, k)
  <2>1. CASE k = Append(t, Slash)
    <3>1. EntryOK(g, t, k)
      BY <1>2, <1>8, <2>1 DEF EntryOK
    <3>2. QED
      BY <3>1
  <2>2. CASE k = Append(t, Folder)
    <3>1. EntryOK(g, t, k)
      BY <1>3, <1>8, <2>2 DEF EntryOK
    <3>2. QED
      BY <3>1
  <2>3. CASE k \notin {Append(t, Slash), Append(t, Folder)}
    <3>1. k \in DOMAIN h /\ k # t /\ g[k] = h[k]
      BY <1>8, <2>3
    <3>2. PICK s \in Short : EntryOK(h, s, k)
      BY <3>1 DEF HeadOK
    <3>3. /\ Append(s, Slash) \in DOMAIN h => Append(s, Slash) \in DOMAIN g
          /\ s # t => (Append(s, Slash) \in DOMAIN g => Append(s, Slash) \in DOMAIN h)
      BY <1>8, ShortForms
    <3>4. EntryOK(g, s, k)
      BY <3>1, <3>2, <3>3 DEF EntryOK
    <3>5. QED
      BY <3>4
  <2>4. QED
    BY <2>1, <2>2, <2>3
<1>11. Listed(g) = Listed(h) \cup {t}
  <2>1. ASSUME NEW s \in Short PROVE s \in Listed(g) <=> s \in Listed(h) \cup {t}
    <3>1. CASE s = t
      BY <1>8, <3>1 DEF Listed
    <3>2. CASE s # t
      <4>1. Append(s, Slash) # Append(t, Slash) /\ Append(s, Slash) # Append(t, Folder)
            /\ s # Append(t, Slash) /\ s # Append(t, Folder) /\ Append(s, Slash) # t
        BY <3>2, ShortForms
      <4>2. /\ s \in DOMAIN g <=> s \in DOMAIN h
            /\ Append(s, Slash) \in DOMAIN g <=> Append(s, Slash) \in DOMAIN h
        BY <1>8, <3>2, <4>1
      <4>3. QED
        BY <3>2, <4>2 DEF Listed
    <3>3. QED
      BY <3>1, <3>2
  <2>2. Listed(g) \subseteq Short /\ Listed(h) \cup {t} \subseteq Short
    BY DEF Listed
  <2>3. QED
    BY <2>1, <2>2
<1>12. QED
  BY <1>8, <1>9, <1>10, <1>11 DEF g, HeadOK
-----------------------------------------------------------------------------
(***************************************************************************)
(* The names of the list.                                                  *)
(***************************************************************************)
\* The name of a listed key is a name below the directory, or stands for one.
LEMMA ObjectName ==
  ASSUME NEW key \in Keys, IsPrefix(<<Slash>>, key), key # <<Slash>>
  PROVE  \E t \in Short, form \in Form :
           /\ key = Key(<<Slash>> \o t, form)
           /\ get_object_name(<<Slash>>, key) = IF form = "folder" THEN Append(t, Folder) ELSE t
<1>1. PICK m \in Name, form \in Form : key = Key(m, form)
  BY DEF Keys
<1>2. key \in Names /\ <<Slash>> \in Names /\ Len(<<Slash>>) = 1 /\ <<Slash>>[1] = Slash
  BY NamesFinite DEF Names, Slash
<1>3. Len(key) >= 1 /\ key[1] = Slash /\ Len(key) \in Nat /\ \A i \in 1 .. Len(key) : key[i] \in Nat
  <2>1. Len(<<Slash>>) <= Len(key) /\ \A i \in 1 .. Len(<<Slash>>) : <<Slash>>[i] = key[i]
    BY <1>2, PrefixIs
  <2>2. QED
    BY <1>2, <2>1 DEF Names
<1>4. m # Empty
  <2>1. ASSUME m = Empty PROVE FALSE
    <3>1. /\ Key(m, "plain") = m /\ Key(m, "slash") = Append(m, Slash)
          /\ Key(m, "folder") = Append(m, Folder)
      BY KeyParts
    <3>2. Len(Empty) = 0 /\ Empty \in Names
      BY EmptySeq DEF Empty, Names
    <3>3. Append(Empty, Slash) = <<Slash>> /\ Append(Empty, Folder) = <<Folder>>
      BY DEF Empty
    <3>4. key # Empty
      BY <1>3, <3>2
    <3>5. key # <<Folder>>
      BY <1>3 DEF Slash, Folder
    <3>6. QED
      BY <1>1, <2>1, <3>1, <3>3, <3>4, <3>5 DEF Form
  <2>2. QED
    BY <2>1
<1>5. PICK t \in Short : m = <<Slash>> \o t
  BY <1>4, ShortOf
<1>6. t \in Names /\ Len(t) \in Nat /\ Len(t) >= 1 /\ CutSlash(t) = t /\ CutSlash(Append(t, Slash)) = t
  BY ShortParts
<1>7. /\ m \in Names /\ Len(m) = Len(t) + 1 /\ m[1] = Slash
      /\ \A i \in 1 .. Len(t) : m[i + 1] = t[i]
  BY <1>5, <1>6, SlashBefore
<1> DEFINE rest == SubSeq(key, Len(<<Slash>>) + 1, Len(key))
<1>8. /\ rest \in Names /\ Len(rest) = Len(key) - 1
      /\ \A i \in 1 .. Len(key) - 1 : rest[i] = key[i + 1]
  <2>1. rest = SubSeq(key, 2, Len(key))
    BY <1>2
  <2>2. \A i \in 2 .. Len(key) : key[i] \in Nat
    BY <1>3
  <2>3. /\ SubSeq(key, 2, Len(key)) \in Seq(Nat)
        /\ Len(SubSeq(key, 2, Len(key))) = IF 2 <= Len(key) THEN Len(key) - 2 + 1 ELSE 0
        /\ \A i \in 1 .. Len(key) - 2 + 1 : SubSeq(key, 2, Len(key))[i] = key[2 + i - 1]
    BY <1>3, <2>2, SubSeqProperties
  <2> HIDE DEF rest
  <2>4. rest \in Seq(Nat)
    BY <2>1, <2>3
  <2>5. Len(rest) = Len(key) - 1
    <3>1. Len(rest) = IF 2 <= Len(key) THEN Len(key) - 2 + 1 ELSE 0
      BY <2>1, <2>3, Zenon
    <3>2. 2 <= Len(key) => Len(rest) = Len(key) - 2 + 1
      BY <3>1, Zenon
    <3>3. ~(2 <= Len(key)) => Len(rest) = 0
      BY <3>1, Zenon
    <3>4. Len(key) \in Nat /\ Len(key) >= 1
      BY <1>3
    <3>5. QED
      BY <3>2, <3>3, <3>4
  <2>6. ASSUME NEW i \in 1 .. Len(key) - 1 PROVE rest[i] = key[i + 1]
    <3>1. i \in 1 .. Len(key) - 2 + 1 /\ 2 + i - 1 = i + 1
      BY <1>3
    <3>2. rest[i] = key[2 + i - 1]
      BY <2>1, <2>3, <3>1, Zenon
    <3>3. QED
      BY <3>1, <3>2, Zenon
  <2>7. QED
    BY <2>4, <2>5, <2>6 DEF Names
<1>9. get_object_name(<<Slash>>, key) = CutSlash(rest)
  BY DEF get_object_name
<1> HIDE DEF rest
<1>10. CASE form = "plain"
  <2>1. key = m
    BY <1>1, <1>10, KeyParts
  <2>2. rest = t
    <3>1. Len(rest) = Len(t)
      BY <1>6, <1>7, <1>8, <2>1
    <3>2. ASSUME NEW i \in 1 .. Len(rest) PROVE rest[i] = t[i]
      <4>1. i \in 1 .. Len(key) - 1 /\ i \in 1 .. Len(t)
        BY <1>8, <3>1
      <4>2. rest[i] = key[i + 1] /\ m[i + 1] = t[i]
        BY <1>7, <1>8, <4>1
      <4>3. QED
        BY <2>1, <4>2
    <3>3. QED
      BY <1>6, <1>8, <3>1, <3>2, SeqEqual DEF Names
  <2>3. QED
    BY <1>1, <1>5, <1>6, <1>9, <1>10, <2>2
<1>11. CASE form # "plain"
  <2>1. PICK x \in {Slash, Folder} : /\ key = Append(m, x)
                                     /\ form = "slash" => x = Slash
                                     /\ form = "folder" => x = Folder
    BY <1>1, <1>11, KeyParts DEF Form
  <2>2. /\ Len(key) = Len(m) + 1 /\ key[Len(m) + 1] = x
        /\ \A i \in 1 .. Len(m) : key[i] = m[i]
    BY <1>7, <2>1, AppendParts
  <2>3. /\ Append(t, x) \in Names /\ Len(Append(t, x)) = Len(t) + 1 /\ Append(t, x)[Len(t) + 1] = x
        /\ \A i \in 1 .. Len(t) : Append(t, x)[i] = t[i]
    BY <1>6, <2>1, AppendParts
  <2>4. rest = Append(t, x)
    <3>1. Len(rest) = Len(Append(t, x)) /\ Len(key) - 1 = Len(t) + 1
      BY <1>6, <1>7, <1>8, <2>2, <2>3
    <3>2. ASSUME NEW i \in 1 .. Len(rest) PROVE rest[i] = Append(t, x)[i]
      <4>1. rest[i] = key[i + 1]
        BY <1>8, <3>1
      <4>2. CASE i = Len(t) + 1
        BY <1>7, <2>2, <2>3, <4>1, <4>2
      <4>3. CASE i # Len(t) + 1
        <5>1. i \in 1 .. Len(t) /\ i + 1 \in 1 .. Len(m)
          BY <1>6, <1>7, <2>3, <3>1, <4>3
        <5>2. key[i + 1] = m[i + 1] /\ m[i + 1] = t[i] /\ Append(t, x)[i] = t[i]
          BY <1>7, <2>2, <2>3, <5>1
        <5>3. QED
          BY <4>1, <5>2
      <4>4. QED
        BY <4>2, <4>3
    <3>3. QED
      BY <1>8, <2>3, <3>1, <3>2, SeqEqual DEF Names
  <2>5. CASE form = "slash"
    BY <1>1, <1>5, <1>6, <1>9, <2>1, <2>4, <2>5
  <2>6. CASE form = "folder"
    <3>1. rest = Append(t, Folder)
      BY <2>1, <2>4, <2>6
    <3>2. ~EndsIn(Append(t, Folder), Slash)
      BY <1>6, AppendParts DEF Slash, Folder
    <3>3. CutSlash(Append(t, Folder)) = Append(t, Folder)
      BY <3>2 DEF CutSlash
    <3>4. QED
      BY <1>1, <1>5, <1>9, <2>6, <3>1, <3>3
  <2>7. QED
    BY <1>11, <2>5, <2>6 DEF Form
<1>12. QED
  BY <1>10, <1>11

\* The directories above a name are names, and those that have it below them.
LEMMA AncestorParts ==
  ASSUME NEW t \in Short
  PROVE  /\ Ancestors(t) \subseteq Short
         /\ \A s \in Ancestors(t) : Below(Append(<<Slash>> \o s, Slash), <<Slash>> \o t)
         /\ \A s \in Short, f \in Form :
              Below(Append(<<Slash>> \o s, Slash), Key(<<Slash>> \o t, f)) => s \in Ancestors(t)
<1>1. /\ t \in Names /\ Len(t) \in Nat /\ Len(t) >= 1 /\ <<Slash>> \o t \in Name \ {Empty}
      /\ \A i \in 1 .. Len(t) : t[i] \in Nat
  BY ShortParts DEF Names
<1> DEFINE m == <<Slash>> \o t
<1>2. /\ m \in Names /\ Len(m) = Len(t) + 1 /\ m[1] = Slash
      /\ \A i \in 1 .. Len(t) : m[i + 1] = t[i]
      /\ \A i \in 2 .. Len(m) : m[i] = Slash => SubSeq(m, 1, i - 1) \in Dir
      /\ m[Len(m)] # Slash
  BY <1>1, SlashBefore, NameParts
<1>3. m \in Name \ {Empty}
  BY <1>1
<1> HIDE DEF m
<1>4. ASSUME NEW s \in Ancestors(t)
      PROVE  s \in Short /\ Below(Append(<<Slash>> \o s, Slash), m)
  <2>1. PICK i \in 2 .. Len(t) : t[i] = Slash /\ s = SubSeq(t, 1, i - 1)
    BY <1>4 DEF Ancestors
  <2>2. /\ s \in Seq(Nat) /\ Len(s) = i - 1 /\ \A j \in 1 .. i - 1 : s[j] = t[j]
    <3>1. i - 1 \in Int /\ \A j \in 1 .. i - 1 : t[j] \in Nat
      BY <1>1
    <3>2. /\ SubSeq(t, 1, i - 1) \in Seq(Nat)
          /\ Len(SubSeq(t, 1, i - 1)) = IF 1 <= i - 1 THEN i - 1 - 1 + 1 ELSE 0
          /\ \A j \in 1 .. (i - 1) - 1 + 1 : SubSeq(t, 1, i - 1)[j] = t[1 + j - 1]
      BY <3>1, SubSeqProperties
    <3>3. Len(SubSeq(t, 1, i - 1)) = i - 1
      BY <3>2
    <3>4. ASSUME NEW j \in 1 .. i - 1 PROVE s[j] = t[j]
      <4>1. j \in 1 .. (i - 1) - 1 + 1 /\ 1 + j - 1 = j
        OBVIOUS
      <4>2. s[j] = t[1 + j - 1]
        BY <2>1, <3>2, <4>1, Zenon
      <4>3. QED
        BY <4>1, <4>2, Zenon
    <3>5. QED
      BY <2>1, <3>2, <3>3, <3>4
  <2> DEFINE n == <<Slash>> \o s
  <2>3. /\ n \in Names /\ Len(n) = i /\ n[1] = Slash
        /\ \A j \in 1 .. i - 1 : n[j + 1] = s[j]
    <3>1. /\ n \in Names /\ Len(n) = Len(s) + 1 /\ n[1] = Slash
          /\ \A j \in 1 .. Len(s) : n[j + 1] = s[j]
      BY <2>2, SlashBefore DEF Names
    <3> HIDE DEF n
    <3>2. QED
      BY <2>2, <3>1
  <2> HIDE DEF n
  <2>4. ASSUME NEW j \in 1 .. i PROVE n[j] = m[j]
    <3>1. CASE j = 1
      BY <1>2, <2>3, <3>1
    <3>2. CASE j # 1
      <4>1. j - 1 \in 1 .. i - 1 /\ j - 1 \in 1 .. Len(t) /\ (j - 1) + 1 = j
        BY <1>1, <3>2
      <4>2. n[(j - 1) + 1] = s[j - 1] /\ s[j - 1] = t[j - 1] /\ m[(j - 1) + 1] = t[j - 1]
        BY <1>2, <2>2, <2>3, <4>1
      <4>3. QED
        BY <4>1, <4>2, Zenon
    <3>3. QED
      BY <3>1, <3>2
  <2>5. i + 1 \in 2 .. Len(m) /\ m[i + 1] = Slash /\ (i + 1) - 1 = i /\ i \in Nat
    BY <1>1, <1>2, <2>1
  <2>6. n = SubSeq(m, 1, i)
    <3>1. /\ SubSeq(m, 1, i) \in Seq(Nat) /\ Len(SubSeq(m, 1, i)) = i
          /\ \A j \in 1 .. i : SubSeq(m, 1, i)[j] = m[j]
      BY <1>2, <2>5 DEF Names
    <3>2. QED
      BY <2>3, <2>4, <3>1, SeqEqual DEF Names
  <2>7. n \in Name
    <3>1. SubSeq(m, 1, (i + 1) - 1) \in Dir
      BY <1>2, <2>5
    <3>2. QED
      BY <2>5, <2>6, <3>1 DEF Name
  <2>8. s # Empty
    BY <2>2, EmptySeq DEF Empty
  <2>9. s \in Short
    BY <2>2, <2>7, <2>8 DEF Short, Names, n
  <2>10. Below(Append(n, Slash), m)
    <3>1. /\ Append(n, Slash) \in Names /\ Len(Append(n, Slash)) = i + 1
          /\ \A j \in 1 .. i : Append(n, Slash)[j] = n[j]
          /\ Append(n, Slash)[i + 1] = Slash
      BY <2>3, AppendParts
    <3>2. \A j \in 1 .. i + 1 : Append(n, Slash)[j] = m[j]
      BY <2>4, <2>5, <3>1
    <3>3. i + 1 < Len(m)
      BY <1>2, <2>5
    <3>4. Len(Append(n, Slash)) < Len(m)
      BY <3>1, <3>3
    <3>5. \A j \in 1 .. Len(Append(n, Slash)) : Append(n, Slash)[j] = m[j]
      BY <3>1, <3>2
    <3>6. QED
      BY <1>2, <3>1, <3>4, <3>5, PrefixIs DEF Below
  <2>11. QED
    BY <2>9, <2>10 DEF n
<1>5. ASSUME NEW s \in Short, NEW f \in Form, Below(Append(<<Slash>> \o s, Slash), Key(m, f))
      PROVE  s \in Ancestors(t)
  <2> DEFINE n == <<Slash>> \o s
  <2>1. s \in Names /\ Len(s) \in Nat /\ Len(s) >= 1
    BY ShortParts
  <2>2. n \in Names /\ Len(n) = Len(s) + 1 /\ \A i \in 1 .. Len(s) : n[i + 1] = s[i]
    BY <2>1, SlashBefore
  <2>3. Len(n) < Len(m) /\ n = SubSeq(m, 1, Len(n)) /\ m[Len(n) + 1] = Slash
    BY <1>3, <1>5, <2>2, BelowParts
  <2> HIDE DEF n
  <2>4. \A j \in 1 .. Len(n) : n[j] = m[j]
    <3>1. \A j \in 1 .. Len(n) : SubSeq(m, 1, Len(n))[j] = m[j]
      BY <1>2, <2>2, <2>3 DEF Names
    <3>2. QED
      BY <2>3, <3>1
  <2> DEFINE i == Len(s) + 1
  <2>5. i \in 2 .. Len(t) /\ t[i] = Slash /\ i - 1 = Len(s) /\ Len(s) <= Len(t)
    BY <1>1, <1>2, <2>1, <2>2, <2>3
  <2>6. ASSUME NEW j \in 1 .. Len(s) PROVE s[j] = t[j]
    <3>1. j + 1 \in 1 .. Len(n) /\ j \in 1 .. Len(t)
      BY <2>1, <2>2, <2>5
    <3>2. n[j + 1] = s[j] /\ m[j + 1] = t[j] /\ n[j + 1] = m[j + 1]
      BY <1>2, <2>2, <2>4, <3>1
    <3>3. QED
      BY <3>2
  <2>7. s = SubSeq(t, 1, Len(s))
    <3>1. /\ SubSeq(t, 1, Len(s)) \in Seq(Nat) /\ Len(SubSeq(t, 1, Len(s))) = Len(s)
          /\ \A j \in 1 .. Len(s) : SubSeq(t, 1, Len(s))[j] = t[j]
      BY <1>1, <2>1, <2>5 DEF Names
    <3>2. QED
      BY <2>1, <2>6, <3>1, SeqEqual DEF Names
  <2>8. i \in {j \in 2 .. Len(t) : t[j] = Slash} /\ s = SubSeq(t, 1, i - 1)
    BY <2>5, <2>7
  <2> HIDE DEF i
  <2>9. QED
    BY <2>8 DEF Ancestors
<1>6. QED
  BY <1>4, <1>5 DEF m
\* The entries that do not lead to another one are one for each listed name.
LEMMA ProperEntries ==
  ASSUME NEW h, HeadOK(h)
  PROVE  LET P == {k \in DOMAIN h : h[k].normalname = Empty}
         IN  /\ P \in SUBSET Names /\ IsFiniteSet(P)
             /\ \A k \in P : CutSlash(k) \in Listed(h)
             /\ \A k, l \in P : CutSlash(k) = CutSlash(l) => k = l
             /\ \A t \in Listed(h) : \E k \in P : CutSlash(k) = t
<1> DEFINE P == {k \in DOMAIN h : h[k].normalname = Empty}
<1>1. IsFiniteSet(P)
  <2>1. P \in SUBSET DOMAIN h
    OBVIOUS
  <2> HIDE DEF P
  <2>2. QED
    BY <2>1, FS_Subset DEF HeadOK
<1>2. ASSUME NEW k \in P
      PROVE  \E t \in Short : /\ CutSlash(k) = t /\ k \in Names /\ t \in Listed(h)
                              /\ \/ k = t /\ Append(t, Slash) \notin DOMAIN h
                                 \/ k = Append(t, Slash)
  <2>1. k \in DOMAIN h /\ h[k].normalname = Empty
    OBVIOUS
  <2>2. PICK t \in Short : EntryOK(h, t, k)
    BY <2>1 DEF HeadOK
  <2>3. h[k].normalname # Append(t, Slash)
    BY <2>1, ShortForms
  <2>4. \/ k = t /\ Append(t, Slash) \notin DOMAIN h
        \/ k = Append(t, Slash)
    BY <2>2, <2>3 DEF EntryOK
  <2>5. t \in Names /\ CutSlash(t) = t /\ CutSlash(Append(t, Slash)) = t
    BY ShortParts
  <2>6. Append(t, Slash) \in Names
    BY <2>5, AppendParts
  <2>7. t \in Listed(h)
    BY <2>1, <2>4 DEF Listed
  <2>8. QED
    BY <2>4, <2>5, <2>6, <2>7
<1>3. ASSUME NEW t \in Listed(h) PROVE \E k \in P : CutSlash(k) = t
  <2>1. t \in Short /\ CutSlash(t) = t /\ CutSlash(Append(t, Slash)) = t
    BY ShortParts DEF Listed
  <2>2. CASE Append(t, Slash) \in DOMAIN h
    <3>1. PICK s \in Short : EntryOK(h, s, Append(t, Slash))
      BY <2>2 DEF HeadOK
    <3>2. h[Append(t, Slash)].normalname = Empty
      BY <2>1, <3>1, ShortForms DEF EntryOK
    <3>3. QED
      BY <2>1, <2>2, <3>2
  <2>3. CASE Append(t, Slash) \notin DOMAIN h
    <3>1. t \in DOMAIN h
      BY <2>3 DEF Listed
    <3>2. PICK s \in Short : EntryOK(h, s, t)
      BY <3>1 DEF HeadOK
    <3>3. h[t].normalname = Empty
      <4>1. t # Append(s, Slash) /\ t # Append(s, Folder)
        BY <2>1, ShortForms
      <4>2. QED
        BY <2>3, <3>2, <4>1 DEF EntryOK
    <3>4. QED
      BY <2>1, <3>1, <3>3
  <2>4. QED
    BY <2>2, <2>3
<1> HIDE DEF P
<1>4. P \in SUBSET Names
  BY <1>2
<1>5. \A k \in P : CutSlash(k) \in Listed(h)
  BY <1>2
<1>6. ASSUME NEW k \in P, NEW l \in P, CutSlash(k) = CutSlash(l) PROVE k = l
  <2>1. PICK t \in Short : /\ CutSlash(k) = t
                           /\ \/ k = t /\ Append(t, Slash) \notin DOMAIN h
                              \/ k = Append(t, Slash)
    BY <1>2
  <2>2. PICK s \in Short : /\ CutSlash(l) = s
                           /\ \/ l = s /\ Append(s, Slash) \notin DOMAIN h
                              \/ l = Append(s, Slash)
    BY <1>2
  <2>3. k \in DOMAIN h /\ l \in DOMAIN h /\ s = t
    BY <1>6, <2>1, <2>2 DEF P
  <2>4. QED
    BY <2>1, <2>2, <2>3
<1>7. QED
  BY <1>1, <1>3, <1>4, <1>5, <1>6 DEF P

\* GetNameList has each listed name once.
LEMMA GetNameListParts ==
  ASSUME NEW h, HeadOK(h)
  PROVE  /\ GetNameList(h) \in Seq(Short) /\ Len(GetNameList(h)) \in Nat
         /\ \A i \in 1 .. Len(GetNameList(h)) : GetNameList(h)[i] \in Listed(h)
         /\ \A i, j \in 1 .. Len(GetNameList(h)) : GetNameList(h)[i] = GetNameList(h)[j] => i = j
         /\ \A t \in Listed(h) : \E i \in 1 .. Len(GetNameList(h)) : GetNameList(h)[i] = t
<1> DEFINE P == {k \in DOMAIN h : h[k].normalname = Empty}
           A == Ascending(P)
           L == [i \in DOMAIN A |-> CutSlash(A[i])]
           N == Cardinality(P)
<1>1. GetNameList(h) = L
  BY DEF GetNameList
<1>2. /\ P \in SUBSET Names /\ IsFiniteSet(P)
      /\ \A k \in P : CutSlash(k) \in Listed(h)
      /\ \A k, l \in P : CutSlash(k) = CutSlash(l) => k = l
      /\ \A t \in Listed(h) : \E k \in P : CutSlash(k) = t
  BY ProperEntries
<1> HIDE DEF P
<1>3. /\ N \in Nat /\ DOMAIN A = 1 .. N
      /\ \A i \in 1 .. N : A[i] \in P
      /\ \A i, j \in 1 .. N : A[i] = A[j] => i = j
      /\ \A n \in P : \E i \in 1 .. N : A[i] = n
  BY <1>2, AscendingParts
<1> HIDE DEF A, N
<1>4. DOMAIN L = 1 .. N /\ \A i \in 1 .. N : L[i] = CutSlash(A[i]) /\ L[i] \in Listed(h)
  BY <1>2, <1>3
<1>5. L \in Seq(Short) /\ Len(L) = N
  <2>1. Listed(h) \subseteq Short
    BY DEF Listed
  <2>2. L = [i \in 1 .. N |-> L[i]]
    BY <1>3
  <2> HIDE DEF L
  <2>3. L \in [1 .. N -> Short]
    BY <1>4, <2>1, <2>2
  <2>4. N \in Nat
    BY <1>3
  <2>5. L \in Seq(Short)
    BY <2>3, <2>4, SeqDef, Zenon
  <2>6. QED
    BY <1>4, <2>4, <2>5
<1> HIDE DEF L
<1>6. \A i, j \in 1 .. N : L[i] = L[j] => i = j
  BY <1>2, <1>3, <1>4
<1>7. \A t \in Listed(h) : \E i \in 1 .. N : L[i] = t
  BY <1>2, <1>3, <1>4
<1>8. QED
  BY <1>1, <1>3, <1>4, <1>5, <1>6, <1>7

\* The list of a rename has each listed name and each directory above one, once.
LEMMA NameListParts ==
  ASSUME NEW h, HeadOK(h)
  PROVE  LET list == MakeHierarchizedList(GetNameList(h))
         IN  /\ list \in Seq(Short)
             /\ \A i, j \in DOMAIN list : list[i] = list[j] => i = j
             /\ {list[i] : i \in DOMAIN list} = Listed(h) \cup UNION {Ancestors(n) : n \in Listed(h)}
<1> DEFINE L == GetNameList(h)
           U == UNION {Ancestors(n) : n \in Listed(h)}
           lost == U \ Listed(h)
           A == Ascending(lost)
           list == MakeHierarchizedList(L)
<1>1. /\ L \in Seq(Short) /\ Len(L) \in Nat
      /\ \A i \in 1 .. Len(L) : L[i] \in Listed(h)
      /\ \A i, j \in 1 .. Len(L) : L[i] = L[j] => i = j
      /\ \A t \in Listed(h) : \E i \in 1 .. Len(L) : L[i] = t
  BY GetNameListParts
<1> HIDE DEF L
<1>2. Listed(h) \subseteq Short /\ U \subseteq Short
  BY AncestorParts DEF Listed
<1>3. list = L \o A
  <2>1. DOMAIN L = 1 .. Len(L)
    BY <1>1
  <2>2. {CutSlash(L[i]) : i \in DOMAIN L} = Listed(h)
    <3>1. \A i \in DOMAIN L : CutSlash(L[i]) = L[i] /\ L[i] \in Listed(h)
      BY <1>1, <1>2, <2>1, ShortParts
    <3>2. ASSUME NEW t \in Listed(h) PROVE \E i \in DOMAIN L : CutSlash(L[i]) = t
      <4>1. PICK i \in 1 .. Len(L) : L[i] = t
        BY <1>1
      <4>2. QED
        BY <2>1, <3>1, <4>1
    <3>3. QED
      BY <3>1, <3>2
  <2> DEFINE S == {CutSlash(L[i]) : i \in DOMAIN L}
  <2>3. list = L \o Ascending((UNION {Ancestors(n) : n \in S}) \ S)
    BY DEF MakeHierarchizedList
  <2> HIDE DEF list
  <2>4. S = Listed(h)
    BY <2>2
  <2> HIDE DEF S
  <2>5. list = L \o Ascending((UNION {Ancestors(n) : n \in Listed(h)}) \ Listed(h))
    BY <2>3, <2>4, Zenon
  <2>6. QED
    BY <2>5
<1> HIDE DEF U, list
<1>4. lost \in SUBSET Short /\ lost \in SUBSET Names /\ IsFiniteSet(lost)
  <2>1. lost \in SUBSET Short
    BY <1>2
  <2>2. Short \subseteq Names
    BY DEF Short
  <2> HIDE DEF lost
  <2>3. QED
    BY <2>1, <2>2, NamesFinite, FS_Subset
<1>5. \A t \in lost : t \in U /\ t \notin Listed(h)
  OBVIOUS
<1>6. U \subseteq Listed(h) \cup lost
  OBVIOUS
<1> DEFINE N == Cardinality(lost)
<1> HIDE DEF lost
<1>7. /\ N \in Nat /\ Len(A) = N /\ A \in Seq(lost)
      /\ \A i \in 1 .. N : A[i] \in lost
      /\ \A i, j \in 1 .. N : A[i] = A[j] => i = j
      /\ \A n \in lost : \E i \in 1 .. N : A[i] = n
  BY <1>4, AscendingParts
<1>8. A \in Seq(Short)
  BY <1>4, <1>7, SeqMonotonic
<1> HIDE DEF A, N
<1>9. /\ list \in Seq(Short) /\ Len(list) = Len(L) + N
      /\ \A i \in 1 .. Len(L) + N : list[i] = IF i <= Len(L) THEN L[i] ELSE A[i - Len(L)]
  <2>1. /\ L \o A \in Seq(Short) /\ Len(L \o A) = Len(L) + Len(A)
        /\ \A i \in 1 .. Len(L) + Len(A) : (L \o A)[i] = IF i <= Len(L) THEN L[i] ELSE A[i - Len(L)]
    BY <1>1, <1>8, ConcatProperties
  <2>2. QED
    BY <1>3, <1>7, <2>1, Zenon
<1>10. DOMAIN list = 1 .. Len(L) + N
  BY <1>9
<1>11. \A i \in DOMAIN list :
         \/ i \in 1 .. Len(L) /\ list[i] = L[i] /\ list[i] \in Listed(h)
         \/ i - Len(L) \in 1 .. N /\ list[i] = A[i - Len(L)] /\ list[i] \in lost
  <2>1. ASSUME NEW i \in 1 .. Len(L) + N
        PROVE  \/ i \in 1 .. Len(L) /\ list[i] = L[i] /\ list[i] \in Listed(h)
               \/ i - Len(L) \in 1 .. N /\ list[i] = A[i - Len(L)] /\ list[i] \in lost
    <3>1. CASE i <= Len(L)
      <4>1. i \in 1 .. Len(L) /\ list[i] = L[i]
        BY <1>1, <1>7, <1>9, <3>1
      <4>2. QED
        BY <1>1, <4>1
    <3>2. CASE ~(i <= Len(L))
      <4>1. i - Len(L) \in 1 .. N /\ list[i] = A[i - Len(L)]
        BY <1>1, <1>7, <1>9, <3>2
      <4>2. QED
        BY <1>7, <4>1
    <3>3. QED
      BY <3>1, <3>2
  <2>2. QED
    BY <1>10, <2>1
<1>12. ASSUME NEW i \in DOMAIN list, NEW j \in DOMAIN list, list[i] = list[j] PROVE i = j
  <2>1. i \in Int /\ j \in Int /\ Len(L) \in Int
    BY <1>1, <1>10
  <2>2. CASE i \in 1 .. Len(L) /\ list[i] = L[i] /\ list[i] \in Listed(h)
    BY <1>1, <1>5, <1>11, <1>12, <2>2
  <2>3. CASE i - Len(L) \in 1 .. N /\ list[i] = A[i - Len(L)] /\ list[i] \in lost
    <3>1. j - Len(L) \in 1 .. N /\ list[j] = A[j - Len(L)]
      BY <1>5, <1>11, <1>12, <2>3
    <3>2. i - Len(L) = j - Len(L)
      BY <1>7, <1>12, <2>3, <3>1
    <3>3. QED
      BY <2>1, <3>2
  <2>4. QED
    BY <1>11, <2>2, <2>3
<1>13. {list[i] : i \in DOMAIN list} = Listed(h) \cup U
  <2>1. \A i \in DOMAIN list : list[i] \in Listed(h) \cup U
    BY <1>5, <1>11
  <2>2. ASSUME NEW t \in Listed(h) PROVE \E i \in DOMAIN list : list[i] = t
    <3>1. PICK i \in 1 .. Len(L) : L[i] = t
      BY <1>1
    <3>2. i \in 1 .. Len(L) + N /\ i <= Len(L)
      BY <1>1, <1>7
    <3>3. QED
      BY <1>9, <1>10, <3>1, <3>2
  <2>3. ASSUME NEW t \in lost PROVE \E i \in DOMAIN list : list[i] = t
    <3>1. PICK i \in 1 .. N : A[i] = t
      BY <1>7
    <3>2. i + Len(L) \in 1 .. Len(L) + N /\ ~(i + Len(L) <= Len(L)) /\ (i + Len(L)) - Len(L) = i
      BY <1>1, <1>7
    <3>3. list[i + Len(L)] = A[(i + Len(L)) - Len(L)]
      BY <1>9, <3>2
    <3>4. QED
      BY <1>10, <3>1, <3>2, <3>3
  <2>4. QED
    BY <1>6, <2>1, <2>2, <2>3
<1>14. QED
  BY <1>9, <1>12, <1>13 DEF list, L, U
-----------------------------------------------------------------------------
(***************************************************************************)
(* Lists of nodes.                                                         *)
(***************************************************************************)
\* What add_mvnode makes of a list: it has the node once, and its old members.
LEMMA InsertedParts ==
  ASSUME NEW list \in Seq(Node), NEW node \in Node
  PROVE  /\ Inserted(list, node) \in Seq(Node)
         /\ \A i \in DOMAIN Inserted(list, node) :
              Inserted(list, node)[i] = node \/ \E j \in DOMAIN list : Inserted(list, node)[i] = list[j]
         /\ \A j \in DOMAIN list : \E i \in DOMAIN Inserted(list, node) : Inserted(list, node)[i] = list[j]
         /\ \E i \in DOMAIN Inserted(list, node) : Inserted(list, node)[i].old = node.old
         /\ (\A i, j \in DOMAIN list : list[i].old = list[j].old => i = j) =>
              \A i, j \in DOMAIN Inserted(list, node) :
                Inserted(list, node)[i].old = Inserted(list, node)[j].old => i = j
         /\ (\A i, j \in DOMAIN list : i < j => Before(list[i].old, list[j].old)) =>
              \A i, j \in DOMAIN Inserted(list, node) :
                i < j => Before(Inserted(list, node)[i].old, Inserted(list, node)[j].old)
<1> DEFINE N == Len(list)
           after == {i \in DOMAIN list : Before(node.old, list[i].old)}
           c == Min(after \cup {N + 1})
           r == Inserted(list, node)
<1>1. N \in Nat /\ DOMAIN list = 1 .. N /\ \A i \in 1 .. N : list[i] \in Node
  OBVIOUS
<1>2. CASE \E i \in DOMAIN list : list[i].old = node.old
  <2>1. r = list
    BY <1>2 DEF Inserted
  <2>2. QED
    BY <1>1, <1>2, <2>1
<1>3. CASE ~\E i \in DOMAIN list : list[i].old = node.old
  <2>1. r = InsertAt(list, c, node)
    BY <1>3 DEF Inserted
  <2> HIDE DEF r
  <2>2. /\ c \in 1 .. N + 1 /\ \A i \in 1 .. c - 1 : i \notin after
        /\ c # N + 1 => c \in after
    <3> DEFINE T == after \cup {N + 1}
    <3>1. T \in SUBSET Nat /\ T # {} /\ T \subseteq 1 .. N + 1
      BY <1>1
    <3>2. \E x \in T : \A y \in T : x <= y
      BY <3>1, LeastNat
    <3>3. c \in T /\ \A y \in T : c <= y
      <4> HIDE DEF after
      <4>1. QED
        BY <3>2, Zenon DEF Min
    <3>4. \A y \in after : c <= y
      BY <3>3
    <3>5. c \in after \/ c = N + 1
      BY <3>3
    <3>6. c \in 1 .. N + 1
      BY <3>1, <3>3
    <3> HIDE DEF c, after
    <3>7. QED
      BY <1>1, <3>4, <3>5, <3>6
  <2> HIDE DEF c
  <2>3. /\ r \in Seq(Node) /\ Len(r) = N + 1
        /\ \A i \in 1 .. N + 1 : /\ i < c => r[i] = list[i]
                                 /\ i = c => r[i] = node
                                 /\ i > c => r[i] = list[i - 1]
    <3> DEFINE front == SubSeq(list, 1, c - 1)
               back  == SubSeq(list, c, N)
    <3>1. /\ front \in Seq(Node) /\ Len(front) = c - 1
          /\ \A i \in 1 .. c - 1 : front[i] = list[i]
      BY <1>1, <2>2
    <3>2. /\ back \in Seq(Node) /\ Len(back) = N + 1 - c
          /\ \A i \in 1 .. N + 1 - c : back[i] = list[c + i - 1]
      <4>1. \A i \in c .. N : list[i] \in Node
        BY <1>1, <2>2
      <4>2. /\ back \in Seq(Node) /\ Len(back) = IF c <= N THEN N - c + 1 ELSE 0
            /\ \A i \in 1 .. N - c + 1 : back[i] = list[c + i - 1]
        BY <1>1, <2>2, <4>1, SubSeqProperties
      <4> HIDE DEF back, N
      <4>3. Len(back) = N + 1 - c
        BY <1>1, <2>2, <4>2
      <4>4. 1 .. N + 1 - c = 1 .. N - c + 1
        BY <1>1, <2>2
      <4>5. QED
        BY <4>2, <4>3, <4>4
    <3>3. r = (front \o <<node>>) \o back
      BY <2>1 DEF InsertAt
    <3> HIDE DEF front, back
    <3>4. <<node>> \in Seq(Node) /\ Len(<<node>>) = 1 /\ <<node>>[1] = node
      OBVIOUS
    <3> DEFINE s == front \o <<node>>
    <3>5. /\ s \in Seq(Node) /\ Len(s) = c
          /\ \A i \in 1 .. c : s[i] = IF i <= c - 1 THEN front[i] ELSE <<node>>[i - (c - 1)]
      <4>1. /\ s \in Seq(Node) /\ Len(s) = Len(front) + Len(<<node>>)
            /\ \A i \in 1 .. Len(front) + Len(<<node>>) :
                 s[i] = IF i <= Len(front) THEN front[i] ELSE <<node>>[i - Len(front)]
        BY <3>1, <3>4, ConcatProperties
      <4>2. Len(front) + Len(<<node>>) = c
        BY <2>2, <3>1, <3>4
      <4>3. QED
        BY <3>1, <4>1, <4>2
    <3> HIDE DEF s
    <3>6. /\ r \in Seq(Node) /\ Len(r) = N + 1
          /\ \A i \in 1 .. N + 1 : r[i] = IF i <= c THEN s[i] ELSE back[i - c]
      <4>1. /\ s \o back \in Seq(Node) /\ Len(s \o back) = Len(s) + Len(back)
            /\ \A i \in 1 .. Len(s) + Len(back) :
                 (s \o back)[i] = IF i <= Len(s) THEN s[i] ELSE back[i - Len(s)]
        BY <3>2, <3>5, ConcatProperties
      <4>2. Len(s) + Len(back) = N + 1
        BY <1>1, <2>2, <3>2, <3>5
      <4>3. r = s \o back
        BY <3>3 DEF s
      <4>4. QED
        BY <3>5, <4>1, <4>2, <4>3, Zenon
    <3>7. ASSUME NEW i \in 1 .. N + 1
          PROVE  /\ i < c => r[i] = list[i]
                 /\ i = c => r[i] = node
                 /\ i > c => r[i] = list[i - 1]
      <4>1. ASSUME i < c PROVE r[i] = list[i]
        <5>1. i <= c /\ i <= c - 1 /\ i \in 1 .. c /\ i \in 1 .. c - 1
          BY <1>1, <2>2, <4>1
        <5>2. r[i] = s[i] /\ s[i] = front[i] /\ front[i] = list[i]
          BY <3>1, <3>5, <3>6, <5>1, Zenon
        <5>3. QED
          BY <5>2
      <4>2. ASSUME i = c PROVE r[i] = node
        <5>1. i <= c /\ ~(i <= c - 1) /\ i \in 1 .. c /\ i - (c - 1) = 1
          BY <1>1, <2>2, <4>2
        <5>2. r[i] = s[i]
          BY <3>6, <5>1
        <5>3. s[i] = <<node>>[i - (c - 1)]
          BY <3>5, <5>1
        <5>4. QED
          BY <3>4, <5>1, <5>2, <5>3, Zenon
      <4>3. ASSUME i > c PROVE r[i] = list[i - 1]
        <5>1. ~(i <= c) /\ i - c \in 1 .. N + 1 - c /\ c + (i - c) - 1 = i - 1
          BY <1>1, <2>2, <4>3
        <5>2. r[i] = back[i - c]
          BY <3>6, <5>1
        <5>3. back[i - c] = list[c + (i - c) - 1]
          BY <3>2, <5>1
        <5>4. QED
          BY <5>1, <5>2, <5>3, Zenon
      <4>4. QED
        BY <4>1, <4>2, <4>3
    <3>8. QED
      BY <3>6, <3>7
  <2>4. DOMAIN r = 1 .. N + 1
    BY <1>1, <2>3
  <2>5. \A i \in DOMAIN r : r[i] = node \/ \E j \in DOMAIN list : r[i] = list[j]
    <3>1. ASSUME NEW i \in 1 .. N + 1 PROVE r[i] = node \/ \E j \in 1 .. N : r[i] = list[j]
      <4>1. CASE i < c
        <5>1. i \in 1 .. N /\ r[i] = list[i]
          BY <1>1, <2>2, <2>3, <4>1
        <5>2. QED
          BY <5>1
      <4>2. CASE i = c
        BY <2>3, <4>2
      <4>3. CASE i > c
        <5>1. i - 1 \in 1 .. N /\ r[i] = list[i - 1]
          BY <1>1, <2>2, <2>3, <4>3
        <5>2. QED
          BY <5>1
      <4>4. QED
        BY <2>2, <4>1, <4>2, <4>3
    <3>2. QED
      BY <1>1, <2>4, <3>1
  <2>6. \A j \in DOMAIN list : \E i \in DOMAIN r : r[i] = list[j]
    <3>1. ASSUME NEW j \in 1 .. N PROVE \E i \in 1 .. N + 1 : r[i] = list[j]
      <4>1. CASE j < c
        <5>1. j \in 1 .. N + 1 /\ r[j] = list[j]
          BY <1>1, <2>3, <4>1
        <5>2. QED
          BY <5>1
      <4>2. CASE ~(j < c)
        <5>1. j + 1 \in 1 .. N + 1 /\ j + 1 > c /\ (j + 1) - 1 = j
          BY <1>1, <2>2, <4>2
        <5>2. r[j + 1] = list[(j + 1) - 1]
          BY <2>3, <5>1
        <5>3. QED
          BY <5>1, <5>2
      <4>3. QED
        BY <4>1, <4>2
    <3>2. QED
      BY <1>1, <2>4, <3>1
  <2>7. c \in DOMAIN r /\ r[c] = node
    BY <2>2, <2>3, <2>4
  <2>8. ASSUME \A i, j \in DOMAIN list : list[i].old = list[j].old => i = j,
               NEW i \in DOMAIN r, NEW j \in DOMAIN r, r[i].old = r[j].old
        PROVE  i = j
    <3>1. \A k \in 1 .. N : list[k].old # node.old
      BY <1>1, <1>3
    <3>2. /\ i < c => i \in 1 .. N /\ r[i] = list[i]
          /\ i > c => i - 1 \in 1 .. N /\ r[i] = list[i - 1]
          /\ j < c => j \in 1 .. N /\ r[j] = list[j]
          /\ j > c => j - 1 \in 1 .. N /\ r[j] = list[j - 1]
          /\ i = c => r[i] = node
          /\ j = c => r[j] = node
          /\ i \in Int /\ j \in Int /\ c \in Int
      BY <1>1, <2>2, <2>3, <2>4
    <3>3. CASE i = c \/ j = c
      BY <2>8, <3>1, <3>2, <3>3
    <3>4. CASE i < c /\ j < c
      BY <1>1, <2>8, <3>2, <3>4
    <3>5. CASE i > c /\ j > c
      <4>1. i - 1 = j - 1
        BY <1>1, <2>8, <3>2, <3>5
      <4>2. QED
        BY <3>2, <4>1
    <3>6. CASE i < c /\ j > c
      <4>1. i = j - 1
        BY <1>1, <2>8, <3>2, <3>6
      <4>2. QED
        BY <3>2, <3>6, <4>1
    <3>7. CASE i > c /\ j < c
      <4>1. i - 1 = j
        BY <1>1, <2>8, <3>2, <3>7
      <4>2. QED
        BY <3>2, <3>7, <4>1
    <3>8. QED
      BY <3>2, <3>3, <3>4, <3>5, <3>6, <3>7
  <2>9. ASSUME \A i, j \in DOMAIN list : i < j => Before(list[i].old, list[j].old),
               NEW i \in DOMAIN r, NEW j \in DOMAIN r, i < j
        PROVE  Before(r[i].old, r[j].old)
    <3>1. node.old \in Names /\ \A k \in 1 .. N : list[k].old \in Names /\ list[k].old # node.old
      BY <1>1, <1>3, NamesFinite DEF Node
    <3>2. \A k \in 1 .. N : k < c => Before(list[k].old, node.old)
      <4>1. ASSUME NEW k \in 1 .. N, k < c PROVE Before(list[k].old, node.old)
        <5>1. k \in 1 .. c - 1
          BY <1>1, <2>2, <4>1
        <5>2. ~Before(node.old, list[k].old)
          BY <1>1, <2>2, <5>1
        <5>3. QED
          BY <3>1, <5>2, BeforeTotal
      <4>2. QED
        BY <4>1
    <3>3. \A k \in 1 .. N : k >= c => Before(node.old, list[k].old)
      <4>1. ASSUME NEW k \in 1 .. N, k >= c PROVE Before(node.old, list[k].old)
        <5>1. c \in 1 .. N /\ Before(node.old, list[c].old)
          BY <1>1, <2>2, <4>1
        <5>2. CASE k = c
          BY <5>1, <5>2
        <5>3. CASE k # c
          <6>1. Before(list[c].old, list[k].old)
            BY <1>1, <2>9, <4>1, <5>1, <5>3
          <6>2. QED
            BY <3>1, <5>1, <6>1, BeforeTransitive
        <5>4. QED
          BY <5>2, <5>3
      <4>2. QED
        BY <4>1
    <3>4. i \in Int /\ j \in Int /\ c \in Int /\ i \in 1 .. N + 1 /\ j \in 1 .. N + 1
      BY <1>1, <2>2, <2>4
    <3>5. CASE j < c
      <4>1. i \in 1 .. N /\ j \in 1 .. N /\ r[i] = list[i] /\ r[j] = list[j]
        BY <1>1, <2>2, <2>3, <2>9, <3>4, <3>5
      <4>2. QED
        BY <1>1, <2>9, <4>1
    <3>6. CASE j = c
      <4>1. i \in 1 .. N /\ i < c /\ r[i] = list[i] /\ r[j] = node
        BY <1>1, <2>2, <2>3, <2>9, <3>4, <3>6
      <4>2. QED
        BY <3>2, <4>1
    <3>7. CASE j > c
      <4>1. j - 1 \in 1 .. N /\ r[j] = list[j - 1] /\ j - 1 >= c
        BY <1>1, <2>2, <2>3, <3>4, <3>7
      <4>2. CASE i < c
        <5>1. i \in 1 .. N /\ i < j - 1 /\ r[i] = list[i]
          BY <1>1, <2>2, <2>3, <3>4, <3>7, <4>2
        <5>2. QED
          BY <1>1, <2>9, <4>1, <5>1
      <4>3. CASE i = c
        BY <2>3, <3>3, <3>4, <4>1, <4>3
      <4>4. CASE i > c
        <5>1. i - 1 \in 1 .. N /\ i - 1 < j - 1 /\ r[i] = list[i - 1]
          BY <1>1, <2>2, <2>3, <2>9, <3>4, <4>4
        <5>2. QED
          BY <1>1, <2>9, <4>1, <5>1
      <4>5. QED
        BY <3>4, <4>2, <4>3, <4>4
    <3>8. QED
      BY <3>4, <3>5, <3>6, <3>7
  <2>10. QED
    BY <2>3, <2>5, <2>6, <2>7, <2>8, <2>9 DEF r
<1>4. QED
  BY <1>2, <1>3

\* The rest of a list of nodes, and the list from its end.
LEMMA ListParts ==
  ASSUME NEW list \in Seq(Node)
  PROVE  /\ DOMAIN list = 1 .. Len(list) /\ Len(list) \in Nat
         /\ \A i \in DOMAIN list : list[i] \in Node
         /\ Reverse(list) \in Seq(Node) /\ Len(Reverse(list)) = Len(list)
         /\ \A i \in 1 .. Len(list) : /\ Reverse(list)[i] = list[Len(list) - i + 1]
                                      /\ Len(list) - i + 1 \in 1 .. Len(list)
         /\ list # <<>> => /\ Head(list) = list[1] /\ 1 \in DOMAIN list
                           /\ Tail(list) \in Seq(Node) /\ Len(Tail(list)) = Len(list) - 1
                           /\ \A i \in DOMAIN Tail(list) :
                                i + 1 \in DOMAIN list /\ Tail(list)[i] = list[i + 1] /\ i \in Nat
<1> DEFINE N == Len(list)
           r == Reverse(list)
<1>1. N \in Nat /\ DOMAIN list = 1 .. N /\ \A i \in 1 .. N : list[i] \in Node
  OBVIOUS
<1>2. r = [i \in 1 .. N |-> list[(N - i) + 1]]
  BY DEF Reverse
<1> HIDE DEF N, r
<1>3. \A i \in 1 .. N : N - i + 1 \in 1 .. N
  BY <1>1
<1>4. \A i \in 1 .. N : r[i] = list[N - i + 1]
  BY <1>2
<1>5. r \in Seq(Node) /\ Len(r) = N
  <2>1. r \in [1 .. N -> Node]
    BY <1>1, <1>2, <1>3
  <2>2. r \in Seq(Node)
    BY <1>1, <2>1, SeqDef, Zenon
  <2>3. QED
    BY <1>1, <2>1, <2>2
<1>6. ASSUME list # <<>>
      PROVE  /\ Head(list) = list[1] /\ 1 \in DOMAIN list
             /\ Tail(list) \in Seq(Node) /\ Len(Tail(list)) = N - 1
             /\ \A i \in DOMAIN Tail(list) :
                  i + 1 \in DOMAIN list /\ Tail(list)[i] = list[i + 1] /\ i \in Nat
  <2>1. N # 0
    BY <1>6, EmptySeq DEF N
  <2>2. Tail(list) \in Seq(Node) /\ Len(Tail(list)) = N - 1
        /\ \A i \in 1 .. Len(Tail(list)) : Tail(list)[i] = list[i + 1]
    BY <1>6, HeadTailProperties DEF N
  <2>3. DOMAIN Tail(list) = 1 .. N - 1
    BY <2>2
  <2>4. Head(list) = list[1]
    BY <1>6
  <2>5. QED
    BY <1>1, <2>1, <2>2, <2>3, <2>4
<1>7. QED
  BY <1>1, <1>3, <1>4, <1>5, <1>6 DEF N, r
-----------------------------------------------------------------------------
(***************************************************************************)
(* What the steps of a rename rest on: the store, the listing, and what is *)
(* still to do.                                                            *)
(***************************************************************************)
\* Only files have contents, those that are open are in the bucket, a file by
\* itself has nothing beside it, and until the call has returned 0 the old name
\* has the newest content of each file it has.
DataOK ==
  /\ DOMAIN bucket = Side
  /\ \A s \in Side : /\ DOMAIN bucket[s] \subseteq Keys
                      /\ \A k \in DOMAIN bucket[s] : bucket[s][k] \in Version \cup {Marker}
  /\ ent \in [AFile -> Entity] /\ side \in Side /\ wanted \in [AFile -> Version \cup {Absent}]
  /\ \A s \in Side : \A k \in DOMAIN bucket[s] :
       \/ bucket[s][k] = Marker /\ \E d \in Dir, form \in Form : k = Key(d, form)
       \/ bucket[s][k] # Marker /\ k \in AFile /\ wanted[k] # Absent
  /\ \A f \in AFile : Open(f) => wanted[f] # Absent
  /\ wanted[Empty] # Absent =>
       /\ \A s \in Side : DOMAIN bucket[s] \subseteq {Empty}
       /\ \A s \in Side : Empty \in DOMAIN bucket[s] => bucket[s][Empty] # Marker
       /\ \A f \in File : wanted[f] = Absent
  /\ side = "from" =>
       \A f \in AFile : f \in DOMAIN bucket["from"] /\ wanted[f] # Absent =>
         bucket["from"][f] = wanted[f]
  /\ FilesAreKept

\* What is not data has its type.
OtherTypes ==
  /\ nocopy \in NoCopyApi /\ pc \in Phase /\ result \in {"none", "ok", "error", "enoent"}
  /\ page \subseteq Keys /\ truncated \in BOOLEAN
  /\ mv \in [dirs : Seq(Node), files : Seq(Node)] /\ todo \in Seq(Node) /\ last \in {"ok", "error"}
  /\ faults \in 0 .. MaxFaults /\ budget \in Never .. MaxFaults
  /\ missed \subseteq Name /\ stranded \subseteq AFile

\* What a list of keys is made of while it is collected.
ListingOK ==
  /\ HeadOK(head) /\ marker \in Names /\ names \in Seq(Short)
  /\ \A k \in page : IsPrefix(<<Slash>>, k)
  /\ pc = "append" /\ truncated => DOMAIN head # {} \/ \E k \in page : k # <<Slash>>

\* Nodes of directories, and of files that are there.
DirNodes(list) ==
  \A i \in DOMAIN list :
    /\ list[i].new \in Dir /\ list[i].old \in {list[i].new, Append(list[i].new, Folder)}
    /\ list[i].is_dir
FileNodes(list) ==
  /\ \A i \in DOMAIN list :
       /\ list[i].old = list[i].new /\ list[i].old \in AFile /\ ~list[i].is_dir
       /\ list[i].old \in DOMAIN bucket["from"] /\ wanted[list[i].old] # Absent
  /\ \A i, j \in DOMAIN list : list[i].old = list[j].old => i = j

Moving   == {"copy", "table", "unlink"}
Removing == {"rmdir", "rmslash", "rmplain", "rmfolder", "rmend"}

\* What the rename still has to do.
TodoOK ==
  /\ DirNodes(mv.dirs)
  /\ pc \in {"check", "clone"} => FileNodes(mv.files)
  /\ pc \in {"flush"} \cup Moving => FileNodes(todo)
  /\ pc \in {"clone"} \cup Removing => DirNodes(todo)
  /\ pc \in {"flush", "table", "unlink"} \cup (Removing \ {"rmdir"}) => todo # <<>>
  /\ pc = "flush" => todo[1].old = Empty

\* The directories are made under the new name before they are removed.
Made(node) == Key(node.new, "slash") \in DOMAIN bucket["to"]
ClonedOK ==
  /\ pc = "clone" =>
       \A i \in DOMAIN mv.dirs : Made(mv.dirs[i]) \/ \E j \in DOMAIN todo : todo[j] = mv.dirs[i]
  /\ pc \in Moving => \A i \in DOMAIN mv.dirs : Made(mv.dirs[i])
  /\ pc \in Removing => \A i \in DOMAIN todo : Made(todo[i])

\* What the phase of the call says of the names and the store.
PhaseOK ==
  /\ pc \in {"idle", "lookup"} =>
       /\ head = NoObjects /\ marker = Empty /\ page = {} /\ truncated = FALSE /\ names = <<>>
       /\ mv = NoNodes /\ todo = <<>> /\ last = "ok"
  /\ pc \in {"list", "append", "named"} => mv.files = <<>>
  /\ wanted[Empty] # Absent =>
       /\ pc \in {"idle", "lookup", "flush"} \cup Moving
       /\ mv = NoNodes /\ head = NoObjects
  /\ pc # "idle" => side = "from"
  /\ side = "to" => result = "ok"
  /\ pc = "table" => ~nocopy
  /\ pc \in {"table", "unlink"} =>
       /\ todo[1].old \in DOMAIN bucket["to"] /\ bucket["to"][todo[1].old] \in Version
       /\ ~nocopy => bucket["to"][todo[1].old] = wanted[todo[1].old]

CallOK == OtherTypes /\ ListingOK /\ TodoOK /\ ClonedOK /\ PhaseOK
Inv1 == DataOK /\ CallOK
\* A key of a directory is not a file, but for the name that may be both.
LEMMA DirectoryKey ==
  ASSUME NEW d \in Dir, NEW form \in Form
  PROVE  /\ Key(d, form) \in Keys /\ Key(d, form) \notin File
         /\ Key(d, form) = Empty => d = Empty /\ form = "plain"
         /\ Key(d, form) \in AFile => Key(d, form) = Empty
<1>1. d \in Name /\ Empty \in Name
  BY RenameAssumption DEF Name
<1>2. Key(d, form) \in Keys
  BY <1>1, KeyParts
<1>3. ASSUME Key(d, form) \in File PROVE FALSE
  <2>1. d \in File
    BY <1>1, <1>3, KeyIsName DEF Name
  <2>2. QED
    BY <2>1, RenameAssumption
<1>4. Key(d, form) = Empty => d = Empty /\ form = "plain"
  BY <1>1, KeyIsName
<1>5. QED
  BY <1>2, <1>3, <1>4 DEF AFile

\* Files are keys and names, Empty among them.
LEMMA FileParts ==
  /\ AFile \subseteq Keys /\ AFile \subseteq Name /\ Empty \in AFile /\ Dir \subseteq Name
  /\ File \subseteq AFile /\ Empty \notin File /\ Empty \in Dir
  /\ "from" \in Side /\ "to" \in Side /\ Absent \notin Version /\ Marker \notin Version
  /\ Marker # Absent /\ 0 \in Version
<1>1. AFile \subseteq Name /\ Empty \in AFile
  BY RenameAssumption DEF AFile, Name
<1>2. AFile \subseteq Keys
  BY <1>1, KeyParts DEF Form
<1>3. QED
  BY <1>1, <1>2, RenameAssumption DEF AFile, Name, Side, Absent, Marker, Version

\* What a request that stores an object does to the bucket.
LEMMA StoreParts ==
  ASSUME DOMAIN bucket = Side, NEW s \in Side, NEW k, NEW c, Store(s, k, c)
  PROVE  /\ DOMAIN bucket' = Side /\ \A x \in Side : x # s => bucket'[x] = bucket[x]
         /\ DOMAIN bucket'[s] = DOMAIN bucket[s] \cup {k} /\ bucket'[s][k] = c
         /\ \A x \in DOMAIN bucket[s] : x # k => bucket'[s][x] = bucket[s][x]
<1> DEFINE p == Put(bucket[s], k, c)
<1>1. bucket' = [bucket EXCEPT ![s] = p]
  BY DEF Store
<1>2. /\ DOMAIN p = DOMAIN bucket[s] \cup {k} /\ p[k] = c
      /\ \A x \in DOMAIN bucket[s] : x # k => p[x] = bucket[s][x]
  BY DEF Put
<1> HIDE DEF p
<1>3. DOMAIN bucket' = Side /\ bucket'[s] = p /\ \A x \in Side : x # s => bucket'[x] = bucket[x]
  BY <1>1
<1>4. QED
  BY <1>2, <1>3

\* What a request that deletes an object does.
LEMMA DropParts ==
  ASSUME DOMAIN bucket = Side, NEW s \in Side, NEW k, Drop(s, k)
  PROVE  /\ DOMAIN bucket' = Side /\ \A x \in Side : x # s => bucket'[x] = bucket[x]
         /\ DOMAIN bucket'[s] = DOMAIN bucket[s] \ {k}
         /\ \A x \in DOMAIN bucket[s] : x # k => bucket'[s][x] = bucket[s][x]
<1> DEFINE p == Without(bucket[s], k)
<1>1. bucket' = [bucket EXCEPT ![s] = p]
  BY DEF Drop
<1>2. /\ DOMAIN p = DOMAIN bucket[s] \ {k}
      /\ \A x \in DOMAIN bucket[s] : x # k => p[x] = bucket[s][x]
  BY DEF Without
<1> HIDE DEF p
<1>3. DOMAIN bucket' = Side /\ bucket'[s] = p /\ \A x \in Side : x # s => bucket'[x] = bucket[x]
  BY <1>1
<1>4. QED
  BY <1>2, <1>3

-----------------------------------------------------------------------------
(***************************************************************************)
(* What is kept by the ways in which a step may change the store.          *)
(***************************************************************************)
\* It does not.
LEMMA DataSame ==
  ASSUME DataOK, UNCHANGED <<bucket, ent, wanted>>, side' \in {side, "to"}
  PROVE  DataOK'
<1>1. side' \in Side
  BY FileParts DEF DataOK
<1>2. side' = "from" => side = "from"
  OBVIOUS
<1>3. QED
  BY <1>1, <1>2 DEF DataOK, FilesAreKept, Open

\* An object is stored under the new name: a copy of a file that is there, or the
\* object of a directory.
LEMMA DataStored ==
  ASSUME DataOK, side = "from", NEW k \in Keys, NEW c \in Version \cup {Marker},
         Store("to", k, c), UNCHANGED wanted, side' \in {side, "to"},
         ent' \in [AFile -> Entity], \A g \in AFile : Open(g)' => Open(g),
         \/ c = Marker /\ wanted[Empty] = Absent /\ \E d \in Dir, form \in Form : k = Key(d, form)
         \/ c # Marker /\ k \in AFile /\ wanted[k] # Absent /\ k \in DOMAIN bucket["from"]
  PROVE  /\ DataOK' /\ bucket'["from"] = bucket["from"]
         /\ DOMAIN bucket'["to"] = DOMAIN bucket["to"] \cup {k} /\ bucket'["to"][k] = c
<1>1. /\ DOMAIN bucket' = Side /\ bucket'["from"] = bucket["from"]
      /\ DOMAIN bucket'["to"] = DOMAIN bucket["to"] \cup {k} /\ bucket'["to"][k] = c
      /\ \A x \in DOMAIN bucket["to"] : x # k => bucket'["to"][x] = bucket["to"][x]
  BY StoreParts, FileParts DEF DataOK
<1>2. \A s \in Side : s = "from" \/ s = "to"
  BY DEF Side
<1>3. side' \in Side /\ (side' = "from" => side = "from")
  BY FileParts DEF DataOK
<1>4. \A s \in Side : /\ DOMAIN bucket'[s] \subseteq Keys
                       /\ \A x \in DOMAIN bucket'[s] : bucket'[s][x] \in Version \cup {Marker}
  BY <1>1, <1>2, FileParts DEF DataOK
<1>5. \A s \in Side : \A x \in DOMAIN bucket'[s] :
        \/ bucket'[s][x] = Marker /\ \E d \in Dir, form \in Form : x = Key(d, form)
        \/ bucket'[s][x] # Marker /\ x \in AFile /\ wanted[x] # Absent
  <2>1. ASSUME NEW x \in DOMAIN bucket'["to"]
        PROVE  \/ bucket'["to"][x] = Marker /\ \E d \in Dir, form \in Form : x = Key(d, form)
               \/ bucket'["to"][x] # Marker /\ x \in AFile /\ wanted[x] # Absent
    <3>1. CASE x = k
      BY <1>1, <3>1
    <3>2. CASE x # k
      BY <1>1, <3>2, FileParts DEF DataOK
    <3>3. QED
      BY <3>1, <3>2
  <2>2. ASSUME NEW x \in DOMAIN bucket["from"]
        PROVE  \/ bucket["from"][x] = Marker /\ \E d \in Dir, form \in Form : x = Key(d, form)
               \/ bucket["from"][x] # Marker /\ x \in AFile /\ wanted[x] # Absent
    BY FileParts DEF DataOK
  <2>3. QED
    BY <1>1, <1>2, <2>1, <2>2
<1>6. ASSUME wanted[Empty] # Absent
      PROVE  /\ \A s \in Side : DOMAIN bucket'[s] \subseteq {Empty}
             /\ \A s \in Side : Empty \in DOMAIN bucket'[s] => bucket'[s][Empty] # Marker
  <2>1. c # Marker /\ k \in AFile /\ k \in DOMAIN bucket["from"] /\ k = Empty
    BY <1>6, FileParts DEF DataOK
  <2>2. /\ \A s \in Side : DOMAIN bucket[s] \subseteq {Empty}
        /\ \A s \in Side : Empty \in DOMAIN bucket[s] => bucket[s][Empty] # Marker
    BY <1>6 DEF DataOK
  <2>3. QED
    BY <1>1, <1>2, <2>1, <2>2, FileParts
<1>7. \A f \in AFile : wanted[f] # Absent =>
        \E s \in Side : f \in DOMAIN bucket'[s] /\ bucket'[s][f] = wanted[f]
  <2>1. ASSUME NEW f \in AFile, wanted[f] # Absent
        PROVE  \E s \in Side : f \in DOMAIN bucket'[s] /\ bucket'[s][f] = wanted[f]
    <3>1. CASE f = k
      <4>1. c # Marker
        BY <2>1, <3>1, DirectoryKey
      <4>2. f \in DOMAIN bucket["from"] /\ bucket["from"][f] = wanted[f]
        BY <2>1, <3>1, <4>1 DEF DataOK
      <4>3. QED
        BY <1>1, <4>2, FileParts
    <3>2. CASE f # k
      <4>1. PICK s \in Side : f \in DOMAIN bucket[s] /\ bucket[s][f] = wanted[f]
        BY <2>1 DEF DataOK, FilesAreKept
      <4>2. f \in DOMAIN bucket'[s] /\ bucket'[s][f] = wanted[f]
        BY <1>1, <1>2, <3>2, <4>1
      <4>3. QED
        BY <4>2
    <3>3. QED
      BY <3>1, <3>2
  <2>2. QED
    BY <2>1
<1>8. DataOK'
  <2>1. \A g \in AFile : Open(g)' => wanted'[g] # Absent
    BY DEF DataOK
  <2>2. wanted' \in [AFile -> Version \cup {Absent}] /\ wanted' = wanted
    BY DEF DataOK
  <2>3. wanted[Empty] # Absent => \A g \in File : wanted[g] = Absent
    BY DEF DataOK
  <2>4. side' = "from" =>
          \A g \in AFile : g \in DOMAIN bucket'["from"] /\ wanted[g] # Absent =>
            bucket'["from"][g] = wanted[g]
    BY <1>1, <1>3 DEF DataOK
  <2>5. QED
    BY <1>1, <1>3, <1>4, <1>5, <1>6, <1>7, <2>1, <2>2, <2>3, <2>4 DEF DataOK, FilesAreKept
<1>9. QED
  BY <1>1, <1>8

\* An object of the old name is deleted that is no file.
LEMMA DataDropped ==
  ASSUME DataOK, NEW k, Drop("from", k), UNCHANGED <<ent, wanted>>, side' \in {side, "to"},
         \A f \in AFile : f = k => wanted[f] = Absent
  PROVE  /\ DataOK' /\ bucket'["to"] = bucket["to"]
         /\ DOMAIN bucket'["from"] = DOMAIN bucket["from"] \ {k}
<1>1. /\ DOMAIN bucket' = Side /\ bucket'["to"] = bucket["to"]
      /\ DOMAIN bucket'["from"] = DOMAIN bucket["from"] \ {k}
      /\ \A x \in DOMAIN bucket["from"] : x # k => bucket'["from"][x] = bucket["from"][x]
  BY DropParts, FileParts DEF DataOK
<1>2. \A s \in Side : s = "from" \/ s = "to"
  BY DEF Side
<1>3. side' \in Side /\ (side' = "from" => side = "from")
  BY FileParts DEF DataOK
<1>4. \A s \in Side : /\ DOMAIN bucket'[s] \subseteq DOMAIN bucket[s]
                      /\ \A x \in DOMAIN bucket'[s] : bucket'[s][x] = bucket[s][x]
  BY <1>1, <1>2
<1>5. \A f \in AFile : wanted[f] # Absent =>
        \E s \in Side : f \in DOMAIN bucket'[s] /\ bucket'[s][f] = wanted[f]
  <2>1. ASSUME NEW f \in AFile, wanted[f] # Absent
        PROVE  \E s \in Side : f \in DOMAIN bucket'[s] /\ bucket'[s][f] = wanted[f]
    <3>1. f # k
      BY <2>1
    <3>2. PICK s \in Side : f \in DOMAIN bucket[s] /\ bucket[s][f] = wanted[f]
      BY <2>1 DEF DataOK, FilesAreKept
    <3>3. f \in DOMAIN bucket'[s] /\ bucket'[s][f] = wanted[f]
      BY <1>1, <1>2, <3>1, <3>2
    <3>4. QED
      BY <3>3
  <2>2. QED
    BY <2>1
<1>6. \A s \in Side : /\ DOMAIN bucket'[s] \subseteq Keys
                       /\ \A x \in DOMAIN bucket'[s] : bucket'[s][x] \in Version \cup {Marker}
  BY <1>4 DEF DataOK
<1>7. \A s \in Side : \A x \in DOMAIN bucket'[s] :
        \/ bucket'[s][x] = Marker /\ \E d \in Dir, form \in Form : x = Key(d, form)
        \/ bucket'[s][x] # Marker /\ x \in AFile /\ wanted[x] # Absent
  BY <1>4 DEF DataOK
<1>8. wanted[Empty] # Absent =>
        /\ \A s \in Side : DOMAIN bucket'[s] \subseteq {Empty}
        /\ \A s \in Side : Empty \in DOMAIN bucket'[s] => bucket'[s][Empty] # Marker
        /\ \A f \in File : wanted[f] = Absent
  BY <1>4 DEF DataOK
<1>9. side' = "from" =>
        \A f \in AFile : f \in DOMAIN bucket'["from"] /\ wanted[f] # Absent =>
          bucket'["from"][f] = wanted[f]
  BY <1>3, <1>4, FileParts DEF DataOK
<1>10. DataOK'
  <2>1. \A f \in AFile : Open(f)' => wanted[f] # Absent
    BY DEF DataOK, Open
  <2>2. ent \in [AFile -> Entity] /\ wanted \in [AFile -> Version \cup {Absent}]
    BY DEF DataOK
  <2>3. QED
    BY <1>1, <1>3, <1>5, <1>6, <1>7, <1>8, <1>9, <2>1, <2>2 DEF DataOK, FilesAreKept
<1>11. QED
  BY <1>1, <1>10

\* An open file is uploaded, or need not be.
LEMMA DataUploaded ==
  ASSUME DataOK, NEW f \in AFile, Open(f), Uploaded(f, side), side' = side,
         ent' = ent \/ ent' = [ent EXCEPT ![f].dirty = FALSE]
  PROVE  /\ DataOK'
         /\ \A s \in Side : DOMAIN bucket[s] \subseteq DOMAIN bucket'[s]
         /\ \A g \in AFile : wanted'[g] # Absent <=> wanted[g] # Absent
<1>1. \A s \in Side : s = "from" \/ s = "to"
  BY DEF Side
<1>2. /\ ent' \in [AFile -> Entity] /\ \A g \in AFile : ent'[g].side = ent[g].side
      /\ ent[f].data \in Version
  <2>1. ent \in [AFile -> Entity]
    BY DEF DataOK
  <2>2. ent[f].data \in Version
    BY <2>1 DEF Entity
  <2>3. [ent EXCEPT ![f].dirty = FALSE] \in [AFile -> Entity]
    BY <2>1 DEF Entity
  <2>4. \A g \in AFile : [ent EXCEPT ![f].dirty = FALSE][g].side = ent[g].side
    BY <2>1 DEF Entity
  <2>5. QED
    BY <2>1, <2>2, <2>3, <2>4
<1>3. CASE ~ent[f].dirty
  <2>1. UNCHANGED <<bucket, wanted>>
    BY <1>3 DEF Uploaded
  <2>2. QED
    BY <1>2, <2>1 DEF DataOK, FilesAreKept, Open
<1>4. CASE ent[f].dirty
  <2> DEFINE v == ent[f].data
  <2>1. Store(side, f, v) /\ wanted' = [wanted EXCEPT ![f] = v] /\ side \in Side
    BY <1>4 DEF Uploaded, DataOK
  <2>2. v \in Version /\ v # Absent /\ v # Marker
    BY <1>2, FileParts
  <2> HIDE DEF v
  <2>3. /\ DOMAIN bucket' = Side /\ \A x \in Side : x # side => bucket'[x] = bucket[x]
        /\ DOMAIN bucket'[side] = DOMAIN bucket[side] \cup {f} /\ bucket'[side][f] = v
        /\ \A x \in DOMAIN bucket[side] : x # f => bucket'[side][x] = bucket[side][x]
    BY <2>1, StoreParts DEF DataOK
  <2>4. wanted[f] # Absent
    BY DEF DataOK
  <2>5. /\ wanted' \in [AFile -> Version \cup {Absent}] /\ wanted'[f] = v
        /\ \A g \in AFile : g # f => wanted'[g] = wanted[g]
    BY <2>1, <2>2 DEF DataOK
  <2>6. \A g \in AFile : wanted'[g] # Absent <=> wanted[g] # Absent
    BY <2>2, <2>4, <2>5
  <2>7. \A s \in Side : DOMAIN bucket[s] \subseteq DOMAIN bucket'[s]
    BY <2>3
  <2>8. \A s \in Side : \A x \in DOMAIN bucket'[s] :
          \/ x \in DOMAIN bucket[s] /\ bucket'[s][x] = bucket[s][x] /\ x # f
          \/ x \in DOMAIN bucket[s] /\ bucket'[s][x] = bucket[s][x] /\ s # side
          \/ x = f /\ s = side /\ bucket'[s][x] = v
    BY <2>3
  <2>9. \A s \in Side : /\ DOMAIN bucket'[s] \subseteq Keys
                        /\ \A x \in DOMAIN bucket'[s] : bucket'[s][x] \in Version \cup {Marker}
    BY <2>2, <2>8, FileParts DEF DataOK
  <2>10. ASSUME NEW s \in Side, NEW x \in DOMAIN bucket'[s]
         PROVE  \/ bucket'[s][x] = Marker /\ \E d \in Dir, form \in Form : x = Key(d, form)
                \/ bucket'[s][x] # Marker /\ x \in AFile /\ wanted'[x] # Absent
    <3>1. CASE x \in DOMAIN bucket[s] /\ bucket'[s][x] = bucket[s][x]
      <4>1. \/ bucket[s][x] = Marker /\ \E d \in Dir, form \in Form : x = Key(d, form)
            \/ bucket[s][x] # Marker /\ x \in AFile /\ wanted[x] # Absent
        BY <3>1 DEF DataOK
      <4>2. QED
        BY <2>6, <3>1, <4>1
    <3>2. CASE x = f /\ s = side /\ bucket'[s][x] = v
      BY <2>2, <2>4, <2>6, <3>2
    <3>3. QED
      BY <2>8, <3>1, <3>2
  <2>11. ASSUME wanted'[Empty] # Absent
         PROVE  /\ \A s \in Side : DOMAIN bucket'[s] \subseteq {Empty}
                /\ \A s \in Side : Empty \in DOMAIN bucket'[s] => bucket'[s][Empty] # Marker
                /\ \A g \in File : wanted'[g] = Absent
    <3>1. wanted[Empty] # Absent
      BY <2>6, <2>11, FileParts
    <3>2. /\ \A s \in Side : DOMAIN bucket[s] \subseteq {Empty}
          /\ \A s \in Side : Empty \in DOMAIN bucket[s] => bucket[s][Empty] # Marker
          /\ \A g \in File : wanted[g] = Absent
      BY <3>1 DEF DataOK
    <3>3. f = Empty
      BY <2>4, <3>2 DEF AFile
    <3>4. \A g \in File : wanted'[g] = Absent
      BY <2>6, <3>2, FileParts
    <3>5. QED
      BY <2>2, <2>8, <3>2, <3>3, <3>4
  <2>12. ASSUME side' = "from", NEW g \in AFile, g \in DOMAIN bucket'["from"], wanted'[g] # Absent
         PROVE  bucket'["from"][g] = wanted'[g]
    <3>1. CASE g = f
      BY <2>3, <2>5, <2>12, <3>1
    <3>2. CASE g # f
      <4>1. g \in DOMAIN bucket["from"] /\ bucket'["from"][g] = bucket["from"][g]
        BY <2>8, <2>12, <3>2, FileParts
      <4>2. bucket["from"][g] = wanted[g] /\ wanted'[g] = wanted[g]
        BY <2>5, <2>6, <2>12, <3>2, <4>1 DEF DataOK
      <4>3. QED
        BY <4>1, <4>2
    <3>3. QED
      BY <3>1, <3>2
  <2>13. ASSUME NEW g \in AFile, wanted'[g] # Absent
         PROVE  \E s \in Side : g \in DOMAIN bucket'[s] /\ bucket'[s][g] = wanted'[g]
    <3>1. CASE g = f
      BY <2>1, <2>3, <2>5, <3>1
    <3>2. CASE g # f
      <4>1. PICK s \in Side : g \in DOMAIN bucket[s] /\ bucket[s][g] = wanted[g]
        BY <2>6, <2>13 DEF DataOK, FilesAreKept
      <4>2. g \in DOMAIN bucket'[s] /\ bucket'[s][g] = bucket[s][g]
        BY <2>7, <2>8, <3>2, <4>1
      <4>3. QED
        BY <2>5, <3>2, <4>1, <4>2
    <3>3. QED
      BY <3>1, <3>2
  <2>14. \A g \in AFile : Open(g)' => wanted'[g] # Absent
    <3>1. \A g \in AFile : Open(g)' => Open(g)
      BY <1>2 DEF Open
    <3>2. QED
      BY <2>6, <3>1 DEF DataOK
  <2>15. DataOK'
    BY <1>2, <2>1, <2>3, <2>5, <2>9, <2>10, <2>11, <2>12, <2>13, <2>14 DEF DataOK, FilesAreKept
  <2>16. QED
    BY <2>6, <2>7, <2>15
<1>5. QED
  BY <1>3, <1>4
-----------------------------------------------------------------------------
(***************************************************************************)
(* What is kept by the ways in which a step may change the call.           *)
(***************************************************************************)
\* A request may use up one of the faults.
LEMMA SpendParts ==
  ASSUME faults \in 0 .. MaxFaults, NEW right \in BOOLEAN, Spend(right)
  PROVE  /\ faults' \in 0 .. MaxFaults /\ faults' <= faults
         /\ right => faults' = faults
         /\ ~right => faults' = faults - 1
BY RenameAssumption DEF Spend

\* The parts of a file's content and of the object of a directory.
LEMMA FileContent ==
  ASSUME DataOK, NEW f \in AFile, wanted[f] # Absent, NEW s \in Side, f \in DOMAIN bucket[s]
  PROVE  bucket[s][f] \in Version /\ bucket[s][f] # Marker
<1>1. bucket[s][f] # Marker
  <2>1. ASSUME bucket[s][f] = Marker PROVE FALSE
    <3>1. PICK d \in Dir, form \in Form : f = Key(d, form)
      BY <2>1 DEF DataOK
    <3>2. f = Empty
      BY <3>1, DirectoryKey
    <3>3. QED
      BY <2>1, <3>2 DEF DataOK
  <2>2. QED
    BY <2>1
<1>2. QED
  BY <1>1 DEF DataOK

\* An empty list is that of the start.
LEMMA FreshParts ==
  /\ HeadOK(NoObjects) /\ Empty \in Names /\ <<>> \in Seq(Short) /\ <<>> \in Seq(Node)
  /\ NoNodes \in [dirs : Seq(Node), files : Seq(Node)]
  /\ NoNodes.dirs = <<>> /\ NoNodes.files = <<>> /\ DOMAIN <<>> = {} /\ DOMAIN NoObjects = {}
<1>1. DOMAIN NoObjects = {}
  BY DEF NoObjects
<1>2. HeadOK(NoObjects)
  BY <1>1, FS_EmptySet DEF HeadOK
<1>3. Empty \in Names /\ <<>> \in Seq(Short) /\ <<>> \in Seq(Node) /\ DOMAIN <<>> = {}
  BY DEF Empty, Names
<1>4. QED
  BY <1>1, <1>2, <1>3 DEF NoNodes

\* When the call returns, nothing of it is left.
LEMMA Returned ==
  ASSUME CallOK, NEW r \in {"ok", "error", "enoent"}, Return(r), pc # "idle", nocopy' = nocopy,
         faults' \in 0 .. MaxFaults, budget' \in Never .. MaxFaults,
         missed' \subseteq Name, stranded' \subseteq AFile
  PROVE  CallOK' /\ side' \in {side, "to"}
<1>1. /\ pc' = "idle" /\ result' = r /\ side' = IF r = "ok" THEN "to" ELSE side
      /\ head' = NoObjects /\ marker' = Empty /\ page' = {} /\ truncated' = FALSE /\ names' = <<>>
      /\ mv' = NoNodes /\ todo' = <<>> /\ last' = "ok"
  BY DEF Return
<1>2. OtherTypes'
  <2>1. nocopy' \in NoCopyApi
    BY DEF CallOK, OtherTypes
  <2>2. QED
    BY <1>1, <2>1, FreshParts DEF OtherTypes, Phase
<1>3. ListingOK'
  BY <1>1, FreshParts DEF ListingOK
<1>4. TodoOK'
  BY <1>1, FreshParts DEF TodoOK, DirNodes, Moving, Removing
<1>5. ClonedOK'
  BY <1>1 DEF ClonedOK, Moving, Removing
<1>6. side = "from"
  BY DEF CallOK, PhaseOK
<1>7. PhaseOK'
  BY <1>1, <1>6, FreshParts DEF PhaseOK, Moving
<1>8. QED
  BY <1>1, <1>2, <1>3, <1>4, <1>5, <1>7 DEF CallOK

\* The nodes of files stay when no file of theirs is deleted.
LEMMA FileNodesKept ==
  ASSUME NEW list \in Seq(Node), FileNodes(list),
         DOMAIN bucket["from"] \subseteq DOMAIN bucket'["from"],
         \A g \in AFile : wanted[g] # Absent => wanted'[g] # Absent
  PROVE  /\ \A i \in DOMAIN list :
              /\ list[i].old = list[i].new /\ list[i].old \in AFile /\ ~list[i].is_dir
              /\ list[i].old \in DOMAIN bucket'["from"] /\ wanted'[list[i].old] # Absent
         /\ \A i, j \in DOMAIN list : list[i].old = list[j].old => i = j
BY DEF FileNodes

\* Between renames, and when another client adds a file, the call stays as it is.
LEMMA CallKept ==
  ASSUME CallOK, UNCHANGED <<side, nocopy, pc, result, listing, moving>>,
         faults' \in 0 .. MaxFaults, budget' \in Never .. MaxFaults,
         missed' \subseteq Name, stranded' \subseteq AFile,
         \A s \in Side : DOMAIN bucket[s] \subseteq DOMAIN bucket'[s],
         \A g \in AFile : wanted[g] # Absent => wanted'[g] # Absent,
         wanted'[Empty] # Absent => wanted[Empty] # Absent,
         pc # "idle" => bucket'["to"] = bucket["to"],
         pc # "idle" => \A g \in AFile : wanted[g] # Absent => wanted'[g] = wanted[g]
  PROVE  CallOK'
<1>1. /\ UNCHANGED <<head, marker, page, truncated, names, mv, todo, last>>
      /\ UNCHANGED <<side, nocopy, pc, result>>
  BY DEF listing, moving
<1>2. OtherTypes'
  BY <1>1 DEF CallOK, OtherTypes
<1>3. ListingOK'
  BY <1>1 DEF CallOK, ListingOK
<1>4. mv.files \in Seq(Node) /\ todo \in Seq(Node)
  BY DEF CallOK, OtherTypes
<1>5. TodoOK'
  <2>1. FileNodes(mv.files) => FileNodes(mv.files)'
    BY <1>1, <1>4, FileNodesKept, FileParts DEF FileNodes
  <2>2. FileNodes(todo) => FileNodes(todo)'
    BY <1>1, <1>4, FileNodesKept, FileParts DEF FileNodes
  <2>3. DirNodes(mv.dirs) => DirNodes(mv.dirs)'
    BY <1>1 DEF DirNodes
  <2>4. DirNodes(todo) => DirNodes(todo)'
    BY <1>1 DEF DirNodes
  <2>5. TodoOK
    BY DEF CallOK
  <2>6. pc' = pc /\ todo' = todo
    BY <1>1
  <2>7. QED
    BY <2>1, <2>2, <2>3, <2>4, <2>5, <2>6 DEF TodoOK
<1>6. ClonedOK'
  BY <1>1, FileParts DEF CallOK, ClonedOK, Made
<1>7. PhaseOK'
  <2>1. PhaseOK /\ TodoOK
    BY DEF CallOK
  <2>2. ASSUME pc \in {"table", "unlink"}
        PROVE  /\ todo[1].old \in DOMAIN bucket'["to"] /\ bucket'["to"][todo[1].old] \in Version
               /\ ~nocopy => bucket'["to"][todo[1].old] = wanted'[todo[1].old]
    <3>1. FileNodes(todo) /\ todo # <<>>
      BY <2>1, <2>2 DEF TodoOK, Moving
    <3>2. 1 \in DOMAIN todo
      BY <1>4, <3>1, ListParts
    <3>3. todo[1].old \in AFile /\ wanted[todo[1].old] # Absent
      BY <3>1, <3>2 DEF FileNodes
    <3>4. QED
      BY <2>1, <2>2, <3>3 DEF PhaseOK
  <2>3. QED
    BY <1>1, <2>1, <2>2 DEF PhaseOK
<1>8. QED
  BY <1>2, <1>3, <1>5, <1>6, <1>7 DEF CallOK

-----------------------------------------------------------------------------
(***************************************************************************)
(* What HEAD requests and lists tell of a name, and the nodes made of it.  *)
(***************************************************************************)
\* What is told to be a file is one that is there; what is told to be a directory
\* is a directory, which is not below a file by itself.
LEMMA AnswerParts ==
  ASSUME DataOK, NEW n \in Name, NEW a \in Answers(n)
  PROVE  /\ a.found \in BOOLEAN /\ a.dir \in BOOLEAN /\ a.right \in BOOLEAN
         /\ ~a.dir => n \in AFile /\ n \in DOMAIN bucket["from"] /\ wanted[n] # Absent
         /\ a.found /\ a.dir => n \in Dir /\ wanted[Empty] = Absent
<1>1. PICK v \in SUBSET Forms(n), listed \in BOOLEAN : a = Attributes(n, v, listed)
  BY DEF Answers
<1>2. /\ a.found = (v # {} \/ (listed /\ Beneath(n) # {}))
      /\ a.dir = ("plain" \in v => bucket["from"][n] = Marker)
      /\ a.right = (v = Forms(n) /\ listed)
  BY <1>1 DEF Attributes
<1>3. a.found \in BOOLEAN /\ a.dir \in BOOLEAN /\ a.right \in BOOLEAN
  BY <1>2
<1>4. \A form \in v : form \in Form /\ Key(n, form) \in DOMAIN bucket["from"]
  BY DEF Forms, Has
<1>5. ASSUME ~a.dir
      PROVE  n \in AFile /\ n \in DOMAIN bucket["from"] /\ wanted[n] # Absent
  <2>1. "plain" \in v /\ bucket["from"][n] # Marker
    BY <1>2, <1>5
  <2>2. n \in DOMAIN bucket["from"]
    BY <1>4, <2>1, KeyParts
  <2>3. \A k \in DOMAIN bucket["from"] :
          bucket["from"][k] # Marker => k \in AFile /\ wanted[k] # Absent
    BY FileParts DEF DataOK
  <2>4. QED
    BY <2>1, <2>2, <2>3
<1>6. ASSUME a.found, a.dir
      PROVE  n \in Dir /\ wanted[Empty] = Absent
  <2>1. CASE v # {}
    <3>1. PICK form \in Form : form \in v /\ Key(n, form) \in DOMAIN bucket["from"]
      BY <1>4, <2>1
    <3>2. bucket["from"][Key(n, form)] = Marker
      <4>1. ASSUME bucket["from"][Key(n, form)] # Marker PROVE FALSE
        <5>1. Key(n, form) \in AFile
          BY <3>1, <4>1, FileParts DEF DataOK
        <5>2. form = "plain" /\ Key(n, form) = n
          BY <5>1, KeyIsName, FileParts
        <5>3. QED
          BY <1>2, <1>6, <3>1, <4>1, <5>2
      <4>2. QED
        BY <4>1
    <3>3. PICK d \in Dir, f \in Form : Key(n, form) = Key(d, f)
      BY <3>1, <3>2, FileParts DEF DataOK
    <3>4. n = d
      BY <3>3, KeyInjective, FileParts
    <3>5. ASSUME wanted[Empty] # Absent PROVE FALSE
      <4>1. Key(n, form) = Empty
        BY <3>1, <3>5, FileParts DEF DataOK
      <4>2. bucket["from"][Empty] # Marker
        BY <3>1, <3>5, <4>1, FileParts DEF DataOK
      <4>3. QED
        BY <3>2, <4>1, <4>2
    <3>6. QED
      BY <3>4, <3>5
  <2>2. CASE v = {}
    <3>1. PICK k \in DOMAIN bucket["from"] : Below(Append(n, Slash), k)
      BY <1>2, <1>6, <2>2 DEF Beneath
    <3>2. PICK m \in Name, f \in Form : k = Key(m, f)
      BY <3>1, FileParts DEF DataOK, Keys
    <3>3. n \in Names
      BY NameParts
    <3>4. n \in Dir /\ m # Empty
      BY <3>1, <3>2, <3>3, BelowParts
    <3>5. ASSUME wanted[Empty] # Absent PROVE FALSE
      <4>1. k = Empty
        BY <3>1, <3>5, FileParts DEF DataOK
      <4>2. m = Empty
        BY <3>2, <4>1, KeyIsName, FileParts
      <4>3. QED
        BY <3>4, <4>2
    <3>6. QED
      BY <3>4, <3>5
  <2>3. QED
    BY <2>1, <2>2
<1>7. QED
  BY <1>3, <1>5, <1>6

\* The types of a directory.
LEMMA TypeParts ==
  ASSUME NEW n, NEW a, NEW t \in Types(n, a)
  PROVE  t.right \in BOOLEAN /\ t.type \in {"folder", "noobj", "object", "unknown"}
<1> DEFINE old     == "plain" \in Forms(n) /\ "slash" \notin Forms(n)
           special == "folder" \in Forms(n) /\ ~old
<1>1. \/ t = [type |-> IF special THEN "folder" ELSE IF a.forced THEN "noobj" ELSE "object",
               right |-> TRUE]
      \/ t = [type |-> IF a.forced THEN "noobj" ELSE "object", right |-> ~special]
      \/ t = [type |-> "unknown", right |-> FALSE]
  BY DEF Types
<1>2. t.type \in {"folder", "noobj", "object", "unknown"}
  BY <1>1
<1> DEFINE other == ~special
<1>3. other \in BOOLEAN
  OBVIOUS
<1>4. t.right = TRUE \/ t.right = other \/ t.right = FALSE
  <2>1. CASE t = [type |-> IF a.forced THEN "noobj" ELSE "object", right |-> other]
    <3> HIDE DEF other
    <3>1. QED
      BY <2>1
  <2>2. CASE t # [type |-> IF a.forced THEN "noobj" ELSE "object", right |-> other]
    BY <1>1, <2>2
  <2>3. QED
    BY <2>1, <2>2
<1> HIDE DEF other
<1>5. QED
  BY <1>2, <1>3, <1>4, Zenon

\* The nodes of files and directories.
LEMMA NodeParts ==
  /\ \A f \in AFile : /\ FileNode(f) \in Node /\ FileNode(f).old = f /\ FileNode(f).new = f
                      /\ ~FileNode(f).is_dir
  /\ \A d \in Dir, type \in {"folder", "noobj", "object", "unknown"} :
       /\ DirNode(d, type) \in Node /\ DirNode(d, type).new = d /\ DirNode(d, type).is_dir
       /\ DirNode(d, type).old \in {d, Append(d, Folder)}
       /\ DirNode(d, type).normdir = (type = "noobj")
       /\ type # "folder" => DirNode(d, type).old = d
       /\ type = "folder" => DirNode(d, type).old = Append(d, Folder)
<1>1. \A f \in AFile : f \in Keys /\ f \in Name
  BY FileParts
<1>2. \A d \in Dir : d \in Name /\ d \in Keys /\ Append(d, Folder) \in Keys
  BY FileParts, KeyParts DEF Form
<1>3. \A f \in AFile : /\ FileNode(f) \in Node /\ FileNode(f).old = f /\ FileNode(f).new = f
                       /\ ~FileNode(f).is_dir
  BY <1>1 DEF FileNode, Node
<1>4. ASSUME NEW d \in Dir, NEW type \in {"folder", "noobj", "object", "unknown"}
      PROVE  /\ DirNode(d, type) \in Node /\ DirNode(d, type).new = d /\ DirNode(d, type).is_dir
             /\ DirNode(d, type).old \in {d, Append(d, Folder)}
             /\ DirNode(d, type).normdir = (type = "noobj")
             /\ type # "folder" => DirNode(d, type).old = d
             /\ type = "folder" => DirNode(d, type).old = Append(d, Folder)
  BY <1>2 DEF DirNode, Node
<1>5. QED
  BY <1>3, <1>4

\* Another node of a directory, or of a file that is there.
LEMMA AddParts ==
  ASSUME NEW m \in [dirs : Seq(Node), files : Seq(Node)], NEW node \in Node
  PROVE  /\ add_mvnode(m, node) \in [dirs : Seq(Node), files : Seq(Node)]
         /\ node.is_dir => /\ add_mvnode(m, node).dirs = Inserted(m.dirs, node)
                           /\ add_mvnode(m, node).files = m.files
         /\ ~node.is_dir => /\ add_mvnode(m, node).files = Inserted(m.files, node)
                            /\ add_mvnode(m, node).dirs = m.dirs
<1>1. m.dirs \in Seq(Node) /\ m.files \in Seq(Node)
  OBVIOUS
<1> DEFINE d == Inserted(m.dirs, node)
           f == Inserted(m.files, node)
<1>2. d \in Seq(Node) /\ f \in Seq(Node)
  BY <1>1, InsertedParts
<1>3. add_mvnode(m, node) = IF node.is_dir THEN [m EXCEPT !.dirs = d] ELSE [m EXCEPT !.files = f]
  BY DEF add_mvnode
<1> HIDE DEF d, f
<1>4. QED
  BY <1>1, <1>2, <1>3 DEF d, f

-----------------------------------------------------------------------------
(***************************************************************************)
(* What is kept between renames.                                           *)
(***************************************************************************)
\* An entity changes.
LEMMA DataEntities ==
  ASSUME DataOK, UNCHANGED <<bucket, wanted, side>>, ent' \in [AFile -> Entity],
         \A g \in AFile : Open(g)' => wanted[g] # Absent
  PROVE  DataOK'
BY DEF DataOK, FilesAreKept

\* The entity of one file.
LEMMA EntityParts ==
  ASSUME ent \in [AFile -> Entity], NEW f \in AFile, NEW e \in Entity
  PROVE  /\ [ent EXCEPT ![f] = e] \in [AFile -> Entity] /\ [ent EXCEPT ![f] = e][f] = e
         /\ \A g \in AFile : g # f => [ent EXCEPT ![f] = e][g] = ent[g]
OBVIOUS

\* Changes of a part of an entity.
LEMMA EntityFields ==
  ASSUME ent \in [AFile -> Entity], NEW f \in AFile
  PROVE  /\ ent[f].side \in Side \cup {"none"} /\ ent[f].dirty \in BOOLEAN
         /\ ent[f].data \in Version
         /\ [ent EXCEPT ![f].dirty = FALSE] =
              [ent EXCEPT ![f] = [side |-> ent[f].side, dirty |-> FALSE, data |-> ent[f].data]]
         /\ [ent EXCEPT ![f].side = "to"] =
              [ent EXCEPT ![f] = [side |-> "to", dirty |-> ent[f].dirty, data |-> ent[f].data]]
<1>1. /\ ent[f].side \in Side \cup {"none"} /\ ent[f].dirty \in BOOLEAN /\ ent[f].data \in Version
      /\ ent[f] = [side |-> ent[f].side, dirty |-> ent[f].dirty, data |-> ent[f].data]
  BY DEF Entity
<1> DEFINE s == ent[f].side
           d == ent[f].dirty
           v == ent[f].data
           no == FALSE
<1>2. ent[f] = [side |-> s, dirty |-> d, data |-> v]
  BY <1>1
<1> HIDE DEF s, d, v, no
<1>3. [ent[f] EXCEPT !.dirty = no] = [side |-> s, dirty |-> no, data |-> v]
  BY <1>2
<1>4. [ent EXCEPT ![f].dirty = no] = [ent EXCEPT ![f] = [side |-> s, dirty |-> no, data |-> v]]
  BY <1>3
<1>5. [ent[f] EXCEPT !.side = "to"] = [side |-> "to", dirty |-> d, data |-> v]
  BY <1>2
<1>6. [ent EXCEPT ![f].side = "to"] = [ent EXCEPT ![f] = [side |-> "to", dirty |-> d, data |-> v]]
  BY <1>5
<1>7. QED
  BY <1>1, <1>4, <1>6 DEF s, d, v, no

\* s3fs_open.
LEMMA OpenFileKeeps ==
  ASSUME Inv1, NEW f \in AFile, OpenFile(f)
  PROVE  Inv1'
<1>1. DataOK /\ CallOK
  BY DEF Inv1
<1> DEFINE e == [side |-> side, dirty |-> FALSE, data |-> bucket[side][f]]
<1>2. /\ f \in DOMAIN bucket[side] /\ bucket[side][f] # Marker /\ ent' = [ent EXCEPT ![f] = e]
      /\ UNCHANGED <<bucket, side, nocopy, pc, result, listing, moving, faults>>
      /\ UNCHANGED <<wanted, missed, stranded, budget>>
  BY DEF OpenFile, history
<1>3. side \in Side /\ ent \in [AFile -> Entity]
  BY <1>1 DEF DataOK
<1>4. wanted[f] # Absent /\ bucket[side][f] \in Version
  BY <1>1, <1>2, <1>3 DEF DataOK
<1>5. e \in Entity
  BY <1>3, <1>4 DEF Entity
<1> HIDE DEF e
<1>6. ent' \in [AFile -> Entity] /\ \A g \in AFile : g # f => ent'[g] = ent[g]
  BY <1>2, <1>3, <1>5, EntityParts
<1>7. \A g \in AFile : Open(g)' => wanted[g] # Absent
  BY <1>1, <1>4, <1>6 DEF DataOK, Open
<1>8. DataOK'
  BY <1>1, <1>2, <1>6, <1>7, DataEntities
<1>9. CallOK'
  <2>1. /\ faults \in 0 .. MaxFaults /\ budget \in Never .. MaxFaults
        /\ missed \subseteq Name /\ stranded \subseteq AFile
    BY <1>1 DEF CallOK, OtherTypes
  <2>2. QED
    BY <1>1, <1>2, <2>1, CallKept
<1>10. QED
  BY <1>8, <1>9 DEF Inv1

\* s3fs_write.
LEMMA WriteKeeps ==
  ASSUME Inv1, NEW f \in AFile, Write(f)
  PROVE  Inv1'
<1>1. DataOK /\ CallOK
  BY DEF Inv1
<1>2. ent \in [AFile -> Entity]
  BY <1>1 DEF DataOK
<1> DEFINE v == ent[f].data + 1
<1>3. /\ Open(f) /\ ent[f].data < MaxVersion
      /\ ent' = [ent EXCEPT ![f].dirty = TRUE, ![f].data = v]
      /\ UNCHANGED <<bucket, side, nocopy, pc, result, listing, moving, faults>>
      /\ UNCHANGED <<wanted, missed, stranded, budget>>
  BY DEF Write, history
<1>4. v \in Version
  <2>1. ent[f].data \in Version
    BY <1>2, EntityFields
  <2>2. QED
    BY <1>3, <2>1, RenameAssumption DEF Version
<1> HIDE DEF v
<1>5. ent' \in [AFile -> Entity]
  BY <1>2, <1>3, <1>4 DEF Entity
<1>6. \A g \in AFile : ent'[g].side = ent[g].side
  BY <1>2, <1>3 DEF Entity
<1>7. \A g \in AFile : Open(g)' => wanted[g] # Absent
  BY <1>1, <1>6 DEF DataOK, Open
<1>8. DataOK'
  BY <1>1, <1>3, <1>5, <1>7, DataEntities
<1>9. CallOK'
  <2>1. /\ faults \in 0 .. MaxFaults /\ budget \in Never .. MaxFaults
        /\ missed \subseteq Name /\ stranded \subseteq AFile
    BY <1>1 DEF CallOK, OtherTypes
  <2>2. QED
    BY <1>1, <1>3, <2>1, CallKept
<1>10. QED
  BY <1>8, <1>9 DEF Inv1

\* s3fs_release.
LEMMA ReleaseKeeps ==
  ASSUME Inv1, NEW f \in AFile, Release(f)
  PROVE  Inv1'
<1>1. DataOK /\ CallOK
  BY DEF Inv1
<1>2. /\ ent' = [ent EXCEPT ![f] = Closed]
      /\ UNCHANGED <<bucket, side, nocopy, pc, result, listing, moving, faults>>
      /\ UNCHANGED <<wanted, missed, stranded, budget>>
  BY DEF Release, history
<1>3. Closed \in Entity /\ Closed.side = "none"
  BY FileParts DEF Closed, Entity
<1>4. ent' \in [AFile -> Entity] /\ ent'[f] = Closed /\ \A g \in AFile : g # f => ent'[g] = ent[g]
  BY <1>1, <1>2, <1>3, EntityParts DEF DataOK
<1>5. \A g \in AFile : Open(g)' => wanted[g] # Absent
  BY <1>1, <1>3, <1>4 DEF DataOK, Open
<1>6. DataOK'
  BY <1>1, <1>2, <1>4, <1>5, DataEntities
<1>7. CallOK'
  <2>1. /\ faults \in 0 .. MaxFaults /\ budget \in Never .. MaxFaults
        /\ missed \subseteq Name /\ stranded \subseteq AFile
    BY <1>1 DEF CallOK, OtherTypes
  <2>2. QED
    BY <1>1, <1>2, <2>1, CallKept
<1>8. QED
  BY <1>6, <1>7 DEF Inv1

\* s3fs_flush.
LEMMA FlushKeeps ==
  ASSUME Inv1, NEW f \in AFile, Flush(f)
  PROVE  Inv1'
<1>1. DataOK /\ CallOK
  BY DEF Inv1
<1>2. /\ pc = "idle" /\ Open(f)
      /\ UNCHANGED <<side, nocopy, pc, result, listing, moving, missed, stranded, budget>>
  BY DEF Flush, Idle
<1>3. \/ Uploaded(f, side) /\ ent' = [ent EXCEPT ![f].dirty = FALSE] /\ Spend(TRUE)
      \/ Spend(FALSE) /\ ent' = ent /\ Uploaded(f, side)
      \/ Spend(FALSE) /\ ent' = ent /\ UNCHANGED <<bucket, wanted>>
  BY DEF Flush, Clean
<1>4. faults \in 0 .. MaxFaults
  BY <1>1 DEF CallOK, OtherTypes
<1>5. faults' \in 0 .. MaxFaults
  BY <1>3, <1>4, SpendParts
<1>6. /\ DataOK'
      /\ \A s \in Side : DOMAIN bucket[s] \subseteq DOMAIN bucket'[s]
      /\ \A g \in AFile : wanted'[g] # Absent <=> wanted[g] # Absent
  <2>1. CASE Uploaded(f, side) /\ (ent' = ent \/ ent' = [ent EXCEPT ![f].dirty = FALSE])
    BY <1>1, <1>2, <2>1, DataUploaded
  <2>2. CASE UNCHANGED <<ent, bucket, wanted>>
    BY <1>1, <1>2, <2>2, DataSame
  <2>3. QED
    BY <1>3, <2>1, <2>2
<1>7. CallOK'
  <2>1. /\ budget' \in Never .. MaxFaults /\ missed' \subseteq Name /\ stranded' \subseteq AFile
    BY <1>1, <1>2 DEF CallOK, OtherTypes
  <2>2. QED
    BY <1>1, <1>2, <1>5, <1>6, <2>1, CallKept, FileParts
<1>8. QED
  BY <1>6, <1>7 DEF Inv1

\* Another client adds a file.
LEMMA CreateKeeps ==
  ASSUME Inv1, NEW f \in File, Create(f)
  PROVE  Inv1'
<1>1. DataOK /\ CallOK
  BY DEF Inv1
<1>2. /\ wanted[f] = Absent /\ side = "from" /\ wanted[Empty] = Absent
      /\ Store("from", f, 0) /\ wanted' = [wanted EXCEPT ![f] = 0]
      /\ missed' \in {missed, missed \cup {f}} /\ budget' = Never
      /\ UNCHANGED <<ent, side, nocopy, pc, result, listing, moving, faults, stranded>>
  BY DEF Create
<1>3. f \in AFile /\ f # Empty /\ f \in Keys /\ f \in Name /\ 0 # Absent /\ 0 # Marker
  BY FileParts
<1>4. /\ wanted' \in [AFile -> Version \cup {Absent}] /\ wanted'[f] = 0
      /\ \A g \in AFile : g # f => wanted'[g] = wanted[g]
  BY <1>1, <1>2, <1>3, FileParts DEF DataOK
<1>5. /\ DOMAIN bucket' = Side /\ bucket'["to"] = bucket["to"]
      /\ DOMAIN bucket'["from"] = DOMAIN bucket["from"] \cup {f} /\ bucket'["from"][f] = 0
      /\ \A x \in DOMAIN bucket["from"] : x # f => bucket'["from"][x] = bucket["from"][x]
  BY <1>1, <1>2, StoreParts, FileParts DEF DataOK
<1>6. \A s \in Side : s = "from" \/ s = "to"
  BY DEF Side
<1>7. \A g \in AFile : wanted[g] # Absent => wanted'[g] = wanted[g] /\ g # f
  BY <1>2, <1>4
<1>8. \A s \in Side : \A x \in DOMAIN bucket'[s] :
        \/ x \in DOMAIN bucket[s] /\ bucket'[s][x] = bucket[s][x]
        \/ x = f /\ s = "from" /\ bucket'[s][x] = 0
  BY <1>5, <1>6
<1>9. DataOK'
  <2>1. \A s \in Side : /\ DOMAIN bucket'[s] \subseteq Keys
                         /\ \A k \in DOMAIN bucket'[s] : bucket'[s][k] \in Version \cup {Marker}
    BY <1>1, <1>3, <1>8, FileParts DEF DataOK
  <2>2. ASSUME NEW s \in Side, NEW k \in DOMAIN bucket'[s]
        PROVE  \/ bucket'[s][k] = Marker /\ \E d \in Dir, form \in Form : k = Key(d, form)
               \/ bucket'[s][k] # Marker /\ k \in AFile /\ wanted'[k] # Absent
    <3>1. CASE k \in DOMAIN bucket[s] /\ bucket'[s][k] = bucket[s][k]
      BY <1>1, <1>7, <3>1 DEF DataOK
    <3>2. CASE k = f /\ s = "from" /\ bucket'[s][k] = 0
      BY <1>3, <1>4, <3>2
    <3>3. QED
      BY <1>8, <3>1, <3>2
  <2>3. \A g \in AFile : Open(g)' => wanted'[g] # Absent
    BY <1>1, <1>2, <1>7 DEF DataOK, Open
  <2>4. wanted'[Empty] = Absent
    BY <1>2, <1>3, <1>4, FileParts
  <2>5. ASSUME NEW g \in AFile, g \in DOMAIN bucket'["from"], wanted'[g] # Absent
        PROVE  bucket'["from"][g] = wanted'[g]
    <3>1. CASE g = f
      BY <1>4, <1>5, <3>1
    <3>2. CASE g # f
      BY <1>1, <1>2, <1>4, <1>5, <2>5, <3>2 DEF DataOK
    <3>3. QED
      BY <3>1, <3>2
  <2>6. ASSUME NEW g \in AFile, wanted'[g] # Absent
        PROVE  \E s \in Side : g \in DOMAIN bucket'[s] /\ bucket'[s][g] = wanted'[g]
    <3>1. CASE g = f
      BY <1>4, <1>5, <3>1, FileParts
    <3>2. CASE g # f
      <4>1. PICK s \in Side : g \in DOMAIN bucket[s] /\ bucket[s][g] = wanted[g]
        BY <1>1, <1>4, <2>6, <3>2 DEF DataOK, FilesAreKept
      <4>2. g \in DOMAIN bucket'[s] /\ bucket'[s][g] = bucket[s][g]
        BY <1>5, <1>6, <3>2, <4>1
      <4>3. QED
        BY <1>4, <3>2, <4>1, <4>2
    <3>3. QED
      BY <3>1, <3>2
  <2>7. ent' \in [AFile -> Entity] /\ side' \in Side
    BY <1>1, <1>2 DEF DataOK
  <2>8. QED
    BY <1>4, <1>5, <2>1, <2>2, <2>3, <2>4, <2>5, <2>6, <2>7 DEF DataOK, FilesAreKept
<1>10. CallOK'
  <2>1. /\ faults' \in 0 .. MaxFaults /\ budget' \in Never .. MaxFaults
        /\ missed' \subseteq Name /\ stranded' \subseteq AFile
    <3>1. faults \in 0 .. MaxFaults /\ missed \subseteq Name /\ stranded \subseteq AFile
      BY <1>1 DEF CallOK, OtherTypes
    <3>2. Never \in Never .. MaxFaults
      BY RenameAssumption DEF Never
    <3>3. QED
      BY <1>2, <1>3, <3>1, <3>2
  <2>2. \A s \in Side : DOMAIN bucket[s] \subseteq DOMAIN bucket'[s]
    BY <1>5, <1>6
  <2>3. wanted'[Empty] = Absent
    BY <1>2, <1>3, <1>4, FileParts
  <2>4. QED
    BY <1>1, <1>2, <1>5, <1>7, <2>1, <2>2, <2>3, CallKept
<1>11. QED
  BY <1>9, <1>10 DEF Inv1

-----------------------------------------------------------------------------
(***************************************************************************)
(* The steps of a call.                                                    *)
(***************************************************************************)
\* The process dies.
LEMMA CrashKeeps ==
  ASSUME Inv1, Crash
  PROVE  Inv1'
<1>1. DataOK /\ CallOK
  BY DEF Inv1
<1>2. /\ pc # "idle" /\ Spend(FALSE) /\ Return("error")
      /\ ent' = [f \in AFile |-> Closed] /\ budget' = Never
      /\ UNCHANGED <<bucket, nocopy, wanted, missed, stranded>>
  BY DEF Crash
<1>3. faults' \in 0 .. MaxFaults
  BY <1>1, <1>2, SpendParts DEF CallOK, OtherTypes
<1>4. budget' \in Never .. MaxFaults /\ missed' \subseteq Name /\ stranded' \subseteq AFile
  <2>1. Never \in Never .. MaxFaults
    BY RenameAssumption DEF Never
  <2>2. QED
    BY <1>1, <1>2, <2>1 DEF CallOK, OtherTypes
<1>5. CallOK'
  BY <1>1, <1>2, <1>3, <1>4, Returned
<1>6. Closed \in Entity /\ Closed.side = "none"
  BY FileParts DEF Closed, Entity
<1>7. side' = side
  BY <1>2 DEF Return
<1>8. DataOK'
  BY <1>1, <1>2, <1>6, <1>7, DataEntities DEF Open
<1>9. QED
  BY <1>5, <1>8 DEF Inv1

\* s3fs_rename begins.
LEMMA CallKeeps ==
  ASSUME Inv1, Call
  PROVE  Inv1'
<1>1. DataOK /\ CallOK
  BY DEF Inv1
<1>2. /\ pc = "idle" /\ result \notin {"ok", "enoent"} /\ pc' = "lookup" /\ result' = "none"
      /\ budget' = faults /\ UNCHANGED <<bucket, ent, side, nocopy, faults, wanted, missed, stranded>>
      /\ UNCHANGED <<head, marker, page, truncated, names, mv, todo, last>>
  BY DEF Call, Idle, listing, moving
<1>3. DataOK'
  BY <1>1, <1>2, DataSame
<1>4. side = "from"
  BY <1>1, <1>2 DEF CallOK, PhaseOK, DataOK, Side
<1>5. OtherTypes'
  <2>1. budget' \in Never .. MaxFaults
    <3>1. faults \in 0 .. MaxFaults /\ budget' = faults
      BY <1>1, <1>2 DEF CallOK, OtherTypes
    <3>2. QED
      BY <3>1, RenameAssumption DEF Never
  <2>2. QED
    BY <1>1, <1>2, <2>1 DEF CallOK, OtherTypes, Phase
<1>6. ListingOK'
  BY <1>1, <1>2 DEF CallOK, ListingOK
<1>7. TodoOK'
  BY <1>1, <1>2 DEF CallOK, TodoOK, DirNodes, Moving, Removing
<1>8. ClonedOK'
  BY <1>2 DEF ClonedOK, Moving, Removing
<1>9. PhaseOK'
  BY <1>1, <1>2, <1>4 DEF CallOK, PhaseOK, Moving
<1>10. QED
  BY <1>3, <1>5, <1>6, <1>7, <1>8, <1>9 DEF Inv1, CallOK

\* The node of a directory, when its type is known.
LEMMA DirNodeAdded ==
  ASSUME NEW m \in [dirs : Seq(Node), files : Seq(Node)], DirNodes(m.dirs), NEW d \in Dir,
         NEW type \in {"folder", "noobj", "object", "unknown"},
         NEW new, new = IF type = "unknown" THEN m ELSE add_mvnode(m, DirNode(d, type))
  PROVE  /\ new \in [dirs : Seq(Node), files : Seq(Node)] /\ new.files = m.files
         /\ DirNodes(new.dirs)
<1>1. CASE type = "unknown"
  BY <1>1
<1>2. CASE type # "unknown"
  <2> DEFINE node == DirNode(d, type)
  <2>1. /\ node \in Node /\ node.new = d /\ node.is_dir
        /\ node.old \in {d, Append(d, Folder)}
    BY NodeParts
  <2> HIDE DEF node
  <2>2. new = add_mvnode(m, node)
    BY <1>2 DEF node
  <2>3. /\ new \in [dirs : Seq(Node), files : Seq(Node)] /\ new.files = m.files
        /\ new.dirs = Inserted(m.dirs, node)
    BY <2>1, <2>2, AddParts
  <2>4. m.dirs \in Seq(Node)
    OBVIOUS
  <2>5. \A i \in DOMAIN new.dirs :
          new.dirs[i] = node \/ \E j \in DOMAIN m.dirs : new.dirs[i] = m.dirs[j]
    <3> DEFINE old == m.dirs
               now == Inserted(old, node)
    <3>1. old \in Seq(Node)
      BY <2>4
    <3> HIDE DEF old
    <3>2. \A i \in DOMAIN now : now[i] = node \/ \E j \in DOMAIN old : now[i] = old[j]
      BY <2>1, <3>1, InsertedParts
    <3> HIDE DEF now
    <3>3. QED
      BY <2>3, <3>2 DEF now, old
  <2>6. DirNodes(new.dirs)
    BY <2>1, <2>5 DEF DirNodes
  <2>7. QED
    BY <2>3, <2>6
<1>3. QED
  BY <1>1, <1>2

\* s3fs_rename asks for the attributes of the old name.
LEMMA LookupKeeps ==
  ASSUME Inv1, Lookup
  PROVE  Inv1'
<1>1. DataOK /\ CallOK
  BY DEF Inv1
<1>2. /\ pc = "lookup" /\ UNCHANGED <<bucket, ent, nocopy, wanted, stranded, budget>>
  BY DEF Lookup
<1>3. PICK a \in Answers(Empty) :
        \/ /\ Spend(a.right) /\ missed' = missed
           /\ Return(IF a.right THEN "enoent" ELSE "error")
        \/ /\ ~a.dir /\ Spend(a.right) /\ missed' = missed /\ Goto("flush")
           /\ todo' = <<FileNode(Empty)>> /\ UNCHANGED <<listing, mv, last>>
        \/ /\ a.found /\ a.dir
           /\ \E t \in Types(Empty, a) :
                /\ Spend(a.right /\ t.right)
                /\ mv' = IF t.type = "unknown" THEN mv ELSE add_mvnode(mv, DirNode(Empty, t.type))
                /\ missed' = missed \cup Hidden(Empty, t.type)
           /\ Goto("list") /\ UNCHANGED <<listing, todo, last>>
  BY DEF Lookup
<1>4. Empty \in Name /\ Empty \in AFile
  BY FileParts
<1>5. /\ a.found \in BOOLEAN /\ a.dir \in BOOLEAN /\ a.right \in BOOLEAN
      /\ ~a.dir => Empty \in DOMAIN bucket["from"] /\ wanted[Empty] # Absent
      /\ a.found /\ a.dir => Empty \in Dir /\ wanted[Empty] = Absent
  BY <1>1, <1>4, AnswerParts
<1>6. /\ faults \in 0 .. MaxFaults /\ budget' \in Never .. MaxFaults
      /\ missed \subseteq Name /\ stranded' \subseteq AFile
      /\ mv \in [dirs : Seq(Node), files : Seq(Node)]
  BY <1>1, <1>2 DEF CallOK, OtherTypes
<1>7. /\ head = NoObjects /\ marker = Empty /\ page = {} /\ truncated = FALSE /\ names = <<>>
      /\ mv = NoNodes /\ todo = <<>> /\ last = "ok" /\ side = "from"
  BY <1>1, <1>2 DEF CallOK, PhaseOK
<1>8. CASE /\ Spend(a.right) /\ missed' = missed
           /\ Return(IF a.right THEN "enoent" ELSE "error")
  <2>1. faults' \in 0 .. MaxFaults
    BY <1>5, <1>6, <1>8, SpendParts
  <2>2. CallOK' /\ side' \in {side, "to"}
    BY <1>1, <1>2, <1>6, <1>8, <2>1, Returned
  <2>3. DataOK'
    BY <1>1, <1>2, <2>2, DataSame
  <2>4. QED
    BY <2>2, <2>3 DEF Inv1
<1>9. CASE /\ ~a.dir /\ Spend(a.right) /\ missed' = missed /\ Goto("flush")
           /\ todo' = <<FileNode(Empty)>> /\ UNCHANGED <<listing, mv, last>>
  <2>1. faults' \in 0 .. MaxFaults
    BY <1>5, <1>6, <1>9, SpendParts
  <2>2. /\ pc' = "flush" /\ UNCHANGED <<side, result>>
        /\ UNCHANGED <<head, marker, page, truncated, names, mv, last>>
    BY <1>9 DEF Goto, listing
  <2> DEFINE node == FileNode(Empty)
  <2>3. node \in Node /\ node.old = Empty /\ node.new = Empty /\ ~node.is_dir
    BY <1>4, NodeParts
  <2> HIDE DEF node
  <2>4. todo' = <<node>>
    BY <1>9 DEF node
  <2>5. todo' \in Seq(Node) /\ DOMAIN todo' = {1} /\ todo'[1] = node /\ todo' # <<>>
    BY <2>3, <2>4
  <2>6. DataOK'
    BY <1>1, <1>2, <2>2, DataSame
  <2>7. OtherTypes'
    BY <1>1, <1>2, <1>6, <1>9, <2>1, <2>2, <2>5 DEF CallOK, OtherTypes, Phase
  <2>8. ListingOK'
    BY <1>1, <2>2 DEF CallOK, ListingOK
  <2>9. TodoOK'
    <3>1. FileNodes(todo)'
      BY <1>2, <1>4, <1>5, <1>9, <2>3, <2>5 DEF FileNodes
    <3>2. DirNodes(mv.dirs)'
      BY <1>1, <2>2 DEF CallOK, TodoOK, DirNodes
    <3>3. QED
      BY <2>2, <2>3, <2>5, <3>1, <3>2 DEF TodoOK, Moving, Removing
  <2>10. ClonedOK'
    BY <2>2 DEF ClonedOK, Moving, Removing
  <2>11. PhaseOK'
    BY <1>2, <1>7, <2>2 DEF PhaseOK
  <2>12. QED
    BY <2>6, <2>7, <2>8, <2>9, <2>10, <2>11 DEF Inv1, CallOK
<1>10. CASE /\ a.found /\ a.dir
            /\ \E t \in Types(Empty, a) :
                 /\ Spend(a.right /\ t.right)
                 /\ mv' = IF t.type = "unknown" THEN mv ELSE add_mvnode(mv, DirNode(Empty, t.type))
                 /\ missed' = missed \cup Hidden(Empty, t.type)
            /\ Goto("list") /\ UNCHANGED <<listing, todo, last>>
  <2>1. PICK t \in Types(Empty, a) :
          /\ Spend(a.right /\ t.right)
          /\ mv' = IF t.type = "unknown" THEN mv ELSE add_mvnode(mv, DirNode(Empty, t.type))
          /\ missed' = missed \cup Hidden(Empty, t.type)
    BY <1>10
  <2>2. t.right \in BOOLEAN /\ t.type \in {"folder", "noobj", "object", "unknown"}
    BY TypeParts
  <2>3. faults' \in 0 .. MaxFaults
    <3> DEFINE right == a.right /\ t.right
    <3>1. right \in BOOLEAN
      BY <1>5, <2>2
    <3>2. Spend(right)
      BY <2>1
    <3> HIDE DEF right
    <3>3. QED
      BY <1>6, <3>1, <3>2, SpendParts
  <2>4. missed' \subseteq Name
    BY <1>4, <1>6, <2>1 DEF Hidden
  <2>5. /\ pc' = "list" /\ UNCHANGED <<side, result>>
        /\ UNCHANGED <<head, marker, page, truncated, names, todo, last>>
    BY <1>10 DEF Goto, listing
  <2>6. /\ mv' \in [dirs : Seq(Node), files : Seq(Node)] /\ mv'.files = mv.files
        /\ DirNodes(mv'.dirs)
    <3>1. DirNodes(mv.dirs)
      BY <1>1 DEF CallOK, TodoOK
    <3>2. QED
      <4> DEFINE type == t.type
                 new == IF type = "unknown" THEN mv ELSE add_mvnode(mv, DirNode(Empty, type))
      <4>1. type \in {"folder", "noobj", "object", "unknown"} /\ Empty \in Dir /\ mv' = new
        BY <1>5, <1>10, <2>1, <2>2
      <4> HIDE DEF type
      <4>2. new = IF type = "unknown" THEN mv ELSE add_mvnode(mv, DirNode(Empty, type))
        OBVIOUS
      <4> HIDE DEF new
      <4>3. /\ new \in [dirs : Seq(Node), files : Seq(Node)] /\ new.files = mv.files
            /\ DirNodes(new.dirs)
        BY <1>6, <3>1, <4>1, <4>2, DirNodeAdded, Zenon
      <4>4. QED
        BY <4>1, <4>3
  <2>7. DataOK'
    BY <1>1, <1>2, <2>5, DataSame
  <2>8. OtherTypes'
    BY <1>1, <1>2, <1>6, <2>3, <2>4, <2>5, <2>6 DEF CallOK, OtherTypes, Phase
  <2>9. ListingOK'
    BY <1>1, <2>5 DEF CallOK, ListingOK
  <2>10. TodoOK'
    <3>1. DirNodes(mv.dirs)'
      BY <2>6 DEF DirNodes
    <3>2. QED
      BY <2>5, <3>1 DEF TodoOK, Moving, Removing
  <2>11. ClonedOK'
    BY <2>5 DEF ClonedOK, Moving, Removing
  <2>12. PhaseOK'
    <3>1. mv'.files = <<>> /\ wanted'[Empty] = Absent
      BY <1>2, <1>5, <1>7, <1>10, <2>6, FreshParts
    <3>2. QED
      BY <1>7, <2>5, <3>1 DEF PhaseOK
  <2>13. QED
    BY <2>7, <2>8, <2>9, <2>10, <2>11, <2>12 DEF Inv1, CallOK
<1>11. QED
  BY <1>3, <1>8, <1>9, <1>10

\* A file by itself is flushed.
LEMMA FlushFirstKeeps ==
  ASSUME Inv1, FlushFirst
  PROVE  Inv1'
<1>1. DataOK /\ CallOK
  BY DEF Inv1
<1>2. pc = "flush" /\ UNCHANGED <<nocopy, missed, stranded, budget>>
  BY DEF FlushFirst
<1>3. /\ FileNodes(todo) /\ todo # <<>> /\ todo[1].old = Empty /\ todo \in Seq(Node)
      /\ side = "from" /\ faults \in 0 .. MaxFaults /\ DirNodes(mv.dirs)
  BY <1>1, <1>2 DEF CallOK, TodoOK, PhaseOK, OtherTypes, Moving
<1>4. Empty \in AFile /\ wanted[Empty] # Absent
  BY <1>3, ListParts DEF FileNodes
<1>5. \/ Uploaded(Empty, side) /\ Open(Empty) /\ ent' \in {ent, [ent EXCEPT ![Empty].dirty = FALSE]}
      \/ UNCHANGED <<bucket, ent, wanted>>
  BY <1>3 DEF FlushFirst, Clean
<1>6. \/ Spend(TRUE) /\ Goto("copy") /\ UNCHANGED <<listing, moving>>
      \/ Spend(FALSE) /\ Return("error")
  BY DEF FlushFirst
<1>7. faults' \in 0 .. MaxFaults
  BY <1>3, <1>6, SpendParts
<1>8. side' = side
  BY <1>6 DEF Goto, Return
<1>9. /\ DataOK'
      /\ \A s \in Side : DOMAIN bucket[s] \subseteq DOMAIN bucket'[s]
      /\ \A g \in AFile : wanted'[g] # Absent <=> wanted[g] # Absent
  <2>1. CASE /\ Uploaded(Empty, side) /\ Open(Empty)
             /\ ent' \in {ent, [ent EXCEPT ![Empty].dirty = FALSE]}
    BY <1>1, <1>4, <1>8, <2>1, DataUploaded
  <2>2. CASE UNCHANGED <<bucket, ent, wanted>>
    BY <1>1, <1>8, <2>2, DataSame
  <2>3. QED
    BY <1>5, <2>1, <2>2
<1>10. budget' \in Never .. MaxFaults /\ missed' \subseteq Name /\ stranded' \subseteq AFile
  BY <1>1, <1>2 DEF CallOK, OtherTypes
<1>11. CASE Return("error")
  <2>1. CallOK'
    BY <1>1, <1>2, <1>7, <1>10, <1>11, Returned
  <2>2. QED
    BY <1>9, <2>1 DEF Inv1
<1>12. CASE Goto("copy") /\ UNCHANGED <<listing, moving>>
  <2>1. /\ pc' = "copy" /\ UNCHANGED <<side, result, nocopy>>
        /\ UNCHANGED <<head, marker, page, truncated, names, mv, todo, last>>
    BY <1>2, <1>12 DEF Goto, listing, moving
  <2>2. OtherTypes'
    BY <1>1, <1>2, <1>7, <1>10, <2>1 DEF CallOK, OtherTypes, Phase
  <2>3. ListingOK'
    BY <1>1, <2>1 DEF CallOK, ListingOK
  <2>4. TodoOK'
    <3>1. FileNodes(todo)'
      BY <1>3, <1>9, <2>1, FileNodesKept, FileParts DEF FileNodes
    <3>2. DirNodes(mv.dirs)'
      BY <1>3, <2>1 DEF DirNodes
    <3>3. QED
      BY <2>1, <3>1, <3>2 DEF TodoOK, Moving, Removing
  <2>5. mv = NoNodes /\ head = NoObjects
    BY <1>1, <1>4 DEF CallOK, PhaseOK
  <2>6. ClonedOK'
    BY <2>1, <2>5, FreshParts DEF ClonedOK, Moving, Removing
  <2>7. PhaseOK'
    BY <1>3, <2>1, <2>5 DEF PhaseOK, Moving
  <2>8. QED
    BY <1>9, <2>2, <2>3, <2>4, <2>6, <2>7 DEF Inv1, CallOK
<1>13. QED
  BY <1>6, <1>11, <1>12

\* list_bucket asks for a page.
LEMMA ListKeeps ==
  ASSUME Inv1, List
  PROVE  Inv1'
<1>1. DataOK /\ CallOK
  BY DEF Inv1
<1>2. /\ pc = "list" /\ UNCHANGED <<bucket, ent, nocopy, wanted, missed, stranded, budget>>
  BY DEF List, history
<1>3. \/ Spend(FALSE) /\ Return("error")
      \/ /\ \E keys \in SUBSET Rest : IsPage(keys) /\ page' = keys /\ truncated' = (keys # Rest)
         /\ Spend(TRUE) /\ Goto("append") /\ UNCHANGED <<head, marker, names, moving>>
  BY DEF List
<1>4. /\ faults \in 0 .. MaxFaults /\ budget' \in Never .. MaxFaults
      /\ missed' \subseteq Name /\ stranded' \subseteq AFile
  BY <1>1, <1>2 DEF CallOK, OtherTypes
<1>5. faults' \in 0 .. MaxFaults
  BY <1>3, <1>4, SpendParts
<1>6. CASE Return("error")
  <2>1. CallOK' /\ side' \in {side, "to"}
    BY <1>1, <1>2, <1>4, <1>5, <1>6, Returned
  <2>2. DataOK'
    BY <1>1, <1>2, <2>1, DataSame
  <2>3. QED
    BY <2>1, <2>2 DEF Inv1
<1>7. CASE /\ \E keys \in SUBSET Rest : IsPage(keys) /\ page' = keys /\ truncated' = (keys # Rest)
           /\ Goto("append") /\ UNCHANGED <<head, marker, names, moving>>
  <2>1. /\ pc' = "append" /\ UNCHANGED <<side, result, head, marker, names, mv, todo, last>>
    BY <1>7 DEF Goto, moving
  <2>2. PICK keys \in SUBSET Rest : IsPage(keys) /\ page' = keys /\ truncated' = (keys # Rest)
    BY <1>7
  <2>3. \A k \in page' : k \in Keys /\ IsPrefix(<<Slash>>, k)
    BY <1>1, <2>2, FileParts DEF Rest, DataOK
  <2>4. truncated' \in BOOLEAN
    BY <2>2
  <2>5. ASSUME truncated' PROVE \E k \in page' : k # <<Slash>>
    <3>1. Cardinality(keys) = PageSize
      BY <2>2, <2>5 DEF IsPage
    <3>2. CASE keys \subseteq {<<Slash>>}
      <4>1. keys = {} \/ keys = {<<Slash>>}
        BY <3>2
      <4>2. Cardinality(keys) = 0 \/ Cardinality(keys) = 1
        BY <4>1, FS_EmptySet, FS_Singleton
      <4>3. QED
        BY <3>1, <4>2, RenameAssumption
    <3>3. QED
      BY <2>2, <3>2
  <2>6. DataOK'
    BY <1>1, <1>2, <2>1, DataSame
  <2>7. OtherTypes'
    BY <1>1, <1>2, <1>4, <1>5, <2>1, <2>3, <2>4 DEF CallOK, OtherTypes, Phase
  <2>8. ListingOK'
    BY <1>1, <2>1, <2>3, <2>5 DEF CallOK, ListingOK
  <2>9. TodoOK'
    BY <1>1, <2>1 DEF CallOK, TodoOK, DirNodes, Moving, Removing
  <2>10. ClonedOK'
    BY <2>1 DEF ClonedOK, Moving, Removing
  <2>11. PhaseOK'
    <3>1. mv.files = <<>> /\ wanted[Empty] = Absent /\ side = "from"
      BY <1>1, <1>2 DEF CallOK, PhaseOK, Moving
    <3>2. QED
      BY <1>2, <2>1, <3>1 DEF PhaseOK
  <2>12. QED
    BY <2>6, <2>7, <2>8, <2>9, <2>10, <2>11 DEF Inv1, CallOK
<1>8. QED
  BY <1>3, <1>6, <1>7

\* The first key of an entry of the list.
Known(h, n) == IF h[n].orgname # Empty THEN h[n].orgname ELSE h[n].normalname

\* The name a list goes on from is the last one it knows.
LEMMA LastNameParts ==
  ASSUME NEW h, HeadOK(h)
  PROVE  /\ \A n \in DOMAIN h : Known(h, n) \in Names
         /\ DOMAIN h # {} =>
              /\ GetLastName(h) \in Names /\ \E n \in DOMAIN h : GetLastName(h) = Known(h, n)
              /\ \A n \in DOMAIN h : ~Before(GetLastName(h), Known(h, n))
<1> DEFINE S == {Known(h, n) : n \in DOMAIN h}
<1>1. GetLastName(h) = Greatest(S)
  BY DEF GetLastName, Known
<1>2. ASSUME NEW n \in DOMAIN h PROVE Known(h, n) \in Names
  <2>1. PICK t \in Short : EntryOK(h, t, n)
    BY DEF HeadOK
  <2>2. t \in Names
    BY ShortParts
  <2>3. Append(t, Slash) \in Names /\ Append(t, Folder) \in Names
    BY <2>2, AppendParts
  <2>4. h[n].orgname \in {t, Append(t, Folder)} \/ h[n].normalname = Append(t, Slash)
    BY <2>1 DEF EntryOK
  <2>5. CASE h[n].orgname # Empty
    <3>1. h[n].orgname \in {t, Append(t, Folder)}
      BY <2>1, <2>5 DEF EntryOK
    <3>2. QED
      BY <2>2, <2>3, <2>5, <3>1 DEF Known
  <2>6. CASE h[n].orgname = Empty
    <3>1. t # Empty /\ Append(t, Folder) # Empty
      BY ShortForms
    <3>2. h[n].normalname = Append(t, Slash)
      BY <2>4, <2>6, <3>1
    <3>3. QED
      BY <2>3, <2>6, <3>2 DEF Known
  <2>7. QED
    BY <2>5, <2>6
<1>3. IsFiniteSet(S)
  <2>1. IsFiniteSet(DOMAIN h)
    BY DEF HeadOK
  <2> DEFINE g == [n \in DOMAIN h |-> Known(h, n)]
  <2>2. g \in [DOMAIN h -> S] /\ \A x \in S : \E n \in DOMAIN h : g[n] = x
    OBVIOUS
  <2> HIDE DEF g, S
  <2>3. g \in Surjection(DOMAIN h, S)
    BY <2>2, Zenon DEF Surjection
  <2>4. QED
    BY <2>1, <2>3, FS_Surjection
<1>4. /\ S \in SUBSET Names
      /\ DOMAIN h # {} => S # {}
      /\ \A n \in DOMAIN h : Known(h, n) \in S
      /\ \A x \in S : \E n \in DOMAIN h : x = Known(h, n)
  BY <1>2
<1> HIDE DEF S
<1>5. ASSUME DOMAIN h # {}
      PROVE  /\ GetLastName(h) \in Names /\ \E n \in DOMAIN h : GetLastName(h) = Known(h, n)
             /\ \A n \in DOMAIN h : ~Before(GetLastName(h), Known(h, n))
  <2> DEFINE g == Greatest(S)
  <2>1. g \in S /\ \A m \in S : m # g => Before(m, g)
    BY <1>3, <1>4, <1>5, Ends
  <2> HIDE DEF g
  <2>2. \A m \in S : ~Before(g, m)
    <3>1. ASSUME NEW m \in S, Before(g, m) PROVE FALSE
      <4>1. g \in Names /\ m \in Names
        BY <1>4, <2>1
      <4>2. m # g
        BY <3>1, <4>1, NotBeforeItself
      <4>3. Before(m, g)
        BY <2>1, <4>2
      <4>4. QED
        BY <3>1, <4>1, <4>3, BeforeTransitive, NotBeforeItself
    <3>2. QED
      BY <3>1
  <2>3. QED
    BY <1>1, <1>4, <2>1, <2>2 DEF g
<1>6. QED
  BY <1>2, <1>5

\* append_objects_from_xml.
LEMMA AppendObjectKeeps ==
  ASSUME Inv1, AppendObject
  PROVE  Inv1'
<1>1. DataOK /\ CallOK
  BY DEF Inv1
<1> DEFINE key == Least(page)
           name == get_object_name(<<Slash>>, key)
<1>2. /\ pc = "append" /\ page # {} /\ page' = page \ {key}
      /\ head' = IF key = <<Slash>> THEN head ELSE insert(head, name, FALSE)
      /\ marker' = key
      /\ UNCHANGED <<bucket, ent, side, nocopy, pc, result, names, truncated, mv, todo, last, faults>>
      /\ UNCHANGED <<wanted, missed, stranded, budget>>
  BY DEF AppendObject, moving, history
<1>3. page \subseteq Keys /\ HeadOK(head) /\ \A k \in page : IsPrefix(<<Slash>>, k)
  BY <1>1 DEF CallOK, OtherTypes, ListingOK
<1>4. key \in page /\ key \in Keys /\ key \in Names /\ IsPrefix(<<Slash>>, key)
  <2>1. page \in SUBSET Names /\ IsFiniteSet(page) /\ Keys \subseteq Names
    BY <1>3, NamesFinite, FS_Subset
  <2>2. QED
    BY <1>2, <1>3, <2>1, Ends
<1>5. /\ key = <<Slash>> => head' = head
      /\ key # <<Slash>> => HeadOK(head') /\ DOMAIN head' # {}
  <2>1. CASE key # <<Slash>>
    <3>1. PICK t \in Short, form \in Form :
            name = IF form = "folder" THEN Append(t, Folder) ELSE t
      BY <1>4, <2>1, ObjectName
    <3>2. CASE form = "folder"
      <4>1. head' = insert(head, Append(t, Folder), FALSE)
        BY <1>2, <2>1, <3>1, <3>2
      <4> DEFINE now == insert(head, Append(t, Folder), FALSE)
      <4>2. /\ HeadOK(now)
            /\ DOMAIN now = (DOMAIN head \ {t}) \cup {Append(t, Slash), Append(t, Folder)}
        BY <1>3, InsertFolder, Zenon
      <4> HIDE DEF now
      <4>3. Append(t, Folder) \in DOMAIN now
        BY <4>2
      <4>4. head' = now
        BY <4>1 DEF now
      <4>5. QED
        BY <2>1, <4>2, <4>3, <4>4
    <3>3. CASE form # "folder"
      <4>1. head' = insert(head, t, FALSE)
        BY <1>2, <2>1, <3>1, <3>3
      <4>2. QED
        BY <1>3, <2>1, <4>1, InsertName
    <3>4. QED
      BY <3>2, <3>3
  <2>2. QED
    BY <1>2, <2>1
<1> HIDE DEF key, name
<1>6. DataOK'
  BY <1>1, <1>2, DataSame
<1>7. OtherTypes'
  BY <1>1, <1>2, <1>3 DEF CallOK, OtherTypes
<1>8. ListingOK'
  <2>1. HeadOK(head') /\ marker' \in Names /\ names' \in Seq(Short)
    BY <1>1, <1>2, <1>3, <1>4, <1>5 DEF CallOK, ListingOK
  <2>2. \A k \in page' : IsPrefix(<<Slash>>, k)
    BY <1>2, <1>3
  <2>3. truncated => DOMAIN head # {} \/ \E k \in page : k # <<Slash>>
    BY <1>1, <1>2 DEF CallOK, ListingOK
  <2>4. truncated' => DOMAIN head' # {} \/ \E k \in page' : k # <<Slash>>
    BY <1>2, <1>5, <2>3
  <2>5. QED
    BY <2>1, <2>2, <2>4 DEF ListingOK
<1>9. TodoOK'
  BY <1>1, <1>2 DEF CallOK, TodoOK, DirNodes, Moving, Removing
<1>10. ClonedOK'
  BY <1>2 DEF ClonedOK, Moving, Removing
<1>11. PhaseOK'
  <2>1. mv.files = <<>> /\ wanted[Empty] = Absent /\ side = "from"
    BY <1>1, <1>2 DEF CallOK, PhaseOK, Moving
  <2>2. QED
    BY <1>2, <2>1 DEF PhaseOK
<1>12. QED
  BY <1>6, <1>7, <1>8, <1>9, <1>10, <1>11 DEF Inv1, CallOK

\* The next page is asked for, or the list ends.
LEMMA NextPageKeeps ==
  ASSUME Inv1, NextPage
  PROVE  Inv1'
<1>1. DataOK /\ CallOK
  BY DEF Inv1
<1>2. /\ pc = "append" /\ page = {}
      /\ UNCHANGED <<bucket, ent, side, nocopy, result, head, page, truncated, names, faults>>
      /\ UNCHANGED <<mv, todo, last, wanted, missed, stranded, budget>>
      /\ \/ truncated /\ pc' = "list" /\ marker' \in {marker, <<Slash>> \o GetLastName(head)}
         \/ pc' = "named" /\ marker' = marker
  BY DEF NextPage, Goto, moving, history
<1>3. DataOK'
  BY <1>1, <1>2, DataSame
<1>4. OtherTypes'
  BY <1>1, <1>2 DEF CallOK, OtherTypes, Phase
<1>5. ListingOK'
  <2>1. ListingOK
    BY <1>1 DEF CallOK
  <2>2. ASSUME truncated PROVE <<Slash>> \o GetLastName(head) \in Names
    <3>1. HeadOK(head) /\ DOMAIN head # {}
      BY <1>2, <2>1, <2>2 DEF ListingOK
    <3>2. GetLastName(head) \in Names
      BY <3>1, LastNameParts
    <3>3. QED
      BY <3>2, SlashBefore
  <2>3. marker' \in Names
    BY <1>2, <2>1, <2>2 DEF ListingOK
  <2>4. QED
    BY <1>2, <2>1, <2>3 DEF ListingOK
<1>6. TodoOK'
  BY <1>1, <1>2 DEF CallOK, TodoOK, DirNodes, Moving, Removing
<1>7. ClonedOK'
  BY <1>2 DEF ClonedOK, Moving, Removing
<1>8. PhaseOK'
  <2>1. mv.files = <<>> /\ wanted[Empty] = Absent /\ side = "from"
    BY <1>1, <1>2 DEF CallOK, PhaseOK, Moving
  <2>2. QED
    BY <1>2, <2>1 DEF PhaseOK
<1>9. QED
  BY <1>3, <1>4, <1>5, <1>6, <1>7, <1>8 DEF Inv1, CallOK

\* The names are listed.
LEMMA NamedKeeps ==
  ASSUME Inv1, Named
  PROVE  Inv1'
<1>1. DataOK /\ CallOK
  BY DEF Inv1
<1>2. /\ pc = "named" /\ names' = NameList /\ pc' = "check"
      /\ UNCHANGED <<bucket, ent, side, nocopy, result, head, marker, page, truncated, faults>>
      /\ UNCHANGED <<mv, todo, last, wanted, missed, stranded, budget>>
  BY DEF Named, Goto, moving, history
<1>3. DataOK'
  BY <1>1, <1>2, DataSame
<1>4. OtherTypes'
  BY <1>1, <1>2 DEF CallOK, OtherTypes, Phase
<1>5. ListingOK'
  <2>1. ListingOK
    BY <1>1 DEF CallOK
  <2>2. names' \in Seq(Short)
    BY <1>2, <2>1, NameListParts DEF ListingOK, NameList
  <2>3. QED
    BY <1>2, <2>1, <2>2 DEF ListingOK
<1>6. mv.files = <<>> /\ wanted[Empty] = Absent /\ side = "from"
  BY <1>1, <1>2 DEF CallOK, PhaseOK, Moving
<1>7. TodoOK'
  <2>1. FileNodes(mv.files)'
    BY <1>2, <1>6, FreshParts DEF FileNodes
  <2>2. DirNodes(mv.dirs)'
    BY <1>1, <1>2 DEF CallOK, TodoOK, DirNodes
  <2>3. QED
    BY <1>2, <2>1, <2>2 DEF TodoOK, Moving, Removing
<1>8. ClonedOK'
  BY <1>2 DEF ClonedOK, Moving, Removing
<1>9. PhaseOK'
  BY <1>2, <1>6 DEF PhaseOK
<1>10. QED
  BY <1>3, <1>4, <1>5, <1>7, <1>8, <1>9 DEF Inv1, CallOK

\* The node of a file that is there.
LEMMA FileNodeAdded ==
  ASSUME NEW m \in [dirs : Seq(Node), files : Seq(Node)], FileNodes(m.files), NEW f \in AFile,
         f \in DOMAIN bucket["from"], wanted[f] # Absent, NEW new, new = add_mvnode(m, FileNode(f))
  PROVE  /\ new \in [dirs : Seq(Node), files : Seq(Node)] /\ new.dirs = m.dirs
         /\ FileNodes(new.files)
<1> DEFINE node == FileNode(f)
           old  == m.files
           now  == Inserted(old, node)
<1>1. /\ node \in Node /\ node.old = f /\ node.new = f /\ ~node.is_dir
  BY NodeParts
<1>2. old \in Seq(Node)
  OBVIOUS
<1> HIDE DEF node, old
<1>3. new = add_mvnode(m, node)
  BY DEF node
<1>4. /\ new \in [dirs : Seq(Node), files : Seq(Node)] /\ new.dirs = m.dirs
      /\ new.files = now
  BY <1>1, <1>3, AddParts DEF old
<1>5. FileNodes(old)
  BY DEF old
<1>6. /\ \A i \in DOMAIN now : now[i] = node \/ \E j \in DOMAIN old : now[i] = old[j]
      /\ (\A i, j \in DOMAIN old : old[i].old = old[j].old => i = j) =>
           \A i, j \in DOMAIN now : now[i].old = now[j].old => i = j
  BY <1>1, <1>2, InsertedParts
<1> HIDE DEF now
<1>7. \A i \in DOMAIN now :
        /\ now[i].old = now[i].new /\ now[i].old \in AFile /\ ~now[i].is_dir
        /\ now[i].old \in DOMAIN bucket["from"] /\ wanted[now[i].old] # Absent
  BY <1>1, <1>5, <1>6 DEF FileNodes
<1>8. \A i, j \in DOMAIN now : now[i].old = now[j].old => i = j
  BY <1>5, <1>6 DEF FileNodes
<1>9. FileNodes(now)
  BY <1>7, <1>8 DEF FileNodes
<1>10. QED
  BY <1>4, <1>9

\* The attributes of a listed name are read.
LEMMA CheckKeeps ==
  ASSUME Inv1, Check
  PROVE  Inv1'
<1>1. DataOK /\ CallOK
  BY DEF Inv1
<1> DEFINE n == <<Slash>> \o Head(names)
<1>2. /\ pc = "check" /\ names # <<>> /\ names' = Tail(names)
      /\ UNCHANGED <<bucket, ent, side, nocopy, pc, result, head, marker, page, truncated, todo>>
      /\ UNCHANGED <<last, wanted, stranded, budget>>
  BY DEF Check
<1>3. PICK a \in Answers(n) :
        \/ Spend(a.right) /\ missed' = missed \cup {n} /\ UNCHANGED mv
        \/ /\ ~a.dir /\ Spend(a.right) /\ UNCHANGED missed
           /\ mv' = add_mvnode(mv, FileNode(n))
        \/ /\ a.found /\ a.dir
           /\ \E t \in Types(n, a) :
                /\ Spend(a.right /\ t.right)
                /\ mv' = IF t.type = "unknown" THEN mv ELSE add_mvnode(mv, DirNode(n, t.type))
                /\ missed' = missed \cup Hidden(n, t.type)
  BY DEF Check
<1>4. names \in Seq(Short)
  BY <1>1 DEF CallOK, ListingOK
<1>5. Head(names) \in Short /\ Tail(names) \in Seq(Short)
  BY <1>2, <1>4, HeadTailProperties
<1>6. n \in Name
  BY <1>5, ShortParts
<1> HIDE DEF n
<1>7. /\ a.found \in BOOLEAN /\ a.dir \in BOOLEAN /\ a.right \in BOOLEAN
      /\ ~a.dir => n \in AFile /\ n \in DOMAIN bucket["from"] /\ wanted[n] # Absent
      /\ a.found /\ a.dir => n \in Dir
  BY <1>1, <1>6, AnswerParts
<1>8. /\ faults \in 0 .. MaxFaults /\ missed \subseteq Name
      /\ mv \in [dirs : Seq(Node), files : Seq(Node)] /\ FileNodes(mv.files) /\ DirNodes(mv.dirs)
  BY <1>1, <1>2 DEF CallOK, OtherTypes, TodoOK
<1>9. /\ faults' \in 0 .. MaxFaults /\ missed' \subseteq Name
      /\ mv' \in [dirs : Seq(Node), files : Seq(Node)] /\ FileNodes(mv'.files) /\ DirNodes(mv'.dirs)
  <2>1. CASE Spend(a.right) /\ missed' = missed \cup {n} /\ UNCHANGED mv
    BY <1>6, <1>7, <1>8, <2>1, SpendParts
  <2>2. CASE /\ ~a.dir /\ Spend(a.right) /\ UNCHANGED missed
             /\ mv' = add_mvnode(mv, FileNode(n))
    <3>1. faults' \in 0 .. MaxFaults
      BY <1>7, <1>8, <2>2, SpendParts
    <3> DEFINE new == add_mvnode(mv, FileNode(n))
    <3>2. new = add_mvnode(mv, FileNode(n))
      OBVIOUS
    <3> HIDE DEF new
    <3>3. n \in AFile /\ n \in DOMAIN bucket["from"] /\ wanted[n] # Absent
      BY <1>7, <2>2
    <3>4. /\ new \in [dirs : Seq(Node), files : Seq(Node)] /\ new.dirs = mv.dirs
          /\ FileNodes(new.files)
      BY <1>8, <3>2, <3>3, FileNodeAdded, Zenon
    <3>5. mv' = new
      BY <2>2, <3>2
    <3>6. QED
      BY <1>8, <2>2, <3>1, <3>4, <3>5
  <2>3. CASE /\ a.found /\ a.dir
             /\ \E t \in Types(n, a) :
                  /\ Spend(a.right /\ t.right)
                  /\ mv' = IF t.type = "unknown" THEN mv ELSE add_mvnode(mv, DirNode(n, t.type))
                  /\ missed' = missed \cup Hidden(n, t.type)
    <3>1. PICK t \in Types(n, a) :
            /\ Spend(a.right /\ t.right)
            /\ mv' = IF t.type = "unknown" THEN mv ELSE add_mvnode(mv, DirNode(n, t.type))
            /\ missed' = missed \cup Hidden(n, t.type)
      BY <2>3
    <3>2. t.right \in BOOLEAN /\ t.type \in {"folder", "noobj", "object", "unknown"}
      BY TypeParts
    <3>3. faults' \in 0 .. MaxFaults
      <4> DEFINE right == a.right /\ t.right
      <4>1. right \in BOOLEAN
        BY <1>7, <3>2
      <4>2. Spend(right)
        BY <3>1
      <4> HIDE DEF right
      <4>3. QED
        BY <1>8, <4>1, <4>2, SpendParts
    <3>4. missed' \subseteq Name
      BY <1>6, <1>8, <3>1 DEF Hidden
    <3> DEFINE type == t.type
               new == IF type = "unknown" THEN mv ELSE add_mvnode(mv, DirNode(n, type))
    <3>5. type \in {"folder", "noobj", "object", "unknown"} /\ n \in Dir /\ mv' = new
      BY <1>7, <2>3, <3>1, <3>2
    <3> HIDE DEF type
    <3>6. new = IF type = "unknown" THEN mv ELSE add_mvnode(mv, DirNode(n, type))
      OBVIOUS
    <3> HIDE DEF new
    <3>7. /\ new \in [dirs : Seq(Node), files : Seq(Node)] /\ new.files = mv.files
          /\ DirNodes(new.dirs)
      BY <1>8, <3>5, <3>6, DirNodeAdded, Zenon
    <3>8. QED
      BY <1>8, <3>3, <3>4, <3>5, <3>7
  <2>4. QED
    BY <1>3, <2>1, <2>2, <2>3
<1>10. DataOK'
  BY <1>1, <1>2, DataSame
<1>11. OtherTypes'
  BY <1>1, <1>2, <1>9 DEF CallOK, OtherTypes
<1>12. ListingOK'
  BY <1>1, <1>2, <1>5 DEF CallOK, ListingOK
<1>13. TodoOK'
  <2>1. FileNodes(mv.files)'
    BY <1>2, <1>9 DEF FileNodes
  <2>2. DirNodes(mv.dirs)'
    BY <1>9 DEF DirNodes
  <2>3. QED
    BY <1>2, <2>1, <2>2 DEF TodoOK, Moving, Removing
<1>14. ClonedOK'
  BY <1>2 DEF ClonedOK, Moving, Removing
<1>15. PhaseOK'
  <2>1. wanted[Empty] = Absent /\ side = "from"
    BY <1>1, <1>2 DEF CallOK, PhaseOK, Moving
  <2>2. QED
    BY <1>2, <2>1 DEF PhaseOK
<1>16. QED
  BY <1>10, <1>11, <1>12, <1>13, <1>14, <1>15 DEF Inv1, CallOK

\* The nodes are complete.
LEMMA CheckedKeeps ==
  ASSUME Inv1, Checked
  PROVE  Inv1'
<1>1. DataOK /\ CallOK
  BY DEF Inv1
<1>2. /\ pc = "check" /\ pc' = "clone" /\ todo' = mv.dirs
      /\ UNCHANGED <<bucket, ent, side, nocopy, result, head, marker, page, truncated, names, faults>>
      /\ UNCHANGED <<mv, last, wanted, missed, stranded, budget>>
  BY DEF Checked, Goto, listing, history
<1>3. DataOK'
  BY <1>1, <1>2, DataSame
<1>4. OtherTypes'
  BY <1>1, <1>2 DEF CallOK, OtherTypes, Phase
<1>5. ListingOK'
  BY <1>1, <1>2 DEF CallOK, ListingOK
<1>6. DirNodes(mv.dirs) /\ FileNodes(mv.files)
  BY <1>1, <1>2 DEF CallOK, TodoOK
<1>7. TodoOK'
  <2>1. FileNodes(mv.files)'
    BY <1>2, <1>6 DEF FileNodes
  <2>2. DirNodes(mv.dirs)' /\ DirNodes(todo)'
    BY <1>2, <1>6 DEF DirNodes
  <2>3. QED
    BY <1>2, <2>1, <2>2 DEF TodoOK, Moving, Removing
<1>8. ClonedOK'
  BY <1>2 DEF ClonedOK, Moving, Removing
<1>9. PhaseOK'
  <2>1. wanted[Empty] = Absent /\ side = "from"
    BY <1>1, <1>2 DEF CallOK, PhaseOK, Moving
  <2>2. QED
    BY <1>2, <2>1 DEF PhaseOK
<1>10. QED
  BY <1>3, <1>4, <1>5, <1>7, <1>8, <1>9 DEF Inv1, CallOK

\* The next node is the first of those that are left.
LEMMA CurrentParts ==
  ASSUME OtherTypes, todo # <<>>
  PROVE  /\ Head(todo) = todo[1] /\ Current = todo[1].old /\ 1 \in DOMAIN todo
         /\ todo[1].old \in Keys /\ todo[1].new \in Name /\ todo[1].normdir \in BOOLEAN
         /\ Tail(todo) \in Seq(Node)
         /\ \A i \in DOMAIN Tail(todo) :
              i + 1 \in DOMAIN todo /\ Tail(todo)[i] = todo[i + 1] /\ i + 1 # 1
         /\ \A j \in DOMAIN todo :
              j = 1 \/ \E i \in DOMAIN Tail(todo) : Tail(todo)[i] = todo[j]
<1>1. todo \in Seq(Node)
  BY DEF OtherTypes
<1>2. /\ DOMAIN todo = 1 .. Len(todo) /\ Len(todo) \in Nat /\ \A i \in DOMAIN todo : todo[i] \in Node
      /\ Head(todo) = todo[1] /\ 1 \in DOMAIN todo
      /\ Tail(todo) \in Seq(Node) /\ Len(Tail(todo)) = Len(todo) - 1
      /\ \A i \in DOMAIN Tail(todo) :
           i + 1 \in DOMAIN todo /\ Tail(todo)[i] = todo[i + 1] /\ i \in Nat
  BY <1>1, ListParts
<1>3. todo[1] \in Node
  BY <1>2
<1>4. todo[1].old \in Keys /\ todo[1].new \in Name /\ todo[1].normdir \in BOOLEAN
  BY <1>3 DEF Node
<1>5. DOMAIN Tail(todo) = 1 .. Len(todo) - 1
  BY <1>2
<1> DEFINE tail == Tail(todo)
<1>6. ASSUME NEW j \in DOMAIN todo, j # 1
      PROVE  \E i \in DOMAIN tail : tail[i] = todo[j]
  <2>1. j - 1 \in DOMAIN tail /\ (j - 1) + 1 = j
    BY <1>2, <1>5, <1>6
  <2>2. tail[j - 1] = todo[(j - 1) + 1]
    BY <1>2, <2>1
  <2>3. QED
    BY <2>1, <2>2
<1>7. \A i \in DOMAIN tail : i + 1 # 1
  BY <1>2, <1>5
<1>8. QED
  BY <1>2, <1>4, <1>6, <1>7 DEF Current

\* The files to move stay when the old name keeps its objects.
LEMMA FilesStay ==
  ASSUME bucket'["from"] = bucket["from"], wanted' = wanted, NEW list, FileNodes(list)
  PROVE  /\ \A i \in DOMAIN list :
              /\ list[i].old = list[i].new /\ list[i].old \in AFile /\ ~list[i].is_dir
              /\ list[i].old \in DOMAIN bucket'["from"] /\ wanted'[list[i].old] # Absent
         /\ \A i, j \in DOMAIN list : list[i].old = list[j].old => i = j
BY DEF FileNodes

\* clone_directory_object.
LEMMA CloneKeeps ==
  ASSUME Inv1, Clone
  PROVE  Inv1'
<1>1. DataOK /\ CallOK /\ OtherTypes
  BY DEF Inv1, CallOK
<1> DEFINE key == Key(Head(todo).new, "slash")
<1>2. /\ pc = "clone" /\ todo # <<>>
      /\ UNCHANGED <<ent, nocopy, wanted, missed, stranded, budget>>
  BY DEF Clone, history
<1>3. \/ /\ Store("to", key, Marker) /\ Spend(TRUE) /\ todo' = Tail(todo)
         /\ UNCHANGED <<side, pc, result, listing, mv, last>>
      \/ (Store("to", key, Marker) \/ UNCHANGED bucket) /\ Spend(FALSE) /\ Return("error")
  BY DEF Clone
<1>4. /\ DirNodes(mv.dirs) /\ DirNodes(todo) /\ FileNodes(mv.files)
      /\ wanted[Empty] = Absent /\ side = "from"
      /\ faults \in 0 .. MaxFaults /\ budget' \in Never .. MaxFaults
      /\ missed' \subseteq Name /\ stranded' \subseteq AFile
  BY <1>1, <1>2 DEF CallOK, TodoOK, PhaseOK, OtherTypes, Moving
<1>5. faults' \in 0 .. MaxFaults
  BY <1>3, <1>4, SpendParts
<1>6. todo[1].new \in Dir /\ key = Key(todo[1].new, "slash") /\ key \in Keys
  <2>1. Head(todo) = todo[1] /\ 1 \in DOMAIN todo
    BY <1>1, <1>2, CurrentParts
  <2>2. todo[1].new \in Dir
    BY <1>4, <2>1 DEF DirNodes
  <2>3. QED
    BY <2>1, <2>2, DirectoryKey DEF Form
<1> HIDE DEF key
<1>7. ASSUME Store("to", key, Marker), side' \in {side, "to"}
      PROVE  /\ DataOK' /\ bucket'["from"] = bucket["from"]
             /\ DOMAIN bucket'["to"] = DOMAIN bucket["to"] \cup {key}
  <2>1. Marker \in Version \cup {Marker} /\ \E d \in Dir, form \in Form : key = Key(d, form)
    BY <1>6 DEF Form
  <2>2. ent' \in [AFile -> Entity] /\ \A g \in AFile : Open(g)' => Open(g)
    BY <1>1, <1>2 DEF DataOK, Open
  <2>3. QED
    BY <1>1, <1>2, <1>4, <1>6, <1>7, <2>1, <2>2, DataStored
<1>8. CASE (Store("to", key, Marker) \/ UNCHANGED bucket) /\ Return("error")
  <2>1. CallOK' /\ side' \in {side, "to"}
    BY <1>1, <1>2, <1>4, <1>5, <1>8, Returned
  <2>2. DataOK'
    BY <1>1, <1>2, <1>7, <1>8, <2>1, DataSame
  <2>3. QED
    BY <2>1, <2>2 DEF Inv1
<1>9. CASE /\ Store("to", key, Marker) /\ todo' = Tail(todo)
           /\ UNCHANGED <<side, pc, result, listing, mv, last>>
  <2>1. UNCHANGED <<head, marker, page, truncated, names>>
    BY <1>9 DEF listing
  <2>2. /\ DataOK' /\ bucket'["from"] = bucket["from"]
        /\ DOMAIN bucket'["to"] = DOMAIN bucket["to"] \cup {key}
    BY <1>7, <1>9
  <2>3. OtherTypes'
    BY <1>1, <1>2, <1>4, <1>5, <1>9, <2>1, CurrentParts DEF OtherTypes
  <2>4. ListingOK'
    BY <1>1, <1>9, <2>1 DEF CallOK, ListingOK
  <2>5. TodoOK'
    <3>1. FileNodes(mv.files)'
      BY <1>2, <1>4, <1>9, <2>2, FilesStay DEF FileNodes
    <3>2. DirNodes(mv.dirs)'
      BY <1>4, <1>9 DEF DirNodes
    <3>3. DirNodes(todo)'
      BY <1>1, <1>2, <1>4, <1>9, CurrentParts DEF DirNodes
    <3>4. QED
      BY <1>2, <1>9, <3>1, <3>2, <3>3 DEF TodoOK, Moving, Removing
  <2>6. ClonedOK'
    <3>1. ASSUME NEW i \in DOMAIN mv.dirs
          PROVE  \/ Key(mv.dirs[i].new, "slash") \in DOMAIN bucket'["to"]
                 \/ \E j \in DOMAIN todo' : todo'[j] = mv.dirs[i]
      <4>1. CASE Made(mv.dirs[i])
        BY <2>2, <4>1 DEF Made
      <4>2. ASSUME NEW j \in DOMAIN todo, todo[j] = mv.dirs[i]
            PROVE  \/ Key(mv.dirs[i].new, "slash") \in DOMAIN bucket'["to"]
                   \/ \E l \in DOMAIN todo' : todo'[l] = mv.dirs[i]
        <5>1. CASE j = 1
          BY <1>6, <2>2, <4>2, <5>1
        <5>2. CASE j # 1
          BY <1>1, <1>2, <1>9, <4>2, <5>2, CurrentParts
        <5>3. QED
          BY <5>1, <5>2
      <4>3. QED
        BY <1>1, <1>2, <4>1, <4>2 DEF CallOK, ClonedOK
    <3>2. QED
      BY <1>2, <1>9, <3>1 DEF ClonedOK, Made, Moving, Removing
  <2>7. PhaseOK'
    BY <1>2, <1>4, <1>9, <2>1 DEF PhaseOK, Moving
  <2>8. QED
    BY <2>2, <2>3, <2>4, <2>5, <2>6, <2>7 DEF Inv1, CallOK
<1>10. QED
  BY <1>3, <1>8, <1>9

\* The directories are made.
LEMMA ClonedKeeps ==
  ASSUME Inv1, Cloned
  PROVE  Inv1'
<1>1. DataOK /\ CallOK
  BY DEF Inv1
<1>2. /\ pc = "clone" /\ todo = <<>> /\ pc' = "copy" /\ todo' = mv.files
      /\ UNCHANGED <<bucket, ent, side, nocopy, result, head, marker, page, truncated, names, faults>>
      /\ UNCHANGED <<mv, last, wanted, missed, stranded, budget>>
  BY DEF Cloned, Goto, listing, history
<1>3. DataOK'
  BY <1>1, <1>2, DataSame
<1>4. OtherTypes'
  BY <1>1, <1>2 DEF CallOK, OtherTypes, Phase
<1>5. ListingOK'
  BY <1>1, <1>2 DEF CallOK, ListingOK
<1>6. DirNodes(mv.dirs) /\ FileNodes(mv.files)
  BY <1>1, <1>2 DEF CallOK, TodoOK
<1>7. TodoOK'
  <2>1. FileNodes(todo)'
    BY <1>2, <1>6 DEF FileNodes
  <2>2. DirNodes(mv.dirs)'
    BY <1>2, <1>6 DEF DirNodes
  <2>3. QED
    BY <1>2, <2>1, <2>2 DEF TodoOK, Moving, Removing
<1>8. ClonedOK'
  <2>1. \A i \in DOMAIN mv.dirs : Made(mv.dirs[i])
    BY <1>1, <1>2, FreshParts DEF CallOK, ClonedOK
  <2>2. QED
    BY <1>2, <2>1 DEF ClonedOK, Made, Moving, Removing
<1>9. PhaseOK'
  <2>1. wanted[Empty] = Absent /\ side = "from"
    BY <1>1, <1>2 DEF CallOK, PhaseOK, Moving
  <2>2. QED
    BY <1>2, <2>1 DEF PhaseOK
<1>10. QED
  BY <1>3, <1>4, <1>5, <1>7, <1>8, <1>9 DEF Inv1, CallOK

\* The file that is moved next.
LEMMA FileMoved ==
  ASSUME Inv1, pc \in Moving, todo # <<>>
  PROVE  /\ Current = todo[1].old /\ Current \in AFile /\ Current \in DOMAIN bucket["from"]
         /\ wanted[Current] # Absent /\ bucket["from"][Current] = wanted[Current]
         /\ bucket["from"][Current] \in Version
         /\ Current \in Keys /\ side = "from" /\ FileNodes(todo) /\ 1 \in DOMAIN todo
<1>1. DataOK /\ OtherTypes /\ FileNodes(todo) /\ side = "from"
  BY DEF Inv1, CallOK, TodoOK, PhaseOK, Moving
<1>2. Current = todo[1].old /\ 1 \in DOMAIN todo
  BY <1>1, CurrentParts
<1>3. Current \in AFile /\ Current \in DOMAIN bucket["from"] /\ wanted[Current] # Absent
  BY <1>1, <1>2 DEF FileNodes
<1>4. bucket["from"][Current] \in Version
  BY <1>1, <1>3, FileContent, FileParts
<1>5. bucket["from"][Current] = wanted[Current]
  BY <1>1, <1>3 DEF DataOK
<1>6. QED
  BY <1>1, <1>2, <1>3, <1>4, <1>5, FileParts

\* A copy is stored, whatever becomes of the entity.
LEMMA CopyStored ==
  ASSUME Inv1, pc \in Moving, todo # <<>>, NEW c \in Version, Store("to", Current, c),
         wanted' = wanted, side' \in {side, "to"}, ent' \in [AFile -> Entity],
         \A g \in AFile : Open(g)' => Open(g)
  PROVE  /\ DataOK' /\ bucket'["from"] = bucket["from"]
         /\ DOMAIN bucket'["to"] = DOMAIN bucket["to"] \cup {Current}
         /\ bucket'["to"][Current] = c
<1> DEFINE k == Current
<1>1. /\ k \in AFile /\ k \in Keys /\ k \in DOMAIN bucket["from"] /\ wanted[k] # Absent
      /\ side = "from"
  BY FileMoved
<1>2. DataOK /\ Store("to", k, c) /\ c # Marker
  BY FileParts DEF Inv1
<1> HIDE DEF k
<1>3. /\ DataOK' /\ bucket'["from"] = bucket["from"]
      /\ DOMAIN bucket'["to"] = DOMAIN bucket["to"] \cup {k} /\ bucket'["to"][k] = c
  BY <1>1, <1>2, DataStored
<1>4. QED
  BY <1>3 DEF k

\* The call goes on with the file that was copied.
LEMMA CopiedKeeps ==
  ASSUME Inv1, pc = "copy", todo # <<>>, pc' \in {"table", "unlink"}, pc' = "table" => ~nocopy,
         UNCHANGED <<side, result, nocopy, listing, moving, wanted, missed, budget>>,
         faults' \in 0 .. MaxFaults, stranded' \subseteq AFile, bucket'["from"] = bucket["from"],
         DOMAIN bucket'["to"] = DOMAIN bucket["to"] \cup {Current},
         bucket'["to"][Current] \in Version,
         ~nocopy => bucket'["to"][Current] = wanted[Current]
  PROVE  CallOK'
<1>1. CallOK /\ OtherTypes
  BY DEF Inv1, CallOK
<1>2. UNCHANGED <<head, marker, page, truncated, names, mv, todo, last>>
  BY DEF listing, moving
<1>3. /\ Current = todo[1].old /\ side = "from" /\ FileNodes(todo)
  BY FileMoved DEF Moving
<1>4. OtherTypes'
  BY <1>1, <1>2 DEF OtherTypes, Phase
<1>5. ListingOK'
  BY <1>1, <1>2 DEF CallOK, ListingOK
<1>6. TodoOK'
  <2>1. FileNodes(todo)'
    BY <1>2, <1>3, FilesStay DEF FileNodes
  <2>2. DirNodes(mv.dirs)'
    BY <1>1, <1>2 DEF CallOK, TodoOK, DirNodes
  <2>3. QED
    BY <1>2, <2>1, <2>2 DEF TodoOK, Moving, Removing
<1>7. ClonedOK'
  <2>1. \A i \in DOMAIN mv.dirs : Made(mv.dirs[i])
    BY <1>1 DEF CallOK, ClonedOK, Moving
  <2>2. QED
    BY <1>2, <2>1 DEF ClonedOK, Made, Moving, Removing
<1>8. PhaseOK'
  <2>1. wanted[Empty] # Absent => mv = NoNodes /\ head = NoObjects
    BY <1>1 DEF CallOK, PhaseOK
  <2>2. side = "from" /\ pc' \in Moving
    BY <1>3 DEF Moving
  <2>3. /\ todo[1].old \in DOMAIN bucket'["to"] /\ bucket'["to"][todo[1].old] \in Version
        /\ ~nocopy => bucket'["to"][todo[1].old] = wanted[todo[1].old]
    BY <1>3
  <2>4. QED
    BY <1>2, <2>1, <2>2, <2>3 DEF PhaseOK, Moving
<1>9. QED
  BY <1>4, <1>5, <1>6, <1>7, <1>8 DEF CallOK

\* A file is copied by the server.
LEMMA CopyKeeps ==
  ASSUME Inv1, Copy
  PROVE  Inv1'
<1>1. DataOK /\ CallOK
  BY DEF Inv1
<1> DEFINE c == bucket["from"][Current]
<1>2. /\ pc = "copy" /\ todo # <<>> /\ ~nocopy
      /\ UNCHANGED <<ent, nocopy, wanted, missed, stranded, budget>>
  BY DEF Copy, history
<1>3. \/ Store("to", Current, c) /\ Spend(TRUE) /\ Goto("table") /\ UNCHANGED <<listing, moving>>
      \/ (Store("to", Current, c) \/ UNCHANGED bucket) /\ Spend(FALSE) /\ Return("error")
  BY DEF Copy
<1>4. c \in Version /\ c = wanted[Current] /\ side = "from"
  BY <1>2, FileMoved DEF Moving
<1> HIDE DEF c
<1>5. /\ faults \in 0 .. MaxFaults /\ budget' \in Never .. MaxFaults
      /\ missed' \subseteq Name /\ stranded' \subseteq AFile
  BY <1>1, <1>2 DEF CallOK, OtherTypes
<1>6. faults' \in 0 .. MaxFaults
  BY <1>3, <1>5, SpendParts
<1>7. ASSUME Store("to", Current, c), side' \in {side, "to"}
      PROVE  /\ DataOK' /\ bucket'["from"] = bucket["from"]
             /\ DOMAIN bucket'["to"] = DOMAIN bucket["to"] \cup {Current}
             /\ bucket'["to"][Current] = c
  <2>1. ent' \in [AFile -> Entity] /\ \A g \in AFile : Open(g)' => Open(g)
    BY <1>1, <1>2 DEF DataOK, Open
  <2>2. pc \in Moving
    BY <1>2 DEF Moving
  <2>3. QED
    BY <1>2, <1>4, <1>7, <2>1, <2>2, CopyStored
<1>8. CASE (Store("to", Current, c) \/ UNCHANGED bucket) /\ Return("error")
  <2>1. CallOK' /\ side' \in {side, "to"}
    BY <1>1, <1>2, <1>5, <1>6, <1>8, Returned
  <2>2. DataOK'
    BY <1>1, <1>2, <1>7, <1>8, <2>1, DataSame
  <2>3. QED
    BY <2>1, <2>2 DEF Inv1
<1>9. CASE Store("to", Current, c) /\ Goto("table") /\ UNCHANGED <<listing, moving>>
  <2>1. pc' = "table" /\ UNCHANGED <<side, result>>
    BY <1>9 DEF Goto
  <2>2. /\ DataOK' /\ bucket'["from"] = bucket["from"]
        /\ DOMAIN bucket'["to"] = DOMAIN bucket["to"] \cup {Current}
        /\ bucket'["to"][Current] = c
    BY <1>7, <1>9, <2>1
  <2>3. CallOK'
    BY <1>2, <1>4, <1>5, <1>6, <1>9, <2>1, <2>2, CopiedKeeps
  <2>4. QED
    BY <2>2, <2>3 DEF Inv1
<1>10. QED
  BY <1>3, <1>8, <1>9

\* A file is uploaded under its new name.
LEMMA CopyByUploadKeeps ==
  ASSUME Inv1, CopyByUpload
  PROVE  Inv1'
<1>1. DataOK /\ CallOK
  BY DEF Inv1
<1> DEFINE own == Open(Current) /\ ent[Current].side = "from"
           c   == IF own THEN ent[Current].data ELSE bucket["from"][Current]
<1>2. /\ pc = "copy" /\ todo # <<>> /\ nocopy
      /\ UNCHANGED <<nocopy, wanted, missed, budget>>
  BY DEF CopyByUpload
<1>3. \/ /\ Store("to", Current, c) /\ Spend(TRUE)
         /\ Goto("unlink") /\ UNCHANGED <<listing, moving>>
         /\ ent' \in {ent, [ent EXCEPT ![Current].dirty = FALSE]}
         /\ stranded' \in {stranded, stranded \cup {Current}}
      \/ /\ Store("to", Current, c) \/ UNCHANGED bucket
         /\ Spend(FALSE) /\ Return("error") /\ UNCHANGED <<ent, stranded>>
  BY DEF CopyByUpload
<1>4. bucket["from"][Current] \in Version /\ Current \in AFile /\ side = "from"
  BY <1>2, FileMoved DEF Moving
<1>5. ent \in [AFile -> Entity]
  BY <1>1 DEF DataOK
<1>6. c \in Version
  BY <1>4, <1>5, EntityFields
<1> HIDE DEF c, own
<1>7. /\ faults \in 0 .. MaxFaults /\ budget' \in Never .. MaxFaults
      /\ missed' \subseteq Name /\ stranded \subseteq AFile
  BY <1>1, <1>2 DEF CallOK, OtherTypes
<1>8. faults' \in 0 .. MaxFaults /\ stranded' \subseteq AFile
  BY <1>3, <1>4, <1>7, SpendParts
<1>9. ent' \in [AFile -> Entity] /\ \A g \in AFile : ent'[g].side = ent[g].side
  <2> DEFINE e == [side |-> ent[Current].side, dirty |-> FALSE, data |-> ent[Current].data]
  <2>1. e \in Entity /\ e.side = ent[Current].side
    BY <1>4, <1>5, EntityFields DEF Entity
  <2>2. [ent EXCEPT ![Current].dirty = FALSE] = [ent EXCEPT ![Current] = e]
    BY <1>4, <1>5, EntityFields
  <2> HIDE DEF e
  <2>3. /\ [ent EXCEPT ![Current] = e] \in [AFile -> Entity]
        /\ \A g \in AFile : [ent EXCEPT ![Current] = e][g].side = ent[g].side
    BY <1>4, <1>5, <2>1, EntityParts
  <2>4. QED
    BY <1>3, <1>5, <2>2, <2>3
<1>10. \A g \in AFile : Open(g)' => Open(g)
  BY <1>9 DEF Open
<1>11. ASSUME Store("to", Current, c), side' \in {side, "to"}
       PROVE  /\ DataOK' /\ bucket'["from"] = bucket["from"]
              /\ DOMAIN bucket'["to"] = DOMAIN bucket["to"] \cup {Current}
              /\ bucket'["to"][Current] = c
  <2>1. pc \in Moving
    BY <1>2 DEF Moving
  <2>2. QED
    BY <1>2, <1>6, <1>9, <1>10, <1>11, <2>1, CopyStored
<1>12. CASE (Store("to", Current, c) \/ UNCHANGED bucket) /\ Return("error") /\ UNCHANGED ent
  <2>1. CallOK' /\ side' \in {side, "to"}
    BY <1>1, <1>2, <1>7, <1>8, <1>12, Returned
  <2>2. DataOK'
    BY <1>1, <1>2, <1>11, <1>12, <2>1, DataSame
  <2>3. QED
    BY <2>1, <2>2 DEF Inv1
<1>13. CASE Store("to", Current, c) /\ Goto("unlink") /\ UNCHANGED <<listing, moving>>
  <2>1. pc' = "unlink" /\ UNCHANGED <<side, result>>
    BY <1>13 DEF Goto
  <2>2. /\ DataOK' /\ bucket'["from"] = bucket["from"]
        /\ DOMAIN bucket'["to"] = DOMAIN bucket["to"] \cup {Current}
        /\ bucket'["to"][Current] = c
    BY <1>11, <1>13, <2>1
  <2>3. CallOK'
    BY <1>2, <1>6, <1>7, <1>8, <1>13, <2>1, <2>2, CopiedKeeps
  <2>4. QED
    BY <2>2, <2>3 DEF Inv1
<1>14. QED
  BY <1>3, <1>12, <1>13

\* FdManager::Rename.
LEMMA MoveEntityKeeps ==
  ASSUME Inv1, MoveEntity
  PROVE  Inv1'
<1>1. DataOK /\ CallOK /\ OtherTypes
  BY DEF Inv1, CallOK
<1>2. /\ pc = "table" /\ pc' = "unlink"
      /\ ent' \in {ent, [ent EXCEPT ![Current].side = "to"]} /\ (ent' # ent => Open(Current))
      /\ UNCHANGED <<bucket, side, nocopy, result, head, marker, page, truncated, names, faults>>
      /\ UNCHANGED <<mv, todo, last, wanted, missed, stranded, budget>>
  BY DEF MoveEntity, Goto, listing, moving, history
<1>3. todo # <<>>
  BY <1>1, <1>2 DEF CallOK, TodoOK
<1>4. /\ Current \in AFile /\ wanted[Current] # Absent /\ side = "from" /\ FileNodes(todo)
  BY <1>2, <1>3, FileMoved DEF Moving
<1>5. ent \in [AFile -> Entity]
  BY <1>1 DEF DataOK
<1>6. /\ ent' \in [AFile -> Entity]
      /\ \A g \in AFile : g # Current => ent'[g] = ent[g]
  <2> DEFINE e == [side |-> "to", dirty |-> ent[Current].dirty, data |-> ent[Current].data]
  <2>1. e \in Entity
    BY <1>4, <1>5, EntityFields, FileParts DEF Entity
  <2>2. [ent EXCEPT ![Current].side = "to"] = [ent EXCEPT ![Current] = e]
    BY <1>4, <1>5, EntityFields
  <2> HIDE DEF e
  <2>3. /\ [ent EXCEPT ![Current] = e] \in [AFile -> Entity]
        /\ \A g \in AFile : g # Current => [ent EXCEPT ![Current] = e][g] = ent[g]
    BY <1>4, <1>5, <2>1, EntityParts
  <2>4. QED
    BY <1>2, <1>5, <2>2, <2>3
<1>7. \A g \in AFile : Open(g)' => wanted[g] # Absent
  BY <1>1, <1>4, <1>6 DEF DataOK, Open
<1>8. DataOK'
  BY <1>1, <1>2, <1>6, <1>7, DataEntities
<1>9. OtherTypes'
  BY <1>1, <1>2 DEF OtherTypes, Phase
<1>10. ListingOK'
  BY <1>1, <1>2 DEF CallOK, ListingOK
<1>11. TodoOK'
  <2>1. FileNodes(todo)'
    BY <1>2, <1>4 DEF FileNodes
  <2>2. DirNodes(mv.dirs)'
    BY <1>1, <1>2 DEF CallOK, TodoOK, DirNodes
  <2>3. QED
    BY <1>2, <1>3, <2>1, <2>2 DEF TodoOK, Moving, Removing
<1>12. ClonedOK'
  BY <1>1, <1>2 DEF CallOK, ClonedOK, Made, Moving, Removing
<1>13. PhaseOK'
  BY <1>1, <1>2, <1>4 DEF CallOK, PhaseOK, Moving
<1>14. QED
  BY <1>8, <1>9, <1>10, <1>11, <1>12, <1>13 DEF Inv1, CallOK

\* The old object of a file is deleted once it has been copied.
LEMMA DataUnlinked ==
  ASSUME Inv1, pc = "unlink", Drop("from", Current), UNCHANGED ent, side' \in {side, "to"},
         wanted' = IF nocopy THEN [wanted EXCEPT ![Current] = bucket["to"][Current]] ELSE wanted
  PROVE  /\ DataOK' /\ bucket'["to"] = bucket["to"]
         /\ DOMAIN bucket'["from"] = DOMAIN bucket["from"] \ {Current}
         /\ \A g \in AFile : wanted'[g] # Absent <=> wanted[g] # Absent
<1>1. DataOK /\ CallOK
  BY DEF Inv1
<1> DEFINE k == Current
<1>2. todo # <<>>
  BY <1>1 DEF CallOK, TodoOK
<1>3. k \in AFile /\ wanted[k] # Absent /\ side = "from" /\ k = todo[1].old
  BY <1>2, FileMoved DEF Moving
<1>4. /\ k \in DOMAIN bucket["to"] /\ bucket["to"][k] \in Version
      /\ ~nocopy => bucket["to"][k] = wanted[k]
  BY <1>1, <1>3 DEF CallOK, PhaseOK
<1>5. /\ DOMAIN bucket' = Side /\ bucket'["to"] = bucket["to"]
      /\ DOMAIN bucket'["from"] = DOMAIN bucket["from"] \ {k}
      /\ \A x \in DOMAIN bucket["from"] : x # k => bucket'["from"][x] = bucket["from"][x]
  BY <1>1, DropParts, FileParts DEF DataOK
<1>6. wanted' = IF nocopy THEN [wanted EXCEPT ![k] = bucket["to"][k]] ELSE wanted
  OBVIOUS
<1> HIDE DEF k
<1>7. \A s \in Side : s = "from" \/ s = "to"
  BY DEF Side
<1>8. wanted \in [AFile -> Version \cup {Absent}] /\ ent \in [AFile -> Entity]
  BY <1>1 DEF DataOK
<1>9. /\ wanted' \in [AFile -> Version \cup {Absent}] /\ wanted'[k] = bucket["to"][k]
      /\ \A g \in AFile : g # k => wanted'[g] = wanted[g]
  BY <1>3, <1>4, <1>6, <1>8
<1>10. \A g \in AFile : wanted'[g] # Absent <=> wanted[g] # Absent
  BY <1>3, <1>4, <1>9, FileParts
<1>11. \A s \in Side : /\ DOMAIN bucket'[s] \subseteq DOMAIN bucket[s]
                       /\ \A x \in DOMAIN bucket'[s] : bucket'[s][x] = bucket[s][x]
  BY <1>5, <1>7
<1>12. \A s \in Side : /\ DOMAIN bucket'[s] \subseteq Keys
                       /\ \A x \in DOMAIN bucket'[s] : bucket'[s][x] \in Version \cup {Marker}
  BY <1>1, <1>11 DEF DataOK
<1>13. \A s \in Side : \A x \in DOMAIN bucket'[s] :
         \/ bucket'[s][x] = Marker /\ \E d \in Dir, form \in Form : x = Key(d, form)
         \/ bucket'[s][x] # Marker /\ x \in AFile /\ wanted'[x] # Absent
  <2>1. ASSUME NEW s \in Side, NEW x \in DOMAIN bucket'[s]
        PROVE  \/ bucket'[s][x] = Marker /\ \E d \in Dir, form \in Form : x = Key(d, form)
               \/ bucket'[s][x] # Marker /\ x \in AFile /\ wanted'[x] # Absent
    <3>1. x \in DOMAIN bucket[s] /\ bucket'[s][x] = bucket[s][x]
      BY <1>11
    <3>2. \/ bucket[s][x] = Marker /\ \E d \in Dir, form \in Form : x = Key(d, form)
          \/ bucket[s][x] # Marker /\ x \in AFile /\ wanted[x] # Absent
      BY <1>1, <3>1 DEF DataOK
    <3>3. QED
      BY <1>10, <3>1, <3>2
  <2>2. QED
    BY <2>1
<1>14. \A g \in AFile : Open(g)' => wanted'[g] # Absent
  BY <1>1, <1>10 DEF DataOK, Open
<1>15. ASSUME wanted'[Empty] # Absent
       PROVE  /\ \A s \in Side : DOMAIN bucket'[s] \subseteq {Empty}
              /\ \A s \in Side : Empty \in DOMAIN bucket'[s] => bucket'[s][Empty] # Marker
              /\ \A g \in File : wanted'[g] = Absent
  <2>1. wanted[Empty] # Absent
    BY <1>10, <1>15, FileParts
  <2>2. /\ \A s \in Side : DOMAIN bucket[s] \subseteq {Empty}
        /\ \A s \in Side : Empty \in DOMAIN bucket[s] => bucket[s][Empty] # Marker
        /\ \A g \in File : wanted[g] = Absent
    BY <1>1, <2>1 DEF DataOK
  <2>3. QED
    BY <1>10, <1>11, <2>2, FileParts
<1>16. ASSUME NEW g \in AFile, g \in DOMAIN bucket'["from"], wanted'[g] # Absent
       PROVE  bucket'["from"][g] = wanted'[g]
  <2>1. g # k /\ g \in DOMAIN bucket["from"] /\ bucket'["from"][g] = bucket["from"][g]
    BY <1>5, <1>16
  <2>2. bucket["from"][g] = wanted[g]
    BY <1>1, <1>3, <1>10, <1>16, <2>1 DEF DataOK
  <2>3. QED
    BY <1>9, <2>1, <2>2
<1>17. ASSUME NEW g \in AFile, wanted'[g] # Absent
       PROVE  \E s \in Side : g \in DOMAIN bucket'[s] /\ bucket'[s][g] = wanted'[g]
  <2>1. CASE g = k
    BY <1>4, <1>5, <1>9, <2>1, FileParts
  <2>2. CASE g # k
    <3>1. PICK s \in Side : g \in DOMAIN bucket[s] /\ bucket[s][g] = wanted[g]
      BY <1>1, <1>10, <1>17 DEF DataOK, FilesAreKept
    <3>2. g \in DOMAIN bucket'[s] /\ bucket'[s][g] = bucket[s][g]
      BY <1>5, <1>7, <2>2, <3>1
    <3>3. QED
      BY <1>9, <2>2, <3>1, <3>2
  <2>3. QED
    BY <2>1, <2>2
<1>18. side' \in Side
  BY <1>3, FileParts
<1>19. DataOK'
  BY <1>5, <1>8, <1>9, <1>12, <1>13, <1>14, <1>15, <1>16, <1>17, <1>18 DEF DataOK, FilesAreKept
<1>20. QED
  BY <1>5, <1>10, <1>19 DEF k

\* s3fs_unlink.
LEMMA UnlinkKeeps ==
  ASSUME Inv1, Unlink
  PROVE  Inv1'
<1>1. DataOK /\ CallOK /\ OtherTypes
  BY DEF Inv1, CallOK
<1> DEFINE Deleted == /\ Drop("from", Current)
                      /\ wanted' = IF nocopy
                                     THEN [wanted EXCEPT ![Current] = bucket["to"][Current]]
                                     ELSE wanted
<1>2. /\ pc = "unlink" /\ UNCHANGED <<ent, nocopy, missed, stranded, budget>>
  BY DEF Unlink
<1>3. \/ Deleted /\ Spend(TRUE) /\ Goto("copy") /\ todo' = Tail(todo) /\ UNCHANGED <<listing, mv, last>>
      \/ (Deleted \/ UNCHANGED <<bucket, wanted>>) /\ Spend(FALSE) /\ Return("error")
  BY DEF Unlink
<1>4. todo # <<>>
  BY <1>1, <1>2 DEF CallOK, TodoOK
<1>5. /\ faults \in 0 .. MaxFaults /\ budget' \in Never .. MaxFaults
      /\ missed' \subseteq Name /\ stranded' \subseteq AFile
  BY <1>1, <1>2 DEF OtherTypes
<1>6. faults' \in 0 .. MaxFaults
  BY <1>3, <1>5, SpendParts
<1>7. ASSUME Deleted, side' \in {side, "to"}
      PROVE  /\ DataOK' /\ bucket'["to"] = bucket["to"]
             /\ DOMAIN bucket'["from"] = DOMAIN bucket["from"] \ {Current}
             /\ \A g \in AFile : wanted'[g] # Absent <=> wanted[g] # Absent
  BY <1>2, <1>7, DataUnlinked
<1> HIDE DEF Deleted
<1>8. CASE (Deleted \/ UNCHANGED <<bucket, wanted>>) /\ Return("error")
  <2>1. CallOK' /\ side' \in {side, "to"}
    BY <1>1, <1>2, <1>5, <1>6, <1>8, Returned
  <2>2. DataOK'
    BY <1>1, <1>2, <1>7, <1>8, <2>1, DataSame
  <2>3. QED
    BY <2>1, <2>2 DEF Inv1
<1>9. CASE Deleted /\ Goto("copy") /\ todo' = Tail(todo) /\ UNCHANGED <<listing, mv, last>>
  <2>1. /\ pc' = "copy" /\ UNCHANGED <<side, result, nocopy>>
        /\ UNCHANGED <<head, marker, page, truncated, names, mv, last>>
    BY <1>2, <1>9 DEF Goto, listing
  <2>2. /\ DataOK' /\ bucket'["to"] = bucket["to"]
        /\ DOMAIN bucket'["from"] = DOMAIN bucket["from"] \ {Current}
        /\ \A g \in AFile : wanted'[g] # Absent <=> wanted[g] # Absent
    BY <1>7, <1>9, <2>1
  <2>3. /\ Current = todo[1].old /\ side = "from" /\ FileNodes(todo) /\ 1 \in DOMAIN todo
    BY <1>2, <1>4, FileMoved DEF Moving
  <2>4. OtherTypes'
    BY <1>1, <1>2, <1>4, <1>5, <1>6, <1>9, <2>1, CurrentParts DEF OtherTypes, Phase
  <2>5. ListingOK'
    BY <1>1, <2>1 DEF CallOK, ListingOK
  <2>6. TodoOK'
    <3> DEFINE tail == Tail(todo)
    <3>1. \A i \in DOMAIN tail :
            i + 1 \in DOMAIN todo /\ tail[i] = todo[i + 1] /\ i + 1 # 1
      BY <1>1, <1>4, CurrentParts
    <3>2. DOMAIN tail \subseteq Nat
      <4>1. tail \in Seq(Node)
        BY <1>1, <1>4, CurrentParts
      <4> HIDE DEF tail
      <4>2. QED
        BY <4>1
    <3> HIDE DEF tail
    <3>3. \A i \in DOMAIN todo :
            /\ todo[i].old = todo[i].new /\ todo[i].old \in AFile /\ ~todo[i].is_dir
            /\ todo[i].old \in DOMAIN bucket["from"] /\ wanted[todo[i].old] # Absent
      BY <2>3 DEF FileNodes
    <3>4. \A i, j \in DOMAIN todo : todo[i].old = todo[j].old => i = j
      BY <2>3 DEF FileNodes
    <3>5. \A i \in DOMAIN tail :
            /\ tail[i].old = tail[i].new /\ tail[i].old \in AFile /\ ~tail[i].is_dir
            /\ tail[i].old \in DOMAIN bucket'["from"] /\ wanted'[tail[i].old] # Absent
      BY <2>2, <2>3, <3>1, <3>3, <3>4
    <3>6. \A i, j \in DOMAIN tail : tail[i].old = tail[j].old => i = j
      BY <3>1, <3>2, <3>4
    <3>7. todo' = tail
      BY <1>9 DEF tail
    <3>8. FileNodes(todo)'
      BY <3>5, <3>6, <3>7 DEF FileNodes
    <3>9. DirNodes(mv.dirs)'
      BY <1>1, <2>1 DEF CallOK, TodoOK, DirNodes
    <3>10. QED
      BY <2>1, <3>8, <3>9 DEF TodoOK, Moving, Removing
  <2>7. ClonedOK'
    BY <1>1, <1>2, <2>1, <2>2 DEF CallOK, ClonedOK, Made, Moving, Removing
  <2>8. PhaseOK'
    <3>1. wanted[Empty] # Absent => mv = NoNodes /\ head = NoObjects
      BY <1>1 DEF CallOK, PhaseOK
    <3>2. wanted'[Empty] # Absent => mv = NoNodes /\ head = NoObjects
      BY <2>2, <3>1, FileParts
    <3>3. QED
      BY <2>1, <2>3, <3>2 DEF PhaseOK, Moving
  <2>9. QED
    BY <2>2, <2>4, <2>5, <2>6, <2>7, <2>8 DEF Inv1, CallOK
<1>10. QED
  BY <1>3, <1>8, <1>9

\* The files are moved.
LEMMA MovedKeeps ==
  ASSUME Inv1, Moved
  PROVE  Inv1'
<1>1. DataOK /\ CallOK /\ OtherTypes
  BY DEF Inv1, CallOK
<1>2. /\ pc = "copy" /\ UNCHANGED <<bucket, ent, nocopy, faults, wanted, missed, stranded, budget>>
  BY DEF Moved, history
<1>3. \/ mv = NoNodes /\ head = NoObjects /\ Return("ok")
      \/ /\ ~(mv = NoNodes /\ head = NoObjects)
         /\ Goto("rmdir") /\ todo' = Reverse(mv.dirs) /\ UNCHANGED <<listing, mv, last>>
  BY DEF Moved
<1>4. CASE Return("ok")
  <2>1. CallOK' /\ side' \in {side, "to"}
    BY <1>1, <1>2, <1>4, Returned DEF OtherTypes
  <2>2. DataOK'
    BY <1>1, <1>2, <2>1, DataSame
  <2>3. QED
    BY <2>1, <2>2 DEF Inv1
<1>5. CASE /\ ~(mv = NoNodes /\ head = NoObjects)
           /\ Goto("rmdir") /\ todo' = Reverse(mv.dirs) /\ UNCHANGED <<listing, mv, last>>
  <2>1. /\ pc' = "rmdir" /\ UNCHANGED <<side, result>>
        /\ UNCHANGED <<head, marker, page, truncated, names, mv, last>>
    BY <1>5 DEF Goto, listing
  <2> DEFINE dirs == mv.dirs
             back == Reverse(dirs)
  <2>2. dirs \in Seq(Node)
    BY <1>1 DEF OtherTypes
  <2>3. /\ DirNodes(dirs) /\ \A i \in DOMAIN dirs : Made(dirs[i])
    BY <1>1, <1>2 DEF CallOK, TodoOK, ClonedOK, Moving
  <2> HIDE DEF dirs
  <2>4. back \in Seq(Node) /\ \A i \in DOMAIN back : \E j \in DOMAIN dirs : back[i] = dirs[j]
    <3>1. /\ DOMAIN dirs = 1 .. Len(dirs) /\ Len(dirs) \in Nat
          /\ back \in Seq(Node) /\ Len(back) = Len(dirs)
          /\ \A i \in 1 .. Len(dirs) : /\ back[i] = dirs[Len(dirs) - i + 1]
                                       /\ Len(dirs) - i + 1 \in 1 .. Len(dirs)
      BY <2>2, ListParts
    <3> HIDE DEF back
    <3>2. DOMAIN back = 1 .. Len(dirs)
      BY <3>1
    <3>3. QED
      BY <3>1, <3>2
  <2>5. todo' = back
    BY <1>5 DEF dirs
  <2> HIDE DEF back
  <2>6. DataOK'
    BY <1>1, <1>2, <2>1, DataSame
  <2>7. OtherTypes'
    BY <1>1, <1>2, <2>1, <2>4, <2>5 DEF OtherTypes, Phase
  <2>8. ListingOK'
    BY <1>1, <2>1 DEF CallOK, ListingOK
  <2>9. TodoOK'
    <3>1. DirNodes(mv.dirs)'
      BY <1>1, <2>1 DEF CallOK, TodoOK, DirNodes
    <3>2. DirNodes(todo)'
      BY <2>3, <2>4, <2>5 DEF DirNodes
    <3>3. QED
      BY <2>1, <3>1, <3>2 DEF TodoOK, Moving, Removing
  <2>10. ClonedOK'
    <3>1. \A i \in DOMAIN todo' : Key(todo'[i].new, "slash") \in DOMAIN bucket["to"]
      BY <2>3, <2>4, <2>5 DEF Made
    <3>2. QED
      BY <1>2, <2>1, <3>1 DEF ClonedOK, Made, Moving, Removing
  <2>11. PhaseOK'
    <3>1. wanted[Empty] = Absent /\ side = "from"
      BY <1>1, <1>2, <1>5 DEF CallOK, PhaseOK
    <3>2. QED
      BY <1>2, <2>1, <3>1 DEF PhaseOK
  <2>12. QED
    BY <2>6, <2>7, <2>8, <2>9, <2>10, <2>11 DEF Inv1, CallOK
<1>6. QED
  BY <1>3, <1>4, <1>5

\* What s3fs_rmdir deletes is no file, but for the name that may be both.
LEMMA RemovedParts ==
  ASSUME Inv1, pc \in Removing, todo # <<>>,
         NEW k \in {Current, Key(Current, "slash"), Key(Current, "folder")}
  PROVE  /\ todo[1].new \in Dir /\ Current = todo[1].old /\ wanted[Empty] = Absent /\ side = "from"
         /\ Current \in {todo[1].new, Append(todo[1].new, Folder)}
         /\ \A f \in AFile : f = k => wanted[f] = Absent
<1>1. /\ OtherTypes /\ DirNodes(todo) /\ wanted[Empty] = Absent /\ side = "from"
  BY DEF Inv1, CallOK, TodoOK, PhaseOK, Moving, Removing
<1>2. 1 \in DOMAIN todo /\ Current = todo[1].old
  BY <1>1, CurrentParts
<1> DEFINE d == todo[1].new
<1>3. d \in Dir /\ Current \in {d, Append(d, Folder)}
  BY <1>1, <1>2 DEF DirNodes
<1> HIDE DEF d
<1>4. d \in Name /\ d \in Names
  BY <1>3, FileParts, NameParts
<1>5. Current \in Names
  BY <1>3, <1>4, AppendParts
<1>6. ASSUME NEW f \in AFile, f = k
      PROVE  f = Empty
  <2>1. f \in Name /\ f \in Bare
    BY FileParts, BareParts
  <2>2. ~EndsIn(f, Slash) /\ ~EndsIn(f, Folder)
    BY <2>1 DEF Bare
  <2>3. CASE k \in {Key(Current, "slash"), Key(Current, "folder")}
    <3>1. k = Append(Current, Slash) \/ k = Append(Current, Folder)
      BY <2>3 DEF Key
    <3>2. QED
      BY <1>5, <1>6, <2>2, <3>1, AppendParts
  <2>4. CASE k = Current
    <3>1. CASE Current = d
      <4>1. f = Key(d, "plain")
        BY <1>4, <1>6, <2>4, <3>1, KeyParts
      <4>2. QED
        BY <1>3, <4>1, DirectoryKey DEF Form
    <3>2. CASE Current = Append(d, Folder)
      BY <1>4, <1>6, <2>2, <2>4, <3>2, AppendParts
    <3>3. QED
      BY <1>3, <3>1, <3>2
  <2>5. QED
    BY <2>3, <2>4
<1>7. QED
  BY <1>1, <1>2, <1>3, <1>6 DEF d

\* A request of s3fs_rmdir.
LEMMA RemovalKeeps ==
  ASSUME Inv1, pc \in Removing, pc' \in Removing, todo # <<>>,
         NEW k \in {Current, Key(Current, "slash"), Key(Current, "folder")},
         Drop("from", k) \/ UNCHANGED bucket,
         UNCHANGED <<side, result, ent, nocopy, listing, mv, todo, wanted, stranded, budget>>,
         faults' \in 0 .. MaxFaults, missed' \subseteq Name, last' \in {"ok", "error"}
  PROVE  Inv1' /\ bucket'["to"] = bucket["to"]
<1>1. DataOK /\ CallOK /\ OtherTypes
  BY DEF Inv1, CallOK
<1>2. UNCHANGED <<head, marker, page, truncated, names>>
  BY DEF listing
<1>3. /\ wanted[Empty] = Absent /\ side = "from" /\ \A f \in AFile : f = k => wanted[f] = Absent
  BY RemovedParts
<1>4. DataOK' /\ bucket'["to"] = bucket["to"]
  BY <1>1, <1>3, DataDropped, DataSame
<1>5. OtherTypes'
  BY <1>1, <1>2 DEF OtherTypes, Phase, Removing
<1>6. ListingOK'
  BY <1>1, <1>2 DEF CallOK, ListingOK, Removing
<1>7. TodoOK'
  <2>1. DirNodes(mv.dirs)' /\ DirNodes(todo)'
    BY <1>1 DEF CallOK, TodoOK, DirNodes, Removing
  <2>2. QED
    BY <2>1 DEF TodoOK, Moving, Removing
<1>8. ClonedOK'
  BY <1>1, <1>4 DEF CallOK, ClonedOK, Made, Moving, Removing
<1>9. PhaseOK'
  BY <1>2, <1>3 DEF PhaseOK, Moving, Removing
<1>10. QED
  BY <1>4, <1>5, <1>6, <1>7, <1>8, <1>9 DEF Inv1, CallOK

\* What a DELETE changes.
LEMMA DeleteParts ==
  ASSUME Inv1, pc \in Removing, todo # <<>>, NEW k, Delete(k) \/ Overlook
  PROVE  /\ Drop("from", k) \/ UNCHANGED bucket
         /\ faults' \in 0 .. MaxFaults /\ missed' \subseteq Name /\ last' \in {"ok", "error"}
<1>1. OtherTypes
  BY DEF Inv1, CallOK
<1>2. /\ missed \subseteq Name /\ last \in {"ok", "error"} /\ faults \in 0 .. MaxFaults
      /\ Head(todo).new \in Name
  BY <1>1, CurrentParts DEF OtherTypes
<1>3. Spend(TRUE) \/ Spend(FALSE)
  BY DEF Delete, Overlook
<1>4. faults' \in 0 .. MaxFaults
  BY <1>2, <1>3, SpendParts
<1>5. QED
  BY <1>2, <1>4 DEF Delete, Overlook

\* The next directory.
LEMMA NextDirectoryKeeps ==
  ASSUME Inv1, pc \in {"rmdir", "rmend"}, todo # <<>>, Goto("rmdir"), todo' = Tail(todo),
         UNCHANGED <<bucket, ent, nocopy, wanted, missed, stranded, budget>>,
         UNCHANGED <<faults, listing, mv, last>>
  PROVE  Inv1'
<1>1. DataOK /\ CallOK /\ OtherTypes
  BY DEF Inv1, CallOK
<1>2. /\ pc' = "rmdir" /\ UNCHANGED <<side, result>>
      /\ UNCHANGED <<head, marker, page, truncated, names, mv, last>>
  BY DEF Goto, listing
<1>3. /\ wanted[Empty] = Absent /\ side = "from" /\ DirNodes(todo)
      /\ \A i \in DOMAIN todo : Made(todo[i])
  BY <1>1 DEF CallOK, PhaseOK, TodoOK, ClonedOK, Moving, Removing
<1> DEFINE tail == Tail(todo)
<1>4. tail \in Seq(Node) /\ \A i \in DOMAIN tail : \E j \in DOMAIN todo : tail[i] = todo[j]
  BY <1>1, CurrentParts
<1>5. todo' = tail
  OBVIOUS
<1> HIDE DEF tail
<1>6. DataOK'
  BY <1>1, <1>2, DataSame
<1>7. OtherTypes'
  BY <1>1, <1>2, <1>4, <1>5 DEF OtherTypes, Phase
<1>8. ListingOK'
  BY <1>1, <1>2 DEF CallOK, ListingOK
<1>9. TodoOK'
  <2>1. DirNodes(mv.dirs)'
    BY <1>1, <1>2 DEF CallOK, TodoOK, DirNodes
  <2>2. DirNodes(todo)'
    BY <1>3, <1>4, <1>5 DEF DirNodes
  <2>3. QED
    BY <1>2, <2>1, <2>2 DEF TodoOK, Moving, Removing
<1>10. ClonedOK'
  <2>1. \A i \in DOMAIN todo' : Key(todo'[i].new, "slash") \in DOMAIN bucket["to"]
    BY <1>3, <1>4, <1>5 DEF Made
  <2>2. QED
    BY <1>2, <2>1 DEF ClonedOK, Made, Moving, Removing
<1>11. PhaseOK'
  BY <1>2, <1>3 DEF PhaseOK
<1>12. QED
  BY <1>6, <1>7, <1>8, <1>9, <1>10, <1>11 DEF Inv1, CallOK

\* s3fs_rmdir looks whether the directory is empty.
LEMMA RmdirKeeps ==
  ASSUME Inv1, Rmdir
  PROVE  Inv1'
<1>1. DataOK /\ CallOK /\ OtherTypes
  BY DEF Inv1, CallOK
<1>2. /\ pc = "rmdir" /\ todo # <<>>
      /\ UNCHANGED <<bucket, ent, nocopy, wanted, missed, stranded, budget>>
  BY DEF Rmdir, history
<1>3. \/ todo' = Tail(todo) /\ Goto("rmdir") /\ UNCHANGED <<faults, listing, mv, last>>
      \/ Spend(TRUE) /\ Goto("rmslash") /\ UNCHANGED <<listing, moving>>
      \/ Spend(Beneath(Current) # {}) /\ Return("error")
  BY DEF Rmdir
<1>4. /\ faults \in 0 .. MaxFaults /\ budget' \in Never .. MaxFaults
      /\ missed' \subseteq Name /\ stranded' \subseteq AFile /\ last \in {"ok", "error"}
  BY <1>1, <1>2 DEF OtherTypes
<1>5. faults' \in 0 .. MaxFaults
  <2> DEFINE right == Beneath(Current) # {}
  <2>1. right \in BOOLEAN
    OBVIOUS
  <2>2. UNCHANGED faults \/ Spend(TRUE) \/ Spend(right)
    BY <1>3
  <2> HIDE DEF right
  <2>3. QED
    BY <1>4, <2>1, <2>2, SpendParts
<1>6. CASE todo' = Tail(todo) /\ Goto("rmdir") /\ UNCHANGED <<faults, listing, mv, last>>
  BY <1>2, <1>6, NextDirectoryKeeps
<1>7. CASE Goto("rmslash") /\ UNCHANGED <<listing, moving>>
  <2>1. /\ pc \in Removing /\ pc' \in Removing /\ UNCHANGED <<side, result, mv, todo, last>>
    BY <1>2, <1>7 DEF Goto, moving, Removing
  <2>2. Current \in {Current, Key(Current, "slash"), Key(Current, "folder")}
    OBVIOUS
  <2>3. QED
    BY <1>2, <1>4, <1>5, <1>7, <2>1, <2>2, RemovalKeeps
<1>8. CASE Return("error")
  <2>1. CallOK' /\ side' \in {side, "to"}
    BY <1>1, <1>2, <1>4, <1>5, <1>8, Returned
  <2>2. DataOK'
    BY <1>1, <1>2, <2>1, DataSame
  <2>3. QED
    BY <2>1, <2>2 DEF Inv1
<1>9. QED
  BY <1>3, <1>6, <1>7, <1>8

\* Its DELETE of "dir/".
LEMMA RmSlashKeeps ==
  ASSUME Inv1, RmSlash
  PROVE  Inv1'
<1>1. /\ pc = "rmslash" /\ Delete(Key(Current, "slash")) /\ pc' = "rmplain"
      /\ UNCHANGED <<side, result, ent, nocopy, listing, mv, todo, wanted, stranded, budget>>
  BY DEF RmSlash, Goto
<1>2. pc \in Removing /\ pc' \in Removing /\ todo # <<>>
  BY <1>1 DEF Inv1, CallOK, TodoOK, Removing
<1> DEFINE k == Key(Current, "slash")
<1>3. k \in {Current, Key(Current, "slash"), Key(Current, "folder")}
  OBVIOUS
<1> HIDE DEF k
<1>4. Delete(k)
  BY <1>1 DEF k
<1>5. /\ Drop("from", k) \/ UNCHANGED bucket
      /\ faults' \in 0 .. MaxFaults /\ missed' \subseteq Name /\ last' \in {"ok", "error"}
  BY <1>2, <1>4, DeleteParts
<1>6. QED
  BY <1>1, <1>2, <1>3, <1>5, RemovalKeeps

\* Its DELETE of "dir".
LEMMA RmPlainKeeps ==
  ASSUME Inv1, RmPlain
  PROVE  Inv1'
<1>1. /\ pc = "rmplain" /\ pc' = "rmfolder"
      /\ Delete(Current) \/ Overlook \/ UNCHANGED <<bucket, faults, last, missed>>
      /\ UNCHANGED <<side, result, ent, nocopy, listing, mv, todo, wanted, stranded, budget>>
  BY DEF RmPlain, Goto
<1>2. pc \in Removing /\ pc' \in Removing /\ todo # <<>>
  BY <1>1 DEF Inv1, CallOK, TodoOK, Removing
<1> DEFINE k == Current
<1>3. k \in {Current, Key(Current, "slash"), Key(Current, "folder")}
  OBVIOUS
<1> HIDE DEF k
<1>4. Delete(k) \/ Overlook \/ UNCHANGED <<bucket, faults, last, missed>>
  BY <1>1 DEF k
<1>5. /\ Drop("from", k) \/ UNCHANGED bucket
      /\ faults' \in 0 .. MaxFaults /\ missed' \subseteq Name /\ last' \in {"ok", "error"}
  BY <1>2, <1>4, DeleteParts DEF Inv1, CallOK, OtherTypes
<1>6. QED
  BY <1>1, <1>2, <1>3, <1>5, RemovalKeeps

\* Its DELETE of "dir_$folder$".
LEMMA RmFolderKeeps ==
  ASSUME Inv1, RmFolder
  PROVE  Inv1'
<1>1. /\ pc = "rmfolder" /\ pc' = "rmend"
      /\ \/ Delete(Key(Current, "folder")) \/ Overlook
         \/ UNCHANGED <<bucket, faults, last, missed>>
      /\ UNCHANGED <<side, result, ent, nocopy, listing, mv, todo, wanted, stranded, budget>>
  BY DEF RmFolder, Goto
<1>2. pc \in Removing /\ pc' \in Removing /\ todo # <<>>
  BY <1>1 DEF Inv1, CallOK, TodoOK, Removing
<1> DEFINE k == Key(Current, "folder")
<1>3. k \in {Current, Key(Current, "slash"), Key(Current, "folder")}
  OBVIOUS
<1> HIDE DEF k
<1>4. Delete(k) \/ Overlook \/ UNCHANGED <<bucket, faults, last, missed>>
  BY <1>1 DEF k
<1>5. /\ Drop("from", k) \/ UNCHANGED bucket
      /\ faults' \in 0 .. MaxFaults /\ missed' \subseteq Name /\ last' \in {"ok", "error"}
  BY <1>2, <1>4, DeleteParts DEF Inv1, CallOK, OtherTypes
<1>6. QED
  BY <1>1, <1>2, <1>3, <1>5, RemovalKeeps

\* The result of the last DELETE is that of s3fs_rmdir.
LEMMA RmEndKeeps ==
  ASSUME Inv1, RmEnd
  PROVE  Inv1'
<1>1. DataOK /\ CallOK /\ OtherTypes
  BY DEF Inv1, CallOK
<1>2. /\ pc = "rmend" /\ UNCHANGED <<bucket, ent, nocopy, faults, wanted, missed, stranded, budget>>
      /\ \/ Return("error")
         \/ Goto("rmdir") /\ todo' = Tail(todo) /\ UNCHANGED <<listing, mv, last>>
  BY DEF RmEnd, history
<1>3. todo # <<>>
  BY <1>1, <1>2 DEF CallOK, TodoOK, Removing
<1>4. CASE Return("error")
  <2>1. CallOK' /\ side' \in {side, "to"}
    BY <1>1, <1>2, <1>4, Returned DEF OtherTypes
  <2>2. DataOK'
    BY <1>1, <1>2, <2>1, DataSame
  <2>3. QED
    BY <2>1, <2>2 DEF Inv1
<1>5. CASE Goto("rmdir") /\ todo' = Tail(todo) /\ UNCHANGED <<listing, mv, last>>
  BY <1>2, <1>3, <1>5, NextDirectoryKeeps
<1>6. QED
  BY <1>2, <1>4, <1>5

\* The call returns 0.
LEMMA RenamedKeeps ==
  ASSUME Inv1, Renamed
  PROVE  Inv1'
<1>1. DataOK /\ CallOK
  BY DEF Inv1
<1>2. /\ pc = "rmdir" /\ Return("ok")
      /\ UNCHANGED <<bucket, ent, nocopy, faults, wanted, missed, stranded, budget>>
  BY DEF Renamed, history
<1>3. CallOK' /\ side' \in {side, "to"}
  BY <1>1, <1>2, Returned DEF CallOK, OtherTypes
<1>4. DataOK'
  BY <1>1, <1>2, <1>3, DataSame
<1>5. QED
  BY <1>3, <1>4 DEF Inv1

-----------------------------------------------------------------------------
(***************************************************************************)
(* The theorems.                                                           *)
(***************************************************************************)
\* A tree, or a file by itself, at the start.
LEMMA InitialData ==
  ASSUME Init
  PROVE  DataOK
<1>1. /\ ent = [f \in AFile |-> Closed] /\ side = "from"
      /\ \/ \E files \in SUBSET File, form \in [Dir -> Form \cup {"none"}] :
              /\ bucket = [s \in Side |-> IF s = "from" THEN Tree(files, form) ELSE NoObjects]
              /\ wanted = [f \in AFile |-> IF f \in files THEN 0 ELSE Absent]
         \/ /\ bucket = [s \in Side |-> IF s = "from" THEN Put(NoObjects, Empty, 0) ELSE NoObjects]
            /\ wanted = [f \in AFile |-> IF f = Empty THEN 0 ELSE Absent]
  BY DEF Init
<1>2. Closed \in Entity /\ Closed.side = "none"
  BY FileParts DEF Closed, Entity
<1>3. ent \in [AFile -> Entity] /\ side \in Side /\ \A f \in AFile : ~Open(f)
  BY <1>1, <1>2, FileParts DEF Open
<1>4. \A s \in Side : s = "from" \/ s = "to"
  BY DEF Side
<1>5. ASSUME NEW files \in SUBSET File, NEW form \in [Dir -> Form \cup {"none"}],
             bucket = [s \in Side |-> IF s = "from" THEN Tree(files, form) ELSE NoObjects],
             wanted = [f \in AFile |-> IF f \in files THEN 0 ELSE Absent]
      PROVE  DataOK
  <2> DEFINE marked == {d \in Dir : form[d] # "none"}
             keys   == files \cup {Key(d, form[d]) : d \in marked}
             tree   == [k \in keys |-> IF k \in files THEN 0 ELSE Marker]
  <2>1. Tree(files, form) = tree
    BY DEF Tree
  <2>2. \A k \in keys : k \in files \/ \E d \in Dir, f \in Form : k = Key(d, f)
    OBVIOUS
  <2>3. files \subseteq keys
    OBVIOUS
  <2> HIDE DEF keys
  <2>4. DOMAIN bucket = Side /\ bucket["from"] = tree /\ DOMAIN bucket["to"] = {}
    BY <1>5, <2>1, FileParts, FreshParts
  <2>5. /\ DOMAIN bucket["from"] = keys
        /\ \A k \in keys : bucket["from"][k] = IF k \in files THEN 0 ELSE Marker
    BY <2>4
  <2>6. /\ wanted \in [AFile -> Version \cup {Absent}] /\ \A f \in files : f \in AFile /\ wanted[f] = 0
        /\ \A f \in AFile : wanted[f] # Absent => f \in files
    BY <1>5, FileParts
  <2>7. wanted[Empty] = Absent
    BY <2>6, FileParts
  <2>8. \A k \in keys : k \in Keys /\ bucket["from"][k] \in Version \cup {Marker}
    BY <2>2, <2>5, <2>6, FileParts, DirectoryKey
  <2>9. \A k \in keys : \/ bucket["from"][k] = Marker /\ \E d \in Dir, f \in Form : k = Key(d, f)
                        \/ bucket["from"][k] # Marker /\ k \in AFile /\ wanted[k] # Absent
    BY <2>2, <2>5, <2>6, FileParts
  <2>10. \A f \in AFile : wanted[f] # Absent => f \in keys /\ bucket["from"][f] = wanted[f]
    BY <2>3, <2>5, <2>6
  <2>11. FilesAreKept
    BY <2>5, <2>10, FileParts DEF FilesAreKept
  <2>12. \A s \in Side : /\ DOMAIN bucket[s] \subseteq Keys
                         /\ \A k \in DOMAIN bucket[s] : bucket[s][k] \in Version \cup {Marker}
    BY <1>4, <2>4, <2>5, <2>8
  <2>13. \A s \in Side : \A k \in DOMAIN bucket[s] :
           \/ bucket[s][k] = Marker /\ \E d \in Dir, f \in Form : k = Key(d, f)
           \/ bucket[s][k] # Marker /\ k \in AFile /\ wanted[k] # Absent
    BY <1>4, <2>4, <2>5, <2>9
  <2>14. QED
    BY <1>3, <2>4, <2>5, <2>6, <2>7, <2>10, <2>11, <2>12, <2>13 DEF DataOK
<1>6. ASSUME bucket = [s \in Side |-> IF s = "from" THEN Put(NoObjects, Empty, 0) ELSE NoObjects],
             wanted = [f \in AFile |-> IF f = Empty THEN 0 ELSE Absent]
      PROVE  DataOK
  <2> DEFINE p == Put(NoObjects, Empty, 0)
  <2>1. DOMAIN p = {Empty} /\ p[Empty] = 0
    BY FreshParts DEF Put
  <2>2. bucket = [s \in Side |-> IF s = "from" THEN p ELSE NoObjects]
    BY <1>6
  <2> HIDE DEF p
  <2>3. DOMAIN bucket = Side /\ bucket["from"] = p /\ DOMAIN bucket["to"] = {}
    BY <2>2, FileParts, FreshParts
  <2>4. /\ wanted \in [AFile -> Version \cup {Absent}] /\ wanted[Empty] = 0
        /\ \A f \in AFile : f # Empty => wanted[f] = Absent
    BY <1>6, FileParts
  <2>5. FilesAreKept
    BY <2>1, <2>3, <2>4, FileParts DEF FilesAreKept
  <2>6. \A s \in Side : \A k \in DOMAIN bucket[s] :
          k = Empty /\ bucket[s][k] = 0 /\ s = "from"
    BY <1>4, <2>1, <2>3
  <2>7. \A s \in Side : /\ DOMAIN bucket[s] \subseteq Keys
                        /\ \A k \in DOMAIN bucket[s] : bucket[s][k] \in Version \cup {Marker}
    BY <2>6, FileParts
  <2>8. \A s \in Side : \A k \in DOMAIN bucket[s] :
          bucket[s][k] # Marker /\ k \in AFile /\ wanted[k] # Absent
    BY <2>4, <2>6, FileParts
  <2>9. /\ \A s \in Side : DOMAIN bucket[s] \subseteq {Empty}
        /\ \A s \in Side : Empty \in DOMAIN bucket[s] => bucket[s][Empty] # Marker
        /\ \A f \in File : wanted[f] = Absent
    BY <2>4, <2>6, FileParts
  <2>10. \A f \in AFile : f \in DOMAIN bucket["from"] => bucket["from"][f] = wanted[f]
    BY <2>4, <2>6, FileParts
  <2>11. QED
    BY <1>3, <2>3, <2>4, <2>5, <2>7, <2>8, <2>9, <2>10 DEF DataOK
<1>7. QED
  BY <1>1, <1>5, <1>6

\* The invariant holds at the start.
LEMMA InitialState ==
  ASSUME Init
  PROVE  Inv1
<1>1. DataOK
  BY InitialData
<1>2. /\ side = "from" /\ nocopy \in NoCopyApi /\ pc = "idle" /\ result = "none"
      /\ head = NoObjects /\ marker = Empty /\ page = {} /\ truncated = FALSE /\ names = <<>>
      /\ mv = NoNodes /\ todo = <<>> /\ last = "ok"
      /\ faults = MaxFaults /\ missed = {} /\ stranded = {} /\ budget = Never
  BY DEF Init
<1>3. faults \in 0 .. MaxFaults /\ budget \in Never .. MaxFaults
  BY <1>2, RenameAssumption DEF Never
<1>4. OtherTypes
  BY <1>2, <1>3, FreshParts DEF OtherTypes, Phase
<1>5. ListingOK
  BY <1>2, FreshParts DEF ListingOK
<1>6. TodoOK
  BY <1>2, FreshParts DEF TodoOK, DirNodes, Moving, Removing
<1>7. ClonedOK
  BY <1>2 DEF ClonedOK, Moving, Removing
<1>8. PhaseOK
  BY <1>2, FreshParts DEF PhaseOK, Moving
<1>9. QED
  BY <1>1, <1>4, <1>5, <1>6, <1>7, <1>8 DEF Inv1, CallOK

\* Every step keeps the invariant.
LEMMA Inductive ==
  ASSUME Inv1, [Next]_vars
  PROVE  Inv1'
<1>1. CASE Call
  BY <1>1, CallKeeps
<1>2. CASE Step
  BY <1>2, LookupKeeps, FlushFirstKeeps, ListKeeps, AppendObjectKeeps, NextPageKeeps, NamedKeeps,
     CheckKeeps, CheckedKeeps, CloneKeeps, ClonedKeeps, CopyKeeps, CopyByUploadKeeps,
     MoveEntityKeeps, UnlinkKeeps, MovedKeeps, RmdirKeeps, RmSlashKeeps, RmPlainKeeps,
     RmFolderKeeps, RmEndKeeps, RenamedKeeps, Zenon DEF Step
<1>3. CASE Crash
  BY <1>3, CrashKeeps
<1>4. CASE \E f \in AFile : OpenFile(f) \/ Write(f) \/ Flush(f) \/ Release(f)
  BY <1>4, OpenFileKeeps, WriteKeeps, FlushKeeps, ReleaseKeeps
<1>5. CASE \E f \in File : Create(f)
  BY <1>5, CreateKeeps
<1>6. CASE UNCHANGED vars
  <2>1. /\ UNCHANGED <<bucket, ent, side, nocopy, pc, result, faults, wanted, missed, stranded, budget>>
        /\ UNCHANGED <<head, marker, page, truncated, names, mv, todo, last>>
    BY <1>6 DEF vars, listing, moving, history
  <2>2. DataOK /\ CallOK
    BY DEF Inv1
  <2>3. DataOK'
    BY <2>1, <2>2, DataSame
  <2>4. CallOK'
    BY <2>1, <2>2, CallKept DEF CallOK, OtherTypes, listing, moving
  <2>5. QED
    BY <2>3, <2>4 DEF Inv1
<1>7. QED
  BY <1>1, <1>2, <1>3, <1>4, <1>5, <1>6 DEF Next

\* Every state of the rename satisfies the invariant.
LEMMA Invariant == Spec => []Inv1
<1>1. Init => Inv1
  BY InitialState
<1>2. Inv1 /\ [Next]_vars => Inv1'
  BY Inductive
<1>3. QED
  BY <1>1, <1>2, PTL DEF Spec

\* The variables keep their types: the listing puts only names below the
\* directory on the list of names, and only nodes of such names are moved.
THEOREM TypeCorrect == Spec => []TypeOK
<1>1. ASSUME Inv1 PROVE TypeOK
  <2>1. DataOK /\ OtherTypes /\ names \in Seq(Short)
    BY <1>1 DEF Inv1, CallOK, ListingOK
  <2>2. \A i \in DOMAIN names : <<Slash>> \o names[i] \in Name
    <3>1. \A i \in DOMAIN names : names[i] \in Short
      BY <2>1
    <3>2. QED
      BY <3>1, ShortParts
  <2>3. QED
    BY <2>1, <2>2 DEF DataOK, OtherTypes, TypeOK
<1>2. Inv1 => TypeOK
  BY <1>1
<1>3. QED
  BY <1>2, Invariant, PTL

\* The newest content of every file that reached the bucket is in it, under the
\* old or the new name, whichever requests fail, whether or not the server
\* carried them out, wherever the process dies, and however often the rename is
\* tried: rename_object deletes an object only when its copy has been stored,
\* and a second attempt never copies an older object over a newer one.
THEOREM FilesKeptCorrect == Spec => []FilesAreKept
<1>1. Inv1 => FilesAreKept
  BY DEF Inv1, DataOK
<1>2. QED
  BY <1>1, Invariant, PTL

\* The ways in which a step changes the bucket.
LEMMA BucketChanges ==
  ASSUME Inv1, [Next]_vars
  PROVE  \/ UNCHANGED bucket
         \/ \E s \in Side : \E k, c : Store(s, k, c)
         \/ pc = "unlink" /\ Drop("from", Current)
         \/ /\ pc \in Removing /\ todo # <<>>
            /\ \E k \in {Current, Key(Current, "slash"), Key(Current, "folder")} : Drop("from", k)
<1>1. side \in Side /\ "from" \in Side /\ "to" \in Side
  BY FileParts DEF Inv1, DataOK
<1>2. pc \in {"rmslash", "rmplain", "rmfolder"} => pc \in Removing /\ todo # <<>>
  BY DEF Inv1, CallOK, TodoOK, Removing
<1>3. ASSUME NEW f, NEW s \in Side, Uploaded(f, s)
      PROVE  UNCHANGED bucket \/ \E k, c : Store(s, k, c)
  BY <1>3 DEF Uploaded
<1>4. CASE FlushFirst \/ \E f \in AFile : Flush(f)
  BY <1>1, <1>3, <1>4 DEF FlushFirst, Flush
<1>5. CASE (\E f \in File : Create(f)) \/ Clone \/ Copy \/ CopyByUpload
  BY <1>1, <1>5 DEF Create, Clone, Copy, CopyByUpload
<1>6. CASE Unlink
  BY <1>6 DEF Unlink
<1>7. CASE RmSlash \/ RmPlain \/ RmFolder
  BY <1>2, <1>7 DEF RmSlash, RmPlain, RmFolder, Delete, Overlook
<1>8. CASE \/ Call \/ Crash \/ UNCHANGED vars
           \/ \E f \in AFile : OpenFile(f) \/ Write(f) \/ Release(f)
  BY <1>8 DEF Call, Crash, vars, OpenFile, Write, Release
<1>9. CASE Lookup \/ List \/ AppendObject \/ NextPage \/ Named \/ Check \/ Checked \/ Cloned
  BY <1>9 DEF Lookup, List, AppendObject, NextPage, Named, Check, Checked, Cloned
<1>10. CASE MoveEntity \/ Moved \/ Rmdir \/ RmEnd \/ Renamed
  BY <1>10 DEF MoveEntity, Moved, Rmdir, RmEnd, Renamed
<1>11. QED
  BY <1>4, <1>5, <1>6, <1>7, <1>8, <1>9, <1>10 DEF Next, Step

\* What s3fs_rmdir deletes belongs to the directory it removes.
LEMMA RemovedKey ==
  ASSUME Inv1, pc \in Removing, todo # <<>>,
         NEW d \in Dir, NEW form \in Form,
         Key(d, form) \in {Current, Key(Current, "slash"), Key(Current, "folder")}
  PROVE  d = todo[1].new
<1> DEFINE n == todo[1].new
<1>1. n \in Dir /\ Current \in {n, Append(n, Folder)}
  BY RemovedParts
<1> HIDE DEF n
<1>2. d \in Name /\ n \in Name
  BY <1>1, FileParts
<1>3. d \in Bare /\ n \in Bare /\ n \in Names /\ d \in Names
  BY <1>2, BareParts, NameParts
<1>4. Key(d, form) \in {d, Append(d, Slash), Append(d, Folder)}
  BY <1>2, KeyParts DEF Form
<1>5. /\ Key(Current, "slash") = Append(Current, Slash)
      /\ Key(Current, "folder") = Append(Current, Folder)
  BY DEF Key
<1>6. ASSUME Current = n PROVE d = n
  <2>1. /\ d # Append(n, Slash) /\ d # Append(n, Folder) /\ n # Append(d, Slash)
        /\ n # Append(d, Folder) /\ Append(d, Slash) # Append(n, Folder)
        /\ Append(n, Slash) # Append(d, Folder)
        /\ Append(d, Slash) = Append(n, Slash) => d = n
        /\ Append(d, Folder) = Append(n, Folder) => d = n
    BY <1>3, BareParts
  <2>2. Key(d, form) \in {n, Append(n, Slash), Append(n, Folder)}
    BY <1>5, <1>6
  <2>3. QED
    BY <1>4, <2>1, <2>2
<1>7. ASSUME Current = Append(n, Folder) PROVE d = n
  <2> DEFINE x == Append(n, Folder)
  <2>1. x \in Names /\ EndsIn(x, Folder)
    BY <1>3, AppendParts
  <2>2. ~EndsIn(d, Slash) /\ ~EndsIn(d, Folder)
    BY <1>3 DEF Bare
  <2>3. \A y \in {Slash, Folder} : \A z \in {Slash, Folder} :
          /\ EndsIn(Append(x, y), z) <=> y = z
          /\ EndsIn(Append(d, y), z) <=> y = z
          /\ Front(Append(x, y)) = x /\ Front(Append(d, y)) = d
    BY <1>3, <2>1, AppendParts
  <2>4. Slash # Folder
    BY DEF Slash, Folder
  <2>5. Key(d, form) \notin {Append(x, Slash), Append(x, Folder)}
    BY <1>4, <2>1, <2>2, <2>3, <2>4
  <2>6. Key(d, form) = x
    BY <1>5, <1>7, <2>5
  <2>7. Key(d, form) = Append(d, Folder)
    BY <1>4, <2>1, <2>2, <2>3, <2>4, <2>6
  <2>8. Append(d, Folder) = Append(n, Folder) => d = n
    BY <1>3, BareParts
  <2>9. QED
    BY <2>6, <2>7, <2>8
<1>8. QED
  BY <1>1, <1>6, <1>7 DEF n

\* No step takes away the last object of a directory: wherever the requests fail
\* or the process dies, a directory that has an object under the old name has one
\* under the old or the new name, as clone_directory_object makes the new one
\* before s3fs_rmdir deletes any object of the old one.
THEOREM DirectoriesKeptCorrect == Spec => DirectoriesAreKept
<1>1. ASSUME Inv1, [Next]_vars
      PROVE  \A d \in Dir : IsMarked(d) => IsMarked(d)'
  <2> SUFFICES ASSUME NEW d \in Dir, IsMarked(d) PROVE IsMarked(d)'
    OBVIOUS
  <2>1. PICK s \in Side, form \in Form : Key(d, form) \in DOMAIN bucket[s]
    BY DEF IsMarked
  <2>2. DOMAIN bucket = Side /\ "to" \in Side /\ "slash" \in Form
    BY <1>1, FileParts DEF Inv1, DataOK, Form
  <2>3. \A t \in Side : t = "from" \/ t = "to"
    BY DEF Side
  <2>4. CASE UNCHANGED bucket
    BY <2>1, <2>4 DEF IsMarked
  <2>5. ASSUME NEW t \in Side, NEW k, NEW c, Store(t, k, c)
        PROVE  IsMarked(d)'
    <3>1. DOMAIN bucket[s] \subseteq DOMAIN bucket'[s]
      BY <2>2, <2>5, StoreParts
    <3>2. QED
      BY <2>1, <3>1 DEF IsMarked
  <2>6. ASSUME NEW k, Drop("from", k), Key(d, form) # k
        PROVE  IsMarked(d)'
    <3>1. Key(d, form) \in DOMAIN bucket'[s]
      BY <2>1, <2>2, <2>3, <2>6, DropParts, FileParts
    <3>2. QED
      BY <2>1, <3>1 DEF IsMarked
  <2>7. ASSUME NEW k, Drop("from", k)
        PROVE  bucket'["to"] = bucket["to"]
    BY <2>2, <2>7, DropParts, FileParts
  <2>8. CASE pc = "unlink" /\ Drop("from", Current)
    <3>1. CASE Key(d, form) = Current
      <4>1. todo # <<>> /\ OtherTypes
        BY <1>1, <2>8 DEF Inv1, CallOK, TodoOK
      <4>2. Current = todo[1].old
        BY <4>1, CurrentParts
      <4>3. Current \in DOMAIN bucket["to"]
        BY <1>1, <2>8, <4>2 DEF Inv1, CallOK, PhaseOK
      <4>4. Key(d, form) \in DOMAIN bucket'["to"]
        BY <2>7, <2>8, <3>1, <4>3
      <4>5. QED
        BY <2>2, <4>4 DEF IsMarked
    <3>2. QED
      BY <2>6, <2>8, <3>1
  <2>9. CASE /\ pc \in Removing /\ todo # <<>>
             /\ \E k \in {Current, Key(Current, "slash"), Key(Current, "folder")} : Drop("from", k)
    <3>1. PICK k \in {Current, Key(Current, "slash"), Key(Current, "folder")} : Drop("from", k)
      BY <2>9
    <3>2. CASE Key(d, form) = k
      <4>1. d = todo[1].new
        BY <1>1, <2>9, <3>2, RemovedKey
      <4>2. 1 \in DOMAIN todo
        BY <1>1, <2>9, CurrentParts DEF Inv1, CallOK
      <4>3. Made(todo[1])
        BY <1>1, <2>9, <4>2 DEF Inv1, CallOK, ClonedOK
      <4>4. Key(d, "slash") \in DOMAIN bucket'["to"]
        BY <2>7, <3>1, <4>1, <4>3 DEF Made
      <4>5. QED
        BY <2>2, <4>4 DEF IsMarked
    <3>3. QED
      BY <2>6, <3>1, <3>2
  <2>10. QED
    BY <1>1, <2>4, <2>5, <2>8, <2>9, BucketChanges
<1>2. Inv1 /\ [Next]_vars => [\A d \in Dir : IsMarked(d) => IsMarked(d)']_vars
  BY <1>1
<1>3. QED
  BY <1>2, Invariant, PTL DEF Spec, DirectoriesAreKept

-----------------------------------------------------------------------------
(***************************************************************************)
(* What is still under the old name.                                       *)
(***************************************************************************)
\* The names a call leaves behind, as a request failed or a file was added; when
\* none has failed, what earlier calls left behind is no excuse.
Exempt == IF faults = budget THEN {} ELSE missed

Listing == {"list", "append", "named"}

\* Nodes that stand for an object of a directory, or of a file.
DirNodeFor(list, n, form) ==
  \E i \in DOMAIN list :
    list[i].new = n /\ ~list[i].normdir /\ (list[i].old = n \/ form = "folder")
FileNodeFor(list, n, form) == form = "plain" /\ \E i \in DOMAIN list : list[i].old = n

\* A key that a later page will have.
Later(k) ==
  /\ pc = "list" \/ (pc = "append" /\ truncated)
  /\ Before(marker, k) /\ \A p \in page : Before(p, k)

\* Where the call has an object of the old name that it has still to deal with.
Pending(n, form) ==
  \/ pc \in Listing \cup {"check", "clone"} \cup Moving /\ DirNodeFor(mv.dirs, n, form)
  \/ /\ pc \in Listing /\ n # Empty
     /\ \/ \E t \in Listed(head) : n = <<Slash>> \o t
        \/ Key(n, form) \in page
        \/ Later(Key(n, form))
  \/ pc = "check" /\ \E i \in DOMAIN names : n = <<Slash>> \o names[i]
  \/ pc \in {"check", "clone"} /\ FileNodeFor(mv.files, n, form)
  \/ pc \in {"flush"} \cup Moving /\ FileNodeFor(todo, n, form)
  \/ pc \in Removing /\ DirNodeFor(todo, n, form)

PendingOK ==
  pc \notin {"idle", "lookup"} =>
    \A n \in Name, form \in Form : Has(Key(n, form)) => n \in Exempt \/ Pending(n, form)

\* When it has returned 0, nothing is left but what it was told is not there.
DoneOK ==
  result = "ok" =>
    /\ side = "to" /\ pc = "idle"
    /\ \A n \in Name, form \in Form : Has(Key(n, form)) => n \in missed

\* A call fails only if a request has failed or a file was added.
BudgetOK ==
  /\ budget = Never \/ faults <= budget
  /\ result = "error" => faults # budget
  /\ last = "error" => faults # budget
  /\ last = "error" => pc \in {"rmplain", "rmfolder", "rmend"}

\* A directory has one object under the old name.
OneForm == \A d \in Dir : \A f, g \in Form : Has(Key(d, f)) /\ Has(Key(d, g)) => f = g

\* The list goes on from a key that everything listed comes before.
PagesOK ==
  /\ pc \in {"list", "named"} => page = {}
  /\ pc = "append" => \A p \in page : Has(p) /\ Before(marker, p)
  /\ pc \in {"list", "append"} =>
       \A n \in DOMAIN head : ~Before(marker, <<Slash>> \o Known(head, n))
  /\ pc \in Listing => \A t \in Listed(head) : Forms(<<Slash>> \o t) # {}

\* A name is checked once, and the directories are in ascending order.
NodesOK ==
  /\ pc \in Listing => \A i \in DOMAIN mv.dirs : mv.dirs[i].new = Empty
  /\ pc = "check" =>
       /\ \A i, j \in DOMAIN names : names[i] = names[j] => i = j
       /\ \A i \in DOMAIN names, j \in DOMAIN mv.dirs : mv.dirs[j].new # <<Slash>> \o names[i]
  /\ \A i, j \in DOMAIN mv.dirs : i < j => Before(mv.dirs[i].old, mv.dirs[j].old)
  /\ pc \in Removing => \A i, j \in DOMAIN todo : i < j => Before(todo[j].old, todo[i].old)

\* The forms s3fs_rmdir has deleted, unless a request failed.
Removed ==
  LET same == todo[1].old = todo[1].new
  IN  CASE pc = "rmplain" -> IF same THEN {"slash"} ELSE {}
        [] pc = "rmfolder" -> IF same THEN {"slash", "plain"} ELSE {"folder"}
        [] pc = "rmend" -> IF same THEN Form ELSE {"folder"}
        [] OTHER -> {}
Gone(k) == last = "error" \/ todo[1].new \in Exempt \/ ~Has(k)
RemovedOK == todo # <<>> => \A form \in Removed : Gone(Key(todo[1].new, form))

Inv2 ==
  /\ PendingOK /\ DoneOK /\ BudgetOK /\ OneForm /\ PagesOK /\ NodesOK /\ RemovedOK

\* An open file goes by the path its object is under; without the copy request
\* none goes by the new one before the call has returned 0.
HandlesOK ==
  /\ HandlesKeepObject
  /\ nocopy /\ side = "from" => \A f \in AFile : ent[f].side # "to"
  /\ pc = "unlink" /\ Open(todo[1].old) =>
       IF nocopy THEN todo[1].old \in stranded ELSE ent[todo[1].old].side = "to"

-----------------------------------------------------------------------------
(***************************************************************************)
(* What a step changes under the old name.                                 *)
(***************************************************************************)
\* What is new under the old name is a file that was flushed or added.
LEMMA FromChanges ==
  ASSUME Inv1, [Next]_vars
  PROVE  \A k \in DOMAIN bucket'["from"] :
           \/ k \in DOMAIN bucket["from"]
           \/ /\ k \in AFile /\ wanted'[k] # Absent /\ side = "from"
              /\ \/ pc \in {"idle", "flush"}
                 \/ budget' = Never /\ missed' = missed \cup {k} /\ pc' = pc
<1> DEFINE Kept == DOMAIN bucket'["from"] \subseteq DOMAIN bucket["from"]
<1>1. /\ DOMAIN bucket = Side /\ "from" \in Side /\ "to" \in Side
      /\ ent \in [AFile -> Entity] /\ wanted \in [AFile -> Version \cup {Absent}]
  BY FileParts DEF Inv1, DataOK
<1>2. UNCHANGED bucket => Kept
  OBVIOUS
<1>3. ASSUME NEW k, Drop("from", k) PROVE Kept
  BY <1>1, <1>3, DropParts
<1>4. ASSUME NEW k, NEW c, Store("to", k, c) PROVE Kept
  BY <1>1, <1>4, StoreParts
<1>5. ASSUME NEW f \in AFile, NEW s \in Side, Uploaded(f, s)
      PROVE  \A k \in DOMAIN bucket'["from"] :
               \/ k \in DOMAIN bucket["from"]
               \/ s = "from" /\ k = f /\ wanted'[f] # Absent
  <2>1. CASE ent[f].dirty
    <3>1. Store(s, f, ent[f].data) /\ wanted' = [wanted EXCEPT ![f] = ent[f].data]
      BY <1>5, <2>1 DEF Uploaded
    <3>2. ent[f].data \in Version
      BY <1>1, EntityFields
    <3>3. wanted'[f] # Absent
      BY <1>1, <3>1, <3>2, FileParts
    <3>4. /\ \A x \in Side : x # s => bucket'[x] = bucket[x]
          /\ DOMAIN bucket'[s] = DOMAIN bucket[s] \cup {f}
      BY <1>1, <3>1, StoreParts
    <3>5. QED
      BY <1>1, <3>3, <3>4
  <2>2. CASE ~ent[f].dirty
    BY <1>5, <2>2 DEF Uploaded
  <2>3. QED
    BY <2>1, <2>2
<1>6. CASE FlushFirst
  <2>1. pc = "flush" /\ (Uploaded(Empty, "from") \/ UNCHANGED bucket)
    BY <1>6 DEF FlushFirst
  <2>2. side = "from"
    BY <2>1 DEF Inv1, CallOK, PhaseOK
  <2>3. QED
    BY <1>1, <1>5, <2>1, <2>2, FileParts
<1>7. ASSUME NEW f \in AFile, Flush(f)
      PROVE  \A k \in DOMAIN bucket'["from"] :
               \/ k \in DOMAIN bucket["from"]
               \/ k \in AFile /\ wanted'[k] # Absent /\ side = "from" /\ pc = "idle"
  <2>1. pc = "idle" /\ (Uploaded(f, side) \/ UNCHANGED bucket)
    BY <1>7 DEF Flush, Idle
  <2>2. side \in Side
    BY DEF Inv1, DataOK
  <2>3. QED
    BY <1>5, <2>1, <2>2
<1>8. ASSUME NEW f \in File, Create(f)
      PROVE  \A k \in DOMAIN bucket'["from"] :
               \/ k \in DOMAIN bucket["from"]
               \/ /\ k \in AFile /\ wanted'[k] # Absent /\ side = "from"
                  /\ \/ pc = "idle"
                     \/ budget' = Never /\ missed' = missed \cup {k} /\ pc' = pc
  <2>1. /\ side = "from" /\ Store("from", f, 0) /\ wanted' = [wanted EXCEPT ![f] = 0]
        /\ missed' = IF Idle THEN missed ELSE missed \cup {f}
        /\ budget' = Never /\ pc' = pc
    BY <1>8 DEF Create
  <2>2. DOMAIN bucket'["from"] = DOMAIN bucket["from"] \cup {f}
    BY <1>1, <2>1, StoreParts
  <2>3. f \in AFile /\ wanted'[f] # Absent
    BY <1>1, <2>1, FileParts
  <2>4. QED
    BY <2>1, <2>2, <2>3 DEF Idle
<1>9. CASE Clone \/ Copy \/ CopyByUpload
  BY <1>2, <1>4, <1>9 DEF Clone, Copy, CopyByUpload
<1>10. CASE Unlink \/ RmSlash \/ RmPlain \/ RmFolder
  BY <1>2, <1>3, <1>10 DEF Unlink, RmSlash, RmPlain, RmFolder, Delete, Overlook
<1>11. CASE \/ Call \/ Crash \/ UNCHANGED vars
            \/ \E f \in AFile : OpenFile(f) \/ Write(f) \/ Release(f)
  BY <1>2, <1>11 DEF Call, Crash, vars, OpenFile, Write, Release
<1>12. CASE Lookup \/ List \/ AppendObject \/ NextPage \/ Named \/ Check \/ Checked \/ Cloned
  BY <1>2, <1>12 DEF Lookup, List, AppendObject, NextPage, Named, Check, Checked, Cloned
<1>13. CASE MoveEntity \/ Moved \/ Rmdir \/ RmEnd \/ Renamed
  BY <1>2, <1>13 DEF MoveEntity, Moved, Rmdir, RmEnd, Renamed
<1> HIDE DEF Kept
<1>14. Kept => DOMAIN bucket'["from"] \subseteq DOMAIN bucket["from"]
  BY DEF Kept
<1>15. QED
  BY <1>6, <1>7, <1>8, <1>9, <1>10, <1>11, <1>12, <1>13, <1>14 DEF Next, Step

\* What is a directory's is not new.
LEMMA FromOfDirectory ==
  ASSUME Inv1, [Next]_vars, NEW d \in Dir, NEW form \in Form, Has(Key(d, form))',
         wanted'[Empty] = Absent
  PROVE  Has(Key(d, form))
<1> DEFINE k == Key(d, form)
<1>1. k \in AFile => k = Empty
  BY DirectoryKey
<1>2. k \in DOMAIN bucket'["from"]
  BY DEF Has
<1> HIDE DEF k
<1>3. k \in DOMAIN bucket["from"] \/ (k \in AFile /\ wanted'[k] # Absent)
  BY <1>2, FromChanges
<1>4. k \in DOMAIN bucket["from"]
  BY <1>1, <1>3
<1>5. QED
  BY <1>4 DEF Has, k

\* A directory keeps one form.
LEMMA OneFormKept ==
  ASSUME Inv1, Inv1', [Next]_vars, OneForm
  PROVE  OneForm'
<1> SUFFICES ASSUME NEW d \in Dir, NEW f \in Form, NEW g \in Form, Has(Key(d, f))', Has(Key(d, g))'
             PROVE  f = g
  BY DEF OneForm
<1>1. CASE wanted'[Empty] # Absent
  <2>1. DOMAIN bucket'["from"] \subseteq {Empty}
    BY <1>1, FileParts DEF Inv1, DataOK
  <2>2. Key(d, f) = Empty /\ Key(d, g) = Empty
    BY <2>1 DEF Has
  <2>3. QED
    BY <2>2, DirectoryKey
<1>2. CASE wanted'[Empty] = Absent
  <2>1. Has(Key(d, f)) /\ Has(Key(d, g))
    BY <1>2, FromOfDirectory
  <2>2. QED
    BY <2>1 DEF OneForm
<1>3. QED
  BY <1>1, <1>2

\* Once a request has failed in a call, that stays so, and what the call leaves
\* behind stays exempt.
LEMMA ExemptKept ==
  ASSUME CallOK, CallOK', BudgetOK, budget' \in {budget, Never}, faults' <= faults,
         missed \subseteq missed'
  PROVE  /\ faults # budget => faults' # budget'
         /\ Exempt \subseteq Exempt' /\ Exempt \subseteq missed
         /\ faults' < faults \/ budget' = Never => faults' # budget' /\ Exempt' = missed'
<1>1. faults \in 0 .. MaxFaults /\ faults' \in 0 .. MaxFaults /\ budget \in Never .. MaxFaults
  BY DEF CallOK, OtherTypes
<1>2. MaxFaults \in Nat /\ Never = -1
  BY RenameAssumption DEF Never
<1>3. budget = Never \/ faults <= budget
  BY DEF BudgetOK
<1>4. faults # budget \/ faults' < faults \/ budget' = Never => faults' # budget'
  BY <1>1, <1>2, <1>3
<1>5. QED
  BY <1>4 DEF Exempt

\* A call that has returned has dealt with everything.
LEMMA ReturnedWell ==
  ASSUME Inv1, Inv1', Inv2, [Next]_vars, NEW r \in {"ok", "error", "enoent"}, Return(r), pc # "idle",
         budget' \in {budget, Never}, faults' <= faults, missed \subseteq missed',
         r = "error" => faults # budget \/ faults' < faults \/ budget' = Never,
         r = "ok" => \A n \in Name, form \in Form : Has(Key(n, form))' => n \in missed'
  PROVE  Inv2'
<1>1. /\ pc' = "idle" /\ result' = r /\ mv' = NoNodes /\ todo' = <<>> /\ last' = "ok"
      /\ r = "ok" => side' = "to"
  BY DEF Return
<1>2. CallOK /\ CallOK' /\ BudgetOK /\ OneForm
  BY DEF Inv1, Inv2
<1>3. PendingOK'
  BY <1>1 DEF PendingOK
<1>4. DoneOK'
  BY <1>1 DEF DoneOK
<1>5. BudgetOK'
  <2>1. r = "error" => faults' # budget'
    BY <1>2, ExemptKept
  <2>2. budget' = Never \/ faults' <= budget'
    <3>1. budget = Never \/ faults <= budget
      BY <1>2 DEF BudgetOK
    <3>2. faults \in Int /\ faults' \in Int /\ budget \in Int
      BY <1>2, RenameAssumption DEF CallOK, OtherTypes, Never
    <3>3. QED
      BY <3>1, <3>2
  <2>3. QED
    BY <1>1, <2>1, <2>2 DEF BudgetOK
<1>6. OneForm'
  BY <1>2, OneFormKept
<1>7. PagesOK'
  BY <1>1 DEF PagesOK, Listing
<1>8. NodesOK'
  BY <1>1, FreshParts DEF NodesOK, Listing, Removing
<1>9. RemovedOK'
  BY <1>1 DEF RemovedOK
<1>10. QED
  BY <1>3, <1>4, <1>5, <1>6, <1>7, <1>8, <1>9 DEF Inv2

\* A call that goes on has not returned anything yet.
LEMMA GoesOn ==
  ASSUME Inv1, Inv1', Inv2, [Next]_vars, pc # "idle", pc' # "idle", result' = result,
         budget' \in {budget, Never}, faults' <= faults, missed \subseteq missed',
         last' = "error" => /\ last = "error" \/ faults' < faults
                            /\ pc' \in {"rmplain", "rmfolder", "rmend"},
         PendingOK', PagesOK', NodesOK', RemovedOK'
  PROVE  Inv2'
<1>1. CallOK /\ CallOK' /\ BudgetOK /\ OneForm /\ DoneOK
  BY DEF Inv1, Inv2
<1>2. DoneOK'
  BY <1>1 DEF DoneOK
<1>3. BudgetOK'
  <2>1. budget' = Never \/ faults' <= budget'
    <3>1. budget = Never \/ faults <= budget
      BY <1>1 DEF BudgetOK
    <3>2. faults \in Int /\ faults' \in Int /\ budget \in Int
      BY <1>1, RenameAssumption DEF CallOK, OtherTypes, Never
    <3>3. QED
      BY <3>1, <3>2
  <2>2. /\ result = "error" => faults # budget
        /\ last = "error" => faults # budget
    BY <1>1 DEF BudgetOK
  <2>3. /\ result' = "error" => faults' # budget'
        /\ last' = "error" => faults' # budget'
    BY <1>1, <2>2, ExemptKept
  <2>4. QED
    BY <2>1, <2>3 DEF BudgetOK
<1>4. OneForm'
  BY <1>1, OneFormKept
<1>5. QED
  BY <1>2, <1>3, <1>4 DEF Inv2

\* What holds when only the store, the budget and the missed names may change.
LEMMA PendingSame ==
  ASSUME NEW n \in Name, NEW form \in Form, Pending(n, form),
         UNCHANGED <<pc, head, marker, page, truncated, names, mv, todo>>
  PROVE  Pending(n, form)'
BY DEF Pending, Later, Listed, DirNodeFor, FileNodeFor

-----------------------------------------------------------------------------
(***************************************************************************)
(* Between renames, and beside them.                                       *)
(***************************************************************************)
\* Between renames there is nothing to deal with.
LEMMA BetweenWell ==
  ASSUME Inv1, Inv1', Inv2, [Next]_vars, pc = "idle", UNCHANGED <<side, pc, result, mv, todo, last, missed>>,
         budget' \in {budget, Never}, faults' <= faults
  PROVE  Inv2'
<1>1. CallOK /\ CallOK' /\ BudgetOK /\ OneForm /\ DoneOK /\ NodesOK
  BY DEF Inv1, Inv2
<1>2. mv = NoNodes /\ todo = <<>> /\ last = "ok"
  BY <1>1 DEF CallOK, PhaseOK
<1>3. PendingOK'
  BY DEF PendingOK
<1>4. DoneOK'
  <2>1. ASSUME result = "ok", NEW n \in Name, NEW form \in Form, Has(Key(n, form))' PROVE n \in missed
    <3> DEFINE k == Key(n, form)
    <3>1. k \in DOMAIN bucket'["from"]
      BY <2>1 DEF Has
    <3> HIDE DEF k
    <3>2. side = "to" /\ "to" # "from"
      BY <1>1, <2>1 DEF DoneOK
    <3>3. k \in DOMAIN bucket["from"]
      BY <3>1, <3>2, FromChanges
    <3>4. Has(Key(n, form))
      BY <3>3 DEF Has, k
    <3>5. QED
      BY <1>1, <2>1, <3>4 DEF DoneOK
  <2>2. QED
    BY <1>1, <2>1 DEF DoneOK
<1>5. BudgetOK'
  <2>1. budget' = Never \/ faults' <= budget'
    <3>1. budget = Never \/ faults <= budget
      BY <1>1 DEF BudgetOK
    <3>2. faults \in Int /\ faults' \in Int /\ budget \in Int
      BY <1>1, RenameAssumption DEF CallOK, OtherTypes, Never
    <3>3. QED
      BY <3>1, <3>2
  <2>2. result = "error" => faults # budget
    BY <1>1 DEF BudgetOK
  <2>3. result' = "error" => faults' # budget'
    BY <1>1, <2>2, ExemptKept
  <2>4. QED
    BY <1>2, <2>1, <2>3 DEF BudgetOK
<1>6. OneForm'
  BY <1>1, OneFormKept
<1>7. PagesOK'
  BY DEF PagesOK, Listing
<1>8. NodesOK'
  BY <1>1 DEF NodesOK, Listing, Removing
<1>9. RemovedOK'
  BY <1>2 DEF RemovedOK
<1>10. QED
  BY <1>3, <1>4, <1>5, <1>6, <1>7, <1>8, <1>9 DEF Inv2

\* s3fs_open, s3fs_write, s3fs_flush and s3fs_release.
LEMMA HandlersWell ==
  ASSUME Inv1, Inv1', Inv2, [Next]_vars, NEW f \in AFile, OpenFile(f) \/ Write(f) \/ Flush(f) \/ Release(f)
  PROVE  Inv2'
<1>1. faults \in 0 .. MaxFaults
  BY DEF Inv1, CallOK, OtherTypes
<1>2. CASE OpenFile(f) \/ Write(f) \/ Release(f)
  <2>1. /\ pc = "idle" /\ UNCHANGED <<side, pc, result, mv, todo, last, missed, budget, faults>>
    BY <1>2 DEF OpenFile, Write, Release, Idle, moving, history
  <2>2. faults' <= faults
    BY <1>1, <2>1
  <2>3. QED
    BY <2>1, <2>2, BetweenWell
<1>3. CASE Flush(f)
  <2>1. pc = "idle" /\ UNCHANGED <<side, pc, result, mv, todo, last, missed, budget>>
    BY <1>3 DEF Flush, Idle, moving
  <2>2. Spend(TRUE) \/ Spend(FALSE)
    BY <1>3 DEF Flush
  <2>3. faults' <= faults
    BY <1>1, <2>2, SpendParts
  <2>4. QED
    BY <2>1, <2>3, BetweenWell
<1>4. QED
  BY <1>2, <1>3

\* s3fs_rename begins.
LEMMA CallWell ==
  ASSUME Inv1, Inv1', Inv2, [Next]_vars, Call
  PROVE  Inv2'
<1>1. /\ pc = "idle" /\ pc' = "lookup" /\ result' = "none" /\ budget' = faults /\ faults' = faults
      /\ UNCHANGED <<mv, todo, last, missed>>
  BY DEF Call, Idle, moving
<1>2. CallOK /\ BudgetOK /\ OneForm /\ NodesOK
  BY DEF Inv1, Inv2
<1>3. mv = NoNodes /\ todo = <<>> /\ last = "ok"
  BY <1>1, <1>2 DEF CallOK, PhaseOK
<1>4. PendingOK' /\ DoneOK'
  BY <1>1 DEF PendingOK, DoneOK
<1>5. BudgetOK'
  <2>1. faults \in 0 .. MaxFaults
    BY <1>2 DEF CallOK, OtherTypes
  <2>2. QED
    BY <1>1, <1>3, <2>1 DEF BudgetOK
<1>6. OneForm'
  BY <1>2, OneFormKept
<1>7. PagesOK'
  BY <1>1 DEF PagesOK, Listing
<1>8. NodesOK'
  BY <1>1, <1>2 DEF NodesOK, Listing, Removing
<1>9. RemovedOK'
  BY <1>1, <1>3 DEF RemovedOK
<1>10. QED
  BY <1>4, <1>5, <1>6, <1>7, <1>8, <1>9 DEF Inv2

\* The process dies.
LEMMA CrashWell ==
  ASSUME Inv1, Inv1', Inv2, [Next]_vars, Crash
  PROVE  Inv2'
<1>1. pc # "idle" /\ Spend(FALSE) /\ Return("error") /\ budget' = Never /\ missed' = missed
  BY DEF Crash
<1>2. faults \in 0 .. MaxFaults
  BY DEF Inv1, CallOK, OtherTypes
<1>3. faults' <= faults
  BY <1>1, <1>2, SpendParts
<1>4. QED
  BY <1>1, <1>3, ReturnedWell

\* A form of a directory that is gone stays so.
LEMMA GoneKept ==
  ASSUME Inv1, Inv1', [Next]_vars, Exempt \subseteq Exempt', todo # <<>>, todo' = todo,
         pc \in Removing, pc' \in Removing,
         NEW form \in Form, Gone(Key(todo[1].new, form)),
         last = "error" => last' = "error" \/ todo[1].new \in Exempt'
  PROVE  Gone(Key(todo[1].new, form))'
<1>1. todo[1].new \in Dir
  <2>1. 1 \in DOMAIN todo /\ DirNodes(todo)
    BY CurrentParts DEF Inv1, CallOK, TodoOK
  <2>2. QED
    BY <2>1 DEF DirNodes
<1>2. PICK n \in Dir : n = todo[1].new
  BY <1>1
<1>3. wanted'[Empty] = Absent
  BY DEF Inv1, CallOK, PhaseOK, Moving, Removing
<1>4. todo'[1].new = n
  BY <1>2
<1>5. last = "error" \/ n \in Exempt \/ ~Has(Key(n, form))
  BY <1>2 DEF Gone
<1>6. Has(Key(n, form))' => Has(Key(n, form))
  BY <1>3, FromOfDirectory
<1>7. last' = "error" \/ n \in Exempt' \/ ~Has(Key(n, form))'
  BY <1>2, <1>5, <1>6
<1>8. QED
  BY <1>4, <1>7 DEF Gone

\* Another client adds a file.
LEMMA CreateWell ==
  ASSUME Inv1, Inv1', Inv2, [Next]_vars, NEW f \in File, Create(f)
  PROVE  Inv2'
<1>1. /\ Store("from", f, 0) /\ budget' = Never
      /\ pc = "idle" => missed' = missed
      /\ pc # "idle" => missed' = missed \cup {f}
      /\ UNCHANGED <<ent, side, nocopy, pc, result, faults, stranded>>
      /\ UNCHANGED <<head, marker, page, truncated, names, mv, todo, last>>
  BY DEF Create, Idle, listing, moving
<1>2. CallOK /\ CallOK' /\ BudgetOK /\ OneForm /\ DoneOK /\ NodesOK /\ PagesOK /\ PendingOK /\ RemovedOK
  BY DEF Inv1, Inv2
<1>3. faults' <= faults
  BY <1>1, <1>2 DEF CallOK, OtherTypes
<1>4. CASE pc = "idle"
  BY <1>1, <1>3, <1>4, BetweenWell
<1>5. CASE pc # "idle"
  <2>1. missed' = missed \cup {f}
    BY <1>1, <1>5
  <2>2. Exempt \subseteq Exempt' /\ Exempt' = missed'
    BY <1>1, <1>2, <1>3, <2>1, ExemptKept
  <2>3. f \in Name
    BY FileParts
  <2>4. DOMAIN bucket'["from"] = DOMAIN bucket["from"] \cup {f}
    BY <1>1, StoreParts, FileParts DEF Inv1, DataOK
  <2>5. PendingOK'
    <3>1. ASSUME pc \notin {"idle", "lookup"}, NEW n \in Name, NEW form \in Form, Has(Key(n, form))'
          PROVE  n \in Exempt' \/ Pending(n, form)'
      <4>1. CASE Key(n, form) = f
        <5>1. n = f
          BY <2>3, <4>1, KeyIsName
        <5>2. QED
          BY <2>1, <2>2, <5>1
      <4>2. CASE Key(n, form) # f
        <5>1. Has(Key(n, form))
          BY <2>4, <3>1, <4>2 DEF Has
        <5>2. n \in Exempt \/ Pending(n, form)
          BY <1>2, <3>1, <5>1 DEF PendingOK
        <5>3. Pending(n, form) => Pending(n, form)'
          BY <1>1, PendingSame
        <5>4. QED
          BY <2>2, <5>2, <5>3
      <4>3. QED
        BY <4>1, <4>2
    <3>2. QED
      BY <1>1, <3>1 DEF PendingOK
  <2>6. PagesOK'
    <3>1. \A p : Has(p) => Has(p)'
      BY <2>4 DEF Has
    <3>2. \A n : Forms(n) # {} => Forms(n)' # {}
      BY <3>1 DEF Forms
    <3>3. QED
      BY <1>1, <1>2, <3>1, <3>2 DEF PagesOK, Known, Listed, Listing
  <2>7. NodesOK'
    BY <1>1, <1>2 DEF NodesOK, Listing, Removing
  <2>8. RemovedOK'
    <3>1. Removed' = Removed
      BY <1>1 DEF Removed
    <3>2. ASSUME todo # <<>>, NEW form \in Removed PROVE Gone(Key(todo[1].new, form))'
      <4>1. pc \in Removing /\ form \in Form
        BY <3>2 DEF Removed, Removing, Form
      <4>2. Gone(Key(todo[1].new, form))
        BY <1>2, <3>2 DEF RemovedOK
      <4>3. QED
        BY <1>1, <2>2, <3>2, <4>1, <4>2, GoneKept
    <3>3. QED
      BY <1>1, <3>1, <3>2 DEF RemovedOK
  <2>9. QED
    BY <1>1, <1>2, <1>3, <1>5, <2>1, <2>5, <2>6, <2>7, <2>8, GoesOn DEF BudgetOK
<1>6. QED
  BY <1>4, <1>5

\* Nothing changes.
LEMMA StutterWell ==
  ASSUME Inv2, UNCHANGED vars
  PROVE  Inv2'
<1>1. /\ UNCHANGED <<bucket, ent, side, nocopy, pc, result, faults, wanted, missed, stranded, budget>>
      /\ UNCHANGED <<head, marker, page, truncated, names, mv, todo, last>>
  BY DEF vars, listing, moving, history
<1>2. \A n \in Name, form \in Form : Pending(n, form) => Pending(n, form)'
  BY <1>1, PendingSame
<1>3. Exempt' = Exempt /\ Removed' = Removed /\ \A k : (Has(k)' <=> Has(k)) /\ (Gone(k)' <=> Gone(k))
  BY <1>1 DEF Exempt, Removed, Has, Gone
<1>4. PendingOK' /\ DoneOK' /\ OneForm'
  BY <1>1, <1>2, <1>3 DEF Inv2, PendingOK, DoneOK, OneForm
<1>5. BudgetOK'
  BY <1>1 DEF Inv2, BudgetOK
<1>6. PagesOK'
  BY <1>1 DEF Inv2, PagesOK, Has, Forms, Known, Listed, Listing
<1>7. NodesOK' /\ RemovedOK'
  BY <1>1, <1>3 DEF Inv2, NodesOK, RemovedOK, Listing, Removing
<1>8. QED
  BY <1>4, <1>5, <1>6, <1>7 DEF Inv2

-----------------------------------------------------------------------------
(***************************************************************************)
(* What the requests of a call find out.                                   *)
(***************************************************************************)
\* A request that fails is a fault.
LEMMA SpentParts ==
  ASSUME faults \in 0 .. MaxFaults
  PROVE  /\ Spend(FALSE) => faults' < faults /\ faults' <= faults
         /\ Spend(TRUE) => faults' = faults /\ faults' <= faults
BY RenameAssumption DEF Spend

\* An answer that no fault has touched finds the objects of a name.
LEMMA AnswerRight ==
  ASSUME NEW n \in Name, NEW a \in Answers(n), a.right, Forms(n) # {}
  PROVE  a.found /\ ~a.forced
<1>1. PICK v \in SUBSET Forms(n), listed \in BOOLEAN : a = Attributes(n, v, listed)
  BY DEF Answers
<1>2. /\ a.found = (v # {} \/ (listed /\ Beneath(n) # {}))
      /\ a.forced = (v = {})
      /\ a.right = (v = Forms(n) /\ listed)
  BY <1>1 DEF Attributes
<1>3. QED
  BY <1>2

\* The type of a directory stands for its object, unless a fault has hidden it.
LEMMA TypeCovers ==
  ASSUME OneForm, NEW n \in Dir, NEW a \in Answers(n), NEW t \in Types(n, a),
         NEW form \in Form, Has(Key(n, form))
  PROVE  \/ t.type \in {"noobj", "unknown"} /\ ~(a.right /\ t.right) /\ Hidden(n, t.type) = {n}
         \/ t.type = "object"
         \/ t.type = "folder" /\ form = "folder"
<1>1. form \in Forms(n)
  BY DEF Forms
<1>2. a.right => ~a.forced
  BY <1>1, AnswerRight, FileParts
<1>3. t.type \in {"noobj", "unknown"} => Hidden(n, t.type) = {n}
  BY <1>1 DEF Hidden
<1> DEFINE old == "plain" \in Forms(n) /\ "slash" \notin Forms(n)
           special == "folder" \in Forms(n) /\ ~old
<1>4. special => form = "folder"
  BY DEF OneForm, Forms, Form
<1>5. \/ t.type = (IF special THEN "folder" ELSE IF a.forced THEN "noobj" ELSE "object")
      \/ t.type = (IF a.forced THEN "noobj" ELSE "object")
      \/ t.type = "unknown" /\ ~t.right
  BY DEF Types
<1> HIDE DEF special
<1>6. QED
  BY <1>2, <1>3, <1>4, <1>5

\* What the node of a directory adds to the list.
DirAdded(m, new, d, type) ==
  /\ \A n, form : DirNodeFor(m.dirs, n, form) => DirNodeFor(new.dirs, n, form)
  /\ \A i \in DOMAIN new.dirs :
       new.dirs[i].new = d \/ \E j \in DOMAIN m.dirs : new.dirs[i].new = m.dirs[j].new
  /\ (\A i, j \in DOMAIN m.dirs : i < j => Before(m.dirs[i].old, m.dirs[j].old)) =>
       \A i, j \in DOMAIN new.dirs : i < j => Before(new.dirs[i].old, new.dirs[j].old)
  /\ (\A j \in DOMAIN m.dirs : m.dirs[j].new # d) =>
       \A form : type = "object" \/ (type = "folder" /\ form = "folder") =>
         DirNodeFor(new.dirs, d, form)
  /\ new.files = m.files

\* The node is added when its type is known.
LEMMA DirNodeFound ==
  ASSUME NEW m \in [dirs : Seq(Node), files : Seq(Node)], DirNodes(m.dirs), NEW d \in Dir,
         NEW type \in {"folder", "noobj", "object", "unknown"},
         NEW new, new = IF type = "unknown" THEN m ELSE add_mvnode(m, DirNode(d, type))
  PROVE  DirAdded(m, new, d, type)
<1>1. CASE type = "unknown"
  BY <1>1 DEF DirAdded
<1>2. CASE type # "unknown"
  <2> DEFINE node == DirNode(d, type)
             old  == m.dirs
             now  == Inserted(old, node)
  <2>1. /\ node \in Node /\ node.new = d /\ node.is_dir /\ node.old \in {d, Append(d, Folder)}
        /\ node.normdir = (type = "noobj")
        /\ type # "folder" => node.old = d
    BY NodeParts
  <2>2. old \in Seq(Node) /\ DirNodes(old)
    OBVIOUS
  <2> HIDE DEF node, old
  <2>3. new = add_mvnode(m, node)
    BY <1>2 DEF node
  <2>4. new.dirs = now /\ new.files = m.files
    BY <2>1, <2>3, AddParts DEF old
  <2>5. /\ \A i \in DOMAIN now : now[i] = node \/ \E j \in DOMAIN old : now[i] = old[j]
        /\ \A j \in DOMAIN old : \E i \in DOMAIN now : now[i] = old[j]
        /\ \E i \in DOMAIN now : now[i].old = node.old
        /\ (\A i, j \in DOMAIN old : i < j => Before(old[i].old, old[j].old)) =>
             \A i, j \in DOMAIN now : i < j => Before(now[i].old, now[j].old)
    BY <2>1, <2>2, InsertedParts
  <2> HIDE DEF now
  <2>6. \A n, form : DirNodeFor(old, n, form) => DirNodeFor(now, n, form)
    BY <2>5 DEF DirNodeFor
  <2>7. \A i \in DOMAIN now : now[i].new = d \/ \E j \in DOMAIN old : now[i].new = old[j].new
    BY <2>1, <2>5
  <2>8. ASSUME \A j \in DOMAIN old : old[j].new # d,
               NEW form, type = "object" \/ (type = "folder" /\ form = "folder")
        PROVE  DirNodeFor(now, d, form)
    <3>1. PICK i \in DOMAIN now : now[i].old = node.old
      BY <2>5
    <3>2. CASE now[i] = node
      <4>1. ~node.normdir /\ node.new = d /\ (node.old = d \/ form = "folder")
        BY <2>1, <2>8
      <4>2. QED
        BY <3>2, <4>1 DEF DirNodeFor
    <3>3. ASSUME NEW j \in DOMAIN old, now[i] = old[j] PROVE FALSE
      <4>1. /\ old[j].new \in Dir /\ old[j].old \in {old[j].new, Append(old[j].new, Folder)}
            /\ old[j].old = node.old /\ old[j].new # d
        BY <2>2, <2>8, <3>1, <3>3 DEF DirNodes
      <4>2. old[j].new \in Bare /\ d \in Bare
        BY <4>1, BareParts, FileParts
      <4>3. /\ old[j].new # Append(d, Folder) /\ d # Append(old[j].new, Folder)
            /\ Append(old[j].new, Folder) = Append(d, Folder) => old[j].new = d
        BY <4>2, BareParts
      <4>4. QED
        BY <2>1, <4>1, <4>3
    <3>4. QED
      BY <2>5, <3>2, <3>3
  <2>9. QED
    BY <2>4, <2>5, <2>6, <2>7, <2>8 DEF old, DirAdded
<1>3. QED
  BY <1>1, <1>2

\* The keys of what is below the directory begin with a slash.
LEMMA KeySlash ==
  ASSUME NEW n \in Name \ {Empty}, NEW form \in Form
  PROVE  /\ IsPrefix(<<Slash>>, Key(n, form)) /\ Before(Empty, Key(n, form))
         /\ Key(n, form) \in Names /\ Key(n, form) # <<Slash>>
<1> DEFINE k == Key(n, form)
<1>1. /\ n \in Names /\ Len(n) > 1 /\ Len(n) \in Nat /\ n[1] = Slash
  BY NameParts
<1>2. k \in {n, Append(n, Slash), Append(n, Folder)} /\ k \in Names
  BY KeyParts DEF Form
<1>3. /\ Len(Append(n, Slash)) = Len(n) + 1 /\ Append(n, Slash)[1] = Slash
      /\ Len(Append(n, Folder)) = Len(n) + 1 /\ Append(n, Folder)[1] = Slash
  BY <1>1, AppendParts
<1>4. Len(k) > 1 /\ k[1] = Slash /\ Len(k) \in Nat
  BY <1>1, <1>2, <1>3
<1> HIDE DEF k
<1>5. Empty \in Names /\ <<Slash>> \in Names /\ Len(<<Slash>>) = 1 /\ <<Slash>>[1] = Slash
      /\ Len(Empty) = 0
  BY DEF Empty, Names, Slash
<1>6. IsPrefix(<<Slash>>, k)
  <2>1. \A i \in 1 .. 1 : i = 1
    OBVIOUS
  <2>2. QED
    BY <1>2, <1>4, <1>5, <2>1, PrefixIs
<1>7. IsStrictPrefix(Empty, k)
  <2>1. \A i \in 1 .. 0 : FALSE
    OBVIOUS
  <2>2. QED
    BY <1>2, <1>4, <1>5, <2>1, PrefixIs
<1>8. Before(Empty, k)
  BY <1>2, <1>5, <1>7, PrefixBefore
<1>9. k # <<Slash>>
  <2>1. ASSUME k = <<Slash>> PROVE FALSE
    <3>1. Len(k) = Len(<<Slash>>)
      BY <2>1
    <3>2. QED
      BY <1>4, <1>5, <3>1
  <2>2. QED
    BY <2>1
<1>10. QED
  BY <1>2, <1>6, <1>8, <1>9 DEF k

\* The order of the three forms.
LEMMA FormOrder ==
  ASSUME NEW n \in Names
  PROVE  /\ Before(n, Append(n, Slash)) /\ Before(n, Append(n, Folder))
         /\ Before(Append(n, Slash), Append(n, Folder))
<1> DEFINE s == Append(n, Slash)
           f == Append(n, Folder)
<1>1. /\ s \in Names /\ Len(s) = Len(n) + 1 /\ Len(n) \in Nat /\ s[Len(n) + 1] = Slash
      /\ f \in Names /\ Len(f) = Len(n) + 1 /\ f[Len(n) + 1] = Folder
      /\ \A i \in 1 .. Len(n) : s[i] = n[i] /\ f[i] = n[i]
  BY AppendParts
<1> HIDE DEF s, f
<1>2. IsStrictPrefix(n, s) /\ IsStrictPrefix(n, f)
  BY <1>1, PrefixIs
<1>3. Before(n, s) /\ Before(n, f)
  BY <1>1, <1>2, PrefixBefore
<1>4. Before(s, f)
  <2>1. Slash < Folder
    BY DEF Slash, Folder
  <2>2. /\ Len(n) + 1 \in 1 .. Len(f)
        /\ \A j \in 1 .. (Len(n) + 1) - 1 : j <= Len(s) /\ s[j] = f[j]
        /\ s[Len(n) + 1] < f[Len(n) + 1]
    BY <1>1, <2>1
  <2>3. QED
    BY <2>2 DEF Before
<1>5. QED
  BY <1>3, <1>4 DEF s, f

-----------------------------------------------------------------------------
(***************************************************************************)
(* The listing.                                                            *)
(***************************************************************************)
\* s3fs_rename reads the attributes of the old name.
LEMMA LookupWell ==
  ASSUME Inv1, Inv1', Inv2, [Next]_vars, Lookup
  PROVE  Inv2'
<1>1. DataOK /\ CallOK /\ CallOK' /\ BudgetOK /\ OneForm
  BY DEF Inv1, Inv2
<1>2. pc = "lookup" /\ UNCHANGED <<bucket, ent, nocopy, wanted, stranded, budget>>
  BY DEF Lookup
<1>3. PICK a \in Answers(Empty) :
        \/ /\ ~a.found /\ Spend(a.right) /\ UNCHANGED missed
           /\ Return(IF a.right THEN "enoent" ELSE "error")
        \/ /\ ~a.dir /\ Spend(a.right) /\ UNCHANGED missed
           /\ Goto("flush") /\ todo' = <<FileNode(Empty)>> /\ UNCHANGED <<mv, last>>
        \/ /\ a.found /\ a.dir
           /\ \E t \in Types(Empty, a) :
                /\ Spend(a.right /\ t.right)
                /\ mv' = IF t.type = "unknown" THEN mv ELSE add_mvnode(mv, DirNode(Empty, t.type))
                /\ missed' = missed \cup Hidden(Empty, t.type)
           /\ Goto("list") /\ UNCHANGED <<listing, todo, last>>
  BY DEF Lookup
<1>4. /\ head = NoObjects /\ marker = Empty /\ page = {} /\ truncated = FALSE /\ names = <<>>
      /\ mv = NoNodes /\ todo = <<>> /\ last = "ok" /\ faults \in 0 .. MaxFaults
      /\ mv \in [dirs : Seq(Node), files : Seq(Node)]
  BY <1>1, <1>2 DEF CallOK, PhaseOK, OtherTypes
<1>5. Empty \in Name /\ Empty \in AFile /\ Empty \in Dir
  BY FileParts
<1>6. /\ a.found \in BOOLEAN /\ a.dir \in BOOLEAN /\ a.right \in BOOLEAN
      /\ ~a.dir => Empty \in DOMAIN bucket["from"] /\ wanted[Empty] # Absent
  BY <1>1, <1>5, AnswerParts
<1>7. \A k : Has(k)' <=> Has(k)
  BY <1>2 DEF Has
<1>8. CASE ~a.found /\ Spend(a.right) /\ UNCHANGED missed /\ Return(IF a.right THEN "enoent" ELSE "error")
  <2>1. CASE a.right
    <3>1. Return("enoent") /\ faults' <= faults
      BY <1>4, <1>6, <1>8, <2>1, SpendParts
    <3>2. QED
      BY <1>2, <1>8, <3>1, ReturnedWell
  <2>2. CASE ~a.right
    <3>1. Return("error") /\ faults' <= faults /\ faults' < faults
      BY <1>4, <1>6, <1>8, <2>2, SpendParts
    <3>2. QED
      BY <1>2, <1>8, <3>1, ReturnedWell
  <2>3. QED
    BY <2>1, <2>2
<1>9. CASE /\ ~a.dir /\ Spend(a.right) /\ UNCHANGED missed
           /\ Goto("flush") /\ todo' = <<FileNode(Empty)>> /\ UNCHANGED <<mv, last>>
  <2>1. faults' <= faults /\ pc' = "flush" /\ result' = result
    BY <1>4, <1>6, <1>9, SpendParts DEF Goto
  <2>2. PendingOK'
    <3>1. ASSUME NEW n \in Name, NEW form \in Form, Has(Key(n, form))' PROVE Pending(n, form)'
      <4>1. DOMAIN bucket["from"] \subseteq {Empty}
        BY <1>1, <1>6, <1>9, FileParts DEF DataOK
      <4>2. Key(n, form) = Empty
        BY <1>7, <3>1, <4>1 DEF Has
      <4>3. n = Empty /\ form = "plain"
        BY <1>5, <4>2, KeyIsName
      <4>4. DOMAIN todo' = {1} /\ todo'[1].old = Empty
        <5> DEFINE x == FileNode(Empty)
        <5>1. x.old = Empty
          BY <1>5, NodeParts
        <5> HIDE DEF x
        <5>2. DOMAIN <<x>> = {1} /\ <<x>>[1] = x
          OBVIOUS
        <5>3. todo' = <<x>>
          BY <1>9 DEF x
        <5>4. QED
          BY <5>1, <5>2, <5>3
      <4>5. FileNodeFor(todo, n, form)'
        BY <4>3, <4>4 DEF FileNodeFor
      <4>6. QED
        BY <2>1, <4>5 DEF Pending
    <3>2. QED
      BY <3>1 DEF PendingOK
  <2>3. PagesOK'
    BY <2>1 DEF PagesOK, Listing
  <2>4. NodesOK'
    BY <1>4, <1>9, <2>1, FreshParts DEF NodesOK, Listing, Removing
  <2>5. RemovedOK'
    BY <2>1 DEF RemovedOK, Removed
  <2>6. QED
    BY <1>2, <1>4, <1>9, <2>1, <2>2, <2>3, <2>4, <2>5, GoesOn
<1>10. CASE /\ a.found /\ a.dir
            /\ \E t \in Types(Empty, a) :
                 /\ Spend(a.right /\ t.right)
                 /\ mv' = IF t.type = "unknown" THEN mv ELSE add_mvnode(mv, DirNode(Empty, t.type))
                 /\ missed' = missed \cup Hidden(Empty, t.type)
            /\ Goto("list") /\ UNCHANGED <<listing, todo, last>>
  <2>1. PICK t \in Types(Empty, a) :
          /\ Spend(a.right /\ t.right)
          /\ mv' = IF t.type = "unknown" THEN mv ELSE add_mvnode(mv, DirNode(Empty, t.type))
          /\ missed' = missed \cup Hidden(Empty, t.type)
    BY <1>10
  <2>2. t.right \in BOOLEAN /\ t.type \in {"folder", "noobj", "object", "unknown"}
    BY TypeParts
  <2>3. faults' <= faults /\ (~(a.right /\ t.right) => faults' < faults)
    <3> DEFINE right == a.right /\ t.right
    <3>1. right \in BOOLEAN /\ Spend(right)
      BY <1>6, <2>1, <2>2
    <3> HIDE DEF right
    <3>2. faults' <= faults /\ (~right => faults' < faults)
      BY <1>4, <3>1, SpendParts
    <3>3. QED
      BY <3>2 DEF right
  <2>4. /\ pc' = "list" /\ result' = result /\ missed \subseteq missed'
        /\ head' = NoObjects /\ marker' = Empty /\ page' = {}
        /\ UNCHANGED <<todo, last>>
    BY <1>4, <1>10, <2>1 DEF Goto, listing
  <2>5. /\ Exempt \subseteq Exempt'
        /\ ~(a.right /\ t.right) => Exempt' = missed'
    BY <1>1, <1>2, <2>3, <2>4, ExemptKept
  <2> DEFINE type == t.type
             new == mv'
  <2>6. /\ new = IF type = "unknown" THEN mv ELSE add_mvnode(mv, DirNode(Empty, type))
        /\ type \in {"folder", "noobj", "object", "unknown"}
    BY <2>1, <2>2
  <2> HIDE DEF type, new
  <2>7. DirNodes(mv.dirs) /\ mv.dirs = <<>> /\ DOMAIN mv.dirs = {}
    BY <1>4, FreshParts DEF DirNodes
  <2>8. DirAdded(mv, new, Empty, type)
    BY <1>4, <1>5, <2>6, <2>7, DirNodeFound
  <2>9. PendingOK'
    <3>1. ASSUME NEW n \in Name, NEW form \in Form, Has(Key(n, form))'
          PROVE  n \in Exempt' \/ Pending(n, form)'
      <4>1. CASE n = Empty
        <5>1. \/ type \in {"noobj", "unknown"} /\ ~(a.right /\ t.right) /\ Hidden(Empty, t.type) = {Empty}
              \/ type = "object"
              \/ type = "folder" /\ form = "folder"
          BY <1>1, <1>5, <1>7, <3>1, <4>1, TypeCovers DEF type
        <5>2. CASE ~(a.right /\ t.right) /\ Hidden(Empty, t.type) = {Empty}
          BY <2>1, <2>5, <4>1, <5>2
        <5>3. CASE type = "object" \/ (type = "folder" /\ form = "folder")
          <6>1. DirNodeFor(new.dirs, Empty, form)
            BY <2>7, <2>8, <5>3 DEF DirAdded
          <6>2. DirNodeFor(mv.dirs, n, form)'
            BY <4>1, <6>1 DEF new, DirNodeFor
          <6>3. QED
            BY <2>4, <6>2 DEF Pending, Listing
        <5>4. QED
          BY <5>1, <5>2, <5>3
      <4>2. CASE n # Empty
        <5>1. Before(Empty, Key(n, form))
          BY <4>2, KeySlash
        <5>2. Later(Key(n, form))'
          BY <2>4, <5>1 DEF Later
        <5>3. QED
          BY <2>4, <4>2, <5>2 DEF Pending, Listing
      <4>3. QED
        BY <4>1, <4>2
    <3>2. QED
      BY <3>1 DEF PendingOK
  <2>10. PagesOK'
    BY <2>4, FreshParts DEF PagesOK, Listing, Listed
  <2>11. NodesOK'
    BY <2>4, <2>7, <2>8 DEF NodesOK, Listing, Removing, DirAdded, new
  <2>12. RemovedOK'
    BY <1>4, <2>4 DEF RemovedOK
  <2>13. QED
    BY <1>2, <1>4, <2>3, <2>4, <2>9, <2>10, <2>11, <2>12, GoesOn
<1>11. QED
  BY <1>3, <1>8, <1>9, <1>10

\* A file that is open is flushed.
LEMMA FlushFirstWell ==
  ASSUME Inv1, Inv1', Inv2, [Next]_vars, FlushFirst
  PROVE  Inv2'
<1>1. DataOK /\ CallOK /\ CallOK' /\ DataOK' /\ BudgetOK
  BY DEF Inv1, Inv2
<1>2. /\ pc = "flush" /\ UNCHANGED <<nocopy, missed, stranded, budget>>
      /\ \/ Spend(TRUE) /\ Goto("copy") /\ UNCHANGED <<listing, moving>>
         \/ Spend(FALSE) /\ Return("error")
  BY DEF FlushFirst
<1>3. faults \in 0 .. MaxFaults /\ todo # <<>> /\ FileNodes(todo) /\ todo[1].old = Empty
  BY <1>1, <1>2 DEF CallOK, OtherTypes, TodoOK
<1>4. CASE Spend(FALSE) /\ Return("error")
  <2>1. faults' < faults /\ faults' <= faults
    BY <1>3, <1>4, SpentParts
  <2>2. QED
    BY <1>2, <1>4, <2>1, ReturnedWell
<1>5. CASE Spend(TRUE) /\ Goto("copy") /\ UNCHANGED <<listing, moving>>
  <2>1. /\ faults' <= faults /\ pc' = "copy" /\ result' = result
        /\ UNCHANGED <<head, marker, page, truncated, names, mv, todo, last>>
    BY <1>3, <1>5, SpendParts DEF Goto, listing, moving
  <2>2. 1 \in DOMAIN todo
    BY <1>1, <1>3, CurrentParts DEF CallOK
  <2>3. wanted'[Empty] # Absent
    BY <1>1, <2>1, <2>2, <1>3 DEF CallOK, TodoOK, FileNodes, Moving
  <2>4. PendingOK'
    <3>1. ASSUME NEW n \in Name, NEW form \in Form, Has(Key(n, form))' PROVE Pending(n, form)'
      <4>1. DOMAIN bucket'["from"] \subseteq {Empty}
        BY <1>1, <2>3, FileParts DEF DataOK
      <4>2. Key(n, form) = Empty
        BY <3>1, <4>1 DEF Has
      <4>3. n = Empty /\ form = "plain"
        BY <4>2, KeyIsName, FileParts
      <4>4. FileNodeFor(todo, n, form)'
        BY <1>3, <2>1, <2>2, <4>3 DEF FileNodeFor
      <4>5. QED
        BY <2>1, <4>4 DEF Pending, Moving
    <3>2. QED
      BY <3>1 DEF PendingOK
  <2>5. PagesOK'
    BY <2>1 DEF PagesOK, Listing
  <2>6. NodesOK'
    BY <2>1 DEF Inv2, NodesOK, Listing, Removing
  <2>7. RemovedOK'
    BY <2>1 DEF RemovedOK, Removed
  <2>8. last' # "error"
    BY <1>1, <1>2, <2>1 DEF BudgetOK
  <2>9. QED
    BY <1>2, <2>1, <2>4, <2>5, <2>6, <2>7, <2>8, GoesOn
<1>6. QED
  BY <1>2, <1>4, <1>5

\* list_bucket asks for a page.
LEMMA ListWell ==
  ASSUME Inv1, Inv1', Inv2, [Next]_vars, List
  PROVE  Inv2'
<1>1. DataOK /\ CallOK /\ CallOK' /\ BudgetOK /\ PendingOK /\ PagesOK /\ NodesOK
  BY DEF Inv1, Inv2
<1>2. /\ pc = "list" /\ UNCHANGED <<bucket, ent, nocopy, wanted, missed, stranded, budget>>
  BY DEF List, history
<1>3. \/ Spend(FALSE) /\ Return("error")
      \/ /\ \E keys \in SUBSET Rest : IsPage(keys) /\ page' = keys /\ truncated' = (keys # Rest)
         /\ Spend(TRUE) /\ Goto("append") /\ UNCHANGED <<head, marker, names, moving>>
  BY DEF List
<1>4. faults \in 0 .. MaxFaults /\ last # "error"
  BY <1>1, <1>2 DEF CallOK, OtherTypes, BudgetOK
<1>5. \A k : Has(k)' <=> Has(k)
  BY <1>2 DEF Has
<1>6. CASE Spend(FALSE) /\ Return("error")
  <2>1. faults' < faults /\ faults' <= faults
    BY <1>4, <1>6, SpentParts
  <2>2. QED
    BY <1>2, <1>6, <2>1, ReturnedWell
<1>7. CASE /\ \E keys \in SUBSET Rest : IsPage(keys) /\ page' = keys /\ truncated' = (keys # Rest)
           /\ Spend(TRUE) /\ Goto("append") /\ UNCHANGED <<head, marker, names, moving>>
  <2>1. PICK keys \in SUBSET Rest : IsPage(keys) /\ page' = keys /\ truncated' = (keys # Rest)
    BY <1>7
  <2>2. /\ faults' = faults /\ faults' <= faults /\ pc' = "append" /\ result' = result
        /\ UNCHANGED <<head, marker, names, mv, todo, last>>
    BY <1>4, <1>7, SpentParts DEF Goto, moving
  <2>3. Exempt' = Exempt
    BY <1>2, <2>2 DEF Exempt
  <2>4. \A k \in keys, l \in Rest \ keys : Before(k, l)
    BY <2>1 DEF IsPage
  <2>5. page = {}
    BY <1>1, <1>2 DEF PagesOK
  <2>6. PendingOK'
    <3>1. ASSUME NEW n \in Name, NEW form \in Form, Has(Key(n, form))'
          PROVE  n \in Exempt' \/ Pending(n, form)'
      <4>1. Has(Key(n, form))
        BY <1>5, <3>1
      <4>2. n \in Exempt \/ Pending(n, form)
        BY <1>1, <1>2, <4>1 DEF PendingOK
      <4>3. CASE DirNodeFor(mv.dirs, n, form)
        BY <2>2, <4>3 DEF Pending, Listing, DirNodeFor
      <4>4. CASE n # Empty /\ \E t \in Listed(head) : n = <<Slash>> \o t
        BY <2>2, <4>4 DEF Pending, Listing, Listed
      <4>5. CASE n # Empty /\ Later(Key(n, form))
        <5> DEFINE k == Key(n, form)
        <5>1. /\ k \in DOMAIN bucket["from"] /\ IsPrefix(<<Slash>>, k) /\ Before(marker, k)
          BY <4>1, <4>5, KeySlash DEF Has, Later
        <5>2. k \in Rest
          BY <5>1 DEF Rest
        <5>3. k \in keys \/ (truncated' /\ \A p \in keys : Before(p, k))
          BY <2>1, <2>4, <5>2
        <5>4. k \in page' \/ Later(k)'
          BY <2>1, <2>2, <5>1, <5>3 DEF Later
        <5>5. QED
          BY <2>2, <4>5, <5>4 DEF Pending, Listing
      <4>6. QED
        BY <1>2, <2>3, <2>5, <4>2, <4>3, <4>4, <4>5 DEF Pending, Listing, Moving, Removing
    <3>2. QED
      BY <3>1 DEF PendingOK
  <2>7. PagesOK'
    <3>1. ASSUME NEW p \in keys PROVE Has(p)' /\ Before(marker, p)
      <4>1. p \in DOMAIN bucket["from"] /\ IsPrefix(<<Slash>>, p) /\ (marker = Empty \/ Before(marker, p))
        BY DEF Rest
      <4>2. p \in Names
        BY <1>1, <4>1, NamesFinite, FileParts DEF DataOK
      <4>3. Before(Empty, p)
        <5>1. /\ Empty \in Names /\ <<Slash>> \in Names /\ Len(<<Slash>>) = 1 /\ Len(Empty) = 0
          BY DEF Empty, Names, Slash
        <5>2. Len(p) >= 1 /\ Len(p) \in Nat
          <6>1. Len(p) \in Nat
            BY <4>2 DEF Names
          <6>2. Len(<<Slash>>) <= Len(p)
            BY <4>1, <4>2, <5>1, PrefixIs
          <6>3. QED
            BY <5>1, <6>1, <6>2
        <5>3. IsStrictPrefix(Empty, p)
          <6>1. \A i \in 1 .. 0 : FALSE
            OBVIOUS
          <6>2. QED
            BY <4>2, <5>1, <5>2, <6>1, PrefixIs
        <5>4. QED
          BY <4>2, <5>1, <5>3, PrefixBefore
      <4>4. QED
        BY <1>5, <4>1, <4>3 DEF Has
    <3>2. /\ \A n \in DOMAIN head : ~Before(marker, <<Slash>> \o Known(head, n))
          /\ \A t \in Listed(head) : Forms(<<Slash>> \o t) # {}
      BY <1>1, <1>2 DEF PagesOK, Listing
    <3>3. \A n : Forms(n)' = Forms(n)
      BY <1>5 DEF Forms
    <3>4. \A p \in page' : Has(p)' /\ Before(marker', p)
      BY <2>1, <2>2, <3>1
    <3>5. \A n \in DOMAIN head' : ~Before(marker', <<Slash>> \o Known(head', n))
      BY <2>2, <3>2
    <3>6. \A t \in Listed(head)' : Forms(<<Slash>> \o t)' # {}
      BY <2>2, <3>2, <3>3 DEF Listed
    <3>7. QED
      BY <2>2, <3>4, <3>5, <3>6 DEF PagesOK
  <2>8. NodesOK'
    BY <1>1, <1>2, <2>2 DEF NodesOK, Listing, Removing
  <2>9. RemovedOK'
    BY <2>2 DEF RemovedOK, Removed
  <2>10. QED
    BY <1>2, <1>4, <2>2, <2>6, <2>7, <2>8, <2>9, GoesOn
<1>8. QED
  BY <1>3, <1>6, <1>7

\* A key that comes before none of the entries comes before none when its own is there.
LEMMA KnownInserted ==
  ASSUME NEW h, HeadOK(h), NEW t \in Short, NEW form \in Form, NEW key, NEW m \in Names,
         key = Key(<<Slash>> \o t, form), Before(m, key),
         \A n \in DOMAIN h : ~Before(m, <<Slash>> \o Known(h, n)),
         NEW new, new = insert(h, IF form = "folder" THEN Append(t, Folder) ELSE t, FALSE)
  PROVE  \A n \in DOMAIN new : ~Before(key, <<Slash>> \o Known(new, n))
<1> DEFINE n0 == <<Slash>> \o t
           s  == Append(t, Slash)
           f  == Append(t, Folder)
<1>1. /\ n0 \in Name /\ t \in Names /\ n0 \in Names /\ s \in Names /\ f \in Names
      /\ t # Empty /\ f # Empty /\ s # Empty /\ t # s /\ t # f /\ s # f
  BY ShortParts, NameParts, AppendParts, ShortForms
<1>2. <<Slash>> \o s = Append(n0, Slash) /\ <<Slash>> \o f = Append(n0, Folder)
  <2>1. t \in Seq(Nat) /\ <<Slash>> \in Seq(Nat) /\ Slash \in Nat /\ Folder \in Nat
    BY <1>1 DEF Names, Slash, Folder
  <2>2. ASSUME NEW c \in Nat PROVE <<Slash>> \o Append(t, c) = Append(<<Slash>> \o t, c)
    <3>1. Append(t, c) = t \o <<c>> /\ <<c>> \in Seq(Nat)
      BY <2>1, AppendIsConcat
    <3>2. <<Slash>> \o t \in Seq(Nat)
      BY <2>1, ConcatProperties
    <3>3. Append(<<Slash>> \o t, c) = (<<Slash>> \o t) \o <<c>>
      BY <3>2, AppendIsConcat
    <3>4. QED
      BY <2>1, <3>1, <3>3, ConcatAssociative
  <2>3. QED
    BY <2>1, <2>2
<1>3. /\ Append(n0, Slash) \in Names /\ Append(n0, Folder) \in Names
      /\ Before(n0, Append(n0, Slash)) /\ Before(n0, Append(n0, Folder))
      /\ Before(Append(n0, Slash), Append(n0, Folder))
  BY <1>1, FormOrder, AppendParts
<1>4. /\ form = "plain" => key = n0
      /\ form = "slash" => key = Append(n0, Slash)
      /\ form = "folder" => key = Append(n0, Folder)
      /\ form \in {"plain", "slash", "folder"}
  BY DEF Key, Form
<1>5. \A n \in DOMAIN h : Known(h, n) \in Names /\ <<Slash>> \o Known(h, n) \in Names
  BY LastNameParts, SlashBefore
<1> HIDE DEF n0, s, f
<1>6. key \in Names
  BY <1>1, <1>3, <1>4
<1>7. \A n \in DOMAIN h : ~Before(key, <<Slash>> \o Known(h, n))
  BY <1>5, <1>6, BeforeTransitive
<1>8. CASE form # "folder"
  <2>1. key \in {n0, Append(n0, Slash)} /\ ~Before(key, n0)
    <3>1. key \in {n0, Append(n0, Slash)}
      BY <1>4, <1>8
    <3>2. ~Before(n0, n0)
      BY <1>1, NotBeforeItself
    <3>3. ~Before(Append(n0, Slash), n0)
      BY <1>1, <1>3, <3>2, BeforeTransitive
    <3>4. QED
      BY <3>1, <3>2, <3>3
  <2>2. ASSUME s \in DOMAIN h PROVE FALSE
    <3>1. PICK u \in Short : EntryOK(h, u, s)
      BY <2>2 DEF HeadOK
    <3>2. s # u /\ s # Append(u, Folder) /\ (s = Append(u, Slash) => u = t)
      BY ShortForms DEF s
    <3>3. u = t /\ h[s].orgname = Append(u, Folder)
      BY <3>1, <3>2 DEF EntryOK
    <3>4. Known(h, s) = f
      BY <1>1, <3>3 DEF Known, f
    <3>5. ~Before(key, Append(n0, Folder))
      BY <1>2, <1>7, <2>2, <3>4
    <3>6. QED
      BY <1>3, <2>1, <3>5
  <2> DEFINE e == [orgname |-> t, normalname |-> Empty, is_dir |-> FALSE]
  <2>3. new = Set(h, t, e)
    BY <1>8, <2>2, InsertParts DEF s
  <2>8. e.orgname = t
    OBVIOUS
  <2> HIDE DEF e
  <2>4. /\ \A n \in DOMAIN new : n = t \/ (n # t /\ n \in DOMAIN h /\ new[n] = h[n])
        /\ t \in DOMAIN new /\ new[t] = e
    BY <2>3 DEF Set
  <2>5. Known(new, t) = t
    BY <1>1, <2>4, <2>8 DEF Known
  <2>6. ~Before(key, <<Slash>> \o Known(new, t))
    BY <2>1, <2>5 DEF n0
  <2>7. QED
    BY <1>7, <2>4, <2>6 DEF Known
<1>9. CASE form = "folder"
  <2> DEFINE e1 == [orgname |-> f, normalname |-> Empty, is_dir |-> TRUE]
             e2 == [orgname |-> Empty, normalname |-> s, is_dir |-> TRUE]
  <2>1. new = Set(Set(Erase(h, t), s, e1), f, e2)
    BY <1>9, InsertParts DEF s, f
  <2>2. e1.orgname = f /\ e2.orgname = Empty /\ e2.normalname = s
    OBVIOUS
  <2> HIDE DEF e1, e2
  <2>3. /\ \A n \in DOMAIN new : n \in {s, f} \/ (n \in DOMAIN h /\ new[n] = h[n])
        /\ new[f] = e2 /\ new[s] = e1
    BY <1>1, <2>1 DEF Set, Erase
  <2>4. Known(new, f) = s /\ Known(new, s) = f
    BY <1>1, <2>2, <2>3 DEF Known
  <2>5. key = Append(n0, Folder)
    BY <1>4, <1>9
  <2>6. ~Before(key, Append(n0, Folder)) /\ ~Before(key, Append(n0, Slash))
    BY <1>3, <2>5, NotBeforeItself, BeforeTransitive
  <2>7. ASSUME NEW n \in DOMAIN new PROVE ~Before(key, <<Slash>> \o Known(new, n))
    <3>1. CASE n = s
      BY <1>2, <2>4, <2>6, <3>1
    <3>2. CASE n = f
      BY <1>2, <2>4, <2>6, <3>2
    <3>3. CASE n \in DOMAIN h /\ new[n] = h[n]
      <4>1. Known(new, n) = Known(h, n)
        BY <3>3 DEF Known
      <4>2. QED
        BY <1>7, <3>3, <4>1
    <3>4. QED
      BY <2>3, <3>1, <3>2, <3>3
  <2>8. QED
    BY <2>7
<1>10. QED
  BY <1>8, <1>9

\* append_objects_from_xml.
LEMMA AppendObjectWell ==
  ASSUME Inv1, Inv1', Inv2, [Next]_vars, AppendObject
  PROVE  Inv2'
<1>1. DataOK /\ CallOK /\ CallOK' /\ BudgetOK /\ PendingOK /\ PagesOK /\ NodesOK
  BY DEF Inv1, Inv2
<1> DEFINE key == Least(page)
           name == get_object_name(<<Slash>>, key)
<1>2. /\ pc = "append" /\ page # {} /\ page' = page \ {key}
      /\ head' = IF key = <<Slash>> THEN head ELSE insert(head, name, FALSE)
      /\ marker' = key
      /\ UNCHANGED <<bucket, ent, side, nocopy, pc, result, names, truncated, mv, todo, last, faults>>
      /\ UNCHANGED <<wanted, missed, stranded, budget>>
  BY DEF AppendObject, moving, history
<1>3. /\ page \subseteq Keys /\ HeadOK(head) /\ \A k \in page : IsPrefix(<<Slash>>, k)
      /\ marker \in Names /\ faults \in 0 .. MaxFaults
  BY <1>1 DEF CallOK, OtherTypes, ListingOK
<1>4. /\ key \in page /\ key \in Keys /\ key \in Names /\ IsPrefix(<<Slash>>, key)
      /\ \A m \in page : m # key => Before(key, m)
  <2>1. page \in SUBSET Names /\ IsFiniteSet(page) /\ Keys \subseteq Names
    BY <1>3, NamesFinite, FS_Subset
  <2>2. QED
    BY <1>2, <1>3, <2>1, Ends
<1>5. /\ \A p \in page : Has(p) /\ Before(marker, p)
      /\ \A n \in DOMAIN head : ~Before(marker, <<Slash>> \o Known(head, n))
      /\ \A t \in Listed(head) : Forms(<<Slash>> \o t) # {}
  BY <1>1, <1>2 DEF PagesOK, Listing
<1>6. ASSUME key # <<Slash>>
      PROVE  \E t \in Short, form \in Form :
               /\ key = Key(<<Slash>> \o t, form)
               /\ head' = insert(head, IF form = "folder" THEN Append(t, Folder) ELSE t, FALSE)
               /\ Listed(head') = Listed(head) \cup {t}
  <2>1. PICK t \in Short, form \in Form :
          /\ key = Key(<<Slash>> \o t, form)
          /\ name = IF form = "folder" THEN Append(t, Folder) ELSE t
    BY <1>4, <1>6, ObjectName
  <2>2. head' = insert(head, IF form = "folder" THEN Append(t, Folder) ELSE t, FALSE)
    BY <1>2, <1>6, <2>1
  <2>3. Listed(head') = Listed(head) \cup {t}
    <3>1. CASE form = "folder"
      <4>1. head' = insert(head, Append(t, Folder), FALSE)
        BY <2>2, <3>1
      <4>2. Listed(insert(head, Append(t, Folder), FALSE)) = Listed(head) \cup {t}
        BY <1>3, InsertFolder, Zenon
      <4>3. QED
        BY <4>1, <4>2
    <3>2. CASE form # "folder"
      <4>1. head' = insert(head, t, FALSE)
        BY <2>2, <3>2
      <4>2. Listed(insert(head, t, FALSE)) = Listed(head) \cup {t}
        BY <1>3, InsertName, Zenon
      <4>3. QED
        BY <4>1, <4>2
    <3>3. QED
      BY <3>1, <3>2
  <2>4. QED
    BY <2>1, <2>2, <2>3
<1>7. PICK k0 \in Names : k0 = key
  BY <1>4
<1> DEFINE Facts == /\ k0 \in page /\ k0 \in Keys /\ IsPrefix(<<Slash>>, k0)
                    /\ \A m \in page : m # k0 => Before(k0, m)
                    /\ page' = page \ {k0} /\ marker' = k0
                    /\ k0 = <<Slash>> => head' = head
<1>8. Facts
  BY <1>2, <1>4, <1>7
<1>9. ASSUME k0 # <<Slash>>
      PROVE  \E t \in Short, form \in Form :
               /\ k0 = Key(<<Slash>> \o t, form)
               /\ head' = insert(head, IF form = "folder" THEN Append(t, Folder) ELSE t, FALSE)
               /\ Listed(head') = Listed(head) \cup {t}
  BY <1>6, <1>7, <1>9
<1> HIDE DEF key, name
<1>10. Listed(head) \subseteq Listed(head')
  <2>1. CASE k0 = <<Slash>>
    BY <1>8, <2>1
  <2>2. CASE k0 # <<Slash>>
    BY <1>9, <2>2
  <2>3. QED
    BY <2>1, <2>2
<1>11. Exempt' = Exempt /\ \A k : Has(k)' <=> Has(k)
  BY <1>2 DEF Exempt, Has
<1>12. PendingOK'
  <2>1. ASSUME NEW n \in Name, NEW form \in Form, Has(Key(n, form))'
        PROVE  n \in Exempt' \/ Pending(n, form)'
    <3>1. n \in Exempt \/ Pending(n, form)
      BY <1>1, <1>2, <1>11, <2>1 DEF PendingOK
    <3>2. CASE DirNodeFor(mv.dirs, n, form)
      BY <1>2, <3>2 DEF Pending, Listing, DirNodeFor
    <3>3. CASE n # Empty /\ \E t \in Listed(head) : n = <<Slash>> \o t
      <4>1. \E t \in Listed(head') : n = <<Slash>> \o t
        BY <1>10, <3>3
      <4>2. \E t \in Listed(head)' : n = <<Slash>> \o t
        BY <4>1 DEF Listed
      <4>3. QED
        BY <1>2, <3>3, <4>2 DEF Pending, Listing
    <3>4. CASE n # Empty /\ Key(n, form) \in page
      <4>1. CASE Key(n, form) = k0
        <5>1. k0 # <<Slash>>
          BY <3>4, <4>1, KeySlash
        <5>2. PICK t \in Short, g \in Form : /\ k0 = Key(<<Slash>> \o t, g)
                                             /\ Listed(head') = Listed(head) \cup {t}
          BY <1>9, <5>1
        <5>3. n = <<Slash>> \o t
          BY <4>1, <5>2, ShortParts, KeyInjective
        <5>4. \E u \in Listed(head') : n = <<Slash>> \o u
          BY <5>2, <5>3
        <5>5. \E u \in Listed(head)' : n = <<Slash>> \o u
          BY <5>4 DEF Listed
        <5>6. QED
          BY <1>2, <3>4, <5>5 DEF Pending, Listing
      <4>2. CASE Key(n, form) # k0
        <5>1. Key(n, form) \in page'
          BY <1>8, <3>4, <4>2
        <5>2. QED
          BY <1>2, <3>4, <5>1 DEF Pending, Listing
      <4>3. QED
        BY <4>1, <4>2
    <3>5. CASE n # Empty /\ Later(Key(n, form))
      <4>1. Later(Key(n, form))'
        BY <1>2, <1>8, <3>5 DEF Later
      <4>2. QED
        BY <1>2, <3>5, <4>1 DEF Pending, Listing
    <3>6. QED
      BY <1>2, <1>11, <3>1, <3>2, <3>3, <3>4, <3>5 DEF Pending, Listing, Moving, Removing
  <2>2. QED
    BY <2>1 DEF PendingOK
<1>13. PagesOK'
  <2>1. \A p \in page' : Has(p)' /\ Before(marker', p)
    BY <1>5, <1>8, <1>11
  <2>2. \A n \in DOMAIN head' : ~Before(marker', <<Slash>> \o Known(head', n))
    <3>1. CASE k0 = <<Slash>>
      <4>1. \A n \in DOMAIN head : <<Slash>> \o Known(head, n) \in Names
        BY <1>3, LastNameParts, SlashBefore
      <4>2. Before(marker, k0)
        BY <1>5, <1>8
      <4>3. \A n \in DOMAIN head : ~Before(k0, <<Slash>> \o Known(head, n))
        BY <1>3, <1>5, <4>1, <4>2, BeforeTransitive
      <4>4. QED
        BY <1>8, <3>1, <4>3
    <3>2. CASE k0 # <<Slash>>
      <4>1. PICK t \in Short, form \in Form :
              /\ k0 = Key(<<Slash>> \o t, form)
              /\ head' = insert(head, IF form = "folder" THEN Append(t, Folder) ELSE t, FALSE)
        BY <1>9, <3>2
      <4>2. Before(marker, k0)
        BY <1>5, <1>8
      <4> DEFINE new == head'
      <4>3. new = insert(head, IF form = "folder" THEN Append(t, Folder) ELSE t, FALSE)
        BY <4>1
      <4> HIDE DEF new
      <4>4. \A n \in DOMAIN new : ~Before(k0, <<Slash>> \o Known(new, n))
        BY <1>3, <1>5, <4>1, <4>2, <4>3, KnownInserted
      <4>5. QED
        BY <1>8, <4>4 DEF new
    <3>3. QED
      BY <3>1, <3>2
  <2>3. \A n : Forms(n)' = Forms(n)
    BY <1>11 DEF Forms
  <2>4. \A t \in Listed(head') : Forms(<<Slash>> \o t) # {}
    <3>1. CASE k0 = <<Slash>>
      BY <1>5, <1>8, <3>1
    <3>2. CASE k0 # <<Slash>>
      <4>1. PICK t \in Short, form \in Form :
              /\ k0 = Key(<<Slash>> \o t, form) /\ Listed(head') = Listed(head) \cup {t}
        BY <1>9, <3>2
      <4>2. form \in Forms(<<Slash>> \o t)
        BY <1>5, <1>8, <4>1 DEF Forms
      <4>3. QED
        BY <1>5, <4>1, <4>2
    <3>3. QED
      BY <3>1, <3>2
  <2>5. \A t \in Listed(head)' : Forms(<<Slash>> \o t)' # {}
    BY <2>3, <2>4 DEF Listed
  <2>6. QED
    BY <1>2, <2>1, <2>2, <2>5 DEF PagesOK
<1>14. NodesOK'
  BY <1>1, <1>2 DEF NodesOK, Listing, Removing
<1>15. RemovedOK'
  BY <1>2 DEF RemovedOK, Removed
<1>16. last # "error" /\ faults' <= faults
  BY <1>1, <1>2, <1>3 DEF BudgetOK
<1>17. QED
  BY <1>2, <1>12, <1>13, <1>14, <1>15, <1>16, GoesOn

\* The next page is asked for, or the list ends.
LEMMA NextPageWell ==
  ASSUME Inv1, Inv1', Inv2, [Next]_vars, NextPage
  PROVE  Inv2'
<1>1. DataOK /\ CallOK /\ CallOK' /\ BudgetOK /\ PendingOK /\ PagesOK /\ NodesOK
  BY DEF Inv1, Inv2
<1>2. /\ pc = "append" /\ page = {}
      /\ UNCHANGED <<bucket, ent, side, nocopy, result, head, page, truncated, names, faults>>
      /\ UNCHANGED <<mv, todo, last, wanted, missed, stranded, budget>>
      /\ \/ truncated /\ pc' = "list" /\ marker' \in {marker, <<Slash>> \o GetLastName(head)}
         \/ ~truncated /\ pc' = "named" /\ marker' = marker
  BY DEF NextPage, Goto, moving, history
<1>3. /\ HeadOK(head) /\ marker \in Names /\ faults \in 0 .. MaxFaults
      /\ truncated => DOMAIN head # {}
  BY <1>1, <1>2 DEF CallOK, OtherTypes, ListingOK
<1>4. /\ \A n \in DOMAIN head : ~Before(marker, <<Slash>> \o Known(head, n))
      /\ \A t \in Listed(head) : Forms(<<Slash>> \o t) # {}
  BY <1>1, <1>2 DEF PagesOK, Listing
<1>5. Exempt' = Exempt /\ \A k : Has(k)' <=> Has(k)
  BY <1>2 DEF Exempt, Has
<1>6. ASSUME truncated
      PROVE  /\ marker' \in Names /\ (marker' = marker \/ Before(marker', marker))
             /\ \A n \in DOMAIN head : ~Before(marker', <<Slash>> \o Known(head, n))
  <2>1. CASE marker' = marker
    BY <1>3, <1>4, <2>1
  <2>2. CASE marker' = <<Slash>> \o GetLastName(head)
    <3>1. /\ \A n \in DOMAIN head : Known(head, n) \in Names
          /\ GetLastName(head) \in Names /\ \E n \in DOMAIN head : GetLastName(head) = Known(head, n)
          /\ \A n \in DOMAIN head : ~Before(GetLastName(head), Known(head, n))
      BY <1>3, <1>6, LastNameParts
    <3>2. \A n \in DOMAIN head : ~Before(marker', <<Slash>> \o Known(head, n))
      BY <2>2, <3>1, ShortOrder
    <3>3. marker' \in Names
      BY <2>2, <3>1, SlashBefore
    <3>4. ~Before(marker, marker')
      BY <1>4, <2>2, <3>1
    <3>5. QED
      BY <1>3, <3>2, <3>3, <3>4, BeforeTotal
  <2>3. QED
    BY <1>2, <1>6, <2>1, <2>2
<1>7. PendingOK'
  <2>1. ASSUME NEW n \in Name, NEW form \in Form, Has(Key(n, form))'
        PROVE  n \in Exempt' \/ Pending(n, form)'
    <3>1. n \in Exempt \/ Pending(n, form)
      BY <1>1, <1>2, <1>5, <2>1 DEF PendingOK
    <3>2. CASE DirNodeFor(mv.dirs, n, form)
      BY <1>2, <3>2 DEF Pending, Listing, DirNodeFor
    <3>3. CASE n # Empty /\ \E t \in Listed(head) : n = <<Slash>> \o t
      BY <1>2, <3>3 DEF Pending, Listing, Listed
    <3>4. CASE n # Empty /\ Later(Key(n, form))
      <4> DEFINE k == Key(n, form)
      <4>1. truncated /\ Before(marker, k) /\ k \in Names
        BY <1>2, <3>4, KeySlash DEF Later
      <4> HIDE DEF k
      <4>2. Before(marker', k)
        BY <1>3, <1>6, <4>1, BeforeTransitive
      <4>3. pc' = "list" /\ page' = {}
        BY <1>2, <4>1
      <4>4. Later(k)'
        BY <4>2, <4>3 DEF Later, k
      <4>5. QED
        BY <3>4, <4>3, <4>4 DEF Pending, Listing, k
    <3>5. QED
      BY <1>2, <1>5, <3>1, <3>2, <3>3, <3>4 DEF Pending, Listing, Moving, Removing
  <2>2. QED
    BY <2>1 DEF PendingOK
<1>8. PagesOK'
  <2>1. \A t \in Listed(head)' : Forms(<<Slash>> \o t)' # {}
    BY <1>2, <1>4, <1>5 DEF Listed, Forms
  <2>2. pc' = "list" => \A n \in DOMAIN head' : ~Before(marker', <<Slash>> \o Known(head', n))
    BY <1>2, <1>6
  <2>3. QED
    BY <1>2, <2>1, <2>2 DEF PagesOK
<1>9. NodesOK'
  BY <1>1, <1>2 DEF NodesOK, Listing, Removing
<1>10. RemovedOK'
  BY <1>2 DEF RemovedOK, Removed
<1>11. last # "error" /\ faults' <= faults
  BY <1>1, <1>2, <1>3 DEF BudgetOK
<1>12. QED
  BY <1>2, <1>7, <1>8, <1>9, <1>10, <1>11, GoesOn

\* The names are listed.
LEMMA NamedWell ==
  ASSUME Inv1, Inv1', Inv2, [Next]_vars, Named
  PROVE  Inv2'
<1>1. DataOK /\ CallOK /\ CallOK' /\ BudgetOK /\ PendingOK /\ PagesOK /\ NodesOK
  BY DEF Inv1, Inv2
<1>2. /\ pc = "named" /\ names' = NameList /\ pc' = "check"
      /\ UNCHANGED <<bucket, ent, side, nocopy, result, head, marker, page, truncated, faults>>
      /\ UNCHANGED <<mv, todo, last, wanted, missed, stranded, budget>>
  BY DEF Named, Goto, moving, history
<1>3. HeadOK(head) /\ faults \in 0 .. MaxFaults /\ page = {}
  BY <1>1, <1>2 DEF CallOK, OtherTypes, ListingOK, PagesOK
<1> DEFINE list == MakeHierarchizedList(GetNameList(head))
<1>4. /\ list \in Seq(Short) /\ \A i, j \in DOMAIN list : list[i] = list[j] => i = j
      /\ {list[i] : i \in DOMAIN list} = Listed(head) \cup UNION {Ancestors(n) : n \in Listed(head)}
  BY <1>3, NameListParts
<1>5. names' = list
  BY <1>2 DEF NameList
<1> HIDE DEF list
<1>6. Exempt' = Exempt /\ \A k : Has(k)' <=> Has(k)
  BY <1>2 DEF Exempt, Has
<1>7. PendingOK'
  <2>1. ASSUME NEW n \in Name, NEW form \in Form, Has(Key(n, form))'
        PROVE  n \in Exempt' \/ Pending(n, form)'
    <3>1. n \in Exempt \/ Pending(n, form)
      BY <1>1, <1>2, <1>6, <2>1 DEF PendingOK
    <3>2. CASE DirNodeFor(mv.dirs, n, form)
      BY <1>2, <3>2 DEF Pending, DirNodeFor
    <3>3. CASE n # Empty /\ \E t \in Listed(head) : n = <<Slash>> \o t
      <4>1. PICK t \in Listed(head) : n = <<Slash>> \o t
        BY <3>3
      <4>2. t \in {list[i] : i \in DOMAIN list}
        BY <1>4, <4>1
      <4>3. PICK i \in DOMAIN list : list[i] = t
        BY <4>2
      <4>4. i \in DOMAIN names' /\ n = <<Slash>> \o names'[i]
        BY <1>5, <4>1, <4>3
      <4>5. QED
        BY <1>2, <4>4 DEF Pending
    <3>4. QED
      BY <1>2, <1>3, <1>6, <3>1, <3>2, <3>3 DEF Pending, Later, Listing, Moving, Removing
  <2>2. QED
    BY <2>1 DEF PendingOK
<1>8. PagesOK'
  BY <1>2 DEF PagesOK, Listing
<1>9. NodesOK'
  <2>1. \A i \in DOMAIN names' : names'[i] \in Short
    BY <1>4, <1>5, ElementOfSeq
  <2>2. \A i \in DOMAIN names' : <<Slash>> \o names'[i] # Empty
    BY <2>1, ShortParts
  <2>3. \A j \in DOMAIN mv.dirs : mv.dirs[j].new = Empty
    BY <1>1, <1>2 DEF NodesOK, Listing
  <2>4. \A i \in DOMAIN names', j \in DOMAIN mv'.dirs : mv'.dirs[j].new # <<Slash>> \o names'[i]
    BY <1>2, <2>2, <2>3
  <2>5. \A i, j \in DOMAIN names' : names'[i] = names'[j] => i = j
    BY <1>4, <1>5
  <2>6. QED
    BY <1>1, <1>2, <2>4, <2>5 DEF NodesOK, Listing, Removing
<1>10. RemovedOK'
  BY <1>2 DEF RemovedOK, Removed
<1>11. last # "error" /\ faults' <= faults
  BY <1>1, <1>2, <1>3 DEF BudgetOK
<1>12. QED
  BY <1>2, <1>7, <1>8, <1>9, <1>10, <1>11, GoesOn

\* What the node of a file adds to the list.
LEMMA FileNodeFound ==
  ASSUME NEW m \in [dirs : Seq(Node), files : Seq(Node)], NEW f \in AFile,
         NEW new, new = add_mvnode(m, FileNode(f))
  PROVE  /\ new.dirs = m.dirs /\ FileNodeFor(new.files, f, "plain")
         /\ \A n, form : FileNodeFor(m.files, n, form) => FileNodeFor(new.files, n, form)
<1> DEFINE node == FileNode(f)
           old  == m.files
           now  == Inserted(old, node)
<1>1. node \in Node /\ node.old = f /\ ~node.is_dir
  BY NodeParts
<1>2. old \in Seq(Node)
  OBVIOUS
<1> HIDE DEF node, old
<1>3. new = add_mvnode(m, node)
  BY DEF node
<1>4. new.dirs = m.dirs /\ new.files = now
  BY <1>1, <1>3, AddParts DEF old
<1>5. /\ \A j \in DOMAIN old : \E i \in DOMAIN now : now[i] = old[j]
      /\ \E i \in DOMAIN now : now[i].old = node.old
  BY <1>1, <1>2, InsertedParts
<1> HIDE DEF now
<1>6. FileNodeFor(now, f, "plain")
  BY <1>1, <1>5 DEF FileNodeFor
<1>7. \A n, form : FileNodeFor(old, n, form) => FileNodeFor(now, n, form)
  BY <1>5 DEF FileNodeFor
<1>8. QED
  BY <1>4, <1>6, <1>7 DEF old

\* A file has one object, under its own name.
LEMMA FileIsPlain ==
  ASSUME DataOK, NEW f \in File, NEW form \in Form, Has(Key(f, form))
  PROVE  form = "plain"
<1> DEFINE k == Key(f, form)
<1>1. f \in Name /\ f \notin Dir
  BY RenameAssumption DEF Name
<1>2. k \in DOMAIN bucket["from"]
  BY DEF Has
<1>3. ASSUME NEW d \in Dir, NEW g \in Form, k = Key(d, g) PROVE FALSE
  BY <1>1, <1>3, KeyInjective, FileParts
<1>4. k \in AFile
  <2> HIDE DEF k
  <2>1. \/ \E d \in Dir, g \in Form : k = Key(d, g)
        \/ k \in AFile
    BY <1>2, FileParts DEF DataOK
  <2>2. QED
    BY <1>3, <2>1
<1>5. QED
  BY <1>1, <1>4, KeyIsName, FileParts

\* The node made for a name stands for its object.
Covered(n) ==
  \/ n \in Exempt'
  \/ \A form \in Form :
       Has(Key(n, form)) =>
         DirNodeFor(mv'.dirs, n, form) \/ FileNodeFor(mv'.files, n, form)

\* The attributes of a name are read, and a node made for it.
LEMMA CheckFound ==
  ASSUME Inv1, Inv1', Inv2, Check, NEW n \in Name \ {Empty}, n = <<Slash>> \o Head(names)
  PROVE  /\ faults' <= faults /\ missed \subseteq missed' /\ Exempt \subseteq Exempt' /\ Covered(n)
         /\ \A m, form : DirNodeFor(mv.dirs, m, form) => DirNodeFor(mv'.dirs, m, form)
         /\ \A m, form : FileNodeFor(mv.files, m, form) => FileNodeFor(mv'.files, m, form)
         /\ \A i \in DOMAIN mv'.dirs :
              mv'.dirs[i].new = n \/ \E j \in DOMAIN mv.dirs : mv'.dirs[i].new = mv.dirs[j].new
         /\ \A i, j \in DOMAIN mv'.dirs : i < j => Before(mv'.dirs[i].old, mv'.dirs[j].old)
<1>1. DataOK /\ CallOK /\ CallOK' /\ BudgetOK /\ NodesOK /\ OneForm
  BY DEF Inv1, Inv2
<1>2. pc = "check" /\ names # <<>> /\ UNCHANGED <<bucket, wanted, budget>>
  BY DEF Check
<1>3. PICK a \in Answers(n) :
        \/ ~a.found /\ Spend(a.right) /\ missed' = missed \cup {n} /\ UNCHANGED mv
        \/ /\ ~a.dir /\ Spend(a.right) /\ UNCHANGED missed
           /\ mv' = add_mvnode(mv, FileNode(n))
        \/ /\ a.found /\ a.dir
           /\ \E t \in Types(n, a) :
                /\ Spend(a.right /\ t.right)
                /\ mv' = IF t.type = "unknown" THEN mv ELSE add_mvnode(mv, DirNode(n, t.type))
                /\ missed' = missed \cup Hidden(n, t.type)
  BY DEF Check
<1>4. /\ a.found \in BOOLEAN /\ a.dir \in BOOLEAN /\ a.right \in BOOLEAN
      /\ ~a.dir => n \in AFile
      /\ a.found /\ a.dir => n \in Dir
  BY <1>1, AnswerParts
<1>5. /\ faults \in 0 .. MaxFaults /\ DirNodes(mv.dirs)
      /\ mv \in [dirs : Seq(Node), files : Seq(Node)]
      /\ \A i, j \in DOMAIN mv.dirs : i < j => Before(mv.dirs[i].old, mv.dirs[j].old)
  BY <1>1, <1>2 DEF CallOK, OtherTypes, TodoOK, NodesOK
<1>6. \A j \in DOMAIN mv.dirs : mv.dirs[j].new # n
  <2>1. names \in Seq(Short)
    BY <1>1 DEF CallOK, ListingOK
  <2>2. 1 \in DOMAIN names /\ Head(names) = names[1]
    BY <1>2, <2>1, HeadTailProperties, EmptySeq
  <2>3. QED
    BY <1>1, <1>2, <2>2 DEF NodesOK
<1>7. \A form \in Form : Has(Key(n, form)) => Forms(n) # {}
  BY DEF Forms
<1>8. CASE ~a.found /\ Spend(a.right) /\ missed' = missed \cup {n} /\ UNCHANGED mv
  <2>1. faults' <= faults /\ (~a.right => faults' < faults)
    BY <1>4, <1>5, <1>8, SpendParts
  <2>2. Exempt \subseteq Exempt' /\ (~a.right => Exempt' = missed')
    BY <1>1, <1>2, <1>8, <2>1, ExemptKept
  <2>3. a.right => \A form \in Form : ~Has(Key(n, form))
    BY <1>7, <1>8, AnswerRight
  <2>4. Covered(n)
    BY <1>4, <1>8, <2>2, <2>3 DEF Covered
  <2>5. QED
    BY <1>5, <1>8, <2>1, <2>2, <2>4
<1>9. CASE /\ ~a.dir /\ Spend(a.right) /\ UNCHANGED missed
           /\ mv' = add_mvnode(mv, FileNode(n))
  <2>1. faults' <= faults
    BY <1>4, <1>5, <1>9, SpendParts
  <2>2. Exempt \subseteq Exempt'
    BY <1>1, <1>2, <1>9, <2>1, ExemptKept
  <2>3. n \in AFile /\ n \in File
    BY <1>4, <1>9 DEF AFile
  <2> DEFINE new == mv'
  <2>4. new = add_mvnode(mv, FileNode(n))
    BY <1>9
  <2> HIDE DEF new
  <2>5. /\ new.dirs = mv.dirs /\ FileNodeFor(new.files, n, "plain")
        /\ \A m, form : FileNodeFor(mv.files, m, form) => FileNodeFor(new.files, m, form)
    BY <1>5, <2>3, <2>4, FileNodeFound
  <2>6. \A form \in Form : Has(Key(n, form)) => form = "plain"
    BY <1>1, <2>3, FileIsPlain
  <2>7. Covered(n)
    BY <2>5, <2>6 DEF Covered, new
  <2>8. QED
    BY <1>5, <1>9, <2>1, <2>2, <2>5, <2>7 DEF new
<1>10. CASE /\ a.found /\ a.dir
            /\ \E t \in Types(n, a) :
                 /\ Spend(a.right /\ t.right)
                 /\ mv' = IF t.type = "unknown" THEN mv ELSE add_mvnode(mv, DirNode(n, t.type))
                 /\ missed' = missed \cup Hidden(n, t.type)
  <2>1. PICK t \in Types(n, a) :
          /\ Spend(a.right /\ t.right)
          /\ mv' = IF t.type = "unknown" THEN mv ELSE add_mvnode(mv, DirNode(n, t.type))
          /\ missed' = missed \cup Hidden(n, t.type)
    BY <1>10
  <2>2. t.right \in BOOLEAN /\ t.type \in {"folder", "noobj", "object", "unknown"}
    BY TypeParts
  <2>3. faults' <= faults /\ (~(a.right /\ t.right) => faults' < faults)
    <3> DEFINE right == a.right /\ t.right
    <3>1. right \in BOOLEAN /\ Spend(right)
      BY <1>4, <2>1, <2>2
    <3> HIDE DEF right
    <3>2. faults' <= faults /\ (~right => faults' < faults)
      BY <1>5, <3>1, SpendParts
    <3>3. QED
      BY <3>2 DEF right
  <2>4. missed \subseteq missed'
    BY <2>1
  <2>5. /\ Exempt \subseteq Exempt'
        /\ ~(a.right /\ t.right) => Exempt' = missed'
    BY <1>1, <1>2, <2>3, <2>4, ExemptKept
  <2> DEFINE type == t.type
             new == mv'
  <2>6. /\ new = IF type = "unknown" THEN mv ELSE add_mvnode(mv, DirNode(n, type))
        /\ type \in {"folder", "noobj", "object", "unknown"}
    BY <2>1, <2>2
  <2>7. n \in Dir
    BY <1>4, <1>10
  <2>8. \A form \in Form : Has(Key(n, form)) =>
          \/ type \in {"noobj", "unknown"} /\ ~(a.right /\ t.right) /\ Hidden(n, type) = {n}
          \/ type = "object"
          \/ type = "folder" /\ form = "folder"
    BY <1>1, <2>7, TypeCovers
  <2>9. Hidden(n, type) \subseteq missed'
    BY <2>1
  <2> HIDE DEF type, new
  <2>10. DirAdded(mv, new, n, type)
    BY <1>5, <2>6, <2>7, DirNodeFound
  <2>11. Covered(n)
    <3>1. ASSUME n \notin Exempt', NEW form \in Form, Has(Key(n, form))
          PROVE  DirNodeFor(new.dirs, n, form)
      <4>1. type = "object" \/ (type = "folder" /\ form = "folder")
        BY <2>5, <2>8, <2>9, <3>1
      <4>2. QED
        BY <1>6, <2>10, <4>1 DEF DirAdded
    <3>2. QED
      BY <3>1 DEF Covered, new
  <2>12. new.files = mv.files
    BY <2>10 DEF DirAdded
  <2>13. /\ \A m, form : DirNodeFor(mv.dirs, m, form) => DirNodeFor(new.dirs, m, form)
         /\ \A i \in DOMAIN new.dirs :
              new.dirs[i].new = n \/ \E j \in DOMAIN mv.dirs : new.dirs[i].new = mv.dirs[j].new
         /\ \A i, j \in DOMAIN new.dirs : i < j => Before(new.dirs[i].old, new.dirs[j].old)
    BY <1>5, <2>10 DEF DirAdded
  <2>14. QED
    BY <2>3, <2>4, <2>5, <2>11, <2>12, <2>13 DEF new
<1>11. QED
  BY <1>3, <1>8, <1>9, <1>10

\* The attributes of a listed name are read.
LEMMA CheckWell ==
  ASSUME Inv1, Inv1', Inv2, [Next]_vars, Check
  PROVE  Inv2'
<1>1. DataOK /\ CallOK /\ CallOK' /\ BudgetOK /\ PendingOK /\ NodesOK
  BY DEF Inv1, Inv2
<1>2. /\ pc = "check" /\ names # <<>> /\ names' = Tail(names)
      /\ UNCHANGED <<bucket, ent, side, nocopy, pc, result, head, marker, page, truncated, todo>>
      /\ UNCHANGED <<last, wanted, stranded, budget>>
  BY DEF Check
<1>3. names \in Seq(Short) /\ last # "error"
  BY <1>1, <1>2 DEF CallOK, ListingOK, BudgetOK
<1>4. /\ Head(names) = names[1] /\ 1 \in DOMAIN names /\ names[1] \in Short
      /\ \A i \in DOMAIN Tail(names) : i + 1 \in DOMAIN names /\ Tail(names)[i] = names[i + 1] /\ i \in Nat
      /\ \A i \in DOMAIN names : i = 1 \/ (i - 1 \in DOMAIN Tail(names) /\ Tail(names)[i - 1] = names[i])
  <2>1. /\ Head(names) \in Short /\ Tail(names) \in Seq(Short) /\ Len(Tail(names)) = Len(names) - 1
        /\ \A i \in 1 .. Len(Tail(names)) : Tail(names)[i] = names[i + 1]
    BY <1>2, <1>3, HeadTailProperties
  <2>2. Len(names) \in Nat \ {0} /\ DOMAIN names = 1 .. Len(names) /\ Head(names) = names[1]
    BY <1>2, <1>3, EmptySeq
  <2>3. DOMAIN Tail(names) = 1 .. Len(names) - 1
    BY <2>1, <2>2
  <2>4. QED
    BY <2>1, <2>2, <2>3
<1>5. PICK n \in Name \ {Empty} : n = <<Slash>> \o names[1]
  BY <1>4, ShortParts
<1>6. /\ faults' <= faults /\ missed \subseteq missed' /\ Exempt \subseteq Exempt' /\ Covered(n)
      /\ \A m, form : DirNodeFor(mv.dirs, m, form) => DirNodeFor(mv'.dirs, m, form)
      /\ \A m, form : FileNodeFor(mv.files, m, form) => FileNodeFor(mv'.files, m, form)
      /\ \A i \in DOMAIN mv'.dirs :
           mv'.dirs[i].new = n \/ \E j \in DOMAIN mv.dirs : mv'.dirs[i].new = mv.dirs[j].new
      /\ \A i, j \in DOMAIN mv'.dirs : i < j => Before(mv'.dirs[i].old, mv'.dirs[j].old)
  BY <1>4, <1>5, CheckFound
<1>7. PendingOK'
  <2>1. ASSUME NEW m \in Name, NEW form \in Form, Has(Key(m, form))'
        PROVE  m \in Exempt' \/ Pending(m, form)'
    <3>1. Has(Key(m, form))
      BY <1>2, <2>1 DEF Has
    <3>2. m \in Exempt \/ Pending(m, form)
      BY <1>1, <1>2, <3>1 DEF PendingOK
    <3>3. CASE DirNodeFor(mv'.dirs, m, form)
      BY <1>2, <3>3 DEF Pending, DirNodeFor
    <3>4. CASE FileNodeFor(mv'.files, m, form)
      BY <1>2, <3>4 DEF Pending, FileNodeFor
    <3>5. CASE \E i \in DOMAIN names : m = <<Slash>> \o names[i]
      <4>1. PICK i \in DOMAIN names : m = <<Slash>> \o names[i]
        BY <3>5
      <4>2. CASE i = 1
        BY <1>5, <1>6, <3>1, <3>3, <3>4, <4>1, <4>2 DEF Covered
      <4>3. CASE i # 1
        <5>1. i - 1 \in DOMAIN names' /\ names'[i - 1] = names[i]
          BY <1>2, <1>4, <4>3
        <5>2. QED
          BY <1>2, <4>1, <5>1 DEF Pending
      <4>4. QED
        BY <4>2, <4>3
    <3>6. QED
      BY <1>2, <1>6, <3>2, <3>3, <3>4, <3>5 DEF Pending, Listing, Moving, Removing
  <2>2. QED
    BY <2>1 DEF PendingOK
<1>8. PagesOK'
  BY <1>2 DEF PagesOK, Listing
<1>9. NodesOK'
  <2>1. \A i, j \in DOMAIN names : names[i] = names[j] => i = j
    BY <1>1, <1>2 DEF NodesOK
  <2>2. ASSUME NEW i \in DOMAIN names', NEW j \in DOMAIN names', names'[i] = names'[j] PROVE i = j
    <3>1. i + 1 = j + 1 /\ i \in Nat /\ j \in Nat
      BY <1>2, <1>4, <2>1, <2>2
    <3>2. QED
      BY <3>1
  <2>3. ASSUME NEW i \in DOMAIN names', NEW j \in DOMAIN mv'.dirs PROVE mv'.dirs[j].new # <<Slash>> \o names'[i]
    <3>1. i + 1 \in DOMAIN names /\ names'[i] = names[i + 1] /\ i + 1 # 1
      BY <1>2, <1>4
    <3>2. names[i + 1] # names[1] /\ names[i + 1] \in Short
      BY <1>3, <1>4, <2>1, <3>1, ElementOfSeq
    <3>3. <<Slash>> \o names[i + 1] # n
      BY <1>4, <1>5, <3>2, ShortOrder, ShortParts
    <3>4. CASE mv'.dirs[j].new = n
      BY <3>1, <3>3, <3>4
    <3>5. CASE \E l \in DOMAIN mv.dirs : mv'.dirs[j].new = mv.dirs[l].new
      BY <1>1, <1>2, <3>1, <3>5 DEF NodesOK
    <3>6. QED
      BY <1>6, <3>4, <3>5
  <2>4. QED
    BY <1>2, <1>6, <2>2, <2>3 DEF NodesOK, Listing, Removing
<1>10. RemovedOK'
  BY <1>2 DEF RemovedOK, Removed
<1>11. QED
  BY <1>2, <1>3, <1>6, <1>7, <1>8, <1>9, <1>10, GoesOn

-----------------------------------------------------------------------------
(***************************************************************************)
(* The directories are made, and the files moved.                          *)
(***************************************************************************)
\* A step towards the new name leaves nothing out.
LEMMA MovesOn ==
  ASSUME Inv1, Inv1', Inv2, [Next]_vars, pc \in {"check", "clone"} \cup Moving,
         pc' \in {"clone"} \cup Moving, pc = "check" => names = <<>>,
         UNCHANGED <<result, mv, last, missed, budget, faults>>, \A k : Has(k)' => Has(k),
         NEW old, old = IF pc \in {"check", "clone"} THEN mv.files ELSE todo,
         NEW new, new = IF pc' = "clone" THEN mv.files ELSE todo',
         \A n \in Name, form \in Form :
           Has(Key(n, form))' /\ FileNodeFor(old, n, form) => FileNodeFor(new, n, form)
  PROVE  Inv2'
<1>1. CallOK /\ BudgetOK /\ PendingOK /\ NodesOK
  BY DEF Inv1, Inv2
<1>2. faults \in 0 .. MaxFaults /\ last # "error"
  BY <1>1 DEF CallOK, OtherTypes, BudgetOK, Moving
<1>3. Exempt' = Exempt
  BY DEF Exempt
<1>4. PendingOK'
  <2>1. ASSUME NEW n \in Name, NEW form \in Form, Has(Key(n, form))'
        PROVE  n \in Exempt' \/ Pending(n, form)'
    <3>1. n \in Exempt \/ Pending(n, form)
      BY <1>1, <2>1 DEF PendingOK, Moving
    <3>2. CASE DirNodeFor(mv.dirs, n, form)
      BY <3>2 DEF Pending, DirNodeFor
    <3>3. CASE FileNodeFor(old, n, form)
      <4>1. FileNodeFor(new, n, form)
        BY <2>1, <3>3
      <4>2. CASE pc' = "clone"
        BY <4>1, <4>2 DEF Pending, FileNodeFor
      <4>3. CASE pc' \in Moving
        BY <4>1, <4>3 DEF Pending, FileNodeFor, Moving
      <4>4. QED
        BY <4>2, <4>3
    <3>4. CASE n \in Exempt
      BY <1>3, <3>4
    <3>5. pc = "check" => DOMAIN names = {}
      OBVIOUS
    <3>6. QED
      BY <3>1, <3>2, <3>3, <3>4, <3>5 DEF Pending, Listing, Moving, Removing
  <2>2. QED
    BY <2>1 DEF PendingOK
<1>5. pc # "idle" /\ pc' \notin {"idle"} \cup Listing \cup Removing \cup {"check"}
  BY DEF Listing, Removing, Moving
<1>6. PagesOK'
  BY <1>5 DEF PagesOK, Listing
<1>7. NodesOK'
  BY <1>1, <1>5 DEF NodesOK
<1>8. RemovedOK'
  BY <1>5 DEF RemovedOK, Removed, Removing
<1>9. faults' <= faults
  BY <1>2
<1>10. QED
  BY <1>2, <1>4, <1>5, <1>6, <1>7, <1>8, <1>9, GoesOn

\* A request fails, and the call with it.
LEMMA FailedWell ==
  ASSUME Inv1, Inv1', Inv2, [Next]_vars, pc # "idle", Spend(FALSE), Return("error"),
         budget' = budget, missed' = missed
  PROVE  Inv2'
<1>1. faults \in 0 .. MaxFaults
  BY DEF Inv1, CallOK, OtherTypes
<1>2. faults' < faults /\ faults' <= faults
  BY <1>1, SpentParts
<1>3. QED
  BY <1>2, ReturnedWell

\* The nodes are complete.
LEMMA CheckedWell ==
  ASSUME Inv1, Inv1', Inv2, [Next]_vars, Checked
  PROVE  Inv2'
<1>1. /\ pc = "check" /\ names = <<>> /\ pc' = "clone"
      /\ UNCHANGED <<bucket, result, mv, last, missed, budget, faults>>
  BY DEF Checked, Goto, history
<1>2. \A k : Has(k)' => Has(k)
  BY <1>1 DEF Has
<1> DEFINE files == mv.files
<1>3. files = (IF pc \in {"check", "clone"} THEN mv.files ELSE todo)
  BY <1>1
<1>4. files = (IF pc' = "clone" THEN mv.files ELSE todo')
  BY <1>1
<1> HIDE DEF files
<1>5. pc' \in {"clone"} \cup Moving /\ pc \in {"check", "clone"} \cup Moving
  BY <1>1
<1>6. QED
  BY <1>1, <1>2, <1>3, <1>4, <1>5, MovesOn

\* clone_directory_object.
LEMMA CloneWell ==
  ASSUME Inv1, Inv1', Inv2, [Next]_vars, Clone
  PROVE  Inv2'
<1> DEFINE key == Key(Head(todo).new, "slash")
<1>1. /\ pc = "clone" /\ todo # <<>> /\ UNCHANGED <<wanted, missed, stranded, budget>>
  BY DEF Clone, history
<1>2. \/ /\ Store("to", key, Marker) /\ Spend(TRUE)
         /\ UNCHANGED <<side, pc, result, listing, mv, last>>
      \/ Spend(FALSE) /\ Return("error")
  BY DEF Clone
<1> HIDE DEF key
<1>3. CASE Spend(FALSE) /\ Return("error")
  BY <1>1, <1>3, FailedWell
<1>4. CASE Store("to", key, Marker) /\ Spend(TRUE) /\ UNCHANGED <<side, pc, result, listing, mv, last>>
  <2>1. faults' = faults
    BY <1>4, SpentParts DEF Inv1, CallOK, OtherTypes
  <2>2. \A k : Has(k)' => Has(k)
    <3>1. DOMAIN bucket = Side /\ "from" \in Side /\ "to" \in Side
      BY FileParts DEF Inv1, DataOK
    <3>2. bucket'["from"] = bucket["from"]
      BY <1>4, <3>1, StoreParts
    <3>3. QED
      BY <3>2 DEF Has
  <2> DEFINE files == mv.files
  <2>3. files = (IF pc \in {"check", "clone"} THEN mv.files ELSE todo)
    BY <1>1
  <2>4. files = (IF pc' = "clone" THEN mv.files ELSE todo')
    BY <1>1, <1>4
  <2> HIDE DEF files
  <2>5. /\ pc' \in {"clone"} \cup Moving /\ pc \in {"check", "clone"} \cup Moving /\ pc # "check"
        /\ UNCHANGED <<result, mv, last, missed, budget, faults>>
    BY <1>1, <1>4, <2>1
  <2>6. QED
    BY <2>2, <2>3, <2>4, <2>5, MovesOn
<1>5. QED
  BY <1>2, <1>3, <1>4

\* The directories are made.
LEMMA ClonedWell ==
  ASSUME Inv1, Inv1', Inv2, [Next]_vars, Cloned
  PROVE  Inv2'
<1>1. /\ pc = "clone" /\ pc' = "copy" /\ todo' = mv.files
      /\ UNCHANGED <<bucket, result, mv, last, missed, budget, faults>>
  BY DEF Cloned, Goto, history
<1>2. \A k : Has(k)' => Has(k)
  BY <1>1 DEF Has
<1> DEFINE files == mv.files
<1>3. files = (IF pc \in {"check", "clone"} THEN mv.files ELSE todo)
  BY <1>1
<1>4. files = (IF pc' = "clone" THEN mv.files ELSE todo')
  BY <1>1
<1> HIDE DEF files
<1>5. pc' \in {"clone"} \cup Moving /\ pc \in {"check", "clone"} \cup Moving /\ pc # "check"
  BY <1>1 DEF Moving
<1>6. QED
  BY <1>1, <1>2, <1>3, <1>4, <1>5, MovesOn

\* A step with a file that leaves the old name as it is.
LEMMA FileStepWell ==
  ASSUME Inv1, Inv1', Inv2, [Next]_vars, pc \in Moving, pc' \in Moving,
         UNCHANGED <<result, mv, todo, last, missed, budget, faults>>, bucket'["from"] = bucket["from"]
  PROVE  Inv2'
<1>1. \A k : Has(k)' => Has(k)
  BY DEF Has
<1> DEFINE files == todo
<1>2. files = (IF pc \in {"check", "clone"} THEN mv.files ELSE todo)
  BY DEF Moving
<1>3. files = (IF pc' = "clone" THEN mv.files ELSE todo')
  BY DEF Moving
<1> HIDE DEF files
<1>4. pc' \in {"clone"} \cup Moving /\ pc \in {"check", "clone"} \cup Moving /\ pc # "check"
  BY DEF Moving
<1>5. QED
  BY <1>1, <1>2, <1>3, <1>4, MovesOn

\* A file is copied, by the server or through an upload.
LEMMA CopyWell ==
  ASSUME Inv1, Inv1', Inv2, [Next]_vars, Copy \/ CopyByUpload
  PROVE  Inv2'
<1>1. DOMAIN bucket = Side /\ "from" \in Side /\ "to" \in Side /\ faults \in 0 .. MaxFaults
  BY FileParts DEF Inv1, DataOK, CallOK, OtherTypes
<1>2. /\ pc = "copy" /\ UNCHANGED <<missed, budget>>
      /\ \/ /\ \E c : Store("to", Current, c)
            /\ Spend(TRUE) /\ pc' \in {"table", "unlink"} /\ UNCHANGED <<result, listing, moving>>
         \/ Spend(FALSE) /\ Return("error")
  BY DEF Copy, CopyByUpload, Goto, history
<1>3. CASE Spend(FALSE) /\ Return("error")
  BY <1>2, <1>3, FailedWell
<1>4. CASE /\ \E c : Store("to", Current, c)
           /\ Spend(TRUE) /\ pc' \in {"table", "unlink"} /\ UNCHANGED <<result, listing, moving>>
  <2>1. faults' = faults
    BY <1>1, <1>4, SpentParts
  <2>2. bucket'["from"] = bucket["from"]
    <3>1. PICK c : Store("to", Current, c)
      BY <1>4
    <3>2. QED
      BY <1>1, <3>1, StoreParts
  <2>3. UNCHANGED <<result, mv, todo, last, missed, budget>> /\ pc \in Moving /\ pc' \in Moving
    BY <1>2, <1>4 DEF moving, Moving
  <2>4. QED
    BY <2>1, <2>2, <2>3, FileStepWell
<1>5. QED
  BY <1>2, <1>3, <1>4

\* FdManager::Rename.
LEMMA MoveEntityWell ==
  ASSUME Inv1, Inv1', Inv2, [Next]_vars, MoveEntity
  PROVE  Inv2'
<1>1. /\ pc = "table" /\ pc' = "unlink"
      /\ UNCHANGED <<bucket, result, mv, todo, last, missed, budget, faults>>
  BY DEF MoveEntity, Goto, moving, history
<1>2. QED
  BY <1>1, FileStepWell DEF Moving

\* s3fs_unlink.
LEMMA UnlinkWell ==
  ASSUME Inv1, Inv1', Inv2, [Next]_vars, Unlink
  PROVE  Inv2'
<1>1. /\ pc = "unlink" /\ UNCHANGED <<missed, budget>>
      /\ \/ /\ Drop("from", Current) /\ Spend(TRUE) /\ Goto("copy") /\ todo' = Tail(todo)
            /\ UNCHANGED <<mv, last>>
         \/ Spend(FALSE) /\ Return("error")
  BY DEF Unlink
<1>2. /\ DOMAIN bucket = Side /\ "from" \in Side /\ faults \in 0 .. MaxFaults
      /\ OtherTypes /\ todo # <<>>
  BY <1>1, FileParts DEF Inv1, DataOK, CallOK, OtherTypes, TodoOK
<1>3. CASE Spend(FALSE) /\ Return("error")
  BY <1>1, <1>3, FailedWell
<1>4. CASE /\ Drop("from", Current) /\ Spend(TRUE) /\ Goto("copy") /\ todo' = Tail(todo)
           /\ UNCHANGED <<mv, last>>
  <2>1. faults' = faults /\ pc' = "copy" /\ result' = result
    BY <1>2, <1>4, SpentParts DEF Goto
  <2>2. DOMAIN bucket'["from"] = DOMAIN bucket["from"] \ {Current}
    BY <1>2, <1>4, DropParts
  <2>3. /\ Current = todo[1].old
        /\ \A j \in DOMAIN todo : j = 1 \/ \E i \in DOMAIN Tail(todo) : Tail(todo)[i] = todo[j]
    BY <1>2, CurrentParts
  <2>4. \A k : Has(k)' => Has(k)
    BY <2>2 DEF Has
  <2> DEFINE old == todo
             new == Tail(todo)
  <2>5. old = (IF pc \in {"check", "clone"} THEN mv.files ELSE todo)
    BY <1>1
  <2>6. new = (IF pc' = "clone" THEN mv.files ELSE todo')
    BY <1>4, <2>1
  <2>7. ASSUME NEW n \in Name, NEW form \in Form, Has(Key(n, form))', FileNodeFor(old, n, form)
        PROVE  FileNodeFor(new, n, form)
    <3>1. PICK j \in DOMAIN todo : todo[j].old = n
      BY <2>7 DEF FileNodeFor
    <3>2. form = "plain" /\ Key(n, form) = n
      BY <2>7, KeyParts DEF FileNodeFor
    <3>3. j # 1
      <4>1. ASSUME j = 1 PROVE FALSE
        <5>1. n = Current
          BY <2>3, <3>1, <4>1
        <5>2. Has(n)'
          BY <2>7, <3>2
        <5>3. QED
          BY <2>2, <5>1, <5>2 DEF Has
      <4>2. QED
        BY <4>1
    <3>4. QED
      BY <2>3, <3>1, <3>2, <3>3 DEF FileNodeFor
  <2> HIDE DEF old, new
  <2>8. /\ pc' \in {"clone"} \cup Moving /\ pc \in {"check", "clone"} \cup Moving /\ pc # "check"
        /\ UNCHANGED <<result, mv, last, missed, budget, faults>>
    BY <1>1, <1>4, <2>1 DEF Moving
  <2>9. QED
    BY <2>4, <2>5, <2>6, <2>7, <2>8, MovesOn
<1>5. QED
  BY <1>1, <1>3, <1>4

\* The files are moved.
LEMMA MovedWell ==
  ASSUME Inv1, Inv1', Inv2, [Next]_vars, Moved
  PROVE  Inv2'
<1>1. CallOK /\ CallOK' /\ BudgetOK /\ PendingOK /\ NodesOK
  BY DEF Inv1, Inv2
<1>2. /\ pc = "copy" /\ todo = <<>> /\ UNCHANGED <<bucket, faults, missed, budget>>
      /\ \/ mv = NoNodes /\ Return("ok")
         \/ Goto("rmdir") /\ todo' = Reverse(mv.dirs) /\ UNCHANGED <<mv, last>>
  BY DEF Moved, history
<1>3. faults' <= faults /\ last # "error"
  BY <1>1, <1>2 DEF CallOK, OtherTypes, BudgetOK
<1>4. \A k : Has(k)' <=> Has(k)
  BY <1>2 DEF Has
<1>5. Exempt' = Exempt /\ Exempt \subseteq missed
  BY <1>2 DEF Exempt
<1>6. ASSUME NEW n \in Name, NEW form \in Form, Has(Key(n, form))
      PROVE  n \in Exempt \/ DirNodeFor(mv.dirs, n, form)
  <2>1. n \in Exempt \/ Pending(n, form)
    BY <1>1, <1>2, <1>6 DEF PendingOK
  <2>2. DOMAIN todo = {}
    BY <1>2
  <2>3. QED
    BY <1>2, <2>1, <2>2 DEF Pending, FileNodeFor, Listing, Moving, Removing
<1>7. CASE mv = NoNodes /\ Return("ok")
  <2>1. ASSUME NEW n \in Name, NEW form \in Form, Has(Key(n, form))' PROVE n \in missed'
    <3>1. DOMAIN mv.dirs = {}
      BY <1>7, FreshParts
    <3>2. QED
      BY <1>2, <1>4, <1>5, <1>6, <2>1, <3>1 DEF DirNodeFor
  <2>2. QED
    BY <1>2, <1>3, <1>7, <2>1, ReturnedWell
<1>8. CASE Goto("rmdir") /\ todo' = Reverse(mv.dirs) /\ UNCHANGED <<mv, last>>
  <2>1. pc' = "rmdir" /\ result' = result
    BY <1>8 DEF Goto
  <2> DEFINE dirs == mv.dirs
             back == Reverse(dirs)
  <2>2. dirs \in Seq(Node)
    BY <1>1 DEF CallOK, OtherTypes
  <2>3. \A i, j \in DOMAIN dirs : i < j => Before(dirs[i].old, dirs[j].old)
    BY <1>1 DEF NodesOK
  <2> HIDE DEF dirs
  <2>4. /\ DOMAIN dirs = 1 .. Len(dirs) /\ Len(dirs) \in Nat
        /\ back \in Seq(Node) /\ Len(back) = Len(dirs)
        /\ \A i \in 1 .. Len(dirs) : back[i] = dirs[Len(dirs) - i + 1]
    BY <2>2, ListParts
  <2> HIDE DEF back
  <2>5. DOMAIN back = 1 .. Len(dirs)
    BY <2>4
  <2>6. ASSUME NEW j \in DOMAIN dirs PROVE \E i \in DOMAIN back : back[i] = dirs[j]
    <3>1. /\ Len(dirs) - j + 1 \in 1 .. Len(dirs)
          /\ Len(dirs) - (Len(dirs) - j + 1) + 1 = j
      BY <2>4
    <3>2. back[Len(dirs) - j + 1] = dirs[Len(dirs) - (Len(dirs) - j + 1) + 1]
      BY <2>4, <3>1
    <3>3. back[Len(dirs) - j + 1] = dirs[j]
      BY <3>1, <3>2
    <3>4. QED
      BY <2>5, <3>1, <3>3
  <2>7. ASSUME NEW i \in DOMAIN back, NEW j \in DOMAIN back, i < j
        PROVE  Before(back[j].old, back[i].old)
    <3>1. /\ Len(dirs) - i + 1 \in DOMAIN dirs /\ Len(dirs) - j + 1 \in DOMAIN dirs
          /\ Len(dirs) - j + 1 < Len(dirs) - i + 1
      BY <2>4, <2>5, <2>7
    <3>2. back[i] = dirs[Len(dirs) - i + 1] /\ back[j] = dirs[Len(dirs) - j + 1]
      BY <2>4, <2>5
    <3>3. QED
      BY <2>3, <3>1, <3>2
  <2>8. todo' = back
    BY <1>8 DEF back, dirs
  <2>9. PendingOK'
    <3>1. ASSUME NEW n \in Name, NEW form \in Form, Has(Key(n, form))'
          PROVE  n \in Exempt' \/ Pending(n, form)'
      <4>1. n \in Exempt \/ DirNodeFor(dirs, n, form)
        BY <1>4, <1>6, <3>1 DEF dirs
      <4>2. ASSUME DirNodeFor(dirs, n, form) PROVE Pending(n, form)'
        <5>1. DirNodeFor(back, n, form)
          BY <2>6, <4>2 DEF DirNodeFor
        <5>2. DirNodeFor(todo, n, form)'
          BY <2>8, <5>1 DEF DirNodeFor
        <5>3. QED
          BY <2>1, <5>2 DEF Pending, Removing
      <4>3. QED
        BY <1>5, <4>1, <4>2
    <3>2. QED
      BY <3>1 DEF PendingOK
  <2>10. NodesOK'
    <3>1. \A i, j \in DOMAIN todo' : i < j => Before(todo'[j].old, todo'[i].old)
      BY <2>7, <2>8
    <3>2. \A i, j \in DOMAIN mv'.dirs : i < j => Before(mv'.dirs[i].old, mv'.dirs[j].old)
      BY <1>8, <2>3 DEF dirs
    <3>3. QED
      BY <2>1, <3>1, <3>2 DEF NodesOK, Listing
  <2>11. PagesOK' /\ RemovedOK'
    BY <2>1 DEF PagesOK, Listing, RemovedOK, Removed
  <2>12. QED
    BY <1>2, <1>3, <1>8, <2>1, <2>9, <2>10, <2>11, GoesOn
<1>9. QED
  BY <1>2, <1>7, <1>8

-----------------------------------------------------------------------------
(***************************************************************************)
(* The old directories are removed.                                        *)
(***************************************************************************)
\* What a DELETE, or a HEAD that finds nothing, does to the names left behind.
LEMMA DeleteCounts ==
  ASSUME Inv1, Inv1', Inv2, pc \in Removing, todo # <<>>, budget' = budget, NEW k,
         Delete(k) \/ Overlook \/ UNCHANGED <<bucket, faults, last, missed>>
  PROVE  /\ faults' <= faults /\ missed \subseteq missed' /\ Exempt \subseteq Exempt'
         /\ last' = "error" => last = "error" \/ faults' < faults
         /\ last = "error" => last' = "error" \/ todo[1].new \in Exempt'
         /\ DOMAIN bucket'["from"] \subseteq DOMAIN bucket["from"]
         /\ Overlook => todo[1].new \in Exempt'
         /\ Delete(k) => last' = "error" \/ k \notin DOMAIN bucket'["from"]
<1>1. /\ CallOK /\ CallOK' /\ BudgetOK /\ OtherTypes /\ faults \in 0 .. MaxFaults
      /\ DOMAIN bucket = Side /\ "from" \in Side
  BY FileParts DEF Inv1, Inv2, CallOK, OtherTypes, DataOK
<1>2. Head(todo).new = todo[1].new
  BY <1>1, CurrentParts
<1>3. Drop("from", k) => /\ DOMAIN bucket'["from"] \subseteq DOMAIN bucket["from"]
                         /\ k \notin DOMAIN bucket'["from"]
  BY <1>1, DropParts
<1>4. Spend(TRUE) => faults' = faults /\ faults' <= faults
  BY <1>1, SpentParts
<1>5. Spend(FALSE) => faults' < faults /\ faults' <= faults
  BY <1>1, SpentParts
<1>6. faults' <= faults /\ missed \subseteq missed'
  <2>1. UNCHANGED faults => faults' <= faults
    BY <1>1
  <2>2. QED
    BY <1>4, <1>5, <2>1 DEF Delete, Overlook
<1>7. /\ faults # budget => faults' # budget'
      /\ Exempt \subseteq Exempt'
      /\ faults' < faults => Exempt' = missed'
  BY <1>1, <1>6, ExemptKept
<1>8. last' = "error" => last = "error" \/ faults' < faults
  BY <1>5 DEF Delete, Overlook
<1>9. DOMAIN bucket'["from"] \subseteq DOMAIN bucket["from"]
  BY <1>3 DEF Delete, Overlook
<1>10. Overlook => todo[1].new \in Exempt'
  BY <1>2, <1>5, <1>7 DEF Overlook
<1>11. Delete(k) => last' = "error" \/ k \notin DOMAIN bucket'["from"]
  BY <1>3 DEF Delete
<1>12. ASSUME last = "error" PROVE last' = "error" \/ todo[1].new \in Exempt'
  <2>1. faults' # budget'
    BY <1>1, <1>7, <1>12 DEF BudgetOK
  <2>2. Exempt' = missed'
    BY <2>1 DEF Exempt
  <2>3. CASE Delete(k)
    BY <1>2, <1>12, <2>2, <2>3 DEF Delete
  <2>4. CASE Overlook
    BY <1>10, <2>4
  <2>5. CASE UNCHANGED last
    BY <1>12, <2>5
  <2>6. QED
    BY <2>3, <2>4, <2>5
<1>13. QED
  BY <1>6, <1>7, <1>8, <1>9, <1>10, <1>11, <1>12

\* A request of s3fs_rmdir.
LEMMA RemovalWell ==
  ASSUME Inv1, Inv1', Inv2, [Next]_vars, pc \in Removing, pc' \in {"rmplain", "rmfolder", "rmend"},
         todo # <<>>, UNCHANGED <<result, mv, todo, budget>>, NEW k,
         Delete(k) \/ Overlook \/ UNCHANGED <<bucket, faults, last, missed>>,
         NEW d, d = todo[1].new,
         \A form \in Removed' :
           form \in Removed \/ last' = "error" \/ d \in Exempt' \/ Key(d, form) \notin DOMAIN bucket'["from"]
  PROVE  Inv2'
<1>1. CallOK /\ PendingOK /\ NodesOK /\ RemovedOK
  BY DEF Inv1, Inv2
<1>2. /\ faults' <= faults /\ missed \subseteq missed' /\ Exempt \subseteq Exempt'
      /\ last' = "error" => last = "error" \/ faults' < faults
      /\ last = "error" => last' = "error" \/ todo[1].new \in Exempt'
      /\ DOMAIN bucket'["from"] \subseteq DOMAIN bucket["from"]
  BY DeleteCounts
<1>3. /\ pc' \in Removing /\ pc # "idle" /\ pc' # "idle"
      /\ pc \notin Listing \cup {"check", "clone", "lookup"} \cup Moving
      /\ pc' \notin Listing \cup {"check"}
  BY DEF Removing, Listing, Moving
<1>4. PendingOK'
  <2>1. ASSUME NEW n \in Name, NEW form \in Form, Has(Key(n, form))'
        PROVE  n \in Exempt' \/ Pending(n, form)'
    <3>1. Has(Key(n, form))
      BY <1>2, <2>1 DEF Has
    <3>2. n \in Exempt \/ Pending(n, form)
      BY <1>1, <1>3, <3>1 DEF PendingOK
    <3>3. n \in Exempt \/ DirNodeFor(todo, n, form)
      BY <1>3, <3>2 DEF Pending, Removing
    <3>4. QED
      BY <1>2, <1>3, <3>3 DEF Pending, DirNodeFor
  <2>2. QED
    BY <2>1 DEF PendingOK
<1>5. PagesOK'
  BY DEF PagesOK, Listing
<1>6. NodesOK'
  BY <1>1, <1>3 DEF NodesOK
<1>7. RemovedOK'
  <2>1. ASSUME NEW form \in Removed'
        PROVE  last' = "error" \/ d \in Exempt' \/ Key(d, form) \notin DOMAIN bucket'["from"]
    <3>1. CASE form \in Removed
      <4>1. form \in Form
        BY <3>1 DEF Removed, Form
      <4>2. Gone(Key(todo[1].new, form))
        BY <1>1, <3>1 DEF RemovedOK
      <4>3. Gone(Key(todo[1].new, form))'
        BY <1>2, <1>3, <4>1, <4>2, GoneKept
      <4>4. QED
        BY <4>3 DEF Gone, Has
    <3>2. QED
      BY <2>1, <3>1
  <2>2. QED
    BY <2>1 DEF RemovedOK, Gone, Has
<1>8. QED
  BY <1>2, <1>3, <1>4, <1>5, <1>6, <1>7, GoesOn

\* Its DELETE of "dir/".
LEMMA RmSlashWell ==
  ASSUME Inv1, Inv1', Inv2, [Next]_vars, RmSlash
  PROVE  Inv2'
<1>1. /\ pc = "rmslash" /\ Delete(Key(Current, "slash")) /\ pc' = "rmplain"
      /\ UNCHANGED <<result, mv, todo, budget>>
  BY DEF RmSlash, Goto
<1>2. pc \in Removing /\ pc' \in {"rmplain", "rmfolder", "rmend"} /\ todo # <<>>
  BY <1>1 DEF Inv1, CallOK, TodoOK, Removing
<1>3. Current = todo[1].old
  BY <1>2, CurrentParts DEF Inv1, CallOK
<1>4. PICK d : d = todo[1].new
  OBVIOUS
<1> DEFINE k == Key(Current, "slash")
<1>5. Delete(k)
  BY <1>1
<1>6. k = Key(Current, "slash")
  OBVIOUS
<1> HIDE DEF k
<1>7. last' = "error" \/ k \notin DOMAIN bucket'["from"]
  BY <1>1, <1>2, <1>5, DeleteCounts
<1>8. ASSUME NEW form \in Removed' PROVE last' = "error" \/ Key(d, form) \notin DOMAIN bucket'["from"]
  <2>1. form = "slash" /\ todo[1].old = todo[1].new
    BY <1>1, <1>8 DEF Removed
  <2>2. QED
    BY <1>3, <1>4, <1>6, <1>7, <2>1
<1>9. QED
  BY <1>1, <1>2, <1>4, <1>5, <1>8, RemovalWell

\* Its DELETE of "dir".
LEMMA RmPlainWell ==
  ASSUME Inv1, Inv1', Inv2, [Next]_vars, RmPlain
  PROVE  Inv2'
<1>1. /\ pc = "rmplain" /\ pc' = "rmfolder"
      /\ \/ Delete(Current) \/ Overlook
         \/ ~Has(Current) /\ UNCHANGED <<bucket, faults, last, missed>>
      /\ UNCHANGED <<result, mv, todo, budget>>
  BY DEF RmPlain, Goto
<1>2. pc \in Removing /\ pc' \in {"rmplain", "rmfolder", "rmend"} /\ todo # <<>>
  BY <1>1 DEF Inv1, CallOK, TodoOK, Removing
<1>3. todo[1].new \in Dir /\ Current = todo[1].old /\ Current \in {todo[1].new, Append(todo[1].new, Folder)}
  BY <1>2, RemovedParts
<1>4. PICK d \in Dir : d = todo[1].new
  BY <1>3
<1> DEFINE k == Current
<1>5. Delete(k) \/ Overlook \/ (~Has(k) /\ UNCHANGED <<bucket, faults, last, missed>>)
  BY <1>1
<1>6. k = todo[1].old /\ k \in {d, Append(d, Folder)}
  BY <1>3, <1>4
<1> HIDE DEF k
<1>7. last' = "error" \/ d \in Exempt' \/ k \notin DOMAIN bucket'["from"]
  BY <1>1, <1>2, <1>4, <1>5, DeleteCounts DEF Has
<1>8. ASSUME NEW form \in Removed'
      PROVE  form \in Removed \/ last' = "error" \/ d \in Exempt' \/ Key(d, form) \notin DOMAIN bucket'["from"]
  <2>1. /\ Removed' = IF todo[1].old = todo[1].new THEN {"slash", "plain"} ELSE {"folder"}
        /\ Removed = IF todo[1].old = todo[1].new THEN {"slash"} ELSE {}
    BY <1>1 DEF Removed
  <2>2. Key(d, "plain") = d /\ Key(d, "folder") = Append(d, Folder)
    BY KeyParts, FileParts
  <2>3. CASE form = "slash"
    BY <1>8, <2>1, <2>3
  <2>4. CASE form = "plain"
    BY <1>4, <1>6, <1>7, <1>8, <2>1, <2>2, <2>4
  <2>5. CASE form = "folder"
    BY <1>4, <1>6, <1>7, <1>8, <2>1, <2>2, <2>5
  <2>6. QED
    BY <1>8, <2>1, <2>3, <2>4, <2>5
<1>9. QED
  BY <1>1, <1>2, <1>4, <1>5, <1>8, RemovalWell

\* Its DELETE of "dir_$folder$".
LEMMA RmFolderWell ==
  ASSUME Inv1, Inv1', Inv2, [Next]_vars, RmFolder
  PROVE  Inv2'
<1>1. /\ pc = "rmfolder" /\ pc' = "rmend"
      /\ \/ Delete(Key(Current, "folder")) \/ Overlook
         \/ /\ ~Has(IF EndsIn(Current, Folder) THEN Current ELSE Key(Current, "folder"))
            /\ UNCHANGED <<bucket, faults, last, missed>>
      /\ UNCHANGED <<result, mv, todo, budget>>
  BY DEF RmFolder, Goto
<1>2. pc \in Removing /\ pc' \in {"rmplain", "rmfolder", "rmend"} /\ todo # <<>>
  BY <1>1 DEF Inv1, CallOK, TodoOK, Removing
<1>3. todo[1].new \in Dir /\ Current = todo[1].old
  BY <1>2, RemovedParts
<1>4. PICK d \in Dir : d = todo[1].new
  BY <1>3
<1> DEFINE k == Key(Current, "folder")
<1>5. Delete(k) \/ Overlook \/ UNCHANGED <<bucket, faults, last, missed>>
  BY <1>1
<1>6. Current = d => /\ k = Key(d, "folder")
                     /\ \/ Delete(k) \/ Overlook
                        \/ ~Has(k) /\ UNCHANGED <<bucket, faults, last, missed>>
  <2>1. ~EndsIn(d, Folder)
    BY BareParts, FileParts DEF Bare
  <2>2. QED
    BY <1>1, <2>1
<1> HIDE DEF k
<1>7. Current = d => \/ last' = "error" \/ d \in Exempt'
                     \/ Key(d, "folder") \notin DOMAIN bucket'["from"]
  BY <1>1, <1>2, <1>4, <1>6, DeleteCounts DEF Has
<1>8. ASSUME NEW form \in Removed'
      PROVE  form \in Removed \/ last' = "error" \/ d \in Exempt' \/ Key(d, form) \notin DOMAIN bucket'["from"]
  <2>1. /\ Removed' = IF todo[1].old = todo[1].new THEN Form ELSE {"folder"}
        /\ Removed = IF todo[1].old = todo[1].new THEN {"slash", "plain"} ELSE {"folder"}
    BY <1>1 DEF Removed
  <2>2. CASE todo[1].old = todo[1].new
    <3>1. form \in {"slash", "plain", "folder"} /\ Current = d
      BY <1>3, <1>4, <1>8, <2>1, <2>2 DEF Form
    <3>2. QED
      BY <1>7, <2>1, <2>2, <3>1
  <2>3. CASE todo[1].old # todo[1].new
    BY <1>8, <2>1, <2>3
  <2>4. QED
    BY <2>2, <2>3
<1>9. QED
  BY <1>1, <1>2, <1>4, <1>5, <1>8, RemovalWell

\* The next directory.
LEMMA NextDirectoryWell ==
  ASSUME Inv1, Inv1', Inv2, [Next]_vars, pc \in {"rmdir", "rmend"}, todo # <<>>, Goto("rmdir"),
         todo' = Tail(todo), UNCHANGED <<bucket, mv, last, missed, budget, faults>>, last # "error",
         \A n \in Name, form \in Form :
           Has(Key(n, form)) /\ todo[1].new = n /\ ~todo[1].normdir /\ (todo[1].old = n \/ form = "folder")
             => n \in Exempt
  PROVE  Inv2'
<1>1. CallOK /\ OtherTypes /\ PendingOK /\ NodesOK /\ faults' <= faults
  BY DEF Inv1, Inv2, CallOK, OtherTypes
<1>2. pc' = "rmdir" /\ result' = result
  BY DEF Goto
<1>3. Exempt' = Exempt /\ \A k : Has(k)' <=> Has(k)
  BY DEF Exempt, Has
<1> DEFINE tail == Tail(todo)
<1>4. /\ tail \in Seq(Node)
      /\ \A i \in DOMAIN tail : i + 1 \in DOMAIN todo /\ tail[i] = todo[i + 1] /\ i + 1 # 1
      /\ \A j \in DOMAIN todo : j = 1 \/ \E i \in DOMAIN tail : tail[i] = todo[j]
  BY <1>1, CurrentParts
<1>5. todo' = tail
  OBVIOUS
<1> HIDE DEF tail
<1>6. PendingOK'
  <2>1. ASSUME NEW n \in Name, NEW form \in Form, Has(Key(n, form))'
        PROVE  n \in Exempt' \/ Pending(n, form)'
    <3>1. Has(Key(n, form))
      BY <1>3, <2>1
    <3>2. n \in Exempt \/ Pending(n, form)
      BY <1>1, <3>1 DEF PendingOK
    <3>3. n \in Exempt \/ DirNodeFor(todo, n, form)
      BY <3>2 DEF Pending, Listing, Moving
    <3>4. ASSUME DirNodeFor(todo, n, form), n \notin Exempt PROVE Pending(n, form)'
      <4>1. PICK j \in DOMAIN todo :
              todo[j].new = n /\ ~todo[j].normdir /\ (todo[j].old = n \/ form = "folder")
        BY <3>4 DEF DirNodeFor
      <4>2. j # 1
        BY <3>1, <3>4, <4>1
      <4>3. PICK i \in DOMAIN tail : tail[i] = todo[j]
        BY <1>4, <4>2
      <4>4. DirNodeFor(tail, n, form)
        BY <4>1, <4>3 DEF DirNodeFor
      <4>5. DirNodeFor(todo, n, form)'
        BY <1>5, <4>4 DEF DirNodeFor
      <4>6. QED
        BY <1>2, <4>5 DEF Pending, Removing
    <3>5. QED
      BY <1>3, <3>3, <3>4
  <2>2. QED
    BY <2>1 DEF PendingOK
<1>7. NodesOK'
  <2>1. \A i, j \in DOMAIN todo : i < j => Before(todo[j].old, todo[i].old)
    BY <1>1 DEF NodesOK, Removing
  <2>2. \A i, j \in DOMAIN tail : i < j => Before(tail[j].old, tail[i].old)
    <3>1. DOMAIN tail \subseteq Nat
      BY <1>4
    <3>2. ASSUME NEW i \in DOMAIN tail, NEW j \in DOMAIN tail, i < j
          PROVE  Before(tail[j].old, tail[i].old)
      <4>1. i + 1 < j + 1
        BY <3>1, <3>2
      <4>2. /\ i + 1 \in DOMAIN todo /\ tail[i] = todo[i + 1]
            /\ j + 1 \in DOMAIN todo /\ tail[j] = todo[j + 1]
        BY <1>4
      <4>3. Before(todo[j + 1].old, todo[i + 1].old)
        BY <2>1, <4>1, <4>2
      <4>4. QED
        BY <4>2, <4>3
    <3>3. QED
      BY <3>2
  <2>3. \A i, j \in DOMAIN todo' : i < j => Before(todo'[j].old, todo'[i].old)
    BY <1>5, <2>2
  <2>4. QED
    BY <1>1, <1>2, <2>3 DEF NodesOK, Listing
<1>8. PagesOK' /\ RemovedOK'
  BY <1>2 DEF PagesOK, Listing, RemovedOK, Removed
<1>9. pc # "idle" /\ pc' # "idle"
  BY <1>2
<1>10. QED
  BY <1>1, <1>2, <1>6, <1>7, <1>8, <1>9, GoesOn

\* What is below a directory has been removed before it.
LEMMA EmptyBelow ==
  ASSUME Inv1, Inv2, pc = "rmdir", todo # <<>>, Beneath(Current) # {}
  PROVE  faults # budget
<1> SUFFICES ASSUME faults = budget PROVE FALSE
  OBVIOUS
<1>1. CallOK /\ OtherTypes /\ DataOK /\ PendingOK /\ NodesOK /\ DirNodes(todo)
  BY DEF Inv1, Inv2, CallOK, TodoOK, Removing
<1>2. /\ Current = todo[1].old /\ 1 \in DOMAIN todo /\ todo[1].old \in Keys
      /\ DOMAIN todo \subseteq Nat /\ \A i \in DOMAIN todo : i >= 1
  <2>1. todo \in Seq(Node)
    BY <1>1 DEF OtherTypes
  <2>2. QED
    BY <1>1, <2>1, CurrentParts
<1>3. PICK c \in Names : c = Current
  BY <1>2, NamesFinite
<1>4. PICK k \in DOMAIN bucket["from"] : Below(Append(c, Slash), k)
  BY <1>3 DEF Beneath
<1>5. k \in Keys
  BY <1>1, <1>4, FileParts DEF DataOK
<1>6. PICK m \in Name, f \in Form : k = Key(m, f)
  BY <1>5 DEF Keys
<1>7. Before(c, m) /\ m \in Names
  BY <1>4, <1>6, BelowParts, NameParts
<1>8. Pending(m, f)
  BY <1>1, <1>4, <1>6 DEF PendingOK, Has, Exempt
<1>9. DirNodeFor(todo, m, f)
  BY <1>8 DEF Pending, Listing, Moving
<1>10. PICK i \in DOMAIN todo : todo[i].new = m
  BY <1>9 DEF DirNodeFor
<1>11. todo[i].old \in {m, Append(m, Folder)} /\ Append(m, Folder) \in Names
  BY <1>1, <1>7, <1>10, AppendParts DEF DirNodes
<1>12. PICK o \in Names : o = todo[i].old
  BY <1>7, <1>11
<1>13. Before(c, o)
  <2>1. CASE o = m
    BY <1>7, <2>1
  <2>2. CASE o = Append(m, Folder)
    <3>1. Before(m, o)
      BY <1>7, <2>2, FormOrder
    <3>2. QED
      BY <1>7, <3>1, BeforeTransitive
  <2>3. QED
    BY <1>11, <1>12, <2>1, <2>2
<1>14. i # 1
  BY <1>2, <1>3, <1>12, <1>13, NotBeforeItself
<1>15. 1 < i
  BY <1>2, <1>14
<1>16. Before(o, c)
  BY <1>1, <1>2, <1>3, <1>12, <1>15 DEF NodesOK, Removing
<1>17. QED
  BY <1>13, <1>16, BeforeTransitive, NotBeforeItself

\* s3fs_rmdir looks whether the directory is empty.
LEMMA RmdirWell ==
  ASSUME Inv1, Inv1', Inv2, [Next]_vars, Rmdir
  PROVE  Inv2'
<1>1. CallOK /\ BudgetOK /\ PendingOK /\ NodesOK /\ faults \in 0 .. MaxFaults
  BY DEF Inv1, Inv2, CallOK, OtherTypes
<1>2. pc = "rmdir" /\ todo # <<>> /\ UNCHANGED <<bucket, missed, budget>> /\ last # "error"
  BY <1>1 DEF Rmdir, history, BudgetOK
<1>3. Head(todo) = todo[1]
  BY <1>2, CurrentParts DEF Inv1, CallOK
<1>4. \/ todo[1].normdir /\ todo' = Tail(todo) /\ Goto("rmdir") /\ UNCHANGED <<faults, mv, last>>
      \/ Spend(TRUE) /\ Goto("rmslash") /\ UNCHANGED <<mv, todo, last>>
      \/ Spend(Beneath(Current) # {}) /\ Return("error")
  BY <1>3 DEF Rmdir, moving
<1>5. CASE todo[1].normdir /\ todo' = Tail(todo) /\ Goto("rmdir") /\ UNCHANGED <<faults, mv, last>>
  BY <1>2, <1>5, NextDirectoryWell
<1>6. CASE Spend(TRUE) /\ Goto("rmslash") /\ UNCHANGED <<mv, todo, last>>
  <2>1. faults' = faults /\ faults' <= faults /\ pc' = "rmslash" /\ result' = result
    BY <1>1, <1>6, SpentParts DEF Goto
  <2>2. Exempt' = Exempt /\ \A k : Has(k)' <=> Has(k)
    BY <1>2, <2>1 DEF Exempt, Has
  <2>3. PendingOK'
    <3>1. ASSUME NEW n \in Name, NEW form \in Form, Has(Key(n, form))'
          PROVE  n \in Exempt' \/ Pending(n, form)'
      <4>1. n \in Exempt \/ Pending(n, form)
        BY <1>1, <1>2, <2>2, <3>1 DEF PendingOK
      <4>2. n \in Exempt \/ DirNodeFor(todo, n, form)
        BY <1>2, <4>1 DEF Pending, Listing, Moving
      <4>3. QED
        BY <1>6, <2>1, <2>2, <4>2 DEF Pending, Removing, DirNodeFor
    <3>2. QED
      BY <3>1 DEF PendingOK
  <2>4. NodesOK'
    BY <1>1, <1>2, <1>6, <2>1 DEF NodesOK, Listing, Removing
  <2>5. PagesOK' /\ RemovedOK'
    BY <2>1 DEF PagesOK, Listing, RemovedOK, Removed
  <2>6. QED
    BY <1>2, <1>6, <2>1, <2>3, <2>4, <2>5, GoesOn
<1>7. CASE Spend(Beneath(Current) # {}) /\ Return("error")
  <2>1. CASE Beneath(Current) = {}
    <3>1. Spend(FALSE)
      BY <1>7, <2>1 DEF Spend
    <3>2. QED
      BY <1>2, <1>7, <3>1, FailedWell
  <2>2. CASE Beneath(Current) # {}
    <3>1. Spend(TRUE)
      BY <1>7, <2>2 DEF Spend
    <3>2. faults' <= faults
      BY <1>1, <3>1, SpentParts
    <3>3. faults # budget
      BY <1>2, <2>2, EmptyBelow
    <3>4. QED
      BY <1>2, <1>7, <3>2, <3>3, ReturnedWell
  <2>3. QED
    BY <2>1, <2>2
<1>8. QED
  BY <1>4, <1>5, <1>6, <1>7

\* The result of the last DELETE is that of s3fs_rmdir.
LEMMA RmEndWell ==
  ASSUME Inv1, Inv1', Inv2, [Next]_vars, RmEnd
  PROVE  Inv2'
<1>1. CallOK /\ BudgetOK /\ RemovedOK /\ faults \in 0 .. MaxFaults
  BY DEF Inv1, Inv2, CallOK, OtherTypes
<1>2. /\ pc = "rmend" /\ UNCHANGED <<bucket, faults, missed, budget>>
      /\ \/ last = "error" /\ Return("error")
         \/ last # "error" /\ Goto("rmdir") /\ todo' = Tail(todo) /\ UNCHANGED <<mv, last>>
  BY DEF RmEnd, history
<1>3. todo # <<>> /\ faults' <= faults
  BY <1>1, <1>2 DEF CallOK, TodoOK, Removing
<1>4. CASE last = "error" /\ Return("error")
  <2>1. faults # budget
    BY <1>1, <1>4 DEF BudgetOK
  <2>2. QED
    BY <1>2, <1>3, <1>4, <2>1, ReturnedWell
<1>5. CASE last # "error" /\ Goto("rmdir") /\ todo' = Tail(todo) /\ UNCHANGED <<mv, last>>
  <2>1. ASSUME NEW n \in Name, NEW form \in Form, Has(Key(n, form)), todo[1].new = n,
               todo[1].old = n \/ form = "folder"
        PROVE  n \in Exempt
    <3>1. form \in Removed
      <4>1. Removed = IF todo[1].old = todo[1].new THEN Form ELSE {"folder"}
        BY <1>2 DEF Removed
      <4>2. QED
        BY <2>1, <4>1 DEF Form
    <3>2. Gone(Key(n, form))
      BY <1>1, <1>3, <2>1, <3>1 DEF RemovedOK
    <3>3. QED
      BY <1>5, <2>1, <3>2 DEF Gone
  <2>2. QED
    BY <1>2, <1>3, <1>5, <2>1, NextDirectoryWell
<1>6. QED
  BY <1>2, <1>4, <1>5

\* The call returns 0.
LEMMA RenamedWell ==
  ASSUME Inv1, Inv1', Inv2, [Next]_vars, Renamed
  PROVE  Inv2'
<1>1. /\ pc = "rmdir" /\ todo = <<>> /\ Return("ok")
      /\ UNCHANGED <<bucket, faults, missed, budget>>
  BY DEF Renamed, history
<1>2. PendingOK /\ faults' <= faults
  BY <1>1 DEF Inv1, Inv2, CallOK, OtherTypes
<1>3. Exempt \subseteq missed /\ \A k : Has(k)' <=> Has(k)
  BY <1>1 DEF Exempt, Has
<1>4. ASSUME NEW n \in Name, NEW form \in Form, Has(Key(n, form))' PROVE n \in missed'
  <2>1. n \in Exempt \/ Pending(n, form)
    BY <1>1, <1>2, <1>3, <1>4 DEF PendingOK
  <2>2. ~DirNodeFor(todo, n, form)
    BY <1>1 DEF DirNodeFor
  <2>3. QED
    BY <1>1, <1>3, <2>1, <2>2 DEF Pending, Listing, Moving
<1>5. QED
  BY <1>1, <1>2, <1>4, ReturnedWell

-----------------------------------------------------------------------------
(***************************************************************************)
(* The theorems about what is still under the old name.                    *)
(***************************************************************************)
\* At the start a directory has one object at most.
LEMMA InitialForms ==
  ASSUME Init
  PROVE  OneForm
<1>1. \/ \E files \in SUBSET File, form \in [Dir -> Form \cup {"none"}] :
           bucket = [s \in Side |-> IF s = "from" THEN Tree(files, form) ELSE NoObjects]
      \/ bucket = [s \in Side |-> IF s = "from" THEN Put(NoObjects, Empty, 0) ELSE NoObjects]
  BY DEF Init
<1>2. SUFFICES ASSUME NEW d \in Dir, NEW f \in Form, NEW g \in Form, Has(Key(d, f)), Has(Key(d, g))
               PROVE  f = g
  BY DEF OneForm
<1>3. Key(d, f) \in DOMAIN bucket["from"] /\ Key(d, g) \in DOMAIN bucket["from"]
  BY <1>2 DEF Has
<1>4. ASSUME NEW files \in SUBSET File, NEW form \in [Dir -> Form \cup {"none"}],
             bucket = [s \in Side |-> IF s = "from" THEN Tree(files, form) ELSE NoObjects]
      PROVE  f = g
  <2> DEFINE marked == {e \in Dir : form[e] # "none"}
             keys   == files \cup {Key(e, form[e]) : e \in marked}
             tree   == [k \in keys |-> IF k \in files THEN 0 ELSE Marker]
  <2>1. Tree(files, form) = tree
    BY DEF Tree
  <2>2. bucket["from"] = tree
    BY <1>4, <2>1, FileParts
  <2>3. DOMAIN bucket["from"] = keys
    BY <2>2
  <2>4. \A h \in Form : Key(d, h) \notin files
    <3>1. \A h \in Form : Key(d, h) \in AFile => Key(d, h) = Empty
      BY DirectoryKey
    <3>2. \A k \in files : k \in AFile /\ k # Empty
      BY FileParts, RenameAssumption
    <3>3. QED
      BY <3>1, <3>2
  <2>5. \A h \in Form : Key(d, h) \in keys => \E e \in Dir : form[e] # "none" /\ Key(d, h) = Key(e, form[e])
    BY <2>4
  <2> HIDE DEF keys
  <2>6. \A h \in Form : Key(d, h) \in keys => h = form[d]
    <3>1. SUFFICES ASSUME NEW h \in Form, Key(d, h) \in keys PROVE h = form[d]
      OBVIOUS
    <3>2. PICK e \in Dir : form[e] # "none" /\ Key(d, h) = Key(e, form[e])
      BY <2>5, <3>1
    <3>3. form[e] \in Form /\ d \in Name /\ e \in Name
      BY <3>2, FileParts
    <3>4. d = e /\ h = form[e]
      BY <3>2, <3>3, KeyInjective
    <3>5. QED
      BY <3>4
  <2>7. QED
    BY <1>3, <2>3, <2>6
<1>5. ASSUME bucket = [s \in Side |-> IF s = "from" THEN Put(NoObjects, Empty, 0) ELSE NoObjects]
      PROVE  f = g
  <2>1. DOMAIN Put(NoObjects, Empty, 0) = {Empty}
    BY FreshParts DEF Put
  <2>2. DOMAIN bucket["from"] = {Empty}
    BY <1>5, <2>1, FileParts
  <2>3. Key(d, f) = Key(d, g) /\ d \in Name
    BY <1>3, <2>2, FileParts
  <2>4. QED
    BY <2>3, KeyInjective
<1>6. QED
  BY <1>1, <1>4, <1>5

\* Nothing is pending at the start.
LEMMA InitialPending ==
  ASSUME Init
  PROVE  Inv2
<1>1. /\ pc = "idle" /\ result = "none" /\ mv = NoNodes /\ todo = <<>> /\ last = "ok" /\ budget = Never
  BY DEF Init
<1>2. PendingOK /\ DoneOK /\ BudgetOK
  BY <1>1 DEF PendingOK, DoneOK, BudgetOK
<1>3. PagesOK /\ RemovedOK
  BY <1>1 DEF PagesOK, Listing, RemovedOK
<1>4. NodesOK
  BY <1>1, FreshParts DEF NodesOK, Listing, Removing
<1>5. QED
  BY <1>2, <1>3, <1>4, InitialForms DEF Inv2

\* Every step keeps what is pending.
LEMMA PendingInductive ==
  ASSUME Inv1, Inv2, [Next]_vars
  PROVE  Inv2'
<1>1. Inv1'
  BY Inductive
<1>2. CASE Call
  BY <1>1, <1>2, CallWell
<1>3. CASE Step
  BY <1>1, <1>3, LookupWell, FlushFirstWell, ListWell, AppendObjectWell, NextPageWell, NamedWell,
     CheckWell, CheckedWell, CloneWell, ClonedWell, CopyWell, MoveEntityWell, UnlinkWell, MovedWell,
     RmdirWell, RmSlashWell, RmPlainWell, RmFolderWell, RmEndWell, RenamedWell, Zenon DEF Step
<1>4. CASE Crash
  BY <1>1, <1>4, CrashWell
<1>5. CASE \E f \in AFile : OpenFile(f) \/ Write(f) \/ Flush(f) \/ Release(f)
  BY <1>1, <1>5, HandlersWell
<1>6. CASE \E f \in File : Create(f)
  BY <1>1, <1>6, CreateWell
<1>7. CASE UNCHANGED vars
  BY <1>7, StutterWell
<1>8. QED
  BY <1>2, <1>3, <1>4, <1>5, <1>6, <1>7 DEF Next

\* Every state of the rename satisfies both invariants.
LEMMA PendingInvariant == Spec => [](Inv1 /\ Inv2)
<1>1. Init => Inv1 /\ Inv2
  BY InitialState, InitialPending
<1>2. (Inv1 /\ Inv2) /\ [Next]_vars => (Inv1 /\ Inv2)'
  BY Inductive, PendingInductive
<1>3. QED
  BY <1>1, <1>2, PTL DEF Spec

\* A call of s3fs_rename during which no request fails, the process does not
\* die and no file is added does not return an error, whatever earlier attempts
\* left under either name.
THEOREM RepeatedRenameCorrect == Spec => []RepeatedRenameWorks
<1>1. Inv2 => RepeatedRenameWorks
  BY DEF Inv2, BudgetOK, RepeatedRenameWorks
<1>2. QED
  BY <1>1, PendingInvariant, PTL

\* What is above a name is above its keys.
LEMMA BelowKey ==
  ASSUME NEW n \in Names, NEW m \in Name, NEW f \in Form, Below(Append(n, Slash), m)
  PROVE  Below(Append(n, Slash), Key(m, f))
<1> DEFINE p == Append(n, Slash)
<1>1. p \in Names /\ m \in Names /\ Key(m, f) \in Names
  BY AppendParts, NameParts, KeyParts
<1> HIDE DEF p
<1>2. Len(p) \in Nat /\ Len(m) \in Nat
  BY <1>1 DEF Names
<1>3. Len(p) < Len(m) /\ \A i \in 1 .. Len(p) : p[i] = m[i]
  BY <1>1, PrefixIs DEF Below, p
<1>4. Len(Key(m, f)) >= Len(m) /\ \A i \in 1 .. Len(m) : Key(m, f)[i] = m[i]
  <2>1. Key(m, f) \in {m, Append(m, Slash), Append(m, Folder)}
    BY KeyParts DEF Form
  <2>2. \A x \in {Slash, Folder} : Len(Append(m, x)) = Len(m) + 1 /\ \A i \in 1 .. Len(m) : Append(m, x)[i] = m[i]
    BY <1>1, AppendParts
  <2>3. QED
    BY <1>2, <2>1, <2>2
<1>5. Len(Key(m, f)) \in Nat
  BY <1>1 DEF Names
<1>6. Len(p) < Len(Key(m, f)) /\ \A i \in 1 .. Len(p) : p[i] = Key(m, f)[i]
  BY <1>2, <1>3, <1>4, <1>5
<1>7. QED
  BY <1>1, <1>6, PrefixIs DEF Below, p

\* list_bucket and MakeHierarchizedList find every file and directory below the
\* old name once: every key that no other client added meanwhile is on one of the
\* pages, as each goes on from the last key of the one before, and the names above
\* a listed one are put on the list with it.
THEOREM ListingCorrect == Spec => []ListIsComplete
<1>1. ASSUME Inv1, Inv2, pc = "named"
      PROVE  LET list   == NameList
                 listed == {<<Slash>> \o list[i] : i \in DOMAIN list}
                 below  == {n \in Name \ {Empty} : Forms(n) # {} \/ Beneath(n) # {}}
             IN  /\ Cardinality(listed) = Len(list)
                 /\ listed \subseteq below
                 /\ \A n \in below : n \in listed \/ \E f \in missed : n = f \/ Below(n, f)
  <2> DEFINE list   == NameList
             listed == {<<Slash>> \o list[i] : i \in DOMAIN list}
             below  == {n \in Name \ {Empty} : Forms(n) # {} \/ Beneath(n) # {}}
  <2>1. HeadOK(head) /\ DataOK /\ PagesOK /\ PendingOK /\ NodesOK
    BY <1>1 DEF Inv1, CallOK, ListingOK, Inv2
  <2>2. /\ list \in Seq(Short)
        /\ \A i, j \in DOMAIN list : list[i] = list[j] => i = j
        /\ {list[i] : i \in DOMAIN list} = Listed(head) \cup UNION {Ancestors(n) : n \in Listed(head)}
    BY <2>1, NameListParts DEF NameList
  <2> HIDE DEF list
  <2>3. /\ \A i \in DOMAIN list : list[i] \in Short
        /\ DOMAIN list = 1 .. Len(list) /\ Len(list) \in Nat
    BY <2>2
  <2>4. Cardinality(listed) = Len(list)
    <3> DEFINE F == [i \in 1 .. Len(list) |-> <<Slash>> \o list[i]]
    <3>1. \A i, j \in 1 .. Len(list) : F[i] = F[j] => i = j
      <4>1. ASSUME NEW i \in 1 .. Len(list), NEW j \in 1 .. Len(list), F[i] = F[j] PROVE i = j
        <5>1. <<Slash>> \o list[i] = <<Slash>> \o list[j]
          BY <4>1
        <5>2. list[i] \in Names /\ list[j] \in Names
          BY <2>3, ShortParts
        <5>3. list[i] = list[j]
          BY <5>1, <5>2, ShortOrder
        <5>4. QED
          BY <2>2, <2>3, <5>3
      <4>2. QED
        BY <4>1
    <3>2. F \in [1 .. Len(list) -> listed] /\ \A x \in listed : \E i \in 1 .. Len(list) : F[i] = x
      BY <2>3
    <3>3. ExistsBijection(1 .. Len(list), listed)
      BY <3>1, <3>2 DEF ExistsBijection, Bijection, Injection, Surjection, IsInjective
    <3>4. IsFiniteSet(1 .. Len(list)) /\ Cardinality(1 .. Len(list)) = Len(list)
      BY <2>3, FS_Interval
    <3>5. QED
      BY <3>3, <3>4, FS_Bijection
  <2>5. ASSUME NEW t \in Listed(head)
        PROVE  /\ t \in Short /\ Forms(<<Slash>> \o t) # {} /\ \E i \in DOMAIN list : list[i] = t
               /\ \A a \in Ancestors(t) : a \in Short /\ \E i \in DOMAIN list : list[i] = a
    <3>1. t \in Short
      BY DEF Listed
    <3>2. Ancestors(t) \subseteq Short
      BY <3>1, AncestorParts
    <3>3. QED
      BY <1>1, <2>1, <2>2, <3>1, <3>2 DEF PagesOK, Listing
  <2>6. ASSUME NEW n \in Names, NEW m \in Name, NEW f \in Form, Has(Key(m, f)), Below(Append(n, Slash), Key(m, f))
        PROVE  Beneath(n) # {}
    BY <2>6 DEF Beneath, Has
  <2>7. ASSUME NEW x \in listed PROVE x \in below
    <3>1. PICK i \in DOMAIN list : x = <<Slash>> \o list[i]
      BY <2>7
    <3>2. list[i] \in Short
      BY <2>3
    <3>3. x \in Name \ {Empty}
      BY <3>1, <3>2, ShortParts
    <3>4. list[i] \in Listed(head) \/ \E t \in Listed(head) : list[i] \in Ancestors(t)
      BY <2>2
    <3>5. CASE list[i] \in Listed(head)
      BY <2>5, <3>1, <3>3, <3>5
    <3>6. ASSUME NEW t \in Listed(head), list[i] \in Ancestors(t)
          PROVE  Beneath(x) # {}
      <4>1. t \in Short /\ Forms(<<Slash>> \o t) # {}
        BY <2>5
      <4>2. PICK f \in Form : Has(Key(<<Slash>> \o t, f))
        BY <4>1 DEF Forms
      <4>3. Below(Append(x, Slash), <<Slash>> \o t)
        BY <3>1, <3>6, <4>1, AncestorParts
      <4>4. x \in Names /\ <<Slash>> \o t \in Name
        BY <3>3, <4>1, NameParts, ShortParts
      <4>5. Below(Append(x, Slash), Key(<<Slash>> \o t, f))
        BY <4>3, <4>4, BelowKey
      <4>6. QED
        BY <2>6, <4>2, <4>4, <4>5
    <3>7. QED
      BY <3>3, <3>4, <3>5, <3>6
  <2>8. ASSUME NEW m \in Name, NEW f \in Form, Has(Key(m, f)), m # Empty
        PROVE  m \in missed \/ \E t \in Listed(head) : m = <<Slash>> \o t
    <3>1. m \in Exempt \/ Pending(m, f)
      BY <1>1, <2>1, <2>8 DEF PendingOK
    <3>2. Exempt \subseteq missed
      BY DEF Exempt
    <3>3. ~DirNodeFor(mv.dirs, m, f)
      BY <1>1, <2>1, <2>8 DEF NodesOK, Listing, DirNodeFor
    <3>4. Pending(m, f) => \E t \in Listed(head) : m = <<Slash>> \o t
      BY <1>1, <2>1, <3>3 DEF Pending, Later, PagesOK, Removing, Moving, Listing
    <3>5. QED
      BY <3>1, <3>2, <3>4
  <2>9. ASSUME NEW n \in below PROVE n \in listed \/ \E f \in missed : n = f \/ Below(n, f)
    <3>1. n \in Name /\ n # Empty /\ n \in Names
      BY NameParts
    <3>2. CASE Forms(n) # {}
      <4>1. PICK f \in Form : Has(Key(n, f))
        BY <3>2 DEF Forms
      <4>2. n \in missed \/ \E t \in Listed(head) : n = <<Slash>> \o t
        BY <2>8, <3>1, <4>1
      <4>3. QED
        BY <2>5, <4>2
    <3>3. CASE Beneath(n) # {}
      <4>1. PICK k \in DOMAIN bucket["from"] : Below(Append(n, Slash), k)
        BY <3>3 DEF Beneath
      <4>2. k \in Keys
        BY <2>1, FileParts DEF DataOK
      <4>3. PICK m \in Name, f \in Form : k = Key(m, f)
        BY <4>2 DEF Keys
      <4>4. m # Empty /\ IsStrictPrefix(n, m) /\ Below(n, m)
        BY <3>1, <4>1, <4>3, BelowParts DEF Below
      <4>5. m \in missed \/ \E t \in Listed(head) : m = <<Slash>> \o t
        BY <2>8, <4>1, <4>3, <4>4 DEF Has
      <4>6. ASSUME NEW t \in Listed(head), m = <<Slash>> \o t PROVE n \in listed
        <5>1. PICK s \in Short : n = <<Slash>> \o s
          BY <3>1, ShortOf
        <5>2. s \in Ancestors(t)
          BY <2>5, <4>1, <4>3, <4>6, <5>1, AncestorParts
        <5>3. QED
          BY <2>5, <5>1, <5>2
      <4>7. QED
        BY <4>4, <4>5, <4>6
    <3>4. QED
      BY <3>2, <3>3
  <2>10. QED
    BY <2>4, <2>7, <2>9 DEF list
<1>2. Inv1 /\ Inv2 => ListIsComplete
  BY <1>1 DEF ListIsComplete
<1>3. QED
  BY <1>2, PendingInvariant, PTL

-----------------------------------------------------------------------------
(***************************************************************************)
(* The open files.                                                         *)
(***************************************************************************)
\* The objects of open files stay as they are, and so do their paths.
LEMMA HandlesStay ==
  ASSUME DataOK, HandlesOK, nocopy' = nocopy, side' \in {side, "to"},
         missed \subseteq missed', stranded \subseteq stranded',
         pc' # "unlink" \/ UNCHANGED <<pc, ent, todo>>,
         \A f \in AFile : Open(f)' => Open(f) /\ ent'[f].side = ent[f].side /\ wanted'[f] = wanted[f],
         \A f \in AFile, s \in Side :
           Open(f) /\ f \in DOMAIN bucket[s] => f \in DOMAIN bucket'[s] /\ bucket'[s][f] = bucket[s][f]
  PROVE  HandlesOK'
<1>1. HandlesKeepObject'
  <2>1. SUFFICES ASSUME NEW f \in AFile, f \notin stranded', f \notin missed', Open(f)'
                 PROVE  f \in DOMAIN bucket'[ent'[f].side] /\ bucket'[ent'[f].side][f] = wanted'[f]
    BY DEF HandlesKeepObject
  <2>2. Open(f) /\ ent'[f].side = ent[f].side /\ wanted'[f] = wanted[f]
    BY <2>1
  <2>3. f \in DOMAIN bucket[ent[f].side] /\ bucket[ent[f].side][f] = wanted[f]
    BY <2>1, <2>2 DEF HandlesOK, HandlesKeepObject
  <2>4. ent[f].side \in Side
    BY <2>2, EntityFields DEF DataOK, Open
  <2>5. f \in DOMAIN bucket'[ent[f].side] /\ bucket'[ent[f].side][f] = bucket[ent[f].side][f]
    BY <2>2, <2>3, <2>4
  <2>6. QED
    BY <2>2, <2>3, <2>5
<1>2. (nocopy /\ side = "from" => \A f \in AFile : ent[f].side # "to")'
  <2>1. SUFFICES ASSUME nocopy', side' = "from", NEW f \in AFile, ent'[f].side = "to" PROVE FALSE
    OBVIOUS
  <2>2. Open(f)'
    BY <2>1 DEF Open
  <2>3. ent[f].side = "to" /\ nocopy /\ side = "from"
    BY <2>1, <2>2
  <2>4. QED
    BY <2>3 DEF HandlesOK
<1>3. (pc = "unlink" /\ Open(todo[1].old) =>
         IF nocopy THEN todo[1].old \in stranded ELSE ent[todo[1].old].side = "to")'
  BY DEF HandlesOK, Open
<1>4. QED
  BY <1>1, <1>2, <1>3 DEF HandlesOK

\* A file is opened, written or released between renames.
LEMMA OpenFileHandles ==
  ASSUME Inv1, Inv2, HandlesOK, NEW f \in AFile, OpenFile(f)
  PROVE  HandlesOK'
<1> DEFINE e == [side |-> side, dirty |-> FALSE, data |-> bucket[side][f]]
<1>1. /\ pc = "idle" /\ f \in DOMAIN bucket[side] /\ bucket[side][f] # Marker /\ ~Open(f)
      /\ ent' = [ent EXCEPT ![f] = e]
      /\ UNCHANGED <<bucket, side, nocopy, pc, wanted, missed, stranded>>
  BY DEF OpenFile, Idle, history
<1>2. e.side = side
  OBVIOUS
<1> HIDE DEF e
<1>3. DataOK /\ DoneOK /\ PhaseOK
  BY DEF Inv1, Inv2, CallOK
<1>4. ent'[f] = e /\ \A g \in AFile : g # f => ent'[g] = ent[g]
  BY <1>1, <1>3 DEF DataOK
<1>5. HandlesKeepObject'
  <2>1. SUFFICES ASSUME NEW g \in AFile, g \notin stranded, g \notin missed, Open(g)'
                 PROVE  g \in DOMAIN bucket[ent'[g].side] /\ bucket[ent'[g].side][g] = wanted[g]
    BY <1>1 DEF HandlesKeepObject
  <2>2. CASE g # f
    BY <1>4, <2>1, <2>2 DEF HandlesOK, HandlesKeepObject, Open
  <2>3. CASE g = f
    <3>1. side = "from" \/ side = "to"
      BY <1>3 DEF DataOK, Side
    <3>2. wanted[f] # Absent
      BY <1>1, <1>3 DEF DataOK
    <3>3. CASE side = "from"
      BY <1>1, <1>2, <1>3, <1>4, <2>3, <3>2, <3>3 DEF DataOK
    <3>4. CASE side = "to"
      <4>1. result = "ok"
        BY <1>3, <3>4 DEF PhaseOK
      <4>2. f \in Name /\ Key(f, "plain") = f /\ "plain" \in Form
        BY FileParts, KeyParts DEF Form
      <4>3. f \notin DOMAIN bucket["from"]
        BY <1>3, <2>1, <2>3, <4>1, <4>2 DEF DoneOK, Has
      <4>4. PICK s \in Side : f \in DOMAIN bucket[s] /\ bucket[s][f] = wanted[f]
        BY <1>3, <3>2 DEF DataOK, FilesAreKept
      <4>5. s = "to"
        BY <4>3, <4>4 DEF Side
      <4>6. QED
        BY <1>2, <1>4, <2>3, <3>4, <4>4, <4>5
    <3>5. QED
      BY <3>1, <3>3, <3>4
  <2>4. QED
    BY <2>2, <2>3
<1>6. (nocopy /\ side = "from" => \A g \in AFile : ent[g].side # "to")'
  <2>1. SUFFICES ASSUME nocopy, side = "from", NEW g \in AFile PROVE ent'[g].side # "to"
    BY <1>1
  <2>2. QED
    BY <1>2, <1>4, <2>1 DEF HandlesOK
<1>7. pc' # "unlink"
  BY <1>1
<1>8. QED
  BY <1>5, <1>6, <1>7 DEF HandlesOK

\* An upload of an open file to the path it goes by.
LEMMA UploadedHandles ==
  ASSUME Inv1, HandlesOK, NEW f \in AFile, Open(f), ent[f].side = side, Uploaded(f, side),
         ent' = ent \/ Clean(f), UNCHANGED <<side, nocopy, missed, stranded>>, pc' # "unlink"
  PROVE  HandlesOK'
<1>1. DataOK
  BY DEF Inv1
<1>2. \A g \in AFile : ent'[g].side = ent[g].side
  <2>1. CASE ent' = ent
    BY <2>1
  <2>2. CASE Clean(f)
    <3> DEFINE e == [side |-> ent[f].side, dirty |-> FALSE, data |-> ent[f].data]
    <3>1. ent' = [ent EXCEPT ![f] = e]
      BY <1>1, <2>2, EntityFields DEF Clean, DataOK
    <3>2. e.side = ent[f].side
      OBVIOUS
    <3> HIDE DEF e
    <3>3. ent'[f] = e /\ \A g \in AFile : g # f => ent'[g] = ent[g]
      BY <1>1, <3>1 DEF DataOK
    <3>4. QED
      BY <3>2, <3>3
  <2>3. QED
    BY <2>1, <2>2
<1>3. CASE ~ent[f].dirty
  <2>1. bucket' = bucket /\ wanted' = wanted
    BY <1>3 DEF Uploaded
  <2>2. \A g \in AFile : Open(g)' => Open(g)
    BY <1>2 DEF Open
  <2>3. QED
    BY <1>1, <1>2, <2>1, <2>2, HandlesStay
<1>4. CASE ent[f].dirty
  <2>1. Store(side, f, ent[f].data) /\ wanted' = [wanted EXCEPT ![f] = ent[f].data] /\ side \in Side
    BY <1>1, <1>4 DEF Uploaded, DataOK
  <2>2. /\ \A x \in Side : x # side => bucket'[x] = bucket[x]
        /\ DOMAIN bucket'[side] = DOMAIN bucket[side] \cup {f} /\ bucket'[side][f] = ent[f].data
        /\ \A x \in DOMAIN bucket[side] : x # f => bucket'[side][x] = bucket[side][x]
    BY <1>1, <2>1, StoreParts DEF DataOK
  <2>3. wanted'[f] = ent[f].data /\ \A g \in AFile : g # f => wanted'[g] = wanted[g]
    BY <1>1, <2>1 DEF DataOK
  <2>4. HandlesKeepObject'
    <3>1. SUFFICES ASSUME NEW g \in AFile, g \notin stranded, g \notin missed, Open(g)'
                   PROVE  g \in DOMAIN bucket'[ent'[g].side] /\ bucket'[ent'[g].side][g] = wanted'[g]
      BY DEF HandlesKeepObject
    <3>2. CASE g = f
      BY <1>2, <2>2, <2>3, <3>2
    <3>3. CASE g # f
      <4>1. Open(g) /\ ent'[g].side = ent[g].side /\ ent[g].side \in Side
        BY <1>1, <1>2, <3>1, EntityFields DEF Open, DataOK
      <4>2. g \in DOMAIN bucket[ent[g].side] /\ bucket[ent[g].side][g] = wanted[g]
        BY <3>1, <4>1 DEF HandlesOK, HandlesKeepObject
      <4>3. QED
        BY <2>2, <2>3, <3>3, <4>1, <4>2
    <3>4. QED
      BY <3>2, <3>3
  <2>5. (nocopy /\ side = "from" => \A g \in AFile : ent[g].side # "to")'
    BY <1>2 DEF HandlesOK
  <2>6. QED
    BY <2>4, <2>5 DEF HandlesOK
<1>5. QED
  BY <1>3, <1>4

\* s3fs_write, s3fs_flush and s3fs_release.
LEMMA HandlersHandles ==
  ASSUME Inv1, HandlesOK, NEW f \in AFile, Write(f) \/ Flush(f) \/ Release(f)
  PROVE  HandlesOK'
<1>1. DataOK
  BY DEF Inv1
<1>2. ASSUME UNCHANGED <<bucket, side, nocopy, pc, wanted, missed, stranded>>,
             \A g \in AFile : Open(g)' => Open(g) /\ ent'[g].side = ent[g].side, pc = "idle"
      PROVE  HandlesOK'
  BY <1>1, <1>2, HandlesStay
<1>3. CASE Write(f)
  <2>1. /\ pc = "idle" /\ UNCHANGED <<bucket, side, nocopy, pc, wanted, missed, stranded>>
        /\ ent' = [ent EXCEPT ![f].dirty = TRUE, ![f].data = @ + 1]
    BY <1>3 DEF Write, Idle, history
  <2>2. \A g \in AFile : ent'[g].side = ent[g].side
    <3>1. ASSUME NEW g \in AFile, g # f PROVE ent'[g].side = ent[g].side
      BY <1>1, <2>1, <3>1 DEF DataOK
    <3>2. ent'[f].side = ent[f].side
      BY <1>1, <2>1 DEF DataOK, Entity
    <3>3. QED
      BY <3>1, <3>2
  <2>3. QED
    BY <1>2, <2>1, <2>2 DEF Open
<1>4. CASE Release(f)
  <2>1. /\ pc = "idle" /\ UNCHANGED <<bucket, side, nocopy, pc, wanted, missed, stranded>>
        /\ ent' = [ent EXCEPT ![f] = Closed]
    BY <1>4 DEF Release, Idle, history
  <2>2. Closed.side = "none"
    BY DEF Closed
  <2>3. ent'[f] = Closed /\ \A g \in AFile : g # f => ent'[g] = ent[g]
    BY <1>1, <2>1 DEF DataOK
  <2>4. \A g \in AFile : Open(g)' => Open(g) /\ ent'[g].side = ent[g].side
    BY <2>2, <2>3 DEF Open
  <2>5. QED
    BY <1>2, <2>1, <2>4
<1>5. CASE Flush(f)
  <2>1. /\ pc = "idle" /\ Open(f) /\ ent[f].side = side
        /\ UNCHANGED <<side, nocopy, pc, missed, stranded>>
        /\ \/ Uploaded(f, side) /\ Clean(f)
           \/ UNCHANGED ent /\ (Uploaded(f, side) \/ UNCHANGED <<bucket, wanted>>)
    BY <1>5 DEF Flush, Idle
  <2>2. CASE Uploaded(f, side)
    BY <2>1, <2>2, UploadedHandles
  <2>3. CASE ~Uploaded(f, side)
    BY <1>2, <2>1, <2>3 DEF Open
  <2>4. QED
    BY <2>2, <2>3
<1>6. QED
  BY <1>3, <1>4, <1>5

\* Another client adds a file, which is not open.
LEMMA CreateHandles ==
  ASSUME Inv1, HandlesOK, NEW f \in File, Create(f)
  PROVE  HandlesOK'
<1>1. /\ wanted[f] = Absent /\ Store("from", f, 0) /\ wanted' = [wanted EXCEPT ![f] = 0]
      /\ missed \subseteq missed' /\ UNCHANGED <<ent, side, nocopy, pc, stranded>> /\ todo' = todo
  BY DEF Create, moving
<1>2. DataOK
  BY DEF Inv1
<1>3. \A g \in AFile : Open(g) => g # f /\ wanted'[g] = wanted[g]
  BY <1>1, <1>2, FileParts DEF DataOK
<1>4. /\ bucket'["to"] = bucket["to"] /\ DOMAIN bucket'["from"] = DOMAIN bucket["from"] \cup {f}
      /\ \A x \in DOMAIN bucket["from"] : x # f => bucket'["from"][x] = bucket["from"][x]
  BY <1>1, <1>2, StoreParts, FileParts DEF DataOK
<1>5. \A g \in AFile, s \in Side :
        Open(g) /\ g \in DOMAIN bucket[s] => g \in DOMAIN bucket'[s] /\ bucket'[s][g] = bucket[s][g]
  BY <1>3, <1>4 DEF Side
<1>6. \A g \in AFile : Open(g)' => Open(g) /\ ent'[g].side = ent[g].side /\ wanted'[g] = wanted[g]
  BY <1>1, <1>3 DEF Open
<1>7. QED
  BY <1>1, <1>2, <1>5, <1>6, HandlesStay

\* Steps that only read, and the return of the call.
LEMMA ReadsHandles ==
  ASSUME Inv1, HandlesOK, UNCHANGED <<bucket, ent, wanted, nocopy>>, side' \in {side, "to"},
         missed \subseteq missed', stranded \subseteq stranded',
         pc' # "unlink" \/ UNCHANGED <<pc, todo>>
  PROVE  HandlesOK'
<1>1. DataOK
  BY DEF Inv1
<1>2. \A f \in AFile : Open(f)' => Open(f) /\ ent'[f].side = ent[f].side /\ wanted'[f] = wanted[f]
  BY DEF Open
<1>3. QED
  BY <1>1, <1>2, HandlesStay

\* Steps between requests, HEAD and list requests.
LEMMA ReadersHandles ==
  ASSUME Inv1, HandlesOK,
         \/ Call \/ Lookup \/ List \/ AppendObject \/ NextPage \/ Named \/ Check \/ Checked \/ Cloned
         \/ Moved \/ Rmdir \/ RmEnd \/ Renamed
  PROVE  HandlesOK'
<1>1. side' \in {side, "to"}
  BY DEF Call, Lookup, List, AppendObject, NextPage, Named, Check, Checked, Cloned, Moved, Rmdir, RmEnd,
         Renamed, Goto, Return
<1>2. UNCHANGED <<bucket, ent, wanted, nocopy, stranded>>
  BY DEF Call, Lookup, List, AppendObject, NextPage, Named, Check, Checked, Cloned, Moved, Rmdir, RmEnd,
         Renamed, history
<1>3. missed \subseteq missed'
  BY DEF Call, Lookup, List, AppendObject, NextPage, Named, Check, Checked, Cloned, Moved, Rmdir, RmEnd,
         Renamed, history
<1>4. pc' # "unlink"
  BY DEF Call, Lookup, List, AppendObject, NextPage, Named, Check, Checked, Cloned, Moved, Rmdir, RmEnd,
         Renamed, Goto, Return
<1>5. QED
  BY <1>1, <1>2, <1>3, <1>4, ReadsHandles

\* The process dies, and no file is open any more.
LEMMA CrashHandles ==
  ASSUME Crash
  PROVE  HandlesOK'
<1>1. pc' = "idle" /\ ent' = [f \in AFile |-> Closed]
  BY DEF Crash, Return
<1>2. Closed.side = "none"
  BY DEF Closed
<1>3. \A f \in AFile : ent'[f].side = "none"
  BY <1>1, <1>2
<1>4. QED
  BY <1>1, <1>3 DEF HandlesOK, HandlesKeepObject, Open

\* The flush of a file that is renamed by itself.
LEMMA FlushFirstHandles ==
  ASSUME Inv1, HandlesOK, FlushFirst
  PROVE  HandlesOK'
<1>1. /\ pc = "flush" /\ UNCHANGED <<nocopy, missed, stranded>> /\ pc' # "unlink"
      /\ side' \in {side, "to"} /\ side' = side
  BY DEF FlushFirst, Goto, Return
<1>2. side = "from" /\ Empty \in AFile
  BY <1>1, FileParts DEF Inv1, CallOK, PhaseOK
<1>3. \/ /\ Open(Empty) /\ ent[Empty].side = "from" /\ Uploaded(Empty, "from")
         /\ Clean(Empty) \/ UNCHANGED ent
      \/ UNCHANGED <<bucket, ent, wanted>>
  BY DEF FlushFirst
<1>4. CASE /\ Open(Empty) /\ ent[Empty].side = "from" /\ Uploaded(Empty, "from")
           /\ Clean(Empty) \/ UNCHANGED ent
  BY <1>1, <1>2, <1>4, UploadedHandles
<1>5. CASE UNCHANGED <<bucket, ent, wanted>>
  BY <1>1, <1>5, ReadsHandles
<1>6. QED
  BY <1>3, <1>4, <1>5

\* An object under the new name that is not one of a file.
LEMMA StoredHandles ==
  ASSUME Inv1, HandlesOK, NEW k, NEW c, k \notin AFile, Store("to", k, c), UNCHANGED <<wanted, nocopy>>,
         side' \in {side, "to"}, missed \subseteq missed', stranded \subseteq stranded',
         \A f \in AFile : ent'[f].side = ent[f].side, pc' # "unlink"
  PROVE  HandlesOK'
<1>1. DataOK
  BY DEF Inv1
<1>2. /\ bucket'["from"] = bucket["from"] /\ DOMAIN bucket'["to"] = DOMAIN bucket["to"] \cup {k}
      /\ bucket'["to"][k] = c
      /\ \A x \in DOMAIN bucket["to"] : x # k => bucket'["to"][x] = bucket["to"][x]
  BY <1>1, StoreParts, FileParts DEF DataOK
<1>3. HandlesKeepObject'
  <2>1. SUFFICES ASSUME NEW f \in AFile, f \notin stranded, f \notin missed, Open(f)'
                 PROVE  f \in DOMAIN bucket'[ent'[f].side] /\ bucket'[ent'[f].side][f] = wanted'[f]
    BY DEF HandlesKeepObject
  <2>2. Open(f) /\ ent'[f].side = ent[f].side /\ ent[f].side \in Side
    BY <1>1, <2>1, EntityFields DEF Open, DataOK
  <2>3. f \in DOMAIN bucket[ent[f].side] /\ bucket[ent[f].side][f] = wanted[f]
    BY <2>1, <2>2 DEF HandlesOK, HandlesKeepObject
  <2>4. QED
    BY <1>2, <2>2, <2>3 DEF Side
<1>4. (nocopy /\ side = "from" => \A f \in AFile : ent[f].side # "to")'
  BY DEF HandlesOK
<1>5. QED
  BY <1>3, <1>4 DEF HandlesOK

\* clone_directory_object makes no object of a file.
LEMMA CloneHandles ==
  ASSUME Inv1, HandlesOK, Clone
  PROVE  HandlesOK'
<1> DEFINE k == Key(Head(todo).new, "slash")
<1>1. /\ pc = "clone" /\ todo # <<>> /\ UNCHANGED <<ent, nocopy, wanted, missed, stranded>>
      /\ Store("to", k, Marker) \/ UNCHANGED bucket
      /\ pc' # "unlink" /\ side' = side
  BY DEF Clone, Return, history
<1>2. k \notin AFile
  <2>1. todo \in Seq(Node) /\ DirNodes(todo)
    BY <1>1 DEF Inv1, CallOK, OtherTypes, TodoOK
  <2>2. Head(todo) = todo[1] /\ todo[1].new \in Dir
    BY <1>1, <2>1, ListParts DEF DirNodes
  <2>3. Head(todo).new \in Dir /\ "slash" \in Form /\ "slash" # "plain"
    BY <2>2 DEF Form
  <2>4. QED
    BY <2>3, DirectoryKey
<1> HIDE DEF k
<1>3. CASE Store("to", k, Marker)
  BY <1>1, <1>2, <1>3, StoredHandles
<1>4. CASE UNCHANGED bucket
  BY <1>1, <1>4, ReadsHandles
<1>5. QED
  BY <1>1, <1>3, <1>4

\* The copy on the server is the newest content of the file.
LEMMA CopyHandles ==
  ASSUME Inv1, HandlesOK, Copy
  PROVE  HandlesOK'
<1>1. /\ pc = "copy" /\ todo # <<>> /\ UNCHANGED <<ent, nocopy, wanted, missed, stranded>>
      /\ Store("to", Current, bucket["from"][Current]) \/ UNCHANGED bucket
      /\ pc' # "unlink" /\ side' \in {side, "to"}
  BY DEF Copy, Goto, Return, history
<1>2. /\ Current \in AFile /\ bucket["from"][Current] = wanted[Current]
  BY <1>1, FileMoved DEF Moving
<1>3. CASE Store("to", Current, bucket["from"][Current])
  <2>1. DataOK
    BY DEF Inv1
  <2>2. PICK k, c : k = Current /\ c = bucket["from"][Current]
    OBVIOUS
  <2>3. Store("to", k, c) /\ c = wanted[k]
    BY <1>2, <1>3, <2>2
  <2>4. /\ bucket'["from"] = bucket["from"] /\ DOMAIN bucket'["to"] = DOMAIN bucket["to"] \cup {k}
        /\ bucket'["to"][k] = c
        /\ \A x \in DOMAIN bucket["to"] : x # k => bucket'["to"][x] = bucket["to"][x]
    BY <2>1, <2>3, StoreParts, FileParts DEF DataOK
  <2>5. HandlesKeepObject'
    <3>1. SUFFICES ASSUME NEW f \in AFile, f \notin stranded, f \notin missed, Open(f)
                   PROVE  f \in DOMAIN bucket'[ent[f].side] /\ bucket'[ent[f].side][f] = wanted[f]
      BY <1>1 DEF HandlesKeepObject, Open
    <3>2. f \in DOMAIN bucket[ent[f].side] /\ bucket[ent[f].side][f] = wanted[f]
      BY <3>1 DEF HandlesOK, HandlesKeepObject
    <3>3. ent[f].side \in Side
      BY <2>1, <3>1, EntityFields DEF Open, DataOK
    <3>4. QED
      BY <2>3, <2>4, <3>2, <3>3 DEF Side
  <2>6. (nocopy /\ side = "from" => \A f \in AFile : ent[f].side # "to")'
    BY <1>1 DEF HandlesOK
  <2>7. QED
    BY <1>1, <2>5, <2>6 DEF HandlesOK
<1>4. CASE UNCHANGED bucket
  BY <1>1, <1>4, ReadsHandles
<1>5. QED
  BY <1>1, <1>3, <1>4

\* Without the copy request an open file keeps its old path and is not followed.
LEMMA CopyByUploadHandles ==
  ASSUME Inv1, HandlesOK, CopyByUpload
  PROVE  HandlesOK'
<1> DEFINE own     == Open(Current) /\ ent[Current].side = "from"
           content == IF own THEN ent[Current].data ELSE bucket["from"][Current]
<1>1. /\ pc = "copy" /\ todo # <<>> /\ nocopy /\ UNCHANGED <<nocopy, wanted, missed>>
      /\ Store("to", Current, content) \/ UNCHANGED bucket
      /\ \/ /\ pc' = "unlink" /\ side' = side /\ todo' = todo
            /\ ent' = IF own THEN [ent EXCEPT ![Current].dirty = FALSE] ELSE ent
            /\ stranded' = IF own THEN stranded \cup {Current} ELSE stranded
         \/ pc' = "idle" /\ side' = side /\ UNCHANGED <<ent, stranded>>
  BY DEF CopyByUpload, Goto, Return, moving
<1>2. /\ Current = todo[1].old /\ Current \in AFile /\ side = "from"
  BY <1>1, FileMoved DEF Moving
<1>3. DataOK
  BY DEF Inv1
<1>4. \A f \in AFile : ent[f].side # "to"
  BY <1>1, <1>2 DEF HandlesOK
<1>5. \A f \in AFile : ent'[f].side = ent[f].side
  <2>1. CASE ent' = ent
    BY <2>1
  <2>2. CASE ent' = [ent EXCEPT ![Current].dirty = FALSE]
    <3> DEFINE e == [side |-> ent[Current].side, dirty |-> FALSE, data |-> ent[Current].data]
    <3>1. ent' = [ent EXCEPT ![Current] = e]
      BY <1>2, <1>3, <2>2, EntityFields DEF DataOK
    <3>2. e.side = ent[Current].side
      OBVIOUS
    <3> HIDE DEF e
    <3>3. ent'[Current] = e /\ \A g \in AFile : g # Current => ent'[g] = ent[g]
      BY <1>2, <1>3, <3>1 DEF DataOK
    <3>4. QED
      BY <3>2, <3>3
  <2>3. QED
    BY <1>1, <2>1, <2>2
<1>6. bucket'["from"] = bucket["from"]
  <2>1. CASE Store("to", Current, content)
    <3>1. PICK c : c = content
      OBVIOUS
    <3>2. Store("to", Current, c)
      BY <2>1, <3>1
    <3>3. QED
      BY <1>3, <3>2, StoreParts, FileParts DEF DataOK
  <2>2. QED
    BY <1>1, <2>1
<1>7. HandlesKeepObject'
  <2>1. stranded \subseteq stranded'
    BY <1>1
  <2>2. SUFFICES ASSUME NEW f \in AFile, f \notin stranded, f \notin missed, Open(f)'
                 PROVE  f \in DOMAIN bucket'[ent'[f].side] /\ bucket'[ent'[f].side][f] = wanted'[f]
    BY <1>1, <2>1 DEF HandlesKeepObject
  <2>3. Open(f) /\ ent[f].side = "from" /\ ent'[f].side = "from"
    <3>1. Open(f) /\ ent[f].side \in Side
      BY <1>3, <1>5, <2>2, EntityFields DEF Open, DataOK
    <3>2. QED
      BY <1>4, <1>5, <3>1 DEF Side
  <2>4. f \in DOMAIN bucket["from"] /\ bucket["from"][f] = wanted[f]
    BY <2>2, <2>3 DEF HandlesOK, HandlesKeepObject
  <2>5. QED
    BY <1>1, <1>6, <2>3, <2>4
<1>8. \A f \in AFile : ent'[f].side # "to"
  BY <1>4, <1>5
<1>9. (pc = "unlink" /\ Open(todo[1].old) =>
         IF nocopy THEN todo[1].old \in stranded ELSE ent[todo[1].old].side = "to")'
  <2>1. SUFFICES ASSUME pc' = "unlink", Open(todo[1].old)'
                 PROVE  todo'[1].old \in stranded'
    BY <1>1
  <2>2. todo'[1].old = Current /\ ent'[Current].side # "none"
    BY <1>1, <1>2, <2>1 DEF Open
  <2>3. ent[Current].side # "none" /\ ent[Current].side # "to" /\ ent[Current].side \in Side \cup {"none"}
    BY <1>2, <1>3, <1>4, <1>5, <2>2, EntityFields DEF DataOK
  <2>4. own
    BY <2>3 DEF Open, Side
  <2>5. QED
    BY <1>1, <2>1, <2>2, <2>4
<1>10. QED
  BY <1>1, <1>7, <1>8, <1>9 DEF HandlesOK

\* FdManager::Rename: the copy is the newest content, and the open file goes by
\* its path now.
LEMMA MoveEntityHandles ==
  ASSUME Inv1, HandlesOK, MoveEntity
  PROVE  HandlesOK'
<1>1. /\ pc = "table" /\ pc' = "unlink" /\ UNCHANGED <<bucket, nocopy, side, todo, wanted, missed, stranded>>
      /\ ent' = IF Open(Current) THEN [ent EXCEPT ![Current].side = "to"] ELSE ent
  BY DEF MoveEntity, Goto, moving, history
<1>2. DataOK /\ PhaseOK /\ todo # <<>>
  BY <1>1 DEF Inv1, CallOK, TodoOK
<1>3. Current = todo[1].old /\ Current \in AFile
  BY <1>1, <1>2, FileMoved DEF Moving
<1>4. ~nocopy /\ Current \in DOMAIN bucket["to"] /\ bucket["to"][Current] = wanted[Current]
  BY <1>1, <1>2, <1>3 DEF PhaseOK
<1>5. /\ \A g \in AFile : g # Current => ent'[g] = ent[g]
      /\ ent'[Current].side \in {"none", "to"}
  <2>1. CASE ~Open(Current)
    <3>1. ent' = ent
      BY <1>1, <2>1
    <3>2. QED
      BY <2>1, <3>1 DEF Open
  <2>2. CASE Open(Current)
    <3> DEFINE e == [side |-> "to", dirty |-> ent[Current].dirty, data |-> ent[Current].data]
    <3>1. ent' = [ent EXCEPT ![Current] = e]
      BY <1>1, <1>2, <1>3, <2>2, EntityFields DEF DataOK
    <3>2. e.side = "to"
      OBVIOUS
    <3> HIDE DEF e
    <3>3. ent'[Current] = e /\ \A g \in AFile : g # Current => ent'[g] = ent[g]
      BY <1>2, <1>3, <3>1 DEF DataOK
    <3>4. QED
      BY <3>2, <3>3
  <2>3. QED
    BY <2>1, <2>2
<1>6. HandlesKeepObject'
  <2>1. SUFFICES ASSUME NEW f \in AFile, f \notin stranded, f \notin missed, Open(f)'
                 PROVE  f \in DOMAIN bucket[ent'[f].side] /\ bucket[ent'[f].side][f] = wanted[f]
    BY <1>1 DEF HandlesKeepObject
  <2>2. CASE f # Current
    BY <1>5, <2>1, <2>2 DEF HandlesOK, HandlesKeepObject, Open
  <2>3. CASE f = Current
    <3>1. ent'[f].side = "to"
      BY <1>5, <2>1, <2>3 DEF Open
    <3>2. QED
      BY <1>4, <2>3, <3>1
  <2>4. QED
    BY <2>2, <2>3
<1>7. todo'[1].old = Current
  BY <1>1, <1>3
<1>8. (pc = "unlink" /\ Open(todo[1].old) =>
         IF nocopy THEN todo[1].old \in stranded ELSE ent[todo[1].old].side = "to")'
  BY <1>1, <1>4, <1>5, <1>7 DEF Open
<1>9. QED
  BY <1>1, <1>4, <1>6, <1>8 DEF HandlesOK

\* s3fs_unlink deletes an object no open file goes by, but those left behind.
LEMMA UnlinkHandles ==
  ASSUME Inv1, HandlesOK, Unlink
  PROVE  HandlesOK'
<1>1. /\ pc = "unlink" /\ UNCHANGED <<ent, nocopy, missed, stranded>>
      /\ \/ /\ Drop("from", Current)
            /\ wanted' = IF nocopy THEN [wanted EXCEPT ![Current] = bucket["to"][Current]] ELSE wanted
         \/ UNCHANGED <<bucket, wanted>>
      /\ pc' # "unlink" /\ side' = side
  BY DEF Unlink, Goto, Return
<1>2. DataOK /\ todo # <<>>
  BY <1>1 DEF Inv1, CallOK, TodoOK
<1>3. Current = todo[1].old /\ Current \in AFile
  BY <1>1, <1>2, FileMoved DEF Moving
<1>4. CASE UNCHANGED <<bucket, wanted>>
  BY <1>1, <1>4, ReadsHandles
<1>5. CASE /\ Drop("from", Current)
           /\ wanted' = IF nocopy THEN [wanted EXCEPT ![Current] = bucket["to"][Current]] ELSE wanted
  <2>1. PICK k : k = Current
    OBVIOUS
  <2>2. Drop("from", k)
    BY <1>5, <2>1
  <2>3. /\ bucket'["to"] = bucket["to"] /\ DOMAIN bucket'["from"] = DOMAIN bucket["from"] \ {k}
        /\ \A x \in DOMAIN bucket["from"] : x # k => bucket'["from"][x] = bucket["from"][x]
    BY <1>2, <2>2, DropParts, FileParts DEF DataOK
  <2>4. \A g \in AFile : g # k => wanted'[g] = wanted[g]
    BY <1>2, <1>5, <2>1 DEF DataOK
  <2>5. ~nocopy => wanted' = wanted
    BY <1>5
  <2>6. HandlesKeepObject'
    <3>1. SUFFICES ASSUME NEW f \in AFile, f \notin stranded, f \notin missed, Open(f)
                   PROVE  f \in DOMAIN bucket'[ent[f].side] /\ bucket'[ent[f].side][f] = wanted'[f]
      BY <1>1 DEF HandlesKeepObject, Open
    <3>2. f \in DOMAIN bucket[ent[f].side] /\ bucket[ent[f].side][f] = wanted[f]
      BY <3>1 DEF HandlesOK, HandlesKeepObject
    <3>3. ent[f].side \in Side
      BY <1>2, <3>1, EntityFields DEF Open, DataOK
    <3>4. CASE f = k
      <4>1. ~nocopy /\ ent[f].side = "to"
        BY <1>1, <1>3, <2>1, <3>1, <3>4 DEF HandlesOK
      <4>2. QED
        BY <2>3, <2>5, <3>2, <4>1
    <3>5. CASE f # k
      BY <2>3, <2>4, <3>2, <3>3, <3>5 DEF Side
    <3>6. QED
      BY <3>4, <3>5
  <2>7. (nocopy /\ side = "from" => \A f \in AFile : ent[f].side # "to")'
    BY <1>1 DEF HandlesOK
  <2>8. QED
    BY <1>1, <2>6, <2>7 DEF HandlesOK
<1>6. QED
  BY <1>1, <1>4, <1>5

\* s3fs_rmdir deletes no object of a file.
LEMMA RemovalHandles ==
  ASSUME Inv1, HandlesOK, RmSlash \/ RmPlain \/ RmFolder
  PROVE  HandlesOK'
<1>1. /\ pc \in {"rmslash", "rmplain", "rmfolder"} /\ pc' # "unlink"
      /\ UNCHANGED <<side, ent, nocopy, wanted, stranded>> /\ missed \subseteq missed'
      /\ \/ UNCHANGED bucket
         \/ \E k \in {Current, Key(Current, "slash"), Key(Current, "folder")} : Drop("from", k)
  BY DEF RmSlash, RmPlain, RmFolder, Goto, Delete, Overlook
<1>2. pc \in Removing /\ todo # <<>> /\ DataOK
  BY <1>1 DEF Inv1, CallOK, TodoOK, Removing
<1>3. CASE UNCHANGED bucket
  BY <1>1, <1>3, ReadsHandles
<1>4. CASE \E k \in {Current, Key(Current, "slash"), Key(Current, "folder")} : Drop("from", k)
  <2>1. PICK k \in {Current, Key(Current, "slash"), Key(Current, "folder")} : Drop("from", k)
    BY <1>4
  <2>2. \A f \in AFile : Open(f) => f # k
    BY <1>2, RemovedParts DEF DataOK
  <2>3. /\ bucket'["to"] = bucket["to"] /\ DOMAIN bucket'["from"] = DOMAIN bucket["from"] \ {k}
        /\ \A x \in DOMAIN bucket["from"] : x # k => bucket'["from"][x] = bucket["from"][x]
    BY <1>2, <2>1, DropParts, FileParts DEF DataOK
  <2>4. \A f \in AFile, s \in Side :
          Open(f) /\ f \in DOMAIN bucket[s] => f \in DOMAIN bucket'[s] /\ bucket'[s][f] = bucket[s][f]
    BY <2>2, <2>3 DEF Side
  <2>5. \A f \in AFile : Open(f)' => Open(f) /\ ent'[f].side = ent[f].side /\ wanted'[f] = wanted[f]
    BY <1>1 DEF Open
  <2>6. QED
    BY <1>1, <1>2, <2>4, <2>5, HandlesStay
<1>5. QED
  BY <1>1, <1>3, <1>4

\* Every step keeps the open files and their objects together.
LEMMA HandlesInductive ==
  ASSUME Inv1, Inv2, HandlesOK, [Next]_vars
  PROVE  HandlesOK'
<1>1. CASE Call \/ Step
  BY <1>1, ReadersHandles, FlushFirstHandles, CloneHandles, CopyHandles, CopyByUploadHandles,
     MoveEntityHandles, UnlinkHandles, RemovalHandles, Zenon DEF Step
<1>2. CASE Crash
  BY <1>2, CrashHandles
<1>3. CASE \E f \in AFile : OpenFile(f) \/ Write(f) \/ Flush(f) \/ Release(f)
  BY <1>3, OpenFileHandles, HandlersHandles
<1>4. CASE \E f \in File : Create(f)
  BY <1>4, CreateHandles
<1>5. CASE UNCHANGED vars
  BY <1>5, ReadsHandles DEF vars, moving, history
<1>6. QED
  BY <1>1, <1>2, <1>3, <1>4, <1>5 DEF Next

\* Every state of the rename satisfies the three invariants.
LEMMA HandlesInvariant == Spec => [](Inv1 /\ Inv2 /\ HandlesOK)
<1>1. Init => HandlesOK
  <2>1. Closed.side = "none"
    BY DEF Closed
  <2>2. Init => pc = "idle" /\ \A f \in AFile : ent[f].side = "none"
    BY <2>1 DEF Init
  <2>3. QED
    BY <2>2 DEF HandlesOK, HandlesKeepObject, Open
<1>2. Init => Inv1 /\ Inv2 /\ HandlesOK
  BY <1>1, InitialState, InitialPending
<1>3. (Inv1 /\ Inv2 /\ HandlesOK) /\ [Next]_vars => (Inv1 /\ Inv2 /\ HandlesOK)'
  BY Inductive, PendingInductive, HandlesInductive
<1>4. QED
  BY <1>2, <1>3, PTL DEF Spec

\* The object under the path of an open file is its newest content, during a
\* rename as well: FdManager::Rename moves the open file to the new path before
\* s3fs_unlink deletes the object under the old one, and a file that is opened
\* after the call has returned 0 is found under the new name.
THEOREM HandlesCorrect == Spec => []HandlesKeepObject
<1>1. HandlesOK => HandlesKeepObject
  BY DEF HandlesOK
<1>2. QED
  BY <1>1, HandlesInvariant, PTL

\* When rename_directory or rename_object has returned 0, no object is left
\* under the old name but those of names that a failed or a wrong answer hid, or
\* another client added meanwhile, and every open file goes by its new path.
THEOREM RenamedCorrect == Spec => []RenamedWhenZero
<1>1. ASSUME Inv1, Inv2, HandlesOK, result = "ok"
      PROVE  /\ DOMAIN bucket["from"] \subseteq {Key(n, form) : n \in missed, form \in Form}
             /\ \A f \in AFile \ (missed \cup stranded) : Open(f) => ent[f].side = "to"
  <2>1. DataOK /\ \A n \in Name, form \in Form : Has(Key(n, form)) => n \in missed
    BY <1>1 DEF Inv1, Inv2, DoneOK
  <2>2. ASSUME NEW k \in DOMAIN bucket["from"]
        PROVE  \E n \in missed, form \in Form : k = Key(n, form)
    <3>1. k \in Keys
      BY <2>1, FileParts DEF DataOK
    <3>2. PICK n \in Name, form \in Form : k = Key(n, form)
      BY <3>1 DEF Keys
    <3>3. QED
      BY <2>1, <3>2 DEF Has
  <2>3. ASSUME NEW f \in AFile, f \notin missed, f \notin stranded, Open(f)
        PROVE  ent[f].side = "to"
    <3>1. ent[f].side \in Side
      BY <2>1, <2>3, EntityFields DEF DataOK, Open
    <3>2. f \in DOMAIN bucket[ent[f].side]
      BY <1>1, <2>3 DEF HandlesOK, HandlesKeepObject
    <3>3. f \in Name /\ Key(f, "plain") = f /\ "plain" \in Form
      BY FileParts, KeyParts DEF Form
    <3>4. f \notin DOMAIN bucket["from"]
      BY <2>1, <2>3, <3>3 DEF Has
    <3>5. QED
      BY <3>1, <3>2, <3>4 DEF Side
  <2>4. QED
    BY <2>2, <2>3
<1>2. Inv1 /\ Inv2 /\ HandlesOK => RenamedWhenZero
  BY <1>1 DEF RenamedWhenZero
<1>3. QED
  BY <1>2, HandlesInvariant, PTL
=============================================================================
