-------------------------- MODULE CacheFile_proofs --------------------------
(***************************************************************************)
(* Two parts.  The first is about FdEntity: with space on the disk, the    *)
(* local copy of an open file is right and a flush that returns 0 has      *)
(* uploaded it, for files, parts and bounds of any size; the inductive     *)
(* invariant is Inductive (FdEntity) with TypeOK.  On a full disk a file   *)
(* that is written in order is uploaded whole; the inductive invariant     *)
(* there is InOrderInv.  Nothing in this part uses a fact of CacheFile.    *)
(*                                                                         *)
(* The second builds on its lemmas: a file that is opened with what an     *)
(* earlier open left in the cache is read and uploaded as the object has   *)
(* it, for any sizes of one digit, any bytes, and any number of crashes,   *)
(* renames and removals, as long as there is space on the disk for writes. *)
(***************************************************************************)
EXTENDS CacheFile, FiniteSetTheorems, SequenceTheorems, WellFoundedInduction, TLAPS

-----------------------------------------------------------------------------
(***************************************************************************)
(* FdEntity.                                                               *)
(***************************************************************************)

-----------------------------------------------------------------------------
(***************************************************************************)
(* Types: the entity, the object and the history stay in theirs, with or   *)
(* without space on the disk.  One lemma per method, then one step per     *)
(* action.                                                                 *)
(***************************************************************************)
\* ftruncate gives a file of the length asked for.
LEMMA CutType ==
  ASSUME NEW f \in File, NEW n \in 0 .. Cap
  PROVE  Cut(f, n) \in File /\ Cut(f, n).len = n
BY SizesAssumption, BytesAssumption DEF Cut, File, Pos

\* The empty file is a file.
LEMMA EmptyType == Empty \in File
BY SizesAssumption, BytesAssumption DEF Empty, File, Pos

\* pwrite inside the bound gives a file.
LEMMA OverlayType ==
  ASSUME NEW f \in File, NEW start \in Nat, NEW n \in Nat, start + n <= Cap, NEW b \in Byte
  PROVE  Overlay(f, start, n, b) \in File
BY SizesAssumption DEF Overlay, File, Pos, Larger

\* Posting a part gives a file, whatever area of the local file it takes.
LEMMA PostType ==
  ASSUME NEW f \in File, NEW g \in File, NEW start \in Nat, NEW n \in Nat
  PROVE  Post(g, f, start, n) \in File
<1> SUFFICES /\ Smaller(Cap, g.len + n) \in 0 .. Cap
             /\ \A i \in Pos : (IF i < g.len THEN g.at[i]
                              ELSE IF i < g.len + n THEN ByteAt(f, start + i - g.len)
                              ELSE Zero) \in Byte
  BY DEF Post, File
<1>1. Smaller(Cap, g.len + n) \in 0 .. Cap
  BY SizesAssumption DEF Smaller, File
<1>2. ASSUME NEW i \in Int PROVE ByteAt(f, i) \in Byte
  BY BytesAssumption DEF ByteAt, File
<1>3. QED
  BY <1>1, <1>2, SizesAssumption, BytesAssumption DEF File, Pos

\* Downloading unloaded bytes keeps the entity well formed, and touches only
\* the loaded set, the file and is_modify.
LEMMA FetchType ==
  ASSUME remote \in File, NEW e, EntityOK(e),
         NEW got, got \subseteq Extent(0, e.size), NEW g \in Fetch(e, got)
  PROVE  /\ EntityOK(g) 
         /\ g.size = e.size /\ g.refcnt = e.refcnt /\ g.upload = e.upload
<1> DEFINE filled  == {i \in got : e.orgsize <= i}
           written == filled \cup {i \in got : i < remote.len}
           Content(i) == IF i \in filled THEN Zero
                    ELSE IF i \in written THEN remote.at[i] ELSE e.file.at[i]
<1>1. PICK n \in LengthWith(e.file, written) :
        g = [e EXCEPT !.loaded = @ \cup got,
                !.file = [len |-> n, at |-> [i \in Pos |-> Content(i)]],
                !.is_modify = @ /\ filled = {}]
  BY DEF Fetch
<1>2. n \in 0 .. Cap
  BY SizesAssumption DEF LengthWith, EntityOK, Entity, File
<1>3. [len |-> n, at |-> [i \in Pos |-> Content(i)]] \in File
  BY <1>2, BytesAssumption DEF EntityOK, Entity, File
<1>. e.size \in 0 .. MaxSize
  BY DEF EntityOK, Entity, Sizes
<1>4a. e.loaded \cup got \subseteq Extent(0, e.size)
  BY DEF EntityOK
<1>4. Extent(0, e.size) \subseteq Extent(0, MaxSize)
  BY SizesAssumption DEF Extent
<1> HIDE DEF filled, written, Content
<1>5. QED
  BY <1>1, <1>3, <1>4a, <1>4 DEF EntityOK, Entity

\* What Load downloads lies inside the file.
LEMMA UnloadedInside ==
  ASSUME NEW e, EntityOK(e), NEW start \in Nat, NEW n \in Nat
  PROVE  Unloaded(e, start, n) \subseteq Extent(0, e.size) \ e.loaded
<1>1. e.size \in 0 .. MaxSize
  BY DEF EntityOK, Entity, Sizes
<1>2. QED
  BY <1>1, SizesAssumption DEF Unloaded, Extent

\* The two forms an outcome has.
LEMMA Outcomes ==
  ASSUME NEW g
  PROVE  /\ Done(g).ent = g /\ Done(g).ok
         /\ Failed(g).ent = g /\ ~Failed(g).ok
         /\ Done(g).ok \in BOOLEAN /\ Failed(g).ok \in BOOLEAN
BY DEF Done, Failed

\* Load ends in a Fetch of some unloaded bytes, whether it fails or not.
LEMMA LoadOutcome ==
  ASSUME NEW e, NEW start, NEW n, NEW o \in Load(e, start, n)
  PROVE  \E got \in SUBSET Unloaded(e, start, n) : \E g \in Fetch(e, got) :
           \/ o = Done(g) /\ got = Unloaded(e, start, n)
           \/ o = Failed(g)
<1> DEFINE need == Unloaded(e, start, n)
           stops == {c \in Starts(need) : \A r \in Refused(e, need) : c <= r}
           Before(c) == {i \in need : i < c}
<1>1. CASE \E g \in Fetch(e, need) : o = Done(g)
  BY <1>1
<1>2. CASE \E c \in stops : \E g \in Fetch(e, Before(c)) : o = Failed(g)
  <2>1. PICK c \in stops : \E g \in Fetch(e, Before(c)) : o = Failed(g)
    BY <1>2
  <2>2. Before(c) \subseteq need
    OBVIOUS
  <2>3. QED
    BY <2>1, <2>2
<1>3. QED
  BY <1>1, <1>2 DEF Load

\* Load keeps the entity well formed and its size, references and upload.
LEMMA LoadType ==
  ASSUME remote \in File, NEW e, EntityOK(e), NEW start \in Nat, NEW n \in Nat,
         NEW o \in Load(e, start, n)
  PROVE  /\ EntityOK(o.ent) /\ o.ent.size = e.size /\ o.ent.refcnt = e.refcnt
         /\ o.ent.upload = e.upload /\ o.ok \in BOOLEAN
<1>1. PICK got \in SUBSET Unloaded(e, start, n) :
        \E g \in Fetch(e, got) : o = Done(g) \/ o = Failed(g)
  BY LoadOutcome
<1>. PICK g \in Fetch(e, got) : o = Done(g) \/ o = Failed(g)
  BY <1>1
<1>2. got \subseteq Extent(0, e.size)
  BY <1>1, UnloadedInside
<1>3. /\ EntityOK(g)
      /\ g.size = e.size /\ g.refcnt = e.refcnt /\ g.upload = e.upload
  BY <1>1, <1>2, FetchType
<1>4. o.ent = g /\ o.ok \in BOOLEAN
  BY Outcomes
<1>5. QED
  BY <1>3, <1>4

\* The fields of a well-formed entity, for the provers.
LEMMA EntityParts ==
  ASSUME NEW e, EntityOK(e)
  PROVE  /\ e \in Entity /\ e.loaded \subseteq Extent(0, e.size)
         /\ e.size \in 0 .. MaxSize /\ e.size \in Nat /\ e.size <= Cap
         /\ e.file \in File /\ e.posted \in File /\ e.orgsize \in 0 .. Cap
         /\ e.is_modify \in BOOLEAN /\ e.upload \in BOOLEAN
         /\ e.mp_start \in 0 .. Cap /\ e.mp_size \in 0 .. Cap
         /\ e.pending \in BOOLEAN
         /\ Extent(0, e.size) \subseteq Extent(0, MaxSize)
<1>1. /\ e \in Entity /\ e.loaded \subseteq Extent(0, e.size)
      /\ e.size \in 0 .. MaxSize
      /\ e.file \in File /\ e.posted \in File /\ e.orgsize \in 0 .. Cap
      /\ e.is_modify \in BOOLEAN /\ e.upload \in BOOLEAN
      /\ e.mp_start \in 0 .. Cap /\ e.mp_size \in 0 .. Cap
      /\ e.pending \in BOOLEAN
  BY DEF EntityOK, Entity, Sizes
<1>2. e.size \in Nat /\ e.size <= Cap /\ Extent(0, e.size) \subseteq Extent(0, MaxSize)
  BY <1>1, SizesAssumption DEF Extent
<1>3. QED
  BY <1>1, <1>2

\* What is posted for the whole file is a file.
LEMMA ImageFileType ==
  ASSUME remote \in File, NEW e, EntityOK(e)
  PROVE  ImageFile(e) \in File
<1>1. \A i \in Int : Image(e, i) \in Byte
  BY EntityParts, BytesAssumption DEF Image, ByteAt, File
<1>2. e.size \in 0 .. Cap
  BY EntityParts, SizesAssumption
<1>3. QED
  BY <1>1, <1>2, BytesAssumption DEF ImageFile, File, Pos

\* Posting a prefix keeps the entity well formed.
LEMMA PostingType ==
  ASSUME remote \in File, NEW e, EntityOK(e), NEW upto \in Nat, NEW filled,
         NEW area \in SUBSET Extent(0, e.size),
         NEW p, p = [Posting(e, upto, filled) EXCEPT !.loaded = @ \cup area]
  PROVE  EntityOK(p) /\ EntityOK([p EXCEPT !.file = Empty])
<1> DEFINE posted == Post(e.posted, ImageFile(e), 0, upto)
           modify == e.is_modify /\ ~Zeroed(e, filled)
           loaded == e.loaded \cup area
<1>1. posted \in File
  BY PostType, ImageFileType, EntityParts
<1>2. modify \in BOOLEAN
  OBVIOUS
<1>3. p = [e EXCEPT !.posted = posted, !.is_modify = modify, !.loaded = loaded]
  <2> HIDE DEF posted, modify
  <2>1. Posting(e, upto, filled) = [e EXCEPT !.posted = posted, !.is_modify = modify]
    BY EntityParts DEF Posting, posted, modify
  <2>2. [e EXCEPT !.posted = posted, !.is_modify = modify].loaded = e.loaded
    BY EntityParts DEF Entity
  <2>3. QED
    BY <2>1, <2>2
<1>4. loaded \subseteq Extent(0, e.size) /\ loaded \in SUBSET Extent(0, MaxSize)
  BY EntityParts
<1> HIDE DEF posted, modify, loaded
<1>0. e \in Entity
  BY DEF EntityOK
<1>5. p \in Entity /\ p.loaded = loaded /\ p.size = e.size
  BY <1>0, <1>1, <1>2, <1>3, <1>4 DEF Entity
<1>6. /\ [p EXCEPT !.file = Empty] \in Entity
      /\ [p EXCEPT !.file = Empty].loaded = loaded
      /\ [p EXCEPT !.file = Empty].size = e.size
  BY <1>5, EmptyType DEF Entity
<1>7. QED
  BY <1>4, <1>5, <1>6 DEF EntityOK

\* NoCacheLoadAndPost keeps the entity well formed, however it ends.
LEMMA LoadAndPostType ==
  ASSUME remote \in File, NEW e, EntityOK(e), NEW hi \in Nat,
         NEW o \in LoadAndPost(e, hi)
  PROVE  EntityOK(o.ent) /\ o.ok \in BOOLEAN
<1>1. CASE \E n \in 0 .. e.size, area \in SUBSET Extent(0, e.size) :
             o = Done([Posting(e, n, n) EXCEPT !.loaded = @ \cup area,
                                               !.file = Empty])
  <2> PICK n \in 0 .. e.size, area \in SUBSET Extent(0, e.size) :
             o = Done([Posting(e, n, n) EXCEPT !.loaded = @ \cup area,
                                               !.file = Empty])
    BY <1>1
  <2>1. n \in Nat
    BY EntityParts
  <2> DEFINE p == [Posting(e, n, n) EXCEPT !.loaded = @ \cup area]
  <2>2. EntityOK([p EXCEPT !.file = Empty])
    BY <2>1, PostingType
  <2>3. o = Done([p EXCEPT !.file = Empty])
    OBVIOUS
  <2> HIDE DEF p
  <2>4. QED
    BY <2>2, <2>3, Outcomes
<1>2. CASE \E c \in Sizes, filled \in Sizes, area \in SUBSET Extent(0, e.size) :
             o = Failed([Posting(e, c, filled) EXCEPT !.loaded = @ \cup area])
  <2> PICK c \in Sizes, filled \in Sizes, area \in SUBSET Extent(0, e.size) :
             o = Failed([Posting(e, c, filled) EXCEPT !.loaded = @ \cup area])
    BY <1>2
  <2>1. c \in Nat
    BY SizesAssumption DEF Sizes
  <2> DEFINE p == [Posting(e, c, filled) EXCEPT !.loaded = @ \cup area]
  <2>2. EntityOK(p)
    BY <2>1, PostingType
  <2> HIDE DEF p
  <2>3. QED
    BY <2>2, Outcomes DEF p
<1>3. QED
  <2> DEFINE
      visited == Visited(e, hi)
      begins  == {i \in visited : PartBegins(e, i)}
      refused == {i \in begins : i \notin e.loaded /\ i < e.orgsize /\ remote.len <= i}
      area    == {i \in Extent(0, e.size) : hi = 0 \/ i < hi}
      posted(n) == \A i \in Extent(0, e.size) : i \in visited <=> i < n
      part(c, d) == /\ c \in begins /\ c < d
                    /\ d \in begins \/ posted(d)
                    /\ \A i \in Extent(c + 1, d) : i \notin begins
      reached(c) == (e.upload \/ c = 0) /\ \A r \in refused : c <= r
      Broken(c, p, filled) ==
        [Posting(e, c, filled) EXCEPT !.loaded = @ \cup Extent(0, p)]
  <2>1. CASE \E n \in 0 .. e.size :
               o = Done([Posting(e, n, n) EXCEPT !.loaded = @ \cup area, !.file = Empty])
    <3>1. area \in SUBSET Extent(0, e.size)
      OBVIOUS
    <3>2. QED
      BY <2>1, <3>1, <1>1
  <2>2. CASE \E x \in {y \in Sizes \X Sizes \X Sizes :
                 /\ reached(y[1]) /\ PageBegins(e, y[2], y[1])
                 /\ \E d \in Sizes : part(y[1], d) /\ y[3] \in {y[1], d}} :
               o = Failed(Broken(x[1], x[2], x[3]))
    <3>1. PICK x \in Sizes \X Sizes \X Sizes :
            /\ PageBegins(e, x[2], x[1]) /\ x[1] \in begins
            /\ o = Failed(Broken(x[1], x[2], x[3]))
      BY <2>2
    <3>2. x[1] \in Extent(0, e.size) /\ x[2] <= x[1] /\ x[2] \in Nat
      BY <3>1, SizesAssumption DEF Visited, PageBegins, Sizes
    <3>3. Extent(0, x[2]) \in SUBSET Extent(0, e.size)
      BY <3>2, EntityParts DEF Extent
    <3>4. x[1] \in Sizes /\ x[3] \in Sizes
      OBVIOUS
    <3>5. QED
      BY <3>1, <3>3, <3>4, <1>2
  <2>3. CASE o = Failed(e)
    BY <2>3, Outcomes
  <2>4. QED
    BY <2>1, <2>2, <2>3 DEF LoadAndPost

\* Read-ahead asks for a natural number of bytes.
LEMMA LoadSizeType ==
  ASSUME NEW e, EntityOK(e), NEW start \in Nat, NEW n \in Nat
  PROVE  LoadSize(e, start, n) \in Nat
BY EntityParts, SizesAssumption DEF LoadSize, Smaller, Larger

\* Giving up the local copy keeps the entity well formed.
LEMMA ReleaseType ==
  ASSUME NEW e, EntityOK(e)
  PROVE  EntityOK(Release4Space(e))
<1>1. e \in Entity /\ e.size \in 0 .. Cap
  BY EntityParts
<1>2. Cut(Empty, e.size) \in File
  BY <1>1, EmptyType, CutType
<1>3. QED
  BY <1>1, <1>2 DEF Release4Space, EntityOK, Entity

\* Read keeps the entity well formed.
LEMMA ReadType ==
  ASSUME remote \in File, NEW e, EntityOK(e), NEW start \in Nat, NEW n \in Nat,
         NEW o \in Read(e, start, n)
  PROVE  EntityOK(o.ent)
<1>1. CASE o = Done(e)
  BY <1>1, Outcomes
<1>2. CASE \E safe \in SafeDisk :
             o \in Load(IF safe THEN e ELSE Release4Space(e),
                        start, LoadSize(e, start, n))
  BY <1>2, LoadType, ReleaseType, LoadSizeType
<1>3. QED
  BY <1>1, <1>2 DEF Read

\* Beginning an upload without space keeps the entity well formed.
LEMMA BeginUploadType ==
  ASSUME remote \in File, NEW e, EntityOK(e), NEW start \in 0 .. Cap,
         NEW o \in BeginUpload(e, start)
  PROVE  /\ EntityOK(o.ent)
         /\ o.ok => o.ent.mp_start = start /\ o.ent.mp_size = 0
<1>1. e \in Entity
  BY DEF EntityOK
<1>2. EntityOK([e EXCEPT !.upload = TRUE, !.posted = Empty])
      /\ EntityOK([e EXCEPT !.posted = Empty])
  BY <1>1, EmptyType DEF EntityOK, Entity
<1>3. CASE o = Failed([e EXCEPT !.posted = Empty])
  BY <1>2, <1>3, Outcomes
<1>4. CASE \E p \in LoadAndPost([e EXCEPT !.upload = TRUE, !.posted = Empty], start) :
             o = IF p.ok THEN Done([p.ent EXCEPT !.mp_start = start, !.mp_size = 0])
                         ELSE p
  <2> PICK p \in LoadAndPost([e EXCEPT !.upload = TRUE, !.posted = Empty], start) :
             o = IF p.ok THEN Done([p.ent EXCEPT !.mp_start = start, !.mp_size = 0])
                         ELSE p
    BY <1>4
  <2>1. EntityOK(p.ent) /\ p.ok \in BOOLEAN
    BY <1>2, LoadAndPostType, SizesAssumption
  <2> DEFINE q == [p.ent EXCEPT !.mp_start = start, !.mp_size = 0]
  <2>0. p.ent \in Entity /\ 0 \in 0 .. Cap
    BY <2>1, SizesAssumption DEF EntityOK
  <2>a. q \in Entity /\ q.loaded = p.ent.loaded /\ q.size = p.ent.size
        /\ q.mp_start = start /\ q.mp_size = 0
    BY <2>0 DEF Entity
  <2>2. EntityOK(q) /\ q.mp_start = start /\ q.mp_size = 0
    BY <2>1, <2>a DEF EntityOK
  <2> HIDE DEF q
  <2>3. CASE p.ok
    BY <2>2, <2>3, Outcomes DEF q
  <2>4. CASE ~p.ok
    BY <2>1, <2>4
  <2>5. QED
    BY <2>3, <2>4
<1>5. QED
  BY <1>3, <1>4 DEF BeginUpload

\* What Write does before its pwrite keeps the entity well formed.
LEMMA BeforeWriteType ==
  ASSUME remote \in File, NEW e, EntityOK(e), NEW start \in 0 .. Cap,
         NEW o \in BeforeWrite(e, start)
  PROVE  /\ EntityOK(o.ent)
         /\ o.ok => \/ e.upload /\ o.ent = e
                    \/ ~o.ent.upload
                    \/ o.ent.mp_start = start /\ o.ent.mp_size = 0
<1>1. CASE e.upload /\ o = Done(e)
  BY <1>1, Outcomes
<1>2. CASE o \in BeginUpload(e, start)
  BY <1>2, BeginUploadType
<1>3. CASE ~e.upload /\ o \in Load(e, 0, start)
  BY <1>3, LoadType, SizesAssumption
<1>4. CASE ~e.upload /\ o = Done(e)
  BY <1>4, Outcomes
<1>5. QED
  BY <1>1, <1>2, <1>3, <1>4 DEF BeforeWrite

\* The write itself keeps the entity well formed and grows it inside the bound.
LEMMA PwriteType ==
  ASSUME NEW e, EntityOK(e), NEW start \in Nat, NEW n \in Nat,
         start + n <= MaxSize, NEW b \in Byte
  PROVE  LET p == Pwrite(e, start, n, b)
         IN /\ EntityOK(p) /\ p.upload = e.upload
            /\ p.mp_start = e.mp_start /\ p.mp_size = e.mp_size
            /\ p.size = Larger(e.size, start + n)
<1>1. e \in Entity /\ e.size \in 0 .. MaxSize /\ e.file \in File
  BY EntityParts
<1>2. start + n <= Cap
  BY SizesAssumption
<1>3. Overlay(e.file, start, n, b) \in File
  BY <1>1, <1>2, OverlayType
<1>4. Larger(e.size, start + n) \in Sizes
  BY <1>1, SizesAssumption DEF Larger, Sizes
<1>5. e.loaded \cup Extent(start, start + n) \subseteq Extent(0, Larger(e.size, start + n))
  BY <1>1, SizesAssumption DEF EntityOK, Larger, Extent
<1>6. Extent(0, Larger(e.size, start + n)) \subseteq Extent(0, MaxSize)
  BY <1>4, SizesAssumption DEF Extent, Sizes
<1>7. QED
  BY <1>1, <1>3, <1>4, <1>5, <1>6 DEF Pwrite, EntityOK, Entity

\* Counting and posting what was written keeps the entity well formed.
LEMMA AfterWriteType ==
  ASSUME remote \in File, NEW e, EntityOK(e), NEW start \in Nat, NEW n \in Nat,
         e.upload => e.mp_start + e.mp_size + n <= Cap,
         NEW o \in AfterWrite(e, start, n)
  PROVE  EntityOK(o.ent)
<1> DEFINE counted == [e EXCEPT !.mp_size = @ + n]
           next == e.mp_start + counted.mp_size
           posted == Post(counted.posted, e.file, e.mp_start, counted.mp_size)
           cut == Cut(Empty, Smaller(next, Cap))
           moved == [counted EXCEPT !.posted = posted, !.file = cut,
                                    !.mp_start = Smaller(next, Cap), !.mp_size = 0]
<1>1. /\ e \in Entity /\ e.mp_start \in 0 .. Cap /\ e.mp_size \in 0 .. Cap
      /\ e.file \in File
  BY EntityParts
<1>2. CASE o = Done(e) \/ o = Failed(e)
  BY <1>2, Outcomes
<1>3. CASE e.upload /\ o \in {Done(counted), Failed(counted), Done(moved)}
  <2>1. e.mp_size + n \in 0 .. Cap
    BY <1>1, <1>3, SizesAssumption
  <2>2. counted \in Entity /\ counted.mp_size = e.mp_size + n
        /\ counted.loaded = e.loaded /\ counted.size = e.size
    BY <1>1, <2>1 DEF Entity
  <2>3. counted.posted \in File
    BY <2>2 DEF Entity
  <2>4. posted \in File
    <3>1. e.mp_start \in Nat /\ counted.mp_size \in Nat
      BY <1>1, <2>1, <2>2
    <3> HIDE DEF counted
    <3>2. QED
      BY <1>1, <3>1, <2>3, PostType
  <2>5. Smaller(next, Cap) \in 0 .. Cap
    BY <1>1, <2>1, <2>2, SizesAssumption DEF Smaller
  <2>6. cut \in File
    BY <2>5, EmptyType, CutType
  <2> HIDE DEF counted, next, posted, cut
  <2>7. moved \in Entity /\ moved.loaded = e.loaded /\ moved.size = e.size
    <3>1. 0 \in 0 .. Cap
      BY SizesAssumption
    <3>2. QED
      BY <3>1, <2>2, <2>4, <2>5, <2>6 DEF Entity
  <2>8. EntityOK(counted) /\ EntityOK(moved)
    BY <2>2, <2>7 DEF EntityOK
  <2> HIDE DEF moved
  <2>9. QED
    BY <1>3, <2>8, Outcomes
<1>4. QED
  BY <1>2, <1>3 DEF AfterWrite

\* Write keeps the entity well formed.
LEMMA WriteType ==
  ASSUME remote \in File, NEW e, EntityOK(e), NEW start \in Nat, NEW n \in Nat,
         start + n <= MaxSize, NEW b \in Byte,
         e.upload => e.mp_start + e.mp_size + n <= Cap,
         NEW o \in Write(e, start, n, b)
  PROVE  EntityOK(o.ent)
<1>1. PICK p \in BeforeWrite(e, start) :
        IF p.ok THEN \/ o = Failed(p.ent)
                     \/ o \in AfterWrite(Pwrite(p.ent, start, n, b), start, n)
                ELSE o = p
  BY DEF Write
<1>2. start \in 0 .. Cap
  BY SizesAssumption
<1>3. /\ EntityOK(p.ent)
      /\ p.ok => \/ e.upload /\ p.ent = e
                 \/ ~p.ent.upload
                 \/ p.ent.mp_start = start /\ p.ent.mp_size = 0
  BY <1>2, BeforeWriteType
<1>4. CASE ~p.ok \/ o = Failed(p.ent)
  BY <1>1, <1>3, <1>4, Outcomes
<1>5. CASE p.ok /\ o \in AfterWrite(Pwrite(p.ent, start, n, b), start, n)
  <2> DEFINE q == Pwrite(p.ent, start, n, b)
  <2>1. /\ EntityOK(q) /\ q.upload = p.ent.upload
        /\ q.mp_start = p.ent.mp_start /\ q.mp_size = p.ent.mp_size
    BY <1>3, PwriteType
  <2> HIDE DEF q
  <2>2. q.upload => q.mp_start + q.mp_size + n <= Cap
    BY <1>3, <1>5, <2>1, SizesAssumption
  <2>3. QED
    BY <1>5, <2>1, <2>2, AfterWriteType DEF q
<1>6. QED
  BY <1>1, <1>4, <1>5

\* Ftruncate keeps the entity well formed and forgets what it cuts off.
LEMMA FtruncateType ==
  ASSUME NEW e, EntityOK(e), NEW n \in Sizes, NEW o \in Ftruncate(e, n)
  PROVE  EntityOK(o.ent)
<1> DEFINE q == [e EXCEPT !.file = Cut(@, n), !.size = n, !.is_modify = TRUE,
                          !.loaded = @ \cap Extent(0, n)]
<1>1. e \in Entity /\ e.file \in File
  BY EntityParts
<1>2. Cut(e.file, n) \in File
  BY <1>1, CutType, SizesAssumption DEF Sizes
<1>3. q \in Entity /\ q.size = n /\ q.loaded \subseteq Extent(0, n)
  BY <1>1, <1>2 DEF Entity
<1>4. EntityOK(q)
  BY <1>3 DEF EntityOK
<1> HIDE DEF q
<1>5. o = Done(e) \/ o = Failed(e) \/ o = Done(q)
  BY DEF Ftruncate, q
<1>6. QED
  BY <1>4, <1>5, Outcomes

\* A change of the reference count alone keeps the entity well formed.
LEMMA RefcntType ==
  ASSUME NEW e, EntityOK(e), NEW r \in Nat, NEW q, q = [e EXCEPT !.refcnt = r]
  PROVE  EntityOK(q) /\ q.refcnt = r /\ q.size = e.size
<1>1. e \in Entity
  BY DEF EntityOK
<1>2. QED
  BY <1>1 DEF EntityOK, Entity

\* s3fs_truncate of an open file keeps the entity well formed.
LEMMA TruncateOpenType ==
  ASSUME remote \in File, NEW e, EntityOK(e), NEW n \in Sizes,
         NEW o \in TruncateOpen(e, n)
  PROVE  EntityOK(o.ent) /\ o.ent.refcnt = e.refcnt
<1> DEFINE held == [e EXCEPT !.refcnt = @ + 1]
<1>1. e.refcnt \in Nat /\ e.refcnt + 1 \in Nat
  BY DEF EntityOK, Entity
<1>2. EntityOK(held)
  BY <1>1, RefcntType
<1> HIDE DEF held
<1>3. PICK p \in Load(held, 0, n) :
        o \in (IF ~p.ok THEN {Failed([p.ent EXCEPT !.refcnt = e.refcnt])}
               ELSE {[r EXCEPT !.ent.refcnt = e.refcnt] : r \in Ftruncate(p.ent, n)})
  BY DEF TruncateOpen, held
<1>4. n \in Nat
  BY SizesAssumption DEF Sizes
<1>5. EntityOK(p.ent)
  BY <1>2, <1>4, LoadType
<1>6. CASE o = Failed([p.ent EXCEPT !.refcnt = e.refcnt])
  <2> DEFINE q == [p.ent EXCEPT !.refcnt = e.refcnt]
  <2>1. EntityOK(q) /\ q.refcnt = e.refcnt
    BY <1>1, <1>5, RefcntType
  <2> HIDE DEF q
  <2>2. QED
    BY <1>6, <2>1, Outcomes DEF q
<1>7. CASE \E r \in Ftruncate(p.ent, n) : o = [r EXCEPT !.ent.refcnt = e.refcnt]
  <2> PICK r \in Ftruncate(p.ent, n) : o = [r EXCEPT !.ent.refcnt = e.refcnt]
    BY <1>7
  <2>1. EntityOK(r.ent)
    BY <1>5, FtruncateType
  <2>2. r = [ent |-> r.ent, ok |-> r.ok]
    BY DEF Ftruncate, Done, Failed
  <2>3. o.ent = [r.ent EXCEPT !.refcnt = e.refcnt]
    BY <2>2
  <2>4. QED
    BY <1>1, <2>1, <2>3, RefcntType
<1>8. QED
  BY <1>3, <1>6, <1>7

-----------------------------------------------------------------------------
FlushOK(r) ==
  EntityOK(r.ent) /\ r.object \in File /\ r.ok \in BOOLEAN

\* An outcome of a flush has the type of its parts.
LEMMA FlushedType ==
  ASSUME NEW e, EntityOK(e), NEW object \in File, NEW ok \in BOOLEAN
  PROVE  FlushOK(Flushed(e, object, ok))
<1>1. /\ Flushed(e, object, ok).ent = e /\ Flushed(e, object, ok).object = object
      /\ Flushed(e, object, ok).ok = ok
  BY DEF Flushed
<1>2. QED
  BY <1>1 DEF FlushOK

\* The normal upload keeps the entity and the object well formed.
LEMMA PutWholeType ==
  ASSUME remote \in File, NEW e, EntityOK(e), NEW r \in PutWhole(e)
  PROVE  FlushOK(r)
<1> DEFINE clean == [e EXCEPT !.is_modify = FALSE]
<1>1. e \in Entity /\ e.file \in File
  BY EntityParts
<1>2. clean \in Entity /\ clean.size = e.size
      /\ clean.loaded = e.loaded
  BY <1>1 DEF Entity
<1>3. EntityOK(clean)
  BY <1>2 DEF EntityOK
<1> HIDE DEF clean
<1>4. \/ r = Flushed(clean, e.file, TRUE) \/ r = Flushed(e, e.file, FALSE)
      \/ r = Flushed(e, remote, FALSE)
  BY DEF PutWhole, clean
<1>5. QED
  BY <1>1, <1>2, <1>3, <1>4, FlushedType

\* Completing an upload keeps the entity and the object well formed.
LEMMA CompleteType ==
  ASSUME remote \in File, NEW e, EntityOK(e), NEW r \in Complete(e)
  PROVE  FlushOK(r)
<1> DEFINE ended == [e EXCEPT !.upload = FALSE, !.posted = Empty, !.mp_start = 0,
                       !.mp_size = 0, !.file = Empty, !.pending = FALSE]
           clean == [ended EXCEPT !.is_modify = FALSE]
<1>1. e \in Entity /\ e.posted \in File
  BY EntityParts
<1>2. 0 \in 0 .. Cap
  BY SizesAssumption
<1>3. ended \in Entity /\ ended.size = e.size
      /\ ended.loaded = e.loaded
  BY <1>1, <1>2, EmptyType DEF Entity
<1> HIDE DEF ended
<1>4. clean \in Entity /\ clean.size = e.size
      /\ clean.loaded = e.loaded
  BY <1>3 DEF Entity
<1>5. EntityOK(ended) /\ EntityOK(clean)
  BY <1>3, <1>4 DEF EntityOK
<1> HIDE DEF clean
<1>6. \/ r = Flushed(e, remote, FALSE) \/ r = Flushed(e, e.posted, FALSE)
      \/ r = Flushed(clean, e.posted, TRUE) \/ r = Flushed(ended, e.posted, FALSE)
  BY DEF Complete, ended, clean
<1>7. QED
  BY <1>1, <1>3, <1>4, <1>5, <1>6, FlushedType

\* Finishing an upload without space keeps both well formed.
LEMMA FinishUploadType ==
  ASSUME remote \in File, NEW e, EntityOK(e), NEW r \in FinishUpload(e)
  PROVE  FlushOK(r)
<1> DEFINE tried == [e EXCEPT !.flushed = TRUE]
           posted == Post(tried.posted, e.file, e.mp_start, e.mp_size)
           rest == [tried EXCEPT !.posted = posted, !.mp_start = 0, !.mp_size = 0]
<1>1. e \in Entity /\ e.file \in File /\ e.mp_start \in 0 .. Cap /\ e.mp_size \in 0 .. Cap
  BY EntityParts
<1>2. 0 \in 0 .. Cap /\ e.mp_start \in Nat /\ e.mp_size \in Nat
  BY <1>1, SizesAssumption
<1>3. tried \in Entity /\ tried.size = e.size
      /\ tried.loaded = e.loaded /\ tried.posted \in File
  BY <1>1 DEF Entity
<1> HIDE DEF tried
<1>4. posted \in File
  BY <1>1, <1>2, <1>3, PostType
<1> HIDE DEF posted
<1>5. rest \in Entity /\ rest.size = e.size
      /\ rest.loaded = e.loaded
  BY <1>2, <1>3, <1>4 DEF Entity
<1>6. EntityOK(tried) /\ EntityOK(rest)
  BY <1>3, <1>5 DEF EntityOK
<1> HIDE DEF rest
<1>7. \/ r = Flushed(e, remote, FALSE) \/ r = Flushed(tried, remote, FALSE)
      \/ r \in Complete(tried) \/ r \in Complete(rest)
  BY DEF FinishUpload, tried, posted, rest
<1>8. QED
  BY <1>3, <1>5, <1>6, <1>7, CompleteType, FlushedType

\* RowFlush keeps the entity and the object well formed.
LEMMA RowFlushType ==
  ASSUME remote \in File, NEW e, EntityOK(e), NEW force, NEW r \in RowFlush(e, force)
  PROVE  FlushOK(r)
<1>1. CASE r = Flushed(e, remote, TRUE)
  BY <1>1, FlushedType
<1>2. CASE \E o \in BeforeUpload(e) :
             \/ r = Flushed(o.ent, remote, FALSE)
             \/ r \in FinishUpload(o.ent)
             \/ r \in PutWhole(o.ent)
  <2> PICK o \in BeforeUpload(e) :
             \/ r = Flushed(o.ent, remote, FALSE)
             \/ r \in FinishUpload(o.ent)
             \/ r \in PutWhole(o.ent)
    BY <1>2
  <2>4. EntityOK(o.ent)
    <3>1. o = Done(e) \/ o \in Load(e, 0, 0) \/ o \in LoadAndPost(e, 0)
      BY DEF BeforeUpload
    <3>2. QED
      BY <3>1, LoadType, LoadAndPostType, Outcomes
  <2>5. QED
    BY <2>4, FlushedType, FinishUploadType, PutWholeType
<1>3. QED
  BY <1>1, <1>2 DEF RowFlush

-----------------------------------------------------------------------------
\* A file of zeros is a file.
LEMMA ZeroesType ==
  ASSUME NEW n \in 0 .. Cap, NEW b \in Byte
  PROVE  [len |-> n, at |-> [i \in Pos |-> IF i < n THEN b ELSE Zero]] \in File
BY BytesAssumption DEF File

\* A newly opened entity is well formed.
LEMMA OpenedType ==
  ASSUME remote \in File, NEW size \in Sizes
  PROVE  EntityOK(Opened(size)) /\ Opened(size).size = size
         /\ Opened(size).loaded = {} /\ Opened(size).refcnt = 1
<1>1. size \in 0 .. Cap /\ 0 \in 0 .. Cap
  BY SizesAssumption DEF Sizes
<1>2. Cut(Empty, size) \in File /\ Empty \in File
  BY <1>1, EmptyType, CutType
<1>3. remote.len \in 0 .. Cap
  BY DEF File
<1>4. Opened(size) \in Entity /\ Opened(size).size = size
      /\ Opened(size).loaded = {} /\ Opened(size).refcnt = 1
  BY <1>1, <1>2, <1>3 DEF Opened, Entity
<1>5. QED
  BY <1>4 DEF EntityOK

\* The closed entity is well formed.
LEMMA ClosedType == EntityOK(Closed) /\ Closed.refcnt = 0
<1>1. 0 \in 0 .. Cap /\ 0 \in Sizes
  BY SizesAssumption DEF Sizes
<1>2. Closed \in Entity /\ Closed.loaded = {} /\ Closed.refcnt = 0
  BY <1>1, EmptyType DEF Closed, Entity
<1>3. QED
  BY <1>2 DEF EntityOK

\* The regrown positions stay inside the bound.
LEMMA RegrowType ==
  ASSUME regrown \subseteq Extent(0, MaxSize), NEW e, EntityOK(e), NEW n \in Sizes
  PROVE  Regrow(e, n) \subseteq Extent(0, MaxSize)
<1>1. e.size \in 0 .. MaxSize
  BY EntityParts
<1>2. QED
  BY <1>1, SizesAssumption DEF Regrow, Extent, Sizes

\* Drops is a Boolean.
LEMMA DropsType ==
  ASSUME NEW e
  PROVE  Drops(e) \in BOOLEAN
BY DEF Drops

\* The initial states have the right types.
LEMMA InitTypeOK == Init => TypeOK
<1> SUFFICES ASSUME Init PROVE TypeOK
  OBVIOUS
<1>1. PICK n \in Sizes : remote = [len |-> n,
        at |-> [i \in Pos |-> IF i < n THEN Initial ELSE Zero]]
  BY DEF Init
<1>2. n \in 0 .. Cap
  BY SizesAssumption DEF Sizes
<1>3. remote \in File
  BY <1>1, <1>2, ZeroesType, BytesAssumption
<1>4. QED
  BY <1>3, ClosedType DEF Init, TypeOK

\* Every step keeps the types: one step of the proof per action.
LEMMA NextTypeOK == TypeOK /\ [Next]_vars => TypeOK'
<1> SUFFICES ASSUME TypeOK, [Next]_vars PROVE TypeOK'
  OBVIOUS
<1> USE DEF TypeOK
<1>0. 0 \in Sizes /\ Sizes \subseteq Nat /\ Sizes \subseteq 0 .. Cap
      /\ Empty \in File
  BY SizesAssumption, EmptyType DEF Sizes
<1>1. CASE Open
  <2>1. remote.len \in Sizes
    BY <1>1, SizesAssumption DEF Open, Sizes, File
  <2>2. EntityOK(Opened(remote.len))
    BY <2>1, OpenedType
  <2>3. QED
    BY <1>1, <2>2 DEF Open, Opens
<1>2. CASE OpenTruncated
  <2>1. PICK r \in RowFlush(Opened(0), TRUE) :
          /\ Opens(IF r.ok THEN r.ent ELSE Closed)
          /\ remote' = r.object
          /\ want' = IF r.ok THEN Cut(Empty, 0) ELSE r.object
          /\ lastflush' = "ok"
    BY <1>2 DEF OpenTruncated
  <2>2. EntityOK(r.ent) /\ r.object \in File
    BY <1>0, OpenedType, RowFlushType DEF FlushOK
  <2>3. Cut(Empty, 0) \in File
    BY <1>0, CutType
  <2>4. QED
    BY <2>1, <2>2, <2>3, ClosedType DEF Opens
<1>3. CASE OpenAgain
  <2>1. EntityOK([ent EXCEPT !.refcnt = @ + 1])
    <3>1. ent.refcnt + 1 \in Nat
      BY DEF EntityOK, Entity
    <3>2. QED
      BY <3>1, RefcntType
  <2>2. QED
    BY <1>3, <2>1 DEF OpenAgain
<1>4. CASE FlushFile
  <2>1. PICK r \in RowFlush(ent, FALSE) :
          /\ ent' = r.ent /\ remote' = r.object
          /\ lastflush' = IF r.ok THEN "ok" ELSE "failed"
          /\ dropped' = (~(r.ok /\ ent.is_modify) /\ Drops(r.ent))
          /\ UNCHANGED <<want, regrown, inorder>>
    BY <1>4 DEF FlushFile
  <2>2. EntityOK(r.ent) /\ r.object \in File
    BY RowFlushType DEF FlushOK
  <2>3. QED
    BY <2>1, <2>2
<1>5. CASE ChangeMetadata
  <2> DEFINE p == ent.pending \/ ent.upload \/ ent.is_modify
             q == [ent EXCEPT !.pending = p]
  <2>1. ent \in Entity /\ p \in BOOLEAN
    BY DEF EntityOK
  <2>2. q \in Entity /\ q.loaded = ent.loaded /\ q.size = ent.size
    <3> HIDE DEF p
    <3>1. QED
      BY <2>1 DEF Entity
  <2>3. EntityOK(q)
    BY <2>2 DEF EntityOK
  <2>4. QED
    BY <1>5, <2>3 DEF ChangeMetadata
<1>6. CASE Release
  <2>1. CASE ent.refcnt > 1 /\ ent' = [ent EXCEPT !.refcnt = @ - 1]
    <3>1. ent.refcnt - 1 \in Nat
      BY <2>1 DEF EntityOK, Entity
    <3>2. EntityOK([ent EXCEPT !.refcnt = @ - 1])
      BY <3>1, RefcntType
    <3>3. QED
      BY <1>6, <2>1, <3>2 DEF Release, Opens
  <2>2. CASE Opens(Closed) /\ want' = remote /\ lastflush' = "ok"
    BY <1>6, <2>2, ClosedType DEF Release, Opens
  <2>3. QED
    BY <1>6, <2>1, <2>2 DEF Release
<1>7. ASSUME NEW n \in Sizes, TruncateClosed(n) PROVE TypeOK'
  <2>1. PICK o \in Load(Opened(n), 0, n) :
          \E r \in IF o.ok THEN RowFlush(o.ent, TRUE)
                   ELSE {Flushed(o.ent, remote, FALSE)} :
            /\ remote' = r.object
            /\ want' = IF r.ok THEN Cut(remote, n) ELSE r.object
    BY <1>7 DEF TruncateClosed
  <2>2. EntityOK(o.ent)
    BY <1>0, OpenedType, LoadType
  <2>3. \A r : r \in RowFlush(o.ent, TRUE) \/ r = Flushed(o.ent, remote, FALSE)
                 => r.object \in File
    BY <2>2, RowFlushType, FlushedType DEF FlushOK
  <2>4. Cut(remote, n) \in File
    BY <1>0, CutType
  <2>5. QED
    BY <1>7, <2>1, <2>3, <2>4 DEF TruncateClosed
<1>8. ASSUME NEW n \in Sizes, TruncateFile(n) PROVE TypeOK'
  <2>1. PICK o \in TruncateOpen(ent, n) :
          /\ ent' = o.ent /\ dropped' = Drops(o.ent)
          /\ IF o.ok /\ n # ent.size
               THEN want' = Cut(want, n) /\ regrown' = Regrow(ent, n) /\ lastflush' = "due"
               ELSE UNCHANGED <<want, regrown, lastflush>>
          /\ inorder' = (inorder /\ n = ent.size) /\ UNCHANGED remote
    BY <1>8 DEF TruncateFile
  <2>2. EntityOK(o.ent)
    BY TruncateOpenType
  <2>3. Cut(want, n) \in File /\ Regrow(ent, n) \subseteq Extent(0, MaxSize)
    BY <1>0, CutType, RegrowType
  <2>4. dropped' \in BOOLEAN /\ inorder' \in BOOLEAN
    BY <2>1, DropsType
  <2>5. QED
    BY <2>1, <2>2, <2>3, <2>4
<1>9. ASSUME NEW start \in Sizes, NEW n \in 1 .. MaxSize, ReadFile(start, n)
      PROVE  TypeOK'
  <2>1. PICK o \in Read(ent, start, n) : ent' = o.ent /\ dropped' = Drops(o.ent)
    BY <1>9 DEF ReadFile
  <2>2. start \in Nat /\ n \in Nat
    BY <1>0
  <2>3. EntityOK(o.ent)
    BY <2>2, ReadType
  <2>4. dropped' \in BOOLEAN
    BY <2>1, DropsType
  <2>5. QED
    BY <1>9, <2>1, <2>3, <2>4 DEF ReadFile
<1>10. ASSUME NEW start \in Sizes, NEW n \in 1 .. MaxSize, NEW b \in Byte,
              WriteFile(start, n, b)
       PROVE  TypeOK'
  <2>1. PICK o \in Write(ent, start, n, b) :
       /\ ent' = o.ent
       /\ want' = IF o.ok THEN Overlay(want, start, n, b) ELSE want
       /\ regrown' = IF o.ok THEN Regrow(ent, Larger(ent.size, start + n))
                                    \ Extent(start, start + n)
                     ELSE regrown
       /\ lastflush' = IF o.ok THEN "due" ELSE lastflush
       /\ dropped' = Drops(o.ent)
       /\ inorder' = (inorder /\ o.ok /\ start = ent.size)
    BY <1>10 DEF WriteFile
  <2>2. /\ start \in Nat /\ n \in Nat /\ start + n <= MaxSize /\ start + n <= Cap
        /\ ent.upload => ent.mp_start + ent.mp_size + n <= Cap
    BY <1>0, <1>10, SizesAssumption DEF WriteFile
  <2>3. EntityOK(o.ent)
    BY <2>2, WriteType
  <2>4. Overlay(want, start, n, b) \in File
    BY <2>2, OverlayType
  <2>5. Larger(ent.size, start + n) \in Sizes
    BY <2>2, EntityParts, SizesAssumption DEF Larger, Sizes
  <2>6. Regrow(ent, Larger(ent.size, start + n)) \subseteq Extent(0, MaxSize)
    BY <2>5, RegrowType
  <2>7. dropped' \in BOOLEAN /\ inorder' \in BOOLEAN
    BY <2>1, DropsType
  <2>8. lastflush' \in {"ok", "due", "failed"}
    BY <2>1
  <2>9. QED
    BY <1>10, <2>1, <2>3, <2>4, <2>6, <2>7, <2>8 DEF WriteFile
<1>11. CASE UNCHANGED vars
  BY <1>11 DEF vars
<1>12. QED
  BY <1>1, <1>2, <1>3, <1>4, <1>5, <1>6, <1>7, <1>8, <1>9, <1>10, <1>11 DEF Next

\* The types of every field of the entity hold, and no page is loaded past the
\* end of the file, on a disk with or without space and for files of any size.
THEOREM TypeCorrect == Spec => []TypeOK
BY InitTypeOK, NextTypeOK, PTL DEF Spec

-----------------------------------------------------------------------------
(***************************************************************************)
(* What Load promises.                                                     *)
(***************************************************************************)

\* What Load promises, however it ends: g is e with more of it loaded.
Follows(g, e) ==
  /\ EntityOK(g) /\ g.size = e.size /\ g.refcnt = e.refcnt
  /\ g.upload = e.upload /\ g.orgsize = e.orgsize /\ e.loaded \subseteq g.loaded
  /\ g.is_modify => e.is_modify
  /\ e.file.len = e.size =>
       /\ g.file.len = e.size
       /\ Padded(e.file) => Padded(g.file)
       /\ \A w \in File : \A cut :
            Faithful(e, w, cut, remote) => Faithful(g, w, cut, remote)

\* An entity follows itself.
LEMMA FollowsItself ==
  ASSUME NEW e, EntityOK(e)
  PROVE  Follows(e, e)
BY DEF Follows

\* Downloading any unloaded bytes that the object has, or filling the rest
\* with zeros, keeps the copy right for whatever content it was right for.
LEMMA FetchFollows ==
  ASSUME remote \in File, NEW e, EntityOK(e),
         NEW got, got \subseteq Extent(0, e.size) \ e.loaded,
         NEW g \in Fetch(e, got)
  PROVE  Follows(g, e) /\ g.loaded = e.loaded \cup got
<1> DEFINE filled  == {i \in got : e.orgsize <= i}
           written == filled \cup {i \in got : i < remote.len}
           Content(i) == IF i \in filled THEN Zero
                    ELSE IF i \in written THEN remote.at[i] ELSE e.file.at[i]
           modify == e.is_modify /\ filled = {}
<1>1. PICK n \in LengthWith(e.file, written) :
        g = [e EXCEPT !.loaded = @ \cup got,
                !.file = [len |-> n, at |-> [i \in Pos |-> Content(i)]],
                !.is_modify = @ /\ filled = {}]
  BY DEF Fetch
<1>2. /\ e \in Entity /\ e.size \in 0 .. MaxSize /\ e.orgsize \in 0 .. Cap
      /\ e.file \in File
  BY EntityParts
<1>3. EntityOK(g)
  BY <1>2, FetchType
<1> DEFINE file == [len |-> n, at |-> [i \in Pos |-> Content(i)]]
<1>4. /\ g.size = e.size /\ g.refcnt = e.refcnt /\ g.upload = e.upload
      /\ g.orgsize = e.orgsize /\ g.loaded = e.loaded \cup got /\ g.file = file
  <2> HIDE DEF filled, file
  <2>1. g = [e EXCEPT !.loaded = @ \cup got, !.file = file, !.is_modify = @ /\ filled = {}]
    BY <1>1 DEF file
  <2>2. QED
    BY <1>2, <2>1 DEF Entity
<1>5. g.is_modify => e.is_modify
  <2> HIDE DEF filled, file, modify
  <2>1. g.is_modify = modify
    BY <1>1, <1>2 DEF Entity, file, modify
  <2>2. QED
    BY <2>1 DEF modify
<1>6. ASSUME e.file.len = e.size
      PROVE  /\ g.file.len = e.size
             /\ Padded(e.file) => Padded(g.file)
             /\ \A w \in File : \A cut :
                  Faithful(e, w, cut, remote) => Faithful(g, w, cut, remote)
  <2>1. got \subseteq Extent(0, e.size) /\ written \subseteq got
    OBVIOUS
  <2>2. n = e.size
    BY <1>2, <1>6, <2>1 DEF LengthWith, Extent
  <2>3. Extent(0, e.size) \subseteq Pos
    BY <1>2, SizesAssumption DEF Extent, Pos
  <2>4. \A i \in Pos : g.file.at[i] = Content(i)
    BY <1>4
  <2>5. ASSUME Padded(e.file) PROVE Padded(g.file)
    <3> SUFFICES ASSUME NEW i \in Pos, e.size <= i PROVE Content(i) = Zero
      BY <1>4, <2>2, <2>4 DEF Padded
    <3>1. i \notin got
      BY <1>2, <2>1 DEF Extent, Pos
    <3>2. QED
      BY <1>6, <2>5, <3>1 DEF Padded
  <2>6. ASSUME NEW w \in File, NEW cut, Faithful(e, w, cut, remote)
        PROVE  Faithful(g, w, cut, remote)
    <3>1. g.size = w.len /\ g.file.len = g.size
      BY <1>4, <2>2, <2>6 DEF Faithful
    <3>2. ASSUME NEW i \in Extent(0, g.size) \ cut
          PROVE  IF i \in g.loaded THEN g.file.at[i] = w.at[i]
                 ELSE IF i < g.orgsize THEN i < remote.len /\ remote.at[i] = w.at[i]
                 ELSE w.at[i] = Zero
      <4>1. i \in Pos /\ i \in Extent(0, e.size) \ cut /\ i \in Int
        BY <1>4, <2>3 DEF Pos
      <4>2. IF i \in e.loaded THEN e.file.at[i] = w.at[i]
            ELSE IF i < e.orgsize THEN i < remote.len /\ remote.at[i] = w.at[i]
            ELSE w.at[i] = Zero
        BY <2>6, <4>1 DEF Faithful
      <4>3. CASE i \in got
        <5>1. i \notin e.loaded
          BY <4>3
        <5>2. CASE i < e.orgsize
          BY <1>2, <1>4, <2>4, <4>1, <4>2, <4>3, <5>1, <5>2
        <5>3. CASE e.orgsize <= i
          BY <1>2, <1>4, <2>4, <4>1, <4>2, <4>3, <5>1, <5>3
        <5>4. QED
          BY <1>2, <4>1, <5>2, <5>3
      <4>4. CASE i \notin got
        BY <1>4, <2>4, <4>1, <4>2, <4>4
      <4>5. QED
        BY <4>3, <4>4
    <3>3. QED
      BY <3>1, <3>2 DEF Faithful
  <2>7. QED
    BY <1>4, <2>2, <2>5, <2>6
<1>7. QED
  BY <1>3, <1>4, <1>5, <1>6 DEF Follows

\* So does Load, wherever it stops.
LEMMA LoadFollows ==
  ASSUME remote \in File, NEW e, EntityOK(e), NEW start \in Nat, NEW n \in Nat,
         NEW o \in Load(e, start, n)
  PROVE  /\ Follows(o.ent, e) /\ e.loaded \subseteq o.ent.loaded
         /\ o.ok => Unloaded(e, start, n) \subseteq o.ent.loaded
<1>1. PICK got \in SUBSET Unloaded(e, start, n) :
        \E g \in Fetch(e, got) :
           \/ o = Done(g) /\ got = Unloaded(e, start, n)
           \/ o = Failed(g)
  BY LoadOutcome
<1>. PICK g \in Fetch(e, got) : \/ o = Done(g) /\ got = Unloaded(e, start, n)
                                \/ o = Failed(g)
  BY <1>1
<1>2. got \subseteq Extent(0, e.size) \ e.loaded
  BY <1>1, UnloadedInside
<1>3. Follows(g, e) /\ g.loaded = e.loaded \cup got
  BY <1>2, FetchFollows
<1>4. QED
  BY <1>3, Outcomes

-----------------------------------------------------------------------------
(***************************************************************************)
(* The methods with space on the disk.                                     *)
(***************************************************************************)

\* The copy is right for w, its file is zero past its end, and no upload runs.
Right(e, w, cut, obj) ==
  EntityOK(e) /\ Faithful(e, w, cut, obj) /\ Padded(e.file) /\ ~e.upload

\* What follows a right entity is right.
LEMMA FollowsRight ==
  ASSUME NEW e, NEW g, Follows(g, e), NEW w \in File, NEW cut,
         Right(e, w, cut, remote)
  PROVE  Right(g, w, cut, remote)
BY DEF Follows, Right, Faithful

\* Read only loads.
LEMMA ReadFollows ==
  ASSUME SafeDisk = {TRUE}, remote \in File, NEW e, EntityOK(e),
         NEW start \in Nat, NEW n \in Nat, NEW o \in Read(e, start, n)
  PROVE  Follows(o.ent, e)
<1>1. CASE o = Done(e)
  BY <1>1, FollowsItself, Outcomes
<1>2. CASE o \in Load(e, start, LoadSize(e, start, n))
  BY <1>2, LoadFollows, LoadSizeType
<1>3. QED
  BY <1>1, <1>2 DEF Read

\* With space, what Write does before its pwrite only loads.
LEMMA BeforeWriteFollows ==
  ASSUME SafeDisk = {TRUE}, remote \in File, NEW e, EntityOK(e), ~e.upload,
         NEW start \in Nat, NEW o \in BeforeWrite(e, start)
  PROVE  Follows(o.ent, e)
<1>1. o = Done(e) \/ o \in Load(e, 0, start)
  BY DEF BeforeWrite
<1>2. QED
  BY <1>1, FollowsItself, LoadFollows, Outcomes

\* Length and contents of a cut file.
LEMMA CutParts ==
  ASSUME NEW f \in File, NEW n \in 0 .. Cap
  PROVE  /\ Cut(f, n).len = n /\ Padded(Cut(f, n))
         /\ \A i \in Pos : Cut(f, n).at[i] =
              IF i < n /\ i < f.len THEN f.at[i] ELSE Zero
BY SizesAssumption DEF Cut, Padded, File, Pos

\* Length and contents of a written file.
LEMMA OverlayParts ==
  ASSUME NEW f \in File, NEW start \in Nat, NEW n \in Nat, NEW b
  PROVE  /\ Overlay(f, start, n, b).len = Larger(f.len, start + n)
         /\ \A i \in Pos : Overlay(f, start, n, b).at[i] =
              IF i \in Extent(start, start + n) THEN b ELSE f.at[i]
         /\ Padded(f) => Padded(Overlay(f, start, n, b))
<1>1. /\ Overlay(f, start, n, b).len = Larger(f.len, start + n)
      /\ \A i \in Pos : Overlay(f, start, n, b).at[i] =
              IF i \in Extent(start, start + n) THEN b ELSE f.at[i]
  BY DEF Overlay
<1>2. ASSUME Padded(f), NEW i \in Pos, Larger(f.len, start + n) <= i
      PROVE  i \notin Extent(start, start + n) /\ f.len <= i
  BY <1>2, SizesAssumption DEF Larger, Extent, Pos, File
<1>3. QED
  BY <1>1, <1>2 DEF Padded

\* The history of Regrow, for any entity and any set of excepted positions.
RegrowOf(e, cut, n) ==
  (cut \cap Extent(0, n)) \cup {i \in Extent(e.size, n) : i < e.orgsize}

\* Ftruncate gives a copy that is right for the cut content, except where
\* cut-off bytes come back.
LEMMA FtruncateRight ==
  ASSUME NEW e, NEW w \in File, NEW cut, Right(e, w, cut, remote),
         NEW n \in Sizes, NEW o \in Ftruncate(e, n)
  PROVE  \/ o.ent = e /\ (o.ok => n = e.size)
         \/ /\ o.ok /\ n # e.size /\ o.ent.is_modify
            /\ Right(o.ent, Cut(w, n), RegrowOf(e, cut, n), remote)
<1> DEFINE q == [e EXCEPT !.file = Cut(@, n), !.size = n, !.is_modify = TRUE,
                          !.loaded = @ \cap Extent(0, n)]
<1>1. /\ e \in Entity /\ e.file \in File /\ e.size \in 0 .. MaxSize
      /\ e.loaded \subseteq Extent(0, e.size) /\ e.orgsize \in 0 .. Cap
      /\ n \in 0 .. Cap /\ n \in 0 .. MaxSize
  BY EntityParts, SizesAssumption DEF Right, Sizes
<1>2. /\ q.file = Cut(e.file, n) /\ q.size = n /\ q.is_modify /\ q.orgsize = e.orgsize
      /\ q.loaded = e.loaded \cap Extent(0, n) /\ q.upload = e.upload
  BY <1>1 DEF Entity
<1>3. CASE (o = Done(e) /\ n = e.size) \/ o = Failed(e)
  BY <1>3, Outcomes
<1>4. CASE o = Done(q) /\ n # e.size
  <2>1. o.ent = q /\ o.ok
    BY <1>4, Outcomes
  <2>2. EntityOK(q)
    BY <1>4, <2>1, FtruncateType DEF Right
  <2> HIDE DEF q
  <2>3. Padded(q.file) /\ q.file.len = n /\ Cut(w, n).len = n
    BY <1>1, <1>2, CutParts
  <2>4. ASSUME NEW i \in Extent(0, n) \ RegrowOf(e, cut, n)
        PROVE  IF i \in q.loaded THEN q.file.at[i] = Cut(w, n).at[i]
               ELSE IF i < q.orgsize
                 THEN i < remote.len /\ remote.at[i] = Cut(w, n).at[i]
               ELSE Cut(w, n).at[i] = Zero
    <3>1. i \in Pos /\ i \in Int /\ 0 <= i /\ i < n
      BY <1>1, SizesAssumption DEF Extent, Pos
    <3>2. q.file.at[i] = IF i < n /\ i < e.file.len THEN e.file.at[i] ELSE Zero
      BY <1>1, <1>2, <3>1, CutParts
    <3>3. Cut(w, n).at[i] = IF i < n /\ i < w.len THEN w.at[i] ELSE Zero
      BY <1>1, <3>1, CutParts
    <3>4. e.size = w.len /\ e.file.len = e.size
      BY DEF Right, Faithful
    <3>5. CASE i < e.size
      <4>1. i \in Extent(0, e.size) \ cut
        BY <1>1, <3>1, <3>5 DEF RegrowOf, Extent
      <4>2. IF i \in e.loaded THEN e.file.at[i] = w.at[i]
            ELSE IF i < e.orgsize THEN i < remote.len /\ remote.at[i] = w.at[i]
            ELSE w.at[i] = Zero
        BY <4>1 DEF Right, Faithful
      <4>3. i \in q.loaded <=> i \in e.loaded
        BY <1>2
      <4>4. QED
        BY <1>2, <3>1, <3>2, <3>3, <3>4, <3>5, <4>2, <4>3
    <3>6. CASE e.size <= i
      <4>1. ~(i < e.orgsize)
        BY <1>1, <3>1, <3>6 DEF RegrowOf, Extent
      <4>2. i \notin q.loaded
        BY <1>1, <1>2, <3>1, <3>6 DEF Extent
      <4>3. Cut(w, n).at[i] = Zero
        BY <1>1, <3>1, <3>3, <3>4, <3>6
      <4>4. QED
        BY <1>2, <4>1, <4>2, <4>3
    <3>7. QED
      BY <1>1, <3>1, <3>5, <3>6
  <2>5. Faithful(q, Cut(w, n), RegrowOf(e, cut, n), remote)
    BY <1>2, <2>3, <2>4 DEF Faithful
  <2>6. QED
    BY <1>2, <1>4, <2>1, <2>2, <2>3, <2>5 DEF Right
<1>5. QED
  BY <1>3, <1>4 DEF Ftruncate

\* The write gives a copy that is right for the written content.
LEMMA PwriteRight ==
  ASSUME NEW e, NEW w \in File, Padded(w), NEW cut, Right(e, w, cut, remote),
         NEW start \in Nat, NEW n \in Nat, start + n <= MaxSize, NEW b \in Byte
  PROVE  LET p == Pwrite(e, start, n, b)
             grown == RegrowOf(e, cut, Larger(e.size, start + n))
                        \ Extent(start, start + n)
         IN Right(p, Overlay(w, start, n, b), grown, remote) /\ p.is_modify
<1> DEFINE p == Pwrite(e, start, n, b)
           size == Larger(e.size, start + n)
           grown == RegrowOf(e, cut, size) \ Extent(start, start + n)
<1>1. /\ e \in Entity /\ e.file \in File /\ e.size \in 0 .. MaxSize
      /\ e.loaded \subseteq Extent(0, e.size) /\ e.orgsize \in 0 .. Cap
  BY EntityParts DEF Right
<1>2. EntityOK(e) /\ Padded(e.file) /\ ~e.upload /\ e.size = w.len /\ e.file.len = e.size
  BY DEF Right, Faithful
<1>3. EntityOK(p) /\ p.upload = e.upload /\ p.size = size
  BY <1>2, PwriteType
<1>4. /\ p.file = Overlay(e.file, start, n, b) /\ p.is_modify /\ p.orgsize = e.orgsize
      /\ p.loaded = e.loaded \cup Extent(start, start + n)
  BY <1>1 DEF Pwrite, Entity
<1> HIDE DEF p
<1>5. Padded(p.file) /\ p.file.len = size /\ Overlay(w, start, n, b).len = size
  BY <1>1, <1>2, <1>4, OverlayParts
<1>6. ASSUME NEW i \in Extent(0, size) \ grown
      PROVE  IF i \in p.loaded THEN p.file.at[i] = Overlay(w, start, n, b).at[i]
             ELSE IF i < p.orgsize
               THEN i < remote.len /\ remote.at[i] = Overlay(w, start, n, b).at[i]
             ELSE Overlay(w, start, n, b).at[i] = Zero
  <2>1. i \in Pos /\ i \in Int /\ 0 <= i /\ i < size
    BY <1>1, SizesAssumption DEF Extent, Pos, Larger
  <2>2. p.file.at[i] = IF i \in Extent(start, start + n) THEN b ELSE e.file.at[i]
    BY <1>1, <1>4, <2>1, OverlayParts
  <2>3. Overlay(w, start, n, b).at[i] =
          IF i \in Extent(start, start + n) THEN b ELSE w.at[i]
    BY <2>1 DEF Overlay
  <2>4. CASE i \in Extent(start, start + n)
    BY <1>4, <2>2, <2>3, <2>4
  <2>5. CASE i \notin Extent(start, start + n) /\ i < e.size
    <3>1. i \in Extent(0, e.size) \ cut
      BY <1>1, <2>1, <2>5 DEF RegrowOf, Extent
    <3>2. IF i \in e.loaded THEN e.file.at[i] = w.at[i]
          ELSE IF i < e.orgsize THEN i < remote.len /\ remote.at[i] = w.at[i]
          ELSE w.at[i] = Zero
      BY <3>1 DEF Right, Faithful
    <3>3. QED
      BY <1>4, <2>2, <2>3, <2>5, <3>2
  <2>6. CASE i \notin Extent(start, start + n) /\ e.size <= i
    <3>1. ~(i < e.orgsize)
      BY <1>1, <2>1, <2>6 DEF RegrowOf, Extent
    <3>2. i \notin p.loaded
      BY <1>1, <1>4, <2>1, <2>6 DEF Extent
    <3>3. w.at[i] = Zero
      BY <1>2, <2>1, <2>6 DEF Padded
    <3>4. QED
      BY <1>4, <2>3, <2>6, <3>1, <3>2, <3>3
  <2>7. QED
    BY <1>1, <2>1, <2>4, <2>5, <2>6
<1>7. Faithful(p, Overlay(w, start, n, b), grown, remote)
  <2> HIDE DEF grown, size
  <2>1. QED
    BY <1>3, <1>5, <1>6 DEF Faithful
<1>8. QED
  BY <1>2, <1>3, <1>4, <1>5, <1>7 DEF Right, p

\* With space, Write gives a right copy of the old content when it fails and
\* of the new one when it succeeds.
LEMMA WriteRight ==
  ASSUME SafeDisk = {TRUE}, remote \in File, NEW e, NEW w \in File, Padded(w),
         NEW cut, Right(e, w, cut, remote),
         NEW start \in Nat, NEW n \in Nat, start + n <= MaxSize, NEW b \in Byte,
         NEW o \in Write(e, start, n, b)
  PROVE  \/ ~o.ok /\ Follows(o.ent, e)
         \/ /\ o.ok /\ o.ent.is_modify
            /\ Right(o.ent, Overlay(w, start, n, b),
                     RegrowOf(e, cut, Larger(e.size, start + n))
                       \ Extent(start, start + n), remote)
<1>1. PICK p \in BeforeWrite(e, start) :
        IF p.ok THEN \/ o = Failed(p.ent)
                     \/ o \in AfterWrite(Pwrite(p.ent, start, n, b), start, n)
                ELSE o = p
  BY DEF Write
<1>2. EntityOK(e) /\ ~e.upload
  BY DEF Right
<1>3. Follows(p.ent, e)
  BY <1>2, BeforeWriteFollows
<1>4. Right(p.ent, w, cut, remote)
  BY <1>3, FollowsRight
<1>5. CASE ~p.ok \/ o = Failed(p.ent)
  BY <1>1, <1>3, <1>5, Outcomes
<1>6. CASE p.ok /\ o \in AfterWrite(Pwrite(p.ent, start, n, b), start, n)
  <2> DEFINE q == Pwrite(p.ent, start, n, b)
             grown == RegrowOf(p.ent, cut, Larger(p.ent.size, start + n))
                        \ Extent(start, start + n)
  <2>1. Right(q, Overlay(w, start, n, b), grown, remote) /\ q.is_modify
    BY <1>4, PwriteRight
  <2>2. grown = RegrowOf(e, cut, Larger(e.size, start + n)) \ Extent(start, start + n)
    BY <1>3 DEF Follows, RegrowOf
  <2> HIDE DEF q, grown
  <2>3. ~q.upload
    BY <2>1 DEF Right
  <2>4. o = Done(q)
    BY <1>6, <2>3 DEF AfterWrite, q
  <2>5. QED
    BY <2>1, <2>2, <2>4, Outcomes
<1>7. QED
  BY <1>1, <1>5, <1>6

Clean(g) == [g EXCEPT !.is_modify = FALSE]

\* With space, a flush leaves the object as it was or as the complete local
\* file, and the latter whenever it had to upload and returned 0.
LEMMA RowFlushOutcome ==
  ASSUME SafeDisk = {TRUE}, remote \in File, NEW e, EntityOK(e), ~e.upload,
         NEW force \in BOOLEAN, NEW r \in RowFlush(e, force)
  PROVE  \/ ~force /\ ~e.is_modify /\ r.ent = e /\ r.object = remote /\ r.ok
         \/ \E g : /\ Follows(g, e) /\ ~r.ok /\ r.ent = g /\ r.object = remote
                   /\ force \/ e.is_modify
         \/ \E g : /\ Follows(g, e) /\ Extent(0, e.size) \subseteq g.loaded
                   /\ force \/ e.is_modify
                   /\ r.object = g.file
                   /\ \/ ~r.ok /\ r.ent = g
                      \/ r.ok /\ r.ent = Clean(g)
<1>1. CASE ~force /\ ~e.is_modify /\ r = Flushed(e, remote, TRUE)
  BY <1>1 DEF Flushed
<1>2. CASE force \/ e.is_modify
  <2>1. PICK o \in BeforeUpload(e) :
          IF ~o.ok THEN r = Flushed(o.ent, remote, FALSE)
          ELSE IF o.ent.upload THEN r \in FinishUpload(o.ent)
          ELSE r \in PutWhole(o.ent)
    BY <1>2 DEF RowFlush
  <2>2. /\ Follows(o.ent, e)
        /\ o.ok => Extent(0, e.size) \subseteq o.ent.loaded
    <3>1. Unloaded(e, 0, 0) = Extent(0, e.size) \ e.loaded
      <4>1. e.size \in 0 .. MaxSize
        BY EntityParts
      <4>2. QED
        BY <4>1, SizesAssumption DEF Unloaded, Extent
    <3>2. CASE Unloaded(e, 0, 0) = {} /\ o = Done(e)
      BY <3>1, <3>2, FollowsItself, Outcomes
    <3>3. CASE o \in Load(e, 0, 0)
      BY <3>1, <3>3, LoadFollows
    <3>4. QED
      BY <3>2, <3>3 DEF BeforeUpload
  <2>3. CASE ~o.ok
    BY <1>2, <2>1, <2>2, <2>3 DEF Flushed
  <2>4. CASE o.ok
    <3>1. r \in PutWhole(o.ent)
      BY <2>1, <2>2, <2>4 DEF Follows
    <3>2. \/ r = Flushed([o.ent EXCEPT !.is_modify = FALSE], o.ent.file, TRUE)
          \/ r = Flushed(o.ent, o.ent.file, FALSE)
          \/ r = Flushed(o.ent, remote, FALSE)
      BY <3>1 DEF PutWhole
    <3> DEFINE g == o.ent
               clean == [g EXCEPT !.is_modify = FALSE]
    <3> HIDE DEF clean
    <3>a. \/ r = [ent |-> clean, object |-> g.file, ok |-> TRUE]
          \/ r = [ent |-> g, object |-> g.file, ok |-> FALSE]
          \/ r = [ent |-> g, object |-> remote, ok |-> FALSE]
      BY <3>2 DEF Flushed, clean
    <3> HIDE DEF g
    <3>b. \/ r.object = remote /\ ~r.ok /\ r.ent = g
          \/ r.object = g.file /\ ~r.ok /\ r.ent = g
          \/ r.object = g.file /\ r.ok /\ r.ent = clean
      BY <3>a
    <3>3. \/ r.object = remote /\ ~r.ok /\ r.ent = g
          \/ r.object = g.file /\ ~r.ok /\ r.ent = g
          \/ r.object = g.file /\ r.ok /\ r.ent = Clean(g)
      BY <3>b DEF clean, Clean
    <3>4. Follows(g, e) /\ Extent(0, e.size) \subseteq g.loaded
      BY <2>2, <2>4 DEF g
    <3>5. QED
      BY <1>2, <3>3, <3>4
  <2>5. QED
    BY <2>3, <2>4
<1>3. QED
  BY <1>1, <1>2 DEF RowFlush

\* A forced flush that returns 0 has put the expected content in the object.
LEMMA ForcedFlush ==
  ASSUME SafeDisk = {TRUE}, remote \in File, NEW e, EntityOK(e), ~e.upload,
         NEW r \in RowFlush(e, TRUE)
  PROVE  \/ ~r.ok /\ r.object = remote
         \/ \E g : /\ Follows(g, e) /\ r.object = g.file
                   /\ r.ok => r.ent = Clean(g)
<1>1. CASE \E g : /\ Follows(g, e) /\ ~r.ok /\ r.ent = g /\ r.object = remote
  BY <1>1
<1>2. CASE \E g : /\ Follows(g, e) /\ r.object = g.file
                 /\ \/ ~r.ok /\ r.ent = g
                    \/ r.ok /\ r.ent = Clean(g)
  BY <1>2
<1>3. QED
  <2>1. PICK force \in BOOLEAN : force /\ r \in RowFlush(e, force)
    <3>1. TRUE \in BOOLEAN /\ TRUE
      OBVIOUS
    <3>2. QED
      BY <3>1
  <2>2. \/ \E g : /\ Follows(g, e) /\ ~r.ok /\ r.ent = g /\ r.object = remote
        \/ \E g : /\ Follows(g, e) /\ r.object = g.file
                  /\ \/ ~r.ok /\ r.ent = g
                     \/ r.ok /\ r.ent = Clean(g)
    BY <2>1, RowFlushOutcome
  <2>3. QED
    BY <2>2, <1>1, <1>2

-----------------------------------------------------------------------------
(***************************************************************************)
(* The inductive invariant.                                                *)
(***************************************************************************)
Inv == TypeOK /\ Inductive

\* What the invariant says of an open entity.
LEMMA OpenIsRight ==
  ASSUME Inv, IsOpen
  PROVE  /\ Right(ent, want, regrown, remote)
         /\ ~ent.is_modify /\ ~dropped => SameButRegrown(remote, want)
         /\ lastflush = "ok" => ~ent.is_modify
BY DEF Inv, TypeOK, Inductive, CopyIsWanted, Right

\* What an action must show of the next state when the file is open in it.
LEMMA RightIsInductive ==
  ASSUME Padded(remote)', Padded(want)', Right(ent, want, regrown, remote)',
         (~ent.is_modify /\ ~dropped => SameButRegrown(remote, want))',
         (lastflush = "ok" => ~ent.is_modify)'
  PROVE  Inductive'
BY DEF Inductive, CopyIsWanted, Right

\* A closed file has nothing to show.
LEMMA ClosedIsInductive ==
  ASSUME Padded(remote)', Padded(want)', ent' = Closed
  PROVE  Inductive'
<1>1. ent'.refcnt = 0 /\ ent'.file = Empty
  BY DEF Closed
<1>2. ~IsOpen' /\ Padded(ent'.file)
  BY <1>1 DEF IsOpen, Padded, Empty
<1>3. QED
  BY <1>2 DEF Inductive, CopyIsWanted, Padded

\* The fields of a newly opened entity.
LEMMA OpenedParts ==
  ASSUME remote \in File, NEW n \in Sizes
  PROVE  /\ EntityOK(Opened(n)) /\ Padded(Opened(n).file) /\ Opened(n).file.len = n
         /\ Opened(n).size = n /\ Opened(n).orgsize = remote.len
         /\ Opened(n).loaded = {} /\ ~Opened(n).upload /\ ~Opened(n).is_modify
         /\ Opened(n).refcnt = 1
<1>1. n \in 0 .. Cap
  BY SizesAssumption DEF Sizes
<1>2. Opened(n).file = Cut(Empty, n)
  BY DEF Opened
<1>3. QED
  BY <1>1, <1>2, OpenedType, EmptyType, CutParts DEF Opened

\* A step that keeps want and the object and only loads more.
LEMMA LoadingStep ==
  ASSUME Inv, IsOpen, Follows(ent', ent), dropped' = Drops(ent'),
         UNCHANGED <<remote, want, lastflush, regrown>>
  PROVE  Inductive'
<1>1. want \in File /\ Padded(remote) /\ Padded(want)
  BY DEF Inv, TypeOK, Inductive
<1>2. Right(ent', want, regrown, remote)
  BY <1>1, OpenIsRight, FollowsRight
<1>3. ~ent'.is_modify /\ ~dropped' => SameButRegrown(remote, want)
  BY OpenIsRight DEF Drops
<1>4. lastflush = "ok" => ~ent'.is_modify
  BY OpenIsRight DEF Follows
<1>5. QED
  BY <1>1, <1>2, <1>3, <1>4, RightIsInductive DEF Padded, Right, Faithful, SameButRegrown, EntityOK

\* The initial states satisfy the invariant.
LEMMA InitInductive == Init => Inductive
<1> SUFFICES ASSUME Init PROVE Inductive
  OBVIOUS
<1>1. PICK n \in Sizes : remote = [len |-> n,
        at |-> [i \in Pos |-> IF i < n THEN Initial ELSE Zero]]
  BY DEF Init
<1>2. Padded(remote)
  BY <1>1, SizesAssumption DEF Padded, Sizes, Pos
<1>3. ent.refcnt = 0 /\ ent.file = Empty /\ want = remote
  BY DEF Init, Closed
<1>4. Padded(ent.file)
  BY <1>3 DEF Padded, Empty
<1>5. QED
  BY <1>2, <1>3, <1>4 DEF Inductive, CopyIsWanted, IsOpen

\* Opening a closed file.
LEMMA OpenStep == Inv /\ Open => Inductive'
<1> SUFFICES ASSUME Inv, Open PROVE Inductive'
  OBVIOUS
<1> DEFINE e == Opened(remote.len)
<1>1. remote \in File /\ Padded(remote) /\ remote.len \in Sizes
  BY SizesAssumption DEF Inv, TypeOK, Inductive, Open, File, Sizes
<1>2. /\ EntityOK(e) /\ Padded(e.file) /\ e.file.len = remote.len
      /\ e.size = remote.len /\ e.orgsize = remote.len /\ e.loaded = {}
      /\ ~e.upload /\ ~e.is_modify
  BY <1>1, OpenedParts
<1> HIDE DEF e
<1>3. ent' = e /\ want' = remote /\ remote' = remote /\ regrown' = {}
  BY DEF Open, Opens, e
<1>4. Faithful(e, remote, {}, remote)
  <2>1. ASSUME NEW i \in Extent(0, e.size) PROVE i < remote.len
    BY <1>1, <1>2, <2>1 DEF Extent, Sizes
  <2>2. QED
    BY <1>2, <2>1 DEF Faithful
<1>5. Right(ent, want, regrown, remote)'
  BY <1>2, <1>3, <1>4 DEF Right, Faithful, Padded, EntityOK
<1>6. SameButRegrown(remote, want)'
  BY <1>3 DEF SameButRegrown
<1>7. (Padded(remote) /\ Padded(want))' /\ ~ent'.is_modify
  BY <1>1, <1>2, <1>3 DEF Padded
<1>8. QED
  BY <1>5, <1>6, <1>7, RightIsInductive

\* Opening it with O_TRUNC.
LEMMA OpenTruncatedStep == SafeDisk = {TRUE} /\ Inv /\ OpenTruncated => Inductive'
<1> SUFFICES ASSUME SafeDisk = {TRUE}, Inv, OpenTruncated PROVE Inductive'
  OBVIOUS
<1> DEFINE e == Opened(0)
<1>1. remote \in File /\ Padded(remote) /\ 0 \in Sizes
  BY SizesAssumption DEF Inv, TypeOK, Inductive, Sizes
<1>2. /\ EntityOK(e) /\ Padded(e.file) /\ e.file.len = 0 /\ e.size = 0
      /\ ~e.upload /\ ~e.is_modify
  BY <1>1, OpenedParts
<1> HIDE DEF e
<1>3. PICK r \in RowFlush(e, TRUE) :
        /\ Opens(IF r.ok THEN r.ent ELSE Closed)
        /\ remote' = r.object
        /\ want' = IF r.ok THEN Cut(Empty, 0) ELSE r.object
        /\ lastflush' = "ok"
  BY DEF OpenTruncated, e
<1>4. \/ ~r.ok /\ r.object = remote
      \/ \E g : /\ Follows(g, e) /\ r.object = g.file
                /\ r.ok => r.ent = Clean(g)
  BY <1>1, <1>2, <1>3, ForcedFlush
<1>5. CASE ~r.ok
  <2>1. Padded(r.object)
    BY <1>1, <1>2, <1>4 DEF Follows
  <2>2. Padded(remote)' /\ Padded(want)' /\ ent' = Closed
    BY <1>3, <1>5, <2>1 DEF Opens, Padded
  <2>3. QED
    BY <2>2, ClosedIsInductive
<1>6. CASE r.ok
  <2>1. PICK g : /\ Follows(g, e) /\ r.object = g.file
                 /\ r.ent = Clean(g)
    BY <1>4, <1>6
  <2> DEFINE f == g.file
             q == Clean(g)
             zero == Cut(Empty, 0)
  <2>2. g \in Entity /\ EntityOK(g) /\ f \in File /\ Padded(f) /\ f.len = 0 /\ g.size = 0
        /\ ~g.upload /\ g.loaded \subseteq Extent(0, 0)
    BY <1>2, <2>1, EntityParts DEF Follows
  <2>3. q \in Entity /\ q.size = 0 /\ q.file = f /\ ~q.upload /\ ~q.is_modify
        /\ q.loaded = g.loaded
    BY <2>2 DEF Entity, Clean
  <2> HIDE DEF q
  <2>4. ent' = q /\ remote' = f /\ want' = zero /\ regrown' = {}
    BY <1>3, <1>6, <2>1 DEF Opens, q
  <2>5. zero \in File /\ zero.len = 0 /\ Padded(zero)
    BY <1>1, EmptyType, CutType, CutParts, SizesAssumption
  <2> HIDE DEF f, zero
  <2>6. Extent(0, 0) = {}
    BY DEF Extent
  <2>7. Right(ent, want, regrown, remote)'
    <3>1. EntityOK(q)
      BY <2>2, <2>3 DEF EntityOK
    <3>2. Faithful(q, zero, {}, f)
      BY <2>2, <2>3, <2>5, <2>6 DEF Faithful
    <3>3. Right(q, zero, {}, f)
      BY <2>2, <2>3, <3>1, <3>2 DEF Right
    <3>4. QED
      BY <2>4, <3>3 DEF Right, Faithful, Padded, EntityOK
  <2>8. SameButRegrown(remote, want)'
    <3>1. \A i \in Pos : f.at[i] = Zero /\ zero.at[i] = Zero
      BY <2>2, <2>5, SizesAssumption DEF Padded, Pos
    <3>2. QED
      BY <2>2, <2>4, <2>5, <3>1 DEF SameButRegrown
  <2>9. (Padded(remote) /\ Padded(want))' /\ ~ent'.is_modify
    BY <2>2, <2>3, <2>4, <2>5 DEF Padded
  <2>10. QED
    BY <2>7, <2>8, <2>9, RightIsInductive
<1>7. QED
  BY <1>5, <1>6

\* Truncating a closed file.
LEMMA TruncateClosedStep ==
  ASSUME SafeDisk = {TRUE}, Inv, NEW n \in Sizes, TruncateClosed(n)
  PROVE  Inductive'
<1> DEFINE e == Opened(n)
<1>1. remote \in File /\ Padded(remote) /\ n \in Nat /\ n \in 0 .. Cap
  BY SizesAssumption DEF Inv, TypeOK, Inductive, Sizes
<1>2. EntityOK(e) /\ Padded(e.file) /\ e.file.len = e.size /\ ~e.upload
  BY <1>1, OpenedParts
<1> HIDE DEF e
<1>3. PICK o \in Load(e, 0, n) :
        \E r \in IF o.ok THEN RowFlush(o.ent, TRUE)
                 ELSE {Flushed(o.ent, remote, FALSE)} :
          /\ remote' = r.object
          /\ want' = IF r.ok THEN Cut(remote, n) ELSE r.object
  BY DEF TruncateClosed, e
<1>4. PICK r \in IF o.ok THEN RowFlush(o.ent, TRUE)
                 ELSE {Flushed(o.ent, remote, FALSE)} :
          /\ remote' = r.object
          /\ want' = IF r.ok THEN Cut(remote, n) ELSE r.object
  BY <1>3
<1>5. Follows(o.ent, e)
  BY <1>1, <1>2, LoadFollows
<1>6. /\ EntityOK(o.ent) /\ Padded(o.ent.file) /\ o.ent.file.len = o.ent.size
      /\ ~o.ent.upload
  BY <1>2, <1>5 DEF Follows
<1>7. Padded(r.object)
  <2>1. CASE r = Flushed(o.ent, remote, FALSE)
    BY <1>1, <2>1 DEF Flushed
  <2>2. CASE r \in RowFlush(o.ent, TRUE)
    <3>1. r.object = remote \/ \E g : Follows(g, o.ent) /\ r.object = g.file
      BY <1>1, <1>6, <2>2, ForcedFlush
    <3>2. QED
      BY <1>1, <1>6, <3>1 DEF Follows
  <2>3. QED
    BY <1>4, <2>1, <2>2
<1>8. Padded(Cut(remote, n))
  BY <1>1, CutParts
<1>9. Padded(remote)' /\ Padded(want)'
  BY <1>4, <1>7, <1>8 DEF Padded
<1>10. ent'= ent /\ ~IsOpen /\ Padded(ent.file)
  BY DEF TruncateClosed, Inv, Inductive
<1>11. QED
  BY <1>9, <1>10 DEF Inductive, CopyIsWanted, IsOpen, Padded

\* flush and fsync.
LEMMA FlushStep == SafeDisk = {TRUE} /\ Inv /\ FlushFile => Inductive'
<1> SUFFICES ASSUME SafeDisk = {TRUE}, Inv, FlushFile PROVE Inductive'
  OBVIOUS
<1>1. /\ remote \in File /\ want \in File /\ Padded(remote) /\ Padded(want) /\ IsOpen
      /\ EntityOK(ent) /\ Right(ent, want, regrown, remote)
  BY OpenIsRight DEF Inv, TypeOK, Inductive, FlushFile
<1>2. PICK r \in RowFlush(ent, FALSE) :
        /\ ent' = r.ent /\ remote' = r.object
        /\ lastflush' = IF r.ok THEN "ok" ELSE "failed"
        /\ dropped' = (~(r.ok /\ ent.is_modify) /\ Drops(r.ent))
        /\ UNCHANGED <<want, regrown>>
  BY DEF FlushFile
<1>3. CASE ~ent.is_modify /\ r.ent = ent /\ r.object = remote /\ r.ok
  <2>1. Follows(ent', ent) /\ remote' = remote /\ ~ent'.is_modify
    BY <1>1, <1>2, <1>3, FollowsItself
  <2>2. Right(ent', want, regrown, remote)
    BY <1>1, <1>2, <1>3
  <2>3. ~dropped' => SameButRegrown(remote, want)
    BY <1>1, <1>2, <1>3, OpenIsRight DEF Drops
  <2>4. QED
    BY <1>1, <1>2, <2>1, <2>2, <2>3, RightIsInductive
    DEF Padded, Right, Faithful, SameButRegrown, EntityOK
<1>4. CASE ent.is_modify /\ \E g : /\ Follows(g, ent) /\ ~r.ok /\ r.ent = g
                                   /\ r.object = remote
  <2>1. Follows(ent', ent) /\ remote' = remote /\ ~r.ok /\ lastflush' = "failed"
    BY <1>2, <1>4
  <2>2. Right(ent', want, regrown, remote)
    BY <1>1, <2>1, FollowsRight
  <2>3. ent'.is_modify \/ dropped'
    BY <1>2, <1>4, <2>1 DEF Drops
  <2>4. QED
    BY <1>1, <1>2, <2>1, <2>2, <2>3, RightIsInductive
    DEF Padded, Right, Faithful, SameButRegrown, EntityOK
<1>5. CASE ent.is_modify
           /\ \E g : /\ Follows(g, ent) /\ Extent(0, ent.size) \subseteq g.loaded
                     /\ r.object = g.file
                     /\ \/ ~r.ok /\ r.ent = g
                        \/ r.ok /\ r.ent = Clean(g)
  <2>1. PICK g : /\ Follows(g, ent) /\ Extent(0, ent.size) \subseteq g.loaded
                 /\ r.object = g.file
                 /\ \/ ~r.ok /\ r.ent = g
                    \/ r.ok /\ r.ent = Clean(g)
    BY <1>5
  <2> DEFINE f == g.file
  <2>2. Right(g, want, regrown, remote)
    BY <1>1, <2>1, FollowsRight
  <2>3. g \in Entity /\ EntityOK(g) /\ g.size = ent.size /\ f \in File /\ f.len = g.size
        /\ g.size = want.len /\ g.size \in 0 .. Cap /\ Padded(f) /\ ~g.upload
    BY <2>1, <2>2, EntityParts, SizesAssumption DEF Follows, Right, Faithful
  <2>4. \A i \in Extent(0, g.size) \ regrown : f.at[i] = want.at[i] /\ i \in g.loaded
    BY <2>1, <2>2, <2>3 DEF Right, Faithful
  <2>5. ent' \in Entity /\ ent'.file = f /\ ent'.size = g.size /\ ent'.loaded = g.loaded
        /\ ~ent'.upload /\ (r.ok => ~ent'.is_modify) /\ (~r.ok => ent' = g)
    <3>1. CASE ~r.ok
      BY <1>2, <2>1, <2>3, <3>1
    <3>2. CASE r.ok
      BY <1>2, <2>1, <2>3, <3>2 DEF Entity, Clean
    <3>3. QED
      BY <3>1, <3>2
  <2> HIDE DEF f
  <2>6. remote' = f
    BY <1>2, <2>1 DEF f
  <2>7. \A i \in Pos \ regrown : f.at[i] = want.at[i]
    <3> TAKE i \in Pos \ regrown
    <3>1. CASE i < g.size
      BY <2>3, <2>4, <3>1, SizesAssumption DEF Extent, Pos
    <3>2. CASE g.size <= i
      BY <1>1, <2>3, <3>2 DEF Padded
    <3>3. QED
      BY <2>3, <3>1, <3>2, SizesAssumption DEF Pos
  <2>8. Right(ent', want, regrown, f)
    <3>1. EntityOK(ent')
      BY <2>3, <2>5 DEF EntityOK
    <3>2. Faithful(ent', want, regrown, f)
      BY <2>3, <2>4, <2>5 DEF Faithful
    <3>3. QED
      BY <2>3, <2>5, <3>1, <3>2 DEF Right
  <2>9. Right(ent, want, regrown, remote)'
    BY <1>2, <2>6, <2>8 DEF Right, Faithful, Padded, EntityOK
  <2>10. SameButRegrown(remote, want)'
    BY <1>2, <2>3, <2>6, <2>7 DEF SameButRegrown
  <2>11. (Padded(remote) /\ Padded(want))' /\ (lastflush' = "ok" => ~ent'.is_modify)
    BY <1>1, <1>2, <2>3, <2>5, <2>6 DEF Padded
  <2>12. QED
    BY <2>9, <2>10, <2>11, RightIsInductive
<1>6. QED
  BY <1>1, <1>2, <1>3, <1>4, <1>5, RowFlushOutcome DEF Right

\* read.
LEMMA ReadStep ==
  ASSUME SafeDisk = {TRUE}, Inv, NEW start \in Sizes, NEW n \in 1 .. MaxSize,
         ReadFile(start, n)
  PROVE  Inductive'
<1>1. start \in Nat /\ n \in Nat /\ remote \in File /\ EntityOK(ent)
  BY SizesAssumption DEF Inv, TypeOK, Sizes
<1>2. Follows(ent', ent) /\ dropped' = Drops(ent')
  BY <1>1, ReadFollows DEF ReadFile
<1>3. QED
  BY <1>2, LoadingStep DEF ReadFile

\* write.
LEMMA WriteStep ==
  ASSUME SafeDisk = {TRUE}, Inv, NEW start \in Sizes, NEW n \in 1 .. MaxSize,
         NEW b \in Byte, WriteFile(start, n, b)
  PROVE  Inductive'
<1> DEFINE w == Overlay(want, start, n, b)
           cut == RegrowOf(ent, regrown, Larger(ent.size, start + n))
                    \ Extent(start, start + n)
<1>1. /\ start \in Nat /\ n \in Nat /\ remote \in File /\ want \in File
      /\ Padded(want) /\ Padded(remote) /\ start + n <= MaxSize
      /\ Right(ent, want, regrown, remote)
  BY OpenIsRight, SizesAssumption DEF Inv, TypeOK, Inductive, Sizes, WriteFile
<1>2. PICK o \in Write(ent, start, n, b) :
       /\ ent' = o.ent
       /\ want' = IF o.ok THEN w ELSE want
       /\ regrown' = IF o.ok THEN cut ELSE regrown
       /\ lastflush' = IF o.ok THEN "due" ELSE lastflush
       /\ dropped' = Drops(o.ent)
       /\ UNCHANGED remote
  BY DEF WriteFile, Regrow, RegrowOf
<1>3. Padded(w)
  BY <1>1, OverlayParts
<1> HIDE DEF w, cut
<1>4. CASE ~o.ok /\ Follows(o.ent, ent)
  BY <1>2, <1>4, LoadingStep DEF WriteFile
<1>5. CASE o.ok /\ o.ent.is_modify /\ Right(o.ent, w, cut, remote)
  <2>1. Right(ent, want, regrown, remote)'
    BY <1>2, <1>5 DEF Right, Faithful, Padded, EntityOK
  <2>2. (Padded(remote) /\ Padded(want))' /\ ent'.is_modify /\ lastflush' = "due"
    BY <1>1, <1>2, <1>3, <1>5 DEF Padded
  <2>3. QED
    BY <2>1, <2>2, RightIsInductive
<1>6. QED
  BY <1>1, <1>4, <1>5, WriteRight DEF w, cut

\* The truncation of an open file gives a right copy, with its own reference
\* taken and dropped again.
LEMMA TruncateOpenRight ==
  ASSUME remote \in File, NEW e, NEW w \in File, NEW cut,
         Right(e, w, cut, remote), NEW n \in Sizes, NEW o \in TruncateOpen(e, n)
  PROVE  \/ Follows(o.ent, e) /\ (o.ok => n = e.size)
         \/ /\ o.ok /\ n # e.size /\ o.ent.is_modify
            /\ Right(o.ent, Cut(w, n), RegrowOf(e, cut, n), remote)
<1> DEFINE held == [e EXCEPT !.refcnt = @ + 1]
<1>1. e \in Entity /\ EntityOK(e) /\ e.refcnt \in Nat /\ e.refcnt + 1 \in Nat
  BY DEF Right, EntityOK, Entity
<1>2. /\ EntityOK(held) /\ held.size = e.size /\ held.loaded = e.loaded
      /\ held.file = e.file /\ held.orgsize = e.orgsize /\ held.upload = e.upload
      /\ held.is_modify = e.is_modify
  BY <1>1, RefcntType DEF Entity
<1> HIDE DEF held
<1>3. Right(held, w, cut, remote)
  BY <1>2 DEF Right, Faithful
<1>4. PICK p \in Load(held, 0, n) :
        o \in (IF ~p.ok THEN {Failed([p.ent EXCEPT !.refcnt = e.refcnt])}
               ELSE {[r EXCEPT !.ent.refcnt = e.refcnt] : r \in Ftruncate(p.ent, n)})
  BY DEF TruncateOpen, held
<1>5. n \in Nat
  BY SizesAssumption DEF Sizes
<1>6. Follows(p.ent, held) /\ Right(p.ent, w, cut, remote)
  BY <1>2, <1>3, <1>5, LoadFollows, FollowsRight
<1>7. ASSUME NEW q, q = [p.ent EXCEPT !.refcnt = e.refcnt]
      PROVE  Follows(q, e)
  <2>1. p.ent \in Entity
    BY <1>6 DEF Right, EntityOK
  <2>2. /\ EntityOK(q) /\ q.refcnt = e.refcnt /\ q.size = p.ent.size
        /\ q.loaded = p.ent.loaded /\ q.file = p.ent.file
        /\ q.orgsize = p.ent.orgsize /\ q.upload = p.ent.upload
        /\ q.is_modify = p.ent.is_modify
    BY <1>1, <1>6, <1>7, <2>1, RefcntType DEF Entity, Right
  <2>3. \A v \in File : \A c : Faithful(e, v, c, remote) => Faithful(q, v, c, remote)
    BY <1>2, <1>6, <2>2 DEF Follows, Faithful
  <2>4. QED
    BY <1>2, <1>6, <2>2, <2>3 DEF Follows
<1>8. CASE o = Failed([p.ent EXCEPT !.refcnt = e.refcnt])
  <2> DEFINE q == [p.ent EXCEPT !.refcnt = e.refcnt]
  <2>1. Follows(q, e)
    BY <1>7
  <2> HIDE DEF q
  <2>2. QED
    BY <1>8, <2>1, Outcomes DEF q
<1>9. CASE \E r \in Ftruncate(p.ent, n) : o = [r EXCEPT !.ent.refcnt = e.refcnt]
  <2> PICK r \in Ftruncate(p.ent, n) : o = [r EXCEPT !.ent.refcnt = e.refcnt]
    BY <1>9
  <2>1. r = [ent |-> r.ent, ok |-> r.ok]
    BY DEF Ftruncate, Done, Failed
  <2>2. o.ent = [r.ent EXCEPT !.refcnt = e.refcnt] /\ o.ok = r.ok
    BY <2>1
  <2>3. CASE r.ent = p.ent /\ (r.ok => n = p.ent.size)
    BY <1>2, <1>6, <1>7, <2>2, <2>3 DEF Follows
  <2>4. CASE /\ r.ok /\ n # p.ent.size /\ r.ent.is_modify
             /\ Right(r.ent, Cut(w, n), RegrowOf(p.ent, cut, n), remote)
    <3>1. RegrowOf(p.ent, cut, n) = RegrowOf(e, cut, n) /\ p.ent.size = e.size
      BY <1>2, <1>6 DEF Follows, RegrowOf
    <3>2. r.ent \in Entity /\ EntityOK(r.ent)
      BY <2>4 DEF Right, EntityOK
    <3>3. /\ EntityOK(o.ent) /\ o.ent.size = r.ent.size /\ o.ent.loaded = r.ent.loaded
          /\ o.ent.file = r.ent.file /\ o.ent.orgsize = r.ent.orgsize
          /\ o.ent.upload = r.ent.upload /\ o.ent.is_modify = r.ent.is_modify
      BY <1>1, <2>2, <3>2, RefcntType DEF Entity
    <3>4. Right(o.ent, Cut(w, n), RegrowOf(e, cut, n), remote)
      BY <2>4, <3>1, <3>3 DEF Right, Faithful
    <3>5. QED
      BY <2>2, <2>4, <3>1, <3>3, <3>4
  <2>5. QED
    BY <1>6, <2>3, <2>4, FtruncateRight
<1>10. QED
  BY <1>4, <1>8, <1>9

\* truncate of an open file.
LEMMA TruncateStep ==
  ASSUME Inv, NEW n \in Sizes, TruncateFile(n)
  PROVE  Inductive'
<1> DEFINE w == Cut(want, n)
           cut == RegrowOf(ent, regrown, n)
<1>1. /\ remote \in File /\ want \in File /\ n \in 0 .. Cap
      /\ Padded(want) /\ Padded(remote) /\ Right(ent, want, regrown, remote)
  BY OpenIsRight, SizesAssumption DEF Inv, TypeOK, Inductive, Sizes, TruncateFile
<1>2. PICK o \in TruncateOpen(ent, n) :
        /\ ent' = o.ent /\ dropped' = Drops(o.ent)
        /\ IF o.ok /\ n # ent.size
             THEN want' = w /\ regrown' = cut /\ lastflush' = "due"
             ELSE UNCHANGED <<want, regrown, lastflush>>
        /\ UNCHANGED remote
  BY DEF TruncateFile, Regrow, RegrowOf
<1>3. Padded(w)
  BY <1>1, CutParts
<1> HIDE DEF w, cut
<1>4. CASE Follows(o.ent, ent) /\ (o.ok => n = ent.size)
  BY <1>2, <1>4, LoadingStep DEF TruncateFile
<1>5. CASE o.ok /\ n # ent.size /\ o.ent.is_modify /\ Right(o.ent, w, cut, remote)
  <2>1. Right(ent, want, regrown, remote)'
    BY <1>2, <1>5 DEF Right, Faithful, Padded, EntityOK
  <2>2. (Padded(remote) /\ Padded(want))' /\ ent'.is_modify /\ lastflush' = "due"
    BY <1>1, <1>2, <1>3, <1>5 DEF Padded
  <2>3. QED
    BY <2>1, <2>2, RightIsInductive
<1>6. QED
  BY <1>1, <1>2, <1>4, <1>5, TruncateOpenRight DEF w, cut

\* A step that touches nothing but the reference count or the pending flag.
LEMMA BookkeepingStep ==
  ASSUME Inv, IsOpen, EntityOK(ent)', ent'.size = ent.size, ent'.file = ent.file,
         ent'.loaded = ent.loaded, ent'.orgsize = ent.orgsize,
         ent'.upload = ent.upload, ent'.is_modify = ent.is_modify,
         UNCHANGED <<remote, want, lastflush, regrown, dropped>>
  PROVE  Inductive'
<1>1. Right(ent, want, regrown, remote)'
  BY OpenIsRight DEF Right, Faithful, Padded, EntityOK
<1>2. Padded(remote)' /\ Padded(want)'
  BY DEF Inv, Inductive, Padded
<1>3. QED
  BY <1>1, <1>2, OpenIsRight, RightIsInductive DEF SameButRegrown

\* Every step keeps the inductive invariant.
LEMMA NextInductive == SafeDisk = {TRUE} /\ Inv /\ [Next]_vars => Inductive'
<1> SUFFICES ASSUME SafeDisk = {TRUE}, Inv, [Next]_vars PROVE Inductive'
  OBVIOUS
<1>0. EntityOK(ent) /\ ent \in Entity /\ TypeOK'
  BY NextTypeOK DEF Inv, TypeOK, EntityOK
<1>1. CASE OpenAgain
  BY <1>0, <1>1, BookkeepingStep DEF OpenAgain, Entity, TypeOK
<1>2. CASE ChangeMetadata
  BY <1>0, <1>2, BookkeepingStep DEF ChangeMetadata, Entity, TypeOK
<1>3. CASE Release
  <2>1. CASE ent.refcnt > 1 /\ ent' = [ent EXCEPT !.refcnt = @ - 1]
             /\ UNCHANGED <<want, lastflush, regrown, dropped, inorder>>
    BY <1>0, <1>3, <2>1, BookkeepingStep DEF Release, Entity, TypeOK
  <2>2. CASE Opens(Closed) /\ want' = remote /\ lastflush' = "ok"
    BY <1>3, <2>2, ClosedIsInductive DEF Release, Opens, Inv, Inductive, Padded
  <2>3. QED
    BY <1>3, <2>1, <2>2 DEF Release
<1>4. CASE UNCHANGED vars
  BY <1>4 DEF vars, Inv, Inductive, CopyIsWanted, Faithful, IsOpen, Padded, SameButRegrown
<1>5. CASE Open \/ OpenTruncated \/ FlushFile
  BY <1>5, OpenStep, OpenTruncatedStep, FlushStep
<1>6. CASE \E n \in Sizes : TruncateClosed(n) \/ TruncateFile(n)
  BY <1>6, TruncateClosedStep, TruncateStep
<1>7. CASE \E start \in Sizes, n \in 1 .. MaxSize : ReadFile(start, n)
  BY <1>7, ReadStep
<1>8. CASE \E start \in Sizes, n \in 1 .. MaxSize, b \in Byte : WriteFile(start, n, b)
  BY <1>8, WriteStep
<1>9. QED
  BY <1>1, <1>2, <1>3, <1>4, <1>5, <1>6, <1>7, <1>8 DEF Next

\* With space on the disk the local copy stays right, whatever fails, except at
\* positions cut off and brought back below size_orgmeta (regrown), and the
\* inductive invariant holds.
THEOREM CopyCorrect == SafeDisk = {TRUE} => (Spec => [](CopyIsWanted /\ Inductive))
<1> SUFFICES ASSUME SafeDisk = {TRUE} PROVE Spec => [](CopyIsWanted /\ Inductive)
  OBVIOUS
<1>1. Init => Inv
  BY InitTypeOK, InitInductive DEF Inv
<1>2. Inv /\ [Next]_vars => Inv'
  BY NextTypeOK, NextInductive DEF Inv
<1>3. Inv => CopyIsWanted /\ Inductive
  BY DEF Inv, Inductive
<1>4. QED
  BY <1>1, <1>2, <1>3, PTL DEF Spec

\* With space on the disk a flush that returned 0 has uploaded the expected
\* content, regrown positions excepted, unless a Load had cleared is_modify.
THEOREM FlushCorrect == SafeDisk = {TRUE} => (Spec => []FlushedIsUploaded)
<1> SUFFICES ASSUME SafeDisk = {TRUE} PROVE Spec => []FlushedIsUploaded
  OBVIOUS
<1>1. Inductive => FlushedIsUploaded
  BY DEF Inductive, FlushedIsUploaded
<1>2. QED
  BY <1>1, CopyCorrect, PTL

\* With space on the disk every read that succeeds finds the expected bytes,
\* regrown positions excepted.
THEOREM ReadCorrect == SafeDisk = {TRUE} => (Spec => []ReadsReturnWanted)
<1> SUFFICES ASSUME SafeDisk = {TRUE} PROVE Spec => []ReadsReturnWanted
  OBVIOUS
<1>1. TypeOK /\ Inductive => ReadsReturnWanted
  <2> SUFFICES ASSUME TypeOK, Inductive, IsOpen,
                      NEW start \in Extent(0, MaxSize), NEW n \in 1 .. MaxSize,
                      NEW o \in Read(ent, start, n), o.ok,
                      NEW i \in Extent(start, start + n) \ regrown, i < want.len
               PROVE  ByteAt(o.ent.file, i) = want.at[i]
    BY DEF ReadsReturnWanted
  <2>1. /\ remote \in File /\ want \in File /\ EntityOK(ent)
        /\ Right(ent, want, regrown, remote) /\ start \in Nat /\ n \in Nat
    BY SizesAssumption DEF TypeOK, Inductive, CopyIsWanted, Right, Extent
  <2>2. Follows(o.ent, ent)
    BY <2>1, ReadFollows
  <2>3. Right(o.ent, want, regrown, remote)
    BY <2>1, <2>2, FollowsRight
  <2>4. i \in o.ent.loaded
    <3>1. i \in Extent(0, ent.size) /\ ent.size \in 0 .. MaxSize /\ i \in Int
          /\ start <= i /\ i < start + n
      BY <2>1, EntityParts DEF Right, Faithful, Extent
    <3>2. LoadSize(ent, start, n) \in Nat /\ LoadSize(ent, start, n) > 0
          /\ i < start + LoadSize(ent, start, n)
      BY <2>1, <3>1, SizesAssumption DEF LoadSize, Smaller, Larger, Extent
    <3>3. CASE Unloaded(ent, start, n) = {} /\ o = Done(ent)
      <4>1. i \in ent.loaded
        BY <3>1, <3>3, <2>1 DEF Unloaded, Extent
      <4>2. QED
        BY <3>3, <4>1, Outcomes
    <3>4. CASE o \in Load(ent, start, LoadSize(ent, start, n))
      <4>1. i \in Unloaded(ent, start, LoadSize(ent, start, n)) \/ i \in ent.loaded
        BY <3>1, <3>2, <2>1 DEF Unloaded, Extent
      <4>2. QED
        BY <2>1, <3>2, <3>4, <4>1, LoadFollows
    <3>5. QED
      BY <3>3, <3>4 DEF Read
  <2>5. i \in Pos /\ i \in Extent(0, o.ent.size) /\ o.ent.file.len = o.ent.size
        /\ i < o.ent.file.len
    BY <2>1, <2>3, SizesAssumption DEF Right, Faithful, Extent, Pos, File
  <2>6. o.ent.file.at[i] = want.at[i]
    BY <2>3, <2>4, <2>5 DEF Right, Faithful
  <2>7. QED
    BY <2>5, <2>6 DEF ByteAt
<1>2. QED
  BY <1>1, CopyCorrect, TypeCorrect, PTL

\* Load of the whole file can succeed when the object has every byte that Load
\* takes from it.
LEMMA LoadCanSucceed ==
  ASSUME remote \in File, NEW e, EntityOK(e), e.file.len = e.size,
         remote.len >= Smaller(e.orgsize, e.size)
  PROVE  \E o \in Load(e, 0, 0) : o.ok
<1> DEFINE need    == Unloaded(e, 0, 0)
           filled  == {i \in need : e.orgsize <= i}
           written == filled \cup {i \in need : i < remote.len}
<1>1. /\ e.size \in 0 .. MaxSize /\ e.orgsize \in 0 .. Cap /\ e.file \in File
      /\ need \subseteq Extent(0, e.size) /\ remote.len \in 0 .. Cap
  BY EntityParts, UnloadedInside DEF File
<1>2. Refused(e, need) = {}
  BY <1>1, SizesAssumption DEF Refused, Starts, Smaller, Extent
<1>3. e.file.len \in LengthWith(e.file, written)
  BY <1>1, SizesAssumption DEF LengthWith, Extent
<1>4. PICK g : g \in Fetch(e, need)
  BY <1>3 DEF Fetch
<1>5. Done(g) \in Load(e, 0, 0)
  BY <1>2, <1>4 DEF Load
<1>6. QED
  BY <1>5, Outcomes

\* With space on the disk no history of calls makes an entity that can never be
\* flushed again, whatever requests failed before: FlushCanSucceed.
THEOREM FlushAgainCorrect == SafeDisk = {TRUE} => (Spec => []FlushCanSucceed)
<1> SUFFICES ASSUME SafeDisk = {TRUE} PROVE Spec => []FlushCanSucceed
  OBVIOUS
<1>1. TypeOK /\ Inductive => FlushCanSucceed
  <2> SUFFICES ASSUME TypeOK, Inductive, IsOpen, ent.size <= MaxObject,
                      remote.len >= Smaller(ent.orgsize, ent.size)
               PROVE  \E r \in RowFlush(ent, FALSE) : r.ok
    BY DEF FlushCanSucceed
  <2>1. /\ remote \in File /\ EntityOK(ent) /\ ent.file.len = ent.size /\ ~ent.upload
        /\ ent.size \in Int /\ MaxObject \in Nat
    BY EntityParts, SizesAssumption DEF TypeOK, Inductive, CopyIsWanted, Faithful, File
  <2>2. CASE ~ent.is_modify
    <3>1. Flushed(ent, remote, TRUE) \in RowFlush(ent, FALSE)
      BY <2>2 DEF RowFlush
    <3>2. QED
      BY <3>1 DEF Flushed
  <2>3. CASE ent.is_modify
    <3>1. PICK o \in BeforeUpload(ent) : o.ok /\ Follows(o.ent, ent)
      <4>1. CASE Unloaded(ent, 0, 0) = {}
        BY <2>1, <4>1, FollowsItself, Outcomes DEF BeforeUpload
      <4>2. CASE Unloaded(ent, 0, 0) # {}
        <5>1. PICK o \in Load(ent, 0, 0) : o.ok
          BY <2>1, LoadCanSucceed
        <5>2. Follows(o.ent, ent)
          BY <2>1, LoadFollows
        <5>3. o \in BeforeUpload(ent)
          BY <2>1, <4>2 DEF BeforeUpload
        <5>4. QED
          BY <5>1, <5>2, <5>3
      <4>3. QED
        BY <4>1, <4>2
    <3>2. ~(o.ent.size > MaxObject) /\ ~o.ent.upload
      BY <2>1, <3>1 DEF Follows
    <3>3. Flushed(Clean(o.ent), o.ent.file, TRUE) \in PutWhole(o.ent)
      BY <3>2, Zenon DEF PutWhole, Clean
    <3>4. Flushed(Clean(o.ent), o.ent.file, TRUE) \in RowFlush(ent, FALSE)
      <4> DEFINE Ways(p) == IF ~p.ok THEN {Flushed(p.ent, remote, FALSE)}
                            ELSE IF p.ent.upload THEN FinishUpload(p.ent)
                            ELSE PutWhole(p.ent)
      <4>1. RowFlush(ent, FALSE) = UNION {Ways(p) : p \in BeforeUpload(ent)}
        BY <2>3 DEF RowFlush
      <4>2. Ways(o) = PutWhole(o.ent)
        BY <3>1, <3>2
      <4> HIDE DEF Ways
      <4>3. QED
        BY <3>1, <3>3, <4>1, <4>2
    <3>5. QED
      BY <3>4 DEF Flushed
  <2>4. QED
    BY <2>2, <2>3
<1>2. QED
  BY <1>1, CopyCorrect, TypeCorrect, PTL

-----------------------------------------------------------------------------
(***************************************************************************)
(* A full disk: a new file is written at its end only, and each part goes  *)
(* from the local file, which is emptied, to the upload.                   *)
(***************************************************************************)

\* What is posted and what is still in the local file are, one after the other,
\* all of the content w.
Posts(e, w) ==
  /\ e.mp_start + e.mp_size = e.size /\ e.posted.len = e.mp_start
  /\ e.file.len = e.size /\ Padded(e.posted)
  /\ \A i \in Extent(0, e.mp_start) : e.posted.at[i] = w.at[i]
  /\ \A i \in Extent(e.mp_start, e.size) : e.file.at[i] = w.at[i]

\* Nothing is ever unloaded.  A file is in an upload from its first write to the
\* flush that completes it, which an entity does once; after that the object has
\* the content until the next write, whose upload can never be completed.
Uploading(e, w, obj, last) ==
  /\ w.len = e.size /\ Padded(w) /\ e.loaded = Extent(0, e.size)
  /\ e.upload => /\ e.is_modify /\ last # "ok" /\ e.size > 0
                 /\ ~e.flushed => Posts(e, w)
  /\ ~e.upload => /\ ~e.is_modify /\ obj = w
                  /\ ~e.flushed => e.size = 0

InOrderInv ==
  /\ Padded(remote)
  /\ inorder <=> IsOpen
  /\ IsOpen => Uploading(ent, want, remote, lastflush)

\* A padded file is given by its length and the bytes below it.
LEMMA SameFile ==
  ASSUME NEW f \in File, NEW g \in File, Padded(f), Padded(g), f.len = g.len,
         \A i \in Extent(0, f.len) : f.at[i] = g.at[i]
  PROVE  f = g
<1>1. f.len \in 0 .. Cap /\ f.at \in [Pos -> Byte] /\ g.at \in [Pos -> Byte]
  BY DEF File
<1>2. ASSUME NEW i \in Pos PROVE f.at[i] = g.at[i]
  <2>1. CASE i < f.len
    BY <1>1, <2>1, SizesAssumption DEF Extent, Pos
  <2>2. CASE f.len <= i
    BY <2>2 DEF Padded
  <2>3. QED
    BY <1>1, <2>1, <2>2, SizesAssumption DEF Pos
<1>3. f.at = g.at
  BY <1>1, <1>2
<1>4. QED
  BY <1>3 DEF File

\* Posting what follows what is posted.
LEMMA PostParts ==
  ASSUME NEW g \in File, NEW f \in File, NEW n \in Nat, g.len + n <= Cap,
         Padded(g), f.len >= g.len + n, NEW w,
         \A i \in Extent(0, g.len) : g.at[i] = w.at[i],
         \A i \in Extent(g.len, g.len + n) : f.at[i] = w.at[i]
  PROVE  LET p == Post(g, f, g.len, n) IN
         /\ p.len = g.len + n /\ Padded(p)
         /\ \A i \in Extent(0, p.len) : p.at[i] = w.at[i]
<1> DEFINE p == Post(g, f, g.len, n)
<1>1. g.len \in 0 .. Cap /\ f.len \in 0 .. Cap
  BY DEF File
<1>2. p.len = g.len + n
  BY <1>1, SizesAssumption DEF Post, Smaller
<1>3. \A i \in Pos : p.at[i] = IF i < g.len THEN g.at[i]
                       ELSE IF i < g.len + n THEN ByteAt(f, g.len + i - g.len)
                       ELSE Zero
  BY DEF Post
<1>4. Padded(p)
  BY <1>1, <1>2, <1>3, SizesAssumption DEF Padded, Pos
<1>5. ASSUME NEW i \in Extent(0, p.len) PROVE p.at[i] = w.at[i]
  <2>1. i \in Pos /\ 0 <= i /\ i < g.len + n /\ i \in Int
    BY <1>1, <1>2, SizesAssumption DEF Extent, Pos
  <2>2. CASE i < g.len
    BY <1>1, <1>3, <2>1, <2>2 DEF Extent
  <2>3. CASE g.len <= i
    <3>1. g.len + i - g.len = i /\ ~(i < g.len)
      BY <1>1, <2>1, <2>3
    <3>2. p.at[i] = f.at[i]
      BY <1>1, <1>3, <2>1, <3>1 DEF ByteAt
    <3>3. QED
      BY <1>1, <2>1, <2>3, <3>2 DEF Extent
  <2>4. QED
    BY <1>1, <2>1, <2>2, <2>3
<1>6. QED
  BY <1>2, <1>4, <1>5

\* What a write begins with: an upload of a file of which nothing is posted.
LEMMA BeginsUpload ==
  ASSUME remote \in File, NEW e, EntityOK(e), e.loaded = Extent(0, e.size),
         NEW o \in BeginUpload(e, e.size), o.ok
  PROVE  /\ EntityOK(o.ent) /\ o.ent.upload /\ o.ent.size = e.size
         /\ o.ent.loaded = e.loaded /\ o.ent.flushed = e.flushed
         /\ o.ent.refcnt = e.refcnt
         /\ e.size = 0 => \A w : Posts(o.ent, w)
<1> DEFINE b == [e EXCEPT !.upload = TRUE, !.posted = Empty]
           area == {i \in Extent(0, b.size) : e.size = 0 \/ i < e.size}
<1>1. e \in Entity /\ e.size \in 0 .. Cap /\ e.size \in Nat
  BY EntityParts, SizesAssumption
<1>2. /\ b \in Entity /\ b.upload /\ b.posted = Empty /\ b.size = e.size
      /\ b.loaded = e.loaded /\ b.flushed = e.flushed /\ b.refcnt = e.refcnt
  BY <1>1, EmptyType DEF Entity
<1> HIDE DEF b
<1>3. PICK p \in LoadAndPost(b, e.size) :
        o = IF p.ok THEN Done([p.ent EXCEPT !.mp_start = e.size, !.mp_size = 0]) ELSE p
  BY Outcomes DEF BeginUpload, b
<1>4. p.ok /\ o = Done([p.ent EXCEPT !.mp_start = e.size, !.mp_size = 0])
  BY <1>3, Outcomes
<1>5. PICK n \in 0 .. b.size :
        p = Done([Posting(b, n, n) EXCEPT !.loaded = @ \cup area, !.file = Empty])
  <2>1. CASE \E n \in 0 .. b.size :
               p = Done([Posting(b, n, n) EXCEPT !.loaded = @ \cup area, !.file = Empty])
    BY <2>1
  <2>2. CASE \E x \in Sizes \X Sizes \X Sizes :
               p = Failed([Posting(b, x[1], x[3]) EXCEPT !.loaded = @ \cup Extent(0, x[2])])
    BY <1>4, <2>2, Outcomes
  <2>3. CASE p = Failed(b)
    BY <1>4, <2>3, Outcomes
  <2>4. QED
    BY <2>1, <2>2, <2>3 DEF LoadAndPost
<1> DEFINE posted == Post(b.posted, ImageFile(b), 0, n)
           modify == b.is_modify /\ ~Zeroed(b, n)
<1>6. EntityOK(b)
  BY <1>1, <1>2 DEF EntityOK
<1>7. posted \in File /\ modify \in BOOLEAN /\ area \subseteq Extent(0, e.size)
  <2>1. n \in Nat /\ 0 \in Nat /\ b.posted \in File /\ ImageFile(b) \in File
        /\ b.is_modify \in BOOLEAN
    BY <1>1, <1>2, <1>5, <1>6, ImageFileType, EntityParts
  <2>2. posted \in File
    BY <2>1, PostType
  <2>3. QED
    BY <1>2, <2>1, <2>2
<1>8. b.loaded \cup area = e.loaded
  BY <1>2, <1>7
<1> DEFINE q == [b EXCEPT !.posted = posted, !.is_modify = modify,
                          !.loaded = e.loaded, !.file = Empty]
<1>9. p.ent = q
  <2>1. Posting(b, n, n) = [b EXCEPT !.posted = posted, !.is_modify = modify]
    BY DEF Posting
  <2> HIDE DEF posted, modify, area
  <2>2. [b EXCEPT !.posted = posted, !.is_modify = modify].loaded = b.loaded
    BY <1>2 DEF Entity
  <2>3. [[b EXCEPT !.posted = posted, !.is_modify = modify]
           EXCEPT !.loaded = @ \cup area, !.file = Empty] = q
    BY <1>8, <2>2
  <2>4. QED
    BY <1>5, <2>1, <2>3, Outcomes
<1>10. e.size = 0 => posted.len = 0 /\ Padded(posted)
  <2> SUFFICES ASSUME e.size = 0 PROVE posted.len = 0 /\ Padded(posted)
    OBVIOUS
  <2>1. n = 0
    BY <1>2, <1>5
  <2>2. QED
    BY <1>2, <2>1, SizesAssumption DEF Post, Empty, Smaller, Padded, Pos
<1> HIDE DEF posted, modify, area
<1>11. /\ q \in Entity /\ q.upload /\ q.size = e.size /\ q.loaded = e.loaded
       /\ q.flushed = e.flushed /\ q.posted = posted /\ q.file = Empty
       /\ q.refcnt = e.refcnt
  <2>1. e.loaded \in SUBSET Extent(0, MaxSize)
    BY EntityParts
  <2>2. QED
    BY <1>2, <1>7, <2>1, EmptyType DEF Entity
<1> HIDE DEF q
<1> DEFINE g == [q EXCEPT !.mp_start = e.size, !.mp_size = 0]
<1>12. /\ g \in Entity /\ g.upload /\ g.size = e.size /\ g.loaded = e.loaded
       /\ g.flushed = e.flushed /\ g.posted = posted /\ g.file = Empty
       /\ g.mp_start = e.size /\ g.mp_size = 0 /\ g.refcnt = e.refcnt
  <2>1. 0 \in 0 .. Cap
    BY SizesAssumption
  <2>2. QED
    BY <1>1, <1>11, <2>1 DEF Entity
<1>13. o.ent = g
  BY <1>4, <1>9, Outcomes
<1> HIDE DEF g
<1>14. e.size = 0 => \A w : Posts(g, w)
  BY <1>10, <1>12 DEF Posts, Empty, Extent
<1>15. QED
  BY <1>12, <1>13, <1>14 DEF EntityOK

\* A write at the end of the file that succeeds leaves it in an upload.
LEMMA WritesOn ==
  ASSUME SafeDisk = {FALSE}, remote \in File, NEW e, EntityOK(e), NEW w \in File, NEW last,
         Uploading(e, w, remote, last), NEW n \in 1 .. MaxSize, e.size + n <= MaxSize,
         NEW b \in Byte, NEW o \in Write(e, e.size, n, b), o.ok
  PROVE  /\ Uploading(o.ent, Overlay(w, e.size, n, b), remote, "due")
         /\ o.ent.refcnt = e.refcnt
<1> DEFINE v == Overlay(w, e.size, n, b)
           size == e.size + n
<1>1. /\ e.size \in Nat /\ n \in Nat /\ n > 0 /\ e.size \in 0 .. Cap /\ size <= Cap
      /\ e.loaded = Extent(0, e.size) /\ w.len = e.size /\ Padded(w)
  BY EntityParts, SizesAssumption DEF Uploading
<1>2. PICK q \in BeforeWrite(e, e.size) :
        q.ok /\ o \in AfterWrite(Pwrite(q.ent, e.size, n, b), e.size, n)
  <2>1. PICK q \in BeforeWrite(e, e.size) :
          o \in IF q.ok THEN {Failed(q.ent)}
                             \cup AfterWrite(Pwrite(q.ent, e.size, n, b), e.size, n)
                ELSE {q}
    BY DEF Write
  <2>2. QED
    BY <2>1, Outcomes
<1> DEFINE g == q.ent
<1>3. /\ EntityOK(g) /\ g.upload /\ g.size = e.size /\ g.loaded = Extent(0, e.size)
      /\ g.refcnt = e.refcnt
      /\ ~g.flushed => Posts(g, w)
  <2>1. CASE e.upload
    BY <1>1, <1>2, <2>1, Outcomes DEF BeforeWrite, Uploading
  <2>2. CASE ~e.upload
    <3>1. q \in BeginUpload(e, e.size)
      BY <1>2, <2>2 DEF BeforeWrite
    <3>2. /\ EntityOK(g) /\ g.upload /\ g.size = e.size /\ g.loaded = e.loaded
          /\ g.refcnt = e.refcnt /\ g.flushed = e.flushed /\ (e.size = 0 => \A x : Posts(g, x))
      BY <1>1, <1>2, <3>1, BeginsUpload
    <3>3. QED
      BY <1>1, <2>2, <3>2 DEF Uploading
  <2>3. QED
    BY <2>1, <2>2
<1> DEFINE p == Pwrite(g, e.size, n, b)
<1> HIDE DEF g
<1>4. /\ g \in Entity /\ g.file \in File /\ g.posted \in File
      /\ g.mp_start \in 0 .. Cap /\ g.mp_size \in 0 .. Cap
  BY <1>3, EntityParts
<1>5. /\ p \in Entity /\ p.upload /\ p.size = size /\ p.loaded = Extent(0, size) /\ p.is_modify
      /\ p.flushed = g.flushed /\ p.posted = g.posted /\ p.mp_start = g.mp_start
      /\ p.mp_size = g.mp_size /\ p.file = Overlay(g.file, e.size, n, b) /\ p.file \in File
      /\ p.refcnt = e.refcnt
  <2>1. Larger(g.size, e.size + n) = size /\ size \in Sizes
    BY <1>1, <1>3 DEF Larger, Sizes
  <2>2. g.loaded \cup Extent(e.size, e.size + n) = Extent(0, size)
    BY <1>1, <1>3 DEF Extent
  <2>3. Overlay(g.file, e.size, n, b) \in File
    BY <1>1, <1>4, OverlayType
  <2>4. Extent(0, size) \in SUBSET Extent(0, MaxSize)
    BY <1>1, <2>1, SizesAssumption DEF Extent, Sizes
  <2> HIDE DEF size
  <2>5. QED
    BY <1>3, <1>4, <2>1, <2>2, <2>3, <2>4 DEF Pwrite, Entity
<1>6. PICK x \in AfterWrite(p, e.size, n) : o = x
  BY <1>2 DEF g
<1> HIDE DEF p
<1>7. v.len = size /\ Padded(v) /\ v \in File
      /\ \A i \in Pos : v.at[i] = IF i \in Extent(e.size, size) THEN b ELSE w.at[i]
  <2>1. Larger(w.len, e.size + n) = size
    BY <1>1 DEF Larger
  <2>2. QED
    BY <1>1, <2>1, OverlayParts, OverlayType
<1>8. p.flushed \/ Posts(g, w)
  BY <1>3, <1>5
<1> DEFINE counted == [p EXCEPT !.mp_size = @ + n]
           k == p.mp_size + n
           nxt == p.mp_start + k
<1>9. e.size = p.mp_start
  BY <1>5, <1>6, Outcomes DEF AfterWrite
<1>10. ~p.flushed => p.mp_size = 0 /\ Posts(g, w)
  BY <1>3, <1>4, <1>5, <1>8, <1>9 DEF Posts
<1>11. CASE o = Done(counted) 
  <2>1. /\ counted.upload /\ counted.size = size /\ counted.loaded = Extent(0, size)
        /\ counted.is_modify /\ counted.flushed = p.flushed /\ counted.posted = p.posted
        /\ counted.mp_start = p.mp_start /\ counted.mp_size = k /\ counted.file = p.file
        /\ counted.refcnt = e.refcnt
    <3> HIDE DEF size
    <3>1. QED
      BY <1>5 DEF Entity
  <2> HIDE DEF counted
  <2>2. ASSUME ~p.flushed PROVE Posts(counted, v)
    <3>1. /\ p.mp_size = 0 /\ Posts(g, w) /\ g.mp_start = e.size
      BY <1>5, <1>9, <1>10, <2>2
    <3>2. p.file.len = size
      <4>1. g.file.len = e.size
        BY <1>3, <3>1 DEF Posts
      <4>2. QED
        BY <1>1, <1>4, <1>5, <4>1, OverlayParts DEF Larger
    <3>3. \A i \in Extent(e.size, size) : i \in Pos /\ p.file.at[i] = v.at[i]
      <4>1. \A i \in Extent(e.size, size) : i \in Pos
        BY <1>1, SizesAssumption DEF Extent, Pos
      <4>2. QED
        BY <1>1, <1>4, <1>5, <1>7, <4>1, OverlayParts
    <3>4. \A i \in Extent(0, e.size) : i \in Pos /\ v.at[i] = w.at[i]
      BY <1>1, <1>7, SizesAssumption DEF Extent, Pos
    <3>5. /\ p.posted.len = e.size /\ Padded(p.posted)
          /\ \A i \in Extent(0, e.size) : p.posted.at[i] = w.at[i]
      BY <1>5, <3>1 DEF Posts
    <3>6. k = n
      BY <1>1, <3>1
    <3>7. QED
      BY <1>9, <2>1, <3>2, <3>3, <3>4, <3>5, <3>6 DEF Posts
  <2>3. o.ent = counted
    BY <1>11, Outcomes
  <2>4. QED
    BY <1>1, <1>7, <2>1, <2>2, <2>3 DEF Uploading
<1> DEFINE cut == Cut(Empty, Smaller(nxt, Cap))
           posted == Post(p.posted, p.file, p.mp_start, k)
           done == [counted EXCEPT !.posted = posted, !.file = cut,
                                   !.mp_start = Smaller(nxt, Cap), !.mp_size = 0]
<1>12. CASE o = Done(done)
  <2>1. /\ done.upload /\ done.size = size /\ done.loaded = Extent(0, size)
        /\ done.is_modify /\ done.flushed = p.flushed /\ done.posted = posted
        /\ done.mp_start = Smaller(nxt, Cap) /\ done.mp_size = 0 /\ done.file = cut
        /\ done.refcnt = e.refcnt
    <3> HIDE DEF size, nxt, posted, cut
    <3>1. QED
      BY <1>5 DEF Entity
  <2> HIDE DEF done, counted
  <2>2. ASSUME ~p.flushed PROVE Posts(done, v)
    <3>0. /\ p.mp_size = 0 /\ Posts(g, w) /\ g.mp_start = e.size
      BY <1>5, <1>9, <1>10, <2>2
    <3>1. /\ p.mp_size = 0 /\ Posts(g, w) /\ g.mp_start = e.size /\ k = n
      BY <1>1, <3>0
    <3>2. nxt = size /\ Smaller(nxt, Cap) = size
      BY <1>1, <1>9, <3>1, SizesAssumption DEF Smaller
    <3>3. /\ g.posted.len = e.size /\ Padded(g.posted) /\ g.file.len = e.size
          /\ \A i \in Extent(0, e.size) : g.posted.at[i] = w.at[i]
      BY <1>3, <3>1 DEF Posts
    <3>4. p.file.len = size
      BY <1>1, <1>4, <1>5, <3>3, OverlayParts DEF Larger
    <3>5. \A i \in Extent(e.size, size) : p.file.at[i] = v.at[i]
      <4>1. \A i \in Extent(e.size, size) : i \in Pos
        BY <1>1, SizesAssumption DEF Extent, Pos
      <4>2. QED
        BY <1>1, <1>4, <1>5, <1>7, <4>1, OverlayParts
    <3>6. \A i \in Extent(0, e.size) : v.at[i] = w.at[i]
      BY <1>1, <1>7, SizesAssumption DEF Extent, Pos
    <3>7. \A i \in Extent(0, e.size) : g.posted.at[i] = v.at[i]
      BY <3>3, <3>6
    <3>8. posted = Post(g.posted, p.file, g.posted.len, n)
      BY <1>5, <3>1, <3>3
    <3> HIDE DEF v, posted
    <3>9. /\ posted.len = size /\ Padded(posted)
          /\ \A i \in Extent(0, size) : posted.at[i] = v.at[i]
      <4>1. /\ g.posted.len = e.size /\ e.size + n = size /\ n \in Nat /\ size <= Cap
            /\ p.file.len >= g.posted.len + n
        BY <1>1, <3>3, <3>4, SizesAssumption
      <4>2. \A i \in Extent(g.posted.len, g.posted.len + n) : p.file.at[i] = v.at[i]
        BY <3>5, <4>1
      <4>3. \A i \in Extent(0, g.posted.len) : g.posted.at[i] = v.at[i]
        BY <3>3, <3>7
      <4>4. /\ posted.len = g.posted.len + n /\ Padded(posted)
            /\ \A i \in Extent(0, posted.len) : posted.at[i] = v.at[i]
        <5> HIDE DEF size
        <5>1. g.posted.len + n <= Cap
          BY <4>1
        <5>2. QED
          BY <1>4, <1>5, <3>3, <3>8, <4>1, <4>2, <4>3, <5>1, PostParts
      <4>5. QED
        BY <4>1, <4>4
    <3>10. cut.len = size
      BY <3>2 DEF Cut
    <3>11. Extent(size, size) = {}
      BY <1>1 DEF Extent
    <3>12. size + 0 = size
      BY <1>1
    <3> HIDE DEF nxt, cut, size
    <3>13. QED
      BY <2>1, <3>2, <3>9, <3>10, <3>11, <3>12 DEF Posts
  <2>3. o.ent = done
    BY <1>12, Outcomes
  <2>4. size > 0
    BY <1>1
  <2> HIDE DEF v, size, nxt, posted, cut
  <2>5. Uploading(done, v, remote, "due")
    BY <1>7, <2>1, <2>2, <2>4 DEF Uploading
  <2>6. QED
    BY <2>1, <2>3, <2>5 DEF v
<1>13. o = Done(counted) \/ o = Done(done)
  <2>1. counted.mp_size = k
    BY <1>5 DEF Entity
  <2>2. counted.posted = p.posted
    BY <1>5 DEF Entity
  <2> HIDE DEF k
  <2> DEFINE after == [counted EXCEPT
             !.posted = Post(p.posted, p.file, p.mp_start, k),
             !.file = Cut(Empty, Smaller(p.mp_start + k, Cap)),
             !.mp_start = Smaller(p.mp_start + k, Cap), !.mp_size = 0]
  <2>3. o \in {Done(counted), Failed(counted), Done(after)}
    BY <1>5, <1>6, <1>9, <2>1, <2>2 DEF AfterWrite
  <2>4. QED
    BY <2>3, Outcomes DEF k
<1>14. QED
  BY <1>11, <1>12, <1>13

\* Putting the parts together, when they are all of w: it is the object's content
\* then, or the upload stays as it is and has been tried.
LEMMA CompleteEnds ==
  ASSUME HeadersMayFail = FALSE, Padded(remote), NEW e, EntityOK(e), NEW w,
         Padded(w), w.len = e.size, e.size > 0, e.loaded = Extent(0, e.size),
         e.upload, e.is_modify, e.flushed, e.posted = w, NEW r \in Complete(e)
  PROVE  Padded(r.object) /\ r.ent.refcnt = e.refcnt
         /\ Uploading(r.ent, w, r.object, IF r.ok THEN "ok" ELSE "failed")
<1> DEFINE ended == [e EXCEPT !.upload = FALSE, !.posted = Empty, !.mp_start = 0,
                         !.mp_size = 0, !.file = Empty, !.pending = FALSE]
           clean == [ended EXCEPT !.is_modify = FALSE]
<1>1. e \in Entity /\ e.size \in Nat
  BY EntityParts
<1>2. /\ clean.size = e.size /\ clean.loaded = e.loaded /\ clean.flushed = e.flushed
      /\ ~clean.upload /\ ~clean.is_modify /\ clean.refcnt = e.refcnt
  BY <1>1 DEF Entity
<1> HIDE DEF clean
<1>3. \/ r = Flushed(e, remote, FALSE) \/ r = Flushed(e, e.posted, FALSE)
      \/ r = Flushed(clean, e.posted, TRUE)
  BY <1>1 DEF Complete, clean
<1>4. CASE r.ent = e /\ ~r.ok /\ r.object \in {remote, w}
  BY <1>4 DEF Uploading
<1>5. CASE r.ent = clean /\ r.ok /\ r.object = w
  BY <1>2, <1>5 DEF Uploading
<1>6. QED
  BY <1>3, <1>4, <1>5 DEF Flushed

\* A flush of a file written in order.
LEMMA FlushEnds ==
  ASSUME SafeDisk = {FALSE}, HeadersMayFail = FALSE, remote \in File, Padded(remote),
         NEW e, EntityOK(e), NEW w \in File, NEW last,
         Uploading(e, w, remote, last), NEW r \in RowFlush(e, FALSE)
  PROVE  Padded(r.object) /\ r.ent.refcnt = e.refcnt
         /\ Uploading(r.ent, w, r.object, IF r.ok THEN "ok" ELSE "failed")
<1> DEFINE tried == [e EXCEPT !.flushed = TRUE]
           posted == Post(e.posted, e.file, e.mp_start, e.mp_size)
           rest == [tried EXCEPT !.posted = posted, !.mp_start = 0, !.mp_size = 0]
<1>1. /\ e \in Entity /\ e.file \in File /\ e.posted \in File /\ e.size \in Nat /\ e.size <= Cap
      /\ e.mp_start \in 0 .. Cap /\ e.mp_size \in 0 .. Cap /\ e.is_modify \in BOOLEAN
  BY EntityParts
<1>2. CASE ~e.upload
  <2>1. r = Flushed(e, remote, TRUE)
    BY <1>2 DEF RowFlush, Uploading
  <2>2. r.ent = e /\ r.object = remote /\ r.ok
    BY <2>1 DEF Flushed
  <2>3. QED
    BY <1>2, <2>2 DEF Uploading
<1>3. CASE e.upload /\ r.ent = e /\ ~r.ok /\ r.object = remote
  BY <1>3 DEF Uploading
<1>4. /\ tried \in Entity /\ tried.upload = e.upload /\ tried.is_modify = e.is_modify
      /\ tried.size = e.size /\ tried.loaded = e.loaded /\ tried.flushed /\ tried.posted = e.posted
      /\ tried.refcnt = e.refcnt
  BY <1>1 DEF Entity
<1>5. EntityOK(tried)
  BY <1>1, <1>4 DEF EntityOK
<1> HIDE DEF tried
<1>6. CASE e.upload /\ r.ent = tried /\ ~r.ok /\ r.object = remote
  BY <1>4, <1>6 DEF Uploading
<1>7. CASE e.upload /\ ~e.flushed /\ e.mp_size = 0 /\ r \in Complete(tried)
  <2>1. e.posted.len = e.size /\ Padded(e.posted) /\ w.len = e.size /\ Padded(w)
        /\ \A i \in Extent(0, e.size) : e.posted.at[i] = w.at[i]
    BY <1>1, <1>7 DEF Uploading, Posts
  <2>2. e.posted = w
    BY <1>1, <2>1, SameFile
  <2>3. e.is_modify /\ e.size > 0 /\ e.loaded = Extent(0, e.size)
    BY <1>7 DEF Uploading
  <2>4. QED
    BY <1>4, <1>5, <1>7, <2>1, <2>2, <2>3, CompleteEnds
<1>8. CASE e.upload /\ ~e.flushed /\ r \in Complete(rest)
  <2>1. /\ e.mp_start + e.mp_size = e.size /\ e.posted.len = e.mp_start
        /\ e.file.len = e.size /\ Padded(e.posted) /\ w.len = e.size /\ Padded(w)
        /\ \A i \in Extent(0, e.mp_start) : e.posted.at[i] = w.at[i]
        /\ \A i \in Extent(e.mp_start, e.size) : e.file.at[i] = w.at[i]
        /\ e.mp_start \in Nat /\ e.mp_size \in Nat
    BY <1>1, <1>8 DEF Uploading, Posts
  <2>2. posted = Post(e.posted, e.file, e.posted.len, e.mp_size)
    BY <2>1
  <2>3. posted \in File
    BY <1>1, <2>1, PostType
  <2>4. /\ posted.len = e.size /\ Padded(posted)
        /\ \A i \in Extent(0, e.size) : posted.at[i] = w.at[i]
    <3> HIDE DEF posted
    <3>1. e.posted.len + e.mp_size = e.size
      BY <2>1
    <3>2. e.file.len >= e.size
      BY <1>1, <2>1
    <3>3. QED
      BY <1>1, <2>1, <2>2, <3>1, <3>2, PostParts
  <2> HIDE DEF posted
  <2>5. posted = w
    BY <2>1, <2>3, <2>4, SameFile
  <2>6. e.is_modify /\ e.size > 0 /\ e.loaded = Extent(0, e.size)
    BY <1>8 DEF Uploading
  <2>7. 0 \in 0 .. Cap
    BY SizesAssumption
  <2>8. /\ rest \in Entity /\ rest.upload /\ rest.is_modify /\ rest.size = e.size
        /\ rest.loaded = e.loaded /\ rest.flushed /\ rest.posted = posted
        /\ rest.refcnt = e.refcnt
    BY <1>4, <1>8, <2>3, <2>6, <2>7 DEF Entity
  <2>9. EntityOK(rest)
    BY <1>1, <2>8, EntityParts DEF EntityOK
  <2> HIDE DEF rest
  <2>10. w.len = rest.size /\ rest.size > 0 /\ rest.loaded = Extent(0, rest.size)
         /\ rest.posted = w /\ Padded(w)
    BY <2>1, <2>5, <2>6, <2>8
  <2>11. Padded(r.object) /\ r.ent.refcnt = rest.refcnt
         /\ Uploading(r.ent, w, r.object, IF r.ok THEN "ok" ELSE "failed")
    BY <1>8, <2>8, <2>9, <2>10, CompleteEnds
  <2>12. QED
    BY <2>8, <2>11
<1>9. CASE e.upload
  <2>1. BeforeUpload(e) = {Done(e)}
    BY <1>9 DEF BeforeUpload
  <2>2. r \in FinishUpload(e)
    BY <1>9, <2>1, Outcomes DEF RowFlush, Uploading
  <2>3. \/ r = Flushed(e, remote, FALSE)
        \/ ~e.flushed /\ e.mp_size = 0 /\ r \in Complete(tried)
        \/ r = Flushed(tried, remote, FALSE)
        \/ ~e.flushed /\ r \in Complete(rest)
    <3>1. [tried EXCEPT !.posted = Post(@, e.file, e.mp_start, e.mp_size),
                        !.mp_start = 0, !.mp_size = 0] = rest
      BY <1>4
    <3> HIDE DEF rest
    <3>2. CASE e.flushed
      BY <2>2, <3>2 DEF FinishUpload
    <3>3. CASE ~e.flushed /\ e.mp_size = 0
      BY <2>2, <3>3 DEF FinishUpload, tried
    <3>4. CASE ~e.flushed /\ e.mp_size # 0
      BY <2>2, <3>1, <3>4 DEF FinishUpload, tried
    <3>5. QED
      BY <3>2, <3>3, <3>4
  <2>4. QED
    BY <1>3, <1>6, <1>7, <1>8, <1>9, <2>3 DEF Flushed
<1>10. QED
  BY <1>2, <1>9

\* A file that has everything loaded is loaded no further by Load.
LEMMA NothingToLoad ==
  ASSUME remote \in File, NEW e, EntityOK(e), e.loaded = Extent(0, e.size),
         NEW start \in Nat, NEW n \in Nat
  PROVE  /\ Unloaded(e, start, n) = {}
         /\ \A o \in Load(e, start, n) : o = Done(e)
<1>1. Unloaded(e, start, n) = {}
  BY UnloadedInside
<1>2. ASSUME NEW o \in Load(e, start, n) PROVE o = Done(e)
  <2>1. Starts({}) = {}
    BY DEF Starts
  <2>2. PICK g \in Fetch(e, {}) : o = Done(g)
    BY <1>1, <2>1 DEF Load
  <2>3. e \in Entity /\ e.file \in File /\ e.is_modify \in BOOLEAN
        /\ e.file.len \in 0 .. Cap /\ e.file.at \in [Pos -> Byte]
    BY EntityParts DEF File
  <2>4. LengthWith(e.file, {}) = {e.file.len}
    BY <2>3, SizesAssumption DEF LengthWith
  <2>5. [len |-> e.file.len, at |-> [i \in Pos |-> e.file.at[i]]] = e.file
    BY <2>3 DEF File
  <2>6. g = [e EXCEPT !.loaded = @ \cup {}, !.file = e.file, !.is_modify = @ /\ TRUE]
    <3>1. {i \in {} : e.orgsize <= i} = {} /\ {i \in {} : i < remote.len} = {}
      OBVIOUS
    <3>2. QED
      BY <2>2, <2>4, <2>5, <3>1 DEF Fetch
  <2>7. g = e
    <3>1. (e.is_modify /\ TRUE) = e.is_modify
      BY <2>3
    <3>2. e.loaded \cup {} = e.loaded
      OBVIOUS
    <3>3. g = [e EXCEPT !.loaded = e.loaded, !.file = e.file, !.is_modify = e.is_modify]
      BY <2>6, <3>1, <3>2
    <3>4. QED
      BY <2>3, <3>3 DEF Entity
  <2>8. QED
    BY <2>2, <2>7
<1>3. QED
  BY <1>1, <1>2

\* A forced flush of a file that has everything loaded.
LEMMA LoadedFlush ==
  ASSUME remote \in File, NEW e, EntityOK(e), ~e.upload,
         e.loaded = Extent(0, e.size), NEW r \in RowFlush(e, TRUE)
  PROVE  \/ r = Flushed(Clean(e), e.file, TRUE)
         \/ r = Flushed(e, e.file, FALSE) \/ r = Flushed(e, remote, FALSE)
<1>1. PICK force \in BOOLEAN : force /\ r \in RowFlush(e, force)
  <2>1. TRUE \in BOOLEAN /\ TRUE
    OBVIOUS
  <2>2. QED
    BY <2>1
<1>2. BeforeUpload(e) = {Done(e)}
  BY NothingToLoad DEF BeforeUpload
<1>3. r \in PutWhole(e)
  BY <1>1, <1>2, Outcomes DEF RowFlush
<1>4. QED
  BY <1>3 DEF PutWhole, Clean

\* What the invariant says, and what an action must show, of an open file.
LEMMA InOrderOpen ==
  /\ InOrderInv /\ IsOpen => /\ inorder /\ Padded(remote)
                             /\ Uploading(ent, want, remote, lastflush)
  /\ Padded(remote') /\ inorder' /\ ent'.refcnt > 0
        /\ Uploading(ent', want', remote', lastflush')
       => InOrderInv'
  /\ Padded(remote') /\ ~inorder' /\ ~(ent'.refcnt > 0) => InOrderInv'
BY DEF InOrderInv, Uploading, Posts, Padded, IsOpen

\* Opening a file.
LEMMA InOrderOpenStep ==
  ASSUME TypeOK, InOrderInv, Open, ent'.refcnt > 0 => inorder'
  PROVE  InOrderInv'
<1>1. remote \in File /\ remote.len \in Sizes /\ Padded(remote)
  BY SizesAssumption DEF TypeOK, InOrderInv, Open, File, Sizes
<1>2. ent' = Opened(remote.len) /\ want' = remote /\ remote' = remote
      /\ (inorder' => ent'.size = 0)
  BY DEF Open, Opens
<1>3. /\ ent'.refcnt = 1 /\ ent'.size = remote.len /\ ent'.loaded = {}
      /\ ~ent'.upload /\ ~ent'.is_modify
  BY <1>1, <1>2, OpenedParts
<1>4. inorder' /\ ent'.size = 0
  BY <1>2, <1>3
<1>5. Uploading(ent', want', remote', lastflush')
  BY <1>1, <1>2, <1>3, <1>4 DEF Uploading, Extent
<1>6. QED
  BY <1>1, <1>2, <1>3, <1>4, <1>5, InOrderOpen

\* Opening it with O_TRUNC.
LEMMA InOrderOpenTruncatedStep ==
  ASSUME TypeOK, InOrderInv, OpenTruncated
  PROVE  InOrderInv'
<1> DEFINE e == Opened(0)
<1>1. remote \in File /\ 0 \in Sizes /\ 0 \in 0 .. Cap /\ Padded(remote)
  BY SizesAssumption DEF TypeOK, InOrderInv, Sizes
<1>2. /\ EntityOK(e) /\ e \in Entity /\ e.refcnt = 1 /\ e.size = 0 /\ e.loaded = {}
      /\ ~e.upload /\ Padded(e.file)
  BY <1>1, OpenedParts, EntityParts
<1>3. e.file = Cut(Empty, 0) /\ Cut(Empty, 0).len = 0 /\ Padded(Cut(Empty, 0))
  BY <1>1, EmptyType, CutParts DEF Opened
<1> HIDE DEF e
<1>4. PICK r \in RowFlush(e, TRUE) :
        /\ Opens(IF r.ok THEN r.ent ELSE Closed) /\ remote' = r.object
        /\ want' = IF r.ok THEN Cut(Empty, 0) ELSE r.object
  BY DEF OpenTruncated, e
<1>5. e.loaded = Extent(0, e.size)
  BY <1>2 DEF Extent
<1>6. \/ r = Flushed(Clean(e), e.file, TRUE)
      \/ r = Flushed(e, e.file, FALSE) \/ r = Flushed(e, remote, FALSE)
  BY <1>1, <1>2, <1>4, <1>5, LoadedFlush
<1>7. CASE ~r.ok
  <2>1. ~(ent'.refcnt > 0) /\ ~inorder'
    <3>1. Opens(Closed)
      BY <1>4, <1>7
    <3>2. ent' = Closed /\ (inorder' => ent'.refcnt > 0)
      BY <3>1 DEF Opens
    <3>3. Closed.refcnt = 0
      BY DEF Closed
    <3>4. QED
      BY <3>2, <3>3
  <2>2. Padded(remote')
    BY <1>1, <1>2, <1>4, <1>6 DEF Flushed
  <2>3. QED
    BY <2>1, <2>2, InOrderOpen
<1>8. CASE r.ok
  <2>1. ent' = Clean(e) /\ remote' = Cut(Empty, 0) /\ want' = Cut(Empty, 0)
        /\ inorder' = (ent'.refcnt > 0 /\ ent'.size = 0)
    BY <1>3, <1>4, <1>6, <1>8 DEF Flushed, Opens
  <2>2. /\ ent'.refcnt = 1 /\ ent'.size = 0 /\ ent'.loaded = {} /\ ~ent'.upload
        /\ ~ent'.is_modify
    BY <1>2, <2>1 DEF Clean, Entity
  <2>3. Uploading(ent', want', remote', lastflush')
    BY <1>3, <2>1, <2>2 DEF Uploading, Extent
  <2>4. QED
    BY <1>3, <2>1, <2>2, <2>3, InOrderOpen
<1>9. QED
  BY <1>7, <1>8

\* Truncating a closed file.
LEMMA InOrderTruncateClosedStep ==
  ASSUME SafeDisk = {FALSE}, TypeOK, InOrderInv, NEW n \in Sizes, TruncateClosed(n)
  PROVE  InOrderInv'
<1> DEFINE e == Opened(n)
<1>1. remote \in File /\ Padded(remote) /\ n \in Nat
  BY SizesAssumption DEF TypeOK, InOrderInv, Sizes
<1>2. EntityOK(e) /\ Padded(e.file) /\ e.file.len = e.size /\ e.size = n
      /\ e.loaded = {} /\ ~e.upload
  BY <1>1, OpenedParts
<1> HIDE DEF e
<1>3. PICK o \in Load(e, 0, n) :
        \E r \in IF o.ok THEN RowFlush(o.ent, TRUE)
                 ELSE {Flushed(o.ent, remote, FALSE)} : remote' = r.object
  BY DEF TruncateClosed, e
<1>4. PICK r \in IF o.ok THEN RowFlush(o.ent, TRUE)
                 ELSE {Flushed(o.ent, remote, FALSE)} : remote' = r.object
  BY <1>3
<1>5. Follows(o.ent, e) /\ (o.ok => Unloaded(e, 0, n) \subseteq o.ent.loaded)
  BY <1>1, <1>2, LoadFollows
<1>6. /\ EntityOK(o.ent) /\ Padded(o.ent.file) /\ ~o.ent.upload /\ o.ent.size = n
  BY <1>2, <1>5 DEF Follows
<1>7. Padded(r.object)
  <2>1. CASE r = Flushed(o.ent, remote, FALSE)
    BY <1>1, <2>1 DEF Flushed
  <2>2. CASE o.ok /\ r \in RowFlush(o.ent, TRUE)
    <3>1. Unloaded(e, 0, n) = Extent(0, n)
      BY <1>1, <1>2 DEF Unloaded, Extent
    <3>2. o.ent.loaded = Extent(0, o.ent.size)
      BY <1>5, <1>6, <2>2, <3>1, EntityParts
    <3>3. r.object \in {remote, o.ent.file}
      <4> DEFINE g == o.ent
      <4>1. EntityOK(g) /\ ~g.upload /\ g.loaded = Extent(0, g.size) /\ r \in RowFlush(g, TRUE)
        BY <1>6, <2>2, <3>2
      <4> HIDE DEF g
      <4>2. \/ r = Flushed(Clean(g), g.file, TRUE)
            \/ r = Flushed(g, g.file, FALSE) \/ r = Flushed(g, remote, FALSE)
        BY <1>1, <4>1, LoadedFlush
      <4>3. r.object \in {remote, g.file}
        BY <4>2 DEF Flushed
      <4>4. QED
        BY <4>3 DEF g
    <3>4. QED
      BY <1>1, <1>6, <3>3
  <2>3. QED
    BY <1>4, <2>1, <2>2
<1>8. ent' = ent /\ inorder' = inorder /\ ~IsOpen /\ ~inorder
  BY DEF TruncateClosed, InOrderInv
<1>9. QED
  BY <1>4, <1>7, <1>8, InOrderOpen DEF IsOpen

\* Reading, or truncating to its own size, a file written in order finds all of
\* it loaded and changes nothing.
LEMMA InOrderReadStep ==
  ASSUME TypeOK, InOrderInv, NEW start \in Sizes, NEW n \in 1 .. MaxSize, ReadFile(start, n)
  PROVE  InOrderInv'
<1>1. /\ inorder /\ Padded(remote) /\ Uploading(ent, want, remote, lastflush)
      /\ EntityOK(ent) /\ remote \in File /\ ent.refcnt > 0
  BY InOrderOpen DEF ReadFile, TypeOK, IsOpen
<1>2. Unloaded(ent, start, n) = {}
  BY <1>1, NothingToLoad, SizesAssumption DEF Uploading, Sizes
<1>3. ent' = ent /\ UNCHANGED <<remote, want, lastflush, inorder>>
  BY <1>2, Outcomes DEF ReadFile, Read
<1>4. QED
  BY <1>1, <1>3, InOrderOpen

\* Truncating it to another size ends the order.
LEMMA InOrderTruncateStep ==
  ASSUME TypeOK, InOrderInv, NEW n \in Sizes, TruncateFile(n), ent'.refcnt > 0 => inorder'
  PROVE  InOrderInv'
<1>1. /\ inorder /\ Padded(remote) /\ Uploading(ent, want, remote, lastflush)
      /\ EntityOK(ent) /\ remote \in File /\ ent.refcnt > 0 /\ n \in Nat
  BY InOrderOpen, SizesAssumption DEF TruncateFile, TypeOK, IsOpen, Sizes
<1>2. PICK o \in TruncateOpen(ent, n) :
        /\ ent' = o.ent
        /\ n = ent.size => UNCHANGED <<want, lastflush>>
        /\ inorder' = (inorder /\ n = ent.size) /\ remote' = remote
  BY DEF TruncateFile
<1>3. o.ent.refcnt = ent.refcnt
  BY <1>1, TruncateOpenType
<1>4. n = ent.size
  BY <1>1, <1>2, <1>3
<1> DEFINE e == [ent EXCEPT !.refcnt = @ + 1]
<1>5. /\ EntityOK(e) /\ e \in Entity /\ e.size = ent.size /\ e.loaded = Extent(0, e.size)
      /\ [e EXCEPT !.refcnt = ent.refcnt] = ent
  <2>1. ent \in Entity
    BY <1>1, EntityParts
  <2>0. ent.refcnt + 1 \in Nat
    BY <2>1 DEF Entity
  <2>2. e \in Entity /\ e.size = ent.size /\ e.loaded = ent.loaded
        /\ [e EXCEPT !.refcnt = ent.refcnt] = ent
    BY <2>1, <2>0 DEF Entity
  <2> HIDE DEF e
  <2>3. QED
    BY <1>1, <2>2 DEF EntityOK, Uploading
<1> HIDE DEF e
<1>6. \A p \in Load(e, 0, n) : p = Done(e)
  BY <1>1, <1>5, NothingToLoad
<1>7. Ftruncate(e, n) = {Done(e)}
  BY <1>4, <1>5 DEF Ftruncate
<1>8. PICK p \in Load(e, 0, n) :
        o \in IF ~p.ok THEN {Failed([p.ent EXCEPT !.refcnt = ent.refcnt])}
              ELSE {[r EXCEPT !.ent.refcnt = ent.refcnt] : r \in Ftruncate(p.ent, n)}
  BY DEF TruncateOpen, e
<1>9. o = [Done(e) EXCEPT !.ent.refcnt = ent.refcnt]
  BY <1>6, <1>7, <1>8, Outcomes
<1>10. o.ent = [e EXCEPT !.refcnt = ent.refcnt]
  BY <1>9 DEF Done
<1>11. ent' = ent /\ UNCHANGED <<remote, want, lastflush>> /\ inorder'
  BY <1>1, <1>2, <1>4, <1>5, <1>10
<1>12. QED
  BY <1>1, <1>11, InOrderOpen

\* Writing.
LEMMA InOrderWriteStep ==
  ASSUME SafeDisk = {FALSE}, TypeOK, InOrderInv, NEW start \in Sizes,
         NEW n \in 1 .. MaxSize, NEW b \in Byte, WriteFile(start, n, b),
         TypeOK', ent'.refcnt > 0 => inorder'
  PROVE  InOrderInv'
<1>1. /\ inorder /\ Padded(remote) /\ Uploading(ent, want, remote, lastflush)
      /\ EntityOK(ent) /\ remote \in File /\ want \in File /\ ent.refcnt > 0
      /\ start + n <= MaxSize
  BY InOrderOpen DEF WriteFile, TypeOK, IsOpen
<1>2. PICK o \in Write(ent, start, n, b) :
        /\ ent' = o.ent
        /\ want' = IF o.ok THEN Overlay(want, start, n, b) ELSE want
        /\ lastflush' = IF o.ok THEN "due" ELSE lastflush
        /\ inorder' = (inorder /\ o.ok /\ start = ent.size) /\ remote' = remote
  BY DEF WriteFile
<1>3. CASE inorder'
  <2>1. o.ok /\ start = ent.size
    BY <1>2, <1>3
  <2>2. /\ Uploading(o.ent, Overlay(want, start, n, b), remote, "due")
        /\ o.ent.refcnt = ent.refcnt
    BY <1>1, <2>1, WritesOn
  <2>3. QED
    BY <1>1, <1>2, <1>3, <2>1, <2>2, InOrderOpen
<1>4. CASE ~inorder'
  BY <1>1, <1>2, <1>4, InOrderOpen
<1>5. QED
  BY <1>3, <1>4

\* Flushing.
LEMMA InOrderFlushStep ==
  ASSUME SafeDisk = {FALSE}, HeadersMayFail = FALSE, TypeOK, InOrderInv, FlushFile,
         ent'.refcnt > 0 => inorder'
  PROVE  InOrderInv'
<1>1. /\ inorder /\ Padded(remote) /\ Uploading(ent, want, remote, lastflush)
      /\ EntityOK(ent) /\ remote \in File /\ want \in File /\ ent.refcnt > 0
  BY InOrderOpen DEF FlushFile, TypeOK, IsOpen
<1>2. PICK r \in RowFlush(ent, FALSE) :
        /\ ent' = r.ent /\ remote' = r.object
        /\ lastflush' = IF r.ok THEN "ok" ELSE "failed"
        /\ want' = want /\ inorder' = inorder
  BY DEF FlushFile
<1>3. Padded(r.object) /\ r.ent.refcnt = ent.refcnt
      /\ Uploading(r.ent, want, r.object, IF r.ok THEN "ok" ELSE "failed")
  BY <1>1, FlushEnds
<1>4. QED
  BY <1>1, <1>2, <1>3, InOrderOpen

\* A step that touches nothing but the reference count or the pending flag.
LEMMA InOrderBookkeeping ==
  ASSUME InOrderInv, IsOpen, ent'.refcnt > 0, ent'.size = ent.size, ent'.file = ent.file,
         ent'.loaded = ent.loaded, ent'.upload = ent.upload, ent'.flushed = ent.flushed,
         ent'.is_modify = ent.is_modify, ent'.posted = ent.posted,
         ent'.mp_start = ent.mp_start, ent'.mp_size = ent.mp_size,
         UNCHANGED <<remote, want, lastflush, inorder>>
  PROVE  InOrderInv'
<1>1. inorder /\ Padded(remote) /\ Uploading(ent, want, remote, lastflush)
  BY InOrderOpen
<1>2. Posts(ent, want) => Posts(ent', want)
  BY DEF Posts
<1>3. Uploading(ent', want, remote, lastflush)
  BY <1>1, <1>2 DEF Uploading
<1>4. QED
  BY <1>1, <1>3, InOrderOpen

\* The initial states satisfy the invariant.
LEMMA InOrderInit == Init => InOrderInv
<1> SUFFICES ASSUME Init PROVE InOrderInv
  OBVIOUS
<1>1. PICK n \in Sizes : remote = [len |-> n,
        at |-> [i \in Pos |-> IF i < n THEN Initial ELSE Zero]]
  BY DEF Init
<1>3. Padded(remote)
  BY <1>1, SizesAssumption DEF Padded, Pos, Sizes
<1>2. ~inorder /\ ~IsOpen
  BY ClosedType DEF Init, IsOpen
<1>4. QED
  BY <1>2, <1>3 DEF InOrderInv

\* Every step of the use in order keeps it.
LEMMA InOrderStep ==
  ASSUME SafeDisk = {FALSE}, HeadersMayFail = FALSE, TypeOK, InOrderInv, [InOrderNext]_vars
  PROVE  InOrderInv'
<1>1. CASE UNCHANGED vars
  BY <1>1 DEF vars, InOrderInv, Uploading, Posts, Padded, IsOpen
<1>2. CASE InOrderNext
  <2>1. Next /\ (ent'.refcnt > 0 => inorder') /\ TypeOK'
    BY <1>2, NextTypeOK DEF InOrderNext
  <2>2. ent \in Entity /\ ent.refcnt \in Nat
    BY EntityParts DEF TypeOK, Entity
  <2>3. CASE OpenAgain
    <3>1. ent' = [ent EXCEPT !.refcnt = ent.refcnt + 1]
      BY <2>3 DEF OpenAgain
    <3>2. QED
      BY <2>2, <2>3, <3>1, InOrderBookkeeping DEF OpenAgain, Entity
  <2>4. CASE ChangeMetadata
    <3>1. ent.refcnt > 0
      BY <2>4 DEF ChangeMetadata, IsOpen
    <3>2. QED
      BY <2>2, <2>4, <3>1, InOrderBookkeeping DEF ChangeMetadata, Entity
  <2>5. CASE Release
    <3>1. CASE ent.refcnt > 1 /\ ent' = [ent EXCEPT !.refcnt = @ - 1]
               /\ UNCHANGED <<want, lastflush, regrown, dropped, inorder>>
      BY <2>2, <2>5, <3>1, InOrderBookkeeping DEF Release, Entity
    <3>2. CASE Opens(Closed)
      <4>1. ent' = Closed /\ (inorder' => ent'.refcnt > 0)
        BY <3>2 DEF Opens
      <4>2. Padded(remote')
        BY <2>5 DEF Release, InOrderInv, Padded
      <4>3. QED
        BY <4>1, <4>2, ClosedType, InOrderOpen
    <3>3. QED
      BY <2>5, <3>1, <3>2 DEF Release
  <2>6. CASE Open
    BY <2>1, <2>6, InOrderOpenStep
  <2>7. CASE OpenTruncated
    BY <2>7, InOrderOpenTruncatedStep
  <2>8. CASE FlushFile
    BY <2>1, <2>8, InOrderFlushStep
  <2>9. CASE \E n \in Sizes : TruncateClosed(n)
    BY <2>9, InOrderTruncateClosedStep
  <2>10. CASE \E n \in Sizes : TruncateFile(n)
    BY <2>1, <2>10, InOrderTruncateStep
  <2>11. CASE \E start \in Sizes, n \in 1 .. MaxSize : ReadFile(start, n)
    BY <2>11, InOrderReadStep
  <2>12. CASE \E start \in Sizes, n \in 1 .. MaxSize, b \in Byte : WriteFile(start, n, b)
    BY <2>1, <2>12, InOrderWriteStep
  <2>13. QED
    BY <2>1, <2>3, <2>4, <2>5, <2>6, <2>7, <2>8, <2>9, <2>10, <2>11, <2>12 DEF Next
<1>3. QED
  BY <1>1, <1>2

\* Without space on the disk, a new file written at its end by writes that all
\* succeed is whole in the object after a flush that returns 0, for parts of any
\* size, if the headers of a pending change can be put.
THEOREM InOrderCorrect ==
  SafeDisk = {FALSE} /\ HeadersMayFail = FALSE => (InOrderSpec => []WrittenInOrderIsWhole)
<1> SUFFICES ASSUME SafeDisk = {FALSE}, HeadersMayFail = FALSE
             PROVE  InOrderSpec => []WrittenInOrderIsWhole
  OBVIOUS
<1>1. Init => TypeOK /\ InOrderInv
  BY InitTypeOK, InOrderInit
<1>2. TypeOK /\ InOrderInv /\ [InOrderNext]_vars => (TypeOK /\ InOrderInv)'
  <2>1. [InOrderNext]_vars => [Next]_vars
    BY DEF InOrderNext
  <2>2. QED
    BY <2>1, NextTypeOK, InOrderStep
<1>3. InOrderInv => WrittenInOrderIsWhole
  BY DEF InOrderInv, Uploading, WrittenInOrderIsWhole
<1>4. QED
  BY <1>1, <1>2, <1>3, PTL DEF InOrderSpec

-----------------------------------------------------------------------------
(***************************************************************************)
(* CacheFile.                                                              *)
(***************************************************************************)

-----------------------------------------------------------------------------
(***************************************************************************)
(* The lines of a text.                                                    *)
(***************************************************************************)
\* A set of naturals that is not empty has a least element.
LEMMA Least ==
  ASSUME NEW T \in SUBSET Nat, T # {}
  PROVE  \E x \in T : \A y \in T : x <= y
<1>1. PICK R : /\ IsWellFoundedOn(R, Nat)
               /\ \A x \in Nat, y \in Nat : y < x => <<y, x>> \in R
  <2>1. \A x \in Nat, y \in Nat : y < x => <<y, x>> \in OpToRel(<, Nat)
    BY DEF OpToRel
  <2>2. QED
    BY <2>1, NatLessThanWellFounded, Zenon
<1>2. PICK x \in T : \A y \in T : ~(<<y, x>> \in R)
  BY <1>1, WFMin
<1>3. \A y \in T : ~(y < x)
  BY <1>1, <1>2, Zenon
<1>4. QED
  BY <1>3

\* The members of S below i.
Below(S, i) == {j \in S : j < i}

\* Where the value of a flag changes, and the position with k - 1 changes before it.
Changes(size, loaded) ==
  {i \in Extent(0, size) : i = 0 \/ (i \in loaded) # (i - 1 \in loaded)}

Nth(S, size, k) == CHOOSE i \in S \cup {size} : Cardinality(Below(S, i)) = k - 1

\* The members of a finite set that are below a position, in number.
LEMMA BelowCounts ==
  ASSUME NEW size \in Nat, NEW S \in SUBSET Extent(0, size)
  PROVE  /\ IsFiniteSet(S) /\ Cardinality(S) \in Nat
         /\ \A i \in Nat : /\ IsFiniteSet(Below(S, i)) /\ Cardinality(Below(S, i)) \in Nat
                           /\ Cardinality(Below(S, i + 1)) =
                                IF i \in S THEN Cardinality(Below(S, i)) + 1
                                ELSE Cardinality(Below(S, i))
         /\ Below(S, size) = S /\ Cardinality(Below(S, 0)) = 0
         /\ \A i \in Nat, j \in Nat :
              i <= j => Cardinality(Below(S, i)) <= Cardinality(Below(S, j))
<1>1. /\ S \subseteq Nat /\ \A i \in S : i < size
  BY DEF Extent
<1>2. IsFiniteSet(0 .. (size - 1))
  BY FS_Interval
<1>3. IsFiniteSet(S)
  BY <1>2, FS_Subset DEF Extent
<1>4. ASSUME NEW i PROVE IsFiniteSet(Below(S, i)) /\ Cardinality(Below(S, i)) \in Nat
  <2>1. Below(S, i) \in SUBSET S
    BY DEF Below
  <2>2. QED
    BY <1>3, <2>1, FS_Subset, FS_CardinalityType
<1>5. ASSUME NEW i \in Nat
      PROVE  Cardinality(Below(S, i + 1)) = IF i \in S THEN Cardinality(Below(S, i)) + 1
                                            ELSE Cardinality(Below(S, i))
  <2>1. CASE i \in S
    <3>1. (\A j \in S : j < i + 1 <=> j < i \/ j = i) /\ ~(i < i)
      BY <1>1
    <3>2. Below(S, i + 1) = Below(S, i) \cup {i} /\ i \notin Below(S, i)
      BY <2>1, <3>1, Zenon DEF Below
    <3>3. QED
      BY <1>4, <2>1, <3>2, FS_AddElement
  <2>2. CASE i \notin S
    <3>1. \A j \in S : j < i + 1 <=> j < i
      BY <1>1, <2>2
    <3>2. Below(S, i + 1) = Below(S, i)
      BY <3>1, Zenon DEF Below
    <3>3. QED
      BY <2>2, <3>2
  <2>3. QED
    BY <2>1, <2>2
<1>6. Below(S, size) = S
  BY <1>1 DEF Below
<1>7. Cardinality(Below(S, 0)) = 0
  <2>1. \A j \in S : ~(j < 0)
    BY <1>1
  <2>2. Below(S, 0) = {}
    BY <2>1, Zenon DEF Below
  <2>3. QED
    BY <2>2, FS_EmptySet
<1>8. ASSUME NEW i \in Nat, NEW j \in Nat, i <= j
      PROVE  Cardinality(Below(S, i)) <= Cardinality(Below(S, j))
  <2>1. \A m \in S : m < i => m < j
    BY <1>1, <1>8
  <2>2. Below(S, i) \in SUBSET Below(S, j)
    BY <2>1, Zenon DEF Below
  <2>3. QED
    BY <1>4, <2>2, FS_Subset
<1>9. QED
  BY <1>3, <1>4, <1>5, <1>6, <1>7, <1>8, FS_CardinalityType

\* For each k up to one more than S has members, there is a k-th position: a
\* member, or size after the last.
LEMMA NthOf ==
  ASSUME NEW size \in Nat, NEW S \in SUBSET Extent(0, size), NEW k \in 1 .. Cardinality(S) + 1
  PROVE  /\ Nth(S, size, k) \in S \cup {size}
         /\ Cardinality(Below(S, Nth(S, size, k))) = k - 1
<1> DEFINE T == {m \in 0 .. size : m = size \/ Cardinality(Below(S, m + 1)) > k - 1}
<1>1. Cardinality(S) \in Nat /\ k \in Nat /\ 1 <= k /\ k <= Cardinality(S) + 1
  BY BelowCounts
<1>2. T \subseteq Nat /\ size \in T
  OBVIOUS
<1>3. PICK m \in T : \A y \in T : m <= y
  BY <1>2, Least
<1>4. Cardinality(Below(S, m)) <= k - 1 /\ Cardinality(Below(S, m)) \in Nat
  <2>1. CASE m = 0
    BY <1>1, <2>1, BelowCounts
  <2>2. CASE m # 0
    <3>1. m - 1 \in 0 .. size /\ m - 1 \in Nat /\ (m - 1) + 1 = m /\ ~(m <= m - 1)
      BY <1>2, <2>2
    <3>2. m - 1 \notin T
      BY <1>3, <3>1
    <3>3. Cardinality(Below(S, m)) \in Nat
      BY BelowCounts
    <3>4. QED
      BY <1>1, <3>1, <3>2, <3>3
  <2>3. QED
    BY <2>1, <2>2
<1>5. m \in S \cup {size} /\ Cardinality(Below(S, m)) = k - 1
  <2>1. CASE m = size
    BY <1>1, <1>4, <2>1, BelowCounts
  <2>2. CASE m # size
    <3>1. m \in Nat /\ Cardinality(Below(S, m + 1)) > k - 1
      BY <2>2
    <3>2. Cardinality(Below(S, m + 1)) = IF m \in S THEN Cardinality(Below(S, m)) + 1
                                         ELSE Cardinality(Below(S, m))
      BY <3>1, BelowCounts
    <3>3. QED
      BY <1>1, <1>4, <3>1, <3>2
  <2>3. QED
    BY <2>1, <2>2
<1>6. QED
  BY <1>5 DEF Nth

\* Up to the last member, the next position is a later one, with no member between.
LEMMA NthRises ==
  ASSUME NEW size \in Nat, NEW S \in SUBSET Extent(0, size), NEW k \in 1 .. Cardinality(S)
  PROVE  LET a == Nth(S, size, k)
             b == Nth(S, size, k + 1)
         IN  /\ a \in S /\ a \in Nat /\ b \in Nat /\ a < b /\ b <= size
             /\ \A j \in S : ~(a < j /\ j < b)
<1> DEFINE a == Nth(S, size, k)
           b == Nth(S, size, k + 1)
<1>1. Cardinality(S) \in Nat /\ k \in 1 .. Cardinality(S) + 1 /\ k + 1 \in 1 .. Cardinality(S) + 1
  BY BelowCounts
<1>2. a \in S \cup {size} /\ Cardinality(Below(S, a)) = k - 1
  BY <1>1, NthOf
<1>3. b \in S \cup {size} /\ Cardinality(Below(S, b)) = (k + 1) - 1
  BY <1>1, NthOf
<1> HIDE DEF a, b
<1>4. a \in Nat /\ b \in Nat /\ b <= size
  BY <1>2, <1>3 DEF Extent
<1>5. a \in S
  <2>1. CASE a = size
    <3>1. Cardinality(Below(S, a)) = Cardinality(S)
      BY <2>1, BelowCounts
    <3>2. QED
      BY <1>1, <1>2, <3>1
  <2>2. QED
    BY <1>2, <2>1
<1>6. a < b
  <2>1. CASE b <= a
    <3>1. Cardinality(Below(S, b)) <= Cardinality(Below(S, a))
      BY <1>4, <2>1, BelowCounts
    <3>2. QED
      BY <1>1, <1>2, <1>3, <3>1
  <2>2. QED
    BY <1>4, <2>1
<1>7. ASSUME NEW j \in S, a < j, j < b PROVE FALSE
  <2>1. j \in Nat /\ a + 1 \in Nat /\ j + 1 \in Nat /\ a + 1 <= j /\ j + 1 <= b
    BY <1>4, <1>7 DEF Extent
  <2>2. Cardinality(Below(S, a + 1)) <= Cardinality(Below(S, j))
    BY <1>4, <2>1, BelowCounts
  <2>3. Cardinality(Below(S, j + 1)) <= Cardinality(Below(S, b))
    BY <1>4, <2>1, BelowCounts
  <2>4. Cardinality(Below(S, a + 1)) = Cardinality(Below(S, a)) + 1
    BY <1>4, <1>5, BelowCounts
  <2>5. Cardinality(Below(S, j + 1)) = Cardinality(Below(S, j)) + 1 /\ Cardinality(Below(S, j)) \in Nat
    BY <2>1, BelowCounts
  <2>6. QED
    BY <1>1, <1>2, <1>3, <2>2, <2>3, <2>4, <2>5
<1>8. QED
  BY <1>4, <1>5, <1>6, <1>7 DEF a, b

-----------------------------------------------------------------------------
(***************************************************************************)
(* Texts.                                                                  *)
(***************************************************************************)
LineSet == [offset : Sizes, bytes : Sizes, loaded : BOOLEAN]

\* The texts a path can have.
AText == Text \cup {NewText, NoText}

\* LinesOf with its local definitions.
LEMMA LinesAre ==
  ASSUME NEW size, NEW loaded
  PROVE  LinesOf(size, loaded) =
           IF size = 0 THEN <<Line(0, 0, FALSE)>>
           ELSE [k \in 1 .. Cardinality(Changes(size, loaded)) |->
                   Line(Nth(Changes(size, loaded), size, k),
                        Nth(Changes(size, loaded), size, k + 1),
                        Nth(Changes(size, loaded), size, k) \in loaded)]
BY DEF LinesOf, Changes, Nth, Below

\* A line of a list: its ends are positions where the flag changes, and a line
\* that is flagged covers loaded positions only.
LEMMA LineParts ==
  ASSUME NEW size \in Sizes, NEW loaded,
         NEW k \in 1 .. Cardinality(Changes(size, loaded))
  PROVE  LET S == Changes(size, loaded)
             line == Line(Nth(S, size, k), Nth(S, size, k + 1), Nth(S, size, k) \in loaded)
         IN  /\ line \in LineSet
             /\ line.loaded => \A i \in Nat : Covers(line, i) => i \in loaded
<1> DEFINE S == Changes(size, loaded)
           a == Nth(S, size, k)
           b == Nth(S, size, k + 1)
<1>1. size \in Nat /\ size <= MaxSize /\ S \in SUBSET Extent(0, size) /\ k \in 1 .. Cardinality(S)
  BY SizesAssumption DEF Changes, Sizes
<1>2. /\ a \in S /\ a \in Nat /\ b \in Nat /\ a < b /\ b <= size
      /\ \A j \in S : ~(a < j /\ j < b)
  BY <1>1, NthRises
<1>3. \A j \in Extent(0, size) : j \notin S => j # 0 /\ (j \in loaded <=> j - 1 \in loaded)
  BY DEF Changes
<1> HIDE DEF S, a, b
<1>4. Line(a, b, a \in loaded) \in LineSet
  <2>1. a \in Sizes /\ b - a \in Sizes
    BY <1>1, <1>2, SizesAssumption DEF Sizes
  <2>2. (a \in loaded) \in BOOLEAN
    OBVIOUS
  <2>3. QED
    BY <2>1, <2>2, Zenon DEF Line, LineSet
<1>5. ASSUME a \in loaded, NEW i \in Nat, a <= i, i < b, i \notin loaded PROVE FALSE
  <2> DEFINE T == {j \in Nat : a <= j /\ j < b /\ j \notin loaded}
  <2>1. PICK m \in T : \A y \in T : m <= y
    <3>1. T \in SUBSET Nat /\ i \in T
      BY <1>5
    <3>2. QED
      BY <3>1, Least
  <2>2. m \in Nat /\ a < m /\ m < b /\ m \notin loaded
    <3>1. m # a
      BY <1>5
    <3>2. QED
      BY <1>2, <3>1
  <2>3. m \in Extent(0, size) /\ m \notin S
    BY <1>1, <1>2, <2>2 DEF Extent
  <2>4. m - 1 \notin loaded
    BY <1>3, <2>2, <2>3
  <2>5. m - 1 \in Nat /\ a <= m - 1 /\ m - 1 < b /\ ~(m <= m - 1)
    BY <1>2, <2>2
  <2>6. m - 1 \in T
    BY <2>4, <2>5
  <2>7. QED
    BY <2>1, <2>5, <2>6
<1>6. ASSUME a \in loaded, NEW i \in Nat, Covers(Line(a, b, a \in loaded), i)
      PROVE  i \in loaded
  <2>1. a <= i /\ i < a + (b - a)
    BY <1>6 DEF Covers, Line
  <2>2. QED
    BY <1>2, <1>5, <1>6, <2>1
<1>7. Line(a, b, a \in loaded).loaded => a \in loaded
  BY DEF Line
<1>8. QED
  BY <1>4, <1>6, <1>7 DEF S, a, b

\* The lines of a list are lines, and those that are flagged cover loaded
\* positions only.
LEMMA LinesType ==
  ASSUME NEW size \in Sizes, NEW loaded
  PROVE  LET lines == LinesOf(size, loaded)
         IN  /\ lines \in Seq(LineSet) /\ Len(lines) \in Nat /\ DOMAIN lines = 1 .. Len(lines)
             /\ \A k \in 1 .. Len(lines) : \A i \in Nat :
                  lines[k].loaded /\ Covers(lines[k], i) => i \in loaded
             /\ size = 0 => Len(lines) = 1 /\ lines[1] = Line(0, 0, FALSE)
<1> DEFINE lines == LinesOf(size, loaded)
<1>1. CASE size = 0
  <2>1. lines = <<Line(0, 0, FALSE)>>
    BY <1>1, LinesAre
  <2>2. Line(0, 0, FALSE) \in LineSet /\ ~Line(0, 0, FALSE).loaded
    <3>1. 0 \in Sizes /\ 0 - 0 \in Sizes /\ FALSE \in BOOLEAN
      BY SizesAssumption DEF Sizes
    <3>2. Line(0, 0, FALSE) \in LineSet
      BY <3>1, Zenon DEF Line, LineSet
    <3>3. QED
      BY <3>2 DEF Line
  <2> HIDE DEF lines
  <2>3. /\ lines \in Seq(LineSet) /\ Len(lines) = 1 /\ lines[1] = Line(0, 0, FALSE)
        /\ DOMAIN lines = 1 .. 1
    <3>1. \A z \in LineSet : /\ <<z>> \in Seq(LineSet) /\ Len(<<z>>) = 1 /\ <<z>>[1] = z
                             /\ DOMAIN <<z>> = 1 .. 1
      OBVIOUS
    <3>2. QED
      BY <2>1, <2>2, <3>1, Zenon
  <2>4. \A k \in 1 .. 1 : k = 1
    OBVIOUS
  <2>5. Len(lines) \in Nat /\ DOMAIN lines = 1 .. Len(lines)
    BY <2>3
  <2>6. \A k \in 1 .. Len(lines) : ~lines[k].loaded
    BY <2>2, <2>3, <2>4, Zenon
  <2>7. QED
    BY <2>3, <2>5, <2>6, Zenon DEF lines
<1>2. CASE size # 0
  <2> DEFINE S == Changes(size, loaded)
             n == Cardinality(S)
             Nthline(k) == Line(Nth(S, size, k), Nth(S, size, k + 1), Nth(S, size, k) \in loaded)
  <2>1. lines = [k \in 1 .. n |-> Nthline(k)]
    BY <1>2, LinesAre
  <2>2. n \in Nat
    <3>1. size \in Nat /\ S \in SUBSET Extent(0, size)
      BY DEF Changes, Sizes
    <3>2. QED
      BY <3>1, BelowCounts
  <2>3. \A k \in 1 .. n : /\ Nthline(k) \in LineSet
                          /\ Nthline(k).loaded =>
                               \A i \in Nat : Covers(Nthline(k), i) => i \in loaded
    BY LineParts
  <2> HIDE DEF Nthline, lines, n
  <2>4. lines \in [1 .. n -> LineSet]
    BY <2>1, <2>3
  <2>5. lines \in Seq(LineSet) /\ Len(lines) = n /\ DOMAIN lines = 1 .. n
    BY <2>2, <2>4, SeqDef
  <2>6. \A k \in 1 .. n : lines[k] = Nthline(k)
    BY <2>1
  <2>7. QED
    BY <1>2, <2>2, <2>3, <2>5, <2>6 DEF lines
<1>3. QED
  BY <1>1, <1>2

\* The parts of a text.
LEMMA TextParts ==
  ASSUME NEW t \in AText
  PROVE  /\ t.lines \in Seq(LineSet) /\ Len(t.lines) \in Nat
         /\ DOMAIN t.lines = 1 .. Len(t.lines)
         /\ \A k \in 1 .. Len(t.lines) : t.lines[k] \in LineSet
<1>1. t.lines \in Seq(LineSet)
  <2>1. CASE t \in Text
    BY <2>1 DEF Text, LineSet
  <2>2. CASE t \in {NewText, NoText}
    <3>1. t.lines = <<>>
      BY <2>2 DEF NewText, NoText
    <3>2. QED
      BY <3>1, EmptySeq
  <2>3. QED
    BY <2>1, <2>2 DEF AText
<1>2. QED
  BY <1>1, LenProperties, ElementOfSeq

\* A text that is saved: the lines of the list, then what is left of the old.
LEMMA SaveParts ==
  ASSUME NEW t \in AText, NEW size \in Sizes, NEW loaded
  PROVE  LET lines == LinesOf(size, loaded)
             s == Save(t, size, loaded)
         IN  /\ s \in Text /\ s \in AText /\ s.total = size
             /\ Len(s.lines) = IF Len(lines) < Len(t.lines) THEN Len(t.lines) ELSE Len(lines)
             /\ \A k \in 1 .. Len(s.lines) :
                  s.lines[k] = IF k <= Len(lines) THEN lines[k] ELSE t.lines[k]
<1> DEFINE lines == LinesOf(size, loaded)
           rest == SubSeq(t.lines, Len(lines) + 1, Len(t.lines))
           s == Save(t, size, loaded)
<1>1. lines \in Seq(LineSet) /\ Len(lines) \in Nat
  BY LinesType
<1>2. /\ t.lines \in Seq(LineSet) /\ Len(t.lines) \in Nat
      /\ \A k \in 1 .. Len(t.lines) : t.lines[k] \in LineSet
  BY TextParts
<1> HIDE DEF lines
<1>3. /\ rest \in Seq(LineSet)
      /\ Len(rest) = IF Len(lines) + 1 <= Len(t.lines) THEN Len(t.lines) - Len(lines) ELSE 0
      /\ \A i \in 1 .. Len(t.lines) - Len(lines) : rest[i] = t.lines[Len(lines) + i]
  <2>1. Len(lines) + 1 \in Int /\ Len(t.lines) \in Int
    BY <1>1, <1>2
  <2>2. \A i \in Len(lines) + 1 .. Len(t.lines) : t.lines[i] \in LineSet
    BY <1>1, <1>2
  <2>3. /\ rest \in Seq(LineSet)
        /\ Len(rest) = IF Len(lines) + 1 <= Len(t.lines)
                         THEN Len(t.lines) - (Len(lines) + 1) + 1 ELSE 0
        /\ \A i \in 1 .. Len(t.lines) - (Len(lines) + 1) + 1 :
             rest[i] = t.lines[(Len(lines) + 1) + i - 1]
    BY <2>1, <2>2, SubSeqProperties
  <2>4. Len(t.lines) - (Len(lines) + 1) + 1 = Len(t.lines) - Len(lines)
    BY <1>1, <1>2
  <2>5. \A i \in 1 .. Len(t.lines) - Len(lines) : (Len(lines) + 1) + i - 1 = Len(lines) + i
    BY <1>1, <1>2
  <2>6. QED
    BY <2>3, <2>4, <2>5
<1> HIDE DEF rest
<1>4. /\ lines \o rest \in Seq(LineSet)
      /\ Len(lines \o rest) = Len(lines) + Len(rest)
      /\ \A i \in 1 .. Len(lines) + Len(rest) :
           (lines \o rest)[i] = IF i <= Len(lines) THEN lines[i] ELSE rest[i - Len(lines)]
  BY <1>1, <1>3, ConcatProperties
<1>5. s = [total |-> size, lines |-> lines \o rest]
  BY DEF Save, lines, rest
<1>6. s.total = size /\ s.lines = lines \o rest
  BY <1>5
<1>7. s \in Text
  BY <1>4, <1>5 DEF Text, LineSet
<1> HIDE DEF s
<1>8. Len(s.lines) = IF Len(lines) < Len(t.lines) THEN Len(t.lines) ELSE Len(lines)
  BY <1>1, <1>2, <1>3, <1>4, <1>6
<1>9. ASSUME NEW k \in 1 .. Len(s.lines)
      PROVE  s.lines[k] = IF k <= Len(lines) THEN lines[k] ELSE t.lines[k]
  <2>1. k \in 1 .. Len(lines) + Len(rest)
    BY <1>4, <1>6
  <2>2. s.lines[k] = IF k <= Len(lines) THEN lines[k] ELSE rest[k - Len(lines)]
    BY <1>4, <1>6, <2>1
  <2>3. CASE k <= Len(lines)
    BY <2>2, <2>3
  <2>4. CASE ~(k <= Len(lines))
    <3>1. k - Len(lines) \in 1 .. Len(t.lines) - Len(lines) /\ Len(lines) + (k - Len(lines)) = k
      BY <1>1, <1>2, <1>8, <2>4
    <3>2. QED
      BY <1>3, <2>2, <2>4, <3>1
  <2>5. QED
    BY <2>3, <2>4
<1>10. QED
  BY <1>6, <1>7, <1>8, <1>9 DEF s, lines, AText

\* What a text says to be loaded, once it is read.
Claims(t) == IF Readable(t) THEN LoadedIn(t) ELSE {}

\* Claims are positions; a text without lines has none.
LEMMA ClaimsInside ==
  /\ \A t : Claims(t) \subseteq Pos
  /\ Claims(NewText) = {} /\ Claims(NoText) = {}
  /\ Claims(Touched) = Claims(text)
<1>1. \A t : Claims(t) \subseteq Pos
  BY DEF Claims, LoadedIn
<1>2. DOMAIN <<>> = {}
  OBVIOUS
<1>3. DOMAIN NewText.lines = {} /\ DOMAIN NoText.lines = {}
  BY <1>2 DEF NewText, NoText
<1>4. Claims(NewText) = {} /\ Claims(NoText) = {}
  BY <1>3 DEF Claims, LoadedIn
<1>5. QED
  BY <1>1, <1>4 DEF Touched

\* A surplus is at most a tail; without one a text claims only what is loaded.
LEMMA SurplusParts ==
  ASSUME NEW t, NEW loaded
  PROVE  /\ Surplus(t, loaded) \subseteq {"tail"}
         /\ Surplus(t, loaded) = {} => Claims(t) \subseteq loaded
<1>1. CASE Readable(t) /\ ~(LoadedIn(t) \subseteq loaded)
  BY <1>1 DEF Surplus
<1>2. CASE ~(Readable(t) /\ ~(LoadedIn(t) \subseteq loaded))
  BY <1>2, Zenon DEF Surplus, Claims
<1>3. QED
  BY <1>1, <1>2

\* A list that is written to a new text claims what is loaded.
LEMMA NewSaveClaims ==
  ASSUME NEW size \in Sizes, NEW loaded
  PROVE  Claims(Save(NewText, size, loaded)) \subseteq loaded
<1> DEFINE lines == LinesOf(size, loaded)
           s == Save(NewText, size, loaded)
<1>1. NewText \in AText /\ Len(NewText.lines) = 0
  BY DEF AText, NewText
<1>2. /\ s \in AText
      /\ Len(s.lines) = IF Len(lines) < Len(NewText.lines) THEN Len(NewText.lines) ELSE Len(lines)
      /\ \A k \in 1 .. Len(s.lines) :
           s.lines[k] = IF k <= Len(lines) THEN lines[k] ELSE NewText.lines[k]
  BY <1>1, SaveParts
<1>3. /\ Len(lines) \in Nat
      /\ \A k \in 1 .. Len(lines) : \A i \in Nat :
           lines[k].loaded /\ Covers(lines[k], i) => i \in loaded
  BY LinesType
<1>4. DOMAIN s.lines = 1 .. Len(s.lines)
  BY <1>2, TextParts
<1> HIDE DEF s, lines
<1>5. Len(s.lines) = Len(lines)
  BY <1>1, <1>2, <1>3
<1>6. ASSUME NEW i \in LoadedIn(s) PROVE i \in loaded
  <2>1. PICK k \in DOMAIN s.lines : Covers(s.lines[k], i) /\ s.lines[k].loaded
    BY <1>6 DEF LoadedIn
  <2>2. i \in Nat
    BY <1>6, SizesAssumption DEF LoadedIn, Pos
  <2>3. k \in 1 .. Len(lines) /\ k <= Len(lines) /\ s.lines[k] = lines[k]
    BY <1>2, <1>3, <1>4, <1>5, <2>1
  <2>4. QED
    BY <1>3, <2>1, <2>2, <2>3
<1>7. QED
  BY <1>6 DEF Claims, s

\* A text whose lines cover nothing claims nothing after an empty list is
\* written over it.
LEMMA EmptySaveClaims ==
  ASSUME NEW t \in AText, SizeIn(t) = 0, NEW loaded
  PROVE  Claims(Save(t, 0, loaded)) = {}
<1> DEFINE lines == LinesOf(0, loaded)
           s == Save(t, 0, loaded)
           covered == {i \in Pos : \E k \in DOMAIN t.lines : \E j \in Pos :
                                     i <= j /\ Covers(t.lines[k], j)}
<1>1. 0 \in Sizes
  BY SizesAssumption DEF Sizes
<1>2. /\ s \in AText
      /\ Len(s.lines) = IF Len(lines) < Len(t.lines) THEN Len(t.lines) ELSE Len(lines)
      /\ \A k \in 1 .. Len(s.lines) : s.lines[k] = IF k <= Len(lines) THEN lines[k] ELSE t.lines[k]
  BY <1>1, SaveParts
<1>3. Len(lines) = 1 /\ lines[1] = Line(0, 0, FALSE)
  BY <1>1, LinesType
<1>4. DOMAIN s.lines = 1 .. Len(s.lines)
  BY <1>2, TextParts
<1>5. DOMAIN t.lines = 1 .. Len(t.lines) /\ Len(t.lines) \in Nat
  BY TextParts
<1>6. covered = {}
  <2>1. IsFiniteSet(0 .. (Cap - 1))
    BY SizesAssumption, FS_Interval
  <2>2. covered \in SUBSET (0 .. (Cap - 1))
    BY DEF Pos
  <2>3. IsFiniteSet(covered)
    BY <2>1, <2>2, FS_Subset
  <2>4. Cardinality(covered) = 0
    BY DEF SizeIn
  <2>5. QED
    BY <2>3, <2>4, FS_EmptySet
<1>7. ASSUME NEW k \in DOMAIN t.lines, NEW j \in Pos, Covers(t.lines[k], j) PROVE FALSE
  <2>1. j <= j
    BY <1>7, SizesAssumption DEF Pos
  <2>2. j \in covered
    BY <1>7, <2>1, Zenon
  <2>3. QED
    BY <1>6, <2>2
<1> HIDE DEF s, lines, covered
<1>8. ASSUME NEW i \in LoadedIn(s) PROVE FALSE
  <2>1. i \in Pos
    BY <1>8 DEF LoadedIn
  <2>2. PICK k \in DOMAIN s.lines : Covers(s.lines[k], i) /\ s.lines[k].loaded
    BY <1>8 DEF LoadedIn
  <2>3. k \in 1 .. Len(s.lines)
    BY <1>4
  <2>4. s.lines[k] = IF k <= 1 THEN lines[k] ELSE t.lines[k]
    BY <1>2, <1>3, <2>3
  <2>5. CASE k <= 1
    <3>1. k = 1
      BY <2>3, <2>5
    <3>2. s.lines[k] = Line(0, 0, FALSE)
      BY <1>3, <2>4, <2>5, <3>1
    <3>3. QED
      BY <2>2, <3>2 DEF Line
  <2>6. CASE ~(k <= 1)
    <3>1. Len(s.lines) = IF 1 < Len(t.lines) THEN Len(t.lines) ELSE 1
      BY <1>2, <1>3
    <3>2. k \in 1 .. Len(t.lines)
      BY <1>5, <2>3, <2>6, <3>1
    <3>3. QED
      BY <1>5, <1>7, <2>1, <2>2, <2>4, <2>6, <3>2, Zenon
  <2>7. QED
    BY <2>5, <2>6
<1>9. QED
  BY <1>8 DEF Claims, s

\* The same list written twice leaves the text as written once.
LEMMA SaveTwice ==
  ASSUME NEW t \in AText, NEW size \in Sizes, NEW loaded
  PROVE  Save(Save(t, size, loaded), size, loaded) = Save(t, size, loaded)
<1> DEFINE lines == LinesOf(size, loaded)
           s == Save(t, size, loaded)
           u == Save(s, size, loaded)
<1>1. Len(lines) \in Nat
  BY LinesType
<1>2. /\ s \in Text /\ s \in AText /\ s.total = size
      /\ Len(s.lines) = IF Len(lines) < Len(t.lines) THEN Len(t.lines) ELSE Len(lines)
      /\ \A k \in 1 .. Len(s.lines) : s.lines[k] = IF k <= Len(lines) THEN lines[k] ELSE t.lines[k]
  BY SaveParts
<1>3. /\ u \in Text /\ u \in AText /\ u.total = size
      /\ Len(u.lines) = IF Len(lines) < Len(s.lines) THEN Len(s.lines) ELSE Len(lines)
      /\ \A k \in 1 .. Len(u.lines) : u.lines[k] = IF k <= Len(lines) THEN lines[k] ELSE s.lines[k]
  BY <1>2, SaveParts
<1>4. /\ Len(t.lines) \in Nat /\ s.lines \in Seq(LineSet) /\ u.lines \in Seq(LineSet)
      /\ Len(s.lines) \in Nat /\ Len(u.lines) \in Nat
  BY <1>2, <1>3, TextParts
<1> HIDE DEF u, s, lines
<1>5. Len(u.lines) = Len(s.lines)
  BY <1>1, <1>2, <1>3, <1>4
<1>6. \A k \in 1 .. Len(u.lines) : u.lines[k] = s.lines[k]
  BY <1>1, <1>2, <1>3, <1>4, <1>5
<1>7. u.lines = s.lines
  BY <1>4, <1>5, <1>6, SeqEqual
<1>8. u = s
  BY <1>2, <1>3, <1>7 DEF Text
<1>9. QED
  BY <1>8 DEF u, s

-----------------------------------------------------------------------------
(***************************************************************************)
(* The inductive invariant.                                                *)
(***************************************************************************)
\* A local file as long as the entity says, zero past its end, and no upload.
Sound(e) == EntityOK(e) /\ e.file.len = e.size /\ Padded(e.file) /\ ~e.upload

\* The bytes at these positions are the same in both files.
AgreeAt(places, f, g) == \A i \in places : ByteAt(f, i) = ByteAt(g, i)

\* Nothing waits for an upload, nor has been forgotten.
Saved == ~ent.is_modify /\ ~dropped

\* An entity without anything to save is a copy of the object; it has all of
\* it, or the object is as long as it was found.
Mirrors(e, obj) ==
  /\ Faithful(e, obj, {}, obj)
  /\ e.loaded = Extent(0, e.size) \/ e.orgsize = e.size

\* While the cache files are in use: a doubt that came up since the open only
\* allows less to be loaded than the text says.
LinkedOK ==
  /\ doubt \subseteq {"given up"} => (Saved => Mirrors(ent, remote))
  /\ doubt = {} => /\ Inductive
                   /\ Saved => \A i \in Claims(text) : i < ent.size => i \in ent.loaded

\* While they are not: the cache file agrees with the object wherever the text
\* says that it is loaded, and a file that lost its cache files has no text.
AtRest ==
  /\ doubt = {} => AgreeAt(Claims(text), data, remote)
  /\ IsOpen => text = NoText
  /\ ~IsOpen => (doubt \subseteq {"given up"} => doubt = {})

CacheInv ==
  /\ Padded(remote) /\ Padded(want) /\ Sound(ent)
  /\ IF linked THEN LinkedOK ELSE AtRest

\* A closed entity has a sound empty file.
LEMMA ClosedIsSound == Sound(Closed) /\ ~(Closed.refcnt > 0)
BY ClosedType DEF Sound, Closed, Empty, Padded

\* What follows a sound entity is sound.
LEMMA FollowsSound ==
  ASSUME NEW e, NEW g, Sound(e), Follows(g, e)
  PROVE  /\ Sound(g) /\ g.size = e.size /\ g.refcnt = e.refcnt /\ g.orgsize = e.orgsize
         /\ e.loaded \subseteq g.loaded
         /\ \A w \in File : Faithful(e, w, {}, remote) => Faithful(g, w, {}, remote)
BY DEF Sound, Follows

\* A sound entity is right for its own file, everything excepted.
LEMMA SoundIsRight ==
  ASSUME NEW e, Sound(e)
  PROVE  Right(e, e.file, Pos, remote) /\ e.file \in File
<1>1. EntityOK(e) /\ e.file.len = e.size /\ Padded(e.file) /\ ~e.upload
  BY DEF Sound
<1>2. Extent(0, e.size) \subseteq Pos /\ e.file \in File
  BY <1>1, EntityParts, SizesAssumption DEF Extent, Pos
<1>3. QED
  BY <1>1, <1>2 DEF Right, Faithful

\* What is right for some content is sound.
LEMMA RightIsSound ==
  ASSUME NEW e, NEW w, NEW cut, Right(e, w, cut, remote)
  PROVE  Sound(e)
BY DEF Right, Sound, Faithful

\* An entity that has loaded everything mirrors its own file.
LEMMA FullMirrors ==
  ASSUME NEW e, Sound(e), e.loaded = Extent(0, e.size)
  PROVE  Mirrors(e, e.file)
BY DEF Sound, Mirrors, Faithful

\* What the files of a path are opened as.
LEMMA OpenFilesParts ==
  ASSUME remote \in File, data \in File \cup {NoData}, text \in AText, NEW size \in Sizes
  PROVE  LET f == OpenFiles(size) IN
         /\ Sound(f.ent) /\ f.ent.size = size /\ f.ent.orgsize = remote.len
         /\ ~f.ent.is_modify /\ f.ent.refcnt = 1
         /\ f.ent.loaded \subseteq Claims(text)
         /\ \A i \in Claims(text) :
              ByteAt(f.ent.file, i) = IF i < size THEN ByteAt(data, i) ELSE Zero
         /\ f.text \in AText
         /\ size = 0 => \/ SizeIn(Touched) = 0 /\ f.text = Touched
                        \/ f.text = Save(Touched, 0, {})
<1> DEFINE f == OpenFiles(size)
           kept == Claims(Touched) \cap Extent(0, size)
           both == Readable(Touched) /\ data # NoData
           fits == both /\ SizeIn(Touched) = size
           was == IF both THEN data ELSE Empty
<1>1. /\ f.ent = [Opened(size) EXCEPT !.loaded = kept, !.file = Cut(was, size)]
      /\ f.text = IF fits THEN Touched ELSE Save(Touched, size, kept)
  <2>1. kept = IF Readable(Touched) THEN LoadedIn(Touched) \cap Extent(0, size) ELSE {}
    BY DEF Claims
  <2>2. QED
    BY <2>1, Zenon DEF OpenFiles
<1>2. /\ EntityOK(Opened(size)) /\ Opened(size).size = size /\ Opened(size).refcnt = 1
      /\ Opened(size).orgsize = remote.len /\ ~Opened(size).upload /\ ~Opened(size).is_modify
  BY OpenedParts
<1>3. was \in File
  BY EmptyType
<1>4. size \in 0 .. Cap /\ size <= MaxSize
  BY SizesAssumption DEF Sizes
<1>5. /\ Cut(was, size) \in File /\ Cut(was, size).len = size /\ Padded(Cut(was, size))
      /\ \A i \in Pos : Cut(was, size).at[i] =
           IF i < size /\ i < was.len THEN was.at[i] ELSE Zero
  BY <1>3, <1>4, CutType, CutParts
<1>6. Claims(Touched) = Claims(text) /\ Claims(text) \subseteq Pos
  BY ClaimsInside
<1>7. Touched \in AText
  BY DEF Touched, AText
<1>8. f.text \in AText
  BY <1>1, <1>7, SaveParts
<1>9. size = 0 => \/ SizeIn(Touched) = 0 /\ f.text = Touched
                  \/ f.text = Save(Touched, 0, {})
  <2>1. size = 0 => kept = {}
    BY DEF Extent
  <2>2. QED
    BY <1>1, <2>1
<1>10. \/ was = data
       \/ Claims(Touched) = {}
       \/ data = NoData /\ was = Empty
  BY Zenon DEF Claims
<1>11. ASSUME NEW i \in Claims(text)
       PROVE  ByteAt(Cut(was, size), i) = IF i < size THEN ByteAt(data, i) ELSE Zero
  <2>1. i \in Pos /\ i \in Claims(Touched)
    BY <1>6
  <2>2. ByteAt(Cut(was, size), i) = IF i < size THEN ByteAt(was, i) ELSE Zero
    BY <1>5, <2>1 DEF ByteAt
  <2>3. ByteAt(was, i) = ByteAt(data, i)
    <3>1. CASE was = data
      BY <3>1
    <3>2. CASE data = NoData /\ was = Empty
      <4>1. ~(i < was.len) /\ ~(i < data.len)
        BY <2>1, <3>2, SizesAssumption DEF Empty, NoData, Pos
      <4>2. QED
        BY <4>1 DEF ByteAt
    <3>3. QED
      BY <1>10, <2>1, <3>1, <3>2
  <2>4. QED
    BY <2>2, <2>3
<1> HIDE DEF f, was, kept
<1>12. f.ent.file = Cut(was, size) /\ f.ent.loaded = kept
  BY <1>1, <1>2 DEF EntityOK, Entity
<1>13. /\ f.ent.size = size /\ f.ent.refcnt = 1 /\ f.ent.orgsize = remote.len
       /\ ~f.ent.upload /\ ~f.ent.is_modify
  BY <1>1, <1>2 DEF EntityOK, Entity
<1>14. kept \subseteq Claims(text) /\ kept \subseteq Extent(0, size)
       /\ Extent(0, size) \subseteq Extent(0, MaxSize)
  BY <1>4, <1>6, SizesAssumption DEF kept, Extent
<1>15. EntityOK(f.ent)
  <2>1. f.ent \in Entity
    BY <1>1, <1>2, <1>5, <1>14 DEF EntityOK, Entity
  <2>2. QED
    BY <2>1, <1>12, <1>13, <1>14 DEF EntityOK
<1>16. Sound(f.ent)
  BY <1>5, <1>12, <1>13, <1>15 DEF Sound
<1>17. QED
  BY <1>8, <1>9, <1>11, <1>12, <1>13, <1>14, <1>16 DEF f

\* When what was loaded agrees with the object, the opened entity is right for
\* the object cut or extended to its size.
LEMMA OpenFilesFaithful ==
  ASSUME remote \in File, data \in File \cup {NoData}, text \in AText, NEW size \in Sizes,
         OpenFiles(size).ent.loaded = {} \/ AgreeAt(Claims(text), data, remote),
         NEW w \in File, w.len = size,
         \A i \in Extent(0, size) : w.at[i] = ByteAt(remote, i)
  PROVE  Faithful(OpenFiles(size).ent, w, {}, remote)
<1> DEFINE e == OpenFiles(size).ent
<1>1. /\ EntityOK(e) /\ e.file.len = e.size /\ e.size = size /\ e.orgsize = remote.len
      /\ e.loaded \subseteq Claims(text)
      /\ \A i \in Claims(text) :
           ByteAt(e.file, i) = IF i < size THEN ByteAt(data, i) ELSE Zero
  BY OpenFilesParts DEF Sound
<1>2. Extent(0, size) \subseteq Pos /\ size \in Nat
  BY SizesAssumption DEF Extent, Pos, Sizes
<1>3. e.loaded = {} \/ AgreeAt(Claims(text), data, remote)
  OBVIOUS
<1> HIDE DEF e
<1>4. ASSUME NEW i \in Extent(0, size)
      PROVE  IF i \in e.loaded THEN e.file.at[i] = w.at[i]
             ELSE IF i < e.orgsize THEN i < remote.len /\ remote.at[i] = w.at[i]
             ELSE w.at[i] = Zero
  <2>1. i \in Pos /\ i < size
    BY <1>2 DEF Extent
  <2>2. CASE i \in e.loaded
    <3>1. i \in Claims(text) /\ AgreeAt(Claims(text), data, remote)
      BY <1>1, <1>3, <2>2
    <3>2. ByteAt(e.file, i) = ByteAt(remote, i)
      BY <1>1, <2>1, <3>1 DEF AgreeAt
    <3>3. ByteAt(e.file, i) = e.file.at[i]
      BY <1>1, <2>1 DEF ByteAt
    <3>4. QED
      BY <2>2, <3>2, <3>3
  <2>3. CASE i \notin e.loaded
    BY <1>1, <2>1, <2>3 DEF ByteAt
  <2>4. QED
    BY <2>2, <2>3
<1>5. Faithful(e, w, {}, remote)
  BY <1>1, <1>4 DEF Faithful
<1>6. QED
  BY <1>5 DEF e

-----------------------------------------------------------------------------
(***************************************************************************)
(* The handlers on the open entity.                                        *)
(***************************************************************************)
\* What a handler promises for the cache: if nothing is left to save after it,
\* either nothing was before it and it has only loaded more, or it has uploaded
\* a file that is loaded as a whole.
Handled ==
  /\ Sound(ent') /\ ent'.refcnt = ent.refcnt /\ Padded(remote') /\ Padded(want')
  /\ \/ ent'.is_modify \/ dropped'
     \/ Saved /\ Follows(ent', ent) /\ remote' = remote
     \/ ent'.loaded = Extent(0, ent'.size) /\ remote' = ent'.file

\* A clean copy of a sound entity is sound, and otherwise the same.
LEMMA CleanIsSound ==
  ASSUME NEW g, Sound(g)
  PROVE  /\ Sound(Clean(g)) /\ Clean(g).file = g.file /\ Clean(g).loaded = g.loaded
         /\ Clean(g).size = g.size /\ Clean(g).refcnt = g.refcnt
         /\ Clean(g).orgsize = g.orgsize /\ ~Clean(g).is_modify
<1>1. /\ g \in Entity /\ g.loaded \subseteq Extent(0, g.size)
      /\ g.file.len = g.size /\ Padded(g.file) /\ ~g.upload
  BY DEF Sound, EntityOK
<1>2. /\ Clean(g) \in Entity /\ Clean(g).file = g.file /\ Clean(g).loaded = g.loaded
      /\ Clean(g).size = g.size /\ Clean(g).refcnt = g.refcnt /\ Clean(g).upload = g.upload
      /\ Clean(g).orgsize = g.orgsize /\ Clean(g).is_modify = FALSE
  BY <1>1 DEF Clean, Entity
<1>3. QED
  BY <1>1, <1>2 DEF Sound, EntityOK

\* With nothing to save after a load, there was nothing before it.
LEMMA NothingDropped ==
  ASSUME NEW e
  PROVE  e.is_modify \/ Drops(e) \/ Saved
BY DEF Drops, Saved

\* A method that ends by following the entity is handled.
LEMMA FollowingIsHandled ==
  ASSUME Sound(ent), Follows(ent', ent), dropped' = Drops(ent'),
         Padded(remote), Padded(want'), remote' = remote
  PROVE  Handled
<1>1. Sound(ent') /\ ent'.refcnt = ent.refcnt
  BY FollowsSound
<1>2. ent'.is_modify \/ Drops(ent') \/ Saved
  BY NothingDropped
<1>3. Padded(remote')
  OBVIOUS
<1>4. QED
  BY <1>1, <1>2, <1>3, Zenon DEF Handled

\* s3fs_read
LEMMA ReadHandled ==
  ASSUME SafeDisk = {TRUE}, TypeOK, Padded(remote), Padded(want), Sound(ent),
         NEW start \in Nat, ReadFile(start, 1)
  PROVE  Handled
<1>1. PICK o \in Read(ent, start, 1) : ent' = o.ent /\ dropped' = Drops(o.ent)
  BY DEF ReadFile
<1>2. remote' = remote /\ want' = want
  BY DEF ReadFile
<1>3. remote \in File /\ EntityOK(ent)
  BY DEF TypeOK
<1>4. 1 \in Nat
  OBVIOUS
<1>5. Follows(o.ent, ent)
  BY <1>3, <1>4, ReadFollows
<1>6. Padded(want')
  BY <1>2
<1>7. QED
  BY <1>1, <1>2, <1>5, <1>6, FollowingIsHandled

\* A write on a disk with space keeps the count of references.
LEMMA WriteRefcnt ==
  ASSUME SafeDisk = {TRUE}, remote \in File, NEW e, EntityOK(e), ~e.upload,
         NEW start \in Nat, NEW n \in Nat, start + n <= MaxSize, NEW b \in Byte,
         NEW o \in Write(e, start, n, b)
  PROVE  o.ent.refcnt = e.refcnt
<1>1. PICK p \in BeforeWrite(e, start) :
        o \in IF p.ok THEN {Failed(p.ent)} \cup AfterWrite(Pwrite(p.ent, start, n, b), start, n)
              ELSE {p}
  BY DEF Write
<1>2. Follows(p.ent, e)
  BY BeforeWriteFollows
<1>3. EntityOK(p.ent) /\ p.ent.refcnt = e.refcnt /\ p.ent.upload = e.upload
  BY <1>2 DEF Follows
<1> DEFINE q == Pwrite(p.ent, start, n, b)
<1>4. q.refcnt = p.ent.refcnt /\ q.upload = p.ent.upload
  BY <1>3 DEF EntityOK, Entity, Pwrite
<1> HIDE DEF q
<1>5. AfterWrite(q, start, n) = {Done(q)}
  BY <1>3, <1>4 DEF AfterWrite
<1>6. o \in {Failed(p.ent), Done(q), p}
  BY <1>1, <1>5 DEF q
<1>7. QED
  BY <1>3, <1>4, <1>6, Outcomes

\* s3fs_write
LEMMA WriteHandled ==
  ASSUME SafeDisk = {TRUE}, TypeOK, Padded(remote), Padded(want), Sound(ent),
         NEW start \in Nat, NEW b \in Byte, WriteFile(start, 1, b)
  PROVE  Handled
<1>1. PICK o \in Write(ent, start, 1, b) :
        /\ ent' = o.ent /\ dropped' = Drops(o.ent)
        /\ want' = IF o.ok THEN Overlay(want, start, 1, b) ELSE want
  BY DEF WriteFile
<1>2. remote' = remote /\ start + 1 <= MaxSize /\ 1 \in Nat
  BY DEF WriteFile
<1>3. remote \in File /\ want \in File /\ EntityOK(ent) /\ ~ent.upload
  BY DEF TypeOK, Sound
<1>4. Padded(Overlay(want, start, 1, b))
  BY <1>2, <1>3, OverlayParts
<1>5. Padded(want')
  BY <1>1, <1>4
<1>6. Right(ent, ent.file, Pos, remote) /\ ent.file \in File /\ Padded(ent.file)
  BY SoundIsRight DEF Sound
<1>7. \/ ~o.ok /\ Follows(o.ent, ent)
      \/ /\ o.ok /\ o.ent.is_modify
         /\ Right(o.ent, Overlay(ent.file, start, 1, b),
                  RegrowOf(ent, Pos, Larger(ent.size, start + 1))
                    \ Extent(start, start + 1), remote)
  BY <1>2, <1>3, <1>6, WriteRight
<1>8. CASE Follows(o.ent, ent)
  BY <1>1, <1>2, <1>5, <1>8, FollowingIsHandled
<1>9. CASE o.ent.is_modify /\ ~Follows(o.ent, ent)
  <2>1. Sound(o.ent)
    BY <1>7, <1>9, RightIsSound
  <2>2. o.ent.refcnt = ent.refcnt
    BY <1>2, <1>3, WriteRefcnt
  <2>3. Padded(remote')
    BY <1>2
  <2>4. QED
    BY <1>1, <1>5, <1>9, <2>1, <2>2, <2>3, Zenon DEF Handled
<1>10. QED
  BY <1>7, <1>8, <1>9

\* s3fs_truncate of an open file
LEMMA TruncateHandled ==
  ASSUME TypeOK, Padded(remote), Padded(want), Sound(ent), NEW n \in Sizes, TruncateFile(n)
  PROVE  Handled
<1>1. PICK o \in TruncateOpen(ent, n) :
        /\ ent' = o.ent /\ dropped' = Drops(o.ent)
        /\ want' = Cut(want, n) \/ want' = want
  BY DEF TruncateFile
<1>2. remote' = remote
  BY DEF TruncateFile
<1>3. remote \in File /\ want \in File /\ EntityOK(ent) /\ n \in 0 .. Cap
  BY SizesAssumption DEF TypeOK, Sizes
<1>4. Padded(want')
  BY <1>1, <1>3, CutParts
<1>5. Right(ent, ent.file, Pos, remote) /\ ent.file \in File
  BY SoundIsRight
<1>6. \/ Follows(o.ent, ent)
      \/ /\ o.ent.is_modify
         /\ Right(o.ent, Cut(ent.file, n), RegrowOf(ent, Pos, n), remote)
  BY <1>3, <1>5, TruncateOpenRight
<1>7. CASE Follows(o.ent, ent)
  BY <1>1, <1>2, <1>4, <1>7, FollowingIsHandled
<1>8. CASE o.ent.is_modify /\ ~Follows(o.ent, ent)
  <2>1. Sound(o.ent)
    BY <1>6, <1>8, RightIsSound
  <2>2. o.ent.refcnt = ent.refcnt
    BY <1>3, TruncateOpenType
  <2>3. Padded(remote')
    BY <1>2
  <2>4. QED
    BY <1>1, <1>4, <1>8, <2>1, <2>2, <2>3, Zenon DEF Handled
<1>9. QED
  BY <1>6, <1>7, <1>8

\* s3fs_flush and s3fs_fsync
LEMMA FlushHandled ==
  ASSUME SafeDisk = {TRUE}, TypeOK, Padded(remote), Padded(want), Sound(ent), FlushFile
  PROVE  Handled
<1>1. PICK force \in BOOLEAN : force = FALSE
  OBVIOUS
<1>2. PICK r \in RowFlush(ent, force) :
        /\ ent' = r.ent /\ remote' = r.object
        /\ dropped' = (~(r.ok /\ ent.is_modify) /\ Drops(r.ent))
  BY <1>1 DEF FlushFile
<1>3. want' = want
  BY DEF FlushFile
<1>4. remote \in File /\ EntityOK(ent) /\ ~ent.upload
  BY DEF TypeOK, Sound
<1>5. \/ ~force /\ ~ent.is_modify /\ r.ent = ent /\ r.object = remote /\ r.ok
      \/ \E g : /\ Follows(g, ent) /\ ~r.ok /\ r.ent = g /\ r.object = remote
                /\ force \/ ent.is_modify
      \/ \E g : /\ Follows(g, ent) /\ Extent(0, ent.size) \subseteq g.loaded
                /\ force \/ ent.is_modify
                /\ r.object = g.file
                /\ \/ ~r.ok /\ r.ent = g
                   \/ r.ok /\ r.ent = Clean(g)
  BY <1>4, RowFlushOutcome
<1>6. Padded(want')
  BY <1>3
<1> DEFINE uploaded == r.ok /\ ent.is_modify
           drops    == Drops(r.ent)
<1>7. drops \in BOOLEAN /\ dropped' = (~uploaded /\ drops)
  BY <1>2, DropsType
<1>8. ASSUME ~uploaded PROVE dropped' = drops
  <2> HIDE DEF uploaded, drops
  <2>1. QED
    BY <1>7, <1>8
<1>9. CASE ~ent.is_modify /\ r.ent = ent /\ r.object = remote /\ r.ok
  <2>1. Follows(ent', ent)
    BY <1>2, <1>4, <1>9, FollowsItself
  <2>2. dropped' = Drops(ent')
    BY <1>2, <1>9, <1>8
  <2>3. QED
    BY <1>2, <1>6, <1>9, <2>1, <2>2, FollowingIsHandled
<1>10. CASE Follows(r.ent, ent) /\ ~r.ok /\ r.object = remote
  <2>1. dropped' = Drops(ent')
    BY <1>2, <1>10, <1>8
  <2>2. QED
    BY <1>2, <1>6, <1>10, <2>1, FollowingIsHandled
<1>11. ASSUME NEW g, Follows(g, ent), Extent(0, ent.size) \subseteq g.loaded,
             r.object = g.file, r.ent = g \/ r.ent = Clean(g)
      PROVE  Handled
  <2>1. Sound(g) /\ g.refcnt = ent.refcnt /\ g.size = ent.size
    BY <1>11, FollowsSound
  <2>2. g.loaded = Extent(0, g.size)
    BY <1>11, <2>1 DEF Sound, EntityOK
  <2>3. /\ Sound(ent') /\ ent'.refcnt = ent.refcnt /\ ent'.loaded = Extent(0, ent'.size)
        /\ ent'.file = g.file
    BY <1>2, <1>11, <2>1, <2>2, CleanIsSound
  <2>4. remote' = ent'.file /\ Padded(remote')
    BY <1>2, <1>11, <2>1, <2>3 DEF Sound
  <2>5. QED
    BY <1>6, <2>3, <2>4, Zenon DEF Handled
<1>12. QED
  BY <1>5, <1>9, <1>10, <1>11

-----------------------------------------------------------------------------
(***************************************************************************)
(* The steps.                                                              *)
(***************************************************************************)
CInv == CacheTypeOK /\ CacheInv

\* What the invariant says in a state.
LEMMA CInvParts ==
  ASSUME CInv
  PROVE  /\ TypeOK /\ remote \in File /\ want \in File /\ EntityOK(ent)
         /\ data \in File \cup {NoData} /\ text \in AText /\ events \in 0 .. MaxEvents
         /\ doubt \subseteq Reason /\ linked \in BOOLEAN
         /\ Padded(remote) /\ Padded(want) /\ Sound(ent)
         /\ linked => IsOpen /\ LinkedOK
         /\ ~linked => AtRest
BY DEF CInv, CacheTypeOK, CacheInv, TypeOK, AText

\* What is to be shown of a step after which the cache files are in use.
LEMMA LinkedStep ==
  ASSUME TypeOK', data' \in File \cup {NoData}, text' \in AText, events' \in 0 .. MaxEvents,
         linked' = TRUE, ent'.refcnt > 0, doubt' \subseteq Reason,
         Padded(remote'), Padded(want'), Sound(ent'),
         doubt' \subseteq {"given up"} =>
           (~ent'.is_modify /\ ~dropped' => Mirrors(ent', remote')),
         doubt' = {} => Inductive',
         doubt' = {} =>
           (~ent'.is_modify /\ ~dropped' =>
              \A i \in Claims(text') : i < ent'.size => i \in ent'.loaded)
  PROVE  CInv'
<1>1. CacheTypeOK'
  BY DEF CacheTypeOK, IsOpen, AText
<1>2. LinkedOK'
  BY Zenon DEF LinkedOK, Saved
<1>3. CacheInv'
  BY <1>2 DEF CacheInv
<1>4. QED
  BY <1>1, <1>3 DEF CInv

\* And of one after which they are not.
LEMMA RestStep ==
  ASSUME TypeOK', data' \in File \cup {NoData}, text' \in AText, events' \in 0 .. MaxEvents,
         linked' = FALSE, doubt' \subseteq Reason,
         Padded(remote'), Padded(want'), Sound(ent'),
         doubt' = {} => AgreeAt(Claims(text'), data', remote'),
         ent'.refcnt > 0 => text' = NoText,
         ~(ent'.refcnt > 0) => (doubt' \subseteq {"given up"} => doubt' = {})
  PROVE  CInv'
<1>1. CacheTypeOK'
  BY DEF CacheTypeOK, IsOpen, AText
<1>2. AtRest'
  BY DEF AtRest, IsOpen
<1>3. CacheInv'
  BY <1>2 DEF CacheInv
<1>4. QED
  BY <1>1, <1>3 DEF CInv

\* While the file is closed a doubt is more than a list given up, and without
\* one the cache file agrees with the object.
LEMMA ClosedParts ==
  ASSUME CInv, ~IsOpen
  PROVE  /\ linked = FALSE /\ (doubt \subseteq {"given up"} => doubt = {})
         /\ doubt = {} => AgreeAt(Claims(text), data, remote)
BY CInvParts DEF AtRest

\* The doubts that remain when the files of a path are opened.
LEMMA SettledParts ==
  ASSUME CInv, ~IsOpen, NEW f
  PROVE  /\ Settled(f) \subseteq Reason
         /\ Settled(f) \subseteq {"given up"} =>
              /\ Settled(f) = {} /\ Surplus(f.text, f.ent.loaded) = {}
              /\ Claims(f.text) \subseteq f.ent.loaded
              /\ f.ent.loaded = {} \/ AgreeAt(Claims(text), data, remote)
<1>1. /\ Surplus(f.text, f.ent.loaded) \subseteq {"tail"}
      /\ Surplus(f.text, f.ent.loaded) = {} => Claims(f.text) \subseteq f.ent.loaded
  BY SurplusParts
<1>2. doubt \subseteq Reason
  BY CInvParts
<1>3. Settled(f) = (IF f.ent.loaded = {} THEN {} ELSE doubt) \cup Surplus(f.text, f.ent.loaded)
  BY DEF Settled
<1>4. Settled(f) \subseteq Reason
  BY <1>1, <1>2, <1>3 DEF Reason
<1>5. ASSUME Settled(f) \subseteq {"given up"}
      PROVE  /\ Settled(f) = {} /\ Surplus(f.text, f.ent.loaded) = {}
             /\ f.ent.loaded = {} \/ AgreeAt(Claims(text), data, remote)
  <2>1. Surplus(f.text, f.ent.loaded) = {}
    <3>1. "tail" \notin Settled(f)
      BY <1>5
    <3>2. QED
      BY <1>1, <1>3, <3>1
  <2>2. CASE f.ent.loaded = {}
    BY <1>3, <2>1, <2>2
  <2>3. CASE f.ent.loaded # {}
    BY <1>3, <1>5, <2>1, <2>3, ClosedParts
  <2>4. QED
    BY <2>2, <2>3
<1>6. QED
  BY <1>1, <1>4, <1>5

\* The variables of an entity that has just been opened or closed.
LEMMA OpensType ==
  ASSUME NEW e, EntityOK(e), Opens(e), remote' \in File, want' \in File, lastflush' = "ok"
  PROVE  TypeOK' /\ ent' = e /\ regrown' = {} /\ dropped' = FALSE
BY DEF Opens, TypeOK

\* An event that the bound allows.
LEMMA EventType == CInv /\ Event => events' \in 0 .. MaxEvents
BY CacheAssumption, CInvParts DEF Event

\* The invariant holds at first.
LEMMA CacheInitOK == CacheInit => CInv
<1> SUFFICES ASSUME CacheInit PROVE CInv
  OBVIOUS
<1>1. Init /\ data = NoData /\ text = NoText /\ linked = FALSE /\ doubt = {} /\ events = 0
  BY DEF CacheInit
<1>2. TypeOK
  BY <1>1, InitTypeOK
<1>3. Inductive
  BY <1>1, InitInductive
<1>4. ent = Closed
  BY <1>1 DEF Init
<1>5. Sound(ent) /\ ~IsOpen
  BY <1>4, ClosedIsSound DEF IsOpen
<1>6. CacheTypeOK
  <2>1. 0 \in 0 .. MaxEvents
    BY CacheAssumption
  <2>2. data \in {NoData} /\ text \in {NewText, NoText} /\ linked \in BOOLEAN /\ doubt \subseteq Reason
    BY <1>1
  <2>3. QED
    BY <1>1, <1>2, <2>1, <2>2, Zenon DEF CacheTypeOK
<1>7. AtRest
  BY <1>1, <1>5, ClaimsInside DEF AtRest, AgreeAt
<1>8. CacheInv
  BY <1>1, <1>3, <1>5, <1>7 DEF CacheInv, Inductive
<1>9. QED
  BY <1>6, <1>8 DEF CInv

\* A handler that leaves nothing to save leaves a copy of the object.
LEMMA HandledMirrors ==
  ASSUME remote \in File, Sound(ent), Saved => Mirrors(ent, remote), Handled,
         ~ent'.is_modify, ~dropped'
  PROVE  Mirrors(ent', remote')
<1>1. CASE Saved /\ Follows(ent', ent) /\ remote' = remote
  <2>1. /\ Sound(ent') /\ ent'.size = ent.size /\ ent'.orgsize = ent.orgsize
        /\ ent.loaded \subseteq ent'.loaded
        /\ Faithful(ent, remote, {}, remote) => Faithful(ent', remote, {}, remote)
    BY <1>1, FollowsSound
  <2>2. /\ Faithful(ent, remote, {}, remote)
        /\ ent.loaded = Extent(0, ent.size) \/ ent.orgsize = ent.size
    BY <1>1 DEF Mirrors
  <2>3. ent'.loaded \subseteq Extent(0, ent'.size)
    BY <2>1 DEF Sound, EntityOK
  <2>4. ent'.loaded = Extent(0, ent'.size) \/ ent'.orgsize = ent'.size
    BY <2>1, <2>2, <2>3
  <2>5. QED
    BY <1>1, <2>1, <2>2, <2>4 DEF Mirrors
<1>2. CASE ent'.loaded = Extent(0, ent'.size) /\ remote' = ent'.file
  <2>1. Sound(ent')
    BY DEF Handled
  <2>2. QED
    BY <1>2, <2>1, FullMirrors
<1>3. QED
  BY <1>1, <1>2 DEF Handled

\* And it still has what the text says.
LEMMA HandledClaims ==
  ASSUME Sound(ent), Saved => \A i \in Claims(text) : i < ent.size => i \in ent.loaded,
         Handled, ~ent'.is_modify, ~dropped'
  PROVE  \A i \in Claims(text) : i < ent'.size => i \in ent'.loaded
<1>1. CASE Saved /\ Follows(ent', ent) /\ remote' = remote
  BY <1>1, FollowsSound
<1>2. CASE ent'.loaded = Extent(0, ent'.size) /\ remote' = ent'.file
  <2>1. Claims(text) \subseteq Pos /\ EntityOK(ent')
    BY ClaimsInside DEF Handled, Sound
  <2>2. QED
    BY <1>2, <2>1, EntityParts, SizesAssumption DEF Extent, Pos
<1>3. QED
  BY <1>1, <1>2 DEF Handled

\* A handler of the open entity keeps the invariant.
LEMMA HandlerStep ==
  ASSUME SafeDisk = {TRUE}, CInv, Next, Handled, Kept, IsOpen
  PROVE  CInv'
<1>1. /\ TypeOK /\ remote \in File /\ data \in File \cup {NoData} /\ text \in AText
      /\ events \in 0 .. MaxEvents /\ doubt \subseteq Reason /\ linked \in BOOLEAN
      /\ Sound(ent) /\ (linked => LinkedOK) /\ (~linked => AtRest)
  BY CInvParts
<1>2. /\ data' = data /\ text' = text /\ linked' = linked /\ events' = events /\ doubt' = doubt
      /\ doubt \subseteq {"given up"}
  BY DEF Kept, Session, files
<1>3. Sound(ent') /\ ent'.refcnt = ent.refcnt /\ Padded(remote') /\ Padded(want')
  BY DEF Handled
<1>4. TypeOK'
  BY <1>1, NextTypeOK
<1>5. ent'.refcnt > 0
  BY <1>3 DEF IsOpen
<1>6. CASE linked
  <2>1. Saved => Mirrors(ent, remote)
    BY <1>1, <1>2, <1>6 DEF LinkedOK
  <2>2. ~ent'.is_modify /\ ~dropped' => Mirrors(ent', remote')
    BY <1>1, <2>1, HandledMirrors
  <2>3. doubt' = {} => Inductive'
    BY <1>1, <1>2, <1>6, NextInductive DEF LinkedOK, Inv
  <2>4. ASSUME doubt' = {}, ~ent'.is_modify, ~dropped'
        PROVE  \A i \in Claims(text') : i < ent'.size => i \in ent'.loaded
    <3>1. Saved => \A i \in Claims(text) : i < ent.size => i \in ent.loaded
      BY <1>1, <1>2, <1>6, <2>4 DEF LinkedOK
    <3>2. QED
      BY <1>1, <1>2, <2>4, <3>1, HandledClaims
  <2>5. QED
    BY <1>1, <1>2, <1>3, <1>4, <1>5, <1>6, <2>2, <2>3, <2>4, LinkedStep
<1>7. CASE ~linked
  <2>1. text = NoText
    BY <1>1, <1>7 DEF AtRest
  <2>2. AgreeAt(Claims(text'), data', remote')
    BY <1>2, <2>1, ClaimsInside DEF AgreeAt
  <2>3. linked' = FALSE
    BY <1>1, <1>2, <1>7
  <2>4. QED
    BY <1>1, <1>2, <1>3, <1>4, <1>5, <2>1, <2>2, <2>3, RestStep
<1>8. QED
  BY <1>6, <1>7

\* s3fs_open of a file nobody has open.
LEMMA OpenCachedStep == CInv /\ OpenCached => CInv'
<1> SUFFICES ASSUME CInv, OpenCached PROVE CInv'
  OBVIOUS
<1> DEFINE f == OpenFiles(remote.len)
<1>1. ~IsOpen /\ remote.len <= MaxSize /\ events' = events
  BY DEF OpenCached
<1>2. want' = remote /\ lastflush' = "ok" /\ remote' = remote
  BY DEF OpenCached
<1>3. \/ Opens(f.ent) /\ text' = f.text /\ linked' = TRUE /\ doubt' = Settled(f) /\ data' = data
      \/ Opens(Closed) /\ data' = f.ent.file /\ text' = Touched /\ linked' = linked /\ doubt' = doubt
  BY DEF OpenCached
<1>4. /\ remote \in File /\ data \in File \cup {NoData} /\ text \in AText
      /\ events \in 0 .. MaxEvents /\ doubt \subseteq Reason /\ Padded(remote)
  BY CInvParts
<1>5. remote.len \in Sizes /\ remote.len \in Nat
  BY <1>1, <1>4, SizesAssumption DEF File, Sizes
<1>6. /\ Sound(f.ent) /\ f.ent.size = remote.len /\ f.ent.orgsize = remote.len
      /\ ~f.ent.is_modify /\ f.ent.refcnt = 1 /\ f.text \in AText
      /\ f.ent.loaded \subseteq Claims(text)
      /\ \A i \in Claims(text) :
           ByteAt(f.ent.file, i) = IF i < remote.len THEN ByteAt(data, i) ELSE Zero
  BY <1>4, <1>5, OpenFilesParts
<1>7. f.ent.loaded = {} \/ AgreeAt(Claims(text), data, remote)
        => Faithful(f.ent, remote, {}, remote)
  <2>1. \A i \in Extent(0, remote.len) : remote.at[i] = ByteAt(remote, i)
    BY <1>4, <1>5, SizesAssumption DEF Extent, ByteAt, Pos, File
  <2>2. QED
    BY <1>4, <1>5, <2>1, OpenFilesFaithful
<1>8. remote' \in File /\ want' \in File /\ Padded(remote') /\ Padded(want')
      /\ events' \in 0 .. MaxEvents
  BY <1>1, <1>2, <1>4
<1> HIDE DEF f
<1>9. CASE /\ Opens(f.ent) /\ text' = f.text /\ linked' = TRUE /\ doubt' = Settled(f)
           /\ data' = data
  <2>1. TypeOK' /\ ent' = f.ent /\ regrown' = {} /\ dropped' = FALSE
    BY <1>2, <1>6, <1>8, <1>9, OpensType DEF Sound
  <2>2. /\ doubt' \subseteq Reason
        /\ doubt' \subseteq {"given up"} =>
             /\ Claims(text') \subseteq ent'.loaded
             /\ Faithful(ent', remote', {}, remote')
    BY <1>1, <1>2, <1>7, <1>9, <2>1, SettledParts
  <2>3. doubt' \subseteq {"given up"} =>
          (~ent'.is_modify /\ ~dropped' => Mirrors(ent', remote'))
    BY <1>6, <2>1, <2>2 DEF Mirrors
  <2>4. doubt' = {} => Inductive'
    <3> SUFFICES ASSUME doubt' = {} PROVE Inductive'
      OBVIOUS
    <3>1. Right(ent', want', regrown', remote')
      BY <1>2, <1>6, <2>1, <2>2 DEF Right, Sound
    <3>2. SameButRegrown(remote, want)'
      BY <1>2 DEF SameButRegrown
    <3>3. (lastflush = "ok" => ~ent.is_modify)'
      BY <1>6, <2>1
    <3>4. QED
      BY <1>8, <3>1, <3>2, <3>3, RightIsInductive
  <2>5. ent'.refcnt > 0 /\ Sound(ent')
    BY <1>6, <2>1
  <2>6. QED
    BY <1>4, <1>6, <1>8, <1>9, <2>1, <2>2, <2>3, <2>4, <2>5, LinkedStep
<1>10. CASE /\ Opens(Closed) /\ data' = f.ent.file /\ text' = Touched /\ linked' = linked
            /\ doubt' = doubt
  <2>1. TypeOK' /\ ent' = Closed
    BY <1>2, <1>8, <1>10, OpensType, ClosedType
  <2>2. Sound(ent') /\ ~(ent'.refcnt > 0)
    BY <2>1, ClosedIsSound
  <2>3. linked' = FALSE /\ (doubt' \subseteq {"given up"} => doubt' = {})
    BY <1>1, <1>10, ClosedParts
  <2>4. data' \in File /\ text' \in AText
    BY <1>4, <1>6, <1>10, EntityParts DEF Sound, Touched, AText
  <2>5. ASSUME doubt' = {} PROVE AgreeAt(Claims(text'), data', remote')
    <3>1. AgreeAt(Claims(text), data, remote)
      BY <1>1, <1>10, <2>5, ClosedParts
    <3>2. Claims(text') = Claims(text)
      BY <1>10, ClaimsInside
    <3>3. ASSUME NEW i \in Claims(text) PROVE ByteAt(f.ent.file, i) = ByteAt(remote, i)
      <4>1. ByteAt(data, i) = ByteAt(remote, i)
        BY <3>1 DEF AgreeAt
      <4>2. CASE i < remote.len
        BY <1>6, <4>1, <4>2
      <4>3. CASE ~(i < remote.len)
        BY <1>6, <4>3 DEF ByteAt
      <4>4. QED
        BY <4>2, <4>3
    <3>4. QED
      BY <1>2, <1>10, <3>2, <3>3 DEF AgreeAt
  <2>6. QED
    BY <1>4, <1>8, <1>10, <2>1, <2>2, <2>3, <2>4, <2>5, RestStep
<1>11. QED
  BY <1>3, <1>9, <1>10 DEF f

\* s3fs_open with O_TRUNC.
LEMMA OpenTruncatedCachedStep == CInv /\ OpenTruncatedCached => CInv'
<1> SUFFICES ASSUME CInv, OpenTruncatedCached PROVE CInv'
  OBVIOUS
<1> DEFINE f == OpenFiles(0)
           e == f.ent
<1>1. ~IsOpen /\ events' = events /\ lastflush' = "ok"
  BY DEF OpenTruncatedCached
<1>2. PICK r \in RowFlush(e, TRUE) :
        /\ remote' = r.object /\ linked' = r.ok /\ doubt' = Settled(f)
        /\ want' = IF r.ok THEN Cut(Empty, 0) ELSE r.object
        /\ IF r.ok THEN Opens(r.ent) /\ text' = f.text /\ data' = data
           ELSE Opens(Closed) /\ text' = SavedText(r.ent, f.text) /\ data' = r.ent.file
  BY DEF OpenTruncatedCached
<1>3. /\ remote \in File /\ data \in File \cup {NoData} /\ text \in AText
      /\ events \in 0 .. MaxEvents /\ Padded(remote)
  BY CInvParts
<1>4. 0 \in Sizes /\ 0 \in 0 .. Cap
  BY SizesAssumption DEF Sizes
<1>5. /\ Sound(e) /\ e.size = 0 /\ ~e.is_modify /\ e.refcnt = 1 /\ f.text \in AText
      /\ \/ SizeIn(Touched) = 0 /\ f.text = Touched
         \/ f.text = Save(Touched, 0, {})
  BY <1>3, <1>4, OpenFilesParts
<1>6. /\ doubt' \subseteq Reason
      /\ doubt' \subseteq {"given up"} => doubt' = {} /\ Claims(f.text) \subseteq e.loaded
  BY <1>1, <1>2, SettledParts
<1> HIDE DEF f, e
<1>7. EntityOK(e) /\ ~e.upload /\ e.file.len = 0 /\ Padded(e.file) /\ e.file \in File
  BY <1>5, EntityParts DEF Sound
<1>8. e.loaded = Extent(0, e.size) /\ e.loaded = {}
  BY <1>5, <1>7 DEF EntityOK, Extent
<1>9. \/ r = Flushed(Clean(e), e.file, TRUE)
      \/ r = Flushed(e, e.file, FALSE) \/ r = Flushed(e, remote, FALSE)
  BY <1>3, <1>7, <1>8, LoadedFlush
<1>10. /\ Sound(Clean(e)) /\ Clean(e).loaded = {} /\ Clean(e).size = 0
       /\ Clean(e).refcnt = 1 /\ ~Clean(e).is_modify /\ Clean(e).file = e.file
  BY <1>5, <1>8, CleanIsSound
<1>11. events' \in 0 .. MaxEvents
  BY <1>1, <1>3
<1>12. CASE r = Flushed(Clean(e), e.file, TRUE)
  <2>1. r.ent = Clean(e) /\ r.object = e.file /\ r.ok = TRUE
    BY <1>12 DEF Flushed
  <2>2. /\ Opens(Clean(e)) /\ text' = f.text /\ data' = data /\ linked' = TRUE
        /\ remote' = e.file /\ want' = Cut(Empty, 0)
    BY <1>2, <2>1
  <2>3. /\ Cut(Empty, 0) \in File /\ Cut(Empty, 0).len = 0 /\ Padded(Cut(Empty, 0))
    BY <1>4, EmptyType, CutType, CutParts
  <2>4. remote' \in File /\ want' \in File /\ Padded(remote') /\ Padded(want')
    BY <1>7, <2>2, <2>3
  <2>5. TypeOK' /\ ent' = Clean(e) /\ regrown' = {} /\ dropped' = FALSE
    BY <1>1, <1>10, <2>2, <2>4, OpensType DEF Sound
  <2>6. Extent(0, 0) = {} /\ 1 > 0
    BY DEF Extent
  <2>7. /\ Sound(ent') /\ ent'.size = 0 /\ ent'.refcnt > 0 /\ ent'.loaded = {} /\ ~ent'.is_modify
        /\ ent'.file.len = 0
    BY <1>7, <1>10, <2>5, <2>6
  <2>8. Mirrors(ent', remote')
    BY <1>7, <2>2, <2>6, <2>7 DEF Mirrors, Faithful
  <2>9. Inductive'
    <3>1. Right(ent', want', regrown', remote')
      BY <2>2, <2>3, <2>6, <2>7 DEF Right, Sound, Faithful
    <3>2. SameButRegrown(remote, want)'
      BY <1>7, <2>2, <2>3 DEF SameButRegrown, Padded, Pos
    <3>3. (lastflush = "ok" => ~ent.is_modify)'
      BY <2>7
    <3>4. QED
      BY <2>4, <3>1, <3>2, <3>3, RightIsInductive
  <2>10. \A i \in Claims(text') : i < ent'.size => i \in ent'.loaded
    <3>1. Claims(text') \subseteq Pos
      BY ClaimsInside
    <3>2. QED
      BY <2>7, <3>1, SizesAssumption DEF Pos
  <2>11. QED
    BY <1>3, <1>5, <1>6, <1>11, <2>2, <2>4, <2>5, <2>7, <2>8, <2>9, <2>10, LinkedStep
<1>13. CASE r = Flushed(e, e.file, FALSE) \/ r = Flushed(e, remote, FALSE)
  <2>1. r.ent = e /\ (r.object = e.file \/ r.object = remote) /\ r.ok = FALSE
    BY <1>13 DEF Flushed
  <2>2. /\ Opens(Closed) /\ text' = SavedText(e, f.text) /\ data' = e.file /\ linked' = FALSE
        /\ (remote' = e.file \/ remote' = remote) /\ want' = remote'
    BY <1>2, <2>1
  <2>3. remote' \in File /\ want' \in File /\ Padded(remote') /\ Padded(want')
    BY <1>3, <1>7, <2>2
  <2>4. TypeOK' /\ ent' = Closed
    BY <1>1, <2>2, <2>3, OpensType, ClosedType
  <2>5. Sound(ent') /\ ~(ent'.refcnt > 0)
    BY <2>4, ClosedIsSound
  <2>6. Touched \in AText
    BY <1>3 DEF Touched, AText
  <2>7. f.text # NoText
    <3>1. Touched # NoText
      BY DEF Touched, NewText, NoText
    <3>2. Save(Touched, 0, {}).total = 0
      BY DEF Save
    <3>3. NoText.total = -2
      BY DEF NoText
    <3>4. QED
      BY <1>5, <3>1, <3>2, <3>3
  <2>8. text' = Save(f.text, 0, {})
    BY <1>5, <1>8, <2>2, <2>7 DEF SavedText
  <2>9. text' \in AText
    BY <1>4, <1>5, <2>8, SaveParts
  <2>10. ASSUME doubt' = {} PROVE AgreeAt(Claims(text'), data', remote')
    <3>1. Claims(text') = {}
      <4>1. CASE SizeIn(Touched) = 0 /\ f.text = Touched
        BY <2>6, <2>8, <4>1, EmptySaveClaims
      <4>2. CASE f.text = Save(Touched, 0, {})
        <5>1. text' = f.text
          BY <1>4, <2>6, <2>8, <4>2, SaveTwice
        <5>2. QED
          BY <1>6, <1>8, <2>10, <5>1
      <4>3. QED
        BY <1>5, <4>1, <4>2
    <3>2. QED
      BY <3>1 DEF AgreeAt
  <2>11. QED
    BY <1>6, <1>7, <1>11, <2>2, <2>3, <2>4, <2>5, <2>9, <2>10, RestStep
<1>14. QED
  BY <1>9, <1>12, <1>13

\* A text saved when a file is closed is a text.
LEMMA SavedTextType ==
  ASSUME NEW e, EntityOK(e), NEW t \in AText
  PROVE  SavedText(e, t) \in AText
<1>1. NewText \in AText /\ e.size \in Sizes
  BY EntityParts DEF AText, Sizes
<1>2. (IF t = NoText THEN NewText ELSE t) \in AText
  BY <1>1
<1>3. QED
  BY <1>1, <1>2, SaveParts DEF SavedText

\* A file of the length of the object, with the object's bytes where loaded,
\* agrees with it there.
LEMMA LoadedAgree ==
  ASSUME NEW f \in File, NEW w \in File, NEW places,
         \A i \in places : i \in Pos /\ i < f.len /\ f.at[i] = ByteAt(w, i)
  PROVE  AgreeAt(places, f, w)
BY DEF AgreeAt, ByteAt

\* s3fs_truncate of a file nobody has open.
LEMMA TruncateClosedCachedStep ==
  ASSUME SafeDisk = {TRUE}, CInv, NEW n \in Sizes, TruncateClosedCached(n)
  PROVE  CInv'
<1> DEFINE f == OpenFiles(n)
           e == f.ent
           w == Cut(remote, n)
<1>1. PICK force \in BOOLEAN : force = TRUE
  OBVIOUS
<1>2. /\ ~IsOpen /\ remote.len <= MaxSize /\ events' = events /\ lastflush' = "ok"
      /\ ent' = ent /\ regrown' = regrown /\ dropped' = dropped /\ inorder' = inorder
      /\ linked' = linked
  BY DEF TruncateClosedCached
<1>3. PICK o \in Load(e, 0, n) :
        \E r \in IF o.ok THEN RowFlush(o.ent, force) ELSE {Flushed(o.ent, remote, FALSE)} :
          LET t == SavedText(r.ent, f.text) IN
          /\ remote' = r.object /\ want' = r.object
          /\ text' = t /\ data' = r.ent.file
          /\ doubt' = Settled(f) \cup Surplus(t, r.ent.loaded)
  BY <1>1 DEF TruncateClosedCached
<1>4. PICK r \in IF o.ok THEN RowFlush(o.ent, force) ELSE {Flushed(o.ent, remote, FALSE)} :
        /\ remote' = r.object /\ want' = r.object
        /\ text' = SavedText(r.ent, f.text) /\ data' = r.ent.file
        /\ doubt' = Settled(f) \cup Surplus(text', r.ent.loaded)
  BY <1>3
<1>5. /\ TypeOK /\ remote \in File /\ data \in File \cup {NoData} /\ text \in AText
      /\ events \in 0 .. MaxEvents /\ Padded(remote) /\ Padded(want) /\ Sound(ent)
  BY CInvParts
<1>6. n \in 0 .. Cap /\ n \in Nat
  BY SizesAssumption DEF Sizes
<1>7. /\ Sound(e) /\ e.size = n /\ f.text \in AText
  BY <1>5, OpenFilesParts
<1>8. w \in File /\ w.len = n /\ \A i \in Pos : w.at[i] = IF i < n /\ i < remote.len THEN remote.at[i] ELSE Zero
  BY <1>5, <1>6, CutType, CutParts
<1>9. \A i \in Extent(0, n) : i \in Pos /\ i < n /\ w.at[i] = ByteAt(remote, i)
  BY <1>6, <1>8, SizesAssumption DEF Extent, Pos, ByteAt, Sizes
<1>10. /\ Settled(f) \subseteq Reason
       /\ Settled(f) \subseteq {"given up"} =>
            Settled(f) = {} /\ (e.loaded = {} \/ AgreeAt(Claims(text), data, remote))
  BY <1>2, SettledParts
<1>11. e.loaded = {} \/ AgreeAt(Claims(text), data, remote) => Faithful(e, w, {}, remote)
  BY <1>5, <1>8, <1>9, OpenFilesFaithful
<1> HIDE DEF f, e, w
<1>12. /\ Surplus(text', r.ent.loaded) \subseteq {"tail"}
       /\ Surplus(text', r.ent.loaded) = {} => Claims(text') \subseteq r.ent.loaded
  BY SurplusParts
<1>13. /\ doubt' \subseteq Reason
       /\ doubt' \subseteq {"given up"} =>
            /\ doubt' = {} /\ Claims(text') \subseteq r.ent.loaded
            /\ Faithful(e, w, {}, remote)
  <2>1. Surplus(text', r.ent.loaded) \subseteq Reason
    BY <1>12 DEF Reason
  <2>2. ASSUME doubt' \subseteq {"given up"} PROVE Surplus(text', r.ent.loaded) = {}
    <3>1. "tail" \notin doubt'
      BY <2>2
    <3>2. QED
      BY <1>4, <1>12, <3>1
  <2>3. QED
    BY <1>4, <1>10, <1>11, <1>12, <2>1, <2>2
<1>14. EntityOK(e) /\ 0 \in Nat
  BY <1>7 DEF Sound
<1>15. Follows(o.ent, e)
  BY <1>5, <1>6, <1>14, LoadFollows
<1>16. Sound(o.ent) /\ o.ent.size = n /\ (Faithful(e, w, {}, remote) => Faithful(o.ent, w, {}, remote))
  BY <1>7, <1>8, <1>15, FollowsSound
<1>17. /\ Sound(r.ent) /\ r.ent.size = n
       /\ \/ /\ r.object = remote
             /\ Faithful(e, w, {}, remote) => Faithful(r.ent, w, {}, remote)
          \/ r.object = r.ent.file
  <2>1. CASE ~o.ok
    <3>1. r = Flushed(o.ent, remote, FALSE)
      BY <2>1
    <3>2. r.ent = o.ent /\ r.object = remote
      BY <3>1 DEF Flushed
    <3>3. QED
      BY <1>16, <3>2
  <2>2. CASE o.ok
    <3>1. r \in RowFlush(o.ent, force) /\ EntityOK(o.ent) /\ ~o.ent.upload
      BY <1>16, <2>2 DEF Sound
    <3>2. \/ ~force /\ ~o.ent.is_modify /\ r.ent = o.ent /\ r.object = remote /\ r.ok
          \/ \E g : /\ Follows(g, o.ent) /\ ~r.ok /\ r.ent = g /\ r.object = remote
                    /\ force \/ o.ent.is_modify
          \/ \E g : /\ Follows(g, o.ent) /\ Extent(0, o.ent.size) \subseteq g.loaded
                    /\ force \/ o.ent.is_modify
                    /\ r.object = g.file
                    /\ \/ ~r.ok /\ r.ent = g
                       \/ r.ok /\ r.ent = Clean(g)
      BY <1>5, <3>1, RowFlushOutcome
    <3>3. CASE r.ent = o.ent /\ r.object = remote
      BY <1>16, <3>3
    <3>4. CASE Follows(r.ent, o.ent) /\ r.object = remote
      BY <1>8, <1>16, <3>4, FollowsSound
    <3>5. ASSUME NEW g, Follows(g, o.ent), r.object = g.file, r.ent = g \/ r.ent = Clean(g)
          PROVE  Sound(r.ent) /\ r.ent.size = n /\ r.object = r.ent.file
      <4>1. Sound(g) /\ g.size = n
        BY <1>16, <3>5, FollowsSound
      <4>2. QED
        BY <3>5, <4>1, CleanIsSound
    <3>6. QED
      BY <3>2, <3>3, <3>4, <3>5
  <2>3. QED
    BY <2>1, <2>2
<1>18. /\ EntityOK(r.ent) /\ r.ent.file \in File /\ r.ent.file.len = n /\ Padded(r.ent.file)
       /\ r.ent.loaded \subseteq Extent(0, n)
  BY <1>17, EntityParts DEF Sound
<1>19. remote' \in File /\ Padded(remote') /\ want' \in File /\ Padded(want') /\ data' \in File
  BY <1>4, <1>5, <1>17, <1>18
<1>20. text' \in AText
  BY <1>4, <1>7, <1>18, SavedTextType
<1>21. TypeOK'
  BY <1>2, <1>5, <1>19 DEF TypeOK
<1>22. ASSUME doubt' = {} PROVE AgreeAt(Claims(text'), data', remote')
  <2>1. Claims(text') \subseteq r.ent.loaded /\ Faithful(e, w, {}, remote)
    BY <1>13, <1>22
  <2>2. CASE r.object = r.ent.file
    BY <1>4, <2>2 DEF AgreeAt
  <2>3. CASE r.object = remote /\ Faithful(r.ent, w, {}, remote)
    <3>1. \A i \in Extent(0, n) : i \in r.ent.loaded => r.ent.file.at[i] = w.at[i]
      BY <1>17, <2>3 DEF Faithful
    <3>2. \A i \in Claims(text') : i \in Pos /\ i < n /\ r.ent.file.at[i] = ByteAt(remote, i)
      BY <1>9, <1>18, <2>1, <3>1
    <3>3. AgreeAt(Claims(text'), r.ent.file, remote)
      BY <1>5, <1>18, <3>2, LoadedAgree
    <3>4. QED
      BY <1>4, <2>3, <3>3
  <2>4. QED
    BY <1>17, <2>1, <2>2, <2>3
<1>23. linked' = FALSE /\ Sound(ent') /\ ~(ent'.refcnt > 0) /\ events' \in 0 .. MaxEvents
  BY <1>2, <1>5, ClosedParts DEF IsOpen
<1>24. QED
  BY <1>13, <1>19, <1>20, <1>21, <1>22, <1>23, RestStep

\* What has been written and is not in the object is a doubt.
LEMMA UnsavedParts ==
  ASSUME TypeOK
  PROVE  Unsaved \subseteq {"unsaved"} /\ (Unsaved = {} => Saved)
BY DEF Unsaved, Saved

\* s3fs_release of the last handle.
LEMMA ReleaseCachedStep == CInv /\ ReleaseCached => CInv'
<1> SUFFICES ASSUME CInv, ReleaseCached PROVE CInv'
  OBVIOUS
<1> DEFINE t == SavedText(ent, text)
<1>1. /\ IsOpen /\ events' = events /\ Opens(Closed) /\ text' = t
      /\ data' = IF linked THEN ent.file ELSE data
      /\ doubt' = (doubt \ {"given up"}) \cup Unsaved \cup Surplus(t, ent.loaded)
                    \cup (IF linked THEN {} ELSE {"orphan"})
      /\ linked' = FALSE /\ want' = remote /\ lastflush' = "ok" /\ remote' = remote
  BY DEF ReleaseCached
<1>2. /\ TypeOK /\ remote \in File /\ EntityOK(ent) /\ data \in File \cup {NoData} /\ text \in AText
      /\ events \in 0 .. MaxEvents /\ doubt \subseteq Reason /\ linked \in BOOLEAN
      /\ Padded(remote) /\ Sound(ent) /\ (linked => LinkedOK)
  BY CInvParts
<1>3. /\ Surplus(t, ent.loaded) \subseteq {"tail"}
      /\ Surplus(t, ent.loaded) = {} => Claims(t) \subseteq ent.loaded
  BY SurplusParts
<1>4. t \in AText
  BY <1>2, SavedTextType
<1> HIDE DEF t
<1>5. Unsaved \subseteq {"unsaved"} /\ (Unsaved = {} => Saved)
  BY <1>2, UnsavedParts
<1>6. doubt' \subseteq Reason /\ "given up" \notin doubt'
  <2>1. {"unsaved", "tail", "orphan"} \subseteq Reason /\ "given up" \notin {"unsaved", "tail", "orphan"}
    BY DEF Reason
  <2>2. Unsaved \cup Surplus(t, ent.loaded) \cup (IF linked THEN {} ELSE {"orphan"})
          \subseteq {"unsaved", "tail", "orphan"}
    BY <1>3, <1>5
  <2>3. doubt' = (doubt \ {"given up"}) \cup
                   (Unsaved \cup Surplus(t, ent.loaded) \cup (IF linked THEN {} ELSE {"orphan"}))
    BY <1>1
  <2>4. QED
    BY <1>2, <2>1, <2>2, <2>3
<1>7. remote' \in File /\ want' \in File /\ Padded(remote') /\ Padded(want')
      /\ events' \in 0 .. MaxEvents
  BY <1>1, <1>2
<1>8. TypeOK' /\ ent' = Closed
  BY <1>1, <1>7, OpensType, ClosedType
<1>9. Sound(ent') /\ ~(ent'.refcnt > 0)
  BY <1>8, ClosedIsSound
<1>10. ent.file \in File /\ ent.loaded \subseteq Extent(0, ent.size) /\ Extent(0, ent.size) \subseteq Pos
       /\ ent.file.len = ent.size /\ ent.size \in Nat
  BY <1>2, EntityParts, SizesAssumption DEF Extent, Pos, Sound
<1>11. ASSUME doubt' = {} PROVE AgreeAt(Claims(text'), data', remote')
  <2>1. linked /\ Unsaved = {} /\ Surplus(t, ent.loaded) = {} /\ doubt \subseteq {"given up"}
    BY <1>1, <1>2, <1>11
  <2>2. Saved /\ Claims(t) \subseteq ent.loaded
    BY <1>3, <1>5, <2>1
  <2>3. Faithful(ent, remote, {}, remote)
    BY <1>2, <2>1, <2>2 DEF LinkedOK, Mirrors
  <2>4. ASSUME NEW i \in Claims(t)
        PROVE  i \in Pos /\ i < ent.file.len /\ ent.file.at[i] = ByteAt(remote, i)
    <3>1. i \in ent.loaded /\ i \in Extent(0, ent.size) /\ i \in Pos
      BY <1>10, <2>2, <2>4
    <3>2. ent.file.at[i] = remote.at[i] /\ ent.size = remote.len
      BY <2>3, <3>1 DEF Faithful
    <3>3. i < ent.size
      BY <1>10, <3>1 DEF Extent
    <3>4. QED
      BY <1>10, <3>1, <3>2, <3>3 DEF ByteAt
  <2>5. AgreeAt(Claims(t), ent.file, remote)
    BY <1>2, <1>10, <2>4, LoadedAgree
  <2>6. QED
    BY <1>1, <2>1, <2>5
<1>12. data' \in File \cup {NoData} /\ text' \in AText /\ linked' = FALSE
  BY <1>1, <1>2, <1>4, <1>10
<1>13. doubt' \subseteq {"given up"} => doubt' = {}
  BY <1>6
<1>14. QED
  BY <1>6, <1>7, <1>8, <1>9, <1>11, <1>12, <1>13, RestStep

\* The process dies.
LEMMA CrashStep == CInv /\ Crash => CInv'
<1> SUFFICES ASSUME CInv, Crash PROVE CInv'
  OBVIOUS
<1>1. /\ IsOpen /\ Event /\ Opens(Closed) /\ text' = text
      /\ data' = IF linked THEN ent.file ELSE data
      /\ doubt' = doubt \cup Unsaved \cup (IF "given up" \in doubt THEN {"old list"} ELSE {})
      /\ linked' = FALSE /\ want' = remote /\ lastflush' = "ok" /\ remote' = remote
  BY DEF Crash
<1>2. /\ TypeOK /\ remote \in File /\ EntityOK(ent) /\ data \in File \cup {NoData} /\ text \in AText
      /\ doubt \subseteq Reason /\ linked \in BOOLEAN
      /\ Padded(remote) /\ Sound(ent) /\ (linked => LinkedOK) /\ (~linked => AtRest)
  BY CInvParts
<1>3. Unsaved \subseteq {"unsaved"} /\ (Unsaved = {} => Saved)
  BY <1>2, UnsavedParts
<1>4. doubt' \subseteq Reason
  <2>1. "unsaved" \in Reason /\ "old list" \in Reason
    BY DEF Reason
  <2>2. QED
    BY <1>1, <1>2, <1>3, <2>1
<1>5. ASSUME doubt' \subseteq {"given up"} PROVE doubt' = {}
  <2>1. "old list" \notin doubt' /\ "unsaved" \notin doubt'
    BY <1>5
  <2>2. "given up" \notin doubt /\ Unsaved = {}
    BY <1>1, <1>3, <2>1
  <2>3. doubt = {}
    BY <1>1, <1>5, <2>2
  <2>4. QED
    BY <1>1, <2>2, <2>3
<1>6. remote' \in File /\ want' \in File /\ Padded(remote') /\ Padded(want')
      /\ events' \in 0 .. MaxEvents
  BY <1>1, <1>2, EventType
<1>7. TypeOK' /\ ent' = Closed
  BY <1>1, <1>6, OpensType, ClosedType
<1>8. Sound(ent') /\ ~(ent'.refcnt > 0)
  BY <1>7, ClosedIsSound
<1>9. ent.file \in File /\ Extent(0, ent.size) \subseteq Pos /\ ent.file.len = ent.size
      /\ ent.size \in Nat
  BY <1>2, EntityParts, SizesAssumption DEF Extent, Pos, Sound
<1>10. ASSUME doubt' = {} PROVE AgreeAt(Claims(text'), data', remote')
  <2>1. doubt = {} /\ Unsaved = {} /\ Saved
    BY <1>1, <1>3, <1>10
  <2>2. CASE linked
    <3>1. /\ Faithful(ent, remote, {}, remote)
          /\ \A i \in Claims(text) : i < ent.size => i \in ent.loaded
      BY <1>2, <2>1, <2>2 DEF LinkedOK, Mirrors
    <3>2. Claims(text) \subseteq Pos
      BY ClaimsInside
    <3>3. ASSUME NEW i \in Claims(text) PROVE ByteAt(ent.file, i) = ByteAt(remote, i)
      <4>1. ent.size = remote.len /\ i \in Pos
        BY <3>1, <3>2 DEF Faithful
      <4>2. CASE i < ent.size
        <5>1. i \in ent.loaded /\ i \in Extent(0, ent.size)
          BY <1>9, <3>1, <4>1, <4>2, SizesAssumption DEF Extent, Pos
        <5>2. ent.file.at[i] = remote.at[i]
          BY <3>1, <5>1 DEF Faithful
        <5>3. QED
          BY <1>9, <4>1, <4>2, <5>2 DEF ByteAt
      <4>3. CASE ~(i < ent.size)
        BY <1>9, <4>1, <4>3 DEF ByteAt
      <4>4. QED
        BY <4>2, <4>3
    <3>4. QED
      BY <1>1, <2>2, <3>3 DEF AgreeAt
  <2>3. CASE ~linked
    BY <1>1, <1>2, <2>1, <2>3 DEF AtRest
  <2>4. QED
    BY <2>2, <2>3
<1>11. data' \in File \cup {NoData} /\ text' \in AText /\ linked' = FALSE
  BY <1>1, <1>2, <1>9
<1>12. QED
  BY <1>4, <1>5, <1>6, <1>7, <1>8, <1>10, <1>11, RestStep

\* FdEntity::Read on a full disk gives up what is loaded.
LEMMA ReadOnFullDiskStep ==
  ASSUME CInv, NEW start \in Nat, ReadOnFullDisk(start)
  PROVE  CInv'
<1> DEFINE e == Release4Space(ent)
           n == LoadSize(ent, start, 1)
<1>1. /\ IsOpen /\ ~ent.is_modify /\ Unloaded(ent, start, 1) # {}
      /\ data' = data /\ text' = text /\ linked' = linked /\ events' = events
      /\ doubt' = doubt \cup {"given up"}
      /\ remote' = remote /\ want' = want /\ lastflush' = lastflush /\ regrown' = regrown
      /\ inorder' = inorder /\ doubt \subseteq {"given up"}
  BY DEF ReadOnFullDisk, Session, files
<1>2. PICK o \in Load(e, start, n) : ent' = o.ent /\ dropped' = Drops(o.ent)
  BY DEF ReadOnFullDisk
<1>3. /\ TypeOK /\ remote \in File /\ EntityOK(ent) /\ data \in File \cup {NoData} /\ text \in AText
      /\ events \in 0 .. MaxEvents /\ linked \in BOOLEAN /\ Padded(remote) /\ Padded(want)
      /\ Sound(ent) /\ (linked => LinkedOK) /\ (~linked => AtRest)
  BY CInvParts
<1>4. n \in Nat
  BY <1>3, LoadSizeType
<1>5. /\ ent \in Entity /\ ent.size \in 0 .. Cap /\ ent.file \in File
      /\ Extent(0, ent.size) \subseteq Pos /\ ent.size \in Nat
  BY <1>3, EntityParts, SizesAssumption DEF Extent, Pos, EntityOK
<1>6. /\ Cut(Empty, ent.size).len = ent.size /\ Padded(Cut(Empty, ent.size))
  BY <1>5, EmptyType, CutParts
<1>7. /\ e.loaded = {} /\ e.file = Cut(Empty, ent.size) /\ e.size = ent.size
      /\ e.orgsize = ent.orgsize /\ e.refcnt = ent.refcnt /\ e.upload = ent.upload
  BY <1>1, <1>5 DEF Release4Space, Entity
<1>8. Sound(e)
  BY <1>3, <1>6, <1>7, ReleaseType DEF Sound
<1> HIDE DEF e, n
<1>9. Follows(o.ent, e)
  BY <1>3, <1>4, <1>8, LoadFollows DEF Sound
<1>10. /\ Sound(o.ent) /\ o.ent.size = ent.size /\ o.ent.orgsize = ent.orgsize
       /\ o.ent.refcnt = ent.refcnt
       /\ Faithful(e, remote, {}, remote) => Faithful(o.ent, remote, {}, remote)
  BY <1>3, <1>7, <1>8, <1>9, FollowsSound
<1>11. TypeOK'
  BY <1>1, <1>2, <1>3, <1>10, DropsType DEF TypeOK, Sound
<1>12. doubt' \subseteq Reason /\ doubt' # {}
  BY <1>1 DEF Reason
<1>13. Sound(ent') /\ ent'.refcnt > 0
  BY <1>1, <1>2, <1>10 DEF IsOpen
<1>14. Padded(remote') /\ Padded(want') /\ data' \in File \cup {NoData} /\ text' \in AText
       /\ events' \in 0 .. MaxEvents
  BY <1>1, <1>3
<1>15. CASE linked
  <2>1. ASSUME ~ent'.is_modify, ~dropped' PROVE Mirrors(ent', remote')
    <3>1. Saved
      BY <1>1, <1>2, <2>1, NothingDropped
    <3>2. Mirrors(ent, remote)
      BY <1>1, <1>3, <1>15, <3>1 DEF LinkedOK
    <3>3. ent.orgsize = ent.size
      <4>1. Unloaded(ent, start, 1) \subseteq Extent(0, ent.size) \ ent.loaded
        BY <1>3, UnloadedInside
      <4>2. Unloaded(ent, start, 1) # {}
        BY <1>1
      <4>3. PICK i : i \in Unloaded(ent, start, 1)
        BY <4>2
      <4>4. i \in Extent(0, ent.size) /\ i \notin ent.loaded
        BY <4>1, <4>3
      <4>5. ent.loaded # Extent(0, ent.size)
        BY <4>4
      <4>6. QED
        BY <3>2, <4>5 DEF Mirrors
    <3>4. ent.size = remote.len
      BY <3>2 DEF Mirrors, Faithful
    <3>5. Faithful(e, remote, {}, remote)
      <4>1. e.size = remote.len /\ e.file.len = e.size
        BY <1>6, <1>7, <3>4
      <4>2. ASSUME NEW i \in Extent(0, e.size) \ {}
            PROVE  i \notin e.loaded /\ i < e.orgsize /\ i < remote.len
        BY <1>5, <1>7, <3>3, <3>4, <4>2 DEF Extent
      <4>3. QED
        BY <4>1, <4>2 DEF Faithful
    <3>6. QED
      BY <1>1, <1>2, <1>10, <3>3, <3>5 DEF Mirrors
  <2>2. linked' = TRUE
    BY <1>1, <1>15
  <2>3. QED
    BY <1>11, <1>12, <1>13, <1>14, <2>1, <2>2, LinkedStep
<1>16. CASE ~linked
  <2>1. text' = NoText
    BY <1>1, <1>3, <1>16 DEF AtRest
  <2>2. linked' = FALSE
    BY <1>1, <1>3, <1>16
  <2>3. QED
    BY <1>11, <1>12, <1>13, <1>14, <2>1, <2>2, RestStep
<1>17. QED
  BY <1>3, <1>15, <1>16

\* The texts and files that a step may put in place.
LEMMA Replacements ==
  /\ NoText \in AText /\ NewText \in AText /\ Empty \in File /\ Padded(Empty)
  /\ \A n \in Sizes : \A at \in SUBSET Extent(0, n) :
       Holding(n, at) \in File /\ Padded(Holding(n, at))
  /\ \A f, w : AgreeAt(Claims(NoText), f, w)
<1>1. NoText \in AText /\ NewText \in AText
  BY DEF AText
<1>2. Padded(Empty)
  BY DEF Padded, Empty
<1>3. ASSUME NEW n \in Sizes, NEW at \in SUBSET Extent(0, n)
      PROVE  Holding(n, at) \in File /\ Padded(Holding(n, at))
  <2>1. n \in 0 .. Cap /\ n \in Nat
    BY SizesAssumption DEF Sizes
  <2>2. [i \in Pos |-> IF i \in at THEN Initial ELSE Zero] \in [Pos -> Byte]
    BY BytesAssumption
  <2>3. Holding(n, at) \in File
    BY <2>1, <2>2 DEF Holding, File
  <2>4. \A i \in Pos : n <= i => i \notin at
    BY <2>1, SizesAssumption DEF Pos, Extent
  <2>5. Padded(Holding(n, at))
    BY <2>4 DEF Padded, Holding
  <2>6. QED
    BY <2>3, <2>5
<1>4. QED
  BY <1>1, <1>2, <1>3, EmptyType, ClaimsInside DEF AgreeAt

\* A step that changes the files of the path, and leaves the entity alone.
LEMMA EntityKept ==
  ASSUME CInv, ent' = ent, lastflush' = lastflush, regrown' = regrown, dropped' = dropped,
         inorder' = inorder, remote' \in File, want' \in File
  PROVE  TypeOK' /\ Sound(ent') /\ (ent'.refcnt > 0 <=> IsOpen)
BY CInvParts DEF TypeOK, IsOpen

\* s3fs_unlink.
LEMMA UnlinkStep == CInv /\ Unlink => CInv'
<1> SUFFICES ASSUME CInv, Unlink PROVE CInv'
  OBVIOUS
<1>1. /\ Event /\ data' = NoData /\ (remote' = remote \/ remote' = Empty) /\ linked' = FALSE
      /\ want' = IF IsOpen THEN want ELSE remote'
      /\ ent' = ent /\ lastflush' = lastflush /\ regrown' = regrown /\ dropped' = dropped
      /\ inorder' = inorder
  BY DEF Unlink
<1>2. \/ text' = NoText /\ doubt' = IF IsOpen THEN doubt ELSE {}
      \/ ~IsOpen /\ text' = text /\ doubt' = doubt \cup {"orphan"}
  BY DEF Unlink
<1>3. /\ remote \in File /\ want \in File /\ text \in AText /\ doubt \subseteq Reason
      /\ Padded(remote) /\ Padded(want)
  BY CInvParts
<1>4. remote' \in File /\ want' \in File /\ Padded(remote') /\ Padded(want')
  BY <1>1, <1>3, Replacements
<1>5. TypeOK' /\ Sound(ent') /\ (ent'.refcnt > 0 <=> IsOpen)
  BY <1>1, <1>4, EntityKept
<1>6. events' \in 0 .. MaxEvents
  BY <1>1, EventType
<1>7. text' \in AText /\ doubt' \subseteq Reason
  BY <1>2, <1>3, Replacements DEF Reason
<1>8. CASE text' = NoText /\ doubt' = IF IsOpen THEN doubt ELSE {}
  <2>1. AgreeAt(Claims(text'), data', remote')
    BY <1>8, Replacements
  <2>2. ~(ent'.refcnt > 0) => doubt' = {}
    BY <1>5, <1>8
  <2>3. QED
    BY <1>1, <1>4, <1>5, <1>6, <1>7, <1>8, <2>1, <2>2, RestStep
<1>9. CASE ~IsOpen /\ text' = text /\ doubt' = doubt \cup {"orphan"}
  <2>1. ~(doubt' \subseteq {"given up"}) /\ doubt' # {}
    BY <1>9
  <2>2. QED
    BY <1>1, <1>4, <1>5, <1>6, <1>7, <1>9, <2>1, RestStep
<1>10. QED
  BY <1>2, <1>8, <1>9

\* A rename of the path.
LEMMA RenameAwayStep == CInv /\ RenameAway => CInv'
<1> SUFFICES ASSUME CInv, RenameAway PROVE CInv'
  OBVIOUS
<1>1. /\ Event /\ ~IsOpen /\ remote.len <= MaxSize /\ data' = NoData /\ want' = remote'
      /\ ent' = ent /\ lastflush' = lastflush /\ regrown' = regrown /\ dropped' = dropped
      /\ inorder' = inorder /\ linked' = linked
  BY DEF RenameAway
<1>2. \/ text' = NoText /\ doubt' = {} /\ (remote' = remote \/ remote' = Empty)
      \/ /\ text' = OpenFiles(remote.len).text /\ doubt' = doubt \cup {"orphan"}
         /\ remote' = remote
  BY DEF RenameAway
<1>3. /\ remote \in File /\ text \in AText /\ doubt \subseteq Reason
      /\ data \in File \cup {NoData} /\ Padded(remote)
  BY CInvParts
<1>4. remote' \in File /\ want' \in File /\ Padded(remote') /\ Padded(want')
  BY <1>1, <1>2, <1>3, Replacements
<1>5. TypeOK' /\ Sound(ent') /\ ~(ent'.refcnt > 0)
  BY <1>1, <1>4, EntityKept
<1>6. events' \in 0 .. MaxEvents /\ linked' = FALSE
  BY <1>1, EventType, ClosedParts
<1>7. remote.len \in Sizes
  BY <1>1, <1>3, SizesAssumption DEF File, Sizes
<1>8. text' \in AText /\ doubt' \subseteq Reason
  BY <1>2, <1>3, <1>7, OpenFilesParts, Replacements DEF Reason
<1>9. CASE text' = NoText /\ doubt' = {}
  <2>1. AgreeAt(Claims(text'), data', remote')
    BY <1>9, Replacements
  <2>2. QED
    BY <1>1, <1>4, <1>5, <1>6, <1>8, <1>9, <2>1, RestStep
<1>10. CASE doubt' = doubt \cup {"orphan"}
  <2>1. ~(doubt' \subseteq {"given up"}) /\ doubt' # {}
    BY <1>10
  <2>2. QED
    BY <1>1, <1>4, <1>5, <1>6, <1>8, <2>1, RestStep
<1>11. QED
  BY <1>2, <1>9, <1>10

\* A rename of another path to this one.
LEMMA RenameOntoStep ==
  ASSUME CInv, NEW n \in 1 .. MaxSize, NEW loaded \in SUBSET Extent(0, n), RenameOnto(n, loaded)
  PROVE  CInv'
<1> DEFINE all == Holding(n, Extent(0, n))
           new == Save(NewText, n, loaded)
<1>1. /\ Event /\ ~IsOpen /\ remote' = all /\ want' = all /\ data' = Holding(n, loaded)
      /\ ent' = ent /\ lastflush' = lastflush /\ regrown' = regrown /\ dropped' = dropped
      /\ inorder' = inorder /\ linked' = linked
  BY DEF RenameOnto
<1>2. \/ text' = new /\ doubt' = {}
      \/ text' = NoText /\ doubt' = {}
      \/ text' = text /\ doubt' = doubt \cup {"orphan"}
  BY DEF RenameOnto
<1>3. text \in AText /\ doubt \subseteq Reason
  BY CInvParts
<1>4. n \in Sizes /\ n \in Nat
  BY SizesAssumption DEF Sizes
<1>5. /\ all \in File /\ Padded(all) /\ Holding(n, loaded) \in File
  BY <1>4, Replacements
<1>6. new \in AText /\ Claims(new) \subseteq loaded
  BY <1>4, SaveParts, Replacements, NewSaveClaims
<1>7. AgreeAt(Claims(new), Holding(n, loaded), all)
  <2>1. ASSUME NEW i \in Claims(new) PROVE ByteAt(Holding(n, loaded), i) = ByteAt(all, i)
    <3>1. i \in loaded /\ i \in Extent(0, n) /\ i \in Pos
      BY <1>6, ClaimsInside
    <3>2. Holding(n, loaded).at[i] = Initial /\ all.at[i] = Initial
      BY <3>1 DEF Holding
    <3>3. Holding(n, loaded).len = n /\ all.len = n
      BY DEF Holding
    <3>4. QED
      BY <3>1, <3>2, <3>3 DEF ByteAt
  <2>2. QED
    BY <2>1 DEF AgreeAt
<1> HIDE DEF all, new
<1>8. remote' \in File /\ want' \in File /\ Padded(remote') /\ Padded(want') /\ data' \in File
  BY <1>1, <1>5
<1>9. TypeOK' /\ Sound(ent') /\ ~(ent'.refcnt > 0)
  BY <1>1, <1>8, EntityKept
<1>10. events' \in 0 .. MaxEvents /\ linked' = FALSE
  BY <1>1, EventType, ClosedParts
<1>11. text' \in AText /\ doubt' \subseteq Reason
  BY <1>2, <1>3, <1>6, Replacements DEF Reason
<1>12. doubt' = {} => AgreeAt(Claims(text'), data', remote')
  <2>1. CASE text' = new
    BY <1>1, <1>7, <2>1
  <2>2. CASE text' = NoText
    BY <2>2, Replacements
  <2>3. CASE doubt' = doubt \cup {"orphan"}
    <3>1. doubt' # {}
      BY <2>3
    <3>2. QED
      BY <3>1
  <2>4. QED
    BY <1>2, <2>1, <2>2, <2>3
<1>13. doubt' \subseteq {"given up"} => doubt' = {}
  <2>1. CASE doubt' = doubt \cup {"orphan"}
    <3>1. "orphan" \in doubt'
      BY <2>1
    <3>2. "orphan" \notin {"given up"}
      OBVIOUS
    <3>3. QED
      BY <3>1, <3>2
  <2>2. QED
    BY <1>2, <2>1
<1>14. QED
  BY <1>8, <1>9, <1>10, <1>11, <1>12, <1>13, RestStep

\* The cache directory is deleted.
LEMMA DelCacheStep == CInv /\ DelCache => CInv'
<1> SUFFICES ASSUME CInv, DelCache PROVE CInv'
  OBVIOUS
<1>1. /\ Event /\ ~IsOpen /\ data' = NoData
      /\ doubt' = IF text = NoText THEN doubt ELSE doubt \cup {"orphan"}
      /\ text' = text /\ linked' = linked
      /\ remote' = remote /\ want' = want /\ ent' = ent /\ lastflush' = lastflush
      /\ regrown' = regrown /\ dropped' = dropped /\ inorder' = inorder
  BY DEF DelCache, vars
<1>2. /\ remote \in File /\ want \in File /\ text \in AText /\ doubt \subseteq Reason
      /\ Padded(remote) /\ Padded(want)
  BY CInvParts
<1>3. remote' \in File /\ want' \in File /\ Padded(remote') /\ Padded(want') /\ text' \in AText
  BY <1>1, <1>2
<1>4. TypeOK' /\ Sound(ent') /\ ~(ent'.refcnt > 0)
  BY <1>1, <1>3, EntityKept
<1>5. events' \in 0 .. MaxEvents /\ linked' = FALSE
  BY <1>1, EventType, ClosedParts
<1>6. doubt' \subseteq Reason
  BY <1>1, <1>2 DEF Reason
<1>7. doubt' = {} => AgreeAt(Claims(text'), data', remote')
  BY <1>1, Replacements
<1>8. doubt' \subseteq {"given up"} => doubt' = {}
  BY <1>1, ClosedParts
<1>9. QED
  BY <1>1, <1>3, <1>4, <1>5, <1>6, <1>7, <1>8, RestStep

\* Another client replaces the object.
LEMMA ReplaceStep ==
  ASSUME CInv, NEW n \in 1 .. MaxSize, Replace(n)
  PROVE  CInv'
<1>1. /\ Event /\ ~IsOpen /\ remote' = Holding(n, Extent(0, n)) /\ want' = remote'
      /\ doubt' = IF data = NoData /\ text = NoText THEN doubt ELSE doubt \cup {"foreign"}
      /\ ent' = ent /\ lastflush' = lastflush /\ regrown' = regrown /\ dropped' = dropped
      /\ inorder' = inorder /\ data' = data /\ text' = text /\ linked' = linked
  BY DEF Replace, files
<1>2. /\ text \in AText /\ doubt \subseteq Reason /\ data \in File \cup {NoData}
  BY CInvParts
<1>3. n \in Sizes
  BY SizesAssumption DEF Sizes
<1>4. remote' \in File /\ want' \in File /\ Padded(remote') /\ Padded(want')
      /\ data' \in File \cup {NoData} /\ text' \in AText
  BY <1>1, <1>2, <1>3, Replacements
<1>5. TypeOK' /\ Sound(ent') /\ ~(ent'.refcnt > 0)
  BY <1>1, <1>4, EntityKept
<1>6. events' \in 0 .. MaxEvents /\ linked' = FALSE
  BY <1>1, EventType, ClosedParts
<1>7. doubt' \subseteq Reason
  BY <1>1, <1>2 DEF Reason
<1>8. doubt' = {} => AgreeAt(Claims(text'), data', remote')
  BY <1>1, Replacements
<1>9. doubt' \subseteq {"given up"} => doubt' = {}
  BY <1>1, ClosedParts
<1>10. QED
  BY <1>4, <1>5, <1>6, <1>7, <1>8, <1>9, RestStep

\* Every step keeps the invariant.
LEMMA CacheStepOK == SafeDisk = {TRUE} /\ CInv /\ [CacheNext]_cvars => CInv'
<1> SUFFICES ASSUME SafeDisk = {TRUE}, CInv, [CacheNext]_cvars PROVE CInv'
  OBVIOUS
<1>1. CASE UNCHANGED cvars
  BY <1>1 DEF cvars, vars, files, CInv, CacheTypeOK, TypeOK, CacheInv, LinkedOK, AtRest,
              Saved, Inductive, CopyIsWanted, IsOpen, SameButRegrown
<1>2. TypeOK /\ Padded(remote) /\ Padded(want) /\ Sound(ent)
  BY CInvParts
<1>3. CASE FlushCached
  <2>1. FlushFile /\ Kept /\ IsOpen
    BY <1>3 DEF FlushCached, FlushFile
  <2>2. QED
    BY <1>2, <2>1, FlushHandled, HandlerStep DEF Next
<1>4. ASSUME NEW n \in Sizes, TruncateCached(n) PROVE CInv'
  <2>1. TruncateFile(n) /\ Kept /\ IsOpen
    BY <1>4 DEF TruncateCached, TruncateFile
  <2>2. QED
    BY <1>2, <2>1, TruncateHandled, HandlerStep DEF Next
<1>5. ASSUME NEW i \in Extent(0, MaxSize) PROVE i \in Nat /\ i \in Sizes /\ 1 \in 1 .. MaxSize
  BY SizesAssumption DEF Extent, Sizes
<1>6. ASSUME NEW i \in Extent(0, MaxSize), ReadCached(i) PROVE CInv'
  <2>1. ReadFile(i, 1) /\ Kept /\ IsOpen
    BY <1>6 DEF ReadCached, ReadFile
  <2>2. Next
    BY <1>5, <2>1 DEF Next
  <2>3. QED
    BY <1>2, <1>5, <2>1, <2>2, ReadHandled, HandlerStep
<1>7. ASSUME NEW i \in Extent(0, MaxSize), WriteCached(i) PROVE CInv'
  <2>1. WriteFile(i, 1, Written) /\ Kept /\ IsOpen /\ Written \in Byte
    BY <1>7, CacheAssumption DEF WriteCached, WriteFile
  <2>2. Next
    BY <1>5, <2>1 DEF Next
  <2>3. QED
    BY <1>2, <1>5, <2>1, <2>2, WriteHandled, HandlerStep
<1>8. ASSUME NEW i \in Extent(0, MaxSize), ReadOnFullDisk(i) PROVE CInv'
  BY <1>5, <1>8, ReadOnFullDiskStep
<1>9. QED
  BY <1>1, <1>3, <1>4, <1>6, <1>7, <1>8, OpenCachedStep, OpenTruncatedCachedStep,
     TruncateClosedCachedStep, ReleaseCachedStep, CrashStep, UnlinkStep, RenameAwayStep,
     RenameOntoStep, DelCacheStep, ReplaceStep DEF CacheNext

-----------------------------------------------------------------------------
(***************************************************************************)
(* The theorems.                                                           *)
(***************************************************************************)
\* With space on the disk for writes, every reachable state satisfies the
\* invariant.
LEMMA CacheInvariant == SafeDisk = {TRUE} => (CacheSpec => []CInv)
<1> SUFFICES ASSUME SafeDisk = {TRUE} PROVE CacheSpec => []CInv
  OBVIOUS
<1>1. CacheInit => CInv
  BY CacheInitOK
<1>2. CInv /\ [CacheNext]_cvars => CInv'
  BY CacheStepOK
<1>3. QED
  BY <1>1, <1>2, PTL DEF CacheSpec

\* The cache file, its text and the entity keep their types: CacheTypeOK; in
\* particular Serialize over an older text leaves lines of numbers within the
\* limit, and the cache file is linked only while the file is open.  OneDigit,
\* here and below, is where the model is that of the code; the proof does not
\* use it.
THEOREM CacheTypeCorrect ==
  SafeDisk = {TRUE} /\ OneDigit => (CacheSpec => []CacheTypeOK)
<1> SUFFICES ASSUME SafeDisk = {TRUE} PROVE CacheSpec => []CacheTypeOK
  OBVIOUS
<1>1. CInv => CacheTypeOK
  BY DEF CInv
<1>2. CacheSpec => []CInv
  BY CacheInvariant
<1>3. QED
  BY <1>1, <1>2, PTL

\* What an earlier open left in the cache never makes a file other than the
\* object with the changes of the application, unless one of the reasons in
\* doubt holds: CachedIsObject.
THEOREM CachedCorrect ==
  SafeDisk = {TRUE} /\ OneDigit => (CacheSpec => []CachedIsObject)
<1> SUFFICES ASSUME SafeDisk = {TRUE} PROVE CacheSpec => []CachedIsObject
  OBVIOUS
<1>1. CInv => CachedIsObject
  BY CInvParts DEF CachedIsObject, LinkedOK, Inductive, CopyIsWanted
<1>2. CacheSpec => []CInv
  BY CacheInvariant
<1>3. QED
  BY <1>1, <1>2, PTL
=============================================================================
