------------------------------ MODULE FdEntity ------------------------------
(***************************************************************************)
(* One open file of cosfs: class FdEntity (fdcache.cpp) for the default    *)
(* mount, where the local copy is an unnamed temporary file.  The object   *)
(* lies in the bucket; the entity holds a partial local copy, downloads    *)
(* what it misses, and uploads the whole file on flush.  Every method      *)
(* holds fdent_lock from its first test to its return, network included,   *)
(* so a method is one action; how callers interleave between methods is    *)
(* the subject of FdManager.                                               *)
(*                                                                         *)
(* The page list is the set of loaded bytes (PageListSpec shows that the   *)
(* list of extents implements it).  A method is an operator that maps the  *)
(* entity to the SET of its outcomes [ent, ok]: one for each way its       *)
(* requests and system calls may end.  Left out: force_load and the cache  *)
(* directory (a mount without use_cache has neither), the evening out of   *)
(* the last two parts of a huge upload, and times.                         *)
(*                                                                         *)
(* want, lastflush, regrown, dropped and inorder are history: the code has *)
(* no such variables, and no guard of a method reads them (only Release    *)
(* does, for the kernel's promise to call flush before the last release).  *)
(***************************************************************************)
EXTENDS Integers

CONSTANTS
  MaxSize,        \* bound: largest file an application makes
  Cap,            \* bound: largest object an upload of the instance builds
  MaxRef,         \* bound: open handles at one time
  Byte, Zero,     \* byte values; Zero fills holes
  Initial,        \* the byte an object is made of before the first open
  SafeDisk,       \* the answers FdManager::IsSafeDiskSpace may give
  HeadersMayFail, \* whether put_headers after an upload can fail
  Prefetch,       \* FdEntity::GetPretchSize
  MultipartSize,  \* S3fsCurl::GetMultipartSize
  MinPart,        \* MIN_MULTIPART_SIZE
  MaxObject       \* MAX_MULTIPART_CNT * MultipartSize

ASSUME SizesAssumption ==
  /\ MaxSize \in Nat \ {0} /\ MaxRef \in Nat \ {0}
  /\ Cap \in Nat /\ Cap >= 2 * MaxSize
  /\ Prefetch \in Nat /\ MaxObject \in Nat
  /\ MultipartSize \in Nat \ {0} /\ MinPart \in Nat \ {0}
ASSUME BytesAssumption == Zero \in Byte /\ Initial \in Byte
ASSUME FaultsAssumption ==
  SafeDisk \in (SUBSET BOOLEAN) \ {{}} /\ HeadersMayFail \in BOOLEAN

VARIABLES
  remote,         \* the object in the bucket
  ent,            \* the FdEntity; refcnt 0: closed, deleted from the manager
  want,           \* history: the content the application may expect
  lastflush,      \* history: how the last flush since the last change ended
  regrown,        \* history: bytes cut off and brought back below size_orgmeta
  dropped,        \* history: a Load cleared is_modify over unsaved data
  inorder         \* history: a new file, written at its end only

vars == <<remote, ent, want, lastflush, regrown, dropped, inorder>>

-----------------------------------------------------------------------------
(***************************************************************************)
(* Files.  Bytes past the length are Zero, as ftruncate leaves them when   *)
(* it extends a file.                                                      *)
(***************************************************************************)
Pos == 0 .. (Cap - 1)
Extent(from, upto) == from .. (upto - 1)
Larger(m, n)  == IF m < n THEN n ELSE m
Smaller(m, n) == IF m < n THEN m ELSE n

File == [len : 0 .. Cap, at : [Pos -> Byte]]

Empty == [len |-> 0, at |-> [i \in Pos |-> Zero]]

\* ftruncate(2), in either direction.
Cut(f, n) ==
  [len |-> n, at |-> [i \in Pos |-> IF i < n /\ i < f.len THEN f.at[i] ELSE Zero]]

\* pwrite(2) of n equal bytes.
Overlay(f, start, n, b) ==
  [len |-> Larger(f.len, start + n),
   at  |-> [i \in Pos |-> IF i \in Extent(start, start + n) THEN b ELSE f.at[i]]]

ByteAt(f, i) == IF i \in Pos /\ i < f.len THEN f.at[i] ELSE Zero

\* An uploaded part: n bytes of f from position start, after what is posted.
Post(posted, f, start, n) ==
  [len |-> Smaller(Cap, posted.len + n),
   at  |-> [i \in Pos |->
             IF i < posted.len THEN posted.at[i]
             ELSE IF i < posted.len + n THEN ByteAt(f, start + i - posted.len)
             ELSE Zero]]

-----------------------------------------------------------------------------
(***************************************************************************)
(* The entity.                                                             *)
(***************************************************************************)
Sizes == 0 .. MaxSize

Entity ==
  [refcnt : Nat, size : Sizes, loaded : SUBSET Extent(0, MaxSize),
   file : File, orgsize : 0 .. Cap, is_modify : BOOLEAN,
   upload : BOOLEAN, posted : File, mp_start : 0 .. Cap, mp_size : 0 .. Cap,
   flushed : BOOLEAN, pending : BOOLEAN]

EntityOK(e) == e \in Entity /\ e.loaded \subseteq Extent(0, e.size)

\* A new FdEntity after a successful FdEntity::Open with the given size: an
\* empty temporary file of that size, of which nothing is loaded; the headers
\* give size_orgmeta.
Opened(size) ==
  [refcnt |-> 1, size |-> size, loaded |-> {}, file |-> Cut(Empty, size),
   orgsize |-> remote.len, is_modify |-> FALSE,
   upload |-> FALSE, posted |-> Empty, mp_start |-> 0, mp_size |-> 0,
   flushed |-> FALSE, pending |-> FALSE]

Closed == [refcnt |-> 0, size |-> 0, loaded |-> {}, file |-> Empty,
           orgsize |-> 0, is_modify |-> FALSE, upload |-> FALSE,
           posted |-> Empty, mp_start |-> 0, mp_size |-> 0,
           flushed |-> FALSE, pending |-> FALSE]

Done(e)   == [ent |-> e, ok |-> TRUE]
Failed(e) == [ent |-> e, ok |-> FALSE]

-----------------------------------------------------------------------------
(***************************************************************************)
(* FdEntity::Load: download the unloaded extents of an area one by one.    *)
(* Below size_orgmeta an extent comes from the object, the rest is filled  *)
(* with zeros.  A GET that starts past the end of the object is refused    *)
(* (416); one that crosses the end gets the bytes there are.  When an      *)
(* extent fails those before it stay loaded.                               *)
(***************************************************************************)
Unloaded(e, start, n) ==
  {i \in Extent(start, IF n = 0 THEN e.size ELSE start + n) : i < e.size} \ e.loaded

Starts(need) == {i \in need : i - 1 \notin need}

\* Refused below, for a Load that asks for every extent, holes included.
RefusedPastObject(e, need) == {i \in Starts(need) : remote.len <= i}

Refused(e, need) == {i \in Starts(need) : i < e.orgsize /\ remote.len <= i}

\* pwrite extends a file to the last byte written; the set has one element.
LengthWith(f, written) ==
  {n \in f.len .. Cap : /\ \A i \in written : i < n
                        /\ n = f.len \/ n - 1 \in written}

Fetch(e, got) ==
  LET filled  == {i \in got : e.orgsize <= i}
      written == filled \cup {i \in got : i < remote.len}
      Content(i) == IF i \in filled THEN Zero
                    ELSE IF i \in written THEN remote.at[i] ELSE e.file.at[i]
  IN {[e EXCEPT !.loaded = @ \cup got,
                !.file = [len |-> n, at |-> [i \in Pos |-> Content(i)]],
                !.is_modify = @ /\ filled = {}] : n \in LengthWith(e.file, written)}

\* Load below, marking an extent loaded before its download can fail.
LoadMarkingEarly(e, start, n) ==
  LET need  == Unloaded(e, start, n)
      stops == {c \in Starts(need) : \A r \in Refused(e, need) : c <= r}
      Before(c) == {i \in need : i < c}
  IN {Done(g) : g \in {f \in Fetch(e, need) : Refused(e, need) = {}}}
     \cup UNION {{Failed([g EXCEPT !.loaded = @ \cup need]) :
                   g \in Fetch(e, Before(c))} : c \in stops}

Load(e, start, n) ==
  LET need  == Unloaded(e, start, n)
      stops == {c \in Starts(need) : \A r \in Refused(e, need) : c <= r}
      Before(c) == {i \in need : i < c}
  IN {Done(g) : g \in {f \in Fetch(e, need) : Refused(e, need) = {}}}
     \cup UNION {{Failed(g) : g \in Fetch(e, Before(c))} : c \in stops}

-----------------------------------------------------------------------------
(***************************************************************************)
(* FdEntity::NoCacheLoadAndPost(0, hi), for a disk that is short of space: *)
(* post every page that begins before hi as parts of a multipart upload,   *)
(* downloading an unloaded page into another temporary file first, then    *)
(* mark the area loaded and empty the local file.  A page is posted to its *)
(* own end, which may lie past hi.  (hi = 0 means to the end.)             *)
(***************************************************************************)
SamePage(e, i, j) ==
  \A k \in Extent(Smaller(i, j), Larger(i, j) + 1) :
    (k \in e.loaded) = (i \in e.loaded)

\* The positions the loop visits: all of the pages that begin before hi.
Visited(e, hi) ==
  {i \in Extent(0, e.size) :
     hi = 0 \/ \E j \in Extent(0, Smaller(hi, e.size)) : SamePage(e, i, j)}

PageBegins(e, p, i) == /\ p <= i /\ SamePage(e, p, i)
                       /\ p = 0 \/ ~SamePage(e, p - 1, i)

\* Where a part begins: a page is cut into parts of MultipartSize, and a rest
\* below MinPart belongs to the part before it.
PartBegins(e, i) ==
  \E p \in 0 .. i :
    /\ PageBegins(e, p, i) /\ (i - p) % MultipartSize = 0
    /\ i > p => \A k \in Extent(i, i + MinPart) : k < e.size /\ SamePage(e, i, k)

\* What is posted for position i.
Image(e, i) ==
  IF i \in e.loaded THEN ByteAt(e.file, i)
  ELSE IF i < e.orgsize THEN ByteAt(remote, i) ELSE Zero

ImageFile(e) == [len |-> e.size,
                 at |-> [i \in Pos |-> IF i < e.size THEN Image(e, i) ELSE Zero]]

\* Zero-filling an unloaded position clears is_modify here too.
Zeroed(e, upto) == \E i \in Extent(0, upto) : i \notin e.loaded /\ e.orgsize <= i

Posting(e, upto, filled) ==
  [e EXCEPT !.posted = Post(@, ImageFile(e), 0, upto),
            !.is_modify = @ /\ ~Zeroed(e, filled)]

\* A part is refused when its download is, and every part without an upload id;
\* before all parts, the temporary file may not be made.
LoadAndPost(e, hi) ==
  LET visited == Visited(e, hi)
      begins  == {i \in visited : PartBegins(e, i)}
      refused == {i \in begins : i \notin e.loaded /\ i < e.orgsize /\ remote.len <= i}
      area    == {i \in Extent(0, e.size) : hi = 0 \/ i < hi}
      posted(n) == \A i \in Extent(0, e.size) : i \in visited <=> i < n
      \* the part from c to d fails, before its fill or after it
      part(c, d) == /\ c \in begins /\ c < d
                    /\ d \in begins \/ posted(d)
                    /\ \A i \in Extent(c + 1, d) : i \notin begins
      reached(c) == (e.upload \/ c = 0) /\ \A r \in refused : c <= r
      Broken(c, p, filled) ==
        [Posting(e, c, filled) EXCEPT !.loaded = @ \cup Extent(0, p)]
  IN {Done([Posting(e, n, n) EXCEPT !.loaded = @ \cup area, !.file = Empty]) :
        n \in {m \in 0 .. e.size : /\ posted(m) /\ refused = {}
                                   /\ e.upload \/ m = 0}}
     \cup {Failed(e)}
     \cup {Failed(Broken(x[1], x[2], x[3])) :
        x \in {y \in Sizes \X Sizes \X Sizes :
                 /\ reached(y[1]) /\ PageBegins(e, y[2], y[1])
                 /\ \E d \in Sizes : part(y[1], d) /\ y[3] \in {y[1], d}}}

-----------------------------------------------------------------------------
(***************************************************************************)
(* FdEntity::Read.  A missing area is loaded with some read-ahead.  On a   *)
(* full disk a clean entity first gives up everything it has loaded.       *)
(***************************************************************************)
LoadSize(e, start, n) ==
  IF start + n < e.size
    THEN Smaller(Larger(n, Prefetch), e.size - start)
    ELSE n

Release4Space(e) ==
  IF e.is_modify THEN e
  ELSE [e EXCEPT !.loaded = {}, !.file = Cut(Empty, e.size)]

\* Read below, looking only at the first byte before it decides to load.
ReadCheckingFirstByte(e, start, n) ==
  IF start \in e.loaded THEN {Done(e)}
  ELSE UNION {Load(IF safe THEN e ELSE Release4Space(e),
                   start, LoadSize(e, start, n)) : safe \in SafeDisk}

Read(e, start, n) ==
  IF Unloaded(e, start, n) = {} THEN {Done(e)}
  ELSE UNION {Load(IF safe THEN e ELSE Release4Space(e),
                   start, LoadSize(e, start, n)) : safe \in SafeDisk}

-----------------------------------------------------------------------------
(***************************************************************************)
(* FdEntity::Write of n equal bytes (a short pwrite is a smaller n).       *)
(* Everything before start is made local first; on a full disk the file    *)
(* goes over to a multipart upload that the following writes must continue *)
(* in sequence.                                                            *)
(***************************************************************************)
BeginUpload(e, start) ==
  {Failed([e EXCEPT !.posted = Empty])}            \* no upload id obtained
  \cup {IF o.ok THEN Done([o.ent EXCEPT !.mp_start = start, !.mp_size = 0]) ELSE o :
          o \in LoadAndPost([e EXCEPT !.upload = TRUE, !.posted = Empty], start)}

BeforeWrite(e, start) ==
  IF e.upload THEN {Done(e)}
  ELSE UNION {IF ~safe THEN BeginUpload(e, start)
              ELSE IF start > 0 THEN Load(e, 0, start)
              ELSE {Done(e)} : safe \in SafeDisk}

Pwrite(e, start, n, b) ==
  [e EXCEPT !.file = Overlay(@, start, n, b), !.is_modify = TRUE,
            !.loaded = @ \cup Extent(start, start + n),
            !.size = Larger(@, start + n)]

\* The tail of Write while an upload runs: count the bytes, and post them when
\* they make a part.
AfterWrite(e, start, n) ==
  LET counted == [e EXCEPT !.mp_size = @ + n]
      next    == e.mp_start + counted.mp_size
  IN IF ~e.upload THEN {Done(e)}
     ELSE IF start # e.mp_start THEN {Failed(e)}
     ELSE IF counted.mp_size < MultipartSize THEN {Done(counted)}
     ELSE {Failed(counted),
           Done([counted EXCEPT
             !.posted = Post(@, e.file, e.mp_start, counted.mp_size),
             !.file = Cut(Empty, Smaller(next, Cap)),
             !.mp_start = Smaller(next, Cap), !.mp_size = 0])}

Write(e, start, n, b) ==
  UNION {IF o.ok
           THEN {Failed(o.ent)}                     \* pwrite failed
                \cup AfterWrite(Pwrite(o.ent, start, n, b), start, n)
           ELSE {o} : o \in BeforeWrite(e, start)}

-----------------------------------------------------------------------------
(***************************************************************************)
(* FdEntity::Ftruncate, for a file that is open elsewhere: cut or extend   *)
(* the local file and leave the upload to a later flush.  s3fs_truncate    *)
(* calls Load(0, n) before it, with its own reference on the entity.       *)
(***************************************************************************)
\* Ftruncate below, with the loaded flags of what is cut off kept.
FtruncateKeepingPages(e, n) ==
  IF n = e.size THEN {Done(e)}
  ELSE IF e.refcnt <= 1 \/ e.upload THEN {Failed(e)}
  ELSE {Failed(e),
        Done([e EXCEPT !.file = Cut(@, n), !.size = n, !.is_modify = TRUE])}

Ftruncate(e, n) ==
  IF n = e.size THEN {Done(e)}
  ELSE IF e.refcnt <= 1 \/ e.upload THEN {Failed(e)}
  ELSE {Failed(e),                                  \* ftruncate or fsync failed
        Done([e EXCEPT !.file = Cut(@, n), !.size = n, !.is_modify = TRUE,
                       !.loaded = @ \cap Extent(0, n)])}

TruncateOpen(e, n) ==
  UNION {IF ~o.ok THEN {Failed([o.ent EXCEPT !.refcnt = e.refcnt])}
         ELSE {[r EXCEPT !.ent.refcnt = e.refcnt] : r \in Ftruncate(o.ent, n)} :
           o \in Load([e EXCEPT !.refcnt = @ + 1], 0, n)}

-----------------------------------------------------------------------------
(***************************************************************************)
(* FdEntity::RowFlush.  Its outcomes also say what the object is then: a   *)
(* request that failed may have been carried out all the same.             *)
(***************************************************************************)
Flushed(e, object, ok) == [ent |-> e, object |-> object, ok |-> ok]

\* PutWhole below, with a failed upload taken for a success.
PutWholeIgnoringResult(e) ==
  IF e.size > MaxObject THEN {Flushed(e, remote, FALSE)}
  ELSE {Flushed([e EXCEPT !.is_modify = FALSE], object, TRUE) :
          object \in {e.file, remote}}

\* PutRequest or ParallelMultipartUploadRequest sends the whole local file.
PutWhole(e) ==
  IF e.size > MaxObject THEN {Flushed(e, remote, FALSE)}
  ELSE {Flushed([e EXCEPT !.is_modify = FALSE], e.file, TRUE),
        Flushed(e, e.file, FALSE), Flushed(e, remote, FALSE)}

\* NoCacheCompleteMultipartPost and what follows it in RowFlush, where
\* UploadPendingMeta forgets the pending headers whether or not it could put them.
Complete(e) ==
  LET ended == [e EXCEPT !.upload = FALSE, !.posted = Empty, !.mp_start = 0,
                         !.mp_size = 0, !.file = Empty, !.pending = FALSE]
  IN IF e.posted.len = 0 THEN {Flushed(e, remote, FALSE)}
     ELSE {Flushed(e, remote, FALSE), Flushed(e, e.posted, FALSE),
           Flushed([ended EXCEPT !.is_modify = FALSE], e.posted, TRUE)}
          \cup {x \in {Flushed(ended, e.posted, FALSE)} : e.pending /\ HeadersMayFail}

\* FinishUpload below, forgetting what was counted and not yet posted.
FinishUploadWithoutRest(e) ==
  LET tried == [e EXCEPT !.flushed = TRUE]
  IN IF e.flushed THEN {Flushed(e, remote, FALSE)} ELSE Complete(tried)

\* An upload without space is finished once: the rest is posted if it reaches
\* the end of the file, and the parts are put together.
FinishUpload(e) ==
  LET tried == [e EXCEPT !.flushed = TRUE]
      rest  == [tried EXCEPT
                  !.posted = Post(@, e.file, e.mp_start, e.mp_size),
                  !.mp_start = 0, !.mp_size = 0]
  IN IF e.flushed THEN {Flushed(e, remote, FALSE)}
     ELSE IF e.mp_size = 0 THEN Complete(tried)
     ELSE {Flushed(tried, remote, FALSE)}
          \cup (IF e.mp_start + e.mp_size < e.size THEN {} ELSE Complete(rest))

BeforeUpload(e) ==
  IF e.upload \/ Unloaded(e, 0, 0) = {} THEN {Done(e)}
  ELSE UNION {IF safe THEN Load(e, 0, 0) ELSE LoadAndPost(e, 0) : safe \in SafeDisk}

RowFlush(e, force) ==
  IF ~force /\ ~e.is_modify THEN {Flushed(e, remote, TRUE)}
  ELSE UNION {IF ~o.ok THEN {Flushed(o.ent, remote, FALSE)}
              ELSE IF o.ent.upload THEN FinishUpload(o.ent)
              ELSE PutWhole(o.ent) : o \in BeforeUpload(e)}

-----------------------------------------------------------------------------
(***************************************************************************)
(* History.                                                                *)
(***************************************************************************)

\* Growing from size to n brings back the positions below size_orgmeta.
Regrow(e, n) ==
  (regrown \cap Extent(0, n)) \cup {i \in Extent(e.size, n) : i < e.orgsize}

\* A method that loads may clear is_modify while there is unsaved data; a
\* later change of the file sets it again, for all of the file.
Drops(e) == ~e.is_modify /\ (dropped \/ ent.is_modify)

Opens(e) == /\ ent' = e /\ regrown' = {} /\ dropped' = FALSE
            /\ inorder' = (e.refcnt > 0 /\ e.size = 0)

-----------------------------------------------------------------------------
(***************************************************************************)
(* Actions: the handlers of s3fs.cpp on the entity.                        *)
(***************************************************************************)
Init ==
  /\ \E n \in Sizes : remote = [len |-> n,
       at |-> [i \in Pos |-> IF i < n THEN Initial ELSE Zero]]
  /\ ent = Closed /\ want = remote /\ lastflush = "ok"
  /\ regrown = {} /\ dropped = FALSE /\ inorder = FALSE

IsOpen == ent.refcnt > 0

\* s3fs_open of a file nobody has open.
Open ==
  /\ ~IsOpen /\ remote.len <= MaxSize               \* bound
  /\ Opens(Opened(remote.len)) /\ want' = remote /\ lastflush' = "ok"
  /\ UNCHANGED remote

\* s3fs_open with O_TRUNC, and s3fs_truncate, of a file nobody has open: the
\* entity is opened with the new size and flushed by force.  The truncating
\* call then closes it; the opening call does so when the flush fails.
OpenTruncated ==
  /\ ~IsOpen
  /\ \E r \in RowFlush(Opened(0), TRUE) :
       /\ Opens(IF r.ok THEN r.ent ELSE Closed)
       /\ remote' = r.object
       /\ want' = IF r.ok THEN Cut(Empty, 0) ELSE r.object
  /\ lastflush' = "ok"

TruncateClosed(n) ==
  /\ ~IsOpen /\ remote.len <= MaxSize
  /\ \E o \in Load(Opened(n), 0, n) :
       \E r \in IF o.ok THEN RowFlush(o.ent, TRUE)
                ELSE {Flushed(o.ent, remote, FALSE)} :
         /\ remote' = r.object
         /\ want' = IF r.ok THEN Cut(remote, n) ELSE r.object
  /\ lastflush' = "ok"
  /\ UNCHANGED <<ent, regrown, dropped, inorder>>

\* s3fs_open of an open file: FdEntity::Open only takes a reference.
OpenAgain ==
  /\ IsOpen /\ ent.refcnt < MaxRef
  /\ ent' = [ent EXCEPT !.refcnt = @ + 1]
  /\ UNCHANGED <<remote, want, lastflush, regrown, dropped, inorder>>

\* s3fs_read; of an empty file it returns before FdEntity::Read.
ReadFile(start, n) ==
  /\ IsOpen /\ ent.size > 0
  /\ \E o \in Read(ent, start, n) : ent' = o.ent /\ dropped' = Drops(o.ent)
  /\ UNCHANGED <<remote, want, lastflush, regrown, inorder>>

\* s3fs_write
WriteFile(start, n, b) ==
  /\ IsOpen /\ start + n <= MaxSize
  /\ ent.upload => /\ ent.mp_start + ent.mp_size + n <= Cap      \* bound
                   /\ ent.posted.len + ent.mp_size + n <= Cap
  /\ \E o \in Write(ent, start, n, b) :
       /\ ent' = o.ent
       /\ want' = IF o.ok THEN Overlay(want, start, n, b) ELSE want
       /\ regrown' = IF o.ok THEN Regrow(ent, Larger(ent.size, start + n))
                                    \ Extent(start, start + n)
                     ELSE regrown
       /\ lastflush' = IF o.ok THEN "due" ELSE lastflush
       /\ dropped' = Drops(o.ent)
       /\ inorder' = (inorder /\ o.ok /\ start = ent.size)
  /\ UNCHANGED remote

\* s3fs_flush and s3fs_fsync
FlushFile ==
  /\ IsOpen
  /\ \E r \in RowFlush(ent, FALSE) :
       /\ ent' = r.ent /\ remote' = r.object
       /\ lastflush' = IF r.ok THEN "ok" ELSE "failed"
       /\ dropped' = (~(r.ok /\ ent.is_modify) /\ Drops(r.ent))
  /\ UNCHANGED <<want, regrown, inorder>>

\* s3fs_truncate of an open file
TruncateFile(n) ==
  /\ IsOpen
  /\ \E o \in TruncateOpen(ent, n) :
       /\ ent' = o.ent /\ dropped' = Drops(o.ent)
       /\ IF o.ok /\ n # ent.size
            THEN want' = Cut(want, n) /\ regrown' = Regrow(ent, n) /\ lastflush' = "due"
            ELSE UNCHANGED <<want, regrown, lastflush>>
  /\ inorder' = (inorder /\ n = ent.size)
  /\ UNCHANGED remote

\* s3fs_chmod, chown, utimens and setxattr of an open file: MergeOrgMeta keeps
\* the new headers back while there are changes to upload.
ChangeMetadata ==
  /\ IsOpen
  /\ ent' = [ent EXCEPT !.pending = @ \/ ent.upload \/ ent.is_modify]
  /\ UNCHANGED <<remote, want, lastflush, regrown, dropped, inorder>>

\* s3fs_release: FdEntity::Close, and FdManager deletes the entity with its
\* last reference, whatever is_modify says.  The kernel has called flush.
Release ==
  /\ IsOpen /\ UNCHANGED remote
  /\ \/ /\ ent.refcnt > 1
        /\ ent' = [ent EXCEPT !.refcnt = @ - 1]
        /\ UNCHANGED <<want, lastflush, regrown, dropped, inorder>>
     \/ /\ ent.refcnt = 1 /\ lastflush # "due"
        /\ Opens(Closed) /\ want' = remote /\ lastflush' = "ok"

Next ==
  \/ Open \/ OpenTruncated \/ OpenAgain \/ FlushFile
  \/ ChangeMetadata \/ Release
  \/ \E n \in Sizes : TruncateClosed(n) \/ TruncateFile(n)
  \/ \E start \in Sizes, n \in 1 .. MaxSize : ReadFile(start, n)
  \/ \E start \in Sizes, n \in 1 .. MaxSize, b \in Byte : WriteFile(start, n, b)

Spec == Init /\ [][Next]_vars

\* The use the code wants on a full disk: new files only, written in order.
InOrderNext == Next /\ (ent'.refcnt > 0 => inorder')

InOrderSpec == Init /\ [][InOrderNext]_vars

-----------------------------------------------------------------------------
(***************************************************************************)
(* Properties.                                                             *)
(***************************************************************************)
TypeOK ==
  /\ remote \in File /\ want \in File /\ EntityOK(ent)
  /\ lastflush \in {"ok", "due", "failed"}
  /\ regrown \subseteq Extent(0, MaxSize)
  /\ dropped \in BOOLEAN /\ inorder \in BOOLEAN

\* The partial copy in e is right for the content w, where the object is obj
\* and cut holds the positions excepted: a loaded byte of the local file is
\* the expected one, and an unloaded byte is still in the object, or a hole
\* past the original size that Load will fill with zeros.
Faithful(e, w, cut, obj) ==
  /\ e.size = w.len /\ e.file.len = e.size
  /\ \A i \in Extent(0, e.size) \ cut :
       IF i \in e.loaded THEN e.file.at[i] = w.at[i]
       ELSE IF i < e.orgsize THEN i < obj.len /\ obj.at[i] = w.at[i]
       ELSE w.at[i] = Zero

\* With space on the disk the partial copy is right whatever fails, except at
\* positions cut off and brought back below size_orgmeta, which Load takes from
\* the object again where POSIX has zeros.
CopyIsWanted == IsOpen => Faithful(ent, want, regrown, remote)

SameButRegrown(f, g) ==
  f.len = g.len /\ \A i \in Pos \ regrown : f.at[i] = g.at[i]

\* With space on the disk a flush that returned 0 has put the expected content
\* into the object and nothing has changed it since, unless a Load had
\* cleared is_modify (see ChangedFileIsModified): no failed or half-done request
\* before it is forgotten.
FlushedIsUploaded ==
  IsOpen /\ lastflush = "ok" /\ ~dropped => SameButRegrown(remote, want)

\* Every read that returns data returns what was last written or truncated
\* there, whatever part of the file it has to download first.
ReadsReturnWanted ==
  IsOpen /\ ent.size > 0 =>
    \A start \in Extent(0, MaxSize), n \in 1 .. MaxSize :
      \A o \in Read(ent, start, n) :
        o.ok => \A i \in Extent(start, start + n) \ regrown :
                  i < want.len => ByteAt(o.ent.file, i) = want.at[i]

\* On a full disk a new file that is written strictly at its end, and every
\* write of which succeeded, is whole in the object after the flush that
\* returns 0: its parts are posted once each, in order, and the last one too.
WrittenInOrderIsWhole == inorder /\ lastflush = "ok" => remote = want

\* The inductive form: files are zero past their end, an entity with space
\* never starts an upload, and a clean one has nothing the object lacks.
Padded(f) == \A i \in Pos : f.len <= i => f.at[i] = Zero

Inductive ==
  /\ CopyIsWanted
  /\ Padded(remote) /\ Padded(want) /\ Padded(ent.file)
  /\ IsOpen => /\ ~ent.upload
               /\ ~ent.is_modify /\ ~dropped => SameButRegrown(remote, want)
               /\ lastflush = "ok" => ~ent.is_modify

\* is_modify is what fdcache.h says of it, "if file is changed, this flag is
\* true": it is set while the object is not what the application has written
\* or truncated, since without it the flush uploads nothing.
ChangedFileIsModified ==
  IsOpen /\ regrown = {} /\ remote # want => ent.is_modify

\* No history of calls makes an entity that can never be flushed again: when
\* no request fails the flush succeeds, unless the file is too large or the
\* object has become shorter below the size it was opened with.
FlushCanSucceed ==
  IsOpen /\ ent.size <= MaxObject /\ remote.len >= Smaller(ent.orgsize, ent.size)
    => \E r \in RowFlush(ent, FALSE) : r.ok
=============================================================================
