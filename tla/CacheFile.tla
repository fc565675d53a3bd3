----------------------------- MODULE CacheFile -----------------------------
(***************************************************************************)
(* One file of a mount with use_cache (fdcache.cpp): the entity of         *)
(* FdEntity, whose local copy is a file below the cache directory that     *)
(* outlives it, with a text file that keeps the page list from one open to *)
(* the next.  The two are written, moved and deleted one after the other,  *)
(* and the process may die between them.                                   *)
(*                                                                         *)
(* The object of a path without an object is Empty.  Left out: a disk too  *)
(* full to write to, where the entity gives its cache files up, and system *)
(* calls on these files that fail.                                         *)
(***************************************************************************)
EXTENDS FdEntity, FiniteSets, Sequences

CONSTANTS
  Written,     \* bound: the byte an application writes
  DiskFills,   \* BOOLEAN: whether a read may find the disk full
  MaxEvents    \* bound: crashes, and changes of the path while it is closed

ASSUME CacheAssumption ==
  /\ Written \in Byte /\ DiskFills \in BOOLEAN /\ MaxEvents \in Nat

\* The limit of the model: only sizes and offsets of one digit make the lines of
\* all texts equally long, so that those of a new one lie over those of an old.
OneDigit == MaxSize < 10

VARIABLES
  data,     \* the cache file of the path; of no account while linked holds
  text,     \* the page list file
  events,
  linked,   \* an open entity's local copy is the cache file of the path
  doubt     \* history: why the cache files may not be those of the object

files == <<data, text, linked>>
cvars == <<vars, files, doubt, events>>

NoData == [Empty EXCEPT !.len = -1]

\* A text is the size, and a line for each page; a new one has no lines.
NewText == [total |-> -1, lines |-> <<>>]
NoText  == [total |-> -2, lines |-> <<>>]

Reason == {"foreign", "unsaved", "orphan", "tail", "given up", "old list"}

-----------------------------------------------------------------------------
(***************************************************************************)
(* PageList::Serialize.                                                    *)
(***************************************************************************)
\* A line for each extent of loaded or of unloaded positions.
Line(from, upto, flag) == [offset |-> from, bytes |-> upto - from, loaded |-> flag]

LinesOf(size, loaded) ==
  LET starts   == {i \in Extent(0, size) : i = 0 \/ (i \in loaded) # (i - 1 \in loaded)}
      Start(k) == CHOOSE i \in starts \cup {size} :
                    Cardinality({j \in starts : j < i}) = k - 1
  IN  IF size = 0 THEN <<Line(0, 0, FALSE)>>
      ELSE [k \in 1 .. Cardinality(starts) |-> Line(Start(k), Start(k + 1), Start(k) \in loaded)]

Covers(line, i) == line.offset <= i /\ i < line.offset + line.bytes

\* The text is written over the old one, whose last lines stay if it was longer.
Save(t, size, loaded) ==
  LET lines == LinesOf(size, loaded)
  IN  [total |-> size, lines |-> lines \o SubSeq(t.lines, Len(lines) + 1, Len(t.lines))]

\* Reading it marks the area of each line in turn, by SetPageLoadedStatus.
SizeIn(t) == Cardinality({i \in Pos : \E k \in DOMAIN t.lines : \E j \in Pos :
                                        i <= j /\ Covers(t.lines[k], j)})

LoadedIn(t) ==
  {i \in Pos : \E k \in DOMAIN t.lines :
                 /\ Covers(t.lines[k], i) /\ t.lines[k].loaded
                 /\ \A l \in k + 1 .. Len(t.lines) : ~Covers(t.lines[l], i)}

Readable(t) == t = NewText \/ SizeIn(t) = t.total

\* What the text claims that the list it was written from does not.
Surplus(t, loaded) ==
  IF Readable(t) /\ ~(LoadedIn(t) \subseteq loaded) THEN {"tail"} ELSE {}

-----------------------------------------------------------------------------
(***************************************************************************)
(* FdEntity::Open and Close with a cache path.                             *)
(***************************************************************************)
Touched == IF text = NoText THEN NewText ELSE text

\* OpenFiles below, with a list that is not fitted to the size.
OpenFilesUnfitted(size) ==
  LET kept == IF Readable(Touched) THEN LoadedIn(Touched) ELSE {}
      both == Readable(Touched) /\ data # NoData
      fits == both /\ SizeIn(Touched) = size
  IN  [ent  |-> [Opened(size) EXCEPT !.loaded = kept,
                                     !.file = Cut(IF both THEN data ELSE Empty, size)],
       text |-> IF fits THEN Touched ELSE Save(Touched, size, kept)]

\* With both files they are fitted to the size; otherwise the cache file is
\* made anew, and the list, if it can be read, is kept.
OpenFiles(size) ==
  LET kept == IF Readable(Touched) THEN LoadedIn(Touched) \cap Extent(0, size) ELSE {}
      both == Readable(Touched) /\ data # NoData
      fits == both /\ SizeIn(Touched) = size
  IN  [ent  |-> [Opened(size) EXCEPT !.loaded = kept,
                                     !.file = Cut(IF both THEN data ELSE Empty, size)],
       text |-> IF fits THEN Touched ELSE Save(Touched, size, kept)]

\* FdEntity::Close of the last handle.
SavedText(e, t) == Save(IF t = NoText THEN NewText ELSE t, e.size, e.loaded)

Settled(f) ==
  (IF f.ent.loaded = {} THEN {} ELSE doubt) \cup Surplus(f.text, f.ent.loaded)

-----------------------------------------------------------------------------
(***************************************************************************)
(* Opening and closing.                                                    *)
(***************************************************************************)
\* s3fs_open; the process may die before the page list file is reset.
OpenCached ==
  /\ ~IsOpen /\ remote.len <= MaxSize /\ UNCHANGED events
  /\ LET f == OpenFiles(remote.len) IN
     \/ /\ Opens(f.ent) /\ text' = f.text /\ linked' = TRUE /\ doubt' = Settled(f)
        /\ UNCHANGED data
     \/ /\ Opens(Closed) /\ data' = f.ent.file /\ text' = Touched
        /\ UNCHANGED <<linked, doubt>>
  /\ want' = remote /\ lastflush' = "ok" /\ UNCHANGED remote

\* s3fs_open with O_TRUNC: the entity is flushed by force, and closed when that fails.
OpenTruncatedCached ==
  /\ ~IsOpen /\ UNCHANGED events
  /\ LET f == OpenFiles(0) IN
     \E r \in RowFlush(f.ent, TRUE) :
       /\ remote' = r.object /\ linked' = r.ok /\ doubt' = Settled(f)
       /\ want' = IF r.ok THEN Cut(Empty, 0) ELSE r.object
       /\ IF r.ok THEN Opens(r.ent) /\ text' = f.text /\ UNCHANGED data
          ELSE Opens(Closed) /\ text' = SavedText(r.ent, f.text) /\ data' = r.ent.file
  /\ lastflush' = "ok"

\* s3fs_truncate of a file nobody has open.
TruncateClosedCached(n) ==
  /\ ~IsOpen /\ remote.len <= MaxSize /\ UNCHANGED events
  /\ LET f == OpenFiles(n) IN
     \E o \in Load(f.ent, 0, n) :
       \E r \in IF o.ok THEN RowFlush(o.ent, TRUE) ELSE {Flushed(o.ent, remote, FALSE)} :
         LET t == SavedText(r.ent, f.text) IN
         /\ remote' = r.object /\ want' = r.object
         /\ text' = t /\ data' = r.ent.file
         /\ doubt' = Settled(f) \cup Surplus(t, r.ent.loaded)
  /\ lastflush' = "ok"
  /\ UNCHANGED <<ent, regrown, dropped, inorder, linked>>

\* What is written and not uploaded when the last handle goes stays in the cache.
Unsaved == IF ent.is_modify \/ dropped \/ lastflush # "ok" THEN {"unsaved"} ELSE {}

\* s3fs_release of the last handle.  A list is saved for a path without a cache
\* file when that was deleted meanwhile.
ReleaseCached ==
  /\ IsOpen /\ lastflush # "due" /\ UNCHANGED events
  /\ LET t == SavedText(ent, text) IN
     /\ Opens(Closed) /\ text' = t /\ data' = IF linked THEN ent.file ELSE data
     /\ doubt' = (doubt \ {"given up"}) \cup Unsaved \cup Surplus(t, ent.loaded)
                 \cup (IF linked THEN {} ELSE {"orphan"})
  /\ linked' = FALSE /\ want' = remote /\ lastflush' = "ok" /\ UNCHANGED remote

Event == events < MaxEvents /\ events' = events + 1

\* The process dies: the list is not saved.
Crash ==
  /\ Event
  /\ IsOpen /\ Opens(Closed)
  /\ data' = IF linked THEN ent.file ELSE data
  /\ doubt' = doubt \cup Unsaved \cup (IF "given up" \in doubt THEN {"old list"} ELSE {})
  /\ linked' = FALSE /\ want' = remote /\ lastflush' = "ok" /\ UNCHANGED <<remote, text>>

-----------------------------------------------------------------------------
(***************************************************************************)
(* The handlers on the open entity, as in FdEntity.                        *)
(***************************************************************************)
\* Bound: while there is a doubt the file is opened and released only.
Session == doubt \subseteq {"given up"} /\ UNCHANGED <<files, events>>
Kept    == Session /\ UNCHANGED doubt

ReadCached(i)     == ReadFile(i, 1) /\ Kept
WriteCached(i)    == WriteFile(i, 1, Written) /\ Kept
TruncateCached(n) == TruncateFile(n) /\ Kept
FlushCached       == FlushFile /\ Kept

\* FdEntity::Read on a full disk of an entity without changes.
ReadOnFullDisk(i) ==
  /\ Session
  /\ DiskFills /\ IsOpen /\ ~ent.is_modify /\ Unloaded(ent, i, 1) # {}
  /\ \E o \in Load(Release4Space(ent), i, LoadSize(ent, i, 1)) :
       ent' = o.ent /\ dropped' = Drops(o.ent)
  /\ doubt' = doubt \cup {"given up"}
  /\ UNCHANGED <<remote, want, lastflush, regrown, inorder>>

-----------------------------------------------------------------------------
(***************************************************************************)
(* Deleting and moving the files of a path.                                *)
(***************************************************************************)
Holding(n, at) == [len |-> n, at |-> [i \in Pos |-> IF i \in at THEN Initial ELSE Zero]]

\* Unlink below, without the page list file.
UnlinkDataOnly ==
  /\ Event
  /\ data' = NoData /\ remote' \in {remote, Empty}
  /\ linked' = FALSE /\ text' = text
  /\ IF IsOpen THEN UNCHANGED <<want, doubt>>
     ELSE want' = remote' /\ doubt' = {}
  /\ UNCHANGED <<ent, lastflush, regrown, dropped, inorder>>

\* s3fs_unlink with DeleteCacheFile, whatever the request does; the process may
\* die before it deletes the second file.  The file is open when it is the old
\* name of rename_object_nocopy, which leaves the entity where it is.
Unlink ==
  /\ Event
  /\ data' = NoData /\ remote' \in {remote, Empty}
  /\ linked' = FALSE
  /\ \/ text' = NoText /\ doubt' = IF IsOpen THEN doubt ELSE {}
     \/ ~IsOpen /\ text' = text /\ doubt' = doubt \cup {"orphan"}
  /\ want' = IF IsOpen THEN want ELSE remote'
  /\ UNCHANGED <<ent, lastflush, regrown, dropped, inorder>>

\* FdManager::Rename to another path after the object was copied: RenamePath
\* moves the cache file and then the page list file.
RenameAway ==
  /\ Event
  /\ ~IsOpen /\ remote.len <= MaxSize
  /\ data' = NoData
  /\ \/ text' = NoText /\ doubt' = {} /\ remote' \in {remote, Empty}
     \/ text' = OpenFiles(remote.len).text /\ doubt' = doubt \cup {"orphan"} /\ UNCHANGED remote
  /\ want' = remote'
  /\ UNCHANGED <<ent, lastflush, regrown, dropped, inorder, linked>>

\* And from another path, whose n bytes are loaded at some positions.
RenameOnto(n, loaded) ==
  /\ Event
  /\ ~IsOpen
  /\ remote' = Holding(n, Extent(0, n)) /\ data' = Holding(n, loaded)
  /\ \/ text' = Save(NewText, n, loaded) /\ doubt' = {}
     \/ text' = NoText /\ doubt' = {}
     \/ UNCHANGED text /\ doubt' = doubt \cup {"orphan"}
  /\ want' = remote'
  /\ UNCHANGED <<ent, lastflush, regrown, dropped, inorder, linked>>

\* DeleteCacheDirectory, when the file system is mounted or left with del_cache:
\* the page list files are in a directory of their own, and stay.
DelCache ==
  /\ Event
  /\ ~IsOpen /\ data' = NoData
  /\ doubt' = IF text = NoText THEN doubt ELSE doubt \cup {"orphan"}
  /\ UNCHANGED <<vars, text, linked>>

\* Another client of the bucket (external).
Replace(n) ==
  /\ Event
  /\ ~IsOpen /\ remote' = Holding(n, Extent(0, n)) /\ want' = remote'
  /\ doubt' = IF data = NoData /\ text = NoText THEN doubt ELSE doubt \cup {"foreign"}
  /\ UNCHANGED <<ent, lastflush, regrown, dropped, inorder, files>>

-----------------------------------------------------------------------------
CacheInit ==
  Init /\ data = NoData /\ text = NoText /\ linked = FALSE /\ doubt = {} /\ events = 0

CacheNext ==
  \/ OpenCached \/ OpenTruncatedCached \/ ReleaseCached \/ FlushCached
  \/ \E n \in Sizes : TruncateClosedCached(n) \/ TruncateCached(n)
  \/ \E i \in Extent(0, MaxSize) : ReadCached(i) \/ ReadOnFullDisk(i) \/ WriteCached(i)
  \/ Crash \/ Unlink \/ RenameAway \/ DelCache
  \/ \E n \in 1 .. MaxSize : Replace(n) \/ \E loaded \in SUBSET Extent(0, n) : RenameOnto(n, loaded)

CacheSpec == CacheInit /\ [][CacheNext]_cvars

-----------------------------------------------------------------------------
(***************************************************************************)
(* Properties.                                                             *)
(***************************************************************************)
Text == [total : Sizes, lines : Seq([offset : Sizes, bytes : Sizes, loaded : BOOLEAN])]

CacheTypeOK ==
  /\ TypeOK
  /\ data \in File \cup {NoData} /\ text \in Text \cup {NewText, NoText}
  /\ events \in 0 .. MaxEvents
  /\ linked \in BOOLEAN /\ (linked => IsOpen) /\ doubt \subseteq Reason

\* A file is read and uploaded as the object has it and the application changed
\* it, although part of it was loaded before the last restart, crash, rename or
\* removal; unless one of the reasons in doubt makes the cache files other ones.
CachedIsObject == linked /\ doubt = {} => Faithful(ent, want, regrown, remote)
=============================================================================
