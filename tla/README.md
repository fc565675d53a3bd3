# TLA+ verification of cosfs

cosfs mounts a bucket of Tencent COS as a file system (libfuse, C++). This directory holds TLA+
modules that model the parts of cosfs that keep state, TLC configurations that check them on
small instances, and proofs that the TLA+ proof system checks. Paths below are relative to the
repository; the implementation is in `src/`. `PROJECT.json` gives, for every definition that
models code, the lines it models.

## 1. The system

| Component | State it keeps | Operations | Modelled in |
|---|---|---|---|
| `PageList` (fdcache.cpp) | the extents of a file and whether each is loaded | Init, Resize, SetPageLoadedStatus, Compress, Parse, queries | `PageList`, `PageListSpec`, `PageMap` |
| `FdEntity` (fdcache.cpp) | one open file: local copy, page list, `is_modify`, `size_orgmeta`, an upload in progress, pending headers | Open, Dup, Close, Load, Read, Write, Ftruncate, RowFlush, NoCache... | `FdEntity` |
| `FdManager` (fdcache.cpp) | the table of open files, `fd_manager_lock` | Open, ExistOpen, GetFdEntity, Close, Rename, ChangeEntityToTempPath | `FdManager` |
| handlers (s3fs.cpp) | none of their own; `fi->fh` | s3fs_open, create, read, write, flush, fsync, release, truncate, rename, unlink, ... | `FdManager` (files), `FdEntity` (one file), `StatCache` and `Metadata` (attributes), `Rename` |
| attributes of a file (s3fs.cpp, fdcache.cpp) | headers of the object, `orgmeta`, `is_meta_pending` | chmod, chown, utimens, setxattr, removexattr and their variants for nocopyapi, MergeOrgMeta, UploadPendingMeta | `Metadata`, `MCMetadata` |
| `StatCache` (cache.cpp), get_object_attribute (s3fs.cpp) | the cache of attributes, `stat_cache_lock` | GetStat, HasStat, AddStat, AddNoObjectCache, TruncateCache, DelStat, IncSize | `StatCache`, `MCStatCache` |
| rename (s3fs.cpp) | none | rename_object, rename_object_nocopy, rename_large_object, clone_directory_object, rename_directory, rmdir | `Rename`, `MCRename` |
| lists of a bucket (s3fs.cpp, s3fs_util.cpp) | the list that is collected | list_bucket, append_objects_from_xml, S3ObjList | `ObjectList`, `Rename` |
| cache files (fdcache.cpp) | data file and page list file on disk | CacheFileStat, Serialize, OpenMirrorFile, DeleteCacheFile | `CacheFile` |
| handler pool, timers (curl.cpp) | pool, two maps, `curl_handles_lock` | GetHandler, ReturnHandler, CreateCurlHandle, DestroyCurlHandle, CurlProgress | `Requests`, `MCRequests` |
| credentials (curl.cpp) | id, key, token and expiry, `token_lock` | CheckRAMCredentialUpdate, GetRAMCredentials, SetRAMCredentials, GetAccessKeyWithToken | `Requests`, `MCRequests` |
| requests (curl.cpp) | one handle per request, retry counter | RequestPerform, RemakeHandle, the requests | `Requests` (the attempts), `Upload` (the requests of an upload) |
| multipart upload, copy by parts (curl.cpp) | upload id, ETag list, batches of threads | ParallelMultipartUploadRequest, MultipartRenameRequest, S3fsMultiCurl | `Upload`, `ObjectPut` |
| parallel download (curl.cpp) | batches of threads | ParallelGetObjectRequest | one request of `FdEntity` |
| signing, options, XML, strings | none that changes | | not modelled |

How they interact. libfuse calls the handlers from several threads. A handler that works on an
open file finds its `FdEntity` in `FdManager` under `fd_manager_lock`, takes a reference, and
calls a method of it, which holds `fdent_lock` from its start to its end, requests to the
server included; then it drops the reference under `fd_manager_lock`. The entity downloads what
it misses of the object and uploads the whole file on flush. Attributes come from the stat
cache, and from requests when they are not in it; a handler that changes an object deletes its
attributes from the cache afterwards. Requests can fail, be carried out without an answer, and
are repeated by `RequestPerform`.

What is hard: interleavings of handlers between two critical sections (the table, the reference
counts, the three sections of `AddStat`), the order of the two locks, answers of the server that
are old when they are used, methods that fail half way, the cut and growth of files against the
size the object had at open, and a full disk, which switches `FdEntity` over to posting parts as
they are written. A rename of a directory is a long sequence of requests over many objects, and the
cache files of `use_cache` are two files that have to fit each other: both may be cut short by an
error or by the death of the process. Attributes are kept in four places (object, stat cache, open
file, and what waits for an upload), which the handlers compare and overwrite without a lock
between them. `PROJECT.json` lists each under "hazards" with its line.

What makes each component correct:

- `PageList`: the list is in normal form, and answers every query as the set of loaded bytes does.
- `FdEntity`: the local copy, where loaded, is what the application wrote; where it is not
  loaded, the object still is; a flush that returns 0 has uploaded it.
- `FdManager`: reference counts equal the references; one copy per path; every call returns (with
  space on the disk; on a full disk two calls can wait for each other, section 3).
- `StatCache`: what is cached is what the bucket holds, within the size of the cache.
- Attributes: what a change that returned 0 has set reaches the object, and no later upload takes
  it back.
- Rename: no file or directory is lost at any time; 0 means that all is under the new name; a
  rename that failed can be repeated.
- Cache files: what a restart finds in them is what the object has.
- Requests: a curl handle has one user, a timer starts anew with each attempt, a request is signed
  with one credential that has not expired, and `curl_handles_lock` is given back.
- Uploads: an upload makes the object the whole file or reports failure, whatever is lost,
  repeated or fails among its requests, and it ends.

## 2. Modules

- `PageMap` is the abstract specification of a page list: a size and a set of loaded bytes, with
  resize, mark and reinitialise. `PageList` has the algorithms of class `PageList` on sequences of
  pages, as operators. `PageListSpec` is the state machine that applies them; it INSTANCEs
  `PageMap` with a refinement mapping (`ImplementsPageMap`). The call made last is part of the
  state of both, so that the implementation has to do what each single call asks for.
- `FdEntity` is one open file. Because `fdent_lock` is held throughout, a method is one step: an
  operator from the entity to the set of its outcomes `[ent, ok]`, one outcome for each point at
  which it may fail. `Load`, `Read`, `Write`, `RowFlush` and `Ftruncate` are composed of such
  operators as the methods are of each other; the actions are the handlers. The object in the
  bucket, `remote`, is replaced by uploads only. The page list is the set of loaded bytes, which
  `PageListSpec` justifies. Bytes are single values at positions; the contents the application
  may expect are the history variable `want`.
- `FdManager` is the table under several threads. A call is the sequence of phases it still has
  to do ("open", "force", "close", ...), and each critical section of `fd_manager_lock` and
  `fdent_lock` is an action, so that other threads run in between. A file is reduced to its
  length and whether it has changes. Kernel and libfuse are external and modelled by what they
  promise: they serialise namespace changes of one path, and writes and truncates of one file,
  release a handle after its last use, and rename handles after a rename that succeeded.
- `StatCache` has the sections of `stat_cache_lock` as actions, the requests of
  `get_object_attribute` one by one between them, and for every handler that changes an object
  its requests and DelStats in the order of the code. Attributes are a form and a version.
  `doubt` marks entries the code knowingly lets be stale: a lookup that overlapped a change, or
  that took an error for absence.
- `ObjectPut` is the abstract specification of an upload: the object is replaced as a whole, while
  the upload runs and at no other time, and certainly when it returns 0. This is how `FdEntity`
  takes an upload. `Upload` is what curl.cpp does: `Attempts` are the rounds of `RequestPerform`, an
  attempt is carried out by the server or not, whatever the client is told; `Put` is the upload
  of a small file; `Initiate`, `Fill`, `Take`, `Work`, `JoinOk`, `JoinFailed` and `Complete` are
  `ParallelMultipartUploadRequest` with the threads of `S3fsMultiCurl`, each thread a process of
  its own; `Initiate`, `Copy` and `Complete` are `MultipartRenameRequest` and
  `MultipartHeadRequest`. A part of a file is an atom, and stands for its own ETag. The server is
  external: it keeps the parts of an upload by number, and completes an upload if the parts
  listed are those it has. `ImplementsObjectPut` maps the object back to the source it is made of.
- `Requests` is what the requests of all threads share. A thread goes through the phases of a
  request: a handle from the pool, the signature with the check of the credentials (and, if they
  are about to expire, a renewal that is a request of its own on a second `S3fsCurl` object, or
  the password file), the attempts with progress, silence, repetition and abortion, and the
  handle back. Each section of `curl_handles_lock` and of `token_lock` is a step. Time is a
  counter; `Tick` lets it pass, at most `Delay` while a signature is made.
- `ObjectList` is the list of names that `list_bucket` collects: `S3ObjList::insert`, its last name,
  its hierarchy and its names without a slash, as operators on sets of keys whose characters are
  abstracted to components, slashes and the suffix `_$folder$`, in the order of strcmp. `Rename`
  applies it: `Lookup`, `FlushFirst`, `List`, `AppendObject`, `NextPage` and `Named` list the tree by
  pages, `Check`, `Clone`, `Copy`, `MoveEntity` and `Unlink` make and copy, `Rmdir` to `RmEnd` remove
  the directories from below. Every request may fail, carried out or not; `Crash` may come between
  any two; the caller may repeat the call, and files are opened, written, flushed and released
  between calls. `NamesAssumption` says that names are paths: what is above a name is a directory.
- `CacheFile` EXTENDS `FdEntity` with the data file and the page list file of its path. A page list
  is a text of lines, overwritten in place as `Serialize` does. The actions of `FdEntity` are taken
  over with what they do to the two files; `Unlink`, `RenameAway`, `RenameOnto`, `DelCache`, `Replace`
  (another client) and `Crash` change them while the path is closed or open. One action may stop
  after any of its writes to the two files, which is a crash there.
- `Metadata` is one file with its attributes in the four places. A change is a sequence of steps
  (`Ask`, `Find`, `MergeOrgMeta` or `MergeRefused`, `Put`; with nocopyapi `Fetch`, `SetAttr`, `ForceFlush`; then
  `Return`), with the steps of opens, writes, flushes and releases between them.

## 3. Runs

| Run | Module, cfg | What it checks |
|---|---|---|
| page_list | `PageListSpec`, `MCPageList.cfg` | `Canonical`, `QueriesAgree`, `ImplementsPageMap` |
| fd_entity | `FdEntity`, `MCFdEntity.cfg` | `TypeOK`, `CopyIsWanted`, `FlushedIsUploaded`, `ReadsReturnWanted`, `FlushCanSucceed`, with space on the disk |
| full_disk | `FdEntity`, `MCFullDisk.cfg` | `WrittenInOrderIsWhole`, without space on the disk |
| fd_manager | `FdManager`, `MCFdManager.cfg` | `TypeOK`, `ReferencesAddUp`, `OneCopyPerPath`, `HandleUsesItsCopy`, `EveryCallReturns` |
| stat_cache | `MCStatCache`, `MCStatCache.cfg` | `CachedIsCurrent`, `SizeIsBounded`, `OpenSeesCurrentObject` |
| metadata | `MCMetadata`, `MCMetadata.cfg` | `TypeOK`, `ChangesAreKept`, `OpenFileAgrees` |
| rename | `MCRename`, `MCRename.cfg` | `TypeOK`, `FilesAreKept`, `DirectoriesAreKept`, `HandlesKeepObject`, `ListIsComplete`, `RenamedWhenZero`, `RepeatedRenameWorks` |
| cache_file | `CacheFile`, `MCCacheFile.cfg` | `CacheTypeOK`, `CachedIsObject` |
| requests | `MCRequests`, `MCRequests.cfg` | `TypeOK`, `HandlesAddUp`, `TimersAreFair`, `SignedWithOneCredential`, `KeysAreValid`, `LockIsGivenBack` |
| upload | `Upload`, `MCUpload.cfg` | `TypeOK`, `ListedPartsAreThere`, `ObjectIsWhole`, `ImplementsObjectPut`, `EveryUploadEnds` |

Two more runs each show the code to disagree with one of its comments ("findings" in
`PROJECT.json` has the quotes): `modify_flag` (`ChangedFileIsModified`: a Load that fills a hole
clears `is_modify`, of which fdcache.h:122 says that it is true if the file is changed) and
`no_lock_cycle` (the two locks are taken in both orders
on a full disk).

The passing properties make exceptions. History variables name them, each for something the code
does (or another client of the bucket) that breaks the property, and all other cases are claimed:

- `regrown` (`CopyIsWanted`): `size_orgmeta` keeps the size at open (fdcache.cpp:1144-1146), so bytes
  cut off and brought back come back from the object. `FlushCanSucceed` exempts, for the same
  reason, a file whose object has become shorter than `size_orgmeta`: Load asks for bytes that are
  not there, and the file cannot be flushed any more.
- `dropped` (`FlushedIsUploaded`): a Load cleared `is_modify` (fdcache.cpp:1183).
- `inorder` (`WrittenInOrderIsWhole`): on a full disk only writes at the end of a new file.
- `doubt` and `raced` (stat_cache): the lookup an entry comes from overlapped a change
  (s3fs.cpp:441) or took an error for absence (s3fs.cpp:446); an `AddStat` ran into another.
- `lost` (metadata): `MergeOrgMeta` defers a change because `is_meta_pending` is still set from an
  earlier one, which a normal flush does not clear (fdcache.cpp:1780-1783, 1804); removexattr and a
  chown of one of owner and group start from the stat cache (s3fs.cpp:1801-1806, 3607-3671); an
  open that has read the old headers before the change keeps them (s3fs.cpp:1672-1677, 2302-2303);
  a change of a closed file starts from an outdated stat cache (s3fs.cpp:2413, 2483); chown with
  nocopyapi stores an owner of -1 (s3fs.cpp:1929-1967); a file posted without space is completed
  with the headers its upload was begun with (fdcache.cpp:1519-1551); OpenAndLoadAll, and a Load of
  a hole, clear `is_modify` with a change waiting (fdcache.cpp:971-973, 1183); a change or the flush
  it waits for failed. `due` are the attributes that wait for an upload.
- `missed` and `stranded` (rename): a listed name whose HEAD failed is skipped with a result of 0
  (s3fs.cpp:1446-1449), and what is in it stays under the old name, as does a file that another
  client adds during the rename; under nocopyapi an open file
  keeps its old path, so that its next flush brings the old name back. `HandlesKeepObject` exempts
  missed names as well: a first attempt copies a file and fails, the file is written, flushed under
  the old name and released, the second attempt is told that it is not there and returns 0, and an
  open by the new name finds the older copy.
- `doubt` of `CacheFile`: the page list file is not that of the data file, because only one of the
  two was deleted or moved before a crash, or by del_cache, or because the data file is made anew
  under an old list ("orphan", fdcache.cpp:797-810, against the comment at s3fs.cpp:1226-1229); the
  tail of a longer list remained ("tail", fdcache.cpp:539); a read on a full disk gave pages up that
  the list on the disk still has ("given up", and after a crash "old list"); changes that were not
  uploaded when the process died or the file was closed count as loaded ("unsaved"); another
  client replaced the object ("foreign").

What else the modules show about the code, without a property about it:

- A renewal of credentials is never repeated: its object has no type when `RemakeHandle` asks for
  one (curl.cpp:2286-2287, 1640). With `InitMayFail = TRUE` TLC refutes `LockIsGivenBack`
  (curl.cpp:1627).
- s3fs_truncate takes a handler that passes by for a file open elsewhere (s3fs.cpp:2214): with
  `MaxLen = 1` TLC finds in `FdManager` that the new length is then uploaded by nobody.
- rename_directory uses rename_object, with its one request, for files of any size; in the form
  `dir_$folder$` s3fs_rmdir tests whether another prefix is empty. src/README.md:156 says that
  rename is not atomic; `FilesAreKept` is what holds all the same. After a rename under nocopyapi
  that failed in between, a flush by the old path returns 0 without an upload, as the entity is
  clean, and a crash and a repeated rename then copy the older object over the newer.
- s3fs_flush asks for write access by the current mode (s3fs.cpp:2409-2420): a file made read-only
  while it is open cannot be flushed by its owner. setxattr with XATTR_CREATE always fails on a
  file that is not open (s3fs.cpp:3397). UploadPendingMeta clears `is_meta_pending` when the
  request has failed, too (fdcache.cpp:1804).

Bounds and why they are enough:

- page_list: files of up to 6 bytes, so that a list has up to six pages, and an area can begin
  and end inside, at the border of, or across pages, and past the end.
- fd_entity: files of up to 3 bytes (a loaded byte between two unloaded ones, a hole of two),
  three byte values (a hole, the object's, the application's), two handles, a read-ahead of 2 and
  an upload limit of 2, so that a file can be too large to upload. `Cap` bounds what an upload
  can build to twice the file.
- modify_flag: files of one byte and the constants of fd_entity otherwise, so that the shortest
  counterexample is the plain case: an empty file is opened and extended by a truncate, and the
  flush loads the hole, fails to upload, and leaves a file that no longer counts as changed.
- full_disk: files of up to 4 bytes, parts of 2, so that a write can fill a part, leave a rest, or
  cross a part. `HeadersMayFail = FALSE`: with TRUE TLC refutes `WrittenInOrderIsWhole`, because
  an upload that is complete and whose headers then fail leaves an empty local file that the
  next flush uploads.
- fd_manager: two threads, paths and handles, two entities at one time, one object at creation (a
  rename makes and removes the second). `MaxLen = 0` leaves the length out, since the properties
  of this run do not depend on it. `CacheDir = FALSE` is
  the default mount. `SafeDisk = {TRUE}`, because `no_lock_cycle` shows what happens otherwise:
  `EveryCallReturns` is claimed with space on the disk only, and the hazard of the two lock orders
  is that other run's alone. `UnlinkMayFail = FALSE`, because a rename whose DELETE fails leaves handle and entity under
  different paths, and `ReferencesAddUp` does not hold then.
- stat_cache: two threads, a name that changes twice in every form, a second name that only
  competes for room, a cache of one entry, expiry and failing requests on.
- metadata: every attribute has the values 0 and 1, with 1 in the object at first, so that a change
  can be told from its absence; the calls set mode, time or owner to 0 or set and remove one of
  two names, which are symmetric; two changes, so that the second can meet what the first left
  behind; two handles; nocopyapi on and off, with and without space on the disk.
- rename: a directory with a file and a directory with a file, in every combination of forms, so
  that a tree has a middle; pages of two keys, fewer than any tree has; one write, one file added
  by another client; one fault, be it a request that fails, carried out or not, or a crash, with
  the call repeated until it succeeds. Two faults in any order were checked as well (13 million
  states), which takes longer than a run should. Deadlock is not checked, because the system
  stops when a rename without faults is done and no write is left.
- cache_file: files of up to 2 bytes, which are enough for a loaded and an unloaded page and for a
  text that is longer than the one written over it; one event (a crash, removal, rename,
  replacement) among any number of sessions. Once there is a doubt, the file is only opened and
  released, since the property claims nothing of it. Two events were checked as well.
- requests: two threads, a pool of one handle, so that one of them is in the pool and the other
  made anew, and four handles, one for each object; a margin of 2 and a life of 4 with signatures
  that take up to 1, so that credentials are renewed at every age; all three sources. Threads
  and handles are symmetric. `InitMayFail = FALSE`, see above.
- upload: files of up to three parts in batches of two, so that there is a full batch and one that
  is not, two threads at once, two attempts per request, one change of the source, so that parts
  of two versions could be mixed up, and three upload ids, enough for an upload whose first
  initiation lost its answer. A file of one part is a small one, which `Put` uploads.
  `Late = {"part"}`: a part may be carried out after the client has given it up, once at a time.
  With "complete" or "put" in `Late` TLC refutes `ImplementsObjectPut`: a completion the client
  gave up can replace the object after the upload was reported to have failed, and even after the
  next upload, because the code never aborts an upload. `PROJECT.json` lists it as a hazard.

Fairness: `EveryCallReturns` and `EveryUploadEnds` are the liveness properties. `FairSpec` of
`FdManager` has weak fairness of each thread's own steps, which is what the scheduler of the
operating system gives a runnable thread. Locks are not assumed fair: the property asks that
calls return once no new ones are made. All that takes a lock waits for it: Open (through Dup),
Close and Rename for `fdent_lock` with `fd_manager_lock` in their hand, the methods, and
`GetRefCount` in s3fs_truncate (s3fs.cpp:2214) for `fdent_lock`. The short sections of it just before
a method (`GetSize` in s3fs_read, `UpdateMtime` in s3fs_flush) are part of its `Enter`. `FairSpec` of `Upload` has weak fairness of the thread
that uploads and of each thread it starts; that an attempt ends is what `CurlProgress`
(curl.cpp:532) sees to, which aborts one without progress for `readwrite_timeout` seconds. Nothing
is assumed of the answers: an upload also ends when all its requests fail. Deadlock is checked in
all runs but rename. `PageListSpec` and `StatCache` have no type invariant of their own: the first
has it in `Canonical`, and in the second every property reads all parts of an entry.

## 4. Proofs

Every safety and action property of the runs is a theorem; liveness alone is not (see the end).

`PageListSpec_proofs` proves all the properties of `PageListSpec`, for files of any size, lists of
any length and any sequence of calls: `CanonicalCorrect` (`Canonical`), `MapCorrect`
(`Spec => ImplementsPageMap`: every call does to the size and the set of loaded bytes what `PageMap`
says, and nothing else) and `QueriesCorrect` (`QueriesAgree`).

The argument. The loops of class `PageList` are folds over the list. `FoldExists` shows that a fold
has a value after every set of indices, and `FoldSteps` that this goes through the indices one by
one: r[0] is the base and r[k] the step on r[k - 1] and page k. Both, and all that is said of the
r[k], are shown by a least counterexample (`Induct`, from `WFMin` of `WellFoundedInduction`), since
the induction theorems of the library take an operator as a parameter. Each loop has a lemma that
names its r (`CompressSteps`, `CutSteps`, `TotalSteps`, `UnloadedSteps`). The invariant `Inv` says
that the pages tile the file (`Tiles`), that none is empty unless it is the only one (`Solid`,
`Tidy`) and that neighbours differ (`Alternates`, `Normal`); the flags may be equal in between, until
the `Compress` at the end of a call. Each operation has one lemma for its effect on the size and
the loaded bytes: `CompressEffect`, `CutEffect`, `ResizeEffect`, `ParseEffect` (an edge is made and no byte
changed), `InnerEffect` and `SetEffect`; a step of `PageMap` is read off them. A query's r[k] is what
the first k pages have of the area and not loaded (`Part`, `PartsUpto`), which for all pages is what
the file misses of it (`PartsAll`).

The first part of `CacheFile_proofs` is about `FdEntity` alone and proves, for all sizes, bytes,
read-ahead and part sizes that satisfy the assumptions named in `FdEntity`:

- `TypeCorrect`: `Spec => []TypeOK`, whatever the disk answers.
- `CopyCorrect`, `FlushCorrect`, `ReadCorrect`: `CopyIsWanted`, `FlushedIsUploaded` and
  `ReadsReturnWanted`, under the assumption `SafeDisk = {TRUE}` (there is space on the disk), where
  the run fd_entity checks them too, with their exceptions `regrown` and `dropped` (section 3).
- `FlushAgainCorrect`: `FlushCanSucceed`, under the same assumption.
- `InOrderCorrect`: `InOrderSpec => []WrittenInOrderIsWhole`, for a disk that is always full
  (`SafeDisk = {FALSE}`) and `HeadersMayFail = FALSE`, as in the run full_disk; with TRUE there TLC
  refutes it (section 3).

The argument. `CopyIsWanted` is not inductive: a method may extend the file over positions past its
end, so these must be known to be zero (`Padded`), and a flush may return at once, so a clean entity
must be known to have nothing the object lacks. `Inductive` adds these conjuncts, and that no upload
is begun while there is space. Each method has lemmas that give the type and the effect of all its
outcomes (what `Load` leaves loaded, with which content, when it fails on the way as well); the step
proof has one case per handler and cites them. `FlushedIsUploaded` and `ReadsReturnWanted` follow
from `Inductive`.
So does `FlushCanSucceed`, since its load and put each have an outcome without a failure. On a full
disk everything is always loaded, as the writes only extend the file. `InOrderInv` says that what is
posted and the rest of the local file are together all that was written (`Posts`), from the first
write of an upload to the flush that completes it. An entity does that once: after it the object is
what was written, until a next write begins an upload no flush can complete.

`Requests_proofs` proves all the properties of `Requests`, for any number of threads, any size of
the pool, any number of attempts, and any times with `Delay < Margin` and `Margin + Delay <= Life`:

- `TypeCorrect`: `Spec => []TypeOK`. An attempt to renew that is under way must be known to be left
  (`Asking`), or the counter could pass 0.
- `HandlesCorrect`, `TimersCorrect`: `HandlesAddUp` and `TimersAreFair`, also if `curl_easy_init`
  may fail. `LockCorrect`: `LockIsGivenBack`, under the assumption `InitMayFail = FALSE`.
- `SignedCorrect`, `KeysCorrect`: `SignedWithOneCredential` and `KeysAreValid`.

The argument. `HandlesAddUp` is restated handle by handle (`Apart`, `Accounted`; `AddUp` shows the
two to be the same), and becomes inductive with `Where`, which says at which phases of a request
each object of a thread has a handle: an object takes one only when it has none, so that
`CreateCurlHandle` neither loses one nor keeps the lock. `CreateEffect`, `DestroyEffect` and
`TimerEffect` say what a call does to its own object and that it leaves the others alone
(`OthersKeep`), which a new timer needs until `CurlProgress` is called for it. `KeysAreValid` rests
on `Fresh`: the signature of a thread began less than `Delay` ago; what it got was issued after
that, or is a password file with `Margin + Delay` left, so whatever it stores is good for `Margin`
more; a thread that checked the credentials before an older answer is stored still finds them good.

`Upload_proofs` proves the properties of `Upload` except that every upload ends, for any number of
parts, upload ids, changes of the source and attempts, any batch and any limit of requests:

- `TypeCorrect`, `ListedPartsCorrect`, `ObjectWholeCorrect`: `TypeOK`, `ListedPartsAreThere` and
  `ObjectIsWhole`, for every kind of request that may arrive late (`Late`).
- `ObjectPutImplemented`: `Spec => ImplementsObjectPut`, if `Late` is at most {"part"}, as in the
  run upload. A late request to put or to complete can replace the object after the call has given
  up, which `ObjectPut` forbids.

The argument. The invariant relates the list of ETags to the threads (`WorkersOK`: a thread works on
a place that is empty, and the part of one that ended well is on the server), says that a batch
which broke off leaves a gap (`GapsOK`), so that a list without one is that of the whole source, and
that late requests carry parts of their own upload's source (`LateOK`). The refinement maps each
step to a step or a stutter of `ObjectPut`; only the completion and the put of a small file change
the object.

`StatCache_proofs` proves all the properties of `StatCache`, for any threads, names, sizes of the cache
and numbers of changes: `CachedIsCurrentCorrect`, `OpenSeesCorrect`, `SizeIsBoundedCorrect`.

The argument. `CachedIsCurrent` speaks of the cache only; what a lookup is about to store is in the
thread. `LookOK` says what a lookup not in doubt knows of the object in each of its phases: which
forms the requests so far have excluded, and from "add" on the attributes themselves. A change puts
each lookup under way, and each entry that its own DelStat will delete, in doubt, so a step either
keeps a thread's knowledge or gives it up. `OpenOK` adds that after the DelStat of `s3fs_open`
nothing older than its call is in the cache without doubt. `SizeOK` needs that an add no other
thread has disturbed still finds the room its truncation made, or the entry it replaces (`AloneOK`).

`FdManager_proofs` proves all the invariants of `FdManager`, for any threads, paths, handles and
entities and any answers of the disk:

- `TypeCorrect`: `Spec => []TypeOK` for all options; each lock is held by the thread inside its
  section.
- `ReferencesCorrect`, `OneCopyCorrect`, `HandleCopyCorrect`: `ReferencesAddUp`, `OneCopyPerPath`
  and `HandleUsesItsCopy`, under the assumptions `~CacheDir` and `~UnlinkMayFail`, the mount without
  use_cache where a rename that has copied the object also deletes the old one. They are needed:
  with `CacheDir` an entity whose `Open` failed stays under its key, so that a second call uses it
  with a count of 1 together with the first, and one of them deletes it under the other; a rename
  that fails half way leaves a handle at the old path while its entity has the new one.

The argument. The three are proved together, as none is inductive alone. `RefOK` counts the users of
an entity: handles, and calls between taking and giving back their reference. `HandleOK` says that
the entity of a handle is open under the path the handle has or will have when the rename under way
ends; `OneCopyPerPath` then makes a lookup by path find the same entity. `HolderOK` and `EntOK` say
which entity a call has at each phase, `KeysOK` that without a cache directory every key is a random
one, and `TargetOK` that no handle has the new path of a rename before it ends. `Exclusive` has the
promises of libfuse these rest on: a rename has its two paths to itself. Each action has a lemma for
the types and one for the rest; lemmas on how counts change when one call takes, passes on or gives
back a reference (`RefTaken`, `RefPasses`, `RefLoses`) are shared.

`Metadata_proofs` proves all the properties of `Metadata`, for any values, names, calls, answers of
the disk and number of changes, with nocopyapi and without: `TypeCorrect`, `ChangesCorrect`,
`OpenFileCorrect`.

The argument. `Agreements` says that the object, the headers of the open file, those an upload began
with and those a call of `s3fs_open` has read all agree with what was asked for, in the attributes
that are firm: not lost, and not between their change in one place and in the other. What is due,
that is waits for an upload, is excepted where only the open file has it. `PutOK` and `ForceOK`
carry what a change has computed across its steps, `DueOK` says that a file with something due is
modified. `RowFlushIs` sums up what a flush does to an open file and the object in all its outcomes.

The second part of `CacheFile_proofs` proves both properties of `CacheFile`, for any bytes and any
number of opens, crashes between the writes of the two files, renames, removals and deleted caches,
with `SafeDisk = {TRUE}` (writes find space on the disk; reads may find none) as in the run
cache_file: `CacheTypeCorrect` and `CachedCorrect` (`CachedIsObject`). Sizes are below 10
(`OneDigit`, a hypothesis of both): only then do the lines of an old and a new text have the same
length, so that the model can lay one over the other; larger files are not covered.

The argument. The property speaks of an open file, but what it rests on lies in the cache between
two opens. While no open file uses the cache files, `AtRest` says that the data file agrees with the
object wherever the text claims it loaded. While one does, `LinkedOK` has the invariant of
`FdEntity`, and in addition: an entity with nothing to save `Mirrors` the object, and has loaded all
the text claims. A crash then leaves a text that claims no more than the data file has. `Handled`
sums up what a handler may do to this: leave something to save, load more, or upload a file that is
loaded as a whole; it needs that a Load never forgets what was loaded, which the lemmas of the
first part say as well. The lemmas on texts show that the lines `Serialize` writes for a
set of bytes claim only bytes of this set in a new text (`NewSaveClaims`), and that over an older
one they leave lines of it only behind their own (`SaveParts`), which is the reason "tail" if these
claim more; to write the same list again changes nothing (`SaveTwice`).

`Rename_proofs` proves of `Rename`, for any tree of names (`NamesAssumption`), any page size, any
number of writes, files added by others, failed requests and crashes, with the copy request and
without, all the properties of the run: `TypeCorrect`, `FilesKeptCorrect` (`FilesAreKept`),
`DirectoriesKeptCorrect` (`DirectoriesAreKept`), `ListingCorrect` (`ListIsComplete`),
`RepeatedRenameCorrect` (`RepeatedRenameWorks`), `HandlesCorrect` (`HandlesKeepObject`) and
`RenamedCorrect` (`RenamedWhenZero`).

The argument. `DataOK` says where the newest content of a file may be: under the old name while it
has an object there, else under the new one. A step may delete an object only if it is known to be
under the new name, so `TodoOK` says of each node what it stands for (`FileNodes`: a file that is
there; `DirNodes`: a directory), and `ClonedOK` that from the copies on every directory to be removed
has its object under the new name. The names in the nodes come out of the list, through the pages,
the entries of `S3ObjList` and `GetNameList`; `HeadOK` says what an entry may be at any time, so that
whatever the list makes of a key is the name of a file or directory (`ListingOK`).

These make the first invariant (`Inv1`). The second (`Inv2`) is about what is still under the old
name: `PendingOK` says where the call has each object of it at every phase, on a page to come
(`Later`), on this one, in the list, among the nodes of directories or files, unless its name was
missed (`Exempt`; while no request has failed, nothing is exempt, whatever earlier calls missed).
When the work is done nothing is pending, and nothing is left. It rests on the pages going on
from a key that everything listed comes before (`PagesOK`), on a directory having one object under
the old name (`OneForm`: a node stands for one form, and what `get_object_attribute` saw is the only
one), on directories being removed from below, in descending order (`NodesOK`), so that
`directory_empty` finds nothing but what a failure left (`EmptyBelow`), and on the three DELETEs of
a directory (`RemovedOK`). `BudgetOK` then says that a call fails only if a request has.
`HandlesOK` adds to the property of open files that without the copy request none goes by the new
name before the call has returned 0, and that at the DELETE the entity has been moved already.

Only model-checked: liveness, that is `EveryCallReturns` of `FdManager` and `EveryUploadEnds` of
`Upload`, since fairness and ENABLED are out of the prover's reach; and the two runs that show
the code to disagree with a comment.

## 5. Left out, and why

- `PageList`: offsets are natural numbers of arbitrary size; there are no negative arguments.
- `FdEntity`: `force_load`, the evening out of the last two parts of an
  upload near the limit of parts, times. A write of different bytes is a sequence of writes of
  equal bytes. Requests are taken to fail with or without effect.
- `FdManager`: the branch of `s3fs_truncate` for an object it cannot look up (which uploads
  zeros), `noflush_in_other_proc`, failures of `FdEntity::RenamePath`, the lookups of
  `put_headers`. Options that need another mount, `CacheDir` and `UnlinkMayFail`, are constants
  of the module; with them TRUE it shows the hazards listed for them, not the properties.
- `StatCache`: dates (any entry may be the oldest, any may have expired), `CacheSize = 0`, objects
  that are directories by their attributes alone, the lookup of rmdir without overcheck,
  `chk_dir_object_type`. The lookups a handler begins with are calls of getattr.
- `Metadata`: the content of the file, directories of an old form (`StatCache` has their requests),
  times that writes set, `chk_dir_object_type`, the answers of getxattr and listxattr. Writes do not
  run beside a change, because the kernel holds the lock of the inode across both.
- `Rename`: attributes and the stat cache (`StatCache` has the DelStats), the parts of a large copy
  (`Upload`), symbolic links (files to a rename), the order in which libfuse lets calls of other
  paths pass. Calls below the two directories wait, as libfuse locks their paths.
- `CacheFile`: system calls on the cache files that fail, mirror files and writes on a full disk,
  CleanupCacheDir, more than one path (a rename replaces or takes away the files of the one).
- `Requests`: the waits between attempts, statuses, bodies, the share handle with the locks libcurl
  calls back for, the data race on the two maps (each access is whole), `token_lock` itself, which
  is held for single steps only. `Delay < Margin` and `Margin + Delay <= Life` are assumptions: a
  signature takes seconds, the margin is 10 minutes (curl.cpp:291).
- The race on the static variables of GetXmlNsUrl (s3fs.cpp:2885): undefined behaviour on a string,
  listed as a hazard.
- `Upload`: the branch of `MultiRead` that repeats a request (no request reaches it: `MultiPerform`
  has failed before), which error is which and the waits between attempts, checks by MD5, an
  answer of status 200 with an error in its body, a source that other clients of the bucket
  change during a copy. Uploads on a full disk, part by part, are in `FdEntity`.
- Signing, options, XML and strings: conversions without state, covered by unit tests.

## 6. Plan

1. Done: `PageMap`, `PageList`, `PageListSpec`; `FdEntity`; `FdManager`; `StatCache`; `ObjectPut`, `Upload`;
   `ObjectList`, `Rename`; `CacheFile`; `Metadata`; `Requests`; the proofs of section 4, which cover
   every safety and action property.
2. Modules that could follow: parallel download with its threads (one request of `FdEntity` so
   far), s3fs_truncate of an object that cannot be looked up, listing and aborting uploads in the
   utility mode.
