----------------------------- MODULE FdManager -----------------------------
(***************************************************************************)
(* The table of open files: class FdManager (fdcache.cpp), and the file    *)
(* system handlers of s3fs.cpp that run on it in several threads at once.  *)
(* A handler looks its entity up and takes a reference under               *)
(* fd_manager_lock, works on it under the entity's fdent_lock, and drops   *)
(* the reference under fd_manager_lock again; between these any other      *)
(* handler may run.  What fdent_lock makes atomic is modelled in FdEntity; *)
(* here a file is its length, in blocks (so that a write may leave it as   *)
(* it is), and whether it has changes to upload.                           *)
(*                                                                         *)
(* A thread's call is the sequence of phases it has still to do.  Kernel   *)
(* and libfuse are external: a rename excludes every other call on its     *)
(* paths, a write and a truncate of one file exclude each other, a handle  *)
(* is released after its last use, and a rename's target is not open       *)
(* (libfuse hides it first).                                               *)
(***************************************************************************)
EXTENDS Integers, Sequences, FiniteSets

CONSTANTS
  Thread, Path, Handle,
  Ent,            \* bound: entities (addresses) at one time
  MaxLen,         \* bound: longest file
  MaxObjects,     \* bound: objects that exist when one is created
  SafeDisk,       \* the answers FdManager::IsSafeDiskSpace may give
  CacheDir,       \* FdManager::IsCacheDir: mounted with use_cache
  UnlinkMayFail,  \* whether the DELETE that ends a rename can fail
  NoThread, NoPath, NoHandle, NoEnt

ASSUME FdManagerAssumption ==
  /\ MaxLen \in Nat /\ MaxObjects \in Nat /\ CacheDir \in BOOLEAN /\ UnlinkMayFail \in BOOLEAN
  /\ SafeDisk \in (SUBSET BOOLEAN) \ {{}}
  /\ NoThread \notin Thread /\ NoEnt \notin Ent
  /\ NoHandle \notin Handle /\ NoPath \notin Path

VARIABLES
  fent,           \* the entities in the table
  entity,         \* [Ent -> the fields of an entity]
  object,         \* [Path -> the length of the object, or Missing]
  handle,         \* [Handle -> path and fi->fh of an open file]
  call,           \* [Thread -> the handler it runs]
  manager,        \* who holds fd_manager_lock
  lock            \* [Ent -> who holds its fdent_lock]

vars == <<fent, entity, object, handle, call, manager, lock>>

-----------------------------------------------------------------------------
Length  == 0 .. MaxLen
Missing == MaxLen + 1

Work  == {"read", "write", "flush", "force", "load", "cut"}
Phase == Work \cup {"open", "exist", "find", "return", "count",
                    "copy", "move", "unlink", "close"}

Call ==
  [op : {"idle", "open", "io", "release", "truncate", "rename"},
   todo : Seq(Phase), at : {"start", "again", "locked", "rekey"},
   path : Path \cup {NoPath}, to : Path \cup {NoPath}, len : Length,
   handle : Handle \cup {NoHandle}, ent : Ent \cup {NoEnt}, failed : BOOLEAN]

Idle == [op |-> "idle", todo |-> <<>>, at |-> "start", path |-> NoPath,
         to |-> NoPath, len |-> 0, handle |-> NoHandle, ent |-> NoEnt,
         failed |-> FALSE]

Entity == [path : Path \cup {NoPath}, key : Path \cup {NoPath}, refcnt : Nat,
           open : BOOLEAN, len : Length, dirty : BOOLEAN]

Freed == [path |-> NoPath, key |-> NoPath, refcnt |-> 0, open |-> FALSE,
          len |-> 0, dirty |-> FALSE]

Unused == [path |-> NoPath, fd |-> NoEnt]

\* The phases of s3fs_rename (rename_object) from its second look for an
\* open file, or its Open of a closed one, and those of a rename without one.
MoveOpen   == <<"exist", "copy", "move", "close", "unlink">>
MoveOpened == <<"open", "copy", "move", "close", "unlink">>
MoveClosed == <<"copy", "move", "unlink">>

-----------------------------------------------------------------------------
Doing(t, phase, at) ==
  call[t].todo # <<>> /\ Head(call[t].todo) = phase /\ call[t].at = at

Turn(t, c) == call' = [call EXCEPT ![t] = c]

\* A call goes on with these phases, and is over when there are none.
Continue(c, phases) ==
  IF phases = <<>> THEN Idle ELSE [c EXCEPT !.todo = phases, !.at = "start"]

Proceed(c) == Continue(c, Tail(c.todo))

\* A handler whose method fails only closes the entity.
GiveUp(c) == Continue([c EXCEPT !.failed = TRUE], <<"close">>)

-----------------------------------------------------------------------------
(***************************************************************************)
(* FdManager.  With a cache directory an entity is found under its path as *)
(* key, open or not; without one the key is a random temporary path and    *)
(* the open entities are searched for their path.                          *)
(***************************************************************************)
OpenAs(p) == {x \in fent : entity[x].open /\ entity[x].path = p}

\* Found below, without the search for a path that is not a key.
FoundByKey(p) == {x \in fent : entity[x].key = p}

Found(p) == IF CacheDir THEN {x \in fent : entity[x].key = p} ELSE OpenAs(p)

\* Open or ExistOpen find an entity; fd_manager_lock is kept for Reference.
Find(t) ==
  /\ manager = NoThread
  /\ \E x \in Ent :
       /\ \/ Doing(t, "open", "start") /\ x \in Found(call[t].path)
          \/ Doing(t, "exist", "start") /\ x \in Found(call[t].path)
          \/ Doing(t, "exist", "again") /\ x \in OpenAs(call[t].path)
       /\ Turn(t, [call[t] EXCEPT !.at = "locked", !.ent = x])
  /\ manager' = t
  /\ UNCHANGED <<fent, entity, object, handle, lock>>

\* FdEntity::Dup waits for fdent_lock; an entity that is not open is opened.
Reference(t) ==
  LET x == call[t].ent IN
  /\ Doing(t, "open", "locked") \/ Doing(t, "exist", "locked")
  /\ entity[x].open => lock[x] = NoThread
  /\ entity' = [entity EXCEPT ![x] =
       IF @.open THEN [@ EXCEPT !.refcnt = entity[x].refcnt + 1]
       ELSE [@ EXCEPT !.refcnt = 1, !.open = TRUE, !.len = call[t].len]]
  /\ Turn(t, Proceed(call[t])) /\ manager' = NoThread
  /\ UNCHANGED <<fent, object, handle, lock>>

\* Open finds none and makes one.  When FdEntity::Open fails it returns -errno,
\* which Open compares with -1: the entity stays in the table, not open, and
\* is returned all the same.
Create(t) ==
  /\ manager = NoThread /\ Doing(t, "open", "start") /\ Found(call[t].path) = {}
  /\ \E x \in Ent \ fent, opened \in BOOLEAN :
       /\ opened \/ \A y \in fent : entity[y].open       \* bound
       /\ fent' = fent \cup {x}
       /\ entity' = [entity EXCEPT ![x] =
            [path |-> call[t].path, key |-> IF CacheDir THEN call[t].path ELSE NoPath,
             refcnt |-> IF opened THEN 1 ELSE 0, open |-> opened,
             len |-> IF opened THEN call[t].len ELSE 0, dirty |-> FALSE]]
       /\ Turn(t, Proceed([call[t] EXCEPT !.ent = x]))
  /\ UNCHANGED <<object, handle, manager, lock>>

\* ExistOpen finds none and searches once more, for the path among the open
\* entities; s3fs_read and the others pass their pid for ignore_existfd.  Then
\* the handler fails, or renames without an entity.
FindNone(t) ==
  /\ manager = NoThread
  /\ \/ /\ Doing(t, "exist", "start") /\ Found(call[t].path) = {}
        /\ Turn(t, [call[t] EXCEPT !.at = "again"])
     \/ /\ Doing(t, "exist", "again") /\ OpenAs(call[t].path) = {}
        /\ Turn(t, CASE call[t].op # "rename" -> Idle
                     [] call[t].todo[2] = "force" -> Continue(call[t], MoveOpen)
                     [] OTHER ->
                          Continue(call[t], IF CacheDir THEN MoveOpened ELSE MoveClosed))
  /\ UNCHANGED <<fent, entity, object, handle, manager, lock>>

\* FdManager::GetFdEntity, for s3fs_release: the entity with the handle's
\* descriptor, if its path is the handle's, or that of the key if there is no
\* descriptor.
FindDescriptor(t) ==
  LET fd   == call[t].ent
      byfd == {x \in fent : x = fd /\ entity[x].path = call[t].path}
      bykey == {x \in fent : CacheDir /\ fd = NoEnt /\ entity[x].key = call[t].path}
  IN /\ Doing(t, "find", "start") /\ manager = NoThread
     /\ \/ \E x \in byfd \cup bykey : Turn(t, Proceed([call[t] EXCEPT !.ent = x]))
        \/ byfd \cup bykey = {} /\ Turn(t, Idle)
     /\ UNCHANGED <<fent, entity, object, handle, manager, lock>>

\* FdManager::Close finds the entity in the table; fd_manager_lock is kept.
StartClose(t) ==
  /\ manager = NoThread /\ Doing(t, "close", "start")
  /\ IF call[t].ent \in fent
       THEN Turn(t, [call[t] EXCEPT !.at = "locked"]) /\ manager' = t
       ELSE Turn(t, Proceed([call[t] EXCEPT !.ent = NoEnt])) /\ manager' = manager
  /\ UNCHANGED <<fent, entity, object, handle, lock>>

\* Close below, deleting the entity whoever else refers to it.
DereferenceAndDelete(t) ==
  LET x == call[t].ent IN
  /\ Doing(t, "close", "locked")
  /\ entity[x].open => lock[x] = NoThread
  /\ fent' = fent \ {x} /\ entity' = [entity EXCEPT ![x] = Freed]
  /\ Turn(t, Proceed([call[t] EXCEPT !.ent = NoEnt])) /\ manager' = NoThread
  /\ UNCHANGED <<object, handle, lock>>

\* FdEntity::Close waits for fdent_lock; the entity is deleted unless it is
\* still open then.
Dereference(t) ==
  LET x == call[t].ent IN
  /\ Doing(t, "close", "locked")
  /\ entity[x].open => lock[x] = NoThread
  /\ IF entity[x].open /\ entity[x].refcnt > 1
       THEN fent' = fent /\ entity' = [entity EXCEPT ![x].refcnt = @ - 1]
       ELSE fent' = fent \ {x} /\ entity' = [entity EXCEPT ![x] = Freed]
  /\ Turn(t, Proceed([call[t] EXCEPT !.ent = NoEnt])) /\ manager' = NoThread
  /\ UNCHANGED <<object, handle, lock>>

\* FdManager::Rename finds an entity for the old path, or has nothing to do.
StartMove(t) ==
  LET found == Found(call[t].path) IN
  /\ manager = NoThread /\ Doing(t, "move", "start")
  /\ IF found = {} THEN Turn(t, Proceed(call[t])) /\ manager' = manager
     ELSE Turn(t, [call[t] EXCEPT !.at = "locked"]) /\ manager' = t
  /\ UNCHANGED <<fent, entity, object, handle, lock>>

\* Move below, changing the key but not the path.
MoveKeepingPath(t) ==
  /\ Doing(t, "move", "locked")
  /\ \E x \in Found(call[t].path) : lock[x] = NoThread
  /\ Turn(t, Proceed(call[t])) /\ manager' = NoThread
  /\ UNCHANGED <<fent, entity, object, handle, lock>>

\* FdEntity::RenamePath waits for fdent_lock and changes path and key.
Move(t) ==
  /\ Doing(t, "move", "locked")
  /\ \E x \in Found(call[t].path) :
       LET key == IF entity[x].key = NoPath THEN NoPath ELSE call[t].to
           over == {y \in fent \ {x} : key # NoPath /\ entity[y].key = key}
       IN /\ lock[x] = NoThread
          /\ entity' = [entity EXCEPT ![x].path = call[t].to, ![x].key = key]
          /\ fent' = fent \ over
  /\ Turn(t, Proceed(call[t])) /\ manager' = NoThread
  /\ UNCHANGED <<object, handle, lock>>

-----------------------------------------------------------------------------
(***************************************************************************)
(* The methods of FdEntity, from taking fdent_lock to releasing it.        *)
(***************************************************************************)
\* On a short disk Write, and RowFlush of a file that is not all local, call
\* NoCacheLoadAndPost, which first changes the entity's key in the table and
\* for that takes fd_manager_lock ("rekey").
Posts(work, e) == work = "write" \/ (work \in {"flush", "force"} /\ e.len > 0)

Places(work, e) ==
  {at \in {"locked", "rekey"} :
     \E safe \in SafeDisk : at = "rekey" <=> (~safe /\ Posts(work, e))}

\* A method takes fdent_lock, or fails because the entity is not open.  What
\* s3fs_read (GetSize) and s3fs_flush (UpdateMtime) do in a section of the lock
\* just before changes nothing here: a thread that waits for that section is
\* the one that waits for the method's.
Enter(t) ==
  LET x == call[t].ent IN
  /\ \E w \in Work : Doing(t, w, "start")
  /\ IF entity[x].open
       THEN /\ lock[x] = NoThread /\ lock' = [lock EXCEPT ![x] = t]
            /\ \E at \in Places(Head(call[t].todo), entity[x]) :
                 Turn(t, [call[t] EXCEPT !.at = at])
       ELSE lock' = lock /\ Turn(t, GiveUp(call[t]))
  /\ UNCHANGED <<fent, entity, object, handle, manager>>

Result(e, o, ok) == [entity |-> e, object |-> o, ok |-> ok]

Upload(e) == [object EXCEPT ![e.path] = e.len]

\* What a method does to the entity e when nothing fails.
Results(phase, n, e) ==
  LET same     == Result(e, object, TRUE)
      uploaded == Result([e EXCEPT !.dirty = FALSE], Upload(e), TRUE)
      cut      == Result([e EXCEPT !.len = n, !.dirty = TRUE], object, TRUE)
      longer   == [e EXCEPT !.len = IF @ < n THEN n ELSE @, !.dirty = TRUE]
  IN CASE phase = "write" -> {Result(longer, object, TRUE)}
       [] phase = "force" -> {uploaded}
       [] phase = "flush" -> {IF e.dirty THEN uploaded ELSE same}
       [] phase = "cut"   -> IF e.len = n THEN {same}
                             ELSE {r \in {cut} : e.refcnt > 1}
       [] OTHER           -> {same}

\* Finish below, keeping fdent_lock when the method fails.
FinishKeepingLock(t) ==
  LET x == call[t].ent IN
  /\ \E w \in Work : Doing(t, w, "locked")
  /\ \E r \in Results(Head(call[t].todo), call[t].len, entity[x])
              \cup {Result(entity[x], object, FALSE)} :
       /\ entity' = [entity EXCEPT ![x] = r.entity] /\ object' = r.object
       /\ Turn(t, IF r.ok THEN Proceed(call[t]) ELSE GiveUp(call[t]))
       /\ lock' = IF r.ok THEN [lock EXCEPT ![x] = NoThread] ELSE lock
  /\ UNCHANGED <<fent, handle, manager>>

\* The method returns, with its result or after a failure, and fdent_lock is
\* released.
Finish(t) ==
  LET x == call[t].ent
      e == IF call[t].at = "rekey" THEN [entity[x] EXCEPT !.key = NoPath] ELSE entity[x]
  IN /\ \E w \in Work : Doing(t, w, "locked") \/ Doing(t, w, "rekey")
     /\ call[t].at = "rekey" => manager = NoThread
     /\ \E r \in Results(Head(call[t].todo), call[t].len, e)
                 \cup {Result(e, object, FALSE)} :
          /\ entity' = [entity EXCEPT ![x] = r.entity] /\ object' = r.object
          /\ Turn(t, IF r.ok THEN Proceed(call[t]) ELSE GiveUp(call[t]))
     /\ lock' = [lock EXCEPT ![x] = NoThread]
     /\ UNCHANGED <<fent, handle, manager>>

-----------------------------------------------------------------------------
(***************************************************************************)
(* The rest of the handlers.                                               *)
(***************************************************************************)
\* s3fs_open sets fi->fh to ent->GetFd(), which is -1 if Open had failed.
Return(t) ==
  /\ Doing(t, "return", "start")
  /\ handle' = [handle EXCEPT ![call[t].handle] =
       [path |-> call[t].path,
        fd |-> IF entity[call[t].ent].open THEN call[t].ent ELSE NoEnt]]
  /\ Turn(t, Idle)
  /\ UNCHANGED <<fent, entity, object, manager, lock>>

\* s3fs_truncate leaves the upload to a later flush when the file is open
\* elsewhere, and uploads it itself when not.  GetRefCount takes fdent_lock, so
\* it waits for the handler that holds it, and gives it back: the count may be
\* another when the truncate acts on it.
CountReferences(t) ==
  /\ Doing(t, "count", "start") /\ lock[call[t].ent] = NoThread
  /\ Turn(t, Continue(call[t], IF entity[call[t].ent].refcnt > 1
                                 THEN <<"cut", "close">> ELSE <<"force", "close">>))
  /\ UNCHANGED <<fent, entity, object, handle, manager, lock>>

\* put_headers copies the object to the new path, or fails.
Copy(t) ==
  LET c == call[t] IN
  /\ Doing(t, "copy", "start")
  /\ \/ object' = [object EXCEPT ![c.to] = object[c.path]] /\ Turn(t, Proceed(c))
     \/ object' = object
        /\ Turn(t, IF c.ent = NoEnt THEN Idle ELSE GiveUp(c))
  /\ UNCHANGED <<fent, entity, handle, manager, lock>>

\* s3fs_unlink of the old path; libfuse then renames the open handles.
Unlink(t) ==
  LET c == call[t] IN
  /\ Doing(t, "unlink", "start") /\ Turn(t, Idle)
  /\ \/ /\ object' = [object EXCEPT ![c.path] = Missing]
        /\ handle' = [h \in Handle |->
             IF handle[h].path = c.path THEN [handle[h] EXCEPT !.path = c.to]
             ELSE handle[h]]
     \/ UnlinkMayFail /\ UNCHANGED <<object, handle>>
  /\ UNCHANGED <<fent, entity, manager, lock>>

-----------------------------------------------------------------------------
(***************************************************************************)
(* Calls, as the kernel and libfuse make them (external).                  *)
(***************************************************************************)
Touches(u, p) == call[u].op = "rename" /\ p \in {call[u].path, call[u].to}
Free(p) == \A u \in Thread : ~Touches(u, p)

Existing == {p \in Path : object[p] # Missing}

Busy(p, work) ==
  \E u \in Thread : call[u].path = p /\ \E i \in DOMAIN call[u].todo : call[u].todo[i] = work

Begin(t, c) == call[t] = Idle /\ Turn(t, c) /\ UNCHANGED <<fent, entity, manager, lock>>

\* s3fs_open; the size is that of a HEAD before FdManager::Open, or 0 with
\* O_TRUNC, and then a forced flush empties the object unless the stat cache,
\* which may be out of date, says that it is empty.
CallOpen(t, h, p, trunc, empty) ==
  /\ Free(p) /\ object[p] # Missing /\ handle[h] = Unused
  /\ \A u \in Thread : call[u].op = "open" => call[u].handle # h
  /\ Begin(t, [Idle EXCEPT !.op = "open", !.path = p, !.handle = h,
                           !.len = IF trunc THEN 0 ELSE object[p],
                           !.todo = IF trunc /\ ~empty THEN <<"open", "force", "return">>
                                    ELSE <<"open", "return">>])
  /\ UNCHANGED <<object, handle>>

\* s3fs_create: an empty object first, then as s3fs_open.
CallCreate(t, h, p) ==
  /\ Free(p) /\ object[p] = Missing /\ handle[h] = Unused
  /\ Cardinality(Existing) < MaxObjects                    \* bound
  /\ \A u \in Thread : call[u].op = "open" => call[u].handle # h
  /\ Begin(t, [Idle EXCEPT !.op = "open", !.path = p, !.handle = h,
                           !.todo = <<"open", "return">>])
  /\ object' = [object EXCEPT ![p] = 0] /\ handle' = handle

\* s3fs_read, s3fs_write, and s3fs_flush or s3fs_fsync.
CallIO(t, h, work, n) ==
  LET p == handle[h].path IN
  /\ handle[h] # Unused /\ Free(p)
  /\ work = "write" => ~Busy(p, "write") /\ ~Busy(p, "count") /\ ~Busy(p, "cut")
  /\ Begin(t, [Idle EXCEPT !.op = "io", !.path = p, !.handle = h, !.len = n,
                           !.todo = <<"exist", work, "close">>])
  /\ UNCHANGED <<object, handle>>

\* s3fs_release: the kernel has forgotten the handle.
CallRelease(t, h) ==
  /\ handle[h] # Unused /\ Free(handle[h].path)
  /\ \A u \in Thread : call[u].handle # h
  /\ handle' = [handle EXCEPT ![h] = Unused]
  /\ Begin(t, [Idle EXCEPT !.op = "release", !.path = handle[h].path,
                           !.ent = handle[h].fd, !.todo = <<"find", "close">>])
  /\ object' = object

\* s3fs_truncate
CallTruncate(t, p, n) ==
  /\ Free(p) /\ object[p] # Missing
  /\ ~Busy(p, "write") /\ ~Busy(p, "count") /\ ~Busy(p, "cut")
  /\ Begin(t, [Idle EXCEPT !.op = "truncate", !.path = p, !.len = n,
                           !.todo = <<"open", "load", "count">>])
  /\ UNCHANGED <<object, handle>>

\* s3fs_rename of a file; len is what Open gets for a cache file.
CallRename(t, p, q) ==
  /\ p # q /\ object[p] # Missing
  /\ \A u \in Thread : {call[u].path, call[u].to} \cap {p, q} = {}
  /\ \A h \in Handle : handle[h].path # q
  /\ Begin(t, [Idle EXCEPT !.op = "rename", !.path = p, !.to = q, !.len = object[p],
                           !.todo = <<"exist", "force", "close", "exist",
                                      "copy", "move", "close", "unlink">>])
  /\ UNCHANGED <<object, handle>>

Calls(t) ==
  \/ \E h \in Handle, p \in Path, trunc, empty \in BOOLEAN : CallOpen(t, h, p, trunc, empty)
  \/ \E h \in Handle, p \in Path : CallCreate(t, h, p)
  \/ \E h \in Handle : CallRelease(t, h)
  \/ \E h \in Handle, work \in {"read", "flush"} : CallIO(t, h, work, 0)
  \/ \E h \in Handle, n \in Length : CallIO(t, h, "write", n)
  \/ \E p \in Path, n \in Length : CallTruncate(t, p, n)
  \/ \E p \in Path, q \in Path : CallRename(t, p, q)

\* A running handler goes on.
Runs(t) ==
  \/ Find(t) \/ Reference(t) \/ Create(t) \/ FindNone(t) \/ FindDescriptor(t)
  \/ StartClose(t) \/ Dereference(t) \/ StartMove(t) \/ Move(t)
  \/ Enter(t) \/ Finish(t)
  \/ Return(t) \/ CountReferences(t) \/ Copy(t) \/ Unlink(t)

Init ==
  /\ fent = {} /\ entity = [x \in Ent |-> Freed]
  /\ object = [p \in Path |-> Missing] /\ handle = [h \in Handle |-> Unused]
  /\ call = [t \in Thread |-> Idle] /\ manager = NoThread
  /\ lock = [x \in Ent |-> NoThread]

Next == \E t \in Thread : Calls(t) \/ Runs(t)

Spec == Init /\ [][Next]_vars

\* The operating system runs every thread that can run.
FairSpec == Spec /\ \A t \in Thread : WF_vars(Runs(t))

-----------------------------------------------------------------------------
(***************************************************************************)
(* Properties.                                                             *)
(***************************************************************************)
\* The types, and that a lock is held only by a thread inside the section.
TypeOK ==
  /\ fent \subseteq Ent /\ entity \in [Ent -> Entity]
  /\ object \in [Path -> Length \cup {Missing}]
  /\ handle \in [Handle -> [path : Path \cup {NoPath}, fd : Ent \cup {NoEnt}]]
  /\ call \in [Thread -> Call]
  /\ manager \in Thread \cup {NoThread} /\ lock \in [Ent -> Thread \cup {NoThread}]
  /\ manager # NoThread => call[manager].at = "locked"
  /\ \A x \in Ent : lock[x] # NoThread =>
       call[lock[x]].ent = x /\ call[lock[x]].at \in {"locked", "rekey"}

\* A thread has its reference from Reference (or the handle it releases) until
\* Dereference.
Holds(t, x) ==
  /\ call[t].ent = x
  /\ call[t].at = "locked" => Head(call[t].todo) \notin {"open", "exist"}

References(x) == Cardinality({h \in Handle : handle[h].fd = x})
                 + Cardinality({t \in Thread : Holds(t, x)})

\* The reference count of an open entity is the number of handles and running
\* calls that use it, however opens, closes and renames interleave: none of
\* them can see its entity deleted, and none keeps it for ever.
ReferencesAddUp ==
  \A x \in Ent :
    IF x \in fent /\ entity[x].open THEN entity[x].refcnt = References(x)
    ELSE /\ \A h \in Handle : handle[h].fd # x
         /\ \A t \in Thread : Holds(t, x) => x \in fent

\* All who have a path open share one local copy of it, so that each sees what
\* the others write and one flush uploads it all.
OneCopyPerPath ==
  \A x, y \in fent :
    entity[x].open /\ entity[y].open /\ entity[x].path = entity[y].path => x = y

\* A read, write or flush works on the entity its handle was opened with (the
\* "different fd" warning of s3fs_read and s3fs_write is never due).
HandleUsesItsCopy ==
  \A t \in Thread :
    LET own == handle[call[t].handle].fd IN
    call[t].op = "io" /\ call[t].ent # NoEnt /\ own # NoEnt => call[t].ent = own

\* No thread waits for an entity's lock with fd_manager_lock in its hand
\* while the owner of the entity's lock waits for fd_manager_lock.
NoLockCycle ==
  \A t, u \in Thread :
    ~(/\ manager = t /\ lock[call[t].ent] = u
      /\ call[u].at = "rekey")

\* If no new calls are made, every running call returns in the end: no failure
\* of a method or an open leaves behind a lock that Open, Close, Rename, a
\* method or GetRefCount of another call waits for.  (Checked with space on the
\* disk; without it NoLockCycle fails, and calls wait for each other for ever.)
EveryCallReturns ==
  <>[][\A t \in Thread : call[t] = Idle => call'[t] = Idle]_vars
    => <>[](\A t \in Thread : call[t] = Idle)
=============================================================================
