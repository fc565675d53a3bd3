------------------------------ MODULE Metadata ------------------------------
(***************************************************************************)
(* The attributes of one file: chmod, chown, utimens, setxattr and         *)
(* removexattr (s3fs.cpp), the headers an open file keeps of its object    *)
(* (FdEntity::orgmeta), those of them that wait for an upload              *)
(* (is_meta_pending), and the copy of them in the stat cache.              *)
(*                                                                         *)
(* The kernel holds the inode's lock across write and the calls that       *)
(* change attributes, so there is one change at a time and no write during *)
(* it; open, flush, fsync, release and lookups run beside it.  Requests    *)
(* may fail, and a change may have been carried out when one does.         *)
(*                                                                         *)
(* wanted, lost, due and failed are history: what the calls that returned  *)
(* 0 asked for, the attributes for which the code gives that up, those     *)
(* that wait for an upload, and whether the last flush failed.  Left out:  *)
(* the content, directories of an old form (StatCache has their requests), *)
(* and times other than those utimens sets.                                *)
(***************************************************************************)
EXTENDS Integers, FiniteSets

CONSTANTS
  Value,          \* of modes, owners, groups and times
  ReadOnly,       \* the modes that deny the caller to write
  Name,           \* of extended attributes
  NoCopyApi,      \* the settings of nocopyapi to explore
  SafeDisk,       \* the answers FdManager::IsSafeDiskSpace may give
  Calls,          \* the calls of Op to explore
  MaxChanges      \* bound: how many of them

ASSUME ValuesAssumption == ReadOnly \subseteq Value /\ Value # {} /\ Value \subseteq Nat
ASSUME SettingsAssumption ==
  NoCopyApi \subseteq BOOLEAN /\ SafeDisk \subseteq BOOLEAN /\ MaxChanges \in Nat

VARIABLES
  nocopy,         \* nocopyapi
  object,         \* the headers of the object
  cached,         \* those in the stat cache, if any
  ent,            \* the open file, if any
  opening,        \* the headers that a call of s3fs_open has read, if one is on
  change,         \* the call that changes attributes
  left,           \* bound: how many may follow
  wanted, lost, due, failed       \* history

history == <<wanted, lost, due, failed>>
vars == <<nocopy, object, cached, ent, opening, change, left, history>>

-----------------------------------------------------------------------------
(***************************************************************************)
(* Headers.  What may be missing is a set of at most one member.           *)
(***************************************************************************)
IsOptional(o, S) == o \subseteq S /\ Cardinality(o) <= 1
The(o) == CHOOSE x \in o : TRUE

Keep == -1                              \* (uid_t)(-1), in a call and in a header

Id      == Value \cup {Keep}
Headers == [mode : Value, mtime : Value, uid : Id, gid : Id, xattr : SUBSET SUBSET Name]
Attr    == {"mode", "mtime", "uid", "gid", "xattr"}
Names(xattr) == UNION xattr

\* curl does not send a header without a value.
Sent(h) == [h EXCEPT !.xattr = IF @ = {{}} THEN {} ELSE @]

-----------------------------------------------------------------------------
(***************************************************************************)
(* Calls.                                                                  *)
(***************************************************************************)
Plain == [{"mode"} -> Value] \cup [{"mtime"} -> Value] \cup [{"uid", "gid"} -> Id]

Op == [kind : {"set"}, name : Name, flag : {"any", "create", "replace"}]
      \cup [kind : {"remove"}, name : Name] \cup [kind : {"plain"}, to : Plain]

ASSUME CallsAssumption == Calls \subseteq Op

Touched(op) == IF op.kind = "plain" THEN DOMAIN op.to ELSE {"xattr"}

Without(xattr, name) ==
  LET rest == Names(xattr) \ {name} IN IF rest = {} THEN {} ELSE {rest}

\* The headers h after op, computed from what the stat cache had (base).
Changed(op, base, h) ==
  IF op.kind = "plain"
    THEN [a \in Attr |-> IF a \notin DOMAIN op.to THEN h[a]
                         ELSE IF op.to[a] = Keep /\ ~nocopy THEN base[a] ELSE op.to[a]]
  ELSE IF op.kind = "set" THEN [h EXCEPT !.xattr = {Names(@) \cup {op.name}}]
  ELSE [h EXCEPT !.xattr = Without(base.xattr, op.name)]

\* Whether set_xattrs_to_header and its callers go on.
Allowed(op, xattr) ==
  IF op.kind = "plain" THEN TRUE
  ELSE IF op.kind = "remove" THEN op.name \in Names(xattr)
  ELSE (op.flag = "create" => xattr = {}) /\ (op.flag = "replace" => xattr # {})

\* What the caller of op expects afterwards.
Wanted(op) ==
  IF op.kind = "plain"
    THEN [a \in Attr |-> IF a \in DOMAIN op.to /\ op.to[a] # Keep THEN op.to[a] ELSE wanted[a]]
  ELSE [wanted EXCEPT !.xattr = IF op.kind = "set" THEN @ \cup {op.name} ELSE @ \ {op.name}]

\* Attributes that op takes from base and writes to an open file that has others.
FromOld(op, base, h) ==
  {a \in Touched(op) :
     /\ op.kind = "remove" \/ (op.kind = "plain" /\ op.to[a] = Keep)
     /\ base[a] # h[a]}

\* An attribute that is set anew is not lost any more.
Replaced(op) == IF op.kind = "plain" THEN {a \in DOMAIN op.to : op.to[a] # Keep} ELSE {}

Idle == [at |-> "idle"]
Changing == change.at # "idle"

-----------------------------------------------------------------------------
(***************************************************************************)
(* The open file.                                                          *)
(***************************************************************************)
Entity == [ro : 0 .. 1, rw : 0 .. 1, orgmeta : Headers, is_modify : BOOLEAN,
           upload : SUBSET Headers, pending : BOOLEAN, flushed : BOOLEAN]

\* FdEntity::Open.
Opened(h) == [ro |-> 0, rw |-> 0, orgmeta |-> h, is_modify |-> FALSE,
              upload |-> {}, pending |-> FALSE, flushed |-> FALSE]

IsOpen     == ent # {}
Handles(e) == e.ro + e.rw
Held       == Changing /\ change.held

\* Closed below, without the reference that ExistOpen takes for a change.
ClosedByHandles(e, held) == IF Handles(e) = 0 THEN {} ELSE {e}

\* FdManager::Close: the entity goes with its last user.
Closed(e, held) == IF Handles(e) = 0 /\ ~held THEN {} ELSE {e}
Dropped(e, held) == IF Handles(e) = 0 /\ ~held THEN due ELSE {}

\* A call of s3fs_open under way has read the headers from before this change.
Overtaken(A) == IF opening # {} THEN A ELSE {}


Result(e, headers, ok) == [ent |-> e, object |-> headers, ok |-> ok]

\* RowFlush, PutRequest or ParallelMultipartUploadRequest with orgmeta.
PutWhole(e) ==
  {Result([e EXCEPT !.is_modify = FALSE], Sent(e.orgmeta), TRUE),
   Result(e, Sent(e.orgmeta), FALSE), Result(e, object, FALSE)}

\* FinishUpload below, without UploadPendingMeta.
FinishWithoutPending(e) ==
  IF e.flushed THEN {Result(e, object, FALSE)}
  ELSE {Result([e EXCEPT !.flushed = TRUE, !.upload = {}, !.is_modify = FALSE],
               The(e.upload), TRUE)}

\* RowFlush, the end of an upload without space: the object has the headers
\* from its beginning until UploadPendingMeta has put those that are pending.
FinishUpload(e) ==
  LET tried == [e EXCEPT !.flushed = TRUE]
      ended == [tried EXCEPT !.upload = {}, !.pending = FALSE]
      clean == [ended EXCEPT !.is_modify = FALSE]
      made  == The(e.upload)
  IN IF e.flushed THEN {Result(e, object, FALSE)}
     ELSE {Result(tried, object, FALSE), Result(tried, made, FALSE)}
          \cup (IF ~e.pending THEN {Result(clean, made, TRUE)}
                ELSE {Result(clean, Sent(e.orgmeta), TRUE),
                      Result(ended, Sent(e.orgmeta), FALSE), Result(ended, made, FALSE)})

RowFlush(e, force) ==
  IF ~force /\ ~e.is_modify THEN {Result(e, object, TRUE)}
  ELSE IF e.upload = {} THEN PutWhole(e) ELSE FinishUpload(e)

-----------------------------------------------------------------------------
(***************************************************************************)
(* Lookups, and the handlers of an open file.                              *)
(***************************************************************************)
Init ==
  /\ nocopy \in NoCopyApi
  /\ \E v \in Value \ ReadOnly, n \in Name :
       /\ object = [mode |-> v, mtime |-> v, uid |-> v, gid |-> v, xattr |-> {{n}}]
       /\ wanted = [mode |-> v, mtime |-> v, uid |-> v, gid |-> v, xattr |-> {n}]
  /\ cached = {} /\ ent = {} /\ opening = {} /\ change = Idle /\ left = MaxChanges
  /\ lost = {} /\ due = {} /\ failed = FALSE

\* get_object_attribute, apart from its race with DelStat (see StatCache).
Known == IF cached # {} THEN The(cached) ELSE object

Lookup ==
  /\ cached = {} /\ cached' = {object}
  /\ UNCHANGED <<nocopy, object, ent, opening, change, left, history>>

Evict ==
  /\ cached # {} /\ cached' = {}
  /\ UNCHANGED <<nocopy, object, ent, opening, change, left, history>>

OpenAsk ==
  /\ \A e \in ent : Handles(e) < 2   \* bound
  /\ opening = {} /\ opening' = {object} /\ cached' = {object}
  /\ UNCHANGED <<nocopy, object, ent, change, left, history>>

OpenEnter(kind) ==
  LET e == IF IsOpen THEN The(ent) ELSE Opened(The(opening)) IN
  /\ opening # {} /\ opening' = {} /\ e[kind] = 0   \* bound
  /\ ent' = {[e EXCEPT ![kind] = 1]}
  /\ UNCHANGED <<nocopy, object, cached, change, left, history>>

\* On a full disk the first write begins an upload, and may fail after that.
\* Times after a write are not followed.
Write ==
  /\ IsOpen /\ ~Changing /\ The(ent).rw = 1
  /\ \E safe \in SafeDisk, ok \in BOOLEAN :
       ent' = {[The(ent) EXCEPT
                  !.is_modify = @ \/ ok,
                  !.upload = IF ~safe /\ @ = {} THEN {Sent(The(ent).orgmeta)} ELSE @]}
  /\ failed' = FALSE /\ lost' = lost \cup {"mtime"} /\ due' = due \ {"mtime"}
  /\ UNCHANGED <<nocopy, object, cached, opening, change, left, wanted>>

\* s3fs_read of a hole: Load clears is_modify, and no flush puts what is due.
ReadHole ==
  /\ IsOpen /\ Handles(The(ent)) > 0 /\ The(ent).is_modify
  /\ ent' = {[The(ent) EXCEPT !.is_modify = FALSE]}
  /\ lost' = lost \cup due /\ due' = {}
  /\ UNCHANGED <<nocopy, object, cached, opening, change, left, wanted, failed>>

Flushes(r) ==
  /\ ent' = {r.ent} /\ object' = r.object /\ failed' = ~r.ok
  /\ IF r.ok /\ The(ent).is_modify
       THEN /\ due' = {}
            /\ lost' = lost \cup Overtaken(due)
       ELSE UNCHANGED <<due, lost>>

Flush(kind) ==
  LET denied == kind = "rw" /\ Known.mode \in ReadOnly IN
  /\ IsOpen /\ The(ent)[kind] = 1 /\ cached' = {Known}
  /\ \/ denied /\ failed' = TRUE /\ UNCHANGED <<ent, object, lost, due>>
     \/ ~denied /\ \E r \in RowFlush(The(ent), FALSE) : Flushes(r)
  /\ UNCHANGED <<nocopy, opening, change, left, wanted>>

Fsync ==
  /\ IsOpen /\ Handles(The(ent)) > 0 /\ cached' = {}
  /\ \E r \in RowFlush(The(ent), FALSE) : Flushes(r)
  /\ UNCHANGED <<nocopy, opening, change, left, wanted>>

\* The kernel has called flush before; only what that refused is unsaved.
Release(kind) ==
  LET e == [The(ent) EXCEPT ![kind] = 0] IN
  /\ IsOpen /\ The(ent)[kind] = 1
  /\ e.is_modify /\ Handles(e) = 0 => failed
  /\ ent' = Closed(e, Held) /\ lost' = lost \cup Dropped(e, Held)
  /\ due' = due \ Dropped(e, Held)
  /\ cached' = IF kind = "rw" THEN {} ELSE cached
  /\ UNCHANGED <<nocopy, object, opening, change, left, wanted, failed>>

-----------------------------------------------------------------------------
(***************************************************************************)
(* A call that changes attributes, between its accesses to shared state.   *)
(***************************************************************************)
Goto(at, held, meta) ==
  change' = [change EXCEPT !.at = at, !.held = held, !.meta = meta]

\* The call has failed: what it was to set may be there or not.
Fail == lost' = lost \cup Touched(change.op) /\ UNCHANGED <<wanted, due>>

Succeed(more) ==
  /\ wanted' = Wanted(change.op)
  /\ lost' = (lost \ Replaced(change.op)) \cup more

Ask ==
  /\ ~Changing /\ left > 0 /\ left' = left - 1 /\ cached' = {Known}
  /\ \E op \in Calls :
       /\ Allowed(op, Known.xattr)
       /\ change' = [at |-> IF nocopy /\ op.kind = "plain" THEN "fetch" ELSE "find",
                     op |-> op, meta |-> Known, held |-> FALSE]
  /\ UNCHANGED <<nocopy, object, ent, opening, history>>

\* What the stat cache had when the object has been changed since: a flush does
\* not clear the cache, and the release of a handle that only reads neither.
Outdated(h) == {a \in Attr : h[a] # object[a]}

\* ExistOpen.  For a file nobody has open setxattr sets the attribute a second
\* time, and never creates one.
Find ==
  LET again == change.op.kind = "set" /\ change.op.flag = "create" IN
  /\ change.at = "find"
  /\ \/ IsOpen /\ Goto("merge", TRUE, change.meta) /\ UNCHANGED lost
     \/ /\ ~IsOpen /\ ~again /\ lost' = lost \cup Outdated(change.meta)
        /\ Goto("put", FALSE, Changed(change.op, change.meta, change.meta))
     \/ ~IsOpen /\ again /\ change' = Idle /\ UNCHANGED lost
  /\ UNCHANGED <<nocopy, object, cached, ent, opening, left, wanted, due, failed>>

\* MergeOrgMeta below, for the copy that is put only.
MergeIntoCopy ==
  LET e == The(ent)
      h == Changed(change.op, change.meta, e.orgmeta)
  IN
  /\ change.at = "merge" /\ ~e.pending /\ ~e.is_modify /\ e.upload = {}
  /\ Goto("put", TRUE, h)
  /\ lost' = lost \cup FromOld(change.op, change.meta, e.orgmeta)
  /\ UNCHANGED <<nocopy, object, cached, ent, opening, left, wanted, due, failed>>

\* MergeOrgMeta.  What is pending is put by the next upload, which there is
\* only if the file is modified; nothing else clears is_meta_pending.
MergeOrgMeta ==
  LET e       == The(ent)
      h       == Changed(change.op, change.meta, e.orgmeta)
      pending == e.pending \/ e.upload # {} \/ e.is_modify
      old     == FromOld(change.op, change.meta, e.orgmeta)
  IN
  /\ change.at = "merge"
  /\ ent' = {[e EXCEPT !.orgmeta = h, !.pending = pending]}
  /\ change.op.kind = "set" => Allowed(change.op, e.orgmeta.xattr)
  /\ IF pending
       THEN /\ Goto("close", TRUE, h)
            /\ Succeed(old \cup {a \in Touched(change.op) : ~e.is_modify})
            /\ due' = IF e.is_modify THEN due \cup Touched(change.op) ELSE due
       ELSE /\ Goto("put", TRUE, h) /\ lost' = lost \cup old
            /\ UNCHANGED <<wanted, due>>
  /\ UNCHANGED <<nocopy, object, cached, opening, left, failed>>

\* setxattr gives up, after SetXattr with an empty value.
MergeRefused ==
  LET e == The(ent) IN
  /\ change.at = "merge" /\ change.op.kind = "set" /\ ~Allowed(change.op, e.orgmeta.xattr)
  /\ ent' = {[e EXCEPT !.orgmeta.xattr = IF @ = {} THEN {{}} ELSE @]}
  /\ change' = [change EXCEPT !.at = "close"]
  /\ UNCHANGED <<nocopy, object, cached, opening, left, history>>

\* put_headers.  A file that was opened since ExistOpen keeps its headers.
Put ==
  LET opened == ~change.held /\ IsOpen IN
  /\ change.at = "put" /\ cached' = {Known}
  /\ \/ /\ object' = Sent(change.meta) /\ Goto("clear", change.held, change.meta)
        /\ Succeed(Overtaken(Touched(change.op)) \cup {a \in Touched(change.op) : opened})
        /\ UNCHANGED due
     \/ /\ object' \in {object, Sent(change.meta)} /\ Goto("close", change.held, change.meta)
        /\ Fail
  /\ UNCHANGED <<nocopy, ent, opening, left, failed>>

\* get_local_fent of a mount with nocopyapi: OpenAndLoadAll clears is_modify,
\* as the upload is forced.
Fetch ==
  /\ change.at = "fetch" /\ cached' = {Known}
  /\ lost' = IF IsOpen THEN lost ELSE lost \cup Outdated(Known)
  /\ LET e == IF IsOpen THEN The(ent) ELSE Opened(Known) IN
     \/ ent' = {[e EXCEPT !.is_modify = FALSE]} /\ Goto("set", TRUE, change.meta)
     \/ ent' = {e} /\ Goto("close", TRUE, change.meta)
     \/ ~IsOpen /\ UNCHANGED ent /\ change' = Idle
  /\ UNCHANGED <<nocopy, object, opening, left, wanted, due, failed>>

\* SetMode, SetUId and SetGId, SetMtime.
SetAttr ==
  /\ change.at = "set" /\ Goto("force", TRUE, change.meta)
  /\ ent' = {[The(ent) EXCEPT !.orgmeta = Changed(change.op, change.meta, @)]}
  /\ UNCHANGED <<nocopy, object, cached, opening, left, history>>

\* Flush(true).  An upload without space puts the headers it began with; a
\* failed one leaves the file unmodified.
ForceFlush ==
  LET op   == change.op
      late == {a \in Touched(op) : The(ent).upload # {} /\ ~The(ent).pending}
  IN
  /\ change.at = "force"
  /\ \E r \in RowFlush(The(ent), TRUE) :
       /\ ent' = {r.ent} /\ object' = r.object /\ due' = {}
       /\ \/ /\ r.ok /\ Goto("clear", TRUE, change.meta)
             /\ Succeed(late \cup (Touched(op) \ Replaced(op))
                        \cup Overtaken(due \cup Touched(op)))
          \/ /\ ~r.ok /\ Goto("close", TRUE, change.meta)
             /\ lost' = lost \cup due \cup Touched(op) /\ UNCHANGED wanted
  /\ UNCHANGED <<nocopy, cached, opening, left, failed>>

\* DelStat after a success, and Close.
Return ==
  /\ change.at \in {"clear", "close"} /\ change' = Idle
  /\ cached' = IF change.at = "clear" THEN {} ELSE cached
  /\ IF change.held
       THEN /\ ent' = Closed(The(ent), FALSE)
            /\ lost' = lost \cup Dropped(The(ent), FALSE)
            /\ due' = due \ Dropped(The(ent), FALSE)
       ELSE UNCHANGED <<ent, lost, due>>
  /\ UNCHANGED <<nocopy, object, opening, left, wanted, failed>>

-----------------------------------------------------------------------------
Change == \/ Ask \/ Find \/ MergeOrgMeta \/ MergeRefused \/ Put
          \/ Fetch \/ SetAttr \/ ForceFlush \/ Return

File == \/ Lookup \/ Evict \/ OpenAsk \/ Write \/ ReadHole \/ Fsync
        \/ \E kind \in {"ro", "rw"} : OpenEnter(kind) \/ Flush(kind) \/ Release(kind)

Next == Change \/ File

Spec == Init /\ [][Next]_vars

-----------------------------------------------------------------------------
(***************************************************************************)
(* Properties.                                                             *)
(***************************************************************************)

\* Every variable has its type; a call holds a file only if it is open, and an
\* open file has a user.
TypeOK ==
  /\ nocopy \in BOOLEAN /\ object \in Headers
  /\ IsOptional(cached, Headers) /\ IsOptional(opening, Headers)
  /\ IsOptional(ent, Entity) /\ left \in 0 .. MaxChanges
  /\ IsOpen => IsOptional(The(ent).upload, Headers)
  /\ IsOptional(object.xattr, SUBSET Name)
  /\ \/ change = Idle
     \/ change \in
          [at : {"find", "merge", "put", "fetch", "set", "force", "clear", "close"},
           op : Op, meta : Headers, held : BOOLEAN]
  /\ Held => IsOpen
  /\ IsOpen => Held \/ Handles(The(ent)) > 0
  /\ wanted \in [mode : Value, mtime : Value, uid : Value, gid : Value, xattr : SUBSET Name]
  /\ lost \subseteq Attr /\ due \subseteq Attr /\ failed \in BOOLEAN

\* Attributes that are neither lost nor being changed.
Settled == Attr \ (lost \cup (IF Changing THEN Touched(change.op) ELSE {}))

Agree(h, a) == IF a = "xattr" THEN Names(h.xattr) = wanted.xattr ELSE h[a] = wanted[a]

\* What a change that returned 0 has set is in the object (put_headers), or
\* waits for the upload of a file that is open and modified (MergeOrgMeta,
\* UploadPendingMeta).
ChangesAreKept ==
  /\ \A a \in Settled \ due : Agree(object, a)
  /\ Settled \cap due # {} =>
       IsOpen /\ (The(ent).is_modify \/ change.at \in {"set", "force"})

\* The headers of an open file, which its next upload puts, are those the
\* changes have set: no upload takes a change back (FdEntity::orgmeta).
OpenFileAgrees == IsOpen => \A a \in Settled : Agree(The(ent).orgmeta, a)
=============================================================================
