------------------------------ MODULE StatCache ------------------------------
(***************************************************************************)
(* The cache of file attributes: class StatCache (cache.cpp), with         *)
(* get_object_attribute and the other handlers of s3fs.cpp that fill it    *)
(* and clear it from several threads.  stat_cache_lock makes each section  *)
(* atomic, but AddStat has three sections, a lookup asks the server        *)
(* between two of them, and a change of an object and the DelStat that     *)
(* follows it are two steps.                                               *)
(*                                                                         *)
(* A name is a path without a slash at its end; it is cached under itself  *)
(* (a file) or with the slash (a directory, which the bucket may hold as   *)
(* "name/", as "name_$folder$", or only as a prefix of other objects).     *)
(* Attributes are a form and a version: the number of changes made so far. *)
(* Dates are left out: which entry is the oldest and whether one has       *)
(* expired is any.  Left out too: an object that is a directory by its     *)
(* attributes alone, and CacheSize = 0, which switches the cache off.      *)
(*                                                                         *)
(* doubt and begin are history.  An entry is in doubt when the code lets   *)
(* it be stale: its lookup overlapped a change, or met an error it takes   *)
(* for absence, or a change came after it that no DelStat follows.         *)
(***************************************************************************)
EXTENDS Integers, Sequences, FiniteSets

CONSTANTS
  Thread, Name,
  CacheSize,      \* max_stat_cache_size
  CacheNoObject,  \* enable_noobj_cache
  Expires,        \* stat_cache_expire is given
  Failing,        \* the names whose requests can end in an error
  MaxChanges,     \* bound: changes of a name
  Fixed,          \* bound: names that are files all the time
  NoName, NoEntry

ASSUME StatCacheAssumption ==
  /\ Fixed \subseteq Name /\ Failing \subseteq Name /\ CacheSize \in Nat \ {0} /\ MaxChanges \in Nat
  /\ CacheNoObject \in BOOLEAN /\ Expires \in BOOLEAN

VARIABLES
  bucket,         \* [Name -> the attributes of what the bucket holds]
  cache,          \* [Key -> an entry, or NoEntry]
  call,           \* [Thread -> the handler it runs]
  alone,          \* history: the threads that have seen no other change the
                  \* cache since the first section of their AddStat
  raced           \* history: a thread that was not alone stored its entry

vars == <<bucket, cache, call, alone, raced>>

-----------------------------------------------------------------------------
Version == 0 .. MaxChanges
Attr    == [form : {"none", "file", "dir", "folder", "prefix"}, version : Version]

Key   == Name \X {"plain", "slash"}
Entry == [attr : Attr, grown : BOOLEAN, doubt : BOOLEAN]

\* The key under which a lookup files what it found.
KeyOf(n, attr) == <<n, IF attr.form \in {"none", "file"} THEN "plain" ELSE "slash">>

Cached == {k \in Key : cache[k] # NoEntry}

\* GetStat with overcheck: "name/" first, then "name".
Entries(n) == IF <<n, "slash">> \in Cached THEN {<<n, "slash">>}
              ELSE Cached \cap {<<n, "plain">>}

\* DelStat below, removing only the form it is given.
DelStatOneForm(n) == [cache EXCEPT ![<<n, "plain">>] = NoEntry]

\* StatCache::DelStat removes both forms of the name.
DelStat(n) == [k \in Key |-> IF k[1] = n THEN NoEntry ELSE cache[k]]

-----------------------------------------------------------------------------
(***************************************************************************)
(* Handlers are sequences of phases; at is the place within one.           *)
(***************************************************************************)
Program == [
  getattr |-> <<"look">>,
  open    |-> <<"forget", "look", "look">>,
  readdir |-> <<"list", "fill">>,
  create  |-> <<"put", "forget">>,
  mkdir   |-> <<"putdir", "forget">>,
  set     |-> <<"put", "forget">>,
  save    |-> <<"grow", "put", "forget">>,
  unlink  |-> <<"delete", "forget">>,
  rmdir   |-> <<"delete", "forget", "deletefolder">>,
  rebuild |-> <<"deletefolder", "forget", "putdir">>]

Requests == {"put", "putdir", "delete", "deletefolder"}
Changes  == {op \in DOMAIN Program : Program[op][1] \in Requests \cup {"grow"}}

Places == {"start", "noobj", "head", "headdir", "headfolder", "headlist", "one",
           "add", "delete", "room", "store", "reget", "drop"}

Call == [op : DOMAIN Program \cup {"idle"},
         todo : {<<>>} \cup UNION {{SubSeq(Program[op], i, Len(Program[op])) :
                   i \in 1 .. Len(Program[op])} : op \in DOMAIN Program},
         at : Places, then : Places \cup {"end"}, name : Name \cup {NoName},
         attr : Attr, doubt : BOOLEAN, begin : Version]

Nothing == [form |-> "none", version |-> 0]

Idle == [op |-> "idle", todo |-> <<>>, at |-> "start", then |-> "end",
         name |-> NoName, attr |-> Nothing, doubt |-> FALSE, begin |-> 0]

Doing(t, phase, at) ==
  call[t].todo # <<>> /\ Head(call[t].todo) = phase /\ call[t].at = at

Turn(t, c) == call' = [call EXCEPT ![t] = c]

\* The phase is over.
Proceed(c) == IF Tail(c.todo) = <<>> THEN Idle
              ELSE [c EXCEPT !.todo = Tail(@), !.at = "start", !.then = "end"]

At(c, place) == IF place = "end" THEN Proceed(c) ELSE [c EXCEPT !.at = place]

\* A section of StatCache::GetStat finds no use for what it found: another
\* section deletes it before the lookup goes on.
Drop(c, place) == [c EXCEPT !.at = "drop", !.then = place]

-----------------------------------------------------------------------------
(***************************************************************************)
(* get_object_attribute.                                                   *)
(***************************************************************************)
\* StatCache::GetStat, at first.
Get(t) ==
  LET c == call[t] found == {k \in Entries(c.name) : cache[k].attr.form # "none"} IN
  /\ Doing(t, "look", "start")
  /\ \/ \E k \in found :
          Turn(t, Proceed([c EXCEPT !.attr = cache[k].attr, !.doubt = cache[k].doubt]))
     \/ found = {} /\ Turn(t, At([c EXCEPT !.attr = Nothing, !.doubt = FALSE], "noobj"))
     \/ /\ Expires /\ Entries(c.name) # {}
        /\ Turn(t, Drop([c EXCEPT !.attr = Nothing, !.doubt = FALSE], "noobj"))
  /\ UNCHANGED <<bucket, cache>>

\* StatCache::IsNoObjectCache
AskNoObject(t) ==
  LET c == call[t]
      found == {k \in Entries(c.name) : CacheNoObject /\ cache[k].attr.form = "none"} IN
  /\ Doing(t, "look", "noobj")
  /\ \/ \E k \in found :
          Turn(t, Proceed([c EXCEPT !.attr = cache[k].attr, !.doubt = cache[k].doubt]))
     \/ found = {} /\ Turn(t, At(c, "head"))
     \/ Expires /\ CacheNoObject /\ Entries(c.name) # {} /\ Turn(t, Drop(c, "head"))
  /\ UNCHANGED <<bucket, cache>>

Dropped(t) ==
  /\ call[t].at = "drop" /\ cache' = DelStat(call[t].name)
  /\ Turn(t, At(call[t], call[t].then)) /\ bucket' = bucket

\* The requests, one after the other: each asks for one form of the name, and
\* an error counts as an answer that there is none.
Asks == [head |-> "file", headdir |-> "dir", headfolder |-> "folder", headlist |-> "prefix"]
AsksNext == [head |-> "headdir", headdir |-> "headfolder",
             headfolder |-> "headlist", headlist |-> "add"]

Ask(t) ==
  LET c == call[t] now == bucket[c.name]
      missed == IF c.at = "head" THEN [now EXCEPT !.form = "none"] ELSE c.attr
  IN /\ \E at \in DOMAIN Asks : Doing(t, "look", at)
     /\ \/ now.form = Asks[c.at] /\ Turn(t, At([c EXCEPT !.attr = now], "add"))
        \/ /\ now.form # Asks[c.at]
           /\ Turn(t, At([c EXCEPT !.attr = missed], AsksNext[c.at]))
        \/ /\ c.name \in Failing
           /\ Turn(t, At([c EXCEPT !.attr = missed, !.doubt = TRUE], AsksNext[c.at]))
     /\ UNCHANGED <<bucket, cache>>

\* Add below, without the test for room.
AddWithoutRoom(t) ==
  LET c == call[t] IN
  /\ c.at = "add"
  /\ Turn(t, CASE c.attr.form = "none" /\ ~CacheNoObject -> Proceed(c)
               [] KeyOf(c.name, c.attr) \in Cached -> At(c, "delete")
               [] OTHER -> At(c, "store"))
  /\ UNCHANGED <<bucket, cache>>

\* AddStat or AddNoObjectCache, the first section: is the key there, and if
\* not, is there room?
Add(t) ==
  LET c == call[t] IN
  /\ c.at = "add"
  /\ Turn(t, CASE c.attr.form = "none" /\ ~CacheNoObject -> Proceed(c)
               [] KeyOf(c.name, c.attr) \in Cached -> At(c, "delete")
               [] Cardinality(Cached) > CacheSize -> At(c, "room")
               [] OTHER -> At(c, "store"))
  /\ UNCHANGED <<bucket, cache>>

\* DelStat, in a section of its own.
AddDeletes(t) ==
  /\ call[t].at = "delete" /\ cache' = DelStat(call[t].name)
  /\ Turn(t, At(call[t], "store")) /\ bucket' = bucket

\* StatCache::TruncateCache deletes the oldest entry.
MakeRoom(t) ==
  /\ call[t].at = "room" /\ Turn(t, At(call[t], "store")) /\ bucket' = bucket
  /\ \/ Cached = {} /\ cache' = cache
     \/ \E k \in Cached : cache' = [cache EXCEPT ![k] = NoEntry]

\* The last section.
Store(t) ==
  LET c == call[t] IN
  /\ c.at = "store"
  /\ cache' = [cache EXCEPT ![KeyOf(c.name, c.attr)] =
                 [attr |-> c.attr, grown |-> FALSE, doubt |-> c.doubt]]
  /\ Turn(t, IF c.attr.form = "none" THEN Proceed(c) ELSE At(c, "reget"))
  /\ bucket' = bucket

\* GetStat again: what is there now is returned, whoever has put it there.
GetAgain(t) ==
  LET c == call[t] found == {k \in Entries(c.name) : cache[k].attr.form # "none"} IN
  /\ call[t].at = "reget"
  /\ \/ \E k \in found :
          Turn(t, Proceed([c EXCEPT !.attr = cache[k].attr, !.doubt = cache[k].doubt]))
     \/ found = {} /\ Turn(t, Proceed(c))
     \/ Expires /\ Entries(c.name) # {} /\ Turn(t, Drop(c, "end"))
  /\ UNCHANGED <<bucket, cache>>

-----------------------------------------------------------------------------
(***************************************************************************)
(* s3fs_readdir: list_bucket, and then for every name HasStat with the     *)
(* ETag of the list and, if that is another or there is no entry, one HEAD *)
(* of the form listed.                                                     *)
(***************************************************************************)
List(t) ==
  LET c == call[t] now == bucket[c.name] IN
  /\ Doing(t, "list", "start")
  /\ Turn(t, IF now.form = "none" THEN Idle ELSE Proceed([c EXCEPT !.attr = now]))
  /\ UNCHANGED <<bucket, cache>>

\* Another version may have the same ETag; a directory is listed without one.
Has(t) ==
  LET c == call[t]
      entries == IF c.attr.form = "file" THEN Entries(c.name)
                 ELSE Cached \cap {<<c.name, "slash">>}
      found == {k \in entries : cache[k].attr.form # "none"}
      other == {k \in found : c.attr.form = "file" /\ cache[k].attr # c.attr}
  IN /\ Doing(t, "fill", "start")
     /\ \/ found # {} /\ Turn(t, At(c, "reget"))
        \/ found = {} /\ Turn(t, At(c, "one"))
        \/ (other # {} \/ (Expires /\ entries # {})) /\ Turn(t, Drop(c, "one"))
     /\ UNCHANGED <<bucket, cache>>

\* A batch with a request that fails caches nothing.
HeadOne(t) ==
  LET c == call[t]
      now == bucket[c.name]
      there == now.form = c.attr.form /\ now.form \in {"file", "dir"}
  IN /\ Doing(t, "fill", "one")
     /\ \/ there /\ Turn(t, At([c EXCEPT !.attr = now, !.doubt = FALSE], "add"))
        \/ (c.name \in Failing \/ ~there) /\ Turn(t, At(c, "reget"))
     /\ UNCHANGED <<bucket, cache>>

-----------------------------------------------------------------------------
(***************************************************************************)
(* The handlers that change objects.                                       *)
(***************************************************************************)
\* Forget below, leaving the entries of a name that is only opened.
ForgetChanged(t) ==
  /\ Doing(t, "forget", "start")
  /\ cache' = IF call[t].op = "open" THEN cache ELSE DelStat(call[t].name)
  /\ Turn(t, Proceed(call[t])) /\ bucket' = bucket

Forget(t) ==
  /\ Doing(t, "forget", "start") /\ cache' = DelStat(call[t].name)
  /\ Turn(t, Proceed(call[t])) /\ bucket' = bucket

\* StatCache::IncSize, from FdEntity::Write.
Grow(t) ==
  LET k == <<call[t].name, "plain">> IN
  /\ Doing(t, "grow", "start")
  /\ cache' = IF k \in Cached THEN [cache EXCEPT ![k].grown = TRUE] ELSE cache
  /\ Turn(t, Proceed(call[t])) /\ bucket' = bucket

\* What a request makes of an object of this form.
Becomes(phase, form) ==
  CASE phase = "put"          -> IF form = "dir" THEN "dir" ELSE "file"
    [] phase = "putdir"       -> "dir"
    [] phase = "delete"       -> IF form = "folder" THEN form ELSE "none"
    [] phase = "deletefolder" -> IF form = "folder" THEN "none" ELSE form

\* A lookup that has asked already.
Looking(u, n) ==
  call[u].name = n /\ call[u].at \notin {"start", "noobj", "head", "one", "drop"}

Doubted(entries, n) ==
  [k \in Key |-> IF k[1] = n /\ entries[k] # NoEntry
                 THEN [entries[k] EXCEPT !.doubt = TRUE] ELSE entries[k]]

\* These handlers go on after a request that ends in an error (which may have
\* been carried out all the same); the others return.
GoesOn(op) == op \in {"create", "mkdir", "save", "unlink", "rmdir"}

Forgets(todo) == \E i \in DOMAIN todo : todo[i] = "forget"

Request(t) ==
  LET c == call[t]
      now == bucket[c.name]
      form == Becomes(Head(c.todo), now.form)
      changes == form # now.form \/ Head(c.todo) \in {"put", "putdir"}
  IN /\ \E phase \in Requests : Doing(t, phase, "start")
     /\ \E done, ok \in BOOLEAN :
          /\ ok \/ c.name \in Failing
          /\ ok => done
          /\ LET after == IF ok \/ GoesOn(c.op) THEN Proceed(c) ELSE Idle IN
             IF done /\ changes
               THEN /\ bucket' = [bucket EXCEPT ![c.name] =
                         [form |-> form, version |-> now.version + 1]]
                    /\ call' = [u \in Thread |->
                         IF u = t THEN after
                         ELSE [call[u] EXCEPT !.doubt = @ \/ Looking(u, c.name)]]
                    /\ cache' = IF Forgets(after.todo) THEN cache
                                ELSE Doubted(cache, c.name)
               ELSE Turn(t, after) /\ UNCHANGED <<bucket, cache>>

-----------------------------------------------------------------------------
(***************************************************************************)
(* Calls.  By the kernel's locks (external) the handlers that make or      *)
(* remove a name exclude the other changes of it.  The lookups a handler   *)
(* begins with are calls of getattr.                                       *)
(***************************************************************************)
Forms == [getattr |-> {"none", "file", "dir", "folder", "prefix"},
          open    |-> {"file"}, readdir |-> {"file", "dir", "folder", "prefix"},
          create  |-> {"none"}, mkdir |-> {"none"},
          set     |-> {"none", "file", "dir"}, save |-> {"file"},
          unlink  |-> {"file"}, rmdir |-> {"dir", "folder"},
          rebuild |-> {"folder", "prefix"}]

\* bound
Room(op, n) ==
  LET requests(p) == Cardinality({i \in DOMAIN p : p[i] \in Requests}) IN
  bucket[n].version + requests(Program[op])
    + (IF \E t \in Thread : call[t].name = n /\ call[t].op \in Changes THEN 1 ELSE 0)
    <= MaxChanges

CallHandler(t, op, n) ==
  /\ n \in Fixed => op = "getattr"
  /\ call[t] = Idle /\ bucket[n].form \in Forms[op] /\ Room(op, n)
  /\ \A u \in Thread :
       call[u].name = n /\ call[u].op \in Changes /\ op \in Changes =>
         {op, call[u].op} \subseteq {"save", "set"}
  /\ Turn(t, [Idle EXCEPT !.op = op, !.todo = Program[op], !.name = n,
                          !.begin = IF op = "open" THEN bucket[n].version ELSE 0])
  /\ UNCHANGED <<bucket, cache>>

Calls(t) == \E op \in DOMAIN Program, n \in Name : CallHandler(t, op, n)

Runs(t) ==
  \/ Get(t) \/ AskNoObject(t) \/ Dropped(t) \/ Ask(t)
  \/ Add(t) \/ AddDeletes(t) \/ MakeRoom(t) \/ Store(t) \/ GetAgain(t)
  \/ List(t) \/ Has(t) \/ HeadOne(t)
  \/ Forget(t) \/ Grow(t) \/ Request(t)

Init ==
  /\ bucket \in {b \in [Name -> {a \in Attr : a.version = 0}] :
                  \A n \in Fixed : b[n].form = "file"}
  /\ cache = [k \in Key |-> NoEntry] /\ call = [t \in Thread |-> Idle]
  /\ alone = Thread /\ raced = FALSE

Adding(c) == c.at \in {"delete", "room", "store"}

Watch(t) ==
  /\ alone' = {u \in Thread : \/ ~Adding(call'[u])
                             \/ (u \in alone /\ (u = t \/ cache' = cache))}
  /\ raced' = (raced \/ (call[t].at = "store" /\ t \notin alone))

Next == \E t \in Thread : (Calls(t) \/ Runs(t)) /\ Watch(t)

Spec == Init /\ [][Next]_vars

-----------------------------------------------------------------------------
(***************************************************************************)
(* Properties.                                                             *)
(***************************************************************************)
\* A handler that changes the name, and will delete its entries, is between
\* the two.
Changing(n) ==
  \E t \in Thread :
    LET c == call[t] IN
    c.name = n /\ c.op \in Changes /\ c.todo # Program[c.op] /\ Forgets(c.todo)

\* A cached entry that is not in doubt is what the bucket holds, filed under
\* the right key, except between a change and the DelStat that follows it: no
\* handler leaves an entry behind, of this name or of its other form, and no
\* interleaving of the sections of AddStat brings an old one back.
CachedIsCurrent ==
  \A k \in Cached :
    LET e == cache[k] IN
    ~e.doubt /\ ~Changing(k[1]) =>
      e.attr = bucket[k[1]] /\ k = KeyOf(k[1], e.attr) /\ ~e.grown

\* s3fs_open clears the cached attributes to "read fresh stat": what its first
\* lookup returns is not older than the object was when it was called, unless
\* it is in doubt, which a lookup of another thread that asked before a change
\* makes it by storing the old attributes between the two.
OpenSeesCurrentObject ==
  \A t \in Thread :
    LET c == call[t] IN
    c.op = "open" /\ c.todo = <<"look">> /\ c.at = "start" /\ ~c.doubt =>
      c.attr.version >= c.begin

\* The test of AddStat and AddNoObjectCache lets the cache hold one entry more
\* than max_stat_cache_size; only adds that another thread disturbs between
\* their sections can take it further.
SizeIsBounded == Cardinality(Cached) > CacheSize + 1 => raced
=============================================================================
