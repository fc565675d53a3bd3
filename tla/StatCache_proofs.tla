--------------------------- MODULE StatCache_proofs ---------------------------
(***************************************************************************)
(* Theorems about StatCache, for any number of threads, names, entries and *)
(* changes: what the cache holds is current or in doubt, s3fs_open finds   *)
(* no attributes older than its call, and the cache holds one entry more   *)
(* than max_stat_cache_size at most, unless adds disturb each other.       *)
(***************************************************************************)
EXTENDS StatCache, TLAPS, FiniteSetTheorems

USE StatCacheAssumption

-----------------------------------------------------------------------------
(***************************************************************************)
(* The inductive invariant.                                                *)
(***************************************************************************)
\* What a handler has left to do, from each of its phases on.
Stages == [
  getattr |-> {<<"look">>},
  open    |-> {<<"forget", "look", "look">>, <<"look", "look">>, <<"look">>},
  readdir |-> {<<"list", "fill">>, <<"fill">>},
  create  |-> {<<"put", "forget">>, <<"forget">>},
  mkdir   |-> {<<"putdir", "forget">>, <<"forget">>},
  set     |-> {<<"put", "forget">>, <<"forget">>},
  save    |-> {<<"grow", "put", "forget">>, <<"put", "forget">>, <<"forget">>},
  unlink  |-> {<<"delete", "forget">>, <<"forget">>},
  rmdir   |-> {<<"delete", "forget", "deletefolder">>, <<"forget", "deletefolder">>,
               <<"deletefolder">>},
  rebuild |-> {<<"deletefolder", "forget", "putdir">>, <<"forget", "putdir">>, <<"putdir">>}]

\* What is left may also be nothing.
Todo == {<<>>} \cup UNION {Stages[op] : op \in DOMAIN Program}

\* Attributes without the bound on the number of changes.
Attributes == [form : {"none", "file", "dir", "folder", "prefix"}, version : Nat]

\* What the cache holds under a key, and what a thread runs.
CachedEntry == [attr : Attributes, grown : BOOLEAN, doubt : BOOLEAN]

Record == [op : DOMAIN Program \cup {"idle"}, todo : Todo,
           at : Places, then : Places \cup {"end"}, name : Name \cup {NoName},
           attr : Attributes, doubt : BOOLEAN, begin : Nat]

\* Only lookups have sections between which others run.
StageOK(c) ==
  /\ IF c.op = "idle" THEN c.todo = <<>> /\ c.at = "start"
     ELSE c.todo \in Stages[c.op] /\ c.name \in Name
  /\ c.at # "start" => c.todo \in {<<"look">>, <<"look", "look">>, <<"fill">>}
  /\ c.at = "drop" => c.then \in {"noobj", "head", "one", "end"}

\* The types, and where each handler may be.
TypeInv ==
  /\ bucket \in [Name -> Attributes] /\ cache \in [Key -> CachedEntry \cup {NoEntry}]
  /\ call \in [Thread -> Record] /\ \A t \in Thread : StageOK(call[t])
  /\ alone \subseteq Thread /\ raced \in BOOLEAN

\* The forms a lookup has asked for without an answer.
Asked == [headdir |-> {"file"}, headfolder |-> {"file", "dir"},
          headlist |-> {"file", "dir", "folder"}]

\* A lookup that is not in doubt knows what the bucket holds now.
Knows(c, now) ==
  /\ c.at \in DOMAIN Asked => c.attr = [now EXCEPT !.form = "none"] /\ now.form \notin Asked[c.at]
  /\ c.at \in {"add", "delete", "room", "store"} => c.attr = now

\* So does every lookup.
LookOK == \A t \in Thread : ~call[t].doubt /\ call[t].op # "idle" => Knows(call[t], bucket[call[t].name])

\* A lookup is about to return, or has returned, the attributes it holds.
Returns(c) == c.at = "reget" \/ (c.at = "drop" /\ c.then = "end")
              \/ (c.todo = <<"look">> /\ c.at = "start")

\* After its DelStat, s3fs_open can find only entries that are in doubt or not
\* older than the object was when it was called.
OpenOK ==
  \A t \in Thread :
    LET c == call[t] IN
    c.op = "open" =>
      /\ c.begin <= bucket[c.name].version
      /\ c.todo # Program["open"] =>
           \A k \in Cached : k[1] = c.name /\ ~cache[k].doubt => c.begin <= cache[k].attr.version
      /\ c.todo # Program["open"] /\ Returns(c) /\ ~c.doubt => c.begin <= c.attr.version

\* An add that no other thread has disturbed replaces an entry or finds room.
AloneOK(t) ==
  LET k == KeyOf(call[t].name, call[t].attr) IN
  /\ call[t].at = "delete" => k \in Cached
  /\ call[t].at = "store" => k \in Cached \/ Cardinality(Cached) <= CacheSize

\* The cache is as small as the test for room makes it, unless adds raced.
SizeOK ==
  /\ IsFiniteSet(Cached) /\ \A t \in Thread : ~Adding(call[t]) => t \in alone
  /\ ~raced => /\ Cardinality(Cached) <= CacheSize + 1
               /\ \A t \in alone : AloneOK(t)

\* The inductive invariant.
IInv == TypeInv /\ LookOK /\ CachedIsCurrent /\ OpenOK /\ SizeOK

-----------------------------------------------------------------------------
(***************************************************************************)
(* Operators of the model.                                                 *)
(***************************************************************************)
\* The handlers and what they have left to do.
LEMMA Handlers ==
  /\ DOMAIN Program = {"getattr", "open", "readdir", "create", "mkdir", "set", "save",
                       "unlink", "rmdir", "rebuild"}
  /\ Changes = {"create", "mkdir", "set", "save", "unlink", "rmdir", "rebuild"}
  /\ Program["open"] = <<"forget", "look", "look">>
BY DEF Program, Changes, Requests

\* Every list of phases that is left is one of these.
LEMMA Phases ==
  ASSUME NEW c \in Record, StageOK(c), c.op # "idle"
  PROVE  \/ c.op = "getattr" /\ c.todo = <<"look">>
         \/ c.op = "open" /\ c.todo = <<"forget", "look", "look">>
         \/ c.op = "open" /\ c.todo = <<"look", "look">>
         \/ c.op = "open" /\ c.todo = <<"look">>
         \/ c.op = "readdir" /\ c.todo = <<"list", "fill">>
         \/ c.op = "readdir" /\ c.todo = <<"fill">>
         \/ c.op \in {"create", "set"} /\ c.todo = <<"put", "forget">>
         \/ c.op \in {"create", "set", "mkdir", "save", "unlink"} /\ c.todo = <<"forget">>
         \/ c.op = "mkdir" /\ c.todo = <<"putdir", "forget">>
         \/ c.op = "save" /\ c.todo = <<"grow", "put", "forget">>
         \/ c.op = "save" /\ c.todo = <<"put", "forget">>
         \/ c.op = "unlink" /\ c.todo = <<"delete", "forget">>
         \/ c.op = "rmdir" /\ c.todo = <<"delete", "forget", "deletefolder">>
         \/ c.op = "rmdir" /\ c.todo = <<"forget", "deletefolder">>
         \/ c.op = "rmdir" /\ c.todo = <<"deletefolder">>
         \/ c.op = "rebuild" /\ c.todo = <<"deletefolder", "forget", "putdir">>
         \/ c.op = "rebuild" /\ c.todo = <<"forget", "putdir">>
         \/ c.op = "rebuild" /\ c.todo = <<"putdir">>
<1>1. c.op \in DOMAIN Program /\ c.todo \in Stages[c.op]
  BY DEF Record, StageOK
<1>. QED BY <1>1, Handlers DEF Stages

\* A handler that changes its name, and will delete its entries, is between
\* the two.
Between(c) == c.op \in Changes /\ c.todo # Program[c.op] /\ Forgets(c.todo)

\* Changing in these terms.
LEMMA ChangingIs ==
  ASSUME NEW n
  PROVE  Changing(n) <=> \E t \in Thread : call[t].name = n /\ Between(call[t])
BY DEF Changing, Between

\* Which of the lists are those of a handler in between.
LEMMA BetweenIs ==
  ASSUME NEW c \in Record, StageOK(c), c.op # "idle"
  PROVE  Between(c) <=>
           \/ c.op \in {"create", "set", "mkdir", "save", "unlink"} /\ c.todo = <<"forget">>
           \/ c.op = "save" /\ c.todo = <<"put", "forget">>
           \/ c.op = "rmdir" /\ c.todo = <<"forget", "deletefolder">>
           \/ c.op = "rebuild" /\ c.todo = <<"forget", "putdir">>
<1>1. /\ Program["create"] = <<"put", "forget">> /\ Program["mkdir"] = <<"putdir", "forget">>
      /\ Program["set"] = <<"put", "forget">> /\ Program["save"] = <<"grow", "put", "forget">>
      /\ Program["unlink"] = <<"delete", "forget">>
      /\ Program["rmdir"] = <<"delete", "forget", "deletefolder">>
      /\ Program["rebuild"] = <<"deletefolder", "forget", "putdir">>
  BY DEF Program
<1>2. /\ Forgets(<<"forget">>) /\ Forgets(<<"put", "forget">>)
      /\ Forgets(<<"forget", "deletefolder">>) /\ Forgets(<<"forget", "putdir">>)
      /\ ~Forgets(<<"deletefolder">>) /\ ~Forgets(<<"putdir">>)
  BY DEF Forgets
<1>. QED BY <1>1, <1>2, Phases, Handlers DEF Between

\* The call of a thread that does nothing.
LEMMA IdleIs ==
  /\ Idle \in Record /\ StageOK(Idle) /\ Idle.op = "idle" /\ Idle.at = "start"
  /\ Idle.todo = <<>> /\ Idle.doubt = FALSE /\ Idle.name = NoName
BY DEF Idle, Record, StageOK, Todo, Places, Attributes, Nothing

\* What a handler has left to do after a phase.
LEMMA Tails ==
  ASSUME NEW c \in Record, StageOK(c), c.op # "idle"
  PROVE  /\ c.todo # <<>> /\ Tail(c.todo) \in Todo /\ c.op \in DOMAIN Program
         /\ Tail(c.todo) # <<>> => Tail(c.todo) \in Stages[c.op]
<1>1. c.op \in DOMAIN Program
  BY DEF Record
<1>2. c.todo # <<>> /\ (Tail(c.todo) # <<>> => Tail(c.todo) \in Stages[c.op])
  <2>1. /\ Tail(<<"look">>) = <<>> /\ Tail(<<"forget", "look", "look">>) = <<"look", "look">>
        /\ Tail(<<"look", "look">>) = <<"look">> /\ Tail(<<"list", "fill">>) = <<"fill">>
        /\ Tail(<<"fill">>) = <<>> /\ Tail(<<"put", "forget">>) = <<"forget">>
        /\ Tail(<<"forget">>) = <<>> /\ Tail(<<"putdir", "forget">>) = <<"forget">>
        /\ Tail(<<"grow", "put", "forget">>) = <<"put", "forget">>
        /\ Tail(<<"delete", "forget">>) = <<"forget">>
        /\ Tail(<<"delete", "forget", "deletefolder">>) = <<"forget", "deletefolder">>
        /\ Tail(<<"forget", "deletefolder">>) = <<"deletefolder">>
        /\ Tail(<<"deletefolder">>) = <<>> /\ Tail(<<"putdir">>) = <<>>
        /\ Tail(<<"deletefolder", "forget", "putdir">>) = <<"forget", "putdir">>
        /\ Tail(<<"forget", "putdir">>) = <<"putdir">>
    OBVIOUS
  <2>2. \A x : <<x>> # <<>>
    OBVIOUS
  <2>3. \A x, y : <<x, y>> # <<>>
    OBVIOUS
  <2>4. \A x, y, z : <<x, y, z>> # <<>>
    OBVIOUS
  <2>5. c.todo # <<>>
    BY <2>2, <2>3, <2>4, Phases
  <2>6. /\ Stages["getattr"] = {<<"look">>}
        /\ Stages["open"] = {<<"forget", "look", "look">>, <<"look", "look">>, <<"look">>}
        /\ Stages["readdir"] = {<<"list", "fill">>, <<"fill">>}
        /\ \A op \in {"create", "mkdir", "set", "save", "unlink"} : <<"forget">> \in Stages[op]
        /\ <<"put", "forget">> \in Stages["save"]
        /\ {<<"forget", "deletefolder">>, <<"deletefolder">>} \subseteq Stages["rmdir"]
        /\ {<<"forget", "putdir">>, <<"putdir">>} \subseteq Stages["rebuild"]
    BY DEF Stages
  <2>7. Tail(c.todo) # <<>> => Tail(c.todo) \in Stages[c.op]
    BY <2>1, <2>6, Phases
  <2>. QED BY <2>5, <2>7
<1>. QED BY <1>1, <1>2 DEF Todo

\* A handler proceeds to its next phase, or is done.
LEMMA Proceeds ==
  ASSUME NEW c \in Record, StageOK(c), c.op # "idle"
  PROVE  /\ Proceed(c) \in Record /\ StageOK(Proceed(c)) /\ Proceed(c).at = "start"
         /\ Tail(c.todo) = <<>> => Proceed(c) = Idle
         /\ Tail(c.todo) # <<>> =>
              /\ Proceed(c).op = c.op /\ Proceed(c).todo = Tail(c.todo)
              /\ Proceed(c).name = c.name /\ Proceed(c).attr = c.attr
              /\ Proceed(c).doubt = c.doubt /\ Proceed(c).begin = c.begin
<1>1. CASE Tail(c.todo) = <<>>
  BY <1>1, IdleIs DEF Proceed
<1>2. CASE Tail(c.todo) # <<>>
  <2> DEFINE todo == Tail(c.todo)
             d == [c EXCEPT !.todo = todo, !.at = "start", !.then = "end"]
  <2>1. todo \in Todo /\ todo \in Stages[c.op]
    BY <1>2, Tails
  <2>2. "start" \in Places /\ "end" \in Places \cup {"end"}
    BY DEF Places
  <2>3. Proceed(c) = d
    BY <1>2 DEF Proceed
  <2> HIDE DEF todo
  <2>4. /\ d \in Record /\ d.todo = todo /\ d.at = "start" /\ d.op = c.op
        /\ d.name = c.name /\ d.attr = c.attr /\ d.doubt = c.doubt /\ d.begin = c.begin
    BY <2>1, <2>2 DEF Record
  <2> HIDE DEF d
  <2>5. StageOK(d)
    BY <2>1, <2>4 DEF StageOK
  <2>. QED BY <1>2, <2>3, <2>4, <2>5 DEF todo
<1>. QED BY <1>1, <1>2

\* What a lookup has found makes no difference to where it is.
LEMMA SameStage ==
  ASSUME NEW c \in Record, StageOK(c), NEW d \in Record, d.op = c.op, d.todo = c.todo,
         d.at = c.at, d.then = c.then, d.name = c.name
  PROVE  StageOK(d)
BY DEF StageOK

\* A lookup goes to its next section.
LEMMA GoesTo ==
  ASSUME NEW c \in Record, StageOK(c), NEW place \in Places,
         c.todo \in {<<"look">>, <<"look", "look">>, <<"fill">>}, place # "drop"
  PROVE  LET d == At(c, place) IN
         /\ d \in Record /\ StageOK(d) /\ d.at = place /\ d.attr = c.attr /\ d.doubt = c.doubt
         /\ d.op = c.op /\ d.todo = c.todo /\ d.name = c.name /\ d.begin = c.begin
<1> DEFINE d == [c EXCEPT !.at = place]
<1>1. /\ d \in Record /\ d.attr = c.attr /\ d.doubt = c.doubt /\ d.op = c.op /\ d.todo = c.todo
      /\ d.at = place /\ d.then = c.then /\ d.name = c.name /\ d.begin = c.begin
  BY DEF Record
<1>2. At(c, place) = d
  BY DEF At, Places
<1> HIDE DEF d
<1>3. c.op # "idle"
  <2>1. c.todo # <<>>
    OBVIOUS
  <2>. QED BY <2>1 DEF StageOK
<1>4. StageOK(d)
  BY <1>1, <1>3 DEF StageOK
<1>. QED BY <1>1, <1>2, <1>4

\* Another section deletes what it has found first.
LEMMA Drops ==
  ASSUME NEW c \in Record, StageOK(c), NEW place \in {"noobj", "head", "one", "end"},
         c.todo \in {<<"look">>, <<"look", "look">>, <<"fill">>}
  PROVE  LET d == Drop(c, place) IN
         /\ d \in Record /\ StageOK(d) /\ d.at = "drop" /\ d.then = place
         /\ d.attr = c.attr /\ d.doubt = c.doubt
         /\ d.op = c.op /\ d.todo = c.todo /\ d.name = c.name /\ d.begin = c.begin
<1> DEFINE d == [c EXCEPT !.at = "drop", !.then = place]
<1>1. "drop" \in Places /\ place \in Places \cup {"end"}
  BY DEF Places
<1>2. /\ d \in Record /\ d.attr = c.attr /\ d.doubt = c.doubt /\ d.op = c.op /\ d.todo = c.todo
      /\ d.at = "drop" /\ d.then = place /\ d.name = c.name /\ d.begin = c.begin
  BY <1>1 DEF Record
<1>3. Drop(c, place) = d
  BY DEF Drop
<1> HIDE DEF d
<1>4. c.op # "idle"
  BY DEF StageOK
<1>5. StageOK(d)
  BY <1>2, <1>4 DEF StageOK
<1>. QED BY <1>2, <1>3, <1>5

-----------------------------------------------------------------------------
(***************************************************************************)
(* Steps that add nothing to the cache.                                    *)
(***************************************************************************)
\* What s3fs_open has found is not older than its call.
Fresh(c) ==
  c.op = "open" /\ c.todo # Program["open"] /\ Returns(c) /\ ~c.doubt => c.begin <= c.attr.version

\* The thread takes a step within its handler, or ends it.
Moves(t) ==
  /\ call' \in [Thread -> Record] /\ \A u \in Thread : u # t => call'[u] = call[u]
  /\ StageOK(call'[t]) /\ call[t].op # "idle"
  /\ call'[t].op # "idle" =>
       call'[t].op = call[t].op /\ call'[t].name = call[t].name /\ call'[t].begin = call[t].begin

\* It takes entries from the cache at most, goes on to no section that it has
\* no ground for, and ends a change only when there are no entries left.
Shrinks(t) ==
  /\ Moves(t) /\ bucket' = bucket /\ call[t].at # "store"
  /\ cache' \in [Key -> CachedEntry \cup {NoEntry}]
  /\ \A k \in Key : cache'[k] \in {cache[k], NoEntry}
  /\ ~call'[t].doubt /\ call'[t].op # "idle" => Knows(call'[t], bucket[call'[t].name])
  /\ Fresh(call'[t])
  /\ Between(call[t]) \/ (call'[t].op = "open" /\ call[t].todo = Program["open"]) =>
       Between(call'[t]) \/ \A k \in Key : k[1] = call[t].name => cache'[k] = NoEntry
  /\ t \in alone /\ ~raced => AloneOK(t)'

\* What a cached key is.
LEMMA CachedIs ==
  ASSUME TypeInv
  PROVE  Cached \subseteq Key /\ \A k \in Cached : cache[k] \in CachedEntry
BY DEF TypeInv, Cached

\* What is left of the cache.
LEMMA ShrunkCached ==
  ASSUME TypeInv, NEW t \in Thread, Shrinks(t)
  PROVE  /\ Cached' \subseteq Cached
         /\ \A k \in Cached' : cache'[k] = cache[k]
BY DEF TypeInv, Shrinks, Cached

\* The invariant after such a step, conjunct by conjunct: the types,
LEMMA ShrinkTypes ==
  ASSUME TypeInv, NEW t \in Thread, Shrinks(t), Watch(t) PROVE TypeInv'
BY DEF TypeInv, Shrinks, Moves, Watch

\* what the lookups know,
LEMMA ShrinkLook ==
  ASSUME TypeInv, LookOK, NEW t \in Thread, Shrinks(t) PROVE LookOK'
<1> SUFFICES ASSUME NEW u \in Thread, ~call'[u].doubt, call'[u].op # "idle"
             PROVE  Knows(call'[u], bucket'[call'[u].name])
  BY DEF LookOK
<1>1. CASE u = t
  BY <1>1 DEF Shrinks
<1>2. CASE u # t
  BY <1>2 DEF Shrinks, Moves, LookOK
<1>. QED BY <1>1, <1>2

\* the entries,
LEMMA ShrinkCurrent ==
  ASSUME TypeInv, CachedIsCurrent, NEW t \in Thread, Shrinks(t) PROVE CachedIsCurrent'
<1> SUFFICES ASSUME NEW k \in Cached', ~cache'[k].doubt, ~Changing(k[1])'
             PROVE  cache'[k].attr = bucket'[k[1]] /\ k = KeyOf(k[1], cache'[k].attr)
                    /\ ~cache'[k].grown
  BY DEF CachedIsCurrent, KeyOf
<1>1. k \in Cached /\ cache'[k] = cache[k] /\ bucket' = bucket /\ k \in Key
      /\ cache'[k] # NoEntry
  BY ShrunkCached, CachedIs DEF Shrinks, Cached
<1>2. ASSUME Changing(k[1]) PROVE FALSE
  <2>1. PICK u \in Thread : call[u].name = k[1] /\ Between(call[u])
    BY <1>2, ChangingIs
  <2>2. ~(call'[u].name = k[1] /\ Between(call'[u]))
    <3>1. Changing(k[1])' <=> \E v \in Thread : call'[v].name = k[1] /\ Between(call'[v])
      BY DEF Changing, Between
    <3>. QED BY <3>1
  <2>3. u = t
    BY <2>1, <2>2 DEF Shrinks, Moves
  <2>4. ~Between(call'[t])
    <3>1. ASSUME Between(call'[t]) PROVE call'[t].name = call[t].name
      <4>1. call'[t].op # "idle"
        BY <3>1, Handlers DEF Between
      <4>. QED BY <4>1 DEF Shrinks, Moves
    <3>. QED BY <2>1, <2>2, <2>3, <3>1
  <2>. QED BY <1>1, <2>1, <2>3, <2>4 DEF Shrinks
<1>. QED BY <1>1, <1>2 DEF CachedIsCurrent

\* what s3fs_open finds,
LEMMA ShrinkOpen ==
  ASSUME TypeInv, OpenOK, NEW t \in Thread, Shrinks(t) PROVE OpenOK'
<1> SUFFICES ASSUME NEW u \in Thread, call'[u].op = "open"
             PROVE  /\ call'[u].begin <= bucket'[call'[u].name].version
                    /\ call'[u].todo # Program["open"] =>
                         \A k \in Cached' : k[1] = call'[u].name /\ ~cache'[k].doubt
                                             => call'[u].begin <= cache'[k].attr.version
                    /\ Fresh(call'[u])
  BY DEF OpenOK, Fresh
<1>1. bucket' = bucket /\ Cached' \subseteq Cached /\ \A k \in Cached' : cache'[k] = cache[k]
  BY ShrunkCached DEF Shrinks
<1>2. CASE u # t
  BY <1>1, <1>2 DEF OpenOK, Fresh, Shrinks, Moves
<1>3. CASE u = t
  <2>1. call[t].op = "open" /\ call'[t].name = call[t].name /\ call'[t].begin = call[t].begin
    BY <1>3 DEF Shrinks, Moves
  <2>2. CASE call[t].todo # Program["open"]
    BY <1>1, <1>3, <2>1, <2>2 DEF OpenOK, Shrinks
  <2>3. CASE call[t].todo = Program["open"]
    <3>1. ~Between(call'[t])
      BY <1>3, Handlers DEF Between
    <3>2. \A k \in Key : k[1] = call[t].name => cache'[k] = NoEntry
      BY <1>3, <2>3, <3>1 DEF Shrinks
    <3>. QED BY <1>1, <1>3, <2>1, <3>2 DEF OpenOK, Shrinks, Cached
  <2>. QED BY <2>2, <2>3
<1>. QED BY <1>2, <1>3

\* and the size.
LEMMA ShrinkSize ==
  ASSUME TypeInv, SizeOK, NEW t \in Thread, Shrinks(t), Watch(t) PROVE SizeOK'
<1>1. Cached' \subseteq Cached /\ IsFiniteSet(Cached)
  BY ShrunkCached DEF SizeOK
<1>2. IsFiniteSet(Cached') /\ Cardinality(Cached') <= Cardinality(Cached)
      /\ Cardinality(Cached') \in Nat /\ Cardinality(Cached) \in Nat
  BY <1>1, FS_Subset, FS_CardinalityType
<1>3. \A u \in Thread : ~Adding(call'[u]) => u \in alone'
  BY DEF Watch
<1>4. raced' = raced
  BY DEF Watch, Shrinks, TypeInv
<1>5. ASSUME ~raced, NEW u \in alone' PROVE AloneOK(u)'
  <2>1. CASE ~Adding(call'[u])
    BY <2>1 DEF AloneOK, Adding
  <2>2. CASE Adding(call'[u]) /\ u = t
    BY <1>5, <2>2 DEF Watch, Shrinks
  <2>3. CASE Adding(call'[u]) /\ u # t
    <3>1. u \in Thread /\ u \in alone /\ cache' = cache
      BY <2>3, <1>5 DEF Watch
    <3>2. call'[u] = call[u] /\ AloneOK(u)
      BY <1>5, <2>3, <3>1 DEF Shrinks, Moves, SizeOK
    <3>. QED BY <3>1, <3>2 DEF AloneOK, Cached
  <2>. QED BY <2>1, <2>2, <2>3
<1>. QED BY <1>1, <1>2, <1>3, <1>4, <1>5 DEF SizeOK

\* Such a step keeps the invariant.
LEMMA ShrinkInv ==
  ASSUME IInv, NEW t \in Thread, Shrinks(t), Watch(t) PROVE IInv'
BY ShrinkTypes, ShrinkLook, ShrinkCurrent, ShrinkOpen, ShrinkSize DEF IInv

\* A lookup, or an s3fs_readdir that fills the cache, changes nothing, and
\* s3fs_open has deleted the entries before it looks.
LEMMA Lookups ==
  ASSUME NEW c \in Record, StageOK(c),
         \/ c.at # "start"
         \/ c.todo # <<>> /\ Head(c.todo) \in {"look", "fill", "list"}
  PROVE  /\ c.op # "idle" /\ ~Between(c) /\ c.todo # Program["open"] /\ c.name \in Name
         /\ c.at # "start" \/ Head(c.todo) \in {"look", "fill"} =>
              c.todo \in {<<"look">>, <<"look", "look">>, <<"fill">>}
         /\ Tail(c.todo) # <<>> => c.todo \in {<<"look", "look">>, <<"list", "fill">>}
<1>1. /\ \A x : <<x>> # <<>> /\ Head(<<x>>) = x /\ Tail(<<x>>) = <<>>
      /\ \A x, y : <<x, y>> # <<>> /\ Head(<<x, y>>) = x
      /\ \A x, y, z : <<x, y, z>> # <<>> /\ Head(<<x, y, z>>) = x
  OBVIOUS
<1>2. c.op # "idle"
  BY <1>1 DEF StageOK
<1>3. c.todo \in {<<"look">>, <<"look", "look">>, <<"fill">>, <<"list", "fill">>}
      /\ c.op \in {"getattr", "open", "readdir"}
  <2>1. CASE c.at # "start"
    <3>1. c.todo \in {<<"look">>, <<"look", "look">>, <<"fill">>}
      BY <2>1 DEF StageOK
    <3>. QED BY <1>2, <3>1, Phases
  <2>2. CASE c.todo # <<>> /\ Head(c.todo) \in {"look", "fill", "list"}
    <3>1. /\ c.todo # <<"forget", "look", "look">> /\ c.todo # <<"put", "forget">>
          /\ c.todo # <<"forget">> /\ c.todo # <<"putdir", "forget">>
          /\ c.todo # <<"grow", "put", "forget">> /\ c.todo # <<"delete", "forget">>
          /\ c.todo # <<"delete", "forget", "deletefolder">>
      BY <1>1, <2>2
    <3>2. /\ c.todo # <<"forget", "deletefolder">> /\ c.todo # <<"deletefolder">>
          /\ c.todo # <<"deletefolder", "forget", "putdir">>
          /\ c.todo # <<"forget", "putdir">> /\ c.todo # <<"putdir">>
      BY <1>1, <2>2
    <3>. QED BY <1>2, <3>1, <3>2, Phases
  <2>. QED BY <2>1, <2>2
<1>4. ~Between(c)
  BY <1>3, Handlers DEF Between
<1>5. c.todo # Program["open"] /\ c.name \in Name
  BY <1>2, <1>3, Handlers DEF StageOK
<1>6. c.at # "start" \/ Head(c.todo) \in {"look", "fill"} =>
        c.todo \in {<<"look">>, <<"look", "look">>, <<"fill">>}
  BY <1>1, <1>3 DEF StageOK
<1>. QED BY <1>1, <1>2, <1>3, <1>4, <1>5, <1>6

\* Turn is a move of its thread.
LEMMA Turned ==
  ASSUME TypeInv, NEW t \in Thread, NEW c \in Record, StageOK(c), Turn(t, c),
         call[t].op # "idle",
         c.op # "idle" => c.op = call[t].op /\ c.name = call[t].name /\ c.begin = call[t].begin
  PROVE  Moves(t) /\ call'[t] = c
BY DEF TypeInv, Moves, Turn

\* The places where a lookup knows nothing of the object, not yet or no more.
Quiet == {"start", "noobj", "head", "one", "reget", "drop"}

\* A step of a lookup to a place where it knows nothing.
LEMMA QuietStep ==
  ASSUME TypeInv, NEW t \in Thread, NEW c \in Record, StageOK(c), Turn(t, c),
         ~Between(call[t]), call[t].todo # Program["open"], call[t].at # "store",
         call[t].op # "idle",
         c.op # "idle" => c.op = call[t].op /\ c.name = call[t].name /\ c.begin = call[t].begin,
         c.at \in Quiet, Fresh(c), bucket' = bucket,
         cache' \in [Key -> CachedEntry \cup {NoEntry}],
         \A k \in Key : cache'[k] \in {cache[k], NoEntry}
  PROVE  Shrinks(t)
<1>1. Moves(t) /\ call'[t] = c
  BY Turned
<1>2. Knows(c, bucket[c.name]) /\ AloneOK(t)'
  BY <1>1 DEF Quiet, Knows, Asked, AloneOK
<1>. QED BY <1>1, <1>2 DEF Shrinks

\* Attributes taken from an entry.
LEMMA FromEntry ==
  ASSUME TypeInv, OpenOK, NEW t \in Thread, call[t].op # "idle",
         call[t].todo \in {<<"look">>, <<"look", "look">>, <<"fill">>},
         NEW k \in Entries(call[t].name)
  PROVE  LET c == [call[t] EXCEPT !.attr = cache[k].attr, !.doubt = cache[k].doubt]
             d == Proceed(c) IN
         /\ d \in Record /\ StageOK(d) /\ d.at \in Quiet /\ Fresh(d)
         /\ d.op # "idle" => /\ d.op = call[t].op /\ d.name = call[t].name
                             /\ d.begin = call[t].begin
<1> DEFINE c == [call[t] EXCEPT !.attr = cache[k].attr, !.doubt = cache[k].doubt]
           d == Proceed(c)
<1>1. k \in Cached /\ k[1] = call[t].name
  BY DEF Entries
<1>2. call[t] \in Record /\ StageOK(call[t]) /\ cache[k].attr \in Attributes
      /\ cache[k].doubt \in BOOLEAN
  BY <1>1, CachedIs DEF TypeInv, CachedEntry
<1>3. /\ c \in Record /\ c.attr = cache[k].attr /\ c.doubt = cache[k].doubt
      /\ c.op = call[t].op /\ c.todo = call[t].todo /\ c.name = call[t].name
      /\ c.begin = call[t].begin /\ c.at = call[t].at /\ c.then = call[t].then
  BY <1>2 DEF Record
<1> HIDE DEF c
<1>s. StageOK(c)
  BY <1>2, <1>3, SameStage
<1>4. /\ d \in Record /\ StageOK(d) /\ d.at = "start"
      /\ Tail(c.todo) = <<>> => d = Idle
      /\ Tail(c.todo) # <<>> => /\ d.op = c.op /\ d.name = c.name /\ d.attr = c.attr
                                /\ d.doubt = c.doubt /\ d.begin = c.begin
  BY <1>3, <1>s, Proceeds
<1> HIDE DEF d
<1>5. Fresh(d)
  <2>1. CASE d.op = "idle"
    BY <2>1 DEF Fresh
  <2>2. CASE d.op # "idle"
    <3>1. /\ d.op = call[t].op /\ d.attr = cache[k].attr /\ d.doubt = cache[k].doubt
          /\ d.begin = call[t].begin
      BY <1>3, <1>4, <2>2, IdleIs
    <3>2. call[t].todo # Program["open"]
      BY Handlers
    <3>. QED BY <1>1, <3>1, <3>2 DEF Fresh, OpenOK
  <2>. QED BY <2>1, <2>2
<1>6. d.op # "idle" => d.op = call[t].op /\ d.name = call[t].name /\ d.begin = call[t].begin
  BY <1>3, <1>4, IdleIs
<1>. QED BY <1>4, <1>5, <1>6 DEF c, d, Quiet

\* StatCache::GetStat
LEMMA GetShrinks ==
  ASSUME IInv, NEW t \in Thread, Get(t) PROVE Shrinks(t)
<1> DEFINE c == call[t]
<1>1. /\ TypeInv /\ OpenOK /\ c \in Record /\ StageOK(c) /\ c.todo # <<>> /\ Head(c.todo) = "look"
      /\ c.at = "start" /\ UNCHANGED <<bucket, cache>>
  BY DEF IInv, TypeInv, Get, Doing
<1>2. /\ c.op # "idle" /\ ~Between(c) /\ c.todo # Program["open"]
      /\ c.todo \in {<<"look">>, <<"look", "look">>, <<"fill">>}
  BY <1>1, Lookups
<1>3. Nothing \in Attributes /\ FALSE \in BOOLEAN
  BY DEF Nothing, Attributes
<1> DEFINE e == [c EXCEPT !.attr = Nothing, !.doubt = FALSE]
<1>e. /\ e \in Record /\ e.todo = c.todo /\ e.op = c.op /\ e.name = c.name /\ e.begin = c.begin
      /\ e.at = c.at /\ e.then = c.then
  BY <1>1, <1>3 DEF Record
<1> HIDE DEF e
<1>4. StageOK(e)
  BY <1>1, <1>e, SameStage
<1>5. cache' \in [Key -> CachedEntry \cup {NoEntry}] /\ \A k \in Key : cache'[k] \in {cache[k], NoEntry}
  BY <1>1 DEF TypeInv
<1>6. CASE \E k \in Entries(c.name) :
             Turn(t, Proceed([c EXCEPT !.attr = cache[k].attr, !.doubt = cache[k].doubt]))
  <2>1. PICK k \in Entries(c.name) :
             Turn(t, Proceed([c EXCEPT !.attr = cache[k].attr, !.doubt = cache[k].doubt]))
    BY <1>6
  <2> DEFINE d == Proceed([c EXCEPT !.attr = cache[k].attr, !.doubt = cache[k].doubt])
  <2>2. /\ d \in Record /\ StageOK(d) /\ d.at \in Quiet /\ Fresh(d)
        /\ d.op # "idle" => d.op = c.op /\ d.name = c.name /\ d.begin = c.begin
    BY <1>1, <1>2, FromEntry
  <2>3. Turn(t, d)
    BY <2>1
  <2> HIDE DEF d
  <2>. QED BY <1>1, <1>2, <1>5, <2>2, <2>3, QuietStep
<1>7. CASE Turn(t, At(e, "noobj"))
  <2> DEFINE d == At(e, "noobj")
  <2>0. "noobj" \in Places
    BY DEF Places
  <2>1. /\ d \in Record /\ StageOK(d) /\ d.at = "noobj" /\ d.op = c.op /\ d.name = c.name
        /\ d.begin = c.begin /\ d.todo = c.todo
    BY <1>2, <1>4, <1>e, <2>0, GoesTo
  <2>2. Turn(t, d)
    BY <1>7
  <2> HIDE DEF d
  <2>3. d.at \in Quiet /\ Fresh(d)
    BY <2>1 DEF Quiet, Fresh, Returns
  <2>. QED BY <1>1, <1>2, <1>5, <2>1, <2>2, <2>3, QuietStep
<1>8. CASE Turn(t, Drop(e, "noobj"))
  <2> DEFINE d == Drop(e, "noobj")
  <2>1. /\ d \in Record /\ StageOK(d) /\ d.at = "drop" /\ d.then = "noobj" /\ d.op = c.op
        /\ d.name = c.name /\ d.begin = c.begin /\ d.todo = c.todo
    BY <1>2, <1>4, <1>e, Drops
  <2>2. Turn(t, d)
    BY <1>8
  <2> HIDE DEF d
  <2>3. d.at \in Quiet /\ Fresh(d)
    BY <2>1 DEF Quiet, Fresh, Returns
  <2>. QED BY <1>1, <1>2, <1>5, <2>1, <2>2, <2>3, QuietStep
<1>. QED BY <1>6, <1>7, <1>8 DEF Get, e

\* The cache as it is, is one that such a step may leave.
LEMMA SameCache ==
  ASSUME TypeInv, cache' = cache
  PROVE  cache' \in [Key -> CachedEntry \cup {NoEntry}] /\ \A k \in Key : cache'[k] \in {cache[k], NoEntry}
BY DEF TypeInv

\* So is the cache without the entries of a name.
LEMMA DelStatCache ==
  ASSUME TypeInv, NEW n \in Name, cache' = DelStat(n)
  PROVE  /\ cache' \in [Key -> CachedEntry \cup {NoEntry}]
         /\ \A k \in Key : cache'[k] \in {cache[k], NoEntry}
         /\ \A k \in Key : k[1] = n => cache'[k] = NoEntry
BY DEF TypeInv, DelStat

\* What a lookup returns.
LEMMA ProceedsFresh ==
  ASSUME NEW c \in Record, StageOK(c), c.op # "idle",
         c.todo \in {<<"look">>, <<"look", "look">>, <<"fill">>},
         c.op = "open" /\ ~c.doubt => c.begin <= c.attr.version
  PROVE  /\ Proceed(c) \in Record /\ StageOK(Proceed(c)) /\ Proceed(c).at \in Quiet
         /\ Fresh(Proceed(c))
         /\ Proceed(c).op # "idle" =>
              /\ Proceed(c).op = c.op /\ Proceed(c).name = c.name /\ Proceed(c).begin = c.begin
<1>1. /\ Proceed(c) \in Record /\ StageOK(Proceed(c)) /\ Proceed(c).at = "start"
      /\ Tail(c.todo) = <<>> => Proceed(c) = Idle
      /\ Tail(c.todo) # <<>> =>
           /\ Proceed(c).op = c.op /\ Proceed(c).name = c.name /\ Proceed(c).attr = c.attr
           /\ Proceed(c).doubt = c.doubt /\ Proceed(c).begin = c.begin
  BY Proceeds
<1>2. Proceed(c).op # "idle" =>
        /\ Proceed(c).op = c.op /\ Proceed(c).name = c.name /\ Proceed(c).begin = c.begin
        /\ Proceed(c).attr = c.attr /\ Proceed(c).doubt = c.doubt
  BY <1>1, IdleIs
<1>3. Fresh(Proceed(c))
  BY <1>2 DEF Fresh
<1>. QED BY <1>1, <1>2, <1>3 DEF Quiet

\* A lookup goes on to a place where it knows nothing yet, or another section
\* deletes what it has found.
LEMMA GoesQuietly ==
  ASSUME TypeInv, NEW t \in Thread, NEW c \in Record, StageOK(c), c.op = call[t].op,
         c.name = call[t].name, c.begin = call[t].begin,
         c.todo \in {<<"look">>, <<"look", "look">>, <<"fill">>},
         ~Between(call[t]), call[t].todo # Program["open"], call[t].at # "store",
         call[t].op # "idle",
         bucket' = bucket, cache' \in [Key -> CachedEntry \cup {NoEntry}],
         \A k \in Key : cache'[k] \in {cache[k], NoEntry},
         \/ \E place \in {"noobj", "head", "one"} : Turn(t, At(c, place)) \/ Turn(t, Drop(c, place))
         \/ Turn(t, At(c, "reget")) /\ c.op # "open"
  PROVE  Shrinks(t)
<1>1. ASSUME NEW place \in {"noobj", "head", "one"}, Turn(t, At(c, place)) PROVE Shrinks(t)
  <2> DEFINE d == At(c, place)
  <2>0. place \in Places /\ place # "drop"
    BY DEF Places
  <2>1. /\ d \in Record /\ StageOK(d) /\ d.at = place /\ d.todo = c.todo
        /\ d.op = c.op /\ d.name = c.name /\ d.begin = c.begin
    BY <2>0, GoesTo
  <2>2. Turn(t, d)
    BY <1>1
  <2> HIDE DEF d
  <2>3. d.at \in Quiet /\ Fresh(d)
    BY <2>1 DEF Quiet, Fresh, Returns
  <2>. QED BY <2>1, <2>2, <2>3, QuietStep
<1>2. ASSUME NEW place \in {"noobj", "head", "one"}, Turn(t, Drop(c, place)) PROVE Shrinks(t)
  <2> DEFINE d == Drop(c, place)
  <2>1. /\ d \in Record /\ StageOK(d) /\ d.at = "drop" /\ d.then = place /\ d.todo = c.todo
        /\ d.op = c.op /\ d.name = c.name /\ d.begin = c.begin
    BY Drops
  <2>2. Turn(t, d)
    BY <1>2
  <2> HIDE DEF d
  <2>3. d.at \in Quiet /\ Fresh(d)
    BY <2>1 DEF Quiet, Fresh, Returns
  <2>. QED BY <2>1, <2>2, <2>3, QuietStep
<1>3. CASE Turn(t, At(c, "reget")) /\ c.op # "open"
  <2> DEFINE d == At(c, "reget")
  <2>0. "reget" \in Places
    BY DEF Places
  <2>1. /\ d \in Record /\ StageOK(d) /\ d.at = "reget"
        /\ d.op = c.op /\ d.name = c.name /\ d.begin = c.begin
    BY <2>0, GoesTo
  <2>2. Turn(t, d)
    BY <1>3
  <2> HIDE DEF d
  <2>3. d.at \in Quiet /\ Fresh(d)
    BY <1>3, <2>1 DEF Quiet, Fresh
  <2>. QED BY <2>1, <2>2, <2>3, QuietStep
<1>. QED BY <1>1, <1>2, <1>3

\* A lookup ends with what it knows, or with what it finds.
LEMMA Ends ==
  ASSUME TypeInv, OpenOK, NEW t \in Thread, call[t].op # "idle",
         call[t].todo \in {<<"look">>, <<"look", "look">>, <<"fill">>},
         ~Between(call[t]), call[t].todo # Program["open"], call[t].at # "store",
         bucket' = bucket, cache' \in [Key -> CachedEntry \cup {NoEntry}],
         \A k \in Key : cache'[k] \in {cache[k], NoEntry},
         \/ /\ Turn(t, Proceed(call[t]))
            /\ call[t].op = "open" /\ ~call[t].doubt => call[t].begin <= call[t].attr.version
         \/ \E k \in Entries(call[t].name) :
              Turn(t, Proceed([call[t] EXCEPT !.attr = cache[k].attr, !.doubt = cache[k].doubt]))
  PROVE  Shrinks(t)
<1>0. call[t] \in Record /\ StageOK(call[t])
  BY DEF TypeInv
<1>1. CASE /\ Turn(t, Proceed(call[t]))
           /\ call[t].op = "open" /\ ~call[t].doubt => call[t].begin <= call[t].attr.version
  <2> DEFINE d == Proceed(call[t])
  <2>1. /\ d \in Record /\ StageOK(d) /\ d.at \in Quiet /\ Fresh(d)
        /\ d.op # "idle" => d.op = call[t].op /\ d.name = call[t].name /\ d.begin = call[t].begin
    BY <1>0, <1>1, ProceedsFresh
  <2>2. Turn(t, d)
    BY <1>1
  <2> HIDE DEF d
  <2>. QED BY <2>1, <2>2, QuietStep
<1>2. ASSUME NEW k \in Entries(call[t].name),
             Turn(t, Proceed([call[t] EXCEPT !.attr = cache[k].attr, !.doubt = cache[k].doubt]))
      PROVE  Shrinks(t)
  <2> DEFINE d == Proceed([call[t] EXCEPT !.attr = cache[k].attr, !.doubt = cache[k].doubt])
  <2>1. /\ d \in Record /\ StageOK(d) /\ d.at \in Quiet /\ Fresh(d)
        /\ d.op # "idle" => d.op = call[t].op /\ d.name = call[t].name /\ d.begin = call[t].begin
    BY FromEntry
  <2>2. Turn(t, d)
    BY <1>2
  <2> HIDE DEF d
  <2>. QED BY <2>1, <2>2, QuietStep
<1>. QED BY <1>1, <1>2

\* A thread within a lookup.
LEMMA InLookup ==
  ASSUME TypeInv, NEW t \in Thread,
         \/ call[t].at # "start"
         \/ call[t].todo # <<>> /\ Head(call[t].todo) \in {"look", "fill", "list"}
  PROVE  /\ call[t] \in Record /\ StageOK(call[t]) /\ call[t].op # "idle" /\ ~Between(call[t])
         /\ call[t].todo # Program["open"] /\ call[t].name \in Name
         /\ call[t].at # "start" \/ Head(call[t].todo) \in {"look", "fill"} =>
              call[t].todo \in {<<"look">>, <<"look", "look">>, <<"fill">>}
BY Lookups DEF TypeInv

\* StatCache::IsNoObjectCache
LEMMA AskNoObjectShrinks ==
  ASSUME IInv, NEW t \in Thread, AskNoObject(t) PROVE Shrinks(t)
<1> DEFINE c == call[t]
<1>1. /\ TypeInv /\ OpenOK /\ c.at = "noobj" /\ UNCHANGED <<bucket, cache>>
  BY DEF IInv, AskNoObject, Doing
<1>2. /\ c \in Record /\ StageOK(c) /\ c.op # "idle" /\ ~Between(c) /\ c.todo # Program["open"]
      /\ c.todo \in {<<"look">>, <<"look", "look">>, <<"fill">>} /\ c.at # "store"
  BY <1>1, InLookup
<1>3. cache' \in [Key -> CachedEntry \cup {NoEntry}] /\ \A k \in Key : cache'[k] \in {cache[k], NoEntry}
  BY <1>1, SameCache
<1>4. CASE \E k \in Entries(c.name) :
             Turn(t, Proceed([c EXCEPT !.attr = cache[k].attr, !.doubt = cache[k].doubt]))
  BY <1>1, <1>2, <1>3, <1>4, Ends
<1>5. CASE Turn(t, At(c, "head")) \/ Turn(t, Drop(c, "head"))
  BY <1>1, <1>2, <1>3, <1>5, GoesQuietly
<1>. QED BY <1>4, <1>5 DEF AskNoObject

\* The section that deletes what a lookup has found.
LEMMA DroppedShrinks ==
  ASSUME IInv, NEW t \in Thread, Dropped(t) PROVE Shrinks(t)
<1> DEFINE c == call[t]
<1>1. /\ TypeInv /\ OpenOK /\ c.at = "drop" /\ cache' = DelStat(c.name) /\ bucket' = bucket
      /\ Turn(t, At(c, c.then))
  BY DEF IInv, Dropped
<1>2. /\ c \in Record /\ StageOK(c) /\ c.op # "idle" /\ ~Between(c) /\ c.todo # Program["open"]
      /\ c.todo \in {<<"look">>, <<"look", "look">>, <<"fill">>} /\ c.at # "store"
      /\ c.name \in Name
  BY <1>1, InLookup
<1>3. cache' \in [Key -> CachedEntry \cup {NoEntry}] /\ \A k \in Key : cache'[k] \in {cache[k], NoEntry}
  BY <1>1, <1>2, DelStatCache
<1>4. c.then \in {"noobj", "head", "one", "end"}
  BY <1>1, <1>2 DEF StageOK
<1>5. CASE c.then = "end"
  <2>1. Turn(t, Proceed(c))
    BY <1>1, <1>5 DEF At
  <2>2. c.op = "open" /\ ~c.doubt => c.begin <= c.attr.version
    BY <1>1, <1>2, <1>5 DEF OpenOK, Returns
  <2>. QED BY <1>1, <1>2, <1>3, <2>1, <2>2, Ends
<1>6. CASE c.then \in {"noobj", "head", "one"}
  <2>1. \E place \in {"noobj", "head", "one"} : Turn(t, At(c, place))
    BY <1>1, <1>6
  <2>. QED BY <1>1, <1>2, <1>3, <2>1, GoesQuietly
<1>. QED BY <1>4, <1>5, <1>6

\* StatCache::GetStat after an add, or after a HEAD of s3fs_readdir.
LEMMA GetAgainShrinks ==
  ASSUME IInv, NEW t \in Thread, GetAgain(t) PROVE Shrinks(t)
<1> DEFINE c == call[t]
<1>1. /\ TypeInv /\ OpenOK /\ c.at = "reget" /\ UNCHANGED <<bucket, cache>>
  BY DEF IInv, GetAgain
<1>2. /\ c \in Record /\ StageOK(c) /\ c.op # "idle" /\ ~Between(c) /\ c.todo # Program["open"]
      /\ c.todo \in {<<"look">>, <<"look", "look">>, <<"fill">>} /\ c.at # "store"
  BY <1>1, InLookup
<1>3. cache' \in [Key -> CachedEntry \cup {NoEntry}] /\ \A k \in Key : cache'[k] \in {cache[k], NoEntry}
  BY <1>1, SameCache
<1>4. c.op = "open" /\ ~c.doubt => c.begin <= c.attr.version
  BY <1>1, <1>2 DEF OpenOK, Returns
<1>5. CASE \/ Turn(t, Proceed(c))
           \/ \E k \in Entries(c.name) :
                Turn(t, Proceed([c EXCEPT !.attr = cache[k].attr, !.doubt = cache[k].doubt]))
  BY <1>1, <1>2, <1>3, <1>4, <1>5, Ends
<1>6. CASE Turn(t, Drop(c, "end"))
  <2> DEFINE d == Drop(c, "end")
  <2>1. /\ d \in Record /\ StageOK(d) /\ d.at = "drop" /\ d.doubt = c.doubt /\ d.attr = c.attr
        /\ d.op = c.op /\ d.name = c.name /\ d.begin = c.begin
    BY <1>2, Drops
  <2>2. Turn(t, d)
    BY <1>6
  <2> HIDE DEF d
  <2>3. d.at \in Quiet /\ Fresh(d)
    BY <1>4, <2>1 DEF Quiet, Fresh
  <2>. QED BY <1>1, <1>2, <1>3, <2>1, <2>2, <2>3, QuietStep
<1>. QED BY <1>5, <1>6 DEF GetAgain

\* s3fs_readdir lists the directory.
LEMMA ListShrinks ==
  ASSUME IInv, NEW t \in Thread, List(t) PROVE Shrinks(t)
<1> DEFINE c == call[t] now == bucket[c.name]
<1>1. /\ TypeInv /\ OpenOK /\ c.at = "start" /\ c.todo # <<>> /\ Head(c.todo) = "list"
      /\ UNCHANGED <<bucket, cache>>
      /\ Turn(t, IF now.form = "none" THEN Idle ELSE Proceed([c EXCEPT !.attr = now]))
  BY DEF IInv, List, Doing
<1>2. /\ c \in Record /\ StageOK(c) /\ c.op # "idle" /\ ~Between(c) /\ c.todo # Program["open"]
      /\ c.at # "store" /\ c.name \in Name
  BY <1>1, InLookup
<1>3. cache' \in [Key -> CachedEntry \cup {NoEntry}] /\ \A k \in Key : cache'[k] \in {cache[k], NoEntry}
  BY <1>1, SameCache
<1>4. CASE Turn(t, Idle)
  <2>1. Idle.at \in Quiet /\ Fresh(Idle)
    BY IdleIs DEF Quiet, Fresh
  <2>. QED BY <1>1, <1>2, <1>3, <1>4, <2>1, IdleIs, QuietStep
<1>5. CASE Turn(t, Proceed([c EXCEPT !.attr = now]))
  <2> DEFINE e == [c EXCEPT !.attr = now]
             d == Proceed(e)
  <2>1. now \in Attributes
    BY <1>1, <1>2 DEF TypeInv
  <2> HIDE DEF now
  <2>2. /\ e \in Record /\ e.todo = c.todo /\ e.op = c.op /\ e.name = c.name /\ e.begin = c.begin
        /\ e.at = c.at /\ e.then = c.then
    BY <1>2, <2>1 DEF Record
  <2> HIDE DEF e
  <2>3. StageOK(e)
    BY <1>2, <2>2, SameStage
  <2>4. /\ d \in Record /\ StageOK(d) /\ d.at = "start"
        /\ d.op # "idle" => d.op = e.op /\ d.name = e.name /\ d.begin = e.begin
    BY <1>2, <2>2, <2>3, Proceeds, IdleIs
  <2>5. Turn(t, d)
    BY <1>5 DEF e, now
  <2> HIDE DEF d
  <2>6. c.op # "open"
    <3>1. /\ Head(<<"forget", "look", "look">>) = "forget" /\ Head(<<"look", "look">>) = "look"
          /\ Head(<<"look">>) = "look"
      OBVIOUS
    <3>2. c.op = "open" => c.todo \in {<<"forget", "look", "look">>, <<"look", "look">>, <<"look">>}
      BY <1>2, Phases
    <3>. QED BY <1>1, <3>1, <3>2
  <2>7. d.at \in Quiet /\ Fresh(d)
    BY <2>2, <2>4, <2>6 DEF Quiet, Fresh
  <2>. QED BY <1>1, <1>2, <1>3, <2>2, <2>4, <2>5, <2>7, QuietStep
<1>. QED BY <1>1, <1>4, <1>5

\* A step of a lookup to a place where it knows something.
LEMMA KnownStep ==
  ASSUME TypeInv, NEW t \in Thread, NEW c \in Record, StageOK(c), Turn(t, c),
         ~Between(call[t]), call[t].todo # Program["open"], call[t].at # "store",
         call[t].op # "idle",
         c.op = call[t].op, c.name = call[t].name, c.begin = call[t].begin,
         c.at \notin Quiet, bucket' = bucket,
         cache' \in [Key -> CachedEntry \cup {NoEntry}],
         \A k \in Key : cache'[k] \in {cache[k], NoEntry},
         ~c.doubt => Knows(c, bucket[c.name]),
         c.at = "delete" => KeyOf(c.name, c.attr) \in Cached',
         t \in alone /\ ~raced /\ c.at = "store" =>
           KeyOf(c.name, c.attr) \in Cached' \/ Cardinality(Cached') <= CacheSize
  PROVE  Shrinks(t)
<1>1. Moves(t) /\ call'[t] = c
  BY Turned
<1>2. Fresh(c)
  BY DEF Quiet, Fresh, Returns
<1>3. t \in alone /\ ~raced => AloneOK(t)'
  BY <1>1 DEF AloneOK
<1>. QED BY <1>1, <1>2, <1>3 DEF Shrinks

\* HasStat of s3fs_readdir.
LEMMA HasShrinks ==
  ASSUME IInv, NEW t \in Thread, Has(t) PROVE Shrinks(t)
<1> DEFINE c == call[t]
<1>1. /\ TypeInv /\ c.at = "start" /\ c.todo # <<>> /\ Head(c.todo) = "fill"
      /\ UNCHANGED <<bucket, cache>>
      /\ Turn(t, At(c, "reget")) \/ Turn(t, At(c, "one")) \/ Turn(t, Drop(c, "one"))
  BY DEF IInv, Has, Doing
<1>2. /\ c \in Record /\ StageOK(c) /\ c.op # "idle" /\ ~Between(c) /\ c.todo # Program["open"]
      /\ c.todo \in {<<"look">>, <<"look", "look">>, <<"fill">>} /\ c.at # "store"
  BY <1>1, InLookup
<1>3. cache' \in [Key -> CachedEntry \cup {NoEntry}] /\ \A k \in Key : cache'[k] \in {cache[k], NoEntry}
  BY <1>1, SameCache
<1>4. c.op # "open"
  <2>1. Head(<<"look">>) # "fill" /\ Head(<<"look", "look">>) # "fill"
    OBVIOUS
  <2>2. c.todo = <<"fill">>
    BY <1>1, <1>2, <2>1
  <2>. QED BY <1>2, <2>2, Phases
<1>. QED BY <1>1, <1>2, <1>3, <1>4, GoesQuietly

\* The HEAD request of s3fs_readdir.
LEMMA HeadOneShrinks ==
  ASSUME IInv, NEW t \in Thread, HeadOne(t) PROVE Shrinks(t)
<1> DEFINE c == call[t] now == bucket[c.name]
<1>1. /\ TypeInv /\ c.at = "one" /\ c.todo # <<>> /\ Head(c.todo) = "fill"
      /\ UNCHANGED <<bucket, cache>>
      /\ \/ Turn(t, At([c EXCEPT !.attr = now, !.doubt = FALSE], "add"))
         \/ Turn(t, At(c, "reget"))
  BY DEF IInv, HeadOne, Doing
<1>2. /\ c \in Record /\ StageOK(c) /\ c.op # "idle" /\ ~Between(c) /\ c.todo # Program["open"]
      /\ c.todo \in {<<"look">>, <<"look", "look">>, <<"fill">>} /\ c.at # "store" /\ c.name \in Name
  BY <1>1, InLookup
<1>3. cache' \in [Key -> CachedEntry \cup {NoEntry}] /\ \A k \in Key : cache'[k] \in {cache[k], NoEntry}
  BY <1>1, SameCache
<1>4. CASE Turn(t, At(c, "reget"))
  <2>1. Head(<<"look">>) # "fill" /\ Head(<<"look", "look">>) # "fill"
    OBVIOUS
  <2>2. c.todo = <<"fill">>
    BY <1>1, <1>2, <2>1
  <2>3. c.op # "open"
    BY <1>2, <2>2, Phases
  <2>. QED BY <1>1, <1>2, <1>3, <1>4, <2>3, GoesQuietly
<1>5. CASE Turn(t, At([c EXCEPT !.attr = now, !.doubt = FALSE], "add"))
  <2> DEFINE e == [c EXCEPT !.attr = now, !.doubt = FALSE]
             d == At(e, "add")
  <2>1. now \in Attributes /\ FALSE \in BOOLEAN /\ "add" \in Places
    BY <1>1, <1>2 DEF TypeInv, Places
  <2>i. now = bucket[c.name]
    OBVIOUS
  <2> HIDE DEF now
  <2>2. /\ e \in Record /\ e.todo = c.todo /\ e.op = c.op /\ e.name = c.name /\ e.begin = c.begin
        /\ e.at = c.at /\ e.then = c.then /\ e.attr = now
    BY <1>2, <2>1 DEF Record
  <2>d. Turn(t, d)
    BY <1>5 DEF now
  <2> HIDE DEF e
  <2>3. StageOK(e)
    BY <1>2, <2>2, SameStage
  <2>4. /\ d \in Record /\ StageOK(d) /\ d.at = "add" /\ d.attr = e.attr
        /\ d.op = e.op /\ d.name = e.name /\ d.begin = e.begin
    BY <1>2, <2>1, <2>2, <2>3, GoesTo
  <2> HIDE DEF d
  <2>5. d.at \notin Quiet /\ Knows(d, bucket[d.name])
    BY <2>i, <2>2, <2>4 DEF Quiet, Knows, Asked
  <2>6. d.op = c.op /\ d.name = c.name /\ d.begin = c.begin /\ d.at # "delete" /\ d.at # "store"
    BY <2>2, <2>4
  <2>. QED BY <1>1, <1>2, <1>3, <2>4, <2>d, <2>5, <2>6, KnownStep
<1>. QED BY <1>1, <1>4, <1>5

\* The attributes of an object that has none of the forms asked for.
LEMMA NoneOfThem ==
  ASSUME NEW now \in Attributes
  PROVE  /\ [now EXCEPT !.form = "none"] \in Attributes
         /\ now.form \notin {"file", "dir", "folder", "prefix"} => [now EXCEPT !.form = "none"] = now
BY DEF Attributes

\* What a lookup knows after a request that has found nothing.
LEMMA AskedMore ==
  ASSUME NEW now \in Attributes, NEW at \in DOMAIN Asks, now.form # Asks[at],
         NEW attr, at # "head" => attr = [now EXCEPT !.form = "none"] /\ now.form \notin Asked[at],
         NEW missed, missed = IF at = "head" THEN [now EXCEPT !.form = "none"] ELSE attr
  PROVE  /\ missed = [now EXCEPT !.form = "none"]
         /\ AsksNext[at] \in DOMAIN Asked => now.form \notin Asked[AsksNext[at]]
         /\ AsksNext[at] = "add" => missed = now
<1>1. at \in {"head", "headdir", "headfolder", "headlist"}
  BY DEF Asks
<1>2. missed = [now EXCEPT !.form = "none"]
  BY <1>1
<1>3. /\ Asks["head"] = "file" /\ Asks["headdir"] = "dir" /\ Asks["headfolder"] = "folder"
      /\ Asks["headlist"] = "prefix"
  BY DEF Asks
<1>4. /\ AsksNext["head"] = "headdir" /\ AsksNext["headdir"] = "headfolder"
      /\ AsksNext["headfolder"] = "headlist" /\ AsksNext["headlist"] = "add"
  BY DEF AsksNext
<1>5. /\ DOMAIN Asked = {"headdir", "headfolder", "headlist"}
      /\ Asked["headdir"] = {"file"} /\ Asked["headfolder"] = {"file", "dir"}
      /\ Asked["headlist"] = {"file", "dir", "folder"}
  BY DEF Asked
<1>6. AsksNext[at] \in DOMAIN Asked => now.form \notin Asked[AsksNext[at]]
  BY <1>1, <1>3, <1>4, <1>5
<1>7. AsksNext[at] = "add" => now.form \notin {"file", "dir", "folder", "prefix"}
  BY <1>1, <1>3, <1>4, <1>5
<1>. QED BY <1>2, <1>6, <1>7, NoneOfThem

\* A request of get_object_attribute.
LEMMA AskShrinks ==
  ASSUME IInv, NEW t \in Thread, Ask(t) PROVE Shrinks(t)
<1> DEFINE c == call[t] now == bucket[c.name]
           missed == IF c.at = "head" THEN [now EXCEPT !.form = "none"] ELSE c.attr
<1>1. TypeInv /\ LookOK /\ c.at \in DOMAIN Asks /\ UNCHANGED <<bucket, cache>>
  BY DEF IInv, Ask, Doing
<1>a. c.at \in {"head", "headdir", "headfolder", "headlist"}
  BY <1>1 DEF Asks
<1>2. /\ c \in Record /\ StageOK(c) /\ c.op # "idle" /\ ~Between(c) /\ c.todo # Program["open"]
      /\ c.todo \in {<<"look">>, <<"look", "look">>, <<"fill">>} /\ c.at # "store" /\ c.name \in Name
  BY <1>1, <1>a, InLookup
<1>3. cache' \in [Key -> CachedEntry \cup {NoEntry}] /\ \A k \in Key : cache'[k] \in {cache[k], NoEntry}
  BY <1>1, SameCache
<1>4. now \in Attributes /\ missed \in Attributes /\ c.attr \in Attributes
  BY <1>1, <1>2, NoneOfThem DEF TypeInv, Record
<1>5. ~c.doubt /\ c.at # "head" => c.attr = [now EXCEPT !.form = "none"] /\ now.form \notin Asked[c.at]
  <2>1. c.at # "head" => c.at \in DOMAIN Asked
    BY <1>a DEF Asked
  <2>2. ~c.doubt => Knows(c, now)
    BY <1>1, <1>2 DEF LookOK
  <2>. QED BY <2>1, <2>2 DEF Knows
<1>6. now.form # Asks[c.at] /\ ~c.doubt =>
        /\ missed = [now EXCEPT !.form = "none"]
        /\ AsksNext[c.at] \in DOMAIN Asked => now.form \notin Asked[AsksNext[c.at]]
        /\ AsksNext[c.at] = "add" => missed = now
  BY <1>1, <1>4, <1>5, AskedMore
<1>n. AsksNext[c.at] \in {"headdir", "headfolder", "headlist", "add"}
  BY <1>a DEF AsksNext
<1>i. now = bucket[c.name]
  OBVIOUS
<1>7. ASSUME NEW attr \in Attributes, NEW doubt \in BOOLEAN,
             NEW place \in {"headdir", "headfolder", "headlist", "add"},
             NEW d, d = At([c EXCEPT !.attr = attr, !.doubt = doubt], place), Turn(t, d),
             ~doubt => /\ place = "add" => attr = now
                       /\ place # "add" => attr = [now EXCEPT !.form = "none"]
                                           /\ now.form \notin Asked[place]
      PROVE  Shrinks(t)
  <2> DEFINE e == [c EXCEPT !.attr = attr, !.doubt = doubt]
  <2>1. place \in Places /\ place # "drop" /\ place \notin Quiet /\ place # "delete" /\ place # "store"
    BY DEF Places, Quiet
  <2>2. /\ e \in Record /\ e.todo = c.todo /\ e.op = c.op /\ e.name = c.name /\ e.begin = c.begin
        /\ e.at = c.at /\ e.then = c.then /\ e.attr = attr /\ e.doubt = doubt
    BY <1>2 DEF Record
  <2>d. d = At(e, place)
    BY <1>7
  <2> HIDE DEF e, now, missed
  <2>3. StageOK(e)
    BY <1>2, <2>2, SameStage
  <2>4. /\ d \in Record /\ StageOK(d) /\ d.at = place /\ d.attr = e.attr /\ d.doubt = e.doubt
        /\ d.op = e.op /\ d.name = e.name /\ d.begin = e.begin
    BY <1>2, <2>1, <2>2, <2>3, <2>d, GoesTo
  <2>5. ~d.doubt => Knows(d, now)
    BY <1>7, <2>1, <2>2, <2>4 DEF Knows, Asked
  <2>6. /\ d.op = c.op /\ d.name = c.name /\ d.begin = c.begin /\ d.at # "delete" /\ d.at # "store"
        /\ d.at \notin Quiet /\ (~d.doubt => Knows(d, bucket[d.name]))
    BY <1>i, <2>1, <2>2, <2>4, <2>5
  <2>. QED BY <1>1, <1>2, <1>3, <1>7, <2>4, <2>6, KnownStep
<1>8. CASE now.form = Asks[c.at] /\ Turn(t, At([c EXCEPT !.attr = now], "add"))
  <2>1. [c EXCEPT !.attr = now] = [c EXCEPT !.attr = now, !.doubt = c.doubt] /\ c.doubt \in BOOLEAN
    BY <1>2 DEF Record
  <2>. QED BY <1>4, <1>7, <1>8, <2>1
<1>9. CASE now.form # Asks[c.at] /\ Turn(t, At([c EXCEPT !.attr = missed], AsksNext[c.at]))
  <2>1. [c EXCEPT !.attr = missed] = [c EXCEPT !.attr = missed, !.doubt = c.doubt]
        /\ c.doubt \in BOOLEAN
    BY <1>2 DEF Record
  <2>2. AsksNext[c.at] # "add" => AsksNext[c.at] \in DOMAIN Asked
    BY <1>n DEF Asked
  <2> HIDE DEF now, missed
  <2>. QED BY <1>4, <1>6, <1>7, <1>9, <1>n, <2>1, <2>2
<1>10. CASE Turn(t, At([c EXCEPT !.attr = missed, !.doubt = TRUE], AsksNext[c.at]))
  <2> HIDE DEF now, missed
  <2>. QED BY <1>4, <1>7, <1>10, <1>n
<1>. QED BY <1>8, <1>9, <1>10 DEF Ask

\* The first section of AddStat or AddNoObjectCache.
LEMMA AddShrinks ==
  ASSUME IInv, NEW t \in Thread, Add(t) PROVE Shrinks(t)
<1> DEFINE c == call[t] k == KeyOf(c.name, c.attr)
<1>1. TypeInv /\ LookOK /\ OpenOK /\ c.at = "add" /\ UNCHANGED <<bucket, cache>>
      /\ IsFiniteSet(Cached)
  BY DEF IInv, Add, SizeOK
<1>2. /\ c \in Record /\ StageOK(c) /\ c.op # "idle" /\ ~Between(c) /\ c.todo # Program["open"]
      /\ c.todo \in {<<"look">>, <<"look", "look">>, <<"fill">>} /\ c.at # "store" /\ c.name \in Name
  BY <1>1, InLookup
<1>3. cache' \in [Key -> CachedEntry \cup {NoEntry}] /\ \A kk \in Key : cache'[kk] \in {cache[kk], NoEntry}
  BY <1>1, SameCache
<1>4. ~c.doubt => c.attr = bucket[c.name]
  BY <1>1, <1>2 DEF LookOK, Knows
<1>c. Cached' = Cached
  BY <1>1 DEF Cached
<1>5. CASE Turn(t, Proceed(c))
  <2>1. c.op = "open" /\ ~c.doubt => c.begin <= c.attr.version
    BY <1>1, <1>4 DEF OpenOK
  <2>. QED BY <1>1, <1>2, <1>3, <1>5, <2>1, Ends
<1>6. ASSUME NEW place \in {"delete", "room", "store"}, Turn(t, At(c, place)),
             place = "delete" => k \in Cached,
             place = "store" => k \in Cached \/ ~(Cardinality(Cached) > CacheSize)
      PROVE  Shrinks(t)
  <2> DEFINE d == At(c, place)
  <2>1. place \in Places /\ place # "drop" /\ place \notin Quiet
    BY DEF Places, Quiet
  <2>2. /\ d \in Record /\ StageOK(d) /\ d.at = place /\ d.attr = c.attr /\ d.doubt = c.doubt
        /\ d.op = c.op /\ d.name = c.name /\ d.begin = c.begin
    BY <1>2, <2>1, GoesTo
  <2>3. Turn(t, d)
    BY <1>6
  <2> HIDE DEF d
  <2>4. ~d.doubt => Knows(d, bucket[d.name])
    BY <1>4, <2>1, <2>2 DEF Knows, Asked
  <2>5. Cardinality(Cached) \in Nat
    BY <1>1, FS_CardinalityType
  <2>6. /\ d.at = "delete" => KeyOf(d.name, d.attr) \in Cached'
        /\ d.at = "store" =>
             KeyOf(d.name, d.attr) \in Cached' \/ Cardinality(Cached') <= CacheSize
    BY <1>6, <1>c, <2>2, <2>5
  <2>. QED BY <1>1, <1>2, <1>3, <2>1, <2>2, <2>3, <2>4, <2>6, KnownStep
<1>. QED BY <1>5, <1>6 DEF Add

\* A cache that has lost an entry is smaller.
LEMMA OneLess ==
  ASSUME IsFiniteSet(Cached), Cached' \subseteq Cached, NEW k \in Cached, k \notin Cached'
  PROVE  Cardinality(Cached') <= Cardinality(Cached) - 1
<1>1. Cached' \subseteq Cached \ {k}
  OBVIOUS
<1>2. IsFiniteSet(Cached \ {k}) /\ Cardinality(Cached \ {k}) = Cardinality(Cached) - 1
  BY FS_RemoveElement
<1>. QED BY <1>1, <1>2, FS_Subset

\* Another thread's entry is deleted before an add replaces it, or the oldest
\* one when there is no room.
LEMMA GoesToStore ==
  ASSUME IInv, NEW t \in Thread, call[t].at \in {"delete", "room"}, bucket' = bucket,
         Turn(t, At(call[t], "store")), cache' \in [Key -> CachedEntry \cup {NoEntry}],
         \A k \in Key : cache'[k] \in {cache[k], NoEntry},
         t \in alone /\ ~raced => Cardinality(Cached') <= CacheSize
  PROVE  Shrinks(t)
<1> DEFINE c == call[t] d == At(c, "store")
<1>1. TypeInv /\ LookOK
  BY DEF IInv
<1>2. /\ c \in Record /\ StageOK(c) /\ c.op # "idle" /\ ~Between(c) /\ c.todo # Program["open"]
      /\ c.todo \in {<<"look">>, <<"look", "look">>, <<"fill">>} /\ c.at # "store" /\ c.name \in Name
  BY <1>1, InLookup
<1>3. ~c.doubt => c.attr = bucket[c.name]
  BY <1>1, <1>2 DEF LookOK, Knows
<1>4. "store" \in Places /\ "store" \notin Quiet
  BY DEF Places, Quiet
<1>5. /\ d \in Record /\ StageOK(d) /\ d.at = "store" /\ d.attr = c.attr /\ d.doubt = c.doubt
      /\ d.op = c.op /\ d.name = c.name /\ d.begin = c.begin
  BY <1>2, <1>4, GoesTo
<1> HIDE DEF d
<1>6. ~d.doubt => Knows(d, bucket[d.name])
  BY <1>3, <1>5 DEF Knows, Asked
<1>7. Turn(t, d)
  BY DEF d
<1>. QED BY <1>1, <1>2, <1>4, <1>5, <1>6, <1>7, KnownStep

\* The section of AddStat that deletes what it replaces.
LEMMA AddDeletesShrinks ==
  ASSUME IInv, NEW t \in Thread, AddDeletes(t) PROVE Shrinks(t)
<1> DEFINE c == call[t] k == KeyOf(c.name, c.attr)
<1>1. /\ TypeInv /\ SizeOK /\ c.at = "delete" /\ cache' = DelStat(c.name) /\ bucket' = bucket
      /\ Turn(t, At(c, "store"))
  BY DEF IInv, AddDeletes
<1>2. c.name \in Name
  BY <1>1, InLookup
<1>3. /\ cache' \in [Key -> CachedEntry \cup {NoEntry}]
      /\ \A kk \in Key : cache'[kk] \in {cache[kk], NoEntry}
      /\ \A kk \in Key : kk[1] = c.name => cache'[kk] = NoEntry
  BY <1>1, <1>2, DelStatCache
<1>4. ASSUME t \in alone, ~raced PROVE Cardinality(Cached') <= CacheSize
  <2>1. k \in Cached /\ k[1] = c.name /\ k \in Key
    BY <1>1, <1>4, CachedIs DEF SizeOK, AloneOK, KeyOf
  <2>2. k \notin Cached' /\ Cached' \subseteq Cached
    BY <1>3, <2>1 DEF Cached
  <2>3. Cardinality(Cached') <= Cardinality(Cached) - 1
    BY <1>1, <2>1, <2>2, OneLess DEF SizeOK
  <2>4. Cardinality(Cached) \in Nat /\ Cardinality(Cached') \in Nat
    BY <1>1, <2>2, FS_CardinalityType, FS_Subset DEF SizeOK
  <2>. QED BY <1>1, <1>4, <2>3, <2>4 DEF SizeOK
<1>. QED BY <1>1, <1>3, <1>4, GoesToStore

\* StatCache::TruncateCache
LEMMA MakeRoomShrinks ==
  ASSUME IInv, NEW t \in Thread, MakeRoom(t) PROVE Shrinks(t)
<1>1. /\ TypeInv /\ SizeOK /\ call[t].at = "room" /\ bucket' = bucket
      /\ Turn(t, At(call[t], "store"))
  BY DEF IInv, MakeRoom
<1>2. CASE Cached = {} /\ cache' = cache
  <2>1. cache' \in [Key -> CachedEntry \cup {NoEntry}] /\ \A k \in Key : cache'[k] \in {cache[k], NoEntry}
    BY <1>1, <1>2, SameCache
  <2>2. Cached' = {}
    BY <1>2 DEF Cached
  <2>3. Cardinality(Cached') <= CacheSize
    BY <2>2, FS_EmptySet
  <2>. QED BY <1>1, <2>1, <2>3, GoesToStore
<1>3. CASE \E k \in Cached : cache' = [cache EXCEPT ![k] = NoEntry]
  <2>1. PICK k \in Cached : cache' = [cache EXCEPT ![k] = NoEntry]
    BY <1>3
  <2>2. cache' \in [Key -> CachedEntry \cup {NoEntry}] /\ \A kk \in Key : cache'[kk] \in {cache[kk], NoEntry}
    BY <1>1, <2>1 DEF TypeInv
  <2>3. k \in Key /\ cache'[k] = NoEntry
    BY <1>1, <2>1, CachedIs DEF TypeInv
  <2>4. k \notin Cached' /\ Cached' \subseteq Cached
    BY <2>2, <2>3 DEF Cached
  <2>5. Cardinality(Cached') <= Cardinality(Cached) - 1
    BY <1>1, <2>4, OneLess DEF SizeOK
  <2>6. Cardinality(Cached) \in Nat /\ Cardinality(Cached') \in Nat
    BY <1>1, <2>4, FS_CardinalityType, FS_Subset DEF SizeOK
  <2>7. ~raced => Cardinality(Cached') <= CacheSize
    BY <1>1, <2>5, <2>6 DEF SizeOK
  <2>. QED BY <1>1, <2>2, <2>7, GoesToStore
<1>. QED BY <1>2, <1>3 DEF MakeRoom

\* The lists of phases that begin with DelStat, or with a request.
LEMMA Heads ==
  ASSUME NEW c \in Record, StageOK(c), c.todo # <<>>
  PROVE  /\ c.op # "idle" /\ c.op \in DOMAIN Program /\ c.name \in Name
         /\ Head(c.todo) = "forget" => Tail(c.todo) # <<"look">>
         /\ Head(c.todo) = "grow" => c.op = "save" /\ Tail(c.todo) = <<"put", "forget">>
         /\ Head(c.todo) \in Requests => c.op \in Changes
         /\ Head(c.todo) \in Requests /\ Between(c) => Tail(c.todo) = <<"forget">> /\ c.op = "save"
         /\ Head(c.todo) \in Requests /\ Tail(c.todo) # <<>> =>
              Tail(c.todo) # Program[c.op] /\ c.op # "open"
<1>1. c.op # "idle"
  BY DEF StageOK
<1>2. c.op \in DOMAIN Program /\ c.name \in Name
  BY <1>1 DEF Record, StageOK
<1>t. /\ Tail(<<"forget", "look", "look">>) = <<"look", "look">> /\ Tail(<<"put", "forget">>) = <<"forget">>
      /\ Tail(<<"forget">>) = <<>> /\ Tail(<<"putdir", "forget">>) = <<"forget">>
      /\ Tail(<<"grow", "put", "forget">>) = <<"put", "forget">>
      /\ Tail(<<"delete", "forget">>) = <<"forget">>
      /\ Tail(<<"delete", "forget", "deletefolder">>) = <<"forget", "deletefolder">>
      /\ Tail(<<"forget", "deletefolder">>) = <<"deletefolder">>
      /\ Tail(<<"deletefolder">>) = <<>> /\ Tail(<<"putdir">>) = <<>>
      /\ Tail(<<"deletefolder", "forget", "putdir">>) = <<"forget", "putdir">>
      /\ Tail(<<"forget", "putdir">>) = <<"putdir">>
  OBVIOUS
<1>h. /\ Head(<<"forget", "look", "look">>) = "forget" /\ Head(<<"put", "forget">>) = "put"
      /\ Head(<<"forget">>) = "forget" /\ Head(<<"putdir", "forget">>) = "putdir"
      /\ Head(<<"grow", "put", "forget">>) = "grow" /\ Head(<<"delete", "forget">>) = "delete"
      /\ Head(<<"delete", "forget", "deletefolder">>) = "delete"
      /\ Head(<<"forget", "deletefolder">>) = "forget"
      /\ Head(<<"deletefolder">>) = "deletefolder" /\ Head(<<"putdir">>) = "putdir"
      /\ Head(<<"deletefolder", "forget", "putdir">>) = "deletefolder"
      /\ Head(<<"forget", "putdir">>) = "forget" /\ Head(<<"look">>) = "look"
      /\ Head(<<"look", "look">>) = "look" /\ Head(<<"list", "fill">>) = "list"
      /\ Head(<<"fill">>) = "fill"
  OBVIOUS
<1>4. /\ \A x, y : <<x, y>> # <<"look">> /\ <<x>> # <<>>
      /\ \A x, y, z, u, v : <<x, y>> # <<u, v, z>> /\ <<x>> # <<y, z>> /\ <<x>> # <<y, z, u>>
  OBVIOUS
<1>5. Head(c.todo) = "forget" => Tail(c.todo) # <<"look">>
  <2>1. /\ <<"forget", "look">> # <<"look">> /\ <<>> # <<"look">> /\ <<"deletefolder">> # <<"look">>
        /\ <<"putdir">> # <<"look">> /\ <<"look", "look">> # <<"look">>
    OBVIOUS
  <2>2. /\ Tail(<<"forget", "look", "look">>) # <<"look">> /\ Tail(<<"forget">>) # <<"look">>
        /\ Tail(<<"forget", "deletefolder">>) # <<"look">>
        /\ Tail(<<"forget", "putdir">>) # <<"look">>
    BY <1>t, <2>1
  <2>3. Head(c.todo) = "forget" =>
          c.todo \in {<<"forget", "look", "look">>, <<"forget">>, <<"forget", "deletefolder">>,
                      <<"forget", "putdir">>}
    BY <1>1, <1>h, Phases
  <2>. QED BY <2>2, <2>3
<1>6. Head(c.todo) = "grow" => c.op = "save" /\ Tail(c.todo) = <<"put", "forget">>
  BY <1>1, <1>h, <1>t, Phases
<1>7. Head(c.todo) \in Requests =>
        \/ c.op \in {"create", "set"} /\ c.todo = <<"put", "forget">>
        \/ c.op = "mkdir" /\ c.todo = <<"putdir", "forget">>
        \/ c.op = "save" /\ c.todo = <<"put", "forget">>
        \/ c.op = "unlink" /\ c.todo = <<"delete", "forget">>
        \/ c.op = "rmdir" /\ c.todo = <<"delete", "forget", "deletefolder">>
        \/ c.op = "rmdir" /\ c.todo = <<"deletefolder">>
        \/ c.op = "rebuild" /\ c.todo = <<"deletefolder", "forget", "putdir">>
        \/ c.op = "rebuild" /\ c.todo = <<"putdir">>
  <2>1. {"look", "forget", "list", "fill", "grow"} \cap Requests = {}
    BY DEF Requests
  <2>. QED BY <1>1, <1>h, <2>1, Phases
<1>8. Head(c.todo) \in Requests => c.op \in Changes /\ c.op # "open"
  BY <1>7, Handlers
<1>9. Head(c.todo) \in Requests /\ Between(c) => Tail(c.todo) = <<"forget">> /\ c.op = "save"
  <2>1. /\ <<"put", "forget">> # <<"forget">> /\ <<"put", "forget">> # <<"forget", "deletefolder">>
        /\ <<"put", "forget">> # <<"forget", "putdir">>
    OBVIOUS
  <2>2. /\ <<"deletefolder">> # <<"forget">> /\ <<"deletefolder">> # <<"forget", "deletefolder">>
        /\ <<"deletefolder">> # <<"put", "forget">> /\ <<"putdir">> # <<"forget">>
        /\ <<"putdir">> # <<"forget", "putdir">>
    OBVIOUS
  <2>3. /\ <<"delete", "forget">> # <<"forget">> /\ <<"putdir", "forget">> # <<"forget">>
        /\ <<"delete", "forget", "deletefolder">> # <<"forget", "deletefolder">>
        /\ <<"delete", "forget", "deletefolder">> # <<"forget">>
        /\ <<"deletefolder", "forget", "putdir">> # <<"forget", "putdir">>
    OBVIOUS
  <2>4. Between(c) =>
           \/ c.op \in {"create", "set", "mkdir", "save", "unlink"} /\ c.todo = <<"forget">>
           \/ c.op = "save" /\ c.todo = <<"put", "forget">>
           \/ c.op = "rmdir" /\ c.todo = <<"forget", "deletefolder">>
           \/ c.op = "rebuild" /\ c.todo = <<"forget", "putdir">>
    BY <1>1, BetweenIs
  <2>5. Head(c.todo) \in Requests /\ Between(c) => c.op = "save" /\ c.todo = <<"put", "forget">>
    BY <1>7, <2>1, <2>2, <2>3, <2>4
  <2>. QED BY <1>t, <2>5
<1>10. Head(c.todo) \in Requests /\ Tail(c.todo) # <<>> => Tail(c.todo) # Program[c.op]
  <2>1. /\ Program["create"] = <<"put", "forget">> /\ Program["mkdir"] = <<"putdir", "forget">>
        /\ Program["set"] = <<"put", "forget">> /\ Program["save"] = <<"grow", "put", "forget">>
        /\ Program["unlink"] = <<"delete", "forget">>
        /\ Program["rmdir"] = <<"delete", "forget", "deletefolder">>
        /\ Program["rebuild"] = <<"deletefolder", "forget", "putdir">>
    BY DEF Program
  <2>2. Head(c.todo) \in Requests /\ Tail(c.todo) # <<>> =>
           \/ c.op \in {"create", "set", "mkdir", "save", "unlink"} /\ Tail(c.todo) = <<"forget">>
           \/ c.op = "rmdir" /\ Tail(c.todo) = <<"forget", "deletefolder">>
           \/ c.op = "rebuild" /\ Tail(c.todo) = <<"forget", "putdir">>
    BY <1>t, <1>7
  <2>. QED BY <1>4, <2>1, <2>2
<1>. QED BY <1>1, <1>2, <1>5, <1>6, <1>8, <1>9, <1>10

\* s3fs_open, and a handler after its change, deletes the entries.
LEMMA ForgetShrinks ==
  ASSUME IInv, NEW t \in Thread, Forget(t) PROVE Shrinks(t)
<1> DEFINE c == call[t] d == Proceed(c)
<1>1. /\ TypeInv /\ c \in Record /\ StageOK(c) /\ c.todo # <<>> /\ Head(c.todo) = "forget"
      /\ c.at = "start" /\ cache' = DelStat(c.name) /\ bucket' = bucket /\ Turn(t, d)
  BY DEF IInv, TypeInv, Forget, Doing
<1>2. c.op # "idle" /\ c.name \in Name /\ Tail(c.todo) # <<"look">>
  BY <1>1, Heads
<1>3. /\ cache' \in [Key -> CachedEntry \cup {NoEntry}]
      /\ \A k \in Key : cache'[k] \in {cache[k], NoEntry}
      /\ \A k \in Key : k[1] = c.name => cache'[k] = NoEntry
  BY <1>1, <1>2, DelStatCache
<1>4. /\ d \in Record /\ StageOK(d) /\ d.at = "start"
      /\ d.op # "idle" => /\ d.op = c.op /\ d.name = c.name /\ d.begin = c.begin
                          /\ d.todo = Tail(c.todo)
  BY <1>1, <1>2, Proceeds, IdleIs
<1> HIDE DEF d
<1>5. Moves(t) /\ call'[t] = d
  BY <1>1, <1>2, <1>4, Turned
<1>6. Fresh(d)
  BY <1>2, <1>4 DEF Fresh, Returns
<1>7. Knows(d, bucket[d.name]) /\ AloneOK(t)'
  BY <1>4, <1>5 DEF Knows, Asked, AloneOK
<1>. QED BY <1>1, <1>3, <1>5, <1>6, <1>7 DEF Shrinks

-----------------------------------------------------------------------------
(***************************************************************************)
(* The other steps.                                                        *)
(***************************************************************************)
\* A handler in between stays so when another thread takes a step.
LEMMA StillChanging ==
  ASSUME NEW t \in Thread, \A u \in Thread : u # t => call'[u] = call[u], NEW n,
         Between(call[t]) /\ call[t].name = n => Between(call'[t]) /\ call'[t].name = n
  PROVE  Changing(n) => Changing(n)'
<1>1. Changing(n)' <=> \E v \in Thread : call'[v].name = n /\ Between(call'[v])
  BY DEF Changing, Between
<1>. QED BY <1>1, ChangingIs

\* The last section of AddStat: the thread goes on, and its entry is there.
Stores(t) ==
  LET k == KeyOf(call[t].name, call[t].attr) IN
  /\ Moves(t) /\ bucket' = bucket /\ call[t].at = "store" /\ call'[t].at \in Quiet
  /\ cache' = [cache EXCEPT ![k] = [attr |-> call[t].attr, grown |-> FALSE, doubt |-> call[t].doubt]]
  /\ Fresh(call'[t]) /\ ~Between(call[t]) /\ call[t].todo # Program["open"]
  /\ ~call[t].doubt => call[t].attr = bucket[call[t].name]
  /\ k \in Key /\ k[1] = call[t].name /\ call[t] \in Record

\* Store is such a step.
LEMMA StoreStores ==
  ASSUME IInv, NEW t \in Thread, Store(t) PROVE Stores(t)
<1> DEFINE c == call[t] k == KeyOf(c.name, c.attr)
<1>1. /\ TypeInv /\ LookOK /\ OpenOK /\ c.at = "store" /\ bucket' = bucket
      /\ cache' = [cache EXCEPT ![k] = [attr |-> c.attr, grown |-> FALSE, doubt |-> c.doubt]]
  BY DEF IInv, Store
<1>2. /\ c \in Record /\ StageOK(c) /\ c.op # "idle" /\ ~Between(c) /\ c.todo # Program["open"]
      /\ c.todo \in {<<"look">>, <<"look", "look">>, <<"fill">>} /\ c.name \in Name
  BY <1>1, InLookup
<1>3. ~c.doubt => c.attr = bucket[c.name]
  BY <1>1, <1>2 DEF LookOK, Knows
<1>4. k \in Key /\ k[1] = c.name
  BY <1>2 DEF Key, KeyOf
<1>5. c.op = "open" /\ ~c.doubt => c.begin <= c.attr.version
  BY <1>1, <1>3 DEF OpenOK
<1>6. CASE Turn(t, Proceed(c))
  <2> DEFINE d == Proceed(c)
  <2>1. /\ d \in Record /\ StageOK(d) /\ d.at \in Quiet /\ Fresh(d)
        /\ d.op # "idle" => d.op = c.op /\ d.name = c.name /\ d.begin = c.begin
    BY <1>2, <1>5, ProceedsFresh
  <2>2. Turn(t, d)
    BY <1>6
  <2> HIDE DEF d
  <2>3. Moves(t) /\ call'[t] = d
    BY <1>1, <1>2, <2>1, <2>2, Turned
  <2>. QED BY <1>1, <1>2, <1>3, <1>4, <2>1, <2>3 DEF Stores
<1>7. CASE Turn(t, At(c, "reget"))
  <2> DEFINE d == At(c, "reget")
  <2>1. "reget" \in Places
    BY DEF Places
  <2>2. /\ d \in Record /\ StageOK(d) /\ d.at = "reget" /\ d.attr = c.attr /\ d.doubt = c.doubt
        /\ d.op = c.op /\ d.name = c.name /\ d.begin = c.begin
    BY <1>2, <2>1, GoesTo
  <2>3. Turn(t, d)
    BY <1>7
  <2> HIDE DEF d
  <2>4. Moves(t) /\ call'[t] = d
    BY <1>1, <1>2, <2>2, <2>3, Turned
  <2>5. d.at \in Quiet /\ Fresh(d)
    BY <1>5, <2>2 DEF Quiet, Fresh
  <2>. QED BY <1>1, <1>2, <1>3, <1>4, <2>4, <2>5 DEF Stores
<1>. QED BY <1>6, <1>7 DEF Store

\* What the cache holds after it.
LEMMA StoredEntry ==
  ASSUME TypeInv, NEW t \in Thread, Stores(t)
  PROVE  LET k == KeyOf(call[t].name, call[t].attr) IN
         /\ cache' \in [Key -> CachedEntry \cup {NoEntry}]
         /\ Cached' \subseteq Cached \cup {k}
         /\ cache'[k].attr = call[t].attr /\ ~cache'[k].grown /\ cache'[k].doubt = call[t].doubt
         /\ \A kk \in Key : kk # k => cache'[kk] = cache[kk]
<1> DEFINE k == KeyOf(call[t].name, call[t].attr)
           e == [attr |-> call[t].attr, grown |-> FALSE, doubt |-> call[t].doubt]
<1>1. k \in Key /\ cache' = [cache EXCEPT ![k] = e] /\ cache \in [Key -> CachedEntry \cup {NoEntry}]
  BY DEF Stores, TypeInv
<1>2. e \in CachedEntry /\ e.attr = call[t].attr /\ ~e.grown /\ e.doubt = call[t].doubt
  BY DEF Stores, Record, CachedEntry
<1> HIDE DEF k, e
<1>3. /\ cache' \in [Key -> CachedEntry \cup {NoEntry}] /\ cache'[k] = e
      /\ \A kk \in Key : kk # k => cache'[kk] = cache[kk]
  BY <1>1, <1>2
<1>4. Cached' \subseteq Cached \cup {k}
  BY <1>1, <1>2, <1>3 DEF Cached
<1>. QED BY <1>2, <1>3, <1>4 DEF k

\* The invariant after it, conjunct by conjunct: the types,
LEMMA StoreTypes ==
  ASSUME TypeInv, NEW t \in Thread, Stores(t), Watch(t) PROVE TypeInv'
<1>1. cache' \in [Key -> CachedEntry \cup {NoEntry}]
  BY StoredEntry
<1>2. /\ bucket' \in [Name -> Attributes] /\ call' \in [Thread -> Record]
      /\ \A u \in Thread : StageOK(call'[u])
  BY DEF TypeInv, Stores, Moves
<1>3. alone' \subseteq Thread /\ raced' \in BOOLEAN
  BY DEF TypeInv, Watch
<1>. QED BY <1>1, <1>2, <1>3 DEF TypeInv

\* what the lookups know,
LEMMA StoreLook ==
  ASSUME TypeInv, LookOK, NEW t \in Thread, Stores(t) PROVE LookOK'
<1> SUFFICES ASSUME NEW u \in Thread, ~call'[u].doubt, call'[u].op # "idle"
             PROVE  Knows(call'[u], bucket'[call'[u].name])
  BY DEF LookOK
<1>1. CASE u = t
  BY <1>1 DEF Stores, Quiet, Knows, Asked
<1>2. CASE u # t
  BY <1>2 DEF Stores, Moves, LookOK
<1>. QED BY <1>1, <1>2

\* the entries,
LEMMA StoreCurrent ==
  ASSUME TypeInv, CachedIsCurrent, NEW t \in Thread, Stores(t) PROVE CachedIsCurrent'
<1> DEFINE k == KeyOf(call[t].name, call[t].attr)
<1> SUFFICES ASSUME NEW kk \in Cached', ~cache'[kk].doubt, ~Changing(kk[1])'
             PROVE  cache'[kk].attr = bucket'[kk[1]] /\ kk = KeyOf(kk[1], cache'[kk].attr)
                    /\ ~cache'[kk].grown
  BY DEF CachedIsCurrent, KeyOf
<1>1. bucket' = bucket /\ kk \in Key /\ cache'[kk] # NoEntry
  BY DEF Stores, Cached
<1>2. ~Changing(kk[1])
  BY StillChanging DEF Stores, Moves
<1>3. CASE kk = k
  <2>1. /\ cache'[k].attr = call[t].attr /\ ~cache'[k].grown /\ cache'[k].doubt = call[t].doubt
    BY StoredEntry
  <2>2. k[1] = call[t].name /\ (~call[t].doubt => call[t].attr = bucket[call[t].name])
    BY DEF Stores
  <2>. QED BY <1>1, <1>3, <2>1, <2>2
<1>4. CASE kk # k
  <2>1. cache'[kk] = cache[kk] /\ kk \in Cached
    BY <1>1, <1>4, StoredEntry DEF Cached
  <2>. QED BY <1>1, <1>2, <2>1 DEF CachedIsCurrent
<1>. QED BY <1>3, <1>4

\* what s3fs_open finds,
LEMMA StoreOpen ==
  ASSUME TypeInv, OpenOK, NEW t \in Thread, Stores(t) PROVE OpenOK'
<1> DEFINE k == KeyOf(call[t].name, call[t].attr)
<1> SUFFICES ASSUME NEW u \in Thread, call'[u].op = "open"
             PROVE  /\ call'[u].begin <= bucket'[call'[u].name].version
                    /\ call'[u].todo # Program["open"] =>
                         \A kk \in Cached' : kk[1] = call'[u].name /\ ~cache'[kk].doubt
                                             => call'[u].begin <= cache'[kk].attr.version
                    /\ Fresh(call'[u])
  BY DEF OpenOK, Fresh
<1>1. /\ call[u].op = "open" /\ call'[u].begin = call[u].begin /\ call'[u].name = call[u].name
      /\ call'[u].todo # Program["open"] => call[u].todo # Program["open"]
  BY DEF Stores, Moves
<1>2. call'[u].begin <= bucket'[call'[u].name].version /\ bucket' = bucket
  BY <1>1 DEF OpenOK, Stores
<1>3. Fresh(call'[u])
  <2>1. CASE u = t
    BY <2>1 DEF Stores
  <2>2. CASE u # t
    BY <2>2 DEF Stores, Moves, OpenOK, Fresh
  <2>. QED BY <2>1, <2>2
<1>4. ASSUME call'[u].todo # Program["open"], NEW kk \in Cached', kk[1] = call'[u].name,
             ~cache'[kk].doubt
      PROVE  call'[u].begin <= cache'[kk].attr.version
  <2>1. CASE kk = k
    <3>1. cache'[kk].attr = call[t].attr /\ cache'[kk].doubt = call[t].doubt
      BY <2>1, StoredEntry
    <3>2. call[t].attr = bucket[kk[1]]
      BY <1>4, <2>1, <3>1 DEF Stores
    <3>. QED BY <1>2, <1>4, <3>1, <3>2
  <2>2. CASE kk # k
    <3>1. cache'[kk] = cache[kk] /\ kk \in Cached
      BY <2>2, StoredEntry DEF Cached
    <3>. QED BY <1>1, <1>4, <3>1 DEF OpenOK
  <2>. QED BY <2>1, <2>2
<1>. QED BY <1>2, <1>3, <1>4

\* and the size.
LEMMA StoreSize ==
  ASSUME TypeInv, SizeOK, NEW t \in Thread, Stores(t), Watch(t) PROVE SizeOK'
<1> DEFINE k == KeyOf(call[t].name, call[t].attr)
<1>1. Cached' \subseteq Cached \cup {k} /\ IsFiniteSet(Cached) /\ Cardinality(Cached) \in Nat
  BY StoredEntry, FS_CardinalityType DEF SizeOK
<1>2. IsFiniteSet(Cached') /\ IsFiniteSet(Cached \cup {k})
      /\ Cardinality(Cached') <= Cardinality(Cached \cup {k})
      /\ Cardinality(Cached') \in Nat /\ Cardinality(Cached \cup {k}) \in Nat
  BY <1>1, FS_AddElement, FS_Subset, FS_CardinalityType
<1>3. Cardinality(Cached \cup {k}) = IF k \in Cached THEN Cardinality(Cached) ELSE Cardinality(Cached) + 1
  BY <1>1, FS_AddElement
<1>4. \A u \in Thread : ~Adding(call'[u]) => u \in alone'
  BY DEF Watch
<1>5. ASSUME ~raced' PROVE ~raced /\ t \in alone
  BY <1>5 DEF Watch, Stores, TypeInv
<1>6. ASSUME ~raced' PROVE Cardinality(Cached') <= CacheSize + 1
  <2>1. k \in Cached \/ Cardinality(Cached) <= CacheSize
    BY <1>5, <1>6 DEF SizeOK, AloneOK, Stores
  <2>2. Cardinality(Cached) <= CacheSize + 1
    BY <1>5, <1>6 DEF SizeOK
  <2>. QED BY <1>1, <1>2, <1>3, <2>1, <2>2
<1>7. ASSUME ~raced', NEW u \in alone' PROVE AloneOK(u)'
  <2>1. CASE ~Adding(call'[u])
    BY <2>1 DEF AloneOK, Adding
  <2>2. CASE Adding(call'[u])
    <3>1. u # t
      BY <2>2 DEF Stores, Quiet, Adding
    <3>2. u \in Thread /\ u \in alone /\ cache' = cache
      BY <2>2, <3>1, <1>7 DEF Watch
    <3>3. call'[u] = call[u] /\ AloneOK(u)
      BY <1>5, <1>7, <3>1, <3>2 DEF Stores, Moves, SizeOK
    <3>. QED BY <3>2, <3>3 DEF AloneOK, Cached
  <2>. QED BY <2>1, <2>2
<1>. QED BY <1>2, <1>4, <1>6, <1>7 DEF SizeOK

\* A handler begins, or a write makes the size of a cached entry grow: the
\* thread is not within a lookup, before or after.
Calm(t) ==
  /\ call' \in [Thread -> Record] /\ \A u \in Thread : u # t => call'[u] = call[u]
  /\ StageOK(call'[t]) /\ call[t].at = "start" /\ call'[t].at = "start" /\ bucket' = bucket
  /\ cache' \in [Key -> CachedEntry \cup {NoEntry}]
  /\ \A k \in Cached' :
       /\ k \in Cached /\ cache'[k].attr = cache[k].attr /\ cache'[k].doubt = cache[k].doubt
       /\ cache'[k] = cache[k] \/ (k[1] = call'[t].name /\ Between(call'[t]))
  /\ Between(call[t]) => Between(call'[t]) /\ call'[t].name = call[t].name
  /\ call'[t].op = "open" => /\ call'[t].begin <= bucket[call'[t].name].version
                             /\ call'[t].todo = Program["open"]

\* The invariant after such a step: the entries,
LEMMA CalmCurrent ==
  ASSUME TypeInv, CachedIsCurrent, NEW t \in Thread, Calm(t) PROVE CachedIsCurrent'
<1> SUFFICES ASSUME NEW k \in Cached', ~cache'[k].doubt, ~Changing(k[1])'
             PROVE  cache'[k].attr = bucket'[k[1]] /\ k = KeyOf(k[1], cache'[k].attr)
                    /\ ~cache'[k].grown
  BY DEF CachedIsCurrent, KeyOf
<1>1. ~Changing(k[1])
  BY StillChanging DEF Calm
<1>2. ASSUME k[1] = call'[t].name, Between(call'[t]) PROVE FALSE
  <2>1. Changing(k[1])' <=> \E v \in Thread : call'[v].name = k[1] /\ Between(call'[v])
    BY DEF Changing, Between
  <2>. QED BY <1>2, <2>1
<1>3. k \in Cached /\ cache'[k] = cache[k] /\ bucket' = bucket
  BY <1>2 DEF Calm
<1>. QED BY <1>1, <1>3 DEF CachedIsCurrent

\* what s3fs_open finds,
LEMMA CalmOpen ==
  ASSUME TypeInv, OpenOK, NEW t \in Thread, Calm(t) PROVE OpenOK'
<1> SUFFICES ASSUME NEW u \in Thread, call'[u].op = "open"
             PROVE  /\ call'[u].begin <= bucket'[call'[u].name].version
                    /\ call'[u].todo # Program["open"] =>
                         \A k \in Cached' : k[1] = call'[u].name /\ ~cache'[k].doubt
                                             => call'[u].begin <= cache'[k].attr.version
                    /\ call'[u].todo # Program["open"] => Fresh(call'[u])
  BY DEF OpenOK, Fresh
<1>1. CASE u = t
  BY <1>1 DEF Calm
<1>2. CASE u # t
  <2>1. call'[u] = call[u] /\ bucket' = bucket
    BY <1>2 DEF Calm
  <2>2. \A k \in Cached' :
          k \in Cached /\ cache'[k].attr = cache[k].attr /\ cache'[k].doubt = cache[k].doubt
    BY DEF Calm
  <2>. QED BY <2>1, <2>2 DEF OpenOK, Fresh
<1>. QED BY <1>1, <1>2

\* and the size, which no step of this kind makes larger.
LEMMA CalmSize ==
  ASSUME TypeInv, SizeOK, NEW t \in Thread, call[t].at = "start", call'[t].at = "start",
         Watch(t), Cached' \subseteq Cached,
         \A u \in Thread : /\ call'[u].at = call[u].at \/ u = t
                           /\ call'[u].name = call[u].name \/ u = t
                           /\ call'[u].attr = call[u].attr \/ u = t
  PROVE SizeOK'
<1>1. IsFiniteSet(Cached') /\ Cardinality(Cached') <= Cardinality(Cached)
      /\ Cardinality(Cached') \in Nat /\ Cardinality(Cached) \in Nat
  BY FS_Subset, FS_CardinalityType DEF SizeOK
<1>2. \A u \in Thread : ~Adding(call'[u]) => u \in alone'
  BY DEF Watch
<1>3. raced' = raced
  BY DEF Watch, TypeInv
<1>4. ASSUME ~raced, NEW u \in alone' PROVE AloneOK(u)'
  <2>1. CASE ~Adding(call'[u])
    BY <2>1 DEF AloneOK, Adding
  <2>2. CASE Adding(call'[u])
    <3>1. u # t
      BY <2>2 DEF Adding
    <3>2. u \in Thread /\ u \in alone /\ cache' = cache
      BY <1>4, <2>2, <3>1 DEF Watch
    <3>3. AloneOK(u) /\ call'[u].at = call[u].at /\ call'[u].name = call[u].name
          /\ call'[u].attr = call[u].attr
      BY <1>4, <3>1, <3>2 DEF SizeOK
    <3>. QED BY <3>2, <3>3 DEF AloneOK, Cached
  <2>. QED BY <2>1, <2>2
<1>. QED BY <1>1, <1>2, <1>3, <1>4 DEF SizeOK

\* And all of it.
LEMMA CalmInv ==
  ASSUME IInv, NEW t \in Thread, Calm(t), Watch(t) PROVE IInv'
<1>1. TypeInv /\ LookOK /\ SizeOK /\ CachedIsCurrent /\ OpenOK
  BY DEF IInv
<1>2. TypeInv'
  BY <1>1 DEF TypeInv, Calm, Watch
<1>3. LookOK'
  <2> SUFFICES ASSUME NEW u \in Thread, ~call'[u].doubt, call'[u].op # "idle"
               PROVE  Knows(call'[u], bucket'[call'[u].name])
    BY DEF LookOK
  <2>1. CASE u = t
    BY <2>1 DEF Calm, Knows, Asked
  <2>2. CASE u # t
    BY <1>1, <2>2 DEF Calm, LookOK
  <2>. QED BY <2>1, <2>2
<1>4. SizeOK'
  BY <1>1, CalmSize DEF Calm
<1>. QED BY <1>1, <1>2, <1>3, <1>4, CalmCurrent, CalmOpen DEF IInv

\* A write that makes the file larger.
LEMMA GrowIsCalm ==
  ASSUME IInv, NEW t \in Thread, Grow(t) PROVE Calm(t)
<1> DEFINE c == call[t] d == Proceed(c) k == <<c.name, "plain">>
<1>1. /\ TypeInv /\ c \in Record /\ StageOK(c) /\ c.todo # <<>> /\ Head(c.todo) = "grow"
      /\ c.at = "start" /\ bucket' = bucket /\ Turn(t, d)
      /\ cache' = IF k \in Cached THEN [cache EXCEPT ![k].grown = TRUE] ELSE cache
  BY DEF IInv, TypeInv, Grow, Doing
<1>2. /\ c.op # "idle" /\ c.op = "save" /\ Tail(c.todo) = <<"put", "forget">>
  BY <1>1, Heads
<1>0. <<"put", "forget">> # <<>>
  OBVIOUS
<1>3. /\ d \in Record /\ StageOK(d) /\ d.at = "start" /\ d.op = "save" /\ d.name = c.name
      /\ d.todo = <<"put", "forget">>
  BY <1>0, <1>1, <1>2, Proceeds
<1> HIDE DEF d
<1>4. Between(d)
  BY <1>3, BetweenIs
<1>5. call' \in [Thread -> Record] /\ \A u \in Thread : u # t => call'[u] = call[u]
  BY <1>1, <1>3 DEF Turn, TypeInv
<1>6. call'[t] = d
  BY <1>1, <1>3 DEF Turn, TypeInv
<1>7. CASE k \notin Cached
  <2>1. cache' = cache /\ Cached' = Cached
    BY <1>1, <1>7 DEF Cached
  <2>. QED BY <1>1, <1>3, <1>4, <1>5, <1>6, <2>1 DEF Calm, TypeInv
<1>8. CASE k \in Cached
  <2> DEFINE e == [cache[k] EXCEPT !.grown = TRUE]
  <2>1. k \in Key /\ cache[k] \in CachedEntry
    BY <1>1, <1>8, CachedIs
  <2>2. e \in CachedEntry /\ e.attr = cache[k].attr /\ e.doubt = cache[k].doubt
    BY <2>1 DEF CachedEntry
  <2>3. cache' = [cache EXCEPT ![k] = e]
    BY <1>1, <1>8
  <2> HIDE DEF e, k
  <2>4. /\ cache' \in [Key -> CachedEntry \cup {NoEntry}] /\ cache'[k] = e
        /\ \A kk \in Key : kk # k => cache'[kk] = cache[kk]
    BY <1>1, <2>1, <2>2, <2>3 DEF TypeInv
  <2>5. k[1] = c.name
    BY DEF k
  <2>6. \A kk \in Cached' :
          /\ kk \in Cached /\ cache'[kk].attr = cache[kk].attr /\ cache'[kk].doubt = cache[kk].doubt
          /\ cache'[kk] = cache[kk] \/ (kk[1] = d.name /\ Between(d))
    <3> SUFFICES ASSUME NEW kk \in Cached'
                 PROVE  /\ kk \in Cached /\ cache'[kk].attr = cache[kk].attr
                        /\ cache'[kk].doubt = cache[kk].doubt
                        /\ cache'[kk] = cache[kk] \/ (kk[1] = d.name /\ Between(d))
      OBVIOUS
    <3>1. kk \in Key /\ cache'[kk] # NoEntry
      BY DEF Cached
    <3>2. CASE kk = k
      BY <1>3, <1>4, <1>8, <2>2, <2>4, <2>5, <3>2
    <3>3. CASE kk # k
      BY <2>4, <3>1, <3>3 DEF Cached
    <3>. QED BY <3>2, <3>3
  <2>. QED BY <1>1, <1>3, <1>4, <1>5, <1>6, <2>4, <2>6 DEF Calm
<1>. QED BY <1>7, <1>8

\* A handler begins.
LEMMA CallIsCalm ==
  ASSUME IInv, NEW t \in Thread, Calls(t) PROVE Calm(t)
<1>1. PICK op \in DOMAIN Program, n \in Name : CallHandler(t, op, n)
  BY DEF Calls
<1> DEFINE todo == Program[op]
           begin == IF op = "open" THEN bucket[n].version ELSE 0
           d == [Idle EXCEPT !.op = op, !.todo = todo, !.name = n, !.begin = begin]
<1>2. TypeInv /\ call[t] = Idle /\ Turn(t, d) /\ UNCHANGED <<bucket, cache>>
  BY <1>1 DEF IInv, CallHandler
<1>3. todo \in Todo /\ todo \in Stages[op]
  <2>1. \A o \in DOMAIN Program : Program[o] \in Stages[o]
    BY DEF Program, Stages
  <2>. QED BY <2>1 DEF Todo
<1>4. begin \in Nat /\ (op = "open" => begin = bucket[n].version)
  BY <1>2 DEF TypeInv, Attributes
<1>p. todo = Program[op]
  OBVIOUS
<1> HIDE DEF todo, begin
<1>5. /\ d \in Record /\ d.op = op /\ d.todo = todo /\ d.name = n /\ d.begin = begin
      /\ d.at = "start"
  BY <1>3, <1>4, IdleIs DEF Record
<1>6. op # "idle"
  BY Handlers
<1> HIDE DEF d
<1>7. StageOK(d)
  BY <1>3, <1>5, <1>6 DEF StageOK
<1>8. call' \in [Thread -> Record] /\ call'[t] = d /\ \A u \in Thread : u # t => call'[u] = call[u]
  BY <1>2, <1>5 DEF Turn, TypeInv
<1>9. ~Between(Idle)
  BY IdleIs, Handlers DEF Between
<1>10. cache' = cache /\ Cached' = Cached
  BY <1>2 DEF Cached
<1>. QED BY <1>2, <1>4, <1>p, <1>5, <1>7, <1>8, <1>9, <1>10, IdleIs DEF Calm, TypeInv

\* A request, and the handler after it.
LEMMA RequestIs ==
  ASSUME IInv, NEW t \in Thread, Request(t)
  PROVE  LET c == call[t] IN
         \E after \in {Proceed(c), Idle} :
           /\ c \in Record /\ StageOK(c) /\ c.at = "start" /\ c.todo # <<>> /\ Head(c.todo) \in Requests
           /\ after \in Record /\ StageOK(after) /\ after.at = "start"
           /\ after.op # "idle" => /\ after.op = c.op /\ after.name = c.name /\ after.begin = c.begin
                                   /\ after.todo = Tail(c.todo) /\ Tail(c.todo) # <<>>
           /\ Between(c) => after = Proceed(c)
           /\ \/ Turn(t, after) /\ UNCHANGED <<bucket, cache>>
              \/ /\ bucket' = [bucket EXCEPT ![c.name] =
                      [form |-> Becomes(Head(c.todo), bucket[c.name].form),
                       version |-> bucket[c.name].version + 1]]
                 /\ call' = [u \in Thread |->
                      IF u = t THEN after ELSE [call[u] EXCEPT !.doubt = @ \/ Looking(u, c.name)]]
                 /\ cache' = IF Forgets(after.todo) THEN cache ELSE Doubted(cache, c.name)
<1> DEFINE c == call[t]
<1>1. TypeInv /\ c \in Record /\ StageOK(c) /\ c.at = "start" /\ c.todo # <<>> /\ Head(c.todo) \in Requests
  BY DEF IInv, TypeInv, Request, Doing
<1>2. c.op # "idle"
  BY <1>1, Heads
<1>3. \A after \in {Proceed(c), Idle} :
        /\ after \in Record /\ StageOK(after) /\ after.at = "start"
        /\ after.op # "idle" => /\ after.op = c.op /\ after.name = c.name /\ after.begin = c.begin
                                /\ after.todo = Tail(c.todo) /\ Tail(c.todo) # <<>>
  BY <1>1, <1>2, Proceeds, IdleIs
<1>4. Between(c) => GoesOn(c.op)
  BY <1>1, Heads DEF GoesOn
<1>5. \E done, ok \in BOOLEAN :
        LET after == IF ok \/ GoesOn(c.op) THEN Proceed(c) ELSE Idle IN
        \/ Turn(t, after) /\ UNCHANGED <<bucket, cache>>
        \/ /\ bucket' = [bucket EXCEPT ![c.name] =
                [form |-> Becomes(Head(c.todo), bucket[c.name].form),
                 version |-> bucket[c.name].version + 1]]
           /\ call' = [u \in Thread |->
                IF u = t THEN after ELSE [call[u] EXCEPT !.doubt = @ \/ Looking(u, c.name)]]
           /\ cache' = IF Forgets(after.todo) THEN cache ELSE Doubted(cache, c.name)
  BY DEF Request
<1>6. PICK ok \in BOOLEAN :
        LET after == IF ok \/ GoesOn(c.op) THEN Proceed(c) ELSE Idle IN
        \/ Turn(t, after) /\ UNCHANGED <<bucket, cache>>
        \/ /\ bucket' = [bucket EXCEPT ![c.name] =
                [form |-> Becomes(Head(c.todo), bucket[c.name].form),
                 version |-> bucket[c.name].version + 1]]
           /\ call' = [u \in Thread |->
                IF u = t THEN after ELSE [call[u] EXCEPT !.doubt = @ \/ Looking(u, c.name)]]
           /\ cache' = IF Forgets(after.todo) THEN cache ELSE Doubted(cache, c.name)
  BY <1>5
<1> DEFINE after == IF ok \/ GoesOn(c.op) THEN Proceed(c) ELSE Idle
<1>7. after \in {Proceed(c), Idle} /\ (Between(c) => after = Proceed(c))
  BY <1>4
<1>8. \/ Turn(t, after) /\ UNCHANGED <<bucket, cache>>
      \/ /\ bucket' = [bucket EXCEPT ![c.name] =
              [form |-> Becomes(Head(c.todo), bucket[c.name].form),
               version |-> bucket[c.name].version + 1]]
         /\ call' = [u \in Thread |->
              IF u = t THEN after ELSE [call[u] EXCEPT !.doubt = @ \/ Looking(u, c.name)]]
         /\ cache' = IF Forgets(after.todo) THEN cache ELSE Doubted(cache, c.name)
  BY <1>6
<1> HIDE DEF after
<1>. QED BY <1>1, <1>3, <1>7, <1>8

\* A request that changes nothing.
LEMMA NoChangeIsCalm ==
  ASSUME IInv, NEW t \in Thread, NEW after, StageOK(after), after \in Record,
         Turn(t, after), UNCHANGED <<bucket, cache>>, call[t].at = "start",
         call[t] \in Record, StageOK(call[t]), call[t].todo # <<>>, Head(call[t].todo) \in Requests,
         after.at = "start", Between(call[t]) => after = Proceed(call[t]),
         after.op # "idle" => /\ after.op = call[t].op /\ after.name = call[t].name
                              /\ after.todo = Tail(call[t].todo) /\ Tail(call[t].todo) # <<>>
  PROVE  Calm(t)
<1> DEFINE c == call[t]
<1>1. TypeInv
  BY DEF IInv
<1>2. c.op # "idle" /\ c.op \in Changes
  BY Heads
<1>3. after.op # "open"
  BY <1>2, Handlers
<1>4. Between(c) => Between(after) /\ after.name = c.name
  <2> SUFFICES ASSUME Between(c) PROVE Between(after) /\ after.name = c.name
    OBVIOUS
  <2>1. Tail(c.todo) = <<"forget">> /\ c.op = "save" /\ after = Proceed(c)
    BY Heads
  <2>2. <<"forget">> # <<>>
    OBVIOUS
  <2>3. after.op = "save" /\ after.todo = <<"forget">> /\ after.name = c.name
    BY <1>2, <2>1, <2>2, Proceeds
  <2>. QED BY <2>3, BetweenIs
<1>5. call' \in [Thread -> Record] /\ call'[t] = after /\ \A u \in Thread : u # t => call'[u] = call[u]
  BY <1>1 DEF Turn, TypeInv
<1>6. cache' = cache /\ Cached' = Cached
  BY DEF Cached
<1>. QED BY <1>1, <1>3, <1>4, <1>5, <1>6 DEF Calm, TypeInv

\* A request that changes the object: a lookup that has asked is in doubt, and
\* so are the entries that no DelStat will delete.
Alters(t) ==
  /\ call[t].at = "start" /\ call'[t].at = "start" /\ StageOK(call'[t])
  /\ bucket' \in [Name -> Attributes] /\ call[t].name \in Name /\ call[t].op \in Changes
  /\ \A n \in Name : n # call[t].name => bucket'[n] = bucket[n]
  /\ \A n \in Name : bucket[n].version <= bucket'[n].version
  /\ call' \in [Thread -> Record]
  /\ \A u \in Thread : u # t =>
       /\ call'[u].op = call[u].op /\ call'[u].todo = call[u].todo /\ call'[u].at = call[u].at
       /\ call'[u].then = call[u].then /\ call'[u].name = call[u].name
       /\ call'[u].attr = call[u].attr /\ call'[u].begin = call[u].begin
       /\ ~call'[u].doubt => ~call[u].doubt /\ ~Looking(u, call[t].name)
  /\ call'[t].op # "open" /\ (Between(call'[t]) => call'[t].name = call[t].name)
  /\ cache' \in [Key -> CachedEntry \cup {NoEntry}]
  /\ \A k \in Cached' :
       /\ k \in Cached /\ cache'[k].attr = cache[k].attr /\ (~cache'[k].doubt => ~cache[k].doubt)
       /\ k[1] # call[t].name => cache'[k] = cache[k]
       /\ k[1] = call[t].name => cache'[k].doubt \/ Between(call'[t])
  /\ Between(call[t]) => Between(call'[t])

\* The calls after a request of thread t that changes the object n.
CallsAfter(t, after, n) ==
  call' = [u \in Thread |->
    IF u = t THEN after ELSE [call[u] EXCEPT !.doubt = @ \/ Looking(u, n)]]

\* The other calls go on, some of them in doubt.
LEMMA AltersCalls ==
  ASSUME TypeInv, NEW t \in Thread, NEW n, NEW after \in Record, CallsAfter(t, after, n)
  PROVE  /\ call' \in [Thread -> Record] /\ call'[t] = after
         /\ \A u \in Thread : u # t =>
              /\ call'[u].op = call[u].op /\ call'[u].todo = call[u].todo /\ call'[u].at = call[u].at
              /\ call'[u].then = call[u].then /\ call'[u].name = call[u].name
              /\ call'[u].attr = call[u].attr /\ call'[u].begin = call[u].begin
              /\ ~call'[u].doubt => ~call[u].doubt /\ ~Looking(u, n)
<1>1. ASSUME NEW u \in Thread
      PROVE  LET d == [call[u] EXCEPT !.doubt = @ \/ Looking(u, n)] IN
             /\ d \in Record /\ d.op = call[u].op /\ d.todo = call[u].todo /\ d.at = call[u].at
             /\ d.then = call[u].then /\ d.name = call[u].name
             /\ d.attr = call[u].attr /\ d.begin = call[u].begin
             /\ ~d.doubt => ~call[u].doubt /\ ~Looking(u, n)
  <2> DEFINE b == call[u].doubt \/ Looking(u, n)
             d == [call[u] EXCEPT !.doubt = b]
  <2>1. call[u] \in Record /\ b \in BOOLEAN
    BY DEF TypeInv, Looking, Record
  <2>2. ~b => ~call[u].doubt /\ ~Looking(u, n)
    OBVIOUS
  <2>3. [call[u] EXCEPT !.doubt = @ \/ Looking(u, n)] = d
    OBVIOUS
  <2> HIDE DEF b
  <2>4. /\ d \in Record /\ d.op = call[u].op /\ d.todo = call[u].todo /\ d.at = call[u].at
        /\ d.then = call[u].then /\ d.name = call[u].name
        /\ d.attr = call[u].attr /\ d.begin = call[u].begin /\ d.doubt = b
    BY <2>1 DEF Record
  <2> HIDE DEF d
  <2>. QED BY <2>2, <2>3, <2>4
<1> DEFINE o(u) == [call[u] EXCEPT !.doubt = @ \/ Looking(u, n)]
<1>2. /\ DOMAIN call' = Thread /\ call' = [u \in Thread |-> call'[u]] /\ call'[t] = after
      /\ \A u \in Thread : u # t => call'[u] = o(u)
  BY DEF CallsAfter
<1>3. \A u \in Thread :
        /\ o(u) \in Record /\ o(u).op = call[u].op /\ o(u).todo = call[u].todo /\ o(u).at = call[u].at
        /\ o(u).then = call[u].then /\ o(u).name = call[u].name
        /\ o(u).attr = call[u].attr /\ o(u).begin = call[u].begin
        /\ ~o(u).doubt => ~call[u].doubt /\ ~Looking(u, n)
  BY <1>1
<1> HIDE DEF o
<1>4. \A u \in Thread : call'[u] \in Record
  BY <1>2, <1>3
<1>5. call' \in [Thread -> Record]
  BY <1>2, <1>4
<1>. QED BY <1>2, <1>3, <1>5

\* The cache after it.
LEMMA AltersCache ==
  ASSUME TypeInv, NEW n, cache' = Doubted(cache, n)
  PROVE  /\ cache' \in [Key -> CachedEntry \cup {NoEntry}]
         /\ \A k \in Cached' :
              /\ k \in Cached /\ cache'[k].attr = cache[k].attr /\ (~cache'[k].doubt => ~cache[k].doubt)
              /\ k[1] # n => cache'[k] = cache[k]
              /\ k[1] = n => cache'[k].doubt
<1> DEFINE o(k) == [cache[k] EXCEPT !.doubt = TRUE]
<1>1. \A k \in Cached : o(k) \in CachedEntry /\ o(k).attr = cache[k].attr /\ o(k).doubt
  <2> SUFFICES ASSUME NEW k \in Cached
               PROVE  o(k) \in CachedEntry /\ o(k).attr = cache[k].attr /\ o(k).doubt
    OBVIOUS
  <2>1. cache[k] \in CachedEntry
    BY CachedIs
  <2>. QED BY <2>1 DEF CachedEntry
<1>2. /\ DOMAIN cache' = Key /\ cache' = [k \in Key |-> cache'[k]]
      /\ \A k \in Key : cache'[k] = IF k[1] = n /\ cache[k] # NoEntry THEN o(k) ELSE cache[k]
  BY DEF Doubted
<1> HIDE DEF o
<1>3. \A k \in Key : cache'[k] \in CachedEntry \cup {NoEntry}
  BY <1>1, <1>2 DEF TypeInv, Cached
<1>4. cache' \in [Key -> CachedEntry \cup {NoEntry}]
  BY <1>2, <1>3
<1>5. ASSUME NEW k \in Cached'
      PROVE  /\ k \in Cached /\ cache'[k].attr = cache[k].attr /\ (~cache'[k].doubt => ~cache[k].doubt)
             /\ k[1] # n => cache'[k] = cache[k]
             /\ k[1] = n => cache'[k].doubt
  <2>1. k \in Key /\ cache'[k] # NoEntry
    BY DEF Cached
  <2>2. k \in Cached
    BY <1>2, <2>1 DEF Cached
  <2>3. CASE k[1] = n
    BY <1>1, <1>2, <2>1, <2>2, <2>3 DEF Cached
  <2>4. CASE k[1] # n
    BY <1>2, <2>1, <2>2, <2>4
  <2>. QED BY <2>2, <2>3, <2>4
<1>. QED BY <1>4, <1>5

\* What a request makes of the bucket.
LEMMA BucketAfter ==
  ASSUME TypeInv, NEW n \in Name, NEW phase \in Requests,
         bucket' = [bucket EXCEPT ![n] =
           [form |-> Becomes(phase, bucket[n].form), version |-> bucket[n].version + 1]]
  PROVE  /\ bucket' \in [Name -> Attributes]
         /\ \A m \in Name : m # n => bucket'[m] = bucket[m]
         /\ \A m \in Name : bucket[m].version <= bucket'[m].version
<1>1. \A m \in Name : bucket[m].version \in Nat /\ bucket[m].form \in {"none", "file", "dir", "folder", "prefix"}
  BY DEF TypeInv, Attributes
<1>2. Becomes(phase, bucket[n].form) \in {"none", "file", "dir", "folder", "prefix"}
  BY <1>1 DEF Becomes, Requests
<1> DEFINE e == [form |-> Becomes(phase, bucket[n].form), version |-> bucket[n].version + 1]
<1>3. e \in Attributes /\ e.version = bucket[n].version + 1
  BY <1>1, <1>2 DEF Attributes
<1> HIDE DEF e
<1>4. bucket' = [bucket EXCEPT ![n] = e]
  BY DEF e
<1>. QED BY <1>1, <1>3, <1>4 DEF TypeInv

\* The second outcome of RequestIs.
LEMMA RequestAlters ==
  ASSUME IInv, NEW t \in Thread, NEW after \in Record, StageOK(after), after.at = "start",
         call[t] \in Record, StageOK(call[t]), call[t].at = "start", call[t].todo # <<>>,
         Head(call[t].todo) \in Requests,
         after.op # "idle" => /\ after.op = call[t].op /\ after.name = call[t].name
                              /\ after.todo = Tail(call[t].todo) /\ Tail(call[t].todo) # <<>>,
         Between(call[t]) => after = Proceed(call[t]),
         bucket' = [bucket EXCEPT ![call[t].name] =
           [form |-> Becomes(Head(call[t].todo), bucket[call[t].name].form),
            version |-> bucket[call[t].name].version + 1]],
         CallsAfter(t, after, call[t].name),
         cache' = IF Forgets(after.todo) THEN cache ELSE Doubted(cache, call[t].name)
  PROVE  Alters(t)
<1> DEFINE c == call[t] n == c.name phase == Head(c.todo)
<1>1. TypeInv
  BY DEF IInv
<1>2. /\ c.op # "idle" /\ c.op \in Changes /\ c.name \in Name
      /\ Tail(c.todo) # <<>> => Tail(c.todo) # Program[c.op]
  BY Heads
<1>3. /\ bucket' \in [Name -> Attributes]
      /\ \A m \in Name : m # n => bucket'[m] = bucket[m]
      /\ \A m \in Name : bucket[m].version <= bucket'[m].version
  BY <1>1, <1>2, BucketAfter
<1>a. CallsAfter(t, after, n)
  OBVIOUS
<1>4. /\ call' \in [Thread -> Record] /\ call'[t] = after
      /\ \A u \in Thread : u # t =>
           /\ call'[u].op = call[u].op /\ call'[u].todo = call[u].todo /\ call'[u].at = call[u].at
           /\ call'[u].then = call[u].then /\ call'[u].name = call[u].name
           /\ call'[u].attr = call[u].attr /\ call'[u].begin = call[u].begin
           /\ ~call'[u].doubt => ~call[u].doubt /\ ~Looking(u, n)
  BY <1>1, <1>a, AltersCalls
<1>5. after.op # "open" /\ (Between(after) => after.name = n)
  <2>1. after.op # "open"
    BY <1>2, Handlers
  <2>2. Between(after) => after.op # "idle"
    BY Handlers DEF Between
  <2>. QED BY <2>1, <2>2
<1>6. Forgets(after.todo) => Between(after)
  <2> SUFFICES ASSUME Forgets(after.todo) PROVE Between(after)
    OBVIOUS
  <2>1. ~Forgets(<<>>)
    BY DEF Forgets
  <2>2. after.op # "idle"
    BY <2>1 DEF StageOK
  <2>3. after.op = c.op /\ after.todo = Tail(c.todo) /\ Tail(c.todo) # <<>>
    BY <2>2
  <2>. QED BY <1>2, <2>3 DEF Between
<1>7. /\ cache' \in [Key -> CachedEntry \cup {NoEntry}]
      /\ \A k \in Cached' :
           /\ k \in Cached /\ cache'[k].attr = cache[k].attr /\ (~cache'[k].doubt => ~cache[k].doubt)
           /\ k[1] # n => cache'[k] = cache[k]
           /\ k[1] = n => cache'[k].doubt \/ Between(after)
  <2>1. CASE Forgets(after.todo)
    BY <1>1, <1>6, <2>1 DEF TypeInv, Cached
  <2>2. CASE ~Forgets(after.todo)
    BY <1>1, <2>2, AltersCache
  <2>. QED BY <2>1, <2>2
<1>8. Between(c) => Between(after)
  <2> SUFFICES ASSUME Between(c) PROVE Between(after)
    OBVIOUS
  <2>1. Tail(c.todo) = <<"forget">> /\ c.op = "save" /\ after = Proceed(c)
    BY Heads
  <2>2. <<"forget">> # <<>>
    OBVIOUS
  <2>3. after.op = "save" /\ after.todo = <<"forget">>
    BY <1>2, <2>1, <2>2, Proceeds
  <2>. QED BY <2>3, BetweenIs
<1> HIDE DEF n
<1>9. n = call[t].name
  BY DEF n
<1>. QED BY <1>2, <1>3, <1>4, <1>5, <1>7, <1>8, <1>9 DEF Alters

\* A request is one or the other.
LEMMA RequestSteps ==
  ASSUME IInv, NEW t \in Thread, Request(t) PROVE Calm(t) \/ Alters(t)
<1> DEFINE c == call[t]
<1>1. PICK after \in {Proceed(c), Idle} :
        /\ c \in Record /\ StageOK(c) /\ c.at = "start" /\ c.todo # <<>> /\ Head(c.todo) \in Requests
        /\ after \in Record /\ StageOK(after) /\ after.at = "start"
        /\ after.op # "idle" => /\ after.op = c.op /\ after.name = c.name /\ after.begin = c.begin
                                /\ after.todo = Tail(c.todo) /\ Tail(c.todo) # <<>>
        /\ Between(c) => after = Proceed(c)
        /\ \/ Turn(t, after) /\ UNCHANGED <<bucket, cache>>
           \/ /\ bucket' = [bucket EXCEPT ![c.name] =
                   [form |-> Becomes(Head(c.todo), bucket[c.name].form),
                    version |-> bucket[c.name].version + 1]]
              /\ CallsAfter(t, after, c.name)
              /\ cache' = IF Forgets(after.todo) THEN cache ELSE Doubted(cache, c.name)
  BY RequestIs DEF CallsAfter
<1>2. CASE Turn(t, after) /\ UNCHANGED <<bucket, cache>>
  BY <1>1, <1>2, NoChangeIsCalm
<1>3. CASE /\ bucket' = [bucket EXCEPT ![c.name] =
                [form |-> Becomes(Head(c.todo), bucket[c.name].form),
                 version |-> bucket[c.name].version + 1]]
           /\ CallsAfter(t, after, c.name)
           /\ cache' = IF Forgets(after.todo) THEN cache ELSE Doubted(cache, c.name)
  BY <1>1, <1>3, RequestAlters
<1>. QED BY <1>1, <1>2, <1>3

\* The invariant after a request that changes the object: what lookups know,
LEMMA AltersLook ==
  ASSUME TypeInv, LookOK, NEW t \in Thread, Alters(t) PROVE LookOK'
<1> SUFFICES ASSUME NEW u \in Thread, ~call'[u].doubt, call'[u].op # "idle"
             PROVE  Knows(call'[u], bucket'[call'[u].name])
  BY DEF LookOK
<1>1. CASE u = t
  BY <1>1 DEF Alters, Knows, Asked
<1>2. CASE u # t
  <2>1. /\ call'[u].op = call[u].op /\ call'[u].at = call[u].at /\ call'[u].name = call[u].name
        /\ call'[u].attr = call[u].attr /\ ~call[u].doubt /\ ~Looking(u, call[t].name)
    BY <1>2 DEF Alters
  <2>2. CASE call[u].name = call[t].name
    <3>1. call'[u].at \in {"start", "noobj", "head", "one", "drop"}
      BY <2>1, <2>2 DEF Looking
    <3>. QED BY <3>1 DEF Knows, Asked
  <2>3. CASE call[u].name # call[t].name
    <3>1. call[u].name \in Name
      BY <2>1 DEF TypeInv, StageOK
    <3>2. bucket'[call[u].name] = bucket[call[u].name]
      BY <2>3, <3>1 DEF Alters
    <3>3. Knows(call[u], bucket[call[u].name])
      BY <2>1 DEF LookOK
    <3>. QED BY <2>1, <3>2, <3>3 DEF Knows
  <2>. QED BY <2>2, <2>3
<1>. QED BY <1>1, <1>2

\* the entries,
LEMMA AltersCurrent ==
  ASSUME TypeInv, CachedIsCurrent, NEW t \in Thread, Alters(t) PROVE CachedIsCurrent'
<1> SUFFICES ASSUME NEW k \in Cached', ~cache'[k].doubt, ~Changing(k[1])'
             PROVE  cache'[k].attr = bucket'[k[1]] /\ k = KeyOf(k[1], cache'[k].attr)
                    /\ ~cache'[k].grown
  BY DEF CachedIsCurrent, KeyOf
<1>1. Changing(k[1])' <=> \E v \in Thread : call'[v].name = k[1] /\ Between(call'[v])
  BY DEF Changing, Between
<1>2. k[1] # call[t].name
  <2>1. ASSUME k[1] = call[t].name PROVE FALSE
    <3>1. Between(call'[t])
      BY <2>1 DEF Alters
    <3>2. call'[t].name = k[1]
      BY <2>1, <3>1 DEF Alters
    <3>. QED BY <1>1, <3>1, <3>2
  <2>. QED BY <2>1
<1>3. k \in Cached /\ cache'[k] = cache[k] /\ k[1] \in Name
  BY <1>2 DEF Alters, Cached, Key
<1>4. bucket'[k[1]] = bucket[k[1]]
  BY <1>2, <1>3 DEF Alters
<1>5. ~Changing(k[1])
  <2>1. ASSUME NEW v \in Thread, call[v].name = k[1], Between(call[v]) PROVE FALSE
    <3>1. v # t
      BY <1>2, <2>1
    <3>2. call'[v].op = call[v].op /\ call'[v].todo = call[v].todo /\ call'[v].name = call[v].name
      BY <3>1 DEF Alters
    <3>. QED BY <1>1, <2>1, <3>2 DEF Between
  <2>. QED BY <2>1, ChangingIs
<1>. QED BY <1>3, <1>4, <1>5 DEF CachedIsCurrent

\* what s3fs_open finds,
LEMMA AltersOpen ==
  ASSUME TypeInv, OpenOK, NEW t \in Thread, Alters(t) PROVE OpenOK'
<1> SUFFICES ASSUME NEW u \in Thread, call'[u].op = "open"
             PROVE  /\ call'[u].begin <= bucket'[call'[u].name].version
                    /\ call'[u].todo # Program["open"] =>
                         \A k \in Cached' : k[1] = call'[u].name /\ ~cache'[k].doubt
                                             => call'[u].begin <= cache'[k].attr.version
                    /\ Fresh(call'[u])
  BY DEF OpenOK, Fresh
<1>1. u # t
  BY DEF Alters
<1>2. /\ call'[u].op = call[u].op /\ call'[u].todo = call[u].todo /\ call'[u].at = call[u].at
      /\ call'[u].then = call[u].then /\ call'[u].name = call[u].name
      /\ call'[u].attr = call[u].attr /\ call'[u].begin = call[u].begin
      /\ ~call'[u].doubt => ~call[u].doubt
  BY <1>1 DEF Alters
<1>3. call'[u].begin <= bucket'[call'[u].name].version
  <2>1. call[u].name \in Name /\ call[u].begin \in Nat
    BY <1>2 DEF TypeInv, StageOK, Record
  <2>2. bucket[call[u].name].version \in Nat /\ bucket'[call[u].name].version \in Nat
    BY <2>1 DEF TypeInv, Alters, Attributes
  <2>3. /\ call[u].begin <= bucket[call[u].name].version
        /\ bucket[call[u].name].version <= bucket'[call[u].name].version
    BY <1>2, <2>1 DEF OpenOK, Alters
  <2>. QED BY <1>2, <2>1, <2>2, <2>3
<1>4. \A k \in Cached' :
        k \in Cached /\ cache'[k].attr = cache[k].attr /\ (~cache'[k].doubt => ~cache[k].doubt)
  BY DEF Alters
<1>5. Fresh(call'[u])
  BY <1>2 DEF OpenOK, Fresh, Returns
<1>. QED BY <1>2, <1>3, <1>4, <1>5 DEF OpenOK

\* and all of it.
LEMMA AltersInv ==
  ASSUME IInv, NEW t \in Thread, Alters(t), Watch(t) PROVE IInv'
<1>1. TypeInv /\ LookOK /\ SizeOK /\ CachedIsCurrent /\ OpenOK
  BY DEF IInv
<1>2. TypeInv'
  <2>1. \A u \in Thread : StageOK(call'[u])
    <3> SUFFICES ASSUME NEW u \in Thread PROVE StageOK(call'[u])
      OBVIOUS
    <3>1. CASE u = t
      BY <3>1 DEF Alters
    <3>2. CASE u # t
      <4>1. call[u] \in Record /\ StageOK(call[u]) /\ call'[u] \in Record
        BY <1>1 DEF TypeInv, Alters
      <4>. QED BY <3>2, <4>1, SameStage DEF Alters
    <3>. QED BY <3>1, <3>2
  <2>. QED BY <1>1, <2>1 DEF TypeInv, Alters, Watch
<1>3. SizeOK'
  <2>1. Cached' \subseteq Cached
    BY DEF Alters
  <2>. QED BY <1>1, <2>1, CalmSize DEF Alters
<1>. QED BY <1>1, <1>2, <1>3, AltersLook, AltersCurrent, AltersOpen DEF IInv

-----------------------------------------------------------------------------
(***************************************************************************)
(* The theorems.                                                           *)
(***************************************************************************)
\* Nothing is cached at first, and no handler runs.
LEMMA InitInv == Init => IInv
<1> SUFFICES ASSUME Init PROVE IInv
  OBVIOUS
<1>1. TypeInv
  <2>1. bucket \in [Name -> Attributes]
    <3>1. bucket \in [Name -> {a \in Attr : a.version = 0}]
      BY DEF Init
    <3>2. Attr \subseteq Attributes
      BY DEF Attr, Attributes, Version
    <3>. QED BY <3>1, <3>2
  <2>. QED BY <2>1, IdleIs DEF Init, TypeInv
<1>2. Cached = {}
  BY DEF Init, Cached
<1>3. LookOK /\ OpenOK
  BY IdleIs DEF Init, LookOK, OpenOK
<1>4. CachedIsCurrent
  BY <1>2 DEF CachedIsCurrent
<1>5. SizeOK
  BY <1>2, FS_EmptySet, IdleIs DEF Init, SizeOK, AloneOK
<1>. QED BY <1>1, <1>3, <1>4, <1>5 DEF IInv

\* Each step keeps the invariant.
LEMMA NextInv == IInv /\ [Next]_vars => IInv'
<1> SUFFICES ASSUME IInv, [Next]_vars PROVE IInv'
  OBVIOUS
<1>1. ASSUME NEW t \in Thread, Calls(t) \/ Runs(t), Watch(t) PROVE IInv'
  <2>1. CASE Calls(t)
    BY <1>1, <2>1, CallIsCalm, CalmInv
  <2>2. CASE Get(t) \/ AskNoObject(t) \/ Dropped(t) \/ Ask(t) \/ Add(t) \/ AddDeletes(t) \/ MakeRoom(t)
             \/ GetAgain(t) \/ List(t) \/ Has(t) \/ HeadOne(t) \/ Forget(t)
    <3>1. Shrinks(t)
      BY <2>2, GetShrinks, AskNoObjectShrinks, DroppedShrinks, AskShrinks, AddShrinks,
         AddDeletesShrinks, MakeRoomShrinks, GetAgainShrinks, ListShrinks, HasShrinks,
         HeadOneShrinks, ForgetShrinks
    <3>. QED BY <1>1, <3>1, ShrinkInv
  <2>3. CASE Store(t)
    <3>1. Stores(t)
      BY <2>3, StoreStores
    <3>. QED BY <1>1, <3>1, StoreTypes, StoreLook, StoreCurrent, StoreOpen, StoreSize DEF IInv
  <2>4. CASE Grow(t)
    BY <1>1, <2>4, GrowIsCalm, CalmInv
  <2>5. CASE Request(t)
    <3>1. Calm(t) \/ Alters(t)
      BY <2>5, RequestSteps
    <3>. QED BY <1>1, <3>1, CalmInv, AltersInv
  <2>. QED BY <1>1, <2>1, <2>2, <2>3, <2>4, <2>5 DEF Runs
<1>2. CASE UNCHANGED vars
  <2>1. Cached' = Cached /\ \A n : Changing(n)' <=> Changing(n)
    BY <1>2 DEF vars, Cached, Changing
  <2>2. CachedIsCurrent'
    BY <1>2, <2>1 DEF IInv, CachedIsCurrent, vars, KeyOf
  <2>3. TypeInv' /\ LookOK' /\ OpenOK'
    BY <1>2, <2>1 DEF IInv, vars, TypeInv, LookOK, OpenOK
  <2>4. SizeOK'
    BY <1>2, <2>1 DEF IInv, vars, SizeOK, AloneOK
  <2>. QED BY <2>2, <2>3, <2>4 DEF IInv
<1>. QED BY <1>1, <1>2 DEF Next

\* The inductive invariant holds in every reachable state.
THEOREM Invariance == Spec => []IInv
BY InitInv, NextInv, PTL DEF Spec

\* No handler and no interleaving of the sections of AddStat leaves an entry
\* behind that differs from the object and is not in doubt.
THEOREM CachedIsCurrentCorrect == Spec => []CachedIsCurrent
<1>1. IInv => CachedIsCurrent
  BY DEF IInv
<1>. QED BY <1>1, Invariance, PTL

\* s3fs_open does not go on with attributes older than its call, unless they
\* are in doubt.
THEOREM OpenSeesCorrect == Spec => []OpenSeesCurrentObject
<1>1. IInv => OpenSeesCurrentObject
  <2> SUFFICES ASSUME IInv, NEW t \in Thread, call[t].op = "open", call[t].todo = <<"look">>,
                      call[t].at = "start", ~call[t].doubt
               PROVE  call[t].attr.version >= call[t].begin
    BY DEF OpenSeesCurrentObject
  <2>1. call[t].todo # Program["open"]
    BY Handlers
  <2>2. call[t].begin <= call[t].attr.version
    BY <2>1 DEF IInv, OpenOK, Returns
  <2>3. call[t].begin \in Nat /\ call[t].attr.version \in Nat
    BY DEF IInv, TypeInv, Record, Attributes
  <2>. QED BY <2>2, <2>3
<1>. QED BY <1>1, Invariance, PTL

\* The cache holds one entry more than max_stat_cache_size at most, unless two
\* adds have disturbed each other.
THEOREM SizeIsBoundedCorrect == Spec => []SizeIsBounded
<1>1. IInv => SizeIsBounded
  <2> SUFFICES ASSUME IInv, ~raced PROVE ~(Cardinality(Cached) > CacheSize + 1)
    BY DEF SizeIsBounded
  <2>1. Cardinality(Cached) <= CacheSize + 1 /\ Cardinality(Cached) \in Nat
    BY FS_CardinalityType DEF IInv, SizeOK
  <2>. QED BY <2>1
<1>. QED BY <1>1, Invariance, PTL

=============================================================================
