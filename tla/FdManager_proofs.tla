-------------------------- MODULE FdManager_proofs --------------------------
(***************************************************************************)
(* Theorems about FdManager, for any number of threads, paths, handles and *)
(* entities.  The types and the owners of the locks, whatever the options; *)
(* and, without a cache directory and as long as no rename fails half way, *)
(* that the reference counts add up, that a path has one local copy, and   *)
(* that each handle works on its own.                                      *)
(***************************************************************************)
EXTENDS FdManager, TLAPS, FiniteSetTheorems

USE FdManagerAssumption

-----------------------------------------------------------------------------
(***************************************************************************)
(* The types.                                                              *)
(***************************************************************************)
\* What a handler has left to do, from each of its phases on.
Stages == [
  open     |-> {<<"open", "force", "return">>, <<"open", "return">>, <<"force", "return">>,
                <<"return">>, <<"close">>},
  io       |-> {<<"exist", "read", "close">>, <<"exist", "write", "close">>,
                <<"exist", "flush", "close">>, <<"read", "close">>, <<"write", "close">>,
                <<"flush", "close">>, <<"close">>},
  release  |-> {<<"find", "close">>, <<"close">>},
  truncate |-> {<<"open", "load", "count">>, <<"load", "count">>, <<"count">>,
                <<"cut", "close">>, <<"force", "close">>, <<"close">>},
  rename   |-> {<<"exist", "force", "close", "exist", "copy", "move", "close", "unlink">>,
                <<"force", "close", "exist", "copy", "move", "close", "unlink">>,
                <<"close", "exist", "copy", "move", "close", "unlink">>,
                <<"exist", "copy", "move", "close", "unlink">>,
                <<"open", "copy", "move", "close", "unlink">>,
                <<"copy", "move", "close", "unlink">>, <<"move", "close", "unlink">>,
                <<"close", "unlink">>, <<"unlink">>, <<"copy", "move", "unlink">>,
                <<"move", "unlink">>, <<"close">>}]

\* The phases in which a handler waits for an entity's lock with fd_manager_lock held.
Sections == {"open", "exist", "close", "move"}

\* The call holds fd_manager_lock.
Locked(c) == c.at = "locked" /\ Head(c.todo) \in Sections

\* The call holds its entity's lock.
Working(c) == c.at \in {"locked", "rekey"} /\ Head(c.todo) \in Work

\* The call is at a phase of its handler, with the paths and the handle that this one has.
StageOK(c) ==
  /\ IF c.op = "idle" THEN c = Idle ELSE c.todo \in Stages[c.op] /\ c.path \in Path
  /\ c.at = "again" => Head(c.todo) = "exist"
  /\ c.at \in {"locked", "rekey"} => Locked(c) \/ Working(c)
  /\ IF c.op = "rename" THEN c.to \in Path \ {c.path} ELSE c.to = NoPath
  /\ IF c.op \in {"open", "io"} THEN c.handle \in Handle ELSE c.handle = NoHandle

\* Each lock belongs to the thread that is inside its section.
LockOK ==
  /\ \A t \in Thread : manager = t <=> Locked(call[t])
  /\ \A x \in Ent, t \in Thread : lock[x] = t => call[t].ent = x /\ Working(call[t])

\* An open handle has a path.
HandlesOK == \A h \in Handle : handle[h] = Unused \/ handle[h].path \in Path

\* A call has an entity where it uses one.
EntIs(c) ==
  /\ c.op # "idle"
  /\ \/ Head(c.todo) \in Work \cup {"return", "count"}
     \/ c.at = "locked" /\ Head(c.todo) \in {"open", "exist"}
  => c.ent \in Ent

\* The inductive invariant of the types.
TypeInv ==
  /\ TypeOK /\ LockOK /\ HandlesOK
  /\ \A t \in Thread : StageOK(call[t]) /\ EntIs(call[t])

-----------------------------------------------------------------------------
\* The handlers.
LEMMA Ops ==
  ASSUME NEW c \in Call
  PROVE  /\ c.op \in DOMAIN Stages \cup {"idle"}
         /\ DOMAIN Stages = {"open", "io", "release", "truncate", "rename"}
BY DEF Call, Stages

\* Their lists are sequences of phases.
LEMMA StagesSeq ==
  ASSUME NEW op \in DOMAIN Stages PROVE Stages[op] \subseteq Seq(Phase)
<1>1. \A x \in Phase : <<x>> \in Seq(Phase)
  OBVIOUS
<1>2. \A x, y \in Phase : <<x, y>> \in Seq(Phase)
  OBVIOUS
<1>3. \A x, y, z \in Phase : <<x, y, z>> \in Seq(Phase)
  OBVIOUS
<1>4. \A x, y, z, u \in Phase : <<x, y, z, u>> \in Seq(Phase)
  OBVIOUS
<1>5. \A x, y, z, u, v \in Phase : <<x, y, z, u, v>> \in Seq(Phase)
  OBVIOUS
<1>6. \A x, y, z, u, v, w \in Phase : <<x, y, z, u, v, w>> \in Seq(Phase)
  OBVIOUS
<1>7. \A x, y, z, u, v, w, a \in Phase : <<x, y, z, u, v, w, a>> \in Seq(Phase)
  OBVIOUS
<1>8. \A x, y, z, u, v, w, a, b \in Phase : <<x, y, z, u, v, w, a, b>> \in Seq(Phase)
  OBVIOUS
<1>9. /\ "open" \in Phase /\ "force" \in Phase /\ "return" \in Phase /\ "close" \in Phase
      /\ "exist" \in Phase /\ "read" \in Phase /\ "write" \in Phase /\ "flush" \in Phase
      /\ "find" \in Phase /\ "load" \in Phase /\ "count" \in Phase /\ "cut" \in Phase
      /\ "copy" \in Phase /\ "move" \in Phase /\ "unlink" \in Phase
  BY DEF Phase, Work
<1>10. CASE op = "open"
  <2>1. Stages["open"] \subseteq Seq(Phase)
    BY <1>1, <1>2, <1>3, <1>9 DEF Stages
  <2>. QED BY <1>10, <2>1
<1>11. CASE op = "io"
  <2>1. Stages["io"] \subseteq Seq(Phase)
    BY <1>1, <1>2, <1>3, <1>9 DEF Stages
  <2>. QED BY <1>11, <2>1
<1>12. CASE op = "release"
  <2>1. Stages["release"] \subseteq Seq(Phase)
    BY <1>1, <1>2, <1>9 DEF Stages
  <2>. QED BY <1>12, <2>1
<1>13. CASE op = "truncate"
  <2>1. Stages["truncate"] \subseteq Seq(Phase)
    BY <1>1, <1>2, <1>3, <1>9 DEF Stages
  <2>. QED BY <1>13, <2>1
<1>14. CASE op = "rename"
  <2>1. Stages["rename"] \subseteq Seq(Phase)
    BY <1>1, <1>2, <1>3, <1>4, <1>5, <1>6, <1>7, <1>8, <1>9 DEF Stages
  <2>. QED BY <1>14, <2>1
<1>. QED BY <1>10, <1>11, <1>12, <1>13, <1>14 DEF Stages

\* Every list of phases that is left is one of these.
LEMMA Phases ==
  ASSUME NEW c \in Call, StageOK(c), c.op # "idle"
  PROVE  \/ c.op = "open" /\ c.todo = <<"open", "force", "return">>
         \/ c.op = "open" /\ c.todo = <<"open", "return">>
         \/ c.op = "open" /\ c.todo = <<"force", "return">>
         \/ c.op = "open" /\ c.todo = <<"return">>
         \/ c.todo = <<"close">>
         \/ c.op = "io" /\ c.todo \in {<<"exist", "read", "close">>, <<"exist", "write", "close">>,
                                         <<"exist", "flush", "close">>}
         \/ c.op = "io" /\ c.todo \in {<<"read", "close">>, <<"write", "close">>, <<"flush", "close">>}
         \/ c.op = "release" /\ c.todo = <<"find", "close">>
         \/ c.op = "truncate" /\ c.todo = <<"open", "load", "count">>
         \/ c.op = "truncate" /\ c.todo = <<"load", "count">>
         \/ c.op = "truncate" /\ c.todo = <<"count">>
         \/ c.op = "truncate" /\ c.todo \in {<<"cut", "close">>, <<"force", "close">>}
         \/ c.op = "rename" /\ c.todo = <<"exist", "force", "close", "exist", "copy", "move", "close", "unlink">>
         \/ c.op = "rename" /\ c.todo = <<"force", "close", "exist", "copy", "move", "close", "unlink">>
         \/ c.op = "rename" /\ c.todo = <<"close", "exist", "copy", "move", "close", "unlink">>
         \/ c.op = "rename" /\ c.todo = <<"exist", "copy", "move", "close", "unlink">>
         \/ c.op = "rename" /\ c.todo = <<"open", "copy", "move", "close", "unlink">>
         \/ c.op = "rename" /\ c.todo = <<"copy", "move", "close", "unlink">>
         \/ c.op = "rename" /\ c.todo = <<"move", "close", "unlink">>
         \/ c.op = "rename" /\ c.todo = <<"close", "unlink">>
         \/ c.op = "rename" /\ c.todo = <<"unlink">>
         \/ c.op = "rename" /\ c.todo = <<"copy", "move", "unlink">>
         \/ c.op = "rename" /\ c.todo = <<"move", "unlink">>
<1>1. c.op \in {"open", "io", "release", "truncate", "rename"} /\ c.todo \in Stages[c.op]
  BY Ops DEF StageOK
<1>2. CASE c.op = "open"
  <2>1. c.todo \in Stages["open"]
    BY <1>1, <1>2
  <2>. QED BY <1>2, <2>1 DEF Stages
<1>3. CASE c.op = "io"
  <2>1. c.todo \in Stages["io"]
    BY <1>1, <1>3
  <2>. QED BY <1>3, <2>1 DEF Stages
<1>4. CASE c.op = "release"
  <2>1. c.todo \in Stages["release"]
    BY <1>1, <1>4
  <2>. QED BY <1>4, <2>1 DEF Stages
<1>5. CASE c.op = "truncate"
  <2>1. c.todo \in Stages["truncate"]
    BY <1>1, <1>5
  <2>. QED BY <1>5, <2>1 DEF Stages
<1>6. CASE c.op = "rename"
  <2>1. c.todo \in Stages["rename"]
    BY <1>1, <1>6
  <2>. QED BY <1>6, <2>1 DEF Stages
<1>. QED BY <1>1, <1>2, <1>3, <1>4, <1>5, <1>6

\* The first of these phases and what is left after it: of an open and a release,
LEMMA Short ==
  /\ Head(<<"open", "force", "return">>) = "open"
     /\ Tail(<<"open", "force", "return">>) = <<"force", "return">>
     /\ <<"open", "force", "return">> # <<>>
  /\ Head(<<"open", "return">>) = "open" /\ Tail(<<"open", "return">>) = <<"return">>
     /\ <<"open", "return">> # <<>>
  /\ Head(<<"force", "return">>) = "force" /\ Tail(<<"force", "return">>) = <<"return">>
     /\ <<"force", "return">> # <<>>
  /\ Head(<<"return">>) = "return" /\ Tail(<<"return">>) = <<>>
     /\ <<"return">> # <<>>
  /\ Head(<<"close">>) = "close" /\ Tail(<<"close">>) = <<>>
     /\ <<"close">> # <<>>
  /\ Head(<<"find", "close">>) = "find" /\ Tail(<<"find", "close">>) = <<"close">>
     /\ <<"find", "close">> # <<>>
OBVIOUS

\* of the other calls that use one file,
LEMMA Tails ==
  /\ Head(<<"open", "load", "count">>) = "open" /\ Tail(<<"open", "load", "count">>) = <<"load", "count">>
     /\ <<"open", "load", "count">> # <<>>
  /\ Head(<<"load", "count">>) = "load" /\ Tail(<<"load", "count">>) = <<"count">>
     /\ <<"load", "count">> # <<>>
  /\ Head(<<"count">>) = "count" /\ Tail(<<"count">>) = <<>>
     /\ <<"count">> # <<>>
  /\ Head(<<"cut", "close">>) = "cut" /\ Tail(<<"cut", "close">>) = <<"close">>
     /\ <<"cut", "close">> # <<>>
  /\ Head(<<"force", "close">>) = "force" /\ Tail(<<"force", "close">>) = <<"close">>
     /\ <<"force", "close">> # <<>>
  /\ Head(<<"read", "close">>) = "read" /\ Tail(<<"read", "close">>) = <<"close">>
     /\ <<"read", "close">> # <<>>
  /\ Head(<<"write", "close">>) = "write" /\ Tail(<<"write", "close">>) = <<"close">>
     /\ <<"write", "close">> # <<>>
  /\ Head(<<"flush", "close">>) = "flush" /\ Tail(<<"flush", "close">>) = <<"close">>
     /\ <<"flush", "close">> # <<>>
  /\ Head(<<"exist", "read", "close">>) = "exist"
     /\ Tail(<<"exist", "read", "close">>) = <<"read", "close">>
     /\ <<"exist", "read", "close">> # <<>>
  /\ Head(<<"exist", "write", "close">>) = "exist"
     /\ Tail(<<"exist", "write", "close">>) = <<"write", "close">>
     /\ <<"exist", "write", "close">> # <<>>
  /\ Head(<<"exist", "flush", "close">>) = "exist"
     /\ Tail(<<"exist", "flush", "close">>) = <<"flush", "close">>
     /\ <<"exist", "flush", "close">> # <<>>
OBVIOUS

\* and of a rename.
LEMMA RenameTails ==
  /\ Head(<<"exist", "force", "close", "exist", "copy", "move", "close", "unlink">>) = "exist"
     /\ Tail(<<"exist", "force", "close", "exist", "copy", "move", "close", "unlink">>)
          = <<"force", "close", "exist", "copy", "move", "close", "unlink">>
     /\ <<"exist", "force", "close", "exist", "copy", "move", "close", "unlink">> # <<>>
  /\ Head(<<"force", "close", "exist", "copy", "move", "close", "unlink">>) = "force"
     /\ Tail(<<"force", "close", "exist", "copy", "move", "close", "unlink">>)
          = <<"close", "exist", "copy", "move", "close", "unlink">>
     /\ <<"force", "close", "exist", "copy", "move", "close", "unlink">> # <<>>
  /\ Head(<<"close", "exist", "copy", "move", "close", "unlink">>) = "close"
     /\ Tail(<<"close", "exist", "copy", "move", "close", "unlink">>)
          = <<"exist", "copy", "move", "close", "unlink">>
     /\ <<"close", "exist", "copy", "move", "close", "unlink">> # <<>>
  /\ Head(<<"exist", "copy", "move", "close", "unlink">>) = "exist"
     /\ Tail(<<"exist", "copy", "move", "close", "unlink">>) = <<"copy", "move", "close", "unlink">>
     /\ <<"exist", "copy", "move", "close", "unlink">> # <<>>
  /\ Head(<<"open", "copy", "move", "close", "unlink">>) = "open"
     /\ Tail(<<"open", "copy", "move", "close", "unlink">>) = <<"copy", "move", "close", "unlink">>
     /\ <<"open", "copy", "move", "close", "unlink">> # <<>>
  /\ Head(<<"copy", "move", "close", "unlink">>) = "copy"
     /\ Tail(<<"copy", "move", "close", "unlink">>) = <<"move", "close", "unlink">>
     /\ <<"copy", "move", "close", "unlink">> # <<>>
  /\ Head(<<"move", "close", "unlink">>) = "move"
     /\ Tail(<<"move", "close", "unlink">>) = <<"close", "unlink">>
     /\ <<"move", "close", "unlink">> # <<>>
  /\ Head(<<"close", "unlink">>) = "close" /\ Tail(<<"close", "unlink">>) = <<"unlink">>
     /\ <<"close", "unlink">> # <<>>
  /\ Head(<<"unlink">>) = "unlink" /\ Tail(<<"unlink">>) = <<>>
     /\ <<"unlink">> # <<>>
  /\ Head(<<"copy", "move", "unlink">>) = "copy"
     /\ Tail(<<"copy", "move", "unlink">>) = <<"move", "unlink">>
     /\ <<"copy", "move", "unlink">> # <<>>
  /\ Head(<<"move", "unlink">>) = "move" /\ Tail(<<"move", "unlink">>) = <<"unlink">>
     /\ <<"move", "unlink">> # <<>>
OBVIOUS

\* A handler goes on to a list that its next phases may be.
LEMMA TailIsStage ==
  ASSUME NEW c \in Call, StageOK(c), c.op # "idle"
  PROVE  /\ c.todo # <<>> /\ Tail(c.todo) \in Stages[c.op] \cup {<<>>}
         /\ <<"close">> \in Stages[c.op]
         /\ c.op \in DOMAIN Stages
<1>0. c.op \in {"open", "io", "release", "truncate", "rename"}
  BY Ops DEF StageOK
<1>1. <<"close">> \in Stages[c.op] /\ c.op \in DOMAIN Stages
  BY <1>0 DEF Stages
<1>2. /\ <<"force", "return">> \in Stages["open"] /\ <<"return">> \in Stages["open"]
      /\ {<<"read", "close">>, <<"write", "close">>, <<"flush", "close">>} \subseteq Stages["io"]
      /\ <<"close">> \in Stages["io"] /\ <<"close">> \in Stages["release"]
      /\ <<"load", "count">> \in Stages["truncate"] /\ <<"count">> \in Stages["truncate"]
      /\ <<"close">> \in Stages["truncate"]
  BY DEF Stages
<1>3. /\ <<"force", "close", "exist", "copy", "move", "close", "unlink">> \in Stages["rename"]
      /\ <<"close", "exist", "copy", "move", "close", "unlink">> \in Stages["rename"]
      /\ <<"exist", "copy", "move", "close", "unlink">> \in Stages["rename"]
      /\ <<"copy", "move", "close", "unlink">> \in Stages["rename"]
      /\ <<"move", "close", "unlink">> \in Stages["rename"]
      /\ <<"close", "unlink">> \in Stages["rename"] /\ <<"unlink">> \in Stages["rename"]
      /\ <<"move", "unlink">> \in Stages["rename"]
  BY DEF Stages
<1>4. c.todo # <<>>
  BY Phases, Short, Tails, RenameTails
<1>5. CASE c.op # "rename"
  <2>1. Tail(c.todo) \in Stages[c.op] \cup {<<>>}
    BY <1>0, <1>1, <1>2, <1>5, Phases, Short, Tails
  <2>. QED BY <1>1, <1>4, <2>1
<1>6. CASE c.op = "rename"
  <2>1. Tail(c.todo) \in Stages[c.op] \cup {<<>>}
    BY <1>1, <1>3, <1>6, Phases, Short, RenameTails
  <2>. QED BY <1>1, <1>4, <2>1
<1>. QED BY <1>5, <1>6

\* The call of a thread that does nothing.
LEMMA IdleIs ==
  /\ Idle \in Call /\ StageOK(Idle) /\ Idle.op = "idle" /\ Idle.at = "start" /\ Idle.todo = <<>>
  /\ Idle.ent = NoEnt /\ Idle.path = NoPath /\ Idle.to = NoPath /\ Idle.handle = NoHandle
  /\ ~Locked(Idle) /\ ~Working(Idle)
<1>1. <<>> \in Seq(Phase)
  OBVIOUS
<1>. QED BY <1>1 DEF Idle, Call, StageOK, Locked, Working, Length

\* A handler goes on with other phases, and keeps the rest of its call.
LEMMA Continues ==
  ASSUME NEW c \in Call, StageOK(c), c.op # "idle", NEW phases \in Stages[c.op] \cup {<<>>}
  PROVE  LET d == Continue(c, phases) IN
         /\ d \in Call /\ StageOK(d) /\ d.at = "start" /\ ~Locked(d) /\ ~Working(d)
         /\ phases = <<>> => d = Idle
         /\ phases # <<>> =>
              /\ d.op = c.op /\ d.todo = phases /\ d.path = c.path /\ d.to = c.to
              /\ d.handle = c.handle /\ d.ent = c.ent /\ d.len = c.len
<1>1. CASE phases = <<>>
  BY <1>1, IdleIs DEF Continue
<1>2. CASE phases # <<>>
  <2> DEFINE d == [c EXCEPT !.todo = phases, !.at = "start"]
  <2>1. phases \in Seq(Phase) /\ phases \in Stages[c.op]
    BY <1>2, StagesSeq, TailIsStage
  <2>2. Continue(c, phases) = d
    BY <1>2 DEF Continue
  <2>3. /\ d \in Call /\ d.op = c.op /\ d.todo = phases /\ d.at = "start" /\ d.path = c.path
        /\ d.to = c.to /\ d.handle = c.handle /\ d.ent = c.ent /\ d.len = c.len
    BY <2>1 DEF Call
  <2> HIDE DEF d
  <2>4. StageOK(d) /\ ~Locked(d) /\ ~Working(d)
    BY <2>1, <2>3 DEF StageOK, Locked, Working
  <2>. QED BY <1>2, <2>2, <2>3, <2>4
<1>. QED BY <1>1, <1>2

\* A handler proceeds to its next phase.
LEMMA Proceeds ==
  ASSUME NEW c \in Call, StageOK(c), c.op # "idle"
  PROVE  LET d == Proceed(c) IN
         /\ d \in Call /\ StageOK(d) /\ d.at = "start" /\ ~Locked(d) /\ ~Working(d)
         /\ Tail(c.todo) = <<>> => d = Idle
         /\ Tail(c.todo) # <<>> =>
              /\ d.op = c.op /\ d.todo = Tail(c.todo) /\ d.path = c.path /\ d.to = c.to
              /\ d.handle = c.handle /\ d.ent = c.ent /\ d.len = c.len
BY Continues, TailIsStage DEF Proceed

\* A handler only closes its entity, when a method fails.
LEMMA GivesUp ==
  ASSUME NEW c \in Call, StageOK(c), c.op # "idle"
  PROVE  LET d == GiveUp(c) IN
         /\ d \in Call /\ StageOK(d) /\ d.at = "start" /\ ~Locked(d) /\ ~Working(d)
         /\ d.op = c.op /\ d.todo = <<"close">> /\ d.path = c.path /\ d.to = c.to
         /\ d.handle = c.handle /\ d.ent = c.ent /\ d.len = c.len
<1> DEFINE e == [c EXCEPT !.failed = TRUE]
<1>1. /\ e \in Call /\ e.op = c.op /\ e.todo = c.todo /\ e.at = c.at /\ e.path = c.path
      /\ e.to = c.to /\ e.handle = c.handle /\ e.ent = c.ent /\ e.len = c.len
  BY DEF Call
<1> HIDE DEF e
<1>2. StageOK(e)
  BY <1>1 DEF StageOK, Locked, Working
<1>3. <<"close">> \in Stages[e.op] \cup {<<>>} /\ <<"close">> # <<>>
  BY <1>1, TailIsStage, Short
<1>4. GiveUp(c) = Continue(e, <<"close">>)
  BY DEF GiveUp, e
<1> DEFINE d == Continue(e, <<"close">>)
<1>5. /\ d \in Call /\ StageOK(d) /\ d.at = "start" /\ ~Locked(d) /\ ~Working(d)
      /\ d.op = e.op /\ d.todo = <<"close">> /\ d.path = e.path /\ d.to = e.to
      /\ d.handle = e.handle /\ d.ent = e.ent /\ d.len = e.len
  BY <1>1, <1>2, <1>3, Continues
<1>6. GiveUp(c) = d
  BY <1>4
<1> HIDE DEF d
<1>. QED BY <1>1, <1>5, <1>6

\* A handler has found an entity, or has none any more.
LEMMA SetsEnt ==
  ASSUME NEW c \in Call, StageOK(c), c.op # "idle", NEW x \in Ent \cup {NoEnt}
  PROVE  LET d == [c EXCEPT !.ent = x] IN
         /\ d \in Call /\ StageOK(d) /\ d.op = c.op /\ d.todo = c.todo /\ d.at = c.at
         /\ d.path = c.path /\ d.to = c.to /\ d.handle = c.handle /\ d.ent = x /\ d.len = c.len
<1> DEFINE d == [c EXCEPT !.ent = x]
<1>1. /\ d \in Call /\ d.op = c.op /\ d.todo = c.todo /\ d.at = c.at /\ d.path = c.path
      /\ d.to = c.to /\ d.handle = c.handle /\ d.ent = x /\ d.len = c.len
  BY DEF Call
<1> HIDE DEF d
<1>2. StageOK(d)
  BY <1>1 DEF StageOK, Locked, Working
<1>. QED BY <1>1, <1>2 DEF d

\* A handler enters a section, or looks once more.
LEMMA SetsAt ==
  ASSUME NEW c \in Call, StageOK(c), c.op # "idle", NEW at \in {"again", "locked", "rekey"},
         \/ at = "again" /\ Head(c.todo) = "exist"
         \/ at = "locked" /\ Head(c.todo) \in Sections \cup Work
         \/ at = "rekey" /\ Head(c.todo) \in Work
  PROVE  LET d == [c EXCEPT !.at = at] IN
         /\ d \in Call /\ StageOK(d) /\ d.op = c.op /\ d.todo = c.todo /\ d.at = at
         /\ d.path = c.path /\ d.to = c.to /\ d.handle = c.handle /\ d.ent = c.ent /\ d.len = c.len
         /\ Locked(d) <=> at = "locked" /\ Head(c.todo) \in Sections
         /\ Working(d) <=> at \in {"locked", "rekey"} /\ Head(c.todo) \in Work
<1> DEFINE d == [c EXCEPT !.at = at]
<1>1. /\ d \in Call /\ d.op = c.op /\ d.todo = c.todo /\ d.at = at /\ d.path = c.path
      /\ d.to = c.to /\ d.handle = c.handle /\ d.ent = c.ent /\ d.len = c.len
  BY DEF Call
<1> HIDE DEF d
<1>2. /\ Locked(d) <=> at = "locked" /\ Head(c.todo) \in Sections
      /\ Working(d) <=> at \in {"locked", "rekey"} /\ Head(c.todo) \in Work
  BY <1>1 DEF Locked, Working
<1>3. StageOK(d)
  BY <1>1, <1>2 DEF StageOK
<1>. QED BY <1>1, <1>2, <1>3 DEF d

-----------------------------------------------------------------------------
\* How a step of thread t, after which its call is d, may change the locks:
\* fd_manager_lock stays where it is, or is taken or given back,
ManagerStep(t, d) ==
  \/ manager' = manager /\ (Locked(d) <=> Locked(call[t]))
  \/ manager = NoThread /\ manager' = t /\ Locked(d)
  \/ Locked(call[t]) /\ manager' = NoThread /\ ~Locked(d)

\* and so does the lock of its entity.
LockStep(t, d) ==
  \/ lock' = lock /\ ~Working(call[t])
  \/ ~Working(call[t]) /\ lock' = [lock EXCEPT ![call[t].ent] = t] /\ Working(d)
     /\ d.ent = call[t].ent
  \/ Working(call[t]) /\ lock' = [lock EXCEPT ![call[t].ent] = NoThread]

\* The types after such a step.
LEMMA StepTypes ==
  ASSUME TypeInv, NEW t \in Thread, NEW d \in Call, StageOK(d), EntIs(d), Turn(t, d),
         fent' \subseteq Ent, entity' \in [Ent -> Entity],
         object' \in [Path -> Length \cup {Missing}],
         handle' \in [Handle -> [path : Path \cup {NoPath}, fd : Ent \cup {NoEnt}]], HandlesOK',
         ManagerStep(t, d), LockStep(t, d)
  PROVE  TypeInv'
<1>1. /\ call \in [Thread -> Call] /\ call' \in [Thread -> Call] /\ call'[t] = d
      /\ \A u \in Thread : u # t => call'[u] = call[u]
  BY DEF TypeInv, TypeOK, Turn
<1>2. \A u \in Thread : StageOK(call'[u]) /\ EntIs(call'[u])
  BY <1>1 DEF TypeInv
<1>3. \A u \in Thread : manager = u <=> Locked(call[u])
  BY DEF TypeInv, LockOK
<1>4. \A u \in Thread : manager' = u <=> Locked(call'[u])
  BY <1>1, <1>3 DEF ManagerStep
<1>5. manager' \in Thread \cup {NoThread} /\ manager \in Thread \cup {NoThread}
  BY DEF ManagerStep, TypeInv, TypeOK
<1>6. lock' \in [Ent -> Thread \cup {NoThread}] /\ lock \in [Ent -> Thread \cup {NoThread}]
  BY DEF LockStep, TypeInv, TypeOK
<1>7. \A x \in Ent, u \in Thread : lock[x] = u => call[u].ent = x /\ Working(call[u])
  BY DEF TypeInv, LockOK
<1>8. ASSUME NEW x \in Ent, NEW u \in Thread, lock'[x] = u
      PROVE  call'[u].ent = x /\ Working(call'[u])
  <2>1. CASE u = t
    BY <1>1, <1>6, <1>7, <1>8, <2>1 DEF LockStep
  <2>2. CASE u # t
    <3>1. lock[x] = u
      BY <1>6, <1>8, <2>2 DEF LockStep
    <3>. QED BY <1>1, <1>7, <2>2, <3>1
  <2>. QED BY <2>1, <2>2
<1>9. manager' # NoThread => call'[manager'].at = "locked"
  BY <1>4, <1>5 DEF Locked
<1>10. \A x \in Ent : lock'[x] # NoThread =>
         call'[lock'[x]].ent = x /\ call'[lock'[x]].at \in {"locked", "rekey"}
  BY <1>6, <1>8 DEF Working
<1>11. TypeOK'
  BY <1>1, <1>5, <1>6, <1>9, <1>10 DEF TypeOK
<1>12. LockOK'
  BY <1>4, <1>8 DEF LockOK
<1>. QED BY <1>2, <1>11, <1>12 DEF TypeInv

\* What a handler is doing, by its next phase.
LEMMA Heads ==
  ASSUME NEW c \in Call, StageOK(c), c.op # "idle"
  PROVE  /\ Head(c.todo) = "open" => c.op \in {"open", "truncate", "rename"} /\ Tail(c.todo) # <<>>
         /\ Head(c.todo) = "exist" => c.op \in {"io", "rename"} /\ Tail(c.todo) # <<>>
         /\ Head(c.todo) = "find" => c.op = "release" /\ Tail(c.todo) # <<>>
         /\ Head(c.todo) = "return" => c.op = "open" /\ c.todo = <<"return">>
         /\ Head(c.todo) = "count" => c.op = "truncate" /\ c.todo = <<"count">>
         /\ Head(c.todo) = "copy" =>
              /\ c.op = "rename" /\ c.todo \in {Tail(MoveOpen), MoveClosed} /\ Tail(c.todo) # <<>>
         /\ Head(c.todo) = "move" =>
              /\ c.op = "rename" /\ Tail(c.todo) # <<>>
              /\ Tail(c.todo) \in {<<"close", "unlink">>, <<"unlink">>}
         /\ Head(c.todo) = "unlink" => c.op = "rename" /\ c.todo = <<"unlink">>
         /\ Head(c.todo) \in Work => c.op \in {"open", "io", "truncate", "rename"} /\ Tail(c.todo) # <<>>
         /\ Head(c.todo) = "close" =>
              \/ c.todo = <<"close">>
              \/ c.op = "rename" /\ c.todo = <<"close", "unlink">>
              \/ c.op = "rename" /\ c.todo = <<"close", "exist", "copy", "move", "close", "unlink">>
<1>1. Head(c.todo) = "open" => c.op \in {"open", "truncate", "rename"} /\ Tail(c.todo) # <<>>
  BY Phases, Short, Tails, RenameTails
<1>2. Head(c.todo) = "exist" => c.op \in {"io", "rename"} /\ Tail(c.todo) # <<>>
  BY Phases, Short, Tails, RenameTails
<1>3. Head(c.todo) = "find" => c.op = "release" /\ Tail(c.todo) # <<>>
  BY Phases, Short, Tails, RenameTails
<1>4. Head(c.todo) = "return" => c.op = "open" /\ c.todo = <<"return">>
  BY Phases, Short, Tails, RenameTails
<1>5. Head(c.todo) = "count" => c.op = "truncate" /\ c.todo = <<"count">>
  BY Phases, Short, Tails, RenameTails
<1>6. Head(c.todo) = "copy" =>
        c.op = "rename" /\ c.todo \in {Tail(MoveOpen), MoveClosed} /\ Tail(c.todo) # <<>>
  BY Phases, Short, Tails, RenameTails DEF MoveOpen, MoveClosed
<1>7. Head(c.todo) = "move" =>
        /\ c.op = "rename" /\ Tail(c.todo) # <<>> /\ Tail(c.todo) \in {<<"close", "unlink">>, <<"unlink">>}
  BY Phases, Short, Tails, RenameTails
<1>8. Head(c.todo) = "unlink" => c.op = "rename" /\ c.todo = <<"unlink">>
  BY Phases, Short, Tails, RenameTails
<1>9. Head(c.todo) \in Work => c.op \in {"open", "io", "truncate", "rename"} /\ Tail(c.todo) # <<>>
  <2>1. /\ "open" \notin Work /\ "exist" \notin Work /\ "find" \notin Work /\ "return" \notin Work
        /\ "count" \notin Work /\ "copy" \notin Work /\ "move" \notin Work /\ "unlink" \notin Work
        /\ "close" \notin Work
    BY DEF Work
  <2>2. c.op # "rename" /\ Head(c.todo) \in Work =>
          c.op \in {"open", "io", "truncate", "rename"} /\ Tail(c.todo) # <<>>
    BY <2>1, Phases, Short, Tails
  <2>3. c.op = "rename" /\ Head(c.todo) \in Work => Tail(c.todo) # <<>>
    BY <2>1, Phases, Short, RenameTails
  <2>. QED BY <2>2, <2>3
<1>10. Head(c.todo) = "close" =>
         \/ c.todo = <<"close">>
         \/ c.op = "rename" /\ c.todo = <<"close", "unlink">>
         \/ c.op = "rename" /\ c.todo = <<"close", "exist", "copy", "move", "close", "unlink">>
  BY Phases, Short, Tails, RenameTails
<1>. QED BY <1>1, <1>2, <1>3, <1>4, <1>5, <1>6, <1>7, <1>8, <1>9, <1>10

\* A thread that runs a handler.
LEMMA Running ==
  ASSUME TypeInv, NEW t \in Thread, call[t].todo # <<>> \/ call[t].op # "idle"
  PROVE  /\ call[t] \in Call /\ StageOK(call[t]) /\ call[t].op # "idle" /\ call[t].path \in Path
         /\ call[t].ent \in Ent \cup {NoEnt} /\ call[t].len \in Length /\ EntIs(call[t])
<1>1. call[t] \in Call /\ StageOK(call[t]) /\ EntIs(call[t])
  BY DEF TypeInv, TypeOK
<1>2. call[t].op # "idle"
  BY <1>1, IdleIs DEF StageOK
<1>. QED BY <1>1, <1>2 DEF StageOK, Call

\* The call of the thread that takes a step.
LEMMA Turned ==
  ASSUME TypeInv, NEW t \in Thread, NEW d, Turn(t, d)
  PROVE  call'[t] = d /\ \A u \in Thread : u # t => call'[u] = call[u]
BY DEF TypeInv, TypeOK, Turn

\* Where a call need not have an entity.
LEMMA NotNeeded ==
  ASSUME NEW c, Head(c.todo) \in {"open", "exist", "find", "copy", "move", "unlink", "close"},
         c.at = "locked" => Head(c.todo) \notin {"open", "exist"}
  PROVE  EntIs(c)
BY DEF EntIs, Work

\* An idle thread has none.
LEMMA NotIdle == EntIs(Idle)
BY IdleIs DEF EntIs

\* What follows when an entity is closed.
LEMMA AfterClose ==
  ASSUME NEW c \in Call, StageOK(c), c.op # "idle", Head(c.todo) = "close", Tail(c.todo) # <<>>
  PROVE  Head(Tail(c.todo)) \in {"exist", "unlink"}
<1>1. c.todo \in {<<"close", "unlink">>, <<"close", "exist", "copy", "move", "close", "unlink">>}
  BY Heads, Short
<1>. QED BY <1>1, RenameTails

\* What follows a move.
LEMMA AfterMove ==
  ASSUME NEW phases \in {<<"close", "unlink">>, <<"unlink">>}
  PROVE  Head(phases) \in {"close", "unlink"}
BY RenameTails

\* The rest of the call stays as it is.
Same(d, c) == /\ d.op = c.op /\ d.path = c.path /\ d.to = c.to /\ d.handle = c.handle
              /\ d.len = c.len

\* Nothing changes but the calls.
LEMMA SameTypes ==
  ASSUME TypeInv
  PROVE  /\ fent \subseteq Ent /\ entity \in [Ent -> Entity]
         /\ object \in [Path -> Length \cup {Missing}]
         /\ handle \in [Handle -> [path : Path \cup {NoPath}, fd : Ent \cup {NoEnt}]]
         /\ handle' = handle => HandlesOK'
BY DEF TypeInv, TypeOK, HandlesOK

-----------------------------------------------------------------------------
(***************************************************************************)
(* Each step, and what it does to the types.                               *)
(***************************************************************************)
\* Open or ExistOpen finds an entity.
LEMMA FindTypes ==
  ASSUME TypeInv, NEW t \in Thread, Find(t)
  PROVE  /\ TypeInv' /\ call[t].op # "idle" /\ call[t].at \in {"start", "again"} /\ manager = NoThread
         /\ manager' = t /\ UNCHANGED <<fent, entity, object, handle, lock>>
         /\ Head(call[t].todo) \in {"open", "exist"}
         /\ \A u \in Thread : u # t => call'[u] = call[u]
         /\ Same(call'[t], call[t]) /\ call'[t].todo = call[t].todo /\ call'[t].at = "locked"
         /\ call'[t].ent \in Found(call[t].path) \cup OpenAs(call[t].path)
<1> DEFINE c == call[t]
<1>1. PICK x \in Ent :
        /\ c.todo # <<>> /\ Head(c.todo) \in {"open", "exist"} /\ c.at \in {"start", "again"}
        /\ x \in Found(c.path) \cup OpenAs(c.path)
        /\ Turn(t, [c EXCEPT !.at = "locked", !.ent = x])
        /\ manager = NoThread /\ manager' = t /\ UNCHANGED <<fent, entity, object, handle, lock>>
  BY DEF Find, Doing
<1>2. c \in Call /\ StageOK(c) /\ c.op # "idle"
  BY <1>1, Running
<1> DEFINE e == [c EXCEPT !.at = "locked"] d == [c EXCEPT !.at = "locked", !.ent = x]
<1>3. /\ e \in Call /\ StageOK(e) /\ e.op = c.op /\ e.todo = c.todo /\ e.at = "locked"
      /\ e.path = c.path /\ e.to = c.to /\ e.handle = c.handle /\ e.len = c.len
  BY <1>1, <1>2, SetsAt DEF Sections
<1>4. d = [e EXCEPT !.ent = x]
  BY <1>2 DEF Call
<1> HIDE DEF d, e
<1>5. /\ d \in Call /\ StageOK(d) /\ d.op = e.op /\ d.todo = e.todo /\ d.at = e.at
      /\ d.path = e.path /\ d.to = e.to /\ d.handle = e.handle /\ d.ent = x /\ d.len = e.len
  BY <1>2, <1>3, <1>4, SetsEnt
<1>6. Turn(t, d)
  BY <1>1 DEF d
<1>7. Locked(d) /\ ~Working(c) /\ Same(d, c) /\ EntIs(d)
  BY <1>1, <1>3, <1>5 DEF Locked, Working, Sections, Same, EntIs
<1>8. TypeInv'
  BY <1>1, <1>5, <1>6, <1>7, SameTypes, StepTypes DEF ManagerStep, LockStep
<1>. QED BY <1>1, <1>2, <1>3, <1>5, <1>6, <1>7, <1>8, Turned

\* FdEntity::Dup
LEMMA ReferenceTypes ==
  ASSUME TypeInv, NEW t \in Thread, Reference(t)
  PROVE  LET x == call[t].ent IN
         /\ TypeInv' /\ Locked(call[t]) /\ manager' = NoThread /\ UNCHANGED <<fent, object, handle, lock>>
         /\ Head(call[t].todo) \in {"open", "exist"} /\ call[t].op # "idle"
         /\ \A u \in Thread : u # t => call'[u] = call[u]
         /\ Same(call'[t], call[t]) /\ call'[t].todo = Tail(call[t].todo) /\ call'[t].at = "start"
         /\ call'[t].ent = call[t].ent /\ x \in Ent
         /\ \A y \in Ent : y # x => entity'[y] = entity[y]
         /\ entity'[x].path = entity[x].path /\ entity'[x].key = entity[x].key
         /\ entity'[x].open
         /\ entity'[x].refcnt = IF entity[x].open THEN entity[x].refcnt + 1 ELSE 1
<1> DEFINE c == call[t] x == c.ent d == Proceed(c)
           e == IF entity[x].open THEN [entity[x] EXCEPT !.refcnt = entity[x].refcnt + 1]
                ELSE [entity[x] EXCEPT !.refcnt = 1, !.open = TRUE, !.len = c.len]
<1>1. /\ c.todo # <<>> /\ Head(c.todo) \in {"open", "exist"} /\ c.at = "locked" /\ Turn(t, d)
      /\ manager' = NoThread /\ UNCHANGED <<fent, object, handle, lock>>
  BY DEF Reference, Doing
<1>0. entity' = [entity EXCEPT ![x] = e]
  BY DEF Reference
<1>2. c \in Call /\ StageOK(c) /\ c.op # "idle" /\ c.len \in Length
  BY <1>1, Running
<1>3. /\ d \in Call /\ StageOK(d) /\ d.at = "start" /\ ~Locked(d) /\ d.todo = Tail(c.todo)
      /\ d.op = c.op /\ d.path = c.path /\ d.to = c.to /\ d.handle = c.handle /\ d.ent = c.ent
      /\ d.len = c.len
  <2>1. Tail(c.todo) # <<>>
    BY <1>1, <1>2, Heads
  <2>. QED BY <1>2, <2>1, Proceeds
<1> HIDE DEF d
<1>4. entity \in [Ent -> Entity]
  BY SameTypes
<1>5. x \in Ent => /\ e \in Entity /\ e.path = entity[x].path /\ e.key = entity[x].key /\ e.open
                   /\ e.refcnt = IF entity[x].open THEN entity[x].refcnt + 1 ELSE 1
  <2> SUFFICES ASSUME x \in Ent
               PROVE  /\ e \in Entity /\ e.path = entity[x].path /\ e.key = entity[x].key /\ e.open
                      /\ e.refcnt = IF entity[x].open THEN entity[x].refcnt + 1 ELSE 1
    OBVIOUS
  <2>1. entity[x] \in Entity
    BY <1>4
  <2>2. CASE entity[x].open
    BY <2>1, <2>2 DEF Entity
  <2>3. CASE ~entity[x].open
    BY <1>2, <2>1, <2>3 DEF Entity
  <2>. QED BY <2>2, <2>3
<1> HIDE DEF e
<1>6. /\ entity' \in [Ent -> Entity] /\ (\A y \in Ent : y # x => entity'[y] = entity[y])
      /\ x \in Ent => entity'[x] = e
  BY <1>0, <1>4, <1>5
<1>7. Locked(c) /\ ~Working(c) /\ Same(d, c) /\ EntIs(d) /\ x \in Ent
  <2>1. x \in Ent
    BY <1>1, <1>2, Running DEF EntIs
  <2>. QED BY <1>1, <1>3, <2>1 DEF Locked, Working, Sections, Work, Same, EntIs
<1>8. TypeInv'
  BY <1>1, <1>3, <1>6, <1>7, SameTypes, StepTypes DEF ManagerStep, LockStep
<1>. QED BY <1>1, <1>2, <1>3, <1>5, <1>6, <1>7, <1>8, Turned

\* A handler proceeds with the entity it has found, or with none.
LEMMA ProceedsWith ==
  ASSUME NEW c \in Call, StageOK(c), c.op # "idle", NEW x \in Ent \cup {NoEnt}
  PROVE  LET d == Proceed([c EXCEPT !.ent = x]) IN
         /\ d \in Call /\ StageOK(d) /\ d.at = "start" /\ ~Locked(d) /\ ~Working(d)
         /\ Tail(c.todo) = <<>> => d = Idle
         /\ Tail(c.todo) # <<>> =>
              d.todo = Tail(c.todo) /\ Same(d, c) /\ d.ent = x
<1> DEFINE e == [c EXCEPT !.ent = x]
<1>1. /\ e \in Call /\ StageOK(e) /\ e.op = c.op /\ e.todo = c.todo /\ e.path = c.path
      /\ e.to = c.to /\ e.handle = c.handle /\ e.ent = x /\ e.len = c.len
  BY SetsEnt
<1> HIDE DEF e
<1> DEFINE d == Proceed(e)
<1>2. /\ d \in Call /\ StageOK(d) /\ d.at = "start" /\ ~Locked(d) /\ ~Working(d)
      /\ Tail(e.todo) = <<>> => d = Idle
      /\ Tail(e.todo) # <<>> =>
           /\ d.op = e.op /\ d.todo = Tail(e.todo) /\ d.path = e.path /\ d.to = e.to
           /\ d.handle = e.handle /\ d.ent = e.ent /\ d.len = e.len
  BY <1>1, Proceeds
<1>3. Proceed(e) = d
  OBVIOUS
<1> HIDE DEF d
<1>4. /\ d \in Call /\ StageOK(d) /\ d.at = "start" /\ ~Locked(d) /\ ~Working(d)
      /\ Tail(c.todo) = <<>> => d = Idle
      /\ Tail(c.todo) # <<>> => d.todo = Tail(c.todo) /\ Same(d, c) /\ d.ent = x
  BY <1>1, <1>2 DEF Same
<1>. QED BY <1>3, <1>4 DEF e

\* FdManager::Open makes an entity.
LEMMA CreateTypes ==
  ASSUME TypeInv, NEW t \in Thread, Create(t)
  PROVE  /\ TypeInv' /\ UNCHANGED <<object, handle, manager, lock>>
         /\ call[t].op # "idle" /\ call[t].todo # <<>> /\ Head(call[t].todo) = "open"
         /\ call[t].at = "start" /\ Found(call[t].path) = {}
         /\ \A u \in Thread : u # t => call'[u] = call[u]
         /\ Same(call'[t], call[t]) /\ call'[t].todo = Tail(call[t].todo) /\ call'[t].at = "start"
         /\ call'[t].ent \in Ent \ fent /\ fent' = fent \cup {call'[t].ent}
         /\ \A y \in Ent : y # call'[t].ent => entity'[y] = entity[y]
         /\ LET e == entity'[call'[t].ent] IN
            /\ e.path = call[t].path /\ e.key = (IF CacheDir THEN call[t].path ELSE NoPath)
            /\ e.open => e.refcnt = 1
<1> DEFINE c == call[t]
           made(opened) ==
             [path |-> call[t].path, key |-> IF CacheDir THEN call[t].path ELSE NoPath,
              refcnt |-> IF opened THEN 1 ELSE 0, open |-> opened,
              len |-> IF opened THEN call[t].len ELSE 0, dirty |-> FALSE]
<1>1. PICK x \in Ent \ fent, opened \in BOOLEAN :
        /\ fent' = fent \cup {x} /\ entity' = [entity EXCEPT ![x] = made(opened)]
        /\ Turn(t, Proceed([c EXCEPT !.ent = x]))
  BY DEF Create
<1>2. /\ c.todo # <<>> /\ Head(c.todo) = "open" /\ c.at = "start" /\ Found(c.path) = {}
      /\ manager = NoThread /\ UNCHANGED <<object, handle, manager, lock>>
  BY DEF Create, Doing
<1>3. c \in Call /\ StageOK(c) /\ c.op # "idle" /\ c.len \in Length /\ c.path \in Path
  BY <1>2, Running
<1> DEFINE d == Proceed([c EXCEPT !.ent = x])
<1>4. /\ d \in Call /\ StageOK(d) /\ d.at = "start" /\ ~Locked(d) /\ ~Working(d)
      /\ d.todo = Tail(c.todo) /\ Same(d, c) /\ d.ent = x
  <2>1. Tail(c.todo) # <<>>
    BY <1>2, <1>3, Heads
  <2>. QED BY <1>3, <2>1, ProceedsWith
<1>5. Turn(t, d)
  BY <1>1
<1> HIDE DEF d
<1> DEFINE e == made(opened)
<1>6. /\ e \in Entity /\ e.path = c.path /\ e.key = (IF CacheDir THEN c.path ELSE NoPath)
      /\ e.open => e.refcnt = 1
  BY <1>3 DEF Entity, Length
<1>7. entity' = [entity EXCEPT ![x] = e]
  BY <1>1
<1> HIDE DEF e
<1>8. /\ entity' \in [Ent -> Entity] /\ entity'[x] = e
      /\ \A y \in Ent : y # x => entity'[y] = entity[y]
  BY <1>6, <1>7, SameTypes
<1>9. ~Locked(c) /\ ~Working(c)
  BY <1>2 DEF Locked, Working
<1>10. fent' \subseteq Ent
  BY <1>1, SameTypes
<1>13. EntIs(d)
  BY <1>4 DEF EntIs
<1>11. TypeInv'
  BY <1>2, <1>4, <1>5, <1>13, <1>8, <1>9, <1>10, SameTypes, StepTypes DEF ManagerStep, LockStep
<1>12. call'[t] = d /\ \A u \in Thread : u # t => call'[u] = call[u]
  BY <1>5, Turned
<1>. QED BY <1>1, <1>2, <1>3, <1>4, <1>6, <1>8, <1>11, <1>12

\* ExistOpen finds nothing.
LEMMA FindNoneTypes ==
  ASSUME TypeInv, NEW t \in Thread, FindNone(t)
  PROVE  /\ TypeInv' /\ UNCHANGED <<fent, entity, object, handle, manager, lock>>
         /\ call[t].op \in {"io", "rename"} /\ call[t].todo # <<>> /\ Head(call[t].todo) = "exist"
         /\ call[t].at \in {"start", "again"}
         /\ \A u \in Thread : u # t => call'[u] = call[u]
         /\ \/ call'[t] = Idle
            \/ /\ Same(call'[t], call[t]) /\ call'[t].ent = call[t].ent
               /\ \/ /\ call'[t].todo = call[t].todo /\ call'[t].at = "again"
                  \/ /\ call[t].op = "rename" /\ call'[t].at = "start"
                     /\ \/ Head(call'[t].todo) = "exist"
                        \/ Head(call'[t].todo) = "open" /\ CacheDir
                        \/ call'[t].todo = <<"copy", "move", "unlink">>
                     /\ call'[t].todo \notin {<<"close", "unlink">>, <<"unlink">>}
<1> DEFINE c == call[t]
<1>1. /\ c.todo # <<>> /\ Head(c.todo) = "exist" /\ c.at \in {"start", "again"}
      /\ manager = NoThread /\ UNCHANGED <<fent, entity, object, handle, manager, lock>>
  BY DEF FindNone, Doing
<1>2. c \in Call /\ StageOK(c) /\ c.op \in {"io", "rename"} /\ c.op # "idle"
  <2>1. c \in Call /\ StageOK(c) /\ c.op # "idle"
    BY <1>1, Running
  <2>. QED BY <1>1, <2>1, Heads
<1>3. ~Locked(c) /\ ~Working(c)
  BY <1>1 DEF Locked, Working
<1>4. ASSUME NEW d \in Call, StageOK(d), EntIs(d), ~Locked(d), Turn(t, d)
      PROVE  TypeInv' /\ call'[t] = d /\ \A u \in Thread : u # t => call'[u] = call[u]
  <2>1. TypeInv'
    BY <1>1, <1>3, <1>4, SameTypes, StepTypes DEF ManagerStep, LockStep
  <2>. QED BY <1>4, <2>1, Turned
<1> DEFINE again == [c EXCEPT !.at = "again"]
<1>5. CASE Turn(t, again)
  <2>1. /\ again \in Call /\ StageOK(again) /\ Same(again, c) /\ again.ent = c.ent
        /\ again.todo = c.todo /\ again.at = "again" /\ ~Locked(again)
    BY <1>1, <1>2, SetsAt DEF Same
  <2> HIDE DEF again
  <2>3. EntIs(again)
    BY <1>1, <2>1, NotNeeded
  <2>2. TypeInv' /\ call'[t] = again /\ \A u \in Thread : u # t => call'[u] = call[u]
    BY <1>4, <1>5, <2>1, <2>3
  <2>. QED BY <1>1, <1>2, <2>1, <2>2
<1>6. CASE Turn(t, Idle)
  BY <1>1, <1>2, <1>4, <1>6, IdleIs, NotIdle
<1>7. ASSUME c.op = "rename", NEW phases \in Stages["rename"], Turn(t, Continue(c, phases)),
             phases # <<>>,
             \/ Head(phases) = "exist"
             \/ Head(phases) = "open" /\ CacheDir
             \/ phases = <<"copy", "move", "unlink">>,
             phases \notin {<<"close", "unlink">>, <<"unlink">>}
      PROVE  /\ TypeInv' /\ \A u \in Thread : u # t => call'[u] = call[u]
             /\ Same(call'[t], c) /\ call'[t].ent = c.ent /\ call'[t].at = "start"
             /\ call'[t].todo = phases
  <2> DEFINE d == Continue(c, phases)
  <2>1. phases \in Stages[c.op] \cup {<<>>}
    BY <1>7
  <2>2. /\ d \in Call /\ StageOK(d) /\ ~Locked(d) /\ Same(d, c) /\ d.ent = c.ent /\ d.at = "start"
        /\ d.todo = phases
    BY <1>2, <1>7, <2>1, Continues DEF Same
  <2> HIDE DEF d
  <2>3. Turn(t, d)
    BY <1>7 DEF d
  <2>5. EntIs(d)
    <3>1. Head(d.todo) \in {"exist", "open", "copy"}
      BY <1>7, <2>2, RenameTails
    <3>. QED BY <2>2, <3>1, NotNeeded
  <2>4. TypeInv' /\ call'[t] = d /\ \A u \in Thread : u # t => call'[u] = call[u]
    BY <1>4, <2>2, <2>3, <2>5
  <2>. QED BY <2>2, <2>4
<1>9. /\ MoveOpen = <<"exist", "copy", "move", "close", "unlink">>
      /\ MoveOpened = <<"open", "copy", "move", "close", "unlink">>
      /\ MoveClosed = <<"copy", "move", "unlink">>
  BY DEF MoveOpen, MoveOpened, MoveClosed
<1>11. Head(MoveOpen) = "exist" /\ Head(MoveOpened) = "open" /\ Head(MoveClosed) = "copy"
  BY <1>9, RenameTails
<1>8. \/ Turn(t, again) \/ Turn(t, Idle)
      \/ c.op = "rename" /\ \E phases \in {MoveOpen, MoveOpened, MoveClosed} :
            (phases = MoveOpened => CacheDir) /\ Turn(t, Continue(c, phases))
  <2>1. Turn(t, again) \/ Turn(t, CASE c.op # "rename" -> Idle
                                    [] c.todo[2] = "force" -> Continue(c, MoveOpen)
                                    [] OTHER -> Continue(c, IF CacheDir THEN MoveOpened ELSE MoveClosed))
    BY DEF FindNone
  <2>2. CASE c.op = "rename"
    BY <1>11, <2>1, <2>2
  <2>3. CASE c.op = "io"
    <3>1. c.todo[2] # "force"
      BY <1>1, <1>2, <2>3, Phases, Short, Tails
    <3>. QED BY <2>1, <2>3, <3>1
  <2>. QED BY <1>2, <2>2, <2>3
<1>10. ASSUME c.op = "rename", NEW phases \in {MoveOpen, MoveOpened, MoveClosed},
              phases = MoveOpened => CacheDir, Turn(t, Continue(c, phases))
       PROVE  /\ TypeInv' /\ \A u \in Thread : u # t => call'[u] = call[u]
              /\ Same(call'[t], c) /\ call'[t].ent = c.ent /\ call'[t].at = "start"
              /\ \/ Head(call'[t].todo) = "exist"
                 \/ Head(call'[t].todo) = "open" /\ CacheDir
                 \/ call'[t].todo = <<"copy", "move", "unlink">>
              /\ call'[t].todo \notin {<<"close", "unlink">>, <<"unlink">>}
  <2>1. phases \in Stages["rename"] /\ phases # <<>>
    BY <1>9, <1>10, RenameTails DEF Stages
  <2>2. \/ Head(phases) = "exist"
        \/ Head(phases) = "open" /\ CacheDir
        \/ phases = <<"copy", "move", "unlink">>
    <3>1. CASE phases = MoveOpen
      BY <1>11, <3>1
    <3>2. CASE phases = MoveOpened
      BY <1>10, <1>11, <3>2
    <3>3. CASE phases = MoveClosed
      BY <1>9, <3>3
    <3>. QED BY <3>1, <3>2, <3>3
  <2>3. phases \notin {<<"close", "unlink">>, <<"unlink">>}
    BY <1>9, <1>10, RenameTails
  <2>. QED BY <1>7, <1>10, <2>1, <2>2, <2>3
<1>. QED BY <1>1, <1>2, <1>5, <1>6, <1>8, <1>10

\* FdManager::GetFdEntity
LEMMA FindDescriptorTypes ==
  ASSUME TypeInv, NEW t \in Thread, FindDescriptor(t)
  PROVE  LET fd == call[t].ent IN
         /\ TypeInv' /\ UNCHANGED <<fent, entity, object, handle, manager, lock>>
         /\ call[t].op = "release" /\ call[t].at = "start" /\ call[t].todo = <<"find", "close">>
         /\ \A u \in Thread : u # t => call'[u] = call[u]
         /\ \/ /\ Same(call'[t], call[t]) /\ call'[t].at = "start" /\ call'[t].todo = <<"close">>
               /\ call'[t].ent \in fent
               /\ \/ call'[t].ent = fd \/ CacheDir
            \/ call'[t] = Idle /\ ~(fd \in fent /\ entity[fd].path = call[t].path)
<1> DEFINE c == call[t] fd == c.ent
           found == {x \in fent : x = fd /\ entity[x].path = c.path}
             \cup {x \in fent : CacheDir /\ fd = NoEnt /\ entity[x].key = c.path}
<1>1. /\ c.todo # <<>> /\ Head(c.todo) = "find" /\ c.at = "start" /\ manager = NoThread
      /\ UNCHANGED <<fent, entity, object, handle, manager, lock>>
      /\ \/ \E x \in found : Turn(t, Proceed([c EXCEPT !.ent = x]))
         \/ found = {} /\ Turn(t, Idle)
  BY DEF FindDescriptor, Doing
<1>2. c \in Call /\ StageOK(c) /\ c.op # "idle"
  BY <1>1, Running
<1>3. c.op = "release" /\ c.todo = <<"find", "close">> /\ Tail(c.todo) = <<"close">>
  BY <1>1, <1>2, Phases, Short, Tails, RenameTails
<1>4. ~Locked(c) /\ ~Working(c)
  BY <1>1 DEF Locked, Working
<1>5. ASSUME NEW d \in Call, StageOK(d), EntIs(d), ~Locked(d), Turn(t, d)
      PROVE  TypeInv' /\ call'[t] = d /\ \A u \in Thread : u # t => call'[u] = call[u]
  <2>1. TypeInv'
    BY <1>1, <1>4, <1>5, SameTypes, StepTypes DEF ManagerStep, LockStep
  <2>. QED BY <1>5, <2>1, Turned
<1>6. CASE found = {} /\ Turn(t, Idle)
  <2>1. ~(fd \in fent /\ entity[fd].path = c.path)
    BY <1>6
  <2>. QED BY <1>1, <1>3, <1>5, <1>6, <2>1, IdleIs, NotIdle
<1>7. CASE \E x \in found : Turn(t, Proceed([c EXCEPT !.ent = x]))
  <2>1. PICK x \in found : Turn(t, Proceed([c EXCEPT !.ent = x]))
    BY <1>7
  <2>2. x \in fent /\ (x = fd \/ CacheDir) /\ x \in Ent
    BY SameTypes
  <2> DEFINE d == Proceed([c EXCEPT !.ent = x])
  <2>3. /\ d \in Call /\ StageOK(d) /\ d.at = "start" /\ ~Locked(d) /\ d.todo = <<"close">>
        /\ Same(d, c) /\ d.ent = x
    BY <1>2, <1>3, <2>2, ProceedsWith, Short
  <2>4. Turn(t, d)
    BY <2>1
  <2> HIDE DEF d
  <2>6. EntIs(d)
    BY <2>3, NotNeeded, Short
  <2>5. TypeInv' /\ call'[t] = d /\ \A u \in Thread : u # t => call'[u] = call[u]
    BY <1>5, <2>3, <2>4, <2>6
  <2>. QED BY <1>1, <1>3, <2>2, <2>3, <2>5
<1>. QED BY <1>1, <1>6, <1>7

\* FdManager::Close finds the entity, or not.
LEMMA StartCloseTypes ==
  ASSUME TypeInv, NEW t \in Thread, StartClose(t)
  PROVE  /\ TypeInv' /\ UNCHANGED <<fent, entity, object, handle, lock>>
         /\ call[t].op # "idle" /\ call[t].todo # <<>> /\ Head(call[t].todo) = "close"
         /\ call[t].at = "start"
         /\ \A u \in Thread : u # t => call'[u] = call[u]
         /\ \/ /\ call[t].ent \in fent /\ Same(call'[t], call[t]) /\ call'[t].todo = call[t].todo
               /\ call'[t].at = "locked" /\ call'[t].ent = call[t].ent
            \/ /\ call[t].ent \notin fent /\ Tail(call[t].todo) = <<>> /\ call'[t] = Idle
            \/ /\ call[t].ent \notin fent /\ Tail(call[t].todo) # <<>> /\ Same(call'[t], call[t])
               /\ call'[t].todo = Tail(call[t].todo) /\ call'[t].at = "start" /\ call'[t].ent = NoEnt
<1> DEFINE c == call[t]
<1>1. /\ c.todo # <<>> /\ Head(c.todo) = "close" /\ c.at = "start" /\ manager = NoThread
      /\ UNCHANGED <<fent, entity, object, handle, lock>>
      /\ \/ c.ent \in fent /\ Turn(t, [c EXCEPT !.at = "locked"]) /\ manager' = t
         \/ c.ent \notin fent /\ Turn(t, Proceed([c EXCEPT !.ent = NoEnt])) /\ manager' = manager
  BY DEF StartClose, Doing
<1>2. c \in Call /\ StageOK(c) /\ c.op # "idle"
  BY <1>1, Running
<1>3. ~Locked(c) /\ ~Working(c)
  BY <1>1 DEF Locked, Working
<1>4. CASE c.ent \in fent /\ Turn(t, [c EXCEPT !.at = "locked"]) /\ manager' = t
  <2> DEFINE d == [c EXCEPT !.at = "locked"]
  <2>1. /\ d \in Call /\ StageOK(d) /\ Same(d, c) /\ d.todo = c.todo /\ d.at = "locked"
        /\ d.ent = c.ent /\ Locked(d)
    BY <1>1, <1>2, SetsAt DEF Sections, Same
  <2>2. Turn(t, d)
    BY <1>4
  <2> HIDE DEF d
  <2>4. EntIs(d)
    BY <1>1, <2>1, NotNeeded
  <2>3. TypeInv'
    BY <1>1, <1>3, <1>4, <2>1, <2>2, <2>4, SameTypes, StepTypes DEF ManagerStep, LockStep
  <2>. QED BY <1>1, <1>2, <1>4, <2>1, <2>2, <2>3, Turned
<1>5. CASE c.ent \notin fent /\ Turn(t, Proceed([c EXCEPT !.ent = NoEnt])) /\ manager' = manager
  <2> DEFINE d == Proceed([c EXCEPT !.ent = NoEnt])
  <2>1. /\ d \in Call /\ StageOK(d) /\ d.at = "start" /\ ~Locked(d)
        /\ Tail(c.todo) = <<>> => d = Idle
        /\ Tail(c.todo) # <<>> => d.todo = Tail(c.todo) /\ Same(d, c) /\ d.ent = NoEnt
    BY <1>2, ProceedsWith
  <2>2. Turn(t, d)
    BY <1>5
  <2> HIDE DEF d
  <2>4. EntIs(d)
    <3>1. CASE Tail(c.todo) = <<>>
      BY <2>1, <3>1, NotIdle
    <3>2. CASE Tail(c.todo) # <<>>
      <4>1. Head(d.todo) \in {"exist", "unlink"}
        BY <1>1, <1>2, <2>1, <3>2, AfterClose
      <4>. QED BY <2>1, <4>1, NotNeeded
    <3>. QED BY <3>1, <3>2
  <2>3. TypeInv'
    BY <1>1, <1>3, <1>5, <2>4, <2>1, <2>2, SameTypes, StepTypes DEF ManagerStep, LockStep
  <2>. QED BY <1>1, <1>2, <1>5, <2>1, <2>2, <2>3, Turned
<1>. QED BY <1>1, <1>4, <1>5

\* What is left of an entity that is deleted.
LEMMA FreedIs ==
  /\ Freed \in Entity /\ Freed.path = NoPath /\ Freed.key = NoPath /\ Freed.open = FALSE
  /\ Freed.refcnt = 0
BY DEF Freed, Entity, Length

\* FdEntity::Close
LEMMA DereferenceTypes ==
  ASSUME TypeInv, NEW t \in Thread, Dereference(t)
  PROVE  LET x == call[t].ent IN
         /\ TypeInv' /\ UNCHANGED <<object, handle, lock>>
         /\ call[t].op # "idle" /\ Head(call[t].todo) = "close" /\ call[t].at = "locked"
         /\ \A u \in Thread : u # t => call'[u] = call[u]
         /\ \/ Tail(call[t].todo) = <<>> /\ call'[t] = Idle
            \/ /\ Tail(call[t].todo) # <<>> /\ Same(call'[t], call[t])
               /\ call'[t].todo = Tail(call[t].todo) /\ call'[t].at = "start" /\ call'[t].ent = NoEnt
         /\ \A y \in Ent : y # x => entity'[y] = entity[y]
         /\ \/ /\ entity[x].open /\ entity[x].refcnt > 1 /\ fent' = fent
               /\ x \in Ent => /\ entity'[x].path = entity[x].path /\ entity'[x].key = entity[x].key
                               /\ entity'[x].open /\ entity'[x].refcnt = entity[x].refcnt - 1
            \/ /\ ~(entity[x].open /\ entity[x].refcnt > 1) /\ fent' = fent \ {x}
               /\ x \in Ent => entity'[x] = Freed
<1> DEFINE c == call[t] x == c.ent d == Proceed([c EXCEPT !.ent = NoEnt])
<1>1. /\ c.todo # <<>> /\ Head(c.todo) = "close" /\ c.at = "locked" /\ Turn(t, d)
      /\ manager' = NoThread /\ UNCHANGED <<object, handle, lock>>
      /\ \/ /\ entity[x].open /\ entity[x].refcnt > 1 /\ fent' = fent
            /\ entity' = [entity EXCEPT ![x].refcnt = entity[x].refcnt - 1]
         \/ /\ ~(entity[x].open /\ entity[x].refcnt > 1) /\ fent' = fent \ {x}
            /\ entity' = [entity EXCEPT ![x] = Freed]
  BY DEF Dereference, Doing
<1>2. c \in Call /\ StageOK(c) /\ c.op # "idle"
  BY <1>1, Running
<1>3. /\ d \in Call /\ StageOK(d) /\ d.at = "start" /\ ~Locked(d) /\ ~Working(d)
      /\ Tail(c.todo) = <<>> => d = Idle
      /\ Tail(c.todo) # <<>> => d.todo = Tail(c.todo) /\ Same(d, c) /\ d.ent = NoEnt
  BY <1>2, ProceedsWith
<1> HIDE DEF d
<1>4. Locked(c) /\ ~Working(c)
  BY <1>1 DEF Locked, Working, Sections, Work
<1>5. entity \in [Ent -> Entity] /\ fent \subseteq Ent
  BY SameTypes
<1>6. /\ entity' \in [Ent -> Entity] /\ fent' \subseteq Ent
      /\ \A y \in Ent : y # x => entity'[y] = entity[y]
      /\ \/ /\ entity[x].open /\ entity[x].refcnt > 1 /\ fent' = fent
            /\ x \in Ent => /\ entity'[x].path = entity[x].path /\ entity'[x].key = entity[x].key
                            /\ entity'[x].open /\ entity'[x].refcnt = entity[x].refcnt - 1
         \/ /\ ~(entity[x].open /\ entity[x].refcnt > 1) /\ fent' = fent \ {x}
            /\ x \in Ent => entity'[x] = Freed
  <2>1. CASE /\ entity[x].open /\ entity[x].refcnt > 1 /\ fent' = fent
             /\ entity' = [entity EXCEPT ![x].refcnt = entity[x].refcnt - 1]
    <3>1. x \in Ent => entity[x] \in Entity /\ entity[x].refcnt - 1 \in Nat
      BY <1>5, <2>1 DEF Entity
    <3> DEFINE e == [entity[x] EXCEPT !.refcnt = entity[x].refcnt - 1]
    <3>2. x \in Ent => /\ e \in Entity /\ e.path = entity[x].path /\ e.key = entity[x].key
                       /\ e.open = entity[x].open /\ e.refcnt = entity[x].refcnt - 1
      BY <3>1 DEF Entity
    <3>3. entity' = [entity EXCEPT ![x] = e]
      BY <2>1
    <3> HIDE DEF e
    <3>. QED BY <1>5, <2>1, <3>2, <3>3
  <2>2. CASE /\ ~(entity[x].open /\ entity[x].refcnt > 1) /\ fent' = fent \ {x}
             /\ entity' = [entity EXCEPT ![x] = Freed]
    BY <1>5, <2>2, FreedIs
  <2>. QED BY <1>1, <2>1, <2>2
<1>9. EntIs(d)
  <2>1. CASE Tail(c.todo) = <<>>
    BY <1>3, <2>1, NotIdle
  <2>2. CASE Tail(c.todo) # <<>>
    <3>1. Head(d.todo) \in {"exist", "unlink"}
      BY <1>1, <1>2, <1>3, <2>2, AfterClose
    <3>. QED BY <1>3, <3>1, NotNeeded
  <2>. QED BY <2>1, <2>2
<1>7. TypeInv'
  BY <1>1, <1>9, <1>3, <1>4, <1>6, SameTypes, StepTypes DEF ManagerStep, LockStep
<1>8. call'[t] = d /\ \A u \in Thread : u # t => call'[u] = call[u]
  BY <1>1, Turned
<1>. QED BY <1>1, <1>2, <1>3, <1>6, <1>7, <1>8

\* FdManager::Rename finds an entity, or not.
LEMMA StartMoveTypes ==
  ASSUME TypeInv, NEW t \in Thread, StartMove(t)
  PROVE  /\ TypeInv' /\ UNCHANGED <<fent, entity, object, handle, lock>>
         /\ call[t].op = "rename" /\ call[t].todo # <<>> /\ Head(call[t].todo) = "move"
         /\ call[t].at = "start"
         /\ \A u \in Thread : u # t => call'[u] = call[u]
         /\ Same(call'[t], call[t]) /\ call'[t].ent = call[t].ent
         /\ \/ call'[t].todo = call[t].todo /\ call'[t].at = "locked"
            \/ /\ Found(call[t].path) = {} /\ call'[t].at = "start"
               /\ call'[t].todo = Tail(call[t].todo)
               /\ Tail(call[t].todo) \in {<<"close", "unlink">>, <<"unlink">>}
<1> DEFINE c == call[t]
<1>1. /\ c.todo # <<>> /\ Head(c.todo) = "move" /\ c.at = "start" /\ manager = NoThread
      /\ UNCHANGED <<fent, entity, object, handle, lock>>
      /\ \/ Found(c.path) = {} /\ Turn(t, Proceed(c)) /\ manager' = manager
         \/ Turn(t, [c EXCEPT !.at = "locked"]) /\ manager' = t
  BY DEF StartMove, Doing
<1>2. c \in Call /\ StageOK(c) /\ c.op # "idle"
  BY <1>1, Running
<1>3. /\ c.op = "rename" /\ Tail(c.todo) # <<>>
      /\ Tail(c.todo) \in {<<"close", "unlink">>, <<"unlink">>}
  BY <1>1, <1>2, Heads
<1>4. ~Locked(c) /\ ~Working(c)
  BY <1>1 DEF Locked, Working
<1>5. CASE Turn(t, [c EXCEPT !.at = "locked"]) /\ manager' = t
  <2> DEFINE d == [c EXCEPT !.at = "locked"]
  <2>1. /\ d \in Call /\ StageOK(d) /\ Same(d, c) /\ d.todo = c.todo /\ d.at = "locked"
        /\ d.ent = c.ent /\ Locked(d)
    BY <1>1, <1>2, SetsAt DEF Sections, Same
  <2>2. Turn(t, d)
    BY <1>5
  <2> HIDE DEF d
  <2>4. EntIs(d)
    BY <1>1, <2>1, NotNeeded
  <2>3. TypeInv'
    BY <1>1, <1>4, <1>5, <2>1, <2>2, <2>4, SameTypes, StepTypes DEF ManagerStep, LockStep
  <2>. QED BY <1>1, <1>3, <2>1, <2>2, <2>3, Turned
<1>6. CASE Found(c.path) = {} /\ Turn(t, Proceed(c)) /\ manager' = manager
  <2> DEFINE d == Proceed(c)
  <2>1. /\ d \in Call /\ StageOK(d) /\ d.at = "start" /\ ~Locked(d) /\ d.todo = Tail(c.todo)
        /\ Same(d, c) /\ d.ent = c.ent
    BY <1>2, <1>3, Proceeds DEF Same
  <2>4. Head(d.todo) \in {"close", "unlink"} /\ d.at = "start"
    BY <1>3, <2>1, AfterMove
  <2>2. Turn(t, d)
    BY <1>6
  <2> HIDE DEF d
  <2>5. EntIs(d)
    BY <2>4, NotNeeded
  <2>3. TypeInv'
    BY <1>1, <1>4, <1>6, <2>5, <2>1, <2>2, SameTypes, StepTypes DEF ManagerStep, LockStep
  <2>. QED BY <1>1, <1>3, <1>6, <2>1, <2>2, <2>3, Turned
<1>. QED BY <1>1, <1>5, <1>6

\* FdEntity::RenamePath
LEMMA MoveTypes ==
  ASSUME TypeInv, NEW t \in Thread, Move(t)
  PROVE  /\ TypeInv' /\ UNCHANGED <<object, handle, lock>>
         /\ call[t].op = "rename" /\ Head(call[t].todo) = "move" /\ call[t].at = "locked"
         /\ \A u \in Thread : u # t => call'[u] = call[u]
         /\ Same(call'[t], call[t]) /\ call'[t].ent = call[t].ent /\ call'[t].at = "start"
         /\ call'[t].todo = Tail(call[t].todo)
         /\ Tail(call[t].todo) \in {<<"close", "unlink">>, <<"unlink">>}
         /\ \E x \in Found(call[t].path) :
              LET key == IF entity[x].key = NoPath THEN NoPath ELSE call[t].to IN
              /\ x \in Ent /\ lock[x] = NoThread
              /\ \A y \in Ent : y # x => entity'[y] = entity[y]
              /\ entity'[x].path = call[t].to /\ entity'[x].key = key
              /\ entity'[x].open = entity[x].open /\ entity'[x].refcnt = entity[x].refcnt
              /\ fent' = fent \ {y \in fent \ {x} : key # NoPath /\ entity[y].key = key}
<1> DEFINE c == call[t] d == Proceed(c)
           key(x) == IF entity[x].key = NoPath THEN NoPath ELSE c.to
<1>1. /\ c.todo # <<>> /\ Head(c.todo) = "move" /\ c.at = "locked" /\ Turn(t, d)
      /\ manager' = NoThread /\ UNCHANGED <<object, handle, lock>>
  BY DEF Move, Doing
<1>2. PICK x \in Found(c.path) :
        /\ lock[x] = NoThread
        /\ entity' = [entity EXCEPT ![x].path = c.to, ![x].key = key(x)]
        /\ fent' = fent \ {y \in fent \ {x} : key(x) # NoPath /\ entity[y].key = key(x)}
  BY DEF Move
<1>3. c \in Call /\ StageOK(c) /\ c.op # "idle"
  BY <1>1, Running
<1>4. /\ c.op = "rename" /\ Tail(c.todo) # <<>> /\ c.to \in Path
      /\ Tail(c.todo) \in {<<"close", "unlink">>, <<"unlink">>}
  BY <1>1, <1>3, Heads DEF StageOK
<1>5. /\ d \in Call /\ StageOK(d) /\ d.at = "start" /\ ~Locked(d) /\ d.todo = Tail(c.todo)
      /\ Same(d, c) /\ d.ent = c.ent
  BY <1>3, <1>4, Proceeds DEF Same
<1> HIDE DEF d
<1>6. Locked(c) /\ ~Working(c)
  BY <1>1 DEF Locked, Working, Sections, Work
<1>7. entity \in [Ent -> Entity] /\ fent \subseteq Ent /\ x \in Ent
  BY SameTypes DEF Found, OpenAs
<1>8. key(x) \in Path \cup {NoPath}
  BY <1>4
<1> HIDE DEF key
<1> DEFINE e == [entity[x] EXCEPT !.path = c.to, !.key = key(x)]
<1>9. /\ e \in Entity /\ e.path = c.to /\ e.key = key(x) /\ e.open = entity[x].open
      /\ e.refcnt = entity[x].refcnt
  <2>1. entity[x] \in Entity
    BY <1>7
  <2>. QED BY <1>4, <1>8, <2>1 DEF Entity
<1>10. entity' = [entity EXCEPT ![x] = e]
  BY <1>2, <1>7
<1> HIDE DEF e
<1>11. /\ entity' \in [Ent -> Entity] /\ entity'[x] = e
       /\ \A y \in Ent : y # x => entity'[y] = entity[y]
  BY <1>7, <1>9, <1>10
<1>12. fent' \subseteq Ent
  BY <1>2, <1>7
<1>17. Head(d.todo) \in {"close", "unlink"} /\ d.at = "start"
  BY <1>4, <1>5, AfterMove
<1>18. EntIs(d)
  BY <1>17, NotNeeded
<1>13. TypeInv'
  BY <1>1, <1>18, <1>5, <1>6, <1>11, <1>12, SameTypes, StepTypes DEF ManagerStep, LockStep
<1>14. call'[t] = d /\ \A u \in Thread : u # t => call'[u] = call[u]
  BY <1>1, Turned
<1>15. /\ x \in Found(c.path) /\ x \in Ent /\ lock[x] = NoThread
       /\ \A y \in Ent : y # x => entity'[y] = entity[y]
       /\ entity'[x].path = c.to /\ entity'[x].key = key(x)
       /\ entity'[x].open = entity[x].open /\ entity'[x].refcnt = entity[x].refcnt
       /\ fent' = fent \ {y \in fent \ {x} : key(x) # NoPath /\ entity[y].key = key(x)}
  BY <1>2, <1>7, <1>9, <1>11
<1>16. key(x) = IF entity[x].key = NoPath THEN NoPath ELSE c.to
  BY DEF key
<1>. QED BY <1>1, <1>4, <1>5, <1>13, <1>14, <1>15, <1>16

\* A method takes fdent_lock, or finds the entity not open.
LEMMA EnterTypes ==
  ASSUME TypeInv, NEW t \in Thread, Enter(t)
  PROVE  /\ TypeInv' /\ UNCHANGED <<fent, entity, object, handle, manager>>
         /\ call[t].op # "idle" /\ call[t].todo # <<>> /\ Head(call[t].todo) \in Work
         /\ call[t].at = "start" /\ call[t].ent \in Ent
         /\ \A u \in Thread : u # t => call'[u] = call[u]
         /\ Same(call'[t], call[t]) /\ call'[t].ent = call[t].ent
         /\ \/ call'[t].todo = call[t].todo /\ call'[t].at \in {"locked", "rekey"}
            \/ call'[t].todo = <<"close">> /\ call'[t].at = "start"
<1> DEFINE c == call[t] x == c.ent
<1>1. /\ c.todo # <<>> /\ Head(c.todo) \in Work /\ c.at = "start"
      /\ UNCHANGED <<fent, entity, object, handle, manager>>
      /\ \/ /\ lock' = [lock EXCEPT ![x] = t]
            /\ \E at \in {"locked", "rekey"} : Turn(t, [c EXCEPT !.at = at])
         \/ lock' = lock /\ Turn(t, GiveUp(c))
  BY DEF Enter, Doing, Places
<1>2. c \in Call /\ StageOK(c) /\ c.op # "idle" /\ EntIs(c) /\ x \in Ent
  BY <1>1, Running DEF EntIs
<1>3. ~Locked(c) /\ ~Working(c)
  BY <1>1 DEF Locked, Working
<1>4. CASE lock' = [lock EXCEPT ![x] = t] /\ \E at \in {"locked", "rekey"} : Turn(t, [c EXCEPT !.at = at])
  <2>1. PICK at \in {"locked", "rekey"} : Turn(t, [c EXCEPT !.at = at])
    BY <1>4
  <2> DEFINE d == [c EXCEPT !.at = at]
  <2>2. /\ d \in Call /\ StageOK(d) /\ Same(d, c) /\ d.todo = c.todo /\ d.at = at /\ d.ent = c.ent
        /\ ~Locked(d) /\ Working(d)
    <3>4. StageOK([c EXCEPT !.at = "locked"]) /\ StageOK([c EXCEPT !.at = "rekey"])
      <4>1. Head(c.todo) \in Work
        BY <1>1
      <4>. QED BY <1>2, <4>1, SetsAt
    <3>5. StageOK(d)
      BY <3>4
    <3>1. Head(c.todo) \notin Sections
      BY <1>1 DEF Work, Sections
    <3>2. /\ d \in Call /\ d.op = c.op /\ d.todo = c.todo /\ d.at = at
          /\ d.path = c.path /\ d.to = c.to /\ d.handle = c.handle /\ d.ent = c.ent /\ d.len = c.len
      BY <1>2 DEF Call
    <3>3. ~Locked(d) /\ Working(d)
      BY <1>1, <3>1, <3>2 DEF Locked, Working
    <3>. QED BY <3>2, <3>3, <3>5 DEF Same
  <2>3. Turn(t, d)
    BY <2>1
  <2> HIDE DEF d
  <2>4. EntIs(d)
    BY <1>2, <2>2 DEF EntIs
  <2>5. TypeInv'
    BY <1>1, <1>3, <1>4, <2>2, <2>3, <2>4, SameTypes, StepTypes DEF ManagerStep, LockStep
  <2>. QED BY <1>1, <1>2, <2>2, <2>3, <2>5, Turned
<1>5. CASE lock' = lock /\ Turn(t, GiveUp(c))
  <2> DEFINE d == GiveUp(c)
  <2>1. /\ d \in Call /\ StageOK(d) /\ Same(d, c) /\ d.todo = <<"close">> /\ d.at = "start"
        /\ d.ent = c.ent /\ ~Locked(d)
    BY <1>2, GivesUp DEF Same
  <2>2. Turn(t, d)
    BY <1>5
  <2> HIDE DEF d
  <2>3. EntIs(d)
    BY <2>1, NotNeeded, Short
  <2>4. TypeInv'
    BY <1>1, <1>3, <1>5, <2>1, <2>2, <2>3, SameTypes, StepTypes DEF ManagerStep, LockStep
  <2>. QED BY <1>1, <1>2, <2>1, <2>2, <2>4, Turned
<1>. QED BY <1>1, <1>4, <1>5

\* What a method leaves of an entity and its object.
LEMMA ResultsAre ==
  ASSUME TypeInv, NEW phase, NEW n \in Length, NEW e \in Entity,
         NEW r \in Results(phase, n, e) \cup {Result(e, object, FALSE)}
  PROVE  /\ r.entity \in Entity /\ r.entity.path = e.path /\ r.entity.key = e.key
         /\ r.entity.open = e.open /\ r.entity.refcnt = e.refcnt
         /\ r.object \in [Path -> Length \cup {Missing}]
<1> DEFINE R(s) == /\ s.entity \in Entity /\ s.entity.path = e.path /\ s.entity.key = e.key
                   /\ s.entity.open = e.open /\ s.entity.refcnt = e.refcnt
                   /\ s.object \in [Path -> Length \cup {Missing}]
<1>1. object \in [Path -> Length \cup {Missing}]
  BY SameTypes
<1>2. \A ok \in BOOLEAN : R(Result(e, object, ok))
  BY <1>1 DEF Result
<1>3. ASSUME NEW m \in Length PROVE R(Result([e EXCEPT !.len = m, !.dirty = TRUE], object, TRUE))
  BY <1>1 DEF Result, Entity
<1>4. R(Result([e EXCEPT !.dirty = FALSE], Upload(e), TRUE))
  <2>1. e.len \in Length /\ e.path \in Path \cup {NoPath}
    BY DEF Entity
  <2>2. Upload(e) \in [Path -> Length \cup {Missing}]
    BY <1>1, <2>1 DEF Upload
  <2> DEFINE o == Upload(e)
  <2> HIDE DEF o
  <2>. QED BY <2>2 DEF Result, Entity
<1>5. /\ [e EXCEPT !.len = IF @ < n THEN n ELSE @, !.dirty = TRUE] =
           [e EXCEPT !.len = IF e.len < n THEN n ELSE e.len, !.dirty = TRUE]
      /\ (IF e.len < n THEN n ELSE e.len) \in Length
  BY DEF Entity
<1> HIDE DEF R
<1>6. \A s \in Results(phase, n, e) : R(s)
  BY <1>2, <1>3, <1>4, <1>5 DEF Results
<1>7. R(r)
  BY <1>2, <1>6
<1>. QED BY <1>7 DEF R

\* A method returns.
LEMMA FinishTypes ==
  ASSUME TypeInv, NEW t \in Thread, Finish(t)
  PROVE  LET x == call[t].ent IN
         /\ TypeInv' /\ UNCHANGED <<fent, handle, manager>>
         /\ call[t].op # "idle" /\ Head(call[t].todo) \in Work /\ x \in Ent
         /\ call[t].at \in {"locked", "rekey"}
         /\ \A u \in Thread : u # t => call'[u] = call[u]
         /\ Same(call'[t], call[t]) /\ call'[t].ent = x /\ call'[t].at = "start"
         /\ call'[t].todo \in {Tail(call[t].todo), <<"close">>} /\ Tail(call[t].todo) # <<>>
         /\ \A y \in Ent : y # x => entity'[y] = entity[y]
         /\ entity'[x].path = entity[x].path /\ entity'[x].key \in {entity[x].key, NoPath}
         /\ entity'[x].open = entity[x].open /\ entity'[x].refcnt = entity[x].refcnt
<1> DEFINE c == call[t] x == c.ent
           e == IF call[t].at = "rekey" THEN [entity[x] EXCEPT !.key = NoPath] ELSE entity[x]
<1>1. /\ c.todo # <<>> /\ Head(c.todo) \in Work /\ c.at \in {"locked", "rekey"}
      /\ UNCHANGED <<fent, handle, manager>> /\ lock' = [lock EXCEPT ![x] = NoThread]
  BY DEF Finish, Doing
<1>2. c \in Call /\ StageOK(c) /\ c.op # "idle" /\ EntIs(c) /\ x \in Ent /\ c.len \in Length
  BY <1>1, Running DEF EntIs
<1>3. PICK r \in Results(Head(c.todo), c.len, e) \cup {Result(e, object, FALSE)} :
        /\ entity' = [entity EXCEPT ![x] = r.entity] /\ object' = r.object
        /\ Turn(t, IF r.ok THEN Proceed(c) ELSE GiveUp(c))
  BY DEF Finish
<1>4. /\ e \in Entity /\ e.path = entity[x].path /\ e.key \in {entity[x].key, NoPath}
      /\ e.open = entity[x].open /\ e.refcnt = entity[x].refcnt
  <2>1. entity[x] \in Entity
    BY <1>2, SameTypes
  <2>. QED BY <2>1 DEF Entity
<1> HIDE DEF e
<1>5. /\ r.entity \in Entity /\ r.entity.path = e.path /\ r.entity.key = e.key
      /\ r.entity.open = e.open /\ r.entity.refcnt = e.refcnt
      /\ object' \in [Path -> Length \cup {Missing}]
  <2>1. /\ r.entity \in Entity /\ r.entity.path = e.path /\ r.entity.key = e.key
        /\ r.entity.open = e.open /\ r.entity.refcnt = e.refcnt
        /\ r.object \in [Path -> Length \cup {Missing}]
    BY <1>2, <1>4, ResultsAre
  <2>. QED BY <1>3, <2>1
<1>6. /\ entity' \in [Ent -> Entity] /\ entity'[x] = r.entity
      /\ \A y \in Ent : y # x => entity'[y] = entity[y]
  BY <1>2, <1>3, <1>5, SameTypes
<1>7. Working(c) /\ ~Locked(c)
  BY <1>1 DEF Locked, Working, Sections, Work
<1> DEFINE d == IF r.ok THEN Proceed(c) ELSE GiveUp(c)
<1>8. Tail(c.todo) # <<>>
  BY <1>1, <1>2, Heads
<1>9. /\ d \in Call /\ StageOK(d) /\ Same(d, c) /\ d.ent = x /\ d.at = "start"
      /\ ~Locked(d) /\ d.todo \in {Tail(c.todo), <<"close">>}
  <2>1. CASE r.ok
    BY <1>2, <1>8, <2>1, Proceeds DEF Same
  <2>2. CASE ~r.ok
    BY <1>2, <2>2, GivesUp DEF Same
  <2>. QED BY <2>1, <2>2
<1>10. Turn(t, d)
  BY <1>3
<1> HIDE DEF d
<1>11. EntIs(d)
  BY <1>2, <1>9 DEF EntIs
<1>12. TypeInv'
  BY <1>1, <1>5, <1>6, <1>7, <1>9, <1>10, <1>11, SameTypes, StepTypes DEF ManagerStep, LockStep
<1>13. call'[t] = d /\ \A u \in Thread : u # t => call'[u] = call[u]
  BY <1>10, Turned
<1>. QED BY <1>1, <1>2, <1>4, <1>5, <1>6, <1>8, <1>9, <1>12, <1>13

\* s3fs_open stores the descriptor.
LEMMA ReturnTypes ==
  ASSUME TypeInv, NEW t \in Thread, Return(t)
  PROVE  /\ TypeInv' /\ UNCHANGED <<fent, entity, object, manager, lock>>
         /\ call[t].op = "open" /\ call[t].todo = <<"return">> /\ call[t].at = "start"
         /\ call[t].ent \in Ent /\ call[t].handle \in Handle
         /\ call'[t] = Idle /\ \A u \in Thread : u # t => call'[u] = call[u]
         /\ \A h \in Handle : h # call[t].handle => handle'[h] = handle[h]
         /\ handle'[call[t].handle] =
              [path |-> call[t].path,
               fd |-> IF entity[call[t].ent].open THEN call[t].ent ELSE NoEnt]
<1> DEFINE c == call[t]
           f == [path |-> c.path, fd |-> IF entity[c.ent].open THEN c.ent ELSE NoEnt]
<1>1. /\ c.todo # <<>> /\ Head(c.todo) = "return" /\ c.at = "start" /\ Turn(t, Idle)
      /\ handle' = [handle EXCEPT ![c.handle] = f]
      /\ UNCHANGED <<fent, entity, object, manager, lock>>
  BY DEF Return, Doing
<1>2. /\ c \in Call /\ StageOK(c) /\ c.op = "open" /\ c.todo = <<"return">> /\ c.ent \in Ent
      /\ c.path \in Path
  <2>1. c \in Call /\ StageOK(c) /\ c.op # "idle" /\ EntIs(c) /\ c.path \in Path
    BY <1>1, Running
  <2>. QED BY <1>1, <2>1, Heads DEF EntIs
<1>3. c.handle \in Handle
  BY <1>2 DEF StageOK
<1>4. ~Locked(c) /\ ~Working(c)
  BY <1>1 DEF Locked, Working
<1>5. f \in [path : Path \cup {NoPath}, fd : Ent \cup {NoEnt}] /\ f.path \in Path
  BY <1>2
<1> HIDE DEF f
<1>6. handle \in [Handle -> [path : Path \cup {NoPath}, fd : Ent \cup {NoEnt}]] /\ HandlesOK
  BY DEF TypeInv, TypeOK
<1>7. /\ handle' \in [Handle -> [path : Path \cup {NoPath}, fd : Ent \cup {NoEnt}]]
      /\ handle'[c.handle] = f /\ \A h \in Handle : h # c.handle => handle'[h] = handle[h]
  BY <1>1, <1>3, <1>5, <1>6
<1>8. HandlesOK'
  BY <1>5, <1>6, <1>7 DEF HandlesOK
<1>9. TypeInv'
  BY <1>1, <1>4, <1>7, <1>8, IdleIs, NotIdle, SameTypes, StepTypes DEF ManagerStep, LockStep
<1>. QED BY <1>1, <1>2, <1>3, <1>7, <1>9, Turned DEF f

\* s3fs_truncate reads the reference count.
LEMMA CountReferencesTypes ==
  ASSUME TypeInv, NEW t \in Thread, CountReferences(t)
  PROVE  /\ TypeInv' /\ UNCHANGED <<fent, entity, object, handle, manager, lock>>
         /\ call[t].op = "truncate" /\ call[t].todo = <<"count">> /\ call[t].at = "start"
         /\ \A u \in Thread : u # t => call'[u] = call[u]
         /\ Same(call'[t], call[t]) /\ call'[t].ent = call[t].ent /\ call'[t].at = "start"
         /\ call'[t].todo \in {<<"cut", "close">>, <<"force", "close">>}
<1> DEFINE c == call[t]
<1>1. /\ c.todo # <<>> /\ Head(c.todo) = "count" /\ c.at = "start"
      /\ UNCHANGED <<fent, entity, object, handle, manager, lock>>
  BY DEF CountReferences, Doing
<1>2. PICK phases \in {<<"cut", "close">>, <<"force", "close">>} : Turn(t, Continue(c, phases))
  BY DEF CountReferences
<1>3. /\ c \in Call /\ StageOK(c) /\ c.op = "truncate" /\ c.todo = <<"count">> /\ c.ent \in Ent
  <2>1. c \in Call /\ StageOK(c) /\ c.op # "idle" /\ EntIs(c)
    BY <1>1, Running
  <2>. QED BY <1>1, <2>1, Heads DEF EntIs
<1>4. phases \in Stages[c.op] \cup {<<>>} /\ phases # <<>>
  BY <1>3, Tails DEF Stages
<1> DEFINE d == Continue(c, phases)
<1>5. /\ d \in Call /\ StageOK(d) /\ Same(d, c) /\ d.ent = c.ent /\ d.at = "start"
      /\ ~Locked(d) /\ d.todo = phases
  BY <1>3, <1>4, Continues DEF Same
<1>6. Turn(t, d)
  BY <1>2
<1> HIDE DEF d
<1>7. EntIs(d)
  BY <1>3, <1>5 DEF EntIs
<1>8. ~Locked(c) /\ ~Working(c)
  BY <1>1 DEF Locked, Working
<1>9. TypeInv'
  BY <1>1, <1>5, <1>6, <1>7, <1>8, SameTypes, StepTypes DEF ManagerStep, LockStep
<1>. QED BY <1>1, <1>2, <1>3, <1>5, <1>6, <1>9, Turned

\* put_headers
LEMMA CopyTypes ==
  ASSUME TypeInv, NEW t \in Thread, Copy(t)
  PROVE  /\ TypeInv' /\ UNCHANGED <<fent, entity, handle, manager, lock>>
         /\ call[t].op = "rename" /\ call[t].at = "start"
         /\ call[t].todo \in {<<"copy", "move", "close", "unlink">>, <<"copy", "move", "unlink">>}
         /\ \A u \in Thread : u # t => call'[u] = call[u]
         /\ \/ call[t].ent = NoEnt /\ call'[t] = Idle
            \/ /\ Same(call'[t], call[t]) /\ call'[t].ent = call[t].ent /\ call'[t].at = "start"
               /\ \/ call'[t].todo = Tail(call[t].todo)
                  \/ call'[t].todo = <<"close">> /\ call[t].ent # NoEnt
<1> DEFINE c == call[t]
<1>1. /\ c.todo # <<>> /\ Head(c.todo) = "copy" /\ c.at = "start"
      /\ UNCHANGED <<fent, entity, handle, manager, lock>>
      /\ \/ object' = [object EXCEPT ![c.to] = object[c.path]] /\ Turn(t, Proceed(c))
         \/ object' = object /\ Turn(t, IF c.ent = NoEnt THEN Idle ELSE GiveUp(c))
  BY DEF Copy, Doing
<1>2. c \in Call /\ StageOK(c) /\ c.op # "idle" /\ c.path \in Path
  BY <1>1, Running
<1>3. /\ c.op = "rename" /\ Tail(c.todo) # <<>>
      /\ c.todo \in {<<"copy", "move", "close", "unlink">>, <<"copy", "move", "unlink">>}
  <2>1. c.op = "rename" /\ Tail(c.todo) # <<>>
    BY <1>1, <1>2, Heads
  <2>2. c.todo \in {<<"copy", "move", "close", "unlink">>, <<"copy", "move", "unlink">>}
    BY <1>1, <1>2, <2>1, Phases, Short, RenameTails
  <2>. QED BY <2>1, <2>2
<1>4. ~Locked(c) /\ ~Working(c)
  BY <1>1 DEF Locked, Working
<1>5. object' \in [Path -> Length \cup {Missing}]
  BY <1>1, <1>2, SameTypes
<1>6. ASSUME NEW d \in Call, StageOK(d), EntIs(d), ~Locked(d), Turn(t, d)
      PROVE  TypeInv' /\ call'[t] = d /\ \A u \in Thread : u # t => call'[u] = call[u]
  <2>1. TypeInv'
    BY <1>1, <1>4, <1>5, <1>6, SameTypes, StepTypes DEF ManagerStep, LockStep
  <2>. QED BY <1>6, <2>1, Turned
<1>7. CASE Turn(t, Proceed(c))
  <2> DEFINE d == Proceed(c)
  <2>1. /\ d \in Call /\ StageOK(d) /\ Same(d, c) /\ d.ent = c.ent /\ d.at = "start" /\ ~Locked(d)
        /\ d.todo = Tail(c.todo)
    BY <1>2, <1>3, Proceeds DEF Same
  <2>2. Turn(t, d)
    BY <1>7
  <2> HIDE DEF d
  <2>3. Head(d.todo) = "move"
    <3>1. Head(Tail(c.todo)) = "move"
      BY <1>3, RenameTails
    <3>. QED BY <2>1, <3>1
  <2>4. EntIs(d)
    <3>1. Head(d.todo) \in {"open", "exist", "find", "copy", "move", "unlink", "close"}
      BY <2>3
    <3>2. d.at = "locked" => Head(d.todo) \notin {"open", "exist"}
      BY <2>3
    <3>. QED BY <3>1, <3>2, NotNeeded
  <2>5. TypeInv' /\ call'[t] = d /\ \A u \in Thread : u # t => call'[u] = call[u]
    BY <1>6, <2>1, <2>2, <2>4
  <2>. QED BY <1>1, <1>3, <2>1, <2>5
<1>8. CASE c.ent = NoEnt /\ Turn(t, Idle)
  BY <1>1, <1>3, <1>6, <1>8, IdleIs, NotIdle
<1>9. CASE c.ent # NoEnt /\ Turn(t, GiveUp(c))
  <2> DEFINE d == GiveUp(c)
  <2>1. /\ d \in Call /\ StageOK(d) /\ Same(d, c) /\ d.ent = c.ent /\ d.at = "start" /\ ~Locked(d)
        /\ d.todo = <<"close">>
    BY <1>2, GivesUp DEF Same
  <2>2. Turn(t, d)
    BY <1>9
  <2> HIDE DEF d
  <2>3. EntIs(d)
    BY <2>1, NotNeeded, Short
  <2>4. TypeInv' /\ call'[t] = d /\ \A u \in Thread : u # t => call'[u] = call[u]
    BY <1>6, <2>1, <2>2, <2>3
  <2>. QED BY <1>1, <1>3, <1>9, <2>1, <2>4
<1>. QED BY <1>1, <1>7, <1>8, <1>9

\* s3fs_unlink, and libfuse after it.
LEMMA UnlinkTypes ==
  ASSUME TypeInv, NEW t \in Thread, Unlink(t)
  PROVE  /\ TypeInv' /\ UNCHANGED <<fent, entity, manager, lock>>
         /\ call[t].op = "rename" /\ call[t].todo = <<"unlink">> /\ call[t].at = "start"
         /\ call'[t] = Idle /\ \A u \in Thread : u # t => call'[u] = call[u]
         /\ \/ \A h \in Handle :
                 /\ handle'[h].fd = handle[h].fd
                 /\ handle'[h].path = IF handle[h].path = call[t].path THEN call[t].to
                                      ELSE handle[h].path
                 /\ handle[h] = Unused => handle'[h] = Unused
                 /\ handle[h].path # call[t].path => handle'[h] = handle[h]
            \/ UnlinkMayFail /\ handle' = handle
<1> DEFINE c == call[t]
           f(h) == IF handle[h].path = c.path THEN [handle[h] EXCEPT !.path = c.to] ELSE handle[h]
<1>1. /\ c.todo # <<>> /\ Head(c.todo) = "unlink" /\ c.at = "start" /\ Turn(t, Idle)
      /\ UNCHANGED <<fent, entity, manager, lock>>
      /\ \/ object' = [object EXCEPT ![c.path] = Missing] /\ handle' = [h \in Handle |-> f(h)]
         \/ UnlinkMayFail /\ UNCHANGED <<object, handle>>
  BY DEF Unlink, Doing
<1>2. c \in Call /\ StageOK(c) /\ c.op # "idle" /\ c.path \in Path
  BY <1>1, Running
<1>3. c.op = "rename" /\ c.todo = <<"unlink">> /\ c.to \in Path
  <2>1. c.op = "rename" /\ c.todo = <<"unlink">>
    BY <1>1, <1>2, Heads
  <2>. QED BY <1>2, <2>1 DEF StageOK
<1>4. ~Locked(c) /\ ~Working(c)
  BY <1>1 DEF Locked, Working
<1>5. object' \in [Path -> Length \cup {Missing}]
  BY <1>1, <1>2, SameTypes
<1>6. handle \in [Handle -> [path : Path \cup {NoPath}, fd : Ent \cup {NoEnt}]] /\ HandlesOK
  BY DEF TypeInv, TypeOK
<1>7. ASSUME NEW h \in Handle
      PROVE  /\ f(h) \in [path : Path \cup {NoPath}, fd : Ent \cup {NoEnt}]
             /\ f(h).fd = handle[h].fd
             /\ f(h).path = IF handle[h].path = c.path THEN c.to ELSE handle[h].path
             /\ handle[h] = Unused => f(h) = Unused
             /\ f(h) = Unused \/ f(h).path \in Path
             /\ handle[h].path # c.path => f(h) = handle[h]
  <2>1. handle[h] \in [path : Path \cup {NoPath}, fd : Ent \cup {NoEnt}]
    BY <1>6
  <2>2. handle[h] = Unused => handle[h].path # c.path
    BY <1>2 DEF Unused
  <2>3. handle[h] = Unused \/ handle[h].path \in Path
    BY <1>6 DEF HandlesOK
  <2>4. CASE handle[h].path = c.path
    BY <1>3, <2>1, <2>2, <2>4
  <2>5. CASE handle[h].path # c.path
    BY <2>1, <2>3, <2>5
  <2>. QED BY <2>4, <2>5
<1> HIDE DEF f
<1>8. /\ handle' \in [Handle -> [path : Path \cup {NoPath}, fd : Ent \cup {NoEnt}]] /\ HandlesOK'
      /\ \/ \A h \in Handle : handle'[h] = f(h)
         \/ UnlinkMayFail /\ handle' = handle
  BY <1>1, <1>6, <1>7 DEF HandlesOK
<1>9. TypeInv'
  BY <1>1, <1>4, <1>5, <1>8, IdleIs, NotIdle, SameTypes, StepTypes DEF ManagerStep, LockStep
<1>10. call'[t] = Idle /\ \A u \in Thread : u # t => call'[u] = call[u]
  BY <1>1, Turned
<1>. QED BY <1>1, <1>3, <1>7, <1>8, <1>9, <1>10

\* A call begins.
LEMMA BeginTypes ==
  ASSUME TypeInv, NEW t \in Thread, NEW d \in Call, Begin(t, d), StageOK(d),
         Head(d.todo) \in {"open", "exist", "find"}, d.at = "start",
         object' \in [Path -> Length \cup {Missing}],
         \/ handle' = handle
         \/ \E h \in Handle : handle' = [handle EXCEPT ![h] = Unused]
  PROVE  /\ TypeInv' /\ UNCHANGED <<fent, entity, manager, lock>>
         /\ call[t] = Idle /\ call'[t] = d /\ \A u \in Thread : u # t => call'[u] = call[u]
<1>1. call[t] = Idle /\ Turn(t, d) /\ UNCHANGED <<fent, entity, manager, lock>>
  BY DEF Begin
<1>2. EntIs(d) /\ ~Locked(d)
  BY NotNeeded DEF Locked
<1>3. ~Locked(call[t]) /\ ~Working(call[t])
  BY <1>1, IdleIs
<1>4. /\ handle' \in [Handle -> [path : Path \cup {NoPath}, fd : Ent \cup {NoEnt}]] /\ HandlesOK'
  <2>1. handle \in [Handle -> [path : Path \cup {NoPath}, fd : Ent \cup {NoEnt}]] /\ HandlesOK
    BY DEF TypeInv, TypeOK
  <2>2. Unused \in [path : Path \cup {NoPath}, fd : Ent \cup {NoEnt}]
    BY DEF Unused
  <2> DEFINE empty == Unused
  <2>3. empty \in [path : Path \cup {NoPath}, fd : Ent \cup {NoEnt}] /\ empty = Unused
    BY <2>2
  <2> HIDE DEF empty
  <2>4. \/ handle' = handle
        \/ \E h \in Handle : handle' = [handle EXCEPT ![h] = empty]
    BY <2>3
  <2>. QED BY <2>1, <2>3, <2>4 DEF HandlesOK
<1>5. TypeInv'
  BY <1>1, <1>2, <1>3, <1>4, SameTypes, StepTypes DEF ManagerStep, LockStep
<1>. QED BY <1>1, <1>5, Turned

\* The first phases of each handler.
LEMMA FirstPhases ==
  /\ \A op \in DOMAIN Stages : Stages[op] \subseteq Seq(Phase)
  /\ {<<"open", "force", "return">>, <<"open", "return">>} \subseteq Stages["open"]
  /\ {<<"exist", "read", "close">>, <<"exist", "write", "close">>, <<"exist", "flush", "close">>}
       \subseteq Stages["io"]
  /\ <<"find", "close">> \in Stages["release"]
  /\ <<"open", "load", "count">> \in Stages["truncate"]
  /\ <<"exist", "force", "close", "exist", "copy", "move", "close", "unlink">> \in Stages["rename"]
  /\ {"open", "io", "release", "truncate", "rename"} = DOMAIN Stages
<1>1. \A op \in DOMAIN Stages : Stages[op] \subseteq Seq(Phase)
  BY StagesSeq
<1>2. {"open", "io", "release", "truncate", "rename"} = DOMAIN Stages
  BY DEF Stages
<1>. QED BY <1>1, <1>2 DEF Stages

\* The call of a handler that begins.
NewCall(op, todo, p, q, n, h, x) ==
  [op |-> op, todo |-> todo, at |-> "start", path |-> p, to |-> q, len |-> n, handle |-> h,
   ent |-> x, failed |-> FALSE]

\* It is a call as it should be.
LEMMA NewCallIs ==
  ASSUME NEW op \in DOMAIN Stages, NEW todo \in Stages[op], NEW p \in Path,
         NEW q, IF op = "rename" THEN q \in Path \ {p} ELSE q = NoPath,
         NEW n \in Length,
         NEW h, IF op \in {"open", "io"} THEN h \in Handle ELSE h = NoHandle,
         NEW x \in Ent \cup {NoEnt}
  PROVE  LET d == NewCall(op, todo, p, q, n, h, x) IN
         /\ d \in Call /\ StageOK(d) /\ d.op = op /\ d.todo = todo /\ d.at = "start"
         /\ d.path = p /\ d.to = q /\ d.len = n /\ d.handle = h /\ d.ent = x
<1> DEFINE d == NewCall(op, todo, p, q, n, h, x)
<1>1. op \in {"open", "io", "release", "truncate", "rename"} /\ todo \in Seq(Phase)
  BY FirstPhases
<1>2. /\ d \in Call /\ d.op = op /\ d.todo = todo /\ d.at = "start"
      /\ d.path = p /\ d.to = q /\ d.len = n /\ d.handle = h /\ d.ent = x
  BY <1>1 DEF Call, NewCall
<1> HIDE DEF d
<1>3. StageOK(d)
  BY <1>1, <1>2 DEF StageOK
<1>. QED BY <1>2, <1>3 DEF d

\* What the first step of each handler changes and what it finds: of s3fs_open and
\* s3fs_create,
OpenBegins(t, d) ==
  /\ d.op = "open" /\ d.ent = NoEnt /\ handle' = handle
  /\ handle[d.handle] = Unused /\ Free(d.path)
  /\ \A u \in Thread : call[u].op = "open" => call[u].handle # d.handle

\* of s3fs_read, s3fs_write and s3fs_flush,
IOBegins(t, d) ==
  /\ d.op = "io" /\ d.ent = NoEnt /\ handle' = handle
  /\ handle[d.handle] # Unused /\ Free(d.path) /\ d.path = handle[d.handle].path

\* of s3fs_release,
ReleaseBegins(t, d) ==
  \E h \in Handle :
    /\ d.op = "release" /\ Head(d.todo) = "find" /\ d.ent = handle[h].fd
    /\ handle' = [handle EXCEPT ![h] = Unused]
    /\ handle[h] # Unused /\ Free(d.path) /\ d.path = handle[h].path
    /\ \A u \in Thread : call[u].handle # h

\* of s3fs_truncate,
TruncateBegins(t, d) == d.op = "truncate" /\ d.ent = NoEnt /\ handle' = handle /\ Free(d.path)

\* and of s3fs_rename.
RenameBegins(t, d) ==
  /\ d.op = "rename" /\ Head(d.todo) = "exist" /\ d.ent = NoEnt /\ handle' = handle
  /\ \A u \in Thread : {call[u].path, call[u].to} \cap {d.path, d.to} = {}
  /\ \A h \in Handle : handle[h].path # d.to

\* A handler begins.
LEMMA CallsTypes ==
  ASSUME TypeInv, NEW t \in Thread, Calls(t)
  PROVE  /\ TypeInv' /\ UNCHANGED <<fent, entity, manager, lock>>
         /\ call[t] = Idle /\ \A u \in Thread : u # t => call'[u] = call[u]
         /\ call'[t].at = "start" /\ Head(call'[t].todo) \in {"open", "exist", "find"}
         /\ call'[t].todo # <<>>
         /\ \/ OpenBegins(t, call'[t]) \/ IOBegins(t, call'[t]) \/ ReleaseBegins(t, call'[t])
            \/ TruncateBegins(t, call'[t]) \/ RenameBegins(t, call'[t])
<1> DEFINE Good(d) ==
      /\ TypeInv' /\ UNCHANGED <<fent, entity, manager, lock>>
      /\ call[t] = Idle /\ \A u \in Thread : u # t => call'[u] = call[u]
      /\ call'[t] = d /\ d.at = "start" /\ Head(d.todo) \in {"open", "exist", "find"}
      /\ d.todo # <<>>
<1>1. /\ object \in [Path -> Length \cup {Missing}]
      /\ \A p \in Path : object[p] # Missing => object[p] \in Length
      /\ \A h \in Handle : /\ handle[h] # Unused => handle[h].path \in Path
                           /\ handle[h].fd \in Ent \cup {NoEnt}
      /\ 0 \in Length
  BY DEF TypeInv, TypeOK, HandlesOK, Length
<1>2. ASSUME NEW h \in Handle, NEW p \in Path, NEW trunc \in BOOLEAN, NEW empty \in BOOLEAN,
             CallOpen(t, h, p, trunc, empty)
      PROVE  \E d : Good(d) /\ OpenBegins(t, d)
  <2> DEFINE todo == IF trunc /\ ~empty THEN <<"open", "force", "return">> ELSE <<"open", "return">>
             len == IF trunc THEN 0 ELSE object[p]
             d == NewCall("open", todo, p, NoPath, len, h, NoEnt)
  <2> HIDE DEF todo, len
  <2>0. d = [Idle EXCEPT !.op = "open", !.path = p, !.handle = h, !.len = len, !.todo = todo]
    <3> DEFINE a == [Idle EXCEPT !.op = "open", !.path = p, !.handle = h, !.len = len, !.todo = todo]
    <3>1. a = [k \in {"op", "todo", "at", "path", "to", "len", "handle", "ent", "failed"} |-> a[k]]
      BY DEF Idle
    <3>2. /\ a.op = "open" /\ a.todo = todo /\ a.at = "start" /\ a.path = p /\ a.to = NoPath
          /\ a.len = len /\ a.handle = h /\ a.ent = NoEnt /\ a.failed = FALSE
      BY DEF Idle
    <3> HIDE DEF a
    <3>3. d = a
      BY <3>1, <3>2 DEF NewCall
    <3>. QED BY <3>3 DEF a
  <2>1. /\ Begin(t, d) /\ UNCHANGED <<object, handle>> /\ Free(p) /\ object[p] # Missing
        /\ handle[h] = Unused /\ \A u \in Thread : call[u].op = "open" => call[u].handle # h
    BY <1>2, <2>0 DEF CallOpen, Begin, Turn, todo, len
  <2>2. todo \in Stages["open"] /\ Head(todo) = "open" /\ todo # <<>>
    BY FirstPhases, Short DEF todo
  <2>3. len \in Length
    BY <1>1, <2>1 DEF len
  <2>4. /\ d \in Call /\ StageOK(d) /\ d.op = "open" /\ d.todo = todo /\ d.at = "start"
        /\ d.path = p /\ d.handle = h /\ d.ent = NoEnt
    <3>1. "open" \in DOMAIN Stages /\ todo \in Stages["open"]
      BY <2>2, FirstPhases
    <3>. QED BY <2>2, <2>3, <3>1, NewCallIs
  <2> HIDE DEF d
  <2>5. Good(d)
    BY <1>1, <2>1, <2>2, <2>4, BeginTypes
  <2>6. OpenBegins(t, d)
    BY <2>1, <2>4 DEF OpenBegins
  <2>. QED BY <2>5, <2>6
<1>3. ASSUME NEW h \in Handle, NEW p \in Path, CallCreate(t, h, p)
      PROVE  \E d : Good(d) /\ OpenBegins(t, d)
  <2> DEFINE todo == <<"open", "return">>
             d == NewCall("open", todo, p, NoPath, 0, h, NoEnt)
  <2> HIDE DEF todo
  <2>0. d = [Idle EXCEPT !.op = "open", !.path = p, !.handle = h, !.todo = todo]
    <3> DEFINE a == [Idle EXCEPT !.op = "open", !.path = p, !.handle = h, !.todo = todo]
    <3>1. a = [k \in {"op", "todo", "at", "path", "to", "len", "handle", "ent", "failed"} |-> a[k]]
      BY DEF Idle
    <3>2. /\ a.op = "open" /\ a.todo = todo /\ a.at = "start" /\ a.path = p /\ a.to = NoPath
          /\ a.len = 0 /\ a.handle = h /\ a.ent = NoEnt /\ a.failed = FALSE
      BY DEF Idle
    <3> HIDE DEF a
    <3>3. d = a
      BY <3>1, <3>2 DEF NewCall
    <3>. QED BY <3>3 DEF a
  <2>1. /\ Begin(t, d) /\ object' = [object EXCEPT ![p] = 0] /\ handle' = handle /\ Free(p)
        /\ handle[h] = Unused /\ \A u \in Thread : call[u].op = "open" => call[u].handle # h
    BY <1>3, <2>0 DEF CallCreate, Begin, Turn, todo
  <2>2. todo \in Stages["open"] /\ Head(todo) = "open" /\ todo # <<>>
    BY FirstPhases, Short DEF todo
  <2>4. /\ d \in Call /\ StageOK(d) /\ d.op = "open" /\ d.todo = todo /\ d.at = "start"
        /\ d.path = p /\ d.handle = h /\ d.ent = NoEnt
    <3>1. "open" \in DOMAIN Stages /\ todo \in Stages["open"]
      BY <2>2, FirstPhases
    <3>. QED BY <1>1, <2>2, <3>1, NewCallIs
  <2> HIDE DEF d
  <2>3. object' \in [Path -> Length \cup {Missing}]
    BY <1>1, <2>1
  <2>5. Good(d)
    BY <2>1, <2>2, <2>3, <2>4, BeginTypes
  <2>6. OpenBegins(t, d)
    BY <2>1, <2>4 DEF OpenBegins
  <2>. QED BY <2>5, <2>6
<1>4. ASSUME NEW h \in Handle, CallRelease(t, h)
      PROVE  \E d : Good(d) /\ ReleaseBegins(t, d)
  <2> DEFINE todo == <<"find", "close">> p == handle[h].path
             d == NewCall("release", todo, p, NoPath, 0, NoHandle, handle[h].fd)
  <2> HIDE DEF todo
  <2>0. d = [Idle EXCEPT !.op = "release", !.path = handle[h].path, !.ent = handle[h].fd, !.todo = todo]
    <3> DEFINE a == [Idle EXCEPT !.op = "release", !.path = handle[h].path, !.ent = handle[h].fd, !.todo = todo]
    <3>1. a = [k \in {"op", "todo", "at", "path", "to", "len", "handle", "ent", "failed"} |-> a[k]]
      BY DEF Idle
    <3>2. /\ a.op = "release" /\ a.todo = todo /\ a.at = "start" /\ a.path = p /\ a.to = NoPath
          /\ a.len = 0 /\ a.handle = NoHandle /\ a.ent = handle[h].fd /\ a.failed = FALSE
      BY DEF Idle
    <3> HIDE DEF a
    <3>3. d = a
      BY <3>1, <3>2 DEF NewCall
    <3>. QED BY <3>3 DEF a
  <2>1. /\ Begin(t, d) /\ object' = object /\ handle' = [handle EXCEPT ![h] = Unused] /\ Free(p)
        /\ handle[h] # Unused /\ \A u \in Thread : call[u].handle # h
    BY <1>4, <2>0 DEF CallRelease, Begin, Turn, todo
  <2>2. todo \in Stages["release"] /\ Head(todo) = "find" /\ todo # <<>>
    BY FirstPhases, Short DEF todo
  <2>3. p \in Path /\ handle[h].fd \in Ent \cup {NoEnt}
    BY <1>1, <2>1
  <2>4. /\ d \in Call /\ StageOK(d) /\ d.op = "release" /\ d.todo = todo /\ d.at = "start"
        /\ d.path = p /\ d.ent = handle[h].fd
    <3>1. "release" \in DOMAIN Stages /\ todo \in Stages["release"]
      BY <2>2, FirstPhases
    <3>. QED BY <1>1, <2>2, <2>3, <3>1, NewCallIs
  <2> HIDE DEF d
  <2>5. Good(d)
    BY <1>1, <2>1, <2>2, <2>4, BeginTypes
  <2>6. ReleaseBegins(t, d)
    BY <2>1, <2>2, <2>4 DEF ReleaseBegins
  <2>. QED BY <2>5, <2>6
<1>5. ASSUME NEW h \in Handle, NEW work \in {"read", "flush", "write"}, NEW n \in Length,
             CallIO(t, h, work, n)
      PROVE  \E d : Good(d) /\ IOBegins(t, d)
  <2> DEFINE todo == <<"exist", work, "close">> p == handle[h].path
             d == NewCall("io", todo, p, NoPath, n, h, NoEnt)
  <2> HIDE DEF todo
  <2>0. d = [Idle EXCEPT !.op = "io", !.path = handle[h].path, !.handle = h, !.len = n, !.todo = todo]
    <3> DEFINE a == [Idle EXCEPT !.op = "io", !.path = handle[h].path, !.handle = h, !.len = n, !.todo = todo]
    <3>1. a = [k \in {"op", "todo", "at", "path", "to", "len", "handle", "ent", "failed"} |-> a[k]]
      BY DEF Idle
    <3>2. /\ a.op = "io" /\ a.todo = todo /\ a.at = "start" /\ a.path = p /\ a.to = NoPath
          /\ a.len = n /\ a.handle = h /\ a.ent = NoEnt /\ a.failed = FALSE
      BY DEF Idle
    <3> HIDE DEF a
    <3>3. d = a
      BY <3>1, <3>2 DEF NewCall
    <3>. QED BY <3>3 DEF a
  <2>1. Begin(t, d) /\ UNCHANGED <<object, handle>> /\ Free(p) /\ handle[h] # Unused
    BY <1>5, <2>0 DEF CallIO, Begin, Turn, todo
  <2>2. todo \in Stages["io"] /\ Head(todo) = "exist" /\ todo # <<>>
    BY FirstPhases, Tails DEF todo
  <2>3. p \in Path
    BY <1>1, <2>1
  <2>4. /\ d \in Call /\ StageOK(d) /\ d.op = "io" /\ d.todo = todo /\ d.at = "start"
        /\ d.path = p /\ d.handle = h /\ d.ent = NoEnt
    <3>1. "io" \in DOMAIN Stages /\ todo \in Stages["io"]
      BY <2>2, FirstPhases
    <3>. QED BY <2>2, <2>3, <3>1, NewCallIs
  <2> HIDE DEF d
  <2>5. Good(d)
    BY <1>1, <2>1, <2>2, <2>4, BeginTypes
  <2>6. IOBegins(t, d)
    BY <2>1, <2>4 DEF IOBegins
  <2>. QED BY <2>5, <2>6
<1>6. ASSUME NEW p \in Path, NEW n \in Length, CallTruncate(t, p, n)
      PROVE  \E d : Good(d) /\ TruncateBegins(t, d)
  <2> DEFINE todo == <<"open", "load", "count">>
             d == NewCall("truncate", todo, p, NoPath, n, NoHandle, NoEnt)
  <2> HIDE DEF todo
  <2>0. d = [Idle EXCEPT !.op = "truncate", !.path = p, !.len = n, !.todo = todo]
    <3> DEFINE a == [Idle EXCEPT !.op = "truncate", !.path = p, !.len = n, !.todo = todo]
    <3>1. a = [k \in {"op", "todo", "at", "path", "to", "len", "handle", "ent", "failed"} |-> a[k]]
      BY DEF Idle
    <3>2. /\ a.op = "truncate" /\ a.todo = todo /\ a.at = "start" /\ a.path = p /\ a.to = NoPath
          /\ a.len = n /\ a.handle = NoHandle /\ a.ent = NoEnt /\ a.failed = FALSE
      BY DEF Idle
    <3> HIDE DEF a
    <3>3. d = a
      BY <3>1, <3>2 DEF NewCall
    <3>. QED BY <3>3 DEF a
  <2>1. Begin(t, d) /\ UNCHANGED <<object, handle>> /\ Free(p)
    BY <1>6, <2>0 DEF CallTruncate, Begin, Turn, todo
  <2>2. todo \in Stages["truncate"] /\ Head(todo) = "open" /\ todo # <<>>
    BY FirstPhases, Tails DEF todo
  <2>4. /\ d \in Call /\ StageOK(d) /\ d.op = "truncate" /\ d.todo = todo /\ d.at = "start"
        /\ d.path = p /\ d.ent = NoEnt
    <3>1. "truncate" \in DOMAIN Stages /\ todo \in Stages["truncate"]
      BY <2>2, FirstPhases
    <3>. QED BY <2>2, <3>1, NewCallIs
  <2> HIDE DEF d
  <2>5. Good(d)
    BY <1>1, <2>1, <2>2, <2>4, BeginTypes
  <2>6. TruncateBegins(t, d)
    BY <2>1, <2>4 DEF TruncateBegins
  <2>. QED BY <2>5, <2>6
<1>7. ASSUME NEW p \in Path, NEW q \in Path, CallRename(t, p, q)
      PROVE  \E d : Good(d) /\ RenameBegins(t, d)
  <2> DEFINE todo == <<"exist", "force", "close", "exist", "copy", "move", "close", "unlink">>
             d == NewCall("rename", todo, p, q, object[p], NoHandle, NoEnt)
  <2> HIDE DEF todo
  <2>0. d = [Idle EXCEPT !.op = "rename", !.path = p, !.to = q, !.len = object[p], !.todo = todo]
    <3> DEFINE a == [Idle EXCEPT !.op = "rename", !.path = p, !.to = q, !.len = object[p], !.todo = todo]
    <3>1. a = [k \in {"op", "todo", "at", "path", "to", "len", "handle", "ent", "failed"} |-> a[k]]
      BY DEF Idle
    <3>2. /\ a.op = "rename" /\ a.todo = todo /\ a.at = "start" /\ a.path = p /\ a.to = q
          /\ a.len = object[p] /\ a.handle = NoHandle /\ a.ent = NoEnt /\ a.failed = FALSE
      BY DEF Idle
    <3> HIDE DEF a
    <3>3. d = a
      BY <3>1, <3>2 DEF NewCall
    <3>. QED BY <3>3 DEF a
  <2>1. /\ Begin(t, d) /\ UNCHANGED <<object, handle>> /\ p # q /\ object[p] # Missing
        /\ \A u \in Thread : {call[u].path, call[u].to} \cap {p, q} = {}
        /\ \A h \in Handle : handle[h].path # q
    BY <1>7, <2>0 DEF CallRename, Begin, Turn, todo
  <2>2. todo \in Stages["rename"] /\ Head(todo) = "exist" /\ todo # <<>>
    BY FirstPhases, RenameTails DEF todo
  <2>3. object[p] \in Length
    BY <1>1, <2>1
  <2>4. /\ d \in Call /\ StageOK(d) /\ d.op = "rename" /\ d.todo = todo /\ d.at = "start"
        /\ d.path = p /\ d.to = q /\ d.ent = NoEnt
    <3>1. "rename" \in DOMAIN Stages /\ todo \in Stages["rename"]
      BY <2>2, FirstPhases
    <3>. QED BY <2>1, <2>2, <2>3, <3>1, NewCallIs
  <2> HIDE DEF d
  <2>5. Good(d)
    BY <1>1, <2>1, <2>2, <2>4, BeginTypes
  <2>6. RenameBegins(t, d)
    BY <2>1, <2>2, <2>4 DEF RenameBegins
  <2>. QED BY <2>5, <2>6
<1> HIDE DEF Good
<1>8. \E d : Good(d) /\ \/ OpenBegins(t, d) \/ IOBegins(t, d) \/ ReleaseBegins(t, d)
                        \/ TruncateBegins(t, d) \/ RenameBegins(t, d)
  BY <1>1, <1>2, <1>3, <1>4, <1>5, <1>6, <1>7 DEF Calls
<1>. QED BY <1>8 DEF Good

\* In the initial states.
LEMMA InitTypes == Init => TypeInv
<1> SUFFICES ASSUME Init PROVE TypeInv
  OBVIOUS
<1>1. Unused \in [path : Path \cup {NoPath}, fd : Ent \cup {NoEnt}]
  BY DEF Unused
<1>2. Missing \in Length \cup {Missing}
  OBVIOUS
<1> DEFINE empty == Unused freed == Freed idle == Idle none == Missing
<1>3. /\ entity = [x \in Ent |-> freed] /\ object = [p \in Path |-> none]
      /\ handle = [h \in Handle |-> empty] /\ call = [t \in Thread |-> idle]
      /\ fent = {} /\ manager = NoThread /\ lock = [x \in Ent |-> NoThread]
  BY DEF Init
<1>4. /\ empty \in [path : Path \cup {NoPath}, fd : Ent \cup {NoEnt}]
      /\ freed \in Entity /\ none \in Length \cup {Missing}
      /\ idle \in Call /\ StageOK(idle) /\ EntIs(idle) /\ ~Locked(idle) /\ empty = Unused
  BY <1>1, <1>2, FreedIs, IdleIs, NotIdle
<1> HIDE DEF empty, freed, idle, none
<1>5. TypeOK
  BY <1>3, <1>4 DEF TypeOK
<1>6. LockOK /\ HandlesOK
  BY <1>3, <1>4 DEF LockOK, HandlesOK
<1>. QED BY <1>3, <1>4, <1>5, <1>6 DEF TypeInv

\* A step keeps the types.
LEMMA NextTypes == TypeInv /\ [Next]_vars => TypeInv'
<1> SUFFICES ASSUME TypeInv, [Next]_vars PROVE TypeInv'
  OBVIOUS
<1>1. CASE UNCHANGED vars
  BY <1>1 DEF vars, TypeInv, TypeOK, LockOK, HandlesOK, StageOK, EntIs, Locked, Working
<1>2. ASSUME NEW t \in Thread, Runs(t) PROVE TypeInv'
  BY <1>2, FindTypes, ReferenceTypes, CreateTypes, FindNoneTypes, FindDescriptorTypes,
     StartCloseTypes, DereferenceTypes, StartMoveTypes, MoveTypes, EnterTypes, FinishTypes,
     ReturnTypes, CountReferencesTypes, CopyTypes, UnlinkTypes DEF Runs
<1>3. ASSUME NEW t \in Thread, Calls(t) PROVE TypeInv'
  BY <1>3, CallsTypes
<1>. QED BY <1>1, <1>2, <1>3 DEF Next

\* Every reachable state has its types, and fd_manager_lock and the locks of the entities
\* are held only by threads inside their sections (fdcache.cpp: AutoLock in every
\* method of FdManager and FdEntity), for any threads, paths, handles and entities and with
\* all of the mount's options.
THEOREM TypeCorrect == Spec => []TypeOK
<1>1. Init => TypeInv
  BY InitTypes
<1>2. TypeInv /\ [Next]_vars => TypeInv'
  BY NextTypes
<1>3. TypeInv => TypeOK
  BY DEF TypeInv
<1>. QED BY <1>1, <1>2, <1>3, PTL DEF Spec

-----------------------------------------------------------------------------
(***************************************************************************)
(* The references and the copies, without a cache directory and as long as *)
(* no rename fails half way.                                               *)
(***************************************************************************)
\* A rename has changed the path of the entity, and not yet that of the handles.
Moved(c) == c.op = "rename" /\ c.todo \in {<<"close", "unlink">>, <<"unlink">>}

\* While a rename runs, no other call has its paths.
Exclusive ==
  \A t, u \in Thread :
    t # u /\ call[u].op = "rename" /\ call[t].op # "idle" =>
      {call[t].path, call[t].to} \cap {call[u].path, call[u].to} = {}

\* A handle's entity has its path, or the path that a rename is about to give it.
HandleOK(h) ==
  LET x == handle[h].fd IN
  x # NoEnt =>
    \/ /\ entity[x].path = handle[h].path
       /\ \A u \in Thread : Moved(call[u]) => call[u].path # handle[h].path
    \/ \E u \in Thread :
         Moved(call[u]) /\ call[u].path = handle[h].path /\ call[u].to = entity[x].path

\* A call's entity has the call's path, and is open unless Open may have failed.
HolderOK(t) ==
  LET c == call[t] x == c.ent IN
  x # NoEnt => /\ entity[x].path = IF Moved(c) THEN c.to ELSE c.path
               /\ c.op \notin {"open", "truncate"} => entity[x].open
               /\ c.at = "locked" /\ Head(c.todo) \in {"open", "exist"} =>
                    entity[x].open /\ x \in fent

\* A call that has still to find its entity, or has closed it, has none.
EntOK(t) ==
  LET c == call[t] IN
  /\ \/ c.op # "idle" /\ Head(c.todo) \in {"open", "exist"} /\ c.at # "locked"
     \/ c.todo \in {<<"copy", "move", "unlink">>, <<"move", "unlink">>, <<"unlink">>}
     => c.ent = NoEnt
  /\ c.op = "rename" => Head(c.todo) # "open"

\* No handle has the new path of a rename before the rename ends.
TargetOK ==
  \A u \in Thread, h \in Handle : call[u].op = "rename" => handle[h].path # call[u].to

\* The handle of an open is nobody else's, that of a read or write has its path.
CallHandleOK ==
  \A t \in Thread :
    /\ call[t].op = "open" =>
         /\ handle[call[t].handle] = Unused
         /\ \A u \in Thread : u # t /\ call[u].op = "open" => call[u].handle # call[t].handle
    /\ call[t].op = "io" => handle[call[t].handle].path = call[t].path

\* Without a cache directory every key is a random one.
KeysOK == \A x \in Ent : entity[x].key = NoPath

\* The handles that refer to an entity,
Handles(x) == {h \in Handle : handle[h].fd = x}

\* and the calls.
Holders(x) == {t \in Thread : Holds(t, x)}

\* The reference count of an open entity is the number of those; an entity that FdEntity::Open
\* left closed has one of them at most.
RefOK(x) ==
  /\ IsFiniteSet(Handles(x)) /\ IsFiniteSet(Holders(x))
  /\ IF x \in fent /\ entity[x].open
       THEN /\ entity[x].refcnt = Cardinality(Handles(x)) + Cardinality(Holders(x))
            /\ entity[x].refcnt > 0
       ELSE /\ Handles(x) = {}
            /\ \A t, u \in Holders(x) : t = u
            /\ Holders(x) # {} => x \in fent

\* The inductive invariant.
Inv ==
  /\ TypeInv /\ Exclusive /\ TargetOK /\ CallHandleOK /\ KeysOK /\ OneCopyPerPath
  /\ \A h \in Handle : HandleOK(h)
  /\ \A t \in Thread : HolderOK(t) /\ EntOK(t)
  /\ \A x \in Ent : RefOK(x)

\* The parts of the invariant, for one thread, handle or entity.
LEMMA InvIs ==
  ASSUME Inv
  PROVE  /\ TypeInv /\ Exclusive /\ TargetOK /\ CallHandleOK /\ KeysOK /\ OneCopyPerPath
         /\ \A h \in Handle : HandleOK(h)
         /\ \A t \in Thread : HolderOK(t) /\ EntOK(t)
         /\ \A x \in Ent : RefOK(x)
         /\ \A t \in Thread : call[t] \in Call /\ StageOK(call[t]) /\ call[t].ent \in Ent \cup {NoEnt}
         /\ \A h \in Handle : handle[h].fd \in Ent \cup {NoEnt}
         /\ \A t \in Thread : call[t].op = "idle" => call[t] = Idle
         /\ fent \subseteq Ent
<1>1. TypeInv
  BY DEF Inv
<1>2. /\ \A t \in Thread : call[t] \in Call /\ StageOK(call[t])
      /\ \A h \in Handle : handle[h].fd \in Ent \cup {NoEnt}
      /\ fent \subseteq Ent
  BY <1>1 DEF TypeInv, TypeOK
<1>3. \A t \in Thread : call[t].ent \in Ent \cup {NoEnt}
  BY <1>2 DEF Call
<1>4. \A t \in Thread : call[t].op = "idle" => call[t] = Idle
  BY <1>2 DEF StageOK
<1>. QED BY <1>1, <1>2, <1>3, <1>4 DEF Inv

\* An entity that a handle refers to is in the table and open.
LEMMA HandleOpen ==
  ASSUME Inv, NEW h \in Handle, handle[h].fd # NoEnt
  PROVE  handle[h].fd \in fent /\ entity[handle[h].fd].open /\ handle[h].fd \in Ent
<1>1. handle[h].fd \in Ent /\ RefOK(handle[h].fd) /\ h \in Handles(handle[h].fd)
  BY InvIs DEF Handles
<1>. QED BY <1>1 DEF RefOK

\* An entity that a call refers to is in the table.
LEMMA HolderIn ==
  ASSUME Inv, NEW t \in Thread, NEW x \in Ent, Holds(t, x)
  PROVE  x \in fent
<1>1. RefOK(x) /\ t \in Holders(x)
  BY InvIs DEF Holders
<1>. QED BY <1>1 DEF RefOK

\* A call in its rename has a path and a target of its own.
LEMMA RenameIs ==
  ASSUME Inv, NEW t \in Thread, call[t].op = "rename"
  PROVE  /\ call[t].path \in Path /\ call[t].to \in Path /\ call[t].to # call[t].path
         /\ \A u \in Thread : u # t /\ call[u].op # "idle" =>
              {call[u].path, call[u].to} \cap {call[t].path, call[t].to} = {}
         /\ \A u \in Thread : call[u].op # "idle" => call[u].path \in Path
<1>1. call[t].path \in Path /\ call[t].to \in Path /\ call[t].to # call[t].path
  BY InvIs DEF StageOK
<1>2. \A u \in Thread : u # t /\ call[u].op # "idle" =>
        {call[u].path, call[u].to} \cap {call[t].path, call[t].to} = {}
  BY InvIs DEF Exclusive
<1>3. \A u \in Thread : call[u].op # "idle" => call[u].path \in Path
  BY InvIs DEF StageOK
<1>. QED BY <1>1, <1>2, <1>3

\* A step of thread t that changes neither who refers to what nor the paths and counts.
Steady(t) ==
  /\ fent' = fent /\ handle' = handle
  /\ \A u \in Thread : u # t => call'[u] = call[u]
  /\ \A x \in Ent : /\ entity'[x].path = entity[x].path /\ entity'[x].open = entity[x].open
                    /\ entity'[x].refcnt = entity[x].refcnt
                    /\ entity'[x].key \in {entity[x].key, NoPath}
  /\ \A x \in Ent : Holds(t, x)' <=> Holds(t, x)
  /\ Moved(call'[t]) <=> Moved(call[t])
  /\ call'[t] = Idle \/ Same(call'[t], call[t])

\* Such a step keeps the invariant.
LEMMA SteadyInv ==
  ASSUME Inv, TypeInv', NEW t \in Thread, Steady(t), HolderOK(t)', EntOK(t)'
  PROVE  Inv'
<1>1. /\ fent' = fent /\ handle' = handle
      /\ \A u \in Thread : u # t => call'[u] = call[u]
      /\ \A x \in Ent : /\ entity'[x].path = entity[x].path /\ entity'[x].open = entity[x].open
                        /\ entity'[x].refcnt = entity[x].refcnt
                        /\ entity'[x].key \in {entity[x].key, NoPath}
      /\ call'[t] = Idle \/ Same(call'[t], call[t])
  BY DEF Steady
<1>2. \A u \in Thread :
        /\ call'[u].op = "idle" \/ Same(call'[u], call[u])
        /\ Moved(call'[u]) <=> Moved(call[u])
  BY <1>1, IdleIs DEF Steady, Same
<1>3. Exclusive'
  BY <1>2, InvIs DEF Exclusive, Same
<1>4. TargetOK'
  BY <1>1, <1>2, InvIs DEF TargetOK, Same
<1>5. CallHandleOK'
  BY <1>1, <1>2, InvIs DEF CallHandleOK, Same
<1>6. KeysOK'
  BY <1>1, InvIs DEF KeysOK
<1>7. OneCopyPerPath'
  BY <1>1, InvIs DEF OneCopyPerPath
<1>8. ASSUME NEW h \in Handle PROVE HandleOK(h)'
  <2>1. HandleOK(h) /\ handle[h].fd \in Ent \cup {NoEnt}
    BY InvIs
  <2>2. \A u \in Thread : Moved(call'[u]) =>
          Moved(call[u]) /\ call'[u].path = call[u].path /\ call'[u].to = call[u].to
    BY <1>2 DEF Moved, Same
  <2>3. \A u \in Thread : Moved(call[u]) =>
          Moved(call'[u]) /\ call'[u].path = call[u].path /\ call'[u].to = call[u].to
    BY <1>2, <2>2
  <2>. QED BY <1>1, <2>1, <2>2, <2>3 DEF HandleOK
<1>9. ASSUME NEW u \in Thread PROVE HolderOK(u)' /\ EntOK(u)'
  <2>1. CASE u = t
    BY <2>1
  <2>2. CASE u # t
    BY <1>1, <2>2, InvIs DEF HolderOK, EntOK
  <2>. QED BY <2>1, <2>2
<1>10. ASSUME NEW x \in Ent PROVE RefOK(x)'
  <2>1. RefOK(x)
    BY InvIs
  <2>2. Handles(x)' = Handles(x)
    BY <1>1 DEF Handles
  <2>3. \A u \in Thread : Holds(u, x)' <=> Holds(u, x)
    BY <1>1 DEF Steady, Holds
  <2>4. Holders(x)' = Holders(x)
    BY <2>3 DEF Holders
  <2>. QED BY <1>1, <2>1, <2>2, <2>4 DEF RefOK
<1>. QED BY <1>3, <1>4, <1>5, <1>6, <1>7, <1>8, <1>9, <1>10 DEF Inv

\* What a rename has still to do, where the invariant singles it out.
LEMMA MovedHead ==
  ASSUME NEW c, Moved(c) PROVE Head(c.todo) \in {"close", "unlink"} /\ c.op = "rename"
BY RenameTails DEF Moved

\* The same for a rename without an entity.
LEMMA BareHead ==
  ASSUME NEW todo \in {<<"copy", "move", "unlink">>, <<"move", "unlink">>, <<"unlink">>}
  PROVE  Head(todo) \in {"copy", "move", "unlink"}
BY RenameTails

\* A thread whose call is over holds nothing.
LEMMA IdleAfter ==
  ASSUME NEW t, call'[t] = Idle
  PROVE  /\ ~Moved(call'[t]) /\ HolderOK(t)' /\ EntOK(t)' /\ \A x \in Ent : ~Holds(t, x)'
<1>1. ~Moved(call'[t])
  BY IdleIs DEF Moved
<1>2. HolderOK(t)'
  BY IdleIs DEF HolderOK
<1>3. EntOK(t)'
  BY IdleIs DEF EntOK
<1>. QED BY <1>1, <1>2, <1>3, IdleIs DEF Holds

\* The invariant after a call has found an open entity.
LEMMA FindInv ==
  ASSUME ~CacheDir, Inv, NEW t \in Thread, Find(t)
  PROVE  Inv'
<1> DEFINE c == call[t] d == call'[t]
<1>1. /\ TypeInv' /\ c.op # "idle" /\ c.at # "locked"
      /\ UNCHANGED <<fent, entity, object, handle, lock>> /\ Head(c.todo) \in {"open", "exist"}
      /\ \A u \in Thread : u # t => call'[u] = call[u]
      /\ Same(d, c) /\ d.todo = c.todo /\ d.at = "locked" /\ d.ent \in OpenAs(c.path)
  BY InvIs, FindTypes DEF Found
<1>2. c.ent = NoEnt /\ (c.op = "rename" => Head(c.todo) # "open")
  BY <1>1, InvIs DEF EntOK
<1>3. ~Moved(c) /\ ~Moved(d)
  BY <1>1, MovedHead
<1>4. \A x \in Ent : ~Holds(t, x) /\ ~Holds(t, x)'
  BY <1>1, <1>2 DEF Holds
<1>5. Steady(t)
  BY <1>1, <1>3, <1>4 DEF Steady
<1>6. HolderOK(t)'
  BY <1>1, <1>3 DEF HolderOK, OpenAs, Same
<1>7. EntOK(t)'
  BY <1>1, <1>2, BareHead DEF EntOK, Same
<1>. QED BY <1>1, <1>5, <1>6, <1>7, SteadyInv

\* ... has found none.
LEMMA FindNoneInv ==
  ASSUME ~CacheDir, Inv, NEW t \in Thread, FindNone(t)
  PROVE  Inv'
<1> DEFINE c == call[t] d == call'[t]
<1>1. /\ TypeInv' /\ UNCHANGED <<fent, entity, object, handle, manager, lock>>
      /\ c.op \in {"io", "rename"} /\ Head(c.todo) = "exist" /\ c.at \in {"start", "again"}
      /\ \A u \in Thread : u # t => call'[u] = call[u]
      /\ \/ d = Idle
         \/ /\ Same(d, c) /\ d.ent = c.ent
            /\ \/ d.todo = c.todo /\ d.at = "again"
               \/ /\ c.op = "rename" /\ d.at = "start"
                  /\ Head(d.todo) = "exist" \/ d.todo = <<"copy", "move", "unlink">>
                  /\ d.todo \notin {<<"close", "unlink">>, <<"unlink">>}
  BY InvIs, FindNoneTypes
<1>2. c.ent = NoEnt
  BY <1>1, InvIs DEF EntOK
<1>3. ~Moved(c)
  BY <1>1, MovedHead
<1>4. \A x \in Ent : ~Holds(t, x)
  BY <1>2 DEF Holds
<1>5. CASE d = Idle
  BY <1>1, <1>3, <1>4, <1>5, IdleAfter, SteadyInv DEF Steady
<1>6. CASE Same(d, c) /\ d.ent = c.ent /\ d.todo = c.todo /\ d.at = "again"
  <2>1. ~Moved(d)
    BY <1>1, <1>6, MovedHead
  <2>2. \A x \in Ent : ~Holds(t, x)'
    BY <1>2, <1>6 DEF Holds
  <2>3. HolderOK(t)' /\ EntOK(t)'
    BY <1>1, <1>2, <1>6 DEF HolderOK, EntOK
  <2>. QED BY <1>1, <1>3, <1>4, <1>6, <2>1, <2>2, <2>3, SteadyInv DEF Steady
<1>7. CASE /\ Same(d, c) /\ d.ent = c.ent /\ c.op = "rename" /\ d.at = "start"
           /\ Head(d.todo) = "exist" \/ d.todo = <<"copy", "move", "unlink">>
           /\ d.todo \notin {<<"close", "unlink">>, <<"unlink">>}
  <2>1. ~Moved(d)
    BY <1>7 DEF Moved
  <2>2. \A x \in Ent : ~Holds(t, x)'
    BY <1>2, <1>7 DEF Holds
  <2>3. HolderOK(t)' /\ EntOK(t)'
    BY <1>1, <1>2, <1>7, RenameTails DEF HolderOK, EntOK
  <2>. QED BY <1>1, <1>3, <1>4, <1>7, <2>1, <2>2, <2>3, SteadyInv DEF Steady
<1>. QED BY <1>1, <1>5, <1>6, <1>7

\* ... has found the entity of a descriptor, or not.
LEMMA FindDescriptorInv ==
  ASSUME ~CacheDir, Inv, NEW t \in Thread, FindDescriptor(t)
  PROVE  Inv'
<1> DEFINE c == call[t] d == call'[t] fd == c.ent
<1>1. /\ TypeInv' /\ UNCHANGED <<fent, entity, object, handle, manager, lock>>
      /\ c.op = "release" /\ c.at = "start" /\ c.todo = <<"find", "close">>
      /\ \A u \in Thread : u # t => call'[u] = call[u]
      /\ \/ /\ Same(d, c) /\ d.at = "start" /\ d.todo = <<"close">> /\ d.ent = fd
         \/ d = Idle /\ ~(fd \in fent /\ entity[fd].path = c.path)
  BY InvIs, FindDescriptorTypes
<1>2. ~Moved(c)
  BY <1>1 DEF Moved
<1>3. \A x \in Ent : Holds(t, x) <=> fd = x
  BY <1>1 DEF Holds
<1>4. HolderOK(t)
  BY InvIs
<1>5. CASE Same(d, c) /\ d.at = "start" /\ d.todo = <<"close">> /\ d.ent = fd
  <2>1. ~Moved(d)
    BY <1>1, <1>5 DEF Moved, Same
  <2>2. \A x \in Ent : Holds(t, x)' <=> Holds(t, x)
    BY <1>3, <1>5 DEF Holds
  <2>3. HolderOK(t)'
    BY <1>1, <1>2, <1>4, <1>5, <2>1 DEF HolderOK, Same
  <2>4. EntOK(t)'
    BY <1>1, <1>5, Short, RenameTails DEF EntOK, Same
  <2>. QED BY <1>1, <1>2, <1>5, <2>1, <2>2, <2>3, <2>4, SteadyInv DEF Steady
<1>6. CASE d = Idle /\ ~(fd \in fent /\ entity[fd].path = c.path)
  <2>1. \A x \in Ent : ~Holds(t, x)
    <3> SUFFICES ASSUME NEW x \in Ent, fd = x PROVE FALSE
      BY <1>3
    <3>1. fd \in fent
      BY <1>3, HolderIn
    <3>2. entity[fd].path = c.path
      BY <1>2, <1>4, InvIs DEF HolderOK
    <3>. QED BY <1>6, <3>1, <3>2
  <2>. QED BY <1>1, <1>2, <1>6, <2>1, IdleAfter, SteadyInv DEF Steady
<1>. QED BY <1>1, <1>5, <1>6

\* A rename that closes its entity after the move has moved it before.
LEMMA CloseMoved ==
  ASSUME NEW c \in Call, StageOK(c), c.op # "idle", Head(c.todo) = "close"
  PROVE  /\ Tail(c.todo) = <<>> => ~Moved(c)
         /\ \A d : d.op = c.op /\ d.todo = Tail(c.todo) /\ Tail(c.todo) # <<>> =>
              (Moved(d) <=> Moved(c))
         /\ Tail(c.todo) # <<>> => c.op = "rename" /\ Head(Tail(c.todo)) \in {"exist", "unlink"}
<1>1. CASE c.todo = <<"close">>
  <2>1. Tail(c.todo) = <<>>
    BY <1>1, Short
  <2>2. c.todo # <<"close", "unlink">> /\ c.todo # <<"unlink">>
    BY <1>1, Short, RenameTails
  <2>. QED BY <2>1, <2>2 DEF Moved
<1>2. CASE c.op = "rename" /\ c.todo = <<"close", "unlink">>
  BY <1>2, RenameTails DEF Moved
<1>3. CASE c.op = "rename" /\ c.todo = <<"close", "exist", "copy", "move", "close", "unlink">>
  <2>1. Head(Tail(c.todo)) = "exist" /\ Tail(c.todo) # <<>> /\ Tail(c.todo) # <<"unlink">>
    BY <1>3, RenameTails
  <2>2. ~Moved(c)
    BY <1>3, <2>1, RenameTails DEF Moved
  <2>. QED BY <1>3, <2>1, <2>2, MovedHead
<1>. QED BY <1>1, <1>2, <1>3, Heads

\* The invariant after StartClose,
LEMMA StartCloseInv ==
  ASSUME Inv, NEW t \in Thread, StartClose(t)
  PROVE  Inv'
<1> DEFINE c == call[t] d == call'[t]
<1>1. /\ TypeInv' /\ UNCHANGED <<fent, entity, object, handle, lock>>
      /\ c.op # "idle" /\ Head(c.todo) = "close" /\ c.at = "start"
      /\ \A u \in Thread : u # t => call'[u] = call[u]
      /\ \/ /\ c.ent \in fent /\ Same(d, c) /\ d.todo = c.todo /\ d.at = "locked" /\ d.ent = c.ent
         \/ c.ent \notin fent /\ Tail(c.todo) = <<>> /\ d = Idle
         \/ /\ c.ent \notin fent /\ Tail(c.todo) # <<>> /\ Same(d, c) /\ d.todo = Tail(c.todo)
            /\ d.at = "start" /\ d.ent = NoEnt
  BY InvIs, StartCloseTypes
<1>2. c \in Call /\ StageOK(c) /\ HolderOK(t) /\ EntOK(t)
  BY InvIs
<1>3. \A x \in Ent : Holds(t, x) <=> c.ent = x
  BY <1>1 DEF Holds
<1>4. CASE Same(d, c) /\ d.todo = c.todo /\ d.at = "locked" /\ d.ent = c.ent
  <2>1. Moved(d) <=> Moved(c)
    BY <1>4 DEF Moved, Same
  <2>2. \A x \in Ent : Holds(t, x)' <=> Holds(t, x)
    BY <1>1, <1>3, <1>4 DEF Holds
  <2>3. HolderOK(t)'
    BY <1>1, <1>2, <1>4, <2>1 DEF HolderOK, Same
  <2>4. EntOK(t)'
    BY <1>1, <1>2, <1>4 DEF EntOK, Same
  <2>. QED BY <1>1, <1>4, <2>1, <2>2, <2>3, <2>4, SteadyInv DEF Steady
<1>5. c.ent \notin fent => \A x \in Ent : ~Holds(t, x)
  BY <1>3, HolderIn
<1>6. CASE c.ent \notin fent /\ Tail(c.todo) = <<>> /\ d = Idle
  <2>1. ~Moved(c)
    BY <1>1, <1>2, <1>6, CloseMoved
  <2>. QED BY <1>1, <1>5, <1>6, <2>1, IdleAfter, SteadyInv DEF Steady
<1>7. CASE /\ c.ent \notin fent /\ Tail(c.todo) # <<>> /\ Same(d, c) /\ d.todo = Tail(c.todo)
           /\ d.at = "start" /\ d.ent = NoEnt
  <2>1. Moved(d) <=> Moved(c)
    BY <1>1, <1>2, <1>7, CloseMoved DEF Same
  <2>2. \A x \in Ent : ~Holds(t, x)'
    BY <1>7 DEF Holds
  <2>3. Head(d.todo) # "open"
    BY <1>1, <1>2, <1>7, CloseMoved
  <2>4. HolderOK(t)' /\ EntOK(t)'
    BY <1>7, <2>3 DEF HolderOK, EntOK
  <2>. QED BY <1>1, <1>5, <1>7, <2>1, <2>2, <2>4, SteadyInv DEF Steady
<1>. QED BY <1>1, <1>4, <1>6, <1>7

\* What follows a method.
LEMMA AfterWork ==
  ASSUME NEW c \in Call, StageOK(c), c.op # "idle", Head(c.todo) \in Work
  PROVE  /\ Head(Tail(c.todo)) \in {"return", "close", "count"}
         /\ Tail(c.todo) \notin {<<"close", "unlink">>, <<"unlink">>}
<1>1. /\ "open" \notin Work /\ "exist" \notin Work /\ "find" \notin Work /\ "return" \notin Work
      /\ "count" \notin Work /\ "copy" \notin Work /\ "move" \notin Work /\ "unlink" \notin Work
      /\ "close" \notin Work
  BY DEF Work
<1>2. c.op # "rename" =>
        Tail(c.todo) \in {<<"return">>, <<"close">>, <<"count">>}
  BY <1>1, Phases, Short, Tails
<1>3. c.op = "rename" =>
        Tail(c.todo) = <<"close", "exist", "copy", "move", "close", "unlink">>
  BY <1>1, Phases, Short, RenameTails
<1>4. <<"return">> # <<"unlink">> /\ <<"close">> # <<"unlink">> /\ <<"count">> # <<"unlink">>
  BY Short, Tails, RenameTails
<1>5. /\ <<"return">> # <<"close", "unlink">> /\ <<"close">> # <<"close", "unlink">>
      /\ <<"count">> # <<"close", "unlink">>
  BY Short, Tails, RenameTails
<1>6. /\ <<"close", "exist", "copy", "move", "close", "unlink">> # <<"close", "unlink">>
      /\ <<"close", "exist", "copy", "move", "close", "unlink">> # <<"unlink">>
  BY RenameTails
<1>7. Tail(c.todo) \notin {<<"close", "unlink">>, <<"unlink">>}
  BY <1>2, <1>3, <1>4, <1>5, <1>6
<1>8. Head(Tail(c.todo)) \in {"return", "close", "count"}
  BY <1>2, <1>3, Short, Tails, RenameTails
<1>. QED BY <1>7, <1>8

\* A call that works on its entity goes on with it.
LEMMA WorkInv ==
  ASSUME Inv, TypeInv', NEW t \in Thread,
         fent' = fent, handle' = handle, \A u \in Thread : u # t => call'[u] = call[u],
         \A x \in Ent : /\ entity'[x].path = entity[x].path /\ entity'[x].open = entity[x].open
                        /\ entity'[x].refcnt = entity[x].refcnt
                        /\ entity'[x].key \in {entity[x].key, NoPath},
         call[t].op # "idle", ~Moved(call[t]),
         call[t].at = "locked" => Head(call[t].todo) \notin {"open", "exist"},
         Same(call'[t], call[t]), call'[t].ent = call[t].ent,
         Head(call'[t].todo) \notin {"open", "exist"}, ~Moved(call'[t]),
         call'[t].todo \in {<<"copy", "move", "unlink">>, <<"move", "unlink">>, <<"unlink">>} =>
           call[t].ent = NoEnt
  PROVE  Inv'
<1>1. HolderOK(t) /\ call[t].ent \in Ent \cup {NoEnt}
  BY InvIs
<1>2. \A x \in Ent : Holds(t, x)' <=> Holds(t, x)
  BY DEF Holds
<1>3. HolderOK(t)'
  BY <1>1 DEF HolderOK, Same
<1>4. EntOK(t)'
  BY DEF EntOK
<1>5. Steady(t)
  BY <1>2 DEF Steady
<1>. QED BY <1>3, <1>4, <1>5, SteadyInv

\* ... after Enter,
LEMMA EnterInv ==
  ASSUME Inv, NEW t \in Thread, Enter(t)
  PROVE  Inv'
<1> DEFINE c == call[t] d == call'[t]
<1>1. /\ TypeInv' /\ UNCHANGED <<fent, entity, object, handle, manager>>
      /\ c.op # "idle" /\ Head(c.todo) \in Work /\ c.at = "start"
      /\ \A u \in Thread : u # t => call'[u] = call[u]
      /\ Same(d, c) /\ d.ent = c.ent
      /\ d.todo = c.todo \/ d.todo = <<"close">>
  BY InvIs, EnterTypes
<1>2. ~Moved(c)
  BY <1>1, MovedHead DEF Work
<1>3. Head(d.todo) \in Work \cup {"close"} /\ ~Moved(d)
  <2>1. Head(<<"close">>) = "close"
    BY Short
  <2>2. <<"close">> \notin {<<"close", "unlink">>, <<"unlink">>}
    BY Short, RenameTails
  <2>3. ~Moved(d)
    BY <1>1, <1>2, <2>2 DEF Moved, Same
  <2>. QED BY <1>1, <2>1, <2>3
<1>4. Head(d.todo) \notin {"open", "exist", "copy", "move", "unlink"}
  BY <1>3 DEF Work
<1>. QED BY <1>1, <1>2, <1>3, <1>4, BareHead, WorkInv

\* Finish,
LEMMA FinishInv ==
  ASSUME Inv, NEW t \in Thread, Finish(t)
  PROVE  Inv'
<1> DEFINE c == call[t] d == call'[t] x == c.ent
<1>1. /\ TypeInv' /\ UNCHANGED <<fent, handle, manager>>
      /\ c.op # "idle" /\ Head(c.todo) \in Work /\ x \in Ent
      /\ \A u \in Thread : u # t => call'[u] = call[u]
      /\ Same(d, c) /\ d.ent = x
      /\ d.todo = Tail(c.todo) \/ d.todo = <<"close">>
      /\ \A y \in Ent : y # x => entity'[y] = entity[y]
      /\ entity'[x].path = entity[x].path /\ entity'[x].key \in {entity[x].key, NoPath}
      /\ entity'[x].open = entity[x].open /\ entity'[x].refcnt = entity[x].refcnt
  BY InvIs, FinishTypes
<1>2. ~Moved(c) /\ Head(c.todo) \notin {"open", "exist"}
  BY <1>1, MovedHead DEF Work
<1>3. Head(d.todo) \in {"return", "close", "count"} /\ ~Moved(d)
  <2>1. /\ Head(Tail(c.todo)) \in {"return", "close", "count"}
        /\ Tail(c.todo) \notin {<<"close", "unlink">>, <<"unlink">>}
    BY <1>1, InvIs, AfterWork
  <2>2. Head(<<"close">>) = "close" /\ <<"close">> \notin {<<"close", "unlink">>, <<"unlink">>}
    BY Short, RenameTails
  <2>. QED BY <1>1, <2>1, <2>2 DEF Moved
<1>4. \A y \in Ent : /\ entity'[y].path = entity[y].path /\ entity'[y].open = entity[y].open
                     /\ entity'[y].refcnt = entity[y].refcnt
                     /\ entity'[y].key \in {entity[y].key, NoPath}
  BY <1>1
<1>. QED BY <1>1, <1>2, <1>3, <1>4, BareHead, WorkInv

\* CountReferences,
LEMMA CountReferencesInv ==
  ASSUME Inv, NEW t \in Thread, CountReferences(t)
  PROVE  Inv'
<1> DEFINE c == call[t] d == call'[t]
<1>1. /\ TypeInv' /\ UNCHANGED <<fent, entity, object, handle, manager, lock>>
      /\ c.op = "truncate" /\ c.at = "start" /\ c.op # "idle"
      /\ \A u \in Thread : u # t => call'[u] = call[u]
      /\ Same(d, c) /\ d.ent = c.ent
      /\ d.todo \in {<<"cut", "close">>, <<"force", "close">>}
  BY InvIs, CountReferencesTypes
<1>2. ~Moved(c) /\ ~Moved(d)
  BY <1>1 DEF Moved, Same
<1>3. Head(d.todo) \in {"cut", "force"}
  BY <1>1, Tails
<1>. QED BY <1>1, <1>2, <1>3, BareHead, WorkInv

\* and Copy.
LEMMA CopyInv ==
  ASSUME Inv, NEW t \in Thread, Copy(t)
  PROVE  Inv'
<1> DEFINE c == call[t] d == call'[t]
<1>1. /\ TypeInv' /\ UNCHANGED <<fent, entity, handle, manager, lock>>
      /\ c.op = "rename" /\ c.at = "start" /\ c.op # "idle"
      /\ c.todo \in {<<"copy", "move", "close", "unlink">>, <<"copy", "move", "unlink">>}
      /\ \A u \in Thread : u # t => call'[u] = call[u]
      /\ \/ c.ent = NoEnt /\ d = Idle
         \/ /\ Same(d, c) /\ d.ent = c.ent
            /\ d.todo = Tail(c.todo) \/ d.todo = <<"close">>
  BY InvIs, CopyTypes
<1>2. Head(c.todo) = "copy" /\ ~Moved(c)
  <2>1. Head(c.todo) = "copy"
    BY <1>1, RenameTails
  <2>. QED BY <2>1, MovedHead
<1>3. CASE c.ent = NoEnt /\ d = Idle
  <2>1. \A x \in Ent : ~Holds(t, x)
    BY <1>3 DEF Holds
  <2>. QED BY <1>1, <1>2, <1>3, <2>1, IdleAfter, SteadyInv DEF Steady
<1>4. CASE Same(d, c) /\ d.ent = c.ent /\ d.todo = Tail(c.todo)
  <2>1. /\ Head(d.todo) = "move"
        /\ d.todo = <<"move", "unlink">> => c.todo = <<"copy", "move", "unlink">>
    BY <1>1, <1>4, RenameTails
  <2>2. ~Moved(d)
    BY <2>1, MovedHead
  <2>3. d.todo \in {<<"copy", "move", "unlink">>, <<"move", "unlink">>, <<"unlink">>} => c.ent = NoEnt
    BY <2>1, InvIs, RenameTails DEF EntOK
  <2>. QED BY <1>1, <1>2, <1>4, <2>1, <2>2, <2>3, WorkInv
<1>5. CASE Same(d, c) /\ d.ent = c.ent /\ d.todo = <<"close">>
  <2>1. Head(d.todo) = "close" /\ ~Moved(d)
    BY <1>5, Short, RenameTails DEF Moved
  <2>. QED BY <1>1, <1>2, <1>5, <2>1, BareHead, WorkInv
<1>. QED BY <1>1, <1>3, <1>4, <1>5

\* The paths and the handles of the calls, when a call goes on or ends.
LEMMA PathsInv ==
  ASSUME Inv, NEW t \in Thread, handle' = handle,
         \A u \in Thread : u # t => call'[u] = call[u],
         call'[t] = Idle \/ Same(call'[t], call[t])
  PROVE  Exclusive' /\ TargetOK' /\ CallHandleOK'
<1>1. \A u \in Thread : call'[u].op = "idle" \/ Same(call'[u], call[u])
  BY IdleIs DEF Same
<1>2. Exclusive'
  BY <1>1, InvIs DEF Exclusive, Same
<1>3. TargetOK'
  BY <1>1, InvIs DEF TargetOK, Same
<1>4. CallHandleOK'
  BY <1>1, InvIs DEF CallHandleOK, Same
<1>. QED BY <1>2, <1>3, <1>4

\* The references of an entity that the step does not concern.
LEMMA RefKept ==
  ASSUME Inv, NEW t \in Thread, NEW y \in Ent,
         \A h \in Handle : handle'[h].fd = y <=> handle[h].fd = y,
         \A u \in Thread : u # t => call'[u] = call[u],
         Holds(t, y)' <=> Holds(t, y),
         entity'[y].open = entity[y].open, entity'[y].refcnt = entity[y].refcnt,
         y \in fent' <=> y \in fent
  PROVE  RefOK(y)'
<1>1. RefOK(y)
  BY InvIs
<1>2. Handles(y)' = Handles(y)
  BY DEF Handles
<1>3. \A u \in Thread : Holds(u, y)' <=> Holds(u, y)
  BY DEF Holds
<1>4. Holders(y)' = Holders(y)
  BY <1>3 DEF Holders
<1>. QED BY <1>1, <1>2, <1>4 DEF RefOK

\* The other calls, when their entities stay.
LEMMA HolderKept ==
  ASSUME Inv, NEW u \in Thread, call'[u] = call[u],
         call[u].ent \in Ent =>
           /\ entity'[call[u].ent].path = entity[call[u].ent].path
           /\ entity[call[u].ent].open => entity'[call[u].ent].open
           /\ call[u].ent \in fent => call[u].ent \in fent'
  PROVE  HolderOK(u)' /\ EntOK(u)'
<1>1. HolderOK(u) /\ EntOK(u) /\ call[u].ent \in Ent \cup {NoEnt}
  BY InvIs
<1>2. HolderOK(u)'
  BY <1>1 DEF HolderOK
<1>3. EntOK(u)'
  BY <1>1 DEF EntOK
<1>. QED BY <1>2, <1>3

\* The handles, when their entities keep their paths and no rename moves one.
LEMMA HandlesKept ==
  ASSUME Inv, NEW t \in Thread, handle' = handle,
         \A u \in Thread : u # t => call'[u] = call[u],
         call'[t] = Idle \/ Same(call'[t], call[t]), Moved(call'[t]) <=> Moved(call[t]),
         \A x \in fent : entity[x].open /\ Handles(x) # {} => entity'[x].path = entity[x].path
  PROVE  \A h \in Handle : HandleOK(h)'
<1> SUFFICES ASSUME NEW h \in Handle PROVE HandleOK(h)'
  OBVIOUS
<1>1. HandleOK(h)
  BY InvIs
<1>2. handle[h].fd # NoEnt => entity'[handle[h].fd].path = entity[handle[h].fd].path
  BY HandleOpen DEF Handles
<1>3. \A u \in Thread : Moved(call'[u]) =>
        Moved(call[u]) /\ call'[u].path = call[u].path /\ call'[u].to = call[u].to
  BY IdleIs DEF Moved, Same
<1>4. \A u \in Thread : Moved(call[u]) =>
        Moved(call'[u]) /\ call'[u].path = call[u].path /\ call'[u].to = call[u].to
  BY <1>3
<1>. QED BY <1>1, <1>2, <1>3, <1>4 DEF HandleOK

\* What follows when an entity has been found.
LEMMA AfterFind ==
  ASSUME NEW c \in Call, StageOK(c), c.op # "idle", Head(c.todo) \in {"open", "exist"}
  PROVE  /\ Head(Tail(c.todo)) \in Work \cup {"return", "copy"}
         /\ Tail(c.todo) # <<"copy", "move", "unlink">>
<1>1. /\ "force" \in Work /\ "load" \in Work /\ "read" \in Work /\ "write" \in Work
      /\ "flush" \in Work
  BY DEF Work
<1>2. c.op # "rename" => Head(Tail(c.todo)) \in {"force", "return", "load", "read", "write", "flush"}
  BY Phases, Short, Tails
<1>3. c.op = "rename" =>
        Tail(c.todo) \in {<<"force", "close", "exist", "copy", "move", "close", "unlink">>,
                          <<"copy", "move", "close", "unlink">>}
  BY Phases, Short, RenameTails
<1>4. c.op = "rename" => Head(Tail(c.todo)) \in {"force", "copy"}
  BY <1>3, RenameTails
<1>5. <<"copy", "move", "close", "unlink">> # <<"copy", "move", "unlink">>
  BY RenameTails
<1>6. Tail(c.todo) # <<"copy", "move", "unlink">>
  BY <1>2, <1>3, <1>5, RenameTails
<1>. QED BY <1>1, <1>2, <1>4, <1>6

\* Then the call is neither without an entity nor a rename that has moved it.
LEMMA AfterFound ==
  ASSUME NEW c \in Call, StageOK(c), c.op # "idle", Head(c.todo) \in {"open", "exist"},
         NEW d, d.todo = Tail(c.todo)
  PROVE  /\ ~Moved(c) /\ ~Moved(d) /\ Head(d.todo) \notin {"open", "exist"}
         /\ d.todo \notin {<<"copy", "move", "unlink">>, <<"move", "unlink">>, <<"unlink">>}
<1>1. Head(d.todo) \notin {"open", "exist", "move", "unlink", "close"}
  BY AfterFind DEF Work
<1>2. d.todo # <<"copy", "move", "unlink">>
  BY AfterFind
<1>. QED BY <1>1, <1>2, MovedHead, BareHead, RenameTails

\* An open entity that one more refers to.
LEMMA RefGains ==
  ASSUME NEW y, RefOK(y), y \in fent, entity[y].open, y \in fent', entity'[y].open,
         Handles(y)' = Handles(y), NEW t, t \notin Holders(y), Holders(y)' = Holders(y) \cup {t},
         entity'[y].refcnt = entity[y].refcnt + 1
  PROVE  RefOK(y)'
<1> DEFINE H == Handles(y) T == Holders(y)
<1>1. IsFiniteSet(H) /\ IsFiniteSet(T) /\ entity[y].refcnt = Cardinality(H) + Cardinality(T)
  BY DEF RefOK
<1>2. Cardinality(H) \in Nat /\ Cardinality(T) \in Nat
  BY <1>1, FS_CardinalityType
<1>3. IsFiniteSet(T \cup {t}) /\ Cardinality(T \cup {t}) = Cardinality(T) + 1
  BY <1>1, FS_AddElement
<1>4. /\ entity'[y].refcnt = Cardinality(H) + Cardinality(T \cup {t})
      /\ entity'[y].refcnt > 0
  <2> DEFINE m == Cardinality(H) n == Cardinality(T) k == Cardinality(T \cup {t})
  <2>1. m \in Nat /\ n \in Nat /\ k = n + 1 /\ entity'[y].refcnt = (m + n) + 1
    BY <1>1, <1>2, <1>3
  <2> HIDE DEF m, n, k
  <2>2. entity'[y].refcnt = m + k /\ m + k > 0
    BY <2>1
  <2>. QED BY <2>2 DEF m, k
<1>. QED BY <1>1, <1>3, <1>4 DEF RefOK

\* The invariant after Reference,
LEMMA ReferenceInv ==
  ASSUME Inv, NEW t \in Thread, Reference(t)
  PROVE  Inv'
<1> DEFINE c == call[t] d == call'[t] x == c.ent
<1>1. /\ TypeInv' /\ UNCHANGED <<fent, object, handle, lock>>
      /\ Head(c.todo) \in {"open", "exist"} /\ c.op # "idle" /\ c.at = "locked"
      /\ \A u \in Thread : u # t => call'[u] = call[u]
      /\ Same(d, c) /\ d.todo = Tail(c.todo) /\ d.at = "start" /\ d.ent = x /\ x \in Ent
      /\ \A y \in Ent : y # x => entity'[y] = entity[y]
      /\ entity'[x].path = entity[x].path /\ entity'[x].key = entity[x].key /\ entity'[x].open
      /\ entity'[x].refcnt = IF entity[x].open THEN entity[x].refcnt + 1 ELSE 1
  BY InvIs, ReferenceTypes DEF Locked
<1>2. c \in Call /\ StageOK(c) /\ HolderOK(t) /\ EntOK(t)
  BY InvIs
<1>3. /\ ~Moved(c) /\ ~Moved(d) /\ Head(d.todo) \notin {"open", "exist"}
      /\ d.todo \notin {<<"copy", "move", "unlink">>, <<"move", "unlink">>, <<"unlink">>}
  BY <1>1, <1>2, AfterFound
<1>4. entity[x].open /\ x \in fent /\ entity[x].path = c.path /\ x # NoEnt
  BY <1>1, <1>2, <1>3 DEF HolderOK
<1>5. entity'[x].refcnt = entity[x].refcnt + 1
  BY <1>1, <1>4
<1>6. Exclusive' /\ TargetOK' /\ CallHandleOK'
  BY <1>1, PathsInv
<1>7. KeysOK'
  BY <1>1, InvIs DEF KeysOK
<1>8. OneCopyPerPath'
  BY <1>1, <1>4, InvIs DEF OneCopyPerPath
<1>9. \A h \in Handle : HandleOK(h)'
  BY <1>1, <1>3, InvIs, HandlesKept
<1>10. ASSUME NEW u \in Thread PROVE HolderOK(u)' /\ EntOK(u)'
  <2>1. CASE u = t
    <3>1. HolderOK(t)'
      BY <1>1, <1>2, <1>3, <1>4 DEF HolderOK, Same
    <3>2. EntOK(t)'
      BY <1>3 DEF EntOK
    <3>. QED BY <2>1, <3>1, <3>2
  <2>2. CASE u # t
    BY <1>1, <2>2, HolderKept
  <2>. QED BY <2>1, <2>2
<1>11. ASSUME NEW y \in Ent PROVE RefOK(y)'
  <2>1. CASE y # x
    <3>1. ~Holds(t, y) /\ ~Holds(t, y)'
      BY <1>1, <2>1 DEF Holds
    <3>. QED BY <1>1, <2>1, <3>1, RefKept
  <2>2. CASE y = x
    <3>1. RefOK(y)
      BY InvIs
    <3>2. Handles(y)' = Handles(y)
      BY <1>1 DEF Handles
    <3>3. t \notin Holders(y) /\ Holds(t, y)'
      BY <1>1, <2>2 DEF Holders, Holds
    <3>4. \A u \in Thread : u # t => (Holds(u, y)' <=> Holds(u, y))
      BY <1>1 DEF Holds
    <3>5. Holders(y)' = Holders(y) \cup {t}
      BY <3>3, <3>4 DEF Holders
    <3>6. /\ y \in fent' /\ entity'[y].open /\ y \in fent /\ entity[y].open
          /\ entity'[y].refcnt = entity[y].refcnt + 1
      BY <1>1, <1>4, <1>5, <2>2
    <3>. QED BY <3>1, <3>2, <3>3, <3>5, <3>6, RefGains
  <2>. QED BY <2>1, <2>2
<1>. QED BY <1>1, <1>6, <1>7, <1>8, <1>9, <1>10, <1>11 DEF Inv

\* The invariant after Create: nothing refers to the new entity but the call.
LEMMA CreateInv ==
  ASSUME ~CacheDir, Inv, NEW t \in Thread, Create(t)
  PROVE  Inv'
<1> DEFINE c == call[t] d == call'[t]
<1>1. PICK x \in Ent \ fent :
        /\ TypeInv' /\ UNCHANGED <<object, handle, manager, lock>>
        /\ c.op # "idle" /\ Head(c.todo) = "open" /\ c.at = "start" /\ OpenAs(c.path) = {}
        /\ \A u \in Thread : u # t => call'[u] = call[u]
        /\ Same(d, c) /\ d.todo = Tail(c.todo) /\ d.at = "start" /\ d.ent = x
        /\ fent' = fent \cup {x} /\ \A y \in Ent : y # x => entity'[y] = entity[y]
        /\ entity'[x].path = c.path /\ entity'[x].key = NoPath
        /\ entity'[x].open => entity'[x].refcnt = 1
  <2>1. TypeInv
    BY InvIs
  <2>. QED BY <2>1, CreateTypes DEF Found
<1>2. c \in Call /\ StageOK(c) /\ HolderOK(t) /\ EntOK(t) /\ RefOK(x) /\ fent \subseteq Ent
  BY InvIs
<1>3. /\ ~Moved(c) /\ ~Moved(d) /\ Head(d.todo) \notin {"open", "exist"}
      /\ d.todo \notin {<<"copy", "move", "unlink">>, <<"move", "unlink">>, <<"unlink">>}
  BY <1>1, <1>2, AfterFound
<1>4. c.ent = NoEnt /\ c.op \in {"open", "truncate"}
  BY <1>1, <1>2, Heads DEF EntOK
<1>5. Handles(x) = {} /\ Holders(x) = {}
  BY <1>1, <1>2 DEF RefOK
<1>6. \A u \in Thread : call[u].ent # x
  <2> SUFFICES ASSUME NEW u \in Thread, call[u].ent = x PROVE FALSE
    OBVIOUS
  <2>1. ~Holds(u, x)
    BY <1>5 DEF Holders
  <2>2. call[u].at = "locked" /\ Head(call[u].todo) \in {"open", "exist"}
    BY <2>1 DEF Holds
  <2>3. HolderOK(u)
    BY InvIs
  <2>. QED BY <1>1, <2>2, <2>3 DEF HolderOK
<1>7. Exclusive' /\ TargetOK' /\ CallHandleOK'
  BY <1>1, PathsInv
<1>8. KeysOK'
  BY <1>1, InvIs DEF KeysOK
<1>9. OneCopyPerPath'
  <2> SUFFICES ASSUME NEW y \in fent', NEW z \in fent', entity'[y].open, entity'[z].open,
                      entity'[y].path = entity'[z].path
               PROVE  y = z
    BY DEF OneCopyPerPath
  <2>1. \A w \in fent' : w # x => w \in fent /\ entity'[w] = entity[w]
    BY <1>1, <1>2
  <2>2. \A w \in fent : entity[w].open => entity[w].path # c.path
    BY <1>1 DEF OpenAs
  <2>3. OneCopyPerPath
    BY InvIs
  <2>4. CASE y = x
    BY <1>1, <2>1, <2>2, <2>4
  <2>5. CASE z = x
    BY <1>1, <2>1, <2>2, <2>5
  <2>6. CASE y # x /\ z # x
    BY <2>1, <2>3, <2>6 DEF OneCopyPerPath
  <2>. QED BY <2>4, <2>5, <2>6
<1>10. \A h \in Handle : HandleOK(h)'
  <2>1. \A w \in fent : entity'[w].path = entity[w].path
    BY <1>1, <1>2
  <2>. QED BY <1>1, <1>3, <2>1, HandlesKept
<1>11. ASSUME NEW u \in Thread PROVE HolderOK(u)' /\ EntOK(u)'
  <2>1. CASE u = t
    <3>1. HolderOK(t)'
      BY <1>1, <1>3, <1>4 DEF HolderOK, Same
    <3>2. EntOK(t)'
      BY <1>3 DEF EntOK
    <3>. QED BY <2>1, <3>1, <3>2
  <2>2. CASE u # t
    <3>1. call'[u] = call[u] /\ (call[u].ent \in Ent => entity'[call[u].ent] = entity[call[u].ent])
      BY <1>1, <1>6, <2>2
    <3>. QED BY <1>1, <3>1, HolderKept
  <2>. QED BY <2>1, <2>2
<1>12. ASSUME NEW y \in Ent PROVE RefOK(y)'
  <2>1. CASE y # x
    <3>1. ~Holds(t, y) /\ ~Holds(t, y)'
      BY <1>1, <1>4, <2>1 DEF Holds
    <3>2. entity'[y] = entity[y] /\ (y \in fent' <=> y \in fent)
      BY <1>1, <2>1
    <3>. QED BY <1>1, <3>1, <3>2, RefKept
  <2>2. CASE y = x
    <3>1. Handles(y)' = {}
      BY <1>1, <1>5, <2>2 DEF Handles
    <3>2. Holders(y)' = {t}
      <4>1. Holds(t, y)'
        BY <1>1, <2>2 DEF Holds
      <4>2. \A u \in Thread : u # t => ~Holds(u, y)'
        BY <1>1, <1>6, <2>2 DEF Holds
      <4>. QED BY <4>1, <4>2 DEF Holders
    <3>3. /\ IsFiniteSet({}) /\ Cardinality({}) = 0
          /\ IsFiniteSet({t}) /\ Cardinality({t}) = 1
      BY FS_EmptySet, FS_Singleton
    <3>4. y \in fent' /\ (entity'[y].open => entity'[y].refcnt = 1)
      BY <1>1, <2>2
    <3>. QED BY <3>1, <3>2, <3>3, <3>4 DEF RefOK
  <2>. QED BY <2>1, <2>2
<1>. QED BY <1>1, <1>7, <1>8, <1>9, <1>10, <1>11, <1>12 DEF Inv

\* An open entity that one refers to no more.
LEMMA RefLoses ==
  ASSUME NEW y, RefOK(y), y \in fent, entity[y].open, y \in fent', entity'[y].open,
         Handles(y)' = Handles(y), NEW t \in Holders(y), Holders(y)' = Holders(y) \ {t},
         entity'[y].refcnt = entity[y].refcnt - 1, entity[y].refcnt > 1
  PROVE  RefOK(y)'
<1> DEFINE H == Handles(y) T == Holders(y)
<1>1. IsFiniteSet(H) /\ IsFiniteSet(T) /\ entity[y].refcnt = Cardinality(H) + Cardinality(T)
  BY DEF RefOK
<1>2. Cardinality(H) \in Nat /\ Cardinality(T) \in Nat
  BY <1>1, FS_CardinalityType
<1>3. IsFiniteSet(T \ {t}) /\ Cardinality(T \ {t}) = Cardinality(T) - 1
  BY <1>1, FS_RemoveElement
<1>4. /\ entity'[y].refcnt = Cardinality(H) + Cardinality(T \ {t})
      /\ entity'[y].refcnt > 0
  <2> DEFINE m == Cardinality(H) n == Cardinality(T) k == Cardinality(T \ {t})
  <2>1. m \in Nat /\ n \in Nat /\ k = n - 1 /\ entity'[y].refcnt = (m + n) - 1 /\ m + n > 1
    BY <1>1, <1>2, <1>3
  <2> HIDE DEF m, n, k
  <2>2. entity'[y].refcnt = m + k /\ m + k > 0
    BY <2>1
  <2>. QED BY <2>2 DEF m, k
<1>. QED BY <1>1, <1>3, <1>4 DEF RefOK

\* The last who refers to an entity is the only one.
LEMMA LastIsOnly ==
  ASSUME NEW y, RefOK(y), y \in fent, NEW t \in Holders(y), ~(entity[y].open /\ entity[y].refcnt > 1)
  PROVE  Handles(y) = {} /\ Holders(y) = {t}
<1>1. CASE ~entity[y].open
  BY <1>1 DEF RefOK
<1>2. CASE entity[y].open
  <2> DEFINE H == Handles(y) T == Holders(y)
  <2>1. /\ IsFiniteSet(H) /\ IsFiniteSet(T) /\ entity[y].refcnt = Cardinality(H) + Cardinality(T)
        /\ entity[y].refcnt > 0 /\ ~(entity[y].refcnt > 1)
    BY <1>2 DEF RefOK
  <2>2. IsFiniteSet(T \ {t}) /\ Cardinality(T \ {t}) = Cardinality(T) - 1
    BY <2>1, FS_RemoveElement
  <2>3. Cardinality(H) \in Nat /\ Cardinality(T) \in Nat /\ Cardinality(T \ {t}) \in Nat
    BY <2>1, <2>2, FS_CardinalityType
  <2>4. Cardinality(H) = 0 /\ Cardinality(T \ {t}) = 0
    <3> DEFINE m == Cardinality(H) n == Cardinality(T) k == Cardinality(T \ {t}) r == entity[y].refcnt
    <3>1. m \in Nat /\ n \in Nat /\ k \in Nat /\ k = n - 1 /\ r = m + n /\ r > 0 /\ ~(r > 1)
      BY <2>1, <2>2, <2>3
    <3> HIDE DEF m, n, k, r
    <3>2. m = 0 /\ k = 0
      BY <3>1
    <3>. QED BY <3>2 DEF m, k
  <2>5. H = {} /\ T \ {t} = {}
    BY <2>1, <2>2, <2>4, FS_EmptySet
  <2>. QED BY <2>5
<1>. QED BY <1>1, <1>2

\* Nobody else has an entity that only the thread with fd_manager_lock refers to.
LEMMA OnlyOne ==
  ASSUME Inv, NEW t \in Thread, NEW x \in Ent, Holders(x) = {t},
         \/ Locked(call[t])
         \/ x \in fent /\ ~entity[x].open
  PROVE  \A u \in Thread : u # t => call[u].ent # x
<1> SUFFICES ASSUME NEW u \in Thread, u # t, call[u].ent = x PROVE FALSE
  OBVIOUS
<1>1. ~Holds(u, x)
  BY DEF Holders
<1>2. call[u].at = "locked" /\ Head(call[u].todo) \in {"open", "exist"}
  BY <1>1 DEF Holds
<1>3. Locked(call[u])
  BY <1>2 DEF Locked, Sections
<1>4. ~Locked(call[t])
  BY <1>3, InvIs DEF TypeInv, LockOK
<1>5. HolderOK(u)
  BY InvIs
<1>. QED BY <1>2, <1>4, <1>5 DEF HolderOK

\* The invariant after Dereference,
LEMMA DereferenceInv ==
  ASSUME Inv, NEW t \in Thread, Dereference(t)
  PROVE  Inv'
<1> DEFINE c == call[t] d == call'[t]
<1>1. PICK x \in Ent \cup {NoEnt} :
        /\ x = c.ent /\ TypeInv' /\ UNCHANGED <<object, handle, lock>>
        /\ c.op # "idle" /\ Head(c.todo) = "close" /\ c.at = "locked"
        /\ \A u \in Thread : u # t => call'[u] = call[u]
        /\ \/ Tail(c.todo) = <<>> /\ d = Idle
           \/ /\ Tail(c.todo) # <<>> /\ Same(d, c) /\ d.todo = Tail(c.todo) /\ d.at = "start"
              /\ d.ent = NoEnt
        /\ \A y \in Ent : y # x => entity'[y] = entity[y]
        /\ \/ /\ entity[x].open /\ entity[x].refcnt > 1 /\ fent' = fent
              /\ x \in Ent => /\ entity'[x].path = entity[x].path /\ entity'[x].key = entity[x].key
                              /\ entity'[x].open /\ entity'[x].refcnt = entity[x].refcnt - 1
           \/ /\ ~(entity[x].open /\ entity[x].refcnt > 1) /\ fent' = fent \ {x}
              /\ x \in Ent => entity'[x] = Freed
  <2>1. TypeInv /\ c.ent \in Ent \cup {NoEnt}
    BY InvIs
  <2>. QED BY <2>1, DereferenceTypes
<1>2. c \in Call /\ StageOK(c) /\ fent \subseteq Ent
  BY InvIs
<1>3. Moved(d) <=> Moved(c)
  BY <1>1, <1>2, IdleAfter, CloseMoved DEF Same
<1>4. HolderOK(t)' /\ EntOK(t)' /\ \A y \in Ent : ~Holds(t, y)'
  <2>1. CASE d = Idle
    BY <2>1, IdleAfter
  <2>2. CASE Tail(c.todo) # <<>> /\ d.todo = Tail(c.todo) /\ d.at = "start" /\ d.ent = NoEnt
    <3>1. Head(d.todo) # "open"
      BY <1>1, <1>2, <2>2, CloseMoved
    <3>2. HolderOK(t)' /\ EntOK(t)'
      BY <2>2, <3>1 DEF HolderOK, EntOK
    <3>. QED BY <2>2, <3>2 DEF Holds
  <2>. QED BY <1>1, <2>1, <2>2
<1>5. d = Idle \/ Same(d, c)
  BY <1>1
<1>6. Exclusive' /\ TargetOK' /\ CallHandleOK'
  BY <1>1, <1>5, PathsInv
<1>7. CASE x = NoEnt
  <2>1. fent' = fent
    BY <1>1, <1>2, <1>7
  <2>2. \A y \in Ent : ~Holds(t, y)
    BY <1>1, <1>7 DEF Holds
  <2>3. \A y \in Ent : entity'[y] = entity[y]
    BY <1>1, <1>7
  <2>. QED BY <1>1, <1>3, <1>4, <1>5, <2>1, <2>2, <2>3, SteadyInv DEF Steady
<1>8. CASE x \in Ent
  <2>1. Holds(t, x) /\ x \in fent /\ t \in Holders(x)
    <3>1. Holds(t, x)
      BY <1>1 DEF Holds
    <3>. QED BY <1>8, <3>1, HolderIn DEF Holders
  <2>2. Holders(x)' = Holders(x) \ {t} /\ Handles(x)' = Handles(x)
    <3>1. \A u \in Thread : u # t => (Holds(u, x)' <=> Holds(u, x))
      BY <1>1 DEF Holds
    <3>. QED BY <1>1, <1>4, <1>8, <3>1 DEF Holders, Handles
  <2>3. \A y \in Ent : y # x => ~Holds(t, y)
    BY <1>1 DEF Holds
  <2>4. CASE entity[x].open /\ entity[x].refcnt > 1
    <3>1. /\ fent' = fent /\ entity'[x].path = entity[x].path /\ entity'[x].key = entity[x].key
          /\ entity'[x].open /\ entity'[x].refcnt = entity[x].refcnt - 1
      BY <1>1, <1>8, <2>4
    <3>2. \A y \in Ent : /\ entity'[y].path = entity[y].path /\ entity'[y].key = entity[y].key
                         /\ entity'[y].open <=> entity[y].open
      BY <1>1, <2>4, <3>1
    <3>3. KeysOK'
      BY <3>2, InvIs DEF KeysOK
    <3>4. OneCopyPerPath'
      BY <1>2, <3>1, <3>2, InvIs DEF OneCopyPerPath
    <3>5. \A h \in Handle : HandleOK(h)'
      BY <1>1, <1>2, <1>3, <1>5, <3>2, HandlesKept
    <3>6. \A u \in Thread : HolderOK(u)' /\ EntOK(u)'
      BY <1>1, <1>4, <3>1, <3>2, HolderKept
    <3>7. ASSUME NEW y \in Ent PROVE RefOK(y)'
      <4>1. CASE y # x
        BY <1>1, <1>4, <2>3, <3>1, <4>1, RefKept
      <4>2. CASE y = x
        <5>1. RefOK(x)
          BY <1>8, InvIs
        <5>. QED BY <2>1, <2>2, <2>4, <3>1, <4>2, <5>1, RefLoses
      <4>. QED BY <4>1, <4>2
    <3>. QED BY <1>1, <1>6, <3>3, <3>4, <3>5, <3>6, <3>7 DEF Inv
  <2>5. CASE ~(entity[x].open /\ entity[x].refcnt > 1)
    <3>1. fent' = fent \ {x} /\ entity'[x] = Freed
      BY <1>1, <1>8, <2>5
    <3>2. Handles(x) = {} /\ Holders(x) = {t}
      <4>1. RefOK(x)
        BY <1>8, InvIs
      <4>. QED BY <2>1, <2>5, <4>1, LastIsOnly
    <3>3. \A u \in Thread : u # t => call[u].ent # x
      <4>1. Locked(c)
        BY <1>1 DEF Locked, Sections
      <4>. QED BY <1>8, <3>2, <4>1, OnlyOne
    <3>4. KeysOK'
      BY <1>1, <3>1, FreedIs, InvIs DEF KeysOK
    <3>5. OneCopyPerPath'
      <4>1. \A y \in fent' : y \in fent /\ entity'[y] = entity[y]
        BY <1>1, <1>2, <3>1
      <4>. QED BY <4>1, InvIs DEF OneCopyPerPath
    <3>6. \A h \in Handle : HandleOK(h)'
      <4>1. \A y \in fent : entity[y].open /\ Handles(y) # {} => entity'[y].path = entity[y].path
        BY <1>1, <1>2, <3>2
      <4>. QED BY <1>1, <1>3, <1>5, <4>1, HandlesKept
    <3>7. ASSUME NEW u \in Thread PROVE HolderOK(u)' /\ EntOK(u)'
      <4>1. CASE u # t
        <5>1. call[u].ent \in Ent => /\ entity'[call[u].ent] = entity[call[u].ent]
                                     /\ call[u].ent \in fent => call[u].ent \in fent'
          BY <1>1, <3>1, <3>3, <4>1
        <5>. QED BY <1>1, <4>1, <5>1, HolderKept
      <4>. QED BY <1>4, <4>1
    <3>8. ASSUME NEW y \in Ent PROVE RefOK(y)'
      <4>1. CASE y # x
        <5>1. entity'[y] = entity[y] /\ (y \in fent' <=> y \in fent)
          BY <1>1, <3>1, <4>1
        <5>. QED BY <1>1, <1>4, <2>3, <4>1, <5>1, RefKept
      <4>2. CASE y = x
        <5>1. Handles(y)' = {} /\ Holders(y)' = {}
          BY <2>2, <3>2, <4>2
        <5>2. y \notin fent'
          BY <3>1, <4>2
        <5>. QED BY <5>1, <5>2, FS_EmptySet DEF RefOK
      <4>. QED BY <4>1, <4>2
    <3>. QED BY <1>1, <1>6, <3>4, <3>5, <3>6, <3>7, <3>8 DEF Inv
  <2>. QED BY <2>4, <2>5
<1>. QED BY <1>1, <1>7, <1>8

\* A handle with the old path of a rename, before its move, has an entity with that path.
LEMMA HandleIsOld ==
  ASSUME Inv, NEW t \in Thread, call[t].op = "rename", ~Moved(call[t]), NEW h \in Handle,
         handle[h].fd # NoEnt, handle[h].path = call[t].path
  PROVE  entity[handle[h].fd].path = call[t].path
<1>1. HandleOK(h)
  BY InvIs
<1>2. \A u \in Thread : Moved(call[u]) => call[u].path # call[t].path
  <2> SUFFICES ASSUME NEW u \in Thread, Moved(call[u]), call[u].path = call[t].path PROVE FALSE
    OBVIOUS
  <2>1. u # t /\ call[u].op # "idle"
    BY DEF Moved
  <2>. QED BY <2>1, RenameIs
<1>. QED BY <1>1, <1>2 DEF HandleOK

\* StartMove,
LEMMA StartMoveInv ==
  ASSUME ~CacheDir, Inv, NEW t \in Thread, StartMove(t)
  PROVE  Inv'
<1> DEFINE c == call[t] d == call'[t]
<1>1. /\ TypeInv' /\ UNCHANGED <<fent, entity, object, handle, lock>>
      /\ c.op = "rename" /\ Head(c.todo) = "move" /\ c.at = "start"
      /\ \A u \in Thread : u # t => call'[u] = call[u]
      /\ Same(d, c) /\ d.ent = c.ent
      /\ \/ d.todo = c.todo /\ d.at = "locked"
         \/ /\ OpenAs(c.path) = {} /\ d.at = "start" /\ d.todo = Tail(c.todo)
            /\ Tail(c.todo) \in {<<"close", "unlink">>, <<"unlink">>}
  <2>1. TypeInv
    BY InvIs
  <2>. QED BY <2>1, StartMoveTypes DEF Found
<1>2. ~Moved(c) /\ c \in Call /\ c.ent \in Ent \cup {NoEnt} /\ HolderOK(t) /\ EntOK(t)
  BY <1>1, MovedHead, InvIs
<1>3. \A y \in Ent : Holds(t, y) <=> c.ent = y
  BY <1>1 DEF Holds
<1>4. CASE d.todo = c.todo /\ d.at = "locked"
  <2>1. ~Moved(d)
    BY <1>1, <1>4, MovedHead
  <2>2. \A y \in Ent : Holds(t, y)' <=> Holds(t, y)
    BY <1>1, <1>3, <1>4 DEF Holds
  <2>3. HolderOK(t)'
    BY <1>1, <1>2, <1>4, <2>1 DEF HolderOK, Same
  <2>4. EntOK(t)'
    BY <1>1, <1>2, <1>4 DEF EntOK, Same
  <2>. QED BY <1>1, <1>2, <2>1, <2>2, <2>3, <2>4, SteadyInv DEF Steady
<1>5. CASE /\ OpenAs(c.path) = {} /\ d.at = "start" /\ d.todo = Tail(c.todo)
           /\ Tail(c.todo) \in {<<"close", "unlink">>, <<"unlink">>}
  <2>1. c.ent = NoEnt
    <3> SUFFICES ASSUME c.ent # NoEnt PROVE FALSE
      OBVIOUS
    <3>1. c.ent \in fent
      BY <1>2, <1>3, HolderIn
    <3>2. entity[c.ent].open /\ entity[c.ent].path = c.path
      BY <1>1, <1>2 DEF HolderOK
    <3>. QED BY <1>5, <3>1, <3>2 DEF OpenAs
  <2>2. Head(d.todo) \in {"close", "unlink"}
    BY <1>5, AfterMove
  <2>3. \A y \in Ent : ~Holds(t, y) /\ ~Holds(t, y)'
    BY <1>1, <2>1 DEF Holds
  <2>4. HolderOK(t)' /\ EntOK(t)'
    BY <1>1, <2>1, <2>2 DEF HolderOK, EntOK
  <2>5. Exclusive' /\ TargetOK' /\ CallHandleOK'
    BY <1>1, PathsInv
  <2>6. KeysOK' /\ OneCopyPerPath'
    BY <1>1, InvIs DEF KeysOK, OneCopyPerPath
  <2>7. ASSUME NEW h \in Handle PROVE HandleOK(h)'
    <3>1. handle[h].fd # NoEnt => handle[h].path # c.path
      <4> SUFFICES ASSUME handle[h].fd # NoEnt, handle[h].path = c.path PROVE FALSE
        OBVIOUS
      <4>1. entity[handle[h].fd].path = c.path
        BY <1>1, <1>2, HandleIsOld
      <4>2. handle[h].fd \in fent /\ entity[handle[h].fd].open
        BY HandleOpen
      <4>. QED BY <1>5, <4>1, <4>2 DEF OpenAs
    <3>2. HandleOK(h)
      BY InvIs
    <3>3. d.path = c.path
      BY <1>1 DEF Same
    <3>4. \A u \in Thread : u # t => (Moved(call'[u]) <=> Moved(call[u]))
      BY <1>1
    <3>. QED BY <1>1, <1>2, <3>1, <3>2, <3>3, <3>4 DEF HandleOK
  <2>8. ASSUME NEW u \in Thread PROVE HolderOK(u)' /\ EntOK(u)'
    <3>1. CASE u # t
      BY <1>1, <3>1, HolderKept
    <3>. QED BY <2>4, <3>1
  <2>9. ASSUME NEW y \in Ent PROVE RefOK(y)'
    BY <1>1, <2>3, RefKept
  <2>. QED BY <1>1, <2>5, <2>6, <2>7, <2>8, <2>9 DEF Inv
<1>. QED BY <1>1, <1>4, <1>5

\* An open entity has somebody who refers to it.
LEMMA OpenIsUsed ==
  ASSUME NEW y, RefOK(y), y \in fent, entity[y].open
  PROVE  Handles(y) # {} \/ Holders(y) # {}
<1> SUFFICES ASSUME Handles(y) = {}, Holders(y) = {} PROVE FALSE
  OBVIOUS
<1>1. Cardinality(Handles(y)) = 0 /\ Cardinality(Holders(y)) = 0
  BY FS_EmptySet
<1>2. entity[y].refcnt = Cardinality(Handles(y)) + Cardinality(Holders(y)) /\ entity[y].refcnt > 0
  BY DEF RefOK
<1>. QED BY <1>1, <1>2

\* The path of an open entity is that of a call or of a handle, so that it is not the target of
\* another call's rename.
LEMMA TargetIsFree ==
  ASSUME Inv, NEW t \in Thread, call[t].op = "rename", ~Moved(call[t]),
         NEW y \in fent, entity[y].open, ~Holds(t, y)
  PROVE  entity[y].path # call[t].to
<1> SUFFICES ASSUME entity[y].path = call[t].to PROVE FALSE
  OBVIOUS
<1>1. \A u \in Thread : u # t /\ call[u].op # "idle" =>
        call[u].path # call[t].to /\ call[u].to # call[t].to
  BY RenameIs
<1>2. CASE Holders(y) # {}
  <2>1. PICK u \in Thread : Holds(u, y)
    BY <1>2 DEF Holders
  <2>2. u # t /\ call[u].ent = y /\ y # NoEnt
    BY <2>1, InvIs DEF Holds
  <2>3. call[u].op # "idle"
    BY <2>2, InvIs, IdleIs
  <2>4. HolderOK(u)
    BY InvIs
  <2>. QED BY <1>1, <2>2, <2>3, <2>4 DEF HolderOK
<1>3. CASE Handles(y) # {}
  <2>1. PICK h \in Handle : handle[h].fd = y
    BY <1>3 DEF Handles
  <2>2. y # NoEnt /\ HandleOK(h) /\ handle[h].path # call[t].to
    BY InvIs DEF TargetOK
  <2>3. PICK u \in Thread : Moved(call[u]) /\ call[u].to = call[t].to
    BY <2>1, <2>2 DEF HandleOK
  <2>4. u # t /\ call[u].op # "idle"
    BY <2>3 DEF Moved
  <2>. QED BY <1>1, <2>3, <2>4
<1>. QED BY <1>2, <1>3, InvIs, OpenIsUsed

\* The phases of a rename at its move.
LEMMA AtMove ==
  ASSUME NEW c \in Call, StageOK(c), c.op = "rename", Head(c.todo) = "move", Tail(c.todo) = <<"unlink">>
  PROVE  c.todo = <<"move", "unlink">>
<1>1. c.todo = <<"move", "close", "unlink">> \/ c.todo = <<"move", "unlink">>
  BY Phases, Short, Tails, RenameTails
<1>2. Tail(<<"move", "close", "unlink">>) # <<"unlink">>
  BY RenameTails
<1>. QED BY <1>1, <1>2

\* Move,
LEMMA MoveInv ==
  ASSUME ~CacheDir, Inv, NEW t \in Thread, Move(t)
  PROVE  Inv'
<1> DEFINE c == call[t] d == call'[t]
<1>0. PICK x \in OpenAs(c.path) :
        LET key == IF entity[x].key = NoPath THEN NoPath ELSE c.to IN
        /\ TypeInv' /\ UNCHANGED <<object, handle, lock>>
        /\ c.op = "rename" /\ Head(c.todo) = "move" /\ c.at = "locked"
        /\ \A u \in Thread : u # t => call'[u] = call[u]
        /\ Same(d, c) /\ d.ent = c.ent /\ d.at = "start" /\ d.todo = Tail(c.todo)
        /\ Tail(c.todo) \in {<<"close", "unlink">>, <<"unlink">>}
        /\ x \in Ent /\ \A y \in Ent : y # x => entity'[y] = entity[y]
        /\ entity'[x].path = c.to /\ entity'[x].key = key
        /\ entity'[x].open = entity[x].open /\ entity'[x].refcnt = entity[x].refcnt
        /\ fent' = fent \ {y \in fent \ {x} : key # NoPath /\ entity[y].key = key}
  <2>1. TypeInv
    BY InvIs
  <2>. QED BY <2>1, MoveTypes DEF Found
<1>1. /\ x \in fent /\ x \in Ent /\ entity[x].open /\ entity[x].path = c.path /\ entity[x].key = NoPath
      /\ fent' = fent /\ entity'[x].key = NoPath
  BY <1>0, InvIs DEF OpenAs, KeysOK
<1>2. /\ ~Moved(c) /\ c \in Call /\ StageOK(c) /\ c.ent \in Ent \cup {NoEnt} /\ HolderOK(t) /\ EntOK(t)
      /\ OneCopyPerPath /\ fent \subseteq Ent
  BY <1>0, MovedHead, InvIs
<1>3. Moved(d) /\ d.path = c.path /\ d.to = c.to /\ d.op = "rename"
  BY <1>0 DEF Moved, Same
<1>4. \A y \in Ent : (Holds(t, y) <=> c.ent = y) /\ (Holds(t, y)' <=> c.ent = y)
  BY <1>0 DEF Holds
<1>5. c.ent \in {NoEnt, x}
  <2> SUFFICES ASSUME c.ent # NoEnt PROVE c.ent = x
    OBVIOUS
  <2>1. c.ent \in fent
    BY <1>2, <1>4, HolderIn
  <2>2. entity[c.ent].open /\ entity[c.ent].path = c.path
    BY <1>0, <1>2 DEF HolderOK
  <2>. QED BY <1>1, <1>2, <2>1, <2>2 DEF OneCopyPerPath
<1>6. \A u \in Thread : u # t => call[u].ent # x
  <2> SUFFICES ASSUME NEW u \in Thread, u # t, call[u].ent = x PROVE FALSE
    OBVIOUS
  <2>1. call[u].op # "idle" /\ x # NoEnt /\ HolderOK(u)
    BY <1>1, InvIs, IdleIs
  <2>2. call[u].path # c.path /\ call[u].to # c.path
    BY <1>0, <2>1, RenameIs
  <2>. QED BY <1>1, <2>1, <2>2 DEF HolderOK
<1>7. Exclusive' /\ TargetOK' /\ CallHandleOK'
  BY <1>0, PathsInv
<1>8. KeysOK'
  BY <1>0, <1>1, InvIs DEF KeysOK
<1>9. OneCopyPerPath'
  <2>1. \A y \in fent : y # x /\ entity[y].open => entity'[y] = entity[y] /\ entity[y].path # c.to
    <3> SUFFICES ASSUME NEW y \in fent, y # x, entity[y].open
                 PROVE  entity'[y] = entity[y] /\ entity[y].path # c.to
      OBVIOUS
    <3>1. ~Holds(t, y)
      BY <1>2, <1>4, <1>5
    <3>2. entity[y].path # c.to
      BY <1>0, <1>2, <3>1, TargetIsFree
    <3>. QED BY <1>0, <1>2, <3>2
  <2>2. \A y \in fent : y # x => entity'[y] = entity[y]
    BY <1>0, <1>2
  <2> SUFFICES ASSUME NEW y \in fent, NEW z \in fent, entity'[y].open, entity'[z].open,
                      entity'[y].path = entity'[z].path
               PROVE  y = z
    BY <1>1 DEF OneCopyPerPath
  <2>3. CASE y = x \/ z = x
    BY <1>0, <2>1, <2>2, <2>3
  <2>4. CASE y # x /\ z # x
    BY <1>2, <2>2, <2>4 DEF OneCopyPerPath
  <2>. QED BY <2>3, <2>4
<1>10. ASSUME NEW h \in Handle PROVE HandleOK(h)'
  <2>1. HandleOK(h) /\ handle'[h] = handle[h]
    BY <1>0, InvIs
  <2>2. CASE handle[h].fd = x
    <3>1. \A u \in Thread : Moved(call[u]) => call[u].to # c.path
      <4> SUFFICES ASSUME NEW u \in Thread, Moved(call[u]), call[u].to = c.path PROVE FALSE
        OBVIOUS
      <4>1. u # t /\ call[u].op # "idle"
        BY <1>2 DEF Moved
      <4>. QED BY <1>0, <4>1, RenameIs
    <3>2. handle[h].path = c.path
      BY <1>1, <2>1, <2>2, <3>1, InvIs DEF HandleOK
    <3>. QED BY <1>0, <1>3, <2>1, <2>2, <3>2 DEF HandleOK
  <2>3. CASE handle[h].fd # x /\ handle[h].fd # NoEnt
    <3>1. handle[h].fd \in fent /\ entity[handle[h].fd].open /\ handle[h].fd \in Ent
      BY <2>3, HandleOpen
    <3>2. handle[h].path # c.path
      <4> SUFFICES ASSUME handle[h].path = c.path PROVE FALSE
        OBVIOUS
      <4>1. entity[handle[h].fd].path = c.path
        BY <1>0, <1>2, <2>3, HandleIsOld
      <4>. QED BY <1>1, <1>2, <2>3, <3>1, <4>1 DEF OneCopyPerPath
    <3>3. entity'[handle[h].fd] = entity[handle[h].fd]
      BY <1>0, <2>3, <3>1
    <3>4. \A u \in Thread : u # t => call'[u] = call[u]
      BY <1>0
    <3>5. CASE /\ entity[handle[h].fd].path = handle[h].path
               /\ \A u \in Thread : Moved(call[u]) => call[u].path # handle[h].path
      BY <1>3, <2>1, <3>2, <3>3, <3>4, <3>5 DEF HandleOK
    <3>6. CASE \E u \in Thread : /\ Moved(call[u]) /\ call[u].path = handle[h].path
                                 /\ call[u].to = entity[handle[h].fd].path
      BY <1>2, <2>1, <3>3, <3>4, <3>6 DEF HandleOK
    <3>. QED BY <2>1, <2>3, <3>5, <3>6 DEF HandleOK
  <2>4. CASE handle[h].fd = NoEnt
    BY <2>1, <2>4 DEF HandleOK
  <2>. QED BY <2>2, <2>3, <2>4
<1>11. ASSUME NEW u \in Thread PROVE HolderOK(u)' /\ EntOK(u)'
  <2>1. CASE u # t
    <3>1. call'[u] = call[u] /\ (call[u].ent \in Ent => entity'[call[u].ent] = entity[call[u].ent])
      BY <1>0, <1>6, <2>1
    <3>. QED BY <1>1, <3>1, HolderKept
  <2>2. HolderOK(t)'
    BY <1>0, <1>1, <1>3, <1>5 DEF HolderOK
  <2>3. EntOK(t)'
    <3>1. Head(d.todo) \in {"close", "unlink"}
      BY <1>0, AfterMove
    <3>2. d.todo = <<"unlink">> => c.ent = NoEnt
      BY <1>0, <1>2, AtMove DEF EntOK
    <3>3. d.todo \notin {<<"copy", "move", "unlink">>, <<"move", "unlink">>}
      BY <3>1, RenameTails
    <3>. QED BY <1>0, <3>1, <3>2, <3>3 DEF EntOK
  <2>. QED BY <2>1, <2>2, <2>3
<1>12. ASSUME NEW y \in Ent PROVE RefOK(y)'
  <2>1. entity'[y].open = entity[y].open /\ entity'[y].refcnt = entity[y].refcnt
    BY <1>0
  <2>. QED BY <1>0, <1>1, <1>4, <2>1, RefKept
<1>. QED BY <1>0, <1>7, <1>8, <1>9, <1>10, <1>11, <1>12 DEF Inv

\* An entity whose user changes from a call to its handle.
LEMMA RefPasses ==
  ASSUME NEW y, RefOK(y), y \in fent, entity[y].open, y \in fent', entity'[y].open,
         NEW h, h \notin Handles(y), Handles(y)' = Handles(y) \cup {h},
         NEW t \in Holders(y), Holders(y)' = Holders(y) \ {t},
         entity'[y].refcnt = entity[y].refcnt
  PROVE  RefOK(y)'
<1> DEFINE H == Handles(y) T == Holders(y)
<1>1. /\ IsFiniteSet(H) /\ IsFiniteSet(T) /\ entity[y].refcnt = Cardinality(H) + Cardinality(T)
      /\ entity[y].refcnt > 0
  BY DEF RefOK
<1>2. Cardinality(H) \in Nat /\ Cardinality(T) \in Nat
  BY <1>1, FS_CardinalityType
<1>3. /\ IsFiniteSet(T \ {t}) /\ Cardinality(T \ {t}) = Cardinality(T) - 1
      /\ IsFiniteSet(H \cup {h}) /\ Cardinality(H \cup {h}) = Cardinality(H) + 1
  BY <1>1, FS_RemoveElement, FS_AddElement
<1>4. entity'[y].refcnt = Cardinality(H \cup {h}) + Cardinality(T \ {t})
  <2> DEFINE m == Cardinality(H) n == Cardinality(T) k == Cardinality(T \ {t}) i == Cardinality(H \cup {h})
  <2>1. m \in Nat /\ n \in Nat /\ k = n - 1 /\ i = m + 1 /\ entity'[y].refcnt = m + n
    BY <1>1, <1>2, <1>3
  <2> HIDE DEF m, n, k, i
  <2>2. entity'[y].refcnt = i + k
    BY <2>1
  <2>. QED BY <2>2 DEF k, i
<1>5. entity'[y].refcnt > 0
  BY <1>1
<1>. QED BY <1>1, <1>3, <1>4, <1>5 DEF RefOK

\* The paths of the calls, when a call is over.
LEMMA PathsAfter ==
  ASSUME Inv, NEW t \in Thread, \A u \in Thread : u # t => call'[u] = call[u], call'[t] = Idle
  PROVE  /\ Exclusive'
         /\ \A u \in Thread : call'[u].op # "idle" => u # t /\ call'[u] = call[u]
         /\ \A u \in Thread : Moved(call'[u]) => u # t /\ Moved(call[u])
<1>1. \A u \in Thread : call'[u].op # "idle" => u # t /\ call'[u] = call[u]
  BY IdleIs
<1>2. Exclusive'
  BY <1>1, InvIs DEF Exclusive
<1>3. \A u \in Thread : Moved(call'[u]) => u # t /\ Moved(call[u])
  BY <1>1 DEF Moved
<1>. QED BY <1>1, <1>2, <1>3

\* Return,
LEMMA ReturnInv ==
  ASSUME Inv, NEW t \in Thread, Return(t)
  PROVE  Inv'
<1> DEFINE c == call[t]
<1>0. PICK x \in Ent, k \in Handle :
        /\ x = c.ent /\ k = c.handle /\ TypeInv' /\ UNCHANGED <<fent, entity, object, manager, lock>>
        /\ c.op = "open" /\ c.at = "start"
        /\ call'[t] = Idle /\ \A u \in Thread : u # t => call'[u] = call[u]
        /\ \A h \in Handle : h # k => handle'[h] = handle[h]
        /\ handle'[k] = [path |-> c.path, fd |-> IF entity[x].open THEN x ELSE NoEnt]
  <2>1. TypeInv
    BY InvIs
  <2>. QED BY <2>1, ReturnTypes
<1>1. /\ HolderOK(t) /\ ~Moved(c) /\ c.path \in Path /\ x # NoEnt /\ RefOK(x)
  BY <1>0, InvIs DEF Moved, StageOK
<1>2. entity[x].path = c.path
  BY <1>0, <1>1 DEF HolderOK
<1>3. /\ handle[k] = Unused /\ handle[k].fd = NoEnt /\ handle[k].path = NoPath
      /\ \A u \in Thread : u # t /\ call[u].op = "open" => call[u].handle # k
  BY <1>0, InvIs DEF CallHandleOK, Unused
<1>4. handle'[k].path = c.path /\ handle'[k].fd = (IF entity[x].open THEN x ELSE NoEnt)
  BY <1>0
<1>5. /\ Exclusive' /\ KeysOK' /\ OneCopyPerPath'
      /\ \A u \in Thread : call'[u].op # "idle" => u # t /\ call'[u] = call[u]
      /\ \A u \in Thread : Moved(call'[u]) => u # t /\ Moved(call[u])
  <2>1. KeysOK' /\ OneCopyPerPath'
    BY <1>0, InvIs DEF KeysOK, OneCopyPerPath
  <2>. QED BY <1>0, <2>1, PathsAfter
<1>6. \A u \in Thread : u # t /\ call[u].op = "rename" => call[u].path # c.path /\ call[u].to # c.path
  BY <1>0, RenameIs
<1>7. TargetOK'
  <2> SUFFICES ASSUME NEW u \in Thread, NEW h \in Handle, call'[u].op = "rename"
               PROVE  handle'[h].path # call'[u].to
    BY DEF TargetOK
  <2>1. u # t /\ call'[u] = call[u] /\ call[u].op = "rename"
    BY <1>5
  <2>2. handle[h].path # call[u].to
    BY <2>1, InvIs DEF TargetOK
  <2>. QED BY <1>0, <1>4, <1>6, <2>1, <2>2
<1>8. CallHandleOK'
  <2>1. ASSUME NEW u \in Thread, call'[u].op = "open"
        PROVE  /\ handle'[call'[u].handle] = Unused
               /\ \A v \in Thread : v # u /\ call'[v].op = "open" => call'[v].handle # call'[u].handle
    <3>1. u # t /\ call'[u] = call[u] /\ call[u].handle \in Handle
      BY <1>5, <2>1, InvIs DEF StageOK
    <3>. QED BY <1>0, <1>3, <1>5, <2>1, <3>1, InvIs DEF CallHandleOK
  <2>2. ASSUME NEW u \in Thread, call'[u].op = "io"
        PROVE  handle'[call'[u].handle].path = call'[u].path
    <3>1. u # t /\ call'[u] = call[u] /\ call[u].handle \in Handle /\ call[u].path \in Path
      BY <1>5, <2>2, InvIs DEF StageOK
    <3>2. handle[call[u].handle].path = call[u].path
      BY <2>2, <3>1, InvIs DEF CallHandleOK
    <3>. QED BY <1>0, <1>3, <3>1, <3>2
  <2>. QED BY <2>1, <2>2 DEF CallHandleOK
<1>9. ASSUME NEW h \in Handle PROVE HandleOK(h)'
  <2>1. \A u \in Thread : Moved(call[u]) => u # t /\ Moved(call'[u]) /\ call'[u] = call[u]
    BY <1>0, <1>1
  <2>2. CASE h = k
    <3>1. \A u \in Thread : Moved(call'[u]) => call'[u].path # c.path
      BY <1>0, <1>5, <1>6 DEF Moved
    <3>. QED BY <1>0, <1>2, <1>4, <2>2, <3>1 DEF HandleOK
  <2>3. CASE h # k
    <3>1. HandleOK(h) /\ handle'[h] = handle[h]
      BY <1>0, <2>3, InvIs
    <3>2. \A u \in Thread : Moved(call'[u]) => Moved(call[u]) /\ call'[u] = call[u]
      BY <1>0, <1>5
    <3>. QED BY <1>0, <2>1, <3>1, <3>2 DEF HandleOK
  <2>. QED BY <2>2, <2>3
<1>10. ASSUME NEW u \in Thread PROVE HolderOK(u)' /\ EntOK(u)'
  <2>1. CASE u # t
    BY <1>0, <2>1, HolderKept
  <2>. QED BY <1>0, <2>1, IdleAfter
<1>11. ASSUME NEW y \in Ent PROVE RefOK(y)'
  <2>1. \A w \in Ent : ~Holds(t, w)'
    BY <1>0, IdleAfter
  <2>2. CASE y # x
    <3>1. \A h \in Handle : handle'[h].fd = y <=> handle[h].fd = y
      BY <1>0, <1>3, <1>4, <2>2
    <3>2. ~Holds(t, y)
      BY <1>0, <2>2 DEF Holds
    <3>. QED BY <1>0, <2>1, <3>1, <3>2, RefKept
  <2>3. CASE y = x
    <3>1. Holds(t, x) /\ x \in fent /\ t \in Holders(x)
      <4>1. Holds(t, x)
        BY <1>0 DEF Holds
      <4>. QED BY <4>1, HolderIn DEF Holders
    <3>2. Holders(x)' = Holders(x) \ {t}
      <4>1. \A u \in Thread : u # t => (Holds(u, x)' <=> Holds(u, x))
        BY <1>0 DEF Holds
      <4>. QED BY <2>1, <4>1 DEF Holders
    <3>3. CASE entity[x].open
      <4>1. k \notin Handles(x) /\ Handles(x)' = Handles(x) \cup {k}
        BY <1>0, <1>1, <1>3, <1>4, <3>3 DEF Handles
      <4>2. x \in fent' /\ entity'[x].open /\ entity'[x].refcnt = entity[x].refcnt
        BY <1>0, <3>1, <3>3
      <4>. QED BY <1>1, <2>3, <3>1, <3>2, <3>3, <4>1, <4>2, RefPasses
    <3>4. CASE ~entity[x].open
      <4>1. Handles(x) = {} /\ Holders(x) = {t}
        BY <1>1, <3>1, <3>4 DEF RefOK
      <4>2. Handles(x)' = {} /\ Holders(x)' = {}
        BY <1>0, <1>1, <1>4, <3>2, <3>4, <4>1 DEF Handles
      <4>3. ~entity'[x].open
        BY <1>0, <3>4
      <4>. QED BY <2>3, <4>2, <4>3, FS_EmptySet DEF RefOK
    <3>. QED BY <3>3, <3>4
  <2>. QED BY <2>2, <2>3
<1>. QED BY <1>0, <1>5, <1>7, <1>8, <1>9, <1>10, <1>11 DEF Inv

\* and Unlink, when the DELETE does not fail.
LEMMA UnlinkInv ==
  ASSUME ~UnlinkMayFail, Inv, NEW t \in Thread, Unlink(t)
  PROVE  Inv'
<1> DEFINE c == call[t]
<1>0. PICK p \in Path, q \in Path :
        /\ p = c.path /\ q = c.to /\ TypeInv' /\ UNCHANGED <<fent, entity, manager, lock>>
        /\ c.op = "rename" /\ c.todo = <<"unlink">> /\ c.at = "start"
        /\ call'[t] = Idle /\ \A u \in Thread : u # t => call'[u] = call[u]
        /\ \A h \in Handle :
             /\ handle'[h].fd = handle[h].fd
             /\ handle'[h].path = IF handle[h].path = p THEN q ELSE handle[h].path
             /\ handle[h] = Unused => handle'[h] = Unused
             /\ handle[h].path # p => handle'[h] = handle[h]
  <2>1. TypeInv
    BY InvIs
  <2>2. c.op = "rename"
    BY <2>1, UnlinkTypes
  <2>3. c.path \in Path /\ c.to \in Path
    BY <2>2, RenameIs
  <2>. QED BY <2>1, <2>3, UnlinkTypes
<1>1. EntOK(t) /\ Moved(c) /\ c.ent = NoEnt
  BY <1>0, InvIs DEF EntOK, Moved
<1>2. \A u \in Thread : u # t /\ call[u].op # "idle" =>
        call[u].path \notin {p, q} /\ call[u].to \notin {p, q}
  BY <1>0, RenameIs
<1>3. /\ Exclusive' /\ KeysOK' /\ OneCopyPerPath'
      /\ \A u \in Thread : call'[u].op # "idle" => u # t /\ call'[u] = call[u]
      /\ \A u \in Thread : Moved(call'[u]) => u # t /\ Moved(call[u])
  <2>1. KeysOK' /\ OneCopyPerPath'
    BY <1>0, InvIs DEF KeysOK, OneCopyPerPath
  <2>. QED BY <1>0, <2>1, PathsAfter
<1>4. TargetOK'
  <2> SUFFICES ASSUME NEW u \in Thread, NEW h \in Handle, call'[u].op = "rename"
               PROVE  handle'[h].path # call'[u].to
    BY DEF TargetOK
  <2>1. u # t /\ call'[u] = call[u] /\ call[u].op = "rename"
    BY <1>3
  <2>2. handle[h].path # call[u].to
    BY <2>1, InvIs DEF TargetOK
  <2>. QED BY <1>0, <1>2, <2>1, <2>2
<1>5. CallHandleOK'
  <2>1. ASSUME NEW u \in Thread, call'[u].op = "open"
        PROVE  /\ handle'[call'[u].handle] = Unused
               /\ \A v \in Thread : v # u /\ call'[v].op = "open" => call'[v].handle # call'[u].handle
    <3>1. u # t /\ call'[u] = call[u] /\ call[u].handle \in Handle
      BY <1>3, <2>1, InvIs DEF StageOK
    <3>. QED BY <1>0, <1>3, <2>1, <3>1, InvIs DEF CallHandleOK
  <2>2. ASSUME NEW u \in Thread, call'[u].op = "io"
        PROVE  handle'[call'[u].handle].path = call'[u].path
    <3>1. u # t /\ call'[u] = call[u] /\ call[u].handle \in Handle /\ call[u].path # p
      BY <1>2, <1>3, <2>2, InvIs DEF StageOK
    <3>2. handle[call[u].handle].path = call[u].path
      BY <2>2, <3>1, InvIs DEF CallHandleOK
    <3>. QED BY <1>0, <3>1, <3>2
  <2>. QED BY <2>1, <2>2 DEF CallHandleOK
<1>6. ASSUME NEW h \in Handle PROVE HandleOK(h)'
  <2>1. HandleOK(h)
    BY InvIs
  <2>2. CASE handle[h].path = p /\ handle[h].fd # NoEnt
    <3>1. \A u \in Thread : Moved(call[u]) /\ call[u].path = p => u = t
      BY <1>2 DEF Moved
    <3>2. entity[handle[h].fd].path = q
      BY <1>0, <1>1, <2>1, <2>2, <3>1 DEF HandleOK
    <3>3. \A u \in Thread : Moved(call'[u]) => call'[u].path # q
      BY <1>0, <1>2, <1>3 DEF Moved
    <3>. QED BY <1>0, <2>2, <3>2, <3>3 DEF HandleOK
  <2>3. CASE handle[h].path # p
    <3>1. \A u \in Thread : Moved(call'[u]) => Moved(call[u]) /\ call'[u] = call[u]
      BY <1>0, <1>3
    <3>2. \A u \in Thread : Moved(call[u]) /\ u # t => Moved(call'[u]) /\ call'[u] = call[u]
      BY <1>0
    <3>3. handle'[h] = handle[h]
      BY <1>0, <2>3
    <3>. QED BY <1>0, <2>1, <2>3, <3>1, <3>2, <3>3 DEF HandleOK
  <2>4. CASE handle[h].fd = NoEnt
    BY <1>0, <2>4 DEF HandleOK
  <2>. QED BY <2>2, <2>3, <2>4
<1>7. ASSUME NEW u \in Thread PROVE HolderOK(u)' /\ EntOK(u)'
  <2>1. CASE u # t
    BY <1>0, <2>1, HolderKept
  <2>. QED BY <1>0, <2>1, IdleAfter
<1>8. ASSUME NEW y \in Ent PROVE RefOK(y)'
  <2>1. ~Holds(t, y) /\ ~Holds(t, y)'
    BY <1>0, <1>1, IdleAfter DEF Holds
  <2>. QED BY <1>0, <2>1, RefKept
<1>. QED BY <1>0, <1>3, <1>4, <1>5, <1>6, <1>7, <1>8 DEF Inv

\* An entity whose user changes from a handle to the call that releases it.
LEMMA RefTaken ==
  ASSUME NEW y, RefOK(y), y \in fent, entity[y].open, y \in fent', entity'[y].open,
         NEW h \in Handles(y), Handles(y)' = Handles(y) \ {h},
         NEW t, t \notin Holders(y), Holders(y)' = Holders(y) \cup {t},
         entity'[y].refcnt = entity[y].refcnt
  PROVE  RefOK(y)'
<1> DEFINE H == Handles(y) T == Holders(y)
<1>1. /\ IsFiniteSet(H) /\ IsFiniteSet(T) /\ entity[y].refcnt = Cardinality(H) + Cardinality(T)
      /\ entity[y].refcnt > 0
  BY DEF RefOK
<1>2. Cardinality(H) \in Nat /\ Cardinality(T) \in Nat
  BY <1>1, FS_CardinalityType
<1>3. /\ IsFiniteSet(H \ {h}) /\ Cardinality(H \ {h}) = Cardinality(H) - 1
      /\ IsFiniteSet(T \cup {t}) /\ Cardinality(T \cup {t}) = Cardinality(T) + 1
  BY <1>1, FS_RemoveElement, FS_AddElement
<1>4. entity'[y].refcnt = Cardinality(H \ {h}) + Cardinality(T \cup {t})
  <2> DEFINE m == Cardinality(H) n == Cardinality(T) k == Cardinality(H \ {h}) i == Cardinality(T \cup {t})
  <2>1. m \in Nat /\ n \in Nat /\ k = m - 1 /\ i = n + 1 /\ entity'[y].refcnt = m + n
    BY <1>1, <1>2, <1>3
  <2> HIDE DEF m, n, k, i
  <2>2. entity'[y].refcnt = k + i
    BY <2>1
  <2>. QED BY <2>2 DEF k, i
<1>5. entity'[y].refcnt > 0
  BY <1>1
<1>. QED BY <1>1, <1>3, <1>4, <1>5 DEF RefOK

\* What a call that begins leaves as it is.
LEMMA BeginKeeps ==
  ASSUME Inv, NEW t \in Thread, Calls(t)
  PROVE  /\ TypeInv' /\ UNCHANGED <<fent, entity, manager, lock>>
         /\ call[t] = Idle /\ \A u \in Thread : u # t => call'[u] = call[u]
         /\ call'[t] \in Call /\ StageOK(call'[t]) /\ call'[t].op # "idle" /\ call'[t].path \in Path
         /\ call'[t].at = "start" /\ Head(call'[t].todo) \in {"open", "exist", "find"}
         /\ \/ OpenBegins(t, call'[t]) \/ IOBegins(t, call'[t]) \/ ReleaseBegins(t, call'[t])
            \/ TruncateBegins(t, call'[t]) \/ RenameBegins(t, call'[t])
         /\ KeysOK' /\ OneCopyPerPath'
         /\ \A u \in Thread : u # t => HolderOK(u)' /\ EntOK(u)'
         /\ \A u \in Thread : Moved(call'[u]) <=> Moved(call[u])
         /\ \A u \in Thread : Moved(call'[u]) => u # t /\ call'[u] = call[u]
         /\ \A y \in Ent : ~Holds(t, y)
<1> DEFINE d == call'[t]
<1>1. /\ TypeInv' /\ UNCHANGED <<fent, entity, manager, lock>>
      /\ call[t] = Idle /\ \A u \in Thread : u # t => call'[u] = call[u]
      /\ d.at = "start" /\ Head(d.todo) \in {"open", "exist", "find"} /\ d.todo # <<>>
      /\ \/ OpenBegins(t, d) \/ IOBegins(t, d) \/ ReleaseBegins(t, d)
         \/ TruncateBegins(t, d) \/ RenameBegins(t, d)
  <2>1. TypeInv
    BY InvIs
  <2>. QED BY <2>1, CallsTypes
<1>2. d \in Call /\ StageOK(d)
  BY <1>1 DEF TypeInv, TypeOK
<1>3. d.op # "idle" /\ d.path \in Path
  <2>1. d.op # "idle"
    BY <1>1, <1>2, IdleIs DEF StageOK
  <2>. QED BY <1>2, <2>1 DEF StageOK
<1>4. KeysOK' /\ OneCopyPerPath'
  BY <1>1, InvIs DEF KeysOK, OneCopyPerPath
<1>5. ASSUME NEW u \in Thread, u # t PROVE HolderOK(u)' /\ EntOK(u)'
  BY <1>1, <1>5, HolderKept
<1>6. ~Moved(d) /\ ~Moved(Idle)
  BY <1>1, MovedHead, IdleIs DEF Moved
<1>7. \A u \in Thread : /\ Moved(call'[u]) <=> Moved(call[u])
                        /\ Moved(call'[u]) => u # t /\ call'[u] = call[u]
  BY <1>1, <1>6
<1>8. \A y \in Ent : ~Holds(t, y)
  BY <1>1, IdleIs DEF Holds
<1>. QED BY <1>1, <1>2, <1>3, <1>4, <1>5, <1>7, <1>8

\* A call begins on a path of its own, when it is a rename or its path is free of renames.
LEMMA BeginExclusive ==
  ASSUME Inv, NEW t \in Thread, NEW d, call[t] = Idle, call'[t] = d, StageOK(d), d.op # "idle",
         \A u \in Thread : u # t => call'[u] = call[u],
         \/ d.op # "rename" /\ Free(d.path)
         \/ \A u \in Thread : {call[u].path, call[u].to} \cap {d.path, d.to} = {}
  PROVE  Exclusive'
<1> SUFFICES ASSUME NEW u \in Thread, NEW v \in Thread, v # u, call'[u].op = "rename",
                    call'[v].op # "idle"
             PROVE  {call'[v].path, call'[v].to} \cap {call'[u].path, call'[u].to} = {}
  BY DEF Exclusive
<1>1. CASE u # t /\ v # t
  BY <1>1, InvIs DEF Exclusive
<1>2. CASE u = t
  BY <1>2
<1>3. CASE v = t
  <2>1. u # t /\ call'[u] = call[u] /\ call[u].op = "rename"
    BY <1>3
  <2>2. CASE \A w \in Thread : {call[w].path, call[w].to} \cap {d.path, d.to} = {}
    BY <1>3, <2>1, <2>2
  <2>3. CASE d.op # "rename" /\ Free(d.path)
    <3>1. d.to = NoPath
      BY <2>3 DEF StageOK
    <3>2. call[u].path \in Path /\ call[u].to \in Path
      BY <2>1, RenameIs
    <3>3. d.path # call[u].path /\ d.path # call[u].to
      BY <2>1, <2>3 DEF Free, Touches
    <3>. QED BY <1>3, <2>1, <3>1, <3>2, <3>3
  <2>. QED BY <2>2, <2>3
<1>. QED BY <1>1, <1>2, <1>3

\* The invariant after the first step of s3fs_release,
LEMMA ReleaseInv ==
  ASSUME Inv, NEW t \in Thread, Calls(t), ReleaseBegins(t, call'[t])
  PROVE  Inv'
<1> DEFINE d == call'[t]
<1>1. /\ TypeInv' /\ UNCHANGED <<fent, entity, manager, lock>>
      /\ call[t] = Idle /\ \A u \in Thread : u # t => call'[u] = call[u]
      /\ StageOK(d) /\ d.op # "idle" /\ d.at = "start"
      /\ KeysOK' /\ OneCopyPerPath'
      /\ \A u \in Thread : u # t => HolderOK(u)' /\ EntOK(u)'
      /\ \A u \in Thread : Moved(call'[u]) <=> Moved(call[u])
      /\ \A u \in Thread : Moved(call'[u]) => u # t /\ call'[u] = call[u]
      /\ \A y \in Ent : ~Holds(t, y)
  BY BeginKeeps
<1>2. PICK h \in Handle :
        /\ d.op = "release" /\ Head(d.todo) = "find" /\ d.ent = handle[h].fd
        /\ handle' = [handle EXCEPT ![h] = Unused]
        /\ handle[h] # Unused /\ Free(d.path) /\ d.path = handle[h].path
        /\ \A u \in Thread : call[u].handle # h
  BY DEF ReleaseBegins
<1>3. PICK x \in Ent \cup {NoEnt} : x = d.ent /\ x = handle[h].fd
  BY <1>2, InvIs
<1>4. /\ \A g \in Handle : g # h => handle'[g] = handle[g]
      /\ handle'[h] = Unused /\ Unused.path = NoPath /\ Unused.fd = NoEnt
  <2>1. handle \in [Handle -> [path : Path \cup {NoPath}, fd : Ent \cup {NoEnt}]]
    BY InvIs DEF TypeInv, TypeOK
  <2>. QED BY <1>2, <2>1 DEF Unused
<1>5. Exclusive'
  BY <1>1, <1>2, BeginExclusive
<1>6. \A u \in Thread : call'[u].op \in {"open", "io", "rename"} => u # t /\ call'[u] = call[u]
  BY <1>1, <1>2
<1>7. TargetOK'
  <2> SUFFICES ASSUME NEW u \in Thread, NEW g \in Handle, call'[u].op = "rename"
               PROVE  handle'[g].path # call'[u].to
    BY DEF TargetOK
  <2>1. u # t /\ call'[u] = call[u] /\ call[u].op = "rename"
    BY <1>6
  <2>2. handle[g].path # call[u].to /\ call[u].to \in Path
    BY <2>1, InvIs DEF TargetOK, StageOK
  <2>. QED BY <1>4, <2>1, <2>2
<1>8. CallHandleOK'
  <2>1. ASSUME NEW u \in Thread, call'[u].op = "open"
        PROVE  /\ handle'[call'[u].handle] = Unused
               /\ \A v \in Thread : v # u /\ call'[v].op = "open" => call'[v].handle # call'[u].handle
    <3>1. u # t /\ call'[u] = call[u] /\ call[u].handle \in Handle
      BY <1>6, <2>1, InvIs DEF StageOK
    <3>. QED BY <1>2, <1>4, <1>6, <2>1, <3>1, InvIs DEF CallHandleOK
  <2>2. ASSUME NEW u \in Thread, call'[u].op = "io"
        PROVE  handle'[call'[u].handle].path = call'[u].path
    <3>1. u # t /\ call'[u] = call[u] /\ call[u].handle \in Handle
      BY <1>6, <2>2, InvIs DEF StageOK
    <3>2. handle[call[u].handle].path = call[u].path
      BY <2>2, <3>1, InvIs DEF CallHandleOK
    <3>. QED BY <1>2, <1>4, <3>1, <3>2
  <2>. QED BY <2>1, <2>2 DEF CallHandleOK
<1>9. ASSUME NEW g \in Handle PROVE HandleOK(g)'
  <2>1. CASE g = h
    BY <1>4, <2>1 DEF HandleOK
  <2>2. CASE g # h
    <3>1. HandleOK(g) /\ handle'[g] = handle[g]
      BY <1>4, <2>2, InvIs
    <3>2. \A u \in Thread : Moved(call[u]) => Moved(call'[u]) /\ call'[u] = call[u]
      BY <1>1
    <3>. QED BY <1>1, <3>1, <3>2 DEF HandleOK
  <2>. QED BY <2>1, <2>2
<1>10. HolderOK(t)'
  <2>1. x # NoEnt => entity[x].path = d.path /\ entity[x].open
    <3> SUFFICES ASSUME x # NoEnt PROVE entity[x].path = d.path /\ entity[x].open
      OBVIOUS
    <3>1. HandleOK(h) /\ entity[x].open
      BY <1>3, HandleOpen, InvIs
    <3>2. \A u \in Thread : Moved(call[u]) => call[u].path # handle[h].path
      BY <1>2 DEF Free, Touches, Moved
    <3>. QED BY <1>2, <1>3, <3>1, <3>2 DEF HandleOK
  <2>2. ~Moved(d)
    BY <1>1
  <2>. QED BY <1>1, <1>3, <2>1, <2>2 DEF HolderOK
<1>11. EntOK(t)'
  BY <1>2, BareHead DEF EntOK
<1>12. ASSUME NEW y \in Ent PROVE RefOK(y)'
  <2>1. Holds(t, y)' <=> y = x
    BY <1>1, <1>3 DEF Holds
  <2>2. CASE y # x
    <3>1. \A g \in Handle : handle'[g].fd = y <=> handle[g].fd = y
      BY <1>3, <1>4, <2>2
    <3>. QED BY <1>1, <2>1, <2>2, <3>1, RefKept
  <2>3. CASE y = x
    <3>1. RefOK(y) /\ h \in Handles(y) /\ y \in fent /\ entity[y].open
      BY <1>3, <2>3, InvIs, HandleOpen DEF Handles
    <3>2. Handles(y)' = Handles(y) \ {h}
      BY <1>4 DEF Handles
    <3>3. \A u \in Thread : u # t => (Holds(u, y)' <=> Holds(u, y))
      BY <1>1 DEF Holds
    <3>4. t \notin Holders(y) /\ Holders(y)' = Holders(y) \cup {t}
      BY <1>1, <2>1, <2>3, <3>3 DEF Holders
    <3>5. y \in fent' /\ entity'[y].open /\ entity'[y].refcnt = entity[y].refcnt
      BY <1>1, <3>1
    <3>. QED BY <3>1, <3>2, <3>4, <3>5, RefTaken
  <2>. QED BY <2>2, <2>3
<1>. QED BY <1>1, <1>5, <1>7, <1>8, <1>9, <1>10, <1>11, <1>12 DEF Inv

\* and of the other handlers.
LEMMA CallsInv ==
  ASSUME Inv, NEW t \in Thread, Calls(t)
  PROVE  Inv'
<1> DEFINE d == call'[t]
<1>1. /\ TypeInv' /\ UNCHANGED <<fent, entity, manager, lock>>
      /\ call[t] = Idle /\ \A u \in Thread : u # t => call'[u] = call[u]
      /\ StageOK(d) /\ d.op # "idle" /\ d.at = "start"
      /\ KeysOK' /\ OneCopyPerPath'
      /\ \A u \in Thread : u # t => HolderOK(u)' /\ EntOK(u)'
      /\ \A u \in Thread : Moved(call'[u]) <=> Moved(call[u])
      /\ \A u \in Thread : Moved(call'[u]) => u # t /\ call'[u] = call[u]
      /\ \A y \in Ent : ~Holds(t, y)
      /\ \/ OpenBegins(t, d) \/ IOBegins(t, d) \/ ReleaseBegins(t, d)
         \/ TruncateBegins(t, d) \/ RenameBegins(t, d)
  BY BeginKeeps
<1>2. CASE OpenBegins(t, d) \/ IOBegins(t, d) \/ TruncateBegins(t, d) \/ RenameBegins(t, d)
  <2>1. /\ d.ent = NoEnt /\ handle' = handle
        /\ d.op = "rename" => Head(d.todo) # "open"
    BY <1>2 DEF OpenBegins, IOBegins, TruncateBegins, RenameBegins
  <2>2. Exclusive'
    <3>1. \/ d.op # "rename" /\ Free(d.path)
          \/ \A u \in Thread : {call[u].path, call[u].to} \cap {d.path, d.to} = {}
      BY <1>2 DEF OpenBegins, IOBegins, TruncateBegins, RenameBegins
    <3>. QED BY <1>1, <3>1, BeginExclusive
  <2>3. TargetOK'
    <3>1. d.op = "rename" => \A h \in Handle : handle[h].path # d.to
      BY <1>2 DEF OpenBegins, IOBegins, TruncateBegins, RenameBegins
    <3>. QED BY <1>1, <2>1, <3>1, InvIs DEF TargetOK
  <2>4. CallHandleOK'
    <3>1. d.op = "open" => /\ handle[d.handle] = Unused
                           /\ \A u \in Thread : call[u].op = "open" => call[u].handle # d.handle
      BY <1>2 DEF OpenBegins, IOBegins, TruncateBegins, RenameBegins
    <3>2. d.op = "io" => handle[d.handle].path = d.path
      BY <1>2 DEF OpenBegins, IOBegins, TruncateBegins, RenameBegins
    <3>3. CallHandleOK
      BY InvIs
    <3>. QED BY <1>1, <2>1, <3>1, <3>2, <3>3 DEF CallHandleOK
  <2>5. ASSUME NEW h \in Handle PROVE HandleOK(h)'
    <3>1. HandleOK(h)
      BY InvIs
    <3>2. \A u \in Thread : Moved(call[u]) => Moved(call'[u]) /\ call'[u] = call[u]
      BY <1>1
    <3>. QED BY <1>1, <2>1, <3>1, <3>2 DEF HandleOK
  <2>6. HolderOK(t)' /\ EntOK(t)'
    BY <2>1 DEF HolderOK, EntOK
  <2>7. ASSUME NEW y \in Ent PROVE RefOK(y)'
    <3>1. ~Holds(t, y)'
      BY <2>1 DEF Holds
    <3>. QED BY <1>1, <2>1, <3>1, RefKept
  <2>. QED BY <1>1, <2>2, <2>3, <2>4, <2>5, <2>6, <2>7 DEF Inv
<1>3. CASE ReleaseBegins(t, d)
  BY <1>3, ReleaseInv
<1>. QED BY <1>1, <1>2, <1>3

\* The invariant in the initial states,
LEMMA InitInv == Init => Inv
<1> SUFFICES ASSUME Init PROVE Inv
  OBVIOUS
<1>1. TypeInv
  BY InitTypes
<1>2. /\ fent = {} /\ \A x \in Ent : entity[x] = Freed
      /\ \A h \in Handle : handle[h] = Unused
      /\ \A t \in Thread : call[t] = Idle
  <2> DEFINE empty == Unused freed == Freed idle == Idle
  <2>1. /\ fent = {} /\ entity = [x \in Ent |-> freed] /\ handle = [h \in Handle |-> empty]
        /\ call = [t \in Thread |-> idle]
    BY DEF Init
  <2> HIDE DEF empty, freed, idle
  <2>2. /\ \A x \in Ent : entity[x] = freed
        /\ \A h \in Handle : handle[h] = empty
        /\ \A t \in Thread : call[t] = idle
    BY <2>1
  <2>. QED BY <2>1, <2>2 DEF empty, freed, idle
<1>3. Unused.fd = NoEnt
  BY DEF Unused
<1>4. Exclusive /\ TargetOK /\ CallHandleOK
  BY <1>2, IdleIs DEF Exclusive, TargetOK, CallHandleOK
<1>5. KeysOK /\ OneCopyPerPath
  BY <1>2, FreedIs DEF KeysOK, OneCopyPerPath
<1>6. \A h \in Handle : HandleOK(h)
  BY <1>2, <1>3 DEF HandleOK
<1>7. \A t \in Thread : HolderOK(t) /\ EntOK(t)
  BY <1>2, IdleIs DEF HolderOK, EntOK
<1>8. ASSUME NEW x \in Ent PROVE RefOK(x)
  <2>1. Handles(x) = {}
    BY <1>2, <1>3 DEF Handles
  <2>2. Holders(x) = {}
    BY <1>2, IdleIs DEF Holders, Holds
  <2>. QED BY <1>2, <2>1, <2>2, FS_EmptySet DEF RefOK
<1>. QED BY <1>1, <1>4, <1>5, <1>6, <1>7, <1>8 DEF Inv

\* and after every step.
LEMMA NextInv ==
  ASSUME ~CacheDir, ~UnlinkMayFail, Inv, [Next]_vars
  PROVE  Inv'
<1>1. CASE UNCHANGED vars
  <2>1. TypeInv'
    BY <1>1, InvIs, NextTypes
  <2>2. /\ UNCHANGED <<fent, entity, handle>> /\ call' = call
    BY <1>1 DEF vars
  <2>3. Exclusive' /\ TargetOK' /\ CallHandleOK' /\ KeysOK' /\ OneCopyPerPath'
    BY <2>2, InvIs DEF Exclusive, TargetOK, CallHandleOK, KeysOK, OneCopyPerPath
  <2>4. \A h \in Handle : HandleOK(h)'
    BY <2>2, InvIs DEF HandleOK
  <2>5. \A t \in Thread : HolderOK(t)' /\ EntOK(t)'
    BY <2>2, InvIs DEF HolderOK, EntOK
  <2>6. ASSUME NEW x \in Ent PROVE RefOK(x)'
    <3>1. Handles(x)' = Handles(x) /\ Holders(x)' = Holders(x)
      BY <2>2 DEF Handles, Holders, Holds
    <3>2. RefOK(x)
      BY InvIs
    <3>. QED BY <2>2, <3>1, <3>2 DEF RefOK
  <2>. QED BY <2>1, <2>3, <2>4, <2>5, <2>6 DEF Inv
<1>2. ASSUME NEW t \in Thread, Runs(t) PROVE Inv'
  BY <1>2, FindInv, ReferenceInv, CreateInv, FindNoneInv, FindDescriptorInv, StartCloseInv,
     DereferenceInv, StartMoveInv, MoveInv, EnterInv, FinishInv, ReturnInv, CountReferencesInv,
     CopyInv, UnlinkInv DEF Runs
<1>3. ASSUME NEW t \in Thread, Calls(t) PROVE Inv'
  BY <1>3, CallsInv
<1>. QED BY <1>1, <1>2, <1>3 DEF Next

-----------------------------------------------------------------------------
(***************************************************************************)
(* The theorems.  With a cache directory the key of an entity matters, and *)
(* when a DELETE fails half way through a rename the handles keep the old  *)
(* path while their entity has the new one: these are for TLC.             *)
(***************************************************************************)
\* Without a cache directory and as long as no rename fails half way, the reference count of
\* every open entity is the number of handles and calls that use it (fdcache.cpp: FdManager::Open,
\* ExistOpen and Close, FdEntity::Dup and Close): no thread or handle has its entity deleted
\* under it and no entity is kept for ever, for any number of threads, handles and paths.
THEOREM ReferencesCorrect ==
  ASSUME ~CacheDir, ~UnlinkMayFail
  PROVE  Spec => []ReferencesAddUp
<1>1. Inv => ReferencesAddUp
  <2> SUFFICES ASSUME Inv, NEW x \in Ent
               PROVE  IF x \in fent /\ entity[x].open THEN entity[x].refcnt = References(x)
                      ELSE /\ \A h \in Handle : handle[h].fd # x
                           /\ \A t \in Thread : Holds(t, x) => x \in fent
    BY DEF ReferencesAddUp
  <2>1. RefOK(x)
    BY InvIs
  <2>2. References(x) = Cardinality(Handles(x)) + Cardinality(Holders(x))
    BY DEF References, Handles, Holders
  <2>3. CASE x \in fent /\ entity[x].open
    BY <2>1, <2>2, <2>3 DEF RefOK
  <2>4. CASE ~(x \in fent /\ entity[x].open)
    <3>1. Handles(x) = {} /\ (Holders(x) # {} => x \in fent)
      BY <2>1, <2>4 DEF RefOK
    <3>. QED BY <2>4, <3>1 DEF Handles, Holders
  <2>. QED BY <2>3, <2>4
<1>2. Inv /\ [Next]_vars => Inv'
  BY NextInv
<1>. QED BY <1>1, <1>2, InitInv, PTL DEF Spec

\* Under the same conditions two open entities never have the same path (fdcache.cpp:
\* FdManager::Open and Rename): all who have a file open share one local copy of it.
THEOREM OneCopyCorrect ==
  ASSUME ~CacheDir, ~UnlinkMayFail
  PROVE  Spec => []OneCopyPerPath
<1>1. Inv => OneCopyPerPath
  BY InvIs
<1>2. Inv /\ [Next]_vars => Inv'
  BY NextInv
<1>. QED BY <1>1, <1>2, InitInv, PTL DEF Spec

\* Under the same conditions a read, write or flush works on the entity its handle was opened
\* with, whatever renames of the file run in between (s3fs.cpp: s3fs_read, s3fs_write and
\* s3fs_flush look it up by path).
THEOREM HandleCopyCorrect ==
  ASSUME ~CacheDir, ~UnlinkMayFail
  PROVE  Spec => []HandleUsesItsCopy
<1>1. Inv => HandleUsesItsCopy
  <2> SUFFICES ASSUME Inv, NEW t \in Thread, call[t].op = "io", call[t].ent # NoEnt,
                      handle[call[t].handle].fd # NoEnt
               PROVE  call[t].ent = handle[call[t].handle].fd
    BY DEF HandleUsesItsCopy
  <2> DEFINE c == call[t] k == c.handle own == handle[k].fd
  <2>1. k \in Handle /\ handle[k].path = c.path
    BY InvIs DEF CallHandleOK, StageOK
  <2>2. entity[own].path = c.path
    <3>1. \A u \in Thread : Moved(call[u]) => call[u].path # c.path
      <4> SUFFICES ASSUME NEW u \in Thread, Moved(call[u]), call[u].path = c.path PROVE FALSE
        OBVIOUS
      <4>1. call[u].op = "rename" /\ u # t
        BY DEF Moved
      <4>. QED BY <4>1, RenameIs
    <3>2. HandleOK(k)
      BY <2>1, InvIs
    <3>. QED BY <2>1, <3>1, <3>2 DEF HandleOK
  <2>3. own \in fent /\ entity[own].open
    BY <2>1, HandleOpen
  <2>4. entity[c.ent].path = c.path /\ entity[c.ent].open /\ c.ent \in fent
    <3>1. HolderOK(t) /\ ~Moved(c) /\ c.ent \in Ent
      BY InvIs DEF Moved
    <3>2. entity[c.ent].path = c.path /\ entity[c.ent].open
      BY <3>1 DEF HolderOK
    <3>3. c.ent \in fent
      <4>1. CASE Holds(t, c.ent)
        BY <3>1, <4>1, HolderIn
      <4>2. CASE ~Holds(t, c.ent)
        BY <3>1, <4>2 DEF Holds, HolderOK
      <4>. QED BY <4>1, <4>2
    <3>. QED BY <3>2, <3>3
  <2>. QED BY <2>2, <2>3, <2>4, InvIs DEF OneCopyPerPath
<1>2. Inv /\ [Next]_vars => Inv'
  BY NextInv
<1>. QED BY <1>1, <1>2, InitInv, PTL DEF Spec

=============================================================================
