--------------------------- MODULE Metadata_proofs ---------------------------
(***************************************************************************)
(* Theorems about Metadata, for any values, names, settings and number of  *)
(* changes: the types, that what a change which returned 0 has set is in   *)
(* the object or waits for an upload, and that the headers of an open file *)
(* are those the changes have set.                                         *)
(***************************************************************************)
EXTENDS Metadata, TLAPS, FiniteSetTheorems

-----------------------------------------------------------------------------
(***************************************************************************)
(* The inductive invariant.                                                *)
(***************************************************************************)
\* At most one member of S.  (IsOptional says so with a cardinality, which
\* means nothing for a set that may be infinite.)
Opt(o, S) == o = {} \/ \E x \in o : o = {x} /\ x \in S

\* Headers whose extended attributes are one set of names, or none.
Proper == {h \in Headers : Opt(h.xattr, SUBSET Name)}

\* An open file with such headers.
Entities == {e \in Entity : e.orgmeta \in Proper /\ Opt(e.upload, Proper)}

\* Where a call that changes attributes may be.
Stages == {"find", "merge", "put", "fetch", "set", "force", "clear", "close"}
\* Such a call.
Record == [at : Stages, op : Op, meta : Proper, held : BOOLEAN]

\* What callers asked for.
Wishes == [mode : Value, mtime : Value, uid : Value, gid : Value, xattr : SUBSET Name]

\* The types; an open file has a user.
TypeInv ==
  /\ nocopy \in BOOLEAN /\ object \in Proper /\ Opt(cached, Proper)
  /\ Opt(ent, Entities) /\ Opt(opening, Proper) /\ left \in 0 .. MaxChanges
  /\ change = Idle \/ change \in Record
  /\ Held => IsOpen
  /\ \A e \in ent : Held \/ Handles(e) > 0
  /\ wanted \in Wishes /\ lost \subseteq Attr /\ due \subseteq Attr /\ failed \in BOOLEAN

\* Where each kind of call may be, and with which reference.
StageOK ==
  /\ change.at \in {"find", "merge", "put"} => ~(nocopy /\ change.op.kind = "plain")
  /\ change.at \in {"fetch", "set", "force"} => nocopy /\ change.op.kind = "plain"
  /\ change.at \in {"merge", "set", "force"} => change.held

\* The header a of h is what w asks for.
With(w, h, a) == IF a = "xattr" THEN Names(h.xattr) = w.xattr ELSE h[a] = w[a]

\* What is wanted after op if it was w before.
WantedOf(w, op) ==
  IF op.kind = "plain"
    THEN [a \in Attr |-> IF a \in DOMAIN op.to /\ op.to[a] # Keep THEN op.to[a] ELSE w[a]]
  ELSE [w EXCEPT !.xattr = IF op.kind = "set" THEN w.xattr \cup {op.name}
                           ELSE w.xattr \ {op.name}]

\* Attributes that are not lost and not between their change in one place and
\* in the other.
Firm == Attr \ (lost \cup (IF change.at \in {"put", "force"} THEN Touched(change.op) ELSE {}))

\* Everything that keeps headers keeps those that are firm; the object, a call
\* of s3fs_open, and an upload under way without those that are due.
Agreements(w, firm, d, obj, open, asked) ==
  /\ \A a \in firm \ d : With(w, obj, a)
  /\ \A e \in open : \A a \in firm : With(w, e.orgmeta, a)
  /\ \A h \in asked : \A a \in firm \ d : With(w, h, a)
  /\ \A e \in open : \A h \in e.upload : \A a \in firm :
       (e.pending => a \notin d) => With(w, h, a)

\* What is due waits for an upload that will be.
DueOK ==
  due # {} => IsOpen /\ \A e \in ent : e.is_modify \/ change.at \in {"set", "force"}

\* What is about to be put is what will be wanted, and so are the headers of
\* the file the call holds.
PutOK ==
  change.at = "put" =>
    /\ due = {} /\ \A e \in ent : e.upload = {}
    /\ \A a \in Replaced(change.op) \cup (Attr \ lost) :
         /\ With(WantedOf(wanted, change.op), change.meta, a)
         /\ change.held => \A e \in ent : With(WantedOf(wanted, change.op), e.orgmeta, a)

\* What SetAttr has set is what will be wanted.
ForceOK ==
  change.at = "force" =>
    \A e \in ent : \A a \in Replaced(change.op) :
      With(WantedOf(wanted, change.op), e.orgmeta, a)

\* The inductive invariant.
Inv ==
  /\ TypeInv /\ StageOK /\ DueOK /\ PutOK /\ ForceOK
  /\ Agreements(wanted, Firm, due, object, ent, opening)

-----------------------------------------------------------------------------
(***************************************************************************)
(* Operators of the model.                                                 *)
(***************************************************************************)
\* The member of a set of one.
LEMMA TheIs == ASSUME NEW x PROVE The({x}) = x
BY DEF The

\* What is optional is nothing, or its member.
LEMMA OptIs ==
  ASSUME NEW o, NEW S, Opt(o, S), o # {}
  PROVE  The(o) \in S /\ o = {The(o)}
BY DEF Opt, The

\* A set of one member of S is optional, and so is none.
LEMMA OptOne == ASSUME NEW S, NEW x \in S PROVE Opt({x}, S) /\ Opt({}, S)
BY DEF Opt

\* The types in the words of the module.
LEMMA OptIsOptional == ASSUME NEW o, NEW S, Opt(o, S) PROVE IsOptional(o, S)
<1>1. CASE o = {}
  BY <1>1, FS_EmptySet DEF IsOptional
<1>2. CASE \E x \in o : o = {x} /\ x \in S
  BY <1>2, FS_Singleton DEF IsOptional
<1>. QED BY <1>1, <1>2 DEF Opt

\* What a call is made of, and the attributes it touches.
LEMMA OpIs ==
  ASSUME NEW op \in Op
  PROVE  /\ Touched(op) \subseteq Attr /\ Replaced(op) \subseteq Touched(op)
         /\ op.kind \in {"set", "remove", "plain"}
         /\ op.kind = "plain" => /\ Touched(op) = DOMAIN op.to /\ "xattr" \notin DOMAIN op.to
                                 /\ \A a \in DOMAIN op.to : op.to[a] \in Id
                                 /\ \A a \in DOMAIN op.to \ {"uid", "gid"} : op.to[a] \in Value
         /\ op.kind # "plain" => /\ Touched(op) = {"xattr"} /\ Replaced(op) = {}
                                 /\ op.name \in Name
<1>1. CASE op.kind = "plain"
  <2>1. op.to \in Plain
    BY <1>1 DEF Op
  <2>2. op.to \in [{"mode"} -> Value] \/ op.to \in [{"mtime"} -> Value]
        \/ op.to \in [{"uid", "gid"} -> Id]
    BY <2>1 DEF Plain
  <2>. QED BY <1>1, <2>2 DEF Touched, Replaced, Attr, Id
<1>2. CASE op.kind # "plain"
  BY <1>2 DEF Op, Touched, Replaced, Attr
<1>. QED BY <1>1, <1>2

\* The parts of headers.
LEMMA ProperIs ==
  ASSUME NEW h \in Proper
  PROVE  /\ h \in Headers /\ Opt(h.xattr, SUBSET Name) /\ Names(h.xattr) \in SUBSET Name
         /\ h.xattr \subseteq SUBSET Name
         /\ h.mode \in Value /\ h.mtime \in Value /\ h.uid \in Id /\ h.gid \in Id
BY DEF Proper, Headers, Names, Opt

\* What put_headers or an upload sends is headers, with the same attributes.
LEMMA SentIs ==
  ASSUME NEW h \in Proper
  PROVE  /\ Sent(h) \in Proper
         /\ \A w, a : a \in Attr => (With(w, Sent(h), a) <=> With(w, h, a))
<1>1. h \in Headers /\ Opt(h.xattr, SUBSET Name)
  BY DEF Proper
<1>2. CASE h.xattr = {{}}
  <2>1. Sent(h) = [h EXCEPT !.xattr = {}]
    BY <1>2 DEF Sent
  <2>2. Names({}) = Names({{}})
    BY DEF Names
  <2>. QED BY <1>1, <1>2, <2>1, <2>2 DEF Proper, Headers, Opt, With, Attr
<1>3. CASE h.xattr # {{}}
  <2>1. Sent(h) = [h EXCEPT !.xattr = h.xattr]
    BY <1>3 DEF Sent
  <2>2. Sent(h) = h
    BY <1>1, <2>1 DEF Headers
  <2>. QED BY <2>2
<1>. QED BY <1>2, <1>3

\* What the caller of op expects, as a function of what was expected before.
LEMMA WantedIs == ASSUME NEW op \in Op PROVE Wanted(op) = WantedOf(wanted, op)
BY DEF Wanted, WantedOf

\* It has the type of wanted, and differs from it only in what op touches.
LEMMA WantedOfIs ==
  ASSUME NEW w \in Wishes, NEW op \in Op
  PROVE  /\ WantedOf(w, op) \in Wishes
         /\ \A h, a : a \in Attr \ Touched(op) => (With(WantedOf(w, op), h, a) <=> With(w, h, a))
         /\ \A h, a : a \in (Attr \ Replaced(op)) /\ op.kind = "plain" =>
              (With(WantedOf(w, op), h, a) <=> With(w, h, a))
<1>1. CASE op.kind = "plain"
  <2>. DEFINE v == [a \in Attr |-> IF a \in DOMAIN op.to /\ op.to[a] # Keep THEN op.to[a] ELSE w[a]]
  <2>1. WantedOf(w, op) = v
    BY <1>1 DEF WantedOf
  <2>2. "xattr" \notin DOMAIN op.to /\ (\A a \in DOMAIN op.to : op.to[a] \in Id)
        /\ \A a \in DOMAIN op.to \ {"uid", "gid"} : op.to[a] \in Value
    BY <1>1, OpIs
  <2>3. v = [mode |-> v.mode, mtime |-> v.mtime, uid |-> v.uid, gid |-> v.gid, xattr |-> v.xattr]
    BY DEF Attr
  <2>4. v.xattr = w.xattr /\ v.mode \in Value /\ v.mtime \in Value /\ v.uid \in Value
        /\ v.gid \in Value
    BY <2>2 DEF Attr, Wishes, Id
  <2>5. v \in Wishes
    BY <2>3, <2>4 DEF Wishes
  <2>6. \A a \in Attr \ Replaced(op) : v[a] = w[a]
    BY <1>1 DEF Replaced
  <2>7. \A h, a : a \in Attr \ Replaced(op) => (With(v, h, a) <=> With(w, h, a))
    BY <2>4, <2>6 DEF With
  <2>8. Replaced(op) \subseteq Touched(op)
    BY OpIs
  <2>. QED BY <2>1, <2>5, <2>7, <2>8
<1>2. CASE op.kind # "plain"
  <2>1. Touched(op) = {"xattr"} /\ op.name \in Name
    BY <1>2, OpIs
  <2>. QED BY <1>2, <2>1 DEF WantedOf, Wishes, With, Attr
<1>. QED BY <1>1, <1>2

\* Names of a set of one set of names.
LEMMA NamesOfOne == ASSUME NEW x PROVE Names({x}) = x /\ Names({}) = {}
BY DEF Names

\* removexattr leaves the other names.
LEMMA WithoutIs ==
  ASSUME NEW x \in SUBSET SUBSET Name, NEW name \in Name
  PROVE  /\ Opt(Without(x, name), SUBSET Name)
         /\ Names(Without(x, name)) = Names(x) \ {name}
<1>1. Names(x) \ {name} \in SUBSET Name
  BY DEF Names
<1>2. CASE Names(x) \ {name} = {}
  BY <1>2, NamesOfOne, OptOne DEF Without
<1>3. CASE Names(x) \ {name} # {}
  BY <1>1, <1>3, NamesOfOne, OptOne DEF Without
<1>. QED BY <1>2, <1>3

\* The headers after a change are headers, and the others are as before.
LEMMA ChangedIs ==
  ASSUME NEW op \in Op, NEW base \in Proper, NEW h \in Proper
  PROVE  /\ Changed(op, base, h) \in Proper
         /\ \A w, a : a \in Attr \ Touched(op) =>
              (With(w, Changed(op, base, h), a) <=> With(w, h, a))
<1>1. CASE op.kind = "plain"
  <2>. DEFINE c == [a \in Attr |-> IF a \notin DOMAIN op.to THEN h[a]
                                   ELSE IF op.to[a] = Keep /\ ~nocopy THEN base[a] ELSE op.to[a]]
  <2>1. Changed(op, base, h) = c
    BY <1>1 DEF Changed
  <2>2. "xattr" \notin DOMAIN op.to /\ (\A a \in DOMAIN op.to : op.to[a] \in Id)
        /\ \A a \in DOMAIN op.to \ {"uid", "gid"} : op.to[a] \in Value
    BY <1>1, OpIs
  <2>3. c = [mode |-> c.mode, mtime |-> c.mtime, uid |-> c.uid, gid |-> c.gid, xattr |-> c.xattr]
    BY DEF Attr
  <2>4. c.xattr = h.xattr /\ c.mode \in Value /\ c.mtime \in Value /\ c.uid \in Id /\ c.gid \in Id
    BY <2>2, ProperIs DEF Attr
  <2>5. c \in Proper
    BY <2>3, <2>4, ProperIs DEF Proper, Headers
  <2>6. \A a \in Attr \ Touched(op) : c[a] = h[a]
    BY <1>1 DEF Touched
  <2>. QED BY <2>1, <2>4, <2>5, <2>6 DEF With
<1>2. CASE op.kind # "plain"
  <2>1. Touched(op) = {"xattr"} /\ op.name \in Name
    BY <1>2, OpIs
  <2>2. PICK x : x = IF op.kind = "set" THEN {Names(h.xattr) \cup {op.name}}
                     ELSE Without(base.xattr, op.name)
    OBVIOUS
  <2>3. Changed(op, base, h) = [h EXCEPT !.xattr = x]
    BY <1>2, <2>2 DEF Changed
  <2>4. Opt(x, SUBSET Name)
    BY <2>1, <2>2, ProperIs, WithoutIs, OptOne
  <2>5. x \in SUBSET SUBSET Name
    BY <2>4 DEF Opt
  <2>. QED BY <2>1, <2>3, <2>4, <2>5 DEF Proper, Headers, With, Attr
<1>. QED BY <1>1, <1>2

\* A change makes its attributes what is wanted, unless it takes them from an
\* old copy (FromOld).
LEMMA ChangedAgrees ==
  ASSUME NEW op \in Op, NEW base \in Proper, NEW h \in Proper, NEW w \in Wishes, NEW a \in Attr,
         a \in Replaced(op)
         \/ (With(w, h, a) /\ a \notin FromOld(op, base, h) /\ ~(nocopy /\ op.kind = "plain"))
  PROVE  With(WantedOf(w, op), Changed(op, base, h), a)
<1>1. CASE op.kind = "plain"
  <2>. DEFINE c == [b \in Attr |-> IF b \notin DOMAIN op.to THEN h[b]
                                   ELSE IF op.to[b] = Keep /\ ~nocopy THEN base[b] ELSE op.to[b]]
              v == [b \in Attr |-> IF b \in DOMAIN op.to /\ op.to[b] # Keep THEN op.to[b] ELSE w[b]]
  <2>1. Changed(op, base, h) = c /\ WantedOf(w, op) = v
    BY <1>1 DEF Changed, WantedOf
  <2>2. "xattr" \notin DOMAIN op.to
    BY <1>1, OpIs
  <2>3. CASE a = "xattr"
    <3>1. c.xattr = h.xattr /\ v.xattr = w.xattr /\ a \notin Replaced(op)
      BY <1>1, <2>2, <2>3 DEF Attr, Replaced
    <3>. QED BY <2>1, <2>3, <3>1 DEF With
  <2>4. CASE a # "xattr"
    <3>1. CASE a \in Replaced(op)
      <4>1. c[a] = op.to[a] /\ v[a] = op.to[a]
        BY <1>1, <3>1 DEF Replaced
      <4>. QED BY <2>1, <2>4, <4>1 DEF With
    <3>2. CASE a \notin Replaced(op)
      <4>1. v[a] = w[a] /\ h[a] = w[a] /\ ~nocopy
        BY <1>1, <2>4, <3>2 DEF Replaced, With
      <4>2. c[a] = h[a]
        BY <1>1, <3>2, <4>1 DEF Replaced, FromOld, Touched
      <4>. QED BY <2>1, <2>4, <4>1, <4>2 DEF With
    <3>. QED BY <3>1, <3>2
  <2>. QED BY <2>3, <2>4
<1>2. CASE op.kind = "set"
  <2>1. Changed(op, base, h) = [h EXCEPT !.xattr = {Names(h.xattr) \cup {op.name}}]
        /\ WantedOf(w, op) = [w EXCEPT !.xattr = w.xattr \cup {op.name}]
        /\ Replaced(op) = {}
    BY <1>2 DEF Changed, WantedOf, Replaced
  <2>. QED BY <2>1, NamesOfOne DEF Proper, Headers, Wishes, With, Attr
<1>3. CASE op.kind = "remove"
  <2>1. Changed(op, base, h) = [h EXCEPT !.xattr = Without(base.xattr, op.name)]
        /\ WantedOf(w, op) = [w EXCEPT !.xattr = w.xattr \ {op.name}]
        /\ Replaced(op) = {} /\ Touched(op) = {"xattr"} /\ op.name \in Name
    BY <1>3, OpIs DEF Changed, WantedOf
  <2>2. a = "xattr" => base.xattr = h.xattr
    BY <1>3, <2>1 DEF FromOld
  <2>3. Names(Without(base.xattr, op.name)) = Names(base.xattr) \ {op.name}
    BY <2>1, ProperIs, WithoutIs
  <2>. QED BY <2>1, <2>2, <2>3 DEF Proper, Headers, Wishes, With, Attr
<1>. QED BY <1>1, <1>2, <1>3, OpIs

\* An open file, as one entity.
LEMMA OpenIs ==
  ASSUME Opt(ent, Entities), IsOpen
  PROVE  \E e \in Entities : ent = {e} /\ The(ent) = e
BY OptIs DEF IsOpen

\* The fields of an entity.
LEMMA EntityIs ==
  ASSUME NEW e \in Entities
  PROVE  /\ e \in Entity /\ e.orgmeta \in Proper /\ Opt(e.upload, Proper)
         /\ e.ro \in 0 .. 1 /\ e.rw \in 0 .. 1 /\ e.is_modify \in BOOLEAN
         /\ e.pending \in BOOLEAN /\ e.flushed \in BOOLEAN
         /\ Handles(e) \in Nat
BY DEF Entities, Entity, Handles

\* The fields of an open file.
EntityFields == [ro : 0 .. 1, rw : 0 .. 1, orgmeta : Proper, is_modify : BOOLEAN,
                 upload : SUBSET Proper, pending : BOOLEAN, flushed : BOOLEAN]

\* A record with these fields is one.
LEMMA EntityOf ==
  ASSUME NEW x \in EntityFields,
         Opt(x.upload, Proper)
  PROVE  x \in Entities
<1>1. Proper \subseteq Headers
  BY DEF Proper
<1>2. x \in Entity
  BY <1>1 DEF Entity, EntityFields
<1>. QED BY <1>2 DEF Entities, EntityFields

\* And the other way.
LEMMA EntityAs ==
  ASSUME NEW x \in Entities
  PROVE  x \in EntityFields
<1>1. x.upload \in SUBSET Proper
  BY EntityIs DEF Opt
<1>2. x = [ro |-> x.ro, rw |-> x.rw, orgmeta |-> x.orgmeta, is_modify |-> x.is_modify,
           upload |-> x.upload, pending |-> x.pending, flushed |-> x.flushed]
  BY DEF Entities, Entity
<1>. HIDE <1>2
<1>. QED BY <1>1, <1>2, EntityIs DEF EntityFields

\* What RowFlush may make of an entity, and of the object.
Flushed(e, force, r) ==
  /\ r.ent \in Entities /\ r.object \in Proper /\ r.ok \in BOOLEAN
  /\ r.ent.ro = e.ro /\ r.ent.rw = e.rw /\ r.ent.orgmeta = e.orgmeta
  /\ r.ent.upload = e.upload \/ r.ent.upload = {}
  /\ r.ent.upload # {} => r.ent.pending = e.pending
  /\ \/ r.object = object \/ r.object = Sent(e.orgmeta)
     \/ e.upload # {} /\ r.object = The(e.upload)
  /\ ~r.ok => r.ent.is_modify = e.is_modify
  /\ r.ok /\ ~force /\ ~e.is_modify => r.ent = e /\ r.object = object
  /\ r.ok /\ (force \/ e.is_modify) =>
       /\ r.ent.upload = {}
       /\ \/ r.object = Sent(e.orgmeta)
          \/ e.upload # {} /\ ~e.pending /\ r.object = The(e.upload)

\* It makes nothing else of them.
LEMMA RowFlushIs ==
  ASSUME NEW e \in Entities, NEW force \in BOOLEAN, object \in Proper,
         NEW r \in RowFlush(e, force)
  PROVE  Flushed(e, force, r)
<1>. USE DEF Result, EntityFields
<1>1. e \in Entity /\ e.orgmeta \in Proper /\ Opt(e.upload, Proper) /\ Sent(e.orgmeta) \in Proper
      /\ e \in EntityFields
  BY EntityIs, EntityAs, SentIs
<1>2. CASE ~force /\ ~e.is_modify
  <2>1. r = Result(e, object, TRUE)
    BY <1>2 DEF RowFlush
  <2>. QED BY <1>1, <1>2, <2>1 DEF Flushed
<1>3. CASE (force \/ e.is_modify) /\ e.upload = {}
  <2>1. r \in PutWhole(e)
    BY <1>3 DEF RowFlush
  <2>2. CASE r = Result([e EXCEPT !.is_modify = FALSE], Sent(e.orgmeta), TRUE)
    <3>1. [e EXCEPT !.is_modify = FALSE] \in Entities
      BY <1>1, EntityOf
    <3>. QED BY <1>1, <1>3, <2>2, <3>1 DEF Flushed
  <2>3. CASE r = Result(e, Sent(e.orgmeta), FALSE)
    <3>1. r.ent = e /\ r.object = Sent(e.orgmeta) /\ r.ok = FALSE
      BY <2>3
    <3>. QED BY <1>1, <1>3, <3>1 DEF Flushed
  <2>4. CASE r = Result(e, object, FALSE)
    <3>1. r.ent = e /\ r.object = object /\ r.ok = FALSE
      BY <2>4
    <3>. QED BY <1>1, <1>3, <3>1 DEF Flushed
  <2>. QED BY <2>1, <2>2, <2>3, <2>4 DEF PutWhole
<1>4. CASE (force \/ e.is_modify) /\ e.upload # {}
  <2>. DEFINE tried == [e EXCEPT !.flushed = TRUE]
              ended == [tried EXCEPT !.upload = {}, !.pending = FALSE]
              clean == [ended EXCEPT !.is_modify = FALSE]
              made  == The(e.upload)
  <2>1. r \in FinishUpload(e)
    BY <1>4 DEF RowFlush
  <2>2. made \in Proper
    BY <1>1, <1>4, OptIs
  <2>3. Opt({}, Proper)
    BY DEF Opt
  <2>4. tried \in Entities /\ ended \in Entities /\ clean \in Entities
    BY <1>1, <2>3, EntityOf
  <2>5. /\ tried.ro = e.ro /\ tried.rw = e.rw /\ tried.orgmeta = e.orgmeta
        /\ tried.upload = e.upload /\ tried.pending = e.pending /\ tried.is_modify = e.is_modify
        /\ ended.ro = e.ro /\ ended.rw = e.rw /\ ended.orgmeta = e.orgmeta
        /\ ended.upload = {} /\ ended.is_modify = e.is_modify
        /\ clean.ro = e.ro /\ clean.rw = e.rw /\ clean.orgmeta = e.orgmeta /\ clean.upload = {}
    BY <1>1
  <2>6. \/ r = Result(e, object, FALSE)
        \/ r = Result(tried, object, FALSE) \/ r = Result(tried, made, FALSE)
        \/ ~e.pending /\ r = Result(clean, made, TRUE)
        \/ r = Result(clean, Sent(e.orgmeta), TRUE)
        \/ r = Result(ended, Sent(e.orgmeta), FALSE) \/ r = Result(ended, made, FALSE)
    BY <2>1 DEF FinishUpload
  <2>. HIDE DEF tried, ended, clean, made
  <2>7. made = The(e.upload)
    BY DEF made
  <2>8. \/ r.ent = e /\ r.object = object /\ r.ok = FALSE
        \/ r.ent = tried /\ r.object \in {object, made} /\ r.ok = FALSE
        \/ ~e.pending /\ r.ent = clean /\ r.object = made /\ r.ok = TRUE
        \/ r.ent = clean /\ r.object = Sent(e.orgmeta) /\ r.ok = TRUE
        \/ r.ent = ended /\ r.object \in {Sent(e.orgmeta), made} /\ r.ok = FALSE
    BY <2>6
  <2>9. CASE r.ent = e /\ r.object = object /\ r.ok = FALSE
    BY <1>1, <1>4, <2>9 DEF Flushed
  <2>10. CASE r.ent = tried /\ r.object \in {object, made} /\ r.ok = FALSE
    BY <1>1, <1>4, <2>2, <2>4, <2>5, <2>7, <2>10 DEF Flushed
  <2>11. CASE ~e.pending /\ r.ent = clean /\ r.object = made /\ r.ok = TRUE
    BY <1>1, <1>4, <2>2, <2>4, <2>5, <2>7, <2>11 DEF Flushed
  <2>12. CASE r.ent = clean /\ r.object = Sent(e.orgmeta) /\ r.ok = TRUE
    BY <1>1, <1>4, <2>2, <2>4, <2>5, <2>7, <2>12 DEF Flushed
  <2>13. CASE r.ent = ended /\ r.object \in {Sent(e.orgmeta), made} /\ r.ok = FALSE
    BY <1>1, <1>4, <2>2, <2>4, <2>5, <2>7, <2>13 DEF Flushed
  <2>. QED BY <2>8, <2>9, <2>10, <2>11, <2>12, <2>13
<1>. QED BY <1>2, <1>3, <1>4 DEF RowFlush

\* The fields of a call after Goto.
LEMMA GotoIs ==
  ASSUME NEW at, NEW held, NEW meta, change \in Record, Goto(at, held, meta)
  PROVE  /\ change' = [at |-> at, op |-> change.op, meta |-> meta, held |-> held]
         /\ change'.at = at /\ change'.op = change.op /\ change'.meta = meta
         /\ change'.held = held
         /\ at \in Stages /\ held \in BOOLEAN /\ meta \in Proper => change' \in Record
<1>1. change = [at |-> change.at, op |-> change.op, meta |-> change.meta, held |-> change.held]
  BY DEF Record
<1>2. change' = [change EXCEPT !.at = at, !.held = held, !.meta = meta]
  BY DEF Goto
<1>. HIDE <1>2
<1>3. change' = [at |-> at, op |-> change.op, meta |-> meta, held |-> held]
  BY <1>1, <1>2
<1>4. change.op \in Op
  BY DEF Record
<1>. QED BY <1>3, <1>4 DEF Record

\* A call is under way unless it is idle.
LEMMA ChangingIs ==
  ASSUME change = Idle \/ change \in Record
  PROVE  /\ Changing <=> change \in Record
         /\ Changing => change.at # "idle"
         /\ ~Changing => change = Idle /\ change.at = "idle"
         /\ change.at # "idle" => change \in Record
BY DEF Changing, Idle, Record, Stages

-----------------------------------------------------------------------------
(***************************************************************************)
(* The inductive invariant holds at the beginning.                         *)
(***************************************************************************)
\* The object is as wanted, and nobody has it open.
LEMMA InitInv == Init => Inv
<1>. SUFFICES ASSUME Init PROVE Inv
  OBVIOUS
<1>1. PICK v \in Value \ ReadOnly, n \in Name :
        /\ object = [mode |-> v, mtime |-> v, uid |-> v, gid |-> v, xattr |-> {{n}}]
        /\ wanted = [mode |-> v, mtime |-> v, uid |-> v, gid |-> v, xattr |-> {n}]
  BY DEF Init
<1>2. nocopy \in BOOLEAN /\ left \in 0 .. MaxChanges
  BY SettingsAssumption DEF Init
<1>3. change = Idle /\ change.at = "idle"
  BY DEF Init, Idle
<1>4. object \in Proper /\ wanted \in Wishes
  BY <1>1 DEF Proper, Headers, Wishes, Opt, Id
<1>5. TypeInv
  BY <1>2, <1>3, <1>4, OptOne DEF Init, TypeInv, Opt, Held, Changing
<1>6. \A a \in Attr : With(wanted, object, a)
  <2>1. Names(object.xattr) = wanted.xattr
    BY <1>1, NamesOfOne
  <2>2. \A a \in {"mode", "mtime", "uid", "gid"} : object[a] = wanted[a]
    BY <1>1
  <2>. QED BY <2>1, <2>2 DEF With, Attr
<1>7. Agreements(wanted, Firm, due, object, ent, opening)
  BY <1>6 DEF Init, Agreements, Firm
<1>8. StageOK /\ DueOK /\ PutOK /\ ForceOK
  BY <1>3 DEF Init, StageOK, DueOK, PutOK, ForceOK
<1>. QED BY <1>5, <1>7, <1>8 DEF Inv

-----------------------------------------------------------------------------
(***************************************************************************)
(* Every step keeps it.                                                    *)
(***************************************************************************)
\* What agrees in much agrees in less.
LEMMA AgreeLess ==
  ASSUME NEW w, NEW firm, NEW d, NEW obj, NEW open, NEW asked,
         Agreements(w, firm, d, obj, open, asked),
         NEW firm2, NEW d2, firm2 \subseteq firm, firm2 \ d2 \subseteq firm \ d
  PROVE  Agreements(w, firm2, d2, obj, open, asked)
BY DEF Agreements

\* A call that goes nowhere stays at its stage.
LEMMA StageStays ==
  ASSUME StageOK, UNCHANGED nocopy, change' = change
  PROVE  StageOK'
BY DEF StageOK

\* What an open file is known to be.
LEMMA InvOpen ==
  ASSUME Inv, IsOpen
  PROVE  \E e \in Entities : ent = {e} /\ The(ent) = e
BY OpenIs DEF Inv, TypeInv

\* What the stat cache has, or HEAD brings.
LEMMA KnownIs == ASSUME Inv PROVE Known \in Proper /\ Opt({Known}, Proper)
<1>1. Known \in Proper
  BY OptIs DEF Known, Inv, TypeInv
<1>. QED BY <1>1, OptOne

\* Lookups change only the stat cache.
LEMMA CacheStep ==
  ASSUME Inv, Opt(cached', Proper),
         UNCHANGED <<nocopy, object, ent, opening, change, left, history>>
  PROVE  Inv'
<1>. USE DEF history
<1>1. TypeInv'
  BY DEF Inv, TypeInv, Held, IsOpen, Changing, Handles
<1>2. StageOK' /\ DueOK' /\ PutOK' /\ ForceOK' /\ Firm' = Firm
  BY DEF Inv, StageOK, DueOK, PutOK, ForceOK, Firm, IsOpen
<1>. QED BY <1>1, <1>2 DEF Inv

\* A lookup.
LEMMA LookupStep == ASSUME Inv, Lookup PROVE Inv'
<1>1. Opt(cached', Proper)
  BY OptOne DEF Lookup, Inv, TypeInv
<1>. QED BY <1>1, CacheStep DEF Lookup

\* The end of an entry.
LEMMA EvictStep == ASSUME Inv, Evict PROVE Inv'
<1>1. Opt(cached', Proper)
  BY DEF Evict, Opt
<1>. QED BY <1>1, CacheStep DEF Evict

\* s3fs_open reads headers of the object, which are firm.
LEMMA OpenAskStep == ASSUME Inv, OpenAsk PROVE Inv'
<1>. USE DEF history
<1>1. object \in Proper /\ opening' = {object} /\ cached' = {object}
  BY DEF OpenAsk, Inv, TypeInv
<1>2. UNCHANGED <<nocopy, object, ent, change, left, wanted, lost, due, failed>>
  BY DEF OpenAsk
<1>3. TypeInv'
  BY <1>1, <1>2, OptOne DEF Inv, TypeInv, Held, IsOpen, Changing, Handles
<1>4. StageOK' /\ DueOK' /\ PutOK' /\ ForceOK' /\ Firm' = Firm
  BY <1>2 DEF Inv, StageOK, DueOK, PutOK, ForceOK, Firm, IsOpen
<1>5. Agreements(wanted, Firm, due, object, ent, opening')
  BY <1>1 DEF Inv, Agreements
<1>. QED BY <1>2, <1>3, <1>4, <1>5 DEF Inv

\* The entity that OpenEnter finds or makes has firm headers.
LEMMA OpenEnterStep ==
  ASSUME Inv, NEW kind \in {"ro", "rw"}, OpenEnter(kind) PROVE Inv'
<1>. USE DEF history
<1>1. PICK e : e = IF IsOpen THEN The(ent) ELSE Opened(The(opening))
  OBVIOUS
<1>2. opening # {} /\ opening' = {} /\ ent' = {[e EXCEPT ![kind] = 1]}
      /\ UNCHANGED <<nocopy, object, cached, change, left, wanted, lost, due, failed>>
  BY <1>1 DEF OpenEnter
<1>3. The(opening) \in Proper /\ opening = {The(opening)}
  BY <1>2, OptIs DEF Inv, TypeInv
<1>4. Opened(The(opening)) \in Entities
  <2>1. Opened(The(opening)) \in EntityFields
    BY <1>3 DEF Opened, EntityFields
  <2>2. Opt(Opened(The(opening)).upload, Proper)
    BY DEF Opened, Opt
  <2>. QED BY <2>1, <2>2, EntityOf
<1>5. e \in Entities
  BY <1>1, <1>4, InvOpen
<1>6. PICK f : f = [e EXCEPT ![kind] = 1]
  OBVIOUS
<1>7. /\ f.orgmeta = e.orgmeta /\ f.upload = e.upload /\ f.pending = e.pending
      /\ f.is_modify = e.is_modify /\ f[kind] = 1
  BY <1>5, <1>6, EntityAs DEF EntityFields
<1>8. f \in Entities
  <2>1. e \in EntityFields
    BY <1>5, EntityAs
  <2>2. f \in EntityFields
    BY <1>6, <2>1 DEF EntityFields
  <2>3. Opt(f.upload, Proper)
    BY <1>5, <1>7, EntityIs
  <2>. QED BY <2>2, <2>3, EntityOf
<1>9. Handles(f) > 0
  BY <1>7, <1>8, EntityIs DEF Handles
<1>10. IsOpen' /\ ent' = {f}
  BY <1>2, <1>6 DEF IsOpen
<1>11. TypeInv'
  BY <1>2, <1>8, <1>9, <1>10, OptOne DEF Inv, TypeInv, Held, Changing
<1>12. Agreements(wanted, Firm, due, object, {e}, {})
  <2>1. CASE IsOpen
    BY <1>1, <2>1, InvOpen DEF Inv, Agreements
  <2>2. CASE ~IsOpen
    <3>1. due = {}
      BY <2>2 DEF Inv, DueOK
    <3>2. e.orgmeta = The(opening) /\ e.upload = {}
      BY <1>1, <2>2 DEF Opened
    <3>. QED BY <1>3, <3>1, <3>2 DEF Inv, Agreements
  <2>. QED BY <2>1, <2>2
<1>13. Agreements(wanted, Firm, due, object, {f}, {})
  BY <1>7, <1>12 DEF Agreements
<1>14. Firm' = Firm
  BY <1>2 DEF Firm
<1>15. DueOK'
  BY <1>1, <1>2, <1>7, <1>10, InvOpen DEF Inv, DueOK
<1>16. PutOK'
  <2>. SUFFICES ASSUME change.at = "put" PROVE PutOK'
    BY <1>2 DEF PutOK
  <2>1. f.upload = {}
    BY <1>1, <1>7, InvOpen DEF Inv, PutOK, Opened
  <2>2. change.held => IsOpen
    BY DEF Inv, TypeInv, Held, Changing
  <2>3. \A a : change.held /\ (\A x \in ent : With(WantedOf(wanted, change.op), x.orgmeta, a))
               => With(WantedOf(wanted, change.op), f.orgmeta, a)
    BY <1>1, <1>7, <2>2, InvOpen
  <2>. QED BY <1>2, <1>10, <2>1, <2>3 DEF Inv, PutOK
<1>17. ForceOK'
  <2>. SUFFICES ASSUME change.at = "force" PROVE ForceOK'
    BY <1>2 DEF ForceOK
  <2>1. IsOpen
    BY DEF Inv, StageOK, TypeInv, Held, Changing
  <2>. QED BY <1>1, <1>2, <1>7, <1>10, <2>1, InvOpen DEF Inv, ForceOK
<1>18. StageOK'
  BY <1>2, StageStays DEF Inv
<1>. QED BY <1>2, <1>10, <1>11, <1>13, <1>14, <1>15, <1>16, <1>17, <1>18 DEF Inv

\* Write begins an upload with headers that are firm; the times are lost.
LEMMA WriteStep == ASSUME Inv, Write PROVE Inv'
<1>. USE DEF history
<1>1. PICK e \in Entities : ent = {e} /\ The(ent) = e
  BY InvOpen DEF Write
<1>2. PICK safe \in SafeDisk, ok \in BOOLEAN :
        ent' = {[e EXCEPT !.is_modify = e.is_modify \/ ok,
                          !.upload = IF ~safe /\ e.upload = {} THEN {Sent(e.orgmeta)}
                                     ELSE e.upload]}
  BY <1>1 DEF Write
<1>3. PICK f : f = [e EXCEPT !.is_modify = e.is_modify \/ ok,
                             !.upload = IF ~safe /\ e.upload = {} THEN {Sent(e.orgmeta)}
                                        ELSE e.upload]
  OBVIOUS
<1>4. /\ ~Changing /\ e.rw = 1 /\ ent' = {f} /\ failed' = FALSE
      /\ lost' = lost \cup {"mtime"} /\ due' = due \ {"mtime"}
      /\ UNCHANGED <<nocopy, object, cached, opening, change, left, wanted>>
  BY <1>1, <1>2, <1>3 DEF Write
<1>5. e \in EntityFields /\ Sent(e.orgmeta) \in Proper /\ e.orgmeta \in Proper
  BY EntityAs, EntityIs, SentIs
<1>6. /\ f.orgmeta = e.orgmeta /\ f.pending = e.pending /\ f.is_modify = (e.is_modify \/ ok)
      /\ f.upload = (IF ~safe /\ e.upload = {} THEN {Sent(e.orgmeta)} ELSE e.upload)
      /\ f.ro = e.ro /\ f.rw = e.rw
  BY <1>3, <1>5 DEF EntityFields
<1>7. Opt(f.upload, Proper)
  BY <1>5, <1>6, EntityIs, OptOne
<1>8. f.upload \in SUBSET Proper
  BY <1>7 DEF Opt
<1>9. f \in EntityFields
  <2>1. e.is_modify \/ ok \in BOOLEAN
    BY <1>5 DEF EntityFields
  <2>. QED BY <1>3, <1>5, <1>6, <1>8, <2>1 DEF EntityFields
<1>10. f \in Entities
  BY <1>7, <1>9, EntityOf
<1>11. Handles(f) > 0 /\ IsOpen'
  BY <1>4, <1>6, <1>10, EntityIs DEF Handles, IsOpen
<1>12. change.at = "idle" /\ change = Idle
  BY <1>4, ChangingIs DEF Inv, TypeInv
<1>13. lost' \subseteq Attr /\ due' \subseteq Attr
  BY <1>4 DEF Inv, TypeInv, Attr
<1>14. TypeInv'
  BY <1>4, <1>10, <1>11, <1>13, OptOne DEF Inv, TypeInv, Held, Changing
<1>15. StageOK' /\ PutOK' /\ ForceOK'
  BY <1>4, <1>12 DEF StageOK, PutOK, ForceOK
<1>16. DueOK'
  BY <1>1, <1>4, <1>6, <1>11 DEF Inv, DueOK
<1>17. Firm' \subseteq Firm /\ Firm' \ due' \subseteq Firm \ due /\ Firm \subseteq Attr
  BY <1>4 DEF Firm
<1>18. Agreements(wanted, Firm', due', object, {e}, opening)
  BY <1>1, <1>17, AgreeLess DEF Inv
<1>19. \A a \in Attr : With(wanted, Sent(e.orgmeta), a) <=> With(wanted, e.orgmeta, a)
  BY <1>5, SentIs
<1>20. Agreements(wanted, Firm', due', object, {f}, opening)
  BY <1>6, <1>17, <1>18, <1>19 DEF Agreements
<1>. QED BY <1>4, <1>14, <1>15, <1>16, <1>20 DEF Inv

\* What was due is lost when a read clears is_modify.
LEMMA ReadHoleStep == ASSUME Inv, ReadHole PROVE Inv'
<1>. USE DEF history
<1>1. PICK e \in Entities : ent = {e} /\ The(ent) = e
  BY InvOpen DEF ReadHole
<1>2. PICK f : f = [e EXCEPT !.is_modify = FALSE]
  OBVIOUS
<1>3. /\ Handles(e) > 0 /\ ent' = {f} /\ lost' = lost \cup due /\ due' = {}
      /\ UNCHANGED <<nocopy, object, cached, opening, change, left, wanted, failed>>
  BY <1>1, <1>2 DEF ReadHole
<1>4. e \in EntityFields /\ Opt(e.upload, Proper)
  BY EntityAs, EntityIs
<1>5. /\ f.orgmeta = e.orgmeta /\ f.pending = e.pending /\ f.upload = e.upload
      /\ f.ro = e.ro /\ f.rw = e.rw /\ f \in EntityFields
  BY <1>2, <1>4 DEF EntityFields
<1>6. f \in Entities /\ Handles(f) > 0 /\ IsOpen'
  BY <1>3, <1>4, <1>5, EntityOf DEF Handles, IsOpen
<1>7. lost' \subseteq Attr
  BY <1>3 DEF Inv, TypeInv
<1>8. TypeInv'
  BY <1>3, <1>6, <1>7, OptOne DEF Inv, TypeInv, Held, Changing
<1>9. StageOK' /\ DueOK'
  BY <1>3, StageStays DEF Inv, DueOK
<1>10. PutOK' /\ ForceOK'
  BY <1>1, <1>3, <1>5 DEF Inv, PutOK, ForceOK
<1>11. Firm' \subseteq Firm /\ Firm' \ due' \subseteq Firm \ due
  BY <1>3 DEF Firm
<1>12. Agreements(wanted, Firm', due', object, {e}, opening)
  BY <1>1, <1>11, AgreeLess DEF Inv
<1>13. Agreements(wanted, Firm', due', object, {f}, opening)
  BY <1>5, <1>12 DEF Agreements
<1>. QED BY <1>3, <1>8, <1>9, <1>10, <1>13 DEF Inv

\* A flush puts headers of the file, or those its upload began with.
LEMMA FlushesStep ==
  ASSUME Inv, NEW e \in Entities, ent = {e}, NEW r \in RowFlush(e, FALSE), Flushes(r),
         Handles(e) > 0, Opt(cached', Proper),
         UNCHANGED <<nocopy, opening, change, left, wanted>>
  PROVE  Inv'
<1>1. The(ent) = e
  BY TheIs
<1>2. Flushed(e, FALSE, r)
  BY RowFlushIs DEF Inv, TypeInv
<1>3. PICK f \in Entities : r.ent = f
  BY <1>2 DEF Flushed
<1>4. /\ ent' = {f} /\ object' = r.object /\ failed' = ~r.ok
      /\ IF r.ok /\ e.is_modify
           THEN /\ due' = {}
                /\ lost' = lost \cup Overtaken(due)
           ELSE UNCHANGED <<due, lost>>
  BY <1>1, <1>3 DEF Flushes
<1>5. /\ f.ro = e.ro /\ f.rw = e.rw /\ f.orgmeta = e.orgmeta
      /\ f.upload = e.upload \/ f.upload = {}
      /\ f.upload # {} => f.pending = e.pending
  BY <1>2, <1>3 DEF Flushed
<1>6. e.orgmeta \in Proper /\ e.is_modify \in BOOLEAN /\ r.ok \in BOOLEAN /\ r.object \in Proper
  BY <1>2, EntityIs DEF Flushed
<1>7. Handles(f) > 0 /\ IsOpen'
  BY <1>4, <1>5 DEF Handles, IsOpen
<1>8. Overtaken(due) \subseteq Attr /\ (opening # {} => Overtaken(due) = due)
  BY DEF Inv, TypeInv, Overtaken
<1>9. lost' \subseteq Attr /\ due' \subseteq due /\ lost \subseteq lost' /\ failed' \in BOOLEAN
  BY <1>4, <1>6, <1>8 DEF Inv, TypeInv
<1>10. TypeInv'
  BY <1>4, <1>6, <1>7, <1>9, OptOne DEF Inv, TypeInv, Held, Changing
<1>11. StageOK'
  BY StageStays DEF Inv
<1>12. PutOK' /\ ForceOK'
  BY <1>4, <1>5, <1>9 DEF Inv, PutOK, ForceOK
<1>13. Firm' \subseteq Firm /\ Firm \subseteq Attr
  BY <1>9 DEF Firm
<1>14. \A a \in Attr : With(wanted, Sent(e.orgmeta), a) <=> With(wanted, e.orgmeta, a)
  BY <1>6, SentIs
<1>15. e.upload # {} => The(e.upload) \in e.upload
  BY DEF The
<1>16. Agreements(wanted, Firm, due, object, {e}, opening)
  BY DEF Inv
<1>17. CASE r.ok /\ e.is_modify
  <2>1. /\ f.upload = {} /\ due' = {} /\ lost' = lost \cup Overtaken(due)
        /\ \/ r.object = Sent(e.orgmeta)
           \/ e.upload # {} /\ ~e.pending /\ r.object = The(e.upload)
    BY <1>2, <1>3, <1>4, <1>17 DEF Flushed
  <2>2. \A a \in Firm : With(wanted, r.object, a)
    BY <1>13, <1>14, <1>15, <1>16, <2>1 DEF Agreements
  <2>3. opening # {} => Firm' \subseteq Firm \ due
    BY <1>8, <2>1 DEF Firm
  <2>4. Agreements(wanted, Firm', {}, r.object, {f}, opening)
    BY <1>5, <1>13, <1>16, <2>1, <2>2, <2>3 DEF Agreements
  <2>5. DueOK'
    BY <2>1 DEF DueOK
  <2>. QED BY <1>4, <1>10, <1>11, <1>12, <2>1, <2>4, <2>5 DEF Inv
<1>18. CASE ~(r.ok /\ e.is_modify)
  <2>1. due' = due /\ lost' = lost /\ Firm' = Firm
    BY <1>4, <1>18 DEF Firm
  <2>2. f.is_modify = e.is_modify
    BY <1>2, <1>3, <1>6, <1>18 DEF Flushed
  <2>3. DueOK'
    BY <1>4, <1>7, <2>1, <2>2 DEF Inv, DueOK
  <2>4. \A a \in Firm \ due : With(wanted, r.object, a)
    BY <1>2, <1>13, <1>14, <1>15, <1>16 DEF Agreements, Flushed
  <2>5. Agreements(wanted, Firm, due, r.object, {f}, opening)
    BY <1>5, <1>16, <2>4 DEF Agreements
  <2>. QED BY <1>4, <1>10, <1>11, <1>12, <2>1, <2>3, <2>5 DEF Inv
<1>. QED BY <1>17, <1>18

\* s3fs_flush.
LEMMA FlushStep == ASSUME Inv, NEW kind \in {"ro", "rw"}, Flush(kind) PROVE Inv'
<1>. USE DEF history
<1>1. PICK e \in Entities : ent = {e} /\ The(ent) = e
  BY InvOpen DEF Flush
<1>2. Opt(cached', Proper) /\ e[kind] = 1 /\ UNCHANGED <<nocopy, opening, change, left, wanted>>
  BY <1>1, KnownIs DEF Flush
<1>3. Handles(e) > 0
  BY <1>2, EntityIs DEF Handles
<1>4. CASE failed' = TRUE /\ UNCHANGED <<ent, object, lost, due>>
  <2>1. TypeInv'
    BY <1>2, <1>4 DEF Inv, TypeInv, Held, IsOpen, Changing, Handles
  <2>2. StageOK' /\ DueOK' /\ PutOK' /\ ForceOK' /\ Firm' = Firm
    BY <1>2, <1>4 DEF Inv, StageOK, DueOK, PutOK, ForceOK, Firm, IsOpen
  <2>. QED BY <1>2, <1>4, <2>1, <2>2 DEF Inv
<1>5. CASE \E r \in RowFlush(e, FALSE) : Flushes(r)
  BY <1>1, <1>2, <1>3, <1>5, FlushesStep
<1>. QED BY <1>1, <1>4, <1>5 DEF Flush

\* s3fs_fsync.
LEMMA FsyncStep == ASSUME Inv, Fsync PROVE Inv'
<1>1. PICK e \in Entities : ent = {e} /\ The(ent) = e
  BY InvOpen DEF Fsync
<1>2. Opt(cached', Proper) /\ Handles(e) > 0 /\ UNCHANGED <<nocopy, opening, change, left, wanted>>
  BY <1>1 DEF Fsync, Opt
<1>3. PICK r \in RowFlush(e, FALSE) : Flushes(r)
  BY <1>1 DEF Fsync
<1>. QED BY <1>1, <1>2, <1>3, FlushesStep

\* The last user of a file takes what is due with it.
LEMMA ReleaseStep == ASSUME Inv, NEW kind \in {"ro", "rw"}, Release(kind) PROVE Inv'
<1>. USE DEF history
<1>1. PICK e \in Entities : ent = {e} /\ The(ent) = e
  BY InvOpen DEF Release
<1>2. PICK f : f = [e EXCEPT ![kind] = 0]
  OBVIOUS
<1>3. /\ ent' = Closed(f, Held) /\ lost' = lost \cup Dropped(f, Held)
      /\ due' = due \ Dropped(f, Held) /\ cached' = (IF kind = "rw" THEN {} ELSE cached)
      /\ UNCHANGED <<nocopy, object, opening, change, left, wanted, failed>>
  BY <1>1, <1>2 DEF Release
<1>4. e \in EntityFields /\ Opt(e.upload, Proper)
  BY EntityAs, EntityIs
<1>5. /\ f.orgmeta = e.orgmeta /\ f.pending = e.pending /\ f.upload = e.upload
      /\ f.is_modify = e.is_modify /\ f \in EntityFields
  BY <1>2, <1>4 DEF EntityFields
<1>6. f \in Entities /\ Handles(f) \in Nat
  BY <1>4, <1>5, EntityOf, EntityIs
<1>7. Opt(cached', Proper)
  BY <1>3, OptOne DEF Inv, TypeInv, Opt
<1>8. Agreements(wanted, Firm, due, object, {f}, opening)
  BY <1>1, <1>5 DEF Inv, Agreements
<1>9. StageOK' /\ Held' = Held
  BY <1>3, StageStays DEF Inv, Held, Changing
<1>10. CASE Handles(f) = 0 /\ ~Held
  <2>1. ent' = {} /\ lost' = lost \cup due /\ due' = {} /\ ~IsOpen'
    BY <1>3, <1>10 DEF Closed, Dropped, IsOpen
  <2>2. TypeInv'
    BY <1>3, <1>7, <1>9, <1>10, <2>1 DEF Inv, TypeInv, Opt
  <2>3. DueOK' /\ PutOK' /\ ForceOK'
    BY <1>3, <2>1 DEF Inv, DueOK, PutOK, ForceOK
  <2>4. Firm' \subseteq Firm \ due
    BY <1>3, <2>1 DEF Firm
  <2>5. Agreements(wanted, Firm', {}, object, {}, opening)
    BY <1>8, <2>4 DEF Agreements
  <2>. QED BY <1>3, <1>9, <2>1, <2>2, <2>3, <2>5 DEF Inv
<1>11. CASE ~(Handles(f) = 0 /\ ~Held)
  <2>1. ent' = {f} /\ lost' = lost /\ due' = due /\ IsOpen'
    BY <1>3, <1>11 DEF Closed, Dropped, IsOpen
  <2>2. Held \/ Handles(f) > 0
    BY <1>6, <1>11
  <2>3. TypeInv'
    BY <1>3, <1>6, <1>7, <1>9, <2>1, <2>2, OptOne DEF Inv, TypeInv
  <2>4. DueOK' /\ PutOK' /\ ForceOK' /\ Firm' = Firm
    BY <1>1, <1>3, <1>5, <2>1 DEF Inv, DueOK, PutOK, ForceOK, Firm, IsOpen
  <2>. QED BY <1>3, <1>8, <1>9, <2>1, <2>3, <2>4 DEF Inv
<1>. QED BY <1>10, <1>11

\* A call begins with what the stat cache has.
LEMMA AskStep == ASSUME Inv, Ask PROVE Inv'
<1>. USE DEF history
<1>1. PICK op \in Calls :
        change' = [at |-> IF nocopy /\ op.kind = "plain" THEN "fetch" ELSE "find",
                   op |-> op, meta |-> Known, held |-> FALSE]
  BY DEF Ask
<1>2. /\ ~Changing /\ left > 0 /\ left' = left - 1 /\ cached' = {Known}
      /\ UNCHANGED <<nocopy, object, ent, opening, wanted, lost, due, failed>>
  BY DEF Ask
<1>3. op \in Op
  BY CallsAssumption
<1>4. change' \in Record /\ ~change'.held /\ change'.at \in {"fetch", "find"}
      /\ (change'.at = "fetch" => nocopy /\ change'.op.kind = "plain")
      /\ (change'.at = "find" => ~(nocopy /\ change'.op.kind = "plain"))
  BY <1>1, <1>3, KnownIs DEF Record, Stages
<1>5. left' \in 0 .. MaxChanges
  BY <1>2, SettingsAssumption DEF Inv, TypeInv
<1>6. change.at = "idle" /\ ~Held /\ ~Held'
  BY <1>2, <1>4, ChangingIs DEF Inv, TypeInv, Held
<1>7. TypeInv'
  BY <1>2, <1>4, <1>5, <1>6, KnownIs DEF Inv, TypeInv, IsOpen, Handles
<1>8. StageOK' /\ DueOK' /\ PutOK' /\ ForceOK' /\ Firm' = Firm
  BY <1>2, <1>4, <1>6 DEF Inv, StageOK, DueOK, PutOK, ForceOK, Firm, IsOpen
<1>. QED BY <1>2, <1>7, <1>8 DEF Inv

\* What the stat cache had is firm but where the object has changed since.
LEMMA OutdatedIs ==
  ASSUME NEW h, NEW w, NEW a \in Attr \ Outdated(h), With(w, object, a)
  PROVE  With(w, h, a)
BY DEF Outdated, With, Attr

\* ExistOpen.
LEMMA FindStep == ASSUME Inv, Find PROVE Inv'
<1>. USE DEF history
<1>1. /\ change.at = "find"
      /\ UNCHANGED <<nocopy, object, cached, ent, opening, left, wanted, due, failed>>
  BY DEF Find
<1>2. change \in Record /\ change.op \in Op /\ change.meta \in Proper
      /\ ~(nocopy /\ change.op.kind = "plain")
  BY <1>1, ChangingIs DEF Inv, TypeInv, Record, StageOK
<1>3. Firm = Attr \ lost
  BY <1>1 DEF Firm
<1>4. CASE IsOpen /\ Goto("merge", TRUE, change.meta) /\ UNCHANGED lost
  <2>1. change' \in Record /\ change'.at = "merge" /\ change'.held /\ change'.op = change.op
    BY <1>2, <1>4, GotoIs DEF Stages
  <2>2. TypeInv'
    BY <1>1, <1>4, <2>1 DEF Inv, TypeInv, IsOpen, Handles, Held, Changing
  <2>4. StageOK'
    BY <1>1, <1>2, <2>1 DEF StageOK
  <2>3. DueOK' /\ PutOK' /\ ForceOK' /\ Firm' = Firm
    BY <1>1, <1>3, <1>4, <2>1 DEF Inv, DueOK, PutOK, ForceOK, Firm, IsOpen
  <2>. QED BY <1>1, <1>4, <2>2, <2>3, <2>4 DEF Inv
<1>5. CASE /\ ~IsOpen /\ lost' = lost \cup Outdated(change.meta)
           /\ Goto("put", FALSE, Changed(change.op, change.meta, change.meta))
  <2>1. PICK h \in Proper : h = Changed(change.op, change.meta, change.meta)
    BY <1>2, ChangedIs
  <2>2. change' \in Record /\ change'.at = "put" /\ ~change'.held /\ change'.op = change.op
        /\ change'.meta = h
    BY <1>2, <1>5, <2>1, GotoIs DEF Stages
  <2>3. ent = {} /\ ent' = {} /\ due = {} /\ due' = {} /\ Outdated(change.meta) \subseteq Attr
    BY <1>1, <1>5 DEF Inv, DueOK, IsOpen, Outdated
  <2>4. TypeInv'
    BY <1>1, <1>5, <2>2, <2>3 DEF Inv, TypeInv, Held, Changing
  <2>13. StageOK'
    BY <1>1, <1>2, <2>2 DEF StageOK
  <2>5. \A a \in Attr \ lost' : With(wanted, change.meta, a)
    <3>1. \A a \in Attr \ lost : With(wanted, object, a)
      BY <1>3, <2>3 DEF Inv, Agreements
    <3>. QED BY <1>5, <3>1, OutdatedIs
  <2>6. FromOld(change.op, change.meta, change.meta) = {}
    BY DEF FromOld
  <2>7. wanted \in Wishes /\ Replaced(change.op) \subseteq Attr
    BY <1>2, OpIs DEF Inv, TypeInv
  <2>8. \A a \in Replaced(change.op) \cup (Attr \ lost') : With(WantedOf(wanted, change.op), h, a)
    BY <1>2, <2>1, <2>5, <2>6, <2>7, ChangedAgrees
  <2>9. DueOK' /\ ForceOK'
    BY <2>2, <2>3 DEF DueOK, ForceOK
  <2>10. PutOK'
    BY <1>1, <2>2, <2>3, <2>8 DEF PutOK
  <2>11. Firm' \subseteq Firm
    BY <1>3, <1>5, <2>2 DEF Firm
  <2>12. Agreements(wanted, Firm', due, object, ent, opening)
    BY <2>11, AgreeLess DEF Inv
  <2>. QED BY <1>1, <2>4, <2>9, <2>10, <2>12, <2>13 DEF Inv
<1>6. CASE ~IsOpen /\ change' = Idle /\ UNCHANGED lost
  <2>1. change'.at = "idle"
    BY <1>6 DEF Idle
  <2>2. ent = {} /\ ent' = {} /\ due = {}
    BY <1>1, <1>6 DEF Inv, DueOK, IsOpen
  <2>3. TypeInv' /\ StageOK'
    BY <1>1, <1>6, <2>1, <2>2 DEF Inv, TypeInv, StageOK, Held, Changing
  <2>4. DueOK' /\ PutOK' /\ ForceOK' /\ Firm' = Firm
    BY <1>1, <1>3, <1>6, <2>1, <2>2 DEF DueOK, PutOK, ForceOK, Firm
  <2>. QED BY <1>1, <2>3, <2>4 DEF Inv
<1>. QED BY <1>4, <1>5, <1>6 DEF Find

\* MergeOrgMeta makes the headers of an open file what is wanted; the object
\* follows with the next upload, or is put next.
LEMMA MergeOrgMetaStep == ASSUME Inv, MergeOrgMeta PROVE Inv'
<1>. USE DEF history
<1>1. /\ change.at = "merge" /\ UNCHANGED <<nocopy, object, cached, opening, left, failed>>
  BY DEF MergeOrgMeta
<1>2. change \in Record /\ change.op \in Op /\ change.meta \in Proper
      /\ ~(nocopy /\ change.op.kind = "plain") /\ change.held /\ Changing /\ Held
  BY <1>1, ChangingIs DEF Inv, TypeInv, Record, StageOK, Held
<1>3. PICK e \in Entities : ent = {e} /\ The(ent) = e
  BY <1>2, InvOpen DEF Inv, TypeInv
<1>4. e.orgmeta \in Proper /\ e \in EntityFields /\ Opt(e.upload, Proper)
  BY EntityIs, EntityAs
<1>5. PICK h \in Proper : h = Changed(change.op, change.meta, e.orgmeta)
  BY <1>2, <1>4, ChangedIs
<1>6. PICK pending \in BOOLEAN : pending = (e.pending \/ e.upload # {} \/ e.is_modify)
  BY <1>4 DEF EntityFields
<1>7. PICK f : f = [e EXCEPT !.orgmeta = h, !.pending = pending]
  OBVIOUS
<1>8. PICK old : old = FromOld(change.op, change.meta, e.orgmeta)
  OBVIOUS
<1>9. ent' = {f}
  BY <1>3, <1>5, <1>6, <1>7 DEF MergeOrgMeta
<1>10. IF pending
         THEN /\ Goto("close", TRUE, h)
              /\ wanted' = WantedOf(wanted, change.op)
              /\ lost' = (lost \ Replaced(change.op))
                         \cup old \cup {a \in Touched(change.op) : ~e.is_modify}
              /\ due' = IF e.is_modify THEN due \cup Touched(change.op) ELSE due
         ELSE /\ Goto("put", TRUE, h) /\ lost' = lost \cup old
              /\ UNCHANGED <<wanted, due>>
  BY <1>2, <1>3, <1>5, <1>6, <1>8, WantedIs DEF MergeOrgMeta, Succeed
<1>11. /\ f.orgmeta = h /\ f.pending = pending /\ f.upload = e.upload
       /\ f.is_modify = e.is_modify /\ f \in EntityFields
  BY <1>4, <1>7 DEF EntityFields
<1>12. f \in Entities /\ IsOpen'
  BY <1>4, <1>9, <1>11, EntityOf DEF IsOpen
<1>13. /\ Touched(change.op) \subseteq Attr /\ Replaced(change.op) \subseteq Touched(change.op)
       /\ old \subseteq Touched(change.op)
  BY <1>2, <1>8, OpIs DEF FromOld
<1>14. wanted \in Wishes /\ WantedOf(wanted, change.op) \in Wishes
       /\ lost \subseteq Attr /\ due \subseteq Attr
  BY <1>2, WantedOfIs DEF Inv, TypeInv
<1>15. Firm = Attr \ lost /\ Agreements(wanted, Firm, due, object, {e}, opening)
  BY <1>1, <1>3 DEF Firm, Inv
<1>16. \A a \in Replaced(change.op) \cup (Attr \ (lost \cup old)) :
         With(WantedOf(wanted, change.op), h, a)
  <2>1. \A a \in Attr \ lost : With(wanted, e.orgmeta, a)
    BY <1>15 DEF Agreements
  <2>. QED BY <1>2, <1>4, <1>5, <1>8, <1>13, <1>14, <2>1, ChangedAgrees
<1>17. CASE pending
  <2>1. /\ change' \in Record /\ change'.at = "close" /\ change'.held
    BY <1>2, <1>10, <1>17, GotoIs DEF Stages
  <2>2. wanted' = WantedOf(wanted, change.op) /\ lost' \subseteq Attr /\ due' \subseteq Attr
    BY <1>10, <1>13, <1>14, <1>17
  <2>3. TypeInv'
    BY <1>1, <1>9, <1>12, <1>14, <2>1, <2>2, ChangingIs, OptOne DEF Inv, TypeInv, Held, Changing
  <2>4. StageOK' /\ PutOK' /\ ForceOK'
    BY <2>1 DEF StageOK, PutOK, ForceOK
  <2>5. DueOK'
    <3>1. due # {} => e.is_modify
      BY <1>1, <1>3 DEF Inv, DueOK
    <3>2. due' # {} => e.is_modify
      BY <1>10, <1>17, <3>1
    <3>. QED BY <1>9, <1>11, <1>12, <3>2 DEF DueOK
  <2>6. Firm' = Attr \ lost'
    BY <2>1 DEF Firm
  <2>7. \A a \in Firm' : With(wanted', h, a)
    BY <1>10, <1>16, <1>17, <2>2, <2>6
  <2>8. \A a \in Firm' \ due' : a \in Firm \ due /\ a \in Attr \ Touched(change.op)
    BY <1>10, <1>13, <1>15, <1>17, <2>6
  <2>9. \A a \in Firm' \ due' : \A x : With(wanted, x, a) => With(wanted', x, a)
    BY <1>2, <1>14, <2>2, <2>8, WantedOfIs
  <2>10. Agreements(wanted', Firm', due', object, {f}, opening)
    <3>1. \A a \in Firm' \ due' : With(wanted', object, a)
      BY <1>15, <2>8, <2>9 DEF Agreements
    <3>2. \A x \in opening : \A a \in Firm' \ due' : With(wanted', x, a)
      BY <1>15, <2>8, <2>9 DEF Agreements
    <3>3. \A x \in e.upload : \A a \in Firm' \ due' : With(wanted', x, a)
      BY <1>15, <2>8, <2>9 DEF Agreements
    <3>. QED BY <1>11, <1>17, <2>7, <3>1, <3>2, <3>3 DEF Agreements
  <2>. QED BY <1>1, <1>9, <2>3, <2>4, <2>5, <2>10 DEF Inv
<1>18. CASE ~pending
  <2>1. /\ change' \in Record /\ change'.at = "put" /\ change'.held /\ change'.op = change.op
        /\ change'.meta = h
    BY <1>2, <1>10, <1>18, GotoIs DEF Stages
  <2>2. e.upload = {} /\ ~e.is_modify /\ e.pending = FALSE
    BY <1>4, <1>6, <1>18 DEF EntityFields
  <2>3. due = {} /\ due' = {} /\ wanted' = wanted /\ lost' = lost \cup old
    BY <1>1, <1>3, <1>10, <1>18, <2>2 DEF Inv, DueOK
  <2>4. TypeInv'
    BY <1>1, <1>9, <1>12, <1>13, <1>14, <2>1, <2>3, ChangingIs, OptOne
    DEF Inv, TypeInv, Held, Changing
  <2>5. StageOK' /\ DueOK' /\ ForceOK'
    BY <1>1, <1>2, <2>1, <2>3 DEF StageOK, DueOK, ForceOK
  <2>6. PutOK'
    BY <1>9, <1>11, <1>16, <2>1, <2>2, <2>3 DEF PutOK
  <2>7. Firm' \subseteq Firm /\ Firm' \subseteq Attr \ (Touched(change.op) \cup lost \cup old)
    BY <1>15, <2>1, <2>3 DEF Firm
  <2>8. Agreements(wanted, Firm', due, object, {e}, opening)
    BY <1>15, <2>7, AgreeLess
  <2>9. \A a \in Firm' : With(wanted, h, a)
    BY <1>2, <1>14, <1>16, <2>7, WantedOfIs
  <2>10. Agreements(wanted, Firm', due, object, {f}, opening)
    BY <1>11, <2>2, <2>8, <2>9 DEF Agreements
  <2>. QED BY <1>1, <1>9, <2>3, <2>4, <2>5, <2>6, <2>10 DEF Inv
<1>. QED BY <1>17, <1>18

\* An empty attribute is none.
LEMMA MergeRefusedStep == ASSUME Inv, MergeRefused PROVE Inv'
<1>. USE DEF history
<1>1. /\ change.at = "merge" /\ change' = [change EXCEPT !.at = "close"]
      /\ UNCHANGED <<nocopy, object, cached, opening, left, wanted, lost, due, failed>>
  BY DEF MergeRefused
<1>2. change \in Record /\ change.held /\ Changing /\ Held
  BY <1>1, ChangingIs DEF Inv, TypeInv, StageOK, Held
<1>3. PICK e \in Entities : ent = {e} /\ The(ent) = e
  BY <1>2, InvOpen DEF Inv, TypeInv
<1>4. e.orgmeta \in Proper /\ e \in EntityFields /\ Opt(e.upload, Proper)
  BY EntityIs, EntityAs
<1>5. PICK x : x = IF e.orgmeta.xattr = {} THEN {{}} ELSE e.orgmeta.xattr
  OBVIOUS
<1>6. PICK h : h = [e.orgmeta EXCEPT !.xattr = x]
  OBVIOUS
<1>7. Opt(x, SUBSET Name) /\ Names(x) = Names(e.orgmeta.xattr) /\ x \in SUBSET SUBSET Name
  <2>1. Opt({{}}, SUBSET Name)
    BY OptOne
  <2>2. Names({{}}) = {} /\ Names({}) = {}
    BY NamesOfOne
  <2>. QED BY <1>4, <1>5, <2>1, <2>2, ProperIs
<1>8. h \in Proper /\ h.xattr = x /\ \A a \in Attr \ {"xattr"} : h[a] = e.orgmeta[a]
  BY <1>4, <1>6, <1>7 DEF Proper, Headers, Attr
<1>9. \A w, a : a \in Attr => (With(w, h, a) <=> With(w, e.orgmeta, a))
  BY <1>7, <1>8 DEF With
<1>10. PICK f : f = [e EXCEPT !.orgmeta = h]
  OBVIOUS
<1>11. ent' = {f}
  <2>1. ent' = {[e EXCEPT !.orgmeta.xattr = IF @ = {} THEN {{}} ELSE @]}
    BY <1>3 DEF MergeRefused
  <2>. QED BY <1>5, <1>6, <1>10, <2>1
<1>12. /\ f.orgmeta = h /\ f.pending = e.pending /\ f.upload = e.upload
       /\ f.is_modify = e.is_modify /\ f \in EntityFields
  BY <1>4, <1>8, <1>10 DEF EntityFields
<1>13. f \in Entities /\ IsOpen'
  BY <1>4, <1>11, <1>12, EntityOf DEF IsOpen
<1>14. change' \in Record /\ change'.at = "close" /\ change'.held
  BY <1>1, <1>2 DEF Record, Stages
<1>15. TypeInv'
  BY <1>1, <1>11, <1>13, <1>14, ChangingIs, OptOne DEF Inv, TypeInv, Held, Changing
<1>16. StageOK' /\ PutOK' /\ ForceOK'
  BY <1>14 DEF StageOK, PutOK, ForceOK
<1>17. DueOK'
  BY <1>1, <1>3, <1>11, <1>12, <1>13 DEF Inv, DueOK
<1>18. Firm' = Firm /\ Firm \subseteq Attr
  BY <1>1, <1>14 DEF Firm
<1>19. Agreements(wanted, Firm, due, object, {f}, opening)
  BY <1>3, <1>9, <1>12, <1>18 DEF Inv, Agreements
<1>. QED BY <1>1, <1>11, <1>15, <1>16, <1>17, <1>18, <1>19 DEF Inv

\* put_headers.
LEMMA PutStep == ASSUME Inv, Put PROVE Inv'
<1>. USE DEF history
<1>1. /\ change.at = "put" /\ cached' = {Known}
      /\ UNCHANGED <<nocopy, ent, opening, left, failed>>
  BY DEF Put
<1>2. change \in Record /\ change.op \in Op /\ change.meta \in Proper /\ change.held \in BOOLEAN
      /\ Changing
  BY <1>1, ChangingIs DEF Inv, TypeInv, Record
<1>3. PICK op \in Op : op = change.op
  BY <1>2
<1>4. PICK meta \in Proper : meta = change.meta
  BY <1>2
<1>5. /\ Touched(op) \subseteq Attr /\ Replaced(op) \subseteq Touched(op)
  BY OpIs
<1>6. wanted \in Wishes /\ WantedOf(wanted, op) \in Wishes /\ lost \subseteq Attr /\ object \in Proper
  BY WantedOfIs DEF Inv, TypeInv
<1>7. /\ Sent(meta) \in Proper
      /\ \A w, a : a \in Attr => (With(w, Sent(meta), a) <=> With(w, meta, a))
  BY SentIs
<1>8. /\ due = {} /\ \A e \in ent : e.upload = {}
      /\ \A a \in Replaced(op) \cup (Attr \ lost) :
           /\ With(WantedOf(wanted, op), meta, a)
           /\ change.held => \A e \in ent : With(WantedOf(wanted, op), e.orgmeta, a)
  BY <1>1, <1>3, <1>4 DEF Inv, PutOK
<1>9. Firm = Attr \ (lost \cup Touched(op)) /\ Agreements(wanted, Firm, due, object, ent, opening)
  BY <1>1, <1>3 DEF Firm, Inv
<1>10. \A x, a : a \in Attr \ Touched(op) => (With(WantedOf(wanted, op), x, a) <=> With(wanted, x, a))
  BY <1>6, WantedOfIs
<1>11. change.held => IsOpen
  BY <1>2 DEF Inv, TypeInv, Held
<1>12. CASE
         /\ object' = Sent(meta) /\ Goto("clear", change.held, meta)
         /\ wanted' = WantedOf(wanted, op)
         /\ lost' = (lost \ Replaced(op)) \cup
              (Overtaken(Touched(op)) \cup {a \in Touched(op) : ~change.held /\ IsOpen})
         /\ UNCHANGED due
  <2>1. /\ change' \in Record /\ change'.at = "clear" /\ change'.held = change.held
    BY <1>2, <1>12, GotoIs DEF Stages
  <2>2. Overtaken(Touched(op)) \subseteq Touched(op)
        /\ (opening # {} => Overtaken(Touched(op)) = Touched(op))
    BY DEF Overtaken
  <2>3. lost' \subseteq Attr
    BY <1>5, <1>6, <1>12, <2>2
  <2>4. Held' = Held
    BY <1>1, <1>2, <2>1, ChangingIs DEF Held, Changing, Record, Stages
  <2>5. TypeInv'
    BY <1>1, <1>6, <1>7, <1>12, <2>1, <2>3, <2>4, KnownIs DEF Inv, TypeInv, IsOpen, Handles
  <2>6. StageOK' /\ PutOK' /\ ForceOK' /\ DueOK'
    BY <1>8, <1>12, <2>1 DEF StageOK, PutOK, ForceOK, DueOK
  <2>7. Firm' = Attr \ lost'
    BY <2>1 DEF Firm
  <2>8. \A a \in Firm' : a \in Replaced(op) \cup (Attr \ lost)
    BY <1>12, <2>7
  <2>9. \A a \in Firm' : With(wanted', Sent(meta), a)
    BY <1>7, <1>8, <1>12, <2>7, <2>8
  <2>10. opening # {} \/ (~change.held /\ IsOpen) => Firm' \subseteq Firm
    BY <1>5, <1>9, <1>12, <2>2, <2>7
  <2>11. \A x \in opening : \A a \in Firm' : With(wanted', x, a)
    BY <1>8, <1>9, <1>10, <1>12, <2>7, <2>10 DEF Agreements
  <2>12. \A e \in ent : \A a \in Firm' : With(wanted', e.orgmeta, a)
    <3>1. CASE change.held
      BY <1>8, <1>12, <2>8, <3>1
    <3>2. CASE ~change.held
      <4>1. ent # {} => Firm' \subseteq Firm
        BY <2>10, <3>2 DEF IsOpen
      <4>. QED BY <1>9, <1>10, <1>12, <4>1 DEF Agreements
    <3>. QED BY <3>1, <3>2
  <2>13. Agreements(wanted', Firm', due', object', ent, opening)
    BY <1>8, <1>12, <2>9, <2>11, <2>12 DEF Agreements
  <2>. QED BY <1>1, <2>5, <2>6, <2>13 DEF Inv
<1>13. CASE
         /\ object' \in {object, Sent(meta)} /\ Goto("close", change.held, meta)
         /\ lost' = lost \cup Touched(op) /\ UNCHANGED <<wanted, due>>
  <2>1. /\ change' \in Record /\ change'.at = "close" /\ change'.held = change.held
    BY <1>2, <1>13, GotoIs DEF Stages
  <2>2. lost' \subseteq Attr /\ object' \in Proper
    BY <1>5, <1>6, <1>7, <1>13
  <2>3. Held' = Held
    BY <1>1, <1>2, <2>1, ChangingIs DEF Held, Changing, Record, Stages
  <2>4. TypeInv'
    BY <1>1, <1>13, <2>1, <2>2, <2>3, KnownIs DEF Inv, TypeInv, IsOpen, Handles
  <2>5. StageOK' /\ PutOK' /\ ForceOK' /\ DueOK'
    BY <1>8, <1>13, <2>1 DEF StageOK, PutOK, ForceOK, DueOK
  <2>6. Firm' = Firm
    BY <1>9, <1>13, <2>1 DEF Firm
  <2>7. \A a \in Firm : With(wanted, object', a)
    <3>1. \A a \in Firm : With(wanted, Sent(meta), a)
      BY <1>7, <1>8, <1>9, <1>10
    <3>2. \A a \in Firm : With(wanted, object, a)
      BY <1>8, <1>9 DEF Agreements
    <3>. QED BY <1>13, <3>1, <3>2
  <2>8. Agreements(wanted, Firm, due, object', ent, opening)
    BY <1>9, <2>7 DEF Agreements
  <2>. QED BY <1>1, <1>13, <2>4, <2>5, <2>6, <2>8 DEF Inv
<1>. QED
  <2>1. Wanted(op) = WantedOf(wanted, op)
    BY WantedIs
  <2>. QED BY <1>3, <1>4, <1>12, <1>13, <2>1 DEF Put, Succeed, Fail

\* get_local_fent.
LEMMA FetchStep == ASSUME Inv, Fetch PROVE Inv'
<1>. USE DEF history
<1>1. /\ change.at = "fetch" /\ cached' = {Known}
      /\ lost' = (IF IsOpen THEN lost ELSE lost \cup Outdated(Known))
      /\ UNCHANGED <<nocopy, object, opening, left, wanted, due, failed>>
  BY DEF Fetch
<1>2. change \in Record /\ change.op \in Op /\ change.meta \in Proper
      /\ nocopy /\ change.op.kind = "plain"
  BY <1>1, ChangingIs DEF Inv, TypeInv, Record, StageOK
<1>3. PICK e : e = IF IsOpen THEN The(ent) ELSE Opened(Known)
  OBVIOUS
<1>4. Opened(Known) \in Entities
  <2>1. Opened(Known) \in EntityFields
    BY KnownIs DEF Opened, EntityFields
  <2>2. Opt(Opened(Known).upload, Proper)
    BY DEF Opened, Opt
  <2>. QED BY <2>1, <2>2, EntityOf
<1>5. e \in Entities
  BY <1>3, <1>4, InvOpen
<1>6. Outdated(Known) \subseteq Attr /\ lost' \subseteq Attr /\ lost \subseteq lost'
  BY <1>1 DEF Outdated, Inv, TypeInv
<1>7. Firm = Attr \ lost /\ Agreements(wanted, Firm, due, object, ent, opening)
  BY <1>1 DEF Firm, Inv
<1>8. ~IsOpen => due = {} /\ ent = {}
  BY DEF Inv, DueOK, IsOpen
<1>9. Agreements(wanted, Attr \ lost', due, object, {e}, opening)
  <2>1. CASE IsOpen
    BY <1>1, <1>3, <1>7, <2>1, InvOpen
  <2>2. CASE ~IsOpen
    <3>1. e.orgmeta = Known /\ e.upload = {}
      BY <1>3, <2>2 DEF Opened
    <3>2. \A a \in Attr \ lost' : With(wanted, object, a)
      BY <1>6, <1>7, <1>8, <2>2 DEF Agreements
    <3>3. \A a \in Attr \ lost' : With(wanted, Known, a)
      BY <1>1, <2>2, <3>2, OutdatedIs
    <3>. QED BY <1>6, <1>7, <3>1, <3>2, <3>3 DEF Agreements
  <2>. QED BY <2>1, <2>2
<1>10. Agreements(wanted, Attr \ lost', due, object, ent, opening)
  <2>1. (Attr \ lost') \subseteq Firm /\ (Attr \ lost') \ due \subseteq Firm \ due
    BY <1>6, <1>7
  <2>. QED BY <1>7, <2>1, AgreeLess
<1>11. PICK f : f = [e EXCEPT !.is_modify = FALSE]
  OBVIOUS
<1>12. e \in EntityFields /\ Opt(e.upload, Proper)
  BY <1>5, EntityAs, EntityIs
<1>13. /\ f.orgmeta = e.orgmeta /\ f.pending = e.pending /\ f.upload = e.upload
       /\ f \in EntityFields
  BY <1>11, <1>12 DEF EntityFields
<1>14. f \in Entities
  BY <1>12, <1>13, EntityOf
<1>15. Agreements(wanted, Attr \ lost', due, object, {f}, opening)
  BY <1>9, <1>13 DEF Agreements
<1>16. CASE ent' = {f} /\ Goto("set", TRUE, change.meta)
  <2>1. change' \in Record /\ change'.at = "set" /\ change'.held /\ change'.op = change.op
    BY <1>2, <1>16, GotoIs DEF Stages
  <2>2. TypeInv'
    BY <1>1, <1>6, <1>14, <1>16, <2>1, KnownIs, ChangingIs, OptOne
    DEF Inv, TypeInv, Held, Changing, IsOpen
  <2>3. StageOK' /\ PutOK' /\ ForceOK' /\ DueOK' /\ Firm' = Attr \ lost'
    BY <1>1, <1>2, <1>16, <2>1 DEF StageOK, PutOK, ForceOK, DueOK, IsOpen, Firm
  <2>. QED BY <1>1, <1>15, <1>16, <2>2, <2>3 DEF Inv
<1>17. CASE ent' = {e} /\ Goto("close", TRUE, change.meta)
  <2>1. change' \in Record /\ change'.at = "close" /\ change'.held
    BY <1>2, <1>17, GotoIs DEF Stages
  <2>2. TypeInv'
    BY <1>1, <1>5, <1>6, <1>17, <2>1, KnownIs, ChangingIs, OptOne
    DEF Inv, TypeInv, Held, Changing, IsOpen
  <2>3. StageOK' /\ PutOK' /\ ForceOK' /\ Firm' = Attr \ lost'
    BY <1>1, <2>1 DEF StageOK, PutOK, ForceOK, Firm
  <2>4. DueOK'
    <3>1. due # {} => e.is_modify
      BY <1>1, <1>3, <1>8, InvOpen DEF Inv, DueOK
    <3>. QED BY <1>1, <1>17, <3>1 DEF DueOK, IsOpen
  <2>. QED BY <1>1, <1>9, <1>17, <2>2, <2>3, <2>4 DEF Inv
<1>18. CASE ~IsOpen /\ UNCHANGED ent /\ change' = Idle
  <2>1. change'.at = "idle" /\ ent' = {}
    BY <1>8, <1>18 DEF Idle
  <2>2. TypeInv'
    BY <1>1, <1>6, <1>18, <2>1, KnownIs DEF Inv, TypeInv, Held, Changing
  <2>3. StageOK' /\ PutOK' /\ ForceOK' /\ DueOK' /\ Firm' = Attr \ lost'
    BY <1>1, <1>8, <1>18, <2>1 DEF StageOK, PutOK, ForceOK, DueOK, Firm
  <2>. QED BY <1>1, <1>10, <1>18, <2>2, <2>3 DEF Inv
<1>. QED BY <1>3, <1>11, <1>16, <1>17, <1>18 DEF Fetch

\* SetMode, SetUId and SetGId, SetMtime.
LEMMA SetAttrStep == ASSUME Inv, SetAttr PROVE Inv'
<1>. USE DEF history
<1>1. /\ change.at = "set" /\ Goto("force", TRUE, change.meta)
      /\ UNCHANGED <<nocopy, object, cached, opening, left, wanted, lost, due, failed>>
  BY DEF SetAttr
<1>2. change \in Record /\ change.op \in Op /\ change.meta \in Proper /\ change.held
      /\ nocopy /\ change.op.kind = "plain" /\ Changing /\ Held
  BY <1>1, ChangingIs DEF Inv, TypeInv, Record, StageOK, Held
<1>3. PICK e \in Entities : ent = {e} /\ The(ent) = e
  BY <1>2, InvOpen DEF Inv, TypeInv
<1>4. e.orgmeta \in Proper /\ e \in EntityFields /\ Opt(e.upload, Proper)
  BY EntityIs, EntityAs
<1>5. PICK h \in Proper : h = Changed(change.op, change.meta, e.orgmeta)
  BY <1>2, <1>4, ChangedIs
<1>6. PICK f : f = [e EXCEPT !.orgmeta = h]
  OBVIOUS
<1>7. ent' = {f}
  BY <1>3, <1>5, <1>6 DEF SetAttr
<1>8. /\ f.orgmeta = h /\ f.pending = e.pending /\ f.upload = e.upload /\ f \in EntityFields
  BY <1>4, <1>6 DEF EntityFields
<1>9. f \in Entities /\ IsOpen'
  BY <1>4, <1>7, <1>8, EntityOf DEF IsOpen
<1>10. change' \in Record /\ change'.at = "force" /\ change'.held /\ change'.op = change.op
  BY <1>1, <1>2, GotoIs DEF Stages
<1>11. TypeInv'
  BY <1>1, <1>7, <1>9, <1>10, ChangingIs, OptOne DEF Inv, TypeInv, Held, Changing
<1>12. StageOK' /\ PutOK' /\ DueOK'
  BY <1>1, <1>2, <1>9, <1>10 DEF StageOK, PutOK, DueOK
<1>13. Replaced(change.op) \subseteq Attr /\ wanted \in Wishes
  BY <1>2, OpIs DEF Inv, TypeInv
<1>14. \A a \in Replaced(change.op) : With(WantedOf(wanted, change.op), h, a)
  BY <1>2, <1>4, <1>5, <1>13, ChangedAgrees
<1>15. ForceOK'
  BY <1>1, <1>7, <1>8, <1>10, <1>14 DEF ForceOK
<1>16. Firm' = Firm \ Touched(change.op) /\ Firm \subseteq Attr
  BY <1>1, <1>10 DEF Firm
<1>17. Agreements(wanted, Firm', due, object, {e}, opening)
  <2>1. Firm' \subseteq Firm /\ Firm' \ due \subseteq Firm \ due
    BY <1>16
  <2>. QED BY <1>3, <2>1, AgreeLess DEF Inv
<1>18. \A a \in Firm' : With(wanted, e.orgmeta, a)
  BY <1>17 DEF Agreements
<1>19. \A a \in Firm' : With(wanted, h, a)
  BY <1>2, <1>4, <1>5, <1>16, <1>18, ChangedIs
<1>20. Agreements(wanted, Firm', due, object, {f}, opening)
  BY <1>8, <1>17, <1>19 DEF Agreements
<1>. QED BY <1>1, <1>7, <1>11, <1>12, <1>15, <1>20 DEF Inv

\* Flush(true).
LEMMA ForceFlushStep == ASSUME Inv, ForceFlush PROVE Inv'
<1>. USE DEF history
<1>1. /\ change.at = "force" /\ UNCHANGED <<nocopy, cached, opening, left, failed>>
  BY DEF ForceFlush
<1>2. change \in Record /\ change.op \in Op /\ change.meta \in Proper /\ change.held
      /\ Changing /\ Held
  BY <1>1, ChangingIs DEF Inv, TypeInv, Record, StageOK, Held
<1>3. PICK e \in Entities : ent = {e} /\ The(ent) = e
  BY <1>2, InvOpen DEF Inv, TypeInv
<1>4. PICK op \in Op : op = change.op
  BY <1>2
<1>5. PICK late : late = {a \in Touched(op) : e.upload # {} /\ ~e.pending}
  OBVIOUS
<1>6. PICK r \in RowFlush(e, TRUE) :
       /\ ent' = {r.ent} /\ object' = r.object /\ due' = {}
       /\ \/ /\ r.ok /\ Goto("clear", TRUE, change.meta)
             /\ wanted' = Wanted(op)
             /\ lost' = (lost \ Replaced(op)) \cup
                  (late \cup (Touched(op) \ Replaced(op)) \cup Overtaken(due \cup Touched(op)))
          \/ /\ ~r.ok /\ Goto("close", TRUE, change.meta)
             /\ lost' = lost \cup due \cup Touched(op) /\ UNCHANGED wanted
  BY <1>3, <1>4, <1>5 DEF ForceFlush, Succeed
<1>7. Flushed(e, TRUE, r)
  BY RowFlushIs DEF Inv, TypeInv
<1>8. PICK f \in Entities : f = r.ent
  BY <1>7 DEF Flushed
<1>9. /\ f.orgmeta = e.orgmeta /\ r.object \in Proper /\ r.ok \in BOOLEAN
      /\ f.upload = e.upload \/ f.upload = {}
      /\ f.upload # {} => f.pending = e.pending
  BY <1>7, <1>8 DEF Flushed
<1>10. /\ Touched(op) \subseteq Attr /\ Replaced(op) \subseteq Touched(op)
       /\ late \subseteq Touched(op)
  BY <1>5, OpIs
<1>11. wanted \in Wishes /\ WantedOf(wanted, op) \in Wishes /\ Wanted(op) = WantedOf(wanted, op)
       /\ lost \subseteq Attr /\ due \subseteq Attr
  BY WantedOfIs, WantedIs DEF Inv, TypeInv
<1>12. e.orgmeta \in Proper /\ Opt(e.upload, Proper) /\ e.pending \in BOOLEAN
  BY EntityIs
<1>13. \A w, a : a \in Attr => (With(w, Sent(e.orgmeta), a) <=> With(w, e.orgmeta, a))
  BY <1>12, SentIs
<1>14. e.upload # {} => The(e.upload) \in e.upload
  BY DEF The
<1>15. Firm = Attr \ (lost \cup Touched(op)) /\ Agreements(wanted, Firm, due, object, {e}, opening)
  BY <1>1, <1>3, <1>4 DEF Firm, Inv
<1>16. \A x, a : a \in Attr \ Touched(op) => (With(WantedOf(wanted, op), x, a) <=> With(wanted, x, a))
  BY <1>11, WantedOfIs
<1>17. \A a \in Replaced(op) : With(WantedOf(wanted, op), e.orgmeta, a)
  BY <1>1, <1>3, <1>4 DEF Inv, ForceOK
<1>18. IsOpen'
  BY <1>6 DEF IsOpen
<1>19. CASE
         /\ r.ok /\ Goto("clear", TRUE, change.meta)
         /\ wanted' = Wanted(op)
         /\ lost' = (lost \ Replaced(op)) \cup
              (late \cup (Touched(op) \ Replaced(op)) \cup Overtaken(due \cup Touched(op)))
  <2>1. change' \in Record /\ change'.at = "clear" /\ change'.held
    BY <1>2, <1>19, GotoIs DEF Stages
  <2>2. PICK over : over = Overtaken(due \cup Touched(op))
    OBVIOUS
  <2>3. over \subseteq due \cup Touched(op) /\ (opening # {} => over = due \cup Touched(op))
    BY <2>2 DEF Overtaken
  <2>4. /\ wanted' = WantedOf(wanted, op)
        /\ lost' = (lost \ Replaced(op)) \cup (late \cup (Touched(op) \ Replaced(op)) \cup over)
    BY <1>11, <1>19, <2>2
  <2>5. lost' \subseteq Attr
    BY <1>10, <1>11, <2>3, <2>4
  <2>6. TypeInv'
    BY <1>1, <1>6, <1>8, <1>9, <1>11, <1>18, <2>1, <2>4, <2>5, ChangingIs, OptOne
    DEF Inv, TypeInv, Held, Changing
  <2>7. StageOK' /\ PutOK' /\ ForceOK' /\ DueOK'
    BY <1>6, <2>1 DEF StageOK, PutOK, ForceOK, DueOK
  <2>8. Firm' = Attr \ lost'
    BY <2>1 DEF Firm
  <2>9. \A a \in Firm' : a \in Replaced(op) \/ a \in Firm
    BY <1>10, <1>15, <2>4, <2>8
  <2>10. \A a \in Firm' : With(wanted', e.orgmeta, a)
    <3>1. \A a \in Firm : With(wanted, e.orgmeta, a)
      BY <1>15 DEF Agreements
    <3>. QED BY <1>15, <1>16, <1>17, <2>4, <2>9, <3>1
  <2>11. /\ f.upload = {}
         /\ \/ r.object = Sent(e.orgmeta)
            \/ e.upload # {} /\ ~e.pending /\ r.object = The(e.upload)
    BY <1>7, <1>8, <1>19 DEF Flushed
  <2>12. \A a \in Firm' : With(wanted', r.object, a)
    <3>1. CASE r.object = Sent(e.orgmeta)
      BY <1>13, <2>8, <2>10, <3>1
    <3>2. CASE e.upload # {} /\ ~e.pending /\ r.object = The(e.upload)
      <4>1. \A a \in Firm : With(wanted, r.object, a)
        BY <1>14, <1>15, <3>2 DEF Agreements
      <4>2. late = Touched(op)
        BY <1>5, <3>2
      <4>3. Firm' \subseteq Firm
        BY <1>10, <1>15, <2>4, <2>8, <4>2
      <4>. QED BY <1>15, <1>16, <2>4, <4>1, <4>3
    <3>. QED BY <2>11, <3>1, <3>2
  <2>13. \A x \in opening : \A a \in Firm' : With(wanted', x, a)
    <3>1. opening # {} => Firm' \subseteq Firm \ due
      BY <1>10, <1>15, <2>3, <2>4, <2>8
    <3>2. \A x \in opening : \A a \in Firm' : With(wanted, x, a)
      BY <1>15, <3>1 DEF Agreements
    <3>. QED BY <1>15, <1>16, <2>4, <3>1, <3>2
  <2>14. Agreements(wanted', Firm', {}, r.object, {f}, opening)
    BY <1>9, <2>10, <2>11, <2>12, <2>13 DEF Agreements
  <2>. QED BY <1>1, <1>6, <1>8, <2>6, <2>7, <2>14 DEF Inv
<1>20. CASE
         /\ ~r.ok /\ Goto("close", TRUE, change.meta)
         /\ lost' = lost \cup due \cup Touched(op) /\ UNCHANGED wanted
  <2>1. change' \in Record /\ change'.at = "close" /\ change'.held
    BY <1>2, <1>20, GotoIs DEF Stages
  <2>2. lost' \subseteq Attr
    BY <1>10, <1>11, <1>20
  <2>3. TypeInv'
    BY <1>1, <1>6, <1>8, <1>9, <1>18, <1>20, <2>1, <2>2, ChangingIs, OptOne
    DEF Inv, TypeInv, Held, Changing
  <2>4. StageOK' /\ PutOK' /\ ForceOK' /\ DueOK'
    BY <1>6, <2>1 DEF StageOK, PutOK, ForceOK, DueOK
  <2>5. Firm' = Firm \ due /\ Firm \subseteq Attr
    BY <1>15, <1>20, <2>1 DEF Firm
  <2>6. \A a \in Firm' : With(wanted, r.object, a)
    BY <1>7, <1>13, <1>14, <1>15, <2>5 DEF Agreements, Flushed
  <2>7. Agreements(wanted, Firm', {}, r.object, {f}, opening)
    BY <1>9, <1>15, <2>5, <2>6 DEF Agreements
  <2>. QED BY <1>1, <1>6, <1>8, <1>20, <2>3, <2>4, <2>7 DEF Inv
<1>. QED BY <1>6, <1>19, <1>20

\* The end of a call.
LEMMA ReturnStep == ASSUME Inv, Return PROVE Inv'
<1>. USE DEF history
<1>1. /\ change.at \in {"clear", "close"} /\ change' = Idle
      /\ cached' = (IF change.at = "clear" THEN {} ELSE cached)
      /\ UNCHANGED <<nocopy, object, opening, left, wanted, failed>>
  BY DEF Return
<1>2. change \in Record /\ Changing /\ (change.held => IsOpen)
  BY <1>1, ChangingIs DEF Inv, TypeInv, Held
<1>3. change'.at = "idle" /\ ~Held'
  BY <1>1 DEF Idle, Held, Changing
<1>4. Opt(cached', Proper)
  BY <1>1, OptOne DEF Inv, TypeInv, Opt
<1>5. StageOK' /\ PutOK' /\ ForceOK' /\ Firm = Attr \ lost /\ Firm' = Attr \ lost'
  BY <1>1, <1>3 DEF StageOK, PutOK, ForceOK, Firm
<1>6. Agreements(wanted, Firm, due, object, ent, opening)
  BY DEF Inv
<1>7. CASE UNCHANGED <<ent, lost, due>> /\ \A e \in ent : Handles(e) > 0
  <2>1. TypeInv'
    BY <1>1, <1>3, <1>4, <1>7 DEF Inv, TypeInv, IsOpen, Handles
  <2>2. DueOK'
    BY <1>1, <1>7 DEF Inv, DueOK, IsOpen
  <2>. QED BY <1>1, <1>5, <1>6, <1>7, <2>1, <2>2 DEF Inv
<1>8. CASE ent' = {} /\ lost' = lost \cup due /\ due' = {}
  <2>1. TypeInv'
    BY <1>1, <1>3, <1>4, <1>8 DEF Inv, TypeInv, Opt
  <2>2. DueOK'
    BY <1>8 DEF DueOK
  <2>3. Firm' \subseteq Firm \ due
    BY <1>5, <1>8
  <2>4. Agreements(wanted, Firm', {}, object, {}, opening)
    BY <1>6, <2>3 DEF Agreements
  <2>. QED BY <1>1, <1>5, <1>8, <2>1, <2>2, <2>4 DEF Inv
<1>9. CASE change.held
  <2>1. PICK e \in Entities : ent = {e} /\ The(ent) = e
    BY <1>2, <1>9, InvOpen
  <2>2. /\ ent' = Closed(e, FALSE) /\ lost' = lost \cup Dropped(e, FALSE)
        /\ due' = due \ Dropped(e, FALSE) /\ Handles(e) \in Nat
    BY <1>9, <2>1, EntityIs DEF Return
  <2>3. CASE Handles(e) = 0
    BY <1>8, <2>2, <2>3 DEF Closed, Dropped
  <2>4. CASE Handles(e) # 0
    BY <1>7, <2>1, <2>2, <2>4 DEF Closed, Dropped
  <2>. QED BY <2>3, <2>4
<1>10. CASE ~change.held
  BY <1>7, <1>10 DEF Return, Inv, TypeInv, Held
<1>. QED BY <1>2, <1>9, <1>10 DEF Record

\* Every step keeps the inductive invariant.
LEMMA NextInv == Inv /\ [Next]_vars => Inv'
<1>. SUFFICES ASSUME Inv, [Next]_vars PROVE Inv'
  OBVIOUS
<1>1. CASE UNCHANGED vars
  <2>1. UNCHANGED <<nocopy, object, cached, ent, opening, change, left, history>>
    BY <1>1 DEF vars
  <2>2. Opt(cached', Proper)
    BY <2>1 DEF Inv, TypeInv
  <2>. QED BY <2>1, <2>2, CacheStep
<1>2. CASE Change
  BY <1>2, AskStep, FindStep, MergeOrgMetaStep, MergeRefusedStep, PutStep, FetchStep,
     SetAttrStep, ForceFlushStep, ReturnStep DEF Change
<1>3. CASE File
  BY <1>3, LookupStep, EvictStep, OpenAskStep, OpenEnterStep, WriteStep, ReadHoleStep,
     FlushStep, FsyncStep, ReleaseStep DEF File
<1>. QED BY <1>1, <1>2, <1>3 DEF Next

-----------------------------------------------------------------------------
(***************************************************************************)
(* The theorems.                                                           *)
(***************************************************************************)
\* The inductive invariant holds in every state.
THEOREM InvCorrect == Spec => []Inv
BY InitInv, NextInv, PTL DEF Spec

\* An open file has one upload under way at most, and each store one copy of
\* the headers; a call that changes attributes holds its file until it returns.
THEOREM TypeCorrect == Spec => []TypeOK
<1>1. Inv => TypeOK
  <2>. SUFFICES ASSUME Inv PROVE TypeOK
    OBVIOUS
  <2>. USE DEF Inv, TypeInv
  <2>1. Proper \subseteq Headers /\ Entities \subseteq Entity
    BY DEF Proper, Entities
  <2>2. \A S, o : Opt(o, S) => IsOptional(o, S)
    BY OptIsOptional
  <2>3. Opt(cached, Headers) /\ Opt(opening, Headers) /\ Opt(ent, Entity) /\ object \in Headers
        /\ Opt(object.xattr, SUBSET Name)
    BY <2>1 DEF Opt, Proper
  <2>4. IsOptional(cached, Headers) /\ IsOptional(opening, Headers) /\ IsOptional(ent, Entity)
        /\ IsOptional(object.xattr, SUBSET Name)
    BY <2>2, <2>3
  <2>5. IsOpen => IsOptional(The(ent).upload, Headers)
    <3>. SUFFICES ASSUME IsOpen PROVE IsOptional(The(ent).upload, Headers)
      OBVIOUS
    <3>1. PICK e \in Entities : The(ent) = e
      BY InvOpen
    <3>2. Opt(e.upload, Headers)
      BY <2>1 DEF Entities, Opt
    <3>. QED BY <2>2, <3>1, <3>2
  <2>6. change = Idle
        \/ change \in [at : {"find", "merge", "put", "fetch", "set", "force", "clear", "close"},
                       op : Op, meta : Headers, held : BOOLEAN]
    BY <2>1 DEF Record, Stages
  <2>7. IsOpen => Held \/ Handles(The(ent)) > 0
    <3>. SUFFICES ASSUME IsOpen PROVE Held \/ Handles(The(ent)) > 0
      OBVIOUS
    <3>1. PICK e \in Entities : ent = {e} /\ The(ent) = e
      BY InvOpen
    <3>. QED BY <3>1
  <2>. QED BY <2>3, <2>4, <2>5, <2>6, <2>7 DEF TypeOK, Wishes
<1>. QED BY <1>1, InvCorrect, PTL

\* Settled attributes are firm, and agree where firm ones do.
LEMMA SettledIs ==
  ASSUME Inv
  PROVE  /\ Settled \subseteq Firm
         /\ \A h, a : Agree(h, a) <=> With(wanted, h, a)
BY ChangingIs DEF Inv, TypeInv, Settled, Firm, Agree, With

\* What a change that returned 0 has set is in the object, or waits for the
\* upload of a file that is open and modified: no flush, upload, lookup, open or
\* release beside the changes takes it back unless the code has given it up.
THEOREM ChangesCorrect == Spec => []ChangesAreKept
<1>1. Inv => ChangesAreKept
  <2>. SUFFICES ASSUME Inv PROVE ChangesAreKept
    OBVIOUS
  <2>1. \A a \in Settled \ due : Agree(object, a)
    BY SettledIs DEF Inv, Agreements
  <2>2. Settled \cap due # {} => IsOpen /\ (The(ent).is_modify \/ change.at \in {"set", "force"})
    BY InvOpen DEF Inv, DueOK
  <2>. QED BY <2>1, <2>2 DEF ChangesAreKept
<1>. QED BY <1>1, InvCorrect, PTL

\* The headers that the next upload of an open file puts are those the changes
\* have set, in the attributes the code has not given up (lost).
THEOREM OpenFileCorrect == Spec => []OpenFileAgrees
<1>1. Inv => OpenFileAgrees
  <2>. SUFFICES ASSUME Inv, IsOpen PROVE \A a \in Settled : Agree(The(ent).orgmeta, a)
    BY DEF OpenFileAgrees
  <2>1. PICK e \in Entities : ent = {e} /\ The(ent) = e
    BY InvOpen
  <2>. QED BY <2>1, SettledIs DEF Inv, Agreements
<1>. QED BY <1>1, InvCorrect, PTL
=============================================================================
