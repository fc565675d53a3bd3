---------------------------- MODULE Upload_proofs ----------------------------
(***************************************************************************)
(* Theorems about Upload, for any number of parts, of changes of the       *)
(* source, of upload ids and of attempts, any batch and any limit of       *)
(* requests: the type invariant; that the ETags listed are those of the    *)
(* parts the server has; that the object is always one whole source,       *)
(* whatever requests arrive late; and, if only part requests do, that an   *)
(* upload replaces the object as ObjectPut says.                           *)
(***************************************************************************)
EXTENDS Upload, TLAPS

USE UploadAssumption

-----------------------------------------------------------------------------
(***************************************************************************)
(* The inductive invariant.                                                *)
(***************************************************************************)
\* A late request puts or completes one whole source, or stores a part; one
\* that stores a part of the upload that runs has it from its source.
LateRequest ==
  [kind : {"put"}, id : {NoId}, list : {Whole(s) : s \in Source}]
  \cup [kind : {"part"}, id : Id, list : {<<piece>> : piece \in Piece}]
  \cup [kind : {"complete"}, id : Id, list : {Whole(s) : s \in Source}]

LateOK ==
  /\ late \subseteq LateRequest
  /\ \A r \in late : r.kind = "part" /\ r.id = call.id => r.list[1].of = source

\* What goes with the step the upload has reached.
StepOK ==
  /\ call.op = "idle" <=> call.step = "idle"
  /\ call.step \in {"put", "initiate", "copy", "complete"} => call.left > 0
  /\ IF call.step \in {"idle", "put", "initiate"}
       THEN call.id = NoId /\ call.list = <<>> ELSE call.id \in Id
  /\ call.step = "copy" => Len(call.list) < source.parts

\* A batch that is not complete leaves a gap in the list, so that a list
\* without one is that of the whole source when the upload is completed.
HasGap == \E i \in DOMAIN call.list : call.list[i] = NoPiece

GapsOK ==
  /\ \A i \in call.todo : call.list[i] = NoPiece
  /\ call.broken => call.step = "join" /\ HasGap
  /\ call.step = "complete" => HasGap \/ Len(call.list) = source.parts

\* The threads work on parts whose place in the list is empty; the part of
\* one that has ended well is on the server.
WorkersOK ==
  \A p \in Part :
    worker[p].state # "none" =>
      /\ p \in DOMAIN call.list /\ call.list[p] = NoPiece /\ p \notin call.todo
      /\ worker[p].state = "running" => worker[p].left > 0
      /\ worker[p].state = "ok" /\ uploads[call.id].open =>
           uploads[call.id].parts[p] = [of |-> source, part |-> p]

IInv == TypeOK /\ StepOK /\ LateOK /\ GapsOK /\ WorkersOK
        /\ ListedPartsAreThere /\ ObjectIsWhole

-----------------------------------------------------------------------------
(***************************************************************************)
(* Operators of the model.                                                 *)
(***************************************************************************)
\* The source of one piece can be told from that of another, and a piece from
\* the empty place of one that is missing.
LEMMA Pieces ==
  ASSUME NEW s \in Source, NEW p \in Part
  PROVE  /\ [of |-> s, part |-> p] \in Piece
         /\ [of |-> s, part |-> p] # NoPiece
         /\ s.parts \in Part /\ s.version \in Int
BY DEF Source, Piece, NoPiece, Part

\* A whole source is a sequence of its parts, and its parts tell which one.
LEMMA Wholes ==
  ASSUME NEW s \in Source
  PROVE  /\ Whole(s) \in [1 .. s.parts -> Piece] /\ s.parts \in Part
         /\ Len(Whole(s)) = s.parts /\ Whole(s)[1].of = s
BY DEF Whole, Source, Piece, Part

\* One attempt uses up one of the attempts left and is repeated only if there
\* is another.
LEMMA AnAttempt ==
  ASSUME NEW left \in 1 .. Retries, NEW o \in Attempts(left)
  PROVE  /\ o.done \in BOOLEAN /\ o.answer \in {"ok", "again", "failed"}
         /\ o.left \in 0 .. Retries /\ (o.answer = "ok" => o.done)
         /\ o.answer = "again" => o.left > 0
BY DEF Attempts

\* A part that is stored is a part of its upload, if that is open, and every
\* other part and upload is as before.
LEMMA StoredPart ==
  ASSUME uploads \in [Id -> UploadState], NEW id \in Id, NEW piece \in Piece
  PROVE  /\ StorePart(id, piece) \in [Id -> UploadState]
         /\ \A x \in Id : StorePart(id, piece)[x].open = uploads[x].open
         /\ \A x \in Id, p \in Part :
              StorePart(id, piece)[x].parts[p] =
                IF x = id /\ uploads[id].open /\ p = piece.part THEN piece
                ELSE uploads[x].parts[p]
<1>1. piece.part \in Part /\ piece \in PieceOrNone
  BY DEF Piece, PieceOrNone
<1>2. CASE ~uploads[id].open
  BY <1>2 DEF StorePart
<1>3. CASE uploads[id].open
  <2> DEFINE u == [uploads[id] EXCEPT !.parts[piece.part] = piece]
  <2>1. uploads[id] \in UploadState
    OBVIOUS
  <2>2. u \in UploadState /\ u.open = uploads[id].open
        /\ \A p \in Part : u.parts[p] = IF p = piece.part THEN piece ELSE uploads[id].parts[p]
    BY <1>1, <2>1 DEF UploadState
  <2>3. StorePart(id, piece) = [uploads EXCEPT ![id] = u]
    BY <1>3 DEF StorePart
  <2> HIDE DEF u
  <2>. QED BY <1>1, <1>3, <2>2, <2>3
<1>. QED BY <1>2, <1>3

\* The upload that is not used has no part and is not open.
LEMMA UnusedType == Unused \in UploadState /\ ~Unused.open
BY DEF Unused, UploadState, PieceOrNone

\* A late request is one of the three, and names what it carries.
LEMMA LateKinds ==
  ASSUME NEW r \in LateRequest
  PROVE  /\ r.kind \in {"put", "part", "complete"} /\ r.id \in Id \cup {NoId}
         /\ r.kind \in {"put", "complete"} => \E s \in Source : r.list = Whole(s)
         /\ r.kind = "part" => r.list[1] \in Piece
         /\ r.kind \in {"part", "complete"} => r.id \in Id
BY DEF LateRequest

\* Return leaves a call that no upload is part of.
LEMMA IdleCall ==
  ASSUME NEW result \in {"none", "ok", "failed"}
  PROVE  /\ Idle(result) \in Call /\ Idle(result).op = "idle" /\ Idle(result).step = "idle"
         /\ Idle(result).id = NoId /\ Idle(result).list = <<>> /\ Idle(result).todo = {}
         /\ Idle(result).broken = FALSE /\ Idle(result).result = result
         /\ Len(<<>>) = 0 /\ DOMAIN <<>> = {}
<1>1. <<>> \in [1 .. 0 -> PieceOrNone]
  OBVIOUS
<1>2. <<>> \in UNION {[1 .. n -> PieceOrNone] : n \in 0 .. MaxParts}
  BY <1>1
<1>. QED BY <1>2 DEF Idle, Call, Step

\* The lists of ETags a call may have.
Lists == UNION {[1 .. n -> PieceOrNone] : n \in 0 .. MaxParts}

\* What the type of a call says, the set of its lists under a name.
LEMMA CallType ==
  Call = [op : {"idle", "put", "upload", "copy"}, step : Step, left : 0 .. Retries,
          id : Id \cup {NoId}, list : Lists,
          todo : SUBSET Part, broken : BOOLEAN, result : {"none", "ok", "failed"}]
BY DEF Call, Lists

\* The full number of attempts is one that a call may have left.
LEMMA AllLeft == Retries \in 0 .. Retries
OBVIOUS

\* An attempt leaves a call a call, and its other fields as they are.
LEMMA SetLeft ==
  ASSUME NEW c \in Call, NEW x \in 0 .. Retries
  PROVE  LET d == [c EXCEPT !.left = x] IN
         /\ d \in Call /\ d.left = x
         /\ d.op = c.op /\ d.step = c.step /\ d.id = c.id /\ d.list = c.list
         /\ d.todo = c.todo /\ d.broken = c.broken /\ d.result = c.result
BY CallType

\* The list of ETags has a place for each part up to its length.
LEMMA CallList ==
  ASSUME call \in Call
  PROVE  /\ DOMAIN call.list = 1 .. Len(call.list) /\ Len(call.list) \in 0 .. MaxParts
         /\ call.list \in [1 .. Len(call.list) -> PieceOrNone]
         /\ \A i \in DOMAIN call.list : i \in Part
<1>1. PICK n \in 0 .. MaxParts : call.list \in [1 .. n -> PieceOrNone]
  BY DEF Call
<1>. QED BY <1>1 DEF Part

\* A sequence of that kind is one a call may have.
LEMMA ListType ==
  ASSUME NEW n \in 0 .. MaxParts, NEW list \in [1 .. n -> PieceOrNone]
  PROVE  /\ list \in Lists
         /\ Len(list) = n /\ DOMAIN list = 1 .. n
BY DEF Lists

\* Storing a part of the source of the upload that runs, or a part of another
\* upload, keeps the parts that are there.
LEMMA StoreKeeps ==
  ASSUME uploads \in [Id -> UploadState], source \in Source, call.id \in Id,
         NEW id \in Id, NEW piece \in Piece, id = call.id => piece.of = source
  PROVE  LET after == StorePart(id, piece) IN
         /\ after[call.id].open = uploads[call.id].open
         /\ \A p \in Part :
              uploads[call.id].parts[p] = [of |-> source, part |-> p]
                => after[call.id].parts[p] = [of |-> source, part |-> p]
         /\ id = call.id /\ uploads[call.id].open
              => after[call.id].parts[piece.part] = piece
<1>1. piece.part \in Part /\ piece = [of |-> piece.of, part |-> piece.part]
  BY DEF Piece
<1>. QED BY <1>1, StoredPart

-----------------------------------------------------------------------------
(***************************************************************************)
(* Each action keeps the invariant.                                        *)
(***************************************************************************)
\* The invariant holds at the start.
LEMMA InitInv == Init => IInv
<1> SUFFICES ASSUME Init PROVE IInv
  OBVIOUS
<1>1. source \in Source /\ object = Whole(source)
  BY DEF Init
<1>2. \E n \in Part : object \in [1 .. n -> Piece]
  BY <1>1, Wholes
<1>3. uploads \in [Id -> UploadState] /\ late = {} /\ call = Idle("none")
  BY UnusedType DEF Init
<1>4. worker \in [Part -> Worker] /\ \A p \in Part : worker[p].state = "none"
  BY DEF Init, Worker, NoWorker
<1>5. TypeOK
  BY <1>1, <1>2, <1>3, <1>4, IdleCall DEF TypeOK, Finished, Source, Part
<1>6. StepOK
  BY <1>3, IdleCall DEF StepOK
<1>7. LateOK /\ WorkersOK /\ GapsOK /\ ListedPartsAreThere
  BY <1>3, <1>4, IdleCall DEF LateOK, WorkersOK, GapsOK, ListedPartsAreThere
<1>8. ObjectIsWhole
  BY <1>1 DEF ObjectIsWhole
<1>. QED BY <1>5, <1>6, <1>7, <1>8 DEF IInv

\* A call that ends leaves nothing the invariant speaks of, but the object.
LEMMA ReturnInv ==
  ASSUME IInv, NEW result \in {"none", "ok", "failed"}, call' = Idle(result),
         worker' = worker, call.step # "join",
         source' \in Source, uploads' \in [Id -> UploadState], ObjectIsWhole',
         late' \subseteq LateRequest,
         \A r \in late' : r.kind \in Late /\ r.id \in Id \cup {NoId}
  PROVE  IInv'
<1>1. \A p \in Part : worker'[p].state = "none"
  BY DEF IInv, TypeOK, Finished
<1>2. worker' \in [Part -> Worker]
  BY DEF IInv, TypeOK
<1>3. \E n \in Part : object' \in [1 .. n -> Piece]
  BY Wholes DEF ObjectIsWhole
<1>4. source'.parts \in Nat
  BY DEF Source, Part
<1>5. TypeOK'
  BY <1>1, <1>2, <1>3, <1>4, IdleCall DEF TypeOK, Finished
<1>6. StepOK' /\ GapsOK' /\ ListedPartsAreThere' /\ WorkersOK'
  BY <1>1, IdleCall DEF StepOK, GapsOK, ListedPartsAreThere, WorkersOK, HasGap
<1>7. LateOK'
  BY IdleCall, LateKinds DEF LateOK
<1>. QED BY <1>5, <1>6, <1>7 DEF IInv

\* Nor does a change of the source between two uploads.
LEMMA ChangeInv == ASSUME IInv, Change PROVE IInv'
<1>1. source' \in Source
  BY DEF Change, Source, IInv, TypeOK
<1>2. call.step # "join"
  BY DEF IInv, StepOK, Change
<1>3. ObjectIsWhole'
  BY DEF Change, IInv, ObjectIsWhole
<1>. QED BY <1>1, <1>2, <1>3, ReturnInv DEF Change, IInv, TypeOK, LateOK

\* An upload begins without an id and with an empty list.
LEMMA BeginInv ==
  ASSUME IInv, NEW op \in {"put", "upload", "copy"}, Begin(op) PROVE IInv'
<1> DEFINE c == Idle("none")
           s == IF op = "put" THEN "put" ELSE "initiate"
<1>0. call' = [c EXCEPT !.op = op, !.left = Retries, !.step = s]
  BY DEF Begin
<1>c. c \in Call
  BY IdleCall
<1>1. /\ c.id = NoId /\ c.list = <<>> /\ c.todo = {} /\ c.broken = FALSE
      /\ UNCHANGED <<source, object, uploads, late, worker>> /\ call.op = "idle"
  BY IdleCall DEF Begin
<1>2. call' \in Call /\ call'.op = op /\ call'.step = s /\ call'.left = Retries
      /\ call'.id = NoId /\ call'.list = <<>> /\ call'.todo = {} /\ call'.broken = FALSE
  <2>1. s \in Step
    BY DEF Step
  <2> HIDE DEF c, s
  <2> DEFINE d == [c EXCEPT !.op = op, !.left = Retries, !.step = s]
  <2>2. /\ d \in Call /\ d.op = op /\ d.left = Retries /\ d.step = s
        /\ d.id = c.id /\ d.list = c.list /\ d.todo = c.todo /\ d.broken = c.broken
    BY <1>c, <2>1, AllLeft, CallType
  <2>3. call' = d
    BY <1>0
  <2> HIDE DEF d
  <2>. QED BY <1>1, <2>2, <2>3
<1>3. s \in {"put", "initiate"} /\ Len(<<>>) = 0 /\ DOMAIN <<>> = {}
  OBVIOUS
<1> HIDE DEF c, s
<1>4. \A p \in Part : worker[p].state = "none"
  BY <1>1 DEF IInv, TypeOK, StepOK, Finished
<1>5. TypeOK'
  BY <1>1, <1>2, <1>3, <1>4 DEF IInv, TypeOK, Finished, Source, Part
<1>6. StepOK'
  BY <1>2, <1>3 DEF StepOK
<1>7. LateOK'
  BY <1>1, <1>2, LateKinds DEF IInv, LateOK
<1>8. GapsOK' /\ WorkersOK' /\ ListedPartsAreThere'
  BY <1>1, <1>2, <1>3, <1>4 DEF GapsOK, WorkersOK, ListedPartsAreThere
<1>9. ObjectIsWhole'
  BY <1>1 DEF IInv, ObjectIsWhole
<1>. QED BY <1>5, <1>6, <1>7, <1>8, <1>9 DEF IInv

\* What every step of the server or of another thread leaves to the upload
\* that runs: the parts it has stored, while its id is open.
PartsStay ==
  /\ uploads' \in [Id -> UploadState]
  /\ call.id \in Id /\ uploads'[call.id].open =>
       /\ uploads[call.id].open
       /\ \A p \in Part :
            uploads[call.id].parts[p] = [of |-> source, part |-> p]
              => uploads'[call.id].parts[p] = [of |-> source, part |-> p]

\* What a step may do to the late requests.
LateStays ==
  /\ late' \subseteq LateRequest
  /\ \A r \in late' : r.kind \in Late /\ r.id \in Id \cup {NoId}
  /\ \A r \in late' : r.kind = "part" /\ r.id = call.id => r.list[1].of = source

\* A step that leaves the server's uploads leaves their parts.
LEMMA PartsStayUnchanged == ASSUME IInv, uploads' = uploads PROVE PartsStay
BY DEF IInv, TypeOK, PartsStay

\* So does one that stores a part of the source that is uploaded, or a part of
\* another upload.
LEMMA PartsStayStored ==
  ASSUME IInv, NEW id \in Id, NEW piece \in Piece, id = call.id => piece.of = source,
         uploads' = StorePart(id, piece)
  PROVE  PartsStay
BY StoreKeeps, StoredPart DEF IInv, TypeOK, PartsStay

\* A step that leaves the late requests keeps what they are.
LEMMA LateStaysUnchanged == ASSUME IInv, late' = late PROVE LateStays
BY DEF IInv, TypeOK, LateOK, LateStays

\* So does one that gives up a request, if it is for a part of the source that
\* is uploaded, or for the whole.
LEMMA LateStaysDelayed ==
  ASSUME IInv, NEW o, NEW request \in LateRequest, Delay(o, request),
         request.kind = "part" => request.list[1].of = source
  PROVE  LateStays
<1>1. \A r \in late \cup {request} : r.kind = "part" /\ r.id = call.id => r.list[1].of = source
  BY DEF IInv, LateOK
<1>2. late \subseteq LateRequest /\ \A r \in late : r.kind \in Late /\ r.id \in Id \cup {NoId}
  BY DEF IInv, TypeOK, LateOK
<1>3. request.id \in Id \cup {NoId}
  BY LateKinds
<1>4. late' = late \/ (request.kind \in Late /\ late' = late \cup {request})
  BY DEF Delay
<1>. QED BY <1>1, <1>2, <1>3, <1>4 DEF LateStays

\* The upload goes on to another attempt, or waits while the server or
\* another thread does something.
LEMMA AgainInv ==
  ASSUME IInv, PartsStay, LateStays, ObjectIsWhole', UNCHANGED <<source, worker>>,
         \/ call' = call
         \/ \E n \in 1 .. Retries : call' = [call EXCEPT !.left = n]
  PROVE  IInv'
<1>1. /\ call' \in Call /\ call'.op = call.op /\ call'.step = call.step
      /\ call'.id = call.id /\ call'.list = call.list /\ call'.todo = call.todo
      /\ call'.broken = call.broken /\ (call'.left = call.left \/ call'.left > 0)
  <2>1. call \in Call
    BY DEF IInv, TypeOK
  <2>2. CASE call' = call
    BY <2>1, <2>2
  <2>3. ASSUME NEW n \in 1 .. Retries, call' = [call EXCEPT !.left = n]
        PROVE  /\ call' \in Call /\ call'.op = call.op /\ call'.step = call.step
               /\ call'.id = call.id /\ call'.list = call.list /\ call'.todo = call.todo
               /\ call'.broken = call.broken /\ call'.left = n
    <3>1. n \in 0 .. Retries
      OBVIOUS
    <3> DEFINE d == [call EXCEPT !.left = n]
    <3>2. /\ d \in Call /\ d.left = n
          /\ d.op = call.op /\ d.step = call.step /\ d.id = call.id /\ d.list = call.list
          /\ d.todo = call.todo /\ d.broken = call.broken
      BY <2>1, <3>1, SetLeft
    <3> HIDE DEF d
    <3>3. call' = d
      BY <2>3 DEF d
    <3>. QED BY <3>2, <3>3
  <2>. QED BY <2>2, <2>3
<1>2. TypeOK'
  BY <1>1, Wholes DEF IInv, TypeOK, PartsStay, LateStays, ObjectIsWhole, Finished
<1>3. StepOK'
  BY <1>1 DEF IInv, StepOK
<1>4. LateOK'
  BY <1>1 DEF LateStays, LateOK
<1>5. GapsOK'
  BY <1>1 DEF IInv, GapsOK, HasGap
<1>6. \A p \in Part : worker[p].state # "none" => call.id \in Id
  BY DEF IInv, TypeOK, StepOK, Finished
<1>7. WorkersOK'
  BY <1>1, <1>6 DEF IInv, WorkersOK, PartsStay
<1>8. \A i \in DOMAIN call.list : call.id \in Id /\ i \in Part
  <2>1. DOMAIN <<>> = {}
    OBVIOUS
  <2>. QED BY <2>1, CallList DEF IInv, TypeOK, StepOK
<1>9. ListedPartsAreThere'
  BY <1>1, <1>8 DEF IInv, ListedPartsAreThere, PartsStay
<1>. QED BY <1>2, <1>3, <1>4, <1>5, <1>7, <1>9 DEF IInv

\* The PUT of a small file.
LEMMA PutInv == ASSUME IInv, Put PROVE IInv'
<1>1. call.left \in 1 .. Retries /\ call.step = "put" /\ source \in Source
  BY DEF IInv, TypeOK, StepOK, Put, Call
<1>2. PICK o \in Attempts(call.left) :
       /\ object' = IF o.done THEN Whole(source) ELSE object
       /\ IF o.answer = "again" THEN call' = [call EXCEPT !.left = o.left] ELSE Return(o.answer)
       /\ Delay(o, Request("put", NoId, Whole(source)))
  BY DEF Put
<1>3. UNCHANGED <<source, uploads, worker>>
  BY DEF Put
<1>4. ObjectIsWhole'
  BY <1>1, <1>2, <1>3 DEF IInv, ObjectIsWhole
<1>5. Request("put", NoId, Whole(source)) \in LateRequest
      /\ Request("put", NoId, Whole(source)).kind = "put"
  BY <1>1 DEF Request, LateRequest
<1>6. LateStays
  BY <1>2, <1>5, LateStaysDelayed
<1>7. PartsStay
  BY <1>3, PartsStayUnchanged
<1>8. CASE o.answer = "again"
  <2>1. o.left \in 1 .. Retries
    BY <1>1, <1>8, AnAttempt
  <2>. QED BY <1>2, <1>3, <1>4, <1>6, <1>7, <1>8, <2>1, AgainInv
<1>9. CASE o.answer # "again"
  <2>1. o.answer \in {"none", "ok", "failed"}
    BY <1>1, <1>9, AnAttempt
  <2>. QED BY <1>1, <1>2, <1>3, <1>4, <1>6, <1>9, <2>1, ReturnInv
           DEF Return, LateStays, IInv, TypeOK
<1>. QED BY <1>8, <1>9

\* Only a batch that is waited for has threads.
LEMMA NoThreads ==
  ASSUME IInv, call.step # "join" PROVE \A p \in Part : worker[p].state = "none"
BY DEF IInv, TypeOK, Finished

\* The id an upload gets is not used by another, nor by a late request.
LEMMA InitiateInv == ASSUME IInv, Initiate PROVE IInv'
<1> DEFINE id == CHOOSE x \in FreeId : TRUE
           s == IF call.op = "copy" THEN "copy" ELSE "fill"
<1>1. id \in FreeId
  BY DEF Initiate
<1>2. id \in Id /\ uploads[id] = Unused /\ \A r \in late : r.id # id
  BY <1>1 DEF FreeId
<1>3. PICK o \in Attempts(call.left) :
       /\ uploads' = IF o.done THEN [uploads EXCEPT ![id].open = TRUE] ELSE uploads
       /\ CASE o.answer = "again"  -> call' = [call EXCEPT !.left = o.left]
            [] o.answer = "failed" -> Return("failed")
            [] o.answer = "ok"     -> call' = [call EXCEPT !.id = id, !.left = Retries, !.step = s]
  BY DEF Initiate
<1> HIDE DEF id
<1>4. /\ call.step = "initiate" /\ call.left \in 1 .. Retries
      /\ call.id = NoId /\ call.list = <<>> /\ call.todo = {} /\ ~call.broken
      /\ call \in Call /\ source \in Source
  <2>1. DOMAIN <<>> = {}
    OBVIOUS
  <2>. QED BY <2>1 DEF Initiate, IInv, TypeOK, StepOK, GapsOK, Call
<1>5. UNCHANGED <<source, object, late, worker>>
  BY DEF Initiate
<1>6. PartsStay
  BY <1>2, <1>3, <1>4 DEF PartsStay, IInv, TypeOK, UploadState
<1>7. LateStays /\ ObjectIsWhole'
  BY <1>5, LateStaysUnchanged DEF IInv, ObjectIsWhole
<1>8. CASE o.answer = "again"
  <2>1. o.left \in 1 .. Retries /\ call' = [call EXCEPT !.left = o.left]
    BY <1>3, <1>4, <1>8, AnAttempt
  <2>. QED BY <1>5, <1>6, <1>7, <2>1, AgainInv
<1>9. CASE o.answer = "failed"
  <2>1. call' = Idle("failed")
    BY <1>3, <1>9 DEF Return
  <2>. QED BY <1>4, <1>5, <1>6, <1>7, <2>1, ReturnInv DEF PartsStay, LateStays
<1>10. CASE o.answer = "ok"
  <2> DEFINE d == [call EXCEPT !.id = id, !.left = Retries, !.step = s]
  <2>0. s \in Step
    BY DEF Step
  <2>1. s \in {"copy", "fill"} /\ DOMAIN <<>> = {}
        /\ Len(<<>>) = 0
    OBVIOUS
  <2>2. id \in Id /\ call \in Call
    BY <1>2, <1>4
  <2>3. call' = d
    BY <1>3, <1>10
  <2> HIDE DEF s
  <2>4. /\ d \in Call /\ d.id = id /\ d.left = Retries /\ d.step = s
        /\ d.op = call.op /\ d.list = call.list /\ d.todo = call.todo /\ d.broken = call.broken
    BY <2>0, <2>2, AllLeft, CallType
  <2> HIDE DEF d
  <2>5. \A p \in Part : worker'[p].state = "none"
    BY <1>4, <1>5, NoThreads
  <2>6. TypeOK'
    BY <1>4, <1>5, <1>6, <2>1, <2>3, <2>4, <2>5 DEF IInv, TypeOK, PartsStay, Finished, Source, Part
  <2>7. StepOK'
    BY <1>2, <1>4, <1>5, <2>1, <2>3, <2>4 DEF IInv, StepOK, Source, Part
  <2>8. LateOK'
    BY <1>2, <1>5, <2>3, <2>4 DEF IInv, LateOK
  <2>9. GapsOK' /\ WorkersOK' /\ ListedPartsAreThere'
    BY <1>4, <2>1, <2>3, <2>4, <2>5 DEF GapsOK, WorkersOK, ListedPartsAreThere
  <2>. QED BY <1>7, <2>6, <2>7, <2>8, <2>9 DEF IInv
<1>. QED BY <1>4, <1>8, <1>9, <1>10, AnAttempt

\* The first of two numbers that is the smaller.
LEMMA SmallestFacts ==
  ASSUME NEW m \in Int, NEW n \in Int
  PROVE  /\ Smallest(m, n) \in {m, n} /\ Smallest(m, n) <= m /\ Smallest(m, n) <= n
         /\ Smallest(m, n) \in Int
BY DEF Smallest

\* ParallelMultipartUploadRequest sets up a batch, or has no more to upload.
LEMMA FillInv == ASSUME IInv, Fill PROVE IInv'
<1> DEFINE upto == Smallest(Uploaded + Parallel, source.parts)
           todo == (Uploaded + 1) .. upto
           list == [i \in 1 .. upto |-> IF i <= Uploaded THEN call.list[i] ELSE NoPiece]
<1>1. call \in Call
  BY DEF IInv, TypeOK
<1>2. /\ call.step = "fill" /\ call.id \in Id /\ ~call.broken /\ call.op # "idle"
      /\ source \in Source /\ source.parts \in 1 .. MaxParts
      /\ UNCHANGED <<source, object, uploads, late, worker>>
  BY Pieces DEF Fill, IInv, TypeOK, StepOK, GapsOK, Source, Part
<1>3. /\ DOMAIN call.list = 1 .. Uploaded /\ Uploaded \in 0 .. source.parts
      /\ call.list \in [1 .. Uploaded -> PieceOrNone]
  BY <1>1, <1>2, CallList DEF Uploaded, IInv, TypeOK
<1>4. \A p \in Part : worker[p].state = "none"
  BY <1>2, NoThreads
<1>5. PartsStay /\ LateStays /\ ObjectIsWhole'
  BY <1>2, PartsStayUnchanged, LateStaysUnchanged DEF IInv, ObjectIsWhole
<1>6. "complete" \in Step /\ "take" \in Step
  BY DEF Step
<1>7. CASE call' = Idle("failed")
  BY <1>2, <1>5, <1>7, ReturnInv DEF PartsStay, LateStays
<1>8. CASE Uploaded >= source.parts /\ call' = [call EXCEPT !.step = "complete", !.left = Retries]
  <2> DEFINE d == [call EXCEPT !.step = "complete", !.left = Retries]
  <2>1. /\ d \in Call /\ d.step = "complete" /\ d.left = Retries /\ d.op = call.op
        /\ d.id = call.id /\ d.list = call.list /\ d.todo = call.todo /\ d.broken = call.broken
    BY <1>1, <1>6, AllLeft, CallType
  <2>2. call' = d
    BY <1>8
  <2> HIDE DEF d
  <2>3. TypeOK'
    BY <1>2, <1>4, <2>1, <2>2 DEF IInv, TypeOK, Finished
  <2>4. StepOK' /\ LateOK'
    BY <1>2, <2>1, <2>2 DEF StepOK, LateOK, IInv
  <2>5. GapsOK'
    BY <1>2, <1>3, <1>8, <2>1, <2>2 DEF GapsOK, IInv, Uploaded
  <2>6. WorkersOK'
    BY <1>2, <1>4 DEF WorkersOK
  <2>7. ListedPartsAreThere'
    BY <1>2, <2>1, <2>2 DEF IInv, ListedPartsAreThere
  <2>. QED BY <1>5, <2>3, <2>4, <2>5, <2>6, <2>7 DEF IInv
<1>9. CASE /\ Uploaded < source.parts
           /\ call' = [call EXCEPT !.step = "take", !.todo = todo, !.list = list]
  <2> DEFINE d == [call EXCEPT !.step = "take", !.todo = todo, !.list = list]
  <2>1. upto \in 1 .. MaxParts /\ upto <= source.parts /\ upto >= Uploaded
    <3>1. Parallel \in Nat \ {0} /\ Uploaded + Parallel \in Int /\ source.parts \in Int
      BY <1>2, <1>3
    <3>2. upto \in {Uploaded + Parallel, source.parts} /\ upto <= source.parts
      BY <3>1, SmallestFacts
    <3> HIDE DEF upto
    <3>. QED BY <1>2, <1>3, <1>9, <3>1, <3>2
  <2>2. list \in [1 .. upto -> PieceOrNone]
    BY <1>3, <2>1 DEF PieceOrNone
  <2>3. list \in Lists /\ Len(list) = upto /\ DOMAIN list = 1 .. upto
    BY <2>1, <2>2, ListType
  <2>4. todo \in SUBSET Part /\ \A i \in todo : i \in DOMAIN list /\ list[i] = NoPiece
    BY <1>3, <2>1 DEF Part
  <2>5. \A i \in DOMAIN list : list[i] # NoPiece => i \in DOMAIN call.list /\ list[i] = call.list[i]
    BY <1>3, <2>1
  <2>c. call' = d
    BY <1>9
  <2> HIDE DEF todo, list, upto
  <2>6. todo \in SUBSET Part /\ list \in Lists
    BY <2>3, <2>4
  <2>7. /\ d \in Call /\ d.step = "take" /\ d.todo = todo /\ d.list = list
        /\ d.op = call.op /\ d.id = call.id /\ d.broken = call.broken
    BY <1>1, <1>6, <2>6, CallType
  <2> HIDE DEF d
  <2>8. TypeOK'
    BY <1>2, <1>4, <2>1, <2>3, <2>4, <2>7, <2>c DEF IInv, TypeOK, Finished
  <2>9. StepOK' /\ LateOK'
    BY <1>2, <2>7, <2>c DEF StepOK, LateOK, IInv
  <2>10. GapsOK'
    BY <1>2, <2>4, <2>7, <2>c DEF GapsOK
  <2>11. WorkersOK'
    BY <1>2, <1>4 DEF WorkersOK
  <2>12. ListedPartsAreThere'
    BY <1>2, <2>5, <2>7, <2>c DEF IInv, ListedPartsAreThere
  <2>. QED BY <1>5, <2>8, <2>9, <2>10, <2>11, <2>12 DEF IInv
<1>. QED BY <1>2, <1>3, <1>7, <1>8, <1>9 DEF Fill, Return

\* S3fsMultiCurl::Request starts threads for parts of the batch, whose places
\* are empty; a thread that cannot be started leaves its place so.
LEMMA TakeInv == ASSUME IInv, Take PROVE IInv'
<1>1. call \in Call
  BY DEF IInv, TypeOK
<1>2. /\ call.step = "take" /\ call.id \in Id /\ ~call.broken /\ call.op # "idle"
      /\ UNCHANGED <<source, object, uploads, late>>
      /\ call.todo \subseteq DOMAIN call.list /\ \A i \in call.todo : call.list[i] = NoPiece
      /\ call.todo \in SUBSET Part
  BY CallType DEF Take, IInv, TypeOK, StepOK, GapsOK
<1>3. \A p \in Part : worker[p].state = "none"
  BY <1>2, NoThreads
<1>4. ObjectIsWhole'
  BY <1>2 DEF IInv, ObjectIsWhole
<1>5. "fill" \in Step /\ "join" \in Step
  BY DEF Step
<1>6. CASE call' = [call EXCEPT !.step = "fill"] /\ worker' = worker
  <2> DEFINE d == [call EXCEPT !.step = "fill"]
  <2>1. /\ d \in Call /\ d.step = "fill" /\ d.op = call.op /\ d.id = call.id
        /\ d.list = call.list /\ d.todo = call.todo /\ d.broken = call.broken
    BY <1>1, <1>5, CallType
  <2>2. call' = d
    BY <1>6
  <2> HIDE DEF d
  <2>3. TypeOK'
    BY <1>2, <1>3, <1>6, <2>1, <2>2 DEF IInv, TypeOK, Finished
  <2>4. StepOK' /\ LateOK' /\ GapsOK'
    BY <1>2, <2>1, <2>2 DEF StepOK, LateOK, GapsOK, IInv
  <2>5. WorkersOK' /\ ListedPartsAreThere'
    BY <1>2, <1>3, <1>6, <2>1, <2>2 DEF WorkersOK, ListedPartsAreThere, IInv
  <2>. QED BY <1>4, <2>3, <2>4, <2>5 DEF IInv
<1>7. ASSUME NEW req \in SUBSET call.todo, NEW started \in SUBSET req,
             call' = [call EXCEPT !.step = "join", !.todo = @ \ req,
                                  !.broken = started # req],
             worker' = [p \in Part |-> IF p \in started
                          THEN [state |-> "running", left |-> Retries] ELSE NoWorker]
      PROVE  IInv'
  <2> DEFINE b == started # req
             rest == call.todo \ req
             d == [call EXCEPT !.step = "join", !.todo = rest, !.broken = b]
  <2>1. b \in BOOLEAN /\ rest \in SUBSET Part
    BY <1>2
  <2>2. call' = d
    BY <1>7
  <2>3. b => \E i \in DOMAIN call.list : call.list[i] = NoPiece
    BY <1>2, <1>7
  <2>4. /\ rest \subseteq DOMAIN call.list /\ \A i \in rest : call.list[i] = NoPiece
        /\ \A p \in started : p \in DOMAIN call.list /\ call.list[p] = NoPiece /\ p \notin rest
    BY <1>2
  <2> HIDE DEF b, rest
  <2>5. /\ d \in Call /\ d.step = "join" /\ d.todo = rest /\ d.list = call.list
        /\ d.op = call.op /\ d.id = call.id
    BY <1>1, <1>5, <2>1, CallType
  <2>6. d.broken = b
    BY <1>1, <1>5, <2>1, CallType
  <2> HIDE DEF d
  <2>7. /\ worker' \in [Part -> Worker]
        /\ \A p \in Part : worker'[p].state # "none" =>
             p \in started /\ worker'[p].state = "running" /\ worker'[p].left = Retries
    BY <1>7 DEF Worker, NoWorker
  <2>8. TypeOK'
    BY <1>2, <2>2, <2>4, <2>5, <2>7 DEF IInv, TypeOK, Finished
  <2>9. StepOK' /\ LateOK'
    BY <1>2, <2>2, <2>5 DEF StepOK, LateOK, IInv
  <2>10. GapsOK'
    BY <2>2, <2>3, <2>4, <2>5, <2>6 DEF GapsOK, HasGap
  <2>11. WorkersOK'
    BY <2>2, <2>4, <2>5, <2>7 DEF WorkersOK
  <2>12. ListedPartsAreThere'
    BY <1>2, <2>2, <2>5 DEF ListedPartsAreThere, IInv
  <2>. QED BY <1>4, <2>8, <2>9, <2>10, <2>11, <2>12 DEF IInv
<1>. QED BY <1>6, <1>7 DEF Take

\* A place in the list is filled with the ETag of its part, by a thread that
\* has ended well.
LEMMA JoinOkInv == ASSUME IInv, JoinOk PROVE IInv'
<1>1. call \in Call /\ source \in Source
  BY DEF IInv, TypeOK
<1>2. /\ call.step = "join" /\ call.id \in Id /\ ~call.broken /\ call.op # "idle"
      /\ worker' = [p \in Part |-> NoWorker]
      /\ UNCHANGED <<source, object, uploads, late>>
      /\ \A p \in Part : worker[p].state \notin {"running", "failed"}
  BY DEF JoinOk, Joined, BatchFailed, IInv, StepOK
<1>3. PICK tagged \in SUBSET Finished :
       call' = [call EXCEPT !.step = "take",
                  !.list = [i \in DOMAIN @ |->
                    IF i \in tagged THEN [of |-> source, part |-> i] ELSE @[i]]]
  BY DEF JoinOk
<1> DEFINE list == [i \in DOMAIN call.list |->
                      IF i \in tagged THEN [of |-> source, part |-> i] ELSE call.list[i]]
           d == [call EXCEPT !.step = "take", !.list = list]
<1>4. call' = d
  BY <1>3
<1>5. \A p \in tagged : /\ p \in Part /\ p \in DOMAIN call.list /\ p \notin call.todo
                        /\ uploads[call.id].open =>
                             uploads[call.id].parts[p] = [of |-> source, part |-> p]
  <2>1. \A p \in tagged : p \in Part /\ worker[p].state = "ok"
    BY <1>2 DEF Finished, IInv, TypeOK, Worker
  <2>. QED BY <2>1 DEF IInv, WorkersOK
<1>6. list \in [1 .. Len(call.list) -> PieceOrNone] /\ Len(call.list) \in 0 .. MaxParts
  BY <1>1, CallList, Pieces DEF PieceOrNone
<1>7. list \in Lists /\ Len(list) = Len(call.list) /\ DOMAIN list = DOMAIN call.list
  BY <1>1, <1>6, ListType, CallList
<1>8. /\ \A i \in DOMAIN call.list : i \in tagged => list[i] = [of |-> source, part |-> i]
      /\ \A i \in DOMAIN call.list : i \notin tagged => list[i] = call.list[i]
  OBVIOUS
<1>9. "take" \in Step
  BY DEF Step
<1> HIDE DEF list
<1>10. list \in Lists
  BY <1>7
<1>11. call \in Call
  BY <1>1
<1>12. /\ d \in Call /\ d.step = "take" /\ d.list = list /\ d.todo = call.todo
       /\ d.op = call.op /\ d.id = call.id /\ d.broken = call.broken
  BY <1>9, <1>10, <1>11, CallType
<1> HIDE DEF d
<1>13. worker' \in [Part -> Worker] /\ \A p \in Part : worker'[p].state = "none"
  BY <1>2 DEF Worker, NoWorker
<1>14. TypeOK'
  BY <1>2, <1>4, <1>7, <1>12, <1>13 DEF IInv, TypeOK, Finished
<1>15. StepOK' /\ LateOK'
  BY <1>2, <1>4, <1>12 DEF StepOK, LateOK, IInv
<1>16. GapsOK'
  <2>1. \A i \in call.todo : i \in DOMAIN call.list /\ call.list[i] = NoPiece /\ i \notin tagged
    BY <1>5 DEF IInv, TypeOK, GapsOK
  <2>. QED BY <1>2, <1>4, <1>8, <1>12, <2>1 DEF GapsOK
<1>17. WorkersOK'
  BY <1>13 DEF WorkersOK
<1>18. ListedPartsAreThere'
  <2>1. ASSUME NEW i \in DOMAIN call.list, list[i] # NoPiece
        PROVE  /\ list[i] = [of |-> source, part |-> i]
               /\ uploads[call.id].open => uploads[call.id].parts[i] = list[i]
    <3>1. CASE i \in tagged
      BY <1>5, <1>8, <3>1
    <3>2. CASE i \notin tagged
      BY <1>8, <2>1, <3>2 DEF ListedPartsAreThere, IInv
    <3>. QED BY <3>1, <3>2
  <2>. QED BY <1>2, <1>4, <1>7, <1>12, <2>1 DEF ListedPartsAreThere
<1>19. ObjectIsWhole'
  BY <1>2 DEF IInv, ObjectIsWhole
<1>. QED BY <1>14, <1>15, <1>16, <1>17, <1>18, <1>19 DEF IInv

\* A batch that failed leaves a gap, so the completion that follows makes no
\* request.
LEMMA JoinFailedInv == ASSUME IInv, JoinFailed PROVE IInv'
<1>1. call \in Call
  BY DEF IInv, TypeOK
<1>2. /\ call.step = "join" /\ call.id \in Id /\ call.op # "idle"
      /\ worker' = [p \in Part |-> NoWorker]
      /\ UNCHANGED <<source, object, uploads, late>>
  BY DEF JoinFailed, Joined, IInv, StepOK
<1>3. HasGap
  BY DEF JoinFailed, BatchFailed, IInv, GapsOK, WorkersOK, HasGap
<1>4. "complete" \in Step
  BY DEF Step
<1> DEFINE d == [call EXCEPT !.step = "complete", !.left = Retries, !.todo = {}, !.broken = FALSE]
<1>5. call' = d
  BY DEF JoinFailed
<1>6. /\ d \in Call /\ d.step = "complete" /\ d.list = call.list /\ d.todo = {}
      /\ d.op = call.op /\ d.id = call.id /\ d.broken = FALSE /\ d.left = Retries
  BY <1>1, <1>4, AllLeft, CallType
<1> HIDE DEF d
<1>7. worker' \in [Part -> Worker] /\ \A p \in Part : worker'[p].state = "none"
  BY <1>2 DEF Worker, NoWorker
<1>8. TypeOK'
  BY <1>2, <1>5, <1>6, <1>7 DEF IInv, TypeOK, Finished
<1>9. StepOK' /\ LateOK'
  BY <1>2, <1>5, <1>6 DEF StepOK, LateOK, IInv
<1>10. GapsOK'
  BY <1>3, <1>5, <1>6 DEF GapsOK, HasGap
<1>11. WorkersOK'
  BY <1>7 DEF WorkersOK
<1>12. ListedPartsAreThere'
  BY <1>2, <1>5, <1>6 DEF ListedPartsAreThere, IInv
<1>13. ObjectIsWhole'
  BY <1>2 DEF IInv, ObjectIsWhole
<1>. QED BY <1>8, <1>9, <1>10, <1>11, <1>12, <1>13 DEF IInv

\* A thread uploads its part of the source, and no other.
LEMMA WorkInv == ASSUME IInv, NEW p \in Part, Work(p) PROVE IInv'
<1> DEFINE piece == [of |-> source, part |-> p]
           request == Request("part", call.id, <<piece>>)
<1>1. PICK o \in Attempts(worker[p].left) :
       /\ uploads' = IF o.done THEN StorePart(call.id, piece) ELSE uploads
       /\ worker' = [worker EXCEPT ![p] =
            [state |-> IF o.answer = "again" THEN "running" ELSE o.answer, left |-> o.left]]
       /\ Delay(o, request)
  BY DEF Work
<1>2. /\ worker[p].state = "running" /\ worker[p].left \in 1 .. Retries
      /\ p \in DOMAIN call.list /\ call.list[p] = NoPiece /\ p \notin call.todo
      /\ call.step = "join" /\ source \in Source /\ worker \in [Part -> Worker]
      /\ UNCHANGED <<source, object, call>>
  BY DEF Work, IInv, TypeOK, WorkersOK, Finished, Worker
<1>3. call.id \in Id
  BY <1>2 DEF IInv, StepOK
<1>4. piece \in Piece /\ piece.part = p /\ piece.of = source
  BY <1>2, Pieces
<1> HIDE DEF piece
<1>5. request \in LateRequest /\ request.kind = "part" /\ request.list[1].of = source
  BY <1>3, <1>4 DEF Request, LateRequest
<1>6. LateStays
  BY <1>1, <1>5, LateStaysDelayed
<1>7. PartsStay
  BY <1>1, <1>3, <1>4, PartsStayUnchanged, PartsStayStored
<1>8. o.answer = "ok" /\ uploads'[call.id].open => uploads'[call.id].parts[p] = piece
  <2>1. uploads \in [Id -> UploadState] /\ source \in Source
    BY DEF IInv, TypeOK
  <2>. QED BY <1>1, <1>2, <1>3, <1>4, <2>1, StoredPart, AnAttempt
<1> DEFINE w == [state |-> IF o.answer = "again" THEN "running" ELSE o.answer, left |-> o.left]
<1>9. /\ w \in Worker /\ w.state # "none" /\ (w.state = "running" => w.left > 0)
      /\ w.state = "ok" => o.answer = "ok"
  BY <1>2, AnAttempt DEF Worker
<1>10. /\ worker' \in [Part -> Worker] /\ worker'[p] = w
       /\ \A q \in Part : q # p => worker'[q] = worker[q]
  BY <1>1, <1>2, <1>9
<1> HIDE DEF w
<1>11. TypeOK'
  <2>1. \A r \in late' : r.kind \in Late /\ r.id \in Id \cup {NoId}
    BY <1>6 DEF LateStays
  <2>2. uploads' \in [Id -> UploadState]
    BY <1>7 DEF PartsStay
  <2>. QED BY <1>2, <1>10, <2>1, <2>2 DEF IInv, TypeOK, Finished
<1>12. StepOK' /\ LateOK' /\ GapsOK'
  BY <1>2, <1>6 DEF StepOK, LateOK, GapsOK, HasGap, LateStays, IInv
<1>13. WorkersOK'
  <2>1. ASSUME NEW q \in Part, worker'[q].state # "none"
        PROVE  /\ q \in DOMAIN call.list /\ call.list[q] = NoPiece /\ q \notin call.todo
               /\ worker'[q].state = "running" => worker'[q].left > 0
               /\ worker'[q].state = "ok" /\ uploads'[call.id].open =>
                    uploads'[call.id].parts[q] = [of |-> source, part |-> q]
    <3>1. CASE q = p
      BY <1>2, <1>8, <1>9, <1>10, <3>1 DEF piece
    <3>2. CASE q # p
      BY <1>3, <1>7, <1>10, <2>1, <3>2 DEF PartsStay, WorkersOK, IInv
    <3>. QED BY <3>1, <3>2
  <2>. QED BY <1>2, <2>1 DEF WorkersOK
<1>14. ListedPartsAreThere'
  <2>1. \A i \in DOMAIN call.list : i \in Part
    BY CallList DEF IInv, TypeOK
  <2>. QED BY <1>2, <1>3, <1>7, <2>1 DEF PartsStay, ListedPartsAreThere, IInv
<1>15. ObjectIsWhole'
  BY <1>2 DEF IInv, ObjectIsWhole
<1>. QED BY <1>11, <1>12, <1>13, <1>14, <1>15 DEF IInv

\* A late request brings a whole object, or a part of the source that is
\* uploaded, or one of an upload that has been given up.
LEMMA ArriveInv == ASSUME IInv, Arrive PROVE IInv'
<1>1. PICK r \in late :
    /\ late' = late \ {r}
    /\ CASE r.kind = "put"      -> object' = r.list /\ UNCHANGED uploads
         [] r.kind = "part"     -> uploads' = StorePart(r.id, r.list[1]) /\ UNCHANGED object
         [] r.kind = "complete" ->
              IF Completes(r.id, r.list)
                THEN object' = r.list /\ uploads' = [uploads EXCEPT ![r.id] = Unused]
                ELSE UNCHANGED <<object, uploads>>
  BY DEF Arrive
<1>2. UNCHANGED <<source, call, worker>>
  BY DEF Arrive
<1>3. r \in LateRequest
  BY DEF IInv, LateOK
<1>4. LateStays
  BY <1>1 DEF IInv, TypeOK, LateOK, LateStays
<1>5. CASE r.kind = "put"
  <2>1. object' = r.list /\ uploads' = uploads
    BY <1>1, <1>5
  <2>2. ObjectIsWhole'
    BY <1>3, <1>5, <2>1, LateKinds DEF ObjectIsWhole
  <2>. QED BY <1>2, <1>4, <2>1, <2>2, PartsStayUnchanged, AgainInv
<1>6. CASE r.kind = "part"
  <2>1. uploads' = StorePart(r.id, r.list[1]) /\ object' = object
    BY <1>1, <1>6
  <2>2. r.id \in Id /\ r.list[1] \in Piece /\ (r.id = call.id => r.list[1].of = source)
    BY <1>3, <1>6, LateKinds DEF IInv, LateOK
  <2>3. PartsStay
    BY <2>1, <2>2, PartsStayStored
  <2>4. ObjectIsWhole'
    BY <2>1 DEF IInv, ObjectIsWhole
  <2>. QED BY <1>2, <1>4, <2>3, <2>4, AgainInv
<1>7. CASE r.kind = "complete"
  <2>1. \/ object' = r.list /\ uploads' = [uploads EXCEPT ![r.id] = Unused]
        \/ object' = object /\ uploads' = uploads
    BY <1>1, <1>7
  <2>2. r.id \in Id /\ \E s \in Source : r.list = Whole(s)
    BY <1>3, <1>7, LateKinds
  <2>3. ObjectIsWhole'
    BY <2>1, <2>2 DEF IInv, ObjectIsWhole
  <2>4. PartsStay
    BY <2>1, <2>2, UnusedType DEF PartsStay, IInv, TypeOK
  <2>. QED BY <1>2, <1>4, <2>3, <2>4, AgainInv
<1>. QED BY <1>3, <1>5, <1>6, <1>7, LateKinds

\* What is appended to a sequence is its last element.
LEMMA Appended ==
  ASSUME NEW S, NEW n \in Nat, NEW list \in [1 .. n -> S], NEW x \in S
  PROVE  /\ Append(list, x) \in [1 .. n + 1 -> S] /\ Append(list, x)[n + 1] = x
         /\ \A i \in 1 .. n : Append(list, x)[i] = list[i]
<1>1. list \in Seq(S) /\ Len(list) = n
  OBVIOUS
<1>2. Append(list, x) \in Seq(S) /\ Len(Append(list, x)) = n + 1
  BY <1>1
<1>3. Append(list, x)[n + 1] = x
  BY <1>1
<1>4. \A i \in 1 .. n : Append(list, x)[i] = list[i]
  BY <1>1
<1>5. ASSUME NEW seq \in Seq(S), Len(seq) = n + 1 PROVE seq \in [1 .. n + 1 -> S]
  BY <1>5
<1>. QED BY <1>2, <1>3, <1>4, <1>5

\* A part is copied after the others; what its answer says of it goes to the
\* end of the list.
LEMMA CopyInv == ASSUME IInv, Copy PROVE IInv'
<1> DEFINE n == Uploaded + 1
           piece == [of |-> source, part |-> n]
           request == Request("part", call.id, <<piece>>)
           s == IF n = source.parts THEN "complete" ELSE "copy"
<1>1. PICK o \in Attempts(call.left) :
       /\ uploads' = IF o.done THEN StorePart(call.id, piece) ELSE uploads
       /\ CASE o.answer = "again"  -> call' = [call EXCEPT !.left = o.left]
            [] o.answer = "failed" -> Return("failed")
            [] o.answer = "ok"     -> \E tag \in {piece, NoPiece} :
                 call' = [call EXCEPT !.list = Append(@, tag), !.left = Retries, !.step = s]
       /\ Delay(o, request)
  BY DEF Copy
<1>2. /\ call.step = "copy" /\ call.left \in 1 .. Retries /\ call.id \in Id
      /\ call \in Call /\ source \in Source /\ ~call.broken /\ call.op # "idle"
      /\ Len(call.list) < source.parts /\ UNCHANGED <<source, object, worker>>
  BY DEF Copy, IInv, TypeOK, StepOK, GapsOK, Call
<1>3. /\ DOMAIN call.list = 1 .. Uploaded /\ Uploaded \in Nat /\ n \in Part
      /\ n <= source.parts /\ source.parts \in Part
      /\ call.list \in [1 .. Uploaded -> PieceOrNone]
  BY <1>2, CallList DEF Uploaded, Source, Part
<1>4. \A p \in Part : worker[p].state = "none"
  BY <1>2, NoThreads
<1>5. piece \in Piece /\ piece.part = n /\ piece.of = source
  BY <1>2, <1>3, Pieces
<1> HIDE DEF piece
<1>6. request \in LateRequest /\ request.kind = "part" /\ request.list[1].of = source
  BY <1>2, <1>5 DEF Request, LateRequest
<1>7. LateStays
  BY <1>1, <1>6, LateStaysDelayed
<1>8. PartsStay
  BY <1>1, <1>2, <1>5, PartsStayUnchanged, PartsStayStored
<1>9. ObjectIsWhole'
  BY <1>2 DEF IInv, ObjectIsWhole
<1>10. CASE o.answer = "again"
  <2>1. o.left \in 1 .. Retries /\ call' = [call EXCEPT !.left = o.left]
    BY <1>1, <1>2, <1>10, AnAttempt
  <2>. QED BY <1>2, <1>7, <1>8, <1>9, <2>1, AgainInv
<1>11. CASE o.answer = "failed"
  <2>1. call' = Idle("failed")
    BY <1>1, <1>11 DEF Return
  <2>. QED BY <1>2, <1>7, <1>8, <1>9, <2>1, ReturnInv DEF PartsStay, LateStays
<1>12. CASE o.answer = "ok"
  <2>1. uploads[call.id].open => uploads'[call.id].parts[n] = piece
    BY <1>1, <1>2, <1>3, <1>5, <1>12, StoredPart, AnAttempt DEF IInv, TypeOK
  <2>2. PICK tag \in {piece, NoPiece} :
         call' = [call EXCEPT !.list = Append(@, tag), !.left = Retries, !.step = s]
    BY <1>1, <1>12
  <2> DEFINE list == Append(call.list, tag)
             d == [call EXCEPT !.list = list, !.left = Retries, !.step = s]
  <2>3. call' = d
    BY <2>2
  <2>4. tag \in PieceOrNone
    BY <1>5 DEF PieceOrNone
  <2>5. /\ list \in [1 .. n -> PieceOrNone] /\ list[n] = tag
        /\ \A i \in 1 .. Uploaded : list[i] = call.list[i]
    <3>1. Uploaded \in Nat /\ call.list \in [1 .. Uploaded -> PieceOrNone]
      BY <1>3
    <3> HIDE DEF list
    <3>2. Append(call.list, tag) \in [1 .. Uploaded + 1 -> PieceOrNone]
      BY <2>4, <3>1, Appended
    <3>3. Append(call.list, tag)[Uploaded + 1] = tag
          /\ \A i \in 1 .. Uploaded : Append(call.list, tag)[i] = call.list[i]
      BY <2>4, <3>1, Appended
    <3>. QED BY <3>2, <3>3 DEF list
  <2>6. list \in Lists /\ Len(list) = n /\ DOMAIN list = 1 .. n
    <3>1. list \in [1 .. n -> PieceOrNone] /\ n \in 0 .. MaxParts
      BY <1>3, <2>5 DEF Part
    <3> HIDE DEF list, n
    <3>. QED BY <3>1, ListType
  <2>7. (s = "complete" => n = source.parts) /\ (s = "copy" => n # source.parts)
        /\ s \in {"complete", "copy"}
    OBVIOUS
  <2> HIDE DEF s
  <2>8. s \in Step
    BY <2>7 DEF Step
  <2>9. \A i \in DOMAIN list : i = n \/ i \in DOMAIN call.list
    BY <1>3, <2>6
  <2> HIDE DEF list, s, n
  <2>10. call \in Call
    BY <1>2
  <2>11. list \in Lists
    BY <2>6
  <2>12. /\ d \in Call /\ d.list = list /\ d.left = Retries /\ d.step = s
         /\ d.op = call.op /\ d.id = call.id /\ d.todo = call.todo /\ d.broken = call.broken
    BY <2>8, <2>10, <2>11, AllLeft, CallType
  <2> HIDE DEF d
  <2>13. call.todo \subseteq DOMAIN call.list /\ DOMAIN call.list \subseteq DOMAIN list
         /\ \A i \in DOMAIN call.list : list[i] = call.list[i]
    BY <1>3, <2>5, <2>6 DEF IInv, TypeOK, n
  <2>14. TypeOK'
    BY <1>2, <1>3, <1>4, <1>7, <1>8, <2>3, <2>6, <2>7, <2>12, <2>13
       DEF IInv, TypeOK, Finished, PartsStay, LateStays
  <2>15. StepOK'
    BY <1>2, <1>3, <2>3, <2>6, <2>7, <2>12 DEF StepOK, Part
  <2>16. LateOK'
    BY <1>2, <1>7, <2>3, <2>12 DEF LateOK, LateStays
  <2>17. GapsOK'
    BY <1>2, <2>3, <2>6, <2>7, <2>12, <2>13 DEF GapsOK, IInv
  <2>18. WorkersOK'
    BY <1>2, <1>4 DEF WorkersOK
  <2>19. ListedPartsAreThere'
    <3>1. ASSUME NEW i \in DOMAIN list, list[i] # NoPiece
          PROVE  /\ list[i] = [of |-> source, part |-> i]
                 /\ uploads'[call.id].open => uploads'[call.id].parts[i] = list[i]
      <4>1. CASE i = n
        <5>1. list[i] = piece
          BY <2>5, <3>1, <4>1
        <5>2. uploads'[call.id].open => uploads[call.id].open
          BY <1>2, <1>8 DEF PartsStay
        <5>. QED BY <2>1, <4>1, <5>1, <5>2 DEF piece
      <4>2. CASE i # n
        <5>1. i \in DOMAIN call.list /\ list[i] = call.list[i] /\ i \in Part
          BY <1>2, <2>9, <2>13, <4>2, CallList
        <5>. QED BY <1>2, <1>8, <3>1, <5>1 DEF PartsStay, ListedPartsAreThere, IInv
      <4>. QED BY <4>1, <4>2
    <3>. QED BY <1>2, <2>3, <2>12, <3>1 DEF ListedPartsAreThere
  <2>. QED BY <1>9, <2>14, <2>15, <2>16, <2>17, <2>18, <2>19 DEF IInv
<1>. QED BY <1>2, <1>10, <1>11, <1>12, AnAttempt

\* A list without a gap is that of the whole source when the upload is
\* completed.
LEMMA CompleteList ==
  ASSUME IInv, call.step = "complete", ~HasGap PROVE call.list = Whole(source)
<1>1. call \in Call /\ source \in Source /\ Len(call.list) = source.parts
  BY DEF IInv, TypeOK, GapsOK
<1>2. DOMAIN call.list = 1 .. source.parts /\ call.list \in [1 .. source.parts -> PieceOrNone]
  BY <1>1, CallList
<1>3. \A i \in 1 .. source.parts : call.list[i] = [of |-> source, part |-> i]
  BY <1>2 DEF IInv, ListedPartsAreThere, HasGap
<1>. QED BY <1>2, <1>3 DEF Whole

\* CompleteMultipartPostRequest replaces the object by the whole source, or
\* leaves it.
LEMMA CompleteInv == ASSUME IInv, Complete PROVE IInv'
<1>1. /\ call.step = "complete" /\ call.left \in 1 .. Retries /\ call.id \in Id
      /\ source \in Source /\ UNCHANGED <<source, worker>>
  BY DEF Complete, IInv, TypeOK, StepOK, Call
<1>2. CASE HasGap
  <2>1. call' = Idle("failed") /\ UNCHANGED <<object, uploads, late>>
    BY <1>2 DEF Complete, Return, HasGap
  <2>2. ObjectIsWhole' /\ PartsStay /\ LateStays
    BY <2>1, PartsStayUnchanged, LateStaysUnchanged DEF IInv, ObjectIsWhole
  <2>. QED BY <1>1, <2>1, <2>2, ReturnInv DEF PartsStay, LateStays
<1>3. CASE ~HasGap
  <2> DEFINE request == Request("complete", call.id, call.list)
  <2>1. PICK o \in Attempts(call.left) :
         /\ IF o.done /\ Completes(call.id, call.list)
              THEN object' = call.list /\ uploads' = [uploads EXCEPT ![call.id] = Unused]
              ELSE o.answer # "ok" /\ UNCHANGED <<object, uploads>>
         /\ IF o.answer = "again" THEN call' = [call EXCEPT !.left = o.left]
            ELSE Return(o.answer)
         /\ Delay(o, request)
    BY <1>3 DEF Complete, HasGap
  <2>2. call.list = Whole(source)
    BY <1>1, <1>3, CompleteList
  <2>3. \/ object' = call.list /\ uploads' = [uploads EXCEPT ![call.id] = Unused]
        \/ UNCHANGED <<object, uploads>>
    BY <2>1
  <2>4. ObjectIsWhole'
    BY <1>1, <2>2, <2>3 DEF ObjectIsWhole, IInv
  <2>5. PartsStay
    BY <1>1, <2>3, UnusedType DEF PartsStay, IInv, TypeOK
  <2>6. request \in LateRequest /\ request.kind = "complete"
    BY <1>1, <2>2 DEF Request, LateRequest
  <2>7. LateStays
    BY <2>1, <2>6, LateStaysDelayed
  <2>8. CASE o.answer = "again"
    <3>1. o.left \in 1 .. Retries /\ call' = [call EXCEPT !.left = o.left]
      BY <1>1, <2>1, <2>8, AnAttempt
    <3>. QED BY <1>1, <2>4, <2>5, <2>7, <3>1, AgainInv
  <2>9. CASE o.answer # "again"
    <3>1. o.answer \in {"none", "ok", "failed"} /\ call' = Idle(o.answer)
      BY <1>1, <2>1, <2>9, AnAttempt DEF Return
    <3>. QED BY <1>1, <2>4, <2>5, <2>7, <3>1, ReturnInv DEF PartsStay, LateStays
  <2>. QED BY <2>8, <2>9
<1>. QED BY <1>2, <1>3

-----------------------------------------------------------------------------
(***************************************************************************)
(* The safety of an upload.                                                *)
(***************************************************************************)
\* Every step keeps the inductive invariant.
LEMMA NextInv == IInv /\ [Next]_vars => IInv'
<1> SUFFICES ASSUME IInv, [Next]_vars PROVE IInv'
  OBVIOUS
<1>1. CASE UNCHANGED vars
  <2>1. PartsStay /\ LateStays /\ ObjectIsWhole'
    BY <1>1, PartsStayUnchanged, LateStaysUnchanged DEF vars, IInv, ObjectIsWhole
  <2>. QED BY <1>1, <2>1, AgainInv DEF vars
<1>2. CASE Main
  BY <1>2, PutInv, InitiateInv, FillInv, TakeInv, JoinOkInv, JoinFailedInv, CopyInv,
     CompleteInv DEF Main
<1>. QED BY <1>1, <1>2, ChangeInv, BeginInv, WorkInv, ArriveInv DEF Next

\* The inductive invariant holds in every state of every run.
THEOREM Invariance == Spec => []IInv
BY InitInv, NextInv, PTL DEF Spec

\* The type invariant of Upload.
THEOREM TypeCorrect == Spec => []TypeOK
<1>1. IInv => TypeOK
  BY DEF IInv
<1>. QED BY <1>1, Invariance, PTL

\* Every ETag in the list is that of the part with its number, which the
\* server has while the upload is open: in whatever order the threads of
\* ParallelMultipartUploadRequest end, and however often RequestPerform
\* repeats a request.
THEOREM ListedPartsCorrect == Spec => []ListedPartsAreThere
<1>1. IInv => ListedPartsAreThere
  BY DEF IInv
<1>. QED BY <1>1, Invariance, PTL

\* The object is one whole source, whatever fails, is repeated or arrives
\* late: no batch, copy or completion makes an object of parts of two sources,
\* or of fewer parts.
THEOREM ObjectWholeCorrect == Spec => []ObjectIsWhole
<1>1. IInv => ObjectIsWhole
  BY DEF IInv
<1>. QED BY <1>1, Invariance, PTL

-----------------------------------------------------------------------------
(***************************************************************************)
(* An upload implements ObjectPut, if only requests for parts are carried  *)
(* out late.                                                               *)
(***************************************************************************)
\* What the object holds is the source it is the whole of.
LEMMA StoredIs ==
  ASSUME NEW s \in Source
  PROVE  /\ object = Whole(s) => Stored = s
         /\ object' = Whole(s) => Stored' = s
<1>1. ASSUME NEW t \in Source, Whole(s) = Whole(t) PROVE s = t
  BY <1>1, Wholes
<1>2. object = Whole(s) => Stored = s
  BY <1>1 DEF Stored
<1>3. object' = Whole(s) => Stored' = s
  BY <1>1 DEF Stored
<1>. QED BY <1>2, <1>3

\* A step that leaves source, object and what the caller sees of the upload is
\* none for ObjectPut.
LEMMA Stutters ==
  ASSUME UNCHANGED <<source, object>>, call'.op = call.op, call'.result = call.result
  PROVE  UNCHANGED Abstract!vars
BY DEF Abstract!vars, Stored

\* An upload that ends has replaced the object, or has left it; one that ends
\* well has replaced it.
LEMMA Finishes ==
  ASSUME IInv, call.op # "idle", NEW result \in {"ok", "failed"}, call' = Idle(result),
         source' = source, object' = object \/ object' = Whole(source),
         result = "ok" => object' = Whole(source)
  PROVE  Abstract!Finish
<1>1. source \in Source
  BY DEF IInv, TypeOK
<1>2. object' = Whole(source) => Stored' = source
  BY <1>1, StoredIs
<1>3. object' = object => Stored' = Stored
  BY DEF Stored
<1>4. call'.op = "idle" /\ call'.result = result
  BY IdleCall
<1>. QED BY <1>2, <1>3, <1>4 DEF Abstract!Finish

\* The steps of a multipart upload or copy before its completion end it with
\* a failure or go on, and leave the object.
LEMMA QuietSteps ==
  ASSUME IInv, Initiate \/ Fill \/ Take \/ JoinOk \/ JoinFailed \/ Copy
  PROVE  /\ call.op # "idle" /\ UNCHANGED <<source, object>>
         /\ \/ call' = Idle("failed")
            \/ call'.op = call.op /\ call'.result = call.result
<1>1. call \in Call
  BY DEF IInv, TypeOK
<1>2. call.op # "idle"
  BY DEF IInv, StepOK, Initiate, Fill, Take, JoinOk, JoinFailed, Copy, Joined
<1>3. UNCHANGED <<source, object>>
  BY DEF Initiate, Fill, Take, JoinOk, JoinFailed, Copy, Joined
<1> DEFINE Same == call'.op = call.op /\ call'.result = call.result
<1> SUFFICES call' = Idle("failed") \/ Same
  BY <1>2, <1>3
<1>4. CASE Initiate
  <2> DEFINE id == CHOOSE x \in FreeId : TRUE
             s == IF call.op = "copy" THEN "copy" ELSE "fill"
  <2>1. PICK o \in Attempts(call.left) :
         CASE o.answer = "again"  -> call' = [call EXCEPT !.left = o.left]
           [] o.answer = "failed" -> Return("failed")
           [] o.answer = "ok"     -> call' = [call EXCEPT !.id = id, !.left = Retries, !.step = s]
    BY <1>4 DEF Initiate
  <2>2. o.answer \in {"ok", "again", "failed"}
    BY DEF Attempts
  <2> DEFINE n == o.left
  <2>3. \/ call' = [call EXCEPT !.left = n] \/ call' = Idle("failed")
        \/ call' = [call EXCEPT !.id = id, !.left = Retries, !.step = s]
    BY <2>1, <2>2 DEF Return
  <2> HIDE DEF id, s, n
  <2>4. CASE call' = [call EXCEPT !.left = n]
    BY <1>1, <2>4, CallType
  <2>5. CASE call' = [call EXCEPT !.id = id, !.left = Retries, !.step = s]
    BY <1>1, <2>5, CallType
  <2>. QED BY <2>3, <2>4, <2>5
<1>5. CASE Fill
  <2> DEFINE upto == Smallest(Uploaded + Parallel, source.parts)
             todo == (Uploaded + 1) .. upto
             list == [i \in 1 .. upto |-> IF i <= Uploaded THEN call.list[i] ELSE NoPiece]
  <2>1. \/ call' = [call EXCEPT !.step = "complete", !.left = Retries]
        \/ call' = [call EXCEPT !.step = "take", !.todo = todo, !.list = list]
        \/ call' = Idle("failed")
    BY <1>5 DEF Fill, Return
  <2> HIDE DEF todo, list
  <2>2. CASE call' = [call EXCEPT !.step = "complete", !.left = Retries]
    BY <1>1, <2>2, CallType
  <2>3. CASE call' = [call EXCEPT !.step = "take", !.todo = todo, !.list = list]
    BY <1>1, <2>3, CallType
  <2>. QED BY <2>1, <2>2, <2>3
<1>6. CASE Take
  <2>1. CASE call' = [call EXCEPT !.step = "fill"]
    BY <1>1, <2>1, CallType
  <2>2. ASSUME NEW req \in SUBSET call.todo, NEW started \in SUBSET req,
               call' = [call EXCEPT !.step = "join", !.todo = @ \ req,
                                    !.broken = started # req]
        PROVE  Same
    <3> DEFINE rest == call.todo \ req
               b == started # req
    <3>1. call' = [call EXCEPT !.step = "join", !.todo = rest, !.broken = b]
      BY <2>2
    <3>2. b \in BOOLEAN
      OBVIOUS
    <3> HIDE DEF rest, b
    <3>. QED BY <1>1, <3>1, <3>2, CallType
  <2> HIDE DEF Same
  <2>. QED BY <1>6, <2>1, <2>2 DEF Take
<1>7. CASE JoinOk
  <2>1. PICK tagged \in SUBSET Finished :
         call' = [call EXCEPT !.step = "take",
                    !.list = [i \in DOMAIN @ |->
                      IF i \in tagged THEN [of |-> source, part |-> i] ELSE @[i]]]
    BY <1>7 DEF JoinOk
  <2> DEFINE list == [i \in DOMAIN call.list |->
                        IF i \in tagged THEN [of |-> source, part |-> i] ELSE call.list[i]]
  <2>2. call' = [call EXCEPT !.step = "take", !.list = list]
    BY <2>1
  <2> HIDE DEF list
  <2>. QED BY <1>1, <2>2, CallType
<1>8. CASE JoinFailed
  <2>1. call' = [call EXCEPT !.step = "complete", !.left = Retries, !.todo = {}, !.broken = FALSE]
    BY <1>8 DEF JoinFailed
  <2>. QED BY <1>1, <2>1, CallType
<1>9. CASE Copy
  <2> DEFINE k == Uploaded + 1
             piece == [of |-> source, part |-> k]
             s == IF k = source.parts THEN "complete" ELSE "copy"
  <2>1. PICK o \in Attempts(call.left) :
         CASE o.answer = "again"  -> call' = [call EXCEPT !.left = o.left]
           [] o.answer = "failed" -> Return("failed")
           [] o.answer = "ok"     -> \E tag \in {piece, NoPiece} :
                call' = [call EXCEPT !.list = Append(@, tag), !.left = Retries, !.step = s]
    BY <1>9 DEF Copy
  <2>2. o.answer \in {"ok", "again", "failed"}
    BY DEF Attempts
  <2> DEFINE n == o.left
  <2>3. \/ call' = [call EXCEPT !.left = n] \/ call' = Idle("failed")
        \/ \E tag \in {piece, NoPiece} :
             call' = [call EXCEPT !.list = Append(@, tag), !.left = Retries, !.step = s]
    BY <2>1, <2>2 DEF Return
  <2> HIDE DEF n, s, k, piece
  <2>4. CASE call' = [call EXCEPT !.left = n]
    BY <1>1, <2>4, CallType
  <2>5. ASSUME NEW tag,
               call' = [call EXCEPT !.list = Append(@, tag), !.left = Retries, !.step = s]
        PROVE  Same
    <3> DEFINE list == Append(call.list, tag)
    <3>1. call' = [call EXCEPT !.list = list, !.left = Retries, !.step = s]
      BY <2>5
    <3> HIDE DEF list
    <3>. QED BY <1>1, <3>1, CallType
  <2>. QED BY <2>3, <2>4, <2>5
<1>. QED BY <1>4, <1>5, <1>6, <1>7, <1>8, <1>9

\* The start is one of ObjectPut.
LEMMA InitImplements == Init => Abstract!Init
<1> SUFFICES ASSUME Init PROVE Abstract!Init
  OBVIOUS
<1>1. source \in Source /\ object = Whole(source) /\ call = Idle("none")
  BY DEF Init
<1>2. Stored = source
  BY <1>1, StoredIs
<1>. QED BY <1>1, <1>2, IdleCall DEF Abstract!Init

\* A PUT replaces the object in the attempt that the server carries out, which
\* may be repeated or be the last.
LEMMA PutImplements == ASSUME IInv, Put PROVE Abstract!Next \/ UNCHANGED Abstract!vars
<1>1. call \in Call /\ call.left \in 1 .. Retries /\ source \in Source /\ call.op # "idle"
  BY DEF IInv, TypeOK, StepOK, Put, Call
<1>2. PICK o \in Attempts(call.left) :
       /\ object' = IF o.done THEN Whole(source) ELSE object
       /\ IF o.answer = "again" THEN call' = [call EXCEPT !.left = o.left] ELSE Return(o.answer)
  BY DEF Put
<1>3. source' = source
  BY DEF Put
<1>4. CASE o.answer = "again"
  <2>1. call'.op = call.op /\ call'.result = call.result
    <3> DEFINE n == o.left
    <3>1. call' = [call EXCEPT !.left = n]
      BY <1>2, <1>4
    <3> HIDE DEF n
    <3>2. call \in Call
      BY <1>1
    <3>. QED BY <3>1, <3>2, CallType
  <2>2. CASE object' = object
    BY <1>3, <2>1, <2>2, Stutters
  <2>3. CASE object' = Whole(source)
    <3>1. Stored' = source
      BY <1>1, <2>3, StoredIs
    <3>. QED BY <1>1, <1>3, <2>1, <3>1 DEF Abstract!Next, Abstract!Replace
  <2>. QED BY <1>2, <2>2, <2>3
<1>5. CASE o.answer # "again"
  <2>1. o.answer \in {"ok", "failed"} /\ (o.answer = "ok" => o.done)
    BY <1>1, <1>5, AnAttempt
  <2>2. Abstract!Finish
    BY <1>1, <1>2, <1>3, <1>5, <2>1, Finishes DEF Return
  <2>. QED BY <2>2 DEF Abstract!Next
<1>. QED BY <1>4, <1>5

\* The completion of a multipart upload replaces the object by the whole
\* source; one with a gap, or refused, leaves it.
LEMMA CompleteImplements ==
  ASSUME IInv, Complete PROVE Abstract!Next \/ UNCHANGED Abstract!vars
<1>1. call \in Call /\ call.left \in 1 .. Retries /\ source \in Source /\ call.op # "idle"
      /\ call.step = "complete" /\ source' = source
  BY DEF IInv, TypeOK, StepOK, Complete, Call
<1>2. CASE HasGap
  <2>1. call' = Idle("failed") /\ object' = object
    BY <1>2 DEF Complete, HasGap, Return
  <2>. QED BY <1>1, <2>1, Finishes DEF Abstract!Next
<1>3. CASE ~HasGap
  <2>1. PICK o \in Attempts(call.left) :
         /\ IF o.done /\ Completes(call.id, call.list)
              THEN object' = call.list /\ uploads' = [uploads EXCEPT ![call.id] = Unused]
              ELSE o.answer # "ok" /\ UNCHANGED <<object, uploads>>
         /\ IF o.answer = "again" THEN call' = [call EXCEPT !.left = o.left]
            ELSE Return(o.answer)
    BY <1>3 DEF Complete, HasGap
  <2>2. call.list = Whole(source)
    BY <1>1, <1>3, CompleteList
  <2>3. /\ object' = object \/ object' = Whole(source)
        /\ o.answer = "ok" => object' = Whole(source)
    BY <2>1, <2>2
  <2>4. CASE o.answer = "again"
    <3>1. call'.op = call.op /\ call'.result = call.result
      <4> DEFINE n == o.left
      <4>1. call' = [call EXCEPT !.left = n]
        BY <2>1, <2>4
      <4> HIDE DEF n
      <4>2. call \in Call
        BY <1>1
      <4>. QED BY <4>1, <4>2, CallType
    <3>2. CASE object' = object
      BY <1>1, <3>1, <3>2, Stutters
    <3>3. CASE object' = Whole(source)
      <4>1. Stored' = source
        BY <1>1, <3>3, StoredIs
      <4>. QED BY <1>1, <3>1, <4>1 DEF Abstract!Next, Abstract!Replace
    <3>. QED BY <2>3, <3>2, <3>3
  <2>5. CASE o.answer # "again"
    <3>1. o.answer \in {"ok", "failed"}
      BY <1>1, <2>5, AnAttempt
    <3>2. Abstract!Finish
      BY <1>1, <2>1, <2>3, <2>5, <3>1, Finishes DEF Return
    <3>. QED BY <3>2 DEF Abstract!Next
  <2>. QED BY <2>4, <2>5
<1>. QED BY <1>2, <1>3

\* Every other step maps to a step of ObjectPut or to none.
LEMMA StepImplements ==
  ASSUME Late \subseteq {"part"}, IInv, [Next]_vars
  PROVE  [Abstract!Next]_Abstract!vars
<1>1. CASE UNCHANGED vars
  BY <1>1, Stutters DEF vars
<1>2. CASE Change
  <2>1. source' \in Source /\ object' = object /\ call.op = "idle" /\ call' = Idle("none")
    BY <1>2 DEF Change, Source, IInv, TypeOK
  <2>2. Stored' = Stored
    BY <2>1 DEF Stored
  <2>. QED BY <2>1, <2>2, IdleCall DEF Abstract!Next, Abstract!Change
<1>3. ASSUME NEW op \in {"put", "upload", "copy"}, Begin(op)
      PROVE  Abstract!Next
  <2> DEFINE c == Idle("none")
             s == IF op = "put" THEN "put" ELSE "initiate"
  <2>1. call' = [c EXCEPT !.op = op, !.left = Retries, !.step = s]
    BY <1>3 DEF Begin
  <2>2. c \in Call
    BY IdleCall
  <2>3. c.result = "none"
    BY IdleCall
  <2> HIDE DEF c, s
  <2>4. call'.op = op /\ call'.result = c.result
    BY <2>1, <2>2, CallType
  <2>5. UNCHANGED <<source, object>> /\ call.op = "idle"
    BY <1>3 DEF Begin
  <2>6. Stored' = Stored
    BY <2>5 DEF Stored
  <2>. QED BY <2>3, <2>4, <2>5, <2>6 DEF Abstract!Next, Abstract!Start
<1>4. CASE Initiate \/ Fill \/ Take \/ JoinOk \/ JoinFailed \/ Copy
  <2>1. CASE call' = Idle("failed")
    BY <1>4, <2>1, QuietSteps, Finishes DEF Abstract!Next
  <2>2. CASE call'.op = call.op /\ call'.result = call.result
    BY <1>4, <2>2, QuietSteps, Stutters
  <2>. QED BY <1>4, <2>1, <2>2, QuietSteps
<1>5. ASSUME NEW p \in Part, Work(p) PROVE UNCHANGED Abstract!vars
  BY <1>5, Stutters DEF Work
<1>6. CASE Arrive
  <2>1. object' = object
    BY <1>6 DEF Arrive, IInv, TypeOK
  <2>. QED BY <1>6, <2>1, Stutters DEF Arrive
<1>. QED BY <1>1, <1>2, <1>3, <1>4, <1>5, <1>6, PutImplements, CompleteImplements
         DEF Next, Main

\* An upload replaces the object as a whole by what its source holds, while it
\* runs and at no other time, and one that returns 0 has replaced it; if
\* requests to put or to complete are never carried out after RequestPerform
\* has given them up.
THEOREM ObjectPutImplemented ==
  ASSUME Late \subseteq {"part"} PROVE Spec => ImplementsObjectPut
<1>1. IInv /\ [Next]_vars => [Abstract!Next]_Abstract!vars
  BY StepImplements
<1>. QED BY <1>1, InitImplements, Invariance, PTL DEF Spec, ImplementsObjectPut, Abstract!Spec

=============================================================================
