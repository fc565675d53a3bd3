------------------------------- MODULE Upload -------------------------------
(***************************************************************************)
(* How the content of a file gets into the bucket (curl.cpp): the PUT of a *)
(* small file, the multipart upload in parallel batches of a large one,    *)
(* and the copy of a large object part by part, each made of requests that *)
(* RequestPerform repeats while the server cannot be reached or fails.     *)
(*                                                                         *)
(* A content is the source it comes from; a part of it is the source and   *)
(* the number of the part, and that is also its ETag.  The server          *)
(* (external) keeps the parts of an upload by number and completes an      *)
(* upload if the parts listed are the ones it has.  A request may be       *)
(* carried out without an answer, or (Late) after the client has given it  *)
(* up.  The caller holds fdent_lock, so one upload runs at a time and its  *)
(* source does not change meanwhile; the source of a copy is taken not to. *)
(***************************************************************************)
EXTENDS Integers, Sequences, FiniteSets

CONSTANTS
  MaxParts,     \* bound: parts of a source
  MaxVersion,   \* bound: changes of the source
  Id,           \* bound: upload ids
  Parallel,     \* S3fsCurl::max_parallel_cnt
  MaxMultiReq,  \* S3fsMultiCurl::max_multireq
  Retries,      \* S3fsCurl::retries
  Late,         \* the requests that may be carried out late
  MaxLate,      \* bound: late requests at one time
  NoId

ASSUME UploadAssumption ==
  /\ MaxParts \in Nat \ {0} /\ MaxVersion \in Nat
  /\ Parallel \in Nat \ {0} /\ MaxMultiReq \in Nat \ {0} /\ Retries \in Nat \ {0}
  /\ MaxLate \in Nat
  /\ Late \subseteq {"put", "part", "complete"} /\ NoId \notin Id

VARIABLES
  source,       \* what is to be uploaded: version and number of parts
  object,       \* the object in the bucket: a sequence of parts
  uploads,      \* [Id -> the uploads the server knows]
  late,         \* given-up requests the server may still carry out
  call,         \* the upload that runs
  worker        \* [Part -> the thread that uploads it]

vars == <<source, object, uploads, late, call, worker>>

-----------------------------------------------------------------------------
Part     == 1 .. MaxParts
Source   == [version : 0 .. MaxVersion, parts : Part]
Piece    == [of : Source, part : Part]
Whole(s) == [i \in 1 .. s.parts |-> [of |-> s, part |-> i]]

NoPiece == [of |-> [version |-> -1, parts |-> 1], part |-> 1]
PieceOrNone == Piece \cup {NoPiece}

UploadState == [open : BOOLEAN, parts : [Part -> PieceOrNone]]
Unused == [open |-> FALSE, parts |-> [p \in Part |-> NoPiece]]

Step == {"idle", "put", "initiate", "fill", "take", "join", "copy", "complete"}

Call == [op : {"idle", "put", "upload", "copy"}, step : Step, left : 0 .. Retries,
         id : Id \cup {NoId}, list : UNION {[1 .. n -> PieceOrNone] : n \in 0 .. MaxParts},
         todo : SUBSET Part, broken : BOOLEAN, result : {"none", "ok", "failed"}]

Idle(result) == [op |-> "idle", step |-> "idle", left |-> 0, id |-> NoId, list |-> <<>>,
                 todo |-> {}, broken |-> FALSE, result |-> result]

Worker == [state : {"none", "running", "ok", "failed"}, left : 0 .. Retries]
NoWorker == [state |-> "none", left |-> 0]

Smallest(m, n) == IF m < n THEN m ELSE n

-----------------------------------------------------------------------------
(***************************************************************************)
(* S3fsCurl::RequestPerform.  One attempt is carried out by the server or  *)
(* not, and is answered, given up, or, if attempts are left, repeated.     *)
(***************************************************************************)
\* Attempts below, repeating without an end.
AttemptsWithoutEnd(left) ==
  {o \in [done : BOOLEAN, answer : {"ok", "again", "failed"}, left : {left}] :
     o.answer = "ok" => o.done}

Attempts(left) ==
  {o \in [done : BOOLEAN, answer : {"ok", "again", "failed"}, left : {left - 1}] :
     /\ o.answer = "ok" => o.done
     /\ o.answer = "again" => left > 1}

\* A request that was not carried out may still be on its way.
Delay(o, request) ==
  \/ late' = late
  \/ ~o.done /\ request.kind \in Late /\ Cardinality(late) < MaxLate
     /\ late' = late \cup {request}

-----------------------------------------------------------------------------
(***************************************************************************)
(* The server (external).                                                  *)
(***************************************************************************)
StorePart(id, piece) ==
  IF uploads[id].open
    THEN [uploads EXCEPT ![id].parts[piece.part] = piece] ELSE uploads

Completes(id, list) ==
  /\ uploads[id].open /\ list # <<>>
  /\ \A i \in DOMAIN list : uploads[id].parts[i] = list[i] /\ list[i] # NoPiece

\* Ids are used again, which the server does not.
FreeId == {id \in Id : uploads[id] = Unused /\ \A r \in late : r.id # id}

Request(kind, id, list) == [kind |-> kind, id |-> id, list |-> list]

\* A late request arrives.
Arrive ==
  \E r \in late :
    /\ late' = late \ {r}
    /\ CASE r.kind = "put"      -> object' = r.list /\ UNCHANGED uploads
         [] r.kind = "part"     -> uploads' = StorePart(r.id, r.list[1]) /\ UNCHANGED object
         [] r.kind = "complete" ->
              IF Completes(r.id, r.list)
                THEN object' = r.list /\ uploads' = [uploads EXCEPT ![r.id] = Unused]
                ELSE UNCHANGED <<object, uploads>>
    /\ UNCHANGED <<source, call, worker>>

-----------------------------------------------------------------------------
(***************************************************************************)
(* The client.                                                             *)
(***************************************************************************)
\* Between uploads the application changes the file.
Change ==
  /\ call.op = "idle" /\ source.version < MaxVersion
  /\ \E n \in Part : source' = [version |-> source.version + 1, parts |-> n]
  /\ call' = Idle("none")
  /\ UNCHANGED <<object, uploads, late, worker>>

\* RowFlush uploads a small file, or any with nomultipart, with PutRequest, a
\* large one with ParallelMultipartUploadRequest; rename_large_object and
\* put_headers of a large object call MultipartRenameRequest and
\* MultipartHeadRequest.
Begin(op) ==
  /\ call.op = "idle" /\ (op = "upload" => source.parts >= 2)
  /\ op # "put" => Cardinality(FreeId) >= Retries                      \* bound
  /\ call' = [Idle("none") EXCEPT !.op = op, !.left = Retries,
                                  !.step = IF op = "put" THEN "put" ELSE "initiate"]
  /\ UNCHANGED <<source, object, uploads, late, worker>>

Return(result) == call' = Idle(result)

Put ==
  /\ call.step = "put"
  /\ \E o \in Attempts(call.left) :
       /\ object' = IF o.done THEN Whole(source) ELSE object
       /\ IF o.answer = "again" THEN call' = [call EXCEPT !.left = o.left] ELSE Return(o.answer)
       /\ Delay(o, Request("put", NoId, Whole(source)))
  /\ UNCHANGED <<source, uploads, worker>>

\* PreMultipartPostRequest.  An attempt without an answer leaves an upload on
\* the server that nobody will use.
Initiate ==
  /\ call.step = "initiate" /\ FreeId # {}
  /\ \E o \in Attempts(call.left) : LET id == CHOOSE x \in FreeId : TRUE IN
       /\ uploads' = IF o.done THEN [uploads EXCEPT ![id].open = TRUE] ELSE uploads
       /\ CASE o.answer = "again"  -> call' = [call EXCEPT !.left = o.left]
            [] o.answer = "failed" -> Return("failed")
            [] o.answer = "ok"     ->
                 call' = [call EXCEPT !.id = id, !.left = Retries,
                                      !.step = IF call.op = "copy" THEN "copy" ELSE "fill"]
  /\ UNCHANGED <<source, object, late, worker>>

Uploaded == Len(call.list)

\* Fill below, without an eye on the end of the file.
FillPastEnd ==
  LET upto == Uploaded + Parallel IN
  /\ call.step = "fill"
  /\ IF Uploaded >= source.parts
       THEN call' = [call EXCEPT !.step = "complete", !.left = Retries]
       ELSE \/ call' = [call EXCEPT !.step = "take", !.todo = (Uploaded + 1) .. upto,
                          !.list = [i \in 1 .. upto |-> IF i <= Uploaded THEN @[i] ELSE NoPiece]]
            \/ Return("failed")
  /\ UNCHANGED <<source, object, uploads, late, worker>>

\* ParallelMultipartUploadRequest sets up a batch of Parallel parts, each with
\* an empty place in the list of ETags.  The set-up itself may fail.
Fill ==
  LET upto == Smallest(Uploaded + Parallel, source.parts) IN
  /\ call.step = "fill"
  /\ IF Uploaded >= source.parts
       THEN call' = [call EXCEPT !.step = "complete", !.left = Retries]
       ELSE \/ call' = [call EXCEPT !.step = "take", !.todo = (Uploaded + 1) .. upto,
                          !.list = [i \in 1 .. upto |-> IF i <= Uploaded THEN @[i] ELSE NoPiece]]
            \/ Return("failed")
  /\ UNCHANGED <<source, object, uploads, late, worker>>

\* S3fsMultiCurl::Request takes some of the batch, in any order, and
\* MultiPerform starts a thread for each; when a thread cannot be started no
\* more are.
Take ==
  /\ call.step = "take"
  /\ IF call.todo = {} THEN call' = [call EXCEPT !.step = "fill"] /\ worker' = worker
     ELSE \E req \in SUBSET call.todo : \E started \in SUBSET req :
            /\ Cardinality(req) = Smallest(MaxMultiReq, Cardinality(call.todo))
            /\ call' = [call EXCEPT !.step = "join", !.todo = @ \ req,
                                    !.broken = started # req]
            /\ worker' = [p \in Part |-> IF p \in started
                            THEN [state |-> "running", left |-> Retries] ELSE NoWorker]
  /\ UNCHANGED <<source, object, uploads, late>>

\* A thread uploads its part; RemakeHandle rewinds to the start of the part.
Work(p) ==
  LET piece == [of |-> source, part |-> p] IN
  /\ worker[p].state = "running"
  /\ \E o \in Attempts(worker[p].left) :
       /\ uploads' = IF o.done THEN StorePart(call.id, piece) ELSE uploads
       /\ worker' = [worker EXCEPT ![p] =
            [state |-> IF o.answer = "again" THEN "running" ELSE o.answer, left |-> o.left]]
       /\ Delay(o, Request("part", call.id, <<piece>>))
  /\ UNCHANGED <<source, object, call>>

Finished == {p \in Part : worker[p].state # "none"}

Joined ==
  /\ call.step = "join" /\ \A p \in Part : worker[p].state # "running"
  /\ worker' = [p \in Part |-> NoWorker]
  /\ UNCHANGED <<source, object, uploads, late>>

BatchFailed == call.broken \/ \E p \in Part : worker[p].state = "failed"

\* JoinOk below, with the ETags one place too far.
JoinOnePlaceOff ==
  /\ Joined /\ ~BatchFailed
  /\ \E tagged \in SUBSET Finished :
       call' = [call EXCEPT !.step = "take",
                  !.list = [i \in DOMAIN @ |->
                    IF i - 1 \in tagged THEN [of |-> source, part |-> i - 1] ELSE @[i]]]

\* MultiRead calls UploadMultipartPostCallback for every thread, which puts
\* the ETag at the part's place; the headers of the answer may have none.
JoinOk ==
  /\ Joined /\ ~BatchFailed
  /\ \E tagged \in SUBSET Finished :
       call' = [call EXCEPT !.step = "take",
                  !.list = [i \in DOMAIN @ |->
                    IF i \in tagged THEN [of |-> source, part |-> i] ELSE @[i]]]

\* The batch ends with the first failure.  ParallelMultipartUploadRequest
\* breaks out of its loop and goes on to complete the upload.
JoinFailed ==
  /\ Joined /\ BatchFailed
  /\ call' = [call EXCEPT !.step = "complete", !.left = Retries, !.todo = {}, !.broken = FALSE]

\* CopyMultipartPostRequest, for one part after the other; the answer may have
\* no ETag that can be read.
Copy ==
  LET n == Uploaded + 1
      piece == [of |-> source, part |-> n]
  IN /\ call.step = "copy"
     /\ \E o \in Attempts(call.left) :
          /\ uploads' = IF o.done THEN StorePart(call.id, piece) ELSE uploads
          /\ CASE o.answer = "again"  -> call' = [call EXCEPT !.left = o.left]
               [] o.answer = "failed" -> Return("failed")
               [] o.answer = "ok"     -> \E tag \in {piece, NoPiece} :
                    call' = [call EXCEPT !.list = Append(@, tag), !.left = Retries,
                               !.step = IF n = source.parts THEN "complete" ELSE "copy"]
          /\ Delay(o, Request("part", call.id, <<piece>>))
     /\ UNCHANGED <<source, object, worker>>

\* Complete below, leaving out the parts that have no ETag.
CompleteWithoutCheck ==
  LET Tagged(piece) == piece # NoPiece
      list == SelectSeq(call.list, Tagged)
  IN /\ call.step = "complete"
     /\ \E o \in Attempts(call.left) :
          /\ IF o.done /\ Completes(call.id, list)
               THEN object' = list /\ uploads' = [uploads EXCEPT ![call.id] = Unused]
               ELSE o.answer # "ok" /\ UNCHANGED <<object, uploads>>
          /\ IF o.answer = "again" THEN call' = [call EXCEPT !.left = o.left] ELSE Return(o.answer)
          /\ Delay(o, Request("complete", call.id, list))
     /\ UNCHANGED <<source, worker>>

\* Complete below, taking an upload with a missing part for a success.
CompleteReturningOk ==
  /\ call.step = "complete"
  /\ IF \E i \in DOMAIN call.list : call.list[i] = NoPiece
       THEN Return("ok") /\ UNCHANGED <<object, uploads, late>>
       ELSE \E o \in Attempts(call.left) :
              /\ IF o.done /\ Completes(call.id, call.list)
                   THEN object' = call.list /\ uploads' = [uploads EXCEPT ![call.id] = Unused]
                   ELSE o.answer # "ok" /\ UNCHANGED <<object, uploads>>
              /\ IF o.answer = "again" THEN call' = [call EXCEPT !.left = o.left]
                 ELSE Return(o.answer)
              /\ late' = late
  /\ UNCHANGED <<source, worker>>

\* CompleteMultipartPostRequest makes no request while a part has no ETag.  A
\* completion whose answer was lost is refused the second time.
Complete ==
  /\ call.step = "complete"
  /\ IF \E i \in DOMAIN call.list : call.list[i] = NoPiece
       THEN Return("failed") /\ UNCHANGED <<object, uploads, late>>
       ELSE \E o \in Attempts(call.left) :
              /\ IF o.done /\ Completes(call.id, call.list)
                   THEN object' = call.list /\ uploads' = [uploads EXCEPT ![call.id] = Unused]
                   ELSE o.answer # "ok" /\ UNCHANGED <<object, uploads>>
              /\ IF o.answer = "again" THEN call' = [call EXCEPT !.left = o.left]
                 ELSE Return(o.answer)
              /\ Delay(o, Request("complete", call.id, call.list))
  /\ UNCHANGED <<source, worker>>

-----------------------------------------------------------------------------
Main == Put \/ Initiate \/ Fill \/ Take \/ JoinOk \/ JoinFailed \/ Copy \/ Complete

Init ==
  /\ source \in {s \in Source : s.version = 0} /\ object = Whole(source)
  /\ uploads = [id \in Id |-> Unused] /\ late = {}
  /\ call = Idle("none") /\ worker = [p \in Part |-> NoWorker]

Next ==
  \/ Change \/ \E op \in {"put", "upload", "copy"} : Begin(op)
  \/ Main \/ \E p \in Part : Work(p)
  \/ Arrive

Spec == Init /\ [][Next]_vars

\* The threads run, and an attempt ends: CurlProgress aborts one that makes
\* no progress for readwrite_timeout seconds.
FairSpec == Spec /\ WF_vars(Main) /\ \A p \in Part : WF_vars(Work(p))

-----------------------------------------------------------------------------
(***************************************************************************)
(* Properties.                                                             *)
(***************************************************************************)
TypeOK ==
  /\ source \in Source /\ uploads \in [Id -> UploadState]
  /\ \E n \in Part : object \in [1 .. n -> Piece]
  /\ \A r \in late : r.kind \in Late /\ r.id \in Id \cup {NoId}
  /\ call \in Call /\ worker \in [Part -> Worker]
  /\ Len(call.list) <= source.parts /\ call.todo \subseteq DOMAIN call.list
  /\ Finished # {} => call.step = "join"

\* An ETag in the list is that of the part with its number, which the server
\* has under the id, whatever was repeated and in which order the threads
\* ended.
ListedPartsAreThere ==
  \A i \in DOMAIN call.list :
    call.list[i] # NoPiece =>
      /\ call.list[i] = [of |-> source, part |-> i]
      /\ uploads[call.id].open => uploads[call.id].parts[i] = call.list[i]

\* The object is always one whole source: a batch that fails, a part that is
\* lost or repeated never makes an object of other parts, or of fewer.
ObjectIsWhole == \E s \in Source : object = Whole(s)

\* An upload replaces the object as ObjectPut says, the form in which FdEntity
\* relies on it; in particular one that returns 0 has.
Stored == CHOOSE s \in Source : object = Whole(s)

Abstract == INSTANCE ObjectPut WITH
  Content <- Source, stored <- Stored, busy <- call.op # "idle", result <- call.result

ImplementsObjectPut == Abstract!Spec

\* Every upload ends, with a result, however often its requests fail.
EveryUploadEnds == call.op # "idle" ~> call.op = "idle"
=============================================================================
