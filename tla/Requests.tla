------------------------------ MODULE Requests ------------------------------
(***************************************************************************)
(* What every request of cosfs shares with those of the other threads      *)
(* (curl.cpp): the pool of curl handles and the timers of the handles,     *)
(* under curl_handles_lock, and the credentials it is signed with, under   *)
(* token_lock.  Each thread makes requests one after the other on an       *)
(* S3fsCurl object; when it has to sign and the credentials are about to   *)
(* expire it renews them, with the role's service by a request of its own  *)
(* on a second object, or from the password file.                          *)
(*                                                                         *)
(* A section of a lock is one step.  lock is the object whose call has     *)
(* left curl_handles_lock held, if any.  Credentials are known by the time *)
(* they were issued at; time is counted in units in which Delay is the     *)
(* longest a signature takes, its renewal included.                        *)
(***************************************************************************)
EXTENDS Integers

CONSTANTS
  Thread, Handle,  \* bound: threads, and curl handles at one time
  PoolSize,        \* S3fsCurl::sCurlPoolSize
  Retries,         \* S3fsCurl::retries
  Margin,          \* RAM_EXPIRE_MERGIN
  Life,            \* how long credentials are good for
  Delay,           \* how long CalcSignature takes at most
  Timeout,         \* S3fsCurl::readwrite_timeout
  MaxNow,          \* bound: the time
  Roles,           \* where credentials may come from
  InitMayFail,     \* whether curl_easy_init may fail
  NoHandle, NoObject

ASSUME HandlesAssumption ==
  /\ PoolSize \in Nat \ {0} /\ Retries \in Nat \ {0}
  /\ NoHandle \notin Handle /\ NoObject \notin Thread \X {"request", "renewal"}
  /\ Roles \subseteq {"none", "service", "file"} /\ InitMayFail \in BOOLEAN
ASSUME TimesAssumption ==
  /\ Margin \in Nat /\ Life \in Nat /\ Delay \in Nat /\ Timeout \in Nat /\ MaxNow \in Nat
  /\ Delay < Margin /\ Margin + Delay <= Life

VARIABLES
  mHandlers, mIndex,  \* CurlHandlerPool
  live,               \* the curl handles there are
  curl_times,         \* [Handle -> when it last made progress]
  curl_progress,      \* [Handle -> whether it has any yet]
  lock,               \* curl_handles_lock
  hCurl, type,        \* of each S3fsCurl object
  role,               \* where credentials come from
  file,               \* when the credentials in the password file were issued
  cred,               \* the credentials of the process
  now,
  at, job             \* where each thread is, and the data of its request

timers  == <<curl_times, curl_progress>>
handles == <<mHandlers, mIndex, live, timers, lock, hCurl, type>>
tokens  == <<role, file, cred>>
vars == <<handles, tokens, now, at, job>>

-----------------------------------------------------------------------------
Object  == Thread \X {"request", "renewal"}
Slot    == 0 .. PoolSize - 1
Time    == 0 .. MaxNow
Never   == -1                     \* no entry in curl_times; nothing issued

Phase == {"idle", "create", "check", "recreate", "ask", "store", "redestroy",
          "keys", "perform", "destroy", "between"}

\* COSAccessKeyId, COSSecretAccessKey, COSAccessToken, COSAccessTokenExpire.
Cred == [id : Time \cup {Never}, secret : Time \cup {Never},
         token : Time \cup {Never}, expire : 0 .. MaxNow + Life]

NoCred    == [id |-> Never, secret |-> Never, token |-> Never, expire |-> 0]
Mixed(c)  == c.id # c.secret \/ c.id # c.token
Issued(i) == [id |-> i, secret |-> i, token |-> i, expire |-> i + Life]

\* left: attempts left; since: when CalcSignature began; got: the answer of a
\* renewal; failed, unread: whether it failed, and whether its answer could
\* not be read.  History: silent: CurlProgress has not been called in the
\* attempt yet; mixed: the request is signed with values of two credentials.
Job == [left : 0 .. Retries, since : Time, got : Time \cup {Never}, failed : BOOLEAN,
        unread : BOOLEAN, silent : BOOLEAN, mixed : BOOLEAN]
NoJob == [left |-> 0, since |-> 0, got |-> Never, failed |-> FALSE, unread |-> FALSE,
          silent |-> FALSE, mixed |-> FALSE]

Main(t)    == <<t, "request">>
Renewal(t) == <<t, "renewal">>

Go(t, phase) == at' = [at EXCEPT ![t] = phase]

-----------------------------------------------------------------------------
(***************************************************************************)
(* CurlHandlerPool.  A handle that was taken stays in its slot above       *)
(* mIndex.                                                                 *)
(***************************************************************************)
\* GetHandler below, without the decrement.
GetHandlerKeepingIndex(h) ==
  IF mIndex >= 0
    THEN h = mHandlers[mIndex] /\ UNCHANGED <<mHandlers, mIndex, live>>
    ELSE /\ h \in Handle \ live
         /\ live' = live \cup {h} /\ UNCHANGED <<mHandlers, mIndex>>

GetHandler(h) ==
  IF mIndex >= 0
    THEN h = mHandlers[mIndex] /\ mIndex' = mIndex - 1 /\ UNCHANGED <<mHandlers, live>>
    ELSE /\ h \in Handle \ live                              \* curl_easy_init
         /\ live' = live \cup {h} /\ UNCHANGED <<mHandlers, mIndex>>

\* ReturnHandler below, with a limit that is one too high.
ReturnHandlerPastEnd(h) ==
  IF mIndex < PoolSize
    THEN /\ mIndex' = mIndex + 1 /\ mHandlers' = [mHandlers EXCEPT ![mIndex + 1] = h]
         /\ UNCHANGED live
    ELSE live' = live \ {h} /\ UNCHANGED <<mHandlers, mIndex>>

ReturnHandler(h) ==
  IF mIndex < PoolSize - 1
    THEN /\ mIndex' = mIndex + 1 /\ mHandlers' = [mHandlers EXCEPT ![mIndex + 1] = h]
         /\ UNCHANGED live
    ELSE /\ live' = live \ {h}                               \* curl_easy_cleanup
         /\ UNCHANGED <<mHandlers, mIndex>>

-----------------------------------------------------------------------------
(***************************************************************************)
(* S3fsCurl::CreateCurlHandle and DestroyCurlHandle.                       *)
(***************************************************************************)
\* ResetHandle below, without the progress.
ResetHandleKeepingProgress(h) ==
  curl_times' = [curl_times EXCEPT ![h] = now] /\ UNCHANGED curl_progress

\* The timer of a handle starts, with a progress that no callback reports.
ResetHandle(h) ==
  /\ curl_times' = [curl_times EXCEPT ![h] = now]
  /\ curl_progress' = [curl_progress EXCEPT ![h] = "new"]

EraseTimer(h) ==
  /\ curl_times' = [curl_times EXCEPT ![h] = Never]
  /\ curl_progress' = [curl_progress EXCEPT ![h] = "none"]

\* The object that has a handle calls DestroyCurlHandle with the lock held,
\* and waits for itself; when there is no handle to be had the lock stays held.
CreateCurlHandle(o) ==
  /\ lock = NoObject
  /\ \/ /\ hCurl[o] = NoHandle
        /\ \E h \in Handle : /\ GetHandler(h) /\ ResetHandle(h)
                             /\ hCurl' = [hCurl EXCEPT ![o] = h]
        /\ type' = [type EXCEPT ![o] = FALSE] /\ UNCHANGED lock
     \/ /\ hCurl[o] # NoHandle \/ (InitMayFail /\ mIndex < 0)
        /\ lock' = o
        /\ UNCHANGED <<mHandlers, mIndex, live, timers, hCurl, type>>

\* DestroyCurlHandle below, without hCurl = NULL.
DestroyKeepingHandle(o) ==
  /\ lock = NoObject \/ hCurl[o] = NoHandle
  /\ IF hCurl[o] = NoHandle THEN UNCHANGED handles
     ELSE /\ EraseTimer(hCurl[o]) /\ ReturnHandler(hCurl[o])
          /\ type' = [type EXCEPT ![o] = FALSE]
          /\ UNCHANGED <<lock, hCurl>>

\* An object without a handle returns before it takes the lock.  ClearInternalData
\* resets the rest of the object.
DestroyCurlHandle(o) ==
  /\ lock = NoObject \/ hCurl[o] = NoHandle
  /\ IF hCurl[o] = NoHandle THEN UNCHANGED handles
     ELSE /\ EraseTimer(hCurl[o]) /\ ReturnHandler(hCurl[o])
          /\ hCurl' = [hCurl EXCEPT ![o] = NoHandle]
          /\ type' = [type EXCEPT ![o] = FALSE]
          /\ UNCHANGED lock

-----------------------------------------------------------------------------
(***************************************************************************)
(* A request: a handle, a signature, the attempts of RequestPerform, and   *)
(* the handle back; the next request may be on the same object.            *)
(***************************************************************************)
Begin(t) ==
  /\ at[t] \in {"idle", "between"} /\ Go(t, "create")
  /\ UNCHANGED <<handles, tokens, now, job>>

\* PreHeadRequest, DeleteRequest, PutRequest, ...; without a handle they return.
Create(t) ==
  /\ at[t] = "create" /\ CreateCurlHandle(Main(t))
  /\ Go(t, IF hCurl'[Main(t)] = NoHandle THEN "destroy" ELSE "check")
  /\ UNCHANGED <<tokens, now, job>>

\* Check below, renewing only what has expired.
CheckWithoutMargin(t) ==
  /\ at[t] = "check"
  /\ Go(t, IF role = "none" \/ now <= cred.expire THEN "keys"
           ELSE IF role = "service" THEN "recreate" ELSE "ask")
  /\ job' = [job EXCEPT ![t].since = now]
  /\ UNCHANGED <<handles, tokens, now>>

\* CalcSignature, CheckRAMCredentialUpdate and checkSTSCredentialUpdate.
Check(t) ==
  /\ at[t] = "check"
  /\ Go(t, IF role = "none" \/ now + Margin <= cred.expire THEN "keys"
           ELSE IF role = "service" THEN "recreate" ELSE "ask")
  /\ job' = [job EXCEPT ![t].since = now]
  /\ UNCHANGED <<handles, tokens, now>>

\* GetRAMCredentials: type is set before CreateCurlHandle unsets it.
Recreate(t) ==
  /\ at[t] = "recreate" /\ CreateCurlHandle(Renewal(t))
  /\ Go(t, IF hCurl'[Renewal(t)] = NoHandle THEN "redestroy" ELSE "ask")
  /\ job' = [job EXCEPT ![t].left = IF hCurl'[Renewal(t)] = NoHandle THEN 0 ELSE Retries,
                        ![t].failed = hCurl'[Renewal(t)] = NoHandle]
  /\ UNCHANGED <<tokens, now>>

\* RequestPerform of the renewal.  After an attempt without an answer
\* RemakeHandle repeats it, unless the object has no type.
Ask(t) ==
  /\ at[t] = "ask" /\ role = "service" /\ UNCHANGED <<tokens, now>>
  /\ \/ /\ Go(t, "store") /\ UNCHANGED handles              \* an answer
        /\ \E got \in {now, Never} : job' = [job EXCEPT ![t].got = got]
     \/ /\ Go(t, "redestroy") /\ UNCHANGED handles          \* refused
        /\ job' = [job EXCEPT ![t].failed = TRUE, ![t].left = 0]
     \/ IF type[Renewal(t)] /\ job[t].left > 1              \* no answer
          THEN /\ UNCHANGED at /\ job' = [job EXCEPT ![t].left = @ - 1]
               /\ ResetHandle(hCurl[Renewal(t)])
               /\ UNCHANGED <<mHandlers, mIndex, live, lock, hCurl, type>>
          ELSE /\ Go(t, "redestroy") /\ UNCHANGED handles
               /\ job' = [job EXCEPT ![t].failed = TRUE, ![t].left = @ - 1]

\* check_for_cos_format reads the password file, which may be incomplete.
Reread(t) ==
  /\ at[t] = "ask" /\ role = "file" /\ UNCHANGED <<handles, tokens, now>>
  /\ \/ Go(t, "store") /\ job' = [job EXCEPT ![t].got = file]
     \/ Go(t, "keys") /\ job' = [job EXCEPT ![t].failed = TRUE]

\* Store below, with the token left as it was.
StoreWithoutToken(t) ==
  /\ at[t] = "store"
  /\ cred' = IF job[t].got = Never THEN cred
             ELSE [Issued(job[t].got) EXCEPT !.token = cred.token]
  /\ job' = [job EXCEPT ![t].unread = job[t].got = Never]
  /\ Go(t, IF role = "service" THEN "redestroy" ELSE "keys")
  /\ UNCHANGED <<handles, role, file, now>>

\* SetRAMCredentials and SetAccessKeyWithToken.  An answer that lacks one of
\* the four values changes nothing, and GetRAMCredentials returns 0 all the same.
Store(t) ==
  /\ at[t] = "store"
  /\ cred' = IF job[t].got = Never THEN cred ELSE Issued(job[t].got)
  /\ job' = [job EXCEPT ![t].unread = job[t].got = Never]
  /\ Go(t, IF role = "service" THEN "redestroy" ELSE "keys")
  /\ UNCHANGED <<handles, role, file, now>>

\* The object of the renewal ends.
Redestroy(t) ==
  /\ at[t] = "redestroy" /\ DestroyCurlHandle(Renewal(t)) /\ Go(t, "keys")
  /\ UNCHANGED <<tokens, now, job>>

\* GetAccessKeyWithToken, or GetAccessKey without a role; a request whose
\* credentials could not be renewed goes out with an empty signature.
GetKeys(t) ==
  /\ at[t] = "keys" /\ Go(t, "perform")
  /\ type' = [type EXCEPT ![Main(t)] = TRUE]
  /\ job' = [job EXCEPT ![t] = [NoJob EXCEPT
               !.mixed = ~job[t].failed /\ Mixed(cred), !.left = Retries, !.silent = TRUE]]
  /\ UNCHANGED <<mHandlers, mIndex, live, timers, lock, hCurl, tokens, now>>

\* CurlProgress, which curl calls now and then: progress is noted.
Progress(t) ==
  LET h == hCurl[Main(t)] IN
  /\ at[t] = "perform" /\ lock = NoObject
  /\ curl_times' = [curl_times EXCEPT ![h] = now]
  /\ curl_progress' = [curl_progress EXCEPT ![h] = "some"]
  /\ job' = [job EXCEPT ![t].silent = FALSE]
  /\ UNCHANGED <<mHandlers, mIndex, live, lock, hCurl, type, tokens, now, at>>

\* RequestPerform repeats the request with RemakeHandle, or gives up.
Repeat(t) ==
  IF job[t].left > 1 /\ type[Main(t)]
    THEN /\ ResetHandle(hCurl[Main(t)]) /\ UNCHANGED at
         /\ job' = [job EXCEPT ![t].left = @ - 1, ![t].silent = TRUE]
         /\ UNCHANGED <<mHandlers, mIndex, live, lock, hCurl, type>>
    ELSE Go(t, "destroy") /\ UNCHANGED <<handles, job>>

\* No answer, one that asks to come back, or CurlProgress has seen no progress
\* for too long.
Again(t) ==
  /\ at[t] = "perform" /\ Repeat(t) /\ UNCHANGED <<tokens, now>>

Stalled(h) == curl_progress[h] # "new" /\ now - curl_times[h] > Timeout

Abort(t) ==
  /\ at[t] = "perform" /\ lock = NoObject /\ Stalled(hCurl[Main(t)])
  /\ Repeat(t) /\ UNCHANGED <<tokens, now>>

Answer(t) ==
  /\ at[t] = "perform" /\ Go(t, "destroy")
  /\ UNCHANGED <<handles, tokens, now, job>>

\* The handle goes back before the next request on the same object, and once
\* more, to no effect, when the object ends.
Destroy(t) ==
  /\ at[t] \in {"destroy", "between"} /\ DestroyCurlHandle(Main(t))
  /\ Go(t, IF at[t] = "destroy" THEN "between" ELSE "idle")
  /\ job' = [job EXCEPT ![t] = NoJob]
  /\ UNCHANGED <<tokens, now>>

-----------------------------------------------------------------------------
(***************************************************************************)
(* Time (external).  CalcSignature takes at most Delay: its renewal is not *)
(* repeated, and is given up after connect_timeout, or Timeout without     *)
(* progress.  The password file is renewed before it is of no use.         *)
(***************************************************************************)
Signing(t) == at[t] \in {"recreate", "ask", "store", "redestroy", "keys"}

Tick ==
  /\ now < MaxNow /\ now' = now + 1
  /\ \A t \in Thread : Signing(t) => now' <= job[t].since + Delay
  /\ role = "file" => now' + Margin + Delay <= file + Life
  /\ UNCHANGED <<handles, tokens, at, job>>

Rewrite == /\ role = "file" /\ file' = now
           /\ UNCHANGED <<handles, role, cred, now, at, job>>

\* CurlHandlerPool::Init fills the pool.
Distinct(f) == \A i, j \in Slot : f[i] = f[j] => i = j

Init ==
  /\ mIndex = PoolSize - 1
  /\ mHandlers \in {f \in [Slot -> Handle] : Distinct(f)}
  /\ live = {mHandlers[i] : i \in Slot}
  /\ curl_times = [h \in Handle |-> Never]
  /\ curl_progress = [h \in Handle |-> "none"] /\ lock = NoObject
  /\ hCurl = [o \in Object |-> NoHandle] /\ type = [o \in Object |-> FALSE]
  /\ role \in Roles /\ file = 0 /\ now = 0
  /\ cred = IF role = "service" THEN NoCred ELSE Issued(0)
  /\ at = [t \in Thread |-> "idle"] /\ job = [t \in Thread |-> NoJob]

Step(t) ==
  \/ Create(t) \/ Check(t) \/ Recreate(t) \/ Ask(t) \/ Reread(t) \/ Store(t)
  \/ Redestroy(t) \/ GetKeys(t) \/ Again(t) \/ Abort(t) \/ Answer(t) \/ Destroy(t)

Next ==
  \/ Tick \/ Rewrite
  \/ \E t \in Thread : Begin(t) \/ Progress(t) \/ Step(t)

Spec == Init /\ [][Next]_vars

-----------------------------------------------------------------------------
(***************************************************************************)
(* Properties.                                                             *)
(***************************************************************************)
\* Every variable has its type; the pool never holds more than PoolSize handles
\* (CurlHandlerPool::ReturnHandler).
TypeOK ==
  /\ mHandlers \in [Slot -> Handle] /\ mIndex \in -1 .. PoolSize - 1
  /\ live \subseteq Handle /\ lock \in Object \cup {NoObject}
  /\ curl_times \in [Handle -> Time \cup {Never}]
  /\ curl_progress \in [Handle -> {"none", "new", "some"}]
  /\ hCurl \in [Object -> Handle \cup {NoHandle}] /\ type \in [Object -> BOOLEAN]
  /\ role \in Roles /\ file \in Time /\ cred \in Cred /\ now \in Time
  /\ at \in [Thread -> Phase] /\ job \in [Thread -> Job]

\* Every curl handle there is is in the pool once or belongs to one object,
\* and has a timer exactly while it does: none is used by two requests, used
\* after its cleanup, or lost.
Pooled == {i \in Slot : i <= mIndex}
Users  == {o \in Object : hCurl[o] # NoHandle}

HandlesAddUp ==
  /\ \A i, j \in Pooled : mHandlers[i] = mHandlers[j] => i = j
  /\ \A o, p \in Users : hCurl[o] = hCurl[p] => o = p
  /\ \A i \in Pooled, o \in Users : mHandlers[i] # hCurl[o]
  /\ live = {mHandlers[i] : i \in Pooled} \cup {hCurl[o] : o \in Users}
  /\ \A h \in Handle : curl_times[h] # Never <=> h \in {hCurl[o] : o \in Users}

\* The first call of CurlProgress in an attempt counts as progress, whoever had
\* the handle before and however long the signature or the wait before the
\* attempt took: no attempt is aborted for time that passed before it.
TimersAreFair ==
  \A t \in Thread : at[t] = "perform" /\ job[t].silent =>
    curl_progress[hCurl[Main(t)]] = "new"

\* The id, the key and the token a request is signed with belong together,
\* whatever the other threads renew meanwhile.
SignedWithOneCredential == \A t \in Thread : ~job[t].mixed

\* A request signs with credentials that have not expired, although another
\* thread may have stored an older answer since they were checked; except
\* after a renewal whose answer could not be read.
KeysAreValid ==
  \A t \in Thread :
    at[t] = "keys" /\ role # "none" /\ ~job[t].failed /\ ~job[t].unread => now < cred.expire

\* No call returns with curl_handles_lock held, and none waits for a lock its
\* own thread holds: an object has given its handle back when it takes another.
LockIsGivenBack == lock = NoObject
=============================================================================
