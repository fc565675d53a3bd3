--------------------------- MODULE Requests_proofs ---------------------------
(***************************************************************************)
(* Theorems about Requests, for any number of threads, any pool and any    *)
(* lengths of time that satisfy the assumptions of the module: the type    *)
(* invariant; that handles are neither shared nor lost and that no attempt *)
(* inherits a timer; that no request mixes credentials or signs with       *)
(* expired ones; and, if curl_easy_init does not fail, that                *)
(* curl_handles_lock is given back.                                        *)
(***************************************************************************)
EXTENDS Requests, TLAPS

USE HandlesAssumption, TimesAssumption

\* The objects of the threads are distinct.
LEMMA Objects ==
  ASSUME NEW t \in Thread
  PROVE  /\ Main(t) \in Object /\ Renewal(t) \in Object
         /\ \A u \in Thread : Main(t) # Renewal(u) /\ (Main(t) = Main(u) => t = u)
                              /\ (Renewal(t) = Renewal(u) => t = u)
BY DEF Main, Renewal, Object

-----------------------------------------------------------------------------
(***************************************************************************)
(* Types.                                                                  *)
(***************************************************************************)
HandleTypes ==
  /\ mHandlers \in [Slot -> Handle] /\ mIndex \in -1 .. PoolSize - 1
  /\ live \subseteq Handle /\ lock \in Object \cup {NoObject}
  /\ curl_times \in [Handle -> Time \cup {Never}]
  /\ curl_progress \in [Handle -> {"none", "new", "some"}]
  /\ hCurl \in [Object -> Handle \cup {NoHandle}] /\ type \in [Object -> BOOLEAN]

\* CreateCurlHandle keeps the types of the pool, the timers and the objects.
LEMMA CreateTypes ==
  ASSUME HandleTypes, now \in Time, NEW o \in Object, CreateCurlHandle(o)
  PROVE  HandleTypes'
<1>1. CASE /\ hCurl[o] = NoHandle
           /\ \E h \in Handle : /\ GetHandler(h) /\ ResetHandle(h)
                                /\ hCurl' = [hCurl EXCEPT ![o] = h]
           /\ type' = [type EXCEPT ![o] = FALSE] /\ UNCHANGED lock
  BY <1>1 DEF HandleTypes, GetHandler, ResetHandle, Slot
<1>2. CASE lock' = o /\ UNCHANGED <<mHandlers, mIndex, live, timers, hCurl, type>>
  BY <1>2 DEF HandleTypes, timers
<1>. QED BY <1>1, <1>2 DEF CreateCurlHandle

\* CurlHandlerPool::ReturnHandler stays within the slots of the pool.
LEMMA ReturnTypes ==
  ASSUME HandleTypes, NEW h \in Handle, ReturnHandler(h)
  PROVE  /\ mHandlers' \in [Slot -> Handle] /\ mIndex' \in -1 .. PoolSize - 1
         /\ live' \subseteq Handle
BY DEF HandleTypes, ReturnHandler, Slot

\* So does DestroyCurlHandle.
LEMMA DestroyTypes ==
  ASSUME HandleTypes, NEW o \in Object, DestroyCurlHandle(o)
  PROVE  HandleTypes'
<1>1. CASE hCurl[o] = NoHandle
  BY <1>1 DEF HandleTypes, DestroyCurlHandle, handles, timers
<1>2. CASE hCurl[o] # NoHandle
  <2>1. hCurl[o] \in Handle
    BY <1>2 DEF HandleTypes
  <2>2. /\ mHandlers' \in [Slot -> Handle] /\ mIndex' \in -1 .. PoolSize - 1
        /\ live' \subseteq Handle
    BY <1>2, <2>1, ReturnTypes DEF DestroyCurlHandle
  <2>. QED BY <1>2, <2>1, <2>2 DEF HandleTypes, DestroyCurlHandle, EraseTimer
<1>. QED BY <1>1, <1>2

\* So does ResetHandle.
LEMMA ResetTypes ==
  ASSUME HandleTypes, now \in Time, NEW h, ResetHandle(h),
         UNCHANGED <<mHandlers, mIndex, live, lock, hCurl, type>>
  PROVE  HandleTypes'
BY DEF HandleTypes, ResetHandle

\* A member of Job with one of its fields set.
LEMMA JobSet ==
  ASSUME NEW j \in Job
  PROVE  /\ \A n \in Time : LET k == [j EXCEPT !.since = n] IN
              k \in Job /\ k.since = n /\ (k.mixed <=> j.mixed)
         /\ \A n \in Time \cup {Never} : LET k == [j EXCEPT !.got = n] IN
              k \in Job /\ k.since = j.since /\ k.got = n /\ (k.mixed <=> j.mixed)
         /\ \A b \in BOOLEAN : LET k == [j EXCEPT !.failed = b] IN
              k \in Job /\ k.since = j.since /\ k.left = j.left /\ (k.failed <=> b)
              /\ (k.mixed <=> j.mixed)
         /\ \A b \in BOOLEAN : LET k == [j EXCEPT !.unread = b] IN
              k \in Job /\ k.since = j.since /\ (k.unread <=> b) /\ (k.mixed <=> j.mixed)
         /\ \A b \in BOOLEAN : LET k == [j EXCEPT !.silent = b] IN
              k \in Job /\ (k.silent <=> b) /\ (k.mixed <=> j.mixed)
         /\ \A b \in BOOLEAN : LET k == [j EXCEPT !.mixed = b] IN
              k \in Job /\ (k.mixed <=> b)
         /\ \A n \in 0 .. Retries : LET k == [j EXCEPT !.left = n] IN
              k \in Job /\ k.left = n /\ k.since = j.since /\ (k.failed <=> j.failed)
              /\ (k.mixed <=> j.mixed)
BY DEF Job

-----------------------------------------------------------------------------
(***************************************************************************)
(* What each step does to the data of its request.                         *)
(***************************************************************************)
Sets(t, k) == job' = [job EXCEPT ![t] = k]

\* CalcSignature notes when it begins.
LEMMA CheckJob ==
  ASSUME TypeOK, NEW t \in Thread, Check(t)
  PROVE  \E k \in Job : Sets(t, k) /\ k.since = now /\ (k.mixed <=> job[t].mixed)
<1>. DEFINE k == [job[t] EXCEPT !.since = now]
<1>1. k \in Job /\ k.since = now /\ (k.mixed <=> job[t].mixed)
  BY JobSet DEF TypeOK
<1>2. Sets(t, k)
  BY DEF Check, Sets
<1>. QED BY <1>1, <1>2

\* A renewal without a handle has failed.
LEMMA RecreateJob ==
  ASSUME TypeOK, NEW t \in Thread, Recreate(t)
  PROVE  \E k \in Job : /\ Sets(t, k) /\ k.since = job[t].since /\ (k.mixed <=> job[t].mixed)
                        /\ k.failed <=> hCurl'[Renewal(t)] = NoHandle
                        /\ k.left = 0 <=> hCurl'[Renewal(t)] = NoHandle
<1>. DEFINE n == IF hCurl'[Renewal(t)] = NoHandle THEN 0 ELSE Retries
            b == hCurl'[Renewal(t)] = NoHandle
            j == [job[t] EXCEPT !.left = n]
            k == [j EXCEPT !.failed = b]
<1>1. n \in 0 .. Retries /\ b \in BOOLEAN /\ job[t] \in Job
  BY DEF TypeOK
<1>2. Sets(t, [[job[t] EXCEPT !.left = n] EXCEPT !.failed = b])
  BY DEF Recreate, Sets
<1>. HIDE DEF n, b
<1>3. j \in Job /\ j.since = job[t].since /\ (j.mixed <=> job[t].mixed) /\ j.left = n
  BY <1>1, JobSet
<1>. HIDE DEF j
<1>4. k \in Job /\ k.since = j.since /\ (k.mixed <=> j.mixed) /\ k.left = j.left /\ (k.failed <=> b)
  BY <1>1, <1>3, JobSet
<1>5. n = 0 <=> b
  BY DEF n, b
<1>6. Sets(t, k)
  BY <1>2 DEF j
<1>. HIDE DEF k
<1>. QED BY <1>3, <1>4, <1>5, <1>6 DEF b

\* A renewal is answered, has failed, or has an attempt left.
LEMMA AskJob ==
  ASSUME TypeOK, NEW t \in Thread, Ask(t), job[t].left # 0
  PROVE  \E k \in Job :
           /\ Sets(t, k) /\ k.since = job[t].since /\ (k.mixed <=> job[t].mixed)
           /\ \/ at' = [at EXCEPT ![t] = "store"] /\ k.got \in {now, Never}
              \/ at' = [at EXCEPT ![t] = "redestroy"] /\ k.failed
              \/ UNCHANGED at /\ k.left # 0
<1>0. job[t] \in Job /\ now \in Time
  BY DEF TypeOK
<1>1. CASE Go(t, "store") /\ \E got \in {now, Never} : job' = [job EXCEPT ![t].got = got]
  <2>1. PICK got \in {now, Never} : job' = [job EXCEPT ![t].got = got]
    BY <1>1
  <2>. DEFINE k == [job[t] EXCEPT !.got = got]
  <2>2. k \in Job /\ k.since = job[t].since /\ (k.mixed <=> job[t].mixed) /\ k.got = got
    BY <1>0, JobSet
  <2>3. Sets(t, k)
    BY <2>1 DEF Sets
  <2>. QED BY <1>1, <2>2, <2>3 DEF Go
<1>2. CASE Go(t, "redestroy") /\ job' = [job EXCEPT ![t].failed = TRUE, ![t].left = 0]
  <2>. DEFINE j == [job[t] EXCEPT !.failed = TRUE]
              k == [j EXCEPT !.left = 0]
  <2>1. Sets(t, [[job[t] EXCEPT !.failed = TRUE] EXCEPT !.left = 0])
    BY <1>2 DEF Sets
  <2>2. j \in Job /\ j.since = job[t].since /\ (j.mixed <=> job[t].mixed) /\ j.failed
    BY <1>0, JobSet
  <2>. HIDE DEF j
  <2>3. k \in Job /\ k.since = j.since /\ (k.mixed <=> j.mixed) /\ (k.failed <=> j.failed)
    BY <2>2, JobSet
  <2>. QED BY <1>2, <2>1, <2>2, <2>3 DEF j, Go
<1>3. CASE UNCHANGED at /\ job[t].left > 1 /\ job' = [job EXCEPT ![t].left = @ - 1]
  <2>. DEFINE k == [job[t] EXCEPT !.left = job[t].left - 1]
  <2>1. job[t].left - 1 \in 0 .. Retries /\ job[t].left - 1 # 0
    BY <1>0, <1>3 DEF Job
  <2>2. k \in Job /\ k.since = job[t].since /\ (k.mixed <=> job[t].mixed) /\ k.left # 0
    BY <1>0, <2>1, JobSet
  <2>3. Sets(t, k)
    BY <1>3 DEF Sets
  <2>. QED BY <1>3, <2>2, <2>3
<1>4. CASE Go(t, "redestroy") /\ job' = [job EXCEPT ![t].failed = TRUE, ![t].left = @ - 1]
  <2>. DEFINE j == [job[t] EXCEPT !.failed = TRUE]
              n == job[t].left - 1
              k == [j EXCEPT !.left = n]
  <2>1. Sets(t, [[job[t] EXCEPT !.failed = TRUE] EXCEPT !.left = job[t].left - 1])
    <3>1. [job[t] EXCEPT !.failed = TRUE].left = job[t].left
      BY <1>0, JobSet
    <3>. QED BY <1>4, <3>1 DEF Sets
  <2>2. j \in Job /\ j.since = job[t].since /\ (j.mixed <=> job[t].mixed) /\ j.failed
    BY <1>0, JobSet
  <2>3. n \in 0 .. Retries
    BY <1>0 DEF Job
  <2>. HIDE DEF j, n
  <2>4. k \in Job /\ k.since = j.since /\ (k.mixed <=> j.mixed) /\ (k.failed <=> j.failed)
    BY <2>2, <2>3, JobSet
  <2>. QED BY <1>4, <2>1, <2>2, <2>4 DEF j, n, Go
<1>. QED BY <1>1, <1>2, <1>3, <1>4 DEF Ask

\* The password file is read or the renewal has failed.
LEMMA RereadJob ==
  ASSUME TypeOK, NEW t \in Thread, Reread(t)
  PROVE  \E k \in Job :
           /\ Sets(t, k) /\ k.since = job[t].since /\ (k.mixed <=> job[t].mixed)
           /\ \/ at' = [at EXCEPT ![t] = "store"] /\ k.got = file
              \/ at' = [at EXCEPT ![t] = "keys"] /\ k.failed
<1>0. job[t] \in Job /\ file \in Time
  BY DEF TypeOK
<1>1. CASE Go(t, "store") /\ job' = [job EXCEPT ![t].got = file]
  <2>. DEFINE k == [job[t] EXCEPT !.got = file]
  <2>1. k \in Job /\ k.since = job[t].since /\ (k.mixed <=> job[t].mixed) /\ k.got = file
    BY <1>0, JobSet
  <2>2. Sets(t, k)
    BY <1>1 DEF Sets
  <2>. QED BY <1>1, <2>1, <2>2 DEF Go
<1>2. CASE Go(t, "keys") /\ job' = [job EXCEPT ![t].failed = TRUE]
  <2>. DEFINE k == [job[t] EXCEPT !.failed = TRUE]
  <2>1. k \in Job /\ k.since = job[t].since /\ (k.mixed <=> job[t].mixed) /\ k.failed
    BY <1>0, JobSet
  <2>2. Sets(t, k)
    BY <1>2 DEF Sets
  <2>. QED BY <1>2, <2>1, <2>2 DEF Go
<1>. QED BY <1>1, <1>2 DEF Reread

\* SetRAMCredentials: an answer without values is unread.
LEMMA StoreJob ==
  ASSUME TypeOK, NEW t \in Thread, Store(t)
  PROVE  \E k \in Job : /\ Sets(t, k) /\ k.since = job[t].since /\ (k.mixed <=> job[t].mixed)
                        /\ k.unread <=> job[t].got = Never
<1>. DEFINE b == job[t].got = Never
            k == [job[t] EXCEPT !.unread = b]
<1>1. Sets(t, k)
  BY DEF Store, Sets
<1>2. b \in BOOLEAN /\ job[t] \in Job
  BY DEF TypeOK
<1>. HIDE DEF b
<1>3. k \in Job /\ k.since = job[t].since /\ (k.mixed <=> job[t].mixed) /\ (k.unread <=> b)
  BY <1>2, JobSet
<1>. HIDE DEF k
<1>. QED BY <1>1, <1>3 DEF b

\* A request begins without progress, with the values of cred.
LEMMA GetKeysJob ==
  ASSUME TypeOK, NEW t \in Thread, GetKeys(t)
  PROVE  \E k \in Job : Sets(t, k) /\ k.silent /\ (Mixed(cred) \/ ~k.mixed)
<1>. DEFINE b == ~job[t].failed /\ Mixed(cred)
            j == [NoJob EXCEPT !.mixed = b]
            l == [j EXCEPT !.left = Retries]
            k == [l EXCEPT !.silent = TRUE]
<1>1. Sets(t, [[[NoJob EXCEPT !.mixed = ~job[t].failed /\ Mixed(cred)]
                  EXCEPT !.left = Retries] EXCEPT !.silent = TRUE])
  BY DEF GetKeys, Sets
<1>2. b \in BOOLEAN /\ (b => Mixed(cred))
  BY DEF TypeOK, Job
<1>. HIDE DEF b
<1>0. NoJob \in Job
  BY DEF NoJob, Job, Time
<1>3. j \in Job /\ (j.mixed <=> b)
  BY <1>0, <1>2, JobSet
<1>. HIDE DEF j
<1>4. l \in Job /\ (l.mixed <=> j.mixed)
  BY <1>3, JobSet
<1>. HIDE DEF l
<1>5. k \in Job /\ k.silent /\ (k.mixed <=> l.mixed)
  BY <1>4, JobSet
<1>6. Sets(t, k)
  BY <1>1 DEF j, l, b
<1>. HIDE DEF k
<1>. QED BY <1>2, <1>3, <1>4, <1>5, <1>6

\* CurlProgress has been called.
LEMMA ProgressJob ==
  ASSUME TypeOK, NEW t \in Thread, Progress(t)
  PROVE  \E k \in Job : Sets(t, k) /\ ~k.silent /\ (k.mixed <=> job[t].mixed)
<1>. DEFINE k == [job[t] EXCEPT !.silent = FALSE]
<1>1. Sets(t, k)
  BY DEF Progress, Sets
<1>2. job[t] \in Job
  BY DEF TypeOK
<1>3. k \in Job /\ (k.silent <=> FALSE) /\ (k.mixed <=> job[t].mixed)
  BY <1>2, JobSet
<1>. HIDE DEF k
<1>. QED BY <1>1, <1>3

\* A request that is not repeated keeps its data.
LEMMA RepeatJob ==
  ASSUME TypeOK, NEW t \in Thread, Repeat(t)
  PROVE  \/ /\ UNCHANGED at /\ ResetHandle(hCurl[Main(t)])
            /\ UNCHANGED <<mHandlers, mIndex, live, lock, hCurl, type>>
            /\ \E k \in Job : Sets(t, k) /\ k.silent /\ (k.mixed <=> job[t].mixed)
         \/ Go(t, "destroy") /\ UNCHANGED <<handles, job>>
<1>0. job[t] \in Job
  BY DEF TypeOK
<1>1. CASE job[t].left > 1 /\ type[Main(t)]
  <2>. DEFINE n == job[t].left - 1
              j == [job[t] EXCEPT !.left = n]
              k == [j EXCEPT !.silent = TRUE]
  <2>1. Sets(t, [[job[t] EXCEPT !.left = job[t].left - 1] EXCEPT !.silent = TRUE])
    BY <1>1 DEF Repeat, Sets
  <2>2. n \in 0 .. Retries
    BY <1>0, <1>1 DEF Job
  <2>. HIDE DEF n
  <2>3. j \in Job /\ (j.mixed <=> job[t].mixed)
    BY <1>0, <2>2 DEF Job
  <2>. HIDE DEF j
  <2>4. k \in Job /\ k.silent /\ (k.mixed <=> j.mixed)
    BY <2>3, JobSet
  <2>5. Sets(t, k)
    BY <2>1 DEF j, n
  <2>. HIDE DEF k
  <2>6. /\ UNCHANGED at /\ ResetHandle(hCurl[Main(t)])
        /\ UNCHANGED <<mHandlers, mIndex, live, lock, hCurl, type>>
    BY <1>1 DEF Repeat
  <2>. QED BY <2>3, <2>4, <2>5, <2>6
<1>2. CASE ~(job[t].left > 1 /\ type[Main(t)])
  BY <1>2 DEF Repeat
<1>. QED BY <1>1, <1>2

\* The object is as new.
LEMMA DestroyJob ==
  ASSUME NEW t \in Thread, Destroy(t)
  PROVE  \E k \in Job : Sets(t, k) /\ ~k.mixed
<1>1. NoJob \in Job /\ ~NoJob.mixed
  BY DEF NoJob, Job, Time
<1>2. Sets(t, NoJob)
  BY DEF Destroy, Sets
<1>. QED BY <1>1, <1>2

-----------------------------------------------------------------------------
(***************************************************************************)
(* The type invariant: TypeOK is not inductive alone, as an attempt to     *)
(* renew that is left must be known to be left.                            *)
(***************************************************************************)
Asking == \A t \in Thread : at[t] = "ask" /\ role = "service" => job[t].left # 0

Rest == /\ role \in Roles /\ file \in Time /\ cred \in Cred /\ now \in Time
        /\ at \in [Thread -> Phase] /\ job \in [Thread -> Job]

\* The two parts of the type invariant.
LEMMA Parts == TypeOK <=> HandleTypes /\ Rest
BY DEF TypeOK, HandleTypes, Rest

\* The initial states have their types.
LEMMA TypeInit == Init => TypeOK /\ Asking
<1>. SUFFICES ASSUME Init PROVE TypeOK /\ Asking
  OBVIOUS
<1>1. HandleTypes
  BY DEF Init, HandleTypes, Slot, Time, Distinct
<1>2. NoJob \in Job /\ NoCred \in Cred /\ Issued(0) \in Cred
  BY DEF NoJob, Job, Time, NoCred, Cred, Issued
<1>3. Rest
  BY <1>2 DEF Init, Rest, Time, Phase
<1>. QED BY <1>1, <1>3, Parts DEF Init, Asking

\* Every step keeps the types.
LEMMA TypeStep == TypeOK /\ Asking /\ [Next]_vars => TypeOK' /\ Asking'
<1>. SUFFICES ASSUME TypeOK, Asking, [Next]_vars PROVE TypeOK' /\ Asking'
  OBVIOUS
<1>0. HandleTypes /\ Rest /\ (HandleTypes' /\ Rest' => TypeOK')
  BY Parts DEF TypeOK, HandleTypes, Rest
<1>1. UNCHANGED handles => HandleTypes'
  BY <1>0 DEF HandleTypes, handles, timers
<1>2. CASE UNCHANGED vars
  BY <1>0, <1>1, <1>2 DEF vars, tokens, Rest, Asking
<1>3. CASE Tick
  <2>. now' \in Time
    BY <1>0, <1>3 DEF Tick, Time, Rest
  <2>. QED BY <1>0, <1>1, <1>3 DEF Tick, tokens, Rest, Asking
<1>4. CASE Rewrite
  BY <1>0, <1>1, <1>4 DEF Rewrite, Rest, Asking
<1>5. ASSUME NEW t \in Thread, NEW k \in Job, Sets(t, k),
             NEW p \in Phase, at' = [at EXCEPT ![t] = p], p = "ask" => k.left # 0 \/ role = "file",
             HandleTypes', UNCHANGED <<role, file, now>>, cred' \in Cred
      PROVE  TypeOK' /\ Asking'
  <2>1. Rest'
    BY <1>0, <1>5 DEF Sets, Rest
  <2>2. Asking'
    BY <1>0, <1>5 DEF Sets, Rest, Asking
  <2>. QED BY <1>0, <1>5, <2>1, <2>2
<1>6. ASSUME NEW t \in Thread, UNCHANGED job,
             NEW p \in Phase \ {"ask"}, at' = [at EXCEPT ![t] = p],
             HandleTypes', UNCHANGED <<tokens, now>>
      PROVE  TypeOK' /\ Asking'
  <2>1. Rest'
    BY <1>0, <1>6 DEF Rest, tokens
  <2>2. Asking'
    BY <1>0, <1>6 DEF Rest, Asking, tokens
  <2>. QED BY <1>0, <1>6, <2>1, <2>2
<1>7. ASSUME NEW t \in Thread, Begin(t) PROVE TypeOK' /\ Asking'
  BY <1>1, <1>6, <1>7 DEF Begin, Go, Phase
<1>8. ASSUME NEW t \in Thread, Create(t) PROVE TypeOK' /\ Asking'
  <2>1. HandleTypes'
    BY <1>0, <1>8, CreateTypes, Objects DEF Create, Rest
  <2>. QED BY <1>6, <1>8, <2>1 DEF Create, Go, Phase
<1>9. ASSUME NEW t \in Thread, Check(t) PROVE TypeOK' /\ Asking'
  <2>1. PICK k \in Job : Sets(t, k)
    BY <1>9, CheckJob
  <2>2. HandleTypes' /\ UNCHANGED <<role, file, now>> /\ cred' \in Cred
    BY <1>0, <1>1, <1>9 DEF Check, tokens, Rest
  <2>3. role \in {"none", "service", "file"}
    BY <1>0 DEF Rest
  <2>4. \E p \in {"keys", "recreate", "ask"} : at' = [at EXCEPT ![t] = p] /\ (p = "ask" => role = "file")
    BY <1>9, <2>3 DEF Check, Go
  <2>. QED BY <1>5, <2>1, <2>2, <2>4 DEF Phase
<1>10. ASSUME NEW t \in Thread, Recreate(t) PROVE TypeOK' /\ Asking'
  <2>1. PICK k \in Job : Sets(t, k) /\ (k.left = 0 <=> hCurl'[Renewal(t)] = NoHandle)
    BY <1>10, RecreateJob
  <2>2. HandleTypes'
    BY <1>0, <1>10, CreateTypes, Objects DEF Recreate, Rest
  <2>3. UNCHANGED <<role, file, now>> /\ cred' \in Cred
    BY <1>0, <1>10 DEF Recreate, tokens, Rest
  <2>4. \E p \in {"redestroy", "ask"} : at' = [at EXCEPT ![t] = p] /\ (p = "ask" => k.left # 0)
    BY <1>10, <2>1 DEF Recreate, Go
  <2>. QED BY <1>5, <2>1, <2>2, <2>3, <2>4 DEF Phase
<1>11. ASSUME NEW t \in Thread, Ask(t) PROVE TypeOK' /\ Asking'
  <2>1. PICK k \in Job :
          /\ Sets(t, k)
          /\ \/ at' = [at EXCEPT ![t] = "store"] \/ at' = [at EXCEPT ![t] = "redestroy"]
             \/ UNCHANGED at /\ k.left # 0
    BY <1>11, AskJob DEF Ask, Asking
  <2>2. HandleTypes'
    BY <1>0, <1>1, <1>11, ResetTypes DEF Ask, Rest
  <2>3. UNCHANGED <<role, file, now>> /\ cred' \in Cred
    BY <1>0, <1>11 DEF Ask, tokens, Rest
  <2>4. UNCHANGED at => at' = [at EXCEPT ![t] = "ask"]
    BY <1>0, <1>11 DEF Ask, Rest
  <2>. QED BY <1>5, <2>1, <2>2, <2>3, <2>4 DEF Phase
<1>12. ASSUME NEW t \in Thread, Reread(t) PROVE TypeOK' /\ Asking'
  <2>1. PICK k \in Job :
          /\ Sets(t, k)
          /\ at' = [at EXCEPT ![t] = "store"] \/ at' = [at EXCEPT ![t] = "keys"]
    BY <1>12, RereadJob
  <2>2. HandleTypes' /\ UNCHANGED <<role, file, now>> /\ cred' \in Cred
    BY <1>0, <1>1, <1>12 DEF Reread, tokens, Rest
  <2>. QED BY <1>5, <2>1, <2>2 DEF Phase
<1>13. ASSUME NEW t \in Thread, Store(t) PROVE TypeOK' /\ Asking'
  <2>1. PICK k \in Job : Sets(t, k)
    BY <1>13, StoreJob
  <2>2. HandleTypes' /\ UNCHANGED <<role, file, now>>
    BY <1>1, <1>13 DEF Store
  <2>3. job[t].got \in Time \cup {Never}
    BY <1>0 DEF Rest, Job
  <2>4. \A i \in Time : Issued(i) \in Cred
    BY DEF Issued, Cred, Time
  <2>5. cred' \in Cred
    BY <1>0, <1>13, <2>3, <2>4 DEF Store, Rest
  <2>. QED BY <1>5, <1>13, <2>1, <2>2, <2>5 DEF Store, Go, Phase
<1>14. ASSUME NEW t \in Thread, Redestroy(t) PROVE TypeOK' /\ Asking'
  <2>1. HandleTypes'
    BY <1>0, <1>14, DestroyTypes, Objects DEF Redestroy
  <2>. QED BY <1>6, <1>14, <2>1 DEF Redestroy, Go, Phase
<1>15. ASSUME NEW t \in Thread, GetKeys(t) PROVE TypeOK' /\ Asking'
  <2>1. PICK k \in Job : Sets(t, k)
    BY <1>15, GetKeysJob
  <2>2. HandleTypes'
    BY <1>0, <1>15 DEF GetKeys, HandleTypes, timers
  <2>3. UNCHANGED <<role, file, now>> /\ cred' \in Cred
    BY <1>0, <1>15 DEF GetKeys, tokens, Rest
  <2>. QED BY <1>5, <1>15, <2>1, <2>2, <2>3 DEF GetKeys, Go, Phase
<1>16. ASSUME NEW t \in Thread, Progress(t) PROVE TypeOK' /\ Asking'
  <2>1. PICK k \in Job : Sets(t, k)
    BY <1>16, ProgressJob
  <2>2. HandleTypes'
    BY <1>0, <1>16 DEF Progress, HandleTypes, Rest
  <2>3. at' = [at EXCEPT ![t] = "perform"] /\ UNCHANGED <<role, file, now>> /\ cred' \in Cred
    BY <1>0, <1>16 DEF Progress, tokens, Rest
  <2>. QED BY <1>5, <2>1, <2>2, <2>3 DEF Phase
<1>17. ASSUME NEW t \in Thread, at[t] = "perform", Repeat(t), UNCHANGED <<tokens, now>>
       PROVE  TypeOK' /\ Asking'
  <2>1. CASE Go(t, "destroy") /\ UNCHANGED <<handles, job>>
    BY <1>1, <1>6, <1>17, <2>1 DEF Go, Phase
  <2>2. CASE /\ UNCHANGED at /\ ResetHandle(hCurl[Main(t)])
             /\ UNCHANGED <<mHandlers, mIndex, live, lock, hCurl, type>>
             /\ \E k \in Job : Sets(t, k)
    <3>1. HandleTypes'
      BY <1>0, <2>2, ResetTypes DEF Rest
    <3>2. at' = [at EXCEPT ![t] = "perform"] /\ UNCHANGED <<role, file, now>> /\ cred' \in Cred
      BY <1>0, <1>17, <2>2 DEF tokens, Rest
    <3>. QED BY <1>5, <2>2, <3>1, <3>2 DEF Phase
  <2>. QED BY <1>17, <2>1, <2>2, RepeatJob
<1>18. ASSUME NEW t \in Thread, Answer(t) PROVE TypeOK' /\ Asking'
  BY <1>1, <1>6, <1>18 DEF Answer, Go, Phase
<1>19. ASSUME NEW t \in Thread, Destroy(t) PROVE TypeOK' /\ Asking'
  <2>1. PICK k \in Job : Sets(t, k)
    BY <1>19, DestroyJob
  <2>2. HandleTypes'
    BY <1>0, <1>19, DestroyTypes, Objects DEF Destroy
  <2>3. UNCHANGED <<role, file, now>> /\ cred' \in Cred
    BY <1>0, <1>19 DEF Destroy, tokens, Rest
  <2>4. \E p \in {"between", "idle"} : at' = [at EXCEPT ![t] = p]
    BY <1>19 DEF Destroy, Go
  <2>. QED BY <1>5, <2>1, <2>2, <2>3, <2>4 DEF Phase
<1>. QED
  BY <1>2, <1>3, <1>4, <1>7, <1>8, <1>9, <1>10, <1>11, <1>12, <1>13, <1>14, <1>15, <1>16,
     <1>17, <1>18, <1>19 DEF Next, Step, Again, Abort

\* The types of the pool, the timers, the objects and the credentials hold for
\* every size of the pool and every length of time.
THEOREM TypeCorrect == Spec => []TypeOK
BY TypeInit, TypeStep, PTL DEF Spec

-----------------------------------------------------------------------------
(***************************************************************************)
(* Credentials: all values of cred are of one answer, as Store replaces    *)
(* them together.                                                          *)
(***************************************************************************)
OneCredential == ~Mixed(cred) /\ \A t \in Thread : ~job[t].mixed

\* The credentials at the start are of one answer, or none.
LEMMA OneInit == Init => OneCredential
BY DEF Init, OneCredential, Mixed, NoCred, NoJob, Issued

\* Every step keeps the values together.
LEMMA OneStep == TypeOK /\ Asking /\ OneCredential /\ [Next]_vars => OneCredential'
<1>. SUFFICES ASSUME TypeOK, Asking, OneCredential, [Next]_vars PROVE OneCredential'
  OBVIOUS
<1>1. UNCHANGED <<cred, job>> => OneCredential'
  BY DEF OneCredential, Mixed
<1>2. ASSUME NEW t \in Thread, NEW k \in Job, Sets(t, k), ~k.mixed, ~Mixed(cred)'
      PROVE  OneCredential'
  BY <1>2 DEF OneCredential, Sets, TypeOK
<1>3. UNCHANGED cred => ~Mixed(cred)'
  BY DEF OneCredential, Mixed
<1>4. CASE UNCHANGED vars \/ Tick \/ Rewrite
  BY <1>1, <1>4 DEF vars, Tick, Rewrite, tokens
<1>5. ASSUME NEW t \in Thread, Begin(t) \/ Create(t) \/ Redestroy(t) \/ Answer(t)
      PROVE  OneCredential'
  BY <1>1, <1>5 DEF Begin, Create, Redestroy, Answer, tokens
<1>6. ASSUME NEW t \in Thread, Check(t) PROVE OneCredential'
  <2>1. PICK k \in Job : Sets(t, k) /\ (k.mixed <=> job[t].mixed)
    BY <1>6, CheckJob
  <2>. QED BY <1>2, <1>3, <1>6, <2>1 DEF Check, tokens, OneCredential
<1>7. ASSUME NEW t \in Thread, Recreate(t) PROVE OneCredential'
  <2>1. PICK k \in Job : Sets(t, k) /\ (k.mixed <=> job[t].mixed)
    BY <1>7, RecreateJob
  <2>. QED BY <1>2, <1>3, <1>7, <2>1 DEF Recreate, tokens, OneCredential
<1>8. ASSUME NEW t \in Thread, Ask(t) PROVE OneCredential'
  <2>1. PICK k \in Job : Sets(t, k) /\ (k.mixed <=> job[t].mixed)
    BY <1>8, AskJob DEF Ask, Asking
  <2>. QED BY <1>2, <1>3, <1>8, <2>1 DEF Ask, tokens, OneCredential
<1>9. ASSUME NEW t \in Thread, Reread(t) PROVE OneCredential'
  <2>1. PICK k \in Job : Sets(t, k) /\ (k.mixed <=> job[t].mixed)
    BY <1>9, RereadJob
  <2>. QED BY <1>2, <1>3, <1>9, <2>1 DEF Reread, tokens, OneCredential
<1>10. ASSUME NEW t \in Thread, Store(t) PROVE OneCredential'
  <2>1. PICK k \in Job : Sets(t, k) /\ (k.mixed <=> job[t].mixed)
    BY <1>10, StoreJob
  <2>2. ~Mixed(cred)'
    BY <1>10 DEF Store, OneCredential, Mixed, Issued
  <2>. QED BY <1>2, <2>1, <2>2 DEF OneCredential
<1>11. ASSUME NEW t \in Thread, GetKeys(t) PROVE OneCredential'
  <2>1. PICK k \in Job : Sets(t, k) /\ (Mixed(cred) \/ ~k.mixed)
    BY <1>11, GetKeysJob
  <2>. QED BY <1>2, <1>3, <1>11, <2>1 DEF GetKeys, tokens, OneCredential
<1>12. ASSUME NEW t \in Thread, Progress(t) PROVE OneCredential'
  <2>1. PICK k \in Job : Sets(t, k) /\ (k.mixed <=> job[t].mixed)
    BY <1>12, ProgressJob
  <2>. QED BY <1>2, <1>3, <1>12, <2>1 DEF Progress, tokens, OneCredential
<1>13. ASSUME NEW t \in Thread, Repeat(t), UNCHANGED tokens PROVE OneCredential'
  <2>1. CASE UNCHANGED job
    BY <1>1, <1>13, <2>1 DEF tokens
  <2>2. CASE \E k \in Job : Sets(t, k) /\ (k.mixed <=> job[t].mixed)
    BY <1>2, <1>3, <1>13, <2>2 DEF tokens, OneCredential
  <2>. QED BY <1>13, <2>1, <2>2, RepeatJob
<1>14. ASSUME NEW t \in Thread, Destroy(t) PROVE OneCredential'
  <2>1. PICK k \in Job : Sets(t, k) /\ ~k.mixed
    BY <1>14, DestroyJob
  <2>. QED BY <1>2, <1>3, <1>14, <2>1 DEF Destroy, tokens
<1>. QED
  BY <1>4, <1>5, <1>6, <1>7, <1>8, <1>9, <1>10, <1>11, <1>12, <1>13, <1>14
  DEF Next, Step, Again, Abort

\* The id, the key and the token a request is signed with belong together, for
\* any number of threads that renew them at once.
THEOREM SignedCorrect == Spec => []SignedWithOneCredential
<1>1. Init => TypeOK /\ Asking /\ OneCredential
  BY TypeInit, OneInit
<1>2. TypeOK /\ Asking /\ OneCredential /\ [Next]_vars => (TypeOK /\ Asking /\ OneCredential)'
  BY TypeStep, OneStep
<1>3. OneCredential => SignedWithOneCredential
  BY DEF OneCredential, SignedWithOneCredential
<1>. QED BY <1>1, <1>2, <1>3, PTL DEF Spec

-----------------------------------------------------------------------------
(***************************************************************************)
(* Their expiry.  What is stored is good for Margin more, since it was     *)
(* issued after the signature of its thread began, less than Delay ago:    *)
(* an older answer that replaces a newer one is still good enough for the  *)
(* other threads.                                                          *)
(***************************************************************************)
Valid(t) ==
  /\ Signing(t) => job[t].since <= now /\ now <= job[t].since + Delay
  /\ at[t] = "store" /\ job[t].got # Never =>
       job[t].got + Life >= job[t].since + Delay + Margin
  /\ at[t] \in {"redestroy", "keys"} /\ role # "none" /\ ~job[t].failed /\ ~job[t].unread =>
       cred.expire >= job[t].since + Margin

Fresh ==
  /\ role = "file" => now + Margin + Delay <= file + Life
  /\ \A t \in Thread : Valid(t)

\* The numbers that are compared are integers, before and after a step.
LEMMA Numbers ==
  ASSUME TypeOK
  PROVE  /\ now \in Int /\ file \in Int /\ cred.expire \in Int
         /\ \A t \in Thread : job[t] \in Job
BY DEF TypeOK, Cred, Time

\* So are those of a request.
LEMMA JobNumbers ==
  ASSUME NEW j \in Job
  PROVE  j.since \in Int /\ j.got \in Int
BY DEF Job, Time, Never

\* At the start no signature is under way.
LEMMA FreshInit == Init => Fresh
BY DEF Init, Fresh, Valid, Signing

\* A step of one thread leaves what it did not change as good as it was.
LEMMA FreshOthers ==
  ASSUME TypeOK, TypeOK', Fresh, NEW t \in Thread, NEW k \in Job, Sets(t, k), NEW p, Go(t, p),
         UNCHANGED <<role, file, now>>, cred' = cred \/ cred'.expire >= now + Margin,
         Valid(t)'
  PROVE  Fresh'
<1>1. role' = "file" => now' + Margin + Delay <= file' + Life
  BY DEF Fresh
<1>2. ASSUME NEW u \in Thread, u # t PROVE Valid(u)'
  <2>1. at'[u] = at[u] /\ job'[u] = job[u]
    BY <1>2 DEF Sets, Go, TypeOK
  <2>2. now \in Int /\ cred.expire \in Int /\ cred'.expire \in Int /\ job[u] \in Job
    BY Numbers DEF TypeOK, Cred, Time
  <2>3. job[u].since \in Int /\ job[u].got \in Int
    BY <2>2, JobNumbers
  <2>4. Valid(u)
    BY DEF Fresh
  <2>. QED BY <2>1, <2>2, <2>3, <2>4 DEF Valid, Signing
<1>. QED BY <1>1, <1>2 DEF Fresh

\* Every step keeps the credentials of the signatures under way good.
LEMMA FreshStep == TypeOK /\ Asking /\ TypeOK' /\ Fresh /\ [Next]_vars => Fresh'
<1>. SUFFICES ASSUME TypeOK, Asking, TypeOK', Fresh, [Next]_vars PROVE Fresh'
  OBVIOUS
<1>0. /\ now \in Int /\ file \in Int /\ cred.expire \in Int
      /\ \A t \in Thread : job[t].since \in Int /\ job[t].got \in Int
  BY Numbers, JobNumbers
<1>1. CASE UNCHANGED vars
  BY <1>1 DEF vars, tokens, Fresh, Valid, Signing
<1>2. CASE Tick
  <2>1. ASSUME NEW t \in Thread PROVE Valid(t)'
    BY <1>0, <1>2, <2>1 DEF Tick, tokens, Fresh, Valid, Signing
  <2>. QED BY <1>2, <2>1 DEF Tick, tokens, Fresh
<1>3. CASE Rewrite
  <2>1. ASSUME NEW t \in Thread PROVE Valid(t)'
    BY <1>3, <2>1 DEF Rewrite, Fresh, Valid, Signing
  <2>2. now + Margin + Delay <= now + Life
    BY <1>0
  <2>. QED BY <1>3, <2>1, <2>2 DEF Rewrite, Fresh
<1>4. ASSUME NEW t \in Thread, UNCHANGED <<tokens, now, job>>, NEW p, Go(t, p), p = at[t] \/ p \notin
               {"recreate", "ask", "store", "redestroy", "keys"}
      PROVE  Fresh'
  <2>1. job[t] \in Job /\ Sets(t, job[t]) /\ at'[t] = p
    BY <1>4 DEF Sets, TypeOK, Go
  <2>2. Valid(t)'
    BY <1>4, <2>1 DEF Valid, Signing, Fresh, tokens
  <2>. QED BY <1>4, <2>1, <2>2, FreshOthers DEF tokens
<1>5. ASSUME NEW t \in Thread, NEW k \in Job, Sets(t, k), UNCHANGED <<tokens, now>>, NEW p, Go(t, p),
             p \notin {"recreate", "ask", "store", "redestroy", "keys"}
      PROVE  Fresh'
  <2>1. Valid(t)'
    BY <1>5 DEF Valid, Signing, TypeOK, Go
  <2>. QED BY <1>5, <2>1, FreshOthers DEF tokens
<1>6. ASSUME NEW t \in Thread, Begin(t) \/ Create(t) \/ Answer(t) PROVE Fresh'
  BY <1>4, <1>6 DEF Begin, Create, Answer
<1>7. ASSUME NEW t \in Thread, Check(t) PROVE Fresh'
  <2>1. PICK k \in Job : Sets(t, k) /\ k.since = now
    BY <1>7, CheckJob
  <2>2. job'[t] = k /\ UNCHANGED <<role, file, cred, now>>
    BY <1>7, <2>1 DEF Check, tokens, Sets, TypeOK
  <2>3. PICK p \in {"keys", "recreate", "ask"} :
          /\ Go(t, p) /\ at'[t] = p
          /\ p = "keys" => role = "none" \/ now + Margin <= cred.expire
    BY <1>7 DEF Check, Go, TypeOK
  <2>4. Valid(t)'
    BY <1>0, <2>1, <2>2, <2>3 DEF Valid, Signing
  <2>. QED BY <2>1, <2>2, <2>3, <2>4, FreshOthers
<1>8. ASSUME NEW t \in Thread, Recreate(t) PROVE Fresh'
  <2>1. PICK k \in Job : Sets(t, k) /\ k.since = job[t].since
                         /\ (k.failed <=> hCurl'[Renewal(t)] = NoHandle)
    BY <1>8, RecreateJob
  <2>2. job'[t] = k /\ UNCHANGED <<role, file, cred, now>>
    BY <1>8, <2>1 DEF Recreate, tokens, Sets, TypeOK
  <2>3. PICK p \in {"ask", "redestroy"} : Go(t, p) /\ at'[t] = p /\ (p = "ask" \/ k.failed)
    BY <1>8, <2>1 DEF Recreate, Go, TypeOK
  <2>4. Valid(t)'
    BY <1>8, <2>1, <2>2, <2>3 DEF Valid, Signing, Recreate, Fresh
  <2>. QED BY <2>1, <2>2, <2>3, <2>4, FreshOthers
<1>9. ASSUME NEW t \in Thread, Ask(t) PROVE Fresh'
  <2>1. PICK k \in Job :
          /\ Sets(t, k) /\ k.since = job[t].since
          /\ \/ at' = [at EXCEPT ![t] = "store"] /\ k.got \in {now, Never}
             \/ at' = [at EXCEPT ![t] = "redestroy"] /\ k.failed
             \/ UNCHANGED at
    BY <1>9, AskJob DEF Ask, Asking
  <2>2. job'[t] = k /\ UNCHANGED <<role, file, cred, now>>
    BY <1>9, <2>1 DEF Ask, tokens, Sets, TypeOK
  <2>3. PICK p : Go(t, p) /\ at'[t] = p /\ \/ p = "store" /\ k.got \in {now, Never}
                                           \/ p = "redestroy" /\ k.failed
                                           \/ p = "ask"
    BY <1>9, <2>1 DEF Ask, Go, TypeOK
  <2>4. Valid(t)'
    BY <1>0, <1>9, <2>1, <2>2, <2>3 DEF Valid, Signing, Ask, Fresh
  <2>. QED BY <2>1, <2>2, <2>3, <2>4, FreshOthers
<1>10. ASSUME NEW t \in Thread, Reread(t) PROVE Fresh'
  <2>1. PICK k \in Job :
          /\ Sets(t, k) /\ k.since = job[t].since
          /\ \/ at' = [at EXCEPT ![t] = "store"] /\ k.got = file
             \/ at' = [at EXCEPT ![t] = "keys"] /\ k.failed
    BY <1>10, RereadJob
  <2>2. job'[t] = k /\ UNCHANGED <<role, file, cred, now>>
    BY <1>10, <2>1 DEF Reread, tokens, Sets, TypeOK
  <2>3. PICK p : Go(t, p) /\ at'[t] = p /\ \/ p = "store" /\ k.got = file
                                           \/ p = "keys" /\ k.failed
    BY <2>1 DEF Go, TypeOK
  <2>4. Valid(t)'
    BY <1>0, <1>10, <2>1, <2>2, <2>3 DEF Valid, Signing, Reread, Fresh
  <2>. QED BY <2>1, <2>2, <2>3, <2>4, FreshOthers
<1>11. ASSUME NEW t \in Thread, Store(t) PROVE Fresh'
  <2>1. PICK k \in Job : Sets(t, k) /\ k.since = job[t].since
                         /\ (k.unread <=> job[t].got = Never)
    BY <1>11, StoreJob
  <2>2. job'[t] = k /\ UNCHANGED <<role, file, now>>
    BY <1>11, <2>1 DEF Store, Sets, TypeOK
  <2>3. PICK p \in {"redestroy", "keys"} : Go(t, p) /\ at'[t] = p
    BY <1>11 DEF Store, Go, TypeOK
  <2>4. Valid(t) /\ Signing(t) /\ at[t] = "store"
    BY <1>11 DEF Fresh, Store, Signing
  <2>5. job[t].got # Never => cred'.expire = job[t].got + Life
    BY <1>11 DEF Store, Issued
  <2>6. cred' = cred \/ cred'.expire >= now + Margin
    BY <1>0, <1>11, <2>4, <2>5 DEF Valid, Store
  <2>7. Valid(t)'
    BY <1>0, <2>1, <2>2, <2>3, <2>4, <2>5 DEF Valid, Signing
  <2>. QED BY <2>1, <2>2, <2>3, <2>6, <2>7, FreshOthers
<1>12. ASSUME NEW t \in Thread, Redestroy(t) PROVE Fresh'
  <2>1. job[t] \in Job /\ Sets(t, job[t]) /\ Go(t, "keys") /\ at'[t] = "keys"
        /\ UNCHANGED <<role, file, cred, now, job>>
    BY <1>12 DEF Redestroy, Sets, TypeOK, Go, tokens
  <2>2. Valid(t)'
    BY <1>12, <2>1 DEF Valid, Signing, Fresh, Redestroy
  <2>. QED BY <2>1, <2>2, FreshOthers
<1>13. ASSUME NEW t \in Thread, GetKeys(t) PROVE Fresh'
  <2>1. PICK k \in Job : Sets(t, k)
    BY <1>13, GetKeysJob
  <2>. QED BY <1>5, <1>13, <2>1 DEF GetKeys
<1>14. ASSUME NEW t \in Thread, Progress(t) PROVE Fresh'
  <2>1. PICK k \in Job : Sets(t, k)
    BY <1>14, ProgressJob
  <2>2. Go(t, "perform")
    BY <1>14 DEF Progress, Go, TypeOK
  <2>. QED BY <1>5, <1>14, <2>1, <2>2 DEF Progress
<1>15. ASSUME NEW t \in Thread, at[t] = "perform", Repeat(t), UNCHANGED <<tokens, now>> PROVE Fresh'
  <2>1. CASE Go(t, "destroy") /\ UNCHANGED job
    BY <1>4, <1>15, <2>1
  <2>2. CASE UNCHANGED at /\ \E k \in Job : Sets(t, k)
    <3>1. Go(t, "perform")
      BY <1>15, <2>2 DEF Go, TypeOK
    <3>. QED BY <1>5, <1>15, <2>2, <3>1
  <2>. QED BY <1>15, <2>1, <2>2, RepeatJob
<1>16. ASSUME NEW t \in Thread, Destroy(t) PROVE Fresh'
  <2>1. PICK k \in Job : Sets(t, k)
    BY <1>16, DestroyJob
  <2>2. \E p \in {"between", "idle"} : Go(t, p)
    BY <1>16 DEF Destroy
  <2>. QED BY <1>5, <1>16, <2>1, <2>2 DEF Destroy
<1>. QED
  BY <1>1, <1>2, <1>3, <1>6, <1>7, <1>8, <1>9, <1>10, <1>11, <1>12, <1>13, <1>14, <1>15, <1>16
  DEF Next, Step, Again, Abort

\* A request signs with credentials that have not expired, whichever thread
\* stored them last and whatever the times are, as long as a signature takes
\* less than Margin.
THEOREM KeysCorrect == Spec => []KeysAreValid
<1>1. Init => TypeOK /\ Asking /\ Fresh
  BY TypeInit, FreshInit
<1>2. TypeOK /\ Asking /\ Fresh /\ [Next]_vars => (TypeOK /\ Asking /\ Fresh)'
  BY TypeStep, FreshStep
<1>3. ASSUME TypeOK, Fresh PROVE KeysAreValid
  <2>. SUFFICES ASSUME NEW t \in Thread, at[t] = "keys", role # "none", ~job[t].failed,
                       ~job[t].unread
                PROVE  now < cred.expire
    BY DEF KeysAreValid
  <2>1. now \in Int /\ cred.expire \in Int /\ job[t].since \in Int
    BY <1>3, Numbers, JobNumbers
  <2>2. now <= job[t].since + Delay /\ cred.expire >= job[t].since + Margin
    BY <1>3 DEF Fresh, Valid, Signing
  <2>. QED BY <2>1, <2>2
<1>. QED BY <1>1, <1>2, <1>3, PTL DEF Spec

-----------------------------------------------------------------------------
(***************************************************************************)
(* The handles, element by element.                                        *)
(***************************************************************************)
InPool(h) == \E i \in Slot : i <= mIndex /\ mHandlers[i] = h
InUse(h)  == \E o \in Object : hCurl[o] = h

Apart ==
  /\ \A i, j \in Slot : i <= mIndex /\ j <= mIndex /\ mHandlers[i] = mHandlers[j] => i = j
  /\ \A o, p \in Object : hCurl[o] # NoHandle /\ hCurl[o] = hCurl[p] => o = p
  /\ \A i \in Slot, o \in Object : i <= mIndex => mHandlers[i] # hCurl[o]

Accounted ==
  \A h \in Handle : /\ h \in live <=> InPool(h) \/ InUse(h)
                    /\ curl_times[h] # Never <=> InUse(h)

\* The property in terms of single handles.
LEMMA AddUp == HandleTypes => (HandlesAddUp <=> Apart /\ Accounted)
<1>. SUFFICES ASSUME HandleTypes PROVE HandlesAddUp <=> Apart /\ Accounted
  OBVIOUS
<1>. DEFINE P == \A i, j \in Pooled : mHandlers[i] = mHandlers[j] => i = j
            U == \A o, p \in Users : hCurl[o] = hCurl[p] => o = p
            N == \A i \in Pooled, o \in Users : mHandlers[i] # hCurl[o]
            L == live = {mHandlers[i] : i \in Pooled} \cup {hCurl[o] : o \in Users}
            C == \A h \in Handle : curl_times[h] # Never <=> h \in {hCurl[o] : o \in Users}
<1>1. P /\ U /\ N <=> Apart
  BY DEF Apart, Pooled, Users, HandleTypes
<1>2. \A h \in Handle : /\ h \in {mHandlers[i] : i \in Pooled} <=> InPool(h)
                        /\ h \in {hCurl[o] : o \in Users} <=> InUse(h)
  BY DEF Pooled, Users, InPool, InUse
<1>3. /\ live \subseteq Handle /\ {mHandlers[i] : i \in Pooled} \subseteq Handle
      /\ {hCurl[o] : o \in Users} \subseteq Handle
  BY DEF HandleTypes, Pooled, Users
<1>4. L <=> \A h \in Handle : h \in live <=> InPool(h) \/ InUse(h)
  BY <1>2, <1>3
<1>5. C <=> \A h \in Handle : curl_times[h] # Never <=> InUse(h)
  BY <1>2
<1>6. HandlesAddUp <=> P /\ U /\ N /\ L /\ C
  BY DEF HandlesAddUp
<1>. HIDE DEF P, U, N, L, C
<1>. QED BY <1>1, <1>4, <1>5, <1>6 DEF Accounted

\* An object that takes a handle takes one that is in the pool or new.
LEMMA TakeAddsUp ==
  ASSUME HandleTypes, now \in Time, Apart, Accounted, NEW o \in Object, hCurl[o] = NoHandle,
         NEW h \in Handle, GetHandler(h), ResetHandle(h), hCurl' = [hCurl EXCEPT ![o] = h]
  PROVE  Apart' /\ Accounted'
<1>1. now # Never /\ \A g \in Handle : curl_times'[g] = IF g = h THEN now ELSE curl_times[g]
  BY DEF ResetHandle, HandleTypes, Time, Never
<1>2. hCurl'[o] = h /\ \A p \in Object \ {o} : hCurl'[p] = hCurl[p]
  BY DEF HandleTypes
<1>3. \A g \in Handle : InUse(g)' <=> InUse(g) \/ g = h
  BY <1>2 DEF InUse
<1>4. ~InUse(h) /\ UNCHANGED mHandlers
      /\ \A i \in Slot : i <= mIndex' <=> i <= mIndex /\ mHandlers[i] # h
  <2>1. CASE mIndex >= 0
    <3>1. h = mHandlers[mIndex] /\ mIndex' = mIndex - 1 /\ UNCHANGED mHandlers /\ mIndex \in Slot
      BY <2>1 DEF GetHandler, HandleTypes, Slot
    <3>. QED BY <3>1 DEF HandleTypes, Apart, InUse, Slot
  <2>2. CASE ~(mIndex >= 0)
    <3>1. h \notin live /\ UNCHANGED <<mHandlers, mIndex>>
      BY <2>2 DEF GetHandler
    <3>. QED BY <2>2, <3>1 DEF HandleTypes, Accounted, Slot
  <2>. QED BY <2>1, <2>2
<1>5. \A g \in Handle : InPool(g)' <=> InPool(g) /\ g # h
  BY <1>4 DEF InPool
<1>6. live' = live \cup {h}
  BY <1>4 DEF GetHandler, Accounted, InPool, HandleTypes, Slot
<1>7. Apart'
  BY <1>2, <1>4 DEF Apart, InUse
<1>8. Accounted'
  BY <1>1, <1>3, <1>5, <1>6 DEF Accounted
<1>. QED BY <1>7, <1>8

\* A handle that is given back goes to the pool or is gone.
LEMMA GiveAddsUp ==
  ASSUME HandleTypes, Apart, Accounted, NEW o \in Object, hCurl[o] # NoHandle,
         EraseTimer(hCurl[o]), ReturnHandler(hCurl[o]), hCurl' = [hCurl EXCEPT ![o] = NoHandle]
  PROVE  Apart' /\ Accounted'
<1>. DEFINE h == hCurl[o]
<1>0. h \in Handle /\ NoHandle \notin Handle
  BY DEF HandleTypes
<1>1. \A g \in Handle : curl_times'[g] = IF g = h THEN Never ELSE curl_times[g]
  BY <1>0 DEF EraseTimer, HandleTypes
<1>2. hCurl'[o] = NoHandle /\ \A p \in Object \ {o} : hCurl'[p] = hCurl[p] /\ hCurl[p] # h
  BY DEF HandleTypes, Apart
<1>3. InUse(h) /\ ~InPool(h)
  BY DEF InUse, InPool, Apart
<1>4. \A g \in Handle : InUse(g)' <=> InUse(g) /\ g # h
  BY <1>0, <1>2 DEF InUse
<1>5. CASE mIndex < PoolSize - 1
  <2>1. mIndex' = mIndex + 1 /\ mHandlers' = [mHandlers EXCEPT ![mIndex + 1] = h] /\ live' = live
    BY <1>5 DEF ReturnHandler
  <2>2. mIndex \in Int /\ mIndex + 1 \in Slot /\ \A i \in Slot : i \in Int
    BY <1>5 DEF HandleTypes, Slot
  <2>3. mHandlers'[mIndex + 1] = h
        /\ \A i \in Slot : i # mIndex + 1 => mHandlers'[i] = mHandlers[i]
    BY <2>1, <2>2 DEF HandleTypes
  <2>4. \A i \in Slot : i <= mIndex' <=> i <= mIndex \/ i = mIndex + 1
    BY <2>1, <2>2
  <2>5. \A i \in Slot : i <= mIndex => i # mIndex + 1
    BY <2>2
  <2>. HIDE DEF h
  <2>6. \A g \in Handle : InPool(g)' <=> InPool(g) \/ g = h
    BY <2>2, <2>3, <2>4, <2>5 DEF InPool
  <2>7. Apart'
    <3>1. \A i \in Slot : i <= mIndex => mHandlers[i] # h
      BY <1>3 DEF InPool
    <3>2. \A i, j \in Slot : i <= mIndex' /\ j <= mIndex' /\ mHandlers'[i] = mHandlers'[j] => i = j
      BY <2>3, <2>4, <2>5, <3>1 DEF Apart
    <3>3. \A p, q \in Object : hCurl'[p] # NoHandle /\ hCurl'[p] = hCurl'[q] => p = q
      BY <1>2 DEF Apart
    <3>4. \A i \in Slot, p \in Object : i <= mIndex' => mHandlers'[i] # hCurl'[p]
      <4>. SUFFICES ASSUME NEW i \in Slot, NEW p \in Object, i <= mIndex' PROVE mHandlers'[i] # hCurl'[p]
        OBVIOUS
      <4>1. CASE i = mIndex + 1
        BY <1>0, <1>2, <2>3, <4>1
      <4>2. CASE i <= mIndex
        <5>1. mHandlers'[i] = mHandlers[i] /\ mHandlers[i] \in Handle
          BY <2>3, <2>5, <4>2 DEF HandleTypes
        <5>. QED BY <1>0, <1>2, <4>2, <5>1 DEF Apart
      <4>. QED BY <2>4, <4>1, <4>2
    <3>. QED BY <3>2, <3>3, <3>4 DEF Apart
  <2>8. Accounted'
    BY <1>0, <1>1, <1>3, <1>4, <2>1, <2>6 DEF Accounted
  <2>. QED BY <2>7, <2>8
<1>6. CASE ~(mIndex < PoolSize - 1)
  <2>1. live' = live \ {h} /\ UNCHANGED <<mHandlers, mIndex>>
    BY <1>6 DEF ReturnHandler
  <2>. HIDE DEF h
  <2>2. \A g \in Handle : InPool(g)' <=> InPool(g)
    BY <2>1 DEF InPool
  <2>3. Apart'
    <3>1. \A i \in Slot : mHandlers[i] \in Handle
      BY DEF HandleTypes
    <3>. QED BY <1>0, <1>2, <2>1, <3>1 DEF Apart
  <2>4. Accounted'
    BY <1>0, <1>1, <1>3, <1>4, <2>1, <2>2 DEF Accounted
  <2>. QED BY <2>3, <2>4
<1>. QED BY <1>5, <1>6

\* The timer of a handle that is in use may be set again.
LEMMA TimerAddsUp ==
  ASSUME HandleTypes, now \in Time, Apart, Accounted, NEW o \in Object, hCurl[o] # NoHandle,
         curl_times' = [curl_times EXCEPT ![hCurl[o]] = now],
         UNCHANGED <<mHandlers, mIndex, live, hCurl>>
  PROVE  Apart' /\ Accounted'
<1>1. hCurl[o] \in Handle /\ now # Never
  BY DEF HandleTypes, Time, Never
<1>2. \A g \in Handle : curl_times'[g] = IF g = hCurl[o] THEN now ELSE curl_times[g]
  BY <1>1 DEF HandleTypes
<1>3. \A g \in Handle : (InPool(g)' <=> InPool(g)) /\ (InUse(g)' <=> InUse(g))
  BY DEF InPool, InUse
<1>4. Apart'
  BY DEF Apart
<1>5. InUse(hCurl[o])
  BY DEF InUse
<1>6. Accounted'
  BY <1>1, <1>2, <1>3, <1>5 DEF Accounted
<1>. QED BY <1>4, <1>6

-----------------------------------------------------------------------------
(***************************************************************************)
(* What the calls do to the object that makes them and to the others.      *)
(***************************************************************************)
OthersKeep(o) ==
  \A p \in Object \ {o} :
    /\ hCurl'[p] = hCurl[p]
    /\ hCurl[p] # NoHandle => curl_progress'[hCurl[p]] = curl_progress[hCurl[p]]

\* CreateCurlHandle of an object without a handle: a fresh timer, or, if
\* curl_easy_init may fail, the lock kept.
LEMMA CreateEffect ==
  ASSUME HandleTypes, now \in Time, Apart, Accounted,
         NEW o \in Object, hCurl[o] = NoHandle, CreateCurlHandle(o)
  PROVE  /\ Apart' /\ Accounted' /\ OthersKeep(o)
         /\ hCurl'[o] # NoHandle => curl_progress'[hCurl'[o]] = "new"
         /\ InitMayFail = FALSE => UNCHANGED lock
<1>1. CASE /\ \E h \in Handle : /\ GetHandler(h) /\ ResetHandle(h)
                                /\ hCurl' = [hCurl EXCEPT ![o] = h]
           /\ UNCHANGED lock
  <2>1. PICK h \in Handle : /\ GetHandler(h) /\ ResetHandle(h)
                            /\ hCurl' = [hCurl EXCEPT ![o] = h]
    BY <1>1
  <2>2. Apart' /\ Accounted'
    BY <2>1, TakeAddsUp
  <2>3. hCurl'[o] = h /\ \A p \in Object \ {o} : hCurl'[p] = hCurl[p] /\ hCurl'[p] # h
    BY <2>1, <2>2 DEF HandleTypes, Apart
  <2>4. \A g \in Handle : curl_progress'[g] = IF g = h THEN "new" ELSE curl_progress[g]
    BY <2>1 DEF ResetHandle, HandleTypes
  <2>5. \A p \in Object : hCurl[p] # NoHandle => hCurl[p] \in Handle
    BY DEF HandleTypes
  <2>. QED BY <1>1, <2>2, <2>3, <2>4, <2>5 DEF OthersKeep
<1>2. CASE /\ hCurl[o] # NoHandle \/ (InitMayFail /\ mIndex < 0)
           /\ UNCHANGED <<mHandlers, mIndex, live, timers, hCurl, type>>
  <2>1. Apart' /\ Accounted'
    BY <1>2 DEF Apart, Accounted, InPool, InUse, timers
  <2>. QED BY <1>2, <2>1 DEF OthersKeep, timers
<1>. QED BY <1>1, <1>2 DEF CreateCurlHandle

\* DestroyCurlHandle leaves the object without a handle, and no lock.
LEMMA DestroyEffect ==
  ASSUME HandleTypes, Apart, Accounted, NEW o \in Object, DestroyCurlHandle(o)
  PROVE  Apart' /\ Accounted' /\ OthersKeep(o) /\ hCurl'[o] = NoHandle /\ UNCHANGED lock
<1>1. CASE hCurl[o] = NoHandle
  BY <1>1 DEF DestroyCurlHandle, handles, timers, Apart, Accounted, InPool, InUse, OthersKeep
<1>2. CASE hCurl[o] # NoHandle
  <2>1. /\ EraseTimer(hCurl[o]) /\ ReturnHandler(hCurl[o]) /\ UNCHANGED lock
        /\ hCurl' = [hCurl EXCEPT ![o] = NoHandle]
    BY <1>2 DEF DestroyCurlHandle
  <2>2. Apart' /\ Accounted'
    BY <1>2, <2>1, GiveAddsUp
  <2>3. /\ hCurl'[o] = NoHandle
        /\ \A p \in Object \ {o} : hCurl'[p] = hCurl[p] /\ hCurl[p] # hCurl[o]
    BY <1>2, <2>1 DEF HandleTypes, Apart
  <2>4. \A g \in Handle \ {hCurl[o]} : curl_progress'[g] = curl_progress[g]
    BY <2>1 DEF EraseTimer, HandleTypes
  <2>5. \A p \in Object : hCurl[p] # NoHandle => hCurl[p] \in Handle
    BY DEF HandleTypes
  <2>. QED BY <2>1, <2>2, <2>3, <2>4, <2>5 DEF OthersKeep
<1>. QED BY <1>1, <1>2

\* A timer that is set is that of the object alone.
LEMMA TimerEffect ==
  ASSUME HandleTypes, now \in Time, Apart, Accounted, NEW o \in Object, hCurl[o] # NoHandle,
         curl_times' = [curl_times EXCEPT ![hCurl[o]] = now],
         NEW v, curl_progress' = [curl_progress EXCEPT ![hCurl[o]] = v],
         UNCHANGED <<mHandlers, mIndex, live, hCurl>>
  PROVE  Apart' /\ Accounted' /\ OthersKeep(o) /\ curl_progress'[hCurl[o]] = v
<1>1. Apart' /\ Accounted'
  BY TimerAddsUp
<1>2. \A p \in Object : hCurl[p] # NoHandle => hCurl[p] \in Handle
  BY DEF HandleTypes
<1>3. \A p \in Object \ {o} : hCurl[p] # hCurl[o]
  BY DEF Apart
<1>4. \A g \in Handle : curl_progress'[g] = IF g = hCurl[o] THEN v ELSE curl_progress[g]
  BY <1>2 DEF HandleTypes
<1>. QED BY <1>1, <1>2, <1>3, <1>4 DEF OthersKeep

-----------------------------------------------------------------------------
(***************************************************************************)
(* Which objects of a thread have a handle at each of its phases, and that *)
(* the timer of a request is new until CurlProgress has been called.  With *)
(* this HandlesAddUp is inductive.                                         *)
(***************************************************************************)
Where(t) ==
  /\ at[t] \in {"idle", "create", "between"} => hCurl[Main(t)] = NoHandle
  /\ at[t] \in {"check", "recreate", "ask", "store", "redestroy", "keys", "perform"} =>
       hCurl[Main(t)] # NoHandle
  /\ at[t] \notin {"ask", "store", "redestroy"} \/ role # "service" =>
       hCurl[Renewal(t)] = NoHandle
  /\ at[t] = "ask" /\ role = "service" => hCurl[Renewal(t)] # NoHandle
  /\ at[t] = "recreate" => role = "service"

Unstarted(t) == \/ at[t] \in {"check", "recreate", "ask", "store", "redestroy", "keys"}
                \/ at[t] = "perform" /\ job[t].silent

Placed(t) == Where(t) /\ (Unstarted(t) => curl_progress[hCurl[Main(t)]] = "new")

Handled == /\ Apart /\ Accounted /\ \A t \in Thread : Placed(t)
           /\ InitMayFail = FALSE => lock = NoObject

\* CurlHandlerPool::Init fills the pool, and no object has a handle.
LEMMA HandledInit == Init => Handled
<1>. SUFFICES ASSUME Init PROVE Handled
  OBVIOUS
<1>0. HandleTypes
  BY TypeInit, Parts
<1>1. Apart
  BY <1>0 DEF Init, Apart, Slot, Distinct, HandleTypes
<1>2. \A i \in Slot : i <= mIndex
  BY DEF Init, Slot
<1>3. \A h \in Handle : ~InUse(h) /\ (h \in live <=> InPool(h)) /\ curl_times[h] = Never
  BY <1>2 DEF Init, InUse, InPool
<1>4. Accounted
  BY <1>3 DEF Accounted
<1>5. ASSUME NEW t \in Thread PROVE Placed(t)
  BY <1>5, Objects DEF Init, Placed, Where, Unstarted
<1>. QED BY <1>1, <1>4, <1>5 DEF Init, Handled

\* A step of one thread on one of its objects.
LEMMA HandledOne ==
  ASSUME TypeOK, Handled, NEW t \in Thread, NEW o \in {Main(t), Renewal(t)},
         Apart', Accounted', OthersKeep(o), UNCHANGED role,
         \A u \in Thread \ {t} : at'[u] = at[u] /\ job'[u] = job[u],
         InitMayFail = FALSE => UNCHANGED lock, Placed(t)'
  PROVE  Handled'
<1>1. ASSUME NEW u \in Thread, u # t PROVE Placed(u)'
  <2>1. at'[u] = at[u] /\ job'[u] = job[u]
    BY <1>1
  <2>2. /\ Main(u) \in Object \ {o} /\ Renewal(u) \in Object \ {o}
    BY <1>1, Objects
  <2>3. /\ hCurl'[Main(u)] = hCurl[Main(u)] /\ hCurl'[Renewal(u)] = hCurl[Renewal(u)]
        /\ hCurl[Main(u)] # NoHandle =>
             curl_progress'[hCurl[Main(u)]] = curl_progress[hCurl[Main(u)]]
    BY <2>2 DEF OthersKeep
  <2>4. Placed(u)
    BY DEF Handled
  <2>5. Where(u)'
    BY <2>1, <2>3, <2>4 DEF Placed, Where
  <2>6. Unstarted(u)' => Unstarted(u) /\ hCurl[Main(u)] # NoHandle
    BY <2>1, <2>4 DEF Placed, Where, Unstarted
  <2>. QED BY <2>3, <2>4, <2>5, <2>6 DEF Placed
<1>. QED BY <1>1 DEF Handled

\* A step that leaves the handles alone.
LEMMA HandledSame ==
  ASSUME TypeOK, Handled, NEW t \in Thread,
         UNCHANGED <<mHandlers, mIndex, live, timers, lock, hCurl, role>>,
         \A u \in Thread \ {t} : at'[u] = at[u] /\ job'[u] = job[u], Placed(t)'
  PROVE  Handled'
<1>1. Apart' /\ Accounted'
  BY DEF Handled, Apart, Accounted, InPool, InUse, timers
<1>2. OthersKeep(Main(t))
  BY DEF OthersKeep, timers
<1>. QED BY <1>1, <1>2, HandledOne

\* Every step keeps the handles apart and accounted for.
LEMMA HandledStep == TypeOK /\ Asking /\ Handled /\ [Next]_vars => Handled'
<1>. SUFFICES ASSUME TypeOK, Asking, Handled, [Next]_vars PROVE Handled'
  OBVIOUS
<1>0. /\ HandleTypes /\ now \in Time /\ Apart /\ Accounted
      /\ at \in [Thread -> Phase] /\ job \in [Thread -> Job]
      /\ \A t \in Thread : Placed(t)
  BY Parts DEF Rest, Handled
<1>1. ASSUME UNCHANGED <<mHandlers, mIndex, live, timers, lock, hCurl, role, at, job>>
      PROVE  Handled'
  <2>1. Apart' /\ Accounted'
    BY <1>0, <1>1 DEF Apart, Accounted, InPool, InUse, timers
  <2>2. ASSUME NEW t \in Thread PROVE Placed(t)'
    BY <1>0, <1>1, <2>2 DEF Placed, Where, Unstarted, timers
  <2>. QED BY <1>1, <2>1, <2>2 DEF Handled
<1>2. CASE UNCHANGED vars \/ Tick \/ Rewrite
  BY <1>1, <1>2 DEF vars, handles, tokens, Tick, Rewrite
<1>3. ASSUME NEW t \in Thread, Begin(t) PROVE Handled'
  <2>1. at'[t] = "create" /\ at[t] \in {"idle", "between"} /\ UNCHANGED <<handles, role, job>>
        /\ \A u \in Thread \ {t} : at'[u] = at[u]
    BY <1>0, <1>3 DEF Begin, Go, tokens
  <2>2. Placed(t)'
    BY <1>0, <2>1 DEF Placed, Where, Unstarted, handles
  <2>. QED BY <2>1, <2>2, HandledSame DEF handles
<1>4. ASSUME NEW t \in Thread, Create(t) PROVE Handled'
  <2>1. at[t] = "create" /\ CreateCurlHandle(Main(t)) /\ UNCHANGED <<role, job>>
        /\ at'[t] = (IF hCurl'[Main(t)] = NoHandle THEN "destroy" ELSE "check")
        /\ \A u \in Thread \ {t} : at'[u] = at[u]
    BY <1>0, <1>4 DEF Create, Go, tokens
  <2>2. hCurl[Main(t)] = NoHandle /\ hCurl[Renewal(t)] = NoHandle
    BY <1>0, <2>1 DEF Placed, Where
  <2>3. /\ Apart' /\ Accounted' /\ OthersKeep(Main(t))
        /\ hCurl'[Main(t)] # NoHandle => curl_progress'[hCurl'[Main(t)]] = "new"
        /\ InitMayFail = FALSE => UNCHANGED lock
    BY <1>0, <2>1, <2>2, Objects, CreateEffect
  <2>4. hCurl'[Renewal(t)] = NoHandle
    BY <2>2, <2>3, Objects DEF OthersKeep
  <2>5. Placed(t)'
    BY <2>1, <2>3, <2>4 DEF Placed, Where, Unstarted
  <2>. QED BY <2>1, <2>3, <2>5, HandledOne
<1>5. ASSUME NEW t \in Thread, Check(t) PROVE Handled'
  <2>1. UNCHANGED <<handles, role>> /\ at[t] = "check"
        /\ at'[t] \in {"keys", "recreate", "ask"} /\ (at'[t] = "ask" => role # "service")
        /\ (at'[t] = "recreate" => role = "service")
        /\ \A u \in Thread \ {t} : at'[u] = at[u] /\ job'[u] = job[u]
    BY <1>0, <1>5 DEF Check, Go, tokens
  <2>2. Placed(t)'
    BY <1>0, <2>1 DEF Placed, Where, Unstarted, handles, timers
  <2>. QED BY <2>1, <2>2, HandledSame DEF handles
<1>6. ASSUME NEW t \in Thread, Recreate(t) PROVE Handled'
  <2>1. at[t] = "recreate" /\ CreateCurlHandle(Renewal(t)) /\ UNCHANGED role
        /\ at'[t] = (IF hCurl'[Renewal(t)] = NoHandle THEN "redestroy" ELSE "ask")
        /\ \A u \in Thread \ {t} : at'[u] = at[u] /\ job'[u] = job[u]
    BY <1>0, <1>6 DEF Recreate, Go, tokens
  <2>2. hCurl[Main(t)] # NoHandle /\ hCurl[Renewal(t)] = NoHandle
        /\ curl_progress[hCurl[Main(t)]] = "new"
    BY <1>0, <2>1 DEF Placed, Where, Unstarted
  <2>3. /\ Apart' /\ Accounted' /\ OthersKeep(Renewal(t))
        /\ InitMayFail = FALSE => UNCHANGED lock
    BY <1>0, <2>1, <2>2, Objects, CreateEffect
  <2>4. hCurl'[Main(t)] # NoHandle /\ curl_progress'[hCurl'[Main(t)]] = "new"
    BY <2>2, <2>3, Objects DEF OthersKeep
  <2>5. role = "service"
    BY <1>0, <2>1 DEF Placed, Where
  <2>6. Placed(t)'
    BY <2>1, <2>3, <2>4, <2>5 DEF Placed, Where, Unstarted
  <2>. QED BY <2>1, <2>3, <2>6, HandledOne
<1>7. ASSUME NEW t \in Thread, Ask(t) PROVE Handled'
  <2>0. /\ at[t] = "ask" /\ role = "service" /\ UNCHANGED role
        /\ \A u \in Thread \ {t} : at'[u] = at[u] /\ job'[u] = job[u]
        /\ hCurl[Main(t)] # NoHandle /\ hCurl[Renewal(t)] # NoHandle
        /\ curl_progress[hCurl[Main(t)]] = "new"
    BY <1>0, <1>7 DEF Ask, Go, tokens, Placed, Where, Unstarted
  <2>1. CASE (Go(t, "store") \/ Go(t, "redestroy")) /\ UNCHANGED handles
    <3>1. at'[t] \in {"store", "redestroy"}
      BY <1>0, <2>1 DEF Go
    <3>2. Placed(t)'
      BY <2>0, <2>1, <3>1 DEF Placed, Where, Unstarted, handles, timers
    <3>. QED BY <2>0, <2>1, <3>2, HandledSame DEF handles
  <2>2. CASE UNCHANGED at /\ ResetHandle(hCurl[Renewal(t)])
             /\ UNCHANGED <<mHandlers, mIndex, live, lock, hCurl, type>>
    <3>1. Apart' /\ Accounted' /\ OthersKeep(Renewal(t))
      BY <1>0, <2>0, <2>2, Objects, TimerEffect DEF ResetHandle
    <3>2. curl_progress'[hCurl[Main(t)]] = "new"
      BY <2>0, <3>1, Objects DEF OthersKeep
    <3>3. Placed(t)'
      BY <2>0, <2>2, <3>2 DEF Placed, Where, Unstarted
    <3>. QED BY <2>0, <2>2, <3>1, <3>3, HandledOne
  <2>. QED BY <1>7, <2>1, <2>2 DEF Ask
<1>8. ASSUME NEW t \in Thread, Reread(t) PROVE Handled'
  <2>1. UNCHANGED <<handles, role>> /\ at[t] = "ask" /\ role = "file"
        /\ at'[t] \in {"store", "keys"}
        /\ \A u \in Thread \ {t} : at'[u] = at[u] /\ job'[u] = job[u]
    BY <1>0, <1>8 DEF Reread, Go, tokens
  <2>2. Placed(t)'
    BY <1>0, <2>1 DEF Placed, Where, Unstarted, handles, timers
  <2>. QED BY <2>1, <2>2, HandledSame DEF handles
<1>9. ASSUME NEW t \in Thread, Store(t) PROVE Handled'
  <2>1. UNCHANGED <<handles, role>> /\ at[t] = "store"
        /\ at'[t] = (IF role = "service" THEN "redestroy" ELSE "keys")
        /\ \A u \in Thread \ {t} : at'[u] = at[u] /\ job'[u] = job[u]
    BY <1>0, <1>9 DEF Store, Go
  <2>2. Placed(t)'
    BY <1>0, <2>1 DEF Placed, Where, Unstarted, handles, timers
  <2>. QED BY <2>1, <2>2, HandledSame DEF handles
<1>10. ASSUME NEW t \in Thread, Redestroy(t) PROVE Handled'
  <2>1. at[t] = "redestroy" /\ at'[t] = "keys" /\ UNCHANGED <<role, job>>
        /\ \A u \in Thread \ {t} : at'[u] = at[u]
    BY <1>0, <1>10 DEF Redestroy, Go, tokens
  <2>2. Apart' /\ Accounted' /\ OthersKeep(Renewal(t)) /\ UNCHANGED lock
        /\ hCurl'[Renewal(t)] = NoHandle
    BY <1>0, <1>10, Objects, DestroyEffect DEF Redestroy
  <2>3. hCurl[Main(t)] # NoHandle /\ curl_progress[hCurl[Main(t)]] = "new"
    BY <1>0, <2>1 DEF Placed, Where, Unstarted
  <2>4. hCurl'[Main(t)] # NoHandle /\ curl_progress'[hCurl'[Main(t)]] = "new"
    BY <2>2, <2>3, Objects DEF OthersKeep
  <2>5. Placed(t)'
    BY <2>1, <2>2, <2>4 DEF Placed, Where, Unstarted
  <2>. QED BY <2>1, <2>2, <2>5, HandledOne
<1>11. ASSUME NEW t \in Thread, GetKeys(t) PROVE Handled'
  <2>1. UNCHANGED <<mHandlers, mIndex, live, timers, lock, hCurl, role>>
        /\ at[t] = "keys" /\ at'[t] = "perform"
        /\ \A u \in Thread \ {t} : at'[u] = at[u] /\ job'[u] = job[u]
    BY <1>0, <1>11 DEF GetKeys, Go, tokens
  <2>2. Placed(t)'
    BY <1>0, <2>1 DEF Placed, Where, Unstarted, timers
  <2>. QED BY <2>1, <2>2, HandledSame
<1>12. ASSUME NEW t \in Thread, Progress(t) PROVE Handled'
  <2>1. /\ at[t] = "perform" /\ UNCHANGED <<mHandlers, mIndex, live, lock, hCurl, role, at>>
        /\ curl_times' = [curl_times EXCEPT ![hCurl[Main(t)]] = now]
        /\ curl_progress' = [curl_progress EXCEPT ![hCurl[Main(t)]] = "some"]
        /\ \A u \in Thread \ {t} : job'[u] = job[u]
    BY <1>0, <1>12 DEF Progress, tokens
  <2>2. ~job'[t].silent
    <3>1. PICK k \in Job : Sets(t, k) /\ ~k.silent
      BY <1>12, ProgressJob
    <3>. QED BY <1>0, <3>1 DEF Sets
  <2>3. hCurl[Main(t)] # NoHandle
    BY <1>0, <2>1 DEF Placed, Where
  <2>4. Apart' /\ Accounted' /\ OthersKeep(Main(t))
    BY <1>0, <2>1, <2>3, Objects, TimerEffect
  <2>5. Where(t)'
    BY <1>0, <2>1 DEF Placed, Where
  <2>6. Placed(t)'
    BY <2>1, <2>2, <2>5 DEF Placed, Unstarted
  <2>. QED BY <2>1, <2>4, <2>6, HandledOne
<1>13. ASSUME NEW t \in Thread, at[t] = "perform", Repeat(t), UNCHANGED role PROVE Handled'
  <2>0. Where(t) /\ hCurl[Main(t)] # NoHandle
    BY <1>0, <1>13 DEF Placed, Where
  <2>1. CASE Go(t, "destroy") /\ UNCHANGED <<handles, job>>
    <3>1. at'[t] = "destroy" /\ \A u \in Thread \ {t} : at'[u] = at[u]
      BY <1>0, <2>1 DEF Go
    <3>2. Placed(t)'
      BY <1>13, <2>0, <2>1, <3>1 DEF Placed, Where, Unstarted, handles
    <3>. QED BY <1>13, <2>1, <3>1, <3>2, HandledSame DEF handles
  <2>2. CASE /\ UNCHANGED at /\ ResetHandle(hCurl[Main(t)])
             /\ UNCHANGED <<mHandlers, mIndex, live, lock, hCurl, type>>
             /\ \E k \in Job : Sets(t, k)
    <3>1. /\ Apart' /\ Accounted' /\ OthersKeep(Main(t))
          /\ curl_progress'[hCurl[Main(t)]] = "new"
      BY <1>0, <2>0, <2>2, Objects, TimerEffect DEF ResetHandle
    <3>2. \A u \in Thread \ {t} : at'[u] = at[u] /\ job'[u] = job[u]
      BY <1>0, <2>2 DEF Sets
    <3>3. Placed(t)'
      BY <1>13, <2>0, <2>2, <3>1 DEF Placed, Where
    <3>. QED BY <1>13, <2>2, <3>1, <3>2, <3>3, HandledOne
  <2>. QED BY <1>13, <2>1, <2>2, RepeatJob
<1>14. ASSUME NEW t \in Thread, Answer(t) PROVE Handled'
  <2>1. at'[t] = "destroy" /\ at[t] = "perform" /\ UNCHANGED <<handles, role, job>>
        /\ \A u \in Thread \ {t} : at'[u] = at[u]
    BY <1>0, <1>14 DEF Answer, Go, tokens
  <2>2. Placed(t)'
    BY <1>0, <2>1 DEF Placed, Where, Unstarted, handles
  <2>. QED BY <2>1, <2>2, HandledSame DEF handles
<1>15. ASSUME NEW t \in Thread, Destroy(t) PROVE Handled'
  <2>1. at[t] \in {"destroy", "between"} /\ at'[t] \in {"between", "idle"} /\ UNCHANGED role
        /\ \A u \in Thread \ {t} : at'[u] = at[u] /\ job'[u] = job[u]
    BY <1>0, <1>15 DEF Destroy, Go, tokens
  <2>2. Apart' /\ Accounted' /\ OthersKeep(Main(t)) /\ UNCHANGED lock
        /\ hCurl'[Main(t)] = NoHandle
    BY <1>0, <1>15, Objects, DestroyEffect DEF Destroy
  <2>3. hCurl'[Renewal(t)] = NoHandle
    BY <1>0, <2>1, <2>2, Objects DEF Placed, Where, OthersKeep
  <2>4. Placed(t)'
    BY <2>1, <2>2, <2>3 DEF Placed, Where, Unstarted
  <2>. QED BY <2>1, <2>2, <2>4, HandledOne
<1>. QED
  BY <1>2, <1>3, <1>4, <1>5, <1>6, <1>7, <1>8, <1>9, <1>10, <1>11, <1>12, <1>13, <1>14, <1>15
  DEF Next, Step, Again, Abort, tokens

\* The whole invariant holds at the start,
LEMMA AllInit == Init => TypeOK /\ Asking /\ Handled
BY TypeInit, HandledInit

\* and every step keeps it.
LEMMA AllStep ==
  TypeOK /\ Asking /\ Handled /\ [Next]_vars => (TypeOK /\ Asking /\ Handled)'
BY TypeStep, HandledStep

\* For any number of threads and any size of the pool, each curl handle is in the
\* pool once or belongs to one object, whose timer it is, even if curl_easy_init
\* may fail.
THEOREM HandlesCorrect == Spec => []HandlesAddUp
<1>1. TypeOK /\ Handled => HandlesAddUp
  BY Parts, AddUp DEF Handled
<1>. QED BY <1>1, AllInit, AllStep, PTL DEF Spec

\* No attempt of a request inherits the timer of an earlier one.
THEOREM TimersCorrect == Spec => []TimersAreFair
<1>1. Handled => TimersAreFair
  BY DEF Handled, Placed, Unstarted, TimersAreFair
<1>. QED BY <1>1, AllInit, AllStep, PTL DEF Spec

\* As long as curl_easy_init does not fail, curl_handles_lock is given back: no
\* object takes a handle while it has one.
THEOREM LockCorrect == ASSUME InitMayFail = FALSE PROVE Spec => []LockIsGivenBack
<1>1. Handled => LockIsGivenBack
  BY DEF Handled, LockIsGivenBack
<1>. QED BY <1>1, AllInit, AllStep, PTL DEF Spec
=============================================================================
