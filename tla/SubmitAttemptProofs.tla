------------------------- MODULE SubmitAttemptProofs -------------------------
(***************************************************************************)
(* Proofs about SubmitAttempt, for any number of requests, attempts and    *)
(* keys.                                                                   *)
(*                                                                         *)
(* Nothing but UNIQUE (attempt_id, submission_sequence) keeps two copies   *)
(* of a submission apart, so every theorem but two assumes SequenceUnique. *)
(* A request is Past the insert from the moment its row is in              *)
(* attempt_submissions for as long as it can queue a job, or has queued    *)
(* one: the constraint lets one request of an attempt get there.           *)
(***************************************************************************)
EXTENDS SubmitAttempt, TLAPS

USE SubmitAssumption

(* No two attempts are submitted under one key.  A client that sends no    *)
(* key breaks this: all such requests of a workspace share 'no-key'.       *)
KeysOneAttempt ==
  \A r, s \in Requests : KeyOf[r] = KeyOf[s] => AttemptOf[r] = AttemptOf[s]

Started == {"inserted", "marked", "enqueued", "stored"}
Past(r) == request[r].pc \in Started \/ r \in jobs

(* What a request's position says about the tables. *)
Fits(r) ==
  /\ Past(r) => submissions[AttemptOf[r]] > 0
  /\ request[r].pc \in {"inserted", "marked"} => r \notin jobs
  /\ request[r].pc \in {"enqueued", "stored"} => r \in jobs
  /\ request[r].pc = "marked" \/ r \in jobs => status[AttemptOf[r]] # "IN_PROGRESS"
  /\ request[r].pc = "stored" => \E row \in keyRows : row.key = KeyOf[r] /\ row.job = r

(* A 202 is the last word, and its job was queued under the request's key. *)
Answered(r) ==
  request[r].answer = "202" => /\ request[r].pc = "done"
                               /\ request[r].job \in jobs
                               /\ KeyOf[request[r].job] = KeyOf[r]

Alone(r, s) == Past(r) /\ Past(s) /\ AttemptOf[r] = AttemptOf[s] => r = s

FinalizedHasJob ==
  \A a \in Attempts : status[a] = "FINALIZED" => \E j \in jobs : AttemptOf[j] = a

RowsTrue ==
  \A k \in keyRows : k.job \in jobs /\ AttemptOf[k.job] = k.attempt /\ KeyOf[k.job] = k.key
CacheBacked ==
  \A k \in Keys : cache[k] # NoJob => \E row \in keyRows : row.key = k /\ row.job = cache[k]

IInv ==
  /\ TypeOK
  /\ \A r \in Requests : Fits(r) /\ Answered(r)
  /\ \A r, s \in Requests : Alone(r, s)
  /\ FinalizedHasJob
  /\ RowsTrue
  /\ CacheBacked

-----------------------------------------------------------------------------
(* Types. *)

Locals == [pc : InHandler \cup {"unsent", "done"}, answer : Answers \cup {"none"},
           job : Requests \cup {NoJob}, tries : 0..MaxLockTries - 1]

LEMMA Going ==
  ASSUME NEW r \in Requests, NEW pc \in InHandler, Goto(r, pc), request \in [Requests -> Locals]
  PROVE  /\ request' \in [Requests -> Locals]
         /\ request'[r].pc = pc
         /\ request'[r].answer = request[r].answer
         /\ request'[r].job = request[r].job
         /\ \A s \in Requests \ {r} : request'[s] = request[s]
BY DEF Goto, Locals

LEMMA Responding ==
  ASSUME NEW r \in Requests, NEW code \in Answers, NEW job \in Requests \cup {NoJob},
         Respond(r, code, job), request \in [Requests -> Locals]
  PROVE  /\ request' \in [Requests -> Locals]
         /\ request'[r].pc = "done"
         /\ request'[r].answer = code
         /\ request'[r].job = job
         /\ \A s \in Requests \ {r} : request'[s] = request[s]
BY DEF Respond, Locals

LEMMA Telling ==
  ASSUME NEW k \in Keys, NEW j \in Requests, TellRedis(k, j),
         cache \in [Keys -> Requests \cup {NoJob}]
  PROVE  /\ cache' \in [Keys -> Requests \cup {NoJob}]
         /\ cache'[k] \in {cache[k], j}
         /\ \A m \in Keys \ {k} : cache'[m] = cache[m]
BY DEF TellRedis

LEMMA Retrying ==
  ASSUME NEW r \in Requests, DeadlockRetry(r), request \in [Requests -> Locals]
  PROVE  /\ request' \in [Requests -> Locals]
         /\ request'[r].pc \in {"validated", "done"}
         /\ request'[r].answer \in {request[r].answer, "409"}
         /\ \A s \in Requests \ {r} : request'[s] = request[s]
<1>1. CASE request[r].tries + 1 < MaxLockTries
  <2>1. request' = [request EXCEPT ![r].pc = "validated", ![r].tries = @ + 1]
    BY <1>1 DEF DeadlockRetry
  <2>2. request[r].tries \in 0..MaxLockTries - 1
    BY DEF Locals
  <2>3. request[r].tries + 1 \in 0..MaxLockTries - 1
    BY <1>1, <2>2
  <2>. QED BY <2>1, <2>3 DEF Locals, InHandler
<1>2. CASE ~(request[r].tries + 1 < MaxLockTries)
  BY <1>2, Responding DEF DeadlockRetry, Answers
<1>. QED BY <1>1, <1>2

LEMMA InsertTypes ==
  ASSUME NEW r \in Requests, InsertSubmission(r), TypeOK
  PROVE  /\ submissions' \in [Attempts -> IF SequenceUnique THEN 0..1 ELSE Nat]
         /\ request' \in [Requests -> Locals]
<1>0. request \in [Requests -> Locals] /\ AttemptOf[r] \in Attempts
  BY DEF TypeOK, Locals
<1>1. CASE SequenceUnique /\ submissions[AttemptOf[r]] > 0
  BY <1>0, <1>1, Responding DEF InsertSubmission, Answers, TypeOK
<1>2. CASE ~(SequenceUnique /\ submissions[AttemptOf[r]] > 0)
  <2>1. submissions' = [submissions EXCEPT ![AttemptOf[r]] = @ + 1] /\ Goto(r, "inserted")
    BY <1>2 DEF InsertSubmission
  <2>2. request' \in [Requests -> Locals]
    BY <1>0, <2>1, Going DEF InHandler
  <2>3. CASE SequenceUnique
    <3>1. submissions \in [Attempts -> 0..1] /\ ~(submissions[AttemptOf[r]] > 0)
      BY <1>2, <2>3 DEF TypeOK
    <3>2. submissions[AttemptOf[r]] + 1 \in 0..1
      BY <1>0, <3>1
    <3>. QED BY <2>1, <2>2, <2>3, <3>1, <3>2
  <2>4. CASE ~SequenceUnique
    <3>1. submissions \in [Attempts -> Nat]
      BY <2>4 DEF TypeOK
    <3>2. submissions[AttemptOf[r]] + 1 \in Nat
      BY <1>0, <3>1
    <3>. QED BY <2>1, <2>2, <2>4, <3>1, <3>2
  <2>. QED BY <2>3, <2>4
<1>. QED BY <1>1, <1>2

LEMMA StoreTypes ==
  ASSUME NEW r \in Requests, StoreKey(r), TypeOK
  PROVE  keyRows' \subseteq KeyRow /\ request' \in [Requests -> Locals]
<1>0. /\ request \in [Requests -> Locals]
      /\ AttemptOf[r] \in Attempts /\ KeyOf[r] \in Keys
      /\ keyRows \subseteq KeyRow
  BY DEF TypeOK, Locals
<1>1. \/ Goto(r, "stored")
      \/ Respond(r, "500", NoJob)
  BY DEF StoreKey
<1>2. request' \in [Requests -> Locals]
  BY <1>0, <1>1, Going, Responding DEF InHandler, Answers
<1>3. CASE RowOf(AttemptOf[r]) # {}
  BY <1>0, <1>2, <1>3 DEF StoreKey, KeyRow
<1>4. CASE RowOf(AttemptOf[r]) = {}
  BY <1>0, <1>2, <1>4 DEF StoreKey, KeyRow
<1>. QED BY <1>3, <1>4

LEMMA TypeStep ==
  ASSUME TypeOK, Next PROVE TypeOK'
<1>0. request \in [Requests -> Locals]
  BY DEF TypeOK, Locals
<1>1. ASSUME NEW r \in Requests,
             LoadAttempt(r) \/ CheckStatus(r) \/ LockAttempt(r) \/ Fail(r)
      PROVE  TypeOK'
  <2>1. UNCHANGED <<tables, overdue>>
    BY <1>1 DEF LoadAttempt, CheckStatus, LockAttempt, Fail
  <2>2. \/ \E pc \in InHandler : Goto(r, pc)
        \/ \E code \in Answers : Respond(r, code, NoJob)
    BY <1>1 DEF LoadAttempt, CheckStatus, LockAttempt, Fail, InHandler, Answers
  <2>3. request' \in [Requests -> Locals]
    BY <1>0, <2>2, Going, Responding
  <2>. QED BY <2>1, <2>3 DEF TypeOK, Locals, tables
<1>2. ASSUME NEW r \in Requests, RedisLookup(r) PROVE TypeOK'
  <2>1. KeyOf[r] \in Keys /\ cache[KeyOf[r]] \in Requests \cup {NoJob}
    BY DEF TypeOK
  <2>2. Goto(r, "redis_missed") \/ Respond(r, "202", cache[KeyOf[r]])
    BY <1>2 DEF RedisLookup
  <2>3. request' \in [Requests -> Locals]
    BY <1>0, <2>1, <2>2, Going, Responding DEF InHandler, Answers
  <2>. QED BY <1>2, <2>3 DEF RedisLookup, TypeOK, Locals, tables
<1>3. ASSUME NEW r \in Requests, KeyLookup(r) PROVE TypeOK'
  <2>1. \/ Goto(r, "fresh") /\ UNCHANGED cache
        \/ \E k \in keyRows : Respond(r, "202", k.job) /\ TellRedis(k.key, k.job)
    BY <1>3 DEF KeyLookup
  <2>2. \A k \in keyRows : k.job \in Requests /\ k.key \in Keys
    BY DEF TypeOK, KeyRow
  <2>3. request' \in [Requests -> Locals]
    BY <1>0, <2>1, <2>2, Going, Responding DEF InHandler, Answers
  <2>4. cache' \in [Keys -> Requests \cup {NoJob}]
    BY <2>1, <2>2, Telling DEF TypeOK
  <2>. QED BY <1>3, <2>3, <2>4 DEF KeyLookup, TypeOK, Locals
<1>4. ASSUME NEW r \in Requests, InsertSubmission(r) PROVE TypeOK'
  BY <1>4, InsertTypes DEF InsertSubmission, TypeOK, Locals
<1>5. ASSUME NEW r \in Requests, MarkSubmitted(r) PROVE TypeOK'
  <2>1. request' \in [Requests -> Locals]
    BY <1>0, <1>5, Going DEF MarkSubmitted, InHandler
  <2>2. status' \in [Attempts -> AttemptStatus]
    BY <1>5 DEF MarkSubmitted, TypeOK, AttemptStatus
  <2>. QED BY <1>5, <2>1, <2>2 DEF MarkSubmitted, TypeOK, Locals
<1>6. ASSUME NEW r \in Requests, EnqueueGradingJob(r) PROVE TypeOK'
  <2>1. request' \in [Requests -> Locals]
    BY <1>0, <1>6, Going DEF EnqueueGradingJob, InHandler
  <2>. QED BY <1>6, <2>1 DEF EnqueueGradingJob, TypeOK, Locals
<1>7. ASSUME NEW r \in Requests, StoreKey(r) PROVE TypeOK'
  BY <1>7, StoreTypes DEF StoreKey, TypeOK, Locals
<1>8. ASSUME NEW r \in Requests, Accept(r) PROVE TypeOK'
  <2>1. request' \in [Requests -> Locals]
    BY <1>0, <1>8, Responding DEF Accept, Answers
  <2>2. cache' \in [Keys -> Requests \cup {NoJob}]
    BY <1>8, Telling DEF Accept, TypeOK
  <2>. QED BY <1>8, <2>1, <2>2 DEF Accept, TypeOK, Locals
<1>9. ASSUME NEW r \in Requests, DeadlockRetry(r) PROVE TypeOK'
  <2>1. request' \in [Requests -> Locals]
    BY <1>0, <1>9, Retrying
  <2>. QED BY <1>9, <2>1 DEF DeadlockRetry, TypeOK, Locals, tables
<1>10. ASSUME NEW j \in Requests, GradeAttempt(j) PROVE TypeOK'
  BY <1>10 DEF GradeAttempt, TypeOK, AttemptStatus
<1>11. ASSUME NEW a \in Attempts, LimitPasses(a) PROVE TypeOK'
  BY <1>11 DEF LimitPasses, TypeOK, tables
<1>. QED
  BY <1>1, <1>2, <1>3, <1>4, <1>5, <1>6, <1>7, <1>8, <1>9, <1>10, <1>11 DEF Next, Handle

LEMMA TypeInit == Init => TypeOK
BY DEF Init, TypeOK, AttemptStatus

LEMMA TypeNext == TypeOK /\ [Next]_vars => TypeOK'
<1>1. ASSUME TypeOK, UNCHANGED vars PROVE TypeOK'
  BY <1>1 DEF TypeOK, vars
<1>. QED BY <1>1, TypeStep

(* Every table keeps its shape, whichever constraints it has; with the     *)
(* UNIQUE constraint an attempt has at most one submission.                *)
THEOREM TypeCorrect == Spec => []TypeOK
BY TypeInit, TypeNext, PTL DEF Spec

-----------------------------------------------------------------------------
(* The invariant. *)

LEMMA Request == TypeOK => request \in [Requests -> Locals]
BY DEF TypeOK, Locals

LEMMA InvInit == Init => IInv
<1>1. Init => TypeOK
  BY TypeInit
<1>2. Init => /\ \A r \in Requests : Fits(r) /\ Answered(r)
              /\ \A r, s \in Requests : Alone(r, s)
  BY DEF Init, Fits, Answered, Alone, Past, Started
<1>3. Init => FinalizedHasJob /\ RowsTrue /\ CacheBacked
  BY DEF Init, FinalizedHasJob, RowsTrue, CacheBacked
<1>. QED BY <1>1, <1>2, <1>3 DEF IInv

(* A step that leaves the tables as they are and r outside the stretch     *)
(* between the insert and the answer: all but five are such steps.         *)
LEMMA MoveStep ==
  ASSUME IInv, TypeOK', NEW r \in Requests,
         UNCHANGED <<status, submissions, jobs, keyRows>>,
         \A s \in Requests \ {r} : request'[s] = request[s],
         request'[r].pc \notin Started, Answered(r)', CacheBacked'
  PROVE  IInv'
<1>1. \A s \in Requests : Past(s)' => Past(s)
  BY DEF Past
<1>2. ASSUME NEW s \in Requests PROVE Fits(s)'
  <2>1. CASE s = r
    BY <1>1, <2>1 DEF IInv, Fits, Past, Started
  <2>2. CASE s # r
    BY <1>1, <2>2 DEF IInv, Fits, Past
  <2>. QED BY <2>1, <2>2
<1>3. ASSUME NEW s \in Requests PROVE Answered(s)'
  <2>1. CASE s # r
    BY <2>1 DEF IInv, Answered
  <2>. QED BY <2>1
<1>4. \A s, t \in Requests : Alone(s, t)'
  BY <1>1 DEF IInv, Alone
<1>5. FinalizedHasJob' /\ RowsTrue'
  BY DEF IInv, FinalizedHasJob, RowsTrue
<1>. QED BY <1>2, <1>3, <1>4, <1>5 DEF IInv

(* Redis is told only what the key table says. *)
LEMMA BackedTelling ==
  ASSUME TypeOK, CacheBacked, UNCHANGED keyRows,
         NEW k \in Keys, NEW j \in Requests, TellRedis(k, j),
         \E row \in keyRows : row.key = k /\ row.job = j
  PROVE  CacheBacked'
BY Telling DEF TypeOK, CacheBacked

LEMMA QuietStep ==
  ASSUME IInv, NEW r \in Requests,
         LoadAttempt(r) \/ CheckStatus(r) \/ LockAttempt(r) \/ DeadlockRetry(r) \/ Fail(r)
  PROVE  IInv'
<1>0. TypeOK /\ request \in [Requests -> Locals]
  BY Request DEF IInv
<1>1. TypeOK'
  BY <1>0, TypeStep DEF Next, Handle
<1>2. UNCHANGED <<status, submissions, jobs, keyRows, cache>>
  BY DEF LoadAttempt, CheckStatus, LockAttempt, DeadlockRetry, Fail, tables
<1>3. /\ request'[r].pc \notin Started
      /\ \A s \in Requests \ {r} : request'[s] = request[s]
      /\ request'[r].answer = "202" => request[r].answer = "202"
  <2>1. CASE DeadlockRetry(r)
    BY <1>0, <2>1, Retrying DEF Started
  <2>2. CASE \E pc \in {"loaded", "validated", "locked"} : Goto(r, pc)
    BY <1>0, <2>2, Going DEF InHandler, Started
  <2>3. CASE \E code \in {"400", "409", "500"} : Respond(r, code, NoJob)
    BY <1>0, <2>3, Responding DEF Answers, Started
  <2>. QED BY <2>1, <2>2, <2>3 DEF LoadAttempt, CheckStatus, LockAttempt, Fail
<1>4. request[r].pc # "done"
  BY DEF LoadAttempt, CheckStatus, LockAttempt, DeadlockRetry, Fail, InHandler
<1>5. Answered(r)'
  BY <1>3, <1>4 DEF IInv, Answered
<1>6. CacheBacked'
  BY <1>2 DEF IInv, CacheBacked
<1>. QED BY <1>1, <1>2, <1>3, <1>5, <1>6, MoveStep

LEMMA RedisStep ==
  ASSUME IInv, NEW r \in Requests, RedisLookup(r) PROVE IInv'
<1>0. TypeOK /\ request \in [Requests -> Locals] /\ KeyOf[r] \in Keys
  BY Request DEF IInv
<1>1. TypeOK'
  BY <1>0, TypeStep DEF Next, Handle
<1>2. UNCHANGED <<status, submissions, jobs, keyRows, cache>>
  BY DEF RedisLookup, tables
<1>3. CacheBacked'
  BY <1>2 DEF IInv, CacheBacked
<1>4. CASE cache[KeyOf[r]] # NoJob
  <2>1. cache[KeyOf[r]] \in Requests /\ Respond(r, "202", cache[KeyOf[r]])
    BY <1>0, <1>4 DEF RedisLookup, TypeOK
  <2>2. /\ request'[r].pc = "done"
        /\ request'[r].job = cache[KeyOf[r]]
        /\ \A s \in Requests \ {r} : request'[s] = request[s]
    BY <1>0, <2>1, Responding DEF Answers
  <2>3. PICK row \in keyRows : row.key = KeyOf[r] /\ row.job = cache[KeyOf[r]]
    BY <1>0, <1>4 DEF IInv, CacheBacked
  <2>4. row.job \in jobs /\ KeyOf[row.job] = row.key
    BY DEF IInv, RowsTrue
  <2>5. Answered(r)'
    BY <1>2, <2>2, <2>3, <2>4 DEF Answered
  <2>. QED BY <1>1, <1>2, <1>3, <2>2, <2>5, MoveStep DEF Started
<1>5. CASE cache[KeyOf[r]] = NoJob
  <2>1. Goto(r, "redis_missed") /\ request[r].pc = "loaded"
    BY <1>5 DEF RedisLookup
  <2>2. /\ request'[r].pc = "redis_missed"
        /\ request'[r].answer = request[r].answer
        /\ \A s \in Requests \ {r} : request'[s] = request[s]
    BY <1>0, <2>1, Going DEF InHandler
  <2>3. Answered(r)'
    BY <2>1, <2>2 DEF IInv, Answered
  <2>. QED BY <1>1, <1>2, <1>3, <2>2, <2>3, MoveStep DEF Started
<1>. QED BY <1>4, <1>5

LEMMA KeyStep ==
  ASSUME IInv, NEW r \in Requests, KeyLookup(r) PROVE IInv'
<1>0. TypeOK /\ CacheBacked /\ request \in [Requests -> Locals] /\ KeyOf[r] \in Keys
  BY Request DEF IInv
<1>1. TypeOK'
  BY <1>0, TypeStep DEF Next, Handle
<1>2. UNCHANGED <<status, submissions, jobs, keyRows>>
  BY DEF KeyLookup
<1>3. CASE Goto(r, "fresh") /\ UNCHANGED cache
  <2>1. /\ request'[r].pc = "fresh"
        /\ request'[r].answer = request[r].answer
        /\ \A s \in Requests \ {r} : request'[s] = request[s]
    BY <1>0, <1>3, Going DEF InHandler
  <2>2. Answered(r)'
    BY <2>1 DEF KeyLookup, IInv, Answered
  <2>3. CacheBacked'
    BY <1>0, <1>2, <1>3 DEF CacheBacked
  <2>. QED BY <1>1, <1>2, <2>1, <2>2, <2>3, MoveStep DEF Started
<1>4. CASE \E k \in keyRows : /\ k.key = KeyOf[r]
                              /\ Respond(r, "202", k.job) /\ TellRedis(k.key, k.job)
  <2>1. PICK k \in keyRows : /\ k.key = KeyOf[r]
                             /\ Respond(r, "202", k.job) /\ TellRedis(k.key, k.job)
    BY <1>4
  <2>2. k.job \in Requests /\ k.job \in jobs /\ KeyOf[k.job] = k.key
    BY <1>0 DEF IInv, RowsTrue, TypeOK, KeyRow
  <2>3. /\ request'[r].pc = "done"
        /\ request'[r].job = k.job
        /\ \A s \in Requests \ {r} : request'[s] = request[s]
    BY <1>0, <2>1, <2>2, Responding DEF Answers
  <2>4. Answered(r)'
    BY <1>2, <2>1, <2>2, <2>3 DEF Answered
  <2>5. CacheBacked'
    BY <1>0, <1>2, <2>1, <2>2, BackedTelling
  <2>. QED BY <1>1, <1>2, <2>3, <2>4, <2>5, MoveStep DEF Started
<1>. QED BY <1>3, <1>4 DEF KeyLookup

LEMMA AcceptStep ==
  ASSUME IInv, NEW r \in Requests, Accept(r) PROVE IInv'
<1>0. TypeOK /\ CacheBacked /\ request \in [Requests -> Locals] /\ KeyOf[r] \in Keys
  BY Request DEF IInv
<1>1. TypeOK'
  BY <1>0, TypeStep DEF Next, Handle
<1>2. UNCHANGED <<status, submissions, jobs, keyRows>> /\ request[r].pc = "stored"
  BY DEF Accept
<1>3. r \in jobs /\ \E row \in keyRows : row.key = KeyOf[r] /\ row.job = r
  BY <1>2 DEF IInv, Fits
<1>4. /\ request'[r].pc = "done"
      /\ request'[r].job = r
      /\ \A s \in Requests \ {r} : request'[s] = request[s]
  BY <1>0, Responding DEF Accept, Answers
<1>5. Answered(r)'
  BY <1>2, <1>3, <1>4 DEF Answered
<1>6. CacheBacked'
  BY <1>0, <1>2, <1>3, BackedTelling DEF Accept
<1>. QED BY <1>1, <1>2, <1>4, <1>5, <1>6, MoveStep DEF Started

(* The constraint at work: whoever's insert succeeds is the first, so that *)
(* nobody else is past it.                                                 *)
LEMMA InsertStep ==
  ASSUME SequenceUnique, IInv, NEW r \in Requests, InsertSubmission(r) PROVE IInv'
<1>0. TypeOK /\ request \in [Requests -> Locals] /\ AttemptOf[r] \in Attempts
  BY Request DEF IInv
<1>1. TypeOK'
  BY <1>0, TypeStep DEF Next, Handle
<1>2. UNCHANGED <<status, jobs, keyRows, cache>> /\ request[r].pc = "locked"
  BY DEF InsertSubmission
<1>3. CacheBacked' /\ FinalizedHasJob' /\ RowsTrue'
  BY <1>2 DEF IInv, CacheBacked, FinalizedHasJob, RowsTrue
<1>4. CASE submissions[AttemptOf[r]] > 0
  <2>1. Respond(r, "500", NoJob) /\ UNCHANGED submissions
    BY <1>4 DEF InsertSubmission
  <2>2. /\ request'[r].pc = "done" /\ request'[r].answer = "500"
        /\ \A s \in Requests \ {r} : request'[s] = request[s]
    BY <1>0, <2>1, Responding DEF Answers
  <2>3. Answered(r)'
    BY <2>2 DEF Answered
  <2>. QED BY <1>1, <1>2, <1>3, <2>1, <2>2, <2>3, MoveStep DEF Started
<1>5. CASE ~(submissions[AttemptOf[r]] > 0)
  <2>1. /\ submissions' = [submissions EXCEPT ![AttemptOf[r]] = @ + 1]
        /\ Goto(r, "inserted")
    BY <1>5 DEF InsertSubmission
  <2>2. /\ request'[r].pc = "inserted" /\ request'[r].answer = request[r].answer
        /\ \A s \in Requests \ {r} : request'[s] = request[s]
    BY <1>0, <2>1, Going DEF InHandler
  <2>3. submissions \in [Attempts -> Nat]
    BY <1>0 DEF TypeOK
  <2>4. /\ \A s \in Requests : submissions[AttemptOf[s]] > 0 => submissions'[AttemptOf[s]] > 0
        /\ submissions'[AttemptOf[r]] > 0
    BY <1>0, <2>1, <2>3
  <2>5. \A s \in Requests : AttemptOf[s] = AttemptOf[r] => ~Past(s)
    BY <1>5 DEF IInv, Fits
  <2>6. \A s \in Requests \ {r} : Past(s)' <=> Past(s)
    BY <1>2, <2>2 DEF Past
  <2>7. Fits(r)'
    BY <1>2, <2>2, <2>4, <2>5 DEF Fits, Past
  <2>8. ASSUME NEW s \in Requests \ {r} PROVE Fits(s)'
    <3>1. Fits(s) /\ request'[s] = request[s]
      BY <2>2 DEF IInv
    <3>2. Past(s)' => submissions'[AttemptOf[s]] > 0
      BY <2>4, <2>6, <3>1 DEF Fits
    <3>. QED BY <1>2, <3>1, <3>2 DEF Fits
  <2>9. ASSUME NEW s \in Requests PROVE Answered(s)'
    <3>1. CASE s = r
      BY <1>2, <2>2, <3>1 DEF IInv, Answered
    <3>2. CASE s # r
      BY <1>2, <2>2, <3>2 DEF IInv, Answered
    <3>. QED BY <3>1, <3>2
  <2>10. ASSUME NEW s \in Requests, NEW t \in Requests PROVE Alone(s, t)'
    BY <2>5, <2>6 DEF IInv, Alone
  <2>. QED BY <1>1, <1>3, <2>7, <2>8, <2>9, <2>10 DEF IInv
<1>. QED BY <1>4, <1>5

(* Between its insert and its job a request's attempt has no job, and so   *)
(* cannot be finalised: the UPDATE that ignores the status does no harm.   *)
LEMMA NoJobYet ==
  ASSUME IInv, NEW r \in Requests, request[r].pc \in {"inserted", "marked"}
  PROVE  /\ \A j \in jobs : AttemptOf[j] # AttemptOf[r]
         /\ status[AttemptOf[r]] # "FINALIZED"
<1>1. ASSUME NEW j \in jobs, AttemptOf[j] = AttemptOf[r] PROVE FALSE
  <2>1. j \in Requests
    BY DEF IInv, TypeOK
  <2>2. j = r
    BY <1>1, <2>1 DEF IInv, Alone, Past, Started
  <2>. QED BY <2>2 DEF IInv, Fits
<1>. QED BY <1>1 DEF IInv, FinalizedHasJob

LEMMA MarkStep ==
  ASSUME IInv, NEW r \in Requests, MarkSubmitted(r) PROVE IInv'
<1>0. TypeOK /\ request \in [Requests -> Locals] /\ AttemptOf[r] \in Attempts
  BY Request DEF IInv
<1>1. TypeOK'
  BY <1>0, TypeStep DEF Next, Handle
<1>2. UNCHANGED <<submissions, jobs, keyRows, cache>> /\ request[r].pc = "inserted"
  BY DEF MarkSubmitted
<1>3. /\ request'[r].pc = "marked" /\ request'[r].answer = request[r].answer
      /\ \A s \in Requests \ {r} : request'[s] = request[s]
  BY <1>0, Going DEF MarkSubmitted, InHandler
<1>4. status' = [status EXCEPT ![AttemptOf[r]] = "SUBMITTED"] /\ DOMAIN status = Attempts
  BY DEF MarkSubmitted, IInv, TypeOK
<1>5. /\ \A s \in Requests : status[AttemptOf[s]] # "IN_PROGRESS"
                               => status'[AttemptOf[s]] # "IN_PROGRESS"
      /\ status'[AttemptOf[r]] # "IN_PROGRESS"
  BY <1>0, <1>4
<1>6. \A s \in Requests : Past(s)' <=> Past(s)
  BY <1>2, <1>3 DEF Past, Started
<1>7. ASSUME NEW s \in Requests PROVE Fits(s)'
  <2>1. Fits(s)
    BY DEF IInv
  <2>2. CASE s = r
    BY <1>2, <1>3, <1>5, <1>6, <2>1, <2>2 DEF Fits
  <2>3. CASE s # r
    BY <1>2, <1>3, <1>5, <1>6, <2>1, <2>3 DEF Fits
  <2>. QED BY <2>2, <2>3
<1>8. ASSUME NEW s \in Requests PROVE Answered(s)'
  <2>1. CASE s = r
    BY <1>2, <1>3, <2>1 DEF IInv, Answered
  <2>2. CASE s # r
    BY <1>2, <1>3, <2>2 DEF IInv, Answered
  <2>. QED BY <2>1, <2>2
<1>9. \A s, t \in Requests : Alone(s, t)'
  BY <1>6 DEF IInv, Alone
<1>10. FinalizedHasJob'
  BY <1>2, <1>4 DEF IInv, FinalizedHasJob
<1>11. RowsTrue' /\ CacheBacked'
  BY <1>2 DEF IInv, RowsTrue, CacheBacked
<1>. QED BY <1>1, <1>7, <1>8, <1>9, <1>10, <1>11 DEF IInv

LEMMA EnqueueStep ==
  ASSUME IInv, NEW r \in Requests, EnqueueGradingJob(r) PROVE IInv'
<1>0. TypeOK /\ request \in [Requests -> Locals]
  BY Request DEF IInv
<1>1. TypeOK'
  BY <1>0, TypeStep DEF Next, Handle
<1>2. /\ UNCHANGED <<status, submissions, keyRows, cache>>
      /\ request[r].pc = "marked" /\ jobs' = jobs \cup {r}
  BY DEF EnqueueGradingJob
<1>3. /\ request'[r].pc = "enqueued" /\ request'[r].answer = request[r].answer
      /\ \A s \in Requests \ {r} : request'[s] = request[s]
  BY <1>0, Going DEF EnqueueGradingJob, InHandler
<1>4. \A s \in Requests : Past(s)' <=> Past(s)
  BY <1>2, <1>3 DEF Past, Started
<1>5. ASSUME NEW s \in Requests PROVE Fits(s)'
  <2>1. Fits(s)
    BY DEF IInv
  <2>2. CASE s = r
    BY <1>2, <1>3, <1>4, <2>1, <2>2 DEF Fits
  <2>3. CASE s # r
    BY <1>2, <1>3, <1>4, <2>1, <2>3 DEF Fits
  <2>. QED BY <2>2, <2>3
<1>6. ASSUME NEW s \in Requests PROVE Answered(s)'
  <2>1. CASE s = r
    BY <1>2, <1>3, <2>1 DEF IInv, Answered
  <2>2. CASE s # r
    BY <1>2, <1>3, <2>2 DEF IInv, Answered
  <2>. QED BY <2>1, <2>2
<1>7. \A s, t \in Requests : Alone(s, t)'
  BY <1>4 DEF IInv, Alone
<1>8. FinalizedHasJob' /\ RowsTrue' /\ CacheBacked'
  BY <1>2 DEF IInv, FinalizedHasJob, RowsTrue, CacheBacked
<1>. QED BY <1>1, <1>5, <1>6, <1>7, <1>8 DEF IInv

(* The upsert finds a row of the attempt only if the row names its job,    *)
(* which is this request's: it changes nothing.                            *)
LEMMA StoreRows ==
  ASSUME IInv, NEW r \in Requests, StoreKey(r)
  PROVE  \/ keyRows' = keyRows /\ Respond(r, "500", NoJob)
         \/ /\ keyRows' \in {keyRows, keyRows \cup
                              {[attempt |-> AttemptOf[r], key |-> KeyOf[r], job |-> r]}}
            /\ Goto(r, "stored")
            /\ \E row \in keyRows' : row.key = KeyOf[r] /\ row.job = r
<1>0. keyRows \subseteq KeyRow /\ r \in jobs
  BY DEF IInv, TypeOK, StoreKey, Fits
<1>1. ASSUME NEW k \in keyRows, k.attempt = AttemptOf[r] PROVE k.job = r /\ k.key = KeyOf[r]
  <2>1. k.job \in jobs /\ k.job \in Requests /\ AttemptOf[k.job] = k.attempt /\ KeyOf[k.job] = k.key
    BY <1>0 DEF IInv, RowsTrue, KeyRow
  <2>. QED BY <1>0, <1>1, <2>1 DEF IInv, Alone, Past
<1>2. CASE RowOf(AttemptOf[r]) # {}
  <2>1. /\ keyRows' = {[k EXCEPT !.job = IF k.attempt = AttemptOf[r] THEN r ELSE @] : k \in keyRows}
        /\ Goto(r, "stored")
    BY <1>2 DEF StoreKey
  <2>2. \A k \in keyRows : [k EXCEPT !.job = IF k.attempt = AttemptOf[r] THEN r ELSE @] = k
    BY <1>0, <1>1 DEF KeyRow
  <2>3. keyRows' = keyRows
    BY <2>1, <2>2
  <2>4. PICK k \in keyRows : k.attempt = AttemptOf[r]
    BY <1>2 DEF RowOf
  <2>. QED BY <1>1, <2>1, <2>3, <2>4
<1>3. CASE RowOf(AttemptOf[r]) = {}
  <2>. DEFINE new == [attempt |-> AttemptOf[r], key |-> KeyOf[r], job |-> r]
  <2>1. new.key = KeyOf[r] /\ new.job = r
    OBVIOUS
  <2>. HIDE DEF new
  <2>2. \/ keyRows' = keyRows /\ Respond(r, "500", NoJob)
        \/ keyRows' = keyRows \cup {new} /\ Goto(r, "stored")
    BY <1>3 DEF StoreKey, new
  <2>3. keyRows' = keyRows \cup {new} => \E row \in keyRows' : row.key = KeyOf[r] /\ row.job = r
    BY <2>1
  <2>. QED BY <2>2, <2>3 DEF new
<1>. QED BY <1>2, <1>3

LEMMA StoreStep ==
  ASSUME IInv, NEW r \in Requests, StoreKey(r) PROVE IInv'
<1>0. TypeOK /\ request \in [Requests -> Locals]
  BY Request DEF IInv
<1>1. TypeOK'
  BY <1>0, TypeStep DEF Next, Handle
<1>2. UNCHANGED <<status, submissions, jobs, cache>> /\ request[r].pc = "enqueued"
  BY DEF StoreKey
<1>3. CASE keyRows' = keyRows /\ Respond(r, "500", NoJob)
  <2>1. /\ request'[r].pc = "done" /\ request'[r].answer = "500"
        /\ \A s \in Requests \ {r} : request'[s] = request[s]
    BY <1>0, <1>3, Responding DEF Answers
  <2>2. Answered(r)' /\ CacheBacked'
    BY <1>2, <1>3, <2>1 DEF Answered, IInv, CacheBacked
  <2>. QED BY <1>1, <1>2, <1>3, <2>1, <2>2, MoveStep DEF Started
<1>4. CASE /\ keyRows' \in {keyRows, keyRows \cup
                             {[attempt |-> AttemptOf[r], key |-> KeyOf[r], job |-> r]}}
           /\ Goto(r, "stored")
           /\ \E row \in keyRows' : row.key = KeyOf[r] /\ row.job = r
  <2>1. /\ request'[r].pc = "stored" /\ request'[r].answer = request[r].answer
        /\ \A s \in Requests \ {r} : request'[s] = request[s]
    BY <1>0, <1>4, Going DEF InHandler
  <2>2. keyRows \subseteq keyRows'
    BY <1>4
  <2>3. \A s \in Requests : Past(s)' <=> Past(s)
    BY <1>2, <2>1 DEF Past, Started
  <2>4. ASSUME NEW s \in Requests PROVE Fits(s)'
    <3>1. Fits(s)
      BY DEF IInv
    <3>2. CASE s = r
      BY <1>2, <1>4, <2>1, <2>3, <3>1, <3>2 DEF Fits
    <3>3. CASE s # r
      BY <1>2, <2>1, <2>2, <2>3, <3>1, <3>3 DEF Fits
    <3>. QED BY <3>2, <3>3
  <2>5. ASSUME NEW s \in Requests PROVE Answered(s)'
    <3>1. CASE s = r
      BY <1>2, <2>1, <3>1 DEF IInv, Answered
    <3>2. CASE s # r
      BY <1>2, <2>1, <3>2 DEF IInv, Answered
    <3>. QED BY <3>1, <3>2
  <2>6. \A s, t \in Requests : Alone(s, t)'
    BY <2>3 DEF IInv, Alone
  <2>7. FinalizedHasJob'
    BY <1>2 DEF IInv, FinalizedHasJob
  <2>8. RowsTrue'
    <3>1. r \in jobs
      BY <1>2 DEF IInv, Fits
    <3>. QED BY <1>2, <1>4, <3>1 DEF IInv, RowsTrue
  <2>9. CacheBacked'
    BY <1>2, <2>2 DEF IInv, CacheBacked
  <2>. QED BY <1>1, <2>4, <2>5, <2>6, <2>7, <2>8, <2>9 DEF IInv
<1>. QED BY <1>3, <1>4, StoreRows

LEMMA GradeStep ==
  ASSUME IInv, NEW j \in Requests, GradeAttempt(j) PROVE IInv'
<1>0. TypeOK
  BY DEF IInv
<1>1. TypeOK'
  BY <1>0, TypeStep DEF Next
<1>2. UNCHANGED <<submissions, jobs, keyRows, cache, request>> /\ j \in jobs
  BY DEF GradeAttempt
<1>3. status' = [status EXCEPT ![AttemptOf[j]] = "FINALIZED"] /\ DOMAIN status = Attempts
  BY <1>0 DEF GradeAttempt, TypeOK
<1>4. \A s \in Requests : status[AttemptOf[s]] # "IN_PROGRESS"
                            => status'[AttemptOf[s]] # "IN_PROGRESS"
  BY <1>3
<1>5. \A s, t \in Requests : Fits(s)' /\ Answered(s)' /\ Alone(s, t)'
  BY <1>2, <1>4 DEF IInv, Fits, Answered, Alone, Past
<1>6. FinalizedHasJob'
  BY <1>2, <1>3 DEF IInv, FinalizedHasJob
<1>7. RowsTrue' /\ CacheBacked'
  BY <1>2 DEF IInv, RowsTrue, CacheBacked
<1>. QED BY <1>1, <1>5, <1>6, <1>7 DEF IInv

LEMMA StillStep ==
  ASSUME IInv, TypeOK', UNCHANGED <<tables, request>> PROVE IInv'
<1>1. \A s, t \in Requests : Fits(s)' /\ Answered(s)' /\ Alone(s, t)'
  BY DEF IInv, Fits, Answered, Alone, Past, tables
<1>2. FinalizedHasJob' /\ RowsTrue' /\ CacheBacked'
  BY DEF IInv, FinalizedHasJob, RowsTrue, CacheBacked, tables
<1>. QED BY <1>1, <1>2 DEF IInv

LEMMA InvNext == SequenceUnique /\ IInv /\ [Next]_vars => IInv'
<1>. SUFFICES ASSUME SequenceUnique, IInv, [Next]_vars PROVE IInv'
  OBVIOUS
<1>1. TypeOK'
  BY TypeNext DEF IInv
<1>2. ASSUME NEW a \in Attempts, LimitPasses(a) PROVE IInv'
  BY <1>1, <1>2, StillStep DEF LimitPasses
<1>3. CASE UNCHANGED vars
  BY <1>1, <1>3, StillStep DEF vars, tables
<1>4. ASSUME NEW r \in Requests, Handle(r) \/ Fail(r) \/ GradeAttempt(r) PROVE IInv'
  BY <1>4, QuietStep, RedisStep, KeyStep, AcceptStep, InsertStep, MarkStep, EnqueueStep,
     StoreStep, GradeStep DEF Handle
<1>. QED BY <1>2, <1>3, <1>4 DEF Next

LEMMA Invariance == ASSUME SequenceUnique PROVE Spec => []IInv
BY InvInit, InvNext, PTL DEF Spec

-----------------------------------------------------------------------------
(* The properties. *)

LEMMA OneJob == IInv => OneJobPerAttempt
BY DEF IInv, OneJobPerAttempt, TypeOK, Alone, Past

LEMMA Honest == ASSUME KeysOneAttempt PROVE IInv => HonestAcceptance
<1>. SUFFICES ASSUME IInv, NEW r \in Requests, request[r].answer = "202"
              PROVE  /\ request[r].job \in jobs
                     /\ AttemptOf[request[r].job] = AttemptOf[r]
                     /\ status[AttemptOf[r]] # "IN_PROGRESS"
  BY DEF HonestAcceptance
<1>1. request[r].job \in jobs /\ KeyOf[request[r].job] = KeyOf[r]
  BY DEF IInv, Answered
<1>2. request[r].job \in Requests
  BY <1>1 DEF IInv, TypeOK
<1>3. AttemptOf[request[r].job] = AttemptOf[r]
  BY <1>1, <1>2 DEF KeysOneAttempt
<1>4. status[AttemptOf[request[r].job]] # "IN_PROGRESS"
  BY <1>1, <1>2 DEF IInv, Fits
<1>. QED BY <1>1, <1>3, <1>4

(* An attempt gets one grading job, however its copies interleave.         *)
THEOREM SubmittedOnce == ASSUME SequenceUnique PROVE Spec => []OneJobPerAttempt
BY Invariance, OneJob, PTL

(* A key row and a Redis entry name the job that was submitted with the    *)
(* key, whatever failed on the way.                                        *)
THEOREM ReplaysAreTrue == ASSUME SequenceUnique PROVE Spec => []ReplayNamesTheJob
<1>1. IInv => ReplayNamesTheJob
  BY DEF IInv, RowsTrue, CacheBacked, ReplayNamesTheJob
<1>. QED BY <1>1, Invariance, PTL

(* When keys are not shared between attempts, a 202 names a job of the     *)
(* request's own attempt, which has left IN_PROGRESS.                      *)
THEOREM AcceptanceIsHonest ==
  ASSUME SequenceUnique, KeysOneAttempt PROVE Spec => []HonestAcceptance
BY Invariance, Honest, PTL

(* Even when they are, as 'no-key' is, a 202 names a queued job of some    *)
(* request with the same key.                                              *)
THEOREM AcceptedUnderItsKey ==
  ASSUME SequenceUnique PROVE Spec => [](\A r \in Requests : Answered(r))
<1>1. IInv => \A r \in Requests : Answered(r)
  BY DEF IInv
<1>. QED BY <1>1, Invariance, PTL

LEMMA FinalizedStep ==
  ASSUME IInv, [Next]_vars, NEW a \in Attempts, status[a] = "FINALIZED"
  PROVE  status'[a] = "FINALIZED"
<1>0. DOMAIN status = Attempts
  BY DEF IInv, TypeOK
<1>1. ASSUME NEW r \in Requests, MarkSubmitted(r) PROVE status'[a] = "FINALIZED"
  <2>1. AttemptOf[r] # a
    BY <1>1, NoJobYet DEF MarkSubmitted
  <2>. QED BY <1>0, <1>1, <2>1 DEF MarkSubmitted
<1>2. ASSUME NEW j \in Requests, GradeAttempt(j) PROVE status'[a] = "FINALIZED"
  BY <1>0, <1>2 DEF GradeAttempt
<1>3. CASE UNCHANGED status
  BY <1>3
<1>. QED
  BY <1>1, <1>2, <1>3 DEF Next, Handle, LoadAttempt, RedisLookup, KeyLookup, CheckStatus,
     LockAttempt, InsertSubmission, EnqueueGradingJob, StoreKey, Accept, DeadlockRetry, Fail,
     LimitPasses, tables, vars

(* The UPDATE of the status, which does not look at it, never puts a       *)
(* FINALIZED attempt back to SUBMITTED.                                    *)
THEOREM NeverReopened == ASSUME SequenceUnique PROVE Spec => FinalizedStays
<1>1. IInv /\ [Next]_vars => [\A a \in Attempts : status[a] = "FINALIZED"
                                                    => status'[a] = "FINALIZED"]_vars
  BY FinalizedStep
<1>. QED BY <1>1, Invariance, PTL DEF Spec, FinalizedStays

(* What GradingQueue assumes of the API: a job is queued for an attempt    *)
(* that has been marked SUBMITTED already.                                 *)
THEOREM QueuedAfterMark ==
  ASSUME SequenceUnique
  PROVE  Spec => [](\A j \in jobs : status[AttemptOf[j]] # "IN_PROGRESS")
<1>1. IInv => \A j \in jobs : status[AttemptOf[j]] # "IN_PROGRESS"
  BY DEF IInv, TypeOK, Fits
<1>. QED BY <1>1, Invariance, PTL

(* And from then on the worker alone writes the attempt: no request, late, *)
(* rerun or retried, touches the status of an attempt that has a job.      *)
THEOREM WorkerOwnsQueued ==
  ASSUME SequenceUnique
  PROVE  Spec => [][\A i \in jobs : status'[AttemptOf[i]] # status[AttemptOf[i]]
                      => \E j \in jobs : AttemptOf[j] = AttemptOf[i] /\ GradeAttempt(j)]_vars
<1>. DEFINE Owned == \A i \in jobs : status'[AttemptOf[i]] # status[AttemptOf[i]]
                       => \E j \in jobs : AttemptOf[j] = AttemptOf[i] /\ GradeAttempt(j)
<1>1. ASSUME IInv, [Next]_vars PROVE Owned
  <2>0. jobs \subseteq Requests /\ DOMAIN status = Attempts
    BY <1>1 DEF IInv, TypeOK
  <2>1. ASSUME NEW r \in Requests, MarkSubmitted(r) PROVE Owned
    <3>1. \A i \in jobs : AttemptOf[i] # AttemptOf[r]
      BY <1>1, <2>1, NoJobYet DEF MarkSubmitted
    <3>. QED BY <2>0, <2>1, <3>1 DEF MarkSubmitted
  <2>2. ASSUME NEW j \in Requests, GradeAttempt(j) PROVE Owned
    <3>1. j \in jobs
          /\ \A i \in jobs : AttemptOf[i] # AttemptOf[j]
                             => status'[AttemptOf[i]] = status[AttemptOf[i]]
      BY <2>0, <2>2 DEF GradeAttempt
    <3>. QED BY <2>2, <3>1
  <2>3. CASE UNCHANGED status
    BY <2>3
  <2>. QED
    BY <1>1, <2>1, <2>2, <2>3 DEF Next, Handle, LoadAttempt, RedisLookup, KeyLookup,
       CheckStatus, LockAttempt, InsertSubmission, EnqueueGradingJob, StoreKey, Accept,
       DeadlockRetry, Fail, LimitPasses, tables, vars
<1>2. IInv /\ [Next]_vars => [Owned]_vars
  BY <1>1
<1>. QED BY <1>2, Invariance, PTL DEF Spec

(* A 202 without a grade has its job waiting for the worker, in a state    *)
(* that GradeAttempt accepts.                                              *)
GradedInv == \A j \in graded : status[AttemptOf[j]] = "FINALIZED"

AwaitsGrade ==
  \A r \in Requests :
    request[r].answer = "202" =>
      \/ status[AttemptOf[r]] = "FINALIZED"
      \/ /\ request[r].job \in jobs \ graded
         /\ AttemptOf[request[r].job] = AttemptOf[r]
         /\ status[AttemptOf[r]] = "SUBMITTED"

LEMMA GradedNext == ASSUME IInv, GradedInv, [Next]_vars PROVE GradedInv'
<1>. SUFFICES ASSUME NEW i \in graded' PROVE status'[AttemptOf[i]] = "FINALIZED"
  BY DEF GradedInv
<1>1. CASE i \in graded
  <2>1. AttemptOf[i] \in Attempts
    BY <1>1 DEF IInv, TypeOK
  <2>. QED BY <1>1, <2>1, FinalizedStep DEF GradedInv
<1>2. ASSUME NEW j \in Requests, GradeAttempt(j), i \notin graded
      PROVE  status'[AttemptOf[i]] = "FINALIZED"
  <2>1. i = j /\ status' = [status EXCEPT ![AttemptOf[j]] = "FINALIZED"]
    BY <1>2 DEF GradeAttempt
  <2>2. AttemptOf[j] \in DOMAIN status
    BY DEF IInv, TypeOK
  <2>. QED BY <2>1, <2>2
<1>3. CASE graded' = graded
  BY <1>1, <1>3
<1>. QED
  BY <1>1, <1>2, <1>3 DEF Next, Handle, LoadAttempt, RedisLookup, KeyLookup, CheckStatus,
     LockAttempt, InsertSubmission, MarkSubmitted, EnqueueGradingJob, StoreKey, Accept,
     DeadlockRetry, Fail, LimitPasses, tables, vars

(* Whoever was told 202 is graded or next to be: the half of               *)
(* AcceptedIsGraded that needs no fairness.                                *)
THEOREM AcceptedIsAwaited ==
  ASSUME SequenceUnique, KeysOneAttempt PROVE Spec => []AwaitsGrade
<1>1. Init => GradedInv
  BY DEF Init, GradedInv
<1>2. IInv /\ GradedInv /\ [Next]_vars => GradedInv'
  BY GradedNext
<1>3. IInv /\ GradedInv => AwaitsGrade
  <2>. SUFFICES ASSUME IInv, GradedInv, NEW r \in Requests, request[r].answer = "202",
                       status[AttemptOf[r]] # "FINALIZED"
                PROVE  /\ request[r].job \in jobs \ graded
                       /\ AttemptOf[request[r].job] = AttemptOf[r]
                       /\ status[AttemptOf[r]] = "SUBMITTED"
    BY DEF AwaitsGrade
  <2>1. /\ request[r].job \in jobs
        /\ AttemptOf[request[r].job] = AttemptOf[r]
        /\ status[AttemptOf[r]] # "IN_PROGRESS"
    BY Honest DEF HonestAcceptance
  <2>2. status[AttemptOf[r]] \in AttemptStatus
    BY DEF IInv, TypeOK
  <2>. QED BY <2>1, <2>2 DEF GradedInv, AttemptStatus
<1>. QED BY <1>1, <1>2, <1>3, Invariance, PTL DEF Spec

(* When no statement fails the operation is as atomic as submit.ts:275     *)
(* says: what is SUBMITTED has a job, or a request about to queue one.     *)
JobOrItsRequest ==
  \A a \in Attempts :
    status[a] = "SUBMITTED" => \/ \E j \in jobs : AttemptOf[j] = a
                               \/ \E r \in Requests : AttemptOf[r] = a /\ request[r].pc = "marked"

LEMMA NothingLostStep ==
  ASSUME ~MayFail, TypeOK, JobOrItsRequest, [Next]_vars PROVE JobOrItsRequest'
<1>0. request \in [Requests -> Locals]
  BY Request
<1>1. ASSUME NEW r \in Requests, MarkSubmitted(r) PROVE JobOrItsRequest'
  <2>1. /\ request'[r].pc = "marked"
        /\ \A s \in Requests \ {r} : request'[s] = request[s]
    BY <1>0, <1>1, Going DEF MarkSubmitted, InHandler
  <2>2. jobs' = jobs /\ status' = [status EXCEPT ![AttemptOf[r]] = "SUBMITTED"]
    BY <1>1 DEF MarkSubmitted
  <2>3. DOMAIN status = Attempts
    BY DEF TypeOK
  <2>4. request[r].pc = "inserted"
    BY <1>1 DEF MarkSubmitted
  <2>. QED BY <2>1, <2>2, <2>3, <2>4 DEF JobOrItsRequest
<1>2. ASSUME NEW r \in Requests, EnqueueGradingJob(r) PROVE JobOrItsRequest'
  <2>1. \A s \in Requests \ {r} : request'[s] = request[s]
    BY <1>0, <1>2, Going DEF EnqueueGradingJob, InHandler
  <2>2. status' = status /\ jobs' = jobs \cup {r}
    BY <1>2 DEF EnqueueGradingJob
  <2>. QED BY <2>1, <2>2 DEF JobOrItsRequest
<1>3. ASSUME NEW j \in Requests, GradeAttempt(j) PROVE JobOrItsRequest'
  <2>1. DOMAIN status = Attempts
    BY DEF TypeOK
  <2>. QED BY <1>3, <2>1 DEF GradeAttempt, JobOrItsRequest
<1>4. ASSUME NEW r \in Requests, UNCHANGED <<status, jobs>>, request[r].pc # "marked",
             \A s \in Requests \ {r} : request'[s] = request[s]
      PROVE  JobOrItsRequest'
  BY <1>4 DEF JobOrItsRequest
<1>5. ASSUME NEW r \in Requests,
             \/ LoadAttempt(r) \/ RedisLookup(r) \/ KeyLookup(r) \/ CheckStatus(r)
             \/ LockAttempt(r) \/ InsertSubmission(r) \/ StoreKey(r) \/ Accept(r)
      PROVE  JobOrItsRequest'
  <2>1. UNCHANGED <<status, jobs>> /\ request[r].pc # "marked"
    BY <1>5 DEF LoadAttempt, RedisLookup, KeyLookup, CheckStatus, LockAttempt,
       InsertSubmission, StoreKey, Accept, tables
  <2>2. \/ \E pc \in InHandler : Goto(r, pc)
        \/ \E code \in Answers : \E job : Respond(r, code, job)
    <3>1. CASE LoadAttempt(r) \/ RedisLookup(r) \/ CheckStatus(r) \/ LockAttempt(r)
      BY <3>1 DEF LoadAttempt, RedisLookup, CheckStatus, LockAttempt, InHandler, Answers
    <3>2. CASE KeyLookup(r) \/ InsertSubmission(r) \/ StoreKey(r) \/ Accept(r)
      BY <3>2 DEF KeyLookup, InsertSubmission, StoreKey, Accept, InHandler, Answers
    <3>. QED BY <1>5, <3>1, <3>2
  <2>3. \A s \in Requests \ {r} : request'[s] = request[s]
    BY <1>0, <2>2 DEF Goto, Respond
  <2>. QED BY <1>4, <2>1, <2>3
<1>6. CASE UNCHANGED vars \/ \E a \in Attempts : LimitPasses(a)
  BY <1>6 DEF vars, tables, LimitPasses, JobOrItsRequest
<1>7. \A r \in Requests : ~DeadlockRetry(r) /\ ~Fail(r)
  BY DEF DeadlockRetry, Fail
<1>. QED BY <1>1, <1>2, <1>3, <1>5, <1>6, <1>7 DEF Next, Handle

(* Without failures no SUBMITTED attempt is left without a job, whichever  *)
(* constraints the tables have; submit_atomic shows one failure losing it. *)
THEOREM NothingLost == ASSUME ~MayFail PROVE Spec => []SubmittedHasJob
<1>1. Init => JobOrItsRequest
  BY DEF Init, JobOrItsRequest
<1>2. TypeOK /\ JobOrItsRequest /\ [Next]_vars => JobOrItsRequest'
  BY NothingLostStep
<1>3. JobOrItsRequest => SubmittedHasJob
  BY DEF JobOrItsRequest, SubmittedHasJob, InHandler
<1>. QED BY <1>1, <1>2, <1>3, TypeCorrect, PTL DEF Spec

-----------------------------------------------------------------------------
(* The ledger. *)

JobsOf == [a \in Attempts |-> JobOf(a)]
Promises == [r \in Requests |-> Promised(r)]

LEMMA JobOfJob ==
  ASSUME IInv, NEW j \in jobs PROVE JobOf(AttemptOf[j]) = j
<1>. DEFINE a == AttemptOf[j]
<1>1. \A i \in jobs : AttemptOf[i] = a => i = j
  BY OneJob DEF OneJobPerAttempt
<1>2. (CHOOSE i \in jobs : AttemptOf[i] = a) = j
  BY <1>1
<1>. QED BY <1>2 DEF JobOf

(* A step that keeps the statuses, the jobs and the 202s is not seen.      *)
LEMMA Unseen ==
  ASSUME UNCHANGED <<status, jobs>>,
         \A s \in Requests : request'[s] = request[s] \/ ~(request'[s].answer = "202"
                                                            \/ request[s].answer = "202")
  PROVE  UNCHANGED <<status, JobsOf, Promises>>
<1>1. \A s \in Requests : Promised(s)' = Promised(s)
  BY DEF Promised
<1>2. \A a \in Attempts : JobOf(a)' = JobOf(a)
  BY DEF JobOf
<1>. QED BY <1>1, <1>2 DEF JobsOf, Promises

(* A 202 names the attempt's job. *)
LEMMA Acknowledged ==
  ASSUME KeysOneAttempt, IInv, NEW r \in Requests, UNCHANGED <<status, jobs>>, Answered(r)',
         request[r].pc # "done", request'[r].answer = "202",
         \A s \in Requests \ {r} : request'[s] = request[s]
  PROVE  Ledger!Acknowledge(r)
<1>. DEFINE j == request'[r].job
<1>1. j \in jobs /\ KeyOf[j] = KeyOf[r]
  BY DEF Answered
<1>2. j \in Requests /\ j # NoJob
  BY <1>1 DEF IInv, TypeOK
<1>3. AttemptOf[j] = AttemptOf[r] /\ AttemptOf[r] \in Attempts
  BY <1>1, <1>2 DEF KeysOneAttempt
<1>4. JobsOf[AttemptOf[r]] = j
  <2>1. JobOf(AttemptOf[j]) = j
    BY <1>1, JobOfJob
  <2>. HIDE DEF j
  <2>. QED BY <1>3, <2>1 DEF JobsOf
<1>5. Promises[r] = NoJob
  <2>1. request[r].answer # "202"
    BY DEF IInv, Answered
  <2>. QED BY <2>1 DEF Promises, Promised
<1>6. Promises' = [Promises EXCEPT ![r] = j]
  BY DEF Promises, Promised
<1>7. JobsOf' = JobsOf
  BY DEF JobsOf, JobOf
<1>. HIDE DEF j
<1>. QED BY <1>2, <1>4, <1>5, <1>6, <1>7 DEF Ledger!Acknowledge, JobsOf, Promises

LEMMA SubmitLedgerStep ==
  ASSUME IInv, NEW r \in Requests, MarkSubmitted(r)
  PROVE  \/ Ledger!Submit(AttemptOf[r])
         \/ UNCHANGED <<status, JobsOf, Promises>>
<1>0. TypeOK /\ request \in [Requests -> Locals] /\ AttemptOf[r] \in Attempts
  BY Request DEF IInv
<1>1. /\ request'[r].answer = request[r].answer
      /\ request'[r].job = request[r].job
      /\ \A s \in Requests \ {r} : request'[s] = request[s]
  BY <1>0, Going DEF MarkSubmitted, InHandler
<1>2. Promises' = Promises
  <2>1. \A s \in Requests : Promised(s)' = Promised(s)
    BY <1>1 DEF Promised
  <2>. QED BY <2>1 DEF Promises
<1>3. JobsOf' = JobsOf
  BY DEF JobsOf, JobOf, MarkSubmitted
<1>4. status[AttemptOf[r]] \in {"IN_PROGRESS", "SUBMITTED"}
  BY <1>0, NoJobYet DEF MarkSubmitted, TypeOK, AttemptStatus
<1>5. status' = [status EXCEPT ![AttemptOf[r]] = "SUBMITTED"] /\ DOMAIN status = Attempts
  BY <1>0 DEF MarkSubmitted, TypeOK
<1>6. CASE status[AttemptOf[r]] = "SUBMITTED"
  <2>1. status' = status
    BY <1>0, <1>5, <1>6 DEF TypeOK
  <2>. QED BY <1>2, <1>3, <2>1
<1>7. CASE status[AttemptOf[r]] = "IN_PROGRESS"
  BY <1>2, <1>3, <1>5, <1>7 DEF Ledger!Submit, JobsOf, Promises
<1>. QED BY <1>4, <1>6, <1>7

LEMMA QueueLedgerStep ==
  ASSUME IInv, NEW r \in Requests, EnqueueGradingJob(r) PROVE Ledger!Queue(r)
<1>0. TypeOK /\ request \in [Requests -> Locals] /\ AttemptOf[r] \in Attempts
  BY Request DEF IInv
<1>1. /\ request'[r].answer = request[r].answer
      /\ request'[r].job = request[r].job
      /\ \A s \in Requests \ {r} : request'[s] = request[s]
  BY <1>0, Going DEF EnqueueGradingJob, InHandler
<1>2. Promises' = Promises
  <2>1. \A s \in Requests : Promised(s)' = Promised(s)
    BY <1>1 DEF Promised
  <2>. QED BY <2>1 DEF Promises
<1>3. \A j \in jobs : AttemptOf[j] # AttemptOf[r]
  BY NoJobYet DEF EnqueueGradingJob
<1>4. status[AttemptOf[r]] = "SUBMITTED"
  <2>1. status[AttemptOf[r]] # "FINALIZED"
    BY NoJobYet DEF EnqueueGradingJob
  <2>2. status[AttemptOf[r]] # "IN_PROGRESS"
    BY DEF IInv, Fits, EnqueueGradingJob
  <2>. QED BY <1>0, <2>1, <2>2 DEF TypeOK, AttemptStatus
<1>5. JobsOf[AttemptOf[r]] = NoJob
  BY <1>0, <1>3 DEF JobsOf, JobOf
<1>6. jobs' = jobs \cup {r} /\ status' = status
  BY DEF EnqueueGradingJob
<1>7. JobsOf' = [JobsOf EXCEPT ![AttemptOf[r]] = r]
  <2>1. JobOf(AttemptOf[r])' = r
    <3>1. \A j \in jobs' : AttemptOf[j] = AttemptOf[r] <=> j = r
      BY <1>3, <1>6
    <3>2. (CHOOSE j \in jobs' : AttemptOf[j] = AttemptOf[r]) = r
      BY <1>6, <3>1
    <3>. QED BY <1>6, <3>2 DEF JobOf
  <2>2. ASSUME NEW a \in Attempts, a # AttemptOf[r] PROVE JobOf(a)' = JobOf(a)
    <3>1. \A j : (j \in jobs' /\ AttemptOf[j] = a) <=> (j \in jobs /\ AttemptOf[j] = a)
      BY <1>6, <2>2
    <3>2. (CHOOSE j \in jobs' : AttemptOf[j] = a) = (CHOOSE j \in jobs : AttemptOf[j] = a)
      BY <3>1
    <3>. QED BY <3>1, <3>2 DEF JobOf
  <2>. QED BY <2>1, <2>2 DEF JobsOf
<1>. QED BY <1>2, <1>4, <1>5, <1>6, <1>7 DEF Ledger!Queue, JobsOf, Promises

LEMMA FinalizeLedgerStep ==
  ASSUME IInv, NEW j \in Requests, GradeAttempt(j)
  PROVE  \/ Ledger!Finalize(AttemptOf[j])
         \/ UNCHANGED <<status, JobsOf, Promises>>
<1>0. TypeOK /\ AttemptOf[j] \in Attempts
  BY DEF IInv
<1>1. JobsOf' = JobsOf /\ Promises' = Promises
  BY DEF JobsOf, JobOf, Promises, Promised, GradeAttempt
<1>2. status' = [status EXCEPT ![AttemptOf[j]] = "FINALIZED"] /\ DOMAIN status = Attempts
  BY <1>0 DEF GradeAttempt, TypeOK
<1>3. JobsOf[AttemptOf[j]] # NoJob
  <2>1. j \in jobs /\ j # NoJob
    BY DEF GradeAttempt
  <2>2. JobOf(AttemptOf[j]) = j
    BY <2>1, JobOfJob
  <2>. QED BY <1>0, <2>1, <2>2 DEF JobsOf
<1>4. status[AttemptOf[j]] \in {"SUBMITTED", "FINALIZED"}
  BY <1>0 DEF GradeAttempt, TypeOK, AttemptStatus
<1>5. CASE status[AttemptOf[j]] = "FINALIZED"
  <2>1. status' = status
    BY <1>0, <1>2, <1>5 DEF TypeOK
  <2>. QED BY <1>1, <2>1
<1>6. CASE status[AttemptOf[j]] = "SUBMITTED"
  BY <1>1, <1>2, <1>3, <1>6 DEF Ledger!Finalize, JobsOf, Promises
<1>. QED BY <1>4, <1>5, <1>6

(* The remaining statements of the handler answer 202, or are not seen.    *)
LEMMA HandlerLedgerStep ==
  ASSUME KeysOneAttempt, IInv, IInv', NEW r \in Requests,
         \/ LoadAttempt(r) \/ RedisLookup(r) \/ KeyLookup(r) \/ CheckStatus(r)
         \/ LockAttempt(r) \/ InsertSubmission(r) \/ StoreKey(r) \/ Accept(r)
         \/ DeadlockRetry(r) \/ Fail(r)
  PROVE  Ledger!Acknowledge(r) \/ UNCHANGED <<status, JobsOf, Promises>>
<1>0. request \in [Requests -> Locals]
  BY Request DEF IInv
<1>1. UNCHANGED <<status, jobs>> /\ request[r].pc # "done"
  BY DEF LoadAttempt, RedisLookup, KeyLookup, CheckStatus, LockAttempt,
     InsertSubmission, StoreKey, Accept, DeadlockRetry, Fail, tables, InHandler
<1>2. \A s \in Requests \ {r} : request'[s] = request[s]
  <2>1. \/ \E pc \in InHandler : Goto(r, pc)
        \/ \E code \in Answers : \E job : Respond(r, code, job)
        \/ DeadlockRetry(r)
    <3>1. CASE LoadAttempt(r) \/ RedisLookup(r) \/ CheckStatus(r) \/ LockAttempt(r) \/ Fail(r)
      BY <3>1 DEF LoadAttempt, RedisLookup, CheckStatus, LockAttempt, Fail, InHandler, Answers
    <3>2. CASE KeyLookup(r) \/ InsertSubmission(r) \/ StoreKey(r) \/ Accept(r)
      BY <3>2 DEF KeyLookup, InsertSubmission, StoreKey, Accept, InHandler, Answers
    <3>. QED BY <3>1, <3>2
  <2>. QED BY <1>0, <2>1, Retrying DEF Goto, Respond
<1>3. request[r].answer # "202"
  BY <1>1 DEF IInv, Answered
<1>4. CASE request'[r].answer = "202"
  <2>1. Answered(r)'
    BY DEF IInv
  <2>. QED BY <1>1, <1>2, <1>4, <2>1, Acknowledged
<1>5. CASE request'[r].answer # "202"
  BY <1>1, <1>2, <1>3, <1>5, Unseen
<1>. QED BY <1>4, <1>5

LEMMA LedgerStep ==
  ASSUME SequenceUnique, KeysOneAttempt, IInv, [Next]_vars
  PROVE  [Ledger!Next]_<<status, JobsOf, Promises>>
<1>1. IInv'
  BY InvNext
<1>2. ASSUME NEW r \in Requests, MarkSubmitted(r) \/ GradeAttempt(r)
      PROVE  [Ledger!Next]_<<status, JobsOf, Promises>>
  <2>1. AttemptOf[r] \in Attempts
    OBVIOUS
  <2>. QED BY <1>2, <2>1, SubmitLedgerStep, FinalizeLedgerStep DEF Ledger!Next
<1>3. ASSUME NEW r \in Requests, EnqueueGradingJob(r)
      PROVE  Ledger!Next
  BY <1>3, QueueLedgerStep DEF Ledger!Next
<1>4. ASSUME NEW r \in Requests, Handle(r) \/ Fail(r), ~MarkSubmitted(r), ~EnqueueGradingJob(r)
      PROVE  [Ledger!Next]_<<status, JobsOf, Promises>>
  BY <1>1, <1>4, HandlerLedgerStep DEF Ledger!Next, Handle
<1>5. CASE UNCHANGED vars \/ \E a \in Attempts : LimitPasses(a)
  BY <1>5, Unseen DEF vars, tables, LimitPasses
<1>. QED BY <1>2, <1>3, <1>4, <1>5 DEF Next

LEMMA LedgerInit == Init => Ledger!Init
BY DEF Init, Ledger!Init, JobOf, Promised

(* The handler's interleaved statements, its caches, retries and failures  *)
(* amount to the indivisible steps of SubmissionLedger.                    *)
THEOREM Refinement ==
  ASSUME SequenceUnique, KeysOneAttempt PROVE Spec => ImplementsLedger
<1>1. IInv /\ [Next]_vars
        => [Ledger!Next]_<<status, [a \in Attempts |-> JobOf(a)],
                           [r \in Requests |-> Promised(r)]>>
  BY LedgerStep DEF JobsOf, Promises
<1>. QED BY <1>1, LedgerInit, Invariance, PTL DEF Spec, ImplementsLedger, Ledger!Spec
=============================================================================
