---------------------------- MODULE SubmitAttempt ----------------------------
(***************************************************************************)
(* POST .../attempts/:id/submit: the handler (routes/attempts/submit.ts),  *)
(* its idempotency check (idempotency-validator.ts), the lock around its   *)
(* writes (lock-retry-handler.ts) and the insert of the grading job        *)
(* (job-queue-service.ts).                                                 *)
(*                                                                         *)
(* tenantDb is a pool and no statement runs between BEGIN and COMMIT, so   *)
(* each is a transaction of its own: a step here.  SELECT ... FOR UPDATE   *)
(* NOWAIT releases its lock as soon as it has answered.                    *)
(***************************************************************************)
EXTENDS Naturals, FiniteSets

CONSTANTS Requests,       (* submit requests, retries included             *)
          Attempts,       (* exam attempts                                 *)
          Keys,           (* x-idempotency-key values of one workspace     *)
          AttemptOf,      (* the attempt a request submits                 *)
          KeyOf,          (* the key it carries, 'no-key' when it has none *)
          SequenceUnique, (* attempt_submissions: UNIQUE (attempt_id, submission_sequence) *)
          KeyUnique,      (* submission_idempotency_keys: UNIQUE (workspace_id, idempotency_key) *)
          RedisPresent,   (* the context carries a Redis client            *)
          NoJob,          (* no job id                                     *)
          MaxLockTries,   (* executeWithLockRetry's maxRetries, 3 in the handler *)
          MayFail         (* statements fail, replies get lost, the server dies *)

ASSUME SubmitAssumption ==
  /\ AttemptOf \in [Requests -> Attempts]
  /\ KeyOf \in [Requests -> Keys]
  /\ NoJob \notin Requests
  /\ MaxLockTries \in Nat \ {0}
  /\ {SequenceUnique, KeyUnique, RedisPresent, MayFail} \subseteq BOOLEAN

VARIABLES
  status,       (* attempts.status                                         *)
  submissions,  (* attempt_submissions: rows per attempt                   *)
  jobs,         (* grading_jobs; a job is named after the request that     *)
                (* inserted it                                             *)
  graded,       (* jobs the grading worker is done with                    *)
  keyRows,      (* submission_idempotency_keys                             *)
  cache,        (* Redis: idempotency key -> job                           *)
  overdue,      (* attempts whose time limit plus grace has passed         *)
  request       (* each request's position in the handler, and its answer  *)

tables == <<status, submissions, jobs, graded, keyRows, cache>>
vars == <<status, submissions, jobs, graded, keyRows, cache, overdue, request>>

AttemptStatus == {"IN_PROGRESS", "SUBMITTED", "FINALIZED"}
InHandler == {"loaded", "redis_missed", "fresh", "validated", "locked", "inserted",
              "marked", "enqueued", "stored"}
Answers == {"202", "400", "409", "500"}

(* Every submission gets sequence 1: a replay ends before the sequence is  *)
(* used, a fresh one has none, so (attempt_id, submission_sequence) is the *)
(* attempt.                                                                *)
KeyRow == [attempt : Attempts, key : Keys, job : Requests]

Goto(r, pc) ==
  request' = [request EXCEPT ![r].pc = pc]
Respond(r, code, job) ==
  request' = [request EXCEPT ![r].pc = "done", ![r].answer = code, ![r].job = job]

(* Redis is written when there is a client, and its failures are ignored.  *)
TellRedis(k, j) ==
  \/ RedisPresent /\ cache' = [cache EXCEPT ![k] = j]
  \/ (~RedisPresent \/ MayFail) /\ UNCHANGED cache

-----------------------------------------------------------------------------
(* The handler, statement by statement. *)

LoadAttempt(r) ==
  /\ request[r].pc = "unsent"
  /\ IF status[AttemptOf[r]] \in {"SUBMITTED", "FINALIZED"} \/ AttemptOf[r] \in overdue
     THEN Respond(r, "409", NoJob)
     ELSE Goto(r, "loaded")
  /\ UNCHANGED <<tables, overdue>>

(* Layer 1, skipped without a Redis client. *)
RedisLookup(r) ==
  /\ request[r].pc = "loaded"
  /\ IF cache[KeyOf[r]] # NoJob
     THEN Respond(r, "202", cache[KeyOf[r]])
     ELSE Goto(r, "redis_missed")
  /\ UNCHANGED <<tables, overdue>>

(* Layer 2: the row for the key, whichever attempt it was stored for; a    *)
(* hit refreshes Redis, and goes on when that fails.                       *)
KeyLookup(r) ==
  /\ request[r].pc = "redis_missed"
  /\ \/ /\ \A k \in keyRows : k.key # KeyOf[r]
        /\ Goto(r, "fresh")
        /\ UNCHANGED cache
     \/ \E k \in keyRows :
          /\ k.key = KeyOf[r]
          /\ Respond(r, "202", k.job)
          /\ TellRedis(k.key, k.job)
  /\ UNCHANGED <<status, submissions, jobs, graded, keyRows, overdue>>

(* Layer 3, and the validation of the answers, which may find fault. *)
CheckStatus(r) ==
  /\ request[r].pc = "fresh"
  /\ IF status[AttemptOf[r]] = "FINALIZED"
     THEN Respond(r, "409", NoJob)
     ELSE Goto(r, "validated") \/ Respond(r, "400", NoJob)
  /\ UNCHANGED <<tables, overdue>>

(* SELECT ... FOR UPDATE NOWAIT and the second look at the status. *)
LockAttempt(r) ==
  /\ request[r].pc = "validated"
  /\ IF status[AttemptOf[r]] \in {"SUBMITTED", "FINALIZED"}
     THEN Respond(r, "409", NoJob)
     ELSE Goto(r, "locked")
  /\ UNCHANGED <<tables, overdue>>

(* The next free sequence number instead of the one that collides. *)
MutInsertNextSequence(r) ==
  /\ request[r].pc = "locked"
  /\ submissions' = [submissions EXCEPT ![AttemptOf[r]] = @ + 1]
  /\ Goto(r, "inserted")
  /\ UNCHANGED <<status, jobs, graded, keyRows, cache, overdue>>

(* INSERT INTO attempt_submissions. *)
InsertSubmission(r) ==
  /\ request[r].pc = "locked"
  /\ IF SequenceUnique /\ submissions[AttemptOf[r]] > 0
     THEN /\ Respond(r, "500", NoJob)
          /\ UNCHANGED submissions
     ELSE /\ submissions' = [submissions EXCEPT ![AttemptOf[r]] = @ + 1]
          /\ Goto(r, "inserted")
  /\ UNCHANGED <<status, jobs, graded, keyRows, cache, overdue>>

(* The status written last, after the job and the key. *)
MutMarkLater(r) ==
  /\ request[r].pc = "inserted"
  /\ Goto(r, "marked")
  /\ UNCHANGED <<tables, overdue>>

(* UPDATE attempts SET status = 'SUBMITTED', whatever the status was. *)
MarkSubmitted(r) ==
  /\ request[r].pc = "inserted"
  /\ status' = [status EXCEPT ![AttemptOf[r]] = "SUBMITTED"]
  /\ Goto(r, "marked")
  /\ UNCHANGED <<submissions, jobs, graded, keyRows, cache, overdue>>

(* An insert whose failure is logged and forgotten, like the Redis push's. *)
MutEnqueueBestEffort(r) ==
  /\ request[r].pc = "marked"
  /\ jobs' = jobs \cup {r} \/ UNCHANGED jobs
  /\ Goto(r, "enqueued")
  /\ UNCHANGED <<status, submissions, graded, keyRows, cache, overdue>>

(* Redis told of the job before the key is stored. *)
MutCacheEarly(r) ==
  /\ request[r].pc = "marked"
  /\ jobs' = jobs \cup {r}
  /\ TellRedis(KeyOf[r], r)
  /\ Goto(r, "enqueued")
  /\ UNCHANGED <<status, submissions, graded, keyRows, overdue>>

(* INSERT INTO grading_jobs; the push to Redis is best effort and nobody   *)
(* reads it.                                                               *)
EnqueueGradingJob(r) ==
  /\ request[r].pc = "marked"
  /\ jobs' = jobs \cup {r}
  /\ Goto(r, "enqueued")
  /\ UNCHANGED <<status, submissions, graded, keyRows, cache, overdue>>

RowOf(a) == {k \in keyRows : k.attempt = a}

(* INSERT ... ON CONFLICT (attempt_id, submission_sequence) DO UPDATE the  *)
(* response: the row keeps the key it was inserted with.  A collision on   *)
(* the key alone is an error, after the job has been queued.               *)
StoreKey(r) ==
  LET a == AttemptOf[r]
  IN /\ request[r].pc = "enqueued"
     /\ CASE RowOf(a) # {} ->
               /\ keyRows' = {[k EXCEPT !.job = IF k.attempt = a THEN r ELSE @] : k \in keyRows}
               /\ Goto(r, "stored")
          [] RowOf(a) = {} /\ KeyUnique /\ (\E k \in keyRows : k.key = KeyOf[r]) ->
               /\ Respond(r, "500", NoJob)
               /\ UNCHANGED keyRows
          [] OTHER ->
               /\ keyRows' = keyRows \cup {[attempt |-> a, key |-> KeyOf[r], job |-> r]}
               /\ Goto(r, "stored")
     /\ UNCHANGED <<status, submissions, jobs, graded, cache, overdue>>

(* Redis is told, and the client gets its 202. *)
Accept(r) ==
  /\ request[r].pc = "stored"
  /\ TellRedis(KeyOf[r], r)
  /\ Respond(r, "202", r)
  /\ UNCHANGED <<status, submissions, jobs, graded, keyRows, overdue>>

(* Inside the operation a statement ends with PostgreSQL's 40P01: the whole *)
(* operation starts over, from the lock, or is given up.                   *)
DeadlockRetry(r) ==
  /\ MayFail
  /\ request[r].pc \in {"locked", "inserted", "marked", "enqueued"}
  /\ IF request[r].tries + 1 < MaxLockTries
     THEN request' = [request EXCEPT ![r].pc = "validated", ![r].tries = @ + 1]
     ELSE Respond(r, "409", NoJob)
  /\ UNCHANGED <<tables, overdue>>

(* A statement fails, the lock is not free, the server dies: the client    *)
(* sees an error.  When the statement did commit and only its reply was    *)
(* lost, this is the step after it.                                        *)
Fail(r) ==
  /\ MayFail
  /\ request[r].pc \in InHandler
  /\ Respond(r, "500", NoJob)
  /\ UNCHANGED <<tables, overdue>>

-----------------------------------------------------------------------------
(* The rest of the world. *)

(* The grading worker (module GradingQueue) finalises a SUBMITTED attempt  *)
(* and skips one that is FINALIZED already.                                *)
GradeAttempt(j) ==
  /\ j \in jobs \ graded
  /\ status[AttemptOf[j]] # "IN_PROGRESS"
  /\ graded' = graded \cup {j}
  /\ status' = [status EXCEPT ![AttemptOf[j]] = "FINALIZED"]
  /\ UNCHANGED <<submissions, jobs, keyRows, cache, overdue, request>>

LimitPasses(a) ==
  /\ a \notin overdue
  /\ overdue' = overdue \cup {a}
  /\ UNCHANGED <<tables, request>>

Init ==
  /\ status = [a \in Attempts |-> "IN_PROGRESS"]
  /\ submissions = [a \in Attempts |-> 0]
  /\ jobs = {}
  /\ graded = {}
  /\ keyRows = {}
  /\ cache = [k \in Keys |-> NoJob]
  /\ overdue = {}
  /\ request = [r \in Requests |-> 
                 [pc |-> "unsent", answer |-> "none", job |-> NoJob, tries |-> 0]]

Handle(r) ==
  \/ LoadAttempt(r) \/ RedisLookup(r) \/ KeyLookup(r) \/ CheckStatus(r) \/ LockAttempt(r)
  \/ InsertSubmission(r) \/ MarkSubmitted(r) \/ EnqueueGradingJob(r) \/ StoreKey(r)
  \/ Accept(r) \/ DeadlockRetry(r)

Next ==
  \/ \E r \in Requests : Handle(r) \/ Fail(r) \/ GradeAttempt(r)
  \/ \E a \in Attempts : LimitPasses(a)

Spec == Init /\ [][Next]_vars

(* The grading worker gets to every job (EveryJobSettles of GradingQueue); *)
(* nothing obliges a client to send a request, or a server to finish one.  *)
FairSpec == Spec /\ \A r \in Requests : WF_vars(GradeAttempt(r))

-----------------------------------------------------------------------------
(* Properties. *)

(* Every variable has the shape of its table, constraints included, or of  *)
(* the handler's locals.                                                   *)
TypeOK ==
  /\ status \in [Attempts -> AttemptStatus]
  /\ submissions \in [Attempts -> IF SequenceUnique THEN 0..1 ELSE Nat]
  /\ jobs \subseteq Requests
  /\ graded \subseteq jobs
  /\ keyRows \subseteq KeyRow
  /\ cache \in [Keys -> Requests \cup {NoJob}]
  /\ overdue \subseteq Attempts
  /\ request \in [Requests -> [pc : InHandler \cup {"unsent", "done"},
                               answer : Answers \cup {"none"},
                               job : Requests \cup {NoJob},
                               tries : 0..MaxLockTries - 1]]

(* However many copies of a submission are under way, and whichever keys   *)
(* they carry, an attempt gets one grading job: with no lock to speak of,  *)
(* only the UNIQUE constraint stands between two of them.                  *)
OneJobPerAttempt ==
  \A r, s \in jobs : AttemptOf[r] = AttemptOf[s] => r = s

(* A FINALIZED attempt is never put back to SUBMITTED, and so never graded *)
(* twice, although the UPDATE does not look at the status it overwrites.   *)
FinalizedStays ==
  [][\A a \in Attempts : status[a] = "FINALIZED" => status'[a] = "FINALIZED"]_vars

(* A 202 tells the truth: its job exists, grades the attempt that was      *)
(* submitted, and the attempt has left IN_PROGRESS.                        *)
HonestAcceptance ==
  \A r \in Requests :
    request[r].answer = "202" => /\ request[r].job \in jobs
                                 /\ AttemptOf[request[r].job] = AttemptOf[r]
                                 /\ status[AttemptOf[r]] # "IN_PROGRESS"

(* What an attempt's key row and the Redis entry replay is the attempt's   *)
(* one job, under the key that job was submitted with.                     *)
ReplayNamesTheJob ==
  /\ \A k \in keyRows : k.job \in jobs /\ AttemptOf[k.job] = k.attempt /\ KeyOf[k.job] = k.key
  /\ \A k \in Keys : cache[k] # NoJob => \E row \in keyRows : row.key = k /\ row.job = cache[k]

(* An attempt's job, and the job the client of a request was told of.      *)
JobOf(a) ==
  IF \E j \in jobs : AttemptOf[j] = a THEN CHOOSE j \in jobs : AttemptOf[j] = a ELSE NoJob
Promised(r) == IF request[r].answer = "202" THEN request[r].job ELSE NoJob

Ledger == INSTANCE SubmissionLedger
  WITH jobOf <- [a \in Attempts |-> JobOf(a)], promised <- [r \in Requests |-> Promised(r)]

(* The handler, whose statements interleave with those of its copies and   *)
(* with the worker, implements the ledger of indivisible steps: an attempt *)
(* is submitted, queued and finalised once, and every 202 names its job.   *)
ImplementsLedger == Ledger!Spec

(* A student who got a 202 gets a grade. *)
AcceptedIsGraded ==
  \A r \in Requests :
    request[r].answer = "202" ~> status[AttemptOf[r]] = "FINALIZED"

(* submit.ts:275, "This ensures atomic update + job enqueue within lock    *)
(* scope": once no request is working on it, a SUBMITTED attempt has a job.*)
SubmittedHasJob ==
  \A a \in Attempts :
    /\ status[a] = "SUBMITTED"
    /\ \A r \in Requests : AttemptOf[r] = a => request[r].pc \notin InHandler
    => \E j \in jobs : AttemptOf[j] = a
=============================================================================
