------------------------ MODULE LicenseProvisioning ------------------------
(***************************************************************************)
(* The life of one workspace licence as the back office drives it          *)
(* (packages/domain-core/src/licenses/service.ts and repository.ts) while  *)
(* its provisioning jobs run in the worker                                 *)
(* (apps/worker/src/jobs/provisioning.handler.ts).                         *)
(*                                                                         *)
(* An administrator's call is one READ COMMITTED transaction: it reads the *)
(* row without locking it, reads it again inside the repository, writes it *)
(* by its id alone, and commits.  The row is locked from the UPDATE to the *)
(* COMMIT, so `writer' is the call that holds it and `draft' the version   *)
(* nobody else sees.  The job goes to the queue before the COMMIT.  The    *)
(* handler's statements commit one by one, and wait for the row lock.      *)
(*                                                                         *)
(* The queue (Bull, or one like it) is not part of the repository: it      *)
(* hands a job out again after a failed attempt, after its timeout while   *)
(* the handler that overran it still works, and after a stall.             *)
(***************************************************************************)
EXTENDS Naturals, FiniteSets

CONSTANTS
  Actors,       \* administrators' calls in flight
  Workers,      \* handlers that can run at a time
  Jobs,         \* the jobs the queue can be given
  Nobody,       \* no actor, no worker
  Attempts,     \* attempts of a job: 6 in queue.service.ts
  MaxRetries,   \* PROVISIONING_MAX_RETRIES: 5 in constants.ts
  MaxStalls     \* times a stalled job is handed out again

ASSUME ProvisioningAssumption ==
  /\ Nobody \notin Actors \cup Workers
  /\ Attempts \in Nat \ {0}
  /\ MaxRetries \in Nat
  /\ MaxStalls \in Nat

VARIABLES
  license,      \* the committed row
  draft,        \* the row as the open transaction has written it
  writer,       \* the call that holds the row lock
  registry,     \* whether tenants_registry has the workspace's row
  job,          \* the queue's jobs
  api,          \* where each administrator's call is
  worker,       \* where each handler is
  forsaken      \* history: some job or creation ended and left no mark

vars == <<license, draft, writer, registry, job, api, worker, forsaken>>

-----------------------------------------------------------------------------

Statuses == {"PENDING_PROVISION", "ACTIVE", "SOFT_LOCKED", "PROVISION_FAILED",
             "ARCHIVED", "DELETED"}

\* The statuses a licence can only have after its workspace was built.
Provisioned == {"ACTIVE", "SOFT_LOCKED", "ARCHIVED", "DELETED"}

AllowedStateTransitions ==
  [s \in Statuses |->
    CASE s = "PENDING_PROVISION" -> {"ACTIVE", "PROVISION_FAILED"}
      [] s = "ACTIVE"            -> {"SOFT_LOCKED", "DELETED"}
      [] s = "SOFT_LOCKED"       -> {"ACTIVE", "ARCHIVED"}
      [] s = "PROVISION_FAILED"  -> {"PENDING_PROVISION"}
      [] s = "ARCHIVED"          -> {"ACTIVE", "DELETED"}
      [] s = "DELETED"           -> {}]

\* A row of the table licenses; the status NONE stands for no row.
Row == [status : Statuses \cup {"NONE"}, deleted : BOOLEAN, retries : Nat]
NoRow == [status |-> "NONE", deleted |-> FALSE, retries |-> 0]
NewRow == [NoRow EXCEPT !.status = "PENDING_PROVISION"]

Operations == {"create", "edit", "softLock", "unlock", "archive", "restore",
               "delete", "retry"}

\* The statuses an operation accepts, at each of its reads.
From(op) ==
  CASE op = "create"              -> {}
    [] op = "edit"                -> Statuses
    [] op = "softLock"            ->
         {s \in Statuses : "SOFT_LOCKED" \in AllowedStateTransitions[s]}
    [] op \in {"unlock", "archive"}  -> {"SOFT_LOCKED"}
    [] op \in {"restore", "delete"}  -> {"ARCHIVED"}
    [] op = "retry"               -> {"PROVISION_FAILED"}

\* What its UPDATE makes of the row it finds; `read' is the retry count that
\* the call read before.
Updated(op, row, read) ==
  CASE op = "edit"                  -> row
    [] op = "softLock"              -> [row EXCEPT !.status = "SOFT_LOCKED"]
    [] op \in {"unlock", "restore"} -> [row EXCEPT !.status = "ACTIVE"]
    [] op = "archive"               -> [row EXCEPT !.status = "ARCHIVED"]
    [] op = "delete"                ->
         [row EXCEPT !.status = "DELETED", !.deleted = TRUE]
    [] op = "retry"                 ->
         [row EXCEPT !.status = "PENDING_PROVISION", !.retries = read + 1]

\* getById: the committed row, unless it is marked deleted.
Visible == license.status # "NONE" /\ ~license.deleted

Call(pc, op, read, queued) ==
  [pc |-> pc, op |-> op, read |-> read, queued |-> queued]
Resting == Call("idle", "edit", 0, FALSE)
Off == [pc |-> "idle", job |-> Nobody, made |-> 0]

Init ==
  /\ license = NoRow
  /\ draft = NoRow
  /\ writer = Nobody
  /\ registry = FALSE
  /\ job = [j \in Jobs |->
              [state |-> "none", made |-> 0, stalls |-> 0, by |-> Nobody]]
  /\ api = [a \in Actors |-> Resting]
  /\ worker = [w \in Workers |-> Off]
  /\ forsaken = FALSE

-----------------------------------------------------------------------------
(* The administrator's calls. *)

\* create() looks for a visible licence with the slug and goes on if none is.
StartCreate(a) ==
  /\ api[a].pc = "idle"
  /\ ~Visible
  /\ api' = [api EXCEPT ![a] = Call("insert", "create", 0, FALSE)]
  /\ UNCHANGED <<license, draft, writer, registry, job, worker, forsaken>>

\* A slip: the retry limit is not checked.
MutStartOperation(a, op) ==
  /\ op # "create"
  /\ api[a].pc = "idle"
  /\ Visible
  /\ license.status \in From(op)
  /\ api' = [api EXCEPT ![a] =
               Call(IF op \in {"edit", "retry"} THEN "update" ELSE "recheck",
                    op, license.retries, FALSE)]
  /\ UNCHANGED <<license, draft, writer, registry, job, worker, forsaken>>

\* The other operations begin with getById and the check of the status; edit
\* and retry go to the UPDATE at once, the rest to the repository's own read.
\* Retry is also refused from MaxRetries on.  (Its refusal by the backoff is a
\* call that does nothing.)
StartOperation(a, op) ==
  /\ op # "create"
  /\ api[a].pc = "idle"
  /\ Visible
  /\ license.status \in From(op)
  /\ op = "retry" => license.retries < MaxRetries
  /\ api' = [api EXCEPT ![a] =
               Call(IF op \in {"edit", "retry"} THEN "update" ELSE "recheck",
                    op, license.retries, FALSE)]
  /\ UNCHANGED <<license, draft, writer, registry, job, worker, forsaken>>

\* The repository reads the row again and repeats the check.
Recheck(a) ==
  /\ api[a].pc = "recheck"
  /\ api' = [api EXCEPT ![a] =
               IF Visible /\ license.status \in From(@.op)
               THEN [@ EXCEPT !.pc = "update"]
               ELSE Resting]
  /\ UNCHANGED <<license, draft, writer, registry, job, worker, forsaken>>

\* UPDATE licenses ... WHERE id = $n: waits for the row lock and then writes
\* whatever row it finds.
UpdateRow(a) ==
  /\ api[a].pc = "update"
  /\ writer = Nobody
  /\ writer' = a
  /\ draft' = Updated(api[a].op, license, api[a].read)
  /\ api' = [api EXCEPT ![a].pc =
               IF api[a].op = "retry" THEN "enqueue" ELSE "commit"]
  /\ UNCHANGED <<license, registry, job, worker, forsaken>>

\* INSERT INTO licenses: waits for another uncommitted row with the slug; the
\* unique constraint also counts the rows marked deleted.
InsertRow(a) ==
  /\ api[a].pc = "insert"
  /\ writer = Nobody
  /\ IF license.status = "NONE"
     THEN /\ writer' = a
          /\ draft' = NewRow
          /\ api' = [api EXCEPT ![a].pc = "enqueue"]
     ELSE /\ api' = [api EXCEPT ![a] = Resting]
          /\ UNCHANGED <<writer, draft>>
  /\ UNCHANGED <<license, registry, job, worker, forsaken>>

\* enqueueProvisioningJob, inside the transaction.
Enqueue(a) ==
  /\ api[a].pc = "enqueue"
  /\ \E j \in Jobs :
       /\ job[j].state = "none"
       /\ job' = [job EXCEPT ![j].state = "waiting"]
  /\ api' = [api EXCEPT ![a].pc = "commit", ![a].queued = TRUE]
  /\ UNCHANGED <<license, draft, writer, registry, worker, forsaken>>

\* A slip: both operations only log that the queue is unavailable.
MutEnqueueFails(a) ==
  /\ api[a].pc = "enqueue"
  /\ api' = [api EXCEPT ![a].pc = "commit"]
  /\ UNCHANGED <<license, draft, writer, registry, job, worker, forsaken>>

\* The queue is unavailable: create() only logs it, retryProvisioning() throws
\* and is rolled back.
EnqueueFails(a) ==
  /\ api[a].pc = "enqueue"
  /\ IF api[a].op = "create"
     THEN /\ api' = [api EXCEPT ![a].pc = "commit"]
          /\ UNCHANGED <<draft, writer>>
     ELSE /\ api' = [api EXCEPT ![a] = Resting]
          /\ draft' = NoRow
          /\ writer' = Nobody
  /\ UNCHANGED <<license, registry, job, worker, forsaken>>

Commit(a) ==
  /\ api[a].pc = "commit"
  /\ license' = draft
  /\ draft' = NoRow
  /\ writer' = Nobody
  /\ api' = [api EXCEPT ![a] = Resting]
  /\ forsaken' = (forsaken \/ (api[a].op = "create" /\ ~api[a].queued))
  /\ UNCHANGED <<registry, job, worker>>

\* A statement fails or the process dies: the transaction is rolled back.  A
\* job that went to the queue stays there.
Abort(a) ==
  /\ api[a].pc # "idle"
  /\ api' = [api EXCEPT ![a] = Resting]
  /\ IF writer = a
     THEN draft' = NoRow /\ writer' = Nobody
     ELSE UNCHANGED <<draft, writer>>
  /\ UNCHANGED <<license, registry, job, worker, forsaken>>

-----------------------------------------------------------------------------
(* The queue and the handler. *)

Unfinished == {j \in Jobs : job[j].state \in {"waiting", "active"}}

\* The job after a failed or overrun attempt.
NextAttempt(j) ==
  [job[j] EXCEPT !.state = IF job[j].made + 1 < Attempts THEN "waiting" ELSE "failed",
                 !.made = @ + 1,
                 !.by = Nobody]

\* The queue hands a waiting job to an idle handler.  The existence check
\* returns false whatever the database holds, and the migrations, the seeding
\* and the account are placeholders that only log.
Take(w, j) ==
  /\ worker[w].pc = "idle"
  /\ job[j].state = "waiting"
  /\ job' = [job EXCEPT ![j].state = "active", ![j].by = w]
  /\ worker' = [worker EXCEPT ![w] =
                  [pc |-> "insert", job |-> j, made |-> job[j].made]]
  /\ UNCHANGED <<license, draft, writer, registry, api, forsaken>>

\* INSERT INTO tenants_registry: needs the committed licence (foreign key) and
\* no earlier row (unique constraint).
InsertRegistry(w) ==
  /\ worker[w].pc = "insert"
  /\ license.status # "NONE"
  /\ ~registry
  /\ registry' = TRUE
  /\ worker' = [worker EXCEPT ![w].pc = "activate"]
  /\ UNCHANGED <<license, draft, writer, job, api, forsaken>>

\* A statement of the try block throws: the INSERT for its constraints, or
\* either for the connection, after the INSERT took effect or before.
StatementFails(w) ==
  /\ worker[w].pc \in {"insert", "activate"}
  /\ worker' = [worker EXCEPT ![w].pc = "record"]
  /\ registry' \in {registry,
                    registry \/ (worker[w].pc = "insert" /\ license.status # "NONE")}
  /\ UNCHANGED <<license, draft, writer, job, api, forsaken>>

\* A slip: the licence is activated before the registry row is inserted.
MutSetActive(w) ==
  /\ worker[w].pc \in {"insert", "activate"}
  /\ license.status # "NONE"
  /\ writer = Nobody
  /\ license' = [license EXCEPT !.status = "ACTIVE"]
  /\ worker' = [worker EXCEPT ![w] = Off]
  /\ UNCHANGED <<draft, writer, registry, job, api, forsaken>>

\* UPDATE licenses SET status = ACTIVE WHERE id = $2, and the job is complete.
SetActive(w) ==
  /\ worker[w].pc = "activate"
  /\ writer = Nobody
  /\ license' = [license EXCEPT !.status = "ACTIVE"]
  /\ worker' = [worker EXCEPT ![w] = Off]
  /\ LET j == worker[w].job
     IN job' = IF job[j].by = w
               THEN [job EXCEPT ![j].state = "done", ![j].by = Nobody]
               ELSE job
  /\ UNCHANGED <<draft, writer, registry, api, forsaken>>

\* The attempt ends in an error: the queue counts it, unless it had already
\* given the job up or away.
AttemptFails(w) ==
  LET j == worker[w].job
  IN job' = IF job[j].by = w THEN [job EXCEPT ![j] = NextAttempt(j)] ELSE job

\* A slip: the status is left alone, as if the queue's last failure set it.
MutRecordFailure(w) ==
  /\ worker[w].pc = "record"
  /\ license.status # "NONE"
  /\ writer = Nobody
  /\ license' = [license EXCEPT !.retries = worker[w].made + 1]
  /\ worker' = [worker EXCEPT ![w] = Off]
  /\ AttemptFails(w)
  /\ UNCHANGED <<draft, writer, registry, api, forsaken>>

\* A slip: the failure is saved as a whole new row.
MutSaveFailure(w) ==
  /\ worker[w].pc = "record"
  /\ license.status # "NONE"
  /\ writer = Nobody
  /\ license' = [NoRow EXCEPT !.status = "PROVISION_FAILED", !.retries = worker[w].made + 1]
  /\ worker' = [worker EXCEPT ![w] = Off]
  /\ AttemptFails(w)
  /\ UNCHANGED <<draft, writer, registry, api, forsaken>>

\* UPDATE licenses SET status = PROVISION_FAILED, provisioning_retries =
\* attempt + 1 WHERE id = $4, and the error is thrown again.
RecordFailure(w) ==
  /\ worker[w].pc = "record"
  /\ license.status # "NONE"
  /\ writer = Nobody
  /\ license' = [license EXCEPT !.status = "PROVISION_FAILED",
                                !.retries = worker[w].made + 1]
  /\ worker' = [worker EXCEPT ![w] = Off]
  /\ AttemptFails(w)
  /\ UNCHANGED <<draft, writer, registry, api, forsaken>>

\* That UPDATE throws, or finds no committed row to write.
FailureUnrecorded(w) ==
  /\ worker[w].pc = "record"
  /\ worker' = [worker EXCEPT ![w] = Off]
  /\ AttemptFails(w)
  /\ forsaken' = (forsaken \/ job'[worker[w].job].state = "failed")
  /\ UNCHANGED <<license, draft, writer, registry, api>>

\* The job overruns its timeout: the queue fails the attempt, the handler does
\* not learn of it and goes on.
Timeout(j) ==
  /\ job[j].state = "active"
  /\ job' = [job EXCEPT ![j] = NextAttempt(j)]
  /\ UNCHANGED <<license, draft, writer, registry, api, worker, forsaken>>

\* The worker process dies.  The queue notices the stalled job and hands it
\* out again, at most MaxStalls times.
Crash(w) ==
  /\ worker[w].pc # "idle"
  /\ worker' = [worker EXCEPT ![w] = Off]
  /\ LET j == worker[w].job
     IN /\ job' = IF job[j].by = w
                  THEN [job EXCEPT ![j].state =
                          IF job[j].stalls < MaxStalls THEN "waiting" ELSE "failed",
                          ![j].stalls = IF @ < MaxStalls THEN @ + 1 ELSE @,
                          ![j].by = Nobody]
                  ELSE job
        /\ forsaken' = (forsaken \/ job'[j].state = "failed")
  /\ UNCHANGED <<license, draft, writer, registry, api>>

-----------------------------------------------------------------------------

\* A call that has begun.
Proceed(a) ==
  Recheck(a) \/ UpdateRow(a) \/ InsertRow(a) \/ Enqueue(a) \/ EnqueueFails(a)
    \/ Commit(a)

Work(w) ==
  \/ \E j \in Jobs : Take(w, j)
  \/ InsertRegistry(w) \/ StatementFails(w) \/ SetActive(w)
  \/ RecordFailure(w) \/ FailureUnrecorded(w)

Next ==
  \/ \E a \in Actors : StartCreate(a) \/ Proceed(a) \/ Abort(a)
  \/ \E a \in Actors, op \in Operations : StartOperation(a, op)
  \/ \E w \in Workers : Work(w) \/ Crash(w)
  \/ \E j \in Jobs : Timeout(j)

Spec == Init /\ [][Next]_vars

(***************************************************************************)
(* A call that has begun goes on or is rolled back when its connection     *)
(* drops; a handler that has a job goes on, and the database serves the    *)
(* waiters of a row lock in their order, which the strong fairness says.   *)
(***************************************************************************)
FairSpec ==
  /\ Spec
  /\ \A a \in Actors : SF_vars(Proceed(a) \/ Abort(a))
  /\ \A w \in Workers : SF_vars(Work(w))

-----------------------------------------------------------------------------

JobRecord == [state : {"none", "waiting", "active", "done", "failed"},
              made : 0..Attempts, stalls : 0..MaxStalls,
              by : Workers \cup {Nobody}]
CallRecord ==
  [pc : {"idle", "recheck", "insert", "update", "enqueue", "commit"},
   op : Operations, read : Nat, queued : BOOLEAN]
HandlerRecord == [pc : {"idle", "insert", "activate", "record"},
                  job : Jobs \cup {Nobody}, made : 0..(Attempts - 1)]

\* Type correctness, with the retry count within the limits that the service
\* (PROVISIONING_MAX_RETRIES) and the queue (attempts) set, whoever wrote it.
TypeOK ==
  /\ license \in Row
  /\ draft \in Row
  /\ \A row \in {license, draft} : row.retries <= Attempts \/ row.retries <= MaxRetries
  /\ writer \in Actors \cup {Nobody}
  /\ registry \in BOOLEAN
  /\ job \in [Jobs -> JobRecord]
  /\ api \in [Actors -> CallRecord]
  /\ worker \in [Workers -> HandlerRecord]
  /\ forsaken \in BOOLEAN

\* A licence that is or ever was in service has its workspace in
\* tenants_registry: no interleaving of administrators, retries, overrun
\* handlers and crashes activates a licence whose registry row is missing.
ActiveIsProvisioned ==
  \A row \in {license, draft} : row.status \in Provisioned => registry

\* A licence that waits for its provisioning has a job that will settle it, or
\* a handler still at work on one, unless a creation could not reach the queue
\* or a job ended with no mark on the row (`forsaken').
PendingHasJob ==
  license.status = "PENDING_PROVISION" /\ ~forsaken =>
    \/ Unfinished # {}
    \/ \E w \in Workers : worker[w].pc # "idle"

\* Such a licence does get out of PENDING_PROVISION: to ACTIVE, or to
\* PROVISION_FAILED where an administrator can see it.
Settles ==
  (license.status = "PENDING_PROVISION" /\ ~forsaken)
    ~> (license.status # "PENDING_PROVISION" \/ forsaken)

\* What was marked deleted stays so, and invisible to every call: no draft that
\* was begun before the deletion, and no overrun handler, takes the mark off,
\* even when it overwrites the status.
DeletionStays ==
  [][license.deleted => license'.deleted]_vars

\* repository.ts calls DELETED a terminal state.  A restore that checked the
\* row before the deletion committed, or a handler that overran, revives it.
DeletedIsTerminal ==
  [][license.status = "DELETED" => license'.status = "DELETED"]_vars

=============================================================================
