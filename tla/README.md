# TLA+ models of the Zidney platform

Zidney is a multi-tenant learning and examination platform: a Hono API
(`apps/api`), a background worker (`apps/worker`), three web front ends, and
shared domain packages (`packages/*`). Tenants ("workspaces") have a PostgreSQL
database each; a master database holds licences, jobs and routing; Redis holds
caches, locks and queues.

Three parts of it are modelled, each because its correctness is hard to see by
reading or testing:

* what happens to an exam attempt from the moment a student presses *submit*
  until it has a grade: several API servers, several workers, statements that
  commit one by one, retries, replays, crashes and deployments;
* the licence of a workspace: the back office, the snapshot job, the worker that
  provisions it, and the middlewares and cache through which every request is
  admitted;
* billing: payments, subscriptions and the plan of a student, with the row locks
  and isolation levels the transactions ask for.

## 1. Inventory

| Component | State | Operations | What makes it hard | What makes it correct |
|---|---|---|---|---|
| Attempt submission (`api/src/routes/attempts/submit.ts`, `idempotency-validator.ts`, `lock-retry-handler.ts`, `job-queue-service.ts`) | `attempts.status`, `attempt_submissions`, `submission_idempotency_keys`, Redis `idempotency:*`, `grading_jobs` | one request: load, status check, three idempotency layers, lock, insert, update, enqueue, store key, answer | no transaction around the locked operation; retries, second tabs, lost replies | one job per attempt, truthful answers, no reopened attempt, a grade for whoever got a 202 |
| Grading consumer (`worker/src/grading/job-consumer.ts`) | `grading_jobs` rows, `consumerState` | claim, load, grade, finalise, complete, catch | several processes, replies lost after a commit, stop and crash between statements | one owner per job, one grade per attempt, honest results |
| Result persister (`result-persister.ts`) | `attempts` | guarded UPDATE in a transaction | COMMIT whose reply is lost | a grade is never replaced |
| Retry and dead letters (`retry-strategy.ts`) | `retry_count`, `available_at`, `failed_grading_jobs` | requeue, move to DLQ | counter read and written in different statements; two tables | bounded retries, exactly one dead letter |
| Grader, score engine (`grader.ts`, `score-engine.ts`) | none (pure, except for the clock) | score an attempt from its snapshots | depends on the time of grading | a function of the attempt |
| Worker process (`worker-startup.ts`) | pool map, running flags | start, dispatch every 30 s, SIGTERM | stop races with the loop | no job left behind by a stop |
| Result polling (`routes/attempts/result.ts`) | none | read the latest job of an attempt | reads a state the queue may never be in | answers what the attempt holds |
| Licence life cycle (`domain-core/src/license/service.ts`, `routes/license-router.ts`, `routes/licenses-lifecycle.ts`) | the licence row, its audit rows, the master pool | create, transition, soft-lock, activate, archive, restore, delete | row locks in SERIALIZABLE transactions, failures at each statement, connections | only legal transitions, each truthfully audited, no leaked connection |
| Licence admission (`license/resolver.ts`, `license.middleware.ts`, `license-enforcement.ts`) | Redis `license:*` for 5 minutes | look up, cache, admit, auto-archive | decides on a row read earlier or cached | nobody is served long after the licence stopped; grace is kept, then ends |
| Snapshot job (`worker/src/jobs/archive-snapshot.ts`) | `archive_snapshots` | select, dump, record | the licence and its data change meanwhile | the transitions above hold beside it |
| Licence provisioning (`domain-core/src/licenses`, `worker/src/jobs/provisioning.handler.ts`) | the licence row, `tenants_registry`, queue | create, edit, soft-lock, unlock, archive, restore, delete, retry; the handler | check and UPDATE apart, job before COMMIT, timeouts, stalls, crashes between two statements | what is in service is provisioned; what waits has a job |
| Billing (`domain-core/src/billing`) | `invoices`, `billing_audit_logs` | create, gateway payment, manual verification, proof upload, cancel | webhooks delivered twice, two ways to pay, number by COUNT(*) | paid once, a log that tells the status, dense numbers |
| Subscriptions (`domain-core/src/subscriptions`, `students`) | `subscriptions`, `students.subscription_status` | activate, cancel, overwrite by staff | a copy of the status, several writers, lock orders | one active subscription, mirrored by the student's row, no deadlock |
| Plans (`domain-core/src/plans`) | `plans` | activate, deactivate, delete | races with payments | no payment on an inactive plan |
| Promo codes, scheduled exams, attempt creation, workspace orchestrator, migration jobs, middleware, workflow engine, catalogue, web sockets | | | | see *Not modelled* |

### How the parts interact

    browser --submit--> API handler --INSERT--> grading_jobs <--UPDATE..SKIP LOCKED-- consumer loop
                          |   ^                     ^                                     |
             attempts.status  | Redis/key table     | PENDING again, FAILED               | UPDATE .. status='SUBMITTED'
                          v   | (replays)           | (retry-strategy)                    v
                       tenant database <--------------------------------------------- attempts (FINALIZED)

    back office --services--> licenses row <--UPDATE-- middleware <--request-- tenant
                    |             ^    \--SELECT--> resolver --SETEX--> Redis --/
                    |             |
                    +--queue--> provisioning handler --INSERT--> tenants_registry

    gateway, student, staff --> invoices --(one transaction)--> plan, subscriptions, students

The API and the grading worker never call each other: they meet in
`attempts.status` and in `grading_jobs`. Redis is written best-effort; no
worker reads the grading list the API pushes to, and no middleware puts a Redis
client into the request context, so `redis` is null in `submit.ts` as it is
wired now. `license` and `licenses` are two services over one table that never
call each other either; nothing in the repository constructs the second or
starts its handler, and `createLicenseMiddleware` is mounted nowhere:
`app.ts` mounts `license-enforcement.ts`.

### Hazards

`PROJECT.json` lists every hazard at its line, with the properties that cover
it or the reason why none does. Some are plain facts that the lines themselves
show, and no interleaving adds to them:

* the claim of a job (`job-consumer.ts:350`) has no condition on `available_at`,
  so the backoff that `retry-strategy.ts:155` speaks of never delays a retry;
* the time limit is applied to the moment of grading (`grader.ts:112`), so an
  attempt submitted in time is zeroed when the queue is slow;
* the pool map is filled under the database's name (`worker-startup.ts:186`)
  and read under the workspace's id, so as it stands no job finds its pool;
* the status check (`submit.ts:146`) runs before the replay check, so a retry of
  an accepted submission is answered 409;
* requests without `x-idempotency-key` share one key per workspace
  (`submit.ts:65`), so the second of them is answered with the first one's job;
* an attempt without a limit has `time_limit_snapshot` 0 or null and is refused
  60 s after its start (`submit.ts:170`); a failed UPDATE (`submit.ts:335`)
  leaves a submission row that its retry collides with;
* `handleJobFailure` compares `retry_count + 1` with `maxRetries` by `<=`
  (`retry-strategy.ts:97`), so a job is tried six times and dead-lettered after
  the sixth failure; the file's own comments (lines 9-10, 16-17, 60-61) say five.
  `RetryBudget` states the six, `grading_attempts` refutes the five;
* a dead letter is marked reviewed before its notification is inserted, and the
  insert's error is swallowed (`dlq-consumer.ts:201`);
* the API inserts `grading_jobs` through the tenant pool and the worker polls
  the master pool (`job-queue-service.ts:90`); the models have one table.

## 2. Modules

| Module | Models |
|---|---|
| `GradingService` | What the pipeline promises: a queued job may award the attempt's one grade, or be given up, for good. No queue, no workers. |
| `GradingQueue` | The worker's side: rows, consumer loop, finalising transaction, retries, dead letters, process start, stop and crash. |
| `SubmissionLedger` | What submission promises: an attempt is submitted, queued, acknowledged and finalised in indivisible steps. No tables, no caches, no requests under way. |
| `SubmitAttempt` | The API's side: the submit handler with its idempotency layers and lock, several requests at once, the worker reduced to one action. |
| `LicenseStatus` | What `state-machine.ts` says of a licence: its statuses and the transitions between them. |
| `LicenseLifecycle` | The services' transactions, the snapshot job, both middlewares, the resolver and its cache, on one row. |
| `LicenseProvisioning` | The other service over the same table, its queue and the worker's handlers. |
| `BillingLedger` | What billing promises of one student, in indivisible steps. |
| `Billing` | Invoices, subscriptions, the plan and the student's row, statement by statement. |
| `GradingQueueProofs`, `SubmitAttemptProofs`, `LicenseLifecycleProofs`, `LicenseProvisioningProofs`, `BillingProofs` | Theorems for all values of the constants. |
| `MC...` | Instances for TLC. |

### GradingQueue and the code

A *consumer* is one worker process. Its record holds the program counter of
`startGradeJobsConsumer` and the locals the loop carries:

| `pc` | Where the loop is |
|---|---|
| `idle` | between two iterations |
| `dequeued` | the claim has committed, `currentJobId` is not set yet |
| `claimed`, `loaded`, `graded`, `persisted`, `skipping` | after `updateJobStatus`, `loadAttempt`, `gradeAttempt`, `finalizeAttempt`; `skipping` is the branch for an attempt found FINALIZED |
| `caught`, `handling` | in the catch block, before and after `getJobById` |
| `down` | no process |

Every `await` on a database is an action, because another process may run, the
process may die, or the reply may be lost between two of them. `finalizeAttempt`
and `moveJobToDLQ` open a transaction and are one action each. For the first,
`FinalizeReplyLost` is the variant in which the commit's reply is lost; for the
second that ends the process with the move committed, which is the move and a
`Crash` after it. `row`, `dlq` and `attempt` are the tables;
`backingOff` holds the jobs whose `available_at` is in the future; `overdue`
those attempts whose limit and grace have passed at the current time; `pools`
is `tenantPoolMap`; `stopping` the negation of `isRunning`; `claims` is a
history variable that counts dequeues, for `RetryBudget`.

Abstracted: the score (a grade is `scored` or `timed_out`, and remembers the
job that computed it), times (passed or not), payloads, logging, the sleep of
100 ms, the counters of processed jobs. The 10 s limit of the stop is one of the
moments at which `Crash` may happen. Jobs are numbered in `created_at` order.

### SubmitAttempt and the code

A *request* is one HTTP request, so a client's retry is another request with
the same key. `tenantDb` is a pool (`tenant-resolver-stage06.ts`) and no
statement opens a transaction, so each statement is a step of its own and the
row lock of `SELECT ... FOR UPDATE NOWAIT` is released when that statement
ends; the model has therefore no lock to hold. A lock found taken is error
55P03, which `executeWithLockRetry` does not retry: that is `Fail`. Its rerun
of the whole operation after 40P01 is `DeadlockRetry`.

The tables' definitions are not in the source; two constants stand for their
unique constraints. The plan under `specs/runtime/006-attempt-engine-foundation`
has both, and the passing run assumes them. Without `SequenceUnique` nothing
keeps two submissions apart (`OneJobPerAttempt` fails).

Abstracted: the answers and their validation (it may always find fault),
submission sequence numbers (always 1: a replay ends before the number is used,
a fresh submission has none), the 24 h expiry of keys, the statuses EXPIRED and
ABORTED, which nothing in this pipeline writes.

`GradeAttempt` of this module is the whole of `GradingQueue` as the API sees it:
a job's attempt that is SUBMITTED gets FINALIZED, a FINALIZED one is skipped.
`AttemptsOnlyGraded` of `GradingQueueProofs` justifies it for safety,
`EveryJobSettles` for progress; what `GradingQueue` assumes in turn, that a job is
queued for a SUBMITTED attempt and that the API leaves that attempt alone from then
on, is `QueuedAfterMark` and `WorkerOwnsQueued` of `SubmitAttemptProofs`.

### LicenseLifecycle and the code

A call (`Actors`) is one service call of an administrator. `tx` is where it is:
`waiting` for the row lock, `stale` when the row it waits for was updated
meanwhile (SERIALIZABLE then raises 40001), `locked` when `SELECT ... FOR UPDATE`
has answered, with that answer in `seen`. UPDATE, audit INSERT, COMMIT and
release are one action, because nobody can see between them, and `Rollback`
may happen at any moment instead. `free` counts the clients of the pool;
`createLicense` has an empty `finally` and keeps its own.

A request runs through one of the two middlewares (`Mounted`, for each request).
The direct one (`ReadLicense`, `AutoArchive`) reads the row and may archive it by
an UPDATE that asks for status and date again. `license-enforcement.ts` looks
the licence up three times, in step 1 (the status), step 2 (the soft lock's
date) and step 3 (versions), each time through the resolver, which reads Redis, or
else the row (`Lookup`) and then fills the cache (`CacheRow`); `Decide` is what
each step makes of it. Step 2 archives an expired soft lock (`ArchiveOverdue`)
by `transitionLicenseState`, in a transaction of its own from the same pool:
the request takes a client, waits for the row, and its `TransitionLicenseState`
takes a licence that is ACTIVE or SOFT_LOCKED by then to ARCHIVED and never asks
for the date again. Whatever comes of it, the request is refused (`Refuse`).
In JSON a cached date is a string, and no date is greater than that: step 2
archives on a row it read itself only.

`left`, a history variable, is when the licence last stopped being ACTIVE. Dates
are ticks of a clock; only whether they have passed is ever asked. `Latency`
bounds the time from a request's first lookup to its last, which the code leaves
open; before and after them, and while it archives, a request may take as long
as it likes. No bound on `Latency` is built in: what a property needs of it is in
its statement.

Wider than the code in one place: a licence may get several snapshots one after the
other, where `archive_snapshots` has UNIQUE (license_id).

Facts the model takes from the routes: `PATCH .../state` moves a licence without
a snapshot and without an audit row; the archive route is a placeholder, so
`TransitionToArchived` has no caller yet; `delete/initiate` stores nothing, so
the row of `license_deletion_confirmations` that a deletion asks for has no
writer, no more than `snapshots`, and the model leaves open whether it is there;
the snapshot job records its snapshot without looking at the licence again
(`archive-snapshot.ts:191`); `invalidateCache` has no caller.

### LicenseProvisioning and the code

A call is one READ COMMITTED transaction: read, read again in the repository,
UPDATE by id, enqueue where the operation does, COMMIT. `writer` and `draft` are
the row lock and the version under it; the code takes no lock before the
UPDATE. One connection per call is assumed, as the repository's comment does.
The handler's two statements, the registry INSERT and the status UPDATE, commit
apart, and so does the UPDATE that records a failure. The queue is external: it
hands a job out again after a failed attempt, after its timeout while the
first handler still works, and after a stall (`Take`, `NextAttempt`, `Timeout`, `Crash`).
`forsaken` is a history variable: an enqueue failed and was swallowed, or a job
ran out of attempts without leaving PROVISION_FAILED. `PendingHasJob` and
`Settles` speak of the rest. Wider than the code: a job carries no licence id, so
that a job left by an aborted creation may meet the next licence, which has a
uuid of its own in the code.

What reading it for the model brought out, none of it a property: a handler
that dies between its two statements makes every later attempt collide with
UNIQUE (license_id), since `checkDatabaseExists` always answers false, and so
ends as PROVISION_FAILED; the worker's failure write sets
`provisioning_retries` back; a licence whose enqueue was swallowed stays
PENDING_PROVISION without a job and `retryProvisioning` refuses it.

### Billing and the code

A call is one transaction of several statements (`pc`). A row it has locked or
written is in `held`, a foreign key's share lock in `shared`; a statement that
wants a held row waits. Writes are applied at the commit, since nobody reads
them before. For the SERIALIZABLE paths `stale` collects the rows others
committed since the snapshot, and locking one of them is error 40001. Predicate
conflicts only abort more, which `Abort` covers; no property relies on them.
Foreign keys matter: inserting a subscription takes a share lock on the
student's key, which `FOR UPDATE` excludes and a plain UPDATE does not, so
`student` and `studentKey` are two resources.

One student, one plan, one calendar month of invoice numbers. `sub.origin` is a
history field (the code drops its `_invoiceId`). A create without a key is a
create with an unused one. PENDING subscriptions are never inserted, and nothing
expires a subscription by time. `overridden` records that staff wrote
`subscription_status` by hand.

Not properties, but facts: `WEBHOOK_ALREADY_PROCESSED` is never thrown; of two
creates with one key the loser gets a raw 23505; a payment for a CANCELLED
invoice is refused for ever; `payment_method` is not checked; an upload that read
PENDING replaces the proof of an invoice that was paid meanwhile; a deleted plan
still accepts payments, because only `is_active` is read.

## 3. Runs

| Run | Question | Instance | Result |
|---|---|---|---|
| `grading_safety` | do the safety properties and the refinement survive every fault, is a row left behind only with its process, and does every other job settle? | 2 jobs of one attempt, 2 workers, 1 retry, all faults; 597,816 states | holds |
| `grading_attempts` | is a job tried five times at most? | 1 worker, 2 jobs, 5 retries, grading throws | violated |
| `grading_result_lost` | does a COMPLETED row carry its result? | 1 worker, lost replies | violated |
| `grading_stop` | does a graceful stop finish its job? | 1 worker, SIGTERM | violated |
| `submit_safety` | one job, truthful answers and replays, no reopened attempt, equal to indivisible steps, a grade for whoever was accepted? | 3 requests on one attempt, 2 keys, all failures; 110,188 states | holds |
| `submit_atomic` | do status and job go together? | the same | violated |
| `license_safety` | legal, audited transitions, no leak, also when step 2 of `license-enforcement.ts` archives? | 2 calls, 1 request through either middleware, 1 snapshot job, pool of 3; 4.19 million states | holds |
| `license_requests` | grace kept, no late admission, and a soft lock past its grace archived if requests keep coming? | 1 call, 1 request through each middleware; 1.11 million states | holds |
| `license_enforcement` | is it archived by the mounted middleware alone? | 1 call, 1 request | violated |
| `provisioning` | is what is in service provisioned, does what waits have a job, does it settle, does a deletion mark stay? | 1 administrator, 2 handlers, 2 jobs, 2 attempts, 1 stall; 546,106 states | holds |
| `provisioning_terminal` | is DELETED terminal? | 2 administrators, 2 handlers | violated |
| `billing` | paid once, mirrored, logged, numbered, deadlock-free, and equal to indivisible steps? | 2 calls, 2 invoices, 2 subscriptions, 2 keys; 2.70 million states | holds |

The violated ones are disagreements between the code and what a comment, test
or document of the repository says; `findings` in `PROJECT.json` quotes both.

*Bounds.* Grading: two jobs of one attempt are what it takes to grade twice, two
consumers to own twice, one retry to have a job in its first and its last try.
Nothing in the model counts further than that: a third consumer or attempt
only adds copies, and the theorems of section 4 hold for any number. The code
has `maxRetries: 5`; the value only moves the threshold, and `grading_attempts`
has it as it is. Submission: three requests are a submission, its retry and a
competitor under another key.
`MaxLockTries` is 3, as in the code. The pool map is filed by workspace id,
since as the code stands no job would ever be graded and every property would
hold for nothing.

Licences: two calls conflict on the row, and the pool of 3 can be emptied by a
creation and two transactions. In `license_safety` grace, cache life and the
snapshot's window are one tick each on a clock of three, and the latency is two:
longer than the grace, so that a request passes step 1 before a soft lock and
finds it over in step 2, and the archive branch fires, races with both calls and is
refused, committed or rolled back. `license_requests` has the code's order of
magnitudes, a grace (3) not shorter than a cache entry (1) and two latencies (1
each), at the edge of the hypothesis of `GraceKept`, and a clock on which a soft
lock can run out after an activation. Its two requests, one through each
middleware, meet in the cache and in the row.

Provisioning: two handlers and two jobs let a late handler meet the job of a retry; two
attempts are a failing one and the last. A larger instance (2 administrators,
1 stall less, 4.43 million states) was checked by hand without fairness and
holds. Billing: two calls conflict in every pair of operations; two invoices and
two subscriptions let a payment replace a subscription. Three calls on one
invoice and two subscriptions (985,930 states), and three subscriptions
(387,450), were checked by hand. Staff write SUSPENDED only in the run: the
value is never read, and the others differ from it in nothing.

*Deadlock* is checked in `grading_safety`, where workers can always crash or
stop and restart, and in `billing`, where any call may abort; there
`NoLockCycle` says what deadlock means. Elsewhere a run may legitimately end
(all jobs settled, all requests answered, the clock at its bound, a licence
deleted).

*Fairness.* `GradingQueue`: weak fairness of each live consumer's next step
(the event loop runs), of starting a dead process (its supervisor restarts it),
of a stopping process's exit and of the dispatcher's timer. None on faults,
submissions or the clock. `EveryJobSettles` has one more hypothesis,
`ProcessesStayUp`: workers that are killed again and again settle nothing. It
excepts a row that is left behind, and `AbandonedOnlyByLoss` says how that comes
about.
`SubmitAttempt`: weak fairness of the grading worker only, which
`EveryJobSettles` supports; a client need not send a request and a server need
not finish one. A job that exhausts its retries ends FAILED; `AcceptedIsGraded`
therefore speaks of submissions that the worker can grade. `LicenseLifecycle`:
tenants keep sending requests, which are read and served (weak fairness of the
request's steps, `FailRequest` and `FailUpdate` not among them), a transaction
that is open ends, and the archiving UPDATE gets its turn among the waiters of
the row and of the pool (strong fairness). `ExpiredIsArchived` supposes that
from some time on that UPDATE does not fail (`UpdatesGetThrough`). No
administrator need call and no clock need tick. `LicenseProvisioning`: a call and
a handler that are under way get on or fail, and waiters of a row lock are
served in their order, which is what strong fairness says; no call need be made
and no failure need happen. `Billing`
states no fairness and no liveness.

*Mutants.* Each property of a passing run has a plausible bug in `Mut...`, next
to the definition it replaces, that TLC finds it to exclude.

## 4. Proofs

`GradingQueueProofs` proves, for any numbers of jobs, attempts, tenants and
consumers, any retry limit and any set of faults, from `GradingAssumption`
alone: `TypeCorrect`, `MutualExclusion`, `BoundedRetries`, `DeadLetterExact`,
`HonestResult`, `HonestCompletion` (the invariants of `grading_safety`),
`FinalGrade` (no grade is replaced), `LossOnly` (a row is left without a worker
only by its process's end or the loss of the claim's reply) and `Refinement`
(`Spec` implements `GradingService`).

None of the invariants is inductive by itself. `IInv` adds three:

* `ConsumerInv` (`Fits`): what a consumer's position says about the row and the
  attempt it works on. A row in anyone's hands is PROCESSING (or COMPLETED, if
  the update's reply was lost); `handling` still knows the row's true retry
  count; `persisted` carries the attempt's grade. With `SingleOwner` it follows
  that a PENDING row is nobody's, so a claim is exclusive.
* `ClaimsInv`: dequeues equal retries, plus one for the current try; FAILED only
  at the last retry. This makes `RetryBudget` inductive.
* `AttemptInv`: FINALIZED exactly when a job is recorded as grader.

The steps that only move a consumer go through four lemmas (`LocalStep`,
`QuietStep`, `RestStep`, `AdvanceStep`); each action that writes a table has a
lemma with one step per conjunct. The temporal theorems combine them by PTL. For
`Refinement`, `StatusStep` and `AwardStep` map the writes of rows and attempts
to the service's `Accept`, `GiveUp` and `Award`; everything else stutters.

`AttemptsOnlyGraded` says what the API may rely on: an attempt changes from
SUBMITTED to FINALIZED only, by a queued job of its own.

Two more hold only while some faults stay away, and their hypotheses say which.
`NothingOrphaned`: if grading may throw but no process stops or dies and no
statement fails, no row is PROCESSING without a consumer that works on it
(`grading_stop` shows what one SIGTERM does). `CompletedHasResult`: while the
database answers and each attempt has one job, every COMPLETED row carries its
result, also when workers crash, stop and retry; a crash between `finalizeAttempt`
and the completion cannot break it, because such a row stays PROCESSING.
`grading_result_lost` shows the lost reply, and a second job of the attempt
would take the same branch.

`SubmitAttemptProofs` proves every safety property of `submit_safety`, for any
numbers of requests, attempts, keys and lock tries, with Redis or without it, and
with or without failures. `TypeCorrect` needs nothing. All others but
`NothingLost` assume `SequenceUnique`, the constraint on `attempt_submissions`,
without which two jobs for one attempt can be queued. The core of `IInv` is `Alone`: the submission row of an attempt has one
request behind it, so at most one request ever gets past the INSERT, and a
deadlock's rerun of that request runs into its own row. `Fits` says what each position
implies about the tables; `RowsTrue` and `CacheBacked` say that a key row, and a
Redis entry, name a queued job of a request with that key; `Answered` says the
same of a 202. `SubmittedOnce`, `ReplaysAreTrue`, `NeverReopened` and
`AcceptedUnderItsKey` follow.

`AcceptanceIsHonest`, `AcceptedIsAwaited` (whoever was told 202 is graded or has a
job the worker can take, the part of `AcceptedIsGraded` without fairness) and
`Refinement` (the handler implements `SubmissionLedger`) need moreover that no key
is used for two attempts, `KeysOneAttempt`. A client that draws a key per
submission gives that; the default `'no-key'` of `submit.ts:65` does not, and then
only `AcceptedUnderItsKey` is left of the promise: the 202 names a queued job,
perhaps of another student's attempt. `QueuedAfterMark` and
`WorkerOwnsQueued` are the API's half of the bargain with the worker: no request,
late, rerun or retried, writes the status of an attempt that has a job, although the
UPDATE does not look. `NothingLost` is what `submit_atomic`
refutes, under the hypothesis that no statement fails, and needs no constraint.

`LicenseLifecycleProofs` proves the safety properties of `license_safety` and
`license_requests`, for any finite sets of calls and requests, any jobs and
bounds. The heart is `TxInv` (`TypeOK`, `LockedRowIsCurrent` and that a locked row
exists): what a call, or a request that archives, read under its lock is the committed
row until it ends, so the status it checked, the one it writes and the one it
logs belong together. From it follow `Refinement` (the licence takes only the
transitions of `LicenseStatus`) and `AuditTruth`.

How old what a request goes by may be has an invariant of its own, `AccessInv`: a
cached ACTIVE row expires within a cache life and one latency of the moment
the licence stopped being ACTIVE; a request past step 1 began its lookups
within that time of it, or the licence is ACTIVE now; and a soft lock
runs for the whole grace from that moment. `AdmittedInTime` follows, for any
latency. `ArchiveNotReached` and `GraceKept` have the hypothesis `CacheTTL + 2 *
Latency <= Grace` (five minutes and two latencies against 90 days): with it, a
soft lock that step 2 reads is younger than the grace, so the archive of
`license-enforcement.ts` that looks at neither date nor status again is made by no
request, and the only one left, the direct middleware's, asks again in its UPDATE.
The hypothesis is needed: in the instance of `license_safety`, which breaks it, that
branch is taken. `TxFits` says that a request has a transaction only while it archives.
`PoolAccounts` counts connections with the cardinality theorems of the
library.

`LicenseProvisioningProofs` proves the invariants of `provisioning`, for any
numbers of calls, handlers, jobs, attempts and stalls. `IInv` says what each
call (`CallsInv`), job (`JobsInv`) and handler (`HandlersInv`) in flight implies
about the row; `ServiceInv` adds that a status past provisioning, committed or
in a draft, has a registry row, and `PendInv` that a PENDING_PROVISION row has a
job that is not finished, a handler at work on it, or a call about to enqueue.
`DeletionKept` proves that `deleted_at` is never cleared: an UPDATE carries the
mark of the version it overwrites, and the row lock keeps that version current.
So a licence that a stale write takes out of DELETED stays invisible to
every later call. `OnlyHandlersRevive` narrows `provisioning_terminal` down: with
one administrator's call at a time nothing but a late handler leaves DELETED.

`BillingProofs` proves every property of `billing`, for any numbers of calls,
invoices, subscriptions, keys and files, from the assumptions that ids are
distinct. `Fits` says what a call's statement implies about the committed rows:
a payment past its first lock holds a PENDING invoice, one past the plan's lock
shares an active plan, an INSERT of an invoice that came through the unique
index has the next number, and one of a subscription leaves nothing active
but the row the call holds. `Apart` says what two calls cannot have at once:
a row lock, or two uncommitted invoices, or two uncommitted subscriptions. Every action keeps
both, and at each commit they give `PaidExactlyOnce`, `StatusMirrored`,
`HonestLog`, `DenseNumbers` and `PlanActiveAtPayment`; `Refinement` maps each
commit to a step of `BillingLedger` and all else to a stutter. The proofs never
use `stale`: billing is right by its row locks and unique indexes, and would be
under READ COMMITTED. `DeadlockFree` has an invariant of its own,
`LockInv`: what a call holds belongs to an earlier stage than the statement it
is at. Two calls at the INSERT of a subscription are at one stage; there
the one that holds the active subscription ranks higher (`Rank`), and since
there is only one such subscription a waiter always ranks below whom it waits for.

Every safety property of a passing run is thus proved, under the hypotheses
above where there are any. Model-checked only: what needs fairness
(`EveryJobSettles`, `AcceptedIsGraded`, `ExpiredIsArchived`, `Settles`; the prover
has no liveness under fairness and no ENABLED), and, as counterexamples, the runs
that end in a violation.

## 5. Not modelled

* **Promo codes.** No activation with one can succeed: their validation reads
  `plans.deleted_at`, which no migration creates, and the invoice path never
  sets a promo code.
* **Workspace provisioning orchestrator, distributed locks, migration jobs**
  (`worker/src/services/provisioning`, `distributed-lock-service.ts`,
  `jobs/*-phase.ts`). Nothing starts them, and they do not fit the schema: they
  use statuses and columns it lacks, a numeric `license_id` for a UUID, and
  calls of the wrong arity under `@ts-expect-error`. The handler that does fit is
  in `LicenseProvisioning`.
* **Scheduled exams.** `startScheduledAttempt` calls
  `isWindowOpen(window_start, window_end, now)` where the function takes `now`
  first, and is so never let in; nothing reads the list the dispatcher fills.
  Were they wired, four hazards would need a model: the dispatcher's dedup key
  expires after 120 s whether or not its job is done
  (`scheduled-exam-dispatcher.ts:144`); a student's UPDATE has no status
  condition against the forced one (`scheduled-exam.service.ts:322`); the forced
  submission re-checks the window with its comparison reversed
  (`auto-submit-scheduled-attempt.ts:123`); its lock can expire inside its
  transaction (`:64`).
* **Dead-letter consumer.** The worker starts it beside the grading consumer
  (`index.ts:33`, `worker-startup.ts:132`). It reads `failed_grading_jobs`, which
  `moveJobToDLQ` fills and nothing else reads, and writes back only the mark
  `reviewed`. It sets that mark before it notifies and swallows the error
  (`dlq-consumer.ts:201`), so a notification can be lost, and two workers can
  send it twice; nothing promises otherwise.
* **Attempt creation and progress.** The automatic path of `create.ts` always
  rolls back: the rows it builds (627-638) have no `correct_answer` and no
  `points`, which `buildQuestionSnapshot` requires. The manual path and
  `progress.ts` have no lock and no transaction; nothing they promise survives
  two tabs, and both facts are listed as hazards.
* **Workflow engine.** The same lock, guard, update and audit in one transaction
  as `LicenseService`, over another table.
* **Result polling, middleware, web sockets, catalogue CRUD, front ends,
  scripts.** They read, or write single rows without interacting processes. The
  repository is mostly these, so the models cover a small share of its lines.
* **Score engine arithmetic.** A pure function, within reach of its unit tests.

## 6. Plan

1. The modules of section 2 and their runs: done.
2. Proofs of every safety property of a passing run: done.
3. Left: the attempts' manual creation and the saving of answers, if they get a
   lock or a transaction that promises something; the scheduled exams, once they
   are wired.
