---------------------------- MODULE GradingQueue ----------------------------
(***************************************************************************)
(* The grading worker: the rows of grading_jobs, the consumer loop that    *)
(* claims and grades them (apps/worker/src/grading/job-consumer.ts), the   *)
(* transaction that finalises an attempt (result-persister.ts), the retry  *)
(* and dead-letter policy (retry-strategy.ts) and the start and stop of    *)
(* the process around them (worker-startup.ts).                            *)
(*                                                                         *)
(* Every database statement of the loop is an action of its own: between   *)
(* two of them any other consumer may run, the process may die, the reply  *)
(* may be lost, the exam clock may advance.                                *)
(***************************************************************************)
EXTENDS Naturals

CONSTANTS NumJobs,      (* grading jobs, numbered in created_at order      *)
          Attempts,     (* exam attempts                                   *)
          AttemptOf,    (* grading_jobs.attempt_id                         *)
          Workspaces,   (* tenants                                         *)
          WorkspaceOf,  (* grading_jobs.workspace_id, through the attempt  *)
          PoolKey,      (* the key the dispatcher files a tenant's pool at *)
          Consumers,    (* worker processes                                *)
          MaxRetries,   (* DEFAULT_RETRY_CONFIG.maxRetries, 5 in the code  *)
          Faults        (* which of FaultKinds the environment may inject  *)

Jobs == 1..NumJobs
NoJob == 0

FaultKinds == {"db",       (* a statement fails, or commits and its reply is lost *)
               "grading",  (* gradeAttempt throws                                 *)
               "crash",    (* the process is killed                               *)
               "stop"}     (* the process receives SIGTERM                        *)

ASSUME GradingAssumption ==
  /\ NumJobs \in Nat
  /\ AttemptOf \in [Jobs -> Attempts]
  /\ WorkspaceOf \in [Attempts -> Workspaces]
  /\ MaxRetries \in Nat
  /\ Faults \subseteq FaultKinds

VARIABLES
  row,        (* grading_jobs: status, retry_count, result_data present      *)
  backingOff, (* jobs whose available_at is still in the future              *)
  dlq,        (* failed_grading_jobs: number of records per job              *)
  attempt,    (* attempts: status, the job its result came from, the result  *)
  overdue,    (* attempts whose time limit plus grace has passed by now      *)
  consumer,   (* the consumer loop's position and local variables            *)
  pools,      (* tenantPoolMap of each process: the keys it has a pool for   *)
  stopping,   (* processes whose consumerState.isRunning was set to false    *)
  claims      (* history: how often each job has been dequeued               *)

jobVars == <<row, backingOff, dlq>>
attemptVars == <<attempt, overdue>>
processVars == <<pools, stopping>>
vars == <<row, backingOff, dlq, attempt, overdue, consumer, pools, stopping, claims>>

JobStatus == {"ABSENT", "PENDING", "PROCESSING", "COMPLETED", "FAILED"}
Outcomes == {"none", "scored", "timed_out"}

(* The loop holds a job from the reply of dequeueJob to the end of its     *)
(* iteration.  consumerState.currentJobId is set only while Working.       *)
Working == {"claimed", "loaded", "graded", "persisted", "skipping"}
Holding == Working \cup {"dequeued", "caught", "handling"}
Positions == Holding \cup {"idle", "down"}

Fresh(pc, j) == [pc |-> pc, job |-> j, outcome |-> "none", count |-> 0]
AtRest(pc) == Fresh(pc, NoJob)

-----------------------------------------------------------------------------
(* The API's insert (job-queue-service.ts) of a PENDING row for an attempt *)
(* it has just marked SUBMITTED.                                           *)
EnqueueGradingJob(j) ==
  /\ row[j].status = "ABSENT"
  /\ \A i \in Jobs : i < j => row[i].status # "ABSENT"
  /\ row' = [row EXCEPT ![j].status = "PENDING"]
  /\ UNCHANGED <<backingOff, dlq, attemptVars, consumer, processVars, claims>>

(* Time passes: the limit of an attempt, plus the minute of grace, expires. *)
LimitPasses(a) ==
  /\ a \notin overdue
  /\ overdue' = overdue \cup {a}
  /\ UNCHANGED <<jobVars, attempt, consumer, processVars, claims>>

(* available_at of a requeued job is reached. *)
BackoffElapses(j) ==
  /\ j \in backingOff
  /\ backingOff' = backingOff \ {j}
  /\ UNCHANGED <<row, dlq, attemptVars, consumer, processVars, claims>>

(* The 30 s dispatcher cycle opens a pool per active workspace and files   *)
(* it in tenantPoolMap under the tenant's database name.                   *)
OpenTenantPool(c, w) ==
  /\ consumer[c].pc # "down"
  /\ PoolKey[w] \notin pools[c]
  /\ pools' = [pools EXCEPT ![c] = @ \cup {PoolKey[w]}]
  /\ UNCHANGED <<jobVars, attemptVars, consumer, stopping, claims>>

-----------------------------------------------------------------------------
(* One iteration of the loop. *)

(* A second consumer that takes rows another one is still working on. *)
MutDequeueAnyOpen(c) ==
  /\ consumer[c].pc = "idle"
  /\ c \notin stopping
  /\ \E j \in Jobs :
       /\ row[j].status \in {"PENDING", "PROCESSING"}
       /\ row' = [row EXCEPT ![j].status = "PROCESSING"]
       /\ claims' = [claims EXCEPT ![j] = @ + 1]
       /\ consumer' = [consumer EXCEPT ![c] = Fresh("dequeued", j)]
  /\ UNCHANGED <<backingOff, dlq, attemptVars, processVars>>

(* A claim that leaves alone what has no retry left, the last try included. *)
MutDequeueUnspent(c) ==
  /\ consumer[c].pc = "idle"
  /\ c \notin stopping
  /\ \E j \in Jobs :
       /\ row[j].status = "PENDING" /\ row[j].retries < MaxRetries
       /\ \A i \in Jobs : row[i].status = "PENDING" => j <= i
       /\ row' = [row EXCEPT ![j].status = "PROCESSING"]
       /\ claims' = [claims EXCEPT ![j] = @ + 1]
       /\ consumer' = [consumer EXCEPT ![c] = Fresh("dequeued", j)]
  /\ UNCHANGED <<backingOff, dlq, attemptVars, processVars>>

(* UPDATE ... WHERE id = (SELECT oldest PENDING FOR UPDATE SKIP LOCKED).   *)
(* available_at is not part of the condition.                              *)
DequeueJob(c) ==
  /\ consumer[c].pc = "idle"
  /\ c \notin stopping
  /\ \E j \in Jobs :
       /\ row[j].status = "PENDING"
       /\ \A i \in Jobs : row[i].status = "PENDING" => j <= i
       /\ row' = [row EXCEPT ![j].status = "PROCESSING"]
       /\ claims' = [claims EXCEPT ![j] = @ + 1]
       /\ consumer' = [consumer EXCEPT ![c] = Fresh("dequeued", j)]
  /\ UNCHANGED <<backingOff, dlq, attemptVars, processVars>>

(* The claim committed but its reply never arrived: the catch block finds  *)
(* no currentJobId, logs, and the loop goes on.                            *)
DequeueReplyLost(c) ==
  /\ "db" \in Faults
  /\ consumer[c].pc = "dequeued"
  /\ consumer' = [consumer EXCEPT ![c] = AtRest("idle")]
  /\ UNCHANGED <<jobVars, attemptVars, processVars, claims>>

(* currentJobId is set and the status written once more. *)
ClaimJob(c) ==
  /\ consumer[c].pc = "dequeued"
  /\ row' = [row EXCEPT ![consumer[c].job].status = "PROCESSING"]
  /\ consumer' = [consumer EXCEPT ![c].pc = "claimed"]
  /\ UNCHANGED <<backingOff, dlq, attemptVars, processVars, claims>>

AttemptHeld(c) == AttemptOf[consumer[c].job]
PoolFound(c) == WorkspaceOf[AttemptHeld(c)] \in pools[c]

LoadSubmittedAttempt(c) ==
  /\ consumer[c].pc = "claimed"
  /\ PoolFound(c)
  /\ attempt[AttemptHeld(c)].status = "SUBMITTED"
  /\ consumer' = [consumer EXCEPT ![c].pc = "loaded"]
  /\ UNCHANGED <<jobVars, attemptVars, processVars, claims>>

(* "already FINALIZED, skip" answered from the attempt's stored result. *)
MutLoadFinalizedAsOwn(c) ==
  /\ consumer[c].pc = "claimed"
  /\ PoolFound(c)
  /\ attempt[AttemptHeld(c)].status = "FINALIZED"
  /\ consumer' = [consumer EXCEPT ![c].pc = "persisted"]
  /\ UNCHANGED <<jobVars, attemptVars, processVars, claims>>

LoadFinalizedAttempt(c) ==
  /\ consumer[c].pc = "claimed"
  /\ PoolFound(c)
  /\ attempt[AttemptHeld(c)].status = "FINALIZED"
  /\ consumer' = [consumer EXCEPT ![c].pc = "skipping"]
  /\ UNCHANGED <<jobVars, attemptVars, processVars, claims>>

(* Entering the catch block clears currentJobId at once. *)
Catch(c) ==
  /\ consumer' = [consumer EXCEPT ![c].pc = "caught"]
  /\ UNCHANGED <<jobVars, attemptVars, processVars, claims>>

(* tenantPoolMap.get(workspace_id) is undefined: "Tenant database not found". *)
TenantPoolMissing(c) ==
  /\ consumer[c].pc = "claimed"
  /\ ~PoolFound(c)
  /\ Catch(c)

(* A result written to the job row only, never to the attempt. *)
MutGradeWithoutFinalize(c) ==
  /\ consumer[c].pc = "loaded"
  /\ consumer' = [consumer EXCEPT ![c].pc = "persisted", ![c].outcome = "scored"]
  /\ UNCHANGED <<jobVars, attemptVars, processVars, claims>>

(* gradeAttempt compares the limit with the time that has elapsed NOW, at  *)
(* grading, and scores zero when it has passed.                            *)
GradeAttempt(c) ==
  /\ consumer[c].pc = "loaded"
  /\ consumer' = [consumer EXCEPT
       ![c].pc = "graded",
       ![c].outcome = IF AttemptHeld(c) \in overdue THEN "timed_out" ELSE "scored"]
  /\ UNCHANGED <<jobVars, attemptVars, processVars, claims>>

GradeAttemptThrows(c) ==
  /\ "grading" \in Faults
  /\ consumer[c].pc = "loaded"
  /\ Catch(c)

(* The attempt row finalizeAttempt writes. *)
Finalized(c) ==
  [status |-> "FINALIZED", gradedBy |-> consumer[c].job, outcome |-> consumer[c].outcome]

(* The UPDATE of finalizeAttempt without "AND status = 'SUBMITTED'". *)
MutFinalizeUnguarded(c) ==
  /\ consumer[c].pc = "graded"
  /\ attempt' = [attempt EXCEPT ![AttemptHeld(c)] = Finalized(c)]
  /\ consumer' = [consumer EXCEPT ![c].pc = "persisted"]
  /\ UNCHANGED <<jobVars, overdue, processVars, claims>>

(* BEGIN; UPDATE attempts ... WHERE status = 'SUBMITTED'; COMMIT. *)
FinalizeAttempt(c) ==
  /\ consumer[c].pc = "graded"
  /\ attempt[AttemptHeld(c)].status = "SUBMITTED"
  /\ attempt' = [attempt EXCEPT ![AttemptHeld(c)] = Finalized(c)]
  /\ consumer' = [consumer EXCEPT ![c].pc = "persisted"]
  /\ UNCHANGED <<jobVars, overdue, processVars, claims>>

(* The same, but the reply to COMMIT is lost. *)
FinalizeReplyLost(c) ==
  /\ "db" \in Faults
  /\ consumer[c].pc = "graded"
  /\ attempt[AttemptHeld(c)].status = "SUBMITTED"
  /\ attempt' = [attempt EXCEPT ![AttemptHeld(c)] = Finalized(c)]
  /\ consumer' = [consumer EXCEPT ![c].pc = "caught"]
  /\ UNCHANGED <<jobVars, overdue, processVars, claims>>

(* No row updated: ROLLBACK and AttemptAlreadyFinalizedError. *)
FinalizeRejected(c) ==
  /\ consumer[c].pc = "graded"
  /\ attempt[AttemptHeld(c)].status # "SUBMITTED"
  /\ Catch(c)

(* The COMPLETED update carries result_data after grading, and only        *)
(* "skipped" when the attempt was found FINALIZED.                         *)
WriteCompleted(c) ==
  /\ row' = [row EXCEPT ![consumer[c].job].status = "COMPLETED",
                        ![consumer[c].job].result = @ \/ consumer[c].pc = "persisted"]
  /\ UNCHANGED <<backingOff, dlq, attemptVars, processVars, claims>>

CompleteJob(c) ==
  /\ consumer[c].pc \in {"persisted", "skipping"}
  /\ WriteCompleted(c)
  /\ consumer' = [consumer EXCEPT ![c] = AtRest("idle")]

CompleteReplyLost(c) ==
  /\ "db" \in Faults
  /\ consumer[c].pc \in {"persisted", "skipping"}
  /\ WriteCompleted(c)
  /\ consumer' = [consumer EXCEPT ![c].pc = "caught"]

(* A statement of the try block fails without effect. *)
StatementFails(c) ==
  /\ "db" \in Faults
  /\ consumer[c].pc \in Working
  /\ Catch(c)

-----------------------------------------------------------------------------
(* The catch block: getJobById, then handleJobFailure. *)

(* The failed job is looked up, not found, and forgotten. *)
MutForgetFailedJob(c) ==
  /\ consumer[c].pc = "caught"
  /\ consumer' = [consumer EXCEPT ![c] = AtRest("idle")]
  /\ UNCHANGED <<jobVars, attemptVars, processVars, claims>>

GetFailedJob(c) ==
  /\ consumer[c].pc = "caught"
  /\ consumer' = [consumer EXCEPT ![c].pc = "handling",
                                  ![c].count = row[consumer[c].job].retries]
  /\ UNCHANGED <<jobVars, attemptVars, processVars, claims>>

(* The retry test made before the increment: one retry too many. *)
MutRequeueOneMore(c) ==
  LET j == consumer[c].job
  IN /\ consumer[c].pc = "handling"
     /\ consumer[c].count <= MaxRetries
     /\ row' = [row EXCEPT ![j].status = "PENDING", ![j].retries = consumer[c].count + 1]
     /\ backingOff' = backingOff \cup {j}
     /\ consumer' = [consumer EXCEPT ![c] = AtRest("idle")]
     /\ UNCHANGED <<dlq, attemptVars, processVars, claims>>

(* status and available_at are written, retry_count is not. *)
MutRequeueUncounted(c) ==
  LET j == consumer[c].job
  IN /\ consumer[c].pc = "handling"
     /\ consumer[c].count + 1 <= MaxRetries
     /\ row' = [row EXCEPT ![j].status = "PENDING"]
     /\ backingOff' = backingOff \cup {j}
     /\ consumer' = [consumer EXCEPT ![c] = AtRest("idle")]
     /\ UNCHANGED <<dlq, attemptVars, processVars, claims>>

RequeueJobWithDelay(c) ==
  LET j == consumer[c].job
  IN /\ consumer[c].pc = "handling"
     /\ consumer[c].count + 1 <= MaxRetries
     /\ row' = [row EXCEPT ![j].status = "PENDING", ![j].retries = consumer[c].count + 1]
     /\ backingOff' = backingOff \cup {j}
     /\ consumer' = [consumer EXCEPT ![c] = AtRest("idle")]
     /\ UNCHANGED <<dlq, attemptVars, processVars, claims>>

(* The two statements of moveJobToDLQ outside a transaction, the second lost. *)
MutMoveToDLQHalf(c) ==
  /\ consumer[c].pc = "handling"
  /\ consumer[c].count + 1 > MaxRetries
  /\ dlq' = [dlq EXCEPT ![consumer[c].job] = @ + 1]
  /\ consumer' = [consumer EXCEPT ![c] = AtRest("idle")]
  /\ UNCHANGED <<row, backingOff, attemptVars, processVars, claims>>

(* One transaction: INSERT INTO failed_grading_jobs, UPDATE ... 'FAILED'. *)
MoveJobToDLQ(c) ==
  /\ consumer[c].pc = "handling"
  /\ consumer[c].count + 1 > MaxRetries
  /\ dlq' = [dlq EXCEPT ![consumer[c].job] = @ + 1]
  /\ row' = [row EXCEPT ![consumer[c].job].status = "FAILED"]
  /\ consumer' = [consumer EXCEPT ![c] = AtRest("idle")]
  /\ UNCHANGED <<backingOff, attemptVars, processVars, claims>>

(* A statement of the catch block fails: the error leaves the loop, the    *)
(* consumer's promise rejects and initializeWorker exits the process.      *)
FailureHandlerThrows(c) ==
  /\ "db" \in Faults
  /\ consumer[c].pc \in {"caught", "handling"}
  /\ consumer' = [consumer EXCEPT ![c] = AtRest("down")]
  /\ UNCHANGED <<jobVars, attemptVars, processVars, claims>>

-----------------------------------------------------------------------------
(* The process around the loop. *)

(* SIGTERM: stopGradeJobsConsumer clears isRunning ... *)
RequestStop(c) ==
  /\ "stop" \in Faults
  /\ consumer[c].pc # "down"
  /\ c \notin stopping
  /\ stopping' = stopping \cup {c}
  /\ UNCHANGED <<jobVars, attemptVars, consumer, pools, claims>>

(* ... polls until currentJobId is null, then the pools are closed and the *)
(* process exits.  (Its 10 s limit on the wait is one of the crashes.)     *)
StopProcess(c) ==
  /\ c \in stopping
  /\ consumer[c].pc \notin Working \cup {"down"}
  /\ consumer' = [consumer EXCEPT ![c] = AtRest("down")]
  /\ UNCHANGED <<jobVars, attemptVars, processVars, claims>>

Crash(c) ==
  /\ "crash" \in Faults
  /\ consumer[c].pc # "down"
  /\ consumer' = [consumer EXCEPT ![c] = AtRest("down")]
  /\ UNCHANGED <<jobVars, attemptVars, processVars, claims>>

(* initializeWorker: fresh consumerState, empty tenantPoolMap.  Nothing    *)
(* looks for rows an earlier process left in PROCESSING.                   *)
StartWorker(c) ==
  /\ consumer[c].pc = "down"
  /\ consumer' = [consumer EXCEPT ![c] = AtRest("idle")]
  /\ pools' = [pools EXCEPT ![c] = {}]
  /\ stopping' = stopping \ {c}
  /\ UNCHANGED <<jobVars, attemptVars, claims>>

-----------------------------------------------------------------------------
Init ==
  /\ row = [j \in Jobs |-> [status |-> "ABSENT", retries |-> 0, result |-> FALSE]]
  /\ backingOff = {}
  /\ dlq = [j \in Jobs |-> 0]
  /\ attempt = [a \in Attempts |->
                  [status |-> "SUBMITTED", gradedBy |-> NoJob, outcome |-> "none"]]
  /\ overdue = {}
  /\ consumer = [c \in Consumers |-> AtRest("down")]
  /\ pools = [c \in Consumers |-> {}]
  /\ stopping = {}
  /\ claims = [j \in Jobs |-> 0]

(* What the event loop of a live process goes on to do. *)
LoopStep(c) ==
  \/ DequeueJob(c) \/ ClaimJob(c)
  \/ LoadSubmittedAttempt(c) \/ LoadFinalizedAttempt(c) \/ TenantPoolMissing(c)
  \/ GradeAttempt(c) \/ GradeAttemptThrows(c)
  \/ FinalizeAttempt(c) \/ FinalizeRejected(c) \/ CompleteJob(c)
  \/ GetFailedJob(c) \/ RequeueJobWithDelay(c) \/ MoveJobToDLQ(c)

LostOrFailed(c) ==
  \/ DequeueReplyLost(c) \/ FinalizeReplyLost(c) \/ CompleteReplyLost(c)
  \/ StatementFails(c) \/ FailureHandlerThrows(c)

ProcessStep(c) == RequestStop(c) \/ StopProcess(c) \/ Crash(c) \/ StartWorker(c)

Next ==
  \/ \E j \in Jobs : EnqueueGradingJob(j) \/ BackoffElapses(j)
  \/ \E a \in Attempts : LimitPasses(a)
  \/ \E c \in Consumers : LoopStep(c) \/ LostOrFailed(c) \/ ProcessStep(c)
  \/ \E c \in Consumers, w \in Workspaces : OpenTenantPool(c, w)

Spec == Init /\ [][Next]_vars

(* The event loop of a live process keeps running, one told to stop exits,  *)
(* a dead process is restarted by its supervisor and the dispatcher's timer *)
(* keeps firing.                                                            *)
(* Faults, submissions and the exam clock are not fair.                    *)
Fairness ==
  \A c \in Consumers : /\ WF_vars(LoopStep(c))
                       /\ WF_vars(StartWorker(c))
                       /\ WF_vars(StopProcess(c))
                       /\ \A w \in Workspaces : WF_vars(OpenTenantPool(c, w))

FairSpec == Spec /\ Fairness
-----------------------------------------------------------------------------
(* Properties. *)

(* Every variable has the shape of the table or process field it models;   *)
(* retry_count stays within DEFAULT_RETRY_CONFIG.maxRetries.               *)
TypeOK ==
  /\ row \in [Jobs -> [status : JobStatus, retries : 0..MaxRetries, result : BOOLEAN]]
  /\ backingOff \subseteq Jobs
  /\ dlq \in [Jobs -> Nat]
  /\ attempt \in [Attempts -> [status : {"SUBMITTED", "FINALIZED"},
                               gradedBy : Jobs \cup {NoJob}, outcome : Outcomes]]
  /\ overdue \subseteq Attempts
  /\ consumer \in [Consumers -> [pc : Positions, job : Jobs \cup {NoJob},
                                 outcome : Outcomes, count : 0..MaxRetries]]
  /\ pools \in [Consumers -> SUBSET {PoolKey[w] : w \in Workspaces}]
  /\ stopping \subseteq Consumers
  /\ claims \in [Jobs -> Nat]

(* No two consumers ever work on the same row: the claim by UPDATE ...     *)
(* SKIP LOCKED is the only mutual exclusion the pipeline has, and requeue, *)
(* lost replies and restarts must never hand a held row out again.         *)
SingleOwner ==
  \A c, d \in Consumers :
    /\ consumer[c].pc \in Holding
    /\ consumer[d].pc \in Holding
    /\ consumer[c].job = consumer[d].job
    => c = d

(* The budget the code keeps to, however the tries end and whoever makes   *)
(* them: handleJobFailure compares retry_count + 1 with maxRetries by <=,  *)
(* so a job has MaxRetries + 1 tries, never more, and is dead-lettered     *)
(* only after the last.  The file's comments promise one try less:         *)
(* AttemptsAsDocumented.                                                   *)
RetryBudget ==
  \A j \in Jobs : /\ claims[j] <= MaxRetries + 1
                  /\ row[j].status = "FAILED" => claims[j] = MaxRetries + 1

(* What retry-strategy.ts says of itself: line 9 "MAX RETRIES: 5 attempts  *)
(* total", line 10 "After 5 failures, move to dead-letter queue".  A job   *)
(* that has failed MaxRetries times is not tried again.                    *)
AttemptsAsDocumented == \A j \in Jobs : claims[j] <= MaxRetries

(* moveJobToDLQ is atomic: a row is FAILED exactly when one dead-letter    *)
(* record stands for it.                                                   *)
DeadLetterMatchesRow ==
  \A j \in Jobs : dlq[j] = IF row[j].status = "FAILED" THEN 1 ELSE 0

(* The result_data that result.ts returns to the student is the grade that *)
(* is stored on the attempt, not that of some other job for it.            *)
ResultIsTheStoredGrade ==
  \A j \in Jobs : row[j].result => attempt[AttemptOf[j]].gradedBy = j

(* The queue never reports a job COMPLETED whose attempt is not FINALIZED. *)
CompletedMeansFinalized ==
  \A j \in Jobs : row[j].status = "COMPLETED"
                  => attempt[AttemptOf[j]].status = "FINALIZED"

(* No double grading: a stored grade is never replaced, neither by the     *)
(* retry of its own job nor by a second job for the same attempt.          *)
GradeIsFinal ==
  [][\A a \in Attempts : attempt[a].status = "FINALIZED" => attempt'[a] = attempt[a]]_vars

(* The pipeline keeps the promise of GradingService. *)
ServiceOutcome ==
  [j \in Jobs |-> CASE row[j].status = "ABSENT" -> "absent"
                     [] row[j].status = "FAILED" -> "given_up"
                     [] OTHER -> "open"]

Service == INSTANCE GradingService
             WITH outcome <- ServiceOutcome,
                  gradedBy <- [a \in Attempts |-> attempt[a].gradedBy]

ImplementsService == Service!SSpec

(* Nobody works on a row that only its worker would write again. *)
Abandoned(j) ==
  row[j].status = "PROCESSING" /\ \A c \in Consumers : consumer[c].job # j

(* From some time on no process exits, is killed, or gives up. *)
ProcessesStayUp ==
  <>[][\A c \in Consumers : consumer'[c].pc = "down" => consumer[c].pc = "down"]_consumer

(* A row is left behind only when the process that holds it ends, or when  *)
(* the reply to its claim is lost: no failure that the loop handles, and no *)
(* other worker's doing, makes it one that nobody will look at again.      *)
AbandonedOnlyByLoss ==
  [][\A j \in Jobs :
       Abandoned(j)' /\ ~Abandoned(j)
         => \E c \in Consumers : /\ consumer[c].job = j
                                 /\ consumer'[c].pc = "down" \/ consumer[c].pc = "dequeued"]_vars

(* However statements fail, replies get lost, grading throws and workers    *)
(* die before they come to stay, a queued job does not circulate for ever:  *)
(* it is completed or dead-lettered, unless its row is left behind, which   *)
(* AbandonedOnlyByLoss narrows down.                                        *)
EveryJobSettles ==
  ProcessesStayUp =>
    \A j \in Jobs :
      row[j].status = "PENDING" ~> row[j].status \in {"COMPLETED", "FAILED"} \/ Abandoned(j)

(* A PROCESSING row is always in the hands of a live consumer: nobody else *)
(* ever looks at it again.  job-consumer.ts:12 promises it for a graceful  *)
(* shutdown ("Completes current job before exit").                         *)
NoOrphanedJob ==
  \A j \in Jobs : row[j].status = "PROCESSING"
                  => \E c \in Consumers : consumer[c].job = j

(* A COMPLETED row carries the result: result.ts:254 files the opposite    *)
(* under "UNKNOWN STATE (SHOULD NOT HAPPEN)".                              *)
CompletedCarriesResult ==
  \A j \in Jobs : row[j].status = "COMPLETED" => row[j].result
=============================================================================
