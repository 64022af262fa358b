------------------------- MODULE GradingQueueProofs -------------------------
(***************************************************************************)
(* Proofs about GradingQueue, for any number of jobs, attempts, tenants    *)
(* and consumers, any retry limit and any set of faults.                   *)
(*                                                                         *)
(* The safety properties are not inductive one by one: that a row is held  *)
(* by one consumer rests on which rows are PROCESSING, the retry budget on *)
(* what a claim has been counted as, the final grade on which consumer has *)
(* persisted it.  IInv puts these together; every action preserves it.     *)
(***************************************************************************)
EXTENDS GradingQueue, TLAPS

ConsumerRecord == [pc : Positions, job : Jobs \cup {NoJob},
                   outcome : Outcomes, count : 0..MaxRetries]

(* What a consumer's position says of the row and the attempt it works on. *)
Fits(r) ==
  /\ r.pc \in Holding => r.job \in Jobs
  /\ r.pc \in Working \cup {"dequeued"} => row[r.job].status = "PROCESSING"
  /\ r.pc \in {"caught", "handling"} => row[r.job].status \in {"PROCESSING", "COMPLETED"}
  /\ r.pc = "handling" => r.count = row[r.job].retries
  /\ r.pc = "persisted" => attempt[AttemptOf[r.job]].gradedBy = r.job
  /\ r.pc = "skipping" => attempt[AttemptOf[r.job]].status = "FINALIZED"

ConsumerInv == \A c \in Consumers : Fits(consumer[c])

(* A row has been claimed once per retry, and once more for its current    *)
(* try; only the last try ends in FAILED.                                  *)
ClaimsInv ==
  \A j \in Jobs :
    /\ claims[j] = row[j].retries
                     + IF row[j].status \in {"ABSENT", "PENDING"} THEN 0 ELSE 1
    /\ row[j].status = "FAILED" => row[j].retries = MaxRetries

(* FINALIZED and the job that graded are written together. *)
AttemptInv ==
  \A a \in Attempts : attempt[a].status = "FINALIZED" <=> attempt[a].gradedBy # NoJob

IInv == /\ TypeOK
        /\ ConsumerInv
        /\ SingleOwner
        /\ ClaimsInv
        /\ AttemptInv
        /\ DeadLetterMatchesRow
        /\ ResultIsTheStoredGrade
        /\ CompletedMeansFinalized

-----------------------------------------------------------------------------
(* Steps that move one consumer. *)

(* A consumer that lets go of its job, or keeps the one it had, leaves     *)
(* every job with at most one owner.                                       *)
LEMMA KeepOrRelease ==
  ASSUME TypeOK, SingleOwner, NEW c \in Consumers, NEW r,
         consumer' = [consumer EXCEPT ![c] = r],
         \/ r.pc \notin Holding
         \/ consumer[c].pc \in Holding /\ r.job = consumer[c].job
  PROVE  SingleOwner'
<1>1. \A d \in Consumers : consumer'[d] = IF d = c THEN r ELSE consumer[d]
  BY DEF TypeOK
<1>. QED BY <1>1 DEF SingleOwner

(* A step that moves one consumer and writes neither a row nor an attempt  *)
(* preserves the invariant when the consumer's new state fits the tables.  *)
LEMMA LocalStep ==
  ASSUME IInv, NEW c \in Consumers, NEW r \in ConsumerRecord, Fits(r),
         consumer' = [consumer EXCEPT ![c] = r],
         \/ r.pc \notin Holding
         \/ consumer[c].pc \in Holding /\ r.job = consumer[c].job,
         UNCHANGED <<jobVars, attemptVars, claims>>,
         pools' \in [Consumers -> SUBSET {PoolKey[w] : w \in Workspaces}],
         stopping' \subseteq Consumers
  PROVE  IInv'
<1>1. UNCHANGED <<row, backingOff, dlq, attempt, overdue, claims>>
  BY DEF jobVars, attemptVars
<1>2. TypeOK'
  <2>1. consumer' \in [Consumers -> ConsumerRecord]
    BY DEF IInv, TypeOK, ConsumerRecord
  <2>. QED BY <1>1, <2>1 DEF IInv, TypeOK, ConsumerRecord
<1>3. ConsumerInv'
  <2>1. \A d \in Consumers : consumer'[d] = IF d = c THEN r ELSE consumer[d]
    BY DEF IInv, TypeOK
  <2>. QED BY <1>1, <2>1 DEF IInv, ConsumerInv, Fits
<1>4. SingleOwner'
  BY KeepOrRelease DEF IInv
<1>5. ClaimsInv' /\ AttemptInv' /\ DeadLetterMatchesRow' /\ ResultIsTheStoredGrade'
        /\ CompletedMeansFinalized'
  BY <1>1 DEF IInv, ClaimsInv, AttemptInv, DeadLetterMatchesRow, ResultIsTheStoredGrade,
     CompletedMeansFinalized
<1>. QED BY <1>2, <1>3, <1>4, <1>5 DEF IInv

(* A step that moves no consumer and writes neither a row nor an attempt   *)
(* preserves the invariant.                                                *)
LEMMA QuietStep ==
  ASSUME IInv, UNCHANGED <<row, dlq, attempt, consumer, claims>>,
         backingOff' \subseteq Jobs, overdue' \subseteq Attempts,
         pools' \in [Consumers -> SUBSET {PoolKey[w] : w \in Workspaces}],
         stopping' \subseteq Consumers
  PROVE  IInv'
BY DEF IInv, TypeOK, ConsumerInv, Fits, SingleOwner, ClaimsInv, AttemptInv,
   DeadLetterMatchesRow, ResultIsTheStoredGrade, CompletedMeansFinalized

(* A consumer that goes to rest, wherever it was, lets go of its job. *)
LEMMA RestStep ==
  ASSUME IInv, NEW c \in Consumers, NEW pc \in {"idle", "down"},
         consumer' = [consumer EXCEPT ![c] = AtRest(pc)],
         UNCHANGED <<jobVars, attemptVars, claims>>,
         pools' \in [Consumers -> SUBSET {PoolKey[w] : w \in Workspaces}],
         stopping' \subseteq Consumers
  PROVE  IInv'
<1>1. AtRest(pc) \in ConsumerRecord
  BY GradingAssumption
  DEF GradingAssumption, AtRest, Fresh, ConsumerRecord, Positions, Outcomes
<1>2. AtRest(pc).pc \notin Holding
  BY DEF AtRest, Fresh, Holding, Working
<1>3. Fits(AtRest(pc))
  BY DEF Fits, AtRest, Fresh, Holding, Working
<1>. QED BY <1>1, <1>2, <1>3, LocalStep

(* Entering the catch block. *)
LEMMA CatchStep ==
  ASSUME IInv, NEW c \in Consumers, consumer[c].pc \in Working, Catch(c)
  PROVE  IInv'
<1>. DEFINE r == [consumer[c] EXCEPT !.pc = "caught"]
<1>1. consumer[c] \in ConsumerRecord
  BY DEF IInv, TypeOK, ConsumerRecord
<1>2. r \in ConsumerRecord /\ r.pc = "caught" /\ r.job = consumer[c].job
  BY <1>1 DEF ConsumerRecord, Positions, Holding
<1>3. consumer[c].pc \in Holding
  BY DEF Holding
<1>4. Fits(r)
  BY <1>2, <1>3 DEF IInv, ConsumerInv, Fits, Working, Holding
<1>5. /\ consumer' = [consumer EXCEPT ![c] = r]
      /\ UNCHANGED <<jobVars, attemptVars, claims, pools, stopping>>
  BY DEF Catch, processVars
<1>. HIDE DEF r
<1>. QED BY <1>2, <1>3, <1>4, <1>5, LocalStep DEF IInv, TypeOK

(* A step within the loop that changes only its consumer's position, its   *)
(* outcome or its retry count, to values that fit.                         *)
LEMMA AdvanceStep ==
  ASSUME IInv, NEW c \in Consumers, consumer[c].pc \in Holding,
         NEW r, r \in ConsumerRecord, r.job = consumer[c].job, Fits(r),
         consumer' = [consumer EXCEPT ![c] = r],
         UNCHANGED <<jobVars, attemptVars, processVars, claims>>
  PROVE  IInv'
BY LocalStep DEF IInv, TypeOK, processVars

-----------------------------------------------------------------------------
(* The loop's steps that write no table. *)

(* A SUBMITTED attempt is loaded: the consumer moves on with its job. *)
LEMMA LoadSubmittedStep ==
  ASSUME IInv, NEW c \in Consumers, LoadSubmittedAttempt(c)
  PROVE  IInv'
<1>. DEFINE r == [consumer[c] EXCEPT !.pc = "loaded"]
<1>1. consumer[c] \in ConsumerRecord /\ consumer[c].pc = "claimed"
  BY DEF IInv, TypeOK, ConsumerRecord, LoadSubmittedAttempt
<1>2. r \in ConsumerRecord /\ r.pc = "loaded" /\ r.job = consumer[c].job
  BY <1>1 DEF ConsumerRecord, Positions, Holding, Working
<1>3. Fits(r)
  BY <1>1, <1>2 DEF IInv, ConsumerInv, Fits, Working, Holding
<1>4. /\ consumer' = [consumer EXCEPT ![c] = r]
      /\ UNCHANGED <<jobVars, attemptVars, processVars, claims>>
  BY DEF LoadSubmittedAttempt
<1>5. consumer[c].pc \in Holding
  BY <1>1 DEF Holding, Working
<1>. HIDE DEF r
<1>. QED BY <1>2, <1>3, <1>4, <1>5, AdvanceStep

(* A FINALIZED attempt is loaded: the consumer knows that it stays so. *)
LEMMA LoadFinalizedStep ==
  ASSUME IInv, NEW c \in Consumers, LoadFinalizedAttempt(c)
  PROVE  IInv'
<1>. DEFINE r == [consumer[c] EXCEPT !.pc = "skipping"]
<1>1. /\ consumer[c] \in ConsumerRecord /\ consumer[c].pc = "claimed"
      /\ attempt[AttemptOf[consumer[c].job]].status = "FINALIZED"
  BY DEF IInv, TypeOK, ConsumerRecord, LoadFinalizedAttempt, AttemptHeld
<1>2. r \in ConsumerRecord /\ r.pc = "skipping" /\ r.job = consumer[c].job
  BY <1>1 DEF ConsumerRecord, Positions, Holding, Working
<1>3. Fits(r)
  BY <1>1, <1>2 DEF IInv, ConsumerInv, Fits, Working, Holding
<1>4. /\ consumer' = [consumer EXCEPT ![c] = r]
      /\ UNCHANGED <<jobVars, attemptVars, processVars, claims>>
  BY DEF LoadFinalizedAttempt
<1>5. consumer[c].pc \in Holding
  BY <1>1 DEF Holding, Working
<1>. HIDE DEF r
<1>. QED BY <1>2, <1>3, <1>4, <1>5, AdvanceStep

(* Grading fills in an outcome and writes no table. *)
LEMMA GradeStep ==
  ASSUME IInv, NEW c \in Consumers, GradeAttempt(c)
  PROVE  IInv'
<1>1. PICK o \in {"timed_out", "scored"} :
        consumer' = [consumer EXCEPT ![c].pc = "graded", ![c].outcome = o]
  BY DEF GradeAttempt
<1>. DEFINE r == [consumer[c] EXCEPT !.pc = "graded", !.outcome = o]
<1>2. consumer[c] \in ConsumerRecord /\ consumer[c].pc = "loaded"
  BY DEF IInv, TypeOK, ConsumerRecord, GradeAttempt
<1>3. r \in ConsumerRecord /\ r.pc = "graded" /\ r.job = consumer[c].job
  BY <1>2 DEF ConsumerRecord, Positions, Holding, Working, Outcomes
<1>4. Fits(r)
  BY <1>2, <1>3 DEF IInv, ConsumerInv, Fits, Working, Holding
<1>5. /\ consumer' = [consumer EXCEPT ![c] = r]
      /\ UNCHANGED <<jobVars, attemptVars, processVars, claims>>
  BY <1>1 DEF GradeAttempt, IInv, TypeOK
<1>6. consumer[c].pc \in Holding
  BY <1>2 DEF Holding, Working
<1>. HIDE DEF r
<1>. QED BY <1>3, <1>4, <1>5, <1>6, AdvanceStep

(* The catch block reads the retry count the claim was made under. *)
LEMMA GetFailedStep ==
  ASSUME IInv, NEW c \in Consumers, GetFailedJob(c)
  PROVE  IInv'
<1>. DEFINE n == row[consumer[c].job].retries
            r == [consumer[c] EXCEPT !.pc = "handling", !.count = n]
<1>1. /\ consumer[c] \in ConsumerRecord /\ consumer[c].pc = "caught"
      /\ consumer[c].job \in Jobs
  BY DEF IInv, TypeOK, ConsumerRecord, GetFailedJob, ConsumerInv, Fits, Holding
<1>2. n \in 0..MaxRetries
  BY <1>1 DEF IInv, TypeOK
<1>3. /\ r \in ConsumerRecord /\ r.pc = "handling"
      /\ r.job = consumer[c].job /\ r.count = n
  BY <1>1, <1>2 DEF ConsumerRecord, Positions, Holding
<1>4. Fits(r)
  BY <1>1, <1>3 DEF IInv, ConsumerInv, Fits, Working, Holding
<1>5. /\ consumer' = [consumer EXCEPT ![c] = r]
      /\ UNCHANGED <<jobVars, attemptVars, processVars, claims>>
  BY DEF GetFailedJob, IInv, TypeOK
<1>6. consumer[c].pc \in Holding
  BY <1>1 DEF Holding
<1>. HIDE DEF r
<1>. QED BY <1>3, <1>4, <1>5, <1>6, AdvanceStep

(* ClaimJob writes PROCESSING over PROCESSING. *)
LEMMA ClaimStep ==
  ASSUME IInv, NEW c \in Consumers, ClaimJob(c)
  PROVE  IInv'
<1>. DEFINE r == [consumer[c] EXCEPT !.pc = "claimed"]
<1>1. /\ consumer[c] \in ConsumerRecord /\ consumer[c].pc = "dequeued"
      /\ consumer[c].job \in Jobs /\ row[consumer[c].job].status = "PROCESSING"
  BY DEF IInv, TypeOK, ConsumerRecord, ClaimJob, ConsumerInv, Fits, Holding
<1>2. row' = row
  <2>1. row' = [row EXCEPT ![consumer[c].job] =
                  [row[consumer[c].job] EXCEPT !.status = "PROCESSING"]]
    BY DEF ClaimJob
  <2>2. [row[consumer[c].job] EXCEPT !.status = "PROCESSING"] = row[consumer[c].job]
    BY <1>1 DEF IInv, TypeOK
  <2>. QED BY <2>1, <2>2 DEF IInv, TypeOK
<1>3. r \in ConsumerRecord /\ r.pc = "claimed" /\ r.job = consumer[c].job
  BY <1>1 DEF ConsumerRecord, Positions, Holding, Working
<1>4. Fits(r)
  BY <1>1, <1>3 DEF IInv, ConsumerInv, Fits, Working, Holding
<1>5. /\ consumer' = [consumer EXCEPT ![c] = r]
      /\ UNCHANGED <<jobVars, attemptVars, processVars, claims>>
  BY <1>2 DEF ClaimJob, jobVars
<1>6. consumer[c].pc \in Holding
  BY <1>1 DEF Holding
<1>. HIDE DEF r
<1>. QED BY <1>3, <1>4, <1>5, <1>6, AdvanceStep

-----------------------------------------------------------------------------
(* The steps that write grading_jobs. *)

(* A new row is PENDING, unclaimed and in nobody's hands. *)
LEMMA EnqueueStep ==
  ASSUME IInv, NEW j \in Jobs, EnqueueGradingJob(j)
  PROVE  IInv'
<1>1. /\ row[j].status = "ABSENT"
      /\ row' = [row EXCEPT ![j].status = "PENDING"]
      /\ UNCHANGED <<backingOff, dlq, attempt, overdue, consumer, pools, stopping, claims>>
  BY DEF EnqueueGradingJob, attemptVars, processVars
<1>2. TypeOK'
  <2>1. row' \in [Jobs -> [status : JobStatus, retries : 0..MaxRetries, result : BOOLEAN]]
    BY <1>1 DEF IInv, TypeOK, JobStatus
  <2>. QED BY <1>1, <2>1 DEF IInv, TypeOK
<1>3. \A i \in Jobs : /\ i # j => row'[i] = row[i]
                      /\ row'[j].status = "PENDING"
                      /\ row'[i].retries = row[i].retries
                      /\ row'[i].result = row[i].result
  BY <1>1 DEF IInv, TypeOK
<1>4. ConsumerInv'
  BY <1>1, <1>3 DEF IInv, ConsumerInv, Fits, Holding, Working
<1>5. SingleOwner'
  BY <1>1 DEF IInv, SingleOwner
<1>6. ClaimsInv' /\ AttemptInv'
  BY <1>1, <1>3 DEF IInv, ClaimsInv, AttemptInv
<1>7. DeadLetterMatchesRow' /\ ResultIsTheStoredGrade' /\ CompletedMeansFinalized'
  BY <1>1, <1>3 DEF IInv, DeadLetterMatchesRow, ResultIsTheStoredGrade, CompletedMeansFinalized
<1>. QED BY <1>2, <1>4, <1>5, <1>6, <1>7 DEF IInv

(* The claimed row was PENDING, so nobody else holds it. *)
LEMMA DequeueStep ==
  ASSUME IInv, NEW c \in Consumers, DequeueJob(c)
  PROVE  IInv'
<1>1. PICK j \in Jobs :
         /\ row[j].status = "PENDING"
         /\ row' = [row EXCEPT ![j].status = "PROCESSING"]
         /\ claims' = [claims EXCEPT ![j] = @ + 1]
         /\ consumer' = [consumer EXCEPT ![c] = Fresh("dequeued", j)]
  BY DEF DequeueJob
<1>2. UNCHANGED <<backingOff, dlq, attempt, overdue, pools, stopping>>
  BY DEF DequeueJob, attemptVars, processVars
<1>3. TypeOK'
  <2>1. row' \in [Jobs -> [status : JobStatus, retries : 0..MaxRetries, result : BOOLEAN]]
    BY <1>1 DEF IInv, TypeOK, JobStatus
  <2>2. Fresh("dequeued", j) \in ConsumerRecord
    BY GradingAssumption
    DEF GradingAssumption, ConsumerRecord, Fresh, Positions, Holding, Outcomes
  <2>3. consumer' \in [Consumers -> ConsumerRecord]
    BY <1>1, <2>2 DEF IInv, TypeOK, ConsumerRecord
  <2>4. claims' \in [Jobs -> Nat]
    BY <1>1 DEF IInv, TypeOK
  <2>. QED BY <1>2, <2>1, <2>3, <2>4 DEF IInv, TypeOK, ConsumerRecord
<1>4. \A i \in Jobs : /\ i # j => row'[i] = row[i] /\ claims'[i] = claims[i]
                      /\ row'[i].retries = row[i].retries
                      /\ row'[i].result = row[i].result
  BY <1>1 DEF IInv, TypeOK
<1>5. row'[j].status = "PROCESSING" /\ claims'[j] = claims[j] + 1
  BY <1>1 DEF IInv, TypeOK
<1>6. \A d \in Consumers :
         consumer'[d] = IF d = c THEN Fresh("dequeued", j) ELSE consumer[d]
  BY <1>1 DEF IInv, TypeOK
<1>7. \A d \in Consumers : consumer[d].pc \in Holding => consumer[d].job # j
  BY <1>1 DEF IInv, ConsumerInv, Fits, Holding
<1>8. ConsumerInv'
  <2>. SUFFICES ASSUME NEW d \in Consumers PROVE Fits(consumer[d])'
    BY DEF ConsumerInv
  <2>1. CASE d = c
    BY <1>2, <1>5, <1>6, <2>1 DEF Fits, Fresh, Working, Holding
  <2>2. CASE d # c
    BY <1>2, <1>4, <1>6, <1>7, <2>2 DEF IInv, ConsumerInv, Fits, Working, Holding
  <2>. QED BY <2>1, <2>2
<1>9. SingleOwner'
  BY <1>6, <1>7 DEF IInv, SingleOwner, Fresh
<1>10. ClaimsInv' /\ AttemptInv'
  BY <1>1, <1>2, <1>4, <1>5 DEF IInv, TypeOK, ClaimsInv, AttemptInv
<1>11. DeadLetterMatchesRow' /\ ResultIsTheStoredGrade' /\ CompletedMeansFinalized'
  BY <1>1, <1>2, <1>4, <1>5
  DEF IInv, DeadLetterMatchesRow, ResultIsTheStoredGrade, CompletedMeansFinalized
<1>. QED BY <1>3, <1>8, <1>9, <1>10, <1>11 DEF IInv

(* COMPLETED is written by the row's owner, with the result only when the  *)
(* owner is the one whose grade the attempt carries.                       *)
LEMMA CompleteStep ==
  ASSUME IInv, NEW c \in Consumers,
         consumer[c].pc \in {"persisted", "skipping"}, WriteCompleted(c),
         NEW r \in ConsumerRecord, consumer' = [consumer EXCEPT ![c] = r],
         r = AtRest("idle") \/ (r.pc = "caught" /\ r.job = consumer[c].job)
  PROVE  IInv'
<1>. DEFINE j == consumer[c].job
<1>1. /\ j \in Jobs /\ row[j].status = "PROCESSING" /\ consumer[c].pc \in Holding
      /\ consumer[c].pc = "persisted" => attempt[AttemptOf[j]].gradedBy = j
      /\ consumer[c].pc = "skipping" => attempt[AttemptOf[j]].status = "FINALIZED"
  BY DEF IInv, ConsumerInv, Fits, Holding, Working
<1>2. AttemptOf[j] \in Attempts /\ attempt[AttemptOf[j]].status = "FINALIZED"
  BY <1>1, GradingAssumption DEF GradingAssumption, IInv, AttemptInv, Jobs, NoJob
<1>3. /\ UNCHANGED <<backingOff, dlq, attempt, overdue, pools, stopping, claims>>
      /\ row' = [row EXCEPT ![j] = [row[j] EXCEPT !.status = "COMPLETED",
                                      !.result = @ \/ consumer[c].pc = "persisted"]]
  BY DEF WriteCompleted, attemptVars, processVars, IInv, TypeOK
<1>4. \A i \in Jobs : /\ i # j => row'[i] = row[i]
                      /\ row'[i].retries = row[i].retries
  BY <1>3 DEF IInv, TypeOK
<1>5. /\ row'[j].status = "COMPLETED"
      /\ row'[j].result = (row[j].result \/ consumer[c].pc = "persisted")
  BY <1>1, <1>3 DEF IInv, TypeOK
<1>6. \A d \in Consumers : consumer'[d] = IF d = c THEN r ELSE consumer[d]
  BY DEF IInv, TypeOK
<1>7. \A d \in Consumers \ {c} : consumer[d].pc \in Holding => consumer[d].job # j
  BY <1>1 DEF IInv, SingleOwner
<1>8. r.pc \notin Holding \/ r.job = j
  BY DEF AtRest, Fresh, Holding, Working
<1>. HIDE DEF j
<1>9. TypeOK'
  <2>1. row' \in [Jobs -> [status : JobStatus, retries : 0..MaxRetries, result : BOOLEAN]]
    <3>. DEFINE b == row[j].result \/ consumer[c].pc = "persisted"
    <3>1. b \in BOOLEAN
      OBVIOUS
    <3>2. row' = [row EXCEPT ![j] = [row[j] EXCEPT !.status = "COMPLETED", !.result = b]]
      BY <1>3
    <3>. HIDE DEF b
    <3>3. [row[j] EXCEPT !.status = "COMPLETED", !.result = b]
            \in [status : JobStatus, retries : 0..MaxRetries, result : BOOLEAN]
      BY <1>1, <3>1 DEF IInv, TypeOK, JobStatus
    <3>. QED BY <3>2, <3>3 DEF IInv, TypeOK
  <2>2. consumer' \in [Consumers -> ConsumerRecord]
    BY <1>6 DEF IInv, TypeOK, ConsumerRecord
  <2>. QED BY <1>3, <2>1, <2>2 DEF IInv, TypeOK, ConsumerRecord
<1>10. ConsumerInv'
  <2>. SUFFICES ASSUME NEW d \in Consumers PROVE Fits(consumer[d])'
    BY DEF ConsumerInv
  <2>1. CASE d = c
    BY <1>1, <1>3, <1>5, <1>6, <1>8, <2>1 DEF Fits, AtRest, Fresh, Working, Holding, j
  <2>2. CASE d # c
    BY <1>3, <1>4, <1>6, <1>7, <2>2 DEF IInv, ConsumerInv, Fits, Working, Holding
  <2>. QED BY <2>1, <2>2
<1>11. SingleOwner'
  BY <1>1, <1>8, KeepOrRelease DEF IInv, j
<1>12. ClaimsInv' /\ AttemptInv'
  BY <1>1, <1>3, <1>4, <1>5 DEF IInv, TypeOK, ClaimsInv, AttemptInv
<1>13. DeadLetterMatchesRow' /\ CompletedMeansFinalized'
  BY <1>1, <1>2, <1>3, <1>4, <1>5 DEF IInv, DeadLetterMatchesRow, CompletedMeansFinalized
<1>14. ResultIsTheStoredGrade'
  BY <1>1, <1>3, <1>4, <1>5 DEF IInv, ResultIsTheStoredGrade
<1>. QED BY <1>9, <1>10, <1>11, <1>12, <1>13, <1>14 DEF IInv

(* A requeue puts the row back with one retry more, out of every hand. *)
LEMMA RequeueStep ==
  ASSUME IInv, NEW c \in Consumers, RequeueJobWithDelay(c)
  PROVE  IInv'
<1>. DEFINE j == consumer[c].job
            n == consumer[c].count + 1
<1>1. /\ j \in Jobs /\ row[j].status \in {"PROCESSING", "COMPLETED"}
      /\ consumer[c].pc \in Holding /\ consumer[c].count = row[j].retries
  BY DEF IInv, ConsumerInv, Fits, Holding, RequeueJobWithDelay
<1>2. n \in 0..MaxRetries /\ n = row[j].retries + 1
  BY <1>1, GradingAssumption DEF GradingAssumption, IInv, TypeOK, RequeueJobWithDelay
<1>3. /\ UNCHANGED <<dlq, attempt, overdue, pools, stopping, claims>>
      /\ backingOff' \subseteq Jobs
      /\ row' = [row EXCEPT ![j] = [row[j] EXCEPT !.status = "PENDING", !.retries = n]]
      /\ consumer' = [consumer EXCEPT ![c] = AtRest("idle")]
  BY <1>1 DEF RequeueJobWithDelay, attemptVars, processVars, IInv, TypeOK
<1>4. AtRest("idle") \in ConsumerRecord /\ AtRest("idle").pc \notin Holding
  BY GradingAssumption DEF GradingAssumption, AtRest, Fresh, ConsumerRecord, Positions,
     Outcomes, Holding, Working
<1>. HIDE DEF n
<1>5. \A i \in Jobs : i # j => row'[i] = row[i]
  BY <1>3 DEF IInv, TypeOK
<1>6. row'[j].status = "PENDING" /\ row'[j].retries = n /\ row'[j].result = row[j].result
  BY <1>1, <1>3 DEF IInv, TypeOK
<1>7. \A d \in Consumers : consumer'[d] = IF d = c THEN AtRest("idle") ELSE consumer[d]
  BY <1>3 DEF IInv, TypeOK
<1>8. \A d \in Consumers \ {c} : consumer[d].pc \in Holding => consumer[d].job # j
  BY <1>1 DEF IInv, SingleOwner
<1>. HIDE DEF j
<1>9. TypeOK'
  <2>1. row' \in [Jobs -> [status : JobStatus, retries : 0..MaxRetries, result : BOOLEAN]]
    BY <1>1, <1>2, <1>3 DEF IInv, TypeOK, JobStatus
  <2>2. consumer' \in [Consumers -> ConsumerRecord]
    BY <1>3, <1>4 DEF IInv, TypeOK, ConsumerRecord
  <2>. QED BY <1>3, <2>1, <2>2 DEF IInv, TypeOK, ConsumerRecord
<1>10. ConsumerInv'
  <2>. SUFFICES ASSUME NEW d \in Consumers PROVE Fits(consumer[d])'
    BY DEF ConsumerInv
  <2>1. CASE d = c
    BY <1>7, <2>1 DEF Fits, AtRest, Fresh, Working, Holding
  <2>2. CASE d # c
    BY <1>3, <1>5, <1>7, <1>8, <2>2 DEF IInv, ConsumerInv, Fits, Working, Holding
  <2>. QED BY <2>1, <2>2
<1>11. SingleOwner'
  BY <1>3, <1>4, KeepOrRelease DEF IInv
<1>12. ClaimsInv' /\ AttemptInv'
  BY <1>1, <1>2, <1>3, <1>5, <1>6 DEF IInv, TypeOK, ClaimsInv, AttemptInv
<1>13. DeadLetterMatchesRow' /\ ResultIsTheStoredGrade' /\ CompletedMeansFinalized'
  BY <1>1, <1>3, <1>5, <1>6
  DEF IInv, DeadLetterMatchesRow, ResultIsTheStoredGrade, CompletedMeansFinalized
<1>. QED BY <1>9, <1>10, <1>11, <1>12, <1>13 DEF IInv

(* A dead-lettered row has used up its retries and gets its one record. *)
LEMMA MoveToDLQStep ==
  ASSUME IInv, NEW c \in Consumers, MoveJobToDLQ(c)
  PROVE  IInv'
<1>. DEFINE j == consumer[c].job
<1>1. /\ j \in Jobs /\ row[j].status \in {"PROCESSING", "COMPLETED"}
      /\ consumer[c].pc \in Holding /\ consumer[c].count = row[j].retries
  BY DEF IInv, ConsumerInv, Fits, Holding, MoveJobToDLQ
<1>2. row[j].retries = MaxRetries
  BY <1>1, GradingAssumption DEF GradingAssumption, IInv, TypeOK, MoveJobToDLQ
<1>3. /\ UNCHANGED <<backingOff, attempt, overdue, pools, stopping, claims>>
      /\ dlq' = [dlq EXCEPT ![j] = @ + 1]
      /\ row' = [row EXCEPT ![j] = [row[j] EXCEPT !.status = "FAILED"]]
      /\ consumer' = [consumer EXCEPT ![c] = AtRest("idle")]
  BY DEF MoveJobToDLQ, attemptVars, processVars
<1>4. AtRest("idle") \in ConsumerRecord /\ AtRest("idle").pc \notin Holding
  BY GradingAssumption DEF GradingAssumption, AtRest, Fresh, ConsumerRecord, Positions,
     Outcomes, Holding, Working
<1>5. \A i \in Jobs : i # j => row'[i] = row[i] /\ dlq'[i] = dlq[i]
  BY <1>3 DEF IInv, TypeOK
<1>6. /\ row'[j].status = "FAILED" /\ row'[j].retries = row[j].retries
      /\ row'[j].result = row[j].result /\ dlq'[j] = dlq[j] + 1
  BY <1>1, <1>3 DEF IInv, TypeOK
<1>7. \A d \in Consumers : consumer'[d] = IF d = c THEN AtRest("idle") ELSE consumer[d]
  BY <1>3 DEF IInv, TypeOK
<1>8. \A d \in Consumers \ {c} : consumer[d].pc \in Holding => consumer[d].job # j
  BY <1>1 DEF IInv, SingleOwner
<1>. HIDE DEF j
<1>9. TypeOK'
  <2>1. row' \in [Jobs -> [status : JobStatus, retries : 0..MaxRetries, result : BOOLEAN]]
    <3>1. [row[j] EXCEPT !.status = "FAILED"]
            \in [status : JobStatus, retries : 0..MaxRetries, result : BOOLEAN]
      BY <1>1 DEF IInv, TypeOK, JobStatus
    <3>. QED BY <1>3, <3>1 DEF IInv, TypeOK
  <2>2. consumer' \in [Consumers -> ConsumerRecord]
    <3>1. consumer' = [consumer EXCEPT ![c] = AtRest("idle")]
      BY <1>3
    <3>. QED BY <1>4, <3>1 DEF IInv, TypeOK, ConsumerRecord
  <2>3. dlq' \in [Jobs -> Nat]
    <3>1. dlq' = [dlq EXCEPT ![j] = @ + 1] /\ j \in Jobs
      BY <1>1, <1>3
    <3>. QED BY <3>1 DEF IInv, TypeOK
  <2>. QED BY <1>3, <2>1, <2>2, <2>3 DEF IInv, TypeOK, ConsumerRecord
<1>10. ConsumerInv'
  <2>. SUFFICES ASSUME NEW d \in Consumers PROVE Fits(consumer[d])'
    BY DEF ConsumerInv
  <2>1. CASE d = c
    BY <1>7, <2>1 DEF Fits, AtRest, Fresh, Working, Holding
  <2>2. CASE d # c
    BY <1>3, <1>5, <1>7, <1>8, <2>2 DEF IInv, ConsumerInv, Fits, Working, Holding
  <2>. QED BY <2>1, <2>2
<1>11. SingleOwner'
  BY <1>3, <1>4, KeepOrRelease DEF IInv
<1>12. ClaimsInv' /\ AttemptInv'
  BY <1>1, <1>2, <1>3, <1>5, <1>6 DEF IInv, TypeOK, ClaimsInv, AttemptInv
<1>13. DeadLetterMatchesRow' /\ ResultIsTheStoredGrade' /\ CompletedMeansFinalized'
  BY <1>1, <1>3, <1>5, <1>6
  DEF IInv, DeadLetterMatchesRow, ResultIsTheStoredGrade, CompletedMeansFinalized
<1>. QED BY <1>9, <1>10, <1>11, <1>12, <1>13 DEF IInv

-----------------------------------------------------------------------------
(* The step that writes attempts. *)

(* finalizeAttempt writes a SUBMITTED attempt, which carries no grade yet, *)
(* so it takes no grade from any job or consumer that relies on one.       *)
LEMMA FinalizeStep ==
  ASSUME IInv, NEW c \in Consumers, NEW pc \in {"persisted", "caught"},
         consumer[c].pc = "graded",
         attempt[AttemptHeld(c)].status = "SUBMITTED",
         attempt' = [attempt EXCEPT ![AttemptHeld(c)] = Finalized(c)],
         consumer' = [consumer EXCEPT ![c].pc = pc],
         UNCHANGED <<jobVars, overdue, processVars, claims>>
  PROVE  IInv'
<1>. DEFINE j == consumer[c].job
            a == AttemptOf[j]
            r == [consumer[c] EXCEPT !.pc = pc]
<1>1. /\ consumer[c] \in ConsumerRecord /\ consumer[c].pc \in Holding
      /\ j \in Jobs /\ row[j].status = "PROCESSING"
  BY DEF IInv, TypeOK, ConsumerRecord, ConsumerInv, Fits, Holding, Working
<1>2. a \in Attempts /\ j # NoJob
  BY <1>1, GradingAssumption DEF GradingAssumption, Jobs, NoJob
<1>3. /\ UNCHANGED <<row, backingOff, dlq, overdue, pools, stopping, claims>>
      /\ attempt[a].status = "SUBMITTED"
      /\ attempt' = [attempt EXCEPT ![a] = Finalized(c)]
      /\ consumer' = [consumer EXCEPT ![c] = r]
  BY DEF AttemptHeld, jobVars, processVars
<1>4. attempt[a].gradedBy = NoJob
  BY <1>2, <1>3 DEF IInv, TypeOK, AttemptInv
<1>5. Finalized(c) \in [status : {"SUBMITTED", "FINALIZED"},
                        gradedBy : Jobs \cup {NoJob}, outcome : Outcomes]
  BY <1>1 DEF Finalized, ConsumerRecord
<1>6. Finalized(c).status = "FINALIZED" /\ Finalized(c).gradedBy = j
  BY DEF Finalized
<1>7. r \in ConsumerRecord /\ r.pc = pc /\ r.job = j
  BY <1>1 DEF ConsumerRecord, Positions, Holding, Working
<1>. HIDE DEF j, a, r
<1>8. \A b \in Attempts : attempt'[b] = IF b = a THEN Finalized(c) ELSE attempt[b]
  BY <1>3 DEF IInv, TypeOK
<1>9. \A d \in Consumers : consumer'[d] = IF d = c THEN r ELSE consumer[d]
  BY <1>3 DEF IInv, TypeOK
<1>10. \A b \in Attempts : /\ attempt[b].status = "FINALIZED" => attempt'[b] = attempt[b]
                           /\ attempt[b].gradedBy # NoJob => attempt'[b] = attempt[b]
  BY <1>3, <1>4, <1>8
<1>11. TypeOK'
  <2>1. consumer' \in [Consumers -> ConsumerRecord]
    BY <1>7, <1>9, <1>3 DEF IInv, TypeOK, ConsumerRecord
  <2>2. attempt' \in [Attempts -> [status : {"SUBMITTED", "FINALIZED"},
                                   gradedBy : Jobs \cup {NoJob}, outcome : Outcomes]]
    BY <1>3, <1>5 DEF IInv, TypeOK
  <2>. QED BY <1>3, <2>1, <2>2 DEF IInv, TypeOK, ConsumerRecord
<1>12. ConsumerInv'
  <2>. SUFFICES ASSUME NEW d \in Consumers PROVE Fits(consumer[d])'
    BY DEF ConsumerInv
  <2>1. CASE d = c
    BY <1>1, <1>2, <1>3, <1>6, <1>7, <1>8, <1>9, <2>1 DEF Fits, Working, Holding, a
  <2>2. CASE d # c
    <3>1. consumer'[d] = consumer[d] /\ Fits(consumer[d])
      BY <1>9, <2>2 DEF IInv, ConsumerInv
    <3>2. consumer[d].job \in Jobs => AttemptOf[consumer[d].job] \in Attempts
      BY GradingAssumption DEF GradingAssumption
    <3>3. consumer[d].job \in Jobs => consumer[d].job # NoJob
      BY DEF Jobs, NoJob
    <3>. QED BY <1>3, <1>10, <3>1, <3>2, <3>3 DEF Fits, Working, Holding
  <2>. QED BY <2>1, <2>2
<1>13. SingleOwner'
  BY <1>1, <1>3, <1>7, KeepOrRelease DEF IInv, j
<1>14. ClaimsInv' /\ DeadLetterMatchesRow'
  BY <1>3 DEF IInv, ClaimsInv, DeadLetterMatchesRow
<1>15. AttemptInv'
  BY <1>2, <1>6, <1>8 DEF IInv, AttemptInv
<1>16. ResultIsTheStoredGrade'
  <2>. SUFFICES ASSUME NEW i \in Jobs, row[i].result
                PROVE  attempt'[AttemptOf[i]].gradedBy = i
    BY <1>3 DEF ResultIsTheStoredGrade
  <2>1. attempt[AttemptOf[i]].gradedBy = i /\ i # NoJob /\ AttemptOf[i] \in Attempts
    BY GradingAssumption DEF GradingAssumption, IInv, ResultIsTheStoredGrade, Jobs, NoJob
  <2>. QED BY <1>10, <2>1
<1>17. CompletedMeansFinalized'
  <2>. SUFFICES ASSUME NEW i \in Jobs, row[i].status = "COMPLETED"
                PROVE  attempt'[AttemptOf[i]].status = "FINALIZED"
    BY <1>3 DEF CompletedMeansFinalized
  <2>1. attempt[AttemptOf[i]].status = "FINALIZED" /\ AttemptOf[i] \in Attempts
    BY GradingAssumption DEF GradingAssumption, IInv, CompletedMeansFinalized
  <2>. QED BY <1>10, <2>1
<1>. QED BY <1>11, <1>12, <1>13, <1>14, <1>15, <1>16, <1>17 DEF IInv

-----------------------------------------------------------------------------
(* The initial state: every process is down and no row exists. *)
LEMMA InitIInv == Init => IInv
BY GradingAssumption
DEF GradingAssumption, Init, IInv, TypeOK, ConsumerInv, Fits, SingleOwner, ClaimsInv,
    AttemptInv, DeadLetterMatchesRow, ResultIsTheStoredGrade, CompletedMeansFinalized,
    AtRest, Fresh, Positions, Holding, Working, JobStatus, Outcomes, Jobs, NoJob

(* The loop preserves the invariant. *)
LEMMA LoopStepIInv ==
  ASSUME IInv, NEW c \in Consumers, LoopStep(c)
  PROVE  IInv'
<1>1. CASE DequeueJob(c)
  BY <1>1, DequeueStep
<1>2. CASE ClaimJob(c)
  BY <1>2, ClaimStep
<1>3. CASE LoadSubmittedAttempt(c)
  BY <1>3, LoadSubmittedStep
<1>4. CASE LoadFinalizedAttempt(c)
  BY <1>4, LoadFinalizedStep
<1>5. CASE TenantPoolMissing(c)
  BY <1>5, CatchStep DEF TenantPoolMissing, Working
<1>6. CASE GradeAttempt(c)
  BY <1>6, GradeStep
<1>7. CASE GradeAttemptThrows(c)
  BY <1>7, CatchStep DEF GradeAttemptThrows, Working
<1>8. CASE FinalizeAttempt(c)
  BY <1>8, FinalizeStep DEF FinalizeAttempt
<1>9. CASE FinalizeRejected(c)
  BY <1>9, CatchStep DEF FinalizeRejected, Working
<1>10. CASE CompleteJob(c)
  <2>1. AtRest("idle") \in ConsumerRecord
    BY GradingAssumption
    DEF GradingAssumption, AtRest, Fresh, ConsumerRecord, Positions, Outcomes
  <2>. QED BY <1>10, <2>1, CompleteStep DEF CompleteJob
<1>11. CASE GetFailedJob(c)
  BY <1>11, GetFailedStep
<1>12. CASE RequeueJobWithDelay(c)
  BY <1>12, RequeueStep
<1>13. CASE MoveJobToDLQ(c)
  BY <1>13, MoveToDLQStep
<1>. QED BY <1>1, <1>2, <1>3, <1>4, <1>5, <1>6, <1>7, <1>8, <1>9, <1>10, <1>11, <1>12,
            <1>13 DEF LoopStep

(* So do lost replies, failed statements, and the life of the process. *)
LEMMA FaultStepIInv ==
  ASSUME IInv, NEW c \in Consumers, LostOrFailed(c) \/ ProcessStep(c)
  PROVE  IInv'
<1>. USE DEF processVars
<1>1. CASE DequeueReplyLost(c)
  BY <1>1, RestStep DEF DequeueReplyLost, IInv, TypeOK
<1>2. CASE FinalizeReplyLost(c)
  BY <1>2, FinalizeStep DEF FinalizeReplyLost
<1>3. CASE CompleteReplyLost(c)
  <2>. DEFINE r == [consumer[c] EXCEPT !.pc = "caught"]
  <2>1. consumer[c] \in ConsumerRecord
    BY DEF IInv, TypeOK, ConsumerRecord
  <2>2. r \in ConsumerRecord /\ r.pc = "caught" /\ r.job = consumer[c].job
    BY <2>1 DEF ConsumerRecord, Positions, Holding
  <2>3. /\ consumer[c].pc \in {"persisted", "skipping"} /\ WriteCompleted(c)
        /\ consumer' = [consumer EXCEPT ![c] = r]
    BY <1>3 DEF CompleteReplyLost
  <2>. HIDE DEF r
  <2>. QED BY <2>2, <2>3, CompleteStep
<1>4. CASE StatementFails(c)
  BY <1>4, CatchStep DEF StatementFails
<1>5. CASE FailureHandlerThrows(c)
  BY <1>5, RestStep DEF FailureHandlerThrows, IInv, TypeOK
<1>6. CASE RequestStop(c)
  BY <1>6, QuietStep DEF RequestStop, jobVars, attemptVars, IInv, TypeOK
<1>7. CASE StopProcess(c)
  BY <1>7, RestStep DEF StopProcess, IInv, TypeOK
<1>8. CASE Crash(c)
  BY <1>8, RestStep DEF Crash, IInv, TypeOK
<1>9. CASE StartWorker(c)
  BY <1>9, RestStep DEF StartWorker, IInv, TypeOK
<1>. QED BY <1>1, <1>2, <1>3, <1>4, <1>5, <1>6, <1>7, <1>8, <1>9
         DEF LostOrFailed, ProcessStep

(* The invariant is inductive. *)
LEMMA NextIInv == IInv /\ [Next]_vars => IInv'
<1>. SUFFICES ASSUME IInv, [Next]_vars PROVE IInv'
  OBVIOUS
<1>. USE DEF jobVars, attemptVars, processVars
<1>1. ASSUME NEW j \in Jobs, EnqueueGradingJob(j) PROVE IInv'
  BY <1>1, EnqueueStep
<1>2. ASSUME NEW j \in Jobs, BackoffElapses(j) PROVE IInv'
  BY <1>2, QuietStep DEF BackoffElapses, IInv, TypeOK
<1>3. ASSUME NEW a \in Attempts, LimitPasses(a) PROVE IInv'
  BY <1>3, QuietStep DEF LimitPasses, IInv, TypeOK
<1>4. ASSUME NEW c \in Consumers, NEW w \in Workspaces, OpenTenantPool(c, w) PROVE IInv'
  BY <1>4, QuietStep DEF OpenTenantPool, IInv, TypeOK
<1>5. CASE UNCHANGED vars
  BY <1>5, QuietStep DEF vars, IInv, TypeOK
<1>. QED BY <1>1, <1>2, <1>3, <1>4, <1>5, LoopStepIInv, FaultStepIInv DEF Next

(* The inductive invariant holds in every reachable state. *)
LEMMA Invariance == Spec => []IInv
BY InitIInv, NextIInv, PTL DEF Spec

-----------------------------------------------------------------------------
(* Every reachable state has the shape of the tables and processes. *)
THEOREM TypeCorrect == Spec => []TypeOK
BY Invariance, PTL DEF IInv

(* No grading job is ever in the hands of two consumers, whatever crashes, *)
(* lost replies, requeues and restarts happen.                             *)
THEOREM MutualExclusion == Spec => []SingleOwner
BY Invariance, PTL DEF IInv

(* No job is tried more than MaxRetries + 1 times, and a job is given up   *)
(* only after exactly that many tries.                                     *)
THEOREM BoundedRetries == Spec => []RetryBudget
<1>1. IInv => RetryBudget
  BY GradingAssumption DEF GradingAssumption, IInv, TypeOK, ClaimsInv, RetryBudget
<1>. QED BY <1>1, Invariance, PTL

(* Every FAILED job has exactly one dead-letter record, no other has any. *)
THEOREM DeadLetterExact == Spec => []DeadLetterMatchesRow
BY Invariance, PTL DEF IInv

(* The result a job reports is the grade its attempt carries. *)
THEOREM HonestResult == Spec => []ResultIsTheStoredGrade
BY Invariance, PTL DEF IInv

(* A job reported COMPLETED has a FINALIZED attempt. *)
THEOREM HonestCompletion == Spec => []CompletedMeansFinalized
BY Invariance, PTL DEF IInv

-----------------------------------------------------------------------------
(* What a consumer does to attempts when it finalises one. *)
Finalizes(c) ==
  /\ consumer[c].pc = "graded"
  /\ attempt[AttemptHeld(c)].status = "SUBMITTED"
  /\ attempt' = [attempt EXCEPT ![AttemptHeld(c)] = Finalized(c)]
  /\ UNCHANGED row

(* Nothing but finalizeAttempt writes an attempt. *)
LEMMA OnlyFinalizeWrites ==
  ASSUME [Next]_vars
  PROVE  UNCHANGED attempt \/ \E c \in Consumers : Finalizes(c)
<1>. USE DEF attemptVars, jobVars
<1>1. ASSUME NEW c \in Consumers, LoopStep(c)
      PROVE  UNCHANGED attempt \/ Finalizes(c)
  BY <1>1 DEF LoopStep, DequeueJob, ClaimJob, LoadSubmittedAttempt, LoadFinalizedAttempt,
     TenantPoolMissing, GradeAttempt, GradeAttemptThrows, FinalizeAttempt, FinalizeRejected,
     CompleteJob, WriteCompleted, GetFailedJob, RequeueJobWithDelay, MoveJobToDLQ, Catch,
     Finalizes
<1>2. ASSUME NEW c \in Consumers, LostOrFailed(c) \/ ProcessStep(c)
      PROVE  UNCHANGED attempt \/ Finalizes(c)
  BY <1>2 DEF LostOrFailed, ProcessStep, DequeueReplyLost, FinalizeReplyLost,
     CompleteReplyLost, WriteCompleted, StatementFails, Catch, FailureHandlerThrows,
     RequestStop, StopProcess, Crash, StartWorker, Finalizes
<1>3. CASE UNCHANGED vars
  BY <1>3 DEF vars
<1>. QED BY <1>1, <1>2, <1>3
         DEF Next, EnqueueGradingJob, BackoffElapses, LimitPasses, OpenTenantPool

(* No double grading: whichever job, retry or replica comes later, a       *)
(* stored grade stays as it is.                                            *)
THEOREM FinalGrade == Spec => GradeIsFinal
<1>1. ASSUME IInv, [Next]_vars
      PROVE  \A a \in Attempts : attempt[a].status = "FINALIZED" => attempt'[a] = attempt[a]
  <2>1. CASE UNCHANGED attempt
    BY <2>1
  <2>2. ASSUME NEW c \in Consumers, Finalizes(c)
        PROVE  \A a \in Attempts : attempt[a].status = "FINALIZED" => attempt'[a] = attempt[a]
    BY <2>2 DEF Finalizes, IInv, TypeOK
  <2>. QED BY <1>1, <2>1, <2>2, OnlyFinalizeWrites
<1>. QED BY <1>1, Invariance, PTL DEF Spec, GradeIsFinal

(* What SubmitAttempt reduces the whole worker to, its action GradeAttempt: *)
(* an attempt changes only from SUBMITTED to FINALIZED, by a job of its own *)
(* that has been queued and is being worked on.                             *)
THEOREM AttemptsOnlyGraded ==
  Spec => [][\A a \in Attempts : attempt'[a] # attempt[a] =>
               /\ attempt[a].status = "SUBMITTED" /\ attempt'[a].status = "FINALIZED"
               /\ \E j \in Jobs : /\ AttemptOf[j] = a /\ attempt'[a].gradedBy = j
                                 /\ row[j].status = "PROCESSING"]_vars
<1>. DEFINE Graded(a) ==
       /\ attempt[a].status = "SUBMITTED" /\ attempt'[a].status = "FINALIZED"
       /\ \E j \in Jobs : /\ AttemptOf[j] = a /\ attempt'[a].gradedBy = j
                         /\ row[j].status = "PROCESSING"
<1>1. ASSUME IInv, [Next]_vars, NEW a \in Attempts, attempt'[a] # attempt[a] PROVE Graded(a)
  <2>1. PICK c \in Consumers : Finalizes(c)
    BY <1>1, OnlyFinalizeWrites
  <2>2. consumer[c].job \in Jobs /\ row[consumer[c].job].status = "PROCESSING"
    BY <1>1, <2>1 DEF Finalizes, IInv, ConsumerInv, Fits, Holding, Working
  <2>3. AttemptHeld(c) = a /\ attempt'[a] = Finalized(c)
    BY <1>1, <2>1 DEF Finalizes, IInv, TypeOK
  <2>. QED BY <2>1, <2>2, <2>3 DEF Finalizes, Finalized, AttemptHeld
<1>2. IInv /\ [Next]_vars
        => [\A a \in Attempts : attempt'[a] # attempt[a] => Graded(a)]_vars
  BY <1>1
<1>. QED BY <1>2, Invariance, PTL DEF Spec

-----------------------------------------------------------------------------
(* The refinement of GradingService. *)

(* Which step of the service a change of one row's status is. *)
LEMMA StatusStep ==
  ASSUME IInv, UNCHANGED attempt, NEW j \in Jobs,
         \A i \in Jobs \ {j} : row'[i].status = row[i].status,
         \/ row'[j].status = row[j].status
         \/ row[j].status = "ABSENT" /\ row'[j].status = "PENDING"
         \/ /\ row[j].status \in {"PENDING", "PROCESSING", "COMPLETED"}
            /\ row'[j].status \in {"PENDING", "PROCESSING", "COMPLETED", "FAILED"}
  PROVE  [Service!SNext]_(Service!svars)
<1>. DEFINE o == ServiceOutcome
<1>1. \A i \in Jobs : o[i] = IF row[i].status = "ABSENT" THEN "absent"
                             ELSE IF row[i].status = "FAILED" THEN "given_up" ELSE "open"
  BY DEF ServiceOutcome
<1>2. \A i \in Jobs : o'[i] = IF row'[i].status = "ABSENT" THEN "absent"
                              ELSE IF row'[i].status = "FAILED" THEN "given_up" ELSE "open"
  BY DEF ServiceOutcome
<1>3. o = [i \in Jobs |-> o[i]] /\ o' = [i \in Jobs |-> o'[i]]
  BY DEF ServiceOutcome
<1>4. [a \in Attempts |-> attempt[a].gradedBy]' = [a \in Attempts |-> attempt[a].gradedBy]
  OBVIOUS
<1>. HIDE DEF o
<1>5. \A i \in Jobs \ {j} : o'[i] = o[i]
  BY <1>1, <1>2
<1>6. CASE o'[j] = o[j]
  <2>1. o' = o
    BY <1>3, <1>5, <1>6
  <2>. QED BY <1>4, <2>1 DEF Service!svars, o
<1>7. CASE o[j] = "absent" /\ o'[j] = "open"
  <2>1. o' = [o EXCEPT ![j] = "open"]
    BY <1>3, <1>5, <1>7
  <2>2. Service!Accept(j)
    BY <1>4, <1>7, <2>1 DEF Service!Accept, o
  <2>. QED BY <2>2 DEF Service!SNext, Service!Jobs, Jobs
<1>8. CASE o[j] = "open" /\ o'[j] = "given_up"
  <2>1. o' = [o EXCEPT ![j] = "given_up"]
    BY <1>3, <1>5, <1>8
  <2>2. Service!GiveUp(j)
    BY <1>4, <1>8, <2>1 DEF Service!GiveUp, o
  <2>. QED BY <2>2 DEF Service!SNext, Service!Jobs, Jobs
<1>. QED BY <1>1, <1>2, <1>6, <1>7, <1>8

(* Finalising is awarding the grade. *)
LEMMA AwardStep ==
  ASSUME IInv, NEW c \in Consumers, Finalizes(c)
  PROVE  [Service!SNext]_(Service!svars)
<1>. DEFINE g == [a \in Attempts |-> attempt[a].gradedBy]
<1>1. PICK j \in Jobs : j = consumer[c].job /\ row[j].status = "PROCESSING"
  BY DEF Finalizes, IInv, ConsumerInv, Fits, Holding, Working
<1>2. AttemptOf[j] \in Attempts /\ attempt[AttemptOf[j]].gradedBy = NoJob
  BY <1>1, GradingAssumption
  DEF GradingAssumption, Finalizes, AttemptHeld, IInv, TypeOK, AttemptInv
<1>3. ServiceOutcome[j] = "open" /\ ServiceOutcome' = ServiceOutcome
  BY <1>1 DEF ServiceOutcome, Finalizes
<1>4. g' = [g EXCEPT ![AttemptOf[j]] = j]
  BY <1>1, <1>2 DEF Finalizes, AttemptHeld, Finalized, IInv, TypeOK
<1>5. Service!Award(j)
  BY <1>2, <1>3, <1>4 DEF Service!Award, NoJob, Service!NoJob
<1>. QED BY <1>5 DEF Service!SNext, Service!Jobs, Jobs

(* Every step of the queue is a step of the service, or a stutter. *)
LEMMA ServiceStep == IInv /\ [Next]_vars => [Service!SNext]_(Service!svars)
<1>. SUFFICES ASSUME IInv, [Next]_vars PROVE [Service!SNext]_(Service!svars)
  OBVIOUS
<1>. USE DEF attemptVars, jobVars
<1>1. CASE UNCHANGED <<row, attempt>>
  BY <1>1 DEF ServiceOutcome, Service!svars
<1>2. ASSUME NEW c \in Consumers, Finalizes(c)
      PROVE  [Service!SNext]_(Service!svars)
  BY <1>2, AwardStep
<1>3. ASSUME NEW j \in Jobs, EnqueueGradingJob(j)
      PROVE  [Service!SNext]_(Service!svars)
  BY <1>3, StatusStep DEF EnqueueGradingJob, IInv, TypeOK
<1>4. ASSUME NEW c \in Consumers, DequeueJob(c)
      PROVE  [Service!SNext]_(Service!svars)
  <2>1. PICK j \in Jobs : /\ row[j].status = "PENDING"
                          /\ row' = [row EXCEPT ![j].status = "PROCESSING"]
    BY <1>4 DEF DequeueJob
  <2>2. UNCHANGED attempt
    BY <1>4 DEF DequeueJob
  <2>. QED BY <2>1, <2>2, StatusStep DEF IInv, TypeOK
<1>5. ASSUME NEW c \in Consumers,
             \/ ClaimJob(c) \/ CompleteJob(c) \/ CompleteReplyLost(c)
             \/ RequeueJobWithDelay(c) \/ MoveJobToDLQ(c)
      PROVE  [Service!SNext]_(Service!svars)
  <2>. DEFINE j == consumer[c].job
  <2>1. consumer[c].pc \in Holding
    BY <1>5 DEF ClaimJob, CompleteJob, CompleteReplyLost, RequeueJobWithDelay, MoveJobToDLQ,
       Holding, Working
  <2>2. j \in Jobs /\ row[j].status \in {"PROCESSING", "COMPLETED"}
    BY <2>1 DEF IInv, ConsumerInv, Fits, Holding, Working
  <2>3. UNCHANGED attempt
    BY <1>5 DEF ClaimJob, CompleteJob, CompleteReplyLost, WriteCompleted,
       RequeueJobWithDelay, MoveJobToDLQ
  <2>4. /\ \A i \in Jobs \ {j} : row'[i].status = row[i].status
        /\ row'[j].status \in {"PENDING", "PROCESSING", "COMPLETED", "FAILED"}
    <3>1. CASE ClaimJob(c)
      BY <2>2, <3>1 DEF ClaimJob, IInv, TypeOK
    <3>2. CASE CompleteJob(c) \/ CompleteReplyLost(c)
      BY <2>2, <3>2 DEF CompleteJob, CompleteReplyLost, WriteCompleted, IInv, TypeOK
    <3>3. CASE RequeueJobWithDelay(c)
      BY <2>2, <3>3 DEF RequeueJobWithDelay, IInv, TypeOK
    <3>4. CASE MoveJobToDLQ(c)
      BY <2>2, <3>4 DEF MoveJobToDLQ, IInv, TypeOK
    <3>. QED BY <1>5, <3>1, <3>2, <3>3, <3>4
  <2>. HIDE DEF j
  <2>. QED BY <2>2, <2>3, <2>4, StatusStep
<1>6. ASSUME NEW c \in Consumers, LoopStep(c)
      PROVE  [Service!SNext]_(Service!svars)
  BY <1>1, <1>2, <1>4, <1>5, <1>6
  DEF LoopStep, LoadSubmittedAttempt, LoadFinalizedAttempt, TenantPoolMissing, GradeAttempt,
      GradeAttemptThrows, FinalizeAttempt, FinalizeRejected, GetFailedJob, Catch, Finalizes
<1>7. ASSUME NEW c \in Consumers, LostOrFailed(c) \/ ProcessStep(c)
      PROVE  [Service!SNext]_(Service!svars)
  BY <1>1, <1>2, <1>5, <1>7
  DEF LostOrFailed, ProcessStep, DequeueReplyLost, FinalizeReplyLost, StatementFails, Catch,
      FailureHandlerThrows, RequestStop, StopProcess, Crash, StartWorker, Finalizes
<1>8. CASE UNCHANGED vars
  BY <1>1, <1>8 DEF vars
<1>. QED BY <1>1, <1>3, <1>6, <1>7, <1>8
         DEF Next, BackoffElapses, LimitPasses, OpenTenantPool

(* The grading pipeline implements the service it promises: one grade per  *)
(* attempt, from a job queued for it, and no grade from a job given up.    *)
THEOREM Refinement == Spec => ImplementsService
<1>1. Init => Service!SInit
  BY DEF Init, Service!SInit, ServiceOutcome, Service!Jobs, Jobs, NoJob, Service!NoJob
<1>. QED BY <1>1, ServiceStep, Invariance, PTL
         DEF Spec, ImplementsService, Service!SSpec

-----------------------------------------------------------------------------
(* What the grading_stop and grading_result_lost runs refute does hold     *)
(* without the fault that each of them needs.                              *)

(* Every PROCESSING row is held by a consumer in the middle of a job.      *)
HeldInv ==
  /\ stopping = {}
  /\ \A j \in Jobs : row[j].status = "PROCESSING"
                     => \E c \in Consumers : consumer[c].pc \in Holding /\ consumer[c].job = j

(* A step of one consumer that still holds its job, or has closed its row. *)
LEMMA HeldStep ==
  ASSUME IInv, HeldInv, NEW c \in Consumers, UNCHANGED stopping,
         \A d \in Consumers \ {c} : consumer'[d] = consumer[d],
         \A i \in Jobs : row'[i].status = "PROCESSING" => row[i].status = "PROCESSING",
         consumer[c].pc \in Holding =>
           \/ consumer'[c].pc \in Holding /\ consumer'[c].job = consumer[c].job
           \/ row'[consumer[c].job].status # "PROCESSING"
  PROVE  HeldInv'
BY DEF HeldInv

LEMMA HeldNext ==
  ASSUME Faults \subseteq {"grading"}, IInv, HeldInv, [Next]_vars PROVE HeldInv'
<1>. USE DEF jobVars, attemptVars, processVars
<1>0. consumer \in [Consumers -> ConsumerRecord]
  BY DEF IInv, TypeOK, ConsumerRecord
<1>1. ASSUME NEW c \in Consumers, DequeueJob(c) PROVE HeldInv'
  <2>1. PICK j \in Jobs :
           /\ row[j].status = "PENDING"
           /\ row' = [row EXCEPT ![j].status = "PROCESSING"]
           /\ consumer' = [consumer EXCEPT ![c] = Fresh("dequeued", j)]
    BY <1>1 DEF DequeueJob
  <2>2. consumer[c].pc = "idle" /\ UNCHANGED stopping
    BY <1>1 DEF DequeueJob
  <2>3. /\ consumer'[c].pc \in Holding /\ consumer'[c].job = j
        /\ \A d \in Consumers \ {c} : consumer'[d] = consumer[d]
    BY <1>0, <2>1 DEF Fresh, Holding
  <2>4. \A i \in Jobs \ {j} : row'[i] = row[i]
    BY <2>1
  <2>5. consumer[c].pc \notin Holding
    BY <2>2 DEF Holding, Working
  <2>. QED BY <2>2, <2>3, <2>4, <2>5 DEF HeldInv
<1>2. ASSUME NEW c \in Consumers,
             \/ ClaimJob(c) \/ LoadSubmittedAttempt(c) \/ LoadFinalizedAttempt(c)
             \/ TenantPoolMissing(c) \/ GradeAttempt(c) \/ GradeAttemptThrows(c)
             \/ FinalizeAttempt(c) \/ FinalizeRejected(c) \/ GetFailedJob(c)
      PROVE  HeldInv'
  <2>1. /\ consumer'[c].pc \in Holding /\ consumer'[c].job = consumer[c].job
        /\ \A d \in Consumers \ {c} : consumer'[d] = consumer[d]
    BY <1>0, <1>2 DEF ConsumerRecord, ClaimJob, LoadSubmittedAttempt, LoadFinalizedAttempt,
       TenantPoolMissing, GradeAttempt, GradeAttemptThrows, FinalizeAttempt, FinalizeRejected,
       GetFailedJob, Catch, Holding, Working
  <2>2. UNCHANGED stopping
    BY <1>2 DEF ClaimJob, LoadSubmittedAttempt, LoadFinalizedAttempt,
       TenantPoolMissing, GradeAttempt, GradeAttemptThrows, FinalizeAttempt, FinalizeRejected,
       GetFailedJob, Catch
  <2>3. ASSUME NEW i \in Jobs, row'[i].status = "PROCESSING" PROVE row[i].status = "PROCESSING"
    <3>1. CASE ClaimJob(c)
      <4>1. row[consumer[c].job].status = "PROCESSING"
        BY <3>1 DEF ClaimJob, IInv, ConsumerInv, Fits
      <4>2. i # consumer[c].job => row'[i] = row[i]
        BY <3>1 DEF ClaimJob, IInv, TypeOK
      <4>. QED BY <2>3, <4>1, <4>2
    <3>2. CASE UNCHANGED row
      BY <2>3, <3>2
    <3>. QED BY <1>2, <3>1, <3>2 DEF LoadSubmittedAttempt, LoadFinalizedAttempt,
         TenantPoolMissing, GradeAttempt, GradeAttemptThrows, FinalizeAttempt,
         FinalizeRejected, GetFailedJob, Catch
  <2>. QED BY <2>1, <2>2, <2>3, HeldStep
<1>3. ASSUME NEW c \in Consumers,
             CompleteJob(c) \/ RequeueJobWithDelay(c) \/ MoveJobToDLQ(c)
      PROVE  HeldInv'
  <2>. DEFINE j == consumer[c].job
  <2>1. consumer[c].pc \in Holding
    BY <1>3 DEF CompleteJob, RequeueJobWithDelay, MoveJobToDLQ, Holding, Working
  <2>2. j \in Jobs
    BY <2>1 DEF IInv, ConsumerInv, Fits
  <2>3. /\ row'[j].status # "PROCESSING"
        /\ \A i \in Jobs \ {j} : row'[i].status = row[i].status
    <3>1. CASE CompleteJob(c)
      BY <2>2, <3>1 DEF CompleteJob, WriteCompleted, IInv, TypeOK
    <3>2. CASE RequeueJobWithDelay(c)
      BY <2>2, <3>2 DEF RequeueJobWithDelay, IInv, TypeOK
    <3>3. CASE MoveJobToDLQ(c)
      BY <2>2, <3>3 DEF MoveJobToDLQ, IInv, TypeOK
    <3>. QED BY <1>3, <3>1, <3>2, <3>3
  <2>4. /\ UNCHANGED stopping
        /\ \A d \in Consumers \ {c} : consumer'[d] = consumer[d]
    BY <1>0, <1>3 DEF CompleteJob, WriteCompleted, RequeueJobWithDelay, MoveJobToDLQ
  <2>. QED BY <2>3, <2>4, HeldStep
<1>4. ASSUME NEW c \in Consumers, StartWorker(c) PROVE HeldInv'
  <2>1. /\ consumer[c].pc \notin Holding
        /\ \A d \in Consumers \ {c} : consumer'[d] = consumer[d]
    BY <1>0, <1>4 DEF StartWorker, Holding, Working
  <2>2. stopping' = {} /\ UNCHANGED row
    BY <1>4 DEF StartWorker, HeldInv
  <2>. QED BY <2>1, <2>2, HeldStep DEF HeldInv
<1>5. ASSUME NEW c \in Consumers
      PROVE  /\ ~LostOrFailed(c)
             /\ ~RequestStop(c) /\ ~StopProcess(c) /\ ~Crash(c)
  BY DEF LostOrFailed, DequeueReplyLost, FinalizeReplyLost, CompleteReplyLost,
     StatementFails, FailureHandlerThrows, RequestStop, StopProcess, Crash, HeldInv
<1>6. ASSUME NEW j \in Jobs, EnqueueGradingJob(j) PROVE HeldInv'
  <2>1. \A i \in Jobs : row'[i].status = "PROCESSING" => row[i].status = "PROCESSING"
    BY <1>6 DEF EnqueueGradingJob, IInv, TypeOK
  <2>. QED BY <1>6, <2>1 DEF EnqueueGradingJob, HeldInv
<1>7. CASE UNCHANGED <<row, consumer, stopping>>
  BY <1>7 DEF HeldInv
<1>8. ASSUME NEW c \in Consumers, LoopStep(c) PROVE HeldInv'
  BY <1>1, <1>2, <1>3, <1>8 DEF LoopStep
<1>. QED BY <1>4, <1>5, <1>6, <1>7, <1>8
         DEF Next, ProcessStep, BackoffElapses, LimitPasses, OpenTenantPool, vars

(* With no fault but failing grades, no row is ever left in PROCESSING     *)
(* without a consumer that works on it.                                    *)
THEOREM NothingOrphaned == ASSUME Faults \subseteq {"grading"} PROVE Spec => []NoOrphanedJob
<1>1. Init => HeldInv
  BY DEF Init, HeldInv
<1>2. IInv /\ HeldInv /\ [Next]_vars => HeldInv'
  BY HeldNext
<1>3. HeldInv => NoOrphanedJob
  BY DEF HeldInv, NoOrphanedJob
<1>. QED BY <1>1, <1>2, <1>3, Invariance, PTL DEF Spec

(* A consumer between two iterations, or of a dead process, has no job. *)
RestInv == \A c \in Consumers : consumer[c].pc \notin Holding => consumer[c].job = NoJob

(* Who moves, lets go of its job or keeps it; other rows keep their status. *)
LEMMA RestNext ==
  ASSUME IInv, RestInv, [Next]_vars
  PROVE  /\ RestInv'
         /\ \A j \in Jobs :
              Abandoned(j)' /\ ~Abandoned(j)
                => \E c \in Consumers : /\ consumer[c].job = j
                                        /\ consumer'[c].pc = "down" \/ consumer[c].pc = "dequeued"
<1>. USE DEF jobVars, attemptVars, processVars
<1>. DEFINE Loss == \A j \in Jobs :
              Abandoned(j)' /\ ~Abandoned(j)
                => \E c \in Consumers : /\ consumer[c].job = j
                                        /\ consumer'[c].pc = "down" \/ consumer[c].pc = "dequeued"
<1>0. consumer \in [Consumers -> ConsumerRecord] /\ row \in [Jobs -> [status : JobStatus,
        retries : 0..MaxRetries, result : BOOLEAN]]
  BY DEF IInv, TypeOK, ConsumerRecord
<1>1. ASSUME NEW c \in Consumers, DequeueJob(c) PROVE RestInv' /\ Loss
  <2>1. PICK j \in Jobs :
           /\ row' = [row EXCEPT ![j].status = "PROCESSING"]
           /\ consumer' = [consumer EXCEPT ![c] = Fresh("dequeued", j)]
    BY <1>1 DEF DequeueJob
  <2>2. consumer[c].job = NoJob
    BY <1>1 DEF DequeueJob, RestInv, Holding, Working
  <2>3. /\ consumer'[c].pc = "dequeued" /\ consumer'[c].job = j
        /\ \A d \in Consumers \ {c} : consumer'[d] = consumer[d]
    BY <1>0, <2>1 DEF Fresh
  <2>4. \A i \in Jobs \ {j} : row'[i] = row[i]
    BY <1>0, <2>1
  <2>5. NoJob \notin Jobs
    BY DEF NoJob, Jobs
  <2>6. RestInv'
    BY <2>3 DEF RestInv, Holding
  <2>7. ASSUME NEW i \in Jobs, Abandoned(i)' PROVE Abandoned(i)
    BY <2>2, <2>3, <2>4, <2>5, <2>7 DEF Abandoned
  <2>. QED BY <2>6, <2>7
<1>2. ASSUME NEW c \in Consumers,
             \A d \in Consumers \ {c} : consumer'[d] = consumer[d],
             consumer[c].pc \in Holding,
             consumer'[c].pc \in Holding, consumer'[c].job = consumer[c].job,
             \A i \in Jobs : row'[i].status = "PROCESSING"
                              => row[i].status = "PROCESSING" \/ i = consumer[c].job
      PROVE  RestInv' /\ Loss
  BY <1>2 DEF RestInv, Abandoned
<1>3. ASSUME NEW c \in Consumers,
             \A d \in Consumers \ {c} : consumer'[d] = consumer[d],
             consumer'[c].pc \notin Holding, consumer'[c].job = NoJob,
             \A i \in Jobs : row'[i].status = "PROCESSING" => row[i].status = "PROCESSING",
             \/ consumer'[c].pc = "down" \/ consumer[c].pc = "dequeued"
             \/ consumer[c].pc \notin Holding
             \/ row'[consumer[c].job].status # "PROCESSING"
      PROVE  RestInv' /\ Loss
  <2>1. RestInv'
    BY <1>3 DEF RestInv
  <2>2. ASSUME NEW i \in Jobs, Abandoned(i)', ~Abandoned(i)
        PROVE  /\ consumer[c].job = i
               /\ consumer'[c].pc = "down" \/ consumer[c].pc = "dequeued"
    <3>1. PICK d \in Consumers : consumer[d].job = i
      BY <1>3, <2>2 DEF Abandoned
    <3>2. d = c
      BY <1>3, <2>2, <3>1 DEF Abandoned
    <3>3. NoJob \notin Jobs
      BY DEF NoJob, Jobs
    <3>. QED BY <1>3, <2>2, <3>1, <3>2, <3>3 DEF Abandoned, RestInv
  <2>. QED BY <2>1, <2>2
<1>4. ASSUME NEW c \in Consumers,
             \/ ClaimJob(c) \/ LoadSubmittedAttempt(c) \/ LoadFinalizedAttempt(c)
             \/ TenantPoolMissing(c) \/ GradeAttempt(c) \/ GradeAttemptThrows(c)
             \/ FinalizeAttempt(c) \/ FinalizeRejected(c) \/ GetFailedJob(c)
             \/ FinalizeReplyLost(c) \/ CompleteReplyLost(c) \/ StatementFails(c)
      PROVE  RestInv' /\ Loss
  <2>1. /\ consumer[c].pc \in Holding
        /\ consumer'[c].pc \in Holding /\ consumer'[c].job = consumer[c].job
        /\ \A d \in Consumers \ {c} : consumer'[d] = consumer[d]
    BY <1>0, <1>4 DEF ConsumerRecord, ClaimJob, LoadSubmittedAttempt, LoadFinalizedAttempt,
       TenantPoolMissing, GradeAttempt, GradeAttemptThrows, FinalizeAttempt, FinalizeRejected,
       GetFailedJob, FinalizeReplyLost, CompleteReplyLost, WriteCompleted, StatementFails,
       Catch, Holding, Working
  <2>2. \A i \in Jobs : i # consumer[c].job => row'[i] = row[i]
    <3>1. CASE ClaimJob(c) \/ CompleteReplyLost(c)
      BY <1>0, <3>1 DEF ClaimJob, CompleteReplyLost, WriteCompleted
    <3>2. CASE UNCHANGED row
      BY <3>2
    <3>. QED BY <1>4, <3>1, <3>2 DEF LoadSubmittedAttempt, LoadFinalizedAttempt,
         TenantPoolMissing, GradeAttempt, GradeAttemptThrows, FinalizeAttempt, FinalizeRejected,
         GetFailedJob, FinalizeReplyLost, StatementFails, Catch
  <2>. QED BY <1>2, <2>1, <2>2
<1>5. ASSUME NEW c \in Consumers,
             CompleteJob(c) \/ RequeueJobWithDelay(c) \/ MoveJobToDLQ(c)
      PROVE  RestInv' /\ Loss
  <2>1. consumer[c].job \in Jobs
    BY <1>5 DEF CompleteJob, RequeueJobWithDelay, MoveJobToDLQ, IInv, ConsumerInv, Fits, Holding, Working
  <2>2. /\ row'[consumer[c].job].status # "PROCESSING"
        /\ \A i \in Jobs : i # consumer[c].job => row'[i] = row[i]
    <3>1. CASE CompleteJob(c)
      BY <1>0, <2>1, <3>1 DEF CompleteJob, WriteCompleted
    <3>2. CASE RequeueJobWithDelay(c)
      BY <1>0, <2>1, <3>2 DEF RequeueJobWithDelay
    <3>3. CASE MoveJobToDLQ(c)
      BY <1>0, <2>1, <3>3 DEF MoveJobToDLQ
    <3>. QED BY <1>5, <3>1, <3>2, <3>3
  <2>3. /\ consumer'[c].pc \notin Holding /\ consumer'[c].job = NoJob
        /\ \A d \in Consumers \ {c} : consumer'[d] = consumer[d]
    BY <1>0, <1>5 DEF CompleteJob, WriteCompleted, RequeueJobWithDelay, MoveJobToDLQ,
       AtRest, Fresh, Holding, Working
  <2>. QED BY <1>3, <2>2, <2>3
<1>6. ASSUME NEW c \in Consumers,
             \/ DequeueReplyLost(c) \/ FailureHandlerThrows(c)
             \/ StopProcess(c) \/ Crash(c) \/ StartWorker(c)
      PROVE  RestInv' /\ Loss
  <2>1. /\ consumer'[c].pc \notin Holding /\ consumer'[c].job = NoJob
        /\ \A d \in Consumers \ {c} : consumer'[d] = consumer[d]
        /\ UNCHANGED row
    BY <1>0, <1>6 DEF DequeueReplyLost, FailureHandlerThrows, StopProcess, Crash, StartWorker,
       AtRest, Fresh, Holding, Working
  <2>2. \/ consumer'[c].pc = "down" \/ consumer[c].pc = "dequeued"
        \/ consumer[c].pc \notin Holding
    BY <1>0, <1>6 DEF DequeueReplyLost, FailureHandlerThrows, StopProcess, Crash, StartWorker,
       AtRest, Fresh, Holding, Working
  <2>. QED BY <1>3, <2>1, <2>2
<1>7. ASSUME NEW j \in Jobs, EnqueueGradingJob(j) PROVE RestInv' /\ Loss
  <2>1. UNCHANGED consumer /\ \A i \in Jobs : row'[i].status = "PROCESSING" => row[i].status = "PROCESSING"
    BY <1>0, <1>7 DEF EnqueueGradingJob
  <2>. QED BY <2>1 DEF RestInv, Abandoned
<1>8. CASE UNCHANGED <<row, consumer>>
  BY <1>8 DEF RestInv, Abandoned
<1>. QED BY <1>1, <1>4, <1>5, <1>6, <1>7, <1>8
         DEF Next, LoopStep, LostOrFailed, ProcessStep, RequestStop, BackoffElapses, LimitPasses,
             OpenTenantPool, vars

(* Only a process that ends, or a claim whose reply is lost, leaves a row  *)
(* in PROCESSING that nobody works on.                                     *)
THEOREM LossOnly == Spec => AbandonedOnlyByLoss
<1>1. Init => RestInv
  BY DEF Init, RestInv, AtRest, Fresh, NoJob
<1>2. IInv /\ RestInv /\ [Next]_vars => RestInv'
  BY RestNext
<1>3. IInv /\ RestInv /\ [Next]_vars
        => [ \A j \in Jobs :
               Abandoned(j)' /\ ~Abandoned(j)
                 => \E c \in Consumers : /\ consumer[c].job = j
                                         /\ consumer'[c].pc = "down" \/ consumer[c].pc = "dequeued" ]_vars
  BY RestNext
<1>. QED BY <1>1, <1>2, <1>3, Invariance, PTL DEF Spec, AbandonedOnlyByLoss

(* SubmitAttempt's OneJobPerAttempt, as this module sees it. *)
OneJobEach == \A i, j \in Jobs : AttemptOf[i] = AttemptOf[j] => i = j

(* A job whose grade its attempt carries is either COMPLETED with its      *)
(* result or still PROCESSING, and whoever holds it is about to complete   *)
(* it: it never goes back to the queue, so nobody finds its attempt        *)
(* FINALIZED and skips.                                                    *)
CarriedInv ==
  /\ \A j \in Jobs :
       /\ row[j].status = "COMPLETED" => row[j].result
       /\ attempt[AttemptOf[j]].gradedBy = j => row[j].status \in {"PROCESSING", "COMPLETED"}
  /\ \A a \in Attempts : attempt[a].gradedBy # NoJob => AttemptOf[attempt[a].gradedBy] = a
  /\ \A c \in Consumers :
       /\ consumer[c].pc \in Holding
       /\ attempt[AttemptOf[consumer[c].job]].gradedBy = consumer[c].job
       => consumer[c].pc = "persisted"

(* An attempt found FINALIZED was finalised by the job at hand. *)
LEMMA OwnGrade ==
  ASSUME OneJobEach, IInv, CarriedInv, NEW j \in Jobs,
         attempt[AttemptOf[j]].status = "FINALIZED"
  PROVE  attempt[AttemptOf[j]].gradedBy = j
<1>. DEFINE g == attempt[AttemptOf[j]].gradedBy
<1>1. AttemptOf[j] \in Attempts
  BY GradingAssumption DEF GradingAssumption
<1>2. g # NoJob /\ g \in Jobs
  BY <1>1 DEF IInv, AttemptInv, TypeOK
<1>3. AttemptOf[g] = AttemptOf[j]
  BY <1>1, <1>2 DEF CarriedInv
<1>. HIDE DEF g
<1>4. g = j
  BY <1>2, <1>3 DEF OneJobEach
<1>. QED BY <1>4 DEF g

LEMMA NeverSkipping ==
  ASSUME OneJobEach, IInv, CarriedInv, NEW c \in Consumers
  PROVE  consumer[c].pc # "skipping" /\ ~LoadFinalizedAttempt(c)
<1>1. ASSUME consumer[c].pc \in {"claimed", "skipping"},
             attempt[AttemptOf[consumer[c].job]].status = "FINALIZED"
      PROVE  FALSE
  <2>1. consumer[c].pc \in Holding /\ consumer[c].job \in Jobs
    BY <1>1 DEF IInv, ConsumerInv, Fits, Holding, Working
  <2>2. attempt[AttemptOf[consumer[c].job]].gradedBy = consumer[c].job
    BY <1>1, <2>1, OwnGrade
  <2>. QED BY <1>1, <2>1, <2>2 DEF CarriedInv
<1>2. consumer[c].pc = "skipping" => attempt[AttemptOf[consumer[c].job]].status = "FINALIZED"
  BY DEF IInv, ConsumerInv, Fits
<1>. QED BY <1>1, <1>2 DEF LoadFinalizedAttempt, AttemptHeld

(* A step that writes neither a row nor an attempt, and after which nobody *)
(* holds a job he did not hold, or holds a persisted one elsewhere.        *)
LEMMA CarriedQuiet ==
  ASSUME CarriedInv, UNCHANGED <<row, attempt>>,
         \A c \in Consumers : consumer'[c].pc \in Holding =>
           /\ consumer[c].pc \in Holding
           /\ consumer'[c].job = consumer[c].job
           /\ consumer[c].pc = "persisted" => consumer'[c].pc = "persisted"
  PROVE  CarriedInv'
BY DEF CarriedInv

LEMMA CarriedNext ==
  ASSUME "db" \notin Faults, OneJobEach, IInv, CarriedInv, [Next]_vars PROVE CarriedInv'
<1>. USE DEF jobVars, attemptVars, processVars
<1>0. consumer \in [Consumers -> ConsumerRecord]
  BY DEF IInv, TypeOK, ConsumerRecord
<1>1. ASSUME NEW j \in Jobs, EnqueueGradingJob(j) PROVE CarriedInv'
  <2>1. /\ UNCHANGED <<attempt, consumer>>
        /\ row[j].status = "ABSENT" /\ row'[j].status = "PENDING"
        /\ \A i \in Jobs \ {j} : row'[i] = row[i]
    BY <1>1 DEF EnqueueGradingJob, IInv, TypeOK
  <2>. QED BY <2>1 DEF CarriedInv
<1>2. ASSUME NEW c \in Consumers, DequeueJob(c) PROVE CarriedInv'
  <2>1. PICK j \in Jobs :
           /\ row[j].status = "PENDING"
           /\ row' = [row EXCEPT ![j].status = "PROCESSING"]
           /\ consumer' = [consumer EXCEPT ![c] = Fresh("dequeued", j)]
    BY <1>2 DEF DequeueJob
  <2>2. UNCHANGED attempt
    BY <1>2 DEF DequeueJob
  <2>3. /\ row'[j].status = "PROCESSING"
        /\ \A i \in Jobs \ {j} : row'[i] = row[i]
    BY <2>1 DEF IInv, TypeOK
  <2>4. /\ consumer'[c].job = j
        /\ \A d \in Consumers \ {c} : consumer'[d] = consumer[d]
    BY <1>0, <2>1 DEF Fresh
  <2>5. attempt[AttemptOf[j]].gradedBy # j
    BY <2>1 DEF CarriedInv
  <2>. QED BY <2>2, <2>3, <2>4, <2>5 DEF CarriedInv
<1>3. ASSUME NEW c \in Consumers,
             \/ ClaimJob(c) \/ LoadSubmittedAttempt(c) \/ TenantPoolMissing(c)
             \/ GradeAttempt(c) \/ GradeAttemptThrows(c)
             \/ FinalizeRejected(c) \/ GetFailedJob(c)
      PROVE  CarriedInv'
  <2>1. /\ consumer[c].pc \in Holding /\ consumer[c].pc # "persisted"
        /\ consumer'[c].job = consumer[c].job
        /\ \A d \in Consumers \ {c} : consumer'[d] = consumer[d]
    BY <1>0, <1>3 DEF ConsumerRecord, ClaimJob, LoadSubmittedAttempt,
       TenantPoolMissing, GradeAttempt, GradeAttemptThrows, FinalizeRejected,
       GetFailedJob, Catch, Holding, Working
  <2>2. UNCHANGED <<row, attempt>>
    <3>1. CASE ClaimJob(c)
      <4>1. consumer[c].job \in Jobs /\ row[consumer[c].job].status = "PROCESSING"
        BY <3>1 DEF ClaimJob, IInv, ConsumerInv, Fits, Holding
      <4>2. row' = [row EXCEPT ![consumer[c].job] =
                      [row[consumer[c].job] EXCEPT !.status = "PROCESSING"]]
        BY <3>1 DEF ClaimJob
      <4>3. [row[consumer[c].job] EXCEPT !.status = "PROCESSING"] = row[consumer[c].job]
        BY <4>1 DEF IInv, TypeOK
      <4>4. row' = row
        BY <4>2, <4>3 DEF IInv, TypeOK
      <4>. QED BY <3>1, <4>4 DEF ClaimJob
    <3>. QED BY <1>3, <3>1 DEF LoadSubmittedAttempt, TenantPoolMissing, GradeAttempt,
         GradeAttemptThrows, FinalizeRejected, GetFailedJob, Catch
  <2>. QED BY <2>1, <2>2, CarriedQuiet
<1>4. ASSUME NEW c \in Consumers, FinalizeAttempt(c) PROVE CarriedInv'
  <2>. DEFINE j == consumer[c].job
  <2>1. /\ consumer[c].pc \in Holding /\ j \in Jobs /\ j # NoJob
        /\ row[j].status = "PROCESSING"
    BY <1>4 DEF FinalizeAttempt, IInv, ConsumerInv, Fits, Holding, Working, Jobs, NoJob
  <2>2. AttemptOf[j] \in Attempts
    BY <2>1, GradingAssumption DEF GradingAssumption
  <2>3. /\ UNCHANGED row
        /\ attempt'[AttemptOf[j]].gradedBy = j
        /\ \A a \in Attempts \ {AttemptOf[j]} : attempt'[a] = attempt[a]
    BY <1>4, <2>2 DEF FinalizeAttempt, Finalized, AttemptHeld, IInv, TypeOK
  <2>4. /\ consumer'[c].pc = "persisted" /\ consumer'[c].job = j
        /\ \A d \in Consumers \ {c} : consumer'[d] = consumer[d]
    BY <1>0, <1>4 DEF FinalizeAttempt, ConsumerRecord
  <2>5. ASSUME NEW d \in Consumers \ {c}, consumer[d].pc \in Holding
        PROVE  consumer[d].job # j /\ consumer[d].job \in Jobs
    BY <2>1, <2>5 DEF IInv, SingleOwner, ConsumerInv, Fits
  <2>. HIDE DEF j
  <2>6. \A i \in Jobs : AttemptOf[i] \in Attempts /\ (AttemptOf[i] = AttemptOf[j] => i = j)
    BY <2>1, GradingAssumption DEF GradingAssumption, OneJobEach
  <2>7. \A i \in Jobs : attempt'[AttemptOf[i]].gradedBy = i
                          => i = j \/ attempt[AttemptOf[i]].gradedBy = i
    BY <2>3, <2>6
  <2>8. ASSUME NEW i \in Jobs
        PROVE  /\ row'[i].status = "COMPLETED" => row'[i].result
               /\ attempt'[AttemptOf[i]].gradedBy = i
                    => row'[i].status \in {"PROCESSING", "COMPLETED"}
    BY <2>1, <2>3, <2>7 DEF CarriedInv
  <2>9. \A a \in Attempts : attempt'[a].gradedBy # NoJob => AttemptOf[attempt'[a].gradedBy] = a
    BY <2>3 DEF CarriedInv
  <2>10. ASSUME NEW d \in Consumers, consumer'[d].pc \in Holding,
                attempt'[AttemptOf[consumer'[d].job]].gradedBy = consumer'[d].job
         PROVE  consumer'[d].pc = "persisted"
    <3>1. CASE d = c
      BY <2>4, <3>1
    <3>2. CASE d # c
      BY <2>4, <2>5, <2>7, <2>10, <3>2 DEF CarriedInv
    <3>. QED BY <3>1, <3>2
  <2>. QED BY <2>8, <2>9, <2>10 DEF CarriedInv
<1>5. ASSUME NEW c \in Consumers, CompleteJob(c) PROVE CarriedInv'
  <2>. DEFINE j == consumer[c].job
  <2>1. consumer[c].pc = "persisted" /\ consumer[c].pc \in Holding
    BY <1>5, NeverSkipping DEF CompleteJob, Holding, Working
  <2>2. j \in Jobs
    BY <2>1 DEF IInv, ConsumerInv, Fits
  <2>3. /\ row'[j].status = "COMPLETED" /\ row'[j].result
        /\ \A i \in Jobs \ {j} : row'[i] = row[i]
    <3>. DEFINE b == row[j].result \/ consumer[c].pc = "persisted"
    <3>1. b = TRUE
      BY <2>1, <2>2 DEF IInv, TypeOK
    <3>2. row' = [row EXCEPT ![j].status = "COMPLETED", ![j].result = b]
      BY <1>5 DEF CompleteJob, WriteCompleted
    <3>. HIDE DEF b, j
    <3>. QED BY <2>2, <3>1, <3>2 DEF IInv, TypeOK
  <2>4. UNCHANGED attempt
    BY <1>5 DEF CompleteJob, WriteCompleted
  <2>5. /\ consumer'[c].pc \notin Holding
        /\ \A d \in Consumers \ {c} : consumer'[d] = consumer[d]
    BY <1>0, <1>5 DEF CompleteJob, AtRest, Fresh, Holding, Working
  <2>. HIDE DEF j
  <2>. QED BY <2>2, <2>3, <2>4, <2>5 DEF CarriedInv
<1>6. ASSUME NEW c \in Consumers, RequeueJobWithDelay(c) \/ MoveJobToDLQ(c) PROVE CarriedInv'
  <2>. DEFINE j == consumer[c].job
  <2>1. consumer[c].pc = "handling" /\ consumer[c].pc \in Holding
    BY <1>6 DEF RequeueJobWithDelay, MoveJobToDLQ, Holding
  <2>2. j \in Jobs /\ attempt[AttemptOf[j]].gradedBy # j
    BY <2>1 DEF IInv, ConsumerInv, Fits, CarriedInv
  <2>3. /\ row'[j].status # "COMPLETED"
        /\ \A i \in Jobs \ {j} : row'[i] = row[i]
    <3>1. CASE RequeueJobWithDelay(c)
      BY <2>2, <3>1 DEF RequeueJobWithDelay, IInv, TypeOK
    <3>2. CASE MoveJobToDLQ(c)
      BY <2>2, <3>2 DEF MoveJobToDLQ, IInv, TypeOK
    <3>. QED BY <1>6, <3>1, <3>2
  <2>4. UNCHANGED attempt
    BY <1>6 DEF RequeueJobWithDelay, MoveJobToDLQ
  <2>5. /\ consumer'[c].pc \notin Holding
        /\ \A d \in Consumers \ {c} : consumer'[d] = consumer[d]
    BY <1>0, <1>6 DEF RequeueJobWithDelay, MoveJobToDLQ, AtRest, Fresh, Holding, Working
  <2>. HIDE DEF j
  <2>. QED BY <2>2, <2>3, <2>4, <2>5 DEF CarriedInv
<1>7. ASSUME NEW c \in Consumers, StopProcess(c) \/ Crash(c) \/ StartWorker(c)
      PROVE  CarriedInv'
  <2>1. /\ consumer'[c].pc \notin Holding
        /\ \A d \in Consumers \ {c} : consumer'[d] = consumer[d]
    BY <1>0, <1>7 DEF StopProcess, Crash, StartWorker, AtRest, Fresh, Holding, Working
  <2>2. UNCHANGED <<row, attempt>>
    BY <1>7 DEF StopProcess, Crash, StartWorker
  <2>. QED BY <2>1, <2>2, CarriedQuiet
<1>8. CASE UNCHANGED <<row, attempt, consumer>>
  BY <1>8, CarriedQuiet
<1>9. ASSUME NEW c \in Consumers PROVE ~LostOrFailed(c)
  BY DEF LostOrFailed, DequeueReplyLost, FinalizeReplyLost, CompleteReplyLost,
     StatementFails, FailureHandlerThrows
<1>10. ASSUME NEW c \in Consumers, LoopStep(c) PROVE CarriedInv'
  BY <1>2, <1>3, <1>4, <1>5, <1>6, <1>10, NeverSkipping DEF LoopStep
<1>. QED BY <1>1, <1>7, <1>8, <1>9, <1>10
         DEF Next, ProcessStep, RequestStop, BackoffElapses, LimitPasses, OpenTenantPool, vars

(* As long as the database answers, and each attempt has one job, every    *)
(* COMPLETED row carries its result, whatever crashes and restarts.        *)
THEOREM CompletedHasResult ==
  ASSUME "db" \notin Faults, OneJobEach PROVE Spec => []CompletedCarriesResult
<1>1. Init => CarriedInv
  BY GradingAssumption
  DEF GradingAssumption, Init, CarriedInv, AtRest, Fresh, Holding, Working, NoJob, Jobs
<1>2. IInv /\ CarriedInv /\ [Next]_vars => CarriedInv'
  BY CarriedNext
<1>3. CarriedInv => CompletedCarriesResult
  BY DEF CarriedInv, CompletedCarriesResult
<1>. QED BY <1>1, <1>2, <1>3, Invariance, PTL DEF Spec
=============================================================================
