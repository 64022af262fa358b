--------------------------- MODULE SubmissionLedger ---------------------------
(***************************************************************************)
(* What submitting promises, each step indivisible: an attempt is          *)
(* submitted once, gets one grading job, and is finalised by that job; a   *)
(* 202 names the job of the attempt, and is given once.  SubmitAttempt     *)
(* implements it with statements that interleave, two caches and retries.  *)
(***************************************************************************)
CONSTANTS Requests, Attempts, AttemptOf, NoJob

VARIABLES
  status,      \* of each attempt
  jobOf,       \* the job that grades it, or NoJob
  promised     \* the job the 202 of a request named, or NoJob

Init ==
  /\ status = [a \in Attempts |-> "IN_PROGRESS"]
  /\ jobOf = [a \in Attempts |-> NoJob]
  /\ promised = [r \in Requests |-> NoJob]

Submit(a) ==
  /\ status[a] = "IN_PROGRESS"
  /\ status' = [status EXCEPT ![a] = "SUBMITTED"]
  /\ UNCHANGED <<jobOf, promised>>

\* A job is named after the request that asked for it.
Queue(r) ==
  /\ status[AttemptOf[r]] = "SUBMITTED"
  /\ jobOf[AttemptOf[r]] = NoJob
  /\ jobOf' = [jobOf EXCEPT ![AttemptOf[r]] = r]
  /\ UNCHANGED <<status, promised>>

\* A replay gets the job the first request was given.
Acknowledge(r) ==
  /\ promised[r] = NoJob
  /\ jobOf[AttemptOf[r]] # NoJob
  /\ promised' = [promised EXCEPT ![r] = jobOf[AttemptOf[r]]]
  /\ UNCHANGED <<status, jobOf>>

Finalize(a) ==
  /\ status[a] = "SUBMITTED"
  /\ jobOf[a] # NoJob
  /\ status' = [status EXCEPT ![a] = "FINALIZED"]
  /\ UNCHANGED <<jobOf, promised>>

Next ==
  \/ \E a \in Attempts : Submit(a) \/ Finalize(a)
  \/ \E r \in Requests : Queue(r) \/ Acknowledge(r)

Spec == Init /\ [][Next]_<<status, jobOf, promised>>
=============================================================================
