--------------------------- MODULE GradingService ---------------------------
(***************************************************************************)
(* What the grading pipeline promises, whatever its queue, its workers and *)
(* its retries do: a submitted attempt receives at most one grade, the     *)
(* grade comes from a job that was queued for that very attempt and had    *)
(* not been given up when it graded, and a job that was given up stays     *)
(* given up.  Module GradingQueue, the translation of apps/worker/src/     *)
(* grading, is shown to implement this specification.                      *)
(***************************************************************************)
EXTENDS Naturals

CONSTANTS NumJobs,      (* grading jobs are numbered in created_at order   *)
          Attempts,     (* exam attempts                                   *)
          AttemptOf     (* the attempt each job grades                     *)

Jobs == 1..NumJobs
NoJob == 0

VARIABLES outcome,      (* job -> "absent", "open" or "given_up"           *)
          gradedBy      (* attempt -> the job whose grade it carries       *)

svars == <<outcome, gradedBy>>

SInit == /\ outcome = [j \in Jobs |-> "absent"]
         /\ gradedBy = [a \in Attempts |-> NoJob]

Accept(j) == /\ outcome[j] = "absent"
             /\ outcome' = [outcome EXCEPT ![j] = "open"]
             /\ UNCHANGED gradedBy

Award(j) == /\ outcome[j] = "open"
            /\ gradedBy[AttemptOf[j]] = NoJob
            /\ gradedBy' = [gradedBy EXCEPT ![AttemptOf[j]] = j]
            /\ UNCHANGED outcome

GiveUp(j) == /\ outcome[j] = "open"
             /\ outcome' = [outcome EXCEPT ![j] = "given_up"]
             /\ UNCHANGED gradedBy

SNext == \E j \in Jobs : Accept(j) \/ Award(j) \/ GiveUp(j)

SSpec == SInit /\ [][SNext]_svars
=============================================================================
