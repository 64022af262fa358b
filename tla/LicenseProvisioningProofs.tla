--------------------- MODULE LicenseProvisioningProofs ---------------------
(***************************************************************************)
(* Proofs about LicenseProvisioning, for any number of calls, handlers,    *)
(* jobs, attempts, retries and stalls.                                     *)
(*                                                                         *)
(* ActiveIsProvisioned needs what a call remembers: one that passed its    *)
(* check will write a status in service whatever the row has become.       *)
(* PendingHasJob needs the bond of a handler with its job, and to look at  *)
(* the open transaction's row as well as at the committed one.             *)
(***************************************************************************)
EXTENDS LicenseProvisioning, TLAPS

USE ProvisioningAssumption

CallsInv ==
  /\ writer = Nobody => draft = NoRow
  /\ writer # Nobody => api[writer].pc \in {"enqueue", "commit"}
  /\ \A a \in Actors :
       /\ api[a].pc \in {"enqueue", "commit"} => writer = a
       /\ api[a].pc = "recheck" => api[a].op \notin {"create", "retry"}
       /\ api[a].pc = "update" => api[a].op # "create"
       /\ api[a].pc = "update" /\ api[a].op = "retry" => api[a].read < MaxRetries

(* An active job has its handler, which is at work on it. *)
JobsInv ==
  \A j \in Jobs :
    /\ job[j].state \in {"none", "waiting", "active"} => job[j].made < Attempts
    /\ job[j].state = "active" <=> job[j].by # Nobody
    /\ job[j].by # Nobody =>
         worker[job[j].by].pc # "idle" /\ worker[job[j].by].job = j

HandlersInv == \A w \in Workers : worker[w].pc # "idle" => worker[w].job \in Jobs

IInv == TypeOK /\ CallsInv /\ JobsInv /\ HandlersInv

-----------------------------------------------------------------------------
(* Type correctness. *)

LEMMA NewRows == NoRow \in Row /\ NewRow \in Row /\ NoRow.retries = 0 /\ NewRow.retries = 0
BY DEF NoRow, NewRow, Row, Statuses

LEMMA Records ==
  /\ Resting \in CallRecord /\ Resting.pc = "idle"
  /\ Off \in HandlerRecord /\ Off.pc = "idle"
BY DEF Resting, Call, CallRecord, Operations, Off, HandlerRecord

(* What an UPDATE writes is a row, with a retry count within the limits. *)
LEMMA UpdatedRow ==
  ASSUME NEW op \in Operations \ {"create"}, NEW row \in Row, NEW read \in Nat,
         row.retries <= Attempts \/ row.retries <= MaxRetries,
         op = "retry" => read < MaxRetries
  PROVE  /\ Updated(op, row, read) \in Row
         /\ \/ Updated(op, row, read).retries <= Attempts
            \/ Updated(op, row, read).retries <= MaxRetries
<1>1. CASE op = "edit"
  BY <1>1 DEF Updated
<1>2. CASE op = "softLock"
  BY <1>2 DEF Updated, Row, Statuses
<1>3. CASE op \in {"unlock", "restore"}
  BY <1>3 DEF Updated, Row, Statuses
<1>4. CASE op = "archive"
  BY <1>4 DEF Updated, Row, Statuses
<1>5. CASE op = "delete"
  BY <1>5 DEF Updated, Row, Statuses
<1>6. CASE op = "retry"
  <2>. DEFINE next == read + 1
  <2>1. next \in Nat /\ next <= MaxRetries
    BY <1>6
  <2>2. Updated(op, row, read) = [row EXCEPT !.status = "PENDING_PROVISION", !.retries = next]
    BY <1>6 DEF Updated
  <2>. HIDE DEF next
  <2>. QED BY <2>1, <2>2 DEF Row, Statuses
<1>. QED BY <1>1, <1>2, <1>3, <1>4, <1>5, <1>6 DEF Operations

(* The statements of a call. *)
LEMMA CallStep ==
  ASSUME IInv, NEW a \in Actors,
         StartCreate(a) \/ Proceed(a) \/ Abort(a)
           \/ \E op \in Operations : StartOperation(a, op)
  PROVE  IInv'
<1>. USE DEF IInv
<1>0. /\ Nobody # a
      /\ api[a] \in CallRecord
      /\ license.retries \in Nat
  BY DEF TypeOK, Row
<1>1. CASE StartCreate(a)
  <2>1. Call("insert", "create", 0, FALSE) \in CallRecord
    BY DEF Call, CallRecord, Operations
  <2>. QED BY <1>0, <1>1, <2>1 DEF StartCreate, TypeOK, CallsInv, JobsInv, HandlersInv, Call
<1>2. ASSUME NEW op \in Operations, StartOperation(a, op)
      PROVE  IInv'
  <2>. DEFINE pc == IF op \in {"edit", "retry"} THEN "update" ELSE "recheck"
              new == Call(pc, op, license.retries, FALSE)
  <2>1. new \in CallRecord
    BY <1>0 DEF Call, CallRecord
  <2>2. /\ new.pc \in {"recheck", "update"} /\ new.op = op /\ op # "create"
        /\ (op \in {"create", "retry"} => new.pc = "update")
        /\ new.read = license.retries /\ (op = "retry" => license.retries < MaxRetries)
    BY <1>2 DEF Call, StartOperation
  <2>3. api' = [api EXCEPT ![a] = new] /\ api[a].pc = "idle"
    BY <1>2 DEF StartOperation
  <2>4. UNCHANGED <<license, draft, writer, registry, job, worker, forsaken>>
    BY <1>2 DEF StartOperation
  <2>. HIDE DEF new
  <2>. QED BY <1>0, <2>1, <2>2, <2>3, <2>4 DEF TypeOK, CallsInv, JobsInv, HandlersInv
<1>3. CASE Recheck(a)
  <2>1. PICK new \in CallRecord :
          /\ api' = [api EXCEPT ![a] = new]
          /\ new.pc = "update" => new.op # "create"
          /\ new.pc \in {"idle", "update"}
          /\ new.pc = "update" /\ new.op = "retry" => FALSE
    <3>1. CASE Visible /\ license.status \in From(api[a].op)
      <4>. DEFINE new == [api[a] EXCEPT !.pc = "update"]
      <4>0. api[a].op \notin {"create", "retry"}
        BY <1>3 DEF CallsInv, Recheck
      <4>1. new \in CallRecord /\ new.op # "create" /\ new.pc = "update" /\ new.op # "retry"
        BY <1>0, <4>0 DEF CallRecord
      <4>2. api' = [api EXCEPT ![a] = new]
        BY <1>3, <3>1 DEF Recheck
      <4>. QED BY <4>1, <4>2
    <3>2. CASE ~(Visible /\ license.status \in From(api[a].op))
      BY <1>3, <3>2, Records DEF Recheck
    <3>. QED BY <3>1, <3>2
  <2>2. UNCHANGED <<license, draft, writer, registry, job, worker, forsaken>>
        /\ api[a].pc = "recheck"
    BY <1>3 DEF Recheck
  <2>. QED BY <1>0, <2>1, <2>2 DEF TypeOK, CallsInv, JobsInv, HandlersInv
<1>4. CASE UpdateRow(a)
  <2>1. draft' \in Row /\ (draft'.retries <= Attempts \/ draft'.retries <= MaxRetries)
    BY <1>0, <1>4, UpdatedRow DEF UpdateRow, CallsInv, TypeOK, CallRecord
  <2>2. api' \in [Actors -> CallRecord]
    BY <1>0, <1>4 DEF UpdateRow, TypeOK, CallRecord
  <2>3. TypeOK'
    BY <1>4, <2>1, <2>2 DEF UpdateRow, TypeOK
  <2>4. CallsInv'
    BY <1>0, <1>4 DEF UpdateRow, TypeOK, CallsInv
  <2>. QED BY <1>4, <2>3, <2>4 DEF UpdateRow, JobsInv, HandlersInv
<1>5. CASE InsertRow(a)
  <2>1. draft' \in Row /\ (draft'.retries <= Attempts \/ draft'.retries <= MaxRetries)
    BY <1>5, NewRows DEF InsertRow, TypeOK
  <2>2. api' \in [Actors -> CallRecord]
    BY <1>0, <1>5, Records DEF InsertRow, TypeOK, CallRecord
  <2>3. TypeOK'
    BY <1>5, <2>1, <2>2 DEF InsertRow, TypeOK
  <2>4. CallsInv'
    <3>1. CASE license.status = "NONE"
      <4>1. api' = [api EXCEPT ![a].pc = "enqueue"] /\ writer' = a /\ writer = Nobody
        BY <1>5, <3>1 DEF InsertRow
      <4>. QED BY <1>0, <4>1 DEF TypeOK, CallsInv
    <3>2. CASE license.status # "NONE"
      <4>1. api' = [api EXCEPT ![a] = Resting] /\ writer' = writer /\ draft' = draft
            /\ writer = Nobody
        BY <1>5, <3>2 DEF InsertRow
      <4>. QED BY <1>0, <4>1, Records DEF TypeOK, CallsInv
    <3>. QED BY <3>1, <3>2
  <2>. QED BY <1>5, <2>3, <2>4 DEF InsertRow, JobsInv, HandlersInv
<1>6. CASE Enqueue(a)
  <2>1. PICK j \in Jobs : job[j].state = "none" /\ job' = [job EXCEPT ![j].state = "waiting"]
    BY <1>6 DEF Enqueue
  <2>2. api' \in [Actors -> CallRecord] /\ job' \in [Jobs -> JobRecord]
    BY <1>0, <1>6, <2>1 DEF Enqueue, TypeOK, CallRecord, JobRecord
  <2>3. TypeOK'
    BY <1>6, <2>2 DEF Enqueue, TypeOK
  <2>4. CallsInv'
    BY <1>0, <1>6 DEF Enqueue, TypeOK, CallsInv
  <2>5. JobsInv' /\ HandlersInv'
    BY <1>6, <2>1 DEF Enqueue, TypeOK, JobsInv, HandlersInv, JobRecord
  <2>. QED BY <2>3, <2>4, <2>5
<1>7. CASE EnqueueFails(a)
  <2>1. api' \in [Actors -> CallRecord]
    BY <1>0, <1>7, Records DEF EnqueueFails, TypeOK, CallRecord
  <2>2. TypeOK'
    BY <1>7, <2>1, NewRows DEF EnqueueFails, TypeOK
  <2>3. CallsInv'
    <3>1. CASE api[a].op = "create"
      <4>1. api' = [api EXCEPT ![a].pc = "commit"] /\ writer' = writer /\ draft' = draft
            /\ api[a].pc = "enqueue"
        BY <1>7, <3>1 DEF EnqueueFails
      <4>. QED BY <1>0, <4>1 DEF TypeOK, CallsInv
    <3>2. CASE api[a].op # "create"
      <4>1. api' = [api EXCEPT ![a] = Resting] /\ writer' = Nobody /\ draft' = NoRow
            /\ api[a].pc = "enqueue"
        BY <1>7, <3>2 DEF EnqueueFails
      <4>. QED BY <1>0, <4>1, Records DEF TypeOK, CallsInv
    <3>. QED BY <3>1, <3>2
  <2>. QED BY <1>7, <2>2, <2>3 DEF EnqueueFails, JobsInv, HandlersInv
<1>8. CASE Commit(a)
  <2>1. TypeOK'
    BY <1>8, NewRows, Records DEF Commit, TypeOK
  <2>2. CallsInv'
    BY <1>0, <1>8, Records DEF Commit, TypeOK, CallsInv
  <2>. QED BY <1>8, <2>1, <2>2 DEF Commit, JobsInv, HandlersInv
<1>9. CASE Abort(a)
  <2>1. TypeOK'
    BY <1>9, NewRows, Records DEF Abort, TypeOK
  <2>2. CallsInv'
    BY <1>0, <1>9, Records DEF Abort, TypeOK, CallsInv
  <2>. QED BY <1>9, <2>1, <2>2 DEF Abort, JobsInv, HandlersInv
<1>. QED BY <1>1, <1>2, <1>3, <1>4, <1>5, <1>6, <1>7, <1>8, <1>9 DEF Proceed

(* The steps of the queue and of a handler. *)
LEMMA QueueStep ==
  ASSUME IInv,
         \/ \E w \in Workers : Work(w) \/ Crash(w)
         \/ \E j \in Jobs : Timeout(j)
  PROVE  IInv'
<1>. USE DEF IInv
<1>1. ASSUME NEW w \in Workers, NEW j \in Jobs, Take(w, j)
      PROVE  IInv'
  <2>1. job' \in [Jobs -> JobRecord]
    BY <1>1 DEF Take, TypeOK, JobRecord
  <2>2. worker' \in [Workers -> HandlerRecord]
    BY <1>1 DEF Take, TypeOK, JobRecord, HandlerRecord, JobsInv
  <2>3. TypeOK'
    BY <1>1, <2>1, <2>2 DEF Take, TypeOK
  <2>4. JobsInv' /\ HandlersInv'
    BY <1>1 DEF Take, TypeOK, JobsInv, HandlersInv, JobRecord
  <2>. QED BY <1>1, <2>3, <2>4 DEF Take, CallsInv
<1>2. ASSUME NEW w \in Workers, InsertRegistry(w) \/ StatementFails(w)
      PROVE  IInv'
  <2>0. PICK pc \in {"activate", "record"} : worker' = [worker EXCEPT ![w].pc = pc]
    BY <1>2 DEF InsertRegistry, StatementFails
  <2>1. worker[w].pc # "idle" /\ UNCHANGED <<license, draft, writer, job, api, forsaken>>
    BY <1>2 DEF InsertRegistry, StatementFails
  <2>2. registry' \in BOOLEAN
    BY <1>2 DEF InsertRegistry, StatementFails, TypeOK
  <2>4. TypeOK'
    BY <2>0, <2>1, <2>2 DEF TypeOK, HandlerRecord
  <2>3. JobsInv' /\ HandlersInv'
    BY <2>0, <2>1 DEF TypeOK, JobsInv, HandlersInv, HandlerRecord
  <2>. QED BY <2>1, <2>3, <2>4 DEF CallsInv
<1>3. ASSUME NEW w \in Workers, SetActive(w)
      PROVE  IInv'
  <2>. DEFINE j == worker[w].job
  <2>1. j \in Jobs
    BY <1>3 DEF SetActive, HandlersInv
  <2>2. PICK new \in JobRecord :
          /\ job' = IF job[j].by = w THEN [job EXCEPT ![j] = new] ELSE job
          /\ new.state = "done" /\ new.by = Nobody
    <3>. DEFINE new == [job[j] EXCEPT !.state = "done", !.by = Nobody]
    <3>1. new \in JobRecord /\ new.state = "done" /\ new.by = Nobody
      BY <2>1 DEF TypeOK, JobRecord
    <3>2. job' = IF job[j].by = w THEN [job EXCEPT ![j] = new] ELSE job
      BY <1>3, <2>1 DEF SetActive, TypeOK
    <3>. QED BY <3>1, <3>2
  <2>3. license' \in Row /\ license'.retries = license.retries
    BY <1>3 DEF SetActive, TypeOK, Row, Statuses
  <2>4. TypeOK'
    BY <1>3, <2>1, <2>2, <2>3, Records DEF SetActive, TypeOK
  <2>5. JobsInv' /\ HandlersInv'
    BY <1>3, <2>1, <2>2, Records DEF SetActive, TypeOK, JobsInv, HandlersInv
  <2>. QED BY <1>3, <2>4, <2>5 DEF SetActive, CallsInv
<1>4. ASSUME NEW w \in Workers, worker' = [worker EXCEPT ![w] = Off], worker[w].pc # "idle",
             UNCHANGED <<draft, writer, registry, api>>, NEW new \in JobRecord,
             new.state \in {"waiting", "failed"}, new.by = Nobody,
             new.state = "waiting" => new.made < Attempts,
             job' = IF job[worker[w].job].by = w
                    THEN [job EXCEPT ![worker[w].job] = new] ELSE job,
             license' \in Row, license'.retries <= Attempts \/ license'.retries <= MaxRetries,
             forsaken' \in BOOLEAN
      PROVE  IInv'
  <2>1. worker[w].job \in Jobs
    BY <1>4 DEF HandlersInv
  <2>2. TypeOK'
    BY <1>4, <2>1, Records DEF TypeOK
  <2>3. JobsInv' /\ HandlersInv'
    BY <1>4, <2>1, Records DEF TypeOK, JobsInv, HandlersInv
  <2>. QED BY <1>4, <2>2, <2>3 DEF CallsInv
<1>5. ASSUME NEW j \in Jobs, job[j].state = "active"
      PROVE  /\ NextAttempt(j) \in JobRecord
             /\ NextAttempt(j).state \in {"waiting", "failed"} /\ NextAttempt(j).by = Nobody
             /\ NextAttempt(j).state = "waiting" => NextAttempt(j).made < Attempts
  <2>1. job[j] \in JobRecord /\ job[j].made < Attempts
    BY <1>5 DEF TypeOK, JobsInv
  <2>. DEFINE next == job[j].made + 1
              to == IF next < Attempts THEN "waiting" ELSE "failed"
  <2>2. next \in 0..Attempts
    BY <2>1 DEF JobRecord
  <2>3. to \in {"waiting", "failed"} /\ (to = "waiting" => next < Attempts)
    OBVIOUS
  <2>4. NextAttempt(j) = [job[j] EXCEPT !.state = to, !.made = next, !.by = Nobody]
    BY <2>1 DEF NextAttempt, JobRecord
  <2>. HIDE DEF next, to
  <2>. QED BY <2>1, <2>2, <2>3, <2>4 DEF JobRecord
<1>6. ASSUME NEW w \in Workers, RecordFailure(w) \/ FailureUnrecorded(w)
      PROVE  IInv'
  <2>. DEFINE j == worker[w].job
  <2>1. j \in Jobs
    BY <1>6 DEF RecordFailure, FailureUnrecorded, HandlersInv
  <2>2. license' \in Row /\ (license'.retries <= Attempts \/ license'.retries <= MaxRetries)
    <3>1. CASE FailureUnrecorded(w)
      BY <3>1 DEF FailureUnrecorded, TypeOK
    <3>2. CASE RecordFailure(w)
      <4>. DEFINE next == worker[w].made + 1
      <4>1. next \in Nat /\ next <= Attempts
        BY DEF TypeOK, HandlerRecord
      <4>2. license' = [license EXCEPT !.status = "PROVISION_FAILED", !.retries = next]
        BY <3>2 DEF RecordFailure
      <4>. HIDE DEF next
      <4>. QED BY <4>1, <4>2 DEF TypeOK, Row, Statuses
    <3>. QED BY <1>6, <3>1, <3>2
  <2>3. /\ worker' = [worker EXCEPT ![w] = Off] /\ worker[w].pc # "idle"
        /\ UNCHANGED <<draft, writer, registry, api>> /\ forsaken' \in BOOLEAN
        /\ job' = IF job[j].by = w THEN [job EXCEPT ![j] = NextAttempt(j)] ELSE job
    BY <1>6 DEF RecordFailure, FailureUnrecorded, AttemptFails, TypeOK
  <2>4. CASE job[j].by = w
    <3>1. job[j].state = "active"
      BY <2>1, <2>4 DEF JobsInv
    <3>. QED BY <1>4, <1>5, <2>1, <2>2, <2>3, <3>1
  <2>5. CASE job[j].by # w
    <3>. DEFINE any == [state |-> "failed", made |-> 0, stalls |-> 0, by |-> Nobody]
    <3>1. any \in JobRecord
      BY DEF JobRecord
    <3>. QED BY <1>4, <2>1, <2>2, <2>3, <2>5, <3>1
  <2>. QED BY <2>4, <2>5
<1>7. ASSUME NEW j \in Jobs, Timeout(j)
      PROVE  IInv'
  <2>1. job' = [job EXCEPT ![j] = NextAttempt(j)] /\ job[j].state = "active"
    BY <1>7 DEF Timeout
  <2>2. TypeOK'
    BY <1>5, <1>7, <2>1 DEF Timeout, TypeOK
  <2>3. JobsInv' /\ HandlersInv'
    BY <1>5, <1>7, <2>1 DEF Timeout, TypeOK, JobsInv, HandlersInv
  <2>. QED BY <1>7, <2>2, <2>3 DEF Timeout, CallsInv
<1>8. ASSUME NEW w \in Workers, Crash(w)
      PROVE  IInv'
  <2>. DEFINE j == worker[w].job
  <2>1. j \in Jobs
    BY <1>8 DEF Crash, HandlersInv
  <2>. DEFINE new == [job[j] EXCEPT !.state = IF job[j].stalls < MaxStalls THEN "waiting"
                                              ELSE "failed",
                                    !.stalls = IF @ < MaxStalls THEN @ + 1 ELSE @,
                                    !.by = Nobody]
  <2>2. job[j] \in JobRecord
    BY <2>1 DEF TypeOK
  <2>3. new \in JobRecord /\ new.state \in {"waiting", "failed"} /\ new.by = Nobody
        /\ new.made = job[j].made
    <3>. DEFINE to == IF job[j].stalls < MaxStalls THEN "waiting" ELSE "failed"
                next == IF job[j].stalls < MaxStalls THEN job[j].stalls + 1 ELSE job[j].stalls
    <3>1. next \in 0..MaxStalls /\ to \in {"waiting", "failed"}
      BY <2>2 DEF JobRecord
    <3>2. new = [job[j] EXCEPT !.state = to, !.stalls = next, !.by = Nobody]
      BY <2>2 DEF JobRecord
    <3>. HIDE DEF to, next, new
    <3>. QED BY <2>2, <3>1, <3>2 DEF JobRecord
  <2>4. job' = IF job[j].by = w THEN [job EXCEPT ![j] = new] ELSE job
    BY <1>8, <2>1, <2>2 DEF Crash, TypeOK, JobRecord
  <2>5. /\ worker' = [worker EXCEPT ![w] = Off] /\ worker[w].pc # "idle"
        /\ UNCHANGED <<license, draft, writer, registry, api>> /\ forsaken' \in BOOLEAN
    BY <1>8 DEF Crash, TypeOK
  <2>6. license' \in Row /\ (license'.retries <= Attempts \/ license'.retries <= MaxRetries)
    BY <2>5 DEF TypeOK
  <2>. HIDE DEF new
  <2>7. CASE job[j].by = w
    <3>1. job[j].made < Attempts
      BY <2>1, <2>7 DEF JobsInv
    <3>. QED BY <1>4, <2>3, <2>4, <2>5, <2>6, <3>1
  <2>8. CASE job[j].by # w
    <3>. DEFINE any == [state |-> "failed", made |-> 0, stalls |-> 0, by |-> Nobody]
    <3>1. any \in JobRecord
      BY DEF JobRecord
    <3>. QED BY <1>4, <2>4, <2>5, <2>6, <2>8, <3>1
  <2>. QED BY <2>7, <2>8
<1>. QED BY <1>1, <1>2, <1>3, <1>6, <1>7, <1>8 DEF Work

LEMMA InitHolds == Init => IInv
<1>. SUFFICES ASSUME Init PROVE IInv
  OBVIOUS
<1>1. TypeOK
  <2>. DEFINE fresh == [state |-> "none", made |-> 0, stalls |-> 0, by |-> Nobody]
  <2>1. fresh \in JobRecord
    BY DEF JobRecord
  <2>2. /\ job = [j \in Jobs |-> fresh] /\ api = [a \in Actors |-> Resting]
        /\ worker = [w \in Workers |-> Off] /\ license = NoRow /\ draft = NoRow
        /\ writer = Nobody /\ registry = FALSE /\ forsaken = FALSE
    BY DEF Init
  <2>. HIDE DEF fresh
  <2>3. job \in [Jobs -> JobRecord] /\ api \in [Actors -> CallRecord]
        /\ worker \in [Workers -> HandlerRecord]
    BY <2>1, <2>2, Records
  <2>4. NoRow.retries <= Attempts
    BY NewRows
  <2>5. license \in Row /\ draft \in Row /\ license.retries <= Attempts
        /\ draft.retries <= Attempts
    BY <2>2, <2>4, NewRows
  <2>6. writer \in Actors \cup {Nobody} /\ registry \in BOOLEAN /\ forsaken \in BOOLEAN
    BY <2>2
  <2>. QED BY <2>3, <2>5, <2>6 DEF TypeOK
<1>2. CallsInv /\ JobsInv /\ HandlersInv
  BY Records DEF Init, CallsInv, JobsInv, HandlersInv
<1>. QED BY <1>1, <1>2 DEF IInv

LEMMA StepHolds == IInv /\ [Next]_vars => IInv'
<1>. SUFFICES ASSUME IInv, [Next]_vars PROVE IInv'
  OBVIOUS
<1>1. CASE UNCHANGED vars
  BY <1>1 DEF vars, IInv, TypeOK, CallsInv, JobsInv, HandlersInv
<1>2. CASE Next
  BY <1>2, CallStep, QueueStep DEF Next
<1>. QED BY <1>1, <1>2

(* Every variable keeps its type, and no sequence of failures and retries  *)
(* takes the retry count past the limit that its writer set.               *)
THEOREM TypeCorrect == Spec => []TypeOK
<1>1. IInv => TypeOK
  BY DEF IInv
<1>. QED BY <1>1, InitHolds, StepHolds, PTL DEF Spec

LEMMA Invariance == Spec => []IInv
BY InitHolds, StepHolds, PTL DEF Spec

-----------------------------------------------------------------------------
(* A licence in service has its workspace. *)

ServiceInv ==
  /\ ActiveIsProvisioned
  /\ \A w \in Workers : worker[w].pc = "activate" => registry
  /\ \A a \in Actors :
       api[a].pc \in {"recheck", "update"} /\ api[a].op \notin {"edit", "retry"} => registry

LEMMA FromProvisioned ==
  ASSUME NEW op \in Operations \ {"create", "edit", "retry"}
  PROVE  From(op) \subseteq Provisioned
<1>1. {s \in Statuses : "SOFT_LOCKED" \in AllowedStateTransitions[s]} = {"ACTIVE"}
  BY DEF AllowedStateTransitions, Statuses
<1>2. CASE op = "softLock"
  BY <1>1, <1>2 DEF From, Provisioned
<1>3. CASE op \in {"unlock", "archive"}
  BY <1>3 DEF From, Provisioned
<1>4. CASE op \in {"restore", "delete"}
  BY <1>4 DEF From, Provisioned
<1>. QED BY <1>2, <1>3, <1>4 DEF Operations

LEMMA ServiceCall ==
  ASSUME IInv, ServiceInv, NEW a \in Actors,
         StartCreate(a) \/ Proceed(a) \/ Abort(a)
           \/ \E op \in Operations : StartOperation(a, op)
  PROVE  ServiceInv'
<1>0. /\ api \in [Actors -> CallRecord] /\ NoRow.status \notin Provisioned
      /\ NewRow.status \notin Provisioned
  BY DEF IInv, TypeOK, NoRow, NewRow, Provisioned
<1>1. CASE StartCreate(a)
  BY <1>0, <1>1 DEF StartCreate, ServiceInv, ActiveIsProvisioned, Call
<1>2. ASSUME NEW op \in Operations, StartOperation(a, op)
      PROVE  ServiceInv'
  <2>1. op \notin {"edit", "retry"} => registry
    BY <1>2, FromProvisioned DEF StartOperation, ServiceInv, ActiveIsProvisioned
  <2>. DEFINE pc == IF op \in {"edit", "retry"} THEN "update" ELSE "recheck"
              new == Call(pc, op, license.retries, FALSE)
  <2>2. api' = [api EXCEPT ![a] = new] /\ new.op = op
    BY <1>2 DEF StartOperation, Call
  <2>. HIDE DEF new
  <2>. QED BY <1>0, <1>2, <2>1, <2>2 DEF StartOperation, ServiceInv, ActiveIsProvisioned
<1>3. CASE Recheck(a)
  <2>1. \A b \in Actors : api'[b].pc = "update" => api[b].pc \in {"recheck", "update"}
                                                  /\ api'[b].op = api[b].op
    BY <1>0, <1>3, Records DEF Recheck, CallRecord
  <2>2. \A b \in Actors : api'[b].pc = "recheck" => api'[b] = api[b]
    BY <1>0, <1>3, Records DEF Recheck, CallRecord
  <2>. QED BY <1>3, <2>1, <2>2 DEF Recheck, ServiceInv, ActiveIsProvisioned
<1>4. CASE UpdateRow(a)
  <2>1. draft'.status \in Provisioned => registry
    <3>1. CASE api[a].op = "edit"
      BY <1>4, <3>1 DEF UpdateRow, Updated, ServiceInv, ActiveIsProvisioned
    <3>2. CASE api[a].op = "retry"
      BY <1>4, <3>2 DEF UpdateRow, Updated, IInv, TypeOK, Row, Provisioned
    <3>3. CASE api[a].op \notin {"edit", "retry"}
      BY <1>4, <3>3 DEF UpdateRow, ServiceInv
    <3>. QED BY <3>1, <3>2, <3>3
  <2>. QED BY <1>0, <1>4, <2>1 DEF UpdateRow, ServiceInv, ActiveIsProvisioned, CallRecord
<1>5. CASE InsertRow(a) \/ Enqueue(a) \/ EnqueueFails(a) \/ Commit(a) \/ Abort(a)
  <2>1. /\ license' \in {license, draft}
        /\ draft' \in {draft, NoRow, NewRow}
        /\ registry' = registry /\ worker' = worker
    BY <1>5 DEF InsertRow, Enqueue, EnqueueFails, Commit, Abort
  <2>2. \A b \in Actors : api'[b].pc \in {"recheck", "update"} => api'[b] = api[b]
    <3>1. CASE InsertRow(a)
      BY <1>0, <3>1, Records DEF InsertRow, CallRecord
    <3>2. CASE Enqueue(a)
      BY <1>0, <3>2 DEF Enqueue, CallRecord
    <3>3. CASE EnqueueFails(a)
      BY <1>0, <3>3, Records DEF EnqueueFails, CallRecord
    <3>4. CASE Commit(a) \/ Abort(a)
      BY <1>0, <3>4, Records DEF Commit, Abort
    <3>. QED BY <1>5, <3>1, <3>2, <3>3, <3>4
  <2>. QED BY <1>0, <2>1, <2>2 DEF ServiceInv, ActiveIsProvisioned
<1>. QED BY <1>1, <1>2, <1>3, <1>4, <1>5 DEF Proceed

LEMMA ServiceQueue ==
  ASSUME IInv, ServiceInv,
         \/ \E w \in Workers : Work(w) \/ Crash(w)
         \/ \E j \in Jobs : Timeout(j)
  PROVE  ServiceInv'
<1>0. worker \in [Workers -> HandlerRecord] /\ registry \in BOOLEAN
  BY DEF IInv, TypeOK
<1>1. ASSUME NEW w \in Workers, SetActive(w)
      PROVE  ServiceInv'
  <2>1. registry
    BY <1>1 DEF SetActive, ServiceInv
  <2>. QED BY <1>0, <1>1, <2>1, Records DEF SetActive, ServiceInv, ActiveIsProvisioned
<1>2. ASSUME NEW w \in Workers, RecordFailure(w)
      PROVE  ServiceInv'
  <2>1. license'.status \notin Provisioned
    BY <1>2 DEF RecordFailure, IInv, TypeOK, Row, Provisioned
  <2>. QED BY <1>0, <1>2, <2>1, Records DEF RecordFailure, ServiceInv, ActiveIsProvisioned
<1>3. ASSUME NEW w \in Workers, FailureUnrecorded(w) \/ Crash(w)
      PROVE  ServiceInv'
  BY <1>0, <1>3, Records DEF FailureUnrecorded, Crash, ServiceInv, ActiveIsProvisioned
<1>4. ASSUME NEW w \in Workers, InsertRegistry(w)
      PROVE  ServiceInv'
  <2>1. registry' = TRUE
    BY <1>4 DEF InsertRegistry
  <2>. QED BY <2>1 DEF ServiceInv, ActiveIsProvisioned
<1>5. ASSUME NEW w \in Workers, StatementFails(w)
      PROVE  ServiceInv'
  <2>1. registry => registry' = TRUE
    BY <1>0, <1>5 DEF StatementFails
  <2>2. \A v \in Workers : worker'[v].pc = "activate" => worker[v].pc = "activate"
    BY <1>0, <1>5 DEF StatementFails, HandlerRecord
  <2>. QED BY <1>5, <2>1, <2>2 DEF StatementFails, ServiceInv, ActiveIsProvisioned
<1>6. ASSUME NEW w \in Workers, NEW j \in Jobs, Take(w, j)
      PROVE  ServiceInv'
  BY <1>0, <1>6 DEF Take, ServiceInv, ActiveIsProvisioned
<1>7. ASSUME NEW j \in Jobs, Timeout(j)
      PROVE  ServiceInv'
  BY <1>7 DEF Timeout, ServiceInv, ActiveIsProvisioned
<1>. QED BY <1>1, <1>2, <1>3, <1>4, <1>5, <1>6, <1>7 DEF Work

(* A licence in service has its row in tenants_registry, whatever the      *)
(* interleaving of calls, handlers, timeouts and crashes.                  *)
THEOREM Provisioning == Spec => []ActiveIsProvisioned
<1>1. Init => ServiceInv
  BY Records DEF Init, ServiceInv, ActiveIsProvisioned, NoRow, Provisioned
<1>2. IInv /\ ServiceInv /\ [Next]_vars => ServiceInv'
  <2>. SUFFICES ASSUME IInv, ServiceInv, [Next]_vars PROVE ServiceInv'
    OBVIOUS
  <2>1. CASE UNCHANGED vars
    BY <2>1 DEF vars, ServiceInv, ActiveIsProvisioned
  <2>2. CASE Next
    BY <2>2, ServiceCall, ServiceQueue DEF Next
  <2>. QED BY <2>1, <2>2
<1>3. ServiceInv => ActiveIsProvisioned
  BY DEF ServiceInv
<1>. QED BY <1>1, <1>2, <1>3, Invariance, PTL DEF Spec

-----------------------------------------------------------------------------
(* A licence that waits has somebody to settle it. *)

(* A job of the queue, or a handler that overran its job's last attempt. *)
Settling ==
  \/ Unfinished # {}
  \/ \E w \in Workers :
       worker[w].pc # "idle" /\ job[worker[w].job].state = "failed"

(* The committed row waits, or will once the open transaction commits; a   *)
(* creation that failed to enqueue is going to be marked.                  *)
Awaiting ==
  \/ license.status = "PENDING_PROVISION"
  \/ /\ draft.status = "PENDING_PROVISION"
     /\ writer # Nobody
     /\ api[writer].pc = "commit"
     /\ api[writer].op = "create" => api[writer].queued

PendInv ==
  /\ Awaiting /\ ~forsaken => Settling
  /\ \A a \in Actors : api[a].pc \in {"insert", "recheck", "update", "enqueue"} =>
                         ~api[a].queued

LEMMA PendCall ==
  ASSUME IInv, PendInv, NEW a \in Actors,
         StartCreate(a) \/ Proceed(a) \/ Abort(a)
           \/ \E op \in Operations : StartOperation(a, op)
  PROVE  PendInv'
<1>0. /\ api \in [Actors -> CallRecord] /\ job \in [Jobs -> JobRecord]
      /\ worker \in [Workers -> HandlerRecord]
      /\ CallsInv /\ NoRow.status = "NONE" /\ Nobody \notin Actors
  BY DEF IInv, TypeOK, NoRow
<1>1. ASSUME NEW new, api' = [api EXCEPT ![a] = new],
             new.pc \in {"insert", "recheck", "update"}, ~new.queued,
             api[a].pc \in {"idle", "recheck"},
             UNCHANGED <<license, draft, writer, registry, job, worker, forsaken>>
      PROVE  PendInv'
  <2>1. Awaiting' => Awaiting
    BY <1>0, <1>1 DEF Awaiting, CallsInv
  <2>2. Settling' = Settling
    BY <1>1 DEF Settling, Unfinished
  <2>. QED BY <1>0, <1>1, <2>1, <2>2 DEF PendInv
<1>2. CASE StartCreate(a)
  <2>. DEFINE new == Call("insert", "create", 0, FALSE)
  <2>1. new.pc = "insert" /\ new.queued = FALSE
    BY DEF Call
  <2>2. api' = [api EXCEPT ![a] = new] /\ api[a].pc = "idle"
        /\ UNCHANGED <<license, draft, writer, registry, job, worker, forsaken>>
    BY <1>2 DEF StartCreate
  <2>. HIDE DEF new
  <2>. QED BY <1>1, <2>1, <2>2
<1>3. ASSUME NEW op \in Operations, StartOperation(a, op)
      PROVE  PendInv'
  <2>. DEFINE pc == IF op \in {"edit", "retry"} THEN "update" ELSE "recheck"
              new == Call(pc, op, license.retries, FALSE)
  <2>1. new.pc \in {"recheck", "update"} /\ new.queued = FALSE
    BY DEF Call
  <2>2. api' = [api EXCEPT ![a] = new] /\ api[a].pc = "idle"
        /\ UNCHANGED <<license, draft, writer, registry, job, worker, forsaken>>
    BY <1>3 DEF StartOperation
  <2>. HIDE DEF new
  <2>. QED BY <1>1, <2>1, <2>2
<1>4. CASE Recheck(a)
  <2>0. api[a].pc = "recheck" /\ ~api[a].queued
        /\ UNCHANGED <<license, draft, writer, registry, job, worker, forsaken>>
    BY <1>4 DEF Recheck, PendInv
  <2>1. CASE Visible /\ license.status \in From(api[a].op)
    <3>. DEFINE new == [api[a] EXCEPT !.pc = "update"]
    <3>1. new.pc = "update" /\ new.queued = api[a].queued
      BY <1>0 DEF CallRecord
    <3>2. api' = [api EXCEPT ![a] = new]
      BY <1>4, <2>1 DEF Recheck
    <3>. HIDE DEF new
    <3>. QED BY <1>1, <2>0, <3>1, <3>2
  <2>2. CASE ~(Visible /\ license.status \in From(api[a].op))
    <3>1. api' = [api EXCEPT ![a] = Resting]
      BY <1>4, <2>2 DEF Recheck
    <3>2. Awaiting' => Awaiting
      BY <1>0, <2>0, <3>1, Records DEF Awaiting, CallsInv
    <3>3. Settling' = Settling
      BY <2>0 DEF Settling, Unfinished
    <3>. QED BY <1>0, <2>0, <3>1, <3>2, <3>3, Records DEF PendInv
  <2>. QED BY <2>1, <2>2
<1>5. CASE UpdateRow(a)
  <2>1. Settling' = Settling /\ forsaken' = forsaken /\ license' = license
    BY <1>5 DEF UpdateRow, Settling, Unfinished
  <2>2. Awaiting' => Awaiting
    <3>1. CASE api[a].op = "retry"
      <4>1. writer' = a /\ api'[a].pc = "enqueue"
        BY <1>0, <1>5, <3>1 DEF UpdateRow, CallRecord
      <4>. QED BY <2>1, <4>1 DEF Awaiting
    <3>2. CASE api[a].op # "retry"
      <4>1. api[a].op \in Operations \ {"create", "retry"}
        BY <1>0, <1>5, <3>2 DEF UpdateRow, CallsInv, CallRecord
      <4>2. license \in Row
        BY DEF IInv, TypeOK
      <4>3. CASE api[a].op = "edit"
        BY <1>5, <2>1, <4>3 DEF UpdateRow, Updated, Awaiting
      <4>4. CASE api[a].op # "edit"
        <5>1. Updated(api[a].op, license, api[a].read).status # "PENDING_PROVISION"
          BY <4>1, <4>2, <4>4 DEF Updated, Operations, Row
        <5>. QED BY <1>5, <2>1, <5>1 DEF UpdateRow, Awaiting
      <4>. QED BY <4>3, <4>4
    <3>. QED BY <3>1, <3>2
  <2>3. \A b \in Actors : api'[b].queued = api[b].queued /\ (b # a => api'[b] = api[b])
    BY <1>0, <1>5 DEF UpdateRow, CallRecord
  <2>. QED BY <1>0, <1>5, <2>1, <2>2, <2>3 DEF PendInv, UpdateRow
<1>6. CASE InsertRow(a)
  <2>1. Settling' = Settling /\ forsaken' = forsaken /\ license' = license
    BY <1>6 DEF InsertRow, Settling, Unfinished
  <2>2. CASE license.status = "NONE"
    <3>1. api' = [api EXCEPT ![a].pc = "enqueue"] /\ writer' = a /\ api[a].pc = "insert"
      BY <1>6, <2>2 DEF InsertRow
    <3>2. Awaiting' => Awaiting
      BY <1>0, <2>1, <3>1 DEF Awaiting, CallRecord
    <3>. QED BY <1>0, <2>1, <3>1, <3>2 DEF PendInv, CallRecord
  <2>3. CASE license.status # "NONE"
    <3>1. api' = [api EXCEPT ![a] = Resting] /\ writer' = writer /\ draft' = draft
          /\ writer = Nobody
      BY <1>6, <2>3 DEF InsertRow
    <3>2. Awaiting' => Awaiting
      BY <2>1, <3>1 DEF Awaiting
    <3>. QED BY <1>0, <2>1, <3>1, <3>2, Records DEF PendInv
  <2>. QED BY <2>2, <2>3
<1>7. CASE Enqueue(a)
  <2>1. PICK j \in Jobs : job[j].state = "none" /\ job' = [job EXCEPT ![j].state = "waiting"]
    BY <1>7 DEF Enqueue
  <2>2. job'[j].state = "waiting"
    BY <1>0, <2>1 DEF JobRecord
  <2>3. Settling'
    BY <2>2 DEF Settling, Unfinished
  <2>4. \A b \in Actors : api'[b].pc # "commit" => api'[b] = api[b]
    BY <1>0, <1>7 DEF Enqueue, CallRecord
  <2>. QED BY <2>3, <2>4 DEF PendInv
<1>8. CASE EnqueueFails(a)
  <2>1. Settling' = Settling /\ forsaken' = forsaken /\ license' = license
        /\ api[a].pc = "enqueue"
    BY <1>8 DEF EnqueueFails, Settling, Unfinished
  <2>2. CASE api[a].op = "create"
    <3>1. api' = [api EXCEPT ![a].pc = "commit"] /\ writer' = writer /\ writer = a
      BY <1>0, <1>8, <2>1, <2>2 DEF EnqueueFails, CallsInv
    <3>2. api'[a].op = "create" /\ api'[a].queued = FALSE
      BY <1>0, <2>1, <2>2, <3>1 DEF PendInv, CallRecord
    <3>3. Awaiting' => Awaiting
      BY <2>1, <3>1, <3>2 DEF Awaiting
    <3>. QED BY <1>0, <2>1, <3>1, <3>2, <3>3 DEF PendInv, CallRecord
  <2>3. CASE api[a].op # "create"
    <3>1. api' = [api EXCEPT ![a] = Resting] /\ writer' = Nobody
      BY <1>8, <2>3 DEF EnqueueFails
    <3>2. Awaiting' => Awaiting
      BY <2>1, <3>1 DEF Awaiting
    <3>. QED BY <1>0, <2>1, <3>1, <3>2, Records DEF PendInv
  <2>. QED BY <2>2, <2>3
<1>9. CASE Commit(a)
  <2>1. Settling' = Settling /\ writer' = Nobody /\ license' = draft /\ writer = a
        /\ api[a].pc = "commit"
        /\ forsaken' = (forsaken \/ (api[a].op = "create" /\ ~api[a].queued))
    BY <1>0, <1>9 DEF Commit, Settling, Unfinished, CallsInv
  <2>2. Awaiting' /\ ~forsaken' => Awaiting /\ ~forsaken
    BY <1>0, <2>1 DEF Awaiting
  <2>3. \A b \in Actors : api'[b].pc # "idle" => api'[b] = api[b]
    BY <1>0, <1>9, Records DEF Commit
  <2>. QED BY <2>1, <2>2, <2>3 DEF PendInv
<1>10. CASE Abort(a)
  <2>1. Settling' = Settling /\ forsaken' = forsaken /\ license' = license
        /\ api' = [api EXCEPT ![a] = Resting]
    BY <1>10 DEF Abort, Settling, Unfinished
  <2>2. Awaiting' => Awaiting
    <3>1. CASE writer = a
      BY <1>10, <2>1, <3>1 DEF Abort, Awaiting
    <3>2. CASE writer # a
      <4>1. UNCHANGED <<draft, writer>>
        BY <1>10, <3>2 DEF Abort
      <4>2. writer # Nobody => writer \in Actors /\ api'[writer] = api[writer]
        BY <1>0, <2>1, <3>2 DEF IInv, TypeOK
      <4>. QED BY <2>1, <4>1, <4>2 DEF Awaiting
    <3>. QED BY <3>1, <3>2
  <2>3. \A b \in Actors : api'[b].pc # "idle" => api'[b] = api[b]
    BY <1>0, <2>1, Records
  <2>. QED BY <2>1, <2>2, <2>3 DEF PendInv
<1>. QED BY <1>2, <1>3, <1>4, <1>5, <1>6, <1>7, <1>8, <1>9, <1>10 DEF Proceed

LEMMA PendQueue ==
  ASSUME IInv, PendInv,
         \/ \E w \in Workers : Work(w) \/ Crash(w)
         \/ \E j \in Jobs : Timeout(j)
  PROVE  PendInv'
<1>0. /\ api \in [Actors -> CallRecord] /\ job \in [Jobs -> JobRecord]
      /\ worker \in [Workers -> HandlerRecord] /\ license \in Row
      /\ CallsInv /\ JobsInv /\ HandlersInv
  BY DEF IInv, TypeOK
<1>1. ASSUME NEW w \in Workers, SetActive(w) \/ RecordFailure(w)
      PROVE  PendInv'
  <2>1. license'.status # "PENDING_PROVISION" /\ writer' = Nobody /\ api' = api
    BY <1>0, <1>1 DEF SetActive, RecordFailure, Row
  <2>. QED BY <2>1 DEF PendInv, Awaiting
(* A handler lets go of its job. *)
<1>2. ASSUME NEW w \in Workers, worker[w].pc # "idle", worker' = [worker EXCEPT ![w] = Off],
             UNCHANGED <<license, draft, writer, api>>,
             \A k \in Jobs : job'[k].state = job[k].state
                            \/ (k = worker[w].job /\ job'[k].state \in {"waiting", "failed"}),
             forsaken' = (forsaken \/ job'[worker[w].job].state = "failed")
      PROVE  PendInv'
  <2>. DEFINE j == worker[w].job
  <2>1. j \in Jobs
    BY <1>0, <1>2 DEF HandlersInv
  <2>2. CASE job'[j].state = "failed"
    BY <1>2, <2>2 DEF PendInv
  <2>3. CASE job'[j].state # "failed"
    <3>1. Settling => Settling'
      <4>1. \A v \in Workers : v # w => worker'[v] = worker[v]
        BY <1>0, <1>2
      <4>2. \A k \in Unfinished : k \in Unfinished'
        BY <1>2, <2>3 DEF Unfinished
      <4>3. \A v \in Workers : worker[v].pc # "idle" /\ job[worker[v].job].state = "failed"
              => (v # w /\ job'[worker[v].job].state = "failed") \/ Unfinished' # {}
        BY <1>0, <1>2, <2>1, <2>3 DEF HandlersInv, Unfinished
      <4>. QED BY <4>1, <4>2, <4>3 DEF Settling
    <3>2. Awaiting' = Awaiting
      BY <1>2 DEF Awaiting
    <3>. QED BY <1>2, <3>1, <3>2 DEF PendInv
  <2>. QED BY <2>2, <2>3
<1>3. ASSUME NEW w \in Workers, FailureUnrecorded(w)
      PROVE  PendInv'
  <2>. DEFINE new == NextAttempt(worker[w].job)
  <2>1. worker[w].job \in Jobs
    BY <1>0, <1>3 DEF FailureUnrecorded, HandlersInv
  <2>2. new.state \in {"waiting", "failed"}
    BY <1>0, <2>1 DEF NextAttempt, JobRecord
  <2>3. job' = IF job[worker[w].job].by = w
               THEN [job EXCEPT ![worker[w].job] = new] ELSE job
    BY <1>3 DEF FailureUnrecorded, AttemptFails
  <2>4. /\ worker[w].pc # "idle" /\ worker' = [worker EXCEPT ![w] = Off]
        /\ UNCHANGED <<license, draft, writer, api>>
        /\ forsaken' = (forsaken \/ job'[worker[w].job].state = "failed")
    BY <1>3 DEF FailureUnrecorded
  <2>. HIDE DEF new
  <2>5. \A k \in Jobs : job'[k].state = job[k].state
                         \/ (k = worker[w].job /\ job'[k].state \in {"waiting", "failed"})
    BY <1>0, <2>1, <2>2, <2>3
  <2>. QED BY <1>2, <2>4, <2>5
<1>4. ASSUME NEW w \in Workers, Crash(w)
      PROVE  PendInv'
  <2>. DEFINE j == worker[w].job
              new == [job[j] EXCEPT !.state = IF job[j].stalls < MaxStalls THEN "waiting"
                                              ELSE "failed",
                                    !.stalls = IF @ < MaxStalls THEN @ + 1 ELSE @,
                                    !.by = Nobody]
  <2>1. j \in Jobs
    BY <1>0, <1>4 DEF Crash, HandlersInv
  <2>2. new.state \in {"waiting", "failed"}
    BY <1>0, <2>1 DEF JobRecord
  <2>3. job' = IF job[j].by = w THEN [job EXCEPT ![j] = new] ELSE job
    BY <1>0, <1>4, <2>1 DEF Crash, JobRecord
  <2>4. /\ worker[w].pc # "idle" /\ worker' = [worker EXCEPT ![w] = Off]
        /\ UNCHANGED <<license, draft, writer, api>>
        /\ forsaken' = (forsaken \/ job'[worker[w].job].state = "failed")
    BY <1>4 DEF Crash
  <2>. HIDE DEF new
  <2>5. \A k \in Jobs : job'[k].state = job[k].state
                         \/ (k = worker[w].job /\ job'[k].state \in {"waiting", "failed"})
    BY <1>0, <2>1, <2>2, <2>3
  <2>. QED BY <1>2, <2>4, <2>5
<1>5. ASSUME NEW w \in Workers, InsertRegistry(w) \/ StatementFails(w)
      PROVE  PendInv'
  <2>1. UNCHANGED <<license, draft, writer, job, api, forsaken>>
    BY <1>5 DEF InsertRegistry, StatementFails
  <2>2. PICK pc \in {"activate", "record"} : worker' = [worker EXCEPT ![w].pc = pc]
    BY <1>5 DEF InsertRegistry, StatementFails
  <2>3. \A v \in Workers : /\ worker[v].pc # "idle" => worker'[v].pc # "idle"
                           /\ worker'[v].job = worker[v].job
    BY <1>0, <2>2 DEF HandlerRecord
  <2>4. Settling => Settling'
    BY <2>1, <2>3 DEF Settling, Unfinished
  <2>. QED BY <2>1, <2>4 DEF PendInv, Awaiting
<1>6. ASSUME NEW w \in Workers, NEW j \in Jobs, Take(w, j)
      PROVE  PendInv'
  <2>1. job'[j].state = "active"
    BY <1>0, <1>6 DEF Take, JobRecord
  <2>2. Settling'
    BY <2>1 DEF Settling, Unfinished
  <2>. QED BY <1>6, <2>2 DEF Take, PendInv
<1>7. ASSUME NEW j \in Jobs, Timeout(j)
      PROVE  PendInv'
  <2>1. job' = [job EXCEPT ![j] = NextAttempt(j)] /\ job[j].state = "active"
        /\ UNCHANGED <<license, draft, writer, api, worker, forsaken>>
    BY <1>7 DEF Timeout
  <2>2. job'[j].state \in {"waiting", "failed"}
    BY <1>0, <2>1 DEF NextAttempt, JobRecord
  <2>3. job[j].by \in Workers /\ worker[job[j].by].pc # "idle" /\ worker[job[j].by].job = j
    BY <1>0, <2>1 DEF JobsInv, JobRecord
  <2>4. Settling'
    BY <2>1, <2>2, <2>3 DEF Settling, Unfinished
  <2>. QED BY <2>1, <2>4 DEF PendInv
<1>. QED BY <1>1, <1>3, <1>4, <1>5, <1>6, <1>7 DEF Work

(* A licence that waits for its workspace has a job, or a handler at work  *)
(* on one, unless a creation or a job ended without a mark.                *)
THEOREM Awaited == Spec => []PendingHasJob
<1>1. Init => PendInv
  BY Records DEF Init, PendInv, Awaiting, NoRow
<1>2. IInv /\ PendInv /\ [Next]_vars => PendInv'
  <2>. SUFFICES ASSUME IInv, PendInv, [Next]_vars PROVE PendInv'
    OBVIOUS
  <2>1. CASE UNCHANGED vars
    BY <2>1 DEF vars, PendInv, Awaiting, Settling, Unfinished
  <2>2. CASE Next
    BY <2>2, PendCall, PendQueue DEF Next
  <2>. QED BY <2>1, <2>2
<1>3. PendInv => PendingHasJob
  BY DEF PendInv, Awaiting, Settling, PendingHasJob
<1>. QED BY <1>1, <1>2, <1>3, Invariance, PTL DEF Spec

-----------------------------------------------------------------------------
(* The deletion mark. *)

(* An open transaction's row was made of the committed one, and the lock   *)
(* has kept that as it was.                                                *)
Marked(row) ==
  /\ row.deleted => row.status # "NONE"
  /\ row.status = "DELETED" => row.deleted

MarkInv ==
  /\ Marked(license) /\ Marked(draft)
  /\ writer # Nobody /\ license.deleted => draft.deleted

LEMMA UpdatedMark ==
  ASSUME NEW op \in Operations \ {"create"}, NEW row \in Row, NEW read \in Nat, Marked(row)
  PROVE  /\ Marked(Updated(op, row, read))
         /\ row.deleted => Updated(op, row, read).deleted
<1>1. CASE op \in {"edit", "softLock", "archive", "delete"}
  BY <1>1 DEF Updated, Row, Marked, Statuses
<1>2. CASE op \in {"unlock", "restore"}
  BY <1>2 DEF Updated, Row, Marked, Statuses
<1>3. CASE op = "retry"
  BY <1>3 DEF Updated, Row, Marked, Statuses
<1>. QED BY <1>1, <1>2, <1>3 DEF Operations

LEMMA MarkStep ==
  ASSUME IInv, MarkInv, [Next]_vars
  PROVE  MarkInv' /\ (license.deleted => license'.deleted)
<1>0. /\ license \in Row /\ Marked(NoRow) /\ Marked(NewRow)
      /\ api \in [Actors -> CallRecord] /\ CallsInv
  BY DEF IInv, TypeOK, Marked, NoRow, NewRow
<1>1. ASSUME NEW a \in Actors, UpdateRow(a)
      PROVE  MarkInv' /\ (license.deleted => license'.deleted)
  <2>. DEFINE op == api[a].op
              read == api[a].read
  <2>1. op \in Operations \ {"create"} /\ read \in Nat
    BY <1>0, <1>1 DEF UpdateRow, CallsInv, CallRecord
  <2>2. draft' = Updated(op, license, read) /\ license' = license
    BY <1>1 DEF UpdateRow
  <2>. HIDE DEF op, read
  <2>3. Marked(draft') /\ (license.deleted => draft'.deleted)
    BY <1>0, <2>1, <2>2, UpdatedMark DEF MarkInv
  <2>. QED BY <2>2, <2>3 DEF MarkInv, Marked
<1>2. ASSUME NEW a \in Actors, InsertRow(a)
      PROVE  MarkInv' /\ (license.deleted => license'.deleted)
  <2>1. license' = license
    BY <1>2 DEF InsertRow
  <2>2. CASE license.status = "NONE"
    BY <1>0, <1>2, <2>1, <2>2 DEF InsertRow, MarkInv, Marked
  <2>3. CASE license.status # "NONE"
    BY <1>2, <2>1, <2>3 DEF InsertRow, MarkInv, Marked
  <2>. QED BY <2>2, <2>3
<1>3. ASSUME NEW a \in Actors, Commit(a)
      PROVE  MarkInv' /\ (license.deleted => license'.deleted)
  <2>1. writer # Nobody
    BY <1>0, <1>3 DEF Commit, CallsInv
  <2>. QED BY <1>0, <1>3, <2>1 DEF Commit, MarkInv, Marked
<1>4. ASSUME NEW a \in Actors, EnqueueFails(a) \/ Abort(a)
      PROVE  MarkInv' /\ (license.deleted => license'.deleted)
  <2>1. license' = license
    BY <1>4 DEF EnqueueFails, Abort
  <2>2. \/ UNCHANGED <<draft, writer>>
        \/ draft' = NoRow /\ writer' = Nobody
    BY <1>4 DEF EnqueueFails, Abort
  <2>. QED BY <1>0, <2>1, <2>2 DEF MarkInv, Marked
<1>5. ASSUME NEW w \in Workers, SetActive(w) \/ RecordFailure(w)
      PROVE  MarkInv' /\ (license.deleted => license'.deleted)
  <2>1. /\ license'.status \in {"ACTIVE", "PROVISION_FAILED"}
        /\ license'.deleted = license.deleted
    BY <1>0, <1>5 DEF SetActive, RecordFailure, Row
  <2>2. writer' = Nobody /\ draft' = draft
    BY <1>5 DEF SetActive, RecordFailure
  <2>. QED BY <2>1, <2>2 DEF MarkInv, Marked
<1>6. CASE UNCHANGED <<license, draft, writer>>
  BY <1>6 DEF MarkInv, Marked
<1>. QED
  BY <1>1, <1>2, <1>3, <1>4, <1>5, <1>6
  DEF Next, Proceed, Work, StartCreate, StartOperation, Recheck, Enqueue, Take, InsertRegistry,
      StatementFails, FailureUnrecorded, Crash, Timeout, vars

LEMMA MarkInit == Init => MarkInv
BY DEF Init, MarkInv, Marked, NoRow

(* The deletion mark is never taken off, so that no call sees a deleted    *)
(* licence again, even one whose status a stale call or handler has        *)
(* overwritten.                                                            *)
THEOREM DeletionKept == Spec => DeletionStays
<1>1. IInv /\ MarkInv /\ [Next]_vars => MarkInv'
  BY MarkStep
<1>2. IInv /\ MarkInv /\ [Next]_vars => [license.deleted => license'.deleted]_vars
  BY MarkStep
<1>. QED BY <1>1, <1>2, MarkInit, Invariance, PTL DEF Spec, DeletionStays

-----------------------------------------------------------------------------
(* One administrator at a time. *)

OneCallAtATime == \A a, b \in Actors : a = b

(* Nobody is past the first check of a licence marked deleted. *)
NoStaleCall ==
  license.deleted => \A a \in Actors : api[a].pc \in {"idle", "insert"}

LEMMA NoStaleStep ==
  ASSUME OneCallAtATime, IInv, MarkInv, NoStaleCall, [Next]_vars PROVE NoStaleCall'
<1>0. api \in [Actors -> CallRecord] /\ license \in Row
  BY DEF IInv, TypeOK
<1>1. ASSUME NEW a \in Actors, Commit(a) PROVE NoStaleCall'
  <2>1. api'[a].pc = "idle"
    BY <1>0, <1>1, Records DEF Commit
  <2>. QED BY <2>1 DEF OneCallAtATime, NoStaleCall
<1>2. ASSUME NEW a \in Actors, StartCreate(a) PROVE NoStaleCall'
  BY <1>0, <1>2 DEF StartCreate, NoStaleCall, Call
<1>3. ASSUME NEW a \in Actors, NEW op \in Operations, StartOperation(a, op) PROVE NoStaleCall'
  BY <1>3 DEF StartOperation, Visible, NoStaleCall
<1>4. ASSUME NEW a \in Actors,
             Recheck(a) \/ UpdateRow(a) \/ Enqueue(a) \/ EnqueueFails(a)
      PROVE  NoStaleCall'
  BY <1>4 DEF Recheck, UpdateRow, Enqueue, EnqueueFails, NoStaleCall
<1>5. ASSUME NEW a \in Actors, InsertRow(a) PROVE NoStaleCall'
  <2>1. license' = license
    BY <1>5 DEF InsertRow
  <2>2. CASE license.status = "NONE"
    BY <2>1, <2>2 DEF MarkInv, Marked, NoStaleCall
  <2>3. CASE license.status # "NONE"
    BY <1>0, <1>5, <2>1, <2>3, Records DEF InsertRow, NoStaleCall
  <2>. QED BY <2>2, <2>3
<1>6. ASSUME NEW a \in Actors, Abort(a) PROVE NoStaleCall'
  BY <1>0, <1>6, Records DEF Abort, NoStaleCall
<1>7. ASSUME NEW w \in Workers, SetActive(w) \/ RecordFailure(w) PROVE NoStaleCall'
  <2>1. license'.deleted = license.deleted /\ api' = api
    BY <1>0, <1>7 DEF SetActive, RecordFailure, Row
  <2>. QED BY <2>1 DEF NoStaleCall
<1>8. CASE UNCHANGED <<license, api>>
  BY <1>8 DEF NoStaleCall
<1>. QED
  BY <1>1, <1>2, <1>3, <1>4, <1>5, <1>6, <1>7, <1>8
  DEF Next, Proceed, Work, Take, InsertRegistry, StatementFails, FailureUnrecorded, Crash,
      Timeout, vars

(* provisioning_terminal refutes that DELETED is terminal.  With one       *)
(* administrator's call at a time only a handler can leave it: the two     *)
(* reads without a lock do no harm then.                                   *)
THEOREM OnlyHandlersRevive ==
  ASSUME OneCallAtATime
  PROVE  Spec => [][license.status = "DELETED" /\ license'.status # "DELETED"
                      => worker' # worker]_vars
<1>1. Init => NoStaleCall
  BY DEF Init, NoStaleCall, NoRow
<1>2. IInv /\ MarkInv /\ [Next]_vars => MarkInv'
  BY MarkStep
<1>3. IInv /\ MarkInv /\ NoStaleCall /\ [Next]_vars => NoStaleCall'
  BY NoStaleStep
<1>4. IInv /\ MarkInv /\ NoStaleCall /\ [Next]_vars
        => [license.status = "DELETED" /\ license'.status # "DELETED" => worker' # worker]_vars
  <2>. SUFFICES ASSUME IInv, MarkInv, NoStaleCall, Next,
                       license.status = "DELETED", license' # license
                PROVE  worker' # worker
    OBVIOUS
  <2>1. \A a \in Actors : api[a].pc \in {"idle", "insert"}
    BY DEF MarkInv, Marked, NoStaleCall
  <2>2. \A a \in Actors : ~Commit(a)
    BY <2>1 DEF Commit
  <2>3. ASSUME NEW w \in Workers, SetActive(w) \/ RecordFailure(w) PROVE worker' # worker
    <3>1. worker'[w].pc = "idle" /\ worker[w].pc # "idle"
      BY <2>3, Records DEF SetActive, RecordFailure, IInv, TypeOK
    <3>. QED BY <3>1
  <2>. QED
    BY <2>2, <2>3
    DEF Next, Proceed, Work, StartCreate, StartOperation, Recheck, UpdateRow, InsertRow, Enqueue,
        EnqueueFails, Abort, Take, InsertRegistry, StatementFails, FailureUnrecorded, Crash,
        Timeout
<1>. QED BY <1>1, <1>2, <1>3, <1>4, MarkInit, Invariance, PTL DEF Spec
=============================================================================
