------------------------------- MODULE Billing -------------------------------
(***************************************************************************)
(* Invoices, subscriptions and the plan of one student in one tenant       *)
(* database (packages/domain-core/src/billing, subscriptions, plans and    *)
(* students).  Each call is a transaction of several statements; the       *)
(* statements of different calls interleave.  A call's writes are applied  *)
(* when it commits, and until then the rows it has written are in its      *)
(* "held".                                                                 *)
(*                                                                         *)
(* PostgreSQL is external.  A statement waits for the transactions that    *)
(* hold the row it wants, or that have inserted a row its unique index     *)
(* forbids.  A SERIALIZABLE transaction reads one snapshot and may not     *)
(* write or lock a row that another has committed since ("stale", error    *)
(* 40001); any transaction may end without a trace (Abort), which covers   *)
(* errors of the network, of the process and of serialization.             *)
(***************************************************************************)
EXTENDS Naturals, FiniteSets, Sequences

CONSTANTS
  Calls,      \* requests being served at once
  Invoices,   \* ids the invoices table may use (bound)
  Subs,       \* ids the subscriptions table may use (bound)
  Keys,       \* idempotency keys a request may carry, None if it carries none
  Files,      \* proof files
  StaffStatuses, \* the statuses staff write into students (all four in the code)
  None

ASSUME IdsApart ==
  /\ None \notin Invoices \cup Subs \cup Files
  /\ Invoices \cap Subs = {}
  /\ (Invoices \cup Subs) \cap {"student", "studentKey", "plan", "staff"} = {}
  /\ None # "staff"

ASSUME NoneIsNoRow == None \notin {"student", "studentKey", "plan"}

ASSUME StaffStatusesAreStatuses ==
  StaffStatuses \subseteq {"ACTIVE", "SUSPENDED", "EXPIRED", "NONE"}

VARIABLES
  invoice,      \* rows of invoices; status "none" where there is no row
  log,          \* billing_audit_logs: the status events of each invoice
  sub,          \* rows of subscriptions, and what each was given for
  student,      \* students.subscription_status
  plan,         \* is_active and is_deleted of the plan
  overridden,   \* history: staff wrote student after billing last did
  call          \* what each request is doing

vars == <<invoice, log, sub, student, plan, overridden, call>>

\* "studentKey" is the part of the student's row that a foreign key reads:
\* FOR UPDATE takes "student" and "studentKey", UPDATE "student" alone.
Rows == Invoices \cup Subs \cup {"student", "studentKey", "plan"}

InvoiceStatuses == {"none", "PENDING", "PAID", "CANCELLED"}
SubStatuses == {"none", "ACTIVE", "EXPIRED", "CANCELED"}
StudentStatuses == {"ACTIVE", "SUSPENDED", "EXPIRED", "NONE"}
Serializable == {"confirm", "verify", "activate"}
Operations == Serializable \cup
  {"none", "create", "cancelSub", "cancelInvoice", "upload", "deletePlan"}
Statements ==
  {"idle", "count", "insertInvoice", "lockInvoice", "lockPlan", "expire",
   "insertSub", "studentKey", "sync", "cancelRow", "lockStudent", "recheck",
   "writeInvoice", "softDelete", "commit"}

NoInvoice == [status |-> "none", number |-> 0, key |-> None, proof |-> None]
NoSub == [status |-> "none", origin |-> None]
NoCall ==
  [op |-> "none", pc |-> "idle", on |-> None, saw |-> None, new |-> None,
   value |-> None, number |-> 0, held |-> {}, shared |-> {}, stale |-> {}]

Init ==
  /\ invoice = [i \in Invoices |-> NoInvoice]
  /\ log = [i \in Invoices |-> <<>>]
  /\ sub = [s \in Subs |-> NoSub]
  /\ student = "NONE"
  /\ plan = [active |-> TRUE, deleted |-> FALSE]
  /\ overridden = FALSE
  /\ call = [c \in Calls |-> NoCall]

Issued == {i \in Invoices : invoice[i].status # "none"}
Active == {s \in Subs : sub[s].status = "ACTIVE"}

\* findActiveSubscriptionByStudent: rows[0], or null.
FindActive == IF Active = {} THEN {None} ELSE Active

-----------------------------------------------------------------------------
(* Transactions.                                                           *)

Open(c, fields) ==
  /\ call[c].pc = "idle"
  /\ call' = [call EXCEPT ![c] = fields]
  /\ UNCHANGED <<invoice, log, sub, student, plan, overridden>>

Advance(c, fields) ==
  /\ call' = [call EXCEPT ![c] = fields]
  /\ UNCHANGED <<invoice, log, sub, student, plan, overridden>>

\* The rows an open serializable call may still want to lock.
Wanted(o) ==
  IF call[o].op \in Serializable
  THEN Rows \cap {call[o].on, call[o].saw, "plan", "student"}
  ELSE {}

\* c ends; the snapshots of the others are now too old for these rows.
Aged(c, rows) ==
  [o \in Calls |->
     IF o = c THEN NoCall
     ELSE [call[o] EXCEPT !.stale = @ \cup (rows \cap Wanted(o))]]

Refuse(c) == Advance(c, NoCall)

Others(c) == Calls \ {c}
Holders(c, r) == {o \in Others(c) : r \in call[o].held}
Users(c, r) == {o \in Others(c) : r \in call[o].held \cup call[o].shared}

\* The unique indexes on invoice_number and idempotency_key, and on the one
\* ACTIVE subscription of a student: whose uncommitted rows an INSERT awaits.
SameInvoice(n, k, m, j) == n = m \/ (k # None /\ k = j)
RivalInvoices(c) ==
  {o \in Others(c) :
     /\ call[o].op = "create" /\ call[o].new # None
     /\ SameInvoice(call[c].number, call[c].value, call[o].number, call[o].value)}
RivalSubs(c) ==
  {o \in Others(c) :
     \/ call[o].new \in Subs
     \/ (Active \ {call[c].saw}) \cap call[o].held # {}}

\* The calls the next statement of c waits for.
Blockers(c) ==
  CASE call[c].pc = "insertInvoice" -> RivalInvoices(c)
    [] call[c].pc \in {"lockInvoice", "writeInvoice", "cancelRow"} ->
         Holders(c, call[c].on)
    [] call[c].pc = "lockPlan" -> Holders(c, "plan")
    [] call[c].pc = "expire" -> Holders(c, call[c].saw)
    [] call[c].pc = "insertSub" -> RivalSubs(c)
    [] call[c].pc = "studentKey" -> Holders(c, "studentKey")
    [] call[c].pc = "sync" -> Holders(c, "student")
    [] call[c].pc = "lockStudent" -> Users(c, "student") \cup Users(c, "studentKey")
    [] call[c].pc = "softDelete" -> Users(c, "plan")
    [] OTHER -> {}

Runs(c, pc) == call[c].pc = pc /\ Blockers(c) = {}

\* Lock r for writing and go on, unless the snapshot of c is too old for it.
Take(c, r, fields) ==
  IF r \in call[c].stale THEN Refuse(c) ELSE Advance(c, fields)

-----------------------------------------------------------------------------
(* createInvoiceForSubscription, READ COMMITTED.  A key already used       *)
(* returns its invoice and changes nothing.                                *)

CreateInvoice(c, k) ==
  /\ k # None => \A i \in Invoices : invoice[i].key # k
  /\ Open(c, [NoCall EXCEPT !.op = "create", !.pc = "count", !.value = k])

\* generateInvoiceNumberSequence, within one calendar month.
Count(c) ==
  /\ Runs(c, "count")
  /\ Advance(c, [call[c] EXCEPT !.pc = "insertInvoice",
                                !.number = Cardinality(Issued) + 1])

\* Mutant: invoice_number and idempotency_key without their unique indexes.
MutInsertInvoice(c) ==
  /\ Runs(c, "insertInvoice")
  /\ \E i \in Invoices \ Issued :
       /\ \A o \in Calls : call[o].new # i
       /\ Advance(c, [call[c] EXCEPT !.pc = "studentKey", !.new = i])

InsertInvoice(c) ==
  /\ Runs(c, "insertInvoice")
  /\ IF \E i \in Issued : SameInvoice(call[c].number, call[c].value,
                                      invoice[i].number, invoice[i].key)
     THEN Refuse(c)
     ELSE \E i \in Invoices \ Issued :
            /\ \A o \in Calls : call[o].new # i
            /\ Advance(c, [call[c] EXCEPT !.pc = "studentKey", !.new = i])

CommitInvoice(c) ==
  /\ Runs(c, "commit") /\ call[c].op = "create"
  /\ invoice' = [invoice EXCEPT ![call[c].new] =
                   [status |-> "PENDING", number |-> call[c].number,
                    key |-> call[c].value, proof |-> None]]
  /\ log' = [log EXCEPT ![call[c].new] = <<"INVOICE_CREATED">>]
  /\ call' = Aged(c, {})
  /\ UNCHANGED <<sub, student, plan, overridden>>

-----------------------------------------------------------------------------
(* confirmGatewayPayment and verifyManualPayment, SERIALIZABLE.            *)

\* The first statement takes the snapshot, then waits for the row.
Pay(c, op, i) ==
  /\ op \in {"confirm", "verify"} /\ i \in Issued
  /\ \E s \in FindActive :
       Open(c, [NoCall EXCEPT !.op = op, !.pc = "lockInvoice", !.on = i, !.saw = s])

\* Mutant: the row is locked, its status not looked at.
MutLockInvoice(c) ==
  /\ Runs(c, "lockInvoice")
  /\ Take(c, call[c].on,
          [call[c] EXCEPT !.pc = "lockPlan", !.held = @ \cup {call[c].on}])

\* PAID already, not PENDING, or no proof to verify: nothing is written.
LockInvoice(c) ==
  LET i == call[c].on IN
  /\ Runs(c, "lockInvoice")
  /\ IF \/ invoice[i].status # "PENDING"
        \/ call[c].op = "verify" /\ invoice[i].proof = None
     THEN Refuse(c)
     ELSE Take(c, i, [call[c] EXCEPT !.pc = "lockPlan", !.held = @ \cup {i}])

\* Mutant: the plan is read without FOR SHARE.
MutLockPlan(c) ==
  /\ Runs(c, "lockPlan")
  /\ IF ~plan.active
     THEN Refuse(c)
     ELSE Advance(c, [call[c] EXCEPT !.pc = "expire"])

\* SELECT ... FOR SHARE, by id: is_deleted is not looked at.
LockPlan(c) ==
  /\ Runs(c, "lockPlan")
  /\ IF ~plan.active
     THEN Refuse(c)
     ELSE Take(c, "plan", [call[c] EXCEPT !.pc = "expire", !.shared = @ \cup {"plan"}])

Expire(c) ==
  LET s == call[c].saw IN
  /\ Runs(c, "expire")
  /\ IF s = None
     THEN Advance(c, [call[c] EXCEPT !.pc = "insertSub"])
     ELSE Take(c, s, [call[c] EXCEPT !.pc = "insertSub", !.held = @ \cup {s}])

InsertSubscription(c) ==
  /\ Runs(c, "insertSub")
  /\ IF Active \ {call[c].saw} # {}
     THEN Refuse(c)
     ELSE \E s \in Subs :
            /\ sub[s].status = "none"
            /\ Advance(c, [call[c] EXCEPT !.pc = "studentKey", !.new = s])

\* The foreign key of the new row reads the student's key, FOR KEY SHARE.
ReferenceStudent(c) ==
  /\ Runs(c, "studentKey")
  /\ Advance(c, [call[c] EXCEPT
                   !.pc = IF call[c].op = "create" THEN "commit" ELSE "sync",
                   !.shared = @ \cup {"studentKey"}])

SyncStudent(c) ==
  /\ Runs(c, "sync")
  /\ Take(c, "student", [call[c] EXCEPT !.pc = "commit", !.held = @ \cup {"student"}])

\* What the committed activation leaves in subscriptions.
Activated(c, origin) ==
  [s \in Subs |->
     CASE s = call[c].new -> [status |-> "ACTIVE", origin |-> origin]
       [] s # call[c].new /\ s = call[c].saw -> [sub[s] EXCEPT !.status = "EXPIRED"]
       [] OTHER -> sub[s]]

Event(op) == IF op = "confirm" THEN "PAYMENT_CONFIRMED" ELSE "MANUAL_PAYMENT_VERIFIED"

CommitPayment(c) ==
  LET i == call[c].on IN
  /\ Runs(c, "commit") /\ call[c].op \in {"confirm", "verify"}
  /\ invoice' = [invoice EXCEPT ![i].status = "PAID"]
  /\ log' = [log EXCEPT ![i] = Append(@, Event(call[c].op))]
  /\ sub' = Activated(c, i)
  /\ student' = "ACTIVE"
  /\ overridden' = FALSE
  /\ call' = Aged(c, call[c].held)
  /\ UNCHANGED plan

-----------------------------------------------------------------------------
(* activateSubscription by staff, SERIALIZABLE: the same, without invoice  *)
(* and without a lock on the plan it reads.                                *)

ActivateSubscription(c) ==
  /\ plan.active /\ ~plan.deleted
  /\ \E s \in FindActive :
       Open(c, [NoCall EXCEPT !.op = "activate", !.pc = "expire", !.saw = s])

CommitActivation(c) ==
  /\ Runs(c, "commit") /\ call[c].op = "activate"
  /\ sub' = Activated(c, "staff")
  /\ student' = "ACTIVE"
  /\ overridden' = FALSE
  /\ call' = Aged(c, call[c].held)
  /\ UNCHANGED <<invoice, log, plan>>

-----------------------------------------------------------------------------
(* cancelSubscriptionService, READ COMMITTED.                              *)

\* Mutant: the student is locked before the subscription.
MutCancelSubscription(c, s) ==
  /\ s \in Active
  /\ Users(c, "student") = {} /\ Users(c, "studentKey") = {}
  /\ Open(c, [NoCall EXCEPT !.op = "cancelSub", !.pc = "cancelRow", !.on = s,
                            !.held = {"student", "studentKey"}])

CancelSubscription(c, s) ==
  /\ s \in Active
  /\ Open(c, [NoCall EXCEPT !.op = "cancelSub", !.pc = "cancelRow", !.on = s])

\* UPDATE ... WHERE status IN ('ACTIVE', 'PENDING'), on the row as it is now.
CancelRow(c) ==
  /\ Runs(c, "cancelRow")
  /\ IF call[c].on \notin Active
     THEN Refuse(c)
     ELSE Advance(c, [call[c] EXCEPT !.pc = "lockStudent", !.held = @ \cup {call[c].on}])

LockStudent(c) ==
  /\ Runs(c, "lockStudent")
  /\ Advance(c, [call[c] EXCEPT !.pc = "recheck",
                                !.held = @ \cup {"student", "studentKey"}])

\* Is there another active subscription, now that this one is cancelled?
Recheck(c) ==
  /\ Runs(c, "recheck")
  /\ Advance(c, [call[c] EXCEPT !.pc = "commit",
                 !.saw = IF Active \ {call[c].on} = {} THEN None
                         ELSE CHOOSE s \in Active : s # call[c].on])

\* Mutant: the status of an invoice, spelled with two Ls, in subscriptions.
MutCancelSpelling(c) ==
  /\ Runs(c, "commit") /\ call[c].op = "cancelSub"
  /\ sub' = [sub EXCEPT ![call[c].on].status = "CANCELLED"]
  /\ student' = IF call[c].saw = None THEN "NONE" ELSE student
  /\ overridden' = (call[c].saw # None /\ overridden)
  /\ call' = Aged(c, {call[c].on, "student"})
  /\ UNCHANGED <<invoice, log, plan>>

\* Mutant: the student is not synchronised.
MutCancelWithoutSync(c) ==
  /\ Runs(c, "commit") /\ call[c].op = "cancelSub"
  /\ sub' = [sub EXCEPT ![call[c].on].status = "CANCELED"]
  /\ call' = Aged(c, {call[c].on})
  /\ UNCHANGED <<invoice, log, student, plan, overridden>>

CommitCancelSubscription(c) ==
  LET alone == call[c].saw = None IN
  /\ Runs(c, "commit") /\ call[c].op = "cancelSub"
  /\ sub' = [sub EXCEPT ![call[c].on].status = "CANCELED"]
  /\ student' = IF alone THEN "NONE" ELSE student
  /\ overridden' = IF alone THEN FALSE ELSE overridden
  /\ call' = Aged(c, {call[c].on} \cup IF alone THEN {"student"} ELSE {})
  /\ UNCHANGED <<invoice, log, plan>>

-----------------------------------------------------------------------------
(* cancelInvoice and uploadInvoiceProof, READ COMMITTED.  Both read PENDING *)
(* first; the cancellation compares the status again as it writes, the     *)
(* upload writes by id alone.                                              *)

CancelInvoice(c, i) ==
  /\ invoice[i].status = "PENDING"
  /\ Open(c, [NoCall EXCEPT !.op = "cancelInvoice", !.pc = "writeInvoice", !.on = i])

UploadInvoiceProof(c, i, f) ==
  /\ invoice[i].status = "PENDING"
  /\ Open(c, [NoCall EXCEPT !.op = "upload", !.pc = "writeInvoice", !.on = i, !.value = f])

\* Mutant: the cancellation, too, writes by id alone.
MutWriteInvoice(c) ==
  /\ Runs(c, "writeInvoice")
  /\ Advance(c, [call[c] EXCEPT !.pc = "commit", !.held = @ \cup {call[c].on}])

WriteInvoice(c) ==
  LET i == call[c].on IN
  /\ Runs(c, "writeInvoice")
  /\ IF call[c].op = "cancelInvoice" /\ invoice[i].status # "PENDING"
     THEN Refuse(c)
     ELSE Advance(c, [call[c] EXCEPT !.pc = "commit", !.held = @ \cup {i}])

CommitCancelInvoice(c) ==
  LET i == call[c].on IN
  /\ Runs(c, "commit") /\ call[c].op = "cancelInvoice"
  /\ invoice' = [invoice EXCEPT ![i].status = "CANCELLED"]
  /\ log' = [log EXCEPT ![i] = Append(@, "INVOICE_CANCELLED")]
  /\ call' = Aged(c, {i})
  /\ UNCHANGED <<sub, student, plan, overridden>>

CommitProof(c) ==
  LET i == call[c].on IN
  /\ Runs(c, "commit") /\ call[c].op = "upload"
  /\ invoice' = [invoice EXCEPT ![i].proof = call[c].value]
  /\ call' = Aged(c, {i})
  /\ UNCHANGED <<log, sub, student, plan, overridden>>

-----------------------------------------------------------------------------
(* The plan, READ COMMITTED, and the student's status written by staff.    *)

\* findPlanById and countActiveSubscriptionsByPlanId.
DeletePlan(c) ==
  /\ ~plan.deleted /\ Active = {}
  /\ Open(c, [NoCall EXCEPT !.op = "deletePlan", !.pc = "softDelete"])

SoftDelete(c) ==
  /\ Runs(c, "softDelete")
  /\ Advance(c, [call[c] EXCEPT !.pc = "commit", !.held = @ \cup {"plan"}])

CommitDeletePlan(c) ==
  /\ Runs(c, "commit") /\ call[c].op = "deletePlan"
  /\ plan' = [plan EXCEPT !.deleted = TRUE]
  /\ call' = Aged(c, {"plan"})
  /\ UNCHANGED <<invoice, log, sub, student, overridden>>

\* One UPDATE each: c waits for the row and writes it in the same step.
UpdatePlan(c, active) ==
  /\ call[c].pc = "idle" /\ Users(c, "plan") = {} /\ ~plan.deleted
  /\ plan' = [plan EXCEPT !.active = active]
  /\ call' = Aged(c, {"plan"})
  /\ UNCHANGED <<invoice, log, sub, student, overridden>>

UpdateStudentSubscriptionStatus(c, status) ==
  /\ call[c].pc = "idle" /\ Holders(c, "student") = {}
  /\ student' = status
  /\ overridden' = TRUE
  /\ call' = Aged(c, {"student"})
  /\ UNCHANGED <<invoice, log, sub, plan>>

-----------------------------------------------------------------------------

Abort(c) == call[c].pc # "idle" /\ Refuse(c)

Begin(c) ==
  \/ \E k \in Keys : CreateInvoice(c, k)
  \/ \E i \in Invoices :
       \/ Pay(c, "confirm", i) \/ Pay(c, "verify", i)
       \/ CancelInvoice(c, i)
       \/ \E f \in Files : UploadInvoiceProof(c, i, f)
  \/ ActivateSubscription(c)
  \/ \E s \in Subs : CancelSubscription(c, s)
  \/ DeletePlan(c)
  \/ \E active \in BOOLEAN : UpdatePlan(c, active)
  \/ \E status \in StaffStatuses : UpdateStudentSubscriptionStatus(c, status)

Proceed(c) ==
  \/ Count(c) \/ InsertInvoice(c) \/ LockInvoice(c) \/ LockPlan(c) \/ Expire(c)
  \/ InsertSubscription(c) \/ ReferenceStudent(c) \/ SyncStudent(c)
  \/ CancelRow(c) \/ LockStudent(c) \/ Recheck(c) \/ WriteInvoice(c)
  \/ SoftDelete(c)

Commit(c) ==
  \/ CommitInvoice(c) \/ CommitPayment(c) \/ CommitActivation(c)
  \/ CommitCancelSubscription(c) \/ CommitCancelInvoice(c) \/ CommitProof(c)
  \/ CommitDeletePlan(c)

Next == \E c \in Calls : Begin(c) \/ Proceed(c) \/ Commit(c) \/ Abort(c)

Spec == Init /\ [][Next]_vars

-----------------------------------------------------------------------------
(* Properties.                                                             *)

\* Every column holds a value its CHECK constraint allows, and every call is
\* at a statement with rows to lock and a snapshot to compare.
TypeOK ==
  /\ invoice \in [Invoices -> [status: InvoiceStatuses, number: Nat,
                              key: Keys \cup {None}, proof: Files \cup {None}]]
  /\ log \in [Invoices -> Seq({"INVOICE_CREATED", "PAYMENT_CONFIRMED",
                              "MANUAL_PAYMENT_VERIFIED", "INVOICE_CANCELLED"})]
  /\ sub \in [Subs -> [status: SubStatuses, origin: Invoices \cup {"staff", None}]]
  /\ student \in StudentStatuses
  /\ plan \in [active: BOOLEAN, deleted: BOOLEAN]
  /\ overridden \in BOOLEAN
  /\ call \in [Calls ->
       [op: Operations, pc: Statements, on: Invoices \cup Subs \cup {None},
        saw: Subs \cup {None}, new: Invoices \cup Subs \cup {None},
        value: Keys \cup Files \cup {None}, number: Nat,
        held: SUBSET Rows, shared: SUBSET Rows, stale: SUBSET Rows]]

\* A student has at most one ACTIVE subscription, and subscription_status
\* says ACTIVE exactly when there is one, NONE when there is not, whatever
\* activations and cancellations ran at once, until staff overwrite it.
StatusMirrorsSubscription ==
  /\ \A s, t \in Active : s = t
  /\ ~overridden => student = IF Active = {} THEN "NONE" ELSE "ACTIVE"

\* However often the gateway delivers a payment, and whoever verifies it at
\* the same time, an invoice that is PAID gave exactly one subscription and
\* an invoice that is not gave none.
PaidOnce ==
  \A i \in Invoices :
    LET given == {s \in Subs : sub[s].origin = i} IN
    IF invoice[i].status = "PAID"
    THEN \E s \in given : given = {s}
    ELSE given = {}

\* The billing audit log tells the status: an invoice was created, then paid
\* or cancelled at most once, and never both.
LogTellsTheStatus ==
  \A i \in Invoices :
    CASE invoice[i].status = "none" -> log[i] = <<>>
      [] invoice[i].status = "PENDING" -> log[i] = <<"INVOICE_CREATED">>
      [] invoice[i].status = "PAID" ->
           \/ log[i] = <<"INVOICE_CREATED", "PAYMENT_CONFIRMED">>
           \/ log[i] = <<"INVOICE_CREATED", "MANUAL_PAYMENT_VERIFIED">>
      [] OTHER -> log[i] = <<"INVOICE_CREATED", "INVOICE_CANCELLED">>

\* Numbers drawn by COUNT(*) + 1 under READ COMMITTED still run from 1
\* without a gap or a repetition, and a key names one invoice.
NumbersAreDense ==
  /\ {invoice[i].number : i \in Issued} = 1 .. Cardinality(Issued)
  /\ \A i, j \in Issued : i # j =>
       ~SameInvoice(invoice[i].number, invoice[i].key, invoice[j].number, invoice[j].key)

\* No deadlock: in every set of calls that wait there is one that waits for
\* none of the others.  cancelSubscriptionService claims so of its order.
NoLockCycle ==
  \A W \in (SUBSET Calls) \ {{}} : \E c \in W : Blockers(c) \cap W = {}

\* A paid invoice is committed on a plan that is active at that moment: the
\* plan cannot be deactivated between the check and the commit.
PaidOnActivePlan ==
  [][\A i \in Invoices :
       invoice[i].status # "PAID" /\ invoice'[i].status = "PAID" => plan.active]_vars

\* To a reader of committed rows the calls are the indivisible steps of
\* BillingLedger: an invoice ends paid or cancelled, and each payment
\* replaces the current subscription by its own.
Given == IF Active = {} THEN None ELSE sub[CHOOSE s \in Active : TRUE].origin

Ledger == INSTANCE BillingLedger WITH
  invoiceStatus <- [i \in Invoices |-> invoice[i].status],
  current <- Given

ImplementsLedger == Ledger!Spec
=============================================================================
