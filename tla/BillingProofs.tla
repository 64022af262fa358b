---------------------------- MODULE BillingProofs ----------------------------
(***************************************************************************)
(* Proofs about Billing, for any number of calls, invoices, subscriptions, *)
(* keys and proof files.                                                   *)
(*                                                                         *)
(* No property of Billing is inductive, because each depends on what the   *)
(* calls under way have read and locked.  Fits says of one call what its   *)
(* statement implies about the committed rows; Apart says what two calls   *)
(* cannot have at once.  Isolation is not used: the argument rests on row  *)
(* locks and unique indexes alone.                                         *)
(***************************************************************************)
EXTENDS Billing, FiniteSetTheorems, SequenceTheorems, TLAPS

USE IdsApart, StaffStatusesAreStatuses

Payments == {"confirm", "verify"}
LastStatements == {"studentKey", "sync", "commit"}
StatementsOf(op) ==
  CASE op = "none"   -> {"idle"}
    [] op = "create" -> {"count", "insertInvoice", "studentKey", "commit"}
    [] op \in Payments ->
         {"lockInvoice", "lockPlan", "expire", "insertSub"} \cup LastStatements
    [] op = "activate"   -> {"expire", "insertSub"} \cup LastStatements
    [] op = "cancelSub"  -> {"cancelRow", "lockStudent", "recheck", "commit"}
    [] op = "deletePlan" -> {"softDelete", "commit"}
    [] OTHER -> {"writeInvoice", "commit"}

(* An invoice to be created: its number is the next, its row is free.      *)
FitsCreate(k) ==
  /\ k.value \in Keys
  /\ k.pc = "count" => k.new = None
  /\ k.pc = "insertInvoice" =>
       k.new = None /\ k.number \in 1 .. Cardinality(Issued) + 1
  /\ k.pc \in {"studentKey", "commit"} =>
       /\ k.new \in Invoices \ Issued
       /\ k.number = Cardinality(Issued) + 1
       /\ k.value # None => \A i \in Issued : invoice[i].key # k.value

(* A payment: it holds a PENDING invoice, and shares an active plan.       *)
FitsPayment(k) ==
  /\ k.on \in Invoices
  /\ k.pc # "lockInvoice" => k.on \in k.held /\ invoice[k.on].status = "PENDING"
  /\ k.pc \notin {"lockInvoice", "lockPlan"} => "plan" \in k.shared /\ plan.active

(* A new subscription: nothing but the one to be replaced is active.       *)
FitsActivation(k) ==
  /\ k.saw \in Subs \cup {None}
  /\ k.saw # None => sub[k.saw].status # "none"
  /\ k.pc \in {"insertSub"} \cup LastStatements => k.saw = None \/ k.saw \in k.held
  /\ k.pc \notin LastStatements => k.new = None
  /\ k.pc \in LastStatements =>
       k.new \in Subs /\ sub[k.new].status = "none" /\ Active \subseteq {k.saw}

(* A cancelled subscription stays the active one until the commit.         *)
FitsCancellation(k) ==
  /\ k.on \in Subs
  /\ k.pc # "cancelRow" => k.on \in k.held /\ k.on \in Active
  /\ k.pc = "commit" => k.saw = None

FitsWrite(k) ==
  /\ k.on \in Invoices
  /\ k.op = "upload" => k.value \in Files
  /\ k.pc = "commit" => k.on \in k.held
  /\ k.pc = "commit" /\ k.op = "cancelInvoice" => invoice[k.on].status = "PENDING"

Fits(k) ==
  /\ k.pc \in StatementsOf(k.op)
  /\ k.op = "create" => FitsCreate(k)
  /\ k.op \in Payments => FitsPayment(k)
  /\ k.op \in Serializable => FitsActivation(k)
  /\ k.op = "cancelSub" => FitsCancellation(k)
  /\ k.op \in {"cancelInvoice", "upload"} => FitsWrite(k)
  /\ k.op \notin {"create"} \cup Serializable => k.new = None

(* Row locks exclude each other; so do the rows that unique indexes guard. *)
Apart(k, m) ==
  /\ k.held \cap m.held = {}
  /\ k.new \in Invoices => m.new \notin Invoices
  /\ k.new \in Subs => m.new \notin Subs

CallsInv ==
  /\ \A c \in Calls : Fits(call[c])
  /\ \A c, d \in Calls : c # d => Apart(call[c], call[d])

(* Rows that do not exist were given for nothing, rows that do for         *)
(* something; and only committed creations issue an invoice.               *)
RowsInv ==
  /\ \A s \in Subs : sub[s].status = "none" <=> sub[s].origin = None
  /\ IsFiniteSet(Issued)

IInv ==
  /\ TypeOK /\ CallsInv /\ RowsInv
  /\ StatusMirrorsSubscription /\ PaidOnce /\ LogTellsTheStatus /\ NumbersAreDense

-----------------------------------------------------------------------------
(* Records and steps that only move a call. *)

CallType ==
  [op: Operations, pc: Statements, on: Invoices \cup Subs \cup {None},
   saw: Subs \cup {None}, new: Invoices \cup Subs \cup {None},
   value: Keys \cup Files \cup {None}, number: Nat,
   held: SUBSET Rows, shared: SUBSET Rows, stale: SUBSET Rows]

Data == <<invoice, log, sub, student, plan, overridden>>

LEMMA CallTyped == TypeOK => call \in [Calls -> CallType]
BY DEF TypeOK, CallType

LEMMA NoCallFits ==
  /\ NoCall \in CallType /\ Fits(NoCall)
  /\ \A m : Apart(NoCall, m) /\ Apart(m, NoCall)
BY DEF NoCall, CallType, Operations, Serializable, Statements, Fits, Apart,
       StatementsOf, Payments

LEMMA ApartSymmetric == \A k, m : Apart(k, m) => Apart(m, k)
BY DEF Apart

(* Only the record of c changes, and the new one fits. *)
LEMMA LocalStep ==
  ASSUME IInv, NEW c \in Calls, UNCHANGED Data,
         call' = [call EXCEPT ![c] = call'[c]],
         call'[c] \in CallType, Fits(call'[c]),
         \A d \in Calls \ {c} : Apart(call'[c], call[d])
  PROVE  IInv'
<1>1. TypeOK'
  BY DEF IInv, TypeOK, Data, CallType
<1>2. \A d \in Calls : d # c => call'[d] = call[d]
  BY DEF IInv, TypeOK
<1>3. Issued' = Issued /\ Active' = Active
  BY DEF Data, Issued, Active
<1>5. \A d \in Calls : Fits(call[d])'
  <2>1. \A d \in Calls : Fits(call'[d])
    BY <1>2 DEF IInv, CallsInv
  <2>. QED BY <1>3, <2>1 DEF Data, Fits, FitsCreate, FitsPayment, FitsActivation,
              FitsCancellation, FitsWrite
<1>6. \A d, e \in Calls : d # e => Apart(call'[d], call'[e])
  BY <1>2, ApartSymmetric DEF IInv, CallsInv
<1>7. CallsInv'
  BY <1>5, <1>6 DEF CallsInv, Apart
<1>8. RowsInv' /\ StatusMirrorsSubscription' /\ PaidOnce' /\ LogTellsTheStatus'
        /\ NumbersAreDense'
  BY <1>3 DEF IInv, Data, RowsInv, StatusMirrorsSubscription, PaidOnce,
              LogTellsTheStatus, NumbersAreDense
<1>. QED BY <1>1, <1>7, <1>8 DEF IInv

(* The same, as the actions say it. *)
LEMMA AdvanceStep ==
  ASSUME IInv, NEW c \in Calls, Advance(c, call'[c]),
         call'[c] \in CallType, Fits(call'[c]),
         \A d \in Calls \ {c} : Apart(call'[c], call[d])
  PROVE  IInv'
BY LocalStep DEF Advance, Data

LEMMA RefuseStep == ASSUME IInv, NEW c \in Calls, Refuse(c) PROVE IInv'
<1>1. call'[c] = NoCall
  BY DEF IInv, TypeOK, Refuse, Advance
<1>. QED BY <1>1, NoCallFits, AdvanceStep DEF Refuse

-----------------------------------------------------------------------------
(* The calls begin: they hold nothing and have inserted nothing. *)

(* A fresh record for c, whatever it is, is apart from all others. *)
LEMMA OpenStep ==
  ASSUME IInv, NEW c \in Calls, Open(c, call'[c]),
         call'[c] \in CallType, Fits(call'[c]),
         call'[c].held = {}, call'[c].new = None
  PROVE  IInv'
<1>1. \A d \in Calls \ {c} : Apart(call'[c], call[d])
  BY DEF Apart
<1>2. Advance(c, call'[c])
  BY DEF Open, Advance
<1>. QED BY <1>1, <1>2, AdvanceStep

LEMMA OpenedRecord ==
  ASSUME TypeOK, NEW c \in Calls, NEW r, Open(c, r)
  PROVE  call'[c] = r /\ Open(c, call'[c])
BY DEF TypeOK, Open

LEMMA CreateInvoiceStep ==
  ASSUME IInv, NEW c \in Calls, NEW k \in Keys, CreateInvoice(c, k) PROVE IInv'
<1>. DEFINE r == [NoCall EXCEPT !.op = "create", !.pc = "count", !.value = k]
<1>1. r \in CallType /\ r.held = {} /\ r.new = None /\ Fits(r)
  BY DEF NoCall, CallType, Operations, Serializable, Statements, Fits, FitsCreate,
         StatementsOf, Payments, LastStatements
<1>2. Open(c, r)
  BY DEF CreateInvoice
<1>. HIDE DEF r
<1>. QED BY <1>1, <1>2, OpenedRecord, OpenStep DEF IInv

LEMMA PayStep ==
  ASSUME IInv, NEW c \in Calls, NEW op, NEW i \in Invoices, Pay(c, op, i) PROVE IInv'
<1>1. PICK s \in FindActive :
        Open(c, [NoCall EXCEPT !.op = op, !.pc = "lockInvoice", !.on = i, !.saw = s])
  BY DEF Pay
<1>. DEFINE r == [NoCall EXCEPT !.op = op, !.pc = "lockInvoice", !.on = i, !.saw = s]
<1>2. /\ op \in {"confirm", "verify"} /\ s \in Subs \cup {None}
      /\ s # None => sub[s].status # "none"
  BY DEF Pay, FindActive, Active
<1>3. r \in CallType /\ r.held = {} /\ r.new = None
  BY <1>2 DEF NoCall, CallType, Operations, Serializable, Statements
<1>4. Fits(r)
  BY <1>2 DEF NoCall, Serializable, Fits, FitsPayment, FitsActivation,
         StatementsOf, Payments, LastStatements
<1>. HIDE DEF r
<1>. QED BY <1>1, <1>3, <1>4, OpenedRecord, OpenStep DEF IInv, r

LEMMA ActivateSubscriptionStep ==
  ASSUME IInv, NEW c \in Calls, ActivateSubscription(c) PROVE IInv'
<1>1. PICK s \in FindActive :
        Open(c, [NoCall EXCEPT !.op = "activate", !.pc = "expire", !.saw = s])
  BY DEF ActivateSubscription
<1>. DEFINE r == [NoCall EXCEPT !.op = "activate", !.pc = "expire", !.saw = s]
<1>2. s \in Subs \cup {None} /\ (s # None => sub[s].status # "none")
  BY DEF FindActive, Active
<1>3. r \in CallType /\ r.held = {} /\ r.new = None
  BY <1>2 DEF NoCall, CallType, Operations, Serializable, Statements
<1>4. Fits(r)
  BY <1>2 DEF NoCall, Serializable, Fits, FitsActivation, StatementsOf, Payments,
         LastStatements
<1>. HIDE DEF r
<1>. QED BY <1>1, <1>3, <1>4, OpenedRecord, OpenStep DEF IInv, r

LEMMA CancelSubscriptionStep ==
  ASSUME IInv, NEW c \in Calls, NEW s \in Subs, CancelSubscription(c, s) PROVE IInv'
<1>. DEFINE r == [NoCall EXCEPT !.op = "cancelSub", !.pc = "cancelRow", !.on = s]
<1>1. r \in CallType /\ r.held = {} /\ r.new = None /\ Fits(r)
  BY DEF NoCall, CallType, Operations, Serializable, Statements, Fits,
         FitsCancellation, StatementsOf, Payments
<1>2. Open(c, r)
  BY DEF CancelSubscription
<1>. HIDE DEF r
<1>. QED BY <1>1, <1>2, OpenedRecord, OpenStep DEF IInv

LEMMA CancelInvoiceStep ==
  ASSUME IInv, NEW c \in Calls, NEW i \in Invoices, CancelInvoice(c, i) PROVE IInv'
<1>. DEFINE r == [NoCall EXCEPT !.op = "cancelInvoice", !.pc = "writeInvoice", !.on = i]
<1>1. r \in CallType /\ r.held = {} /\ r.new = None /\ Fits(r)
  BY DEF NoCall, CallType, Operations, Serializable, Statements, Fits, FitsWrite,
         StatementsOf, Payments
<1>2. Open(c, r)
  BY DEF CancelInvoice
<1>. HIDE DEF r
<1>. QED BY <1>1, <1>2, OpenedRecord, OpenStep DEF IInv

LEMMA UploadStep ==
  ASSUME IInv, NEW c \in Calls, NEW i \in Invoices, NEW f \in Files,
         UploadInvoiceProof(c, i, f)
  PROVE  IInv'
<1>. DEFINE r == [NoCall EXCEPT !.op = "upload", !.pc = "writeInvoice", !.on = i,
                                !.value = f]
<1>1. r \in CallType /\ r.held = {} /\ r.new = None /\ Fits(r)
  BY DEF NoCall, CallType, Operations, Serializable, Statements, Fits, FitsWrite,
         StatementsOf, Payments
<1>2. Open(c, r)
  BY DEF UploadInvoiceProof
<1>. HIDE DEF r
<1>. QED BY <1>1, <1>2, OpenedRecord, OpenStep DEF IInv

LEMMA DeletePlanStep ==
  ASSUME IInv, NEW c \in Calls, DeletePlan(c) PROVE IInv'
<1>. DEFINE r == [NoCall EXCEPT !.op = "deletePlan", !.pc = "softDelete"]
<1>1. r \in CallType /\ r.held = {} /\ r.new = None /\ Fits(r)
  BY DEF NoCall, CallType, Operations, Serializable, Statements, Fits, StatementsOf,
         Payments
<1>2. Open(c, r)
  BY DEF DeletePlan
<1>. HIDE DEF r
<1>. QED BY <1>1, <1>2, OpenedRecord, OpenStep DEF IInv

-----------------------------------------------------------------------------
(* The statements.  Each gives a row only to a call that nobody excludes. *)

LEMMA Running ==
  ASSUME IInv, NEW c \in Calls
  PROVE  /\ call[c] \in CallType /\ Fits(call[c])
         /\ \A d \in Calls \ {c} :
              /\ call[d] \in CallType /\ Fits(call[d])
              /\ Apart(call[c], call[d])
BY CallTyped DEF IInv, CallsInv

LEMMA AdvancedRecord ==
  ASSUME IInv, NEW c \in Calls, NEW r, Advance(c, r)
  PROVE  call'[c] = r /\ Advance(c, call'[c])
BY DEF IInv, TypeOK, Advance

(* Statements that lock an unlocked row. *)
LEMMA LockApart ==
  ASSUME IInv, NEW c \in Calls, NEW r \in CallType, NEW R \in SUBSET Rows,
         r.held = call[c].held \cup R, r.new = call[c].new,
         \A d \in Calls \ {c} : R \cap call[d].held = {}
  PROVE  \A d \in Calls \ {c} : Apart(r, call[d])
BY Running DEF Apart

LEMMA StayApart ==
  ASSUME IInv, NEW c \in Calls, NEW r \in CallType,
         r.held = call[c].held, r.new = call[c].new
  PROVE  \A d \in Calls \ {c} : Apart(r, call[d])
BY Running DEF Apart

LEMMA CountStep == ASSUME IInv, NEW c \in Calls, Count(c) PROVE IInv'
<1>. DEFINE n == Cardinality(Issued) + 1
            r == [call[c] EXCEPT !.pc = "insertInvoice", !.number = n]
<1>1. n \in Nat /\ n \in 1 .. n
  BY FS_CardinalityType DEF IInv, RowsInv
<1>2. Advance(c, r) /\ call[c].pc = "count"
  BY DEF Count, Runs
<1>3. call[c].op = "create" /\ call[c].new = None /\ call[c].value \in Keys
  BY <1>2, Running DEF Fits, FitsCreate, StatementsOf, Payments, LastStatements,
     CallType, Operations, Serializable
<1>4. Fits(r)
  BY <1>1, <1>3, Running DEF CallType, Fits, FitsCreate, StatementsOf, Payments,
     Serializable
<1>. HIDE DEF n
<1>5. r \in CallType /\ r.held = call[c].held /\ r.new = call[c].new
  BY <1>1, Running DEF CallType, Statements
<1>. HIDE DEF r
<1>6. \A d \in Calls \ {c} : Apart(r, call[d])
  BY <1>5, StayApart
<1>. QED BY <1>2, <1>4, <1>5, <1>6, AdvancedRecord, AdvanceStep

(* The number an INSERT comes through with is the next: a smaller one is   *)
(* taken, and another call with this one would be waited for.              *)
LEMMA InsertInvoiceStep == ASSUME IInv, NEW c \in Calls, InsertInvoice(c) PROVE IInv'
<1>1. call[c].pc = "insertInvoice" /\ RivalInvoices(c) = {}
  BY DEF InsertInvoice, Runs, Blockers
<1>2. call[c].op = "create" /\ call[c].new = None /\ call[c].value \in Keys
  BY <1>1, Running DEF Fits, FitsCreate, StatementsOf, Payments, LastStatements,
     CallType, Operations, Serializable
<1>3. CASE \E i \in Issued : SameInvoice(call[c].number, call[c].value,
                                         invoice[i].number, invoice[i].key)
  BY <1>3, RefuseStep DEF InsertInvoice
<1>4. CASE \A i \in Issued : ~SameInvoice(call[c].number, call[c].value,
                                          invoice[i].number, invoice[i].key)
  <2>1. PICK i \in Invoices \ Issued :
          Advance(c, [call[c] EXCEPT !.pc = "studentKey", !.new = i])
    BY <1>4 DEF InsertInvoice
  <2>. DEFINE r == [call[c] EXCEPT !.pc = "studentKey", !.new = i]
  <2>2. r \in CallType
    BY Running DEF CallType, Statements
  <2>3. call[c].number = Cardinality(Issued) + 1
    <3>1. Cardinality(Issued) \in Nat
      BY FS_CardinalityType DEF IInv, RowsInv
    <3>2. call[c].number \in 1 .. Cardinality(Issued) + 1
      BY <1>1, <1>2, Running DEF Fits, FitsCreate
    <3>3. call[c].number \notin {invoice[j].number : j \in Issued}
      BY <1>4 DEF SameInvoice
    <3>4. call[c].number \notin 1 .. Cardinality(Issued)
      BY <3>3 DEF IInv, NumbersAreDense
    <3>. QED BY <3>1, <3>2, <3>4
  <2>4. \A j \in Issued : call[c].value # None => invoice[j].key # call[c].value
    BY <1>4 DEF SameInvoice
  <2>5. Fits(r)
    BY <1>2, <2>3, <2>4, Running DEF CallType, Fits, FitsCreate, StatementsOf, Payments,
       Serializable
  <2>6. ASSUME NEW d \in Calls \ {c} PROVE call[d].new \notin Invoices
    <3>1. CASE call[d].op = "create"
      <4>1. call[d].new = None \/ call[d].number = call[c].number
        BY <2>3, <3>1, Running DEF Fits, FitsCreate, StatementsOf, Payments
      <4>2. call[d].new = None
        BY <1>1, <3>1, <4>1 DEF RivalInvoices, Others, SameInvoice
      <4>. QED BY <4>2
    <3>2. CASE call[d].op \in Serializable
      BY <3>2, Running DEF Fits, FitsActivation
    <3>3. CASE call[d].op \notin {"create"} \cup Serializable
      BY <3>3, Running DEF Fits
    <3>. QED BY <3>1, <3>2, <3>3
  <2>7. \A d \in Calls \ {c} : Apart(r, call[d])
    BY <2>6, Running DEF CallType, Apart
  <2>. HIDE DEF r
  <2>. QED BY <2>1, <2>2, <2>5, <2>7, AdvancedRecord, AdvanceStep DEF r
<1>. QED BY <1>3, <1>4

LEMMA LockInvoiceStep == ASSUME IInv, NEW c \in Calls, LockInvoice(c) PROVE IInv'
<1>. DEFINE i == call[c].on
            r == [call[c] EXCEPT !.pc = "lockPlan", !.held = @ \cup {i}]
<1>1. call[c].pc = "lockInvoice" /\ Holders(c, i) = {}
  BY DEF LockInvoice, Runs, Blockers
<1>2. call[c].op \in Payments
  BY <1>1, Running DEF Fits, StatementsOf, Payments, LastStatements, CallType,
     Operations, Serializable
<1>3. \/ Refuse(c)
      \/ invoice[i].status = "PENDING" /\ Advance(c, r)
  BY DEF LockInvoice, Take
<1>4. CASE invoice[i].status = "PENDING" /\ Advance(c, r)
  <2>1. i \in Invoices /\ {i} \in SUBSET Rows
    BY <1>2, Running DEF Fits, FitsPayment, Rows
  <2>2. r \in CallType
    BY <2>1, Running DEF CallType, Statements
  <2>3. Fits(r)
    BY <1>1, <1>2, <1>4, <2>1, Running DEF CallType, Fits, FitsPayment, FitsActivation,
       StatementsOf, Payments, LastStatements, Serializable
  <2>4. \A d \in Calls \ {c} : {i} \cap call[d].held = {}
    BY <1>1 DEF Holders, Others
  <2>5. r.held = call[c].held \cup {i} /\ r.new = call[c].new
    BY Running DEF CallType
  <2>. HIDE DEF r, i
  <2>6. \A d \in Calls \ {c} : Apart(r, call[d])
    BY <2>1, <2>2, <2>4, <2>5, LockApart
  <2>. QED BY <1>4, <2>2, <2>3, <2>6, AdvancedRecord, AdvanceStep
<1>. QED BY <1>3, <1>4, RefuseStep

LEMMA LockPlanStep == ASSUME IInv, NEW c \in Calls, LockPlan(c) PROVE IInv'
<1>. DEFINE r == [call[c] EXCEPT !.pc = "expire", !.shared = @ \cup {"plan"}]
<1>1. call[c].pc = "lockPlan"
  BY DEF LockPlan, Runs
<1>2. call[c].op \in Payments
  BY <1>1, Running DEF Fits, StatementsOf, Payments, LastStatements, CallType,
     Operations, Serializable
<1>3. Refuse(c) \/ (plan.active /\ Advance(c, r))
  BY DEF LockPlan, Take
<1>4. CASE plan.active /\ Advance(c, r)
  <2>0. {"plan"} \subseteq Rows
    BY DEF Rows
  <2>1. r \in CallType /\ r.held = call[c].held /\ r.new = call[c].new
    BY <2>0, Running DEF CallType, Statements
  <2>2. Fits(r)
    BY <1>1, <1>2, <1>4, Running DEF CallType, Fits, FitsPayment, FitsActivation,
       StatementsOf, Payments, LastStatements, Serializable
  <2>. HIDE DEF r
  <2>3. \A d \in Calls \ {c} : Apart(r, call[d])
    BY <2>1, StayApart
  <2>. QED BY <1>4, <2>1, <2>2, <2>3, AdvancedRecord, AdvanceStep
<1>. QED BY <1>3, <1>4, RefuseStep

LEMMA ExpireStep == ASSUME IInv, NEW c \in Calls, Expire(c) PROVE IInv'
<1>. DEFINE s == call[c].saw
            R == IF s = None THEN {} ELSE {s}
            r == [call[c] EXCEPT !.pc = "insertSub", !.held = @ \cup R]
<1>1. call[c].pc = "expire" /\ Holders(c, s) = {}
  BY DEF Expire, Runs, Blockers
<1>2. call[c].op \in Serializable
  BY <1>1, Running DEF Fits, StatementsOf, Payments, LastStatements, CallType,
     Operations, Serializable
<1>3. s \in Subs \cup {None} /\ R \in SUBSET Rows
  BY <1>2, Running DEF Fits, FitsActivation, Rows
<1>4. r \in CallType /\ r.held = call[c].held \cup R /\ r.new = call[c].new
  <2>. HIDE DEF R
  <2>. QED BY <1>3, Running DEF CallType, Statements
<1>5. Refuse(c) \/ Advance(c, r)
  <2>1. CASE s = None
    <3>1. [call[c] EXCEPT !.pc = "insertSub"] = r
      BY <2>1, Running DEF CallType
    <3>. QED BY <2>1, <3>1 DEF Expire
  <2>2. CASE s # None
    BY <2>2 DEF Expire, Take
  <2>. QED BY <2>1, <2>2
<1>6. CASE Advance(c, r)
  <2>1. Fits(r)
    BY <1>1, <1>2, <1>3, Running DEF CallType, Fits, FitsPayment, FitsActivation,
       StatementsOf, Payments, LastStatements, Serializable
  <2>2. \A d \in Calls \ {c} : R \cap call[d].held = {}
    BY <1>1 DEF Holders, Others
  <2>. HIDE DEF r, s, R
  <2>3. \A d \in Calls \ {c} : Apart(r, call[d])
    BY <1>3, <1>4, <2>2, LockApart
  <2>. QED BY <1>4, <1>6, <2>1, <2>3, AdvancedRecord, AdvanceStep
<1>. QED BY <1>5, <1>6, RefuseStep

(* The row of the index on ACTIVE subscriptions: one call at a time has    *)
(* inserted one, and then only the row it replaces is active.              *)
LEMMA InsertSubscriptionStep ==
  ASSUME IInv, NEW c \in Calls, InsertSubscription(c) PROVE IInv'
<1>1. call[c].pc = "insertSub" /\ RivalSubs(c) = {}
  BY DEF InsertSubscription, Runs, Blockers
<1>2. call[c].op \in Serializable
  BY <1>1, Running DEF Fits, StatementsOf, Payments, LastStatements, CallType,
     Operations, Serializable
<1>3. CASE Active \ {call[c].saw} # {}
  BY <1>3, RefuseStep DEF InsertSubscription
<1>4. CASE Active \ {call[c].saw} = {}
  <2>1. PICK s \in Subs :
          /\ sub[s].status = "none"
          /\ Advance(c, [call[c] EXCEPT !.pc = "studentKey", !.new = s])
    BY <1>4 DEF InsertSubscription
  <2>. DEFINE r == [call[c] EXCEPT !.pc = "studentKey", !.new = s]
  <2>2. r \in CallType /\ r.held = call[c].held /\ r.new = s
    BY Running DEF CallType, Statements
  <2>3. Fits(r)
    <3>1. r.op = call[c].op /\ r.on = call[c].on /\ r.saw = call[c].saw
            /\ r.pc = "studentKey" /\ r.shared = call[c].shared
      BY Running DEF CallType
    <3>2. call[c].op \in Payments => FitsPayment(r)
      BY <1>1, <2>2, <3>1, Running DEF Fits, FitsPayment
    <3>3. FitsActivation(r)
      BY <1>1, <1>2, <1>4, <2>1, <2>2, <3>1, Running DEF Fits, FitsActivation,
         LastStatements
    <3>. QED
      BY <1>1, <1>2, <3>1, <3>2, <3>3, Running DEF Fits, StatementsOf, Payments,
         LastStatements, Serializable
  <2>4. ASSUME NEW d \in Calls \ {c} PROVE call[d].new \notin Subs
    BY <1>1 DEF RivalSubs, Others
  <2>5. \A d \in Calls \ {c} : Apart(r, call[d])
    BY <2>2, <2>4, Running DEF Apart
  <2>. HIDE DEF r
  <2>. QED BY <2>1, <2>2, <2>3, <2>5, AdvancedRecord, AdvanceStep DEF r
<1>. QED BY <1>3, <1>4

LEMMA ReferenceStudentStep ==
  ASSUME IInv, NEW c \in Calls, ReferenceStudent(c) PROVE IInv'
<1>. DEFINE p == IF call[c].op = "create" THEN "commit" ELSE "sync"
            r == [call[c] EXCEPT !.pc = p, !.shared = @ \cup {"studentKey"}]
<1>1. call[c].pc = "studentKey" /\ Advance(c, r)
  BY DEF ReferenceStudent, Runs
<1>2. call[c].op \in {"create"} \cup Serializable
  BY <1>1, Running DEF Fits, StatementsOf, Payments, LastStatements, CallType,
     Operations, Serializable
<1>3. Fits(r)
  <2>1. /\ r.op = call[c].op /\ r.on = call[c].on /\ r.saw = call[c].saw /\ r.pc = p
        /\ r.new = call[c].new /\ r.held = call[c].held /\ r.value = call[c].value
        /\ r.number = call[c].number /\ call[c].shared \subseteq r.shared
    BY Running DEF CallType
  <2>2. call[c].op = "create" => FitsCreate(r)
    BY <1>1, <2>1, Running DEF Fits, FitsCreate
  <2>3. call[c].op \in Payments => FitsPayment(r)
    BY <1>1, <2>1, Running DEF Fits, FitsPayment
  <2>4. call[c].op \in Serializable => FitsActivation(r)
    BY <1>1, <2>1, Running DEF Fits, FitsActivation, LastStatements, Serializable
  <2>. QED BY <1>1, <1>2, <2>1, <2>2, <2>3, <2>4, Running DEF Fits, StatementsOf,
         Payments, LastStatements, Serializable
<1>4. p \in Statements /\ {"studentKey"} \subseteq Rows
  BY DEF Statements, Rows
<1>. HIDE DEF p
<1>5. r \in CallType /\ r.held = call[c].held /\ r.new = call[c].new
  BY <1>4, Running DEF CallType
<1>. HIDE DEF r
<1>6. \A d \in Calls \ {c} : Apart(r, call[d])
  BY <1>5, StayApart
<1>. QED BY <1>1, <1>3, <1>5, <1>6, AdvancedRecord, AdvanceStep

LEMMA SyncStudentStep == ASSUME IInv, NEW c \in Calls, SyncStudent(c) PROVE IInv'
<1>. DEFINE r == [call[c] EXCEPT !.pc = "commit", !.held = @ \cup {"student"}]
<1>1. call[c].pc = "sync" /\ Holders(c, "student") = {}
  BY DEF SyncStudent, Runs, Blockers
<1>2. call[c].op \in Serializable
  BY <1>1, Running DEF Fits, StatementsOf, Payments, LastStatements, CallType,
     Operations, Serializable
<1>3. Refuse(c) \/ Advance(c, r)
  BY DEF SyncStudent, Take
<1>4. CASE Advance(c, r)
  <2>1. {"student"} \in SUBSET Rows
    BY DEF Rows
  <2>2. r \in CallType /\ r.held = call[c].held \cup {"student"} /\ r.new = call[c].new
    BY <2>1, Running DEF CallType, Statements
  <2>3. Fits(r)
    BY <1>1, <1>2, Running DEF CallType, Fits, FitsPayment, FitsActivation,
       StatementsOf, Payments, LastStatements, Serializable
  <2>4. \A d \in Calls \ {c} : {"student"} \cap call[d].held = {}
    BY <1>1 DEF Holders, Others
  <2>. HIDE DEF r
  <2>5. \A d \in Calls \ {c} : Apart(r, call[d])
    BY <2>1, <2>2, <2>4, LockApart
  <2>. QED BY <1>4, <2>2, <2>3, <2>5, AdvancedRecord, AdvanceStep
<1>. QED BY <1>3, <1>4, RefuseStep

LEMMA CancelRowStep == ASSUME IInv, NEW c \in Calls, CancelRow(c) PROVE IInv'
<1>. DEFINE s == call[c].on
            r == [call[c] EXCEPT !.pc = "lockStudent", !.held = @ \cup {s}]
<1>1. call[c].pc = "cancelRow" /\ Holders(c, s) = {}
  BY DEF CancelRow, Runs, Blockers
<1>2. call[c].op = "cancelSub"
  BY <1>1, Running DEF Fits, StatementsOf, Payments, LastStatements, CallType,
     Operations, Serializable
<1>3. Refuse(c) \/ (s \in Active /\ Advance(c, r))
  BY DEF CancelRow
<1>4. CASE s \in Active /\ Advance(c, r)
  <2>1. s \in Subs /\ {s} \in SUBSET Rows
    BY <1>2, Running DEF Fits, FitsCancellation, Rows
  <2>2. r \in CallType /\ r.held = call[c].held \cup {s} /\ r.new = call[c].new
    BY <2>1, Running DEF CallType, Statements
  <2>3. Fits(r)
    BY <1>1, <1>2, <1>4, <2>1, Running DEF CallType, Fits, FitsCancellation,
       StatementsOf, Payments, Serializable
  <2>4. \A d \in Calls \ {c} : {s} \cap call[d].held = {}
    BY <1>1 DEF Holders, Others
  <2>. HIDE DEF r, s
  <2>5. \A d \in Calls \ {c} : Apart(r, call[d])
    BY <2>1, <2>2, <2>4, LockApart
  <2>. QED BY <1>4, <2>2, <2>3, <2>5, AdvancedRecord, AdvanceStep
<1>. QED BY <1>3, <1>4, RefuseStep

LEMMA LockStudentStep == ASSUME IInv, NEW c \in Calls, LockStudent(c) PROVE IInv'
<1>. DEFINE R == {"student", "studentKey"}
            r == [call[c] EXCEPT !.pc = "recheck", !.held = @ \cup R]
<1>1. /\ call[c].pc = "lockStudent"
      /\ Users(c, "student") = {} /\ Users(c, "studentKey") = {}
      /\ Advance(c, r)
  BY DEF LockStudent, Runs, Blockers
<1>2. call[c].op = "cancelSub"
  BY <1>1, Running DEF Fits, StatementsOf, Payments, LastStatements, CallType,
     Operations, Serializable
<1>3. R \in SUBSET Rows
  BY DEF Rows
<1>4. \A d \in Calls \ {c} : R \cap call[d].held = {}
  BY <1>1 DEF Users, Others
<1>5. Fits(r)
  BY <1>1, <1>2, Running DEF CallType, Fits, FitsCancellation, StatementsOf, Payments,
     Serializable
<1>. HIDE DEF R
<1>6. r \in CallType /\ r.held = call[c].held \cup R /\ r.new = call[c].new
  BY <1>3, Running DEF CallType, Statements
<1>. HIDE DEF r
<1>7. \A d \in Calls \ {c} : Apart(r, call[d])
  BY <1>3, <1>4, <1>6, LockApart
<1>. QED BY <1>1, <1>5, <1>6, <1>7, AdvancedRecord, AdvanceStep

(* Only one subscription is active, and it is the one being cancelled.     *)
LEMMA RecheckStep == ASSUME IInv, NEW c \in Calls, Recheck(c) PROVE IInv'
<1>. DEFINE s == IF Active \ {call[c].on} = {} THEN None
                 ELSE CHOOSE t \in Active : t # call[c].on
            r == [call[c] EXCEPT !.pc = "commit", !.saw = s]
<1>1. call[c].pc = "recheck" /\ Advance(c, r)
  BY DEF Recheck, Runs
<1>2. call[c].op = "cancelSub"
  BY <1>1, Running DEF Fits, StatementsOf, Payments, LastStatements, CallType,
     Operations, Serializable
<1>3. s = None
  <2>1. call[c].on \in Active
    BY <1>1, <1>2, Running DEF Fits, FitsCancellation
  <2>. QED BY <2>1 DEF IInv, StatusMirrorsSubscription
<1>4. Fits(r)
  BY <1>1, <1>2, <1>3, Running DEF CallType, Fits, FitsCancellation, StatementsOf,
     Payments, Serializable
<1>. HIDE DEF s
<1>5. r \in CallType /\ r.held = call[c].held /\ r.new = call[c].new
  BY <1>3, Running DEF CallType, Statements
<1>. HIDE DEF r
<1>6. \A d \in Calls \ {c} : Apart(r, call[d])
  BY <1>5, StayApart
<1>. QED BY <1>1, <1>4, <1>5, <1>6, AdvancedRecord, AdvanceStep

LEMMA WriteInvoiceStep == ASSUME IInv, NEW c \in Calls, WriteInvoice(c) PROVE IInv'
<1>. DEFINE i == call[c].on
            r == [call[c] EXCEPT !.pc = "commit", !.held = @ \cup {i}]
<1>1. call[c].pc = "writeInvoice" /\ Holders(c, i) = {}
  BY DEF WriteInvoice, Runs, Blockers
<1>2. call[c].op \in {"cancelInvoice", "upload"}
  BY <1>1, Running DEF Fits, StatementsOf, Payments, LastStatements, CallType,
     Operations, Serializable
<1>3. \/ Refuse(c)
      \/ /\ call[c].op = "cancelInvoice" => invoice[i].status = "PENDING"
         /\ Advance(c, r)
  BY DEF WriteInvoice
<1>4. CASE /\ call[c].op = "cancelInvoice" => invoice[i].status = "PENDING"
           /\ Advance(c, r)
  <2>1. i \in Invoices /\ {i} \in SUBSET Rows
    BY <1>2, Running DEF Fits, FitsWrite, Rows
  <2>2. r \in CallType /\ r.held = call[c].held \cup {i} /\ r.new = call[c].new
    BY <2>1, Running DEF CallType, Statements
  <2>3. Fits(r)
    BY <1>1, <1>2, <1>4, <2>1, Running DEF CallType, Fits, FitsWrite, StatementsOf,
       Payments, Serializable
  <2>4. \A d \in Calls \ {c} : {i} \cap call[d].held = {}
    BY <1>1 DEF Holders, Others
  <2>. HIDE DEF r, i
  <2>5. \A d \in Calls \ {c} : Apart(r, call[d])
    BY <2>1, <2>2, <2>4, LockApart
  <2>. QED BY <1>4, <2>2, <2>3, <2>5, AdvancedRecord, AdvanceStep
<1>. QED BY <1>3, <1>4, RefuseStep

LEMMA SoftDeleteStep == ASSUME IInv, NEW c \in Calls, SoftDelete(c) PROVE IInv'
<1>. DEFINE r == [call[c] EXCEPT !.pc = "commit", !.held = @ \cup {"plan"}]
<1>1. call[c].pc = "softDelete" /\ Users(c, "plan") = {} /\ Advance(c, r)
  BY DEF SoftDelete, Runs, Blockers
<1>2. call[c].op = "deletePlan"
  BY <1>1, Running DEF Fits, StatementsOf, Payments, LastStatements, CallType,
     Operations, Serializable
<1>3. {"plan"} \in SUBSET Rows
  BY DEF Rows
<1>4. r \in CallType /\ r.held = call[c].held \cup {"plan"} /\ r.new = call[c].new
  BY <1>3, Running DEF CallType, Statements
<1>5. Fits(r)
  BY <1>1, <1>2, Running DEF CallType, Fits, StatementsOf, Payments, Serializable
<1>6. \A d \in Calls \ {c} : {"plan"} \cap call[d].held = {}
  BY <1>1 DEF Users, Others
<1>. HIDE DEF r
<1>7. \A d \in Calls \ {c} : Apart(r, call[d])
  BY <1>3, <1>4, <1>6, LockApart
<1>. QED BY <1>1, <1>4, <1>5, <1>7, AdvancedRecord, AdvanceStep

-----------------------------------------------------------------------------
(* Commits.  The other calls keep their records but for stale, and what    *)
(* they hold nobody else has changed.                                      *)

SameCall(d) ==
  /\ call'[d].op = call[d].op /\ call'[d].pc = call[d].pc /\ call'[d].on = call[d].on
  /\ call'[d].saw = call[d].saw /\ call'[d].new = call[d].new
  /\ call'[d].value = call[d].value /\ call'[d].number = call[d].number
  /\ call'[d].held = call[d].held /\ call'[d].shared = call[d].shared

LEMMA AgedCalls ==
  ASSUME IInv, NEW c \in Calls, NEW rows, call' = Aged(c, rows)
  PROVE  /\ call' \in [Calls -> CallType] /\ call'[c] = NoCall
         /\ \A d \in Calls \ {c} : SameCall(d)
         /\ \A d, e \in Calls : d # e => Apart(call'[d], call'[e])
<1>1. ASSUME NEW d \in Calls \ {c}
      PROVE  call'[d] \in CallType /\ SameCall(d)
  <2>. DEFINE S == call[d].stale \cup (rows \cap Wanted(d))
  <2>1. S \subseteq Rows
    BY Running DEF CallType, Wanted
  <2>2. call'[d] = [call[d] EXCEPT !.stale = S]
    BY DEF Aged
  <2>. HIDE DEF S
  <2>. QED BY <2>1, <2>2, Running DEF CallType, SameCall
<1>2. call'[c] = NoCall /\ call' = [d \in Calls |-> call'[d]]
  BY DEF Aged
<1>3. call' \in [Calls -> CallType]
  BY <1>1, <1>2, NoCallFits
<1>4. ASSUME NEW d \in Calls, NEW e \in Calls, d # e
      PROVE  Apart(call'[d], call'[e])
  <2>1. CASE d = c \/ e = c
    BY <1>2, <2>1, NoCallFits
  <2>2. CASE d # c /\ e # c
    BY <1>1, <1>4, <2>2 DEF IInv, CallsInv, Apart, SameCall
  <2>. QED BY <2>1, <2>2
<1>. QED BY <1>1, <1>2, <1>3, <1>4

LEMMA CommitStep ==
  ASSUME IInv, NEW c \in Calls, NEW rows, call' = Aged(c, rows),
         \A d \in Calls \ {c} : Fits(call[d])'
  PROVE  CallsInv'
<1>0. call'[c].op = "none" /\ call'[c].pc = "idle" /\ call'[c].new = None
  BY AgedCalls DEF NoCall
<1>1. Fits(call[c])'
  BY <1>0 DEF Serializable, Fits, StatementsOf, Payments
<1>2. \A d \in Calls : Fits(call[d])'
  BY <1>1
<1>. QED BY <1>2, AgedCalls DEF CallsInv, Apart

LEMMA CreationKept ==
  ASSUME NEW d \in Calls, SameCall(d), FitsCreate(call[d]), Issued' = Issued,
         \A i \in Issued : invoice'[i].key = invoice[i].key
  PROVE  FitsCreate(call[d])'
BY DEF FitsCreate, SameCall

LEMMA InvoiceKept ==
  ASSUME NEW d \in Calls, SameCall(d), plan.active => plan'.active,
         \A i \in call[d].held \cap Invoices :
            invoice[i].status = "PENDING" => invoice'[i].status = "PENDING"
  PROVE  /\ FitsPayment(call[d]) => FitsPayment(call[d])'
         /\ FitsWrite(call[d]) => FitsWrite(call[d])'
BY DEF FitsPayment, FitsWrite, SameCall

LEMMA SubscriptionKept ==
  ASSUME NEW d \in Calls, SameCall(d), sub' = sub
  PROVE  /\ FitsActivation(call[d]) => FitsActivation(call[d])'
         /\ FitsCancellation(call[d]) => FitsCancellation(call[d])'
BY DEF FitsActivation, FitsCancellation, SameCall, Active

LEMMA FitsAgain ==
  ASSUME NEW d \in Calls, SameCall(d), Fits(call[d]),
         call[d].op = "create" => FitsCreate(call[d])',
         call[d].op \in Payments => FitsPayment(call[d])',
         call[d].op \in Serializable => FitsActivation(call[d])',
         call[d].op = "cancelSub" => FitsCancellation(call[d])',
         call[d].op \in {"cancelInvoice", "upload"} => FitsWrite(call[d])'
  PROVE  Fits(call[d])'
BY DEF Fits, SameCall

(* CommitInvoice *)
LEMMA CommitInvoiceStep == ASSUME IInv, NEW c \in Calls, CommitInvoice(c) PROVE IInv'
<1>. DEFINE i == call[c].new
            n == Cardinality(Issued) + 1
            row == [status |-> "PENDING", number |-> call[c].number,
                    key |-> call[c].value, proof |-> None]
<1>1. /\ call[c].pc = "commit" /\ call[c].op = "create"
      /\ invoice' = [invoice EXCEPT ![i] = row]
      /\ log' = [log EXCEPT ![i] = <<"INVOICE_CREATED">>]
      /\ call' = Aged(c, {})
      /\ UNCHANGED <<sub, student, plan, overridden>>
  BY DEF CommitInvoice, Runs
<1>2. /\ i \in Invoices \ Issued /\ call[c].number = n /\ call[c].value \in Keys
      /\ call[c].value # None => \A j \in Issued : invoice[j].key # call[c].value
  BY <1>1, Running DEF Fits, FitsCreate
<1>3. n - 1 = Cardinality(Issued) /\ n - 1 \in Nat /\ n \in Nat
  BY FS_CardinalityType DEF IInv, RowsInv
<1>4. TypeOK'
  <2>1. row \in [status: InvoiceStatuses, number: Nat, key: Keys \cup {None},
                 proof: Files \cup {None}]
    BY <1>2, <1>3 DEF InvoiceStatuses
  <2>2. <<"INVOICE_CREATED">> \in
          Seq({"INVOICE_CREATED", "PAYMENT_CONFIRMED", "MANUAL_PAYMENT_VERIFIED",
               "INVOICE_CANCELLED"})
    OBVIOUS
  <2>3. call' \in [Calls -> CallType]
    BY <1>1, AgedCalls
  <2>. HIDE DEF row, i
  <2>. QED BY <1>1, <2>1, <2>2, <2>3 DEF IInv, TypeOK, CallType
<1>5. /\ invoice'[i] = row /\ log'[i] = <<"INVOICE_CREATED">>
      /\ \A j \in Invoices : j # i => invoice'[j] = invoice[j] /\ log'[j] = log[j]
  BY <1>1, <1>2 DEF IInv, TypeOK
<1>6. Issued' = Issued \cup {i} /\ invoice[i].status = "none"
  BY <1>2, <1>5 DEF Issued
<1>7. Cardinality(Issued)' = n /\ IsFiniteSet(Issued)'
  BY <1>2, <1>6, FS_AddElement DEF IInv, RowsInv
<1>8. ASSUME NEW d \in Calls \ {c} PROVE Fits(call[d])'
  <2>1. SameCall(d) /\ call[d].new \notin Invoices
    BY <1>1, <1>2, AgedCalls, Running DEF Apart
  <2>2. call[d].op = "create" => FitsCreate(call[d])'
    BY <1>3, <1>7, <2>1, Running DEF Fits, FitsCreate, SameCall, StatementsOf, Payments
  <2>3. \A j \in call[d].held \cap Invoices :
          invoice[j].status = "PENDING" => invoice'[j].status = "PENDING"
    BY <1>5, <1>6
  <2>. QED BY <1>1, <2>1, <2>2, <2>3, Running, FitsAgain, InvoiceKept, SubscriptionKept
         DEF Fits
<1>9. NumbersAreDense'
  <2>0. invoice'[i].number = n /\ \A j \in Issued : invoice'[j].number = invoice[j].number
    BY <1>2, <1>5 DEF Issued
  <2>1. {invoice[j].number : j \in Issued}' = {invoice[j].number : j \in Issued} \cup {n}
    <3>. HIDE DEF i, n, row
    <3>. QED BY <1>6, <2>0
  <2>2. (1 .. n - 1) \cup {n} = 1 .. n
    BY <1>3
  <2>3. \A j \in Issued : invoice[j].number \in 1 .. n - 1
    BY <1>3 DEF IInv, NumbersAreDense
  <2>4. \A j \in Issued : ~SameInvoice(invoice[j].number, invoice[j].key, n, call[c].value)
                            /\ ~SameInvoice(n, call[c].value, invoice[j].number, invoice[j].key)
    BY <1>2, <1>3, <2>3 DEF SameInvoice
  <2>5. \A j \in Issued : j \in Invoices /\ j # i /\ invoice'[j] = invoice[j]
    BY <1>2, <1>5 DEF Issued
  <2>6. invoice'[i].number = n /\ invoice'[i].key = call[c].value
    BY <1>2, <1>5
  <2>7. ASSUME NEW j \in Issued', NEW l \in Issued', j # l
        PROVE  ~SameInvoice(invoice'[j].number, invoice'[j].key,
                            invoice'[l].number, invoice'[l].key)
    <3>. HIDE DEF i, n, row
    <3>1. CASE j = i
      BY <1>6, <2>4, <2>5, <2>6, <2>7, <3>1
    <3>2. CASE l = i
      BY <1>6, <2>4, <2>5, <2>6, <2>7, <3>2
    <3>3. CASE j # i /\ l # i
      BY <1>6, <2>5, <2>7, <3>3 DEF IInv, NumbersAreDense
    <3>. QED BY <3>1, <3>2, <3>3
  <2>8. {invoice[j].number : j \in Issued} = 1 .. n - 1
    BY <1>3 DEF IInv, NumbersAreDense
  <2>9. {invoice[j].number : j \in Issued}' = 1 .. Cardinality(Issued)'
    BY <1>7, <2>1, <2>2, <2>8
  <2>. QED BY <2>7, <2>9 DEF NumbersAreDense, SameInvoice
<1>10. LogTellsTheStatus'
  BY <1>2, <1>5, <1>6 DEF IInv, LogTellsTheStatus
<1>11. PaidOnce'
  BY <1>1, <1>2, <1>5, <1>6 DEF IInv, PaidOnce
<1>12. StatusMirrorsSubscription' /\ RowsInv'
  BY <1>1, <1>7 DEF IInv, StatusMirrorsSubscription, Active, RowsInv
<1>13. CallsInv'
  BY <1>1, <1>8, CommitStep
<1>. QED BY <1>4, <1>9, <1>10, <1>11, <1>12, <1>13 DEF IInv

(* An activation leaves its own subscription as the only active one.       *)
LEMMA ActivatedRows ==
  ASSUME IInv, NEW c \in Calls, call[c].pc = "commit", call[c].op \in Serializable,
         NEW origin \in Invoices \cup {"staff"}, sub' = Activated(c, origin)
  PROVE  /\ sub' \in [Subs -> [status: SubStatuses, origin: Invoices \cup {"staff", None}]]
         /\ call[c].new \in Subs /\ sub[call[c].new].status = "none"
         /\ Active' = {call[c].new}
         /\ \A t \in Subs :
              /\ sub'[t].status = "none" <=> sub[t].status = "none" /\ t # call[c].new
              /\ sub'[t].origin = IF t = call[c].new THEN origin ELSE sub[t].origin
<1>. DEFINE s == call[c].new
            o == call[c].saw
<1>1. /\ s \in Subs /\ sub[s].status = "none" /\ Active \subseteq {o}
      /\ o # None => sub[o].status # "none"
      /\ o \in Subs \cup {None}
  BY Running DEF Fits, FitsActivation, LastStatements
<1>2. sub \in [Subs -> [status: SubStatuses, origin: Invoices \cup {"staff", None}]]
  BY DEF IInv, TypeOK
<1>3. sub'[s] = [status |-> "ACTIVE", origin |-> origin]
  BY <1>1 DEF Activated
<1>4. ASSUME NEW t \in Subs, t # s
      PROVE  sub'[t] = IF t = o THEN [sub[t] EXCEPT !.status = "EXPIRED"] ELSE sub[t]
  BY <1>4 DEF Activated
<1>5. sub' = [t \in Subs |-> sub'[t]]
  BY DEF Activated
<1>. HIDE DEF s, o
<1>6. ASSUME NEW t \in Subs, t # s
      PROVE  /\ sub'[t] \in [status: SubStatuses, origin: Invoices \cup {"staff", None}]
             /\ sub'[t].status # "ACTIVE" /\ sub'[t].origin = sub[t].origin
             /\ sub'[t].status = "none" <=> sub[t].status = "none"
  BY <1>1, <1>2, <1>4, <1>6 DEF SubStatuses, Active
<1>7. sub' \in [Subs -> [status: SubStatuses, origin: Invoices \cup {"staff", None}]]
  BY <1>3, <1>5, <1>6 DEF SubStatuses
<1>8. Active' = {s}
  BY <1>1, <1>3, <1>6 DEF Active
<1>. QED BY <1>1, <1>3, <1>6, <1>7, <1>8 DEF s

(* No other call is past the points that exclude an activation.            *)
LEMMA ActivationFits ==
  ASSUME IInv, NEW c \in Calls, call[c].pc = "commit", call[c].op \in Serializable,
         NEW origin \in Invoices \cup {"staff"}, sub' = Activated(c, origin),
         NEW d \in Calls \ {c}, SameCall(d)
  PROVE  /\ call[d].op \in Serializable => FitsActivation(call[d])'
         /\ call[d].op = "cancelSub" => FitsCancellation(call[d])'
<1>0. /\ call[c].new \in Subs /\ Active \subseteq {call[c].saw}
      /\ call[c].saw = None \/ call[c].saw \in call[c].held
  BY Running DEF Fits, FitsActivation, LastStatements
<1>1. CASE call[d].op \in Serializable
  <2>1. call[d].new \notin Subs
    BY <1>0, Running DEF Apart
  <2>2. call[d].pc \notin LastStatements
    BY <1>1, <2>1, Running DEF Fits, FitsActivation
  <2>3. \A t \in Subs : sub[t].status # "none" => sub'[t].status # "none"
    BY ActivatedRows
  <2>4. FitsActivation(call[d])
    BY <1>1, Running DEF Fits
  <2>. QED BY <1>1, <2>2, <2>3, <2>4 DEF FitsActivation, SameCall, Serializable
<1>2. CASE call[d].op = "cancelSub"
  <2>1. FitsCancellation(call[d])
    BY <1>2, Running DEF Fits
  <2>2. call[d].pc = "cancelRow"
    BY <1>0, <2>1, Running DEF FitsCancellation, Apart
  <2>. QED BY <1>2, <2>1, <2>2 DEF FitsCancellation, SameCall, Serializable
<1>. QED BY <1>1, <1>2

LEMMA CommitActivationStep ==
  ASSUME IInv, NEW c \in Calls, CommitActivation(c) PROVE IInv'
<1>1. /\ call[c].pc = "commit" /\ call[c].op = "activate"
      /\ sub' = Activated(c, "staff")
      /\ student' = "ACTIVE" /\ overridden' = FALSE
      /\ call' = Aged(c, call[c].held)
      /\ UNCHANGED <<invoice, log, plan>>
  BY DEF CommitActivation, Runs
<1>2. call[c].op \in Serializable
  BY <1>1 DEF Serializable
<1>3. Issued' = Issued
  BY <1>1 DEF Issued
<1>4. TypeOK'
  BY <1>1, <1>2, ActivatedRows, AgedCalls DEF IInv, TypeOK, CallType, StudentStatuses
<1>5. ASSUME NEW d \in Calls \ {c} PROVE Fits(call[d])'
  <2>1. SameCall(d)
    BY <1>1, AgedCalls
  <2>2. /\ call[d].op \in Serializable => FitsActivation(call[d])'
        /\ call[d].op = "cancelSub" => FitsCancellation(call[d])'
    BY <1>1, <1>2, <2>1, ActivationFits
  <2>. QED BY <1>1, <1>3, <2>1, <2>2, Running, FitsAgain, InvoiceKept, CreationKept
         DEF Fits
<1>6. CallsInv'
  BY <1>1, <1>5, CommitStep
<1>7. StatusMirrorsSubscription'
  BY <1>1, <1>2, ActivatedRows DEF StatusMirrorsSubscription
<1>8. RowsInv'
  BY <1>1, <1>2, <1>3, ActivatedRows DEF IInv, RowsInv
<1>9. PaidOnce'
  <2>1. \A i \in Invoices : \A t \in Subs : sub'[t].origin = i <=> sub[t].origin = i
    BY <1>1, <1>2, ActivatedRows DEF IInv, RowsInv
  <2>. QED BY <1>1, <2>1 DEF IInv, PaidOnce
<1>10. LogTellsTheStatus' /\ NumbersAreDense'
  BY <1>1, <1>3 DEF IInv, LogTellsTheStatus, NumbersAreDense
<1>. QED BY <1>4, <1>6, <1>7, <1>8, <1>9, <1>10 DEF IInv

(* A held invoice that changes its status: the others hold another one.    *)
LEMMA StatusChange ==
  ASSUME IInv, NEW c \in Calls, NEW i \in Invoices, i \in call[c].held,
         NEW status \in {"PAID", "CANCELLED"}, invoice[i].status = "PENDING",
         invoice' = [invoice EXCEPT ![i].status = status]
  PROVE  /\ invoice' \in [Invoices -> [status: InvoiceStatuses, number: Nat,
                             key: Keys \cup {None}, proof: Files \cup {None}]]
         /\ Issued' = Issued /\ NumbersAreDense'
         /\ invoice'[i].status = status
         /\ \A j \in Invoices : /\ j # i => invoice'[j] = invoice[j]
                                /\ invoice'[j].key = invoice[j].key
                                /\ invoice'[j].number = invoice[j].number
         /\ \A d \in Calls \ {c} : \A j \in call[d].held \cap Invoices :
              invoice'[j] = invoice[j]
<1>1. invoice \in [Invoices -> [status: InvoiceStatuses, number: Nat,
                      key: Keys \cup {None}, proof: Files \cup {None}]]
  BY DEF IInv, TypeOK
<1>2. invoice' \in [Invoices -> [status: InvoiceStatuses, number: Nat,
                       key: Keys \cup {None}, proof: Files \cup {None}]]
  BY <1>1 DEF InvoiceStatuses
<1>3. /\ invoice'[i].status = status
      /\ \A j \in Invoices : /\ j # i => invoice'[j] = invoice[j]
                             /\ invoice'[j].key = invoice[j].key
                             /\ invoice'[j].number = invoice[j].number
  BY <1>1
<1>4. Issued' = Issued
  BY <1>3 DEF Issued
<1>5. NumbersAreDense'
  <2>1. \A j \in Issued : j \in Invoices
    BY DEF Issued
  <2>. QED BY <1>3, <1>4, <2>1 DEF IInv, NumbersAreDense
<1>6. \A d \in Calls \ {c} : i \notin call[d].held
  BY Running DEF Apart
<1>. QED BY <1>2, <1>3, <1>4, <1>5, <1>6

(* The log of an invoice when its second event is appended.                *)
LEMMA Events ==
  ASSUME NEW S, NEW x \in S, NEW y \in S
  PROVE  Append(<<x>>, y) = <<x, y>> /\ <<x, y>> \in Seq(S)
<1>. DEFINE a == Append(<<x>>, y)
<1>1. <<x>> \in Seq(S) /\ <<x, y>> \in Seq(S)
  OBVIOUS
<1>2. a \in Seq(S) /\ Len(a) = 2 /\ a[1] = x /\ a[2] = y
  BY <1>1, AppendProperties, Z3
<1>3. DOMAIN a = 1 .. 2
  BY <1>2
<1>4. a = [k \in 1 .. 2 |-> a[k]]
  BY <1>2, <1>3
<1>. HIDE DEF a
<1>5. a = <<a[1], a[2]>>
  BY <1>4
<1>. QED BY <1>1, <1>2, <1>5 DEF a

LEMMA CommitPaymentStep ==
  ASSUME IInv, NEW c \in Calls, CommitPayment(c) PROVE IInv'
<1>0. call[c].pc = "commit" /\ call[c].op \in Payments /\ call[c].op \in Serializable
  BY DEF CommitPayment, Runs, Payments, Serializable
<1>. PICK i \in Invoices, s \in Subs : i = call[c].on /\ s = call[c].new
  BY <1>0, Running DEF Fits, FitsPayment, FitsActivation, LastStatements
<1>. DEFINE event == Event(call[c].op)
<1>1. /\ call[c].pc = "commit" /\ call[c].op \in Payments
      /\ invoice' = [invoice EXCEPT ![i].status = "PAID"]
      /\ log' = [log EXCEPT ![i] = Append(log[i], event)]
      /\ sub' = Activated(c, i)
      /\ student' = "ACTIVE" /\ overridden' = FALSE
      /\ call' = Aged(c, call[c].held)
      /\ UNCHANGED plan
  BY <1>0 DEF CommitPayment
<1>2. call[c].op \in Serializable
  BY <1>0
<1>3. i \in call[c].held /\ invoice[i].status = "PENDING"
  BY <1>1, Running DEF Fits, FitsPayment
<1>4. event \in {"PAYMENT_CONFIRMED", "MANUAL_PAYMENT_VERIFIED"}
  BY DEF Event
<1>. HIDE DEF event
<1>5. log[i] = <<"INVOICE_CREATED">>
  BY <1>3 DEF IInv, LogTellsTheStatus
<1>6. /\ Append(log[i], event) = <<"INVOICE_CREATED", event>>
      /\ <<"INVOICE_CREATED", event>> \in Seq({"INVOICE_CREATED", "PAYMENT_CONFIRMED",
                                    "MANUAL_PAYMENT_VERIFIED", "INVOICE_CANCELLED"})
  <2>. DEFINE S == {"INVOICE_CREATED", "PAYMENT_CONFIRMED",
                    "MANUAL_PAYMENT_VERIFIED", "INVOICE_CANCELLED"}
  <2>1. "INVOICE_CREATED" \in S /\ event \in S
    BY <1>4
  <2>. HIDE DEF S
  <2>2. Append(<<"INVOICE_CREATED">>, event) = <<"INVOICE_CREATED", event>>
          /\ <<"INVOICE_CREATED", event>> \in Seq(S)
    BY <2>1, Events
  <2>. QED BY <1>5, <2>2 DEF S
<1>7. /\ log' \in [Invoices -> Seq({"INVOICE_CREATED", "PAYMENT_CONFIRMED",
                                    "MANUAL_PAYMENT_VERIFIED", "INVOICE_CANCELLED"})]
      /\ log'[i] = <<"INVOICE_CREATED", event>>
      /\ \A j \in Invoices : j # i => log'[j] = log[j]
  BY <1>1, <1>6 DEF IInv, TypeOK
<1>8. /\ Issued' = Issued /\ NumbersAreDense' /\ invoice'[i].status = "PAID"
      /\ \A j \in Invoices : /\ j # i => invoice'[j] = invoice[j]
                             /\ invoice'[j].key = invoice[j].key
      /\ \A d \in Calls \ {c} : \A j \in call[d].held \cap Invoices :
           invoice'[j] = invoice[j]
  <2>1. invoice' = [invoice EXCEPT ![i].status = "PAID"]
    BY <1>1
  <2>2. /\ Issued' = Issued /\ NumbersAreDense' /\ invoice'[i].status = "PAID"
        /\ \A j \in Invoices : /\ j # i => invoice'[j] = invoice[j]
                               /\ invoice'[j].key = invoice[j].key
                               /\ invoice'[j].number = invoice[j].number
    BY <1>3, <2>1, StatusChange
  <2>3. \A d \in Calls \ {c} : \A j \in call[d].held \cap Invoices :
          invoice'[j] = invoice[j]
    BY <1>3, <2>1, StatusChange
  <2>. QED BY <2>2, <2>3
<1>9. Active' = {s} /\ sub[s].status = "none"
  BY <1>1, <1>2, ActivatedRows
<1>10. TypeOK'
  <2>1. invoice' \in [Invoices -> [status: InvoiceStatuses, number: Nat,
                         key: Keys \cup {None}, proof: Files \cup {None}]]
    BY <1>1, <1>3, StatusChange
  <2>2. sub' \in [Subs -> [status: SubStatuses, origin: Invoices \cup {"staff", None}]]
    BY <1>1, <1>2, <1>3, ActivatedRows
  <2>3. call' \in [Calls -> CallType]
    BY <1>1, AgedCalls
  <2>. QED BY <1>1, <1>7, <2>1, <2>2, <2>3 DEF IInv, TypeOK, CallType, StudentStatuses
<1>11. ASSUME NEW d \in Calls \ {c} PROVE Fits(call[d])'
  <2>1. SameCall(d)
    BY <1>1, AgedCalls
  <2>2. /\ call[d].op \in Serializable => FitsActivation(call[d])'
        /\ call[d].op = "cancelSub" => FitsCancellation(call[d])'
    BY <1>1, <1>2, <1>3, <2>1, ActivationFits
  <2>3. /\ Issued' = Issued
        /\ \A j \in Issued : invoice'[j].key = invoice[j].key
        /\ \A j \in call[d].held \cap Invoices : invoice'[j] = invoice[j]
    BY <1>8 DEF Issued
  <2>. QED BY <1>1, <2>1, <2>2, <2>3, Running, FitsAgain, InvoiceKept, CreationKept
         DEF Fits
<1>12. CallsInv'
  BY <1>1, <1>11, CommitStep
<1>13. StatusMirrorsSubscription'
  BY <1>1, <1>9 DEF StatusMirrorsSubscription
<1>14. NumbersAreDense' /\ RowsInv'
  BY <1>1, <1>2, <1>8, ActivatedRows DEF IInv, RowsInv
<1>15. LogTellsTheStatus'
  BY <1>4, <1>7, <1>8 DEF IInv, LogTellsTheStatus
<1>16. PaidOnce'
  <2>2. /\ sub[s].origin = None
        /\ \A t \in Subs : sub'[t].origin = IF t = s THEN i ELSE sub[t].origin
    BY <1>1, <1>2, <1>3, ActivatedRows DEF IInv, RowsInv
  <2>3. {t \in Subs : sub[t].origin = i} = {}
    BY <1>3 DEF IInv, PaidOnce
  <2>4. {t \in Subs : sub[t].origin = i}' = {s}
    BY <1>3, <2>2, <2>3
  <2>5. ASSUME NEW j \in Invoices, j # i
        PROVE  {t \in Subs : sub[t].origin = j}' = {t \in Subs : sub[t].origin = j}
    BY <2>2, <2>5
  <2>. QED BY <1>8, <2>4, <2>5 DEF IInv, PaidOnce
<1>. QED BY <1>10, <1>12, <1>13, <1>14, <1>15, <1>16 DEF IInv

(* The cancelled subscription was the only active one: the recheck found   *)
(* no other, and no other call is about to add one.                        *)
LEMMA CommitCancelSubscriptionStep ==
  ASSUME IInv, NEW c \in Calls, CommitCancelSubscription(c) PROVE IInv'
<1>1. call[c].pc = "commit" /\ call[c].op = "cancelSub"
  BY DEF CommitCancelSubscription, Runs
<1>2. /\ call[c].on \in Subs /\ call[c].on \in call[c].held
      /\ call[c].on \in Active /\ call[c].saw = None
  BY <1>1, Running DEF Fits, FitsCancellation
<1>. PICK s \in Subs : s = call[c].on
  BY <1>2
<1>3. /\ s \in call[c].held /\ s \in Active
      /\ sub' = [sub EXCEPT ![s].status = "CANCELED"]
      /\ student' = "NONE" /\ overridden' = FALSE
      /\ call' = Aged(c, {s, "student"})
      /\ UNCHANGED <<invoice, log, plan>>
  <2>1. {s} \cup {"student"} = {s, "student"}
    OBVIOUS
  <2>. QED BY <1>1, <1>2, <2>1 DEF CommitCancelSubscription
<1>4. sub \in [Subs -> [status: SubStatuses, origin: Invoices \cup {"staff", None}]]
  BY DEF IInv, TypeOK
<1>5. \A t \in Active : t = s
  BY <1>3 DEF IInv, StatusMirrorsSubscription
<1>6. \A t \in Subs :
        /\ sub'[t].origin = sub[t].origin
        /\ sub'[t].status = "none" <=> sub[t].status = "none"
  BY <1>3, <1>4 DEF Active
<1>7. Active' = {} /\ Issued' = Issued
  BY <1>3, <1>4, <1>5 DEF Active, Issued
<1>8. TypeOK'
  <2>1. sub' \in [Subs -> [status: SubStatuses, origin: Invoices \cup {"staff", None}]]
    BY <1>3, <1>4 DEF SubStatuses
  <2>2. call' \in [Calls -> CallType]
    BY <1>3, AgedCalls
  <2>. QED BY <1>3, <2>1, <2>2 DEF IInv, TypeOK, CallType, StudentStatuses
<1>9. ASSUME NEW d \in Calls \ {c} PROVE Fits(call[d])'
  <2>1. SameCall(d)
    BY <1>3, AgedCalls
  <2>2. call[d].op \in Serializable => FitsActivation(call[d])'
    <3>1. call[d].op \in Serializable => FitsActivation(call[d])
      BY Running DEF Fits
    <3>. QED BY <1>6, <1>7, <2>1, <3>1 DEF FitsActivation, SameCall
  <2>3. call[d].op = "cancelSub" => FitsCancellation(call[d])'
    <3>1. call[d].op = "cancelSub" => FitsCancellation(call[d])
      BY Running DEF Fits
    <3>2. s \notin call[d].held
      BY <1>3, Running DEF Apart
    <3>. QED BY <1>5, <2>1, <3>1, <3>2 DEF FitsCancellation, SameCall
  <2>. QED BY <1>3, <1>7, <2>1, <2>2, <2>3, Running, FitsAgain, InvoiceKept,
              CreationKept DEF Fits
<1>10. CallsInv'
  BY <1>3, <1>9, CommitStep
<1>11. StatusMirrorsSubscription' /\ RowsInv'
  BY <1>3, <1>6, <1>7 DEF IInv, StatusMirrorsSubscription, RowsInv
<1>12. PaidOnce'
  BY <1>3, <1>6 DEF IInv, PaidOnce
<1>13. LogTellsTheStatus' /\ NumbersAreDense'
  BY <1>3, <1>7 DEF IInv, LogTellsTheStatus, NumbersAreDense
<1>. QED BY <1>8, <1>10, <1>11, <1>12, <1>13 DEF IInv

LEMMA CommitCancelInvoiceStep ==
  ASSUME IInv, NEW c \in Calls, CommitCancelInvoice(c) PROVE IInv'
<1>1. call[c].pc = "commit" /\ call[c].op = "cancelInvoice"
  BY DEF CommitCancelInvoice, Runs
<1>2. /\ call[c].on \in Invoices /\ call[c].on \in call[c].held
      /\ invoice[call[c].on].status = "PENDING"
  BY <1>1, Running DEF Fits, FitsWrite
<1>. PICK i \in Invoices : i = call[c].on
  BY <1>2
<1>3. /\ i \in call[c].held /\ invoice[i].status = "PENDING"
      /\ invoice' = [invoice EXCEPT ![i].status = "CANCELLED"]
      /\ log' = [log EXCEPT ![i] = Append(log[i], "INVOICE_CANCELLED")]
      /\ call' = Aged(c, {i})
      /\ UNCHANGED <<sub, student, plan, overridden>>
  BY <1>2 DEF CommitCancelInvoice
<1>4. log[i] = <<"INVOICE_CREATED">>
  BY <1>3 DEF IInv, LogTellsTheStatus
<1>5. /\ Append(log[i], "INVOICE_CANCELLED") = <<"INVOICE_CREATED", "INVOICE_CANCELLED">>
      /\ <<"INVOICE_CREATED", "INVOICE_CANCELLED">> \in
           Seq({"INVOICE_CREATED", "PAYMENT_CONFIRMED",
                "MANUAL_PAYMENT_VERIFIED", "INVOICE_CANCELLED"})
  <2>. DEFINE S == {"INVOICE_CREATED", "PAYMENT_CONFIRMED",
                    "MANUAL_PAYMENT_VERIFIED", "INVOICE_CANCELLED"}
  <2>1. "INVOICE_CREATED" \in S /\ "INVOICE_CANCELLED" \in S
    OBVIOUS
  <2>. HIDE DEF S
  <2>2. /\ Append(<<"INVOICE_CREATED">>, "INVOICE_CANCELLED")
             = <<"INVOICE_CREATED", "INVOICE_CANCELLED">>
        /\ <<"INVOICE_CREATED", "INVOICE_CANCELLED">> \in Seq(S)
    BY <2>1, Events
  <2>. QED BY <1>4, <2>2 DEF S
<1>6. /\ log' \in [Invoices -> Seq({"INVOICE_CREATED", "PAYMENT_CONFIRMED",
                                    "MANUAL_PAYMENT_VERIFIED", "INVOICE_CANCELLED"})]
      /\ log'[i] = <<"INVOICE_CREATED", "INVOICE_CANCELLED">>
      /\ \A j \in Invoices : j # i => log'[j] = log[j]
  BY <1>3, <1>5 DEF IInv, TypeOK
<1>7. invoice' = [invoice EXCEPT ![i].status = "CANCELLED"]
  BY <1>3
<1>8. /\ Issued' = Issued /\ NumbersAreDense' /\ invoice'[i].status = "CANCELLED"
      /\ \A j \in Invoices : /\ j # i => invoice'[j] = invoice[j]
                             /\ invoice'[j].key = invoice[j].key
                             /\ invoice'[j].number = invoice[j].number
  BY <1>3, <1>7, StatusChange
<1>9. \A d \in Calls \ {c} : \A j \in call[d].held \cap Invoices : invoice'[j] = invoice[j]
  BY <1>3, <1>7, StatusChange
<1>10. TypeOK'
  <2>1. invoice' \in [Invoices -> [status: InvoiceStatuses, number: Nat,
                         key: Keys \cup {None}, proof: Files \cup {None}]]
    BY <1>3, <1>7, StatusChange
  <2>2. call' \in [Calls -> CallType]
    BY <1>3, AgedCalls
  <2>. QED BY <1>3, <1>6, <2>1, <2>2 DEF IInv, TypeOK, CallType
<1>11. ASSUME NEW d \in Calls \ {c} PROVE Fits(call[d])'
  <2>1. SameCall(d)
    BY <1>3, AgedCalls
  <2>2. /\ \A j \in Issued : invoice'[j].key = invoice[j].key
        /\ \A j \in call[d].held \cap Invoices : invoice'[j] = invoice[j]
    BY <1>8, <1>9 DEF Issued
  <2>. QED BY <1>3, <1>8, <2>1, <2>2, Running, FitsAgain, InvoiceKept, CreationKept,
              SubscriptionKept DEF Fits
<1>12. CallsInv'
  BY <1>3, <1>11, CommitStep
<1>13. StatusMirrorsSubscription' /\ RowsInv'
  BY <1>3, <1>8 DEF IInv, StatusMirrorsSubscription, RowsInv, Active
<1>14. LogTellsTheStatus'
  BY <1>6, <1>8 DEF IInv, LogTellsTheStatus
<1>15. PaidOnce'
  BY <1>3, <1>8 DEF IInv, PaidOnce
<1>. QED BY <1>8, <1>10, <1>12, <1>13, <1>14, <1>15 DEF IInv

LEMMA CommitProofStep ==
  ASSUME IInv, NEW c \in Calls, CommitProof(c) PROVE IInv'
<1>1. call[c].pc = "commit" /\ call[c].op = "upload"
  BY DEF CommitProof, Runs
<1>2. call[c].on \in Invoices /\ call[c].value \in Files
  BY <1>1, Running DEF Fits, FitsWrite
<1>. PICK i \in Invoices, f \in Files : i = call[c].on /\ f = call[c].value
  BY <1>2
<1>3. /\ invoice' = [invoice EXCEPT ![i].proof = f]
      /\ call' = Aged(c, {i})
      /\ UNCHANGED <<log, sub, student, plan, overridden>>
  BY DEF CommitProof
<1>4. invoice \in [Invoices -> [status: InvoiceStatuses, number: Nat,
                      key: Keys \cup {None}, proof: Files \cup {None}]]
  BY DEF IInv, TypeOK
<1>5. \A j \in Invoices : /\ invoice'[j].status = invoice[j].status
                          /\ invoice'[j].number = invoice[j].number
                          /\ invoice'[j].key = invoice[j].key
  BY <1>3, <1>4
<1>6. Issued' = Issued /\ \A j \in Issued : j \in Invoices
  BY <1>5 DEF Issued
<1>7. TypeOK'
  <2>1. invoice' \in [Invoices -> [status: InvoiceStatuses, number: Nat,
                         key: Keys \cup {None}, proof: Files \cup {None}]]
    BY <1>3, <1>4
  <2>2. call' \in [Calls -> CallType]
    BY <1>3, AgedCalls
  <2>. QED BY <1>3, <2>1, <2>2 DEF IInv, TypeOK, CallType
<1>8. ASSUME NEW d \in Calls \ {c} PROVE Fits(call[d])'
  <2>1. SameCall(d)
    BY <1>3, AgedCalls
  <2>2. /\ \A j \in Issued : invoice'[j].key = invoice[j].key
        /\ \A j \in call[d].held \cap Invoices :
             invoice[j].status = "PENDING" => invoice'[j].status = "PENDING"
    BY <1>5, <1>6
  <2>. QED BY <1>3, <1>6, <2>1, <2>2, Running, FitsAgain, InvoiceKept, CreationKept,
              SubscriptionKept DEF Fits
<1>9. CallsInv'
  BY <1>3, <1>8, CommitStep
<1>10. StatusMirrorsSubscription' /\ RowsInv'
  BY <1>3, <1>6 DEF IInv, StatusMirrorsSubscription, RowsInv, Active
<1>11. LogTellsTheStatus'
  BY <1>3, <1>5 DEF IInv, LogTellsTheStatus
<1>12. PaidOnce'
  BY <1>3, <1>5 DEF IInv, PaidOnce
<1>13. NumbersAreDense'
  BY <1>5, <1>6 DEF IInv, NumbersAreDense
<1>. QED BY <1>7, <1>9, <1>10, <1>11, <1>12, <1>13 DEF IInv

(* Commits and single statements that write neither an invoice nor a       *)
(* subscription.                                                           *)
LEMMA OtherRowsStep ==
  ASSUME IInv, NEW c \in Calls, NEW rows, call' = Aged(c, rows),
         UNCHANGED <<invoice, log, sub>>,
         plan' \in [active: BOOLEAN, deleted: BOOLEAN],
         student' \in StudentStatuses, overridden' \in BOOLEAN,
         ~overridden' => ~overridden /\ student' = student,
         \A d \in Calls \ {c} : "plan" \in call[d].shared => plan'.active = plan.active
  PROVE  IInv'
<1>1. Issued' = Issued /\ Active' = Active
  BY DEF Issued, Active
<1>2. TypeOK'
  <2>1. call' \in [Calls -> CallType]
    BY AgedCalls
  <2>. QED BY <2>1 DEF IInv, TypeOK, CallType
<1>3. ASSUME NEW d \in Calls \ {c} PROVE Fits(call[d])'
  <2>1. SameCall(d)
    BY AgedCalls
  <2>2. call[d].op \in Payments => FitsPayment(call[d])'
    BY <2>1, Running DEF Fits, FitsPayment, SameCall
  <2>3. call[d].op \in {"cancelInvoice", "upload"} => FitsWrite(call[d])'
    BY <2>1, Running DEF Fits, FitsWrite, SameCall
  <2>. QED BY <1>1, <2>1, <2>2, <2>3, Running, FitsAgain, CreationKept, SubscriptionKept
         DEF Fits
<1>4. CallsInv'
  BY <1>3, CommitStep
<1>5. StatusMirrorsSubscription' /\ RowsInv' /\ PaidOnce' /\ LogTellsTheStatus'
        /\ NumbersAreDense'
  BY <1>1 DEF IInv, RowsInv, StatusMirrorsSubscription, PaidOnce, LogTellsTheStatus,
              NumbersAreDense
<1>. QED BY <1>2, <1>4, <1>5 DEF IInv

LEMMA CommitDeletePlanStep ==
  ASSUME IInv, NEW c \in Calls, CommitDeletePlan(c) PROVE IInv'
<1>1. /\ plan' = [plan EXCEPT !.deleted = TRUE]
      /\ call' = Aged(c, {"plan"})
      /\ UNCHANGED <<invoice, log, sub, student, overridden>>
  BY DEF CommitDeletePlan
<1>2. plan' \in [active: BOOLEAN, deleted: BOOLEAN] /\ plan'.active = plan.active
  BY <1>1 DEF IInv, TypeOK
<1>3. student' \in StudentStatuses /\ overridden' \in BOOLEAN
  BY <1>1 DEF IInv, TypeOK
<1>. QED BY <1>1, <1>2, <1>3, OtherRowsStep

(* The UPDATE waits for the payments that share the plan.                  *)
LEMMA UpdatePlanStep ==
  ASSUME IInv, NEW c \in Calls, NEW active \in BOOLEAN, UpdatePlan(c, active) PROVE IInv'
<1>1. /\ plan' = [plan EXCEPT !.active = active]
      /\ call' = Aged(c, {"plan"})
      /\ UNCHANGED <<invoice, log, sub, student, overridden>>
      /\ Users(c, "plan") = {}
  BY DEF UpdatePlan
<1>2. plan' \in [active: BOOLEAN, deleted: BOOLEAN]
  BY <1>1 DEF IInv, TypeOK
<1>3. student' \in StudentStatuses /\ overridden' \in BOOLEAN
  BY <1>1 DEF IInv, TypeOK
<1>4. \A d \in Calls \ {c} : "plan" \notin call[d].shared
  BY <1>1 DEF Users, Others
<1>. QED BY <1>1, <1>2, <1>3, <1>4, OtherRowsStep

LEMMA UpdateStudentStep ==
  ASSUME IInv, NEW c \in Calls, NEW status \in StaffStatuses,
         UpdateStudentSubscriptionStatus(c, status)
  PROVE  IInv'
<1>1. /\ student' = status /\ overridden' = TRUE
      /\ call' = Aged(c, {"student"})
      /\ UNCHANGED <<invoice, log, sub, plan>>
  BY DEF UpdateStudentSubscriptionStatus
<1>2. plan' \in [active: BOOLEAN, deleted: BOOLEAN] /\ student' \in StudentStatuses
  BY <1>1 DEF IInv, TypeOK, StudentStatuses
<1>. QED BY <1>1, <1>2, OtherRowsStep

-----------------------------------------------------------------------------
(* The invariant is inductive. *)

LEMMA InitInv == Init => IInv
<1>. SUFFICES ASSUME Init PROVE IInv
  OBVIOUS
<1>1. Issued = {} /\ Active = {}
  BY DEF Init, Issued, Active, NoInvoice, NoSub
<1>2. TypeOK
  <2>1. call \in [Calls -> CallType]
    BY NoCallFits DEF Init
  <2>2. /\ NoInvoice \in [status: InvoiceStatuses, number: Nat, key: Keys \cup {None},
                          proof: Files \cup {None}]
        /\ NoSub \in [status: SubStatuses, origin: Invoices \cup {"staff", None}]
    BY DEF NoInvoice, NoSub, InvoiceStatuses, SubStatuses
  <2>3. <<>> \in Seq({"INVOICE_CREATED", "PAYMENT_CONFIRMED",
                      "MANUAL_PAYMENT_VERIFIED", "INVOICE_CANCELLED"})
    OBVIOUS
  <2>. QED BY <2>1, <2>2, <2>3 DEF Init, TypeOK, CallType, StudentStatuses
<1>3. CallsInv
  BY NoCallFits DEF Init, CallsInv
<1>4. RowsInv
  BY <1>1, FS_EmptySet DEF Init, RowsInv, NoSub
<1>5. StatusMirrorsSubscription /\ LogTellsTheStatus
  BY <1>1 DEF Init, StatusMirrorsSubscription, LogTellsTheStatus, NoInvoice
<1>6. PaidOnce
  BY DEF Init, PaidOnce, NoInvoice, NoSub
<1>7. NumbersAreDense
  BY <1>1, FS_EmptySet DEF NumbersAreDense
<1>. QED BY <1>2, <1>3, <1>4, <1>5, <1>6, <1>7 DEF IInv

LEMMA BeginInv == ASSUME IInv, NEW c \in Calls, Begin(c) PROVE IInv'
<1>1. ASSUME NEW k \in Keys, CreateInvoice(c, k) PROVE IInv'
  BY <1>1, CreateInvoiceStep
<1>2. ASSUME NEW i \in Invoices, NEW op \in Payments, Pay(c, op, i) PROVE IInv'
  BY <1>2, PayStep
<1>3. ASSUME NEW i \in Invoices, CancelInvoice(c, i) PROVE IInv'
  BY <1>3, CancelInvoiceStep
<1>4. ASSUME NEW i \in Invoices, NEW f \in Files, UploadInvoiceProof(c, i, f) PROVE IInv'
  BY <1>4, UploadStep
<1>5. CASE ActivateSubscription(c)
  BY <1>5, ActivateSubscriptionStep
<1>6. ASSUME NEW s \in Subs, CancelSubscription(c, s) PROVE IInv'
  BY <1>6, CancelSubscriptionStep
<1>7. CASE DeletePlan(c)
  BY <1>7, DeletePlanStep
<1>8. ASSUME NEW active \in BOOLEAN, UpdatePlan(c, active) PROVE IInv'
  BY <1>8, UpdatePlanStep
<1>9. ASSUME NEW status \in StaffStatuses, UpdateStudentSubscriptionStatus(c, status)
      PROVE  IInv'
  BY <1>9, UpdateStudentStep
<1>. QED BY <1>1, <1>2, <1>3, <1>4, <1>5, <1>6, <1>7, <1>8, <1>9 DEF Begin, Payments

LEMMA ProceedInv == ASSUME IInv, NEW c \in Calls, Proceed(c) PROVE IInv'
BY CountStep, InsertInvoiceStep, LockInvoiceStep, LockPlanStep, ExpireStep,
   InsertSubscriptionStep, ReferenceStudentStep, SyncStudentStep, CancelRowStep,
   LockStudentStep, RecheckStep, WriteInvoiceStep, SoftDeleteStep DEF Proceed

LEMMA CommitInv == ASSUME IInv, NEW c \in Calls, Commit(c) PROVE IInv'
BY CommitInvoiceStep, CommitPaymentStep, CommitActivationStep,
   CommitCancelSubscriptionStep, CommitCancelInvoiceStep, CommitProofStep,
   CommitDeletePlanStep DEF Commit

LEMMA StutterInv == ASSUME IInv, UNCHANGED vars PROVE IInv'
<1>. USE DEF vars
<1>1. Issued' = Issued /\ Active' = Active
  BY DEF Issued, Active
<1>2. TypeOK' /\ RowsInv' /\ StatusMirrorsSubscription' /\ PaidOnce'
        /\ LogTellsTheStatus' /\ NumbersAreDense'
  BY <1>1 DEF IInv, TypeOK, RowsInv, StatusMirrorsSubscription, PaidOnce,
     LogTellsTheStatus, NumbersAreDense
<1>3. CallsInv'
  BY <1>1 DEF IInv, CallsInv, Fits, FitsCreate, FitsPayment, FitsActivation,
     FitsCancellation, FitsWrite, Apart
<1>. QED BY <1>2, <1>3 DEF IInv

LEMMA NextInv == IInv /\ [Next]_vars => IInv'
<1>. SUFFICES ASSUME IInv, [Next]_vars PROVE IInv'
  OBVIOUS
<1>1. ASSUME NEW c \in Calls, Begin(c) \/ Proceed(c) \/ Commit(c) \/ Abort(c) PROVE IInv'
  BY <1>1, BeginInv, ProceedInv, CommitInv, RefuseStep DEF Abort
<1>2. CASE UNCHANGED vars
  BY <1>2, StutterInv
<1>. QED BY <1>1, <1>2 DEF Next

THEOREM Invariance == Spec => []IInv
BY InitInv, NextInv, PTL DEF Spec

(* Columns keep the values their CHECK constraints allow, in every         *)
(* interleaving of billing's calls.                                        *)
THEOREM TypeCorrect == Spec => []TypeOK
BY Invariance, PTL DEF IInv

(* students.subscription_status says ACTIVE exactly when there is an       *)
(* active subscription, of which there is never a second, until staff      *)
(* overwrite it.                                                           *)
THEOREM StatusMirrored == Spec => []StatusMirrorsSubscription
BY Invariance, PTL DEF IInv

(* However often a payment is delivered, a PAID invoice gave exactly one   *)
(* subscription, and no other invoice gave one.                            *)
THEOREM PaidExactlyOnce == Spec => []PaidOnce
BY Invariance, PTL DEF IInv

(* The audit log of an invoice is its history: created, then paid or       *)
(* cancelled at most once.                                                 *)
THEOREM HonestLog == Spec => []LogTellsTheStatus
BY Invariance, PTL DEF IInv

(* Invoice numbers run from 1 without a gap, and no idempotency key is     *)
(* used twice, although the numbers come from COUNT outside any lock.      *)
THEOREM DenseNumbers == Spec => []NumbersAreDense
BY Invariance, PTL DEF IInv

-----------------------------------------------------------------------------
(* What a step does to the rows a reader sees. *)

LEMMA QuietBegin ==
  ASSUME IInv, NEW c \in Calls, Begin(c)
  PROVE  UNCHANGED <<invoice, sub>> /\ student' \in StudentStatuses
BY DEF Begin, CreateInvoice, Pay, CancelInvoice, UploadInvoiceProof, ActivateSubscription,
   CancelSubscription, DeletePlan, UpdatePlan, UpdateStudentSubscriptionStatus, Open,
   IInv, TypeOK, StudentStatuses

LEMMA QuietProceed ==
  ASSUME NEW c \in Calls, Proceed(c) \/ Abort(c)
  PROVE  UNCHANGED <<invoice, sub, student>>
BY DEF Proceed, Count, InsertInvoice, LockInvoice, LockPlan, Expire, InsertSubscription,
   ReferenceStudent, SyncStudent, CancelRow, LockStudent, Recheck, WriteInvoice,
   SoftDelete, Abort, Take, Refuse, Advance

(* An invoice becomes PAID only while its plan is active: the FOR SHARE    *)
(* lock keeps the plan so from the check to the commit.                    *)
THEOREM PlanActiveAtPayment == Spec => PaidOnActivePlan
<1>. DEFINE P == \A i \in Invoices :
       invoice[i].status # "PAID" /\ invoice'[i].status = "PAID" => plan.active
<1>1. ASSUME IInv, [Next]_vars PROVE P
  <2>1. CASE invoice' = invoice
    BY <2>1
  <2>2. ASSUME NEW c \in Calls, Commit(c) PROVE P
    <3>1. CASE CommitInvoice(c)
      <4>1. \A i \in Invoices : invoice'[i].status \in {invoice[i].status, "PENDING"}
        BY <1>1, <3>1 DEF CommitInvoice, IInv, TypeOK
      <4>. QED BY <4>1
    <3>2. CASE CommitPayment(c)
      <4>1. call[c].pc = "commit" /\ call[c].op \in Payments
        BY <3>2 DEF CommitPayment, Runs, Payments
      <4>. QED BY <1>1, <4>1, Running DEF Fits, FitsPayment
    <3>3. CASE CommitCancelInvoice(c)
      <4>1. \A i \in Invoices : invoice'[i].status \in {invoice[i].status, "CANCELLED"}
        BY <1>1, <3>3 DEF CommitCancelInvoice, IInv, TypeOK
      <4>. QED BY <4>1
    <3>4. CASE CommitProof(c)
      <4>1. \A i \in Invoices : invoice'[i].status = invoice[i].status
        BY <1>1, <3>4 DEF CommitProof, IInv, TypeOK
      <4>. QED BY <4>1
    <3>5. CASE CommitActivation(c) \/ CommitCancelSubscription(c) \/ CommitDeletePlan(c)
      BY <2>1, <3>5 DEF CommitActivation, CommitCancelSubscription, CommitDeletePlan
    <3>. QED BY <2>2, <3>1, <3>2, <3>3, <3>4, <3>5 DEF Commit
  <2>3. CASE UNCHANGED vars
    BY <2>1, <2>3 DEF vars
  <2>. QED BY <1>1, <2>1, <2>2, <2>3, QuietBegin, QuietProceed DEF Next
<1>2. IInv /\ [Next]_vars => [P]_vars
  BY <1>1
<1>. QED BY <1>2, Invariance, PTL DEF Spec, PaidOnActivePlan

(* The refinement mapping, as an operator of the state.                    *)
Statuses == [i \in Invoices |-> invoice[i].status]

LEMMA GivenOf ==
  /\ Active = {} => Given = None
  /\ \A s : Active = {s} => Given = sub[s].origin
BY DEF Given

LEMMA IssueStep ==
  ASSUME IInv, NEW c \in Calls, CommitInvoice(c)
  PROVE  \E i \in Invoices : Ledger!Issue(i)
<1>1. call[c].new \in Invoices \ Issued
  BY Running DEF CommitInvoice, Runs, Fits, FitsCreate
<1>. PICK i \in Invoices : i = call[c].new /\ invoice[i].status = "none"
  BY <1>1 DEF Issued
<1>2. /\ invoice'[i].status = "PENDING" /\ \A j \in Invoices \ {i} : invoice'[j] = invoice[j]
      /\ UNCHANGED <<sub, student>>
  BY DEF CommitInvoice, IInv, TypeOK
<1>3. Statuses' = [Statuses EXCEPT ![i] = "PENDING"]
  BY <1>2 DEF Statuses
<1>4. UNCHANGED Given
  BY <1>2 DEF Given, Active
<1>. QED BY <1>2, <1>3, <1>4 DEF Ledger!Issue, Statuses

LEMMA PayLedgerStep ==
  ASSUME IInv, NEW c \in Calls, CommitPayment(c)
  PROVE  \E i \in Invoices : Ledger!Pay(i)
<1>0. call[c].pc = "commit" /\ call[c].op \in Payments /\ call[c].op \in Serializable
  BY DEF CommitPayment, Runs, Payments, Serializable
<1>1. call[c].on \in Invoices /\ invoice[call[c].on].status = "PENDING"
  BY <1>0, Running DEF Fits, FitsPayment
<1>. PICK i \in Invoices : i = call[c].on
  BY <1>1
<1>2. /\ invoice' = [invoice EXCEPT ![i].status = "PAID"] /\ student' = "ACTIVE"
      /\ sub' = Activated(c, i)
  BY DEF CommitPayment
<1>3. Statuses' = [Statuses EXCEPT ![i] = "PAID"]
  <2>1. \A j \in Invoices : invoice'[j].status = IF j = i THEN "PAID" ELSE invoice[j].status
    BY <1>2 DEF IInv, TypeOK
  <2>. QED BY <2>1 DEF Statuses
<1>4. Active' = {call[c].new} /\ sub'[call[c].new].origin = i
  BY <1>0, <1>2, ActivatedRows
<1>5. Given' = i
  BY <1>4 DEF Given
<1>. QED BY <1>1, <1>2, <1>3, <1>5 DEF Ledger!Pay, Statuses

LEMMA GrantStep ==
  ASSUME IInv, NEW c \in Calls, CommitActivation(c) PROVE Ledger!Grant
<1>1. /\ call[c].pc = "commit" /\ call[c].op \in Serializable
      /\ UNCHANGED invoice /\ student' = "ACTIVE" /\ sub' = Activated(c, "staff")
  BY DEF CommitActivation, Runs, Serializable
<1>2. Active' = {call[c].new} /\ sub'[call[c].new].origin = "staff"
  BY <1>1, ActivatedRows
<1>3. Given' = "staff"
  BY <1>2 DEF Given
<1>. QED BY <1>1, <1>3 DEF Ledger!Grant

LEMMA RevokeStep ==
  ASSUME IInv, NEW c \in Calls, CommitCancelSubscription(c) PROVE Ledger!Revoke
<1>1. call[c].pc = "commit" /\ call[c].op = "cancelSub"
  BY DEF CommitCancelSubscription, Runs
<1>. PICK s \in Subs : s = call[c].on /\ s \in Active /\ call[c].saw = None
  BY <1>1, Running DEF Fits, FitsCancellation
<1>2. /\ sub' = [sub EXCEPT ![s].status = "CANCELED"] /\ student' = "NONE"
      /\ UNCHANGED invoice
  BY DEF CommitCancelSubscription
<1>3. Active = {s}
  BY DEF IInv, StatusMirrorsSubscription
<1>4. Active' = {}
  BY <1>2, <1>3 DEF Active, IInv, TypeOK
<1>5. Given = sub[s].origin /\ sub[s].origin # None
  BY <1>3, GivenOf DEF Active, IInv, RowsInv
<1>6. Given' = None
  BY <1>4 DEF Given
<1>. QED BY <1>2, <1>5, <1>6 DEF Ledger!Revoke

LEMMA CancelInvoiceLedgerStep ==
  ASSUME IInv, NEW c \in Calls, CommitCancelInvoice(c)
  PROVE  \E i \in Invoices : Ledger!CancelInvoice(i)
<1>1. call[c].pc = "commit" /\ call[c].op = "cancelInvoice"
  BY DEF CommitCancelInvoice, Runs
<1>. PICK i \in Invoices : i = call[c].on /\ invoice[i].status = "PENDING"
  BY <1>1, Running DEF Fits, FitsWrite
<1>2. invoice' = [invoice EXCEPT ![i].status = "CANCELLED"] /\ UNCHANGED <<sub, student>>
  BY DEF CommitCancelInvoice
<1>3. Statuses' = [Statuses EXCEPT ![i] = "CANCELLED"]
  <2>1. \A j \in Invoices : invoice'[j].status = IF j = i THEN "CANCELLED" ELSE invoice[j].status
    BY <1>2 DEF IInv, TypeOK
  <2>. QED BY <2>1 DEF Statuses
<1>4. UNCHANGED Given
  BY <1>2 DEF Given, Active
<1>. QED BY <1>2, <1>3, <1>4 DEF Ledger!CancelInvoice, Statuses

(* Steps of which a reader sees at most the student's status.              *)
LEMMA QuietStep ==
  ASSUME UNCHANGED sub, Statuses' = Statuses,
         student' = student \/ student' \in StudentStatuses
  PROVE  [Ledger!Next]_<<Statuses, Given, student>>
<1>1. UNCHANGED Given
  BY DEF Given, Active
<1>2. CASE student' = student
  BY <1>1, <1>2
<1>3. CASE student' \in StudentStatuses
  BY <1>1, <1>3 DEF Ledger!Next, Ledger!Overwrite, Statuses, StudentStatuses
<1>. QED BY <1>2, <1>3

LEMMA LedgerStep ==
  ASSUME IInv, [Next]_vars
  PROVE  [Ledger!Next]_<<Statuses, Given, student>>
<1>1. ASSUME NEW c \in Calls, Begin(c) \/ Proceed(c) \/ Abort(c)
      PROVE  [Ledger!Next]_<<Statuses, Given, student>>
  <2>1. /\ UNCHANGED sub /\ invoice' = invoice
        /\ student' = student \/ student' \in StudentStatuses
    BY <1>1, QuietBegin, QuietProceed
  <2>2. Statuses' = Statuses
    BY <2>1 DEF Statuses
  <2>. QED BY <2>1, <2>2, QuietStep
<1>2. ASSUME NEW c \in Calls, CommitProof(c)
      PROVE  [Ledger!Next]_<<Statuses, Given, student>>
  <2>1. UNCHANGED <<sub, student>> /\ Statuses' = Statuses
    BY <1>2 DEF CommitProof, Statuses, IInv, TypeOK
  <2>. QED BY <2>1, QuietStep
<1>3. ASSUME NEW c \in Calls, CommitDeletePlan(c)
      PROVE  [Ledger!Next]_<<Statuses, Given, student>>
  <2>1. UNCHANGED <<sub, student>> /\ Statuses' = Statuses
    BY <1>3 DEF CommitDeletePlan, Statuses
  <2>. QED BY <2>1, QuietStep
<1>4. ASSUME NEW c \in Calls,
             \/ CommitInvoice(c) \/ CommitPayment(c) \/ CommitActivation(c)
             \/ CommitCancelSubscription(c) \/ CommitCancelInvoice(c)
      PROVE  Ledger!Next
  BY <1>4, IssueStep, PayLedgerStep, GrantStep, RevokeStep, CancelInvoiceLedgerStep
     DEF Ledger!Next
<1>5. CASE UNCHANGED vars
  <2>1. UNCHANGED <<sub, student>> /\ Statuses' = Statuses
    BY <1>5 DEF vars, Statuses
  <2>. QED BY <2>1, QuietStep
<1>. QED BY <1>1, <1>2, <1>3, <1>4, <1>5 DEF Next, Commit

LEMMA LedgerInit == Init => Ledger!Init
<1>. SUFFICES ASSUME Init PROVE Ledger!Init
  OBVIOUS
<1>1. Active = {}
  BY DEF Init, Active, NoSub
<1>2. Statuses = [i \in Invoices |-> "none"]
  BY DEF Init, Statuses, NoInvoice
<1>. QED BY <1>1, <1>2, GivenOf DEF Init, Ledger!Init, Statuses

(* To a reader of committed rows the interleaved transactions of billing   *)
(* are the indivisible steps of BillingLedger.                             *)
THEOREM Refinement == Spec => ImplementsLedger
<1>1. IInv /\ [Next]_vars
        => [Ledger!Next]_<<[i \in Invoices |-> invoice[i].status], Given, student>>
  BY LedgerStep DEF Statuses
<1>. QED BY <1>1, LedgerInit, Invariance, PTL DEF Spec, ImplementsLedger, Ledger!Spec

-----------------------------------------------------------------------------
(* Locks are taken in one order: invoice, plan, subscriptions, student.    *)
(* Two inserts of subscriptions may wait for each other's rows at one      *)
(* stage; there the one that holds the active subscription is ahead.       *)

StageOf(r) ==
  CASE r \in Invoices -> 1
    [] r = "plan" -> 2
    [] r \in Subs -> 3
    [] r = "studentKey" -> 6
    [] OTHER -> 7

Stage(pc) ==
  CASE pc \in {"idle", "count", "insertInvoice"} -> 0
    [] pc \in {"lockInvoice", "writeInvoice"} -> 1
    [] pc \in {"lockPlan", "softDelete"} -> 2
    [] pc \in {"expire", "cancelRow"} -> 3
    [] pc = "insertSub" -> 4
    [] pc \in {"studentKey", "lockStudent"} -> 6
    [] pc = "sync" -> 7
    [] OTHER -> 8

Rank(k) == IF k.pc = "insertSub" /\ k.saw \in Active THEN 5 ELSE Stage(k.pc)

(* What a call holds comes before what it is about to ask for.             *)
InOrder(k) ==
  /\ \A r \in k.held \cup k.shared : StageOf(r) < Stage(k.pc)
  /\ k.pc = "insertSub" => k.held \cap Subs \subseteq {k.saw}

LockInv == \A c \in Calls : InOrder(call[c])

(* A call that has locked nothing more and asks for no earlier row.        *)
LEMMA LaterInOrder ==
  ASSUME NEW k, InOrder(k), NEW m, m.held = k.held, m.shared = k.shared,
         Stage(k.pc) <= Stage(m.pc), m.pc # "insertSub"
  PROVE  InOrder(m)
<1>1. \A r : StageOf(r) \in Nat
  BY DEF StageOf
<1>2. Stage(k.pc) \in Nat /\ Stage(m.pc) \in Nat
  BY DEF Stage
<1>. QED BY <1>1, <1>2 DEF InOrder

LEMMA OrderAdvanced ==
  ASSUME IInv, LockInv, NEW c \in Calls, NEW r, InOrder(r), Advance(c, r) PROVE LockInv'
<1>1. \A d \in Calls : call'[d] = IF d = c THEN r ELSE call[d]
  BY DEF IInv, TypeOK, Advance
<1>2. \A d \in Calls : InOrder(call'[d])
  BY <1>1 DEF LockInv
<1>. QED BY <1>2 DEF LockInv, InOrder

LEMMA OrderRefused == ASSUME IInv, LockInv, NEW c \in Calls, Refuse(c) PROVE LockInv'
<1>1. InOrder(NoCall)
  BY DEF InOrder, NoCall
<1>. QED BY <1>1, OrderAdvanced DEF Refuse

LEMMA OrderOpened ==
  ASSUME IInv, LockInv, NEW c \in Calls, NEW r, Open(c, r), r.held = {}, r.shared = {},
         r.pc # "insertSub"
  PROVE  LockInv'
<1>1. InOrder(r)
  BY DEF InOrder
<1>2. Advance(c, r)
  BY DEF Open, Advance
<1>. QED BY <1>1, <1>2, OrderAdvanced

LEMMA OrderCommitted ==
  ASSUME IInv, LockInv, NEW c \in Calls, NEW rows, call' = Aged(c, rows) PROVE LockInv'
<1>1. call'[c].held = {} /\ call'[c].shared = {} /\ call'[c].pc = "idle"
  BY AgedCalls DEF NoCall
<1>2. \A d \in Calls \ {c} : SameCall(d)
  BY AgedCalls
<1>. QED BY <1>1, <1>2 DEF LockInv, InOrder, SameCall

LEMMA OrderBegin == ASSUME IInv, LockInv, NEW c \in Calls, Begin(c) PROVE LockInv'
<1>1. ASSUME NEW k \in Keys, CreateInvoice(c, k) PROVE LockInv'
  BY <1>1, OrderOpened DEF CreateInvoice, NoCall
<1>2. ASSUME NEW i \in Invoices, NEW op \in Payments, Pay(c, op, i) PROVE LockInv'
  BY <1>2, OrderOpened DEF Pay, NoCall
<1>3. ASSUME NEW i \in Invoices, CancelInvoice(c, i) PROVE LockInv'
  BY <1>3, OrderOpened DEF CancelInvoice, NoCall
<1>4. ASSUME NEW i \in Invoices, NEW f \in Files, UploadInvoiceProof(c, i, f) PROVE LockInv'
  BY <1>4, OrderOpened DEF UploadInvoiceProof, NoCall
<1>5. CASE ActivateSubscription(c)
  BY <1>5, OrderOpened DEF ActivateSubscription, NoCall
<1>6. ASSUME NEW s \in Subs, CancelSubscription(c, s) PROVE LockInv'
  BY <1>6, OrderOpened DEF CancelSubscription, NoCall
<1>7. CASE DeletePlan(c)
  BY <1>7, OrderOpened DEF DeletePlan, NoCall
<1>8. ASSUME NEW active \in BOOLEAN, UpdatePlan(c, active) PROVE LockInv'
  BY <1>8, OrderCommitted DEF UpdatePlan
<1>9. ASSUME NEW status \in StaffStatuses, UpdateStudentSubscriptionStatus(c, status)
      PROVE  LockInv'
  BY <1>9, OrderCommitted DEF UpdateStudentSubscriptionStatus
<1>. QED BY <1>1, <1>2, <1>3, <1>4, <1>5, <1>6, <1>7, <1>8, <1>9 DEF Begin, Payments

LEMMA OrderProceed == ASSUME IInv, LockInv, NEW c \in Calls, Proceed(c) PROVE LockInv'
<1>. PICK k \in CallType : k = call[c]
  BY Running
<1>. USE DEF CallType
<1>0. InOrder(k) /\ Fits(k)
  BY Running DEF LockInv
<1>1. CASE Count(c)
  <2>1. InOrder([k EXCEPT !.pc = "insertInvoice", !.number = Cardinality(Issued) + 1])
    BY <1>0, <1>1 DEF Count, Runs, InOrder, Stage
  <2>. QED BY <1>1, <2>1, OrderAdvanced DEF Count
<1>2. CASE InsertInvoice(c)
  <2>1. ASSUME NEW i PROVE InOrder([k EXCEPT !.pc = "studentKey", !.new = i])
    <3>. DEFINE m == [k EXCEPT !.pc = "studentKey", !.new = i]
    <3>1. m.held = k.held /\ m.shared = k.shared /\ m.pc = "studentKey"
      OBVIOUS
    <3>2. Stage(k.pc) <= Stage("studentKey")
      <4>1. k.pc = "insertInvoice"
        BY <1>2 DEF InsertInvoice, Runs
      <4>. QED BY <4>1 DEF Stage
    <3>. HIDE DEF m
    <3>. QED BY <1>0, <3>1, <3>2, LaterInOrder
  <2>. QED BY <1>2, <2>1, OrderAdvanced, OrderRefused DEF InsertInvoice
<1>3. CASE LockInvoice(c)
  <2>1. k.on \in Invoices
    BY <1>0, <1>3 DEF LockInvoice, Runs, Fits, FitsPayment, StatementsOf, Payments,
       LastStatements, Operations, Serializable
  <2>2. InOrder([k EXCEPT !.pc = "lockPlan", !.held = @ \cup {k.on}])
    BY <1>0, <1>3, <2>1 DEF LockInvoice, Runs, InOrder, Stage, StageOf
  <2>. QED BY <1>3, <2>2, OrderAdvanced, OrderRefused DEF LockInvoice, Take
<1>4. CASE LockPlan(c)
  <2>1. InOrder([k EXCEPT !.pc = "expire", !.shared = @ \cup {"plan"}])
    BY <1>0, <1>4 DEF LockPlan, Runs, InOrder, Stage, StageOf
  <2>. QED BY <1>4, <2>1, OrderAdvanced, OrderRefused DEF LockPlan, Take
<1>5. CASE Expire(c)
  <2>1. InOrder([k EXCEPT !.pc = "insertSub"])
    BY <1>0, <1>5 DEF Expire, Runs, InOrder, Stage, StageOf
  <2>2. k.saw # None => InOrder([k EXCEPT !.pc = "insertSub", !.held = @ \cup {k.saw}])
    BY <1>0, <1>5 DEF Expire, Runs, InOrder, Stage, StageOf
  <2>. QED BY <1>5, <2>1, <2>2, OrderAdvanced, OrderRefused DEF Expire, Take
<1>6. CASE InsertSubscription(c)
  <2>1. ASSUME NEW s PROVE InOrder([k EXCEPT !.pc = "studentKey", !.new = s])
    <3>. DEFINE m == [k EXCEPT !.pc = "studentKey", !.new = s]
    <3>1. m.held = k.held /\ m.shared = k.shared /\ m.pc = "studentKey"
      OBVIOUS
    <3>2. Stage(k.pc) <= Stage("studentKey")
      <4>1. k.pc = "insertSub"
        BY <1>6 DEF InsertSubscription, Runs
      <4>. QED BY <4>1 DEF Stage
    <3>. HIDE DEF m
    <3>. QED BY <1>0, <3>1, <3>2, LaterInOrder
  <2>. QED BY <1>6, <2>1, OrderAdvanced, OrderRefused DEF InsertSubscription
<1>7. CASE ReferenceStudent(c)
  <2>1. \A pc \in {"commit", "sync"} :
          InOrder([k EXCEPT !.pc = pc, !.shared = @ \cup {"studentKey"}])
    BY <1>0, <1>7 DEF ReferenceStudent, Runs, InOrder, Stage, StageOf
  <2>. QED BY <1>7, <2>1, OrderAdvanced DEF ReferenceStudent
<1>8. CASE SyncStudent(c)
  <2>1. InOrder([k EXCEPT !.pc = "commit", !.held = @ \cup {"student"}])
    BY <1>0, <1>8 DEF SyncStudent, Runs, InOrder, Stage, StageOf
  <2>. QED BY <1>8, <2>1, OrderAdvanced, OrderRefused DEF SyncStudent, Take
<1>9. CASE CancelRow(c)
  <2>1. k.on \in Active => k.on \in Subs
    BY DEF Active
  <2>2. k.on \in Subs => InOrder([k EXCEPT !.pc = "lockStudent", !.held = @ \cup {k.on}])
    BY <1>0, <1>9 DEF CancelRow, Runs, InOrder, Stage, StageOf
  <2>. QED BY <1>9, <2>1, <2>2, OrderAdvanced, OrderRefused DEF CancelRow
<1>10. CASE LockStudent(c)
  <2>1. InOrder([k EXCEPT !.pc = "recheck", !.held = @ \cup {"student", "studentKey"}])
    BY <1>0, <1>10 DEF LockStudent, Runs, InOrder, Stage, StageOf
  <2>. QED BY <1>10, <2>1, OrderAdvanced DEF LockStudent
<1>11. CASE Recheck(c)
  <2>1. \A s : InOrder([k EXCEPT !.pc = "commit", !.saw = s])
    BY <1>0, <1>11 DEF Recheck, Runs, InOrder, Stage
  <2>. QED BY <1>11, <2>1, OrderAdvanced DEF Recheck
<1>12. CASE WriteInvoice(c)
  <2>1. k.on \in Invoices
    BY <1>0, <1>12 DEF WriteInvoice, Runs, Fits, FitsWrite, StatementsOf, Payments,
       LastStatements, Operations, Serializable
  <2>2. InOrder([k EXCEPT !.pc = "commit", !.held = @ \cup {k.on}])
    BY <1>0, <1>12, <2>1 DEF WriteInvoice, Runs, InOrder, Stage, StageOf
  <2>. QED BY <1>12, <2>2, OrderAdvanced, OrderRefused DEF WriteInvoice
<1>13. CASE SoftDelete(c)
  <2>1. InOrder([k EXCEPT !.pc = "commit", !.held = @ \cup {"plan"}])
    BY <1>0, <1>13 DEF SoftDelete, Runs, InOrder, Stage, StageOf
  <2>. QED BY <1>13, <2>1, OrderAdvanced DEF SoftDelete
<1>. QED BY <1>1, <1>2, <1>3, <1>4, <1>5, <1>6, <1>7, <1>8, <1>9, <1>10, <1>11, <1>12,
            <1>13 DEF Proceed

LEMMA OrderNext == ASSUME IInv, LockInv, [Next]_vars PROVE LockInv'
<1>1. ASSUME NEW c \in Calls, Commit(c) PROVE LockInv'
  BY <1>1, OrderCommitted
     DEF Commit, CommitInvoice, CommitPayment, CommitActivation,
         CommitCancelSubscription, CommitCancelInvoice, CommitProof, CommitDeletePlan
<1>2. ASSUME NEW c \in Calls, Abort(c) PROVE LockInv'
  BY <1>2, OrderRefused DEF Abort
<1>3. CASE UNCHANGED vars
  BY <1>3 DEF vars, LockInv, InOrder
<1>. QED BY <1>1, <1>2, <1>3, OrderBegin, OrderProceed DEF Next

LEMMA Ranks ==
  ASSUME NEW k
  PROVE  /\ Rank(k) \in 0 .. 8 /\ Stage(k.pc) \in 0 .. 8 /\ Stage(k.pc) <= Rank(k)
         /\ k.pc # "insertSub" => Rank(k) = Stage(k.pc)
         /\ k.pc # "insertSub" /\ 3 < Stage(k.pc) => 5 < Stage(k.pc)
<1>1. Stage(k.pc) \in 0 .. 8
  BY DEF Stage
<1>2. k.pc = "insertSub" => Stage(k.pc) = 4
  BY DEF Stage
<1>3. k.pc # "insertSub" /\ 3 < Stage(k.pc) => 5 < Stage(k.pc)
  BY DEF Stage
<1>. QED BY <1>1, <1>2, <1>3 DEF Rank

(* Who waits for a row is at an earlier statement than its holder.         *)
LEMMA RowRank ==
  ASSUME LockInv, NEW c \in Calls, NEW d \in Calls, NEW r,
         r \in call[d].held \cup call[d].shared,
         call[c].pc # "insertSub", Stage(call[c].pc) <= StageOf(r)
  PROVE  Rank(call[c]) < Rank(call[d])
<1>1. StageOf(r) \in Nat /\ StageOf(r) < Stage(call[d].pc)
  BY DEF LockInv, InOrder, StageOf
<1>2. /\ Rank(call[c]) = Stage(call[c].pc) /\ Stage(call[c].pc) \in 0 .. 8
      /\ Stage(call[d].pc) \in 0 .. 8 /\ Rank(call[d]) \in 0 .. 8
      /\ Stage(call[d].pc) <= Rank(call[d])
  BY Ranks
<1>. QED BY <1>1, <1>2

LEMMA Waiting ==
  ASSUME IInv, LockInv, NEW c \in Calls, NEW d \in Blockers(c)
  PROVE  Rank(call[c]) < Rank(call[d])
<1>. DEFINE Holds(r) == d \in Calls /\ r \in call[d].held \cup call[d].shared
<1>1. ASSUME NEW r, d \in Holders(c, r) \cup Users(c, r) PROVE Holds(r)
  BY <1>1 DEF Holders, Users, Others
<1>2. CASE call[c].pc = "insertInvoice"
  <2>1. d \in Calls /\ call[d].op = "create" /\ call[d].new # None
    BY <1>2 DEF Blockers, RivalInvoices, Others
  <2>2. call[d].pc \in {"studentKey", "commit"}
    BY <2>1, CallTyped DEF IInv, CallsInv, Fits, FitsCreate, StatementsOf, Payments
  <2>. QED BY <1>2, <2>2 DEF Rank, Stage
<1>3. CASE call[c].pc \in {"lockInvoice", "writeInvoice"}
  <2>1. call[c].on \in Invoices
    BY <1>3, Running DEF Fits, FitsPayment, FitsWrite, StatementsOf, Payments,
       LastStatements, CallType, Operations, Serializable
  <2>2. Holds(call[c].on)
    BY <1>1, <1>3 DEF Blockers
  <2>3. StageOf(call[c].on) = 1 /\ Stage(call[c].pc) = 1
    BY <1>3, <2>1 DEF StageOf, Stage
  <2>. QED BY <1>3, <2>2, <2>3, RowRank
<1>4. CASE call[c].pc = "lockPlan" \/ call[c].pc = "softDelete"
  <2>1. Holds("plan")
    BY <1>1, <1>4 DEF Blockers
  <2>2. StageOf("plan") = 2 /\ Stage(call[c].pc) = 2
    BY <1>4 DEF StageOf, Stage
  <2>. QED BY <1>4, <2>1, <2>2, RowRank
<1>5. CASE call[c].pc = "cancelRow"
  <2>1. call[c].on \in Subs
    BY <1>5, Running DEF Fits, FitsCancellation, StatementsOf, Payments,
       LastStatements, CallType, Operations, Serializable
  <2>2. Holds(call[c].on)
    BY <1>1, <1>5 DEF Blockers
  <2>3. StageOf(call[c].on) = 3 /\ Stage(call[c].pc) = 3
    BY <1>5, <2>1 DEF StageOf, Stage
  <2>. QED BY <1>5, <2>2, <2>3, RowRank
<1>6. CASE call[c].pc = "expire"
  <2>1. Holds(call[c].saw)
    BY <1>1, <1>6 DEF Blockers
  <2>2. call[c].saw \in Subs
    BY <2>1, CallTyped, NoneIsNoRow DEF IInv, CallType, Rows
  <2>3. StageOf(call[c].saw) = 3 /\ Stage(call[c].pc) = 3
    BY <1>6, <2>2 DEF StageOf, Stage
  <2>. QED BY <1>6, <2>1, <2>3, RowRank
<1>7. CASE call[c].pc = "insertSub"
  <2>1. d \in Calls /\ d \in RivalSubs(c)
    BY <1>7 DEF Blockers, RivalSubs, Others
  <2>2. CASE call[d].new \in Subs
    <3>1. call[d].pc \in LastStatements
      BY <2>1, <2>2, CallTyped DEF IInv, CallsInv, Fits, FitsCreate, FitsActivation,
         StatementsOf, Payments, LastStatements, CallType, Operations, Serializable
    <3>2. Rank(call[d]) \in {6, 7, 8}
      BY <3>1 DEF Rank, Stage, LastStatements
    <3>. QED BY <1>7, <3>2 DEF Rank, Stage
  <2>3. ASSUME NEW r \in Active \ {call[c].saw}, r \in call[d].held
        PROVE  Rank(call[c]) < Rank(call[d])
    <3>1. call[c].saw \notin Active /\ r \in Subs
      BY <2>3 DEF Active, IInv, StatusMirrorsSubscription
    <3>2. Rank(call[c]) = 4
      BY <1>7, <3>1 DEF Rank, Stage
    <3>3. StageOf(r) = 3
      BY <3>1 DEF StageOf
    <3>4. 3 < Stage(call[d].pc) /\ (call[d].pc = "insertSub" => r = call[d].saw)
      BY <2>1, <2>3, <3>1, <3>3 DEF LockInv, InOrder
    <3>5. CASE call[d].pc = "insertSub"
      BY <2>3, <3>2, <3>4, <3>5 DEF Rank
    <3>6. CASE call[d].pc # "insertSub"
      BY <3>2, <3>4, <3>6, Ranks
    <3>. QED BY <3>5, <3>6
  <2>. QED BY <2>1, <2>2, <2>3 DEF RivalSubs
<1>8. CASE call[c].pc = "studentKey"
  <2>1. Holds("studentKey")
    BY <1>1, <1>8 DEF Blockers
  <2>2. StageOf("studentKey") = 6 /\ Stage(call[c].pc) = 6
    BY <1>8 DEF StageOf, Stage
  <2>. QED BY <1>8, <2>1, <2>2, RowRank
<1>9. CASE call[c].pc = "sync"
  <2>1. Holds("student")
    BY <1>1, <1>9 DEF Blockers
  <2>2. StageOf("student") = 7 /\ Stage(call[c].pc) = 7
    BY <1>9 DEF StageOf, Stage
  <2>. QED BY <1>9, <2>1, <2>2, RowRank
<1>10. CASE call[c].pc = "lockStudent"
  <2>1. Holds("student") \/ Holds("studentKey")
    BY <1>1, <1>10 DEF Blockers
  <2>2. StageOf("studentKey") = 6 /\ StageOf("student") = 7 /\ Stage(call[c].pc) = 6
    BY <1>10 DEF StageOf, Stage
  <2>. QED BY <1>10, <2>1, <2>2, RowRank
<1>. QED BY <1>2, <1>3, <1>4, <1>5, <1>6, <1>7, <1>8, <1>9, <1>10 DEF Blockers

LEMMA Foremost ==
  ASSUME NEW W, W # {}, NEW f, \A x \in W : f[x] \in 0 .. 8
  PROVE  \E c \in W : \A d \in W : f[d] <= f[c]
<1>. SUFFICES ASSUME \A c \in W : \E d \in W : f[d] > f[c] PROVE FALSE
  OBVIOUS
<1>. QED OBVIOUS

(* Billing's calls never wait for one another in a circle.                 *)
THEOREM DeadlockFree == Spec => []NoLockCycle
<1>1. Init => LockInv
  BY DEF Init, LockInv, InOrder, NoCall
<1>2. IInv /\ LockInv /\ [Next]_vars => LockInv'
  BY OrderNext
<1>3. IInv /\ LockInv => NoLockCycle
  <2>. SUFFICES ASSUME IInv, LockInv, NEW W \in (SUBSET Calls) \ {{}}
                PROVE  \E c \in W : Blockers(c) \cap W = {}
    BY DEF NoLockCycle
  <2>0. W # {} /\ W \subseteq Calls
    OBVIOUS
  <2>. DEFINE f == [c \in Calls |-> Rank(call[c])]
  <2>1. \A c \in W : f[c] \in 0 .. 8
    BY <2>0, Ranks
  <2>2. PICK c \in W : \A d \in W : f[d] <= f[c]
    <3>. HIDE DEF f
    <3>. QED BY <2>0, <2>1, Foremost
  <2>3. ASSUME NEW d \in Blockers(c), d \in W PROVE FALSE
    <3>1. f[c] < f[d]
      BY <2>0, <2>3, Waiting
    <3>. HIDE DEF f
    <3>. QED BY <2>1, <2>2, <2>3, <3>1
  <2>. QED BY <2>3
<1>. QED BY <1>1, <1>2, <1>3, Invariance, PTL DEF Spec
=============================================================================
