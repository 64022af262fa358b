---------------------------- MODULE BillingLedger ----------------------------
(***************************************************************************)
(* What billing promises about one student: an invoice is issued once and  *)
(* ends paid or cancelled; a payment, or staff, gives the student the one  *)
(* current subscription in place of the last; and students.                *)
(* subscription_status says whether there is one, until staff overwrite it.*)
(* Every step is indivisible here.  Billing implements it with             *)
(* transactions whose statements interleave.                               *)
(***************************************************************************)
CONSTANTS Invoices, None

VARIABLES
  invoiceStatus,   \* of each invoice
  current,         \* what the current subscription was given for, or None
  student          \* students.subscription_status

Init ==
  /\ invoiceStatus = [i \in Invoices |-> "none"]
  /\ current = None
  /\ student = "NONE"

Issue(i) ==
  /\ invoiceStatus[i] = "none"
  /\ invoiceStatus' = [invoiceStatus EXCEPT ![i] = "PENDING"]
  /\ UNCHANGED <<current, student>>

Pay(i) ==
  /\ invoiceStatus[i] = "PENDING"
  /\ invoiceStatus' = [invoiceStatus EXCEPT ![i] = "PAID"]
  /\ current' = i
  /\ student' = "ACTIVE"

CancelInvoice(i) ==
  /\ invoiceStatus[i] = "PENDING"
  /\ invoiceStatus' = [invoiceStatus EXCEPT ![i] = "CANCELLED"]
  /\ UNCHANGED <<current, student>>

\* Staff give a subscription without an invoice.
Grant ==
  /\ current' = "staff"
  /\ student' = "ACTIVE"
  /\ UNCHANGED invoiceStatus

Revoke ==
  /\ current # None
  /\ current' = None
  /\ student' = "NONE"
  /\ UNCHANGED invoiceStatus

Overwrite ==
  /\ student' \in {"ACTIVE", "SUSPENDED", "EXPIRED", "NONE"}
  /\ UNCHANGED <<invoiceStatus, current>>

Next ==
  \/ \E i \in Invoices : Issue(i) \/ Pay(i) \/ CancelInvoice(i)
  \/ Grant \/ Revoke \/ Overwrite

Spec == Init /\ [][Next]_<<invoiceStatus, current, student>>
=============================================================================
