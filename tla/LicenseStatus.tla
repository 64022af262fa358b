---------------------------- MODULE LicenseStatus ----------------------------
(***************************************************************************)
(* What LicenseStateMachine (license/state-machine.ts) promises of one     *)
(* licence's status.  The services keep a table of their own, or none, and *)
(* never call the class: LicenseLifecycle shows that they obey it anyway.  *)
(***************************************************************************)
VARIABLE status   (* "NONE" until the row exists                           *)

LicenseStatuses == {"ACTIVE", "SOFT_LOCKED", "ARCHIVED", "DELETED"}

Init == status = "NONE"

Create ==
  /\ status = "NONE"
  /\ status' = "ACTIVE"


IsValidTransition(from, to) ==
  \/ from = "ACTIVE" /\ to \in {"SOFT_LOCKED", "ARCHIVED"}
  \/ from = "SOFT_LOCKED" /\ to \in {"ACTIVE", "ARCHIVED"}
  \/ from = "ARCHIVED" /\ to \in {"ACTIVE", "DELETED"}

Transition ==
  \E to \in LicenseStatuses :
    /\ IsValidTransition(status, to)
    /\ status' = to

Next == Create \/ Transition

Spec == Init /\ [][Next]_status
=============================================================================
