--------------------------- MODULE MCSubmitAttempt ---------------------------
(* Small instances of SubmitAttempt for TLC. *)
EXTENDS SubmitAttempt

CONSTANTS r1, r2, r3, a1, a2, k1, k2

(* A request, its retry under the same key, and a second submission of the *)
(* same attempt from another tab.                                          *)
RetryAndTabAttempt == [r \in Requests |-> a1]
RetryAndTabKey == [r \in Requests |-> IF r = r3 THEN k2 ELSE k1]
=============================================================================
