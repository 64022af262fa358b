------------------------- MODULE MCLicenseLifecycle -------------------------
(* Small instances of LicenseLifecycle for TLC. *)
EXTENDS LicenseLifecycle, TLC

CONSTANTS a1, a2, r1, r2, j1

(* Requests through either middleware, through one each, and as app.ts has *)
(* them.                                                                   *)
EitherWay == [r \in Requests |-> {"direct", "enforcement"}]
OneEach == [r \in Requests |-> IF r = r1 THEN {"direct"} ELSE {"enforcement"}]
AsMounted == [r \in Requests |-> {"enforcement"}]

(* The two administrators do the same: sound where no liveness is checked. *)
Colleagues == Permutations({a1, a2})
=============================================================================
