--------------------------- MODULE MCGradingQueue ---------------------------
(* Small instances of GradingQueue for TLC. *)
EXTENDS GradingQueue

CONSTANTS a1, a2, w1, c1, c2

(* Two jobs for one attempt, as two accepted submissions leave behind. *)
TwinAttempts == {a1}
TwinAttemptOf == <<a1, a1>>
TwinWorkspaceOf == [a \in TwinAttempts |-> w1]

(* One job for each of two attempts. *)
PairAttempts == {a1, a2}
PairAttemptOf == <<a1, a2>>
PairWorkspaceOf == [a \in PairAttempts |-> w1]

(* tenantPoolMap filled by workspace id, as the consumer reads it. *)
KeyedById == [w \in Workspaces |-> w]
=============================================================================
