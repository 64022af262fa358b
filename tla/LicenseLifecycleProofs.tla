----------------------- MODULE LicenseLifecycleProofs -----------------------
(***************************************************************************)
(* Proofs about LicenseLifecycle, for any number of callers, requests and  *)
(* snapshot jobs, any periods and any bounds.                              *)
(*                                                                         *)
(* LockedRowIsCurrent is the heart of it: with TypeOK it is inductive, and *)
(* the status moves and the audit rows follow.  How old what a request     *)
(* goes by may be needs more: what a row in its hand, a step it has passed *)
(* and an entry in Redis still say about the licence (AccessInv).  From    *)
(* that follows that step 2 of license-enforcement.ts archives nothing.    *)
(***************************************************************************)
EXTENDS LicenseLifecycle, FiniteSetTheorems, TLAPS

USE LicenseAssumption

(* How old what a request's lookups go by may be: the row that let it pass *)
(* step 1, and the row in its hand.                                        *)
Behind(q) ==
  /\ q.step \in 1..3
  /\ q.since <= now /\ now <= q.since + Latency
  /\ q.step # 1 => license.status = "ACTIVE" \/ q.since <= left + CacheTTL + Latency
  /\ q.pc = "read" /\ q.row.status = "ACTIVE"
       => license.status = "ACTIVE" \/ q.since <= left
  /\ q.pc = "read" /\ q.row.status = "SOFT_LOCKED" /\ q.step = 2
       => q.since + Grace <= q.row.soft_lock_until + CacheTTL + Latency

(* What makes AdmittedRecently and ArchiveUnreached inductive. *)
AccessInv ==
  /\ left <= now
  /\ cache.expires <= now + CacheTTL
  /\ cache.status = "ACTIVE"
       => license.status = "ACTIVE" \/ cache.expires <= left + CacheTTL + Latency
  /\ license.status = "SOFT_LOCKED" => license.soft_lock_until = left + Grace
  /\ \A r \in Requests : req[r].pc \in {"lookup", "read"} => Behind(req[r])

(* A request has a transaction only while it archives. *)
TxFits == \A r \in Requests : req[r].pc # "archiving" => tx[r] = "idle"

RowExists == RowLocked => license.status # "NONE"

TxInv == TypeOK /\ LockedRowIsCurrent /\ RowExists

-----------------------------------------------------------------------------
(* The transactions. *)

LEMMA StatusNames == LS!LicenseStatuses = {"ACTIVE", "SOFT_LOCKED", "ARCHIVED", "DELETED"}
BY DEF LS!LicenseStatuses

(* A call that gives up, or writes only an audit row, leaves the licence. *)
LEMMA ReleaseStep ==
  ASSUME TxInv, NEW a \in Callers, tx' = [tx EXCEPT ![a] = "idle"],
         seen' = [seen EXCEPT ![a] = NoLicense], free' = free + 1,
         audit' \in Audit, UNCHANGED <<world, license, created, left>>
  PROVE  TxInv'
<1>1. TypeOK'
  BY StatusNames DEF TxInv, TypeOK, world, NoLicense, License
<1>2. LockedRowIsCurrent'
  BY DEF TxInv, TypeOK, LockedRowIsCurrent
<1>. QED BY <1>1, <1>2 DEF TxInv, TypeOK, RowExists, RowLocked

(* A call past its lock commits an UPDATE: it was the only one there, and  *)
(* nobody else holds the old row for current.                              *)
LEMMA CommitStep ==
  ASSUME TxInv, NEW a \in Callers, tx[a] = "locked", NEW row \in License,
         NEW log \in Audit, Commit(a, row, log)
  PROVE  TxInv'
<1>1. TypeOK'
  BY StatusNames DEF TxInv, TypeOK, Commit, Write, Leaves, Outdated, world, NoLicense, License
<1>2. \A b \in Callers : tx'[b] # "locked"
  BY DEF TxInv, TypeOK, LockedRowIsCurrent, Commit, Outdated
<1>. QED BY <1>1, <1>2 DEF TxInv, LockedRowIsCurrent, RowExists, RowLocked

(* The row a caller holds is a licence, and so is every row it writes. *)
LEMMA TransitionStep ==
  ASSUME TxInv, NEW a \in Callers, TransitionLicenseState(a)
  PROVE  TxInv'
<1>. DEFINE Until == now + Grace
<1>1. seen[a] \in License /\ Until \in Nat /\ audit \in Audit
  BY DEF TxInv, TypeOK
<1>. HIDE DEF Until
<1>2. PICK target \in ValidTransitions(seen[a].status) :
        Commit(a, [seen[a] EXCEPT
                     !.status = target,
                     !.soft_lock_until = IF target = "SOFT_LOCKED" THEN Until ELSE @], audit)
  BY DEF TransitionLicenseState, Until
<1>3. target \in LS!LicenseStatuses
  BY StatusNames DEF ValidTransitions
<1>4. [seen[a] EXCEPT
         !.status = target,
         !.soft_lock_until = IF target = "SOFT_LOCKED" THEN Until ELSE @] \in License
  BY <1>1, <1>3 DEF License
<1>. QED BY <1>1, <1>2, <1>4, CommitStep DEF TransitionLicenseState

LEMMA RollbackStep ==
  ASSUME TxInv, NEW a \in Callers, Rollback(a)
  PROVE  TxInv'
<1>1. audit \in Audit
  BY DEF TxInv, TypeOK
<1>. QED BY <1>1, ReleaseStep DEF Rollback

LEMMA FinishStep ==
  ASSUME TxInv, NEW a \in Actors, Finish(a)
  PROVE  TxInv'
<1>. DEFINE Until == now + Grace
<1>0. seen[a] \in License /\ Until \in Nat /\ audit \in Audit /\ a \in Callers
  BY DEF TxInv, TypeOK, Callers
<1>. HIDE DEF Until
<1>1. CASE TransitionLicenseState(a)
  BY <1>0, <1>1, TransitionStep
<1>2. CASE TransitionToSoftLock(a)
  <2>1. [seen[a] EXCEPT !.status = "SOFT_LOCKED", !.soft_lock_until = Until] \in License
    BY <1>0, StatusNames DEF License
  <2>. QED BY <1>0, <1>2, <2>1, CommitStep, StatusNames
           DEF TransitionToSoftLock, Holds, Logged, Audit, Until
<1>3. CASE TransitionToActive(a)
  <2>1. [seen[a] EXCEPT !.status = "ACTIVE", !.soft_lock_until = 0] \in License
    BY <1>0, StatusNames DEF License
  <2>. QED BY <1>0, <1>3, <2>1, CommitStep, StatusNames
           DEF TransitionToActive, Holds, Logged, Audit
<1>4. CASE TransitionToArchived(a)
  <2>1. [seen[a] EXCEPT !.status = "ARCHIVED", !.soft_lock_until = 0,
                        !.current_snapshot_id = TRUE] \in License
    BY <1>0, StatusNames DEF License
  <2>. QED BY <1>0, <1>4, <2>1, CommitStep, StatusNames
           DEF TransitionToArchived, Holds, Logged, Audit
<1>5. CASE RestoreFromArchive(a) \/ TransitionToDeleted(a)
  BY <1>0, <1>5, ReleaseStep, StatusNames
  DEF RestoreFromArchive, TransitionToDeleted, CommitLog, Logged, Audit
<1>6. CASE DeleteLicense(a)
  <2>1. [seen[a] EXCEPT !.status = "DELETED"] \in License
    BY <1>0, StatusNames DEF License
  <2>. QED BY <1>0, <1>6, <2>1, CommitStep DEF DeleteLicense, Holds
<1>7. CASE Rollback(a)
  BY <1>0, <1>7, RollbackStep
<1>. QED BY <1>1, <1>2, <1>3, <1>4, <1>5, <1>6, <1>7 DEF Finish, BackOfficeCall, LifecycleCall

-----------------------------------------------------------------------------
(* The other steps. *)

LEMMA PlacesOf ==
  /\ \A pc \in {"idle", "expired", "lookup", "read", "overdue", "archiving", "admitted"} :
       At(pc) \in Places /\ At(pc).pc = pc
  /\ \A k \in 1..3, t \in Nat :
       /\ Looking(k, t) \in Places
       /\ Looking(k, t).pc = "lookup" /\ Looking(k, t).step = k /\ Looking(k, t).since = t
<1>1. Columns(NoLicense) \in Row
  BY StatusNames DEF Row, Columns, NoLicense
<1>2. \A pc \in {"idle", "expired", "lookup", "read", "overdue", "archiving", "admitted"} :
        At(pc) \in Places /\ At(pc).pc = pc
  BY <1>1 DEF At, Places
<1>3. ASSUME NEW k \in 1..3, NEW t \in Nat
      PROVE  /\ Looking(k, t) \in Places
             /\ Looking(k, t).pc = "lookup" /\ Looking(k, t).step = k /\ Looking(k, t).since = t
  <2>. DEFINE p == At("lookup")
  <2>1. p \in Places /\ p.pc = "lookup"
    BY <1>2
  <2>. HIDE DEF p
  <2>2. k \in 0..3 /\ t \in Nat
    BY <1>3
  <2>3. [p EXCEPT !.step = k, !.since = t] \in Places
    BY <2>1, <2>2 DEF Places
  <2>4. /\ [p EXCEPT !.step = k, !.since = t].pc = "lookup"
        /\ [p EXCEPT !.step = k, !.since = t].step = k
        /\ [p EXCEPT !.step = k, !.since = t].since = t
    BY <2>1 DEF Places
  <2>. QED BY <2>3, <2>4 DEF Looking, p
<1>. QED BY <1>2, <1>3

(* What a middleware's decision leaves a request with. *)
LEMMA DecideStep ==
  ASSUME TxInv, NEW r \in Requests, NEW status, NEW expired, Decide(r, status, expired)
  PROVE  /\ req' \in [Requests -> Places]
         /\ \A q \in Requests \ {r} : req'[q] = req[q]
         /\ req'[r].pc \in {"idle", "lookup", "overdue", "admitted"}
         /\ req'[r].pc = "lookup" =>
              /\ req'[r].since = req[r].since
              /\ \/ req'[r].step = 2 /\ req[r].step = 1 /\ status = "ACTIVE"
                 \/ req'[r].step = 3 /\ req[r].step = 2
         /\ req'[r].pc = "overdue" => req[r].step = 2 /\ status = "SOFT_LOCKED" /\ expired
         /\ req'[r].pc = "admitted" => req[r].step = 3
<1>. DEFINE since == req[r].since
            step == req[r].step
            P(at) == /\ req' = [req EXCEPT ![r] = at]
                     /\ at \in Places
                     /\ at.pc \in {"idle", "lookup", "overdue", "admitted"}
                     /\ at.pc = "lookup" =>
                          /\ at.since = since
                          /\ \/ at.step = 2 /\ step = 1 /\ status = "ACTIVE"
                             \/ at.step = 3 /\ step = 2
                     /\ at.pc = "overdue" => step = 2 /\ status = "SOFT_LOCKED" /\ expired
                     /\ at.pc = "admitted" => step = 3
<1>1. req \in [Requests -> Places] /\ since \in Nat
  BY DEF TxInv, TypeOK, Places
<1>2. \E at : P(at)
  <2>1. CASE step = 1 /\ status = "ACTIVE"
    <3>1. req' = [req EXCEPT ![r] = Looking(2, since)]
      BY <2>1 DEF Decide, ValidLicenseStatus, Position
    <3>2. P(Looking(2, since))
      BY <1>1, <2>1, <3>1, PlacesOf
    <3>. QED BY <3>2
  <2>2. CASE step = 2 /\ status = "SOFT_LOCKED" /\ expired
    <3>1. req' = [req EXCEPT ![r] = At("overdue")]
      BY <2>2 DEF Decide, Position
    <3>2. P(At("overdue"))
      BY <2>2, <3>1, PlacesOf
    <3>. QED BY <3>2
  <2>3. CASE step = 2 /\ ~(status = "SOFT_LOCKED" /\ expired)
    <3>1. req' = [req EXCEPT ![r] = Looking(3, since)]
      BY <2>3 DEF Decide, Position
    <3>2. P(Looking(3, since))
      BY <1>1, <2>3, <3>1, PlacesOf
    <3>. QED BY <3>2
  <2>4. CASE req' = [req EXCEPT ![r] = AtRest]
    <3>1. P(At("idle"))
      BY <2>4, PlacesOf DEF AtRest
    <3>. QED BY <3>1
  <2>5. CASE step = 3 /\ req' = [req EXCEPT ![r] = At("admitted")]
    <3>1. P(At("admitted"))
      BY <2>5, PlacesOf
    <3>. QED BY <3>1
  <2>. QED BY <2>1, <2>2, <2>3, <2>4, <2>5 DEF Decide, ValidLicenseStatus, Position
<1>3. PICK at : P(at)
  BY <1>2
<1>4. req' \in [Requests -> Places] /\ \A q \in Requests : req'[q] = IF q = r THEN at ELSE req[q]
  BY <1>1, <1>3
<1>. QED BY <1>3, <1>4

LEMMA OpenStep ==
  ASSUME TxInv, NEW a \in Callers, CreateLicense(a) \/ Connect(a) \/ LockRow(a)
  PROVE  TxInv'
<1>1. TypeOK'
  <2>1. [NoLicense EXCEPT !.status = "ACTIVE"] \in License
    BY StatusNames DEF NoLicense, License
  <2>2. CASE CreateLicense(a)
    BY <2>1, <2>2 DEF CreateLicense, Write, Leaves, TxInv, TypeOK, world
  <2>3. CASE Connect(a) \/ LockRow(a)
    BY <2>3 DEF Connect, LockRow, TxInv, TypeOK, world
  <2>. QED BY <2>2, <2>3
<1>2. LockedRowIsCurrent'
  <2>1. CASE CreateLicense(a)
    <3>1. RowLocked => UNCHANGED license
      BY <2>1 DEF CreateLicense, TxInv, RowExists
    <3>. QED BY <2>1, <3>1 DEF CreateLicense, TxInv, TypeOK, LockedRowIsCurrent, RowLocked
  <2>2. CASE Connect(a) \/ LockRow(a)
    BY <2>2 DEF Connect, LockRow, RowLocked, TxInv, TypeOK, LockedRowIsCurrent
  <2>. QED BY <2>1, <2>2
<1>3. RowExists'
  BY StatusNames DEF CreateLicense, Connect, LockRow, Write, NoLicense, TxInv, TypeOK, RowExists, RowLocked
<1>. QED BY <1>1, <1>2, <1>3 DEF TxInv

(* A write by someone who is no caller waits until no caller is past its   *)
(* lock, and leaves none there.                                            *)
LEMMA OutsideWrite ==
  ASSUME TxInv, ~RowLocked, tx' = Outdated(tx), UNCHANGED seen, license' \in License,
         license.status # "NONE" => license'.status # "NONE"
  PROVE  /\ tx' \in [Callers -> {"idle", "waiting", "stale", "locked"}]
         /\ LockedRowIsCurrent' /\ RowExists'
BY DEF TxInv, TypeOK, RowLocked, Outdated, LockedRowIsCurrent, RowExists

LEMMA JobStep ==
  ASSUME TxInv, NEW j \in Jobs, SnapshotJob(j)
  PROVE  TxInv'
<1>1. CASE StartSnapshot(j) \/ Dump(j) \/ FailSnapshot(j)
  <2>1. TypeOK'
    BY <1>1 DEF StartSnapshot, Dump, FailSnapshot, TxInv, TypeOK
  <2>. QED BY <1>1, <2>1 DEF StartSnapshot, Dump, FailSnapshot, TxInv, LockedRowIsCurrent,
                             RowExists, RowLocked
<1>2. CASE RecordSnapshot(j)
  <2>1. license' \in License /\ license'.status = license.status
    <3>1. job[j].version \in Nat /\ license \in License
      BY DEF TxInv, TypeOK
    <3>2. license' = [license EXCEPT !.snapshot_id = job[j].version]
      BY <1>2 DEF RecordSnapshot
    <3>. QED BY <3>1, <3>2 DEF License
  <2>2. /\ tx' \in [Callers -> {"idle", "waiting", "stale", "locked"}]
        /\ LockedRowIsCurrent' /\ RowExists'
    BY <1>2, <2>1, OutsideWrite DEF RecordSnapshot
  <2>3. TypeOK'
    BY <1>2, <2>1, <2>2 DEF RecordSnapshot, TxInv, TypeOK
  <2>. QED BY <2>2, <2>3 DEF TxInv
<1>. QED BY <1>1, <1>2 DEF SnapshotJob

(* A step that moves a request and perhaps fills the cache. *)
LEMMA MoveStep ==
  ASSUME TxInv, UNCHANGED <<now, license, audit, tx, seen, free, created, job, dumped, left>>,
         data' \in 1..MaxData, req' \in [Requests -> Places],
         cache' \in [status : LS!LicenseStatuses \cup {"NONE"}, expires : Nat]
  PROVE  TxInv'
<1>1. TypeOK'
  BY DEF TxInv, TypeOK
<1>. QED BY <1>1 DEF TxInv, LockedRowIsCurrent, RowExists, RowLocked

LEMMA RequestStep ==
  ASSUME TxInv, NEW r \in Requests, Request(r)
  PROVE  TxInv'
<1>1. /\ req \in [Requests -> Places] /\ now \in Nat /\ r \in Callers
      /\ data \in 1..MaxData /\ cache \in [status : LS!LicenseStatuses \cup {"NONE"}, expires : Nat]
  BY DEF TxInv, TypeOK, Callers
<1>2. CASE ReadLicense(r) \/ Enforce(r) \/ Refuse(r) \/ FailRequest(r) \/ FailUpdate(r) \/ Serve(r)
  <2>1. \E at \in Places : req' = [req EXCEPT ![r] = at]
    <3>1. {At("admitted"), At("expired"), At("idle"), Looking(1, now)} \subseteq Places
      BY <1>1, PlacesOf
    <3>. QED BY <1>2, <3>1 DEF ReadLicense, Enforce, Refuse, FailRequest, FailUpdate, Serve, Position, AtRest
  <2>2. req' \in [Requests -> Places]
    BY <1>1, <2>1
  <2>3. data' \in 1..MaxData
    BY <1>1, <1>2 DEF ReadLicense, Enforce, Refuse, FailRequest, FailUpdate, Serve
  <2>. QED BY <1>1, <1>2, <2>2, <2>3, MoveStep DEF ReadLicense, Enforce, Refuse, FailRequest, FailUpdate, Serve
<1>3. CASE Lookup(r)
  <2>1. CASE CacheHit
    BY <1>1, <1>3, <2>1, DecideStep, MoveStep DEF Lookup
  <2>2. CASE ~CacheHit
    <3>1. Columns(license) \in Row
      BY DEF TxInv, TypeOK, License, Row, Columns
    <3>2. [req[r] EXCEPT !.pc = "read", !.row = Columns(license)] \in Places
      BY <1>1, <3>1 DEF Places
    <3>3. req' = [req EXCEPT ![r] = [req[r] EXCEPT !.pc = "read", !.row = Columns(license)]]
      BY <1>3, <2>2 DEF Lookup, Position
    <3>4. req' \in [Requests -> Places]
      BY <1>1, <3>2, <3>3
    <3>. QED BY <1>1, <1>3, <3>4, MoveStep DEF Lookup
  <2>. QED BY <2>1, <2>2
<1>4. CASE CacheRow(r)
  <2>1. cache' \in [status : LS!LicenseStatuses \cup {"NONE"}, expires : Nat]
    BY <1>1, <1>4 DEF CacheRow, Places, Row
  <2>. QED BY <1>1, <1>4, <2>1, DecideStep, MoveStep DEF CacheRow
<1>5. CASE AutoArchive(r)
  <2>1. /\ license' \in License
        /\ license.status # "NONE" => license'.status # "NONE"
        /\ left' \in Nat
    <3>1. license \in License /\ left \in Nat
      BY DEF TxInv, TypeOK
    <3>2. [license EXCEPT !.status = "ARCHIVED"] \in License
      BY <3>1, StatusNames DEF License
    <3>3. [license EXCEPT !.status = "ARCHIVED"].status = "ARCHIVED"
      BY <3>1 DEF License
    <3>. QED BY <1>1, <1>5, <3>1, <3>2, <3>3 DEF AutoArchive, Write, Leaves
  <2>2. /\ tx' \in [Callers -> {"idle", "waiting", "stale", "locked"}]
        /\ LockedRowIsCurrent' /\ RowExists'
    <3>1. CASE tx' = Outdated(tx)
      BY <1>5, <2>1, <3>1, OutsideWrite DEF AutoArchive
    <3>2. CASE UNCHANGED <<tx, license>>
      BY <1>5, <3>2 DEF AutoArchive, TxInv, TypeOK, LockedRowIsCurrent, RowExists, RowLocked
    <3>. QED BY <1>5, <3>1, <3>2 DEF AutoArchive
  <2>3. req' \in [Requests -> Places]
    BY <1>1, <1>5, PlacesOf DEF AutoArchive, Position, AtRest
  <2>4. TypeOK'
    BY <1>5, <2>1, <2>2, <2>3 DEF AutoArchive, TxInv, TypeOK
  <2>. QED BY <2>2, <2>4 DEF TxInv
<1>6. CASE ArchiveOverdue(r)
  <2>1. req' \in [Requests -> Places]
    BY <1>1, <1>6, PlacesOf DEF ArchiveOverdue, Position
  <2>2. TypeOK'
    BY <1>1, <1>6, <2>1 DEF ArchiveOverdue, TxInv, TypeOK
  <2>3. LockedRowIsCurrent' /\ RowExists'
    BY <1>1, <1>6 DEF ArchiveOverdue, TxInv, TypeOK, LockedRowIsCurrent, RowExists, RowLocked
  <2>. QED BY <2>2, <2>3 DEF TxInv
<1>7. CASE LockRow(r) \/ Archiving(r)
  BY <1>1, <1>7, OpenStep, TransitionStep, RollbackStep DEF Archiving
<1>. QED BY <1>2, <1>3, <1>4, <1>5, <1>6, <1>7 DEF Request, Enforcement

(* The row lock keeps what the services promise of it. *)
LEMMA TxInvariance == Spec => []TxInv
<1>1. Init => TxInv
  <2>1. Init => TypeOK
    BY StatusNames, PlacesOf DEF Init, TypeOK, License, NoLicense, Audit, Logged, AtRest
  <2>. QED BY <2>1 DEF Init, TxInv, LockedRowIsCurrent, RowExists, RowLocked
<1>2. TxInv /\ [Next]_vars => TxInv'
  <2>. SUFFICES ASSUME TxInv, [Next]_vars PROVE TxInv'
    OBVIOUS
  <2>1. ASSUME NEW a \in Actors, Administrator(a) PROVE TxInv'
    BY <2>1, OpenStep, FinishStep DEF Administrator, Callers
  <2>2. CASE Tick
    <3>1. TypeOK'
      BY <2>2 DEF Tick, TxInv, TypeOK
    <3>. QED BY <2>2, <3>1 DEF Tick, TxInv, LockedRowIsCurrent, RowExists, RowLocked
  <2>3. CASE UNCHANGED vars
    <3>1. TypeOK'
      BY <2>3 DEF vars, world, TxInv, TypeOK
    <3>. QED BY <2>3, <3>1 DEF vars, world, TxInv, LockedRowIsCurrent, RowExists, RowLocked
  <2>. QED BY <2>1, <2>2, <2>3, JobStep, RequestStep DEF Next
<1>. QED BY <1>1, <1>2, PTL DEF Spec

(* Every variable stays in its type. *)
THEOREM TypeCorrect == Spec => []TypeOK
BY TxInvariance, PTL DEF TxInv

(* Whatever a service decides on under its lock is what it overwrites. *)
THEOREM RowLock == Spec => []LockedRowIsCurrent
BY TxInvariance, PTL DEF TxInv

-----------------------------------------------------------------------------
(* What the steps do to the status and the audit log. *)

(* What a request does but for archiving. *)
Quiet(r) ==
  \/ ReadLicense(r) \/ FailUpdate(r) \/ Enforce(r) \/ Lookup(r) \/ CacheRow(r)
  \/ ArchiveOverdue(r) \/ Refuse(r) \/ FailRequest(r) \/ Serve(r)

(* Calls before their lock, snapshot jobs, and requests that do not        *)
(* archive leave the status; none of them writes an audit row.             *)
LEMMA QuietStep ==
  ASSUME TxInv, NEW j, NEW r, NEW a,
         \/ Connect(a) \/ LockRow(a) \/ Rollback(a)
         \/ SnapshotJob(j) \/ Quiet(r) \/ Tick \/ UNCHANGED vars
  PROVE  license'.status = license.status /\ audit' = audit
<1>1. CASE SnapshotJob(j)
  BY <1>1 DEF SnapshotJob, StartSnapshot, Dump, RecordSnapshot, FailSnapshot, TxInv, TypeOK, License
<1>2. CASE Connect(a) \/ LockRow(a) \/ Rollback(a) \/ Quiet(r) \/ Tick \/ UNCHANGED vars
  BY <1>2 DEF Connect, LockRow, Rollback, Tick, vars, world, Quiet, ReadLicense, FailUpdate, Enforce,
              Lookup, CacheRow, ArchiveOverdue, Refuse, FailRequest, Serve
<1>. QED BY <1>1, <1>2

(* transitionLicenseState moves the status as its table says. *)
LEMMA TransitionMoves ==
  ASSUME TxInv, NEW a \in Callers, TransitionLicenseState(a)
  PROVE  /\ LS!IsValidTransition(license.status, license'.status)
         /\ license'.status \in LS!LicenseStatuses
         /\ audit' = audit
<1>1. seen[a] = license /\ license \in License
  BY DEF TxInv, TypeOK, LockedRowIsCurrent, TransitionLicenseState
<1>2. PICK target \in ValidTransitions(license.status) :
        /\ license' = [license EXCEPT
                         !.status = target,
                         !.soft_lock_until = IF target = "SOFT_LOCKED" THEN now + Grace ELSE @]
        /\ audit' = audit
  BY <1>1 DEF TransitionLicenseState, Commit, Write
<1>3. license'.status = target
  BY <1>1, <1>2 DEF License
<1>. QED BY <1>2, <1>3, StatusNames DEF ValidTransitions, LS!IsValidTransition

(* A service's commit moves the status as its table or its guard says, and *)
(* its audit row tells so.                                                 *)
LEMMA FinishMoves ==
  ASSUME TxInv, NEW a \in Actors, Finish(a)
  PROVE  /\ license'.status # license.status
              => LS!IsValidTransition(license.status, license'.status)
         /\ license'.status # license.status => license'.status \in LS!LicenseStatuses
         /\ audit' # audit =>
              /\ audit'.previous = license.status
              /\ \/ audit'.new = license'.status
                 \/ audit'.new \in {"RESTORING", "DELETING"} /\ license' = license
<1>0. a \in Callers
  BY DEF Callers
<1>1. tx[a] = "locked" => seen[a] = license /\ license \in License
  BY <1>0 DEF TxInv, TypeOK, LockedRowIsCurrent
<1>2. CASE TransitionLicenseState(a)
  BY <1>0, <1>2, TransitionMoves
<1>3. CASE TransitionToSoftLock(a)
  <2>1. license' = [license EXCEPT !.status = "SOFT_LOCKED", !.soft_lock_until = now + Grace]
    BY <1>1, <1>3 DEF TransitionToSoftLock, Holds, Commit, Write
  <2>2. license.status = "ACTIVE" /\ license'.status = "SOFT_LOCKED"
    BY <1>1, <1>3, <2>1 DEF TransitionToSoftLock, Holds, License
  <2>. QED BY <1>3, <2>2, StatusNames
           DEF TransitionToSoftLock, Holds, Commit, Logged, LS!IsValidTransition
<1>4. CASE TransitionToActive(a)
  <2>1. license' = [license EXCEPT !.status = "ACTIVE", !.soft_lock_until = 0]
    BY <1>1, <1>4 DEF TransitionToActive, Holds, Commit, Write
  <2>2. license.status = "SOFT_LOCKED" /\ license'.status = "ACTIVE"
    BY <1>1, <1>4, <2>1 DEF TransitionToActive, Holds, License
  <2>. QED BY <1>4, <2>2, StatusNames
           DEF TransitionToActive, Holds, Commit, Logged, LS!IsValidTransition
<1>5. CASE TransitionToArchived(a)
  <2>1. license' = [license EXCEPT !.status = "ARCHIVED", !.soft_lock_until = 0,
                                   !.current_snapshot_id = TRUE]
    BY <1>1, <1>5 DEF TransitionToArchived, Holds, Commit, Write
  <2>2. license.status = "SOFT_LOCKED" /\ license'.status = "ARCHIVED"
    BY <1>1, <1>5, <2>1 DEF TransitionToArchived, Holds, License
  <2>. QED BY <1>5, <2>2, StatusNames
           DEF TransitionToArchived, Holds, Commit, Logged, LS!IsValidTransition
<1>6. CASE RestoreFromArchive(a) \/ TransitionToDeleted(a)
  BY <1>1, <1>6 DEF RestoreFromArchive, TransitionToDeleted, Holds, CommitLog, Logged
<1>7. CASE DeleteLicense(a)
  <2>1. license' = [license EXCEPT !.status = "DELETED"]
    BY <1>1, <1>7 DEF DeleteLicense, Holds, Commit, Write
  <2>2. license.status = "ARCHIVED" /\ license'.status = "DELETED"
    BY <1>1, <1>7, <2>1 DEF DeleteLicense, Holds, License
  <2>. QED BY <1>7, <2>2, StatusNames DEF DeleteLicense, Commit, LS!IsValidTransition
<1>8. CASE Rollback(a)
  BY <1>8 DEF Rollback
<1>. QED BY <1>2, <1>3, <1>4, <1>5, <1>6, <1>7, <1>8 DEF Finish, BackOfficeCall, LifecycleCall

(* createLicense takes a licence that is not there yet to ACTIVE.          *)
LEMMA CreateMoves ==
  ASSUME TxInv, NEW a, CreateLicense(a)
  PROVE  /\ license'.status # license.status => license.status = "NONE" /\ license'.status = "ACTIVE"
         /\ audit' = audit
<1>1. [NoLicense EXCEPT !.status = "ACTIVE"].status = "ACTIVE"
  BY DEF NoLicense
<1>. QED BY <1>1 DEF CreateLicense, Write

(* The direct middleware archives a licence whose soft lock has run out.   *)
LEMMA ArchiveMoves ==
  ASSUME TxInv, NEW r, AutoArchive(r)
  PROVE  /\ audit' = audit
         /\ license'.status # license.status =>
              /\ license.status = "SOFT_LOCKED" /\ license'.status = "ARCHIVED"
              /\ Expired(license, now)
<1>1. [license EXCEPT !.status = "ARCHIVED"].status = "ARCHIVED"
  BY DEF TxInv, TypeOK, License
<1>. QED BY <1>1 DEF AutoArchive, Write

LEMMA Moves ==
  ASSUME TxInv, [Next]_vars
  PROVE  /\ [LS!Next]_(license.status)
         /\ audit' # audit =>
              /\ audit'.previous = license.status
              /\ \/ audit'.new = license'.status
                 \/ audit'.new \in {"RESTORING", "DELETING"} /\ license' = license
<1>1. ASSUME NEW a \in Actors, Finish(a)
      PROVE  /\ [LS!Next]_(license.status)
             /\ audit' # audit =>
                  /\ audit'.previous = license.status
                  /\ \/ audit'.new = license'.status
                     \/ audit'.new \in {"RESTORING", "DELETING"} /\ license' = license
  BY <1>1, FinishMoves DEF LS!Next, LS!Transition
<1>2. ASSUME NEW a \in Actors, CreateLicense(a)
      PROVE  [LS!Next]_(license.status) /\ audit' = audit
  BY <1>2, CreateMoves DEF LS!Next, LS!Create
<1>3. ASSUME NEW r \in Requests, AutoArchive(r)
      PROVE  [LS!Next]_(license.status) /\ audit' = audit
  BY <1>3, ArchiveMoves, StatusNames DEF LS!Next, LS!Transition, LS!IsValidTransition
<1>4. ASSUME NEW r \in Requests, TransitionLicenseState(r)
      PROVE  [LS!Next]_(license.status) /\ audit' = audit
  BY <1>4, TransitionMoves DEF LS!Next, LS!Transition, Callers
<1>5. CASE /\ license'.status = license.status
           /\ audit' = audit
  BY <1>5
<1>. QED BY <1>1, <1>2, <1>3, <1>4, <1>5, QuietStep
         DEF Next, Administrator, Request, Enforcement, Archiving, Quiet

(* The services, the snapshot job and the middlewares move the status only *)
(* along isValidTransition, and never out of DELETED.                      *)
THEOREM Refinement == Spec => ObeysStateMachine
<1>1. Init => LS!Init
  BY DEF Init, LS!Init, NoLicense
<1>. QED BY <1>1, Moves, TxInvariance, PTL DEF Spec, ObeysStateMachine, LS!Spec

(* No audit row tells of a move that did not happen, or from elsewhere. *)
THEOREM AuditTruth == Spec => AuditTellsTheTruth
BY Moves, TxInvariance, PTL DEF Spec, AuditTellsTheTruth

-----------------------------------------------------------------------------
(* How far behind a request may be. *)

(* What every write to the row does: it notes when the licence stops being *)
(* ACTIVE, and a soft lock's date is the one it was given then.            *)
Follows ==
  /\ Leaves(license')
  /\ license'.status = "SOFT_LOCKED" =>
       \/ license.status = "ACTIVE" /\ license'.soft_lock_until = now + Grace
       \/ license.status = "SOFT_LOCKED" /\ license'.soft_lock_until = license.soft_lock_until

LEMMA QuietFollows ==
  ASSUME UNCHANGED <<license, left>>
  PROVE  Follows
BY DEF Follows, Leaves

LEMMA TransitionFollows ==
  ASSUME TxInv, NEW a \in Callers, TransitionLicenseState(a)
  PROVE  Follows
<1>. DEFINE Until == now + Grace
<1>1. seen[a] = license /\ license \in License
  BY DEF TxInv, TypeOK, LockedRowIsCurrent, TransitionLicenseState
<1>. HIDE DEF Until
<1>2. PICK target \in ValidTransitions(license.status) :
        /\ license' = [license EXCEPT
                         !.status = target,
                         !.soft_lock_until = IF target = "SOFT_LOCKED" THEN Until ELSE @]
        /\ Leaves(license')
  BY <1>1 DEF TransitionLicenseState, Commit, Write, Leaves, Until
<1>3. license'.status = target /\ (target = "SOFT_LOCKED" => license'.soft_lock_until = Until)
  BY <1>1, <1>2 DEF License
<1>4. target = "SOFT_LOCKED" => license.status = "ACTIVE"
  BY <1>2 DEF ValidTransitions
<1>. QED BY <1>2, <1>3, <1>4 DEF Follows, Until

LEMMA FinishFollows ==
  ASSUME TxInv, NEW a \in Actors, Finish(a)
  PROVE  Follows
<1>. DEFINE Until == now + Grace
<1>1. /\ a \in Callers
      /\ tx[a] = "locked" => seen[a] = license /\ license \in License
  BY DEF TxInv, TypeOK, LockedRowIsCurrent, Callers
<1>. HIDE DEF Until
<1>2. CASE TransitionLicenseState(a)
  BY <1>1, <1>2, TransitionFollows
<1>3. CASE TransitionToSoftLock(a)
  <2>1. /\ license' = [license EXCEPT !.status = "SOFT_LOCKED", !.soft_lock_until = Until]
        /\ Leaves(license') /\ license.status = "ACTIVE"
    BY <1>1, <1>3 DEF TransitionToSoftLock, Holds, Commit, Write, Leaves, Until
  <2>2. license'.soft_lock_until = Until
    BY <1>1, <1>3, <2>1 DEF TransitionToSoftLock, Holds, License
  <2>. QED BY <2>1, <2>2 DEF Follows, Until
<1>4. CASE TransitionToActive(a)
  <2>1. license' = [license EXCEPT !.status = "ACTIVE", !.soft_lock_until = 0] /\ Leaves(license')
    BY <1>1, <1>4 DEF TransitionToActive, Holds, Commit, Write, Leaves
  <2>2. license'.status # "SOFT_LOCKED"
    BY <1>1, <1>4, <2>1 DEF TransitionToActive, Holds, License
  <2>. QED BY <2>1, <2>2 DEF Follows
<1>5. CASE TransitionToArchived(a)
  <2>1. /\ license' = [license EXCEPT !.status = "ARCHIVED", !.soft_lock_until = 0,
                                      !.current_snapshot_id = TRUE]
        /\ Leaves(license')
    BY <1>1, <1>5 DEF TransitionToArchived, Holds, Commit, Write, Leaves
  <2>2. license'.status # "SOFT_LOCKED"
    BY <1>1, <1>5, <2>1 DEF TransitionToArchived, Holds, License
  <2>. QED BY <2>1, <2>2 DEF Follows
<1>6. CASE DeleteLicense(a)
  <2>1. license' = [license EXCEPT !.status = "DELETED"] /\ Leaves(license')
    BY <1>1, <1>6 DEF DeleteLicense, Holds, Commit, Write, Leaves
  <2>2. license'.status # "SOFT_LOCKED"
    BY <1>1, <1>6, <2>1 DEF DeleteLicense, Holds, License
  <2>. QED BY <2>1, <2>2 DEF Follows
<1>7. CASE RestoreFromArchive(a) \/ TransitionToDeleted(a) \/ Rollback(a)
  BY <1>7, QuietFollows DEF RestoreFromArchive, TransitionToDeleted, CommitLog, Rollback
<1>. QED BY <1>2, <1>3, <1>4, <1>5, <1>6, <1>7 DEF Finish, BackOfficeCall, LifecycleCall

LEMMA AdministratorFollows ==
  ASSUME TxInv, NEW a \in Actors, Administrator(a)
  PROVE  Follows /\ UNCHANGED <<now, cache, req>>
<1>1. CASE CreateLicense(a)
  <2>1. [NoLicense EXCEPT !.status = "ACTIVE"].status = "ACTIVE"
    BY DEF NoLicense
  <2>. QED BY <1>1, <2>1, QuietFollows DEF CreateLicense, Write, Leaves, Follows, world
<1>2. CASE Connect(a) \/ LockRow(a)
  BY <1>2, QuietFollows DEF Connect, LockRow, world
<1>3. CASE Finish(a)
  <2>1. UNCHANGED <<now, cache, req>>
    BY <1>3 DEF Finish, BackOfficeCall, LifecycleCall, TransitionLicenseState, TransitionToSoftLock,
       TransitionToActive, TransitionToArchived, RestoreFromArchive, TransitionToDeleted,
       DeleteLicense, Rollback, Commit, CommitLog, world
  <2>. QED BY <1>3, <2>1, FinishFollows
<1>. QED BY <1>1, <1>2, <1>3 DEF Administrator

LEMMA JobFollows ==
  ASSUME TxInv, NEW j, SnapshotJob(j)
  PROVE  Follows /\ UNCHANGED <<now, cache, req>>
<1>1. CASE RecordSnapshot(j)
  <2>1. license' = [license EXCEPT !.snapshot_id = job[j].version] /\ license \in License
    BY <1>1 DEF RecordSnapshot, TxInv, TypeOK
  <2>2. license'.status = license.status /\ license'.soft_lock_until = license.soft_lock_until
    BY <2>1 DEF License
  <2>. QED BY <1>1, <2>2 DEF RecordSnapshot, Follows, Leaves
<1>2. CASE StartSnapshot(j) \/ Dump(j) \/ FailSnapshot(j)
  BY <1>2, QuietFollows DEF StartSnapshot, Dump, FailSnapshot
<1>. QED BY <1>1, <1>2 DEF SnapshotJob

LEMMA AutoArchiveFollows ==
  ASSUME TxInv, NEW r, AutoArchive(r)
  PROVE  Follows
<1>1. [license EXCEPT !.status = "ARCHIVED"].status = "ARCHIVED"
  BY DEF TxInv, TypeOK, License
<1>. QED BY <1>1, QuietFollows DEF AutoArchive, Write, Leaves, Follows

(* Writes to the row do not disturb what a request goes by, nor do steps   *)
(* that take a request out of its lookups.                                 *)
LEMMA AccessStable ==
  ASSUME TxInv, AccessInv, Follows, now' = now, cache' = cache,
         \A r \in Requests : req'[r] = req[r] \/ req'[r].pc \notin {"lookup", "read"}
  PROVE  AccessInv'
<1>1. left \in Nat /\ now \in Nat /\ left <= now
  BY DEF TxInv, TypeOK, AccessInv
<1>2. /\ left <= left' /\ left' <= now
      /\ license'.status = "ACTIVE" \/ license.status # "ACTIVE" \/ left' = now
      /\ license'.status = "SOFT_LOCKED" => license'.soft_lock_until = left' + Grace
  BY <1>1 DEF Follows, Leaves, AccessInv
<1>3. cache.status = "ACTIVE"
        => license'.status = "ACTIVE" \/ cache.expires <= left' + CacheTTL + Latency
  <2>1. cache.expires \in Nat /\ left' \in Nat
    BY <1>1 DEF TxInv, TypeOK, Follows, Leaves
  <2>. QED BY <1>1, <1>2, <2>1 DEF AccessInv
<1>4. ASSUME NEW r \in Requests, req'[r].pc \in {"lookup", "read"}
      PROVE  Behind(req[r])'
  <2>1. req'[r] = req[r] /\ Behind(req[r]) /\ req[r] \in Places
    BY <1>4 DEF AccessInv, TxInv, TypeOK
  <2>2. req[r].since \in Nat /\ left' \in Nat
    BY <1>1, <2>1 DEF Places, Follows, Leaves
  <2>. QED BY <1>1, <1>2, <2>1, <2>2 DEF Behind
<1>. QED BY <1>1, <1>2, <1>3, <1>4 DEF AccessInv

(* Whom a step admits, and when it is the right time to. *)
Admits ==
  \A r \in Requests :
    req[r].pc # "admitted" /\ req'[r].pc = "admitted"
      => license.status = "ACTIVE" \/ now <= left + CacheTTL + 2 * Latency

(* A request that decides on a status, read or cached, that was ACTIVE not *)
(* longer ago than it may be.                                              *)
LEMMA AccessDecide ==
  ASSUME TxInv, AccessInv, NEW r \in Requests, req[r].pc \in {"lookup", "read"},
         NEW status, NEW expired, Decide(r, status, expired),
         status = "ACTIVE" => license.status = "ACTIVE" \/ req[r].since <= left + CacheTTL + Latency,
         UNCHANGED <<now, license, left>>
  PROVE  /\ \A q \in Requests : req'[q].pc \in {"lookup", "read"} => Behind(req[q])'
         /\ Admits
<1>1. /\ \A q \in Requests \ {r} : req'[q] = req[q]
      /\ req'[r].pc \in {"idle", "lookup", "overdue", "admitted"}
      /\ req'[r].pc = "lookup" =>
           /\ req'[r].since = req[r].since
           /\ \/ req'[r].step = 2 /\ req[r].step = 1 /\ status = "ACTIVE"
              \/ req'[r].step = 3 /\ req[r].step = 2
      /\ req'[r].pc = "admitted" => req[r].step = 3
  BY DecideStep
<1>2. /\ Behind(req[r]) /\ req[r].since \in Nat /\ left \in Nat /\ now \in Nat
      /\ CacheTTL \in Nat /\ Latency \in Nat
  BY DEF AccessInv, TxInv, TypeOK, Places
<1>3. ASSUME NEW q \in Requests, req'[q].pc \in {"lookup", "read"}
      PROVE  Behind(req[q])'
  <2>1. CASE q = r
    BY <1>1, <1>2, <1>3, <2>1 DEF Behind
  <2>2. CASE q # r
    <3>1. req'[q] = req[q] /\ Behind(req[q])
      BY <1>1, <1>3, <2>2 DEF AccessInv
    <3>. QED BY <3>1 DEF Behind
  <2>. QED BY <2>1, <2>2
<1>4. req[r].step = 3 => license.status = "ACTIVE" \/ now <= left + CacheTTL + 2 * Latency
  BY <1>2 DEF Behind
<1>. QED BY <1>1, <1>3, <1>4 DEF Admits

LEMMA AccessRequest ==
  ASSUME TxInv, AccessInv, NEW r \in Requests, Request(r)
  PROVE  AccessInv' /\ Admits
<1>1. ASSUME NEW at, req' = [req EXCEPT ![r] = at]
      PROVE  \A q \in Requests : req'[q] = IF q = r THEN at ELSE req[q]
  BY <1>1 DEF TxInv, TypeOK
<1>2. \A pc \in {"idle", "expired", "archiving", "admitted"} :
        /\ At(pc).pc = pc
        /\ pc \notin {"lookup", "read"}
        /\ pc # "admitted" => At(pc).pc # "admitted"
  BY PlacesOf
<1>3. ASSUME NEW pc \in {"idle", "expired", "archiving", "admitted"},
             Follows, UNCHANGED <<now, cache>>, req' = [req EXCEPT ![r] = At(pc)],
             pc = "admitted" => license.status = "ACTIVE"
      PROVE  AccessInv' /\ Admits
  BY <1>1, <1>2, <1>3, AccessStable DEF Admits
<1>4. CASE ReadLicense(r)
  <2>1. CASE license.status = "ACTIVE"
    BY <1>3, <1>4, <2>1, QuietFollows DEF ReadLicense, Position
  <2>2. CASE license.status # "ACTIVE"
    BY <1>3, <1>4, <2>2, QuietFollows DEF ReadLicense, Position
  <2>. QED BY <2>1, <2>2
<1>5. CASE AutoArchive(r)
  BY <1>3, <1>5, AutoArchiveFollows DEF AutoArchive, Position, AtRest
<1>6. CASE FailUpdate(r) \/ Refuse(r) \/ FailRequest(r) \/ Serve(r)
  BY <1>3, <1>6, QuietFollows DEF FailUpdate, Refuse, FailRequest, Serve, Position, AtRest
<1>7. CASE ArchiveOverdue(r)
  BY <1>3, <1>7, QuietFollows DEF ArchiveOverdue, Position
<1>8. CASE LockRow(r) \/ Archiving(r)
  <2>1. Follows
    BY <1>8, QuietFollows, TransitionFollows DEF LockRow, Archiving, Rollback, Callers
  <2>2. UNCHANGED <<now, cache, req>>
    BY <1>8 DEF LockRow, Archiving, TransitionLicenseState, Commit, Rollback, world
  <2>. QED BY <2>1, <2>2, AccessStable DEF Admits
<1>9. CASE Enforce(r)
  <2>1. /\ \A q \in Requests : req'[q] = IF q = r THEN Looking(1, now) ELSE req[q]
        /\ UNCHANGED <<now, license, cache, left>>
    BY <1>1, <1>9 DEF Enforce, Position
  <2>2. /\ Looking(1, now).pc = "lookup"
        /\ Looking(1, now).step = 1
        /\ Looking(1, now).since = now
        /\ now \in Nat /\ Latency \in Nat
    BY PlacesOf DEF TxInv, TypeOK
  <2>3. Behind(Looking(1, now))
    BY <2>2 DEF Behind
  <2>4. ASSUME NEW q \in Requests, req'[q].pc \in {"lookup", "read"}
        PROVE  Behind(req[q])'
    <3>1. CASE q = r
      BY <2>1, <2>2, <3>1 DEF Behind
    <3>2. CASE q # r
      BY <2>1, <2>4, <3>2 DEF Behind, AccessInv
    <3>. QED BY <3>1, <3>2
  <2>. QED BY <2>1, <2>2, <2>4 DEF AccessInv, Admits
<1>10. CASE Lookup(r) /\ ~CacheHit
  <2>. DEFINE at == [req[r] EXCEPT !.pc = "read", !.row = Columns(license)]
  <2>1. /\ \A q \in Requests : req'[q] = IF q = r THEN at ELSE req[q]
        /\ UNCHANGED <<now, license, cache, left>>
    BY <1>1, <1>10 DEF Lookup, Position
  <2>2. /\ at.pc = "read" /\ at.step = req[r].step /\ at.since = req[r].since
        /\ at.row.status = license.status /\ at.row.soft_lock_until = license.soft_lock_until
    <3>1. req[r] \in Places
      BY DEF TxInv, TypeOK
    <3>2. at.row = Columns(license)
      BY <3>1 DEF Places
    <3>. QED BY <3>1, <3>2 DEF Places, Columns
  <2>3. Behind(req[r]) /\ req[r].since \in Nat /\ left \in Nat /\ Grace \in Nat
        /\ CacheTTL \in Nat /\ Latency \in Nat
    BY <1>10 DEF Lookup, AccessInv, TxInv, TypeOK, Places
  <2>. HIDE DEF at
  <2>4. Behind(at)
    BY <2>2, <2>3 DEF Behind, AccessInv
  <2>5. ASSUME NEW q \in Requests, req'[q].pc \in {"lookup", "read"}
        PROVE  Behind(req[q])'
    <3>1. CASE q = r
      BY <2>1, <2>4, <3>1 DEF Behind
    <3>2. CASE q # r
      BY <2>1, <2>5, <3>2 DEF Behind, AccessInv
    <3>. QED BY <3>1, <3>2
  <2>. QED BY <2>1, <2>2, <2>5 DEF AccessInv, Admits
<1>11. CASE Lookup(r) /\ CacheHit
  <2>1. /\ req[r].pc = "lookup" /\ Decide(r, cache.status, FALSE)
        /\ UNCHANGED <<now, license, cache, left>>
    BY <1>11 DEF Lookup
  <2>2. cache.status = "ACTIVE"
          => license.status = "ACTIVE" \/ req[r].since <= left + CacheTTL + Latency
    <3>1. Behind(req[r]) /\ req[r].since \in Nat /\ left \in Nat /\ now \in Nat /\ cache.expires \in Nat
          /\ CacheTTL \in Nat /\ Latency \in Nat
      BY <2>1 DEF AccessInv, TxInv, TypeOK, Places
    <3>. QED BY <1>11, <3>1 DEF CacheHit, Behind, AccessInv
  <2>. QED BY <2>1, <2>2, AccessDecide DEF AccessInv
<1>12. CASE CacheRow(r)
  <2>1. /\ req[r].pc = "read" /\ Decide(r, req[r].row.status, Expired(req[r].row, now))
        /\ cache'.status = req[r].row.status /\ cache'.expires = now + CacheTTL
        /\ UNCHANGED <<now, license, left>>
    BY <1>12 DEF CacheRow
  <2>2. Behind(req[r]) /\ req[r].since \in Nat /\ left \in Nat /\ now \in Nat
        /\ CacheTTL \in Nat /\ Latency \in Nat
    BY <2>1 DEF AccessInv, TxInv, TypeOK, Places
  <2>3. req[r].row.status = "ACTIVE" => license.status = "ACTIVE" \/ req[r].since <= left
    BY <2>1, <2>2 DEF Behind
  <2>4. /\ \A q \in Requests : req'[q].pc \in {"lookup", "read"} => Behind(req[q])'
        /\ Admits
    BY <2>1, <2>2, <2>3, AccessDecide
  <2>5. /\ cache'.expires <= now + CacheTTL
        /\ cache'.status = "ACTIVE"
             => license.status = "ACTIVE" \/ cache'.expires <= left + CacheTTL + Latency
    BY <2>1, <2>2, <2>3 DEF Behind
  <2>. QED BY <2>1, <2>4, <2>5 DEF AccessInv
<1>. QED BY <1>4, <1>5, <1>6, <1>7, <1>8, <1>9, <1>10, <1>11, <1>12 DEF Request, Enforcement

LEMMA AccessStep ==
  ASSUME TxInv, AccessInv, [Next]_vars
  PROVE  AccessInv' /\ Admits
<1>1. ASSUME NEW a \in Actors, Administrator(a)
      PROVE  AccessInv' /\ req' = req
  BY <1>1, AdministratorFollows, AccessStable
<1>2. ASSUME NEW j \in Jobs, SnapshotJob(j)
      PROVE  AccessInv' /\ req' = req
  BY <1>2, JobFollows, AccessStable
<1>3. CASE Tick
  <2>1. now' = now + 1 /\ UNCHANGED <<license, cache, req, left>>
    BY <1>3 DEF Tick
  <2>2. now \in Nat /\ left \in Nat /\ cache.expires \in Nat /\ CacheTTL \in Nat
    BY DEF TxInv, TypeOK
  <2>3. ASSUME NEW r \in Requests, req'[r].pc \in {"lookup", "read"}
        PROVE  Behind(req[r])'
    <3>1. Behind(req[r]) /\ now < req[r].since + Latency /\ req[r].since \in Nat
      BY <1>3, <2>1, <2>3 DEF Tick, AccessInv, TxInv, TypeOK, Places
    <3>. QED BY <2>1, <2>2, <3>1 DEF Behind
  <2>. QED BY <2>1, <2>2, <2>3 DEF AccessInv, Admits
<1>4. CASE UNCHANGED vars
  BY <1>4, QuietFollows, AccessStable DEF vars, world, Admits
<1>. QED BY <1>1, <1>2, <1>3, <1>4, AccessRequest DEF Next, Admits

LEMMA AccessInvariance == Spec => []AccessInv
<1>1. Init /\ TxInv => AccessInv
  BY PlacesOf DEF Init, AccessInv, AtRest, NoLicense, TxInv, TypeOK
<1>. QED BY <1>1, AccessStep, TxInvariance, PTL DEF Spec

(* A request is let in on the strength of a licence that was active within *)
(* a cache entry's life and the lookups of two requests.                   *)
THEOREM AdmittedInTime == Spec => AdmittedRecently
<1>1. TxInv /\ AccessInv /\ [Next]_vars => Admits
  BY AccessStep
<1>2. Admits => [Admits]_vars
  OBVIOUS
<1>. QED BY <1>1, <1>2, AccessInvariance, TxInvariance, PTL DEF Spec, AdmittedRecently, Admits

-----------------------------------------------------------------------------
(* What a request may archive. *)

LEMMA FitsStep ==
  ASSUME TxInv, TxFits, [Next]_vars
  PROVE  TxFits'
<1>1. ASSUME UNCHANGED req, \A r \in Requests : tx[r] = "idle" => tx'[r] = "idle"
      PROVE  TxFits'
  BY <1>1 DEF TxFits
<1>2. ASSUME tx' = tx \/ tx' = Outdated(tx)
      PROVE  \A c \in Callers : tx[c] = "idle" => tx'[c] = "idle"
  BY <1>2 DEF Outdated, TxInv, TypeOK
<1>3. ASSUME NEW a \in Actors, Administrator(a)
      PROVE  TxFits'
  <2>1. UNCHANGED req
    BY <1>3, AdministratorFollows
  <2>2. ASSUME NEW r \in Requests, tx[r] = "idle"
        PROVE  tx'[r] = "idle"
    BY <1>3, <2>2 DEF Administrator, CreateLicense, Connect, LockRow, Finish, BackOfficeCall, LifecycleCall,
       TransitionLicenseState, TransitionToSoftLock, TransitionToActive, TransitionToArchived,
       RestoreFromArchive, TransitionToDeleted, DeleteLicense, Rollback, Commit, CommitLog,
       Outdated, Callers, TxInv, TypeOK
  <2>. QED BY <1>1, <2>1, <2>2
<1>4. ASSUME NEW j \in Jobs, SnapshotJob(j)
      PROVE  TxFits'
  BY <1>1, <1>2, <1>4 DEF SnapshotJob, StartSnapshot, Dump, RecordSnapshot, FailSnapshot, Callers
<1>5. ASSUME NEW r \in Requests, Request(r)
      PROVE  TxFits'
  <2>1. CASE LockRow(r) \/ Archiving(r)
    <3>1. UNCHANGED req
      BY <2>1 DEF LockRow, Archiving, TransitionLicenseState, Commit, Rollback, world
    <3>2. ASSUME NEW q \in Requests, tx[q] = "idle"
          PROVE  tx'[q] = "idle"
      BY <2>1, <3>2 DEF LockRow, Archiving, TransitionLicenseState, Commit, Rollback, Outdated,
                        Callers, TxInv, TypeOK
    <3>. QED BY <1>1, <3>1, <3>2
  <2>2. CASE ArchiveOverdue(r)
    <3>1. At("archiving").pc = "archiving"
      BY PlacesOf
    <3>. QED BY <2>2, <3>1 DEF ArchiveOverdue, Position, TxFits, TxInv, TypeOK, Callers
  <2>3. CASE \/ ReadLicense(r) \/ AutoArchive(r) \/ FailUpdate(r) \/ Enforce(r) \/ Lookup(r)
             \/ CacheRow(r) \/ Refuse(r) \/ FailRequest(r) \/ Serve(r)
    <3>1. tx[r] = "idle" /\ r \in Callers
      BY <2>3 DEF ReadLicense, AutoArchive, FailUpdate, Enforce, Lookup, CacheRow, Refuse, FailRequest,
                  Serve, TxFits, Callers
    <3>2. tx' = tx \/ tx' = Outdated(tx)
      BY <2>3 DEF ReadLicense, AutoArchive, FailUpdate, Enforce, Lookup, CacheRow, Refuse, FailRequest, Serve
    <3>3. \A q \in Requests \ {r} : req'[q] = req[q]
      <4>1. ASSUME NEW status, NEW expired, Decide(r, status, expired)
            PROVE  \A q \in Requests \ {r} : req'[q] = req[q]
        BY <4>1, DecideStep
      <4>2. ASSUME NEW at, Position(r, at)
            PROVE  \A q \in Requests \ {r} : req'[q] = req[q]
        BY <4>2 DEF Position, TxInv, TypeOK
      <4>. QED BY <2>3, <4>1, <4>2 DEF ReadLicense, AutoArchive, FailUpdate, Enforce, Lookup, CacheRow,
                                       Refuse, FailRequest, Serve
    <3>. QED BY <1>2, <3>1, <3>2, <3>3 DEF TxFits, Callers
  <2>. QED BY <1>5, <2>1, <2>2, <2>3 DEF Request, Enforcement
<1>6. CASE Tick \/ UNCHANGED vars
  BY <1>1, <1>6 DEF Tick, vars, world
<1>. QED BY <1>3, <1>4, <1>5, <1>6 DEF Next

LEMMA FitsInvariance == Spec => []TxFits
<1>1. Init => TxFits
  BY DEF Init, TxFits, Callers
<1>. QED BY <1>1, FitsStep, TxInvariance, PTL DEF Spec

(* A request at step 2 has passed step 1 on a row that was ACTIVE, so that *)
(* a soft lock it finds is too young to have run out.                      *)
LEMMA UnreachedStep ==
  ASSUME CacheTTL + 2 * Latency <= Grace, TxInv, AccessInv, ArchiveUnreached, [Next]_vars
  PROVE  ArchiveUnreached'
<1>1. ASSUME NEW r \in Requests, NEW pc \in {"idle", "expired", "admitted"},
             req' = [req EXCEPT ![r] = At(pc)]
      PROVE  ArchiveUnreached'
  <2>1. At(pc).pc = pc
    BY PlacesOf
  <2>. QED BY <1>1, <2>1 DEF ArchiveUnreached, TxInv, TypeOK
<1>2. ASSUME NEW r \in Requests, req[r].pc \in {"lookup", "read"},
             NEW status, NEW expired, Decide(r, status, expired),
             ~(req[r].step = 2 /\ status = "SOFT_LOCKED" /\ expired)
      PROVE  ArchiveUnreached'
  <2>1. /\ \A q \in Requests \ {r} : req'[q] = req[q]
        /\ req'[r].pc \in {"idle", "lookup", "overdue", "admitted"}
        /\ req'[r].pc = "overdue" => req[r].step = 2 /\ status = "SOFT_LOCKED" /\ expired
    BY <1>2, DecideStep
  <2>. QED BY <1>2, <2>1 DEF ArchiveUnreached
<1>3. ASSUME NEW r \in Requests, Lookup(r)
      PROVE  ArchiveUnreached'
  <2>1. CASE CacheHit
    BY <1>2, <1>3, <2>1 DEF Lookup
  <2>2. CASE ~CacheHit
    <3>1. /\ req[r] \in Places
          /\ req' = [req EXCEPT ![r] = [req[r] EXCEPT !.pc = "read", !.row = Columns(license)]]
      BY <1>3, <2>2 DEF Lookup, Position, TxInv, TypeOK
    <3>2. [req[r] EXCEPT !.pc = "read", !.row = Columns(license)].pc = "read"
      BY <3>1 DEF Places
    <3>. QED BY <3>1, <3>2 DEF ArchiveUnreached, TxInv, TypeOK
  <2>. QED BY <2>1, <2>2
<1>4. ASSUME NEW r \in Requests, CacheRow(r)
      PROVE  ArchiveUnreached'
  <2>1. req[r].pc = "read" /\ Decide(r, req[r].row.status, Expired(req[r].row, now))
    BY <1>4 DEF CacheRow
  <2>2. ~(req[r].step = 2 /\ req[r].row.status = "SOFT_LOCKED" /\ Expired(req[r].row, now))
    <3>1. /\ Behind(req[r]) /\ req[r].since \in Nat /\ req[r].row.soft_lock_until \in Nat
          /\ now \in Nat /\ CacheTTL \in Nat /\ Latency \in Nat /\ Grace \in Nat
      BY <2>1 DEF AccessInv, TxInv, TypeOK, Places, Row
    <3>. QED BY <2>1, <3>1 DEF Behind, Expired
  <2>. QED BY <1>2, <2>1, <2>2
<1>5. ASSUME NEW r \in Requests, Enforce(r)
      PROVE  ArchiveUnreached'
  <2>1. Looking(1, now).pc = "lookup"
    BY PlacesOf DEF TxInv, TypeOK
  <2>. QED BY <1>5, <2>1 DEF Enforce, Position, ArchiveUnreached, TxInv, TypeOK
<1>6. ASSUME NEW r \in Requests, Request(r)
      PROVE  ArchiveUnreached'
  <2>1. CASE \/ ReadLicense(r) \/ AutoArchive(r) \/ FailUpdate(r) \/ Refuse(r) \/ FailRequest(r) \/ Serve(r)
    BY <1>1, <2>1 DEF ReadLicense, AutoArchive, FailUpdate, Refuse, FailRequest, Serve, Position, AtRest
  <2>2. CASE LockRow(r) \/ Archiving(r)
    BY <2>2 DEF LockRow, Archiving, TransitionLicenseState, Commit, Rollback, world, ArchiveUnreached
  <2>3. ~ArchiveOverdue(r)
    BY DEF ArchiveOverdue, ArchiveUnreached
  <2>. QED BY <1>3, <1>4, <1>5, <1>6, <2>1, <2>2, <2>3 DEF Request, Enforcement
<1>7. ASSUME NEW a \in Actors, Administrator(a)
      PROVE  ArchiveUnreached'
  BY <1>7, AdministratorFollows DEF ArchiveUnreached
<1>8. ASSUME NEW j \in Jobs, SnapshotJob(j)
      PROVE  ArchiveUnreached'
  BY <1>8, JobFollows DEF ArchiveUnreached
<1>9. CASE Tick \/ UNCHANGED vars
  BY <1>9 DEF Tick, vars, world, ArchiveUnreached
<1>. QED BY <1>6, <1>7, <1>8, <1>9 DEF Next

(* The archive of license-enforcement.ts:108 is made by no request, if the *)
(* grace is not shorter than a cache entry's life and two latencies.       *)
THEOREM ArchiveNotReached ==
  ASSUME CacheTTL + 2 * Latency <= Grace
  PROVE  Spec => []ArchiveUnreached
<1>1. Init => ArchiveUnreached
  BY PlacesOf DEF Init, ArchiveUnreached, AtRest
<1>2. TxInv /\ AccessInv /\ ArchiveUnreached /\ [Next]_vars => ArchiveUnreached'
  BY UnreachedStep
<1>. QED BY <1>1, <1>2, AccessInvariance, TxInvariance, PTL DEF Spec

LEMMA GraceStep ==
  ASSUME TxInv, TxFits, ArchiveUnreached, [Next]_vars,
         RequestActs, license'.status # license.status
  PROVE  Expired(license, now)
<1>1. \A r \in Requests : tx[r] = "idle"
  BY DEF TxFits, ArchiveUnreached
<1>2. req' # req
  BY <1>1 DEF RequestActs
<1>3. PICK r \in Requests : Request(r)
  BY <1>2, AdministratorFollows, JobFollows DEF Next, Tick, vars, world
<1>4. ~LockRow(r) /\ ~Archiving(r)
  BY <1>1 DEF LockRow, Archiving, TransitionLicenseState, Rollback
<1>. QED BY <1>3, <1>4, QuietStep, ArchiveMoves DEF Request, Enforcement, Quiet

(* With the same grace, a request archives a licence only when its soft    *)
(* lock has run out: only the direct middleware does, and its UPDATE asks. *)
THEOREM GraceKept ==
  ASSUME CacheTTL + 2 * Latency <= Grace
  PROVE  Spec => GraceHonoured
<1>1. TxInv /\ TxFits /\ ArchiveUnreached /\ [Next]_vars
        => [RequestActs /\ license'.status # license.status => Expired(license, now)]_vars
  BY GraceStep
<1>2. Spec => []ArchiveUnreached
  BY ArchiveNotReached
<1>. QED BY <1>1, <1>2, FitsInvariance, TxInvariance, PTL DEF Spec, GraceHonoured

-----------------------------------------------------------------------------
(* The pool. *)

Busy == {a \in Callers : tx[a] # "idle"}

LEMMA BusyFinite == IsFiniteSet(Busy) /\ Cardinality(Busy) \in Nat
BY FS_Union, FS_Subset, FS_CardinalityType DEF Busy, Callers

LEMMA PoolStep ==
  ASSUME TxInv, TxFits, OnlyCreationLeaks, [Next]_vars
  PROVE  OnlyCreationLeaks'
<1>0. /\ free \in Nat /\ created \in Nat /\ PoolSize \in Nat
      /\ free + created + Cardinality(Busy) = PoolSize
  BY DEF TxInv, TypeOK, OnlyCreationLeaks, Busy
<1>1. Busy' = Busy /\ free' + created' = free + created => OnlyCreationLeaks'
  BY <1>0, BusyFinite DEF OnlyCreationLeaks, Busy
<1>2. ASSUME NEW a, CreateLicense(a)
      PROVE  OnlyCreationLeaks'
  BY <1>0, <1>1, <1>2 DEF CreateLicense, Busy
<1>3. ASSUME NEW a \in Callers, tx[a] = "idle", tx' = [tx EXCEPT ![a] = "waiting"],
             free' = free - 1, created' = created, free > 0
      PROVE  OnlyCreationLeaks'
  <2>1. Busy' = Busy \cup {a} /\ a \notin Busy
    BY <1>3 DEF Busy, TxInv, TypeOK
  <2>2. Cardinality(Busy') = Cardinality(Busy) + 1
    BY <2>1, BusyFinite, FS_AddElement
  <2>. QED BY <1>0, <1>3, <2>2, BusyFinite DEF OnlyCreationLeaks, Busy
<1>4. ASSUME NEW a \in Callers, LockRow(a)
      PROVE  OnlyCreationLeaks'
  BY <1>0, <1>1, <1>4 DEF LockRow, Busy, TxInv, TypeOK
<1>5. ASSUME NEW a \in Callers, Finish(a)
      PROVE  OnlyCreationLeaks'
  <2>1. Busy' = Busy \ {a} /\ a \in Busy
    BY <1>5 DEF Finish, BackOfficeCall, LifecycleCall, TransitionLicenseState, TransitionToSoftLock, TransitionToActive,
       TransitionToArchived, RestoreFromArchive, TransitionToDeleted, DeleteLicense, Rollback,
       Holds, Commit, CommitLog, Outdated, Busy, TxInv, TypeOK
  <2>2. Cardinality(Busy') = Cardinality(Busy) - 1
    BY <2>1, BusyFinite, FS_RemoveElement
  <2>3. free' = free + 1 /\ created' = created
    BY <1>5 DEF Finish, BackOfficeCall, LifecycleCall, TransitionLicenseState, TransitionToSoftLock, TransitionToActive,
       TransitionToArchived, RestoreFromArchive, TransitionToDeleted, DeleteLicense, Rollback,
       Commit, CommitLog
  <2>. QED BY <1>0, <2>2, <2>3, BusyFinite DEF OnlyCreationLeaks, Busy
<1>6. ASSUME tx' = tx \/ tx' = Outdated(tx), UNCHANGED <<free, created>>
      PROVE  OnlyCreationLeaks'
  BY <1>0, <1>1, <1>6 DEF Outdated, Busy, TxInv, TypeOK
<1>7. ASSUME NEW a \in Actors, Administrator(a)
      PROVE  OnlyCreationLeaks'
  BY <1>2, <1>3, <1>4, <1>5, <1>7 DEF Administrator, Connect, Callers
<1>8. ASSUME NEW j \in Jobs, SnapshotJob(j)
      PROVE  OnlyCreationLeaks'
  BY <1>6, <1>8 DEF SnapshotJob, StartSnapshot, Dump, RecordSnapshot, FailSnapshot
<1>9. ASSUME NEW r \in Requests, Request(r)
      PROVE  OnlyCreationLeaks'
  <2>1. r \in Callers
    BY DEF Callers
  <2>2. CASE ArchiveOverdue(r) /\ tx[r] = "idle"
    BY <1>3, <2>1, <2>2 DEF ArchiveOverdue
  <2>3. CASE LockRow(r) \/ Archiving(r)
    BY <1>4, <1>5, <2>1, <2>3 DEF Archiving, Finish, BackOfficeCall
  <2>4. CASE \/ ReadLicense(r) \/ AutoArchive(r) \/ FailUpdate(r) \/ Enforce(r) \/ Lookup(r)
             \/ CacheRow(r) \/ Refuse(r) \/ FailRequest(r) \/ Serve(r)
    BY <1>6, <2>4 DEF ReadLicense, AutoArchive, FailUpdate, Enforce, Lookup, CacheRow, Refuse,
                      FailRequest, Serve
  <2>. QED BY <1>9, <2>2, <2>3, <2>4 DEF Request, Enforcement, ArchiveOverdue, TxFits
<1>10. CASE Tick \/ UNCHANGED vars
  BY <1>6, <1>10 DEF Tick, vars, world
<1>. QED BY <1>7, <1>8, <1>9, <1>10 DEF Next

(* Every path of every service but createLicense gives its client back. *)
THEOREM PoolAccounts == Spec => []OnlyCreationLeaks
<1>1. Init => OnlyCreationLeaks
  <2>. SUFFICES ASSUME Init PROVE OnlyCreationLeaks
    OBVIOUS
  <2>1. Busy = {}
    BY DEF Init, Busy
  <2>2. Cardinality(Busy) = 0
    BY <2>1, FS_EmptySet
  <2>3. free = PoolSize /\ created = 0 /\ PoolSize \in Nat
    BY DEF Init
  <2>. QED BY <2>2, <2>3 DEF OnlyCreationLeaks, Busy
<1>. QED BY <1>1, PoolStep, FitsInvariance, TxInvariance, PTL DEF Spec
=============================================================================
