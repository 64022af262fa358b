-------------------------- MODULE LicenseLifecycle --------------------------
(***************************************************************************)
(* One licence row and everything that reads or writes it: the services of *)
(* license/service.ts behind the back-office routes, the archive snapshot  *)
(* job, the two middlewares that admit a tenant's requests by it, and the  *)
(* resolver's five-minute cache.                                           *)
(*                                                                         *)
(* Each service takes a client from the pool, opens a SERIALIZABLE         *)
(* transaction and locks the row with SELECT ... FOR UPDATE before it      *)
(* looks; a waiter whose row changed meanwhile gets 40001 and answers 500. *)
(* deleted_at is set with DELETED and never cleared, so the status stands  *)
(* for both.  The rows of snapshots and license_deletion_confirmations     *)
(* have no writer in the repository: whether they are there is open.       *)
(***************************************************************************)
EXTENDS Naturals, FiniteSets

CONSTANTS Actors,       (* administrators' calls in flight                 *)
          Requests,     (* tenant requests in flight                       *)
          Jobs,         (* archive snapshot jobs                           *)
          Mounted,      (* the middlewares a request may come through      *)
          PoolSize,     (* clients of the master pool                      *)
          Grace,        (* the soft lock's 90 days                         *)
          CacheTTL,     (* CACHE_TTL_SECONDS                               *)
          Latency,      (* bound on the time a request's lookups take      *)
          DedupWindow,  (* the snapshot job's hour                         *)
          MaxCreated,   (* bound on the calls of createLicense             *)
          MaxTime,      (* bound on the clock                              *)
          MaxData       (* bound on the workspace's writes                 *)

ASSUME LicenseAssumption ==
  /\ IsFiniteSet(Actors) /\ IsFiniteSet(Requests)
  /\ Actors \cap Requests = {}
  /\ Mounted \in [Requests -> SUBSET {"direct", "enforcement"}]
  /\ Latency \in Nat
  /\ {PoolSize, Grace, CacheTTL, DedupWindow, MaxCreated, MaxTime, MaxData}
       \subseteq Nat \ {0}

VARIABLES
  now,      (* the clock                                                   *)
  license,  (* the row of licenses                                         *)
  audit,    (* license_audit_logs: the last row                            *)
  tx,       (* the transaction of each call, and of each request that      *)
            (* archives by transitionLicenseState                          *)
  seen,     (* the row as SELECT ... FOR UPDATE gave it                    *)
  free,     (* clients in the pool                                         *)
  created,  (* calls of createLicense so far                               *)
  data,     (* version of the workspace's data                             *)
  job,      (* each snapshot job: its step and the version it dumped       *)
  dumped,   (* archive_snapshots: when the last row was created, or 0      *)
  cache,    (* Redis: the cached row, of which only the status is used,    *)
            (* and when it expires                                         *)
  req,      (* each request's position in its middleware, the row it has   *)
            (* read and when its lookups began                             *)
  left      (* when the licence last stopped being ACTIVE                  *)

world == <<now, data, job, dumped, cache, req>>
vars == <<now, license, audit, tx, seen, free, created, data, job, dumped, cache, req, left>>

LS == INSTANCE LicenseStatus WITH status <- license.status

(* 0 is NULL for a date and for a snapshot, which is named by its data. *)
License == [status : LS!LicenseStatuses \cup {"NONE"}, soft_lock_until : Nat,
            snapshot_id : Nat, current_snapshot_id : BOOLEAN]
NoLicense == [status |-> "NONE", soft_lock_until |-> 0,
              snapshot_id |-> 0, current_snapshot_id |-> FALSE]
Audit == [previous : LS!LicenseStatuses \cup {"NONE"},
          new : LS!LicenseStatuses \cup {"NONE", "RESTORING", "DELETING"}]

Expired(row, t) == row.soft_lock_until # 0 /\ row.soft_lock_until < t
Callers == Actors \cup Requests
RowLocked == \E c \in Callers : tx[c] = "locked"
Leaves(row) == left' = IF license.status = "ACTIVE" /\ row.status # "ACTIVE" THEN now ELSE left

(* A committed UPDATE, and the waiters it leaves with an old snapshot. *)
Outdated(t) == [c \in Callers |-> IF t[c] = "waiting" THEN "stale" ELSE t[c]]
Write(row) ==
  /\ license' = row
  /\ Leaves(row)

-----------------------------------------------------------------------------
(* The services' transactions. *)

(* The row starts out as licenses/service.ts would have it. *)
MutCreateLicense(a) ==
  /\ tx[a] = "idle"
  /\ free > 0
  /\ created < MaxCreated
  /\ free' = free - 1
  /\ created' = created + 1
  /\ license.status = "NONE"
  /\ Write([NoLicense EXCEPT !.status = "PENDING_PROVISION"])
  /\ UNCHANGED <<world, audit, tx, seen>>

(* createLicense never releases its client, whether it commits, finds no   *)
(* product, or collides with UNIQUE (workspace_slug): its finally is empty.*)
CreateLicense(a) ==
  /\ tx[a] = "idle"
  /\ free > 0
  /\ created < MaxCreated
  /\ free' = free - 1
  /\ created' = created + 1
  /\ \/ /\ license.status = "NONE"
        /\ Write([NoLicense EXCEPT !.status = "ACTIVE"])
     \/ UNCHANGED <<license, left>>
  /\ UNCHANGED <<world, audit, tx, seen>>

(* masterDb.connect(), BEGIN, and SELECT ... FOR UPDATE is under way. *)
Connect(a) ==
  /\ tx[a] = "idle"
  /\ free > 0
  /\ free' = free - 1
  /\ tx' = [tx EXCEPT ![a] = "waiting"]
  /\ UNCHANGED <<world, license, audit, seen, created, left>>

(* A plain SELECT instead of SELECT ... FOR UPDATE. *)
MutLockRow(a) ==
  /\ tx[a] \in {"waiting", "stale"}
  /\ license.status # "NONE"
  /\ tx' = [tx EXCEPT ![a] = "locked"]
  /\ seen' = [seen EXCEPT ![a] = license]
  /\ UNCHANGED <<world, license, audit, free, created, left>>

LockRow(a) ==
  /\ tx[a] = "waiting"
  /\ ~RowLocked
  /\ license.status # "NONE"
  /\ tx' = [tx EXCEPT ![a] = "locked"]
  /\ seen' = [seen EXCEPT ![a] = license]
  /\ UNCHANGED <<world, license, audit, free, created, left>>

(* The rollback that forgets client.release(). *)
MutRollback(a) ==
  /\ tx[a] # "idle"
  /\ tx' = [tx EXCEPT ![a] = "idle"]
  /\ seen' = [seen EXCEPT ![a] = NoLicense]
  /\ UNCHANGED <<world, license, audit, free, created, left>>

(* No row, a check that refuses, a serialization failure, any other error. *)
Rollback(a) ==
  /\ tx[a] # "idle"
  /\ tx' = [tx EXCEPT ![a] = "idle"]
  /\ seen' = [seen EXCEPT ![a] = NoLicense]
  /\ free' = free + 1
  /\ UNCHANGED <<world, license, audit, created, left>>

Holds(a, status) ==
  /\ tx[a] = "locked"
  /\ seen[a].status = status

(* UPDATE, INSERT INTO license_audit_logs where there is one, COMMIT, and  *)
(* the client goes back.                                                   *)
Commit(a, row, log) ==
  /\ Write(row)
  /\ audit' = log
  /\ tx' = [Outdated(tx) EXCEPT ![a] = "idle"]
  /\ seen' = [seen EXCEPT ![a] = NoLicense]
  /\ free' = free + 1
  /\ UNCHANGED <<world, created>>

Logged(from, to) == [previous |-> from, new |-> to]

(* Only the audit row: no UPDATE, so nobody's snapshot becomes old. *)
CommitLog(a, log) ==
  /\ audit' = log
  /\ tx' = [tx EXCEPT ![a] = "idle"]
  /\ seen' = [seen EXCEPT ![a] = NoLicense]
  /\ free' = free + 1
  /\ UNCHANGED <<world, license, created, left>>

ValidTransitions(from) ==
  CASE from = "ACTIVE"      -> {"SOFT_LOCKED", "ARCHIVED"}
    [] from = "SOFT_LOCKED" -> {"ACTIVE", "ARCHIVED"}
    [] from = "ARCHIVED"    -> {"ACTIVE", "DELETED"}
    [] OTHER                -> {}

(* An administrator may ask for any status; a request that found a soft    *)
(* lock run out asks to archive, and is asked nothing about the date.      *)
Asked(a) == IF a \in Requests THEN {"ARCHIVED"} ELSE LS!LicenseStatuses

(* PATCH .../state and step 2 of license-enforcement.ts: the dates it does *)
(* not set stay, and nothing is logged.                                    *)
TransitionLicenseState(a) ==
  /\ tx[a] = "locked"
  /\ \E target \in ValidTransitions(seen[a].status) \cap Asked(a) :
       Commit(a, [seen[a] EXCEPT
                    !.status = target,
                    !.soft_lock_until = IF target = "SOFT_LOCKED" THEN now + Grace ELSE @],
              audit)

TransitionToSoftLock(a) ==
  /\ Holds(a, "ACTIVE")
  /\ Commit(a, [seen[a] EXCEPT !.status = "SOFT_LOCKED", !.soft_lock_until = now + Grace],
            Logged("ACTIVE", "SOFT_LOCKED"))

(* Reactivation that checks nothing. *)
MutTransitionToActive(a) ==
  /\ tx[a] = "locked"
  /\ Commit(a, [seen[a] EXCEPT !.status = "ACTIVE", !.soft_lock_until = 0],
            Logged("SOFT_LOCKED", "ACTIVE"))

TransitionToActive(a) ==
  /\ Holds(a, "SOFT_LOCKED")
  /\ Commit(a, [seen[a] EXCEPT !.status = "ACTIVE", !.soft_lock_until = 0],
            Logged("SOFT_LOCKED", "ACTIVE"))

TransitionToArchived(a) ==
  /\ Holds(a, "SOFT_LOCKED")
  /\ Commit(a, [seen[a] EXCEPT !.status = "ARCHIVED", !.soft_lock_until = 0,
                               !.current_snapshot_id = TRUE],
            Logged("SOFT_LOCKED", "ARCHIVED"))

(* The jobs these two announce are never queued.  The snapshot and, for the *)
(* deletion, the confirmation they look for are taken to be there: nothing *)
(* in the repository writes either.                                        *)
RestoreFromArchive(a) ==
  /\ Holds(a, "ARCHIVED")
  /\ seen[a].current_snapshot_id
  /\ CommitLog(a, Logged("ARCHIVED", "RESTORING"))

TransitionToDeleted(a) ==
  /\ Holds(a, "ARCHIVED")
  /\ seen[a].current_snapshot_id
  /\ CommitLog(a, Logged("ARCHIVED", "DELETING"))

DeleteLicense(a) ==
  /\ Holds(a, "ARCHIVED")
  /\ seen[a].snapshot_id # 0
  /\ Commit(a, [seen[a] EXCEPT !.status = "DELETED"], audit)

-----------------------------------------------------------------------------
(* archiveSnapshotJob. *)

(* Steps 1 and 2: archived, and no snapshot within the hour. *)
StartSnapshot(j) ==
  /\ job[j].pc = "idle"
  /\ license.status = "ARCHIVED"
  /\ dumped = 0 \/ now - dumped >= DedupWindow
  /\ job' = [job EXCEPT ![j].pc = "checked"]
  /\ UNCHANGED <<now, license, audit, tx, seen, free, created, data, dumped, cache, req, left>>

(* Steps 3 and 4: pg_dump and the upload. *)
Dump(j) ==
  /\ job[j].pc = "checked"
  /\ job' = [job EXCEPT ![j] = [pc |-> "uploaded", version |-> data]]
  /\ UNCHANGED <<now, license, audit, tx, seen, free, created, data, dumped, cache, req, left>>

(* Step 5, one transaction on the worker's own pool: it waits for the row, *)
(* and asks neither for the status nor for the hour again.                 *)
RecordSnapshot(j) ==
  /\ job[j].pc = "uploaded"
  /\ ~RowLocked
  /\ license' = [license EXCEPT !.snapshot_id = job[j].version]
  /\ dumped' = now
  /\ tx' = Outdated(tx)
  /\ job' = [job EXCEPT ![j] = [pc |-> "idle", version |-> 0]]
  /\ UNCHANGED <<now, audit, seen, free, created, data, cache, req, left>>

(* Any step throws, and the job is tried again later. *)
FailSnapshot(j) ==
  /\ job[j].pc # "idle"
  /\ job' = [job EXCEPT ![j] = [pc |-> "idle", version |-> 0]]
  /\ UNCHANGED <<now, license, audit, tx, seen, free, created, data, dumped, cache, req, left>>

-----------------------------------------------------------------------------
(* A tenant's request and the middleware in front of it.  Its statements   *)
(* take a client of the same pool each, for as long as they last.          *)

(* The columns the middlewares look at. *)
Row == [status : LS!LicenseStatuses \cup {"NONE"}, soft_lock_until : Nat]
Columns(row) == [status |-> row.status, soft_lock_until |-> row.soft_lock_until]
At(pc) == [pc |-> pc, step |-> 0, row |-> Columns(NoLicense), since |-> 0]
AtRest == At("idle")
Looking(step, since) == [At("lookup") EXCEPT !.step = step, !.since = since]
Position(r, p) == req' = [req EXCEPT ![r] = p]

(* The dates compared the other way round. *)
MutReadLicense(r) ==
  /\ "direct" \in Mounted[r]
  /\ req[r].pc = "idle"
  /\ free > 0
  /\ \/ /\ license.status = "ACTIVE"
        /\ Position(r, At("admitted"))
     \/ /\ license.status = "SOFT_LOCKED"
        /\ license.soft_lock_until > now
        /\ Position(r, At("expired"))
  /\ UNCHANGED <<now, license, audit, tx, seen, free, created, data, job, dumped, cache, left>>

(* license.middleware.ts: SELECT ... WHERE deleted_at IS NULL. *)
ReadLicense(r) ==
  /\ "direct" \in Mounted[r]
  /\ req[r].pc = "idle"
  /\ free > 0
  /\ \/ /\ license.status = "ACTIVE"
        /\ Position(r, At("admitted"))
     \/ /\ license.status = "SOFT_LOCKED"
        /\ Expired(license, now)
        /\ Position(r, At("expired"))
  /\ UNCHANGED <<now, license, audit, tx, seen, free, created, data, job, dumped, cache, left>>

(* The UPDATE without AND soft_lock_until < NOW(). *)
MutAutoArchive(r) ==
  /\ req[r].pc = "expired"
  /\ free > 0 /\ ~RowLocked
  /\ Position(r, AtRest)
  /\ IF license.status = "SOFT_LOCKED"
     THEN /\ Write([license EXCEPT !.status = "ARCHIVED"])
          /\ tx' = Outdated(tx)
     ELSE UNCHANGED <<license, left, tx>>
  /\ UNCHANGED <<now, audit, seen, free, created, data, job, dumped, cache>>

(* UPDATE ... WHERE status = 'SOFT_LOCKED' AND soft_lock_until < NOW()     *)
(* waits for the row and looks again; the request is refused either way.   *)
AutoArchive(r) ==
  /\ req[r].pc = "expired"
  /\ free > 0 /\ ~RowLocked
  /\ Position(r, AtRest)
  /\ IF license.status = "SOFT_LOCKED" /\ Expired(license, now)
     THEN /\ Write([license EXCEPT !.status = "ARCHIVED"])
          /\ tx' = Outdated(tx)
     ELSE UNCHANGED <<license, left, tx>>
  /\ UNCHANGED <<now, audit, seen, free, created, data, job, dumped, cache>>

(* The UPDATE fails, and the answer is 500. *)
FailUpdate(r) ==
  /\ req[r].pc = "expired"
  /\ Position(r, AtRest)
  /\ UNCHANGED <<now, license, audit, tx, seen, free, created, data, job, dumped, cache, left>>

(* Step 1 letting a soft-locked licence through to the check of its date.  *)
MutValidLicenseStatus(status) == status \in {"ACTIVE", "SOFT_LOCKED"}

(* validateLicenseStatus. *)
ValidLicenseStatus(status) == status = "ACTIVE"

(* license-enforcement.ts: three steps, each with a row of its own from    *)
(* getLicenseBySlug.  Step 1 lets ACTIVE pass only.  Step 2 goes on to     *)
(* archive an expired soft lock, which a cached row never is: in JSON the  *)
(* date is a string, and no date is greater than that.  Steps 3 and 4      *)
(* compare versions, whatever the status.                                  *)
Decide(r, status, expired) ==
  \/ /\ req[r].step = 1
     /\ Position(r, IF ValidLicenseStatus(status) THEN Looking(2, req[r].since) ELSE AtRest)
  \/ /\ req[r].step = 2
     /\ Position(r, IF status = "SOFT_LOCKED" /\ expired
                    THEN At("overdue")
                    ELSE Looking(3, req[r].since))
  \/ /\ req[r].step = 3
     /\ Position(r, AtRest) \/ Position(r, At("admitted"))

Enforce(r) ==
  /\ "enforcement" \in Mounted[r]
  /\ req[r].pc = "idle"
  /\ license.status # "NONE"
  /\ Position(r, Looking(1, now))
  /\ UNCHANGED <<now, license, audit, tx, seen, free, created, data, job, dumped, cache, left>>

(* Step 2 calls transitionLicenseState, which connects and waits for the   *)
(* row: LockRow, TransitionLicenseState and Rollback of the request follow.*)
ArchiveOverdue(r) ==
  /\ req[r].pc = "overdue"
  /\ free > 0
  /\ free' = free - 1
  /\ tx' = [tx EXCEPT ![r] = "waiting"]
  /\ Position(r, At("archiving"))
  /\ UNCHANGED <<now, license, audit, seen, created, data, job, dumped, cache, left>>

(* Whatever has become of that, the answer is 403. *)
Refuse(r) ==
  /\ req[r].pc = "archiving"
  /\ tx[r] = "idle"
  /\ Position(r, AtRest)
  /\ UNCHANGED <<now, license, audit, tx, seen, free, created, data, job, dumped, cache, left>>

(* Redis or the database fails, and the answer is 500. *)
FailRequest(r) ==
  /\ req[r].pc \in {"lookup", "read", "overdue"}
  /\ Position(r, AtRest)
  /\ UNCHANGED <<now, license, audit, tx, seen, free, created, data, job, dumped, cache, left>>

CacheHit == cache.status # "NONE" /\ now < cache.expires

(* getLicenseBySlug: Redis first, then the database ... *)
Lookup(r) ==
  /\ req[r].pc = "lookup"
  /\ IF CacheHit
     THEN Decide(r, cache.status, FALSE)
     ELSE /\ free > 0
          /\ Position(r, [req[r] EXCEPT !.pc = "read", !.row = Columns(license)])
  /\ UNCHANGED <<now, license, audit, tx, seen, free, created, data, job, dumped, cache, left>>

(* A cache entry that lives three times as long. *)
MutCacheRow(r) ==
  /\ req[r].pc = "read"
  /\ cache' = [status |-> req[r].row.status, expires |-> now + 3 * CacheTTL]
  /\ Decide(r, req[r].row.status, Expired(req[r].row, now))
  /\ UNCHANGED <<now, license, audit, tx, seen, free, created, data, job, dumped, left>>

(* ... and setex of a row that may have changed since. *)
CacheRow(r) ==
  /\ req[r].pc = "read"
  /\ cache' = [status |-> req[r].row.status, expires |-> now + CacheTTL]
  /\ Decide(r, req[r].row.status, Expired(req[r].row, now))
  /\ UNCHANGED <<now, license, audit, tx, seen, free, created, data, job, dumped, left>>

(* The admitted request does its work, which may write. *)
Serve(r) ==
  /\ req[r].pc = "admitted"
  /\ data' \in {data} \cup {d \in {data + 1} : d <= MaxData}
  /\ Position(r, AtRest)
  /\ UNCHANGED <<now, license, audit, tx, seen, free, created, job, dumped, cache, left>>

-----------------------------------------------------------------------------
(* A request is through with its lookups Latency after they began.  Before *)
(* and after them, and while it archives, it may take as long as it likes. *)
Tick ==
  /\ now < MaxTime
  /\ \A r \in Requests : req[r].pc \in {"lookup", "read"} => now < req[r].since + Latency
  /\ now' = now + 1
  /\ UNCHANGED <<license, audit, tx, seen, free, created, data, job, dumped, cache, req, left>>

Init ==
  /\ now = 1
  /\ license = NoLicense
  /\ audit = Logged("NONE", "NONE")
  /\ tx = [c \in Callers |-> "idle"]
  /\ seen = [c \in Callers |-> NoLicense]
  /\ free = PoolSize
  /\ created = 0
  /\ data = 1
  /\ job = [j \in Jobs |-> [pc |-> "idle", version |-> 0]]
  /\ dumped = 0
  /\ cache = [status |-> "NONE", expires |-> 0]
  /\ req = [r \in Requests |-> AtRest]
  /\ left = 0

(* The routes of license-router.ts, of licenses-lifecycle.ts, and the one  *)
(* service whose route is a placeholder.                                   *)
BackOfficeCall(a) == TransitionLicenseState(a) \/ DeleteLicense(a)
LifecycleCall(a) ==
  TransitionToSoftLock(a) \/ TransitionToActive(a) \/ RestoreFromArchive(a) \/ TransitionToDeleted(a)
Finish(a) == BackOfficeCall(a) \/ LifecycleCall(a) \/ TransitionToArchived(a) \/ Rollback(a)
Administrator(a) == CreateLicense(a) \/ Connect(a) \/ LockRow(a) \/ Finish(a)
SnapshotJob(j) == StartSnapshot(j) \/ Dump(j) \/ RecordSnapshot(j) \/ FailSnapshot(j)
Enforcement(r) == Enforce(r) \/ Lookup(r) \/ CacheRow(r) \/ ArchiveOverdue(r) \/ Refuse(r)
Archiving(r) == TransitionLicenseState(r) \/ Rollback(r)
Request(r) ==
  \/ ReadLicense(r) \/ AutoArchive(r) \/ FailUpdate(r)
  \/ Enforcement(r) \/ LockRow(r) \/ Archiving(r) \/ FailRequest(r)
  \/ Serve(r)

Next ==
  \/ \E a \in Actors : Administrator(a)
  \/ \E j \in Jobs : SnapshotJob(j)
  \/ \E r \in Requests : Request(r)
  \/ Tick

Spec == Init /\ [][Next]_vars

(* A tenant keeps sending requests, and each is worked off; a transaction  *)
(* ends; the UPDATE that waits for the row stands in PostgreSQL's queue    *)
(* and gets it however often others come and go.                           *)
FairSpec ==
  /\ Spec
  /\ \A r \in Requests : /\ WF_vars(ReadLicense(r))
                         /\ WF_vars(Enforcement(r) \/ Serve(r))
                         /\ WF_vars(Archiving(r))
                         /\ SF_vars(AutoArchive(r))
  /\ \A a \in Actors : WF_vars(Finish(a))

-----------------------------------------------------------------------------
(* Properties. *)

Places == [pc : {"idle", "expired", "lookup", "read", "overdue", "archiving", "admitted"},
           step : 0..3, row : Row, since : Nat]

TypeOK ==
  /\ now \in 1..MaxTime
  /\ license \in License
  /\ audit \in Audit
  /\ tx \in [Callers -> {"idle", "waiting", "stale", "locked"}]
  /\ seen \in [Callers -> License]
  /\ {free, created, dumped, left} \subseteq Nat
  /\ data \in 1..MaxData
  /\ job \in [Jobs -> [pc : {"idle", "checked", "uploaded"}, version : 0..MaxData]]
  /\ cache \in [status : LS!LicenseStatuses \cup {"NONE"}, expires : Nat]
  /\ req \in [Requests -> Places]

(* What a call decides on is the row that its UPDATE overwrites, and only  *)
(* one call is past its lock: the services' checks and their writes are    *)
(* one step, whoever else is at work.                                      *)
LockedRowIsCurrent ==
  /\ \A a \in Callers : tx[a] = "locked" => seen[a] = license
  /\ \A a, b \in Callers : tx[a] = "locked" /\ tx[b] = "locked" => a = b

(* The pool is short of one client for each call of createLicense, and of  *)
(* no other: every other service returns its own on every path.            *)
OnlyCreationLeaks ==
  free + created + Cardinality({a \in Callers : tx[a] # "idle"}) = PoolSize

(* Seven writers, two tables of transitions and a middleware: the status   *)
(* moves only as LicenseStateMachine.isValidTransition allows, and a       *)
(* deleted licence stays deleted.                                          *)
ObeysStateMachine == LS!Spec

(* A new audit row names the status the licence had and the one it gets,   *)
(* or announces a job and the status stays.                                *)
AuditTellsTheTruth ==
  [][ audit' # audit =>
        /\ audit'.previous = license.status
        /\ \/ audit'.new = license'.status
           \/ audit'.new \in {"RESTORING", "DELETING"} /\ license' = license ]_vars

RequestActs ==
  \E r \in Requests : req'[r] # req[r] \/ (tx[r] = "locked" /\ tx'[r] # "locked")

(* No request archives a licence before its soft lock has run out, though  *)
(* the row it read may have been unlocked and locked anew.  The direct     *)
(* middleware's UPDATE asks again.  Step 2 of license-enforcement.ts does  *)
(* not, and would archive an ACTIVE licence as well: it is kept from doing *)
(* so only by step 1, and by a grace longer than the two lookups and a     *)
(* cache entry may lie apart (ArchiveUnreached).                           *)
GraceHonoured ==
  [][ RequestActs /\ license'.status # license.status => Expired(license, now) ]_vars

(* With CacheTTL + 2 * Latency <= Grace: a licence that step 1 let pass    *)
(* cannot be soft-locked and have run out when step 2 reads it, so the     *)
(* archive of license-enforcement.ts:108, which it makes "every request",  *)
(* is made by none.                                                        *)
ArchiveUnreached == \A r \in Requests : req[r].pc \notin {"overdue", "archiving"}

(* A request that is let in finds the licence active, or it was so not     *)
(* longer ago than a cache entry lives, the lookups that filled it take,   *)
(* and the request's own lookups take after the first.                     *)
AdmittedRecently ==
  [][ \A r \in Requests :
        req[r].pc # "admitted" /\ req'[r].pc = "admitted"
          => license.status = "ACTIVE" \/ now <= left + CacheTTL + 2 * Latency ]_vars

OverdueSoftLock == license.status = "SOFT_LOCKED" /\ Expired(license, now)

(* From some time on the archiving UPDATE does not fail. *)
UpdatesGetThrough == <>[][\A r \in Requests : ~FailUpdate(r)]_vars

(* A soft lock that has run out ends, given requests to notice it.         *)
ExpiredIsArchived == UpdatesGetThrough => (OverdueSoftLock ~> ~OverdueSoftLock)
=============================================================================
