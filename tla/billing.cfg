SPECIFICATION Spec
CONSTANTS
  Calls = {c1, c2}
  Invoices = {i1, i2}
  Subs = {s1, s2}
  Keys = {k1, k2}
  Files = {f1}
  StaffStatuses = {"SUSPENDED"}
  None = None
SYMMETRY Symmetric
INVARIANTS
  TypeOK
  StatusMirrorsSubscription
  PaidOnce
  LogTellsTheStatus
  NumbersAreDense
  NoLockCycle
PROPERTIES
  PaidOnActivePlan
  ImplementsLedger
