SPECIFICATION Spec
CONSTANTS
  Flags = {kJob, kMerge}
  WaitFlag = kWaitFlag
  Posters = {p1, p2, p3}
  Owner = owner
  Free = free
INVARIANTS
  TypeOK
  NoLostWakeup
  WaitFlagOnlyInWait
PROPERTIES
  PendingEndsWait
  ImplementsChannel
