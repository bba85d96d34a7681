CONSTANTS
  Nonces <- Solutions
  Slots <- OneSlot
  PendingCap = 1
  QueueCap = 1
  Respawning = 2
  MaxJob = 2
  MaxFaults = 1
  MaxTip = 2
  MaxSends = 2
  MaxMishaps = 2
SPECIFICATION Spec
INVARIANTS
  SharesAccounted
  GrindsOnPoolTip
  RegistrationPending
PROPERTIES
  ShareKept
  SettlesOnlyAnswered
  WakeHonoured
  StallEnds
  EventuallyGrinds
CHECK_DEADLOCK FALSE
