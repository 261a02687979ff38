\* Two slots, one call, two executions at once.
CONSTANTS
  w1 = w1  w2 = w2  c1 = c1  None = None
  MaxTime = 2
  Calls = {c1}
  Workers = {w1, w2}
  Schedules <- EverySlot
  Policies = {"latest", "all"}
  MaxAllSlots = 1
  RepoLimit = 1
  Guarded = {TRUE}
  MaxLeased = 1
  MaxAttempts = 2
  MaxClaims = 2
  MaxEvents = 4
SPECIFICATION Spec
SYMMETRY Perms
INVARIANTS TypeOK SlotsKept PrecheckOnce LaunchedOnce
CHECK_DEADLOCK FALSE
