\* Launches of a packet with controls, or fires of a repository.
CONSTANTS
  k1 = k1  k2 = k2  k3 = k3  p1 = p1  None = None
  c1 = c1  c2 = c2  w1 = w1  w2 = w2
  Requests = {k1, k2}
  Controls = {c1, c2}
  Workers = {w1, w2}
  Packets = {p1}
  Clients = {"worker", "scheduler"}
  PacketOf <- PacketOfTwo
  KeyOf <- KeyOfTwo
  LimitOf <- Lowered
  MaxLeased = 2
  MaxAttempts = 2
  MaxClaims <- TwoThenOne
  MaxFollowed = 1
  MaxDeliveries = 1
  MaxInputs = 3
SPECIFICATION Spec
SYMMETRY Perms
INVARIANTS SteerKept AbortCancels  Serial Limits Budget
PROPERTY Settled
CHECK_DEADLOCK FALSE
