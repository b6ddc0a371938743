CONSTANTS
  Addrs = {a1}
  Workers = {w1, w2}
  CountToBan = 2
  SecToUnBan = 1
  MaxTime = 3
  MaxRequests = 5
SPECIFICATION Spec
INVARIANT BanWithinWindow
