\* Two broadcasts to two subscribers that stay.
CONSTANTS
  c1 = c1
  c2 = c2
  c3 = c3
  s1 = s1
  s2 = s2
  Conns = {c1, c2}
  Subs = {s1, s2}
  Owner <- TheOwner
  Quitters = {}
  RemoteAddr <- TheAddr
  Addrs <- TheAddrs
  Zero = Zero
  Nil = Nil
SPECIFICATION FairSpec
INVARIANTS CompletedBroadcastReachesAll
PROPERTIES SubscribersAreNotified
\* Every connection and subscription is used once, so the system may stop.
CHECK_DEADLOCK FALSE
