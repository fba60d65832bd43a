\* Three broadcasts to one subscriber that may leave; of the two clients that
\* share an address one may leave and one stays.
CONSTANTS
  c1 = c1
  c2 = c2
  c3 = c3
  s1 = s1
  s2 = s2
  Conns = {c1, c2, c3}
  Subs = {s1}
  Owner <- TheOwner
  Quitters = {c1, c2}
  RemoteAddr <- TheAddr
  Addrs <- TheAddrs
  Zero = Zero
  Nil = Nil
SPECIFICATION FairSpec
INVARIANTS IInv ListIsRight
PROPERTIES ImplementsFeed BlockedOnlyByExited DeadSubscriberUnregisters
\* Every connection and subscription is used once, so the system may stop.
CHECK_DEADLOCK FALSE
