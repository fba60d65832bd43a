\* Three broadcasts, one subscriber that leaves and one that stays.
CONSTANTS
  c1 = c1
  c2 = c2
  c3 = c3
  s1 = s1
  s2 = s2
  Conns = {c1, c2, c3}
  Subs = {s1, s2}
  Owner <- TheOwner
  Quitters = {c1}
  RemoteAddr <- TheAddr
  Addrs <- TheAddrs
  Zero = Zero
  Nil = Nil
SPECIFICATION Spec
INVARIANTS NobodyStranded
\* Every connection and subscription is used once, so the system may stop.
CHECK_DEADLOCK FALSE
