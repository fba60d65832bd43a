\* Three clients on two listeners.
CONSTANTS
  unix = unix
  tcp = tcp
  c1 = c1
  c2 = c2
  c3 = c3
  Listeners = {unix, tcp}
  Conns = {c1, c2, c3}
  Via <- TheVia
SPECIFICATION FairServerSpec
INVARIANTS ServerInv SurvivesEOF ErrorsAreSeen
PROPERTIES FailedIsClosed
\* The server ends with its first error.
CHECK_DEADLOCK FALSE
