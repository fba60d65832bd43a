\* Two clients, two workers.
CONSTANTS
  a = a
  b = b
  Clients = {a, b}
  Cmd <- TheCommands
  Workers = 2
  Rounds <- TheRounds
SPECIFICATION FairSpec
INVARIANTS IInv NoWrongNumber CountedOnce
PROPERTIES ClientsEnd
CHECK_DEADLOCK FALSE
