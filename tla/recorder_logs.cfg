\* Two clients and one handle.
CONSTANTS
  a = a
  b = b
  Clients = {a, b}
  MaxPieces <- ThePieces
  Room = 1
  MaxOpen = 1
  Torn = Torn
SPECIFICATION FairSpec
INVARIANTS IInv LogIsPrefix StoppedLogIsWhole
PROPERTIES StopEndsClient LogsGivenBack
