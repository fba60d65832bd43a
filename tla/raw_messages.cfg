\* Both modes, replies longer than the buffers of reader and socket.
CONSTANTS
  Size <- Download
  BufSize = 3
  Room = 5
  Requests = 3
SPECIFICATION FairSpec
INVARIANTS IInv MessagesIntact
PROPERTIES AllAnswered
\* Both ends stop when the requests are made.
CHECK_DEADLOCK FALSE
