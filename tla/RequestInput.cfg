CONSTANTS
  Clients = {c1, c2}
  None = None
  WordBytes = 3
  BUFSIZE = 2
  BUFWATERMARK = 2
  MAXBUFSIZE = 3
  Lengths = {1, 3}
  AuthLengths = {1}
  MaxRequests = 2
  MaxSent = 2
  ResetBig = FALSE
SPECIFICATION Spec
INVARIANTS
  BufferBounds
  NoHiddenRequest
  OneOwner
PROPERTY ImplementsStream
SYMMETRY Symmetry
CHECK_DEADLOCK FALSE
