CONSTANTS
  Clients = {c1}
  None = None
  WordBytes = 4
  BUFSIZE = 2
  BUFWATERMARK = 2
  MAXBUFSIZE = 3
  Lengths = {1, 2}
  AuthLengths = {0, 1}
  MaxRequests = 2
  MaxSent = 2
  ResetBig = TRUE
SPECIFICATION Spec
PROPERTY ImplementsStream
CHECK_DEADLOCK FALSE
