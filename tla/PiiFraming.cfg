SPECIFICATION Spec
CONSTANTS
  Requests = {r1}
  CbTimeout = 2
  MaxClients = 1
INVARIANT RepliesFramed
