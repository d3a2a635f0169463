SPECIFICATION BusySpec
CONSTANTS
  Requests = {r1}
  CbTimeout = 2
  MaxClients = 1
PROPERTY ZeroWhenHealthy
