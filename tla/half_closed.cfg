CONSTANTS
  c1 = c1
  c2 = c2
  srv = srv
  Clients = {c1, c2}
  ServerHost = srv
  Hosts = {c1, c2, srv}
  SeqMod = 16
  MaxLen = 7
  InitialSeqs = {1, 14}
  RequestLen = 2
  PageLen = 3
  InFlight = 4
  MaxActive = 1
  EarlySyn = 0
  EarlyData = 0
  MaxLoss = 0
  MaxNoise = 0
  MaxHeld = 0
  Impatient = FALSE
  Arrivals <- MCArrivals
SPECIFICATION Spec
PROPERTY ClosesBothWays
CHECK_DEADLOCK FALSE
