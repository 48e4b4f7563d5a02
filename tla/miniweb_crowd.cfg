CONSTANTS
  c1 = c1
  c2 = c2
  srv = srv
  Clients = {c1, c2}
  ServerHost = srv
  Hosts = {c1, c2, srv}
  SeqMod = 16
  MaxLen = 7
  InitialSeqs = {1, 14}
  RequestLen = 2
  PageLen = 3
  InFlight = 4
  MaxActive = 2
  EarlySyn = 0
  EarlyData = 2
  MaxLoss = 2
  MaxNoise = 0
  MaxHeld = 2
  Impatient = TRUE
  Arrivals <- MCArrivals
SPECIFICATION Spec
INVARIANT  HandshakeFirst PageAfterRequest WholePages
CHECK_DEADLOCK FALSE
