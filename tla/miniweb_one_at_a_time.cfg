CONSTANTS
  c1 = c1
  c2 = c2
  srv = srv
  Clients = {c1, c2}
  ServerHost = srv
  Hosts = {c1, c2, srv}
  SeqMod = 16
  MaxLen = 7
  InitialSeqs = {1, 14}
  RequestLen = 2
  PageLen = 3
  InFlight = 4
  MaxActive = 1
  EarlySyn = 0
  EarlyData = 1
  MaxLoss = 0
  MaxNoise = 1
  MaxHeld = 1
  Impatient = FALSE
  Arrivals <- MCArrivals
SPECIFICATION Spec
INVARIANT TypeOK SessionIsOneConversation RequestIsRequest LeavesNoneOpen AnswersInOrder PhantomAckOnlyInFin PageIntact
PROPERTY EveryClientServed EveryCloseAnswered ListensAgain ImplementsService
CHECK_DEADLOCK FALSE
