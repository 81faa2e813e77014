SPECIFICATION FairSpec
CONSTANTS
  Requests <- MCMixed
  Clients <- MCClients
  MaxIssued = 3
  Retries = 3
  Depth = 2
  MaxLate = 1
  MaxLosses = 1
INVARIANTS
  CounterSound
  CallbacksSafe
  ExactlyOnce
  OnOwnPage
PROPERTIES
  BarrierWaits
  RequestsAnswered
