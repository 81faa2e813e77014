SPECIFICATION Spec
CONSTANTS
  Requests <- MCBulkRead
  Clients <- MCClients
  MaxIssued = 4
  Retries = 3
  Depth = 2
  MaxLate = 2
  MaxLosses = 0
INVARIANT ExactlyOnce
