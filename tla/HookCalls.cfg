SPECIFICATION FairSpec
CONSTANTS
  reader = reader
  connector = connector
  owner = owner
  Fibers = {reader, connector, owner}
  Calls <- MCCalls
  MaxCalls <- MCMaxCalls
  Fds = {3}
  Unhooked = {}
  Threads = 1
  TableSize = 64
  MaxSockets = 2
  MaxArrivals = 2
INVARIANTS TimeoutWakes RegistrationLive NeverBlocks ConnectTruth
PROPERTY TimedCallReturns
CHECK_DEADLOCK FALSE
