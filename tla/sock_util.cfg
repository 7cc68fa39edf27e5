CONSTANTS
  t1 = t1
  t2 = t2
  host1 = host1
  Threads = {t1, t2}
  Hosts = {host1}
  FDs = {3, 4}
  Async = {TRUE, FALSE}
  expireSec = 1
  Slow = 1
  MaxTime = 3
SPECIFICATION SockSpec
CHECK_DEADLOCK FALSE
INVARIANTS AddressesAreFresh OneHolder SyncConnectIsConnected
SYMMETRY ExchangeThreads
