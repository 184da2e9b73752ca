\* Three threads log four messages; the server's socket holds two datagrams.
SPECIFICATION FairSpec
CONSTANTS
  main = main
  poll = poll
  srv = srv
  NoOne = NoOne
  Threads = {main, poll, srv}
  Main = main
  Server = srv
  MaxLogs = 4
  SocketSize = 2
INVARIANT TypeOK
INVARIANT NoTornLog
INVARIANT ShownInOrder
PROPERTY EveryLogReturns
PROPERTY EveryDatagramShown
CHECK_DEADLOCK FALSE
