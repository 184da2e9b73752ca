\* Does a LOG statement return when sending its message fails?
SPECIFICATION FairSpec
CONSTANTS
  main = main
  poll = poll
  srv = srv
  NoOne = NoOne
  Threads = {main, poll, srv}
  Main = main
  Server = srv
  MaxLogs = 3
  SocketSize = 2
CHECK_DEADLOCK FALSE
PROPERTY FailedSendIsLogged
