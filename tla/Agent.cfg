SPECIFICATION FairSpec
CONSTANTS
  app = app
  sys = sys
  own = own
  AppRequests = 2
  SysRequests = 1
  OwnRequests = 1
  Conns = {app, sys, own}
  Own = own
  Local = {own}
  Skipped = {sys}
  MaxExchanges <- Limits
  MaxExits = 1
  TcpRing = 1
  HttpRing = 2
  QueueSize = 1
INVARIANTS
  TypeOK
  ResponsesNameTheirRequest
  RequestsAreToldOnce
PROPERTIES
  StoredRequestsGo
  QueueMoves
CHECK_DEADLOCK FALSE
