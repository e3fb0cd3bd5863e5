\* A session, a webhook, an admin request, and a pool of one to two connections.
SPECIFICATION ServerSpec
CONSTANTS
  Threads = {t1, loop}
  Workers = {t1}
  Loop = loop
  Sessions = {v1}
  Conns = {p1, p2}
  MinConns = 1
  MaxConns = 1
  Transactions = 2
  SlotBound = 1
  NoThread = NoThread
  NoConn = NoConn
  NoWorker = NoWorker
INVARIANTS
  ServerTypeOK
  NoSharedConnection
  OwnTransaction
PROPERTIES
  GoneIsNoticed
  ThreadsReturn
