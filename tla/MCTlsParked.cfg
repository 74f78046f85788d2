SPECIFICATION Spec
CONSTANTS
  c1 = c1
  c2 = c2
  t1 = t1
  Conns = {c1, c2}
  NoConn = NoConn
  Pool = {t1}
  Dispatcher = Dispatcher
  NumFds = 2
  RING_DEPTH = 2
  Wrap = 4
  MaxExtra = 0
  CONN_TABLE_INITIAL = 3
  FD_QUEUE_CAP = 2
  MaxSends = 0
  MaxRefusals = 0
CHECK_DEADLOCK FALSE
INVARIANT
  ParkedIsPolled
