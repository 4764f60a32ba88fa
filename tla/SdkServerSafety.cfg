CONSTANTS
  Conn = {c1, c2, c3}
  NoConn = NoConn
  Worker = {w1, w2, w3}
  Sends = {"call", "raises", "nothing", "wrong form", "wrong name"}
  request_queue_size = 1
  max_worker_count = 2
SPECIFICATION Spec
SYMMETRY Alike
CHECK_DEADLOCK FALSE
INVARIANT TypeOK
 
