CONSTANTS
  Conn = {c1, c2, c3}
  NoConn = NoConn
  Worker = {w1, w2}
  Sends = {"call"}
  request_queue_size = 2
  max_worker_count = 2
SPECIFICATION FairSpec
CHECK_DEADLOCK FALSE
PROPERTY ServedWhileBusy
