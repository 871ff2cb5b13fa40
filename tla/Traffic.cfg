\* Two workers with a request each to one target, or two tools on one worker; a burst of
\* two tokens, and two ticks of waiting.
CONSTANTS
  w1 = w1  w2 = w2  f1 = f1  f2 = f2  t1 = t1  t2 = t2
  Workers = {w1, w2}
  Fetches = {f1, f2}
  Streams = {t1}
  Buffered = {t2}
  WorkerOf <- On
  worker_fleet_size = 2
  Burst = 2
  MaxWait = 2
  Drain = 2
SPECIFICATION FairSpec
INVARIANTS TwiceTheCeiling 
PROPERTIES NothingIsDropped
CHECK_DEADLOCK FALSE
