\* Three browsers connecting, reading, falling behind or leaving while events are published.
CONSTANTS
  s1 = s1  s2 = s2  s3 = s3
  Subs = {s1, s2, s3}
  QCap = 1
  Events <- MCEvents
  MaxPublish = 3
SPECIFICATION BusSpec
INVARIANTS  StreamIsLogSlice
PROPERTY BroadcastSpec
CHECK_DEADLOCK FALSE
