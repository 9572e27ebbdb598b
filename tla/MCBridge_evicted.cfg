\* A browser that reads its stream (weak fairness on its q.get loop) while
\* a handler publishes into its full queue.
CONSTANTS
  h1 = h1  h2 = h2  lst = lst  wt = wt  s1 = s1  s2 = s2
  Handlers = {h1}
  Listener = lst
  Watcher = wt
  Subs = {s1}
  QCap = 2
  Locos <- MCLocos
  Catalog <- MCLocos
  FnIdx <- MCFnIdx
  NumSwitches = 1
  HttpCalls <- SpeedCalls
  Frames <- QuietFrames
  MaxOps = 2
  MaxReloads = 0
SPECIFICATION FairConsumerSpec
PROPERTY EvictedStreamCloses
CHECK_DEADLOCK FALSE
