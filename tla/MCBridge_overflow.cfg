\* A catch-up burst longer than the queue: the tail is dropped and the connection kept.
CONSTANTS
  h1 = h1  h2 = h2  lst = lst  wt = wt  s1 = s1  s2 = s2
  Handlers = {h1}
  Listener = lst
  Watcher = wt
  Subs = {s1}
  QCap = 2
  Locos <- MCLocos
  Catalog <- MCLocos
  FnIdx <- MCFnIdx
  NumSwitches = 1
  HttpCalls <- MixedCalls
  Frames <- MixedFrames
  MaxOps = 1
  MaxReloads = 0
SPECIFICATION Spec
INVARIANT CatchUpLossDropsSubscriber
CHECK_DEADLOCK FALSE
