\* An HTTP handler and the listener write the same loco's speed.
CONSTANTS
  h1 = h1  h2 = h2  lst = lst  wt = wt  s1 = s1  s2 = s2
  Handlers = {h1}
  Listener = lst
  Watcher = wt
  Subs = {}
  QCap = 8
  Locos <- MCLocos
  Catalog <- MCLocos
  FnIdx <- MCFnIdx
  NumSwitches = 1
  HttpCalls <- SpeedCalls
  Frames <- SpeedFrames
  MaxOps = 2
  MaxReloads = 0
SPECIFICATION Spec
INVARIANT PublishedMatchesStore
CHECK_DEADLOCK FALSE
