\* One HTTP handler writes a loco speed while a browser connects; the
\* listener only receives datagrams it drops.
CONSTANTS
  h1 = h1  h2 = h2  lst = lst  wt = wt  s1 = s1  s2 = s2
  Handlers = {h1}
  Listener = lst
  Watcher = wt
  Subs = {s1}
  QCap = 8
  Locos <- MCLocos
  Catalog <- MCLocos
  FnIdx <- MCFnIdx
  NumSwitches = 1
  HttpCalls <- SpeedCalls
  Frames <- QuietFrames
  MaxOps = 2
  MaxReloads = 0
SPECIFICATION Spec
INVARIANT ViewConsistent
CHECK_DEADLOCK FALSE
