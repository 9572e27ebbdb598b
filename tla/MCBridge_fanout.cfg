\* Every store path, from an HTTP handler and from the listener, one
\* browser, and a queue small enough to fill during the catch-up burst.
CONSTANTS
  h1 = h1  h2 = h2  lst = lst  wt = wt  s1 = s1  s2 = s2
  Handlers = {h1}
  Listener = lst
  Watcher = wt
  Subs = {s1}
  QCap = 3
  Locos <- MCLocos
  Catalog <- MCLocos
  FnIdx <- MCFnIdx
  NumSwitches = 1
  HttpCalls <- MixedCalls
  Frames <- MixedFrames
  MaxOps = 2
  MaxReloads = 1
SPECIFICATION Spec
INVARIANTS TypeOK 
PROPERTIES ProducersNeverBlock 
CHECK_DEADLOCK FALSE
