\* A canvas of four nodes with any wires and a bypass; one change and one fault.
CONSTANTS
  c1 = c1  b1 = b1  b2 = b2  typed = typed  found = found  kept = kept  e1 = e1  e2 = e2
  Canvases = {c1}
  Bypasses = {b1}
  Nodes = {1, 2, 3, 4}
  Graphs <- Drawn
  Hosts = {typed, found, kept}
  Typed = {typed, kept}
  InScope = {found}
  Excluded = {kept}
  Endpoints = {e1, e2}
  HostOf <- On
  MaxTries = 2
  MaxMoves = 1
  MaxWrites = 2
  MaxFaults = 1
SPECIFICATION FairSpec
INVARIANTS  FailureStaysBelow 
PROPERTIES RowIsClosed
CHECK_DEADLOCK FALSE
