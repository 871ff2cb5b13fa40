\* Two runs of any kind overlap over two phases, one of whose items both find.
CONSTANTS
  a = a  b = b  r1 = r1  r2 = r2
  NPhases = 2
  Items = {a, b}
  SeenBy <- Overlapping
  Runs = {r1, r2}
  MaxTime = 2
  MaxTurns = 1
  Grace = 0
  Empty = FALSE
SPECIFICATION Spec
SYMMETRY Symmetry
 
PROPERTIES OpenRunsResolveNothing
CHECK_DEADLOCK FALSE
