\* A member, the default group and another, a key; two programs for one domain; six
\* modules; two requests in flight and three in all.
CONSTANTS
  s1 = s1  s2 = s2  m1 = m1  g1 = g1  viewer = viewer  k1 = k1  p1 = p1  p2 = p2
  Nobody = Nobody
  MODULES = {"ingest", "probe", "crawl", "js_mine", "supply_chain", "param_discovery"}
  Slots = {s1, s2}
  Members = {m1}
  Groups = {viewer, g1}
  Keys = {k1}
  DefaultGroup = viewer
  Programs = {p1, p2}
  MaxRequests = 3
  MaxTokens = 2
SPECIFICATION ConsoleSpec
INVARIANTS ActsWithinPowers AuthorizedWasProven ToggleCostsWhatIsShown

\* The bound on requests ends every behaviour.
CHECK_DEADLOCK FALSE
