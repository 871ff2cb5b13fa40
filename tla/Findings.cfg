\* Two overlapping runs of each stage; one page and a batch of two names, one name that
\* only arjun tries, two links to a host and a profile, two search hits; one change of
\* the world and one fault.
CONSTANTS
  r1 = r1  r2 = r2  p1 = p1  p2 = p2  l1 = l1  l2 = l2  l3 = l3
  gone = gone  kept = kept  d1 = d1  d2 = d2  extra = extra
  Nobody = Nobody
  Runs = {r1, r2}
  Stages = {"param_discovery", "broken_links", "dork"}
  Pages = {p1}
  CANDIDATE_PARAMS <- Names
  ArjunOnly = {extra}
  BATCH = 2
  Ordered <- Outbound
  FoundOn <- PageOf
  HostOf <- Destination
  Handles = {l3}
  Hits = {d1, d2}
  MaxFlips = 1
  MaxFaults = 1
SPECIFICATION FairFindingsSpec
INVARIANTS ReproducedIsOpen
PROPERTIES CandidateWasReexamined FindingsSettle
CHECK_DEADLOCK FALSE
