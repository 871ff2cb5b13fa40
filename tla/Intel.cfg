\* Two overlapping runs of each stage; two bodies with two secrets of which one is
\* live and one known to trufflehog only; two matches, hosts, templates and records;
\* one change of the world and one fault.
CONSTANTS
  r1 = r1  r2 = r2  p1 = p1  p2 = p2  s1 = s1  s2 = s2  s3 = s3  n1 = n1  n2 = n2
  h1 = h1  h2 = h2  g1 = g1  g2 = g2  t1 = t1  t2 = t2  spf = spf  dmarc = dmarc
  Nobody = Nobody
  Runs = {r1, r2}
  Stages = {"secrets", "scan", "takeover", "nuclei_watch", "domain_intel",
            "cloud_buckets", "typosquat", "cve_watch", "supply_chain", "github_osint"}
  Pages = {p1, p2}
  Secrets = {s1, s2, s3}
  PageOf <- Where
  Patterned = {s1, s2}
  Live = {s1}
  Queries = 2
  ShownBy <- Shown
  MaxCandidates = 1
  Guesses = {g1, g2}
  Graver = {g1}
  Matches = {n1, n2}
  Hosts = {h1, h2}
  Templates = {t1, t2}
  Records = {spf, dmarc}
  MaxMoves = 1
  MaxFaults = 1
SPECIFICATION FairSpec
INVARIANTS FoundIsStored
PROPERTIES NewOnce FlagSettles PostureSettles
CHECK_DEADLOCK FALSE
