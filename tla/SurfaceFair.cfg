\* Fair phases, feeds that grow and shrink, workers that restart, a DNS answer that goes
\* missing; nobody changes a setting.
CONSTANTS
  apex = apex  sub = sub  other = other
  own = own  edge = edge  meta = meta  cf1 = cf1  cf2 = cf2
  Nothing = Nothing
  Hosts = {apex, sub}
  Apex = apex
  Foreign = {other}
  Listed = {sub}
  Archived = {sub}
  Indexed = {sub}
  Web = {apex, sub}
  Addrs = {own, edge, meta, cf1, cf2}
  SpecialKind <- Kinds
  ExcludedHosts = {}
  ExcludedCidrs = {}
  AllowPrivate = FALSE
  Resolutions <- SubMoves
  Requests <- OwnRange
  Managed = {"cloudflare"}
  HandKept = {"akamai"}
  EdgeProviders = {"cloudflare", "akamai"}
  Bundled <- Shipped
  Fetches <- Published
  MAX_ACTIVE_CRAWL_HOSTS = 1
  MaxMoves = 0
  MaxLost = 1
SPECIFICATION FairSpec
INVARIANTS HandKeptEdgesStay
 
