\* The apex and a subdomain, an address of the owner's range, one of a CDN and one
\* of link-local space; two changes by users, names or owners, and a fixed feed.
CONSTANTS
  apex = apex  sub = sub  other = other
  own = own  edge = edge  meta = meta  cf1 = cf1  cf2 = cf2
  Nothing = Nothing
  Hosts = {apex, sub}
  Apex = apex
  Foreign = {other}
  Listed = {sub}
  Archived = {sub}
  Indexed = {sub}
  Web = {apex, sub}
  Addrs = {own, edge, meta, cf1, cf2}
  SpecialKind <- Kinds
  ExcludedHosts = {}
  ExcludedCidrs = {}
  AllowPrivate = FALSE
  Resolutions <- SubMoves
  Requests <- OwnRange
  Managed = {"cloudflare"}
  HandKept = {"akamai"}
  EdgeProviders = {"cloudflare", "akamai"}
  Bundled <- Shipped
  Fetches = {}
  MAX_ACTIVE_CRAWL_HOSTS = 1
  MaxMoves = 2
  MaxLost = 0
SPECIFICATION Spec
INVARIANTS TypeOK  
PROPERTIES MutedStaysMuted ConfirmedOnlyByWorker
