------------------------------- MODULE Surface -------------------------------
(***************************************************************************)
(* The attack surface of one program and the stages that discover and      *)
(* touch it.  A stage reads the stored surface, asks the scope engine      *)
(* which hosts it may touch, runs its tools on them and stores what they   *)
(* found.  Stages run inside a full run, under the scope that was built    *)
(* when the run started, or as single phases, under the program as it is.  *)
(* Meanwhile names move to other addresses, the user changes settings and  *)
(* the shared feed of provider ranges is refreshed.                        *)
(*                                                                         *)
(* A stage is one step here: ScanRuns and PhaseRuns have the order and the *)
(* interruptions of stages, Findings has what they report.                 *)
(***************************************************************************)
EXTENDS Scope

CONSTANTS
  Apex, Foreign,       \* the domain itself; names that tools list and nobody owns
  Listed,              \* hosts the certificate logs and subfinder know
  Indexed,             \* hosts the cloud account or an internet index lists
  Archived,            \* hosts the web archives have pages of
  Web,                 \* hosts that answer over HTTP while they resolve
  Resolutions,         \* what each name may resolve to
  Requests,            \* CIDR lists a user may ask for
  Managed, HandKept,   \* providers whose ranges are fetched, and the others
  EdgeProviders,       \* the providers whose class is "cdn"
  Bundled, Fetches,    \* ranges by provider: of the image, and as fetched
  MAX_ACTIVE_CRAWL_HOSTS,
  Nothing,
  MaxMoves,            \* bound on the changes by users, names and feeds
  MaxLost              \* bound on DNS answers that go missing

Providers == Managed \cup HandKept
Names == Hosts \cup Foreign

ASSUME SurfaceAssumption ==
  /\ IsFiniteSet(Hosts) /\ Nothing \notin [resolved_ips : SUBSET Addrs, monitored : BOOLEAN]
  /\ Apex \in Hosts /\ UNION {Listed, Indexed, Archived, Web} \subseteq Hosts
  /\ Foreign \cap Hosts = {}
  /\ Resolutions \in [Hosts -> SUBSET SUBSET Addrs] /\ Requests \subseteq SUBSET Addrs
  /\ Managed \cap HandKept = {} /\ EdgeProviders \subseteq Providers
  /\ Bundled \in [Providers -> SUBSET Addrs]
  /\ Fetches \subseteq [Managed -> SUBSET Addrs]
  /\ MAX_ACTIVE_CRAWL_HOSTS \in Nat /\ MaxMoves \in Nat /\ MaxLost \in Nat

VARIABLES
  \* the world
  dns,           \* addresses of each host now
  announced,     \* addresses the apex's own networks announce
  \* the settings
  program,       \* [scan_shared_infra, scope_override]
  ip_scope,      \* of the authorization: requested ranges with their verdicts
  feed,          \* the feed in the database, Nothing before the first refresh
  engine,        \* the ranges the worker classifies with
  \* the collections
  assets,        \* [resolved_ips, monitored] by host
  endpoints,     \* by host: "none", "some", or "probe" while the probe's "/" is stored
  ports,         \* by address: "closed", "open" or "service" (identified)
  \* the full run
  full,          \* [at, program, requested, scope]
  moves, lost

settingVars == <<program, ip_scope>>
feedVars == <<feed, engine>>
worldVars == <<dns, announced>>
boundVars == <<moves, lost>>
vars == <<dns, announced, program, ip_scope, feed, engine, assets, endpoints,
          ports, full, moves, lost>>

Ranges(f) == [cdn |-> UNION {f[p] : p \in EdgeProviders},
              cloud_shared |-> UNION {f[p] : p \in Providers \ EdgeProviders}]

\* A mutant: the scope takes the entries for their ranges.
ScopeOfEntries(p, entries) ==
  [authorized_dedicated_cidrs |-> {e \in entries : e.dedicated},
   scan_shared_infra |-> p.scan_shared_infra,
   scope_override |-> p.scope_override]

\* build_program_scope
Scope(p, entries) ==
  [authorized_dedicated_cidrs |-> {e.cidr : e \in {d \in entries : d.dedicated}},
   scan_shared_infra |-> p.scan_shared_infra,
   scope_override |-> p.scope_override]

NoScope == Scope([scan_shared_infra |-> FALSE, scope_override |-> FALSE], {})
NoRun == [at |-> "idle", requested |-> {}, scope |-> NoScope]

-----------------------------------------------------------------------------
(* What stages read *)

Stored == {h \in Hosts : assets[h] # Nothing}
Monitored == {h \in Stored : assets[h].monitored}
Recorded(h) == IF h \in Stored THEN assets[h].resolved_ips ELSE {}
permits(h, action, scope) == action \in evaluate(h, Recorded(h), scope, Ranges(engine))
WithEndpoint == {h \in Hosts : endpoints[h] # "none"}

\* alive_hosts of the crawl
Alive == {h \in Hosts : endpoints[h] = "probe"}

\* A mutant: an observation writes every field of the model.
ObservedAll(hs, ips) ==
  [h \in Hosts |-> IF h \notin hs THEN assets[h]
                   ELSE [resolved_ips |-> ips[h], monitored |-> TRUE]]

\* A mutant: only a new host gets its addresses.
ObservedOnce(hs, ips) ==
  [h \in Hosts |-> IF h \notin hs \ Stored THEN assets[h]
                   ELSE [resolved_ips |-> ips[h], monitored |-> TRUE]]

\* Repository.upsert of assets: an observation replaces the addresses and leaves
\* the user's switch alone.
Observed(hs, ips) ==
  [h \in Hosts |->
     IF h \notin hs THEN assets[h]
     ELSE [resolved_ips |-> ips[h],
           monitored |-> h \in Stored => assets[h].monitored]]

\* Hosts of a run: all of them, or the targets of a cascade.
Within(targets) == IF targets = {} THEN Hosts ELSE targets

-----------------------------------------------------------------------------
(* Passive discovery *)

\* resolve_hosts: the addresses of the names, unless the answer goes missing.
Resolve(missing) == [h \in Hosts |-> IF h \in missing THEN {} ELSE dns[h]]

\* run_ingest: what subfinder and crt.sh list and the apex, whether they resolve or
\* not, and the guesses of alterx that resolve.
Ingest(scope) ==
  \E listed \in SUBSET (Listed \cup Foreign), missing \in SUBSET Hosts :
    \E guessed \in SUBSET (Hosts \ listed) :
      LET resolved == Resolve(missing)
          in_scope == {h \in listed \cup {Apex} : owns_host(h)}
                        \cup {h \in guessed : owns_host(h) /\ resolved[h] # {}}
      IN  /\ assets' = Observed(in_scope, resolved)
          /\ lost' = lost + Cardinality(missing)
    /\ lost' <= MaxLost
    /\ UNCHANGED <<endpoints, ports>>

NoAddrs == [h \in Hosts |-> {}]

\* run_cloud_assets: names of the cloud accounts under the apex, without addresses.
CloudAssets(scope) ==
  \E listed \in SUBSET (Indexed \cup Foreign) :
    /\ assets' = Observed({h \in listed : owns_host(h)}, NoAddrs)
    /\ UNCHANGED <<endpoints, ports, lost>>

\* _ip_authorized
ip_authorized(ip, scope) ==
  /\ ip \in scope.authorized_dedicated_cidrs
  /\ ip \notin ExcludedCidrs

\* run_uncover: names under the apex, and ports on addresses that are authorized.
Uncover(scope) ==
  \E listed \in SUBSET (Indexed \cup Foreign) :
    \E open \in SUBSET {ip \in Addrs : ip_authorized(ip, scope)} :
      /\ assets' = Observed({h \in listed : owns_host(h)}, NoAddrs)
      /\ ports' = [a \in Addrs |-> IF a \in open THEN "open" ELSE ports[a]]
    /\ UNCHANGED <<endpoints, lost>>

\* run_reverse_dns: names that the confirmed ranges point back to.
ReverseDns(scope) ==
  \E hits \in SUBSET Hosts, ptr \in [Hosts -> scope.authorized_dedicated_cidrs] :
    /\ assets' = Observed(hits, [h \in Hosts |-> {ptr[h]}])
    /\ UNCHANGED <<endpoints, ports, lost>>

-----------------------------------------------------------------------------
(* Touching hosts *)

\* A mutant: the probe forgets the user's switch.
probeableMuted(scope, targets) ==
  {h \in Stored \cap Within(targets) : permits(h, "http_probe", scope)}

probeable(scope, targets) ==
  {h \in Monitored \cap Within(targets) : permits(h, "http_probe", scope)}

\* httpx: the hosts that answer.
Answering(hs) == {h \in hs \cap Web : dns[h] # {}}

\* run_probe
Probe(scope, targets) ==
  LET hs == probeable(scope, targets)
  IN  /\ hs # {}
      /\ endpoints' = [h \in Hosts |-> IF h \in Answering(hs)
                                       THEN "probe"
                                       ELSE endpoints[h]]
      /\ UNCHANGED <<assets, ports, lost>>

\* A further path is stored beside the endpoints there are.
AddedPath(h, found) ==
  IF h \in found /\ endpoints[h] = "none" THEN "some" ELSE endpoints[h]

crawlable(scope, targets) ==
  {h \in Monitored \cap Within(targets) \cap Alive : permits(h, "http_probe", scope)}

\* run_crawl: archives of the apex, unless the run has targets, and katana on the
\* first hosts of the list.  A root found again takes the source "crawl".
Crawl(scope, targets) ==
  \E crawled \in SUBSET crawlable(scope, targets) :
    /\ Cardinality(crawled) <= MAX_ACTIVE_CRAWL_HOSTS
    /\ \/ crawled = crawlable(scope, targets)
       \/ Cardinality(crawled) = MAX_ACTIVE_CRAWL_HOSTS
    /\ \E found \in SUBSET (Answering(crawled)
                            \cup (IF targets = {} THEN Archived ELSE {})) :
         \E root \in SUBSET found :
           endpoints' = [h \in Hosts |-> IF h \in root THEN "some"
                                         ELSE AddedPath(h, found)]
    /\ UNCHANGED <<assets, ports, lost>>

scannable(scope, targets) ==
  {h \in Monitored \cap Within(targets) : permits(h, "port_scan", scope)}

\* run_port_scan: the ports naabu finds open are stored without a service.
PortScan(scope, targets) ==
  LET hs == scannable(scope, targets)
  IN  /\ hs # {}
      /\ \E open \in SUBSET UNION {dns[h] : h \in hs} :
           ports' = [a \in Addrs |-> IF a \in open THEN "open" ELSE ports[a]]
      /\ UNCHANGED <<assets, endpoints, lost>>

\* run_service_scan: nmap on every stored port, whatever the scope says by now.
ServiceScan(scope) ==
  LET known == {a \in Addrs : ports[a] # "closed"}
  IN  /\ known # {}
      /\ \E answered \in SUBSET known :
           ports' = [a \in Addrs |-> IF a \in answered THEN "service" ELSE ports[a]]
      /\ UNCHANGED <<assets, endpoints, lost>>

\* The hosts of root_by_host: any stored endpoint counts, not the probe's alone.
bruteforceable(scope) ==
  {h \in Monitored \cap WithEndpoint : permits(h, "content_discovery", scope)}

\* run_content_discovery
ContentDiscovery(scope) ==
  LET hs == bruteforceable(scope)
  IN  /\ hs # {}
      /\ \E found \in SUBSET Answering(hs) :
           endpoints' = [h \in Hosts |-> AddedPath(h, found)]
      /\ UNCHANGED <<assets, ports, lost>>

-----------------------------------------------------------------------------
(* Stages that start from the stored endpoints *)

\* Hosts of endpoints; an endpoint without an asset has no addresses and is left.
reachable(scope, targets) ==
  {h \in WithEndpoint \cap Within(targets) : permits(h, "http_probe", scope)}

\* Paths that a stage read on the hosts, of any host under the apex.
AddsPaths(hs) ==
  /\ hs # {}
  /\ \E found \in SUBSET Hosts :
       endpoints' = [h \in Hosts |-> AddedPath(h, found)]
  /\ UNCHANGED <<assets, ports, lost>>

\* The scripts of run_js_mine may be on any host with an endpoint.
mineable(scope) == reachable(scope, {})

\* run_js_mine
JsMine(scope) == AddsPaths(mineable(scope))

\* The origins of run_api_surface
origins(scope) == reachable(scope, {})

\* run_api_surface
ApiSurface(scope) == AddsPaths(origins(scope))

-----------------------------------------------------------------------------
(* Hosts of the stages that only report findings *)

\* run_tls_scan
inspectable(scope) == {h \in Stored : permits(h, "tls_inspect", scope)}

\* run_takeover: every monitored host that resolved, without a look at the scope.
takeoverCandidates == {h \in Monitored : Recorded(h) # {}}

\* allowed of run_http_misconfig
misconfigurable(scope) == {h \in reachable(scope, {}) : owns_host(h)}

\* The targets of run_param_discovery
paramTargets(scope) == {h \in reachable(scope, {}) : owns_host(h)}

\* The urls of run_secret_scan
readable(scope, targets) == reachable(scope, targets)

\* run_scan: the hosts of the full template corpus; the others get its safe part.
aggressiveHosts(scope, targets) ==
  {h \in reachable(scope, targets) : permits(h, "active_scan", scope)}
safeHosts(scope, targets) == reachable(scope, targets) \ aggressiveHosts(scope, targets)

\* What the stages would touch now: stage, host, action.
Touches(scope) ==
  UNION {{"probe"} \X probeable(scope, {}) \X {"http_probe"},
         {"crawl"} \X crawlable(scope, {}) \X {"http_probe"},
         {"port_scan"} \X scannable(scope, {}) \X {"port_scan"},
         {"content_discovery"} \X bruteforceable(scope) \X {"content_discovery"},
         {"js_mine"} \X mineable(scope) \X {"http_probe"},
         {"api_surface"} \X origins(scope) \X {"http_probe"},
         {"tls"} \X inspectable(scope) \X {"tls_inspect"},
         {"http_misconfig"} \X misconfigurable(scope) \X {"http_probe"},
         {"param_discovery"} \X paramTargets(scope) \X {"http_probe"},
         {"secrets"} \X readable(scope, {}) \X {"http_probe"},
         {"scan"} \X aggressiveHosts(scope, {}) \X {"active_scan"},
         {"scan"} \X safeHosts(scope, {}) \X {"http_probe"}}

-----------------------------------------------------------------------------
(* Runs *)

\* One stage; the cascade narrows three of them to some hosts.
Targeted(scope, targets) ==
  Probe(scope, targets) \/ Crawl(scope, targets) \/ PortScan(scope, targets)

Stage(scope) ==
  \/ Ingest(scope) \/ CloudAssets(scope) \/ Uncover(scope) \/ ReverseDns(scope)
  \/ ServiceScan(scope) \/ ContentDiscovery(scope) \/ JsMine(scope) \/ ApiSurface(scope)
  \/ Targeted(scope, {})

\* run_program reads the program and the authorization, then asks asnmap.
StartFullRun ==
  /\ full.at = "idle"
  /\ full' = [at |-> "confirming", requested |-> {e.cidr : e \in ip_scope},
              scope |-> Scope(program, {})]
  /\ UNCHANGED <<worldVars, settingVars, feedVars, assets, endpoints, ports,
                 boundVars>>

\* confirm_authorization_ip_scope: the verdicts go to the record and to the scope;
\* without an answer of asnmap nothing is confirmed.
ConfirmIpScope ==
  /\ full.at = "confirming"
  /\ \E answered \in BOOLEAN :
       LET entries == confirm_ip_scope(full.requested,
                                       IF answered THEN announced ELSE {}, Ranges(engine))
       IN  /\ ip_scope' = IF full.requested = {} THEN ip_scope ELSE entries
           /\ full' = [full EXCEPT !.at = "running", !.scope = Scope(full.scope, entries)]
  /\ UNCHANGED <<worldVars, program, feedVars, assets, endpoints, ports, boundVars>>

FullRunStage ==
  /\ full.at = "running"
  /\ Stage(full.scope)
  /\ UNCHANGED <<worldVars, settingVars, feedVars, full, moves>>

EndFullRun ==
  /\ full.at = "running"
  /\ full' = NoRun
  /\ UNCHANGED <<worldVars, settingVars, feedVars, assets, endpoints, ports,
                 boundVars>>

\* run_pipeline builds the scope from the records as they are.
PhaseScope == Scope(program, ip_scope)

Phase ==
  /\ Stage(PhaseScope) \/ \E h \in Hosts : Targeted(PhaseScope, {h})
  /\ UNCHANGED <<worldVars, settingVars, feedVars, full, moves>>

-----------------------------------------------------------------------------
(* Users, names and feeds *)

Moves == moves < MaxMoves /\ moves' = moves + 1

\* set_asset_monitoring
SetMonitored(h, value) ==
  /\ Moves
  /\ h \in Stored
  /\ assets' = [assets EXCEPT ![h].monitored = value]
  /\ UNCHANGED <<worldVars, settingVars, feedVars, endpoints, ports, full, lost>>

\* set_scan_config
SetScanConfig(field, value) ==
  /\ Moves
  /\ program' = [program EXCEPT ![field] = value]
  /\ UNCHANGED <<worldVars, ip_scope, feedVars, assets, endpoints, ports, full, lost>>

\* create_authorization: the ranges are requested, none is confirmed.
CreateAuthorization(requested) ==
  /\ Moves
  /\ ip_scope' = {[cidr |-> c, dedicated |-> FALSE] : c \in requested}
  /\ UNCHANGED <<worldVars, program, feedVars, assets, endpoints, ports, full, lost>>

\* A name moves to other addresses.
Rehome(h, ips) ==
  /\ Moves
  /\ dns' = [dns EXCEPT ![h] = ips]
  /\ UNCHANGED <<announced, settingVars, feedVars, assets, endpoints, ports, full, lost>>

\* The owner stops announcing an address.
Withdraw(ip) ==
  /\ Moves
  /\ announced' = announced \ {ip}
  /\ UNCHANGED <<dns, settingVars, feedVars, assets, endpoints, ports, full, lost>>

cidr_count(f) == Cardinality({x \in Providers \X Addrs : x[2] \in f[x[1]]})

\* A mutant: a refresh starts from the stored feed only.
StoredOnly == IF feed = Nothing THEN [p \in Providers |-> {}] ELSE feed

\* update_scope_feeds_to_mongo: a refresh starts from the stored feed, or from the
\* one of the image while that has more ranges.
current_feed == IF feed = Nothing \/ cidr_count(feed) < cidr_count(Bundled)
                THEN Bundled ELSE feed

\* build_feed: the fetched providers replace theirs, the others stay.
build_feed(fetched, current) ==
  [p \in Providers |-> IF p \in Managed THEN fetched[p] ELSE current[p]]

\* validate_feed: no fetched provider is empty and none lost more than 30 percent.
valid_feed(new, current) ==
  /\ \A p \in Managed : new[p] # {}
  /\ \A p \in Providers : 10 * Cardinality(new[p]) >= 7 * Cardinality(current[p])

\* maybe_refresh_scope_feed; a feed that is refused leaves the stored one.
RefreshFeed ==
  /\ \E fetched \in Fetches :
       LET new == build_feed(fetched, current_feed)
       IN  valid_feed(new, current_feed) /\ feed' = new
  /\ UNCHANGED <<worldVars, settingVars, engine, assets, endpoints, ports, full, boundVars>>

\* build_scope_engine at the start of a worker: the stored feed unless it has fewer
\* ranges than the one of the image.  The full run of the old worker is gone.
RestartWorker ==
  /\ engine' = IF feed = Nothing \/ cidr_count(feed) < cidr_count(Bundled)
               THEN Bundled ELSE feed
  /\ full' = NoRun
  /\ UNCHANGED <<worldVars, settingVars, feed, assets, endpoints, ports, boundVars>>

Environment ==
  \/ \E h \in Hosts, value \in BOOLEAN : SetMonitored(h, value)
  \/ \E field \in DOMAIN program, value \in BOOLEAN : SetScanConfig(field, value)
  \/ \E requested \in Requests : CreateAuthorization(requested)
  \/ \E h \in Hosts : \E ips \in Resolutions[h] : Rehome(h, ips)
  \/ \E ip \in announced : Withdraw(ip)
  \/ RefreshFeed \/ RestartWorker

Init ==
  /\ dns \in {f \in [Hosts -> SUBSET Addrs] : \A h \in Hosts : f[h] \in Resolutions[h]}
  /\ announced \in Requests
  /\ program = [scan_shared_infra |-> FALSE, scope_override |-> FALSE]
  /\ ip_scope = {[cidr |-> c, dedicated |-> FALSE] : c \in announced}
  /\ feed = Nothing /\ engine = Bundled
  /\ assets = [h \in Hosts |-> Nothing]
  /\ endpoints = [h \in Hosts |-> "none"]
  /\ ports = [a \in Addrs |-> "closed"]
  /\ full = NoRun /\ moves = 0 /\ lost = 0

Next == \/ StartFullRun \/ ConfirmIpScope \/ FullRunStage \/ EndFullRun
        \/ Phase
        \/ Environment

Spec == Init /\ [][Next]_vars

\* Each phase is run again and again over the whole program (PhaseRuns: PhaseRecurs).
IngestPhase == Ingest(PhaseScope) /\ UNCHANGED <<worldVars, settingVars, feedVars, full, moves>>
ProbePhase == Probe(PhaseScope, {}) /\ UNCHANGED <<worldVars, settingVars, feedVars, full, moves>>
FairSpec == Spec /\ WF_vars(IngestPhase) /\ WF_vars(ProbePhase)

-----------------------------------------------------------------------------
(* Properties *)

TypeOK ==
  /\ dns \in [Hosts -> SUBSET Addrs] /\ announced \subseteq Addrs
  /\ program \in [scan_shared_infra : BOOLEAN, scope_override : BOOLEAN]
  /\ ip_scope \subseteq [cidr : Addrs, dedicated : BOOLEAN]
  /\ feed \in [Providers -> SUBSET Addrs] \cup {Nothing}
  /\ engine \in [Providers -> SUBSET Addrs]
  /\ assets \in [Hosts -> [resolved_ips : SUBSET Addrs, monitored : BOOLEAN]
                           \cup {Nothing}]
  /\ endpoints \in [Hosts -> {"none", "some", "probe"}]
  /\ ports \in [Addrs -> {"closed", "open", "service"}]
  /\ full \in [at : {"idle", "confirming", "running"}, requested : SUBSET Addrs,
               scope : Scopes]
  /\ moves \in 0..MaxMoves /\ lost \in 0..MaxLost

\* The guarantees that core/scope.py states, for what the stages that ask the engine
\* would touch now, under the scope their run works with: a host on the exclusion list is not touched, nor
\* one recorded at an excluded or link-local address, at any internal address unless
\* the override is on, or at no address at all.  Ports, brute force and active scans
\* go to a host only if each of its addresses is confirmed, or opted in and no CDN
\* edge, or the override is on.
TouchAllowed(h, action, scope) ==
  LET Kind(ip) == classify_ip(ip, Ranges(engine))
      ips == Recorded(h)
  IN  /\ h \notin ExcludedHosts /\ ips # {}
      /\ ips \cap ExcludedCidrs = {}
      /\ \A ip \in ips :
           /\ Kind(ip) # "link_local"
           /\ Kind(ip) \in HARD_DENY =>
                scope.scope_override \/ (AllowPrivate /\ Kind(ip) = "private")
           /\ action \notin HTTP_LAYER_ACTIONS =>
                \/ scope.scope_override
                \/ Kind(ip) = "private"
                \/ /\ Kind(ip) # "cdn"
                   /\ \/ scope.scan_shared_infra
                      \/ ip \in scope.authorized_dedicated_cidrs

InForce == {PhaseScope} \cup (IF full.at = "running" THEN {full.scope} ELSE {})

AskedIsAllowed ==
  \A scope \in InForce : \A t \in Touches(scope) : TouchAllowed(t[2], t[3], scope)

\* A host that the user muted is left alone by the probe, the crawl, the port scan,
\* the brute force and the takeover check of every run.
MutedIsLeftAlone ==
  \A h \in Stored \ Monitored :
    /\ h \notin takeoverCandidates
    /\ \A scope \in InForce : \A t \in Touches(scope) :
         t[2] = h => t[1] \notin {"probe", "crawl", "port_scan", "content_discovery"}

\* A muted host stays muted however often and by whatever stage it is discovered
\* again, until the user switches it on.
MutedStaysMuted ==
  [][moves' = moves => Stored \ Monitored \subseteq Stored' \ Monitored']_assets

\* Ranges that are confirmed, in the record or in a scope, were announced by the apex
\* when a run asked; nothing a user sends confirms a range.  Withdrawn addresses keep
\* their verdict until a full run asks again.
ConfirmedOnlyByWorker ==
  [][\A e \in ip_scope' \ ip_scope :
       e.dedicated => /\ full.at = "confirming" /\ e.cidr \in full.requested
                      /\ e.cidr \in announced /\ e.cidr \notin Ranges(engine).cdn]_ip_scope

\* The edges of the providers kept by hand are edges for every worker: no sequence of
\* refreshes that the updater accepts, and no restart, loses them.
HandKeptEdgesStay ==
  \A p \in HandKept \cap EdgeProviders : Bundled[p] \subseteq Ranges(engine).cdn

\* A host that is listed, resolves, answers and may be probed for good gets an endpoint,
\* although answers of the DNS go missing and no cascade is counted on.
Probeable(h) ==
  /\ h \in Web /\ dns[h] # {}
  /\ h \in Stored => assets[h].monitored
  /\ "http_probe" \in evaluate(h, dns[h], PhaseScope, Ranges(engine))

GetsProbed(h) == <>[]Probeable(h) => <>(endpoints[h] # "none")

ListedGetsProbed == GetsProbed(Apex)
=============================================================================
