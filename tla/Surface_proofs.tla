----------------------------- MODULE Surface_proofs -----------------------------
(***************************************************************************)
(* What the stages may touch and store, and how findings are opened and    *)
(* retired, for any number of hosts, runs, pages and names.                *)
(*                                                                         *)
(* The properties of the surface are about the scope engine, whatever is   *)
(* recorded; two rest on an invariant: on the types, and on the hand-kept  *)
(* ranges being in the stored feed as well as in the worker's memory.      *)
(*                                                                         *)
(* Findings: ReproducedIsOpen and CandidateWasReexamined are not inductive.*)
(* A run answers for what it found and for what it was told to be absent   *)
(* long before it stores or retires anything; the proof keeps that the     *)
(* batches in the queue, with what was asked already, hold every name of   *)
(* the page, and that of two runs neither is alone.                        *)
(***************************************************************************)
EXTENDS Surface, Findings, FiniteSetTheorems, TLAPS

-----------------------------------------------------------------------------
(* What the stages would touch *)

\* Each stage that asks the engine hands its tool only hosts that the engine permits, for
\* the very action that the tool takes.
LEMMA TouchesArePermitted ==
  ASSUME NEW scope, NEW t \in Touches(scope)
  PROVE  /\ permits(t[2], t[3], scope)
         /\ t[3] \in {"http_probe", "port_scan", "content_discovery", "tls_inspect",
                      "active_scan"}
  BY DEF Touches, probeable, crawlable, scannable, bruteforceable, mineable, origins,
         inspectable, misconfigurable, paramTargets, readable, aggressiveHosts, safeHosts,
         reachable

\* An address that evaluate did not stop at is none of the special ones, but for the
\* exceptions that its table names.
LEMMA NotDenied ==
  ASSUME NEW ip, NEW scope, NEW loaded, ~denies(ip, scope, loaded)
  PROVE  /\ ip \notin ExcludedCidrs
         /\ classify_ip(ip, loaded) # "link_local"
         /\ classify_ip(ip, loaded) \in HARD_DENY =>
              scope.scope_override \/ (AllowPrivate /\ classify_ip(ip, loaded) = "private")
  <1> DEFINE cls == classify_ip(ip, loaded)
  <1>1. ip \notin ExcludedCidrs
    BY DEF denies
  <1>2. cls \in HARD_DENY => \/ AllowPrivate /\ cls = "private"
                             \/ scope.scope_override /\ cls \notin NEVER_OVERRIDABLE
    BY DEF denies
  <1> HIDE DEF cls
  <1>3. cls # "link_local" /\ (cls \in HARD_DENY =>
          scope.scope_override \/ (AllowPrivate /\ cls = "private"))
    BY <1>2 DEF HARD_DENY, NEVER_OVERRIDABLE
  <1> QED
    BY <1>1, <1>3 DEF cls

\* Ports, brute force and active scans need each address to be dedicated.
LEMMA Dedicated ==
  ASSUME NEW ip, NEW scope, NEW loaded, is_dedicated(ip, scope, loaded)
  PROVE  \/ scope.scope_override
         \/ classify_ip(ip, loaded) = "private"
         \/ /\ classify_ip(ip, loaded) # "cdn"
            /\ \/ scope.scan_shared_infra
               \/ ip \in scope.authorized_dedicated_cidrs
  <1> DEFINE cls == classify_ip(ip, loaded)
  <1>1. \/ scope.scope_override
        \/ cls = "private"
        \/ scope.scan_shared_infra /\ cls \in {"cloud_shared", "public"}
        \/ cls # "cdn" /\ ip \in scope.authorized_dedicated_cidrs
    BY DEF is_dedicated
  <1> HIDE DEF cls
  <1>2. \/ scope.scope_override
        \/ cls = "private"
        \/ cls # "cdn" /\ (scope.scan_shared_infra \/ ip \in scope.authorized_dedicated_cidrs)
    BY <1>1
  <1> QED
    BY <1>2 DEF cls

\* What the engine permits beyond passive recon is allowed.
LEMMA PermittedIsAllowed ==
  ASSUME NEW h, NEW action, NEW scope, permits(h, action, scope), action # "passive_recon"
  PROVE  TouchAllowed(h, action, scope)
  <1> DEFINE ips == Recorded(h)
             loaded == Ranges(engine)
  <1> HIDE DEF ips, loaded
  <1>1. action \in evaluate(h, ips, scope, loaded)
    BY DEF permits, ips, loaded
  <1>2. /\ h \notin ExcludedHosts /\ ips # {}
        /\ \A ip \in ips : ~denies(ip, scope, loaded)
        /\ action \notin HTTP_LAYER_ACTIONS => \A ip \in ips : is_dedicated(ip, scope, loaded)
    BY <1>1 DEF evaluate
  <1>3. \A ip \in ips :
          /\ ip \notin ExcludedCidrs
          /\ classify_ip(ip, loaded) # "link_local"
          /\ classify_ip(ip, loaded) \in HARD_DENY =>
               scope.scope_override \/ (AllowPrivate /\ classify_ip(ip, loaded) = "private")
    BY <1>2, NotDenied
  <1>4. action \notin HTTP_LAYER_ACTIONS =>
          \A ip \in ips :
            \/ scope.scope_override
            \/ classify_ip(ip, loaded) = "private"
            \/ /\ classify_ip(ip, loaded) # "cdn"
               /\ \/ scope.scan_shared_infra
                  \/ ip \in scope.authorized_dedicated_cidrs
    BY <1>2, Dedicated
  <1> QED
    BY <1>2, <1>3, <1>4 DEF TouchAllowed, ips, loaded

\* The four stages that a user may switch a host off for start from the monitored hosts.
LEMMA MutedUntouched ==
  ASSUME NEW scope, NEW t \in Touches(scope),
         t[1] \in {"probe", "crawl", "port_scan", "content_discovery"}
  PROVE  t[2] \in Monitored
  BY DEF Touches, probeable, crawlable, scannable, bruteforceable

\* Whatever a stage hands its tool, the guarantees at the top of core/scope.py hold of it,
\* in every scope that a run may have: no excluded host or address, no internal address but
\* by the exceptions of the table, and ports, brute force and active scans only where each
\* address is dedicated.
THEOREM OnlyAllowedIsAsked == Spec => []AskedIsAllowed
  <1>1. AskedIsAllowed
    BY TouchesArePermitted, PermittedIsAllowed DEF AskedIsAllowed
  <1> QED
    BY <1>1, PTL

\* A host that the user switched off is not probed, crawled, port-scanned, brute-forced or
\* checked for a takeover by any run (pipelines/probe.py and the stages after it).
THEOREM MutedIsUntouched == Spec => []MutedIsLeftAlone
  <1>1. MutedIsLeftAlone
    BY MutedUntouched DEF MutedIsLeftAlone, takeoverCandidates
  <1> QED
    BY <1>1, PTL

-----------------------------------------------------------------------------
(* Types *)

Record == [resolved_ips : SUBSET Addrs, monitored : BOOLEAN]

\* A scope is made of the two switches and of confirmed ranges.
LEMMA ScopeIsTyped ==
  ASSUME NEW p, p.scan_shared_infra \in BOOLEAN, p.scope_override \in BOOLEAN,
         NEW entries \in SUBSET [cidr : Addrs, dedicated : BOOLEAN]
  PROVE  Scope(p, entries) \in Scopes
  <1>1. {e.cidr : e \in {d \in entries : d.dedicated}} \subseteq Addrs
    OBVIOUS
  <1> QED
    BY <1>1 DEF Scope, Scopes

\* No run, and its empty scope.
LEMMA NoRunIsTyped ==
  /\ NoScope \in Scopes
  /\ NoRun \in [at : {"idle", "confirming", "running"}, requested : SUBSET Addrs,
                scope : Scopes]
  <1>1. NoScope \in Scopes
    <2>1. {e.cidr : e \in {d \in {} : d.dedicated}} = {}
      OBVIOUS
    <2> QED
      BY <2>1 DEF NoScope, Scope, Scopes
  <1> QED
    BY <1>1 DEF NoRun

\* An observation stores typed records and leaves the other hosts as they were.
LEMMA ObservedIsTyped ==
  ASSUME TypeOK, NEW hs, NEW ips \in [Hosts -> SUBSET Addrs],
         assets' = Observed(hs, ips)
  PROVE  assets' \in [Hosts -> Record \cup {Nothing}]
  <1> SUFFICES ASSUME NEW h \in Hosts, h \in hs
               PROVE  [resolved_ips |-> ips[h],
                       monitored |-> h \in Stored => assets[h].monitored] \in Record
    BY DEF Observed, TypeOK, Record
  <1>1. (h \in Stored => assets[h].monitored) \in BOOLEAN
    BY DEF TypeOK, Record, Stored
  <1> QED
    BY <1>1 DEF Record

\* What a stage may do to the collections: endpoints, ports and records stay typed.
StageTyped ==
  /\ assets' \in [Hosts -> Record \cup {Nothing}]
  /\ endpoints' \in [Hosts -> {"none", "some", "probe"}]
  /\ ports' \in [Addrs -> {"closed", "open", "service"}]
  /\ lost' \in 0..MaxLost

\* An endpoint that gets another path is still an endpoint.
LEMMA PathsAreTyped ==
  ASSUME TypeOK, NEW found
  PROVE  [h \in Hosts |-> AddedPath(h, found)] \in [Hosts -> {"none", "some", "probe"}]
  BY DEF AddedPath, TypeOK

\* A stage stores assets, endpoints and ports, and nothing else.
LEMMA StageIsTyped ==
  ASSUME TypeOK, NEW scope \in Scopes,
         Stage(scope) \/ \E h \in Hosts : Targeted(scope, {h})
  PROVE  StageTyped
  <1> USE SurfaceAssumption
  <1>1. CASE Ingest(scope)
    <2>1. PICK listed \in SUBSET (Listed \cup Foreign), missing \in SUBSET Hosts :
            /\ \E guessed \in SUBSET (Hosts \ listed) :
                 /\ assets' = Observed({h \in listed \cup {Apex} : owns_host(h)}
                                         \cup {h \in guessed : owns_host(h)
                                                              /\ Resolve(missing)[h] # {}},
                                       Resolve(missing))
                 /\ lost' = lost + Cardinality(missing)
            /\ lost' <= MaxLost /\ UNCHANGED <<endpoints, ports>>
      BY <1>1 DEF Ingest
    <2>2. Resolve(missing) \in [Hosts -> SUBSET Addrs]
      BY DEF Resolve, TypeOK
    <2>3. Cardinality(missing) \in Nat
      BY FS_Subset, FS_CardinalityType
    <2>4. assets' \in [Hosts -> Record \cup {Nothing}]
      BY <2>1, <2>2, ObservedIsTyped
    <2>5. lost' \in 0..MaxLost
      BY <2>1, <2>3 DEF TypeOK
    <2> QED
      BY <2>1, <2>4, <2>5 DEF StageTyped, TypeOK
  <1>2. CASE CloudAssets(scope)
    <2>1. NoAddrs \in [Hosts -> SUBSET Addrs]
      BY DEF NoAddrs
    <2>2. assets' \in [Hosts -> Record \cup {Nothing}]
      BY <1>2, <2>1, ObservedIsTyped DEF CloudAssets
    <2> QED
      BY <1>2, <2>2 DEF CloudAssets, StageTyped, TypeOK
  <1>3. CASE Uncover(scope)
    <2>1. NoAddrs \in [Hosts -> SUBSET Addrs]
      BY DEF NoAddrs
    <2>2. assets' \in [Hosts -> Record \cup {Nothing}]
      BY <1>3, <2>1, ObservedIsTyped DEF Uncover
    <2>3. ports' \in [Addrs -> {"closed", "open", "service"}]
      BY <1>3 DEF Uncover, TypeOK
    <2>4. UNCHANGED <<endpoints, lost>>
      BY <1>3 DEF Uncover
    <2> QED
      BY <2>2, <2>3, <2>4 DEF StageTyped, TypeOK
  <1>4. CASE ReverseDns(scope)
    <2>1. PICK hits \in SUBSET Hosts, ptr \in [Hosts -> scope.authorized_dedicated_cidrs] :
            /\ assets' = Observed(hits, [h \in Hosts |-> {ptr[h]}])
            /\ UNCHANGED <<endpoints, ports, lost>>
      BY <1>4 DEF ReverseDns
    <2>2. scope.authorized_dedicated_cidrs \subseteq Addrs
      BY DEF Scopes
    <2>3. [h \in Hosts |-> {ptr[h]}] \in [Hosts -> SUBSET Addrs]
      BY <2>2
    <2>4. assets' \in [Hosts -> Record \cup {Nothing}]
      BY <2>1, <2>3, ObservedIsTyped
    <2> QED
      BY <2>1, <2>4 DEF StageTyped, TypeOK
  <1>5. ASSUME NEW targets, Targeted(scope, targets)  PROVE StageTyped
    <2>1. CASE Probe(scope, targets)
      BY <2>1 DEF Probe, StageTyped, TypeOK, Record
    <2>2. CASE Crawl(scope, targets)
      <3>1. PICK found, root :
              /\ endpoints' = [h \in Hosts |-> IF h \in root THEN "some"
                                               ELSE AddedPath(h, found)]
              /\ UNCHANGED <<assets, ports, lost>>
        BY <2>2 DEF Crawl
      <3>2. endpoints' \in [Hosts -> {"none", "some", "probe"}]
        BY <3>1, PathsAreTyped DEF AddedPath, TypeOK
      <3> QED
        BY <3>1, <3>2 DEF StageTyped, TypeOK, Record
    <2>3. CASE PortScan(scope, targets)
      <3>1. ports' \in [Addrs -> {"closed", "open", "service"}]
        BY <2>3 DEF PortScan, TypeOK
      <3>2. UNCHANGED <<assets, endpoints, lost>>
        BY <2>3 DEF PortScan
      <3> QED
        BY <3>1, <3>2 DEF StageTyped, TypeOK, Record
    <2> QED
      BY <1>5, <2>1, <2>2, <2>3 DEF Targeted
  <1>6. CASE ServiceScan(scope)
    <2>1. ports' \in [Addrs -> {"closed", "open", "service"}]
      BY <1>6 DEF ServiceScan, TypeOK
    <2>2. UNCHANGED <<assets, endpoints, lost>>
      BY <1>6 DEF ServiceScan
    <2> QED
      BY <2>1, <2>2 DEF StageTyped, TypeOK, Record
  <1>7. CASE ContentDiscovery(scope) \/ JsMine(scope) \/ ApiSurface(scope)
    <2>1. PICK found : endpoints' = [h \in Hosts |-> AddedPath(h, found)]
      BY <1>7 DEF ContentDiscovery, JsMine, ApiSurface, AddsPaths
    <2>2. UNCHANGED <<assets, ports, lost>>
      BY <1>7 DEF ContentDiscovery, JsMine, ApiSurface, AddsPaths
    <2> QED
      BY <2>1, <2>2, PathsAreTyped DEF StageTyped, TypeOK, Record
  <1> QED
    BY <1>1, <1>2, <1>3, <1>4, <1>5, <1>6, <1>7 DEF Stage

\* What the worker concludes of the requested ranges is a record of ranges.
LEMMA VerdictsAreTyped ==
  ASSUME NEW requested \in SUBSET Addrs, NEW answer, NEW f
  PROVE  confirm_ip_scope(requested, answer, f) \in SUBSET [cidr : Addrs, dedicated : BOOLEAN]
  <1>1. \A c \in requested :
          [cidr |-> c, dedicated |-> classify_ip(c, f) # "cdn" /\ c \in answer]
            \in [cidr : Addrs, dedicated : BOOLEAN]
    OBVIOUS
  <1>2. ASSUME NEW e \in confirm_ip_scope(requested, answer, f)
        PROVE  e \in [cidr : Addrs, dedicated : BOOLEAN]
    <2>1. PICK c \in requested :
            e = [cidr |-> c, dedicated |-> classify_ip(c, f) # "cdn" /\ c \in answer]
      BY <1>2 DEF confirm_ip_scope
    <2> QED
      BY <1>1, <2>1
  <1> QED
    BY <1>2

\* The initial states are typed.
LEMMA InitTyped == Init => TypeOK
  <1> SUFFICES ASSUME Init  PROVE TypeOK
    OBVIOUS
  <1> USE SurfaceAssumption
  <1>1. announced \subseteq Addrs /\ dns \in [Hosts -> SUBSET Addrs]
    BY DEF Init
  <1>2. {[cidr |-> c, dedicated |-> FALSE] : c \in announced}
          \subseteq [cidr : Addrs, dedicated : BOOLEAN]
    <2>1. \A c \in announced :
            [cidr |-> c, dedicated |-> FALSE] \in [cidr : Addrs, dedicated : BOOLEAN]
      BY <1>1
    <2> QED
      BY <2>1
  <1>3. program \in [scan_shared_infra : BOOLEAN, scope_override : BOOLEAN]
    BY DEF Init
  <1>4. moves \in 0..MaxMoves /\ lost \in 0..MaxLost
    BY DEF Init
  <1>5. /\ assets \in [Hosts -> [resolved_ips : SUBSET Addrs, monitored : BOOLEAN]
                               \cup {Nothing}]
        /\ endpoints \in [Hosts -> {"none", "some", "probe"}]
        /\ ports \in [Addrs -> {"closed", "open", "service"}]
        /\ engine \in [Providers -> SUBSET Addrs]
    BY DEF Init
  <1> QED
    BY <1>1, <1>2, <1>3, <1>4, <1>5, NoRunIsTyped DEF Init, TypeOK

\* A step keeps the types.
LEMMA TypeStep == TypeOK /\ [Next]_vars => TypeOK'
  <1> SUFFICES ASSUME TypeOK, [Next]_vars  PROVE TypeOK'
    OBVIOUS
  <1> USE SurfaceAssumption
  <1> DEFINE FullRuns == [at : {"idle", "confirming", "running"}, requested : SUBSET Addrs,
                          scope : Scopes]
  <1>1. CASE StartFullRun
    <2>1. {e.cidr : e \in ip_scope} \in SUBSET Addrs
      BY DEF TypeOK
    <2>2. Scope(program, {}) \in Scopes
      BY ScopeIsTyped DEF TypeOK
    <2>3. full' \in FullRuns
      BY <1>1, <2>1, <2>2 DEF StartFullRun
    <2> QED
      BY <1>1, <2>3 DEF StartFullRun, TypeOK, worldVars, settingVars, feedVars, boundVars
  <1>2. CASE ConfirmIpScope
    <2>1. PICK entries \in SUBSET [cidr : Addrs, dedicated : BOOLEAN] :
            /\ ip_scope' = IF full.requested = {} THEN ip_scope ELSE entries
            /\ full' = [full EXCEPT !.at = "running", !.scope = Scope(full.scope, entries)]
      <3>1. full.requested \in SUBSET Addrs
        BY DEF TypeOK
      <3> QED
        BY <1>2, <3>1, VerdictsAreTyped DEF ConfirmIpScope
    <2>2. Scope(full.scope, entries) \in Scopes
      BY ScopeIsTyped DEF TypeOK, Scopes
    <2>3. full' \in FullRuns
      BY <2>1, <2>2 DEF TypeOK
    <2>4. ip_scope' \subseteq [cidr : Addrs, dedicated : BOOLEAN]
      BY <2>1 DEF TypeOK
    <2> QED
      BY <1>2, <2>3, <2>4 DEF ConfirmIpScope, TypeOK, worldVars, feedVars, boundVars
  <1>3. CASE FullRunStage
    <2>1. full.scope \in Scopes
      BY DEF TypeOK
    <2>2. StageTyped
      BY <1>3, <2>1, StageIsTyped DEF FullRunStage
    <2> QED
      BY <1>3, <2>2 DEF FullRunStage, TypeOK, StageTyped, Record, worldVars, settingVars,
                        feedVars
  <1>4. CASE EndFullRun
    BY <1>4, NoRunIsTyped DEF EndFullRun, TypeOK, worldVars, settingVars, feedVars, boundVars
  <1>5. CASE Phase
    <2>1. PhaseScope \in Scopes
      BY ScopeIsTyped DEF TypeOK, PhaseScope
    <2>2. StageTyped
      BY <1>5, <2>1, StageIsTyped DEF Phase
    <2> QED
      BY <1>5, <2>2 DEF Phase, TypeOK, StageTyped, Record, worldVars, settingVars, feedVars
  <1>6. ASSUME NEW h \in Hosts, NEW value \in BOOLEAN, SetMonitored(h, value)  PROVE TypeOK'
    <2>1. assets[h] \in Record
      BY <1>6 DEF SetMonitored, Stored, TypeOK, Record
    <2>2. assets' \in [Hosts -> Record \cup {Nothing}]
      BY <1>6, <2>1 DEF SetMonitored, TypeOK, Record
    <2> QED
      BY <1>6, <2>2 DEF SetMonitored, Moves, TypeOK, Record, worldVars, settingVars, feedVars
  <1>7. ASSUME NEW field \in DOMAIN program, NEW value \in BOOLEAN,
               SetScanConfig(field, value)  PROVE TypeOK'
    BY <1>7 DEF SetScanConfig, Moves, TypeOK, worldVars, feedVars
  <1>8. ASSUME NEW requested \in Requests, CreateAuthorization(requested)  PROVE TypeOK'
    <2>1. ip_scope' \subseteq [cidr : Addrs, dedicated : BOOLEAN]
      <3>1. \A c \in requested :
              [cidr |-> c, dedicated |-> FALSE] \in [cidr : Addrs, dedicated : BOOLEAN]
        OBVIOUS
      <3> QED
        BY <1>8, <3>1 DEF CreateAuthorization
    <2> QED
      BY <1>8, <2>1 DEF CreateAuthorization, Moves, TypeOK, worldVars, feedVars
  <1>9. ASSUME NEW h \in Hosts, NEW ips \in Resolutions[h], Rehome(h, ips)  PROVE TypeOK'
    BY <1>9 DEF Rehome, Moves, TypeOK, settingVars, feedVars
  <1>10. ASSUME NEW ip \in announced, Withdraw(ip)  PROVE TypeOK'
    BY <1>10 DEF Withdraw, Moves, TypeOK, settingVars, feedVars
  <1>11. CASE RefreshFeed
    <2>1. current_feed \in [Providers -> SUBSET Addrs]
      BY DEF TypeOK, current_feed
    <2>2. \A fetched \in Fetches : build_feed(fetched, current_feed) \in [Providers -> SUBSET Addrs]
      BY <2>1 DEF build_feed
    <2>3. feed' \in [Providers -> SUBSET Addrs]
      BY <1>11, <2>2 DEF RefreshFeed
    <2> QED
      BY <1>11, <2>3 DEF RefreshFeed, TypeOK, worldVars, settingVars, boundVars
  <1>12. CASE RestartWorker
    <2>1. engine' \in [Providers -> SUBSET Addrs]
      BY <1>12 DEF RestartWorker, TypeOK
    <2> QED
      BY <1>12, <2>1, NoRunIsTyped DEF RestartWorker, TypeOK, worldVars, settingVars, boundVars
  <1>13. CASE UNCHANGED vars
    BY <1>13 DEF vars, TypeOK
  <1> QED
    BY <1>1, <1>2, <1>3, <1>4, <1>5, <1>6, <1>7, <1>8, <1>9, <1>10, <1>11, <1>12, <1>13
       DEF Next, Environment

\* Every record, scope and range that the surface keeps has its type, whatever stages run,
\* answers get lost and settings change.
THEOREM SurfaceTyped == Spec => []TypeOK
  BY InitTyped, TypeStep, PTL DEF Spec

-----------------------------------------------------------------------------
(* The user's switch *)

\* An observation keeps what is stored and what is muted.
LEMMA ObservedKeepsMuted ==
  ASSUME TypeOK, NEW hs, NEW ips \in [Hosts -> SUBSET Addrs],
         assets' = Observed(hs, ips)
  PROVE  Stored \ Monitored \subseteq Stored' \ Monitored'
  <1> SUFFICES ASSUME NEW h \in Stored \ Monitored
               PROVE  h \in Stored' \ Monitored'
    OBVIOUS
  <1>1. /\ h \in Hosts /\ h \in Stored /\ assets[h] \in Record
        /\ assets[h] # Nothing /\ ~assets[h].monitored
    BY DEF Monitored, Stored, TypeOK, Record
  <1>2. /\ assets'[h] # Nothing /\ ~assets'[h].monitored
    <2>1. CASE h \notin hs
      BY <1>1, <2>1 DEF Observed
    <2>2. CASE h \in hs
      <3>1. assets'[h] = [resolved_ips |-> ips[h], monitored |-> FALSE]
        BY <1>1, <2>2 DEF Observed
      <3>2. [resolved_ips |-> ips[h], monitored |-> FALSE] \in Record
        BY <1>1 DEF Record
      <3> QED
        BY <3>1, <3>2, SurfaceAssumption DEF Record
    <2> QED
      BY <2>1, <2>2
  <1> QED
    BY <1>1, <1>2 DEF Stored, Monitored

\* No stage switches a host on that is off, or forgets it.
LEMMA StageKeepsMuted ==
  ASSUME TypeOK, NEW scope \in Scopes,
         Stage(scope) \/ \E h \in Hosts : Targeted(scope, {h})
  PROVE  Stored \ Monitored \subseteq Stored' \ Monitored'
  <1>1. CASE UNCHANGED assets
    BY <1>1 DEF Stored, Monitored
  <1>2. CASE \E hs : \E ips \in [Hosts -> SUBSET Addrs] : assets' = Observed(hs, ips)
    BY <1>2, ObservedKeepsMuted
  <1>3. CASE Ingest(scope)
    <2>1. \A missing : Resolve(missing) \in [Hosts -> SUBSET Addrs]
      BY DEF Resolve, TypeOK
    <2>2. \E hs, missing : assets' = Observed(hs, Resolve(missing))
      BY <1>3 DEF Ingest
    <2> QED
      BY <1>2, <2>1, <2>2
  <1>4. CASE CloudAssets(scope) \/ Uncover(scope)
    <2>1. NoAddrs \in [Hosts -> SUBSET Addrs]
      BY DEF NoAddrs
    <2>2. \E hs : assets' = Observed(hs, NoAddrs)
      BY <1>4 DEF CloudAssets, Uncover
    <2> QED
      BY <1>2, <2>1, <2>2
  <1>5. CASE ReverseDns(scope)
    <2>1. PICK hits \in SUBSET Hosts, ptr \in [Hosts -> scope.authorized_dedicated_cidrs] :
            assets' = Observed(hits, [h \in Hosts |-> {ptr[h]}])
      BY <1>5 DEF ReverseDns
    <2>2. scope.authorized_dedicated_cidrs \subseteq Addrs
      BY DEF Scopes
    <2>3. [h \in Hosts |-> {ptr[h]}] \in [Hosts -> SUBSET Addrs]
      BY <2>2
    <2> QED
      BY <1>2, <2>1, <2>3
  <1>6. ASSUME NEW targets, Targeted(scope, targets)  PROVE UNCHANGED assets
    BY <1>6 DEF Targeted, Probe, Crawl, PortScan
  <1>7. CASE ServiceScan(scope) \/ ContentDiscovery(scope) \/ JsMine(scope) \/ ApiSurface(scope)
    BY <1>1, <1>7 DEF ServiceScan, ContentDiscovery, JsMine, ApiSurface, AddsPaths
  <1> QED
    BY <1>1, <1>3, <1>4, <1>5, <1>6, <1>7 DEF Stage

\* A muted host stays stored and muted however often and by whatever stage it is discovered
\* again, until the user switches it on (db/base.py: upsert).
THEOREM MutedHostsStayMuted == Spec => MutedStaysMuted
  <1>1. ASSUME TypeOK, [Next]_vars
        PROVE  [moves' = moves => Stored \ Monitored \subseteq Stored' \ Monitored']_assets
    <2>1. CASE UNCHANGED assets
      BY <2>1
    <2>2. CASE FullRunStage
      <3>1. full.scope \in Scopes
        BY <1>1 DEF TypeOK
      <3> QED
        BY <1>1, <2>2, <3>1, StageKeepsMuted DEF FullRunStage
    <2>3. CASE Phase
      <3>1. PhaseScope \in Scopes
        BY <1>1, ScopeIsTyped DEF TypeOK, PhaseScope
      <3> QED
        BY <1>1, <2>3, <3>1, StageKeepsMuted DEF Phase
    <2>4. ASSUME NEW h \in Hosts, NEW value \in BOOLEAN, SetMonitored(h, value)
          PROVE  moves' # moves
      BY <1>1, <2>4, SurfaceAssumption DEF SetMonitored, Moves, TypeOK
    <2>5. CASE StartFullRun \/ ConfirmIpScope \/ EndFullRun
      BY <2>1, <2>5 DEF StartFullRun, ConfirmIpScope, EndFullRun
    <2>6. CASE RefreshFeed \/ RestartWorker
      BY <2>1, <2>6 DEF RefreshFeed, RestartWorker
    <2>7. ASSUME NEW field, NEW value, SetScanConfig(field, value)  PROVE UNCHANGED assets
      BY <2>7 DEF SetScanConfig
    <2>8. ASSUME NEW requested, CreateAuthorization(requested)  PROVE UNCHANGED assets
      BY <2>8 DEF CreateAuthorization
    <2>9. ASSUME NEW h, NEW ips, Rehome(h, ips)  PROVE UNCHANGED assets
      BY <2>9 DEF Rehome
    <2>10. ASSUME NEW ip, Withdraw(ip)  PROVE UNCHANGED assets
      BY <2>10 DEF Withdraw
    <2>11. CASE UNCHANGED vars
      BY <2>1, <2>11 DEF vars
    <2> QED
      BY <1>1, <2>1, <2>2, <2>3, <2>4, <2>5, <2>6, <2>7, <2>8, <2>9, <2>10, <2>11
         DEF Next, Environment
  <1> QED
    BY <1>1, SurfaceTyped, PTL DEF Spec, MutedStaysMuted

-----------------------------------------------------------------------------
(* Confirmed ranges *)

\* A range gets confirmed only by a full run that asked the apex for it, got it announced
\* and found it to be no edge of a CDN; what users send confirms nothing
\* (core/scope.py: confirm_ip_scope).
THEOREM OnlyTheWorkerConfirms == Spec => ConfirmedOnlyByWorker
  <1> DEFINE Confirmed(e) == /\ full.at = "confirming" /\ e.cidr \in full.requested
                             /\ e.cidr \in announced /\ e.cidr \notin Ranges(engine).cdn
  <1>1. ASSUME TypeOK, [Next]_vars
        PROVE  [\A e \in ip_scope' \ ip_scope : e.dedicated => Confirmed(e)]_ip_scope
    <2>1. CASE UNCHANGED ip_scope
      BY <2>1
    <2>2. CASE ConfirmIpScope
      <3>1. SUFFICES ASSUME NEW e \in ip_scope' \ ip_scope, e.dedicated  PROVE Confirmed(e)
        OBVIOUS
      <3>2. PICK answered \in BOOLEAN :
              e \in confirm_ip_scope(full.requested, IF answered THEN announced ELSE {},
                                     Ranges(engine))
        BY <2>2, <3>1 DEF ConfirmIpScope
      <3>3. PICK c \in full.requested :
              /\ classify_ip(c, Ranges(engine)) \notin HARD_DENY
              /\ e = [cidr |-> c, dedicated |-> /\ classify_ip(c, Ranges(engine)) # "cdn"
                                                /\ c \in IF answered THEN announced ELSE {}]
        BY <3>2 DEF confirm_ip_scope
      <3>4. /\ e.cidr = c /\ c \in announced
            /\ classify_ip(c, Ranges(engine)) # "cdn"
        BY <3>1, <3>3
      <3>5. c \in Addrs
        BY <1>1, <3>3 DEF TypeOK
      <3>6. c \notin Ranges(engine).cdn
        <4>1. SpecialKind[c] = "global"
          <5>1. SpecialKind[c] \in HARD_DENY \cup {"global"}
            BY <3>5, ScopeAssumption
          <5>2. SpecialKind[c] # "global" => SpecialKind[c] \notin HARD_DENY
            BY <3>3 DEF classify_ip
          <5> QED
            BY <5>1, <5>2
        <4> QED
          BY <3>4, <4>1 DEF classify_ip
      <3> QED
        BY <2>2, <3>3, <3>4, <3>6 DEF ConfirmIpScope
    <2>3. ASSUME NEW requested, CreateAuthorization(requested)
          PROVE  \A e \in ip_scope' : ~e.dedicated
      BY <2>3 DEF CreateAuthorization
    <2>4. CASE StartFullRun \/ EndFullRun \/ FullRunStage \/ Phase \/ RefreshFeed \/ RestartWorker
      BY <2>1, <2>4 DEF StartFullRun, EndFullRun, FullRunStage, Phase, RefreshFeed,
                        RestartWorker, settingVars
    <2>5. ASSUME NEW field, NEW value, SetScanConfig(field, value) \/ SetMonitored(field, value)
          PROVE  UNCHANGED ip_scope
      BY <2>5 DEF SetScanConfig, SetMonitored, settingVars
    <2>6. ASSUME NEW h, NEW ips, Rehome(h, ips) \/ Withdraw(h)  PROVE UNCHANGED ip_scope
      BY <2>6 DEF Rehome, Withdraw, settingVars
    <2>7. CASE UNCHANGED vars
      BY <2>1, <2>7 DEF vars
    <2> QED
      BY <1>1, <2>1, <2>2, <2>3, <2>4, <2>5, <2>6, <2>7 DEF Next, Environment
  <1> QED
    BY <1>1, SurfaceTyped, PTL DEF Spec, ConfirmedOnlyByWorker

-----------------------------------------------------------------------------
(* The ranges kept by hand *)

\* The stored feed and the worker's ranges hold every range kept by hand that the image has.
KeptByHand ==
  \A p \in HandKept :
    /\ feed # Nothing => Bundled[p] \subseteq feed[p]
    /\ Bundled[p] \subseteq engine[p]

\* Neither a refresh nor a restart loses a range that is kept by hand.
LEMMA HandKeptStep == KeptByHand /\ [Next]_vars => KeptByHand'
  <1> SUFFICES ASSUME KeptByHand, [Next]_vars  PROVE KeptByHand'
    OBVIOUS
  <1>1. CASE UNCHANGED feedVars
    BY <1>1 DEF KeptByHand, feedVars
  <1>2. CASE RefreshFeed
    <2>1. \A p \in HandKept : Bundled[p] \subseteq current_feed[p]
      BY DEF KeptByHand, current_feed
    <2>2. PICK fetched \in Fetches : feed' = build_feed(fetched, current_feed)
      BY <1>2 DEF RefreshFeed
    <2>3. \A p \in HandKept : feed'[p] = current_feed[p]
      BY <2>2, SurfaceAssumption DEF build_feed, Providers
    <2> QED
      BY <1>2, <2>1, <2>3 DEF KeptByHand, RefreshFeed
  <1>3. CASE RestartWorker
    BY <1>3 DEF RestartWorker, KeptByHand
  <1>4. CASE StartFullRun \/ ConfirmIpScope \/ EndFullRun \/ FullRunStage \/ Phase
    BY <1>1, <1>4 DEF StartFullRun, ConfirmIpScope, EndFullRun, FullRunStage, Phase
  <1>5. ASSUME NEW x, NEW y, \/ SetScanConfig(x, y) \/ SetMonitored(x, y)
                             \/ CreateAuthorization(x) \/ Rehome(x, y) \/ Withdraw(x)
        PROVE  UNCHANGED feedVars
    BY <1>5 DEF SetScanConfig, SetMonitored, CreateAuthorization, Rehome, Withdraw
  <1>6. CASE UNCHANGED vars
    BY <1>1, <1>6 DEF vars, feedVars
  <1> QED
    BY <1>1, <1>2, <1>3, <1>4, <1>5, <1>6 DEF Next, Environment

\* The edges of the providers that are kept by hand are edges for every worker, after any
\* sequence of refreshes and restarts (scripts/update_scope_feeds.py).
THEOREM HandKeptEdgesAreKept == Spec => []HandKeptEdgesStay
  <1>1. Init => KeptByHand
    BY DEF Init, KeptByHand
  <1>2. KeptByHand => HandKeptEdgesStay
    BY DEF KeptByHand, HandKeptEdgesStay, Ranges
  <1> QED
    BY <1>1, <1>2, HandKeptStep, PTL DEF Spec

-----------------------------------------------------------------------------
(* Findings: batches and halves *)

Batch == Seq(Candidates)

\* The names that some batch of the queue holds
Queued(queue) == UNION {ToSet(queue[k]) : k \in 1..Len(queue)}

\* Division with remainder
LEMMA Division ==
  ASSUME NEW a \in Nat, NEW b \in Nat \ {0}
  PROVE  /\ a \div b \in Nat
         /\ b * (a \div b) <= a /\ a < b * (a \div b) + b
  OBVIOUS

\* A part of a sequence
LEMMA Slice ==
  ASSUME NEW S, NEW s \in Seq(S), NEW a \in 1..Len(s), NEW b \in 0..Len(s), a <= b + 1
  PROVE  /\ SubSeq(s, a, b) \in Seq(S) /\ Len(SubSeq(s, a, b)) = b - a + 1
         /\ \A i \in 1..(b - a + 1) : SubSeq(s, a, b)[i] = s[a + i - 1]
  OBVIOUS

\* The batches hold every name of the list.
LEMMA BatchesHoldAll == Batches \in Seq(Batch) /\ Candidates \subseteq Queued(Batches)
  <1> DEFINE L == Len(CANDIDATE_PARAMS)
             N == (L + BATCH - 1) \div BATCH
             last(n) == IF n * BATCH < L THEN n * BATCH ELSE L
  <1>1. CANDIDATE_PARAMS \in Batch /\ BATCH \in Nat \ {0} /\ L \in Nat
    BY FindingsAssumption DEF Batch
  <1>2. N \in Nat /\ BATCH * N <= L + BATCH - 1 /\ L + BATCH - 1 < BATCH * N + BATCH
    BY <1>1, Division
  <1>3. Batches = [n \in 1..N |-> SubSeq(CANDIDATE_PARAMS, (n - 1) * BATCH + 1, last(n))]
    BY DEF Batches
  <1> HIDE DEF L, N
  <1>4. ASSUME NEW n \in 1..N
        PROVE  /\ (n - 1) * BATCH + 1 \in 1..L /\ last(n) \in 0..L
               /\ (n - 1) * BATCH + 1 <= last(n) + 1 /\ n * BATCH = (n - 1) * BATCH + BATCH
    <2>1. n * BATCH = (n - 1) * BATCH + BATCH /\ (n - 1) * BATCH \in Nat
      BY <1>1, <1>2
    <2>2. n * BATCH <= BATCH * N
      BY <1>1, <1>2
    <2> QED
      BY <1>1, <1>2, <2>1, <2>2
  <1>5. ASSUME NEW n \in 1..N
        PROVE  /\ Batches[n] \in Batch /\ Len(Batches[n]) = last(n) - (n - 1) * BATCH
               /\ \A i \in 1..Len(Batches[n]) :
                    Batches[n][i] = CANDIDATE_PARAMS[(n - 1) * BATCH + i]
    <2>1. Batches[n] = SubSeq(CANDIDATE_PARAMS, (n - 1) * BATCH + 1, last(n))
      BY <1>3
    <2>2. /\ SubSeq(CANDIDATE_PARAMS, (n - 1) * BATCH + 1, last(n)) \in Batch
          /\ Len(SubSeq(CANDIDATE_PARAMS, (n - 1) * BATCH + 1, last(n)))
               = last(n) - ((n - 1) * BATCH + 1) + 1
          /\ \A i \in 1..(last(n) - ((n - 1) * BATCH + 1) + 1) :
               SubSeq(CANDIDATE_PARAMS, (n - 1) * BATCH + 1, last(n))[i]
                 = CANDIDATE_PARAMS[(n - 1) * BATCH + 1 + i - 1]
      BY <1>1, <1>4, Slice DEF L, Batch
    <2>3. (n - 1) * BATCH \in Nat /\ last(n) \in Nat
      BY <1>1, <1>4
    <2>4. last(n) - ((n - 1) * BATCH + 1) + 1 = last(n) - (n - 1) * BATCH
      BY <2>3
    <2>5. \A i \in Nat : (n - 1) * BATCH + 1 + i - 1 = (n - 1) * BATCH + i
      BY <2>3
    <2>6. \A i \in 1..(last(n) - (n - 1) * BATCH) :
            Batches[n][i] = CANDIDATE_PARAMS[(n - 1) * BATCH + i]
      <3> SUFFICES ASSUME NEW i \in 1..(last(n) - (n - 1) * BATCH)
                   PROVE  Batches[n][i] = CANDIDATE_PARAMS[(n - 1) * BATCH + i]
        OBVIOUS
      <3>1. (n - 1) * BATCH + 1 + i - 1 = (n - 1) * BATCH + i
        BY <2>3, <2>5
      <3>2. i \in 1..(last(n) - ((n - 1) * BATCH + 1) + 1)
        BY <2>4
      <3>3. Batches[n][i] = CANDIDATE_PARAMS[(n - 1) * BATCH + 1 + i - 1]
        BY <2>1, <2>2, <3>2
      <3> QED
        BY <3>1, <3>3
    <2>7. /\ Batches[n] \in Batch /\ Len(Batches[n]) = last(n) - (n - 1) * BATCH
      BY <2>1, <2>2, <2>4
    <2> HIDE DEF last
    <2> QED
      BY <2>6, <2>7
  <1>6. Batches \in Seq(Batch) /\ Len(Batches) = N
    BY <1>2, <1>3, <1>5
  <1>7. ASSUME NEW i \in 1..L
        PROVE  CANDIDATE_PARAMS[i] \in Queued(Batches)
    <2> DEFINE q == (i - 1) \div BATCH
    <2>1. q \in Nat /\ BATCH * q <= i - 1 /\ i - 1 < BATCH * q + BATCH
      BY <1>1, Division
    <2> HIDE DEF q
    <2>2. BATCH * q < BATCH * N
      BY <1>1, <1>2, <2>1
    <2>3. q + 1 \in 1..N
      BY <1>1, <1>2, <2>1, <2>2
    <2>4. i - q * BATCH \in 1..(last(q + 1) - q * BATCH)
      <3>1. (q + 1) * BATCH = q * BATCH + BATCH /\ BATCH * q = q * BATCH /\ q * BATCH \in Nat
        BY <1>1, <2>1
      <3> QED
        BY <1>1, <2>1, <3>1
    <2>5. (q + 1) - 1 = q
      BY <2>1
    <2>6. Batches[q + 1][i - q * BATCH] = CANDIDATE_PARAMS[q * BATCH + (i - q * BATCH)]
      BY <1>5, <2>3, <2>4, <2>5
    <2>7. q * BATCH + (i - q * BATCH) = i /\ q * BATCH \in Nat
      BY <1>1, <2>1
    <2>8. CANDIDATE_PARAMS[i] \in ToSet(Batches[q + 1])
      BY <1>5, <2>3, <2>4, <2>5, <2>6, <2>7 DEF ToSet, Batch
    <2> QED
      BY <1>6, <2>3, <2>8 DEF Queued
  <1>8. \A n \in Candidates : \E i \in 1..L : n = CANDIDATE_PARAMS[i]
    BY <1>1 DEF Candidates, ToSet, L, Batch
  <1> QED
    BY <1>6, <1>7, <1>8

\* The halves of a batch hold its names.
LEMMA HalvesHoldAll ==
  ASSUME NEW batch \in Batch, Len(batch) > 1
  PROVE  /\ halves(batch) \in Seq(Batch) /\ Len(halves(batch)) = 2
         /\ ToSet(batch) \subseteq ToSet(halves(batch)[1]) \cup ToSet(halves(batch)[2])
  <1> DEFINE h == Len(batch) \div 2
             low == SubSeq(batch, 1, h)
             high == SubSeq(batch, h + 1, Len(batch))
  <1>1. h \in Nat /\ h >= 1 /\ h + 1 <= Len(batch) /\ Len(batch) \in Nat
    BY DEF Batch
  <1> HIDE DEF h
  <1>2. /\ low \in Batch /\ Len(low) = h
        /\ \A i \in 1..h : low[i] = batch[i]
    BY <1>1 DEF Batch
  <1>3. /\ high \in Batch /\ Len(high) = Len(batch) - h
        /\ \A i \in 1..(Len(batch) - h) : high[i] = batch[h + i]
    <2>1. h + 1 \in 1..Len(batch) /\ Len(batch) \in 0..Len(batch)
      BY <1>1
    <2>2. /\ high \in Batch /\ Len(high) = Len(batch) - (h + 1) + 1
          /\ \A i \in 1..(Len(batch) - (h + 1) + 1) : high[i] = batch[(h + 1) + i - 1]
      BY <1>1, <2>1, Slice DEF Batch
    <2>3. /\ Len(batch) - (h + 1) + 1 = Len(batch) - h
          /\ \A i \in 1..(Len(batch) - h) : (h + 1) + i - 1 = h + i
      BY <1>1
    <2> QED
      BY <2>2, <2>3
  <1>4. ASSUME NEW i \in 1..Len(batch)
        PROVE  batch[i] \in ToSet(low) \cup ToSet(high)
    <2>1. CASE i <= h
      <3>1. i \in 1..h
        BY <1>1, <2>1
      <3>2. low[i] = batch[i] /\ i \in DOMAIN low
        BY <1>2, <3>1 DEF Batch
      <3> QED
        BY <3>2 DEF ToSet
    <2>2. CASE i > h
      <3>1. i - h \in 1..(Len(batch) - h) /\ h + (i - h) = i
        BY <1>1, <2>2
      <3>2. high[i - h] = batch[i] /\ i - h \in DOMAIN high
        BY <1>3, <3>1 DEF Batch
      <3> QED
        BY <3>2 DEF ToSet
    <2> QED
      BY <1>1, <2>1, <2>2
  <1>5. ToSet(batch) = {batch[i] : i \in 1..Len(batch)}
    BY DEF ToSet, Batch
  <1>6. halves(batch) = <<low, high>>
    BY DEF halves, h
  <1> HIDE DEF low, high
  <1> QED
    BY <1>2, <1>3, <1>4, <1>5, <1>6

\* The last batch leaves the queue: the others still hold their names.
LEMMA PopHolds ==
  ASSUME NEW queue \in Seq(Batch), queue # <<>>
  PROVE  /\ Front(queue) \in Seq(Batch) /\ Last(queue) \in Batch
         /\ Queued(queue) \subseteq Queued(Front(queue)) \cup ToSet(Last(queue))
  <1>1. /\ Len(queue) \in Nat /\ Len(queue) > 0 /\ Last(queue) = queue[Len(queue)]
        /\ Last(queue) \in Batch
    BY DEF Last
  <1>2. /\ Front(queue) \in Seq(Batch) /\ Len(Front(queue)) = Len(queue) - 1
        /\ \A i \in 1..(Len(queue) - 1) : Front(queue)[i] = queue[i]
    <2>1. 1 \in 1..Len(queue) /\ Len(queue) - 1 \in 0..Len(queue) /\ 1 <= Len(queue) - 1 + 1
      BY <1>1
    <2>2. /\ Front(queue) \in Seq(Batch) /\ Len(Front(queue)) = (Len(queue) - 1) - 1 + 1
          /\ \A i \in 1..((Len(queue) - 1) - 1 + 1) : Front(queue)[i] = queue[1 + i - 1]
      BY <2>1, Slice DEF Front
    <2>3. (Len(queue) - 1) - 1 + 1 = Len(queue) - 1 /\ \A i \in Nat : 1 + i - 1 = i
      BY <1>1
    <2> QED
      BY <2>2, <2>3
  <1>3. ASSUME NEW k \in 1..Len(queue)
        PROVE  ToSet(queue[k]) \subseteq Queued(Front(queue)) \cup ToSet(Last(queue))
    <2>1. CASE k = Len(queue)
      BY <1>1, <2>1
    <2>2. CASE k # Len(queue)
      BY <1>1, <1>2, <2>2 DEF Queued
    <2> QED
      BY <2>1, <2>2
  <1> QED
    BY <1>1, <1>2, <1>3 DEF Queued

\* Two sequences, one behind the other
LEMMA Concatenation ==
  ASSUME NEW S, NEW s \in Seq(S), NEW t \in Seq(S)
  PROVE  /\ s \o t \in Seq(S) /\ Len(s \o t) = Len(s) + Len(t) /\ Len(s) \in Nat
         /\ \A i \in 1..(Len(s) + Len(t)) :
              (s \o t)[i] = IF i <= Len(s) THEN s[i] ELSE t[i - Len(s)]
  OBVIOUS

\* The halves of a batch hold what the batch held.
LEMMA PushHolds ==
  ASSUME NEW queue \in Seq(Batch), NEW batch \in Batch, Len(batch) > 1
  PROVE  /\ queue \o halves(batch) \in Seq(Batch)
         /\ Queued(queue) \cup ToSet(batch) \subseteq Queued(queue \o halves(batch))
  <1> DEFINE more == queue \o halves(batch)
  <1>1. /\ halves(batch) \in Seq(Batch) /\ Len(halves(batch)) = 2
        /\ ToSet(batch) \subseteq ToSet(halves(batch)[1]) \cup ToSet(halves(batch)[2])
    BY HalvesHoldAll
  <1>2. /\ more \in Seq(Batch) /\ Len(more) = Len(queue) + 2 /\ Len(queue) \in Nat
        /\ \A i \in 1..Len(queue) : more[i] = queue[i]
        /\ more[Len(queue) + 1] = halves(batch)[1] /\ more[Len(queue) + 2] = halves(batch)[2]
    <2>1. /\ more \in Seq(Batch) /\ Len(more) = Len(queue) + 2 /\ Len(queue) \in Nat
          /\ \A i \in 1..(Len(queue) + 2) :
               more[i] = IF i <= Len(queue) THEN queue[i] ELSE halves(batch)[i - Len(queue)]
      <3>1. Len(queue) + Len(halves(batch)) = Len(queue) + 2
        BY <1>1
      <3> QED
        BY <1>1, <3>1, Concatenation
    <2> HIDE DEF more
    <2>2. /\ Len(queue) + 1 - Len(queue) = 1 /\ Len(queue) + 2 - Len(queue) = 2
          /\ Len(queue) + 1 \in 1..(Len(queue) + 2) /\ Len(queue) + 2 \in 1..(Len(queue) + 2)
          /\ ~(Len(queue) + 1 <= Len(queue)) /\ ~(Len(queue) + 2 <= Len(queue))
      BY <2>1
    <2>3. \A i \in 1..Len(queue) : i \in 1..(Len(queue) + 2) /\ i <= Len(queue)
      BY <2>1
    <2> QED
      BY <2>1, <2>2, <2>3
  <1> HIDE DEF more
  <1>3. Queued(queue) \subseteq Queued(more)
    BY <1>2 DEF Queued
  <1>4. ToSet(halves(batch)[1]) \cup ToSet(halves(batch)[2]) \subseteq Queued(more)
    BY <1>2 DEF Queued
  <1> QED
    BY <1>1, <1>2, <1>3, <1>4 DEF more

-----------------------------------------------------------------------------
(* Findings: the invariant *)

Fields == {"at", "todo", "page", "queue", "complete", "found", "covered", "absent",
           "pending", "victim", "alone"}

FindingsTyped ==
  /\ stage \in Stages
  /\ DOMAIN runs = Runs /\ \A r \in Runs : DOMAIN runs[r] = Fields
  /\ reported \cup retired \subseteq Items

\* The names of the list on page p that a run has an answer for
Told(run, p) == {n \in Candidates : <<p, n>> \in run.found \cup run.absent}

\* A page that a run covers was asked for every name of the list, one that it has open
\* will be, unless a batch goes without an answer.
Examined(run) ==
  /\ run.queue \in Seq(Batch)
  /\ \A p \in run.covered : Candidates \subseteq Told(run, p)
  /\ run.page # Nobody /\ run.complete =>
       Candidates \subseteq Told(run, run.page) \cup Queued(run.queue)

\* What CandidateWasReexamined asks of a run that retires a finding
Justified(run, i) ==
  \/ stage = "param_discovery" /\ i[2] \in ArjunOnly
  \/ stage = "broken_links"
  \/ i \in run.absent

Sound(run) ==
  /\ stage = "param_discovery" => Examined(run)
  /\ run.victim # Nobody =>
       run.at = "retiring" /\ run.victim \in Items /\ Justified(run, run.victim)
  /\ run.at = "retiring" => \A i \in run.pending : Justified(run, i)

\* What a run that has the stage to itself found is open among rep, once it is stored.
Open(run, rep) ==
  /\ run.at = "done" => run.found \subseteq rep
  /\ run.at = "storing" => run.found \ run.pending \subseteq rep
  /\ run.at = "retiring" /\ stage # "dork" =>
       /\ run.found \subseteq rep \ run.pending
       /\ run.victim # Nobody => run.victim \notin run.found

FindingsInv ==
  /\ FindingsTyped
  /\ \A r \in Runs :
       /\ Sound(runs[r])
       /\ runs[r].alone => /\ Open(runs[r], reported)
                           /\ \A o \in Others(r) : runs[o].at = "idle"

\* A step of a run that is under way: nobody else has the stage to itself.
LEMMA OneRun ==
  ASSUME FindingsInv, NEW r \in Runs, runs[r].at # "idle",
         NEW run, Set(r, run), DOMAIN run = Fields, UNCHANGED stage,
         run.alone => runs[r].alone,
         reported' \cup retired' \subseteq Items,
         Sound(run), runs[r].alone => Open(run, reported')
  PROVE  FindingsInv'
  <1>1. /\ DOMAIN runs' = Runs /\ runs'[r] = run
        /\ \A o \in Runs : o # r => runs'[o] = runs[o]
    BY DEF FindingsInv, FindingsTyped, Set
  <1>2. FindingsTyped'
    BY <1>1 DEF FindingsInv, FindingsTyped, Items
  <1>3. ASSUME NEW o \in Runs  PROVE Sound(runs[o])'
    <2>1. Sound(runs'[o])
      BY <1>1 DEF FindingsInv
    <2> QED
      BY <2>1 DEF Sound, Examined, Told, Justified, Items
  <1>4. ASSUME NEW o \in Runs, runs'[o].alone
        PROVE  Open(runs[o], reported)' /\ \A p \in Others(o) : runs'[p].at = "idle"
    <2>1. o = r
      BY <1>1, <1>4 DEF FindingsInv, Others
    <2>2. runs[r].alone /\ Open(run, reported')
      BY <1>1, <1>4, <2>1
    <2> QED
      BY <1>1, <2>1, <2>2 DEF FindingsInv, Others, Open
  <1> QED
    BY <1>2, <1>3, <1>4 DEF FindingsInv, Others

\* A run that goes on looking has nothing to prove but what it examined.
LEMMA StillLooking ==
  ASSUME FindingsInv, NEW r \in Runs, runs[r].at = "looking",
         NEW run, Set(r, run), DOMAIN run = Fields, UNCHANGED <<stage, reported, retired>>,
         run.at = "looking", run.victim = runs[r].victim, run.alone = runs[r].alone,
         stage = "param_discovery" => Examined(run)
  PROVE  FindingsInv'
  <1>1. Sound(runs[r]) /\ runs[r].victim = Nobody
    BY DEF FindingsInv, Sound
  <1>2. Sound(run) /\ Open(run, reported')
    BY <1>1 DEF Sound, Open
  <1>3. reported' \cup retired' \subseteq Items
    BY DEF FindingsInv, FindingsTyped
  <1> QED
    BY <1>2, <1>3, OneRun

\* A run that has not begun has nothing to answer for.
LEMMA IdleIsFine ==
  /\ DOMAIN Idle = Fields /\ Idle.at = "idle" /\ Idle.victim = Nobody /\ ~Idle.alone
  /\ Sound(Idle)
  BY DEF Idle, Fields, Sound, Examined, Batch

\* A run takes up work.
LEMMA EnterStep ==
  ASSUME FindingsInv, NEW r \in Runs, runs[r].at = "idle", NEW run, Enter(r, run),
         DOMAIN run = Fields, run.at = "looking", run.victim = Nobody, Sound(run),
         UNCHANGED <<stage, reported, retired>>
  PROVE  FindingsInv'
  <1> DEFINE start == [run EXCEPT !.alone = \A o \in Others(r) : runs[o].at = "idle"]
  <1>1. /\ DOMAIN runs' = Runs /\ runs'[r] = start
        /\ \A o \in Others(r) : runs'[o] = [runs[o] EXCEPT !.alone = FALSE]
    BY DEF Enter, Others
  <1>2. /\ DOMAIN start = Fields /\ start.at = "looking" /\ start.victim = Nobody
        /\ start.queue = run.queue /\ start.found = run.found /\ start.absent = run.absent
        /\ start.covered = run.covered /\ start.page = run.page
        /\ start.complete = run.complete
        /\ start.alone = \A o \in Others(r) : runs[o].at = "idle"
    BY DEF Fields
  <1> HIDE DEF start
  <1>3. Sound(start)
    BY <1>2 DEF Sound, Examined, Told
  <1>4. ASSUME NEW o \in Others(r)
        PROVE  /\ DOMAIN runs'[o] = Fields /\ ~runs'[o].alone /\ runs'[o].at = runs[o].at
               /\ Sound(runs'[o])
    <2>1. DOMAIN runs[o] = Fields /\ Sound(runs[o])
      BY DEF FindingsInv, FindingsTyped, Others
    <2>2. /\ DOMAIN runs'[o] = Fields /\ ~runs'[o].alone /\ runs'[o].at = runs[o].at
          /\ runs'[o].queue = runs[o].queue /\ runs'[o].found = runs[o].found
          /\ runs'[o].absent = runs[o].absent /\ runs'[o].covered = runs[o].covered
          /\ runs'[o].page = runs[o].page /\ runs'[o].complete = runs[o].complete
          /\ runs'[o].victim = runs[o].victim /\ runs'[o].pending = runs[o].pending
      BY <1>1, <2>1 DEF Fields
    <2> QED
      BY <2>1, <2>2 DEF Sound, Examined, Told, Justified
  <1>5. FindingsTyped'
    BY <1>1, <1>2, <1>4 DEF FindingsInv, FindingsTyped, Items, Others
  <1>6. ASSUME NEW o \in Runs  PROVE Sound(runs[o])'
    <2>1. Sound(runs'[o])
      BY <1>1, <1>3, <1>4 DEF Others
    <2> QED
      BY <2>1 DEF Sound, Examined, Told, Justified, Items
  <1>7. ASSUME NEW o \in Runs, runs'[o].alone
        PROVE  Open(runs[o], reported)' /\ \A p \in Others(o) : runs'[p].at = "idle"
    <2>1. o = r
      BY <1>4, <1>7 DEF Others
    <2> QED
      BY <1>1, <1>2, <1>4, <1>7, <2>1 DEF Open
  <1> QED
    BY <1>5, <1>6, <1>7 DEF FindingsInv, Others

-----------------------------------------------------------------------------
(* Findings: the steps *)

\* A run that starts has everything to examine.
LEMMA StartStep ==
  ASSUME FindingsInv, NEW r \in Runs, Start(r)
  PROVE  FindingsInv'
  <1>1. runs[r].at = "idle" /\ UNCHANGED <<stage, reported, retired>>
    BY DEF Start, StartParams, StartLinks, StartDork
  <1>2. CASE StartParams(r)
    <2>1. PICK told :
            Enter(r, [Idle EXCEPT !.at = "looking", !.todo = Pages, !.found = told])
      BY <1>2 DEF StartParams
    <2> DEFINE run == [Idle EXCEPT !.at = "looking", !.todo = Pages, !.found = told]
    <2>2. /\ DOMAIN run = Fields /\ run.at = "looking" /\ run.victim = Nobody
          /\ run.queue = <<>> /\ run.covered = {} /\ ~run.complete
      BY DEF Idle, Fields
    <2> HIDE DEF run
    <2>3. Sound(run)
      BY <2>2 DEF Sound, Examined, Batch
    <2> QED
      BY <1>1, <2>1, <2>2, <2>3, EnterStep DEF run
  <1>3. CASE StartLinks(r)
    <2> DEFINE run == [Idle EXCEPT !.at = "looking", !.queue = Ordered]
    <2>1. /\ DOMAIN run = Fields /\ run.at = "looking" /\ run.victim = Nobody
      BY DEF Idle, Fields
    <2>2. Sound(run)
      BY <1>3, <2>1 DEF Sound, StartLinks
    <2> HIDE DEF run
    <2>3. Enter(r, run)
      BY <1>3 DEF StartLinks, run
    <2> QED
      BY <1>1, <2>1, <2>2, <2>3, EnterStep
  <1>4. CASE StartDork(r)
    <2>1. PICK listed : Enter(r, [Idle EXCEPT !.at = "looking", !.todo = listed])
      BY <1>4 DEF StartDork
    <2> DEFINE run == [Idle EXCEPT !.at = "looking", !.todo = listed]
    <2>2. /\ DOMAIN run = Fields /\ run.at = "looking" /\ run.victim = Nobody
      BY DEF Idle, Fields
    <2>3. Sound(run)
      BY <1>4, <2>2 DEF Sound, StartDork
    <2> HIDE DEF run
    <2> QED
      BY <1>1, <2>1, <2>2, <2>3, EnterStep DEF run
  <1> QED
    BY <1>2, <1>3, <1>4 DEF Start

\* A page that is opened brings all its batches; one that is closed had none left.
LEMMA PageStep ==
  ASSUME FindingsInv, NEW r \in Runs, (\E p \in Pages : OpenPage(r, p)) \/ ClosePage(r)
  PROVE  FindingsInv'
  <1>1. /\ DOMAIN runs[r] = Fields /\ runs[r].at = "looking"
        /\ stage = "param_discovery" => Examined(runs[r])
        /\ UNCHANGED <<stage, reported, retired>>
    BY DEF FindingsInv, FindingsTyped, Sound, OpenPage, ClosePage
  <1>2. ASSUME NEW p \in Pages,
               Set(r, [runs[r] EXCEPT !.todo = @ \ {p}, !.page = p, !.queue = Batches,
                                      !.complete = TRUE])
        PROVE  FindingsInv'
    <2> DEFINE run == [runs[r] EXCEPT !.todo = @ \ {p}, !.page = p, !.queue = Batches,
                                      !.complete = TRUE]
    <2>1. /\ DOMAIN run = Fields /\ run.at = "looking" /\ run.victim = runs[r].victim
          /\ run.alone = runs[r].alone /\ run.queue = Batches /\ run.page = p
          /\ run.covered = runs[r].covered /\ run.found = runs[r].found
          /\ run.absent = runs[r].absent
      BY <1>1 DEF Fields
    <2> HIDE DEF run
    <2>2. stage = "param_discovery" => Examined(run)
      BY <1>1, <2>1, BatchesHoldAll DEF Examined, Told
    <2>3. Set(r, run)
      BY <1>2 DEF run
    <2> QED
      BY <1>1, <2>1, <2>2, <2>3, StillLooking
  <1>3. ASSUME NEW p \in Pages, Set(r, [runs[r] EXCEPT !.todo = @ \ {p}])
        PROVE  FindingsInv'
    <2> DEFINE run == [runs[r] EXCEPT !.todo = @ \ {p}]
    <2>1. /\ DOMAIN run = Fields /\ run.at = "looking" /\ run.victim = runs[r].victim
          /\ run.alone = runs[r].alone /\ run.queue = runs[r].queue /\ run.page = runs[r].page
          /\ run.covered = runs[r].covered /\ run.found = runs[r].found
          /\ run.absent = runs[r].absent /\ run.complete = runs[r].complete
      BY <1>1 DEF Fields
    <2> HIDE DEF run
    <2>2. stage = "param_discovery" => Examined(run)
      BY <1>1, <2>1 DEF Examined, Told
    <2>3. Set(r, run)
      BY <1>3 DEF run
    <2> QED
      BY <1>1, <2>1, <2>2, <2>3, StillLooking
  <1>4. CASE ClosePage(r)
    <2> DEFINE run == [runs[r] EXCEPT !.page = Nobody,
                            !.covered = IF runs[r].complete THEN @ \cup {runs[r].page}
                                        ELSE @]
    <2>1. /\ DOMAIN run = Fields /\ run.at = "looking" /\ run.victim = runs[r].victim
          /\ run.alone = runs[r].alone /\ run.queue = runs[r].queue /\ run.page = Nobody
          /\ run.covered = IF runs[r].complete THEN runs[r].covered \cup {runs[r].page}
                           ELSE runs[r].covered
          /\ run.found = runs[r].found /\ run.absent = runs[r].absent
      BY <1>1 DEF Fields
    <2> HIDE DEF run
    <2>2. runs[r].queue = <<>> /\ runs[r].page # Nobody /\ Set(r, run)
      BY <1>4 DEF ClosePage, run
    <2>3. Queued(<<>>) = {}
      BY DEF Queued
    <2>4. stage = "param_discovery" => Examined(run)
      BY <1>1, <2>1, <2>2, <2>3 DEF Examined, Told
    <2> QED
      BY <1>1, <2>1, <2>2, <2>4, StillLooking
  <1> QED
    BY <1>2, <1>3, <1>4 DEF OpenPage

\* A batch that was answered is split until each name of it stands alone; one that failed
\* leaves its page incomplete.
LEMMA BatchStep ==
  ASSUME FindingsInv, NEW r \in Runs, stage = "param_discovery", ProbeBatch(r)
  PROVE  FindingsInv'
  <1> DEFINE old == runs[r]
             batch == Last(old.queue)
             items == {<<old.page, batch[n]>> : n \in DOMAIN batch}
  <1>1. /\ DOMAIN old = Fields /\ old.at = "looking" /\ old.queue # <<>> /\ Examined(old)
        /\ UNCHANGED <<stage, reported, retired>>
    BY DEF FindingsInv, FindingsTyped, Sound, ProbeBatch
  <1>2. /\ old.queue \in Seq(Batch) /\ batch \in Batch /\ Front(old.queue) \in Seq(Batch)
        /\ Queued(old.queue) \subseteq Queued(Front(old.queue)) \cup ToSet(batch)
    BY <1>1, PopHolds DEF Examined
  <1>3. \A n \in ToSet(batch) : <<old.page, n>> \in items
    BY DEF ToSet
  <1>4. PICK run :
          /\ Set(r, run)
          /\ \/ run = [old EXCEPT !.queue = Front(@), !.complete = FALSE]
             \/ run = [old EXCEPT !.queue = Front(@), !.absent = @ \cup items]
             \/ run = [old EXCEPT !.queue = Front(@), !.found = @ \cup items]
             \/ Len(batch) > 1 /\ run = [old EXCEPT !.queue = Front(@) \o halves(batch)]
    BY DEF ProbeBatch, unresolved
  <1> HIDE DEF items
  <1>5. CASE run = [old EXCEPT !.queue = Front(@), !.complete = FALSE]
    <2>1. /\ DOMAIN run = Fields /\ run.at = "looking" /\ run.victim = old.victim
          /\ run.alone = old.alone /\ run.queue = Front(old.queue) /\ ~run.complete
          /\ run.covered = old.covered /\ run.found = old.found /\ run.absent = old.absent
      BY <1>1, <1>5 DEF Fields
    <2>2. Examined(run)
      BY <1>1, <1>2, <2>1 DEF Examined, Told
    <2> QED
      BY <1>1, <1>4, <2>1, <2>2, StillLooking
  <1>6. CASE \/ run = [old EXCEPT !.queue = Front(@), !.absent = @ \cup items]
             \/ run = [old EXCEPT !.queue = Front(@), !.found = @ \cup items]
    <2>1. /\ DOMAIN run = Fields /\ run.at = "looking" /\ run.victim = old.victim
          /\ run.alone = old.alone /\ run.queue = Front(old.queue)
          /\ run.covered = old.covered /\ run.complete = old.complete /\ run.page = old.page
          /\ run.found \cup run.absent = old.found \cup old.absent \cup items
      BY <1>1, <1>6 DEF Fields
    <2>2. Queued(old.queue) \subseteq Queued(run.queue) \cup ToSet(batch)
      BY <1>2, <2>1
    <2>3. \A p : Told(old, p) \subseteq Told(run, p)
      BY <2>1 DEF Told
    <2>4. Candidates \cap ToSet(batch) \subseteq Told(run, old.page)
      BY <1>3, <2>1 DEF Told
    <2>5. Examined(run)
      BY <1>1, <1>2, <2>1, <2>2, <2>3, <2>4 DEF Examined
    <2> QED
      BY <1>1, <1>4, <2>1, <2>5, StillLooking
  <1>7. CASE Len(batch) > 1 /\ run = [old EXCEPT !.queue = Front(@) \o halves(batch)]
    <2>1. /\ DOMAIN run = Fields /\ run.at = "looking" /\ run.victim = old.victim
          /\ run.alone = old.alone /\ run.queue = Front(old.queue) \o halves(batch)
          /\ run.covered = old.covered /\ run.complete = old.complete /\ run.page = old.page
          /\ run.found = old.found /\ run.absent = old.absent
      BY <1>1, <1>7 DEF Fields
    <2>2. /\ run.queue \in Seq(Batch)
          /\ Queued(Front(old.queue)) \cup ToSet(batch) \subseteq Queued(run.queue)
      BY <1>2, <1>7, <2>1, PushHolds
    <2>3. Examined(run)
      BY <1>1, <1>2, <2>1, <2>2 DEF Examined, Told
    <2> QED
      BY <1>1, <1>4, <2>1, <2>3, StillLooking
  <1> QED
    BY <1>4, <1>5, <1>6, <1>7

\* A link or a dork is told present or absent by its own answer.
LEMMA CheckStep ==
  ASSUME FindingsInv, NEW r \in Runs, CheckLink(r) \/ \E h \in Hits : Verify(r, h)
  PROVE  FindingsInv'
  <1>1. /\ DOMAIN runs[r] = Fields /\ runs[r].at = "looking" /\ stage # "param_discovery"
        /\ UNCHANGED <<stage, reported, retired>>
    BY DEF FindingsInv, FindingsTyped, CheckLink, Verify
  <1>2. PICK run : /\ Set(r, run) /\ DOMAIN run = Fields /\ run.at = "looking"
                   /\ run.victim = runs[r].victim /\ run.alone = runs[r].alone
    <2>1. CASE CheckLink(r)
      <3> DEFINE l == Head(runs[r].queue)
                 rest == [runs[r] EXCEPT !.queue = Tail(@)]
      <3>1. \E run \in {rest, [rest EXCEPT !.found = @ \cup {l}],
                        [rest EXCEPT !.absent = @ \cup {l}]} : Set(r, run)
        BY <2>1 DEF CheckLink
      <3>2. \A run \in {rest, [rest EXCEPT !.found = @ \cup {l}],
                        [rest EXCEPT !.absent = @ \cup {l}]} :
              /\ DOMAIN run = Fields /\ run.at = "looking"
              /\ run.victim = runs[r].victim /\ run.alone = runs[r].alone
        BY <1>1 DEF Fields
      <3> QED
        BY <3>1, <3>2
    <2>2. ASSUME NEW h \in Hits, Verify(r, h)
          PROVE  \E run : /\ Set(r, run) /\ DOMAIN run = Fields /\ run.at = "looking"
                          /\ run.victim = runs[r].victim /\ run.alone = runs[r].alone
      <3> DEFINE rest == [runs[r] EXCEPT !.todo = @ \ {h}]
      <3>1. \E run \in {[rest EXCEPT !.found = @ \cup {h}],
                        [rest EXCEPT !.absent = @ \cup {h}]} : Set(r, run)
        BY <2>2 DEF Verify
      <3>2. \A run \in {[rest EXCEPT !.found = @ \cup {h}],
                        [rest EXCEPT !.absent = @ \cup {h}]} :
              /\ DOMAIN run = Fields /\ run.at = "looking"
              /\ run.victim = runs[r].victim /\ run.alone = runs[r].alone
        BY <1>1 DEF Fields
      <3> QED
        BY <3>1, <3>2
    <2> QED
      BY <2>1, <2>2
  <1> QED
    BY <1>1, <1>2, StillLooking

\* A run that has looked stores what it found.
LEMMA FinishStep ==
  ASSUME FindingsInv, NEW r \in Runs, FinishLooking(r)
  PROVE  FindingsInv'
  <1> DEFINE old == runs[r]
             run == IF stage = "dork"
                    THEN [old EXCEPT !.at = "retiring", !.pending = old.absent]
                    ELSE [old EXCEPT !.at = "storing", !.pending = old.found]
  <1>1. /\ DOMAIN old = Fields /\ old.at = "looking" /\ Sound(old) /\ Set(r, run)
        /\ UNCHANGED <<stage, reported, retired>>
    BY DEF FindingsInv, FindingsTyped, FinishLooking, Looked
  <1>2. /\ DOMAIN run = Fields /\ run.alone = old.alone /\ run.victim = old.victim
        /\ run.queue = old.queue /\ run.covered = old.covered /\ run.page = old.page
        /\ run.complete = old.complete /\ run.found = old.found /\ run.absent = old.absent
        /\ stage = "dork" => run.at = "retiring" /\ run.pending = old.absent
        /\ stage # "dork" => run.at = "storing" /\ run.pending = old.found
    BY <1>1 DEF Fields
  <1> HIDE DEF run
  <1>3. old.victim = Nobody
    BY <1>1 DEF Sound
  <1>4. Sound(run) /\ Open(run, reported')
    BY <1>1, <1>2, <1>3 DEF Sound, Examined, Told, Justified, Open
  <1>5. reported' \cup retired' \subseteq Items
    BY <1>1 DEF FindingsInv, FindingsTyped
  <1> QED
    BY <1>1, <1>2, <1>4, <1>5, OneRun

\* A finding that is stored is open and not retired.
LEMMA StoreStep ==
  ASSUME FindingsInv, NEW r \in Runs, NEW i \in Items, Store(r, i)
  PROVE  FindingsInv'
  <1> DEFINE old == runs[r]
             run == [old EXCEPT !.pending = @ \ {i}]
  <1>1. /\ DOMAIN old = Fields /\ old.at = "storing" /\ Sound(old) /\ Set(r, run)
        /\ reported' = reported \cup {i} /\ retired' = retired \ {i} /\ UNCHANGED stage
        /\ old.alone => Open(old, reported)
    BY DEF FindingsInv, FindingsTyped, Store
  <1>2. /\ DOMAIN run = Fields /\ run.alone = old.alone /\ run.victim = old.victim
        /\ run.queue = old.queue /\ run.covered = old.covered /\ run.page = old.page
        /\ run.complete = old.complete /\ run.found = old.found /\ run.absent = old.absent
        /\ run.at = "storing" /\ run.pending = old.pending \ {i}
    BY <1>1 DEF Fields
  <1> HIDE DEF run
  <1>3. Sound(run)
    BY <1>1, <1>2 DEF Sound, Examined, Told
  <1>4. old.alone => Open(run, reported')
    BY <1>1, <1>2 DEF Open
  <1>5. reported' \cup retired' \subseteq Items
    BY <1>1 DEF FindingsInv, FindingsTyped
  <1> QED
    BY <1>1, <1>2, <1>3, <1>4, <1>5, OneRun

\* A page that is covered and a name of the list: what was not found there is absent.
LEMMA UnreproducedIsJustified ==
  ASSUME FindingsInv, NEW r \in Runs, stage # "dork", NEW i \in unreproduced(r)
  PROVE  Justified(runs[r], i) /\ i \notin runs[r].found
  <1>1. i \in Items /\ Location(i) \in covered(r) /\ i \notin runs[r].found
    BY DEF unreproduced, FindingsInv, FindingsTyped
  <1>2. stage \in {"param_discovery", "broken_links"}
    BY FindingsAssumption DEF FindingsInv, FindingsTyped
  <1>3. ASSUME stage = "param_discovery", i[2] \notin ArjunOnly  PROVE i \in runs[r].absent
    <2>1. /\ i \in Pages \X Params /\ i[1] \in runs[r].covered /\ Examined(runs[r])
      BY <1>1, <1>3 DEF Items, Location, covered, FindingsInv, Sound
    <2>2. i[2] \in Candidates /\ i = <<i[1], i[2]>>
      BY <1>3, <2>1 DEF Params
    <2>3. <<i[1], i[2]>> \in runs[r].found \cup runs[r].absent
      BY <2>1, <2>2 DEF Examined, Told
    <2> QED
      BY <1>1, <2>2, <2>3
  <1> QED
    BY <1>1, <1>2, <1>3 DEF Justified

\* A run that has stored everything has what it found among the open findings.
LEMMA AllStoredStep ==
  ASSUME FindingsInv, NEW r \in Runs, AllStored(r)
  PROVE  FindingsInv'
  <1> DEFINE old == runs[r]
             run == IF stage = "dork" THEN [old EXCEPT !.at = "done"]
                    ELSE [old EXCEPT !.at = "retiring", !.pending = unreproduced(r)]
  <1>1. /\ DOMAIN old = Fields /\ old.at = "storing" /\ old.pending = {} /\ Sound(old)
        /\ Set(r, run) /\ UNCHANGED <<stage, reported, retired>>
        /\ old.alone => Open(old, reported)
    BY DEF FindingsInv, FindingsTyped, AllStored
  <1>2. /\ DOMAIN run = Fields /\ run.alone = old.alone /\ run.victim = old.victim
        /\ run.queue = old.queue /\ run.covered = old.covered /\ run.page = old.page
        /\ run.complete = old.complete /\ run.found = old.found /\ run.absent = old.absent
        /\ stage = "dork" => run.at = "done"
        /\ stage # "dork" => run.at = "retiring" /\ run.pending = unreproduced(r)
    BY <1>1 DEF Fields
  <1> HIDE DEF run
  <1>3. old.victim = Nobody
    BY <1>1 DEF Sound
  <1>4. Sound(run)
    BY <1>1, <1>2, <1>3, UnreproducedIsJustified DEF Sound, Examined, Told, Justified
  <1>5. old.alone => Open(run, reported')
    <2>1. old.alone => old.found \subseteq reported
      BY <1>1 DEF Open
    <2>2. stage # "dork" => unreproduced(r) \cap old.found = {}
      BY UnreproducedIsJustified
    <2> QED
      BY <1>1, <1>2, <1>3, <2>1, <2>2 DEF Open
  <1>6. reported' \cup retired' \subseteq Items
    BY <1>1 DEF FindingsInv, FindingsTyped
  <1> QED
    BY <1>1, <1>2, <1>4, <1>5, <1>6, OneRun

\* A run takes up a finding only if it covered its place and did not find it.
LEMMA ReadStep ==
  ASSUME FindingsInv, NEW r \in Runs, NEW i \in Items, ReadState(r, i)
  PROVE  FindingsInv'
  <1> DEFINE old == runs[r]
             run == [old EXCEPT !.pending = @ \ {i},
                                !.victim = IF i \in reported THEN i ELSE Nobody]
  <1>1. /\ DOMAIN old = Fields /\ old.at = "retiring" /\ i \in old.pending /\ Sound(old)
        /\ Set(r, run) /\ UNCHANGED <<stage, reported, retired>>
        /\ old.alone => Open(old, reported)
    BY DEF FindingsInv, FindingsTyped, ReadState
  <1>2. /\ DOMAIN run = Fields /\ run.alone = old.alone /\ run.at = "retiring"
        /\ run.victim \in {i, Nobody} /\ run.pending = old.pending \ {i}
        /\ run.queue = old.queue /\ run.covered = old.covered /\ run.page = old.page
        /\ run.complete = old.complete /\ run.found = old.found /\ run.absent = old.absent
    BY <1>1 DEF Fields
  <1> HIDE DEF run
  <1>3. Sound(run)
    BY <1>1, <1>2 DEF Sound, Examined, Told, Justified
  <1>4. old.alone => Open(run, reported')
    BY <1>1, <1>2 DEF Open
  <1>5. reported' \cup retired' \subseteq Items
    BY <1>1 DEF FindingsInv, FindingsTyped
  <1> QED
    BY <1>1, <1>2, <1>3, <1>4, <1>5, OneRun

\* A finding is retired on the word of the run that took it up, and no run that was alone
\* had found it.
LEMMA WriteStep ==
  ASSUME FindingsInv, NEW r \in Runs, WriteState(r)
  PROVE  FindingsInv' /\ Justified(runs[r], runs[r].victim)
  <1> DEFINE old == runs[r]
             run == [old EXCEPT !.victim = Nobody]
  <1>1. /\ DOMAIN old = Fields /\ old.victim # Nobody /\ Sound(old)
        /\ Set(r, run) /\ UNCHANGED stage
        /\ reported' = reported \ {old.victim} /\ retired' = retired \cup {old.victim}
        /\ old.alone => Open(old, reported)
    BY DEF FindingsInv, FindingsTyped, WriteState
  <1>2. /\ DOMAIN run = Fields /\ run.alone = old.alone /\ run.at = old.at
        /\ run.victim = Nobody /\ run.pending = old.pending
        /\ run.queue = old.queue /\ run.covered = old.covered /\ run.page = old.page
        /\ run.complete = old.complete /\ run.found = old.found /\ run.absent = old.absent
    BY <1>1 DEF Fields
  <1> HIDE DEF run
  <1>3. old.at = "retiring" /\ old.victim \in Items /\ Justified(old, old.victim)
    BY <1>1 DEF Sound
  <1>4. Sound(run)
    BY <1>1, <1>2 DEF Sound, Examined, Told, Justified
  <1>5. old.alone => Open(run, reported')
    BY <1>1, <1>2, <1>3 DEF Open
  <1>6. reported' \cup retired' \subseteq Items
    BY <1>1, <1>3 DEF FindingsInv, FindingsTyped
  <1> QED
    BY <1>1, <1>2, <1>3, <1>4, <1>5, <1>6, OneRun

\* A run that retires nothing more is done.
LEMMA AllRetiredStep ==
  ASSUME FindingsInv, NEW r \in Runs, AllRetired(r)
  PROVE  FindingsInv'
  <1> DEFINE old == runs[r]
             run == IF stage = "dork"
                    THEN [old EXCEPT !.at = "storing", !.pending = old.found]
                    ELSE [old EXCEPT !.at = "done"]
  <1>1. /\ DOMAIN old = Fields /\ old.at = "retiring" /\ old.victim = Nobody /\ Sound(old)
        /\ Set(r, run) /\ UNCHANGED <<stage, reported, retired>>
        /\ old.alone => Open(old, reported)
    BY DEF FindingsInv, FindingsTyped, AllRetired
  <1>2. /\ DOMAIN run = Fields /\ run.alone = old.alone /\ run.victim = old.victim
        /\ run.queue = old.queue /\ run.covered = old.covered /\ run.page = old.page
        /\ run.complete = old.complete /\ run.found = old.found /\ run.absent = old.absent
        /\ stage = "dork" => run.at = "storing" /\ run.pending = old.found
        /\ stage # "dork" => run.at = "done"
    BY <1>1 DEF Fields
  <1> HIDE DEF run
  <1>3. Sound(run)
    BY <1>1, <1>2 DEF Sound, Examined, Told
  <1>4. old.alone => Open(run, reported')
    BY <1>1, <1>2 DEF Open
  <1>5. reported' \cup retired' \subseteq Items
    BY <1>1 DEF FindingsInv, FindingsTyped
  <1> QED
    BY <1>1, <1>2, <1>3, <1>4, <1>5, OneRun

\* A run that ends or dies is as if it had not begun.
LEMMA RestStep ==
  ASSUME FindingsInv, NEW r \in Runs, End(r) \/ Die(r)
  PROVE  FindingsInv'
  <1>1. /\ runs[r].at # "idle" /\ Set(r, Idle) /\ UNCHANGED <<stage, reported, retired>>
    BY DEF End, Die
  <1>2. Open(Idle, reported')
    BY IdleIsFine DEF Open
  <1>3. reported' \cup retired' \subseteq Items
    BY <1>1 DEF FindingsInv, FindingsTyped
  <1> QED
    BY <1>1, <1>2, <1>3, IdleIsFine, OneRun

\* Every step keeps the invariant.
LEMMA FindingsStep ==
  ASSUME FindingsInv, [FindingsNext]_findingsVars
  PROVE  FindingsInv'
  <1>1. ASSUME UNCHANGED <<stage, reported, retired, runs>>  PROVE FindingsInv'
    BY <1>1 DEF FindingsInv, FindingsTyped, Items, Sound, Examined, Told, Justified, Open, Others
  <1>2. ASSUME NEW f \in Facts, Flip(f)  PROVE FindingsInv'
    BY <1>1, <1>2 DEF Flip
  <1>3. CASE UNCHANGED findingsVars
    BY <1>1, <1>3 DEF findingsVars
  <1>4. ASSUME NEW r \in Runs, Step(r)  PROVE FindingsInv'
    BY <1>4, PageStep, BatchStep, CheckStep, FinishStep, StoreStep, AllStoredStep, ReadStep,
       WriteStep, AllRetiredStep, RestStep DEF Step
  <1> QED
    BY <1>2, <1>3, <1>4, StartStep, RestStep DEF FindingsNext

\* What a run holds of its place (the batches still to ask, what was found, what was
\* answered to be absent) covers every name of the list at each of its pages, in every state
\* (pipelines/param_discovery.py).
THEOREM FindingsInvHolds == FindingsSpec => []FindingsInv
  <1>1. FindingsInit => FindingsInv
    <2> SUFFICES ASSUME FindingsInit  PROVE FindingsInv
      OBVIOUS
    <2>1. /\ stage \in Stages /\ reported = {} /\ retired = {}
          /\ DOMAIN runs = Runs /\ \A r \in Runs : runs[r] = Idle
      BY DEF FindingsInit
    <2> QED
      BY <2>1, IdleIsFine DEF FindingsInv, FindingsTyped
  <1> QED
    BY <1>1, FindingsStep, PTL DEF FindingsSpec

\* A run that had its stage to itself ends with every finding that it made open, whatever
\* requests failed in it (db/findings.py: retire_unreproduced).
THEOREM WhatARunFoundIsOpen == FindingsSpec => []ReproducedIsOpen
  <1>1. FindingsInv => ReproducedIsOpen
    BY DEF FindingsInv, ReproducedIsOpen, Open
  <1> QED
    BY <1>1, FindingsInvHolds, PTL

\* A finding is retired only by a run that asked for it again and was answered that it is
\* gone, but for the two exceptions that CandidateWasReexamined names
\* (db/findings.py: retire_unreproduced).
THEOREM OnlyReexaminedIsRetired == FindingsSpec => CandidateWasReexamined
  <1> DEFINE Reexamined(i) == \/ stage = "param_discovery" /\ i[2] \in ArjunOnly
                              \/ stage = "broken_links"
                              \/ \E r \in Runs : runs[r].victim = i /\ i \in runs[r].absent
  <1>1. ASSUME FindingsInv, [FindingsNext]_findingsVars
        PROVE  [\A i \in retired' \ retired : Reexamined(i)]_retired
    <2>1. CASE UNCHANGED retired
      BY <2>1
    <2>2. ASSUME NEW r \in Runs, WriteState(r)
          PROVE  \A i \in retired' \ retired : Reexamined(i)
      <3>1. retired' = retired \cup {runs[r].victim}
        BY <2>2 DEF WriteState
      <3> QED
        BY <1>1, <2>2, <3>1, WriteStep DEF Justified
    <2>3. ASSUME NEW r \in Runs, NEW i \in Items, Store(r, i)
          PROVE  retired' \subseteq retired
      BY <2>3 DEF Store
    <2>4. ASSUME NEW r \in Runs, Step(r)
          PROVE  UNCHANGED retired \/ WriteState(r) \/ \E i \in Items : Store(r, i)
      BY <2>4 DEF Step, OpenPage, ProbeBatch, ClosePage, CheckLink, Verify, FinishLooking,
                  AllStored, AllRetired, End, ReadState
    <2>5. ASSUME NEW r \in Runs, Start(r) \/ Die(r)  PROVE UNCHANGED retired
      BY <2>5 DEF Start, StartParams, StartLinks, StartDork, Die
    <2>6. ASSUME NEW f \in Facts, Flip(f)  PROVE UNCHANGED retired
      BY <2>6 DEF Flip
    <2>7. CASE UNCHANGED findingsVars
      BY <2>1, <2>7 DEF findingsVars
    <2> QED
      BY <1>1, <2>1, <2>2, <2>3, <2>4, <2>5, <2>6, <2>7 DEF FindingsNext
  <1> QED
    BY <1>1, FindingsInvHolds, PTL DEF FindingsSpec, CandidateWasReexamined
=============================================================================
