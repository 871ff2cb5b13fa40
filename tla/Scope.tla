-------------------------------- MODULE Scope --------------------------------
(***************************************************************************)
(* The decisions of the scope engine (core/scope.py): what kind of address *)
(* a host resolves to and which actions the program permits on it.  Pure   *)
(* operators, as in the code; a range is abstracted to its addresses.      *)
(***************************************************************************)
EXTENDS Integers, FiniteSets

CONSTANTS
  Hosts,         \* names under the verified apex of the program
  Addrs,
  SpecialKind,   \* what the ipaddress module says of an address; "global" else
  ExcludedHosts, ExcludedCidrs,  \* given when the program is created
  AllowPrivate   \* lab_allow_private of the instance

HARD_DENY == {"unspecified", "loopback", "link_local", "multicast", "cgnat",
              "private", "reserved"}
NEVER_OVERRIDABLE == {"link_local"}

HTTP_LAYER_ACTIONS == {"passive_recon", "http_probe", "tls_inspect"}
FULL_ACTIONS ==
  HTTP_LAYER_ACTIONS \cup {"port_scan", "content_discovery", "active_scan"}

ASSUME ScopeAssumption ==
  /\ SpecialKind \in [Addrs -> HARD_DENY \cup {"global"}]
  /\ ExcludedHosts \subseteq Hosts
  /\ ExcludedCidrs \subseteq Addrs
  /\ AllowPrivate \in BOOLEAN

\* ProgramScope
Scopes == [authorized_dedicated_cidrs : SUBSET Addrs,
           scan_shared_infra : BOOLEAN,
           scope_override : BOOLEAN]

owns_host(name) == name \in Hosts

\* classify_ip: the special kinds come first, then the CDN ranges of the feed.
classify_ip(ip, feed) ==
  IF SpecialKind[ip] # "global" THEN SpecialKind[ip]
  ELSE IF ip \in feed.cdn THEN "cdn"
  ELSE IF ip \in feed.cloud_shared THEN "cloud_shared"
  ELSE "public"

denies(ip, scope, feed) ==
  LET cls == classify_ip(ip, feed)
  IN  \/ ip \in ExcludedCidrs
      \/ /\ cls \in HARD_DENY
         /\ ~(AllowPrivate /\ cls = "private")
         /\ ~(scope.scope_override /\ cls \notin NEVER_OVERRIDABLE)

is_dedicated(ip, scope, feed) ==
  LET cls == classify_ip(ip, feed)
  IN  \/ scope.scope_override
      \/ AllowPrivate /\ cls = "private"
      \/ scope.scan_shared_infra /\ cls \in {"cloud_shared", "public"}
      \/ cls # "cdn" /\ ip \in scope.authorized_dedicated_cidrs

\* A mutant: one dedicated address is enough.
evaluate_any(host, ips, scope, feed) ==
  IF (~owns_host(host) /\ ~scope.scope_override) \/ host \in ExcludedHosts THEN {}
  ELSE IF ips = {} THEN {"passive_recon"}
  ELSE IF \E ip \in ips : denies(ip, scope, feed) THEN {}
  ELSE IF \E ip \in ips : is_dedicated(ip, scope, feed) THEN FULL_ACTIONS
  ELSE HTTP_LAYER_ACTIONS

\* evaluate: the permitted actions, none where the decision is "not allowed".
evaluate(host, ips, scope, feed) ==
  IF \/ ~owns_host(host) /\ ~scope.scope_override
     \/ host \in ExcludedHosts
  THEN {}
  ELSE IF ips = {} THEN {"passive_recon"}
  ELSE IF \E ip \in ips : denies(ip, scope, feed) THEN {}
  ELSE IF \A ip \in ips : is_dedicated(ip, scope, feed) THEN FULL_ACTIONS
  ELSE HTTP_LAYER_ACTIONS

\* A mutant: whatever the apex's networks announce is its own.
confirm_announced(requested, announced, feed) ==
  {[cidr |-> c, dedicated |-> c \in announced] :
     c \in {d \in requested : classify_ip(d, feed) \notin HARD_DENY}}

\* confirm_ip_scope: each requested range with the server's verdict; the ranges
\* that are never scanned are dropped.
confirm_ip_scope(requested, announced, feed) ==
  {[cidr |-> c,
    dedicated |-> classify_ip(c, feed) # "cdn" /\ c \in announced] :
     c \in {d \in requested : classify_ip(d, feed) \notin HARD_DENY}}

=============================================================================
