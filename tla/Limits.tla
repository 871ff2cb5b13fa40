-------------------------------- MODULE Limits --------------------------------
(***************************************************************************)
(* The limits that users and operators set, and what the engine makes of    *)
(* them: how often a phase runs (taskqueue/cadence.py), how long a stage    *)
(* may take (timeouts.py), what is worth an alert (core/alert_policy.py,    *)
(* severity.py), the rate a tool is told (core/ratelimit.py) and what is    *)
(* old enough to be purged (scripts/retention.py).                          *)
(*                                                                         *)
(* What is stored is whatever was sent: a function from any names to        *)
(* numbers or junk.  It is cleaned when it is saved, when it is shown and   *)
(* when it is used; the built-in values are overlaid by the tenant's and    *)
(* these by the program's.                                                  *)
(***************************************************************************)
EXTENDS Integers, FiniteSets

CONSTANT Junk  \* a stored value that is not of the kind it should be

ASSUME JunkAssumption == Junk \notin Int

MINUTE == 60
HOUR == 60 * MINUTE

Larger(a, b) == IF a > b THEN a ELSE b
Smaller(a, b) == IF a < b THEN a ELSE b

\* dict.update
Updated(f, o) ==
  [k \in DOMAIN f \cup DOMAIN o |-> IF k \in DOMAIN o THEN o[k] ELSE f[k]]

-----------------------------------------------------------------------------
(* How often a phase runs *)

NON_SCANNING == {"notify"}

CONFIGURABLE_PIPELINES ==
  {"notify", "cve_watch", "probe", "ingest", "scan", "crawl", "takeover", "port_scan",
   "content_discovery", "secrets", "github_osint", "domain_intel", "js_mine", "broken_links",
   "tls", "uncover", "service_scan", "cloud_buckets", "nuclei_watch", "dork", "api_surface",
   "http_misconfig", "supply_chain", "typosquat", "reverse_dns", "param_discovery",
   "cloud_assets"}

DEFAULT_CADENCE_SECONDS ==
  [p \in CONFIGURABLE_PIPELINES |->
     CASE p = "notify"    -> MINUTE
       [] p = "cve_watch" -> 15 * MINUTE
       [] p = "probe"     -> 2 * HOUR
       [] p = "ingest"    -> 6 * HOUR
       [] p \in {"scan", "domain_intel", "nuclei_watch", "cloud_assets"} -> 12 * HOUR
       [] OTHER           -> 24 * HOUR]

\* "Politeness floor"
MIN_INTERVAL_SECONDS == 5 * MINUTE

\* Junk is dropped, and so is what is not positive.
sanitize_overrides(o, floor) ==
  [p \in {q \in DOMAIN o \cap CONFIGURABLE_PIPELINES : o[q] # Junk /\ o[q] > 0} |->
     IF p \in NON_SCANNING THEN o[p] ELSE Larger(o[p], Larger(MIN_INTERVAL_SECONDS, floor))]

effective_cadence(program, tenant, floor) ==
  LET built_in == [p \in CONFIGURABLE_PIPELINES |->
                     IF p \in NON_SCANNING THEN DEFAULT_CADENCE_SECONDS[p]
                     ELSE Larger(DEFAULT_CADENCE_SECONDS[p], floor)]
  IN  Updated(Updated(built_in, sanitize_overrides(tenant, floor)),
              sanitize_overrides(program, floor))

\* A phase that has never run is due: it has no next time.
is_due(last, now, interval) == last = Junk \/ now - last >= interval
next_due(last, interval) == IF last = Junk THEN Junk ELSE last + interval

\* set_schedule, set_defaults: what is saved is cleaned, under the floor of that day.
set_schedule(sent, floor) == sanitize_overrides(sent, floor)

\* _schedule_view cleans what it reads and hands it on to be cleaned again.
schedule_view(program, tenant, floor) ==
  effective_cadence(sanitize_overrides(program, floor), sanitize_overrides(tenant, floor), floor)

-----------------------------------------------------------------------------
(* How long a stage may take *)

DEFAULT_TIMEOUTS_SECONDS ==
  [s \in CONFIGURABLE_PIPELINES \cup {"correlate"} |->
     CASE s \in {"cve_watch", "nuclei_watch", "correlate", "notify"} -> 2 * MINUTE
       [] s = "domain_intel" -> 3 * MINUTE
       [] s \in {"ingest", "uncover", "probe", "tls", "takeover", "github_osint",
                 "cloud_buckets", "dork"} -> 5 * MINUTE
       [] s \in {"api_surface", "reverse_dns"} -> 15 * MINUTE
       [] s = "param_discovery" -> 20 * MINUTE
       [] s = "scan" -> HOUR
       [] OTHER -> 10 * MINUTE]

MIN_TIMEOUT_SECONDS == 30
MAX_TIMEOUT_SECONDS == 6 * HOUR

\* Here what is out of range is moved to the nearest bound, the negative as well.
sanitize_timeout_overrides(o) ==
  [s \in {r \in DOMAIN o \cap DOMAIN DEFAULT_TIMEOUTS_SECONDS : o[r] # Junk} |->
     Larger(MIN_TIMEOUT_SECONDS, Smaller(o[s], MAX_TIMEOUT_SECONDS))]

effective_timeouts(program, tenant) ==
  Updated(Updated(DEFAULT_TIMEOUTS_SECONDS, sanitize_timeout_overrides(tenant)),
          sanitize_timeout_overrides(program))

timeouts_view(program, tenant) ==
  effective_timeouts(sanitize_timeout_overrides(program), sanitize_timeout_overrides(tenant))

-----------------------------------------------------------------------------
(* What is worth an alert.  A port filter is a set of tokens, junk or ranges *)
(* of ports; scores are tenths, and NoScore when a match has none.           *)

SEVERITIES == {"info", "low", "medium", "high", "critical"}
rank == [info |-> 0, low |-> 1, medium |-> 2, high |-> 3, critical |-> 4]
NoScore == -1

from_cvss(score) ==
  CASE score >= 90 -> "critical" [] score \in 70..89 -> "high" [] score \in 40..69 -> "medium"
    [] score \in 1..39 -> "low" [] OTHER -> "info"

escalate_for_kev(base, on_kev) ==
  IF on_kev /\ rank[base] < rank["high"] THEN "high" ELSE base

BOOL_KEYS == {"alert_findings", "alert_secrets", "alert_leaks", "alert_cves",
              "alert_new_assets", "alert_new_ports"}

DEFAULT_ALERT_POLICY ==
  [k \in BOOL_KEYS \cup {"finding_min_severity", "cve_min_cvss", "port_filter"} |->
     CASE k = "finding_min_severity" -> "medium"
       [] k = "cve_min_cvss" -> 0
       [] k = "port_filter" -> {}
       [] OTHER -> TRUE]

Ports == 1..65535
clean_port_spec(spec) == {t \in spec \ {Junk} : t.from \in Ports /\ t.to \in Ports}

\* Ranges may be the wrong way round; a filter of which nothing is left selects every port.
port_matches(spec, port) ==
  LET tokens == clean_port_spec(spec)
  IN  tokens = {} \/ \E t \in tokens : port \in Smaller(t.from, t.to)..Larger(t.from, t.to)

\* Whatever is not falsy switches a family on; FALSE stands for all that is.
sanitize_alert_policy(o) ==
  [k \in {j \in DOMAIN o \cap DOMAIN DEFAULT_ALERT_POLICY :
            j \in {"finding_min_severity", "cve_min_cvss"} => o[j] # Junk} |->
     CASE k \in BOOL_KEYS -> o[k] # FALSE
       [] k = "finding_min_severity" -> o[k]
       [] k = "cve_min_cvss" -> Smaller(100, Larger(0, o[k]))
       [] k = "port_filter" -> IF o[k] = Junk THEN {} ELSE clean_port_spec(o[k])]

effective_alert_policy(program, tenant) ==
  Updated(Updated(DEFAULT_ALERT_POLICY, sanitize_alert_policy(tenant)),
          sanitize_alert_policy(program))

\* _confidence: "high" when the version is affected; without a version nobody knows.
confidence(item, record) ==
  IF item.version = Junk THEN "low"
  ELSE IF item.version \in record.affected THEN "high" ELSE "none"

\* Fingerprinted products against the feed; what is on the KEV list is trusted.
match_of(item, record, kev) ==
  [cve_id |-> record.cve_id, item |-> item, on_kev |-> record.cve_id \in kev,
   trusted |-> record.cve_id \in kev \/ confidence(item, record) = "high",
   score |-> record.score,
   severity |-> escalate_for_kev(from_cvss(record.score), record.cve_id \in kev)]

match_cves(items, records, kev) ==
  {match_of(pair[1], pair[2], kev) :
     pair \in {q \in items \X records : /\ q[1].product = q[2].product
                                        /\ confidence(q[1], q[2]) # "none"}}

\* _cve_keep: a floor on the score drops what has none.
cve_keep(match, policy) ==
  /\ match.trusted \/ match.on_kev
  /\ policy["cve_min_cvss"] > 0 => match.score >= policy["cve_min_cvss"]
  /\ rank[match.severity] >= rank[policy["finding_min_severity"]]

-----------------------------------------------------------------------------
(* The rate a tool is told.  Rates per target are in hundredths.            *)

SUBPROCESS_RATE_CEILING == 1000

subprocess_rate_for(hosts, cap) ==
  Larger(1, Smaller(SUBPROCESS_RATE_CEILING, (cap * Larger(1, hosts)) \div 100))

\* The tool spreads its rate evenly over its targets.
within_cap(hosts, cap) == 100 * subprocess_rate_for(hosts, cap) <= cap * Larger(1, hosts)

-----------------------------------------------------------------------------
(* What is old enough to be purged.  Times are days.                        *)

PURGEABLE == {"findings", "endpoints", "ports", "secrets", "leaks", "cve_matches",
              "js_files", "deltas", "scan_runs"}
PROTECTED == {"assets", "programs", "authorizations", "tenants", "users", "groups",
              "api_keys", "integrations", "notifications", "schedule", "domain_intel",
              "scope_feed"}
MIN_RETENTION_DAYS == 30

cutoff_for(retention_days, now) == now - Larger(retention_days, MIN_RETENTION_DAYS)

\* A collection whose deletion fails is passed over.
purge_tenant(records, tenant, retention_days, now, failing) ==
  {r \in records : \/ r.tenant # tenant
                   \/ r.collection \notin PURGEABLE \ (PROTECTED \cup failing)
                   \/ r.seen >= cutoff_for(retention_days, now)}

\* Every tenant that is there, with the one setting of the instance
purge_all(records, tenants, retention_days, now, failing) ==
  {r \in records :
     \A t \in tenants : r \in purge_tenant(records, t, retention_days, now, failing)}
=============================================================================
