-------------------------------- MODULE Modules --------------------------------
(***************************************************************************)
(* core/modules.py: which modules of the pipeline run, given what a user    *)
(* has switched on and off.                                                *)
(***************************************************************************)
EXTENDS FiniteSets, Naturals, Sequences, TLC

CONSTANT MODULES  \* the part of the catalogue that is looked at, with what it requires

\* The modules, each with those whose output it consumes
CATALOGUE ==
  LET On(m, names) == [n \in names |-> m]
  IN  On({}, {"domain_intel", "ingest", "cloud_assets", "uncover", "github_osint",
              "cloud_buckets", "dork", "typosquat", "correlate", "notify"})
      @@ On({"ingest"}, {"reverse_dns", "probe", "tls", "takeover", "port_scan"})
      @@ On({"probe"}, {"crawl", "content_discovery", "api_surface", "http_misconfig", "scan",
                        "secrets", "cve_watch", "nuclei_watch"})
      @@ On({"crawl"}, {"js_mine", "param_discovery", "broken_links"})
      @@ On({"port_scan"}, {"service_scan"}) @@ On({"js_mine"}, {"supply_chain"})

\* They cannot be switched off.
ESSENTIAL == {"ingest", "probe"}

\* They are off unless the user switches them on.
OPT_IN == MODULES \cap {"cloud_assets", "uncover", "reverse_dns", "tls", "param_discovery",
                        "service_scan", "cloud_buckets", "nuclei_watch", "dork", "typosquat"}

\* The order in which a run is shown before it starts
FULL_STAGE_NAMES ==
  <<"domain_intel", "ingest", "cloud_assets", "uncover", "reverse_dns", "probe", "tls",
    "takeover", "crawl", "content_discovery", "js_mine", "api_surface", "http_misconfig",
    "param_discovery", "broken_links", "port_scan", "service_scan", "scan", "secrets",
    "cve_watch", "github_osint", "cloud_buckets", "nuclei_watch", "dork", "supply_chain",
    "typosquat", "correlate", "notify">>

\* The order in which it goes, with what each stage is handed: the program's scope and the
\* classifier of addresses, the politeness limiter as well, or the database alone.
\* cloud_assets, reverse_dns and broken_links get the scope without the classifier.
stage_defs ==
  LET Scoped(name) == <<name, "scope">>
      Limited(name) == <<name, "limiter">>
      Core(name) == <<name, "core">>
  IN  <<Core("domain_intel"), Scoped("ingest"), Scoped("cloud_assets"), Scoped("uncover"),
        Scoped("reverse_dns"), Scoped("probe"), Scoped("tls"), Limited("takeover"),
        Scoped("crawl"), Scoped("content_discovery"), Limited("js_mine"),
        Limited("api_surface"), Limited("http_misconfig"), Limited("param_discovery"),
        Limited("broken_links"), Scoped("port_scan"), Scoped("service_scan"), Scoped("scan"),
        Limited("secrets"), Core("cve_watch"), Core("github_osint"), Core("cloud_buckets"),
        Core("nuclei_watch"), Core("dork"), Core("supply_chain"), Core("typosquat"),
        Core("correlate"), Core("notify")>>

\* What is shown is what runs; the modules are the stages, and what a module requires has
\* run before it.
ASSUME PipelineAssumption ==
  /\ Len(FULL_STAGE_NAMES) = Len(stage_defs)
  /\ \A i \in 1..Len(stage_defs) : stage_defs[i][1] = FULL_STAGE_NAMES[i]
  /\ {stage_defs[i][1] : i \in 1..Len(stage_defs)} = DOMAIN CATALOGUE
  /\ Cardinality(DOMAIN CATALOGUE) = Len(stage_defs)
  /\ \A i, j \in 1..Len(stage_defs) :
       stage_defs[j][1] \in CATALOGUE[stage_defs[i][1]] => j < i

requires == [m \in MODULES |-> CATALOGUE[m]]

ASSUME ModulesAssumption ==
  /\ IsFiniteSet(MODULES)
  /\ ESSENTIAL \subseteq MODULES /\ MODULES \subseteq DOMAIN CATALOGUE
  /\ \A m \in MODULES : requires[m] \subseteq MODULES

\* What the user wants, before requirements count
Wanted(on, off) == ESSENTIAL \cup ((MODULES \ off) \ (OPT_IN \ on))

Met(on) == {m \in on : requires[m] \subseteq on}

\* A mutant: one look at the requirements.
resolve_once(on, off) == Met(Wanted(on, off))

\* The second pass is repeated until nothing changes.
resolve(on, off) ==
  LET pass[k \in Nat] == IF k = 0 THEN Wanted(on, off)
                          ELSE LET before == pass[k - 1] IN Met(before)
  IN  pass[Cardinality(MODULES)]

\* Modules that consume the output of m, directly or not
dependents_of(m) ==
  LET frontier[k \in Nat] ==
        IF k = 0 THEN {m}
        ELSE LET out == frontier[k - 1]
             IN  out \cup {n \in MODULES : requires[n] \cap out # {}}
  IN  frontier[Cardinality(MODULES)] \ {m}

\* What the settings screen shows of each module
catalogue(on, off) ==
  [m \in MODULES |-> [required_by |-> dependents_of(m), enabled |-> m \in resolve(on, off),
                      turned_off |-> m \in off]]

sanitize_disabled(names) == (names \cap MODULES) \ ESSENTIAL
=============================================================================
