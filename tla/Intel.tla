--------------------------------- MODULE Intel ---------------------------------
(***************************************************************************)
(* Stages that add to what is known and never take a report back: secrets   *)
(* and scan store what they find while they look, takeover and domain_intel *)
(* when they have looked, nuclei_watch keeps the templates it has seen, and *)
(* five stages ask third parties: cloud_buckets, typosquat, cve_watch,      *)
(* supply_chain and github_osint.                                           *)
(* Runs of a stage may overlap, die and meet requests that fail.            *)
(*                                                                         *)
(* Stages do not touch each other's records: a behaviour is about one.      *)
(***************************************************************************)
EXTENDS Naturals, FiniteSets

CONSTANTS
  Runs,        \* executions of the stage that may overlap
  Stages,
  Pages,       \* scannable urls, mined bundles, files on GitHub
  Secrets, PageOf,  \* what they contain: credentials, for supply_chain package names
  Patterned,   \* secrets that a pattern of find_secrets matches
  Live,        \* secrets that trufflehog can use
  Queries,     \* number of searches on GitHub
  ShownBy,     \* the searches whose fragment of the file shows a secret
  MaxCandidates, \* package names at which supply_chain stops reading
  Guesses,     \* lookalike domains, bucket urls, CVEs of the products
  Graver,      \* those with mail records, on the KEV list
  Matches,     \* what nuclei may print
  Hosts,       \* monitored hosts that resolve
  Templates,   \* template ids that may match the program's products
  Records,     \* kinds of mail records
  Nobody,
  MaxMoves,    \* bound on changes of the world
  MaxFaults    \* bound on failed requests and deaths

ASSUME IntelAssumption ==
  /\ Stages \subseteq {"secrets", "scan", "takeover", "nuclei_watch", "domain_intel",
                      "cloud_buckets", "typosquat", "cve_watch", "supply_chain",
                      "github_osint"}
  /\ Queries \in Nat /\ ShownBy \in [Secrets -> SUBSET (1..Queries)]
  /\ MaxCandidates \in Nat \ {0} /\ Graver \subseteq Guesses
  /\ PageOf \in [Secrets -> Pages] /\ Patterned \subseteq Secrets /\ Live \subseteq Secrets
  /\ \A known_ids \in SUBSET Templates : known_ids # Nobody
  /\ MaxMoves \in Nat /\ MaxFaults \in Nat

VARIABLES
  stage,       \* the stage of this behaviour
  facts,       \* what is the case
  stored,      \* records of the stage
  proven,      \* records stored as verified, with mail or on KEV
  flagged,     \* hosts whose takeover_risk is set
  known,       \* known_template_ids
  posture,     \* the mail records that the panel shows
  told,        \* history: what some run reported as new
  overlapped,  \* history: two runs were under way at once
  runs, moves, faults

db == <<stored, proven, flagged, known, posture, told>>
vars == <<stage, facts, stored, proven, flagged, known, posture, told, overlapped, runs,
          moves, faults>>

Items == CASE stage \in {"secrets", "supply_chain", "github_osint"} -> Secrets
           [] stage \in {"cloud_buckets", "typosquat", "cve_watch"} -> Guesses
           [] stage = "scan" -> Matches
           [] stage = "takeover" -> Hosts
           [] stage = "nuclei_watch" -> Templates
           [] stage = "domain_intel" -> Records

Idle == [at |-> "idle", todo |-> {}, staged |-> {}, hits |-> {}, pending |-> {},
         seen |-> {}, base |-> Nobody, new |-> {}]

-----------------------------------------------------------------------------
Enter(r, run) ==
  /\ runs[r].at = "idle"
  /\ runs' = [runs EXCEPT ![r] = run]
  /\ overlapped' = (overlapped \/ \E o \in Runs \ {r} : runs[o].at # "idle")
  /\ UNCHANGED <<stage, facts, moves, faults>> /\ UNCHANGED db

Becomes(r, run) ==
  runs' = [runs EXCEPT ![r] = run] /\ UNCHANGED <<stage, facts, overlapped, moves>>

Fault == faults < MaxFaults /\ faults' = faults + 1
Answered == UNCHANGED faults

Looking(r, s) == stage = s /\ runs[r].at = "looking"

\* A mutant: an observation of what is known is reported as new, too.
UpsertNewEach(r, hit, run) ==
  /\ stored' = stored \cup {hit[1]}
  /\ proven' = IF hit[2] THEN proven \cup {hit[1]} ELSE proven \ {hit[1]}
  /\ told' = told \cup {hit[1]}
  /\ Becomes(r, [run EXCEPT !.pending = @ \ {hit}, !.new = @ \cup {hit[1]}])
  /\ UNCHANGED <<flagged, known, posture>>

\* upsert of a hit, an item and whether it is verified: every field is set, an insert
\* is reported as new.
Upsert(r, hit, run) ==
  /\ stored' = stored \cup {hit[1]}
  /\ proven' = IF hit[2] THEN proven \cup {hit[1]} ELSE proven \ {hit[1]}
  /\ told' = told \cup ({hit[1]} \ stored)
  /\ Becomes(r, [run EXCEPT !.pending = @ \ {hit}, !.new = @ \cup ({hit[1]} \ stored)])
  /\ UNCHANGED <<flagged, known, posture>>

-----------------------------------------------------------------------------
(* secrets *)

StartSecrets(r) ==
  stage = "secrets" /\ Enter(r, [Idle EXCEPT !.at = "looking", !.todo = Pages])

\* find_secrets: what the patterns see in a body
find_secrets(p) == {<<s, FALSE>> : s \in {x \in facts \cap Patterned : PageOf[x] = p}}

\* A body is fetched, staged for trufflehog and read.
ReadBody(r, p) ==
  /\ Looking(r, "secrets") /\ p \in runs[r].todo
  /\ \/ Becomes(r, [runs[r] EXCEPT !.todo = @ \ {p}]) /\ Fault
     \/ /\ Answered
        /\ Becomes(r, [runs[r] EXCEPT !.todo = @ \ {p}, !.staged = @ \cup {x \in facts : PageOf[x] = p},
                                      !.hits = @ \cup find_secrets(p),
                                      !.pending = @ \cup find_secrets(p)])
  /\ UNCHANGED db

\* _persist: the first hit of a fingerprint is stored at once, others are passed over.
Persist(r, hit) ==
  /\ stage = "secrets" /\ hit \in runs[r].pending
  /\ Answered
  /\ IF hit[1] \in runs[r].seen
     THEN Becomes(r, [runs[r] EXCEPT !.pending = @ \ {hit}]) /\ UNCHANGED db
     ELSE Upsert(r, hit, [runs[r] EXCEPT !.seen = @ \cup {hit[1]}])

\* trufflehog over the staged bodies; out of time or absent it has nothing to say.
DeepScan(r) ==
  LET deep == {<<s, s \in Live>> : s \in runs[r].staged}
  IN  /\ Looking(r, "secrets") /\ runs[r].todo = {} /\ runs[r].pending = {}
      /\ \/ Becomes(r, [runs[r] EXCEPT !.at = "storing"]) /\ Fault
         \/ /\ Becomes(r, [runs[r] EXCEPT !.at = "storing", !.hits = @ \cup deep,
                                          !.pending = deep])
            /\ Answered
      /\ UNCHANGED db

-----------------------------------------------------------------------------
(* scan *)

StartScan(r) == stage = "scan" /\ Enter(r, [Idle EXCEPT !.at = "looking"])

\* nuclei prints a match; a task stores it.
Emit(r, i) ==
  /\ Looking(r, "scan") /\ i \in facts /\ <<i, FALSE>> \notin runs[r].hits
  /\ Becomes(r, [runs[r] EXCEPT !.hits = @ \cup {<<i, FALSE>>},
                                !.pending = @ \cup {<<i, FALSE>>}])
  /\ Answered /\ UNCHANGED db

\* on_finding: a match counts as streamed once it is stored.
on_finding(r, hit) ==
  /\ Looking(r, "scan") /\ hit \in runs[r].pending
  /\ \/ Upsert(r, hit, [runs[r] EXCEPT !.seen = @ \cup {hit[1]}]) /\ Answered
     \/ Becomes(r, [runs[r] EXCEPT !.pending = @ \ {hit}]) /\ Fault /\ UNCHANGED db

\* A mutant: a match counts as streamed before it is stored.
leftoverNone(run) == {}

\* What is left to store when the tool has ended
leftover(run) == {hit \in run.hits : hit[1] \notin run.seen}

\* nuclei ends or is killed at its budget; the tasks are awaited.
ToolEnds(r) ==
  /\ Looking(r, "scan") /\ runs[r].pending = {}
  /\ Becomes(r, [runs[r] EXCEPT !.at = "storing", !.pending = leftover(runs[r])])
  /\ Answered /\ UNCHANGED db

-----------------------------------------------------------------------------
(* takeover *)

StartTakeover(r) ==
  stage = "takeover" /\ Enter(r, [Idle EXCEPT !.at = "looking", !.todo = Hosts])

\* check_host: a host that does not answer is no hit.
check_host(r, h) ==
  /\ Looking(r, "takeover") /\ h \in runs[r].todo
  /\ \/ Becomes(r, [runs[r] EXCEPT !.todo = @ \ {h}]) /\ Fault
     \/ /\ Answered
        /\ Becomes(r, [runs[r] EXCEPT !.todo = @ \ {h},
                                      !.hits = @ \cup ({h} \cap facts) \X {FALSE}])
  /\ UNCHANGED db

AllChecked(r) ==
  /\ Looking(r, "takeover") /\ runs[r].todo = {}
  /\ Becomes(r, [runs[r] EXCEPT !.at = "flagging", !.todo = Hosts])
  /\ Answered /\ UNCHANGED db

\* A mutant: the flag of a host without a hit is left as it is.
flagsKept(run, h) == IF <<h, FALSE>> \in run.hits THEN flagged \cup {h} ELSE flagged

\* set_flag: takeover_risk is set on a hit and cleared on none.
flags(run, h) == IF <<h, FALSE>> \in run.hits THEN flagged \cup {h} ELSE flagged \ {h}

set_flag(r, h) ==
  /\ runs[r].at = "flagging" /\ h \in runs[r].todo
  /\ flagged' = flags(runs[r], h)
  /\ Becomes(r, [runs[r] EXCEPT !.todo = @ \ {h}])
  /\ UNCHANGED <<stored, proven, known, posture, told, faults>>

AllFlagged(r) ==
  /\ runs[r].at = "flagging" /\ runs[r].todo = {}
  /\ Becomes(r, [runs[r] EXCEPT !.at = "storing", !.pending = runs[r].hits])
  /\ Answered /\ UNCHANGED db

-----------------------------------------------------------------------------
(* nuclei_watch *)

\* The installed templates that match the products of the endpoints
StartWatch(r) ==
  /\ stage = "nuclei_watch"
  /\ Enter(r, [Idle EXCEPT !.at = "looking", !.todo = facts])

\* Without any product the stage is skipped.
SkipWatch(r) ==
  /\ Looking(r, "nuclei_watch") /\ runs[r].todo = {}
  /\ Becomes(r, [runs[r] EXCEPT !.at = "done"])
  /\ Answered /\ UNCHANGED db

ReadKnown(r) ==
  /\ Looking(r, "nuclei_watch")
  /\ Becomes(r, [runs[r] EXCEPT !.at = "writing", !.base = known])
  /\ Answered /\ UNCHANGED db

\* The ids that are written back
remembered(run) == IF run.base = Nobody THEN run.todo ELSE run.base \cup run.todo

\* The first run takes the baseline and reports nothing.
new_template_ids(run) == IF run.base = Nobody THEN {} ELSE run.todo \ run.base

set_known_template_ids(r) ==
  LET new == new_template_ids(runs[r])
  IN  /\ runs[r].at = "writing"
      /\ known' = IF runs[r].base = Nobody \/ new # {} THEN remembered(runs[r]) ELSE known
      /\ told' = told \cup new
      /\ Becomes(r, [runs[r] EXCEPT !.at = "done", !.new = new])
      /\ UNCHANGED <<stored, proven, flagged, posture, faults>>

-----------------------------------------------------------------------------
(* domain_intel *)

StartDomain(r) ==
  stage = "domain_intel" /\ Enter(r, [Idle EXCEPT !.at = "looking", !.todo = Records])

\* resolve_txt: three failed tries look like a name without records.
resolve_txt(r, x) ==
  /\ Looking(r, "domain_intel") /\ x \in runs[r].todo
  /\ \/ Becomes(r, [runs[r] EXCEPT !.todo = @ \ {x}]) /\ Fault
     \/ /\ Answered
        /\ Becomes(r, [runs[r] EXCEPT !.todo = @ \ {x}, !.seen = @ \cup ({x} \cap facts)])
  /\ UNCHANGED db

\* A mutant: one empty lookup is taken for a failure of all.
unansweredAny(run) == run.seen # Records

\* _DnsUnanswered: nothing at all came back.
unanswered(run) == run.seen = {}

\* analyse: every record that did not come back is reported as missing.
analyse(r) ==
  /\ Looking(r, "domain_intel") /\ runs[r].todo = {}
  /\ Becomes(r, LET missing == IF unanswered(runs[r]) THEN {}
                               ELSE (Records \ runs[r].seen) \X {FALSE}
                IN [runs[r] EXCEPT !.at = "storing", !.hits = missing, !.pending = missing])
  /\ Answered /\ UNCHANGED db

-----------------------------------------------------------------------------
(* cloud_buckets *)

StartBuckets(r) ==
  stage = "cloud_buckets" /\ Enter(r, [Idle EXCEPT !.at = "looking", !.todo = Guesses])

\* default_checker: a bucket that does not answer is no bucket; the public ones are kept.
check(r, b) ==
  /\ Looking(r, "cloud_buckets") /\ b \in runs[r].todo
  /\ \/ Becomes(r, [runs[r] EXCEPT !.todo = @ \ {b}]) /\ Fault
     \/ /\ Answered
        /\ Becomes(r, [runs[r] EXCEPT !.todo = @ \ {b},
                                      !.hits = @ \cup ({b} \cap facts) \X {FALSE}])
  /\ UNCHANGED db

-----------------------------------------------------------------------------
(* typosquat and cve_watch: one question for all, a second one for the severity *)

StartTyposquat(r) == stage = "typosquat" /\ Enter(r, [Idle EXCEPT !.at = "looking"])

\* The candidates are resolved at once; a failure leaves none.
resolve_many(r) ==
  /\ Looking(r, "typosquat")
  /\ \/ Becomes(r, [runs[r] EXCEPT !.at = "storing"]) /\ Fault
     \/ Becomes(r, [runs[r] EXCEPT !.at = "rating", !.staged = facts]) /\ Answered
  /\ UNCHANGED db

StartCveWatch(r) == stage = "cve_watch" /\ Enter(r, [Idle EXCEPT !.at = "looking"])

\* fetch_recent_cves: an outage of the feed is an empty feed.
fetch_recent_cves(r) ==
  /\ Looking(r, "cve_watch")
  /\ \/ Becomes(r, [runs[r] EXCEPT !.at = "rating"]) /\ Fault
     \/ Becomes(r, [runs[r] EXCEPT !.at = "rating", !.staged = facts]) /\ Answered
  /\ UNCHANGED db

\* The hits with what the second answer says of them; without it none is graver.
rated(run, answer) == {<<g, g \in answer>> : g \in run.staged}

\* resolve_mx_many, fetch_kev
Rate(r) ==
  /\ runs[r].at = "rating"
  /\ \E answer \in {Graver, {}} :
       /\ IF answer = Graver THEN Answered ELSE Fault
       /\ LET found == rated(runs[r], answer)
          IN  Becomes(r, [runs[r] EXCEPT !.at = "storing", !.hits = found,
                                         !.pending = found])
  /\ UNCHANGED db

-----------------------------------------------------------------------------
(* supply_chain *)

StartSupply(r) ==
  stage = "supply_chain" /\ Enter(r, [Idle EXCEPT !.at = "looking", !.todo = Pages])

extract_packages(p) == {s \in Secrets : PageOf[s] = p}

\* A bundle is read for package names, until there are enough; a dead one is skipped.
fetch_bundle(r, p) ==
  /\ Looking(r, "supply_chain") /\ p \in runs[r].todo
  /\ \/ Becomes(r, [runs[r] EXCEPT !.todo = @ \ {p}]) /\ Fault
     \/ /\ Answered
        /\ LET packages == runs[r].staged \cup extract_packages(p)
           IN  Becomes(r, [runs[r] EXCEPT
                 !.staged = packages,
                 !.todo = IF Cardinality(packages) >= MaxCandidates THEN {} ELSE @ \ {p}])
  /\ UNCHANGED db

BundlesRead(r) ==
  /\ Looking(r, "supply_chain") /\ runs[r].todo = {}
  /\ Becomes(r, [runs[r] EXCEPT !.at = "asking", !.todo = runs[r].staged])
  /\ Answered /\ UNCHANGED db

\* registry_status, assess: only a 404 says that nobody owns the name.
registry_status(r, x) ==
  /\ runs[r].at = "asking" /\ x \in runs[r].todo
  /\ \/ Becomes(r, [runs[r] EXCEPT !.todo = @ \ {x}]) /\ Fault
     \/ /\ Answered
        /\ Becomes(r, [runs[r] EXCEPT !.todo = @ \ {x},
                                      !.hits = @ \cup ({x} \cap facts) \X {FALSE}])
  /\ UNCHANGED db

-----------------------------------------------------------------------------
(* github_osint *)

StartGithub(r) ==
  stage = "github_osint" /\ Enter(r, [Idle EXCEPT !.at = "looking", !.todo = 1..Queries])

\* search_leaks: the searches in their order. A file is read in the fragment of the first
\* search that returns it; every search returns every file. A refused one returns none.
search_leaks(r, q) ==
  LET read == {s \in facts : PageOf[s] \notin runs[r].seen /\ q \in ShownBy[s]}
  IN  /\ Looking(r, "github_osint")
      /\ q \in runs[r].todo /\ \A other \in runs[r].todo : q <= other
      /\ \/ Becomes(r, [runs[r] EXCEPT !.todo = @ \ {q}]) /\ Fault
         \/ /\ Answered
            /\ Becomes(r, [runs[r] EXCEPT !.todo = @ \ {q}, !.seen = @ \cup Pages,
                                          !.hits = @ \cup read \X {FALSE}])
      /\ UNCHANGED db

-----------------------------------------------------------------------------
\* All answers of a stage are in; what they show is stored.
AllAnswered(r) ==
  /\ \/ Looking(r, "cloud_buckets") \/ Looking(r, "github_osint") \/ runs[r].at = "asking"
  /\ runs[r].todo = {}
  /\ Becomes(r, [runs[r] EXCEPT !.at = "storing", !.pending = runs[r].hits])
  /\ Answered /\ UNCHANGED db

\* Hits that are stored when the looking is over; a failed upsert ends the run.
Store(r, hit) ==
  /\ runs[r].at = "storing" /\ hit \in runs[r].pending /\ stage # "secrets"
  /\ Upsert(r, hit, runs[r])
  /\ Answered

\* domain_intel saves what it saw, empty or not.
Finish(r) ==
  /\ runs[r].at = "storing" /\ runs[r].pending = {}
  /\ posture' = IF stage = "domain_intel"
                THEN IF unanswered(runs[r]) THEN {} ELSE runs[r].seen
                ELSE posture
  /\ Becomes(r, [runs[r] EXCEPT !.at = "done"])
  /\ UNCHANGED <<stored, proven, flagged, known, told, faults>>

End(r) ==
  /\ runs[r].at = "done"
  /\ Becomes(r, Idle) /\ Answered /\ UNCHANGED db

\* A timeout, a stop, a failed write or a crash
Die(r) ==
  /\ runs[r].at \notin {"idle", "done"}
  /\ Becomes(r, Idle) /\ Fault /\ UNCHANGED db

\* The world changes.
Flip(i) ==
  /\ moves < MaxMoves /\ moves' = moves + 1
  /\ facts' = IF i \in facts THEN facts \ {i} ELSE facts \cup {i}
  /\ UNCHANGED <<stage, overlapped, runs, faults>> /\ UNCHANGED db

Start(r) == StartSecrets(r) \/ StartScan(r) \/ StartTakeover(r) \/ StartWatch(r)
              \/ StartDomain(r) \/ StartBuckets(r) \/ StartTyposquat(r)
              \/ StartCveWatch(r) \/ StartSupply(r) \/ StartGithub(r)

Step(r) ==
  \/ \E p \in Pages : ReadBody(r, p) \/ fetch_bundle(r, p)
  \/ \E b \in Guesses : check(r, b)
  \/ \E x \in Secrets : registry_status(r, x)
  \/ \E q \in 1..Queries : search_leaks(r, q)
  \/ resolve_many(r) \/ fetch_recent_cves(r) \/ Rate(r) \/ BundlesRead(r)
  \/ AllAnswered(r)
  \/ \E hit \in runs[r].pending : Persist(r, hit) \/ on_finding(r, hit) \/ Store(r, hit)
  \/ \E i \in Matches : Emit(r, i)
  \/ \E h \in Hosts : check_host(r, h) \/ set_flag(r, h)
  \/ \E x \in Records : resolve_txt(r, x)
  \/ DeepScan(r) \/ ToolEnds(r) \/ AllChecked(r) \/ AllFlagged(r) \/ SkipWatch(r)
  \/ ReadKnown(r) \/ set_known_template_ids(r) \/ analyse(r) \/ Finish(r) \/ End(r)

Init ==
  /\ stage \in Stages
  /\ facts \in SUBSET Items
  /\ stored = {} /\ proven = {} /\ flagged = {} /\ known = Nobody /\ posture = {}
  /\ told = {} /\ overlapped = FALSE
  /\ runs = [r \in Runs |-> Idle] /\ moves = 0 /\ faults = 0

Next == \/ \E r \in Runs : Start(r) \/ Step(r) \/ Die(r)
        \/ \E i \in Items : Flip(i)

Spec == Init /\ [][Next]_vars

\* The phase recurs (PhaseRuns), a run goes on, and the faults come to an end.
FairSpec == Spec /\ \A r \in Runs : WF_vars(Start(r)) /\ WF_vars(Step(r))

-----------------------------------------------------------------------------
(* Properties *)

\* What a run found is stored when it ends, also when a streamed write failed or the
\* tool was killed at its budget; secrets are stored as they are found, so that a run
\* that dies has kept them.
FoundIsStored ==
  \A r \in Runs : runs[r].at = "done" \/ stage = "secrets" =>
    {hit[1] : hit \in runs[r].hits \ runs[r].pending} \subseteq stored

\* Nothing is reported as new twice, by whatever overlapping runs; nuclei_watch keeps
\* this promise while its runs do not overlap (two of them may undo each other's ids).
NewOnce ==
  [][\A r \in Runs : \/ stage = "nuclei_watch" /\ overlapped
                     \/ told \cap (runs'[r].new \ runs[r].new) = {}]_vars

\* takeover_risk "self-clears on a clean re-check": once the world stays as it is and
\* requests are answered, exactly the vulnerable hosts are flagged, for good.
FlagSettles ==
  \A h \in Hosts :
    stage = "takeover" => /\ <>[](h \in facts) => <>[](h \in flagged)
                          /\ <>[](h \notin facts) => <>[](h \notin flagged)

\* In the same way the panel settles on the mail records that the apex has.
PostureSettles ==
  \A published \in SUBSET Records \ {{}} :
    stage = "domain_intel" =>
      (<>[](facts = published) => <>[](posture = published))
=============================================================================
