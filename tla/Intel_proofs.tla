----------------------------- MODULE Intel_proofs -----------------------------
(***************************************************************************)
(* What a run of the intelligence stages found is stored when it ends, and *)
(* nothing is reported as new twice, for any number of overlapping runs.   *)
(*                                                                         *)
(* Neither is inductive: between a find and its store a run holds the hit, *)
(* and what a stage calls new it compares with what was stored when it     *)
(* looked.  The invariant follows a hit through the run, stage by stage,   *)
(* and what nuclei_watch read of the ids it knows until it writes them.    *)
(***************************************************************************)
EXTENDS Intel, TLAPS

Fields == {"at", "todo", "staged", "hits", "pending", "seen", "base", "new"}

-----------------------------------------------------------------------------
(* The invariant *)

\* What holds of a run while st is stored.  From the moment that it stores, and for
\* secrets always, what it has hit is stored or about to be; what a stage counts as stored
\* while the tool still runs is stored.
Sound(run, st) ==
  /\ DOMAIN run = Fields
  /\ run.at \in {"storing", "done"} \/ stage = "secrets" =>
       \A hit \in run.hits \ run.pending : hit[1] \in st
  /\ stage \in {"secrets", "scan"} => run.seen \subseteq st
  /\ stage = "typosquat" /\ run.at = "looking" => run.hits = {}
  /\ run.at = "asking" => stage = "supply_chain"
  /\ run.at = "writing" => stage = "nuclei_watch"
  /\ stage = "nuclei_watch" =>
       /\ run.at \in {"idle", "looking", "writing", "done"} /\ run.hits = {}
       /\ run.todo \subseteq Templates /\ run.base \in (SUBSET Templates) \cup {Nobody}

\* nuclei_watch while its runs do not overlap: every id that was reported is among those
\* it knows, and the run that writes them has read them as they are.
WatchedOnce ==
  /\ \A r \in Runs, o \in Runs : r = o \/ runs[r].at = "idle" \/ runs[o].at = "idle"
  /\ IF known = Nobody THEN told = {} ELSE told \subseteq known
  /\ \A r \in Runs : runs[r].at = "writing" => runs[r].base = known

IntelInv ==
  /\ DOMAIN runs = Runs /\ \A r \in Runs : Sound(runs[r], stored)
  /\ stage # "nuclei_watch" => told \subseteq stored
  /\ stage = "nuclei_watch" =>
       /\ facts \subseteq Templates /\ known \in (SUBSET Templates) \cup {Nobody}
       /\ ~overlapped => WatchedOnce

\* A run that has not begun has nothing to answer for.
LEMMA IdleIsFine ==
  /\ Sound(Idle, stored) /\ Sound(Idle, {}) /\ Idle.at = "idle" /\ Idle.new = {}
  BY DEF Idle, Sound, Fields

\* A run of a stage other than nuclei_watch takes a step.
LEMMA OneRun ==
  ASSUME IntelInv, NEW r \in Runs, NEW run, Becomes(r, run), stage # "nuclei_watch",
         stored \subseteq stored', told' \subseteq stored', Sound(run, stored')
  PROVE  IntelInv'
  <1>1. /\ DOMAIN runs' = Runs /\ runs'[r] = run /\ stage' = stage
        /\ \A o \in Runs : o # r => runs'[o] = runs[o]
    BY DEF IntelInv, Becomes
  <1>2. ASSUME NEW o \in Runs  PROVE Sound(runs[o], stored)'
    <2>1. CASE o = r
      BY <1>1, <2>1 DEF Sound
    <2>2. CASE o # r
      BY <1>1, <2>2 DEF Sound, IntelInv
    <2> QED
      BY <2>1, <2>2
  <1> QED
    BY <1>1, <1>2 DEF IntelInv

\* A run that goes on, as long as it does not lose sight of a hit of secrets.
LEMMA GoesOn ==
  ASSUME IntelInv, NEW r \in Runs, NEW run, Becomes(r, run), stage # "nuclei_watch",
         UNCHANGED db, DOMAIN run = Fields,
         \/ run.at \in {"looking", "flagging", "rating"}
         \/ run.at = "asking" /\ stage = "supply_chain",
         stage = "typosquat" => run.at # "looking",
         stage = "secrets" => run.hits \ run.pending \subseteq runs[r].hits \ runs[r].pending,
         stage \in {"secrets", "scan"} => run.seen = runs[r].seen
  PROVE  IntelInv'
  <1>1. Sound(runs[r], stored) /\ told \subseteq stored
    BY DEF IntelInv
  <1>2. stored' = stored /\ told' = told
    BY DEF db
  <1>3. Sound(run, stored')
    BY <1>1, <1>2 DEF Sound
  <1> QED
    BY <1>1, <1>2, <1>3, OneRun

\* A run that begins to store, or has stored.
LEMMA Stores ==
  ASSUME IntelInv, NEW r \in Runs, NEW run, Becomes(r, run), stage # "nuclei_watch",
         stored \subseteq stored', told' \subseteq stored', DOMAIN run = Fields,
         run.at \in {"storing", "done"}, run.seen = runs[r].seen,
         \A hit \in run.hits \ run.pending : hit[1] \in stored'
  PROVE  IntelInv'
  <1>1. Sound(run, stored')
    BY DEF IntelInv, Sound
  <1> QED
    BY <1>1, OneRun

-----------------------------------------------------------------------------
(* The steps *)

\* What is found while a run looks is stored at once or held to be stored.
LEMMA LookStep ==
  ASSUME IntelInv, NEW r \in Runs,
         \/ \E p \in Pages : ReadBody(r, p) \/ fetch_bundle(r, p)
         \/ \E b \in Guesses : check(r, b)
         \/ \E x \in Secrets : registry_status(r, x)
         \/ \E q \in 1..Queries : search_leaks(r, q)
         \/ \E i \in Matches : Emit(r, i)
         \/ \E h \in Hosts : check_host(r, h)
         \/ \E x \in Records : resolve_txt(r, x)
  PROVE  IntelInv'
  <1> DEFINE old == runs[r]
  <1>1. Sound(old, stored) /\ DOMAIN old = Fields
    BY DEF IntelInv, Sound
  <1>2. /\ stage # "nuclei_watch" /\ stage # "typosquat" /\ UNCHANGED db
        /\ old.at = "looking" \/ (old.at = "asking" /\ stage = "supply_chain")
    BY <1>1 DEF ReadBody, fetch_bundle, check, registry_status, search_leaks, Emit,
                check_host, resolve_txt, Looking, Sound
  <1>3. ASSUME NEW run, Becomes(r, run), DOMAIN run = Fields, run.at = old.at,
               \/ run.hits = old.hits /\ run.pending = old.pending /\ run.seen = old.seen
               \/ stage \notin {"secrets", "scan"}
               \/ \E X : /\ run.hits = old.hits \cup X /\ run.pending = old.pending \cup X
                         /\ run.seen = old.seen
        PROVE  IntelInv'
    BY <1>1, <1>2, <1>3, GoesOn
  <1>4. ASSUME NEW p \in Pages, ReadBody(r, p)  PROVE IntelInv'
    <2>1. \/ Becomes(r, [old EXCEPT !.todo = @ \ {p}])
          \/ Becomes(r, [old EXCEPT !.todo = @ \ {p},
                                    !.staged = @ \cup {x \in facts : PageOf[x] = p},
                                    !.hits = @ \cup find_secrets(p),
                                    !.pending = @ \cup find_secrets(p)])
      BY <1>4 DEF ReadBody
    <2> QED
      BY <1>1, <1>3, <2>1 DEF Fields
  <1>5. ASSUME NEW p \in Pages, fetch_bundle(r, p)  PROVE IntelInv'
    <2>1. PICK st, td : \/ Becomes(r, [old EXCEPT !.todo = @ \ {p}])
                        \/ Becomes(r, [old EXCEPT !.staged = st, !.todo = td])
      BY <1>5 DEF fetch_bundle
    <2> QED
      BY <1>1, <1>3, <2>1 DEF Fields
  <1>6. ASSUME NEW b \in Guesses, check(r, b)  PROVE IntelInv'
    <2>1. \/ Becomes(r, [old EXCEPT !.todo = @ \ {b}])
          \/ Becomes(r, [old EXCEPT !.todo = @ \ {b}, !.hits = @ \cup ({b} \cap facts) \X {FALSE}])
      BY <1>6 DEF check
    <2> QED
      BY <1>1, <1>3, <1>6, <2>1 DEF Fields, check, Looking
  <1>7. ASSUME NEW x \in Secrets, registry_status(r, x)  PROVE IntelInv'
    <2>1. \/ Becomes(r, [old EXCEPT !.todo = @ \ {x}])
          \/ Becomes(r, [old EXCEPT !.todo = @ \ {x}, !.hits = @ \cup ({x} \cap facts) \X {FALSE}])
      BY <1>7 DEF registry_status
    <2>2. stage = "supply_chain"
      BY <1>1, <1>7 DEF registry_status, Sound
    <2> QED
      BY <1>1, <1>3, <2>1, <2>2 DEF Fields
  <1>8. ASSUME NEW q \in 1..Queries, search_leaks(r, q)  PROVE IntelInv'
    <2>1. PICK read :
            \/ Becomes(r, [old EXCEPT !.todo = @ \ {q}])
            \/ Becomes(r, [old EXCEPT !.todo = @ \ {q}, !.seen = @ \cup Pages,
                                      !.hits = @ \cup read \X {FALSE}])
      BY <1>8 DEF search_leaks
    <2>2. stage = "github_osint"
      BY <1>8 DEF search_leaks, Looking
    <2> QED
      BY <1>1, <1>3, <2>1, <2>2 DEF Fields
  <1>9. ASSUME NEW i \in Matches, Emit(r, i)  PROVE IntelInv'
    <2>1. Becomes(r, [old EXCEPT !.hits = @ \cup {<<i, FALSE>>}, !.pending = @ \cup {<<i, FALSE>>}])
      BY <1>9 DEF Emit
    <2> QED
      BY <1>1, <1>3, <2>1 DEF Fields
  <1>10. ASSUME NEW h \in Hosts, check_host(r, h)  PROVE IntelInv'
    <2>1. \/ Becomes(r, [old EXCEPT !.todo = @ \ {h}])
          \/ Becomes(r, [old EXCEPT !.todo = @ \ {h}, !.hits = @ \cup ({h} \cap facts) \X {FALSE}])
      BY <1>10 DEF check_host
    <2>2. stage = "takeover"
      BY <1>10 DEF check_host, Looking
    <2> QED
      BY <1>1, <1>3, <2>1, <2>2 DEF Fields
  <1>11. ASSUME NEW x \in Records, resolve_txt(r, x)  PROVE IntelInv'
    <2>1. \/ Becomes(r, [old EXCEPT !.todo = @ \ {x}])
          \/ Becomes(r, [old EXCEPT !.todo = @ \ {x}, !.seen = @ \cup ({x} \cap facts)])
      BY <1>11 DEF resolve_txt
    <2>2. stage = "domain_intel"
      BY <1>11 DEF resolve_txt, Looking
    <2> QED
      BY <1>1, <1>3, <2>1, <2>2 DEF Fields
  <1> QED
    BY <1>4, <1>5, <1>6, <1>7, <1>8, <1>9, <1>10, <1>11

\* A run that turns from looking to storing holds all it has hit.
LEMMA TurnStep ==
  ASSUME IntelInv, NEW r \in Runs,
         \/ BundlesRead(r) \/ AllChecked(r) \/ fetch_recent_cves(r) \/ resolve_many(r)
         \/ \E h \in Hosts : set_flag(r, h)
  PROVE  IntelInv'
  <1> DEFINE old == runs[r]
  <1>1. Sound(old, stored) /\ DOMAIN old = Fields
    BY DEF IntelInv, Sound
  <1>2. CASE BundlesRead(r) \/ AllChecked(r)
    <2>1. /\ stage \in {"supply_chain", "takeover"} /\ UNCHANGED db
          /\ \/ /\ stage = "supply_chain"
                /\ Becomes(r, [old EXCEPT !.at = "asking", !.todo = old.staged])
             \/ Becomes(r, [old EXCEPT !.at = "flagging", !.todo = Hosts])
      BY <1>2 DEF BundlesRead, AllChecked, Looking
    <2> QED
      BY <1>1, <2>1, GoesOn DEF Fields
  <1>3. CASE fetch_recent_cves(r)
    <2>1. /\ stage = "cve_watch" /\ UNCHANGED db
          /\ \/ Becomes(r, [old EXCEPT !.at = "rating"])
             \/ Becomes(r, [old EXCEPT !.at = "rating", !.staged = facts])
      BY <1>3 DEF fetch_recent_cves, Looking
    <2> QED
      BY <1>1, <2>1, GoesOn DEF Fields
  <1>4. CASE resolve_many(r)
    <2>1. stage = "typosquat" /\ UNCHANGED db /\ old.hits = {} /\ told \subseteq stored
      BY <1>1, <1>4 DEF resolve_many, Looking, Sound, IntelInv
    <2>2. CASE Becomes(r, [old EXCEPT !.at = "rating", !.staged = facts])
      BY <1>1, <2>1, <2>2, GoesOn DEF Fields
    <2>3. CASE Becomes(r, [old EXCEPT !.at = "storing"])
      BY <1>1, <2>1, <2>3, Stores DEF Fields, db
    <2> QED
      BY <1>4, <2>2, <2>3 DEF resolve_many
  <1>5. ASSUME NEW h \in Hosts, set_flag(r, h)  PROVE IntelInv'
    <2>1. /\ Becomes(r, [old EXCEPT !.todo = @ \ {h}]) /\ old.at = "flagging"
          /\ UNCHANGED <<stored, told>>
      BY <1>5 DEF set_flag
    <2>2. stage # "nuclei_watch" /\ told \subseteq stored
      BY <1>1, <2>1 DEF Sound, IntelInv
    <2> DEFINE run == [old EXCEPT !.todo = @ \ {h}]
    <2>3. /\ DOMAIN run = Fields /\ run.at = "flagging" /\ run.hits = old.hits
          /\ run.pending = old.pending /\ run.seen = old.seen
      BY <1>1, <2>1 DEF Fields
    <2> HIDE DEF run
    <2>4. Sound(run, stored')
      BY <1>1, <2>1, <2>2, <2>3 DEF Sound
    <2> QED
      BY <2>1, <2>2, <2>4, OneRun DEF run
  <1> QED
    BY <1>2, <1>3, <1>4, <1>5

\* The end of the looking
LEMMA BeginsToStore ==
  ASSUME IntelInv, NEW r \in Runs,
         \/ DeepScan(r) \/ ToolEnds(r) \/ AllFlagged(r) \/ analyse(r) \/ Rate(r)
         \/ AllAnswered(r)
  PROVE  IntelInv'
  <1> DEFINE old == runs[r]
  <1>1. Sound(old, stored) /\ DOMAIN old = Fields
    BY DEF IntelInv, Sound
  <1>2. stage # "nuclei_watch" /\ UNCHANGED db /\ told \subseteq stored
    BY <1>1 DEF DeepScan, ToolEnds, AllFlagged, analyse, Rate, AllAnswered, Looking, Sound,
                IntelInv
  <1>3. CASE DeepScan(r)
    <2>1. PICK deep :
            \/ Becomes(r, [old EXCEPT !.at = "storing"])
            \/ Becomes(r, [old EXCEPT !.at = "storing", !.hits = @ \cup deep, !.pending = deep])
      BY <1>3 DEF DeepScan
    <2>2. \A hit \in old.hits : hit[1] \in stored
      BY <1>1, <1>3 DEF DeepScan, Looking, Sound
    <2> QED
      BY <1>1, <1>2, <2>1, <2>2, Stores DEF Fields, db
  <1>4. CASE ToolEnds(r)
    <2>1. Becomes(r, [old EXCEPT !.at = "storing", !.pending = leftover(old)])
      BY <1>4 DEF ToolEnds
    <2>2. \A hit \in old.hits \ leftover(old) : hit[1] \in stored
      BY <1>1, <1>4 DEF ToolEnds, Looking, Sound, leftover
    <2> QED
      BY <1>1, <1>2, <2>1, <2>2, Stores DEF Fields, db
  <1>5. CASE AllFlagged(r) \/ AllAnswered(r)
    <2>1. Becomes(r, [old EXCEPT !.at = "storing", !.pending = old.hits])
      BY <1>5 DEF AllFlagged, AllAnswered
    <2> QED
      BY <1>1, <1>2, <2>1, Stores DEF Fields, db
  <1>6. CASE analyse(r) \/ Rate(r)
    <2>1. PICK found : Becomes(r, [old EXCEPT !.at = "storing", !.hits = found, !.pending = found])
      BY <1>6 DEF analyse, Rate
    <2> QED
      BY <1>1, <1>2, <2>1, Stores DEF Fields, db
  <1> QED
    BY <1>3, <1>4, <1>5, <1>6

\* An upsert of a hit stores it.
LEMMA UpsertIsFine ==
  ASSUME IntelInv, NEW r \in Runs, NEW hit, NEW run, stage # "nuclei_watch",
         Upsert(r, hit, run), DOMAIN run = Fields, run.at = runs[r].at,
         run.hits = runs[r].hits, run.pending = runs[r].pending,
         run.seen \in {runs[r].seen, runs[r].seen \cup {hit[1]}}
  PROVE  IntelInv'
  <1> DEFINE old == runs[r]
             kept == [run EXCEPT !.pending = @ \ {hit}, !.new = @ \cup ({hit[1]} \ stored)]
  <1>1. Sound(old, stored) /\ told \subseteq stored
    BY DEF IntelInv
  <1>2. /\ stored' = stored \cup {hit[1]} /\ told' = told \cup ({hit[1]} \ stored)
        /\ Becomes(r, kept)
    BY DEF Upsert
  <1>3. /\ DOMAIN kept = Fields /\ kept.at = old.at /\ kept.hits = old.hits
        /\ kept.pending = old.pending \ {hit}
        /\ kept.seen \in {old.seen, old.seen \cup {hit[1]}}
    BY DEF Fields
  <1> HIDE DEF kept
  <1>4. kept.hits \ kept.pending \subseteq (old.hits \ old.pending) \cup {hit}
    BY <1>3
  <1>5. Sound(kept, stored')
    BY <1>1, <1>2, <1>3, <1>4 DEF Sound
  <1> QED
    BY <1>1, <1>2, <1>5, OneRun

\* A hit that is stored leaves those that are held.
LEMMA StoreStep ==
  ASSUME IntelInv, NEW r \in Runs,
         \/ \E hit \in runs[r].pending : Persist(r, hit) \/ on_finding(r, hit) \/ Store(r, hit)
         \/ Finish(r)
  PROVE  IntelInv'
  <1> DEFINE old == runs[r]
  <1>1. Sound(old, stored) /\ DOMAIN old = Fields
    BY DEF IntelInv, Sound
  <1>2. ASSUME NEW hit \in old.pending, Persist(r, hit)  PROVE IntelInv'
    <2>1. stage = "secrets" /\ told \subseteq stored /\ old.seen \subseteq stored
      BY <1>1, <1>2 DEF Persist, Sound, IntelInv
    <2>2. CASE hit[1] \in old.seen
      <3> DEFINE run == [old EXCEPT !.pending = @ \ {hit}]
      <3>1. /\ DOMAIN run = Fields /\ run.at = old.at /\ run.hits = old.hits
            /\ run.pending = old.pending \ {hit} /\ run.seen = old.seen
        BY <1>1 DEF Fields
      <3>2. Becomes(r, run) /\ UNCHANGED db
        BY <1>2, <2>2 DEF Persist
      <3> HIDE DEF run
      <3>3. run.hits \ run.pending \subseteq (old.hits \ old.pending) \cup {hit}
        BY <3>1
      <3>4. Sound(run, stored)
        BY <1>1, <2>1, <2>2, <3>1, <3>3 DEF Sound
      <3> QED
        BY <2>1, <3>2, <3>4, OneRun DEF db
    <2>3. CASE hit[1] \notin old.seen
      <3> DEFINE run == [old EXCEPT !.seen = @ \cup {hit[1]}]
      <3>1. /\ DOMAIN run = Fields /\ run.at = old.at /\ run.hits = old.hits
            /\ run.pending = old.pending /\ run.seen = old.seen \cup {hit[1]}
        BY <1>1 DEF Fields
      <3>2. Upsert(r, hit, run)
        BY <1>2, <2>3 DEF Persist
      <3> HIDE DEF run
      <3> QED
        BY <2>1, <3>1, <3>2, UpsertIsFine
    <2> QED
      BY <2>2, <2>3
  <1>3. ASSUME NEW hit \in old.pending, on_finding(r, hit)  PROVE IntelInv'
    <2>1. stage = "scan" /\ old.at = "looking"
      BY <1>3 DEF on_finding, Looking
    <2>2. CASE Upsert(r, hit, [old EXCEPT !.seen = @ \cup {hit[1]}])
      <3> DEFINE run == [old EXCEPT !.seen = @ \cup {hit[1]}]
      <3>1. /\ DOMAIN run = Fields /\ run.at = old.at /\ run.hits = old.hits
            /\ run.pending = old.pending /\ run.seen = old.seen \cup {hit[1]}
        BY <1>1 DEF Fields
      <3>2. Upsert(r, hit, run)
        BY <2>2
      <3> HIDE DEF run
      <3> QED
        BY <2>1, <3>1, <3>2, UpsertIsFine
    <2>3. CASE Becomes(r, [old EXCEPT !.pending = @ \ {hit}]) /\ UNCHANGED db
      <3> DEFINE run == [old EXCEPT !.pending = @ \ {hit}]
      <3>1. DOMAIN run = Fields /\ run.at = "looking" /\ run.seen = old.seen
        BY <1>1, <2>1 DEF Fields
      <3>2. Becomes(r, run)
        BY <2>3
      <3> HIDE DEF run
      <3> QED
        BY <2>1, <2>3, <3>1, <3>2, GoesOn
    <2> QED
      BY <1>3, <2>2, <2>3 DEF on_finding
  <1>4. ASSUME NEW hit \in old.pending, Store(r, hit)  PROVE IntelInv'
    <2>1. stage # "nuclei_watch" /\ Upsert(r, hit, old)
      BY <1>1, <1>4 DEF Store, Sound
    <2> QED
      BY <1>1, <2>1, UpsertIsFine
  <1>5. CASE Finish(r)
    <2>1. /\ stage # "nuclei_watch" /\ told \subseteq stored /\ old.at = "storing"
          /\ UNCHANGED <<stored, told>> /\ Becomes(r, [old EXCEPT !.at = "done"])
      BY <1>1, <1>5 DEF Finish, Sound, IntelInv
    <2>2. \A hit \in old.hits \ old.pending : hit[1] \in stored
      BY <1>1, <2>1 DEF Sound
    <2> QED
      BY <1>1, <2>1, <2>2, Stores DEF Fields
  <1> QED
    BY <1>2, <1>3, <1>4, <1>5

-----------------------------------------------------------------------------
(* Starts, ends and the world *)

\* A run of any stage is forgotten.
LEMMA Forgotten ==
  ASSUME IntelInv, NEW r \in Runs, Becomes(r, Idle), UNCHANGED db
  PROVE  IntelInv'
  <1>1. /\ DOMAIN runs' = Runs /\ runs'[r] = Idle
        /\ \A o \in Runs : o # r => runs'[o] = runs[o]
        /\ UNCHANGED <<stage, facts, overlapped, stored, told, known>>
    BY DEF IntelInv, Becomes, db
  <1>2. ASSUME NEW o \in Runs  PROVE Sound(runs[o], stored)'
    BY <1>1, IdleIsFine DEF IntelInv, Sound
  <1>3. stage = "nuclei_watch" /\ ~overlapped => WatchedOnce'
    BY <1>1, IdleIsFine DEF IntelInv, WatchedOnce
  <1> QED
    BY <1>1, <1>2, <1>3 DEF IntelInv

\* A run that looks has found nothing yet.
LEMMA FreshIsFine ==
  ASSUME NEW todo, stage = "nuclei_watch" => todo \subseteq Templates
  PROVE  LET run == [Idle EXCEPT !.at = "looking", !.todo = todo]
         IN  Sound(run, stored) /\ run.at = "looking"
  <1> DEFINE run == [Idle EXCEPT !.at = "looking", !.todo = todo]
  <1>1. /\ DOMAIN run = Fields /\ run.at = "looking" /\ run.hits = {} /\ run.seen = {}
        /\ run.todo = todo /\ run.base = Nobody /\ run.pending = {}
    BY DEF Idle, Fields
  <1> HIDE DEF run
  <1>2. Sound(run, stored)
    BY <1>1 DEF Sound
  <1> QED
    BY <1>1, <1>2 DEF run

\* A run that starts holds nothing, and counts what is stored as stored.
LEMMA StartStep ==
  ASSUME IntelInv, NEW r \in Runs, Start(r)
  PROVE  IntelInv'
  <1>1. PICK todo : /\ Enter(r, [Idle EXCEPT !.at = "looking", !.todo = todo])
                    /\ stage = "nuclei_watch" => todo \subseteq Templates
    <2>1. CASE \/ StartSecrets(r) \/ StartTakeover(r) \/ StartDomain(r) \/ StartBuckets(r)
               \/ StartSupply(r) \/ StartGithub(r)
      BY <2>1 DEF StartSecrets, StartTakeover, StartDomain, StartBuckets, StartSupply,
                  StartGithub
    <2>2. CASE StartScan(r) \/ StartTyposquat(r) \/ StartCveWatch(r)
      <3>1. [Idle EXCEPT !.at = "looking"] = [Idle EXCEPT !.at = "looking", !.todo = {}]
        <4> DEFINE run == [Idle EXCEPT !.at = "looking"]
        <4>1. DOMAIN run = Fields /\ run.todo = {} /\ run = [f \in Fields |-> run[f]]
          BY DEF Idle, Fields
        <4> HIDE DEF run
        <4>2. run = [run EXCEPT !.todo = {}]
          BY <4>1 DEF Fields
        <4> QED
          BY <4>2 DEF run
      <3> QED
        BY <2>2, <3>1 DEF StartScan, StartTyposquat, StartCveWatch
    <2>3. CASE StartWatch(r)
      BY <2>3 DEF StartWatch, IntelInv
    <2> QED
      BY <2>1, <2>2, <2>3 DEF Start
  <1> DEFINE run == [Idle EXCEPT !.at = "looking", !.todo = todo]
  <1>2. Sound(run, stored) /\ run.at = "looking"
    BY <1>1, FreshIsFine
  <1> HIDE DEF run
  <1>3. /\ runs[r].at = "idle" /\ DOMAIN runs' = Runs /\ runs'[r] = run
        /\ \A o \in Runs : o # r => runs'[o] = runs[o]
        /\ overlapped' = (overlapped \/ \E o \in Runs \ {r} : runs[o].at # "idle")
        /\ UNCHANGED <<stage, facts, stored, told, known>>
    BY <1>1 DEF IntelInv, Enter, db, run
  <1>4. ASSUME NEW o \in Runs  PROVE Sound(runs[o], stored)'
    BY <1>2, <1>3 DEF IntelInv, Sound
  <1>5. ASSUME stage = "nuclei_watch", ~overlapped'  PROVE WatchedOnce'
    BY <1>2, <1>3, <1>5 DEF IntelInv, WatchedOnce
  <1> QED
    BY <1>3, <1>4, <1>5 DEF IntelInv

-----------------------------------------------------------------------------
(* nuclei_watch *)

\* nuclei_watch takes up what it knows, before it looks.
LEMMA WatchStep ==
  ASSUME IntelInv, NEW r \in Runs, SkipWatch(r) \/ ReadKnown(r)
  PROVE  IntelInv'
  <1> DEFINE old == runs[r]
  <1>1. /\ Sound(old, stored) /\ stage = "nuclei_watch" /\ UNCHANGED db
        /\ DOMAIN old = Fields /\ old.at = "looking"
    BY DEF IntelInv, SkipWatch, ReadKnown, Looking, Sound
  <1>2. PICK run :
          /\ Becomes(r, run) /\ DOMAIN run = Fields
          /\ run.hits = old.hits /\ run.todo = old.todo
          /\ \/ run.at = "done" /\ run.base = old.base
             \/ run.at = "writing" /\ run.base = known
    <2>1. CASE SkipWatch(r)
      <3> DEFINE run == [old EXCEPT !.at = "done"]
      <3>1. Becomes(r, run)
        BY <2>1 DEF SkipWatch
      <3>2. /\ DOMAIN run = Fields /\ run.hits = old.hits /\ run.todo = old.todo
            /\ run.at = "done" /\ run.base = old.base
        BY <1>1 DEF Fields
      <3> HIDE DEF run
      <3> QED
        BY <3>1, <3>2
    <2>2. CASE ReadKnown(r)
      <3> DEFINE run == [old EXCEPT !.at = "writing", !.base = known]
      <3>1. Becomes(r, run)
        BY <2>2 DEF ReadKnown
      <3>2. /\ DOMAIN run = Fields /\ run.hits = old.hits /\ run.todo = old.todo
            /\ run.at = "writing" /\ run.base = known
        BY <1>1 DEF Fields
      <3> HIDE DEF run
      <3> QED
        BY <3>1, <3>2
    <2> QED
      BY <2>1, <2>2
  <1>3. Sound(run, stored)
    BY <1>1, <1>2 DEF Sound, IntelInv
  <1>4. /\ DOMAIN runs' = Runs /\ runs'[r] = run
        /\ \A o \in Runs : o # r => runs'[o] = runs[o]
        /\ UNCHANGED <<stage, facts, overlapped, stored, told, known>>
    BY <1>1, <1>2 DEF IntelInv, Becomes, db
  <1>5. ASSUME NEW o \in Runs  PROVE Sound(runs[o], stored)'
    BY <1>3, <1>4 DEF IntelInv, Sound
  <1>6. ~overlapped => WatchedOnce'
    BY <1>1, <1>2, <1>4 DEF IntelInv, WatchedOnce
  <1> QED
    BY <1>1, <1>4, <1>5, <1>6 DEF IntelInv

\* What the run that writes is told of was not known, and is known from then on.
LEMMA WrittenOnce ==
  ASSUME IntelInv, NEW r \in Runs, set_known_template_ids(r)
  PROVE  /\ IntelInv'
         /\ runs'[r].new = new_template_ids(runs[r])
         /\ ~overlapped => told \cap new_template_ids(runs[r]) = {}
  <1> DEFINE old == runs[r]
             new == new_template_ids(old)
             run == [old EXCEPT !.at = "done", !.new = new]
  <1>1. /\ Sound(old, stored) /\ DOMAIN old = Fields /\ old.at = "writing"
        /\ stage = "nuclei_watch"
    BY DEF IntelInv, set_known_template_ids, Sound
  <1>2. /\ old.todo \subseteq Templates /\ known \in (SUBSET Templates) \cup {Nobody}
        /\ old.base \in (SUBSET Templates) \cup {Nobody} /\ old.hits = {}
    BY <1>1 DEF IntelInv, Sound
  <1>3. /\ DOMAIN run = Fields /\ run.at = "done" /\ run.hits = {} /\ run.todo = old.todo
        /\ run.base = old.base /\ run.new = new
    BY <1>1, <1>2 DEF Fields
  <1>4. /\ DOMAIN runs' = Runs /\ runs'[r] = run
        /\ \A o \in Runs : o # r => runs'[o] = runs[o]
        /\ UNCHANGED <<stage, facts, overlapped, stored>> /\ told' = told \cup new
        /\ known' = IF old.base = Nobody \/ new # {} THEN remembered(old) ELSE known
    BY DEF IntelInv, Becomes, set_known_template_ids
  <1>5. /\ new = IF old.base = Nobody THEN {} ELSE old.todo \ old.base
        /\ remembered(old) = IF old.base = Nobody THEN old.todo ELSE old.base \cup old.todo
        /\ remembered(old) \in SUBSET Templates
    BY <1>2 DEF new_template_ids, remembered
  <1> HIDE DEF run, new
  <1>6. Sound(run, stored)
    BY <1>1, <1>2, <1>3 DEF Sound
  <1>7. ASSUME NEW o \in Runs  PROVE Sound(runs[o], stored)'
    BY <1>4, <1>6 DEF IntelInv, Sound
  <1>8. known' \in (SUBSET Templates) \cup {Nobody}
    BY <1>2, <1>4, <1>5
  <1>9. ASSUME ~overlapped  PROVE WatchedOnce' /\ told \cap new = {}
    <2>1. /\ WatchedOnce /\ old.base = known
          /\ \A o \in Runs : o # r => runs'[o].at = "idle"
      BY <1>1, <1>4, <1>9 DEF IntelInv, WatchedOnce
    <2>2. known = Nobody => told = {} /\ new = {}
      BY <1>5, <2>1 DEF WatchedOnce
    <2>3. known # Nobody => told \subseteq known /\ new = old.todo \ known
      BY <1>5, <2>1 DEF WatchedOnce
    <2>4. IF known' = Nobody THEN told' = {} ELSE told' \subseteq known'
      <3>1. CASE known = Nobody
        BY <1>4, <1>5, <2>1, <2>2, <3>1, IntelAssumption
      <3>2. CASE known # Nobody /\ new = {}
        BY <1>4, <1>5, <2>1, <2>3, <3>2
      <3>3. CASE known # Nobody /\ new # {}
        <4>1. known' = known \cup old.todo /\ known' # Nobody
          BY <1>4, <1>5, <2>1, <3>3, IntelAssumption
        <4> QED
          BY <1>4, <2>3, <3>3, <4>1
      <3> QED
        BY <3>1, <3>2, <3>3
    <2>5. \A o \in Runs, p \in Runs : o = p \/ runs'[o].at = "idle" \/ runs'[p].at = "idle"
      BY <2>1
    <2>6. \A o \in Runs : runs'[o].at # "writing"
      BY <1>3, <1>4, <2>1
    <2> QED
      BY <2>2, <2>3, <2>4, <2>5, <2>6 DEF WatchedOnce
  <1>10. IntelInv'
    BY <1>1, <1>4, <1>7, <1>8, <1>9 DEF IntelInv
  <1> QED
    BY <1>3, <1>4, <1>9, <1>10 DEF new

\* The world outside changes nothing of what is stored.
LEMMA FlipStep ==
  ASSUME IntelInv, NEW i \in Items, Flip(i)
  PROVE  IntelInv'
  <1>1. UNCHANGED <<stage, overlapped, runs, stored, told, known>>
    BY DEF Flip, db
  <1>2. stage = "nuclei_watch" => facts' \subseteq Templates
    BY DEF Flip, Items, IntelInv
  <1>3. \A o \in Runs : Sound(runs[o], stored)'
    BY <1>1 DEF IntelInv, Sound
  <1>4. WatchedOnce => WatchedOnce'
    BY <1>1 DEF WatchedOnce
  <1> QED
    BY <1>1, <1>2, <1>3, <1>4 DEF IntelInv

\* The initial states satisfy the invariant.
LEMMA IntelInvInit == Init => IntelInv
  <1> SUFFICES ASSUME Init  PROVE IntelInv
    OBVIOUS
  <1>1. /\ stored = {} /\ told = {} /\ known = Nobody /\ DOMAIN runs = Runs
        /\ \A r \in Runs : runs[r] = Idle
    BY DEF Init
  <1>2. stage = "nuclei_watch" => facts \subseteq Templates
    BY DEF Init, Items
  <1>3. WatchedOnce
    BY <1>1, IdleIsFine DEF WatchedOnce
  <1> QED
    BY <1>1, <1>2, <1>3, IdleIsFine DEF IntelInv

\* Every step keeps the invariant.
LEMMA IntelInvStep == IntelInv /\ [Next]_vars => IntelInv'
  <1> SUFFICES ASSUME IntelInv, [Next]_vars  PROVE IntelInv'
    OBVIOUS
  <1>1. ASSUME NEW r \in Runs, Step(r)  PROVE IntelInv'
    <2>1. CASE End(r)
      BY <2>1, Forgotten DEF End
    <2>2. CASE set_known_template_ids(r)
      BY <2>2, WrittenOnce
    <2> QED
      BY <1>1, <2>1, <2>2, LookStep, TurnStep, BeginsToStore, StoreStep, WatchStep DEF Step
  <1>2. ASSUME NEW r \in Runs, Die(r)  PROVE IntelInv'
    BY <1>2, Forgotten DEF Die
  <1>3. CASE UNCHANGED vars
    <2>1. \A o \in Runs : Sound(runs[o], stored)'
      BY <1>3 DEF vars, IntelInv, Sound
    <2>2. WatchedOnce => WatchedOnce'
      BY <1>3 DEF vars, WatchedOnce
    <2> QED
      BY <1>3, <2>1, <2>2 DEF vars, IntelInv
  <1> QED
    BY <1>1, <1>2, <1>3, StartStep, FlipStep DEF Next

\* What the records of a stage and its runs agree on: a hit is stored or about to be, and
\* what was reported is known.
THEOREM IntelInvHolds == Spec => []IntelInv
  <1>1. Init => IntelInv
    BY IntelInvInit
  <1>2. IntelInv /\ [Next]_vars => IntelInv'
    BY IntelInvStep
  <1> QED
    BY <1>1, <1>2, PTL DEF Spec

\* Whatever requests fail and whichever runs overlap or die, a run that ended has stored
\* every hit it did not pass over, and secrets have stored theirs at every moment.
THEOREM WhatIsFoundIsStored == Spec => []FoundIsStored
  <1>1. IntelInv => FoundIsStored
    BY DEF IntelInv, FoundIsStored, Sound
  <1> QED
    BY <1>1, IntelInvHolds, PTL

-----------------------------------------------------------------------------
(* Reported once *)

\* The runs of a stage keep what they have reported, except where they store or write.
Quiet == \A o \in Runs : runs'[o].new \subseteq runs[o].new

\* A run that reports nothing more leaves the promise of NewOnce alone.
LEMMA QuietBecomes ==
  ASSUME IntelInv, NEW r \in Runs, NEW run, Becomes(r, run), run.new \subseteq runs[r].new
  PROVE  Quiet
  BY DEF IntelInv, Becomes, Quiet

\* Steps that store nothing report nothing.
LEMMA MostAreQuiet ==
  ASSUME IntelInv, NEW r \in Runs, Step(r),
         \A hit \in runs[r].pending : ~Persist(r, hit) /\ ~on_finding(r, hit) /\ ~Store(r, hit),
         ~set_known_template_ids(r)
  PROVE  Quiet
  <1> DEFINE old == runs[r]
  <1>1. DOMAIN old = Fields
    BY DEF IntelInv, Sound
  <1>2. ASSUME NEW p \in Pages, ReadBody(r, p) \/ fetch_bundle(r, p)  PROVE Quiet
    <2>1. CASE ReadBody(r, p)
      BY <1>1, <2>1, QuietBecomes DEF ReadBody, Fields
    <2>2. CASE fetch_bundle(r, p)
      BY <1>1, <2>2, QuietBecomes DEF fetch_bundle, Fields
    <2> QED
      BY <1>2, <2>1, <2>2
  <1>3. ASSUME NEW b \in Guesses, check(r, b)  PROVE Quiet
    BY <1>1, <1>3, QuietBecomes DEF check, Fields
  <1>4. ASSUME NEW x \in Secrets, registry_status(r, x)  PROVE Quiet
    BY <1>1, <1>4, QuietBecomes DEF registry_status, Fields
  <1>5. ASSUME NEW q \in 1..Queries, search_leaks(r, q)  PROVE Quiet
    BY <1>1, <1>5, QuietBecomes DEF search_leaks, Fields
  <1>6. ASSUME NEW i \in Matches, Emit(r, i)  PROVE Quiet
    BY <1>1, <1>6, QuietBecomes DEF Emit, Fields
  <1>7. ASSUME NEW h \in Hosts, check_host(r, h) \/ set_flag(r, h)  PROVE Quiet
    BY <1>1, <1>7, QuietBecomes DEF check_host, set_flag, Fields
  <1>8. ASSUME NEW x \in Records, resolve_txt(r, x)  PROVE Quiet
    BY <1>1, <1>8, QuietBecomes DEF resolve_txt, Fields
  <1>9. CASE resolve_many(r) \/ fetch_recent_cves(r) \/ BundlesRead(r) \/ AllAnswered(r)
    BY <1>1, <1>9, QuietBecomes DEF resolve_many, fetch_recent_cves, BundlesRead, AllAnswered,
       Fields
  <1>10. CASE DeepScan(r)
    BY <1>1, <1>10, QuietBecomes DEF DeepScan, Fields
  <1>11. CASE Rate(r)
    BY <1>1, <1>11, QuietBecomes DEF Rate, Fields
  <1>12. CASE ToolEnds(r) \/ AllChecked(r) \/ AllFlagged(r) \/ SkipWatch(r) \/ ReadKnown(r)
    BY <1>1, <1>12, QuietBecomes DEF ToolEnds, AllChecked, AllFlagged, SkipWatch, ReadKnown,
       Fields
  <1>13. CASE analyse(r)
    BY <1>1, <1>13, QuietBecomes DEF analyse, Fields
  <1>14. CASE Finish(r)
    BY <1>1, <1>14, QuietBecomes DEF Finish, Fields
  <1>15. CASE End(r)
    BY <1>15, IdleIsFine, QuietBecomes DEF End
  <1> QED
    BY <1>2, <1>3, <1>4, <1>5, <1>6, <1>7, <1>8, <1>9, <1>10, <1>11, <1>12, <1>13, <1>14,
       <1>15 DEF Step

\* An upsert reports the hit that was not stored before, and nothing else.
LEMMA UpsertReports ==
  ASSUME IntelInv, NEW r \in Runs, NEW hit, NEW run, Upsert(r, hit, run), "new" \in DOMAIN run,
         run.new = runs[r].new
  PROVE  \A o \in Runs : runs'[o].new \ runs[o].new \subseteq {hit[1]} \ stored
  <1> DEFINE kept == [run EXCEPT !.pending = @ \ {hit}, !.new = @ \cup ({hit[1]} \ stored)]
  <1>1. Becomes(r, kept)
    BY DEF Upsert
  <1>2. kept.new = runs[r].new \cup ({hit[1]} \ stored)
    OBVIOUS
  <1> HIDE DEF kept
  <1> QED
    BY <1>1, <1>2 DEF IntelInv, Becomes

\* A hit that is reported as new was not stored before.
LEMMA StoredReports ==
  ASSUME IntelInv, NEW r \in Runs, NEW hit \in runs[r].pending,
         Persist(r, hit) \/ on_finding(r, hit) \/ Store(r, hit)
  PROVE  \A o \in Runs : runs'[o].new \ runs[o].new \subseteq {hit[1]} \ stored
  <1> DEFINE old == runs[r]
             seen == [old EXCEPT !.seen = @ \cup {hit[1]}]
             dropped == [old EXCEPT !.pending = @ \ {hit}]
  <1>1. DOMAIN old = Fields
    BY DEF IntelInv, Sound
  <1>2. Upsert(r, hit, old) \/ Upsert(r, hit, seen) \/ Becomes(r, dropped)
    BY DEF Persist, on_finding, Store
  <1>3. /\ "new" \in DOMAIN old /\ "new" \in DOMAIN seen /\ seen.new = old.new
        /\ dropped.new = old.new
    BY <1>1 DEF Fields
  <1> HIDE DEF seen, dropped
  <1>4. CASE Becomes(r, dropped)
    BY <1>3, <1>4, QuietBecomes DEF Quiet
  <1> QED
    BY <1>2, <1>3, <1>4, UpsertReports

\* What a run stores or writes as new was not new before: nothing is reported twice.
LEMMA OnceStep == IntelInv /\ [Next]_vars =>
    \A o \in Runs : \/ stage = "nuclei_watch" /\ overlapped
                    \/ told \cap (runs'[o].new \ runs[o].new) = {}
  <1> SUFFICES ASSUME IntelInv, [Next]_vars, NEW o \in Runs,
                      ~(stage = "nuclei_watch" /\ overlapped)
               PROVE  told \cap (runs'[o].new \ runs[o].new) = {}
    OBVIOUS
  <1>1. ASSUME Quiet  PROVE told \cap (runs'[o].new \ runs[o].new) = {}
    BY <1>1 DEF Quiet
  <1>2. ASSUME NEW r \in Runs, Start(r)  PROVE Quiet
    <2>1. PICK run : Enter(r, run) /\ run.new = {}
      <3> DEFINE some(todo) == [Idle EXCEPT !.at = "looking", !.todo = todo]
                 none == [Idle EXCEPT !.at = "looking"]
      <3>1. none.new = {} /\ \A todo : some(todo).new = {}
        BY DEF Idle
      <3>2. Enter(r, none) \/ \E todo : Enter(r, some(todo))
        BY <1>2 DEF Start, StartSecrets, StartScan, StartTakeover, StartWatch, StartDomain,
           StartBuckets, StartTyposquat, StartCveWatch, StartSupply, StartGithub
      <3> HIDE DEF some, none
      <3> QED
        BY <3>1, <3>2
    <2> QED
      BY <2>1 DEF Enter, IntelInv, Quiet
  <1>3. ASSUME NEW r \in Runs, Step(r)  PROVE told \cap (runs'[o].new \ runs[o].new) = {}
    <2>1. ASSUME NEW hit \in runs[r].pending, Persist(r, hit) \/ on_finding(r, hit) \/ Store(r, hit)
          PROVE  told \cap (runs'[o].new \ runs[o].new) = {}
      <3>1. stage # "nuclei_watch"
        BY <2>1 DEF Persist, on_finding, Looking, Store, IntelInv, Sound
      <3> QED
        BY <2>1, <3>1, StoredReports DEF IntelInv
    <2>2. CASE set_known_template_ids(r)
      <3>1. stage = "nuclei_watch"
        BY <2>2 DEF set_known_template_ids, IntelInv, Sound
      <3>2. told \cap runs'[r].new = {}
        BY <2>2, <3>1, WrittenOnce
      <3>3. o # r => runs'[o] = runs[o]
        BY <2>2 DEF set_known_template_ids, Becomes, IntelInv
      <3> QED
        BY <3>2, <3>3
    <2> QED
      BY <1>1, <1>3, <2>1, <2>2, MostAreQuiet
  <1>4. ASSUME NEW r \in Runs, Die(r)  PROVE Quiet
    BY <1>4, IdleIsFine, QuietBecomes DEF Die
  <1>5. ASSUME runs' = runs  PROVE Quiet
    BY <1>5 DEF Quiet
  <1> QED
    BY <1>1, <1>2, <1>3, <1>4, <1>5 DEF Next, Flip, vars

\* Nothing is reported as new twice, however the runs of a stage interleave, fail and die;
\* for nuclei_watch, as long as no two of its runs have overlapped.
THEOREM ReportedOnce == Spec => NewOnce
  <1>1. IntelInv /\ [Next]_vars =>
          [\A r \in Runs : \/ stage = "nuclei_watch" /\ overlapped
                           \/ told \cap (runs'[r].new \ runs[r].new) = {}]_vars
    BY OnceStep
  <1> QED
    BY <1>1, IntelInvHolds, PTL DEF Spec, NewOnce
=============================================================================
