------------------------------- MODULE Notify -------------------------------
(***************************************************************************)
(* From an observation to an alert: the signal collections of one program  *)
(* (findings, secrets, leaks, CVE matches, assets, ports), the stages that *)
(* upsert into them (db/base.py) and the notify stage that reads the new   *)
(* ones and delivers them to the channels (pipelines/notify.py).           *)
(*                                                                         *)
(* Several notify stages may be under way at once: the one of a full run,  *)
(* the one the scheduler plans every minute and the ones a scan cascades   *)
(* to.  Their atomic steps are the reads and writes of MongoDB and the     *)
(* calls of the channels.                                                  *)
(***************************************************************************)
EXTENDS Integers, FiniteSets

CONSTANTS
  Items,       \* fingerprints
  FamilyOf,    \* the collection each of them is stored in
  Severities,  \* the severities an item may be observed with (a subset of 0..4)
  Trusted,     \* CVE matches with high confidence, or on the KEV list
  Scored,      \* CVE matches whose CVSS reaches the policy's CVSS floor
  Filtered,    \* ports that the policy's port filter selects
  Channels,
  MinSeverity, \* severity threshold of each channel
  ChannelSets, \* the sets of enabled channels the user may choose
  Policies,    \* the effective alert policies the user may choose
  Notifiers,   \* notify stages that may be under way at once
  Cap,         \* MAX_ALERTS_PER_SOURCE
  Limit,       \* limit= of the query for new items
  MaxBaseline, \* bound on the completed baseline scans
  FaultKinds,  \* "refuse": a channel refuses; "late": it accepts after the
               \* timeout; "die": the stage is cancelled or its worker dies
  MaxFaults,   \* bound on the faults of a behaviour
  MaxAlerts    \* the counters of alerts saturate here

\* The order in which _build_sources lists them.
Families == <<"findings", "secrets", "leaks", "cves", "assets", "ports">>
Family   == {"findings", "secrets", "leaks", "cves", "assets", "ports"}
Events   == {"assets", "ports"}
Sev      == 0..4

ASSUME ItemsAssumption ==
  /\ FamilyOf \in [Items -> Family]
  /\ Severities \subseteq Sev
  /\ MinSeverity \in [Channels -> Sev]
  /\ ChannelSets \subseteq SUBSET Channels
  /\ Policies \subseteq [floor: Sev, on: SUBSET Family]

ASSUME BoundsAssumption ==
  /\ IsFiniteSet(Notifiers)
  /\ Cap \in Nat \ {0}
  /\ Limit \in Nat \ {0}
  /\ MaxBaseline \in Nat
  /\ MaxFaults \in Nat
  /\ MaxAlerts \in Nat \ {0}

VARIABLES
  \* the collections
  stored,     \* items that have a document
  isNew,      \* those whose is_new is set
  severity,   \* severity of the latest observation
  firstSeen,  \* baselines completed when it was inserted
  \* the program, its tenant and their channels
  baseline,   \* baseline scans completed so far; initial_scan_completed_at is
              \* the time of the latest one, and unset at 0
  enabled,    \* enabled channels
  policy,     \* effective alert policy
  \* the notify stages
  pc,         \* "idle", "list", "send" or "clear"
  chans,      \* channels read at the start
  rules,      \* policy read at the start
  since,      \* baseline read at the start
  src,        \* positions in Families of those it has still to do
  items,      \* the documents it took
  plan,       \* deliveries that have not returned yet
  ok,         \* items delivered by at least one channel
  \* history
  alerts,     \* alerts[i][c]: times channel c received item i; saturates
  faults

storeVars == <<stored, isNew, severity, firstSeen>>
userVars  == <<baseline, enabled, policy>>
runVars   == <<pc, chans, rules, since, src, items, plan, ok>>
vars == <<stored, isNew, severity, firstSeen, baseline, enabled, policy, pc,
          chans, rules, since, src, items, plan, ok, alerts, faults>>

Fault(kind) == kind \in FaultKinds /\ faults < MaxFaults /\ faults' = faults + 1

-----------------------------------------------------------------------------
(* The stages that observe items *)

\* A mutant: is_new among the fields every observation sets.
NewAgain(i) == isNew \cup {i}

\* Repository.upsert: is_new and first_seen only on insert, severity always.
NewAfterUpsert(i) == IF i \in stored THEN isNew ELSE isNew \cup {i}

Observe(i, s) ==
  /\ stored' = stored \cup {i}
  /\ isNew' = NewAfterUpsert(i)
  /\ severity' = [severity EXCEPT ![i] = s]
  /\ firstSeen' = IF i \in stored THEN firstSeen
                  ELSE [firstSeen EXCEPT ![i] = baseline]
  /\ UNCHANGED <<userVars, runVars, alerts, faults>>

\* mark_initial_scan_completed at the end of a full run.  The run read the
\* program when it started, so of two overlapping runs both may write it.
CompleteBaseline ==
  /\ baseline < MaxBaseline
  /\ baseline' = baseline + 1
  /\ UNCHANGED <<storeVars, enabled, policy, runVars, alerts, faults>>

-----------------------------------------------------------------------------
(* The user *)

SetChannels ==
  /\ enabled' \in ChannelSets \ {enabled}
  /\ UNCHANGED <<storeVars, baseline, policy, runVars, alerts, faults>>

SetPolicy ==
  /\ policy' \in Policies \ {policy}
  /\ UNCHANGED <<storeVars, baseline, enabled, runVars, alerts, faults>>

-----------------------------------------------------------------------------
(* Which items are worth an alert, for a stage that read policy p and       *)
(* baseline b                                                               *)

\* A mutant: change events before there is a baseline.
IsSourceEarly(f, p, b) == f \in p.on

\* _build_sources: the families that are on; change events need a baseline.
IsSource(f, p, b) == f \in p.on /\ (f \in Events => b > 0)
Sources(p, b) == {k \in 1..6 : IsSource(Families[k], p, b)}

\* A mutant: once there is a baseline, every item is after it.
FirstSeenEver(i, b) == b > 0

\* _first_seen_after: strictly after the baseline scan ended.
FirstSeenAfter(i, b) == firstSeen[i] >= b

Keep(i, p, b) ==
  LET f == FamilyOf[i]
  IN  CASE f \in {"findings", "secrets", "leaks"} -> severity[i] >= p.floor
        [] f = "cves"   -> /\ i \in Trusted \cap Scored
                           /\ severity[i] >= p.floor
        [] f = "assets" -> FirstSeenAfter(i, b)
        [] f = "ports"  -> FirstSeenAfter(i, b) /\ i \in Filtered

Passes(i, c) == FamilyOf[i] \in Events \/ severity[i] >= MinSeverity[c]

\* _by_severity ranks by the position in the Severity enumeration, which
\* declares INFO first; an asset or a port has no severity and counts as info.
SortKey(i) == IF FamilyOf[i] \in Events THEN 0 ELSE severity[i]

\* What a stage may take of the new items of family f: some Limit of them (the
\* query names no order), sorted, the first Cap.
Query(f) == {i \in isNew : FamilyOf[i] = f}
Smallest(A, B) == IF A < B THEN A ELSE B
Slices(f) ==
  LET Lists == {L \in SUBSET Query(f) :
                  Cardinality(L) = Smallest(Limit, Cardinality(Query(f)))}
  IN  UNION {{S \in SUBSET L :
                /\ Cardinality(S) = Smallest(Cap, Cardinality(L))
                /\ \A i \in S, j \in L \ S : SortKey(i) <= SortKey(j)} :
             L \in Lists}

-----------------------------------------------------------------------------
(* A notify stage *)

\* The family stage n is at.
Current(n) == CHOOSE k \in src[n] : \A l \in src[n] : k <= l
CurrentFamily(n) == Families[Current(n)]

\* Nothing is kept of a stage that is over.
NoRun == [on |-> {}, floor |-> 0]
AtRest(n) ==
  /\ pc' = [pc EXCEPT ![n] = "idle"]
  /\ chans' = [chans EXCEPT ![n] = {}]
  /\ rules' = [rules EXCEPT ![n] = NoRun]
  /\ since' = [since EXCEPT ![n] = 0]
  /\ src' = [src EXCEPT ![n] = {}]

\* run_notify reads the channels, the program and the tenant (three reads in a
\* row, taken as one: no delivery depends on two of them).  Without an
\* enabled channel, or with no source to read, it returns at once.
Begin(n) ==
  /\ pc[n] = "idle"
  /\ enabled # {}
  /\ Sources(policy, baseline) # {}
  /\ pc' = [pc EXCEPT ![n] = "list"]
  /\ chans' = [chans EXCEPT ![n] = enabled]
  /\ rules' = [rules EXCEPT ![n] = policy]
  /\ since' = [since EXCEPT ![n] = baseline]
  /\ src' = [src EXCEPT ![n] = Sources(policy, baseline)]
  /\ UNCHANGED <<storeVars, userVars, items, plan, ok, alerts, faults>>

\* A mutant: delivered_fps is created before the loop over the sources.
KeepDelivered(n) ==
  /\ items' = [items EXCEPT ![n] = {}]
  /\ plan' = [plan EXCEPT ![n] = {}]
  /\ UNCHANGED ok

Forget(n) ==
  /\ items' = [items EXCEPT ![n] = {}]
  /\ plan' = [plan EXCEPT ![n] = {}]
  /\ ok' = [ok EXCEPT ![n] = {}]

\* The stage is done with its family: on to the next one, or it returns.
NextFamily(n) ==
  /\ Forget(n)
  /\ IF src[n] = {Current(n)} THEN AtRest(n)
     ELSE /\ src' = [src EXCEPT ![n] = @ \ {Current(n)}]
          /\ pc' = [pc EXCEPT ![n] = "list"]
          /\ UNCHANGED <<chans, rules, since>>

\* It ends early, and keeps nothing.
Return(n) == Forget(n) /\ AtRest(n)

\* "if not plan: continue"
NothingToSend(n) == NextFamily(n)

\* The query, the sort, the cut and the plan: one await, the query's.
List(n) ==
  /\ pc[n] = "list"
  /\ \E S \in Slices(CurrentFamily(n)) :
       LET todo == {d \in S \X chans[n] :
                      Keep(d[1], rules[n], since[n]) /\ Passes(d[1], d[2])}
       IN  IF todo = {} THEN NothingToSend(n)
           ELSE /\ items' = [items EXCEPT ![n] = S]
                /\ plan' = [plan EXCEPT ![n] = todo]
                /\ pc' = [pc EXCEPT ![n] = "send"]
                /\ UNCHANGED <<chans, rules, since, src, ok>>
  /\ UNCHANGED <<storeVars, userVars, alerts, faults>>

\* One delivery of the gather returns; the last one ends it.
Returned(n, i, c) ==
  /\ pc[n] = "send"
  /\ <<i, c>> \in plan[n]
  /\ plan' = [plan EXCEPT ![n] = @ \ {<<i, c>>}]
  /\ pc' = [pc EXCEPT ![n] = IF plan[n] = {<<i, c>>} THEN "clear" ELSE "send"]
  /\ UNCHANGED <<storeVars, userVars, chans, rules, since, src, items>>

Received(i, c) ==
  alerts' = [alerts EXCEPT ![i][c] = Smallest(@ + 1, MaxAlerts)]

Deliver(n, i, c) ==
  /\ Returned(n, i, c)
  /\ Received(i, c)
  /\ ok' = [ok EXCEPT ![n] = @ \cup {i}]
  /\ UNCHANGED faults

\* deliver returned False or raised: the channel did not take the alert.
Refuse(n, i, c) ==
  /\ Returned(n, i, c)
  /\ Fault("refuse")
  /\ UNCHANGED <<ok, alerts>>

\* wait_for gave up after DELIVER_TIMEOUT, with the message already taken.
GiveUp(n, i, c) ==
  /\ Returned(n, i, c)
  /\ Fault("late")
  /\ Received(i, c)
  /\ UNCHANGED ok

\* A mutant: it clears what was taken, whether or not a channel accepted it.
Taken(n) == items[n]

\* clear_is_new(delivered_fps)
Delivered(n) == ok[n]

Clear(n) ==
  /\ pc[n] = "clear"
  /\ isNew' = isNew \ Delivered(n)
  /\ NextFamily(n)
  /\ UNCHANGED <<stored, severity, firstSeen, userVars, alerts, faults>>

\* The stage's budget runs out, its run is stopped or its worker dies.
Die(n) ==
  /\ pc[n] # "idle"
  /\ Fault("die")
  /\ Return(n)
  /\ UNCHANGED <<storeVars, userVars, alerts>>

Notifier(n) ==
  \/ Begin(n)
  \/ List(n)
  \/ \E i \in Items, c \in Channels :
       Deliver(n, i, c) \/ Refuse(n, i, c) \/ GiveUp(n, i, c)
  \/ Clear(n)

-----------------------------------------------------------------------------

Init ==
  /\ stored = {}
  /\ isNew = {}
  /\ severity = [i \in Items |-> 0]
  /\ firstSeen = [i \in Items |-> 0]
  /\ baseline = 0
  /\ enabled \in ChannelSets
  /\ policy \in Policies
  /\ pc = [n \in Notifiers |-> "idle"]
  /\ chans = [n \in Notifiers |-> {}]
  /\ rules = [n \in Notifiers |-> NoRun]
  /\ since = [n \in Notifiers |-> 0]
  /\ src = [n \in Notifiers |-> {}]
  /\ items = [n \in Notifiers |-> {}]
  /\ plan = [n \in Notifiers |-> {}]
  /\ ok = [n \in Notifiers |-> {}]
  /\ alerts = [i \in Items |-> [c \in Channels |-> 0]]
  /\ faults = 0

Next ==
  \/ \E i \in Items, s \in Severities : Observe(i, s)
  \/ CompleteBaseline
  \/ SetChannels
  \/ SetPolicy
  \/ \E n \in Notifiers : Notifier(n) \/ Die(n)

Spec == Init /\ [][Next]_vars

\* Every await of a stage ends (the deliveries within DELIVER_TIMEOUT) and the
\* scheduler plans a notify stage every minute, so each stage keeps moving.
FairSpec == Spec /\ \A n \in Notifiers : WF_vars(Notifier(n))

-----------------------------------------------------------------------------
(* Properties *)

\* Every variable holds a value of its type (the state of run_notify and the
\* bookkeeping fields of Repository.upsert); what a stage has to deliver and
\* what it delivered are among the documents it took from its present source.
TypeOK ==
  /\ stored \in SUBSET Items
  /\ isNew \in SUBSET stored
  /\ severity \in [Items -> Sev]
  /\ firstSeen \in [Items -> 0..MaxBaseline]
  /\ baseline \in 0..MaxBaseline
  /\ enabled \in SUBSET Channels
  /\ policy \in [floor: Sev, on: SUBSET Family]
  /\ pc \in [Notifiers -> {"idle", "list", "send", "clear"}]
  /\ chans \in [Notifiers -> SUBSET Channels]
  /\ rules \in [Notifiers -> [floor: Sev, on: SUBSET Family]]
  /\ since \in [Notifiers -> 0..MaxBaseline]
  /\ src \in [Notifiers -> SUBSET (1..6)]
  /\ items \in [Notifiers -> SUBSET stored]
  /\ plan \in [Notifiers -> SUBSET (Items \X Channels)]
  /\ ok \in [Notifiers -> SUBSET Items]
  /\ \A n \in Notifiers :
       plan[n] \subseteq items[n] \X chans[n] /\ ok[n] \subseteq items[n]
  /\ alerts \in [Items -> [Channels -> 0..MaxAlerts]]
  /\ faults \in 0..MaxFaults

Alerted(i) == \E c \in Channels : alerts[i][c] > 0

\* No signal disappears silently: whatever the interleaving of notify stages,
\* refusals, timeouts and deaths, an item that is no longer new reached a
\* channel ("is_new is cleared only for delivered items").
NothingSilenced == \A i \in stored \ isNew : Alerted(i)

\* Whatever scan rewrites the baseline and whenever a stage read it, a channel
\* hears of an asset or a port only if it appeared after a baseline scan: the
\* first enumeration never pages.
NoBaselineFlood ==
  \A i \in Items :
    FamilyOf[i] \in Events /\ Alerted(i) => i \in stored /\ firstSeen[i] > 0

\* What a stage has in hand is consistent with what it read, although the user,
\* the scans and other stages go on meanwhile: its families were sources under
\* the policy and the baseline it read, whatever it counts as delivered did
\* reach a channel, and what it is about to send of the change events appeared
\* after a baseline.  With the two properties above it is inductive.
StagesKeepFaith ==
  \A n \in Notifiers :
    /\ pc[n] # "idle" => src[n] # {}
    /\ pc[n] \in {"idle", "list"} => items[n] = {} /\ plan[n] = {} /\ ok[n] = {}
    /\ \A k \in src[n] : IsSource(Families[k], rules[n], since[n])
    /\ \A i \in ok[n] : Alerted(i)
    /\ \A d \in plan[n] : FamilyOf[d[1]] \in Events => firstSeen[d[1]] > 0

\* An alert fires once, and repeats have a cause: a channel receives an item again only
\* from a second stage that took it before the first cleared it, or after an answer that
\* came late or a death before the clearing, however often the item is observed again
\* and its severity changes.
RepeatsHaveACause ==
  \A i \in Items, c \in Channels : alerts[i][c] <= Cardinality(Notifiers) + faults

\* The user wants item i to be alerted: the policy keeps it and some enabled
\* channel takes it.
Wanted(i) ==
  /\ i \in isNew
  /\ IsSource(FamilyOf[i], policy, baseline)
  /\ Keep(i, policy, baseline)
  /\ \E c \in enabled : Passes(i, c)

\* A new item that the policy keeps does not stay undelivered for ever, even if
\* the channels refuse it a number of times: "the rest next run (they keep
\* is_new until delivered)".
WantedIsAlerted == \A i \in Items : []<>~Wanted(i)
=============================================================================
