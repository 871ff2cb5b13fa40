--------------------------- MODULE GoneDetection ---------------------------
(***************************************************************************)
(* Which items of a program count as gone.  Runs of the phases observe     *)
(* items and stamp them with last_seen (db/base.py); the readers compare   *)
(* the stamps with the runs (core/liveness.py) or with the full runs alone *)
(* (the attack-surface view).  Nothing else is stored about an item that   *)
(* disappeared, so the verdicts stand on the stamps and the scan rows.     *)
(*                                                                         *)
(* The atomic steps are the saves of rows and the upserts of items.        *)
(***************************************************************************)
EXTENDS Integers, FiniteSets

CONSTANTS
  NPhases,       \* phases 1..NPhases, the stages of a full run in their order
  Items, SeenBy, \* the phases that are able to observe each item
  Runs,          \* scan rows of the program
  MaxTime,       \* bound on the clock
  MaxTurns,      \* bound on how often items come and go
  Grace,         \* grace_seconds of the attack-surface view
  Empty          \* a phase may succeed although its tool reached nothing

Phases == 1..NPhases

ASSUME SurfaceAssumption ==
  /\ NPhases \in Nat
  /\ SeenBy \in [Items -> SUBSET Phases \ {{}}]
  /\ MaxTime \in Nat \ {0}
  /\ MaxTurns \in Nat
  /\ Grace \in Nat
  /\ Empty \in BOOLEAN

VARIABLES
  now,
  exists,     \* items that are there, in the world
  turns,
  \* the collections
  stored, lastSeen, source,
  missed,     \* history: items that were not there at some time since last_seen
  \* the scan rows
  kind,       \* "none", "full", "single" or "cascade"
  status,     \* of the row
  started,    \* started_at of the row
  stages,     \* status of each stage; a row of one phase has that stage alone
  stageStart, \* started_at of each stage
  at,         \* the phase that executes, 0 when none does
  targets     \* items the phase has still to look at

worldVars == <<exists, turns>>
itemVars  == <<stored, lastSeen, source, missed>>
rowVars   == <<kind, status, started, stages, stageStart>>
runVars   == <<at, targets>>
vars == <<now, exists, turns, stored, lastSeen, source, missed,
          kind, status, started, stages, stageStart, at, targets>>

-----------------------------------------------------------------------------
(* The verdicts of the readers *)

\* A mutant: a cascade run counts as evidence.
EvidenceAny(p) ==
  {stageStart[r][p] : r \in {q \in Runs : kind[q] = "full" /\ stages[q][p] = "success"}}
    \cup {started[r] : r \in {q \in Runs : /\ kind[q] \in {"single", "cascade"}
                                           /\ status[q] = "success"
                                           /\ stages[q][p] = "success"}}

\* phase_reference_starts: every succeeded stage of a full run and every succeeded
\* run of the phase over the whole program, by the time it started.
Evidence(p) ==
  {stageStart[r][p] : r \in {q \in Runs : kind[q] = "full" /\ stages[q][p] = "success"}}
    \cup {started[r] : r \in {q \in Runs : /\ kind[q] = "single"
                                           /\ status[q] = "success"
                                           /\ stages[q][p] = "success"}}

\* reference <= phase_max: the latest evidence of a phase has observed something.
Reobserved(p) ==
  \A t \in Evidence(p) : \E i \in stored : source[i] = p /\ t <= lastSeen[i]

\* annotate_gone
Gone(i) ==
  /\ i \in stored
  /\ \E t \in Evidence(source[i]) : lastSeen[i] < t
  /\ Reobserved(source[i])

\* A mutant: runs that are under way count.
FinishedFullAll == {r \in Runs : kind[r] = "full"}

\* attack_surface: full runs that have a finished_at, whatever their status.
FinishedFull == {r \in Runs : kind[r] = "full" /\ status[r] # "running"}
Resolved ==
  {i \in stored : \E r \in FinishedFull : /\ lastSeen[i] < started[r] - Grace
                                          /\ \A q \in FinishedFull : started[q] <= started[r]}

-----------------------------------------------------------------------------
(* Runs *)

\* What a phase looks at: all it can observe, unless its tool reaches nothing.
Coverage(p) ==
  {{i \in exists : p \in SeenBy[i]}} \cup (IF Empty THEN {{}} ELSE {})

Untouched == [p \in Phases |-> "queued"]
NotStarted == [p \in Phases |-> 0]

StartFull(r) ==
  /\ kind[r] = "none"
  /\ kind' = [kind EXCEPT ![r] = "full"]
  /\ status' = [status EXCEPT ![r] = "running"]
  /\ started' = [started EXCEPT ![r] = now]
  /\ UNCHANGED <<now, worldVars, itemVars, stages, stageStart, runVars>>

\* active_phase_run: the phase runs over the whole program, on its own.
ActivePhaseRun(p) == \E r \in Runs : kind[r] = "single" /\ at[r] = p

\* A run of one phase, over the whole program or over the targets of a cascade.
StartPhase(r, p) ==
  /\ kind[r] = "none"
  /\ \/ /\ ~ ActivePhaseRun(p)
        /\ kind' = [kind EXCEPT ![r] = "single"]
        /\ \E c \in Coverage(p) : targets' = [targets EXCEPT ![r] = c]
     \/ /\ kind' = [kind EXCEPT ![r] = "cascade"]
        /\ \E c \in SUBSET {i \in exists : p \in SeenBy[i]} :
             targets' = [targets EXCEPT ![r] = c]
  /\ status' = [status EXCEPT ![r] = "running"]
  /\ started' = [started EXCEPT ![r] = now]
  /\ stages' = [stages EXCEPT ![r][p] = "running"]
  /\ at' = [at EXCEPT ![r] = p]
  /\ UNCHANGED <<now, worldVars, itemVars, stageStart>>

NextUp(r) == {p \in Phases : stages[r][p] = "queued"
                              /\ \A q \in 1..(p - 1) : stages[r][q] # "queued"}

\* The next stage of a full run starts, or is skipped because its module is off.
StartStage(r, p) ==
  /\ kind[r] = "full" /\ status[r] = "running" /\ at[r] = 0
  /\ p \in NextUp(r)
  /\ \/ /\ stages' = [stages EXCEPT ![r][p] = "skipped"]
        /\ UNCHANGED <<stageStart, runVars>>
     \/ /\ stages' = [stages EXCEPT ![r][p] = "running"]
        /\ stageStart' = [stageStart EXCEPT ![r][p] = now]
        /\ at' = [at EXCEPT ![r] = p]
        /\ \E c \in Coverage(p) : targets' = [targets EXCEPT ![r] = c]
  /\ UNCHANGED <<now, worldVars, itemVars, kind, status, started>>

\* A mutant: the stamp is ahead of the clock.
SeenAhead(r) == now + 1

\* Repository.upsert stamps the item, and the phase that observed it last is its
\* source.
SeenAt(r) == now
LookAt(r, i) ==
  /\ i \in targets[r]
  /\ targets' = [targets EXCEPT ![r] = @ \ {i}]
  /\ IF i \in exists
       THEN /\ stored' = stored \cup {i}
            /\ lastSeen' = [lastSeen EXCEPT ![i] = SeenAt(r)]
            /\ source' = [source EXCEPT ![i] = at[r]]
            /\ missed' = missed \ {i}
       ELSE UNCHANGED itemVars
  /\ UNCHANGED <<now, worldVars, rowVars, at>>

\* The phase returns, finds nothing to do or fails half-way; the row of a single
\* phase closes with it.
EndPhase(r, verdict) ==
  /\ at[r] # 0
  /\ verdict = "success" => targets[r] = {}
  /\ stages' = [stages EXCEPT ![r][at[r]] = verdict]
  /\ status' = IF kind[r] = "full" THEN status ELSE [status EXCEPT ![r] = verdict]
  /\ at' = [at EXCEPT ![r] = 0]
  /\ targets' = [targets EXCEPT ![r] = {}]
  /\ UNCHANGED <<now, worldVars, itemVars, kind, started, stageStart>>

EndFull(r) ==
  /\ kind[r] = "full" /\ status[r] = "running" /\ at[r] = 0
  /\ NextUp(r) = {}
  /\ status' = [status EXCEPT ![r] =
       IF \E p \in Phases : stages[r][p] = "failed" THEN "failed" ELSE "success"]
  /\ UNCHANGED <<now, worldVars, itemVars, kind, started, stages, stageStart, runVars>>

\* The user stops a full run; or its worker dies and the reaper closes the row.
Unreached(verdict) == IF verdict = "cancelled" THEN "cancelled" ELSE "skipped"
Interrupt(r, verdict) ==
  /\ kind[r] = "full" /\ status[r] = "running"
  /\ status' = [status EXCEPT ![r] = verdict]
  /\ stages' = [stages EXCEPT ![r] = [p \in Phases |->
       CASE stages[r][p] = "running" -> verdict
         [] stages[r][p] = "queued"  -> Unreached(verdict)
         [] OTHER                    -> stages[r][p]]]
  /\ at' = [at EXCEPT ![r] = 0]
  /\ targets' = [targets EXCEPT ![r] = {}]
  /\ UNCHANGED <<now, worldVars, itemVars, kind, started, stageStart>>

\* The job of a full run is delivered again: the row starts afresh.
Restart(r) ==
  /\ kind[r] = "full"
  /\ status' = [status EXCEPT ![r] = "running"]
  /\ started' = [started EXCEPT ![r] = now]
  /\ stages' = [stages EXCEPT ![r] = Untouched]
  /\ stageStart' = [stageStart EXCEPT ![r] = NotStarted]
  /\ at' = [at EXCEPT ![r] = 0]
  /\ targets' = [targets EXCEPT ![r] = {}]
  /\ UNCHANGED <<now, worldVars, itemVars, kind>>

Run(r) ==
  \/ StartFull(r)
  \/ \E p \in Phases : StartPhase(r, p) \/ StartStage(r, p)
  \/ \E i \in Items : LookAt(r, i)
  \/ \E verdict \in {"success", "skipped", "failed"} : EndPhase(r, verdict)
  \/ EndFull(r)
  \/ \E verdict \in {"cancelled", "failed"} : Interrupt(r, verdict)
  \/ Restart(r)

-----------------------------------------------------------------------------
(* The world *)

Appear(i) ==
  /\ i \notin exists /\ turns < MaxTurns
  /\ exists' = exists \cup {i}
  /\ turns' = turns + 1
  /\ UNCHANGED <<now, itemVars, rowVars, runVars>>

Disappear(i) ==
  /\ i \in exists /\ turns < MaxTurns
  /\ exists' = exists \ {i}
  /\ turns' = turns + 1
  /\ missed' = missed \cup {i}
  /\ UNCHANGED <<now, stored, lastSeen, source, rowVars, runVars>>

Tick ==
  /\ now < MaxTime
  /\ now' = now + 1
  /\ UNCHANGED <<worldVars, itemVars, rowVars, runVars>>

Init ==
  /\ now = 1
  /\ exists \in SUBSET Items
  /\ turns = 0
  /\ stored = {}
  /\ lastSeen = [i \in Items |-> 0]
  /\ source = [i \in Items |-> 0]
  /\ missed = {}
  /\ kind = [r \in Runs |-> "none"]
  /\ status = [r \in Runs |-> "none"]
  /\ started = [r \in Runs |-> 0]
  /\ stages = [r \in Runs |-> Untouched]
  /\ stageStart = [r \in Runs |-> NotStarted]
  /\ at = [r \in Runs |-> 0]
  /\ targets = [r \in Runs |-> {}]

Next ==
  \/ \E r \in Runs : Run(r)
  \/ \E i \in Items : Appear(i) \/ Disappear(i)
  \/ Tick

Spec == Init /\ [][Next]_vars

-----------------------------------------------------------------------------
(* Properties *)

\* The variables keep their types; no stamp and no start lies in the future.
TypeOK ==
  /\ now \in 1..MaxTime
  /\ exists \subseteq Items
  /\ turns \in 0..MaxTurns
  /\ stored \subseteq Items
  /\ lastSeen \in [Items -> 0..now]
  /\ source \in [Items -> 0..NPhases]
  /\ missed \subseteq Items
  /\ kind \in [Runs -> {"none", "full", "single", "cascade"}]
  /\ status \in [Runs -> {"none", "running", "success", "failed", "cancelled",
                         "skipped"}]
  /\ started \in [Runs -> 0..now]
  /\ stages \in [Runs -> [Phases -> {"queued", "running", "success", "failed",
                                     "cancelled", "skipped"}]]
  /\ stageStart \in [Runs -> [Phases -> 0..now]]
  /\ at \in [Runs -> 0..NPhases]
  /\ targets \in [Runs -> SUBSET Items]

\* "Gone only when we have proof" (liveness.py): as long as a phase that succeeds
\* has looked at all it covers, an item that was there all the time since it was
\* last seen is never called gone, however full, single and cascade runs overlap,
\* fail half-way and are stopped.
NoLiveItemGone == \A i \in Items : Gone(i) => i \in missed

\* attack_surface: "we ignore an in-progress run".  Only the end of a full run
\* resolves items: the view never collapses while a run is under way.
OpenRunsResolveNothing ==
  [][~ (Resolved' \subseteq Resolved) => FinishedFull' # FinishedFull]_vars
=============================================================================
