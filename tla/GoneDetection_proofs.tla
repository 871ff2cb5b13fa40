------------------------ MODULE GoneDetection_proofs ------------------------
(***************************************************************************)
(* If every phase that succeeds looks at all it covers, no live item is    *)
(* called gone, for any number of items, phases and overlapping runs; and  *)
(* a run that is under way resolves nothing.                               *)
(***************************************************************************)
EXTENDS GoneDetection, TLAPS

\* Items that were there all the time since they were last seen.
Lasting == stored \ missed

\* Every lasting item that p can observe was seen at t or later.
SeenSince(p, t) == \A i \in Lasting : p \in SeenBy[i] => t <= lastSeen[i]

\* The run executes phase p over all it covers, since t.
Covers(r, p, t) ==
  /\ at[r] = p
  /\ \/ kind[r] = "full" /\ t = stageStart[r][p]
     \/ kind[r] = "single" /\ t = started[r]

\* What such a run has still to look at is among its targets.
CoverageKept ==
  \A r \in Runs, p \in Phases, t \in Nat :
    Covers(r, p, t) =>
      \A i \in Lasting : p \in SeenBy[i] => t <= lastSeen[i] \/ i \in targets[r]

EvidenceKept == \A p \in Phases : \A t \in Evidence(p) : SeenSince(p, t)

\* A lasting item is there, and its source is a phase that can observe it.
ItemsKept ==
  /\ Lasting \subseteq exists
  /\ \A i \in stored : source[i] \in SeenBy[i]

\* A row that is not used yet is blank, that of a single phase has no other stage;
\* an executing stage is RUNNING; targets are items the phase can observe.
RowsKept ==
  \A r \in Runs :
    /\ kind[r] = "none" => at[r] = 0 /\ \A p \in Phases : stages[r][p] = "queued"
    /\ at[r] # 0 => stages[r][at[r]] = "running"
    /\ at[r] # 0 /\ kind[r] # "full" =>
         /\ status[r] = "running"
         /\ \A p \in Phases : p # at[r] => stages[r][p] = "queued"
    /\ \A i \in targets[r] : at[r] \in SeenBy[i]

\* The inductive invariant.
GoneInv == TypeOK /\ CoverageKept /\ EvidenceKept /\ ItemsKept /\ RowsKept

-----------------------------------------------------------------------------
(* Lemmas *)

\* Evidence and coverage lie in the past.
LEMMA PastEvidence ==
  ASSUME TypeOK
  PROVE  /\ \A p \in Phases : \A t \in Evidence(p) : t \in 0..now
         /\ \A r \in Runs, p \in Phases : \A t : Covers(r, p, t) => t \in 0..now
BY DEF TypeOK, Evidence, Covers

\* Rows that do not change give the same evidence.
LEMMA SameEvidence ==
  ASSUME NEW p, UNCHANGED rowVars
  PROVE  Evidence(p)' = Evidence(p)
BY DEF Evidence, rowVars

\* The initial states satisfy the invariant.
LEMMA GoneInit == Init => GoneInv
<1> SUFFICES ASSUME Init PROVE GoneInv
  OBVIOUS
<1>1. TypeOK
  BY SurfaceAssumption DEF Init, TypeOK, Untouched, NotStarted
<1>2. CoverageKept
  BY DEF Init, CoverageKept, Covers, Lasting
<1>3. EvidenceKept
  BY DEF Init, EvidenceKept, SeenSince, Lasting
<1>4. ItemsKept
  BY DEF Init, ItemsKept, Lasting
<1>5. RowsKept
  BY DEF Init, RowsKept, Untouched
<1> QED BY <1>1, <1>2, <1>3, <1>4, <1>5 DEF GoneInv

\* Where items and rows stay as they are, and no lasting item leaves the targets.
LEMMA SameSurface ==
  ASSUME GoneInv, UNCHANGED <<itemVars, rowVars, at, targets>>
  PROVE  CoverageKept' /\ EvidenceKept' /\ RowsKept'
<1>1. \A p : Evidence(p)' = Evidence(p)
  BY SameEvidence
<1>2. EvidenceKept'
  BY <1>1 DEF GoneInv, EvidenceKept, SeenSince, Lasting, itemVars
<1>3. CoverageKept'
  BY DEF GoneInv, CoverageKept, Covers, Lasting, itemVars, rowVars
<1>4. RowsKept'
  BY DEF GoneInv, RowsKept, rowVars
<1> QED BY <1>2, <1>3, <1>4

-----------------------------------------------------------------------------
(* The world *)

LEMMA WorldKeepsInv ==
  ASSUME GoneInv, Tick \/ \E i \in Items : Appear(i) \/ Disappear(i)
  PROVE  GoneInv'
<1> USE DEF worldVars, itemVars, rowVars, runVars
<1>0. TypeOK /\ CoverageKept /\ EvidenceKept /\ ItemsKept /\ RowsKept
  BY DEF GoneInv
<1>1. CASE Tick
  <2>1. now' = now + 1 /\ now' \in 1..MaxTime /\ 0..now \subseteq 0..now'
    BY <1>0, <1>1, SurfaceAssumption DEF Tick, TypeOK
  <2>2. /\ lastSeen' \in [Items -> 0..now']
        /\ started' \in [Runs -> 0..now']
        /\ stageStart' \in [Runs -> [Phases -> 0..now']]
    BY <1>0, <1>1, <2>1 DEF Tick, TypeOK
  <2>3. TypeOK'
    BY <1>0, <1>1, <2>1, <2>2 DEF Tick, TypeOK
  <2>4. ItemsKept'
    BY <1>0, <1>1 DEF Tick, ItemsKept, Lasting
  <2> QED BY <1>1, <2>3, <2>4, SameSurface DEF Tick, GoneInv
<1>2. ASSUME NEW i \in Items, Appear(i) PROVE GoneInv'
  <2>1. TypeOK'
    BY <1>0, <1>2, SurfaceAssumption DEF Appear, TypeOK
  <2>2. ItemsKept'
    BY <1>0, <1>2 DEF Appear, ItemsKept, Lasting
  <2> QED BY <1>2, <2>1, <2>2, SameSurface DEF Appear, GoneInv
<1>3. ASSUME NEW i \in Items, Disappear(i) PROVE GoneInv'
  <2>1. TypeOK'
    BY <1>0, <1>3, SurfaceAssumption DEF Disappear, TypeOK
  <2>2. Lasting' = Lasting \ {i} /\ UNCHANGED lastSeen
    BY <1>3 DEF Disappear, Lasting
  <2>3. ItemsKept'
    BY <1>0, <1>3, <2>2 DEF Disappear, ItemsKept
  <2>4. \A p : Evidence(p)' = Evidence(p)
    BY <1>3, SameEvidence DEF Disappear
  <2>5. EvidenceKept'
    BY <1>0, <2>2, <2>4 DEF EvidenceKept, SeenSince
  <2>6. CoverageKept'
    BY <1>0, <1>3, <2>2 DEF Disappear, CoverageKept, Covers
  <2>7. RowsKept'
    BY <1>0, <1>3 DEF Disappear, RowsKept
  <2> QED BY <2>1, <2>3, <2>5, <2>6, <2>7 DEF GoneInv
<1> QED BY <1>1, <1>2, <1>3

-----------------------------------------------------------------------------
(* The runs *)

LEMMA LookKeepsInv ==
  ASSUME GoneInv, NEW r \in Runs, NEW i \in Items, LookAt(r, i)
  PROVE  GoneInv'
<1> USE DEF worldVars, itemVars, rowVars, runVars
<1>0. TypeOK /\ CoverageKept /\ EvidenceKept /\ ItemsKept /\ RowsKept
  BY DEF GoneInv
<1>1. /\ UNCHANGED <<now, exists, turns, kind, status, started, stages, stageStart, at>>
      /\ targets' = [targets EXCEPT ![r] = @ \ {i}]
      /\ i \in targets[r] /\ at[r] \in SeenBy[i] /\ at[r] \in Phases
  BY <1>0, SurfaceAssumption DEF LookAt, RowsKept
<1>2. \A q \in Runs : targets'[q] \subseteq targets[q]
                        /\ \A j \in targets[q] \ {i} : j \in targets'[q]
  BY <1>0, <1>1 DEF TypeOK
<1>3. RowsKept'
  BY <1>0, <1>1, <1>2 DEF RowsKept
<1>4. \A p : Evidence(p)' = Evidence(p)
  BY <1>1, SameEvidence
<1>5. CASE i \in exists
  <2>1. /\ stored' = stored \cup {i}
        /\ lastSeen' = [lastSeen EXCEPT ![i] = now]
        /\ source' = [source EXCEPT ![i] = at[r]]
        /\ missed' = missed \ {i}
    BY <1>5 DEF LookAt, SeenAt
  <2>2. Lasting' = Lasting \cup {i}
    BY <2>1 DEF Lasting
  <2>3. /\ lastSeen'[i] = now
        /\ \A j \in Items : j # i => lastSeen'[j] = lastSeen[j] /\ source'[j] = source[j]
        /\ source'[i] = at[r]
    BY <1>0, <2>1 DEF TypeOK
  <2>4. TypeOK'
    BY <1>0, <1>1, <2>1 DEF TypeOK, Phases
  <2>5. Lasting \subseteq Items
    BY <1>0 DEF TypeOK, Lasting
  <2>6. ItemsKept'
    BY <1>0, <1>1, <1>5, <2>1, <2>2, <2>3 DEF ItemsKept, TypeOK
  <2>7. EvidenceKept'
    <3>1. \A p \in Phases : \A t \in Evidence(p) : t <= now
      BY <1>0, PastEvidence DEF TypeOK
    <3> QED BY <1>0, <1>4, <2>2, <2>3, <2>5, <3>1 DEF EvidenceKept, SeenSince
  <2>8. CoverageKept'
    <3>1. \A q \in Runs, p \in Phases, t \in Nat : Covers(q, p, t)' => Covers(q, p, t)
      BY <1>1 DEF Covers
    <3>2. \A q \in Runs, p \in Phases, t \in Nat : Covers(q, p, t) => t <= now
      BY <1>0, PastEvidence DEF TypeOK
    <3> QED BY <1>0, <1>2, <2>2, <2>3, <2>5, <3>1, <3>2 DEF CoverageKept
  <2> QED BY <1>3, <2>4, <2>6, <2>7, <2>8 DEF GoneInv
<1>6. CASE i \notin exists
  <2>1. UNCHANGED <<stored, lastSeen, source, missed>> /\ i \notin Lasting
    BY <1>0, <1>6 DEF LookAt, ItemsKept
  <2>2. TypeOK'
    BY <1>0, <1>1, <2>1 DEF TypeOK
  <2>3. ItemsKept'
    BY <1>0, <1>1, <2>1 DEF ItemsKept, Lasting
  <2>4. EvidenceKept'
    BY <1>0, <1>4, <2>1 DEF EvidenceKept, SeenSince, Lasting
  <2>5. CoverageKept'
    <3>1. \A q \in Runs, p \in Phases, t \in Nat : Covers(q, p, t)' => Covers(q, p, t)
      BY <1>1 DEF Covers
    <3>2. Lasting' = Lasting
      BY <2>1 DEF Lasting
    <3> QED BY <1>0, <1>2, <2>1, <3>1, <3>2 DEF CoverageKept
  <2> QED BY <1>3, <2>2, <2>3, <2>4, <2>5 DEF GoneInv
<1> QED BY <1>5, <1>6

\* A full run that starts executes no phase yet.
LEMMA StartFullKeepsInv ==
  ASSUME GoneInv, NEW r \in Runs, StartFull(r)
  PROVE  GoneInv'
<1> USE DEF worldVars, itemVars, rowVars, runVars
<1>0. TypeOK /\ CoverageKept /\ EvidenceKept /\ ItemsKept /\ RowsKept
  BY DEF GoneInv
<1>1. /\ at[r] = 0 /\ \A p \in Phases : stages[r][p] = "queued"
      /\ UNCHANGED <<now, exists, turns, stored, lastSeen, source, missed, stages,
                     stageStart, at, targets>>
      /\ kind' = [kind EXCEPT ![r] = "full"]
      /\ status' = [status EXCEPT ![r] = "running"]
      /\ started' = [started EXCEPT ![r] = now]
  BY <1>0 DEF StartFull, RowsKept
<1>2. TypeOK'
  BY <1>0, <1>1, SurfaceAssumption DEF TypeOK
<1>3. \A q \in Runs : q # r => kind'[q] = kind[q] /\ status'[q] = status[q]
                                 /\ started'[q] = started[q]
  BY <1>0, <1>1 DEF TypeOK
<1>4. kind'[r] = "full" /\ status'[r] = "running"
  BY <1>0, <1>1 DEF TypeOK
<1>5. \A p \in Phases : Evidence(p)' \subseteq Evidence(p)
  BY <1>1, <1>3, <1>4 DEF Evidence
<1>6. Lasting' = Lasting
  BY <1>1 DEF Lasting
<1>7. EvidenceKept'
  BY <1>0, <1>1, <1>5, <1>6 DEF EvidenceKept, SeenSince
<1>8. \A q \in Runs, p \in Phases, t \in Nat : Covers(q, p, t)' => Covers(q, p, t)
  BY <1>1, <1>3 DEF Covers, Phases
<1>9. CoverageKept'
  BY <1>0, <1>1, <1>6, <1>8 DEF CoverageKept
<1>10. ItemsKept'
  BY <1>0, <1>1, <1>6 DEF ItemsKept
<1>11. RowsKept'
  BY <1>0, <1>1, <1>3, <1>4 DEF RowsKept
<1> QED BY <1>2, <1>7, <1>9, <1>10, <1>11 DEF GoneInv

\* Lasting items that the phase can observe are in what it looks at.
LEMMA CoverageIsAll ==
  ASSUME GoneInv, ~ Empty, NEW p, NEW c \in Coverage(p)
  PROVE  /\ \A i \in Lasting : p \in SeenBy[i] => i \in c
         /\ \A i \in c : i \in Items /\ p \in SeenBy[i]
<1>1. c = {i \in exists : p \in SeenBy[i]}
  BY DEF Coverage
<1> QED BY <1>1 DEF GoneInv, ItemsKept, TypeOK

\* A phase on its own covers the program from its start; a cascade vouches for nothing.
LEMMA StartPhaseKeepsInv ==
  ASSUME GoneInv, ~ Empty, NEW r \in Runs, NEW p \in Phases, StartPhase(r, p)
  PROVE  GoneInv'
<1> USE DEF worldVars, itemVars, rowVars, runVars
<1>0. TypeOK /\ CoverageKept /\ EvidenceKept /\ ItemsKept /\ RowsKept
  BY DEF GoneInv
<1>1. /\ at[r] = 0 /\ \A q \in Phases : stages[r][q] = "queued"
      /\ UNCHANGED <<now, exists, turns, stored, lastSeen, source, missed, stageStart>>
      /\ status' = [status EXCEPT ![r] = "running"]
      /\ started' = [started EXCEPT ![r] = now]
      /\ stages' = [stages EXCEPT ![r][p] = "running"]
      /\ at' = [at EXCEPT ![r] = p]
  BY <1>0 DEF StartPhase, RowsKept
<1>2. PICK k \in {"single", "cascade"}, c \in SUBSET Items :
        /\ kind' = [kind EXCEPT ![r] = k]
        /\ targets' = [targets EXCEPT ![r] = c]
        /\ \A i \in c : p \in SeenBy[i]
        /\ k = "single" => \A i \in Lasting : p \in SeenBy[i] => i \in c
  <2>1. CASE \E c \in SUBSET {i \in exists : p \in SeenBy[i]} :
               /\ kind' = [kind EXCEPT ![r] = "cascade"]
               /\ targets' = [targets EXCEPT ![r] = c]
    BY <1>0, <2>1 DEF TypeOK
  <2>2. CASE \E c \in Coverage(p) : /\ kind' = [kind EXCEPT ![r] = "single"]
                                   /\ targets' = [targets EXCEPT ![r] = c]
    <3>1. PICK c \in Coverage(p) : /\ kind' = [kind EXCEPT ![r] = "single"]
                                  /\ targets' = [targets EXCEPT ![r] = c]
      BY <2>2
    <3>2. /\ \A i \in Lasting : p \in SeenBy[i] => i \in c
          /\ \A i \in c : i \in Items /\ p \in SeenBy[i]
      BY CoverageIsAll
    <3>3. c \in SUBSET Items
      BY <3>2
    <3> QED BY <3>1, <3>2, <3>3
  <2> QED BY <2>1, <2>2 DEF StartPhase
<1>3. /\ \A q \in Runs : q # r => /\ kind'[q] = kind[q] /\ status'[q] = status[q]
                                  /\ started'[q] = started[q] /\ stages'[q] = stages[q]
                                  /\ at'[q] = at[q] /\ targets'[q] = targets[q]
      /\ kind'[r] = k /\ status'[r] = "running" /\ started'[r] = now
      /\ at'[r] = p /\ targets'[r] = c
  BY <1>0, <1>1, <1>2 DEF TypeOK
<1>4. /\ stages'[r][p] = "running"
      /\ \A q \in Phases : q # p => stages'[r][q] = "queued"
  BY <1>0, <1>1 DEF TypeOK
<1>5. TypeOK'
  <2>1. stages' \in [Runs -> [Phases -> {"queued", "running", "success", "failed",
                                         "cancelled", "skipped"}]]
    BY <1>0, <1>1 DEF TypeOK
  <2>2. at' \in [Runs -> 0..NPhases]
    BY <1>0, <1>1, SurfaceAssumption DEF TypeOK, Phases
  <2>3. started' \in [Runs -> 0..now]
    BY <1>0, <1>1 DEF TypeOK
  <2>4. targets' \in [Runs -> SUBSET Items]
    BY <1>0, <1>2 DEF TypeOK
  <2> QED BY <1>0, <1>1, <1>2, <2>1, <2>2, <2>3, <2>4 DEF TypeOK
<1>6. \A q \in Phases : Evidence(q)' \subseteq Evidence(q)
  BY <1>1, <1>2, <1>3 DEF Evidence
<1>7. Lasting' = Lasting /\ Lasting \subseteq Items
  BY <1>0, <1>1 DEF Lasting, TypeOK
<1>8. EvidenceKept'
  BY <1>0, <1>1, <1>6, <1>7 DEF EvidenceKept, SeenSince
<1>9. CoverageKept'
  <2>1. \A q \in Runs \ {r}, x \in Phases, t \in Nat : Covers(q, x, t)' => Covers(q, x, t)
    BY <1>1, <1>3 DEF Covers
  <2>2. \A x \in Phases, t \in Nat : Covers(r, x, t)' => x = p /\ k = "single"
    BY <1>2, <1>3 DEF Covers
  <2> QED BY <1>0, <1>1, <1>2, <1>3, <1>7, <2>1, <2>2 DEF CoverageKept
<1>10. ItemsKept'
  BY <1>0, <1>1, <1>7 DEF ItemsKept
<1>11. RowsKept'
  BY <1>0, <1>1, <1>2, <1>3, <1>4 DEF RowsKept
<1> QED BY <1>5, <1>8, <1>9, <1>10, <1>11 DEF GoneInv

LEMMA StartStageKeepsInv ==
  ASSUME GoneInv, ~ Empty, NEW r \in Runs, NEW p \in Phases, StartStage(r, p)
  PROVE  GoneInv'
<1> USE DEF worldVars, itemVars, rowVars, runVars
<1>0. TypeOK /\ CoverageKept /\ EvidenceKept /\ ItemsKept /\ RowsKept
  BY DEF GoneInv
<1>1. /\ kind[r] = "full" /\ status[r] = "running" /\ at[r] = 0
      /\ stages[r][p] = "queued"
      /\ UNCHANGED <<now, exists, turns, stored, lastSeen, source, missed, kind, status, started>>
  BY DEF StartStage, NextUp
<1>2. PICK v \in {"skipped", "running"} : stages' = [stages EXCEPT ![r][p] = v]
  BY DEF StartStage
<1>3. /\ \A q \in Runs : q # r => stages'[q] = stages[q]
      /\ stages'[r][p] = v
      /\ \A q \in Phases : q # p => stages'[r][q] = stages[r][q]
      /\ stages' \in [Runs -> [Phases -> {"queued", "running", "success", "failed",
                                         "cancelled", "skipped"}]]
  BY <1>0, <1>2 DEF TypeOK
<1>4. Lasting' = Lasting /\ Lasting \subseteq Items
  BY <1>0, <1>1 DEF Lasting, TypeOK
<1>5. ItemsKept'
  BY <1>0, <1>1, <1>4 DEF ItemsKept
<1>6. CASE UNCHANGED <<stageStart, at, targets>>
  <2>1. TypeOK'
    BY <1>0, <1>1, <1>3, <1>6 DEF TypeOK
  <2>2. \A q \in Phases : Evidence(q)' \subseteq Evidence(q)
    BY <1>1, <1>2, <1>3, <1>6 DEF Evidence
  <2>3. EvidenceKept'
    BY <1>0, <1>1, <1>4, <2>2 DEF EvidenceKept, SeenSince
  <2>4. CoverageKept'
    BY <1>0, <1>1, <1>4, <1>6 DEF CoverageKept, Covers
  <2>5. RowsKept'
    BY <1>0, <1>1, <1>3, <1>6 DEF RowsKept
  <2> QED BY <1>5, <2>1, <2>3, <2>4, <2>5 DEF GoneInv
<1>7. CASE /\ v = "running"
           /\ stageStart' = [stageStart EXCEPT ![r][p] = now]
           /\ at' = [at EXCEPT ![r] = p]
           /\ \E c \in Coverage(p) : targets' = [targets EXCEPT ![r] = c]
  <2>1. PICK c \in Coverage(p) : targets' = [targets EXCEPT ![r] = c]
    BY <1>7
  <2>2. /\ \A i \in Lasting : p \in SeenBy[i] => i \in c
        /\ \A i \in c : i \in Items /\ p \in SeenBy[i]
    BY CoverageIsAll
  <2>3. c \in SUBSET Items
    BY <2>2
  <2>4. /\ \A q \in Runs : q # r => /\ stageStart'[q] = stageStart[q]
                                    /\ at'[q] = at[q] /\ targets'[q] = targets[q]
        /\ at'[r] = p /\ targets'[r] = c /\ stageStart'[r][p] = now
        /\ \A q \in Phases : q # p => stageStart'[r][q] = stageStart[r][q]
    BY <1>0, <1>7, <2>1 DEF TypeOK
  <2>5. TypeOK'
    <3>1. stageStart' \in [Runs -> [Phases -> 0..now]]
      BY <1>0, <1>7 DEF TypeOK
    <3>2. at' \in [Runs -> 0..NPhases]
      BY <1>0, <1>7, SurfaceAssumption DEF TypeOK, Phases
    <3>3. targets' \in [Runs -> SUBSET Items]
      BY <1>0, <2>1, <2>3 DEF TypeOK
    <3> QED BY <1>0, <1>1, <1>3, <3>1, <3>2, <3>3 DEF TypeOK
  <2>6. \A q \in Phases : Evidence(q)' \subseteq Evidence(q)
    BY <1>1, <1>2, <1>3, <2>4 DEF Evidence
  <2>7. EvidenceKept'
    BY <1>0, <1>1, <1>4, <2>6 DEF EvidenceKept, SeenSince
  <2>8. CoverageKept'
    <3>1. \A q \in Runs \ {r}, x \in Phases, t \in Nat : Covers(q, x, t)' => Covers(q, x, t)
      BY <1>1, <2>4 DEF Covers
    <3>2. \A x \in Phases, t \in Nat : Covers(r, x, t)' => x = p
      BY <2>4 DEF Covers
    <3> QED BY <1>0, <1>1, <1>4, <2>2, <2>4, <3>1, <3>2 DEF CoverageKept
  <2>9. RowsKept'
    BY <1>0, <1>1, <1>3, <1>7, <2>2, <2>4 DEF RowsKept
  <2> QED BY <1>5, <2>5, <2>7, <2>8, <2>9 DEF GoneInv
<1>8. \/ UNCHANGED <<stageStart, at, targets>>
      \/ /\ stages' = [stages EXCEPT ![r][p] = "running"]
         /\ stageStart' = [stageStart EXCEPT ![r][p] = now]
         /\ at' = [at EXCEPT ![r] = p]
         /\ \E c \in Coverage(p) : targets' = [targets EXCEPT ![r] = c]
  BY DEF StartStage
<1> QED
  <2>1. CASE UNCHANGED <<stageStart, at, targets>>
    BY <1>6, <2>1
  <2>2. CASE /\ stages' = [stages EXCEPT ![r][p] = "running"]
             /\ stageStart' = [stageStart EXCEPT ![r][p] = now]
             /\ at' = [at EXCEPT ![r] = p]
             /\ \E c \in Coverage(p) : targets' = [targets EXCEPT ![r] = c]
    <3>1. v = "running"
      BY <1>0, <1>3, <2>2 DEF TypeOK
    <3> QED BY <1>7, <2>2, <3>1
  <2> QED BY <1>8, <2>1, <2>2

\* The step that makes evidence: a phase succeeds when it has looked at everything.
LEMMA EndPhaseKeepsInv ==
  ASSUME GoneInv, NEW r \in Runs, NEW verdict \in {"success", "skipped", "failed"},
         EndPhase(r, verdict)
  PROVE  GoneInv'
<1> USE DEF worldVars, itemVars, rowVars, runVars
<1>0. TypeOK /\ CoverageKept /\ EvidenceKept /\ ItemsKept /\ RowsKept
  BY DEF GoneInv
<1> DEFINE p == at[r]
<1>1. /\ p \in Phases /\ stages[r][p] = "running"
      /\ verdict = "success" => targets[r] = {}
      /\ UNCHANGED <<now, exists, turns, stored, lastSeen, source, missed, kind, started,
                     stageStart>>
      /\ stages' = [stages EXCEPT ![r][p] = verdict]
      /\ at' = [at EXCEPT ![r] = 0]
      /\ targets' = [targets EXCEPT ![r] = {}]
  BY <1>0, SurfaceAssumption DEF EndPhase, RowsKept, TypeOK, Phases
<1>2. status' \in [Runs -> {"none", "running", "success", "failed", "cancelled", "skipped"}]
  BY <1>0 DEF EndPhase, TypeOK
<1>3. /\ \A q \in Runs : q # r => /\ status'[q] = status[q] /\ stages'[q] = stages[q]
                                  /\ at'[q] = at[q] /\ targets'[q] = targets[q]
      /\ at'[r] = 0 /\ targets'[r] = {}
  <2>1. \A q \in Runs : q # r => status'[q] = status[q]
    BY <1>0 DEF EndPhase, TypeOK
  <2> QED BY <1>0, <1>1, <2>1 DEF TypeOK
<1>4. /\ stages'[r][p] = verdict
      /\ \A q \in Phases : q # p => stages'[r][q] = stages[r][q]
      /\ stages' \in [Runs -> [Phases -> {"queued", "running", "success", "failed",
                                         "cancelled", "skipped"}]]
  BY <1>0, <1>1 DEF TypeOK
<1>5. TypeOK'
  <2>1. at' \in [Runs -> 0..NPhases]
    BY <1>0, <1>1, SurfaceAssumption DEF TypeOK
  <2>2. targets' \in [Runs -> SUBSET Items]
    BY <1>0, <1>1 DEF TypeOK
  <2> QED BY <1>0, <1>1, <1>2, <1>4, <2>1, <2>2 DEF TypeOK
<1>6. Lasting' = Lasting /\ Lasting \subseteq Items
  BY <1>0, <1>1 DEF Lasting, TypeOK
<1>7. \A q \in Phases : \A t \in Evidence(q)' :
        t \in Evidence(q) \/ (q = p /\ verdict = "success" /\ Covers(r, p, t))
  <2> SUFFICES ASSUME NEW q \in Phases, NEW t \in Evidence(q)'
               PROVE  t \in Evidence(q)
                        \/ (q = p /\ verdict = "success" /\ Covers(r, p, t))
    OBVIOUS
  <2>1. CASE \E x \in Runs : kind[x] = "full" /\ stages'[x][q] = "success"
                              /\ t = stageStart[x][q]
    BY <1>1, <1>3, <1>4, <2>1 DEF Evidence, Covers
  <2>2. CASE \E x \in Runs : /\ kind[x] = "single" /\ status'[x] = "success"
                              /\ stages'[x][q] = "success" /\ t = started[x]
    <3>1. PICK x \in Runs : /\ kind[x] = "single" /\ status'[x] = "success"
                           /\ stages'[x][q] = "success" /\ t = started[x]
      BY <2>2
    <3>2. CASE x # r
      BY <1>3, <3>1, <3>2 DEF Evidence
    <3>3. CASE x = r
      <4>1. p # 0
        BY DEF EndPhase
      <4>2. \A z \in Phases : z # p => stages[r][z] = "queued"
        BY <1>0, <3>1, <3>3, <4>1 DEF RowsKept
      <4> QED BY <1>4, <3>1, <3>3, <4>2 DEF Covers
    <3> QED BY <3>2, <3>3
  <2> QED BY <1>1, <2>1, <2>2 DEF Evidence
<1>8. EvidenceKept'
  <2> SUFFICES ASSUME NEW q \in Phases, NEW t \in Evidence(q)' PROVE SeenSince(q, t)'
    BY DEF EvidenceKept
  <2>1. CASE t \in Evidence(q)
    BY <1>0, <1>1, <1>6, <2>1 DEF EvidenceKept, SeenSince
  <2>2. CASE q = p /\ verdict = "success" /\ Covers(r, p, t)
    <3>1. t \in Nat
      BY <1>0, <1>1, <2>2, PastEvidence DEF TypeOK
    <3>2. \A i \in Lasting : p \in SeenBy[i] => t <= lastSeen[i] \/ i \in targets[r]
      BY <1>0, <1>1, <2>2, <3>1 DEF CoverageKept
    <3> QED BY <1>1, <1>6, <2>2, <3>2 DEF SeenSince
  <2> QED BY <1>7, <2>1, <2>2
<1>9. CoverageKept'
  <2>1. \A q \in Runs, x \in Phases, t \in Nat : Covers(q, x, t)' => q # r /\ Covers(q, x, t)
    BY <1>1, <1>3 DEF Covers, Phases
  <2> QED BY <1>0, <1>1, <1>3, <1>6, <2>1 DEF CoverageKept
<1>10. ItemsKept'
  BY <1>0, <1>1, <1>6 DEF ItemsKept
<1>11. RowsKept'
  <2>1. kind[r] # "none"
    BY <1>0, <1>1, SurfaceAssumption DEF RowsKept, Phases
  <2> QED BY <1>0, <1>1, <1>3, <2>1 DEF RowsKept
<1> QED BY <1>5, <1>8, <1>9, <1>10, <1>11 DEF GoneInv

\* A full run that closes or is stopped leaves the evidence of its stages as it was.
LEMMA CloseKeepsInv ==
  ASSUME GoneInv, NEW r \in Runs,
         EndFull(r) \/ \E verdict \in {"cancelled", "failed"} : Interrupt(r, verdict)
  PROVE  GoneInv'
<1> USE DEF worldVars, itemVars, rowVars, runVars
<1>0. TypeOK /\ CoverageKept /\ EvidenceKept /\ ItemsKept /\ RowsKept
  BY DEF GoneInv
<1>1. /\ kind[r] = "full"
      /\ UNCHANGED <<now, exists, turns, stored, lastSeen, source, missed, kind, started,
                     stageStart>>
  BY DEF EndFull, Interrupt
<1>2. PICK v \in {"success", "failed", "cancelled"} : status' = [status EXCEPT ![r] = v]
  BY DEF EndFull, Interrupt
<1>3. status' \in [Runs -> {"none", "running", "success", "failed", "cancelled", "skipped"}]
        /\ \A q \in Runs : q # r => status'[q] = status[q]
  BY <1>0, <1>2 DEF TypeOK
<1>4. Lasting' = Lasting /\ Lasting \subseteq Items
  BY <1>0, <1>1 DEF Lasting, TypeOK
<1>5. ItemsKept'
  BY <1>0, <1>1, <1>4 DEF ItemsKept
<1>6. CASE EndFull(r)
  <2>1. UNCHANGED <<stages, at, targets>> /\ at[r] = 0
    BY <1>6 DEF EndFull
  <2>2. TypeOK'
    BY <1>0, <1>1, <1>3, <2>1 DEF TypeOK
  <2>3. \A p \in Phases : Evidence(p)' \subseteq Evidence(p)
    BY <1>1, <1>3, <2>1 DEF Evidence
  <2>4. EvidenceKept'
    BY <1>0, <1>1, <1>4, <2>3 DEF EvidenceKept, SeenSince
  <2>5. CoverageKept'
    BY <1>0, <1>1, <1>4, <2>1 DEF CoverageKept, Covers
  <2>6. RowsKept'
    BY <1>0, <1>1, <1>3, <2>1 DEF RowsKept
  <2> QED BY <1>5, <2>2, <2>4, <2>5, <2>6 DEF GoneInv
<1>7. ASSUME NEW verdict \in {"cancelled", "failed"}, Interrupt(r, verdict)
      PROVE  GoneInv'
  <2> DEFINE closed == [p \in Phases |->
               CASE stages[r][p] = "running" -> verdict
                 [] stages[r][p] = "queued"  -> Unreached(verdict)
                 [] OTHER                    -> stages[r][p]]
  <2>1. /\ stages' = [stages EXCEPT ![r] = closed]
        /\ at' = [at EXCEPT ![r] = 0]
        /\ targets' = [targets EXCEPT ![r] = {}]
    BY <1>7 DEF Interrupt
  <2>2. /\ \A q \in Runs : q # r => /\ stages'[q] = stages[q]
                                    /\ at'[q] = at[q] /\ targets'[q] = targets[q]
        /\ at'[r] = 0 /\ targets'[r] = {} /\ stages'[r] = closed
    BY <1>0, <2>1 DEF TypeOK
  <2>3. closed \in [Phases -> {"queued", "running", "success", "failed", "cancelled",
                              "skipped"}]
    BY <1>0 DEF TypeOK, Unreached
  <2>4. \A p \in Phases : closed[p] = "success" => stages[r][p] = "success"
    BY DEF Unreached
  <2>5. TypeOK'
    <3> HIDE DEF closed
    <3>1. stages' \in [Runs -> [Phases -> {"queued", "running", "success", "failed",
                                           "cancelled", "skipped"}]]
      BY <1>0, <2>1, <2>3 DEF TypeOK
    <3>2. at' \in [Runs -> 0..NPhases]
      BY <1>0, <2>1, SurfaceAssumption DEF TypeOK
    <3>3. targets' \in [Runs -> SUBSET Items]
      BY <1>0, <2>1 DEF TypeOK
    <3> QED BY <1>0, <1>1, <1>3, <3>1, <3>2, <3>3 DEF TypeOK
  <2> HIDE DEF closed
  <2>6. \A p \in Phases : Evidence(p)' \subseteq Evidence(p)
    BY <1>1, <1>3, <2>2, <2>4 DEF Evidence
  <2>7. EvidenceKept'
    BY <1>0, <1>1, <1>4, <2>6 DEF EvidenceKept, SeenSince
  <2>8. CoverageKept'
    <3>1. \A q \in Runs, x \in Phases, t \in Nat :
            Covers(q, x, t)' => q # r /\ Covers(q, x, t)
      BY <1>1, <2>2 DEF Covers, Phases
    <3> QED BY <1>0, <1>1, <1>4, <2>2, <3>1 DEF CoverageKept
  <2>9. RowsKept'
    BY <1>0, <1>1, <1>3, <2>2 DEF RowsKept
  <2> QED BY <1>5, <2>5, <2>7, <2>8, <2>9 DEF GoneInv
<1> QED BY <1>6, <1>7

\* A row that starts afresh takes its evidence back.
LEMMA RestartKeepsInv ==
  ASSUME GoneInv, NEW r \in Runs, Restart(r)
  PROVE  GoneInv'
<1> USE DEF worldVars, itemVars, rowVars, runVars
<1>0. TypeOK /\ CoverageKept /\ EvidenceKept /\ ItemsKept /\ RowsKept
  BY DEF GoneInv
<1>1. /\ kind[r] = "full"
      /\ UNCHANGED <<now, exists, turns, stored, lastSeen, source, missed, kind>>
  BY DEF Restart
<1>2. /\ \A q \in Runs : q # r => /\ status'[q] = status[q] /\ started'[q] = started[q]
                                  /\ stages'[q] = stages[q]
                                  /\ stageStart'[q] = stageStart[q]
                                  /\ at'[q] = at[q] /\ targets'[q] = targets[q]
      /\ at'[r] = 0 /\ targets'[r] = {}
      /\ \A p \in Phases : stages'[r][p] = "queued"
  BY <1>0 DEF Restart, TypeOK, Untouched
<1>3. TypeOK'
  <2>1. /\ status' \in [Runs -> {"none", "running", "success", "failed", "cancelled",
                                 "skipped"}]
        /\ started' \in [Runs -> 0..now]
        /\ targets' \in [Runs -> SUBSET Items]
    BY <1>0 DEF Restart, TypeOK
  <2>2. at' \in [Runs -> 0..NPhases]
    BY <1>0, SurfaceAssumption DEF Restart, TypeOK
  <2>3. stages' \in [Runs -> [Phases -> {"queued", "running", "success", "failed",
                                         "cancelled", "skipped"}]]
    BY <1>0 DEF Restart, TypeOK, Untouched
  <2>4. stageStart' \in [Runs -> [Phases -> 0..now]]
    BY <1>0 DEF Restart, TypeOK, NotStarted
  <2> QED BY <1>0, <1>1, <2>1, <2>2, <2>3, <2>4 DEF TypeOK
<1>4. Lasting' = Lasting /\ Lasting \subseteq Items
  BY <1>0, <1>1 DEF Lasting, TypeOK
<1>5. ItemsKept'
  BY <1>0, <1>1, <1>4 DEF ItemsKept
<1>6. \A p \in Phases : Evidence(p)' \subseteq Evidence(p)
  BY <1>1, <1>2 DEF Evidence
<1>7. EvidenceKept'
  BY <1>0, <1>1, <1>4, <1>6 DEF EvidenceKept, SeenSince
<1>8. CoverageKept'
  <2>1. \A q \in Runs, x \in Phases, t \in Nat :
          Covers(q, x, t)' => q # r /\ Covers(q, x, t)
    BY <1>1, <1>2 DEF Covers, Phases
  <2> QED BY <1>0, <1>1, <1>2, <1>4, <2>1 DEF CoverageKept
<1>9. RowsKept'
  BY <1>0, <1>1, <1>2 DEF RowsKept
<1> QED BY <1>3, <1>5, <1>7, <1>8, <1>9 DEF GoneInv

\* No step breaks the invariant.
LEMMA GoneStep ==
  ASSUME GoneInv, ~ Empty, [Next]_vars
  PROVE  GoneInv'
<1>1. CASE \E r \in Runs : Run(r)
  <2>1. PICK r \in Runs : Run(r)
    BY <1>1
  <2>2. CASE StartFull(r)
    BY <2>2, StartFullKeepsInv
  <2>3. CASE \E p \in Phases : StartPhase(r, p)
    BY <2>3, StartPhaseKeepsInv
  <2>4. CASE \E p \in Phases : StartStage(r, p)
    BY <2>4, StartStageKeepsInv
  <2>5. CASE \E i \in Items : LookAt(r, i)
    BY <2>5, LookKeepsInv
  <2>6. CASE \E verdict \in {"success", "skipped", "failed"} : EndPhase(r, verdict)
    BY <2>6, EndPhaseKeepsInv
  <2>7. CASE EndFull(r) \/ \E verdict \in {"cancelled", "failed"} : Interrupt(r, verdict)
    BY <2>7, CloseKeepsInv
  <2>8. CASE Restart(r)
    BY <2>8, RestartKeepsInv
  <2> QED BY <2>1, <2>2, <2>3, <2>4, <2>5, <2>6, <2>7, <2>8 DEF Run
<1>2. CASE Tick \/ \E i \in Items : Appear(i) \/ Disappear(i)
  BY <1>2, WorldKeepsInv
<1>3. CASE UNCHANGED vars
  <2>1. UNCHANGED <<now, exists, turns, stored, lastSeen, source, missed, kind, status,
                    started, stages, stageStart, at, targets>>
    BY <1>3 DEF vars
  <2>2. TypeOK' /\ ItemsKept'
    BY <2>1 DEF GoneInv, TypeOK, ItemsKept, Lasting
  <2>3. CoverageKept' /\ EvidenceKept' /\ RowsKept'
    BY <2>1, SameSurface DEF itemVars, rowVars
  <2> QED BY <2>2, <2>3 DEF GoneInv
<1> QED BY <1>1, <1>2, <1>3 DEF Next

-----------------------------------------------------------------------------
(* Theorems *)

\* Evidence of a phase means that every item it can observe, and that was there all
\* the time, was seen since.
THEOREM GoneInvHolds ==
  ASSUME ~ Empty
  PROVE  Spec => []GoneInv
<1>1. GoneInv /\ [Next]_vars => GoneInv'
  BY GoneStep
<1> QED BY <1>1, GoneInit, PTL DEF Spec

\* The variables keep their types, and no stamp and no start lies in the future.
THEOREM GoneTypes ==
  ASSUME ~ Empty
  PROVE  Spec => []TypeOK
<1>1. GoneInv => TypeOK
  BY DEF GoneInv
<1> QED BY <1>1, GoneInvHolds, PTL

\* "Gone only when we have proof" (liveness.py:3), whatever runs overlap, fail
\* half-way or are stopped, as long as a phase that succeeds looked at all it covers.
THEOREM LiveItemsAreNotGone ==
  ASSUME ~ Empty
  PROVE  Spec => []NoLiveItemGone
<1>1. GoneInv => NoLiveItemGone
  <2> SUFFICES ASSUME GoneInv, NEW i \in Items, Gone(i) PROVE i \in missed
    BY DEF NoLiveItemGone
  <2>1. i \in stored /\ source[i] \in SeenBy[i] /\ source[i] \in Phases
    BY SurfaceAssumption DEF Gone, GoneInv, ItemsKept
  <2>2. PICK t \in Evidence(source[i]) : lastSeen[i] < t
    BY DEF Gone
  <2>3. t \in Nat /\ lastSeen[i] \in Nat
    BY <2>1, PastEvidence DEF GoneInv, TypeOK
  <2>4. i \notin Lasting
    BY <2>1, <2>2, <2>3 DEF GoneInv, EvidenceKept, SeenSince
  <2> QED BY <2>1, <2>4 DEF Lasting
<1> QED BY <1>1, GoneInvHolds, PTL

-----------------------------------------------------------------------------
(* The attack-surface view *)

\* No run has started in the future.
Clocked ==
  /\ now \in Nat
  /\ DOMAIN kind = Runs /\ DOMAIN status = Runs /\ DOMAIN lastSeen = Items
  /\ started \in [Runs -> Nat] /\ \A r \in Runs : started[r] <= now

LEMMA ClockedHolds == Spec => []Clocked
<1>1. Init => Clocked
  BY DEF Init, Clocked
<1>2. Clocked /\ [Next]_vars => Clocked'
  <2> SUFFICES ASSUME Clocked, [Next]_vars PROVE Clocked'
    OBVIOUS
  <2> USE DEF Clocked, worldVars, itemVars, rowVars, runVars
  <2>1. ASSUME NEW r \in Runs, StartFull(r) PROVE Clocked'
    BY <2>1 DEF StartFull
  <2>2. ASSUME NEW r \in Runs, NEW p \in Phases, StartPhase(r, p) PROVE Clocked'
    BY <2>2 DEF StartPhase
  <2>3. ASSUME NEW r \in Runs, NEW p \in Phases, StartStage(r, p) PROVE Clocked'
    BY <2>3 DEF StartStage
  <2>4. ASSUME NEW r \in Runs, NEW i \in Items, LookAt(r, i) PROVE Clocked'
    BY <2>4 DEF LookAt
  <2>5. ASSUME NEW r \in Runs, NEW verdict, EndPhase(r, verdict) PROVE Clocked'
    BY <2>5 DEF EndPhase
  <2>6. ASSUME NEW r \in Runs, NEW verdict, EndFull(r) \/ Interrupt(r, verdict) PROVE Clocked'
    BY <2>6 DEF EndFull, Interrupt
  <2>7. ASSUME NEW r \in Runs, Restart(r) PROVE Clocked'
    BY <2>7 DEF Restart
  <2>8. ASSUME Tick \/ \E i \in Items : Appear(i) \/ Disappear(i) PROVE Clocked'
    BY <2>8 DEF Tick, Appear, Disappear
  <2>9. CASE UNCHANGED vars
    BY <2>9 DEF vars
  <2> QED
    BY <2>1, <2>2, <2>3, <2>4, <2>5, <2>6, <2>7, <2>8, <2>9 DEF Next, Run
<1> QED BY <1>1, <1>2, PTL DEF Spec

\* Where the full runs that have ended stay the same, their starts do, and an item that
\* leaves its stamp alone stays as resolved as it was.
LEMMA SameReference ==
  ASSUME FinishedFull' = FinishedFull, UNCHANGED <<stored, lastSeen>>,
         \A r \in FinishedFull : started'[r] = started[r]
  PROVE  Resolved' = Resolved
BY DEF Resolved

\* "We ignore an in-progress run" (attack_surface.py), and whatever a run observes
\* unresolves: only the end of a full run adds to what the view calls resolved.
THEOREM OpenRunsAreIgnored == Spec => OpenRunsResolveNothing
<1>1. Clocked /\ [Next]_vars
        => [~ (Resolved' \subseteq Resolved) => FinishedFull' # FinishedFull]_vars
  <2> SUFFICES ASSUME Clocked, Next, FinishedFull' = FinishedFull
               PROVE  Resolved' \subseteq Resolved
    OBVIOUS
  <2> USE DEF Clocked, worldVars, itemVars, rowVars, runVars
  <2>1. ASSUME NEW r \in Runs, StartFull(r) \/ Restart(r) PROVE Resolved' = Resolved
    <3>1. r \notin FinishedFull'
      BY <2>1 DEF StartFull, Restart, FinishedFull
    <3>2. \A q \in FinishedFull : started'[q] = started[q]
      BY <2>1, <3>1 DEF StartFull, Restart, FinishedFull
    <3> QED BY <2>1, <3>2, SameReference DEF StartFull, Restart
  <2>2. ASSUME NEW r \in Runs, NEW p \in Phases, StartPhase(r, p) PROVE Resolved' = Resolved
    <3>1. r \notin FinishedFull'
      BY <2>2 DEF StartPhase, FinishedFull
    <3>2. \A q \in FinishedFull : started'[q] = started[q]
      BY <2>2, <3>1 DEF StartPhase, FinishedFull
    <3> QED BY <2>2, <3>2, SameReference DEF StartPhase
  <2>3. ASSUME NEW r \in Runs, NEW i \in Items, LookAt(r, i)
        PROVE  Resolved' \subseteq Resolved
    <3>1. CASE i \in exists
      <4>1. lastSeen' = [lastSeen EXCEPT ![i] = now] /\ stored' = stored \cup {i}
        BY <2>3, <3>1 DEF LookAt, SeenAt
      <4>2. i \notin Resolved'
        BY <2>3, <4>1, SurfaceAssumption DEF LookAt, Resolved, FinishedFull
      <4> QED BY <2>3, <4>1, <4>2 DEF LookAt, Resolved
    <3>2. CASE i \notin exists
      BY <2>3, <3>2, SameReference DEF LookAt
    <3> QED BY <3>1, <3>2
  <2>4. ASSUME NEW r \in Runs, NEW verdict,
               \/ EndPhase(r, verdict) \/ EndFull(r) \/ Interrupt(r, verdict)
               \/ \E p \in Phases : StartStage(r, p)
        PROVE  Resolved' = Resolved
    BY <2>4, SameReference DEF EndPhase, EndFull, Interrupt, StartStage
  <2>5. ASSUME Tick \/ \E i \in Items : Appear(i) \/ Disappear(i) PROVE Resolved' = Resolved
    BY <2>5, SameReference DEF Tick, Appear, Disappear
  <2> QED BY <2>1, <2>2, <2>3, <2>4, <2>5 DEF Next, Run
<1> QED BY <1>1, ClockedHolds, PTL DEF Spec, OpenRunsResolveNothing
=============================================================================
