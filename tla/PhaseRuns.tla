----------------------------- MODULE PhaseRuns -----------------------------
(***************************************************************************)
(* The steady state of the engine: the scheduler plans the phases that are *)
(* due (taskqueue/scheduler.py, cadence.py), the queue holds one job per   *)
(* program, phase and set of targets (jobs.py, arq_client.py), and the     *)
(* workers run them (worker.py, pipelines/dispatch.py) and enqueue the     *)
(* phases that follow on what they found (cascade.py).                     *)
(*                                                                         *)
(* The atomic steps are the accesses to MongoDB and to the queue.  The     *)
(* unit of time is the heartbeat of a phase (45 s).                        *)
(***************************************************************************)
EXTENDS Integers, FiniteSets

CONSTANTS
  NPrograms, TenantOf,   \* programs 1..NPrograms, in the order they are listed
  NPhases, Interval,     \* phases 1..NPhases, in the order of the cadence
  FollowOn,              \* CASCADE: the phases each of them triggers
  ProgramWide,           \* those that are triggered without targets (notify)
  Hosts,                 \* sets of targets a cascade may carry
  Slots,                 \* job slots of the worker fleet
  Cap,                   \* scheduler_max_jobs_per_tenant
  Fresh,                 \* fresh_seconds of the duplicate guard: 3 heartbeats
  KeepResult,            \* how long the queue refuses the id of a finished job
  MaxTries,              \* deliveries of a job before the queue gives it up
  MaxToggles,            \* bound on what the user does
  FaultKinds,            \* "crash", "shutdown", "timeout", "scheduler", "enqueue"
  MaxFaults              \* bound on the faults of a behaviour

Programs == 1..NPrograms
Phases   == 1..NPhases
Pairs    == Programs \X Phases

ASSUME PlanAssumption ==
  /\ NPrograms \in Nat
  /\ NPhases \in Nat
  /\ Interval \in [Phases -> Nat \ {0}]
  /\ Cap \in Nat
  /\ DOMAIN TenantOf = Programs

ASSUME CascadeAssumption ==
  /\ FollowOn \in [Phases -> SUBSET Phases]
  /\ ProgramWide \subseteq Phases
  /\ {} \notin Hosts

ASSUME TimeAssumption ==
  /\ Fresh \in Nat \ {0, 1}
  /\ KeepResult \in Nat
  /\ MaxTries \in Nat \ {0}
  /\ MaxToggles \in Nat
  /\ MaxFaults \in Nat

\* dedup_key: a whole-program job carries no targets.
Whole(pr) == [pair |-> pr, hosts |-> {}]
Jobs == [pair : Pairs, hosts : Hosts \cup {{}}]
Nothing == [pair |-> <<0, 0>>, hosts |-> {}]
IsWhole(j) == j.hosts = {}

\* last_run_at is None.
Never == -1

VARIABLES
  on,        \* pairs whose program may be scanned and whose module is enabled
  full,      \* programs with a full run in flight, or stopped a moment ago
  last,      \* ticks since mark_enqueued of each pair; saturates at Interval
  \* the scheduler, one sequential process
  sched,     \* "idle", "enqueue" or "mark"
  todo,      \* planned pairs that are not enqueued yet
  urgent,    \* those planned as never run
  marking,   \* the pair it has enqueued and not marked yet
  \* the queue
  queue,     \* jobs waiting
  kept,      \* kept[j]: ticks for which the id of finished job j is refused
  tries,     \* deliveries of each job
  \* the worker slots
  pc,        \* "idle", "gate", "check", "save", "run", "close", "cascade", "ack"
  job,       \* the job in the slot
  beat,      \* ticks since its row was saved
  found,     \* what the phase discovered: the jobs that follow
  \* what a dead execution leaves behind
  orphan,    \* ticks since the last save of its RUNNING row; Fresh when none
  strays,    \* routes that outlive their cancelled job
  toggles, faults

planVars  == <<last, sched, todo, urgent, marking>>
queueVars == <<queue, kept, tries>>
slotVars  == <<pc, job, beat, found>>
deadVars  == <<orphan, strays>>
userVars  == <<on, full, toggles>>
vars == <<on, full, last, sched, todo, urgent, marking, queue, kept, tries,
          pc, job, beat, found, orphan, strays, toggles, faults>>

Fault(kind) == kind \in FaultKinds /\ faults < MaxFaults /\ faults' = faults + 1

InFlight(j) == \E w \in Slots : job[w] = j
Running(w, pr) == pc[w] = "run" /\ job[w] = Whole(pr)

-----------------------------------------------------------------------------
(* The scheduler *)

\* is_due, for a pair whose program and module may run.
Due(pr) == last[pr] = Never \/ last[pr] >= Interval[pr[2]]
Candidates == {pr \in on : pr[1] \notin full /\ Due(pr)}

\* Programs in the order of the listing, phases in the order of the cadence.
Before(p, q) == p[1] < q[1] \/ (p[1] = q[1] /\ p[2] < q[2])

\* A mutant: a job counts itself against the cap.
CountedSelf(pr) ==
  {q \in Candidates : (Before(q, pr) \/ q = pr) /\ TenantOf[q[1]] = TenantOf[pr[1]]}

\* The jobs already planned for the tenant of a pair when its turn comes.
Counted(pr) == {q \in Candidates : Before(q, pr) /\ TenantOf[q[1]] = TenantOf[pr[1]]}
Planned == {pr \in Candidates : Cardinality(Counted(pr)) < Cap}

Plan ==
  /\ sched = "idle"
  /\ Planned # {}
  /\ sched' = "enqueue"
  /\ todo' = Planned
  /\ urgent' = {pr \in Planned : last[pr] = Never}
  /\ UNCHANGED <<userVars, last, marking, queueVars, slotVars, deadVars, faults>>

\* A mutant: a job that is running may be enqueued again.
HeldWaiting(j) == j \in queue \/ kept[j] > 0

\* _job_id: the queue ignores a job it holds, waiting or running, and one whose
\* result it still keeps.
Held(j) == j \in queue \/ InFlight(j) \/ kept[j] > 0
Enqueued(js) == queue \cup {j \in js : ~ Held(j)}

\* Sorted by priority: what never ran goes first.
Enqueue(pr) ==
  /\ sched = "enqueue"
  /\ pr \in todo
  /\ urgent \cap todo # {} => pr \in urgent
  /\ queue' = Enqueued({Whole(pr)})
  /\ sched' = "mark"
  /\ marking' = pr
  /\ todo' = todo \ {pr}
  /\ UNCHANGED <<userVars, last, urgent, kept, tries, slotVars, deadVars, faults>>

\* mark_enqueued
Mark ==
  /\ sched = "mark"
  /\ last' = [last EXCEPT ![marking] = 0]
  /\ marking' = <<0, 0>>
  /\ sched' = IF todo = {} THEN "idle" ELSE "enqueue"
  /\ urgent' = IF todo = {} THEN {} ELSE urgent
  /\ UNCHANGED <<userVars, todo, queueVars, slotVars, deadVars, faults>>

\* A call raises and run_forever gives the tick up, or the process restarts.
TickFails ==
  /\ sched # "idle"
  /\ Fault("scheduler")
  /\ sched' = "idle"
  /\ todo' = {}
  /\ urgent' = {}
  /\ marking' = <<0, 0>>
  /\ UNCHANGED <<userVars, last, queueVars, slotVars, deadVars>>

Scheduler == Plan \/ (\E pr \in Pairs : Enqueue(pr)) \/ Mark

-----------------------------------------------------------------------------
(* A worker slot *)

Take(w, j) ==
  /\ pc[w] = "idle"
  /\ j \in queue
  /\ queue' = queue \ {j}
  /\ tries' = [tries EXCEPT ![j] = @ + 1]
  /\ pc' = [pc EXCEPT ![w] = "gate"]
  /\ job' = [job EXCEPT ![w] = j]
  /\ UNCHANGED <<userVars, planVars, kept, beat, found, deadVars, faults>>

Goto(w, place) ==
  /\ pc' = [pc EXCEPT ![w] = place]
  /\ UNCHANGED <<userVars, planVars, queueVars, job, deadVars, faults>>

\* Paused, not authorised any more, or disabled: the job returns or raises
\* before a row is written.
Gate(w) ==
  /\ pc[w] = "gate"
  /\ Goto(w, IF job[w].pair \in on THEN "check" ELSE "ack")
  /\ UNCHANGED <<beat, found>>

\* active_phase_run: a whole-program row of the pair, RUNNING and saved less
\* than Fresh ago.  A row that is left behind looks the same as a live one.
RowExists(pr) == \E w \in Slots : pc[w] \in {"run", "close"} /\ job[w] = Whole(pr)
ActivePhaseRun(pr) == RowExists(pr) \/ orphan[pr] < Fresh

Check(w) ==
  /\ pc[w] = "check"
  /\ Goto(w, IF IsWhole(job[w]) /\ ActivePhaseRun(job[w].pair) THEN "ack" ELSE "save")
  /\ UNCHANGED <<beat, found>>

\* The RUNNING row is saved and the route starts.
Save(w) ==
  /\ pc[w] = "save"
  /\ Goto(w, "run")
  /\ beat' = [beat EXCEPT ![w] = 0]
  /\ UNCHANGED found

Heartbeat(w) ==
  /\ pc[w] = "run"
  /\ beat[w] > 0
  /\ beat' = [beat EXCEPT ![w] = 0]
  /\ UNCHANGED <<userVars, planVars, queueVars, pc, job, found, deadVars, faults>>

\* cascade_jobs: targets go to the phases that take them; new items trigger the
\* program-wide ones.
FollowOnJobs(j, hosts, isNew) ==
  LET g == j.pair[1]
      f == FollowOn[j.pair[2]]
  IN  {[pair |-> <<g, p>>, hosts |-> hosts] :
         p \in IF hosts = {} THEN {} ELSE f \ ProgramWide}
      \cup {Whole(<<g, p>>) : p \in IF isNew THEN f \cap ProgramWide ELSE {}}

\* The route returned: SKIPPED and FAILED rows have no cascade, SUCCESS ones the
\* jobs that follow on what the phase found.
Return(w) ==
  /\ pc[w] = "run"
  /\ \E hosts \in Hosts \cup {{}}, isNew \in BOOLEAN :
       found' = [found EXCEPT ![w] = FollowOnJobs(job[w], hosts, isNew)]
  /\ Goto(w, "close")
  /\ UNCHANGED beat

\* The final save of the row.
Close(w) ==
  /\ pc[w] = "close"
  /\ Goto(w, IF found[w] = {} THEN "ack" ELSE "cascade")
  /\ beat' = [beat EXCEPT ![w] = 0]
  /\ UNCHANGED found

\* _emit_cascade: one enqueue after the other; the first that raises ends it.
Cascade(w) ==
  /\ pc[w] = "cascade"
  /\ \E j \in found[w] :
       /\ queue' = Enqueued({j})
       /\ found' = [found EXCEPT ![w] = @ \ {j}]
       /\ pc' = [pc EXCEPT ![w] = IF found[w] = {j} THEN "ack" ELSE "cascade"]
  /\ UNCHANGED <<userVars, planVars, kept, tries, job, beat, deadVars, faults>>

CascadeFails(w) ==
  /\ pc[w] = "cascade"
  /\ Fault("enqueue")
  /\ pc' = [pc EXCEPT ![w] = "ack"]
  /\ found' = [found EXCEPT ![w] = {}]
  /\ UNCHANGED <<userVars, planVars, queueVars, job, beat, deadVars>>

FreeSlot(w) ==
  /\ pc' = [pc EXCEPT ![w] = "idle"]
  /\ job' = [job EXCEPT ![w] = Nothing]
  /\ beat' = [beat EXCEPT ![w] = 0]
  /\ found' = [found EXCEPT ![w] = {}]

\* A mutant: the deliveries of the last job with this id count for the next.
ForgetKeepsTries(j) ==
  /\ kept' = [kept EXCEPT ![j] = KeepResult]
  /\ UNCHANGED <<tries, queue>>

\* The queue records the result and refuses the id for a while.
Forget(j) ==
  /\ kept' = [kept EXCEPT ![j] = KeepResult]
  /\ tries' = [tries EXCEPT ![j] = 0]
  /\ queue' = queue

Ack(w) ==
  /\ pc[w] = "ack"
  /\ FreeSlot(w)
  /\ Forget(job[w])
  /\ UNCHANGED <<userVars, planVars, deadVars, faults>>

Redeliver(j) ==
  IF tries[j] < MaxTries THEN queue' = queue \cup {j} /\ UNCHANGED <<kept, tries>>
                         ELSE Forget(j)

\* The RUNNING row of a job that does not close it.
Abandon(w) ==
  orphan' = IF pc[w] \in {"run", "close"} /\ IsWhole(job[w])
              THEN [orphan EXCEPT ![job[w].pair] = beat[w]] ELSE orphan

\* The worker process dies, or is shut down in an orderly way: run_pipeline does
\* not catch the CancelledError, and the job is delivered again.
Die(w) ==
  /\ pc[w] # "idle"
  /\ Fault("crash") \/ Fault("shutdown")
  /\ Abandon(w)
  /\ FreeSlot(w)
  /\ Redeliver(job[w])
  /\ UNCHANGED <<userVars, planVars, strays>>

\* The job reaches worker_job_timeout.  Cancelling run_pipeline does not cancel
\* the task of the route it waits for, which goes on.
TimeOut(w) ==
  /\ pc[w] = "run"
  /\ Fault("timeout")
  /\ Abandon(w)
  /\ strays' = IF IsWhole(job[w]) THEN strays \cup {job[w].pair} ELSE strays
  /\ FreeSlot(w)
  /\ Forget(job[w])
  /\ UNCHANGED <<userVars, planVars>>

StrayEnds(pr) ==
  /\ pr \in strays
  /\ strays' = strays \ {pr}
  /\ UNCHANGED <<userVars, planVars, queueVars, slotVars, orphan, faults>>

Worker(w) ==
  \/ \E j \in Jobs : Take(w, j)
  \/ Gate(w) \/ Check(w) \/ Save(w) \/ Heartbeat(w)
  \/ Return(w) \/ Close(w) \/ Cascade(w) \/ Ack(w)

WorkerFaults(w) == CascadeFails(w) \/ Die(w) \/ TimeOut(w)

-----------------------------------------------------------------------------
(* The user, the full runs and time *)

User ==
  /\ toggles < MaxToggles
  /\ toggles' = toggles + 1
  /\ \/ \E pr \in Pairs : on' = IF pr \in on THEN on \ {pr} ELSE on \cup {pr}
     \/ \E g \in Programs : on' = on \ {<<g, p>> : p \in Phases}
  /\ UNCHANGED <<full, planVars, queueVars, slotVars, deadVars, faults>>

StartFull(g) ==
  /\ toggles < MaxToggles
  /\ g \notin full
  /\ toggles' = toggles + 1
  /\ full' = full \cup {g}
  /\ UNCHANGED <<on, planVars, queueVars, slotVars, deadVars, faults>>

EndFull(g) ==
  /\ g \in full
  /\ full' = full \ {g}
  /\ UNCHANGED <<on, toggles, planVars, queueVars, slotVars, deadVars, faults>>

\* One heartbeat of time.  A live route saves its row once in it (Heartbeat), and
\* a tick of the scheduler is much shorter.
Older(age, limit) == IF age < limit THEN age + 1 ELSE age
Tick ==
  /\ sched = "idle"
  /\ \A w \in Slots : pc[w] \in {"run", "close"} => beat[w] = 0
  /\ last' = [pr \in Pairs |-> IF last[pr] = Never THEN Never
                               ELSE Older(last[pr], Interval[pr[2]])]
  /\ kept' = [j \in Jobs |-> IF kept[j] = 0 THEN 0 ELSE kept[j] - 1]
  /\ beat' = [w \in Slots |-> IF pc[w] \in {"run", "close"} THEN beat[w] + 1 ELSE 0]
  /\ orphan' = [pr \in Pairs |-> Older(orphan[pr], Fresh)]
  /\ UNCHANGED <<userVars, sched, todo, urgent, marking, queue, tries, pc, job,
                 found, strays, faults>>

-----------------------------------------------------------------------------

Init ==
  /\ on = Pairs
  /\ full = {}
  /\ last = [pr \in Pairs |-> Never]
  /\ sched = "idle"
  /\ todo = {}
  /\ urgent = {}
  /\ marking = <<0, 0>>
  /\ queue = {}
  /\ kept = [j \in Jobs |-> 0]
  /\ tries = [j \in Jobs |-> 0]
  /\ pc = [w \in Slots |-> "idle"]
  /\ job = [w \in Slots |-> Nothing]
  /\ beat = [w \in Slots |-> 0]
  /\ found = [w \in Slots |-> {}]
  /\ orphan = [pr \in Pairs |-> Fresh]
  /\ strays = {}
  /\ toggles = 0
  /\ faults = 0

Next ==
  \/ Scheduler
  \/ TickFails
  \/ \E w \in Slots : Worker(w) \/ WorkerFaults(w)
  \/ \E pr \in Pairs : StrayEnds(pr)
  \/ User
  \/ \E g \in Programs : StartFull(g) \/ EndFull(g)
  \/ Tick

Spec == Init /\ [][Next]_vars

\* What a started slot does next; a live route also returns one day.
Progress(w) ==
  Gate(w) \/ Check(w) \/ Save(w) \/ Return(w) \/ Close(w) \/ Cascade(w) \/ Ack(w)

\* The scheduler loops, the queue serves its jobs in their order (so a job is not
\* passed over for ever), live slots go on, full runs end and time passes.
FairSpec ==
  /\ Spec
  /\ WF_vars(Scheduler)
  /\ \A j \in Jobs : SF_vars(\E w \in Slots : Take(w, j))
  /\ \A w \in Slots : WF_vars(Progress(w)) /\ WF_vars(Heartbeat(w))
  /\ \A g \in Programs : WF_vars(EndFull(g))
  /\ WF_vars(Tick)

-----------------------------------------------------------------------------
(* Properties *)

\* The variables hold what the code stores in them: among others, no job is
\* delivered more than MaxTries times, and ages saturate at their limits.
TypeOK ==
  /\ on \subseteq Pairs
  /\ full \subseteq Programs
  /\ last \in [Pairs -> Int]
  /\ \A pr \in Pairs : last[pr] \in {Never} \cup (0 .. Interval[pr[2]])
  /\ sched \in {"idle", "enqueue", "mark"}
  /\ todo \subseteq Pairs
  /\ urgent \subseteq Pairs
  /\ marking \in Pairs \cup {<<0, 0>>}
  /\ queue \subseteq Jobs
  /\ kept \in [Jobs -> 0 .. KeepResult]
  /\ tries \in [Jobs -> 0 .. MaxTries]
  /\ pc \in [Slots -> {"idle", "gate", "check", "save", "run", "close", "cascade", "ack"}]
  /\ job \in [Slots -> Jobs \cup {Nothing}]
  /\ beat \in [Slots -> 0 .. 1]
  /\ found \in [Slots -> SUBSET Jobs]
  /\ orphan \in [Pairs -> 0 .. Fresh]
  /\ strays \subseteq Pairs
  /\ toggles \in 0 .. MaxToggles
  /\ faults \in 0 .. MaxFaults

\* "One whole-program run of a phase at a time" (dispatch.py): however cadence,
\* cascades, redeliveries and crashes interleave, at most one execution of a phase
\* over a whole program is under its job.
OnePhaseRun ==
  \A pr \in Pairs : \A w, v \in Slots : Running(w, pr) /\ Running(v, pr) => w = v

\* The same of the work itself: no route that outlives its job is under way beside it.
NoStrayBeside == \A pr \in Pairs : \A w \in Slots : Running(w, pr) => pr \notin strays

\* Why: a job is in one place, the queue or one slot, whoever enqueues it.
Ownership ==
  /\ \A w \in Slots : job[w] \notin queue
  /\ \A w, v \in Slots : w # v /\ job[w] = job[v] => job[w] = Nothing
  /\ \A w \in Slots : pc[w] = "idle" <=> job[w] = Nothing

\* The deliveries of a job are counted while it is queued or in flight.
Deliveries ==
  /\ \A j \in queue : tries[j] < MaxTries
  /\ \A j \in Jobs \ queue : tries[j] = 0 \/ InFlight(j)

\* Only a timeout leaves a route without its job.
StraysTimedOut == "timeout" \notin FaultKinds => strays = {}

PhaseInv == TypeOK /\ Ownership /\ Deliveries /\ StraysTimedOut

\* The engine is continuous: a phase that stays switched on is run again and
\* again, whatever other programs and tenants want, despite crashes and skips.
PhaseRecurs ==
  \A pr \in Pairs :
    <>[](pr \in on) => []<>(\E w \in Slots : Running(w, pr))
=============================================================================
