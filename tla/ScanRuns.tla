------------------------------ MODULE ScanRuns ------------------------------
(***************************************************************************)
(* The life of one program's full scans: the rows of the scan_runs         *)
(* collection and every process that writes them.                          *)
(*                                                                         *)
(*   - the API: trigger_scan (check, save a QUEUED row, enqueue, save      *)
(*     FAILED when the enqueue raised) and cancel_scan_run;                *)
(*   - the scheduler, one sequential process: reap_stale, then plan, then  *)
(*     enqueue, then mark_enqueued (here only the bootstrap full run);     *)
(*   - the worker slots: run_program, run_full_pipeline and the heartbeat  *)
(*     loop around every stage;                                            *)
(*   - time, worker deaths, shutdowns and failing database calls.          *)
(*                                                                         *)
(* The atomic steps are the accesses to MongoDB and to the queue: every    *)
(* await between two of them is a point where another process may run.     *)
(* A save writes the WHOLE document from the worker's copy of the run      *)
(* (ScanRunRepo.save), so the model keeps that copy (mem) beside the row.  *)
(***************************************************************************)
EXTENDS Integers, FiniteSets

CONSTANTS
  Scans,       \* scan ids; each is used by at most one row (bounds the runs)
  Slots,       \* concurrent job slots of the worker fleet
  NStages,     \* number of pipeline stages
  Off,         \* stages whose module is disabled for the program
  Boot,        \* the scheduler's full-run job, which carries no scan id
  None,        \* no job, no run
  Cooloff,     \* CANCEL_COOLOFF_SECONDS, in ticks
  BootRetry,   \* BOOTSTRAP_RETRY_SECONDS, in ticks
  JobTimeout,  \* worker_job_timeout, in ticks
  Stale,       \* scan_run_stale_seconds, in ticks
  ProgramStates, \* the states the program may be put in (bounds SetProgram)
  MaxTries,    \* deliveries of one job before the queue gives it up
  MaxFaults    \* bound on the faults of a behaviour

ASSUME IdsAssumption ==
  /\ Boot \notin Scans
  /\ None \notin Scans
  /\ Boot # None

\* scan_run_stale_seconds is documented as "kept above worker_job_timeout".
ASSUME TimesAssumption ==
  /\ NStages \in Nat \ {0}
  /\ Off \subseteq 1..NStages
  /\ Cooloff \in Nat
  /\ BootRetry \in Nat
  /\ JobTimeout \in Nat
  /\ Stale \in Nat
  /\ JobTimeout < Stale
  /\ Cooloff <= Stale
  /\ ProgramStates \subseteq {"ready", "paused", "unauthorized"}
  /\ MaxTries \in Nat
  /\ MaxFaults \in Nat

VARIABLES
  \* the scan_runs rows
  status,       \* status[s], "absent" when there is no row
  stages,       \* stages[s][k], the stepper stored in the row
  cancel,       \* cancel[s] = cancel_requested
  age,          \* ticks since started_at (created_at before the start) while
                \* the row is active, since finished_at once it is cancelled,
                \* else 0; saturates
  \* the API
  trig,         \* trig[s]: progress of the trigger request that creates s
  cancelling,   \* runs whose cancel request passed its status check
  asked,        \* history: a stop of s was recorded by request_cancel
  \* the queue
  queue,        \* jobs waiting for a worker
  tries,        \* deliveries of each job so far
  \* the worker slots
  pc,           \* where the slot is
  job,          \* the job it holds
  run,          \* the scan id it runs
  mem,          \* its in-memory copy of the run's stages
  at,           \* the stage the loop is at
  elapsed,      \* ticks since the job started
  \* the scheduler
  sched,        \* where its tick is
  reaping,      \* stale rows the reaper read and has not written back yet
  snap,         \* the stages of those rows as they were read
  sinceBoot,    \* ticks since the bootstrap job was last marked; saturates
  \* the program
  bootstrapped, \* initial_scan_completed_at is set
  program,      \* "ready", "paused" or "unauthorized"
  faults        \* faults so far

rowVars   == <<status, stages, cancel, age>>
apiVars   == <<trig, cancelling, asked>>
queueVars == <<queue, tries>>
slotVars  == <<pc, job, run, mem, at, elapsed>>
schedVars == <<sched, reaping, snap, sinceBoot>>
progVars  == <<bootstrapped, program>>
vars == <<status, stages, cancel, age, trig, cancelling, asked, queue, tries,
          pc, job, run, mem, at, elapsed, sched, reaping, snap, sinceBoot,
          bootstrapped, program, faults>>

Jobs   == Scans \cup {Boot}
Active == {"queued", "running"}
Closed == {"success", "failed", "cancelled"}
StageStatus == {"none", "queued", "running", "success", "failed", "skipped",
                "cancelled"}
Outcomes  == {"success", "failed", "skipped"}
Stage     == 1..NStages
AllQueued == [k \in Stage |-> "queued"]
NoStages  == [k \in Stage |-> "none"]
MaxAge    == Stale + 1

Working(w) == pc[w] # "idle"

\* A fault of the environment: a death, a shutdown, a lost acknowledgement, a
\* database call that raises.  MaxFaults bounds them.
Fault == faults < MaxFaults /\ faults' = faults + 1

-----------------------------------------------------------------------------
(* What the code asks of the rows.                                         *)

\* find_active_full: some full run is in flight and younger than stale_seconds.
FindActiveFull == \E s \in Scans : status[s] \in Active /\ age[s] < Stale

\* recent_cancelled_full: some full run was stopped within the cool-off.
RecentCancelledFull ==
  \E s \in Scans : status[s] = "cancelled" /\ age[s] <= Cooloff

\* (SaveKeepsStart is the variant that never rewrites started_at.)
\* save: the whole document, so cancel_requested becomes the writer's FALSE.
SaveKeepsStart(s, st, stg, a) ==
  /\ status' = [status EXCEPT ![s] = st]
  /\ stages' = [stages EXCEPT ![s] = stg]
  /\ cancel' = [cancel EXCEPT ![s] = FALSE]
  /\ age'    = age
Save(s, st, stg, a) ==
  /\ status' = [status EXCEPT ![s] = st]
  /\ stages' = [stages EXCEPT ![s] = stg]
  /\ cancel' = [cancel EXCEPT ![s] = FALSE]
  /\ age'    = [age EXCEPT ![s] = a]

-----------------------------------------------------------------------------
(* The API: trigger_scan.                                                  *)

TriggerCheck(s) ==
  /\ status[s] = "absent" /\ trig[s] = "none"
  /\ program # "unauthorized"
  /\ ~FindActiveFull
  /\ trig' = [trig EXCEPT ![s] = "checked"]
  /\ UNCHANGED <<rowVars, cancelling, asked, queueVars, slotVars, schedVars,
                 progVars, faults>>

TriggerSave(s) ==
  /\ trig[s] = "checked"
  /\ Save(s, "queued", AllQueued, 0)
  /\ trig' = [trig EXCEPT ![s] = "saved"]
  /\ UNCHANGED <<cancelling, asked, queueVars, slotVars, schedVars, progVars,
                 faults>>

TriggerEnqueue(s) ==
  /\ trig[s] = "saved"
  /\ queue' = queue \cup {s}
  /\ trig' = [trig EXCEPT ![s] = "done"]
  /\ UNCHANGED <<rowVars, cancelling, asked, tries, slotVars, schedVars,
                 progVars, faults>>

\* enqueue_job raises; the queue may nevertheless have taken the job.
TriggerEnqueueRaises(s) ==
  /\ trig[s] = "saved"
  /\ Fault
  /\ queue' \in {queue, queue \cup {s}}
  /\ trig' = [trig EXCEPT ![s] = "failing"]
  /\ UNCHANGED <<rowVars, cancelling, asked, tries, slotVars, schedVars,
                 progVars>>

\* The row is replaced by a fresh FAILED one, which has no stages.
TriggerFail(s) ==
  /\ trig[s] = "failing"
  /\ Save(s, "failed", NoStages, 0)
  /\ trig' = [trig EXCEPT ![s] = "done"]
  /\ UNCHANGED <<cancelling, asked, queueVars, slotVars, schedVars, progVars,
                 faults>>

\* The API process dies inside the request.
TriggerDies(s) ==
  /\ trig[s] \in {"checked", "saved", "failing"}
  /\ Fault
  /\ trig' = [trig EXCEPT ![s] = "done"]
  /\ UNCHANGED <<rowVars, cancelling, asked, queueVars, slotVars, schedVars,
                 progVars>>

(* The API: cancel_scan_run reads the row, then request_cancel updates it   *)
(* under a filter on its status.                                           *)

CancelCheck(s) ==
  /\ status[s] \in Active
  /\ cancelling' = cancelling \cup {s}
  /\ UNCHANGED <<rowVars, trig, asked, queueVars, slotVars, schedVars,
                 progVars, faults>>

CancellableAny(s) == s \in Scans
Cancellable(s) == status[s] \in Active

RequestCancel(s) ==
  /\ s \in cancelling
  /\ cancelling' = cancelling \ {s}
  /\ IF Cancellable(s)
       THEN /\ cancel' = [cancel EXCEPT ![s] = TRUE]
            /\ asked'  = [asked EXCEPT ![s] = TRUE]
       ELSE UNCHANGED <<cancel, asked>>
  /\ UNCHANGED <<status, stages, age, trig, queueVars, slotVars, schedVars,
                 progVars, faults>>

\* set_monitoring, and the loss or renewal of the current authorization (a
\* deleted program has none).
SetProgram(p) ==
  /\ program # p
  /\ program' = p
  /\ UNCHANGED <<rowVars, apiVars, queueVars, slotVars, schedVars,
                 bootstrapped, faults>>

-----------------------------------------------------------------------------
(* A worker slot.                                                          *)

\* run_program's gates for a job; only the API's jobs are forced.
GateOpen(j) == program # "unauthorized" /\ (j = Boot => program # "paused")

\* A mutant: the bootstrap run takes over a row it finds open.
IdsForOpen(j) == IF j = Boot THEN {s \in Scans : status[s] \notin Closed} ELSE {j}

\* The scan ids a delivery of j may use: the row the API made, or a fresh id.
IdsFor(j) ==
  IF j = Boot THEN {s \in Scans : status[s] = "absent" /\ trig[s] = "none"}
              ELSE {j}

\* run_program's reads up to run_full_pipeline's first save of a RUNNING row.
Claim(w, j, s) ==
  /\ pc[w] = "idle"
  /\ j \in queue
  /\ GateOpen(j)
  /\ s \in IdsFor(j)
  /\ queue' = queue \ {j}
  /\ tries' = [tries EXCEPT ![j] = @ + 1]
  /\ Save(s, "running", AllQueued, 0)
  /\ pc'  = [pc EXCEPT ![w] = "check"]
  /\ job' = [job EXCEPT ![w] = j]
  /\ run' = [run EXCEPT ![w] = s]
  /\ mem' = [mem EXCEPT ![w] = AllQueued]
  /\ at'  = [at EXCEPT ![w] = 1]
  /\ elapsed' = [elapsed EXCEPT ![w] = 0]
  /\ UNCHANGED <<apiVars, schedVars, progVars, faults>>

\* A gate refuses (paused, or AuthorizationRequired): the job is over, and a
\* QUEUED row of the API stays as it is.
ClaimRefused(w, j) ==
  /\ pc[w] = "idle"
  /\ j \in queue
  /\ ~GateOpen(j)
  /\ queue' = queue \ {j}
  /\ tries' = [tries EXCEPT ![j] = 0]
  /\ UNCHANGED <<rowVars, apiVars, slotVars, schedVars, progVars, faults>>

\* The slot saves its copy of the run, with stage statuses stg, and moves on.
Record(w, st, stg, where) ==
  /\ Save(run[w], st, stg, IF st = "running" THEN elapsed[w] ELSE 0)
  /\ mem' = [mem EXCEPT ![w] = stg]
  /\ pc'  = [pc EXCEPT ![w] = where]
  /\ UNCHANGED <<job, run, elapsed, apiVars, queueVars, schedVars, progVars>>

\* Where the loop goes after stage at[w]: the next stage, or out.
AfterStageOff(w) == IF at[w] > NStages THEN "close" ELSE "check"
AfterStage(w) == IF at[w] = NStages THEN "close" ELSE "check"

\* _cancel_requested, before a stage ("check") and on a heartbeat ("stage").
\* A read that raises answers "no".
AnswerOnErrorStop == TRUE
AnswerOnError == FALSE

PollStop(w) ==
  /\ pc[w] \in {"check", "stage"}
  /\ \E stop \in BOOLEAN :
       /\ \/ stop = cancel[run[w]] /\ UNCHANGED faults
          \/ stop = AnswerOnError /\ Fault
       /\ pc' = [pc EXCEPT ![w] = CASE stop        -> "finalise"
                                    [] @ = "check" -> "launch"
                                    [] OTHER       -> "beat"]
  /\ UNCHANGED <<rowVars, apiVars, queueVars, job, run, mem, at, elapsed,
                 schedVars, progVars>>

\* A stage whose module is off is recorded as skipped.
SkipStage(w) ==
  /\ pc[w] = "launch"
  /\ at[w] \in Off
  /\ Record(w, "running", [mem[w] EXCEPT ![at[w]] = "skipped"], AfterStage(w))
  /\ at' = [at EXCEPT ![w] = @ + 1]
  /\ UNCHANGED faults

StartStage(w) ==
  /\ pc[w] = "launch"
  /\ at[w] \notin Off
  /\ Record(w, "running", [mem[w] EXCEPT ![at[w]] = "running"], "stage")
  /\ UNCHANGED <<at, faults>>

\* The heartbeat's save, after a poll that saw no stop.
Beat(w) ==
  /\ pc[w] = "beat"
  /\ Record(w, "running", mem[w], "stage")
  /\ UNCHANGED <<at, faults>>

\* The stage returned, failed or ran out of its budget; or the heartbeat's own
\* save raised, which the loop records as a failure of the stage.
EndedForgets(stg, k, outcome) ==
  IF outcome = "failed" THEN stg ELSE [stg EXCEPT ![k] = outcome]
Ended(stg, k, outcome) == [stg EXCEPT ![k] = outcome]

EndStage(w, outcome) ==
  /\ \/ pc[w] = "stage" /\ UNCHANGED faults
     \/ pc[w] = "beat" /\ outcome = "failed" /\ Fault
  /\ Record(w, "running", Ended(mem[w], at[w], outcome), AfterStage(w))
  /\ at' = [at EXCEPT ![w] = @ + 1]

\* _finalise_cancelled: the stage in flight and all the pending ones.
StopStagesPending(stg) ==
  [k \in Stage |-> IF stg[k] = "queued" THEN "cancelled" ELSE stg[k]]
StopStages(stg) ==
  [k \in Stage |-> IF stg[k] \in {"queued", "running"} THEN "cancelled"
                                                       ELSE stg[k]]

FinaliseAndGoOn(w) ==
  /\ pc[w] = "finalise"
  /\ Record(w, "cancelled", StopStages(mem[w]), AfterStage(w))
  /\ at' = [at EXCEPT ![w] = @ + 1]
  /\ UNCHANGED faults
FinaliseCancelled(w) ==
  /\ pc[w] = "finalise"
  /\ Record(w, "cancelled", StopStages(mem[w]), "mark")
  /\ UNCHANGED <<at, faults>>

\* The loop is over: FAILED if some stage failed, else SUCCESS.
VerdictAlways(stg) == IF stg = AllQueued THEN "failed" ELSE "success"
Verdict(stg) == IF \E k \in Stage : stg[k] = "failed" THEN "failed" ELSE "success"

CloseRun(w) ==
  /\ pc[w] = "close"
  /\ Record(w, Verdict(mem[w]), mem[w], "mark")
  /\ UNCHANGED <<at, faults>>

\* run_program marks the first scan completed, whatever the run's outcome.
MarkInitial(w) ==
  /\ pc[w] = "mark"
  /\ bootstrapped' = TRUE
  /\ pc' = [pc EXCEPT ![w] = "ack"]
  /\ UNCHANGED <<rowVars, apiVars, queueVars, job, run, mem, at, elapsed,
                 schedVars, program, faults>>

FreeSlot(w) ==
  /\ pc'  = [pc EXCEPT ![w] = "idle"]
  /\ job' = [job EXCEPT ![w] = None]
  /\ run' = [run EXCEPT ![w] = None]
  /\ mem' = [mem EXCEPT ![w] = NoStages]
  /\ at'  = [at EXCEPT ![w] = 1]
  /\ elapsed' = [elapsed EXCEPT ![w] = 0]

\* The queue forgets the job, or delivers it again if it may.
Forget(w) == queue' = queue /\ tries' = [tries EXCEPT ![job[w]] = 0]
Redeliver(w) ==
  IF tries[job[w]] < MaxTries THEN queue' = queue \cup {job[w]} /\ UNCHANGED tries
                              ELSE Forget(w)

Ack(w) ==
  /\ pc[w] = "ack"
  /\ FreeSlot(w)
  /\ Forget(w)
  /\ UNCHANGED <<rowVars, apiVars, schedVars, progVars, faults>>

\* The CancelledError of a killed job: persisted only inside a stage.
InterruptedAsStop(w) ==
  IF pc[w] \in {"stage", "beat"} THEN Save(run[w], "cancelled", mem[w], 0)
                                 ELSE UNCHANGED rowVars
Interrupted(w) ==
  IF pc[w] \in {"stage", "beat"}
    THEN Save(run[w], "failed", [mem[w] EXCEPT ![at[w]] = "failed"], 0)
    ELSE UNCHANGED rowVars

\* The job reached worker_job_timeout.
TimeOut(w) ==
  /\ Working(w)
  /\ elapsed[w] = JobTimeout
  /\ Interrupted(w)
  /\ FreeSlot(w)
  /\ Forget(w)
  /\ UNCHANGED <<apiVars, schedVars, progVars, faults>>

\* The worker is shut down in an orderly way; its jobs run again.
ShutDown(w) ==
  /\ Working(w)
  /\ Fault
  /\ Interrupted(w)
  /\ FreeSlot(w)
  /\ Redeliver(w)
  /\ UNCHANGED <<apiVars, schedVars, progVars>>

\* The worker process dies (delivered again), or a save raises (not).
Crash(w) ==
  /\ Working(w)
  /\ Fault
  /\ FreeSlot(w)
  /\ Redeliver(w) \/ Forget(w)
  /\ UNCHANGED <<rowVars, apiVars, schedVars, progVars>>

-----------------------------------------------------------------------------
(* The scheduler's run_once.                                               *)

\* reap_stale reads the active rows and keeps those past the cutoff.
ReapableRunning(s) == status[s] = "running" /\ age[s] > Stale
Reapable(s) == status[s] \in Active /\ age[s] > Stale

ReapRead ==
  /\ sched = "idle"
  /\ \E s \in Scans : Reapable(s)
  /\ sched' = "reaping"
  /\ reaping' = {s \in Scans : Reapable(s)}
  /\ snap' = [s \in Scans |-> IF s \in reaping' THEN stages[s] ELSE NoStages]
  /\ UNCHANGED <<rowVars, apiVars, queueVars, slotVars, sinceBoot, progVars,
                 faults>>

\* The stage in flight failed with the run, the ones that never started are
\* skipped: computed from the rows as they were read.
OrphanStages(stg) ==
  [k \in Stage |-> CASE stg[k] = "running" -> "failed"
                     [] stg[k] = "queued"  -> "skipped"
                     [] OTHER -> stg[k]]

ReapWrite(s) ==
  /\ sched = "reaping"
  /\ s \in reaping
  /\ reaping' = reaping \ {s}
  /\ snap'   = [snap EXCEPT ![s] = NoStages]
  /\ status' = [status EXCEPT ![s] = "failed"]
  /\ stages' = [stages EXCEPT ![s] = OrphanStages(snap[s])]
  /\ age'    = [age EXCEPT ![s] = 0]
  /\ UNCHANGED <<cancel, apiVars, queueVars, slotVars, sched, sinceBoot,
                 progVars, faults>>

\* plan, for the bootstrap job of this program: after the reaper, or at once
\* when the reaper had nothing to do.
Plan ==
  /\ \/ sched = "reaping" /\ reaping = {}
     \/ sched = "idle" /\ \A s \in Scans : ~Reapable(s)
  /\ sched' = IF /\ program = "ready"
                 /\ ~FindActiveFull
                 /\ ~RecentCancelledFull
                 /\ ~bootstrapped
                 /\ sinceBoot >= BootRetry
                THEN "enqueue" ELSE "idle"
  /\ UNCHANGED <<rowVars, apiVars, queueVars, slotVars, reaping, snap,
                 sinceBoot, progVars, faults>>

\* _job_id: the queue ignores a job it already holds, waiting or running.
Held(j) == j \in queue \/ \E w \in Slots : job[w] = j

EnqueueBoot ==
  /\ sched = "enqueue"
  /\ sched' = "mark"
  /\ queue' = IF Held(Boot) THEN queue ELSE queue \cup {Boot}
  /\ UNCHANGED <<rowVars, apiVars, tries, slotVars, reaping, snap, sinceBoot,
                 progVars, faults>>

MarkEnqueued ==
  /\ sched = "mark"
  /\ sched' = "idle"
  /\ sinceBoot' = 0
  /\ UNCHANGED <<rowVars, apiVars, queueVars, slotVars, reaping, snap,
                 progVars, faults>>

\* The tick raises, or the scheduler restarts: the next tick starts afresh.
TickFails ==
  /\ sched # "idle"
  /\ Fault
  /\ sched' = "idle"
  /\ reaping' = {}
  /\ snap' = [s \in Scans |-> NoStages]
  /\ UNCHANGED <<rowVars, apiVars, queueVars, slotVars, sinceBoot, progVars>>

\* The ages that still matter saturate just past the last threshold.
AgeBound(s) ==
  CASE status[s] \in Active      -> MaxAge
    [] status[s] = "cancelled"   -> Cooloff + 1
    [] OTHER                     -> 0

\* A tick stands for half an hour or more: no trigger request and no scheduler
\* tick lasts that long, and no job outlives its timeout.
TimePasses ==
  /\ \A w \in Slots : Working(w) => elapsed[w] < JobTimeout
  /\ \A s \in Scans : trig[s] \in {"none", "done"}
  /\ sched = "idle"
  /\ age' = [s \in Scans |-> IF age[s] < AgeBound(s) THEN age[s] + 1 ELSE age[s]]
  /\ elapsed' = [w \in Slots |-> IF Working(w) THEN elapsed[w] + 1 ELSE 0]
  /\ sinceBoot' = IF sinceBoot < BootRetry THEN sinceBoot + 1 ELSE sinceBoot
  /\ UNCHANGED <<status, stages, cancel, apiVars, queueVars, pc, job, run, mem,
                 at, sched, reaping, snap, progVars, faults>>

-----------------------------------------------------------------------------
Init ==
  /\ status = [s \in Scans |-> "absent"]
  /\ stages = [s \in Scans |-> NoStages]
  /\ cancel = [s \in Scans |-> FALSE]
  /\ age    = [s \in Scans |-> 0]
  /\ trig   = [s \in Scans |-> "none"]
  /\ cancelling = {}
  /\ asked  = [s \in Scans |-> FALSE]
  /\ queue  = {}
  /\ tries  = [j \in Jobs |-> 0]
  /\ pc     = [w \in Slots |-> "idle"]
  /\ job    = [w \in Slots |-> None]
  /\ run    = [w \in Slots |-> None]
  /\ mem    = [w \in Slots |-> NoStages]
  /\ at     = [w \in Slots |-> 1]
  /\ elapsed = [w \in Slots |-> 0]
  /\ sched  = "idle"
  /\ reaping = {}
  /\ snap   = [s \in Scans |-> NoStages]
  /\ sinceBoot = BootRetry
  /\ bootstrapped = FALSE
  /\ program = "ready"
  /\ faults = 0

Trigger(s) ==
  \/ TriggerCheck(s) \/ TriggerSave(s) \/ TriggerEnqueue(s)
  \/ TriggerEnqueueRaises(s) \/ TriggerFail(s) \/ TriggerDies(s)

Cancel(s) == CancelCheck(s) \/ RequestCancel(s)

\* The steps of the pipeline loop itself.
Pipeline(w) ==
  \/ PollStop(w) \/ SkipStage(w) \/ StartStage(w) \/ Beat(w)
  \/ \E outcome \in Outcomes : EndStage(w, outcome)
  \/ FinaliseCancelled(w) \/ CloseRun(w) \/ MarkInitial(w)

Worker(w) ==
  \/ \E j \in Jobs : ClaimRefused(w, j) \/ \E s \in Scans : Claim(w, j, s)
  \/ Pipeline(w)
  \/ Ack(w) \/ TimeOut(w) \/ ShutDown(w) \/ Crash(w)

Scheduler ==
  \/ ReapRead \/ (\E s \in Scans : ReapWrite(s)) \/ Plan
  \/ EnqueueBoot \/ MarkEnqueued \/ TickFails

Next ==
  \/ \E s \in Scans : Trigger(s) \/ Cancel(s)
  \/ \E p \in ProgramStates : SetProgram(p)
  \/ \E w \in Slots : Worker(w)
  \/ Scheduler
  \/ TimePasses

Spec == Init /\ [][Next]_vars

\* Time passes however busy the processes are (no infinitely many steps within
\* one tick), arq enforces job_timeout, a request of the API ends, and the
\* scheduler loop keeps ticking (run_forever swallows what a tick raises).
\* Nothing is assumed of the stages or of the queue's deliveries.
Fairness ==
  /\ \A s \in Scans :
       /\ WF_vars(TriggerSave(s) \/ TriggerEnqueue(s) \/ TriggerFail(s))
       /\ WF_vars(RequestCancel(s))
  /\ SF_vars(TimePasses)
  /\ \A w \in Slots : WF_vars(TimeOut(w))
  /\ WF_vars(Scheduler)

FairSpec == Spec /\ Fairness
-----------------------------------------------------------------------------
TypeOK ==
  /\ status \in [Scans -> {"absent"} \cup Active \cup Closed]
  /\ stages \in [Scans -> [Stage -> StageStatus]]
  /\ cancel \in [Scans -> BOOLEAN]
  /\ age \in [Scans -> 0..MaxAge]
  /\ trig \in [Scans -> {"none", "checked", "saved", "failing", "done"}]
  /\ cancelling \in SUBSET Scans
  /\ asked \in [Scans -> BOOLEAN]
  /\ queue \in SUBSET Jobs
  /\ tries \in [Jobs -> Nat]
  /\ pc \in [Slots -> {"idle", "check", "launch", "stage", "beat", "finalise",
                       "close", "mark", "ack"}]
  /\ job \in [Slots -> Jobs \cup {None}]
  /\ run \in [Slots -> Scans \cup {None}]
  /\ mem \in [Slots -> [Stage -> StageStatus]]
  /\ at \in [Slots -> 1..(NStages + 1)]
  /\ elapsed \in [Slots -> 0..JobTimeout]
  /\ sched \in {"idle", "reaping", "enqueue", "mark"}
  /\ reaping \in SUBSET Scans
  /\ snap \in [Scans -> [Stage -> StageStatus]]
  /\ sinceBoot \in 0..BootRetry
  /\ bootstrapped \in BOOLEAN
  /\ program \in {"ready", "paused", "unauthorized"}
  /\ faults \in 0..MaxFaults

(* Safety.                                                                 *)

\* No job and no scan id is ever in the hands of two slots: the queue's
\* job-id deduplication (arq_client.make_enqueuer) and the fresh ids of
\* run_full_pipeline hold through redeliveries, restarts and re-arming.
NoDoubleExecution ==
  \A v, w \in Slots : v # w /\ Working(v) /\ Working(w)
                        => job[v] # job[w] /\ run[v] # run[w]

\* A closed run shows no running stage, whoever closed it: the loop, a stop, a
\* killed job, the reaper writing what it read earlier, or the API's failure.
ClosedRunIsStill ==
  \A s \in Scans : status[s] \in Closed =>
    \A k \in Stage : stages[s][k] # "running"

\* A SUCCESS row, the only one gone-detection may count as coverage, has no
\* failed, stopped or unfinished stage.
SuccessMeansAllStagesEnded ==
  \A s \in Scans : status[s] = "success" =>
    \A k \in Stage : stages[s][k] \in {"success", "skipped"}

\* The stepper of a run in flight reads in order: behind the first stage that
\* has not ended, everything is still queued.
StepperInOrder ==
  \A s \in Scans : status[s] \in Active =>
    \A i, k \in Stage :
      i < k /\ stages[s][i] \in {"queued", "running"} => stages[s][k] = "queued"

\* Only a user's recorded stop makes a run CANCELLED; a failing database read
\* never does (_cancel_requested answers "no").
CancelledOnlyOnRequest ==
  \A s \in Scans : status[s] = "cancelled" => asked[s]

\* While a row says SUCCESS or CANCELLED no slot executes a stage of it: the
\* verdict is written after the work, also when the job is delivered again.
VerdictMeansIdle ==
  \A w \in Slots :
    Working(w) /\ status[run[w]] \in {"success", "cancelled"}
      => pc[w] \in {"mark", "ack"}

\* The row of a run that a worker holds is never old enough for find_active_full
\* to overlook it or for the reaper to take it: started_at is rewritten when the
\* worker takes the row, and worker_job_timeout < scan_run_stale_seconds.
LiveRunIsNeverStale ==
  \A w \in Slots :
    Working(w) /\ status[run[w]] \in Active => age[run[w]] < Stale

\* A stop that arrives after its run closed changes nothing, although the API
\* looked at the status before (request_cancel filters on it again).
LateStopChangesNothing ==
  [][\A s \in Scans : status[s] \in Closed /\ ~cancel[s] => ~cancel'[s]]_vars

(* The rows implement RunBoard: a run is held from its worker's first save  *)
(* to its verdict.                                                         *)
HeldRuns == {run[w] : w \in {v \in Slots : pc[v] \notin {"idle", "mark", "ack"}}}

Board == INSTANCE RunBoard WITH board <- status, held <- HeldRuns

\* Only the worker that holds a run shows it running or gives its verdict; the
\* reaper and the API can only fail it (the abstract specification RunBoard).
ImplementsRunBoard == Board!BoardSpec

(* Liveness.                                                               *)

\* A run in flight is closed in the end, whatever dies: "scanning is never
\* blocked forever".
OpenRunEventuallyCloses ==
  \A s \in Scans : status[s] \in Active ~> status[s] \in Closed
=============================================================================
