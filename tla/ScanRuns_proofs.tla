--------------------------- MODULE ScanRuns_proofs ---------------------------
(***************************************************************************)
(* Proofs about ScanRuns, for every set of scan ids and slots, every       *)
(* number of stages and every value of the time constants.                 *)
(***************************************************************************)
EXTENDS ScanRunsInv, TLAPS

-----------------------------------------------------------------------------
(* Types.  A slot inside the loop is at an existing stage: this is what      *)
(* keeps "at" in its type.                                                   *)

TypeInv == TypeOK /\ AtStage

\* The loop never runs past its last stage, whatever happens to the slot.
LEMMA TypeInvInit == Init => TypeInv
<1> SUFFICES ASSUME Init PROVE TypeInv
  OBVIOUS
<1> USE IdsAssumption, TimesAssumption DEF Init
<1>1. 1 \in Stage /\ 1 \in 1..(NStages + 1) /\ 0 \in 0..MaxAge /\ 0 \in 0..JobTimeout
      /\ BootRetry \in 0..BootRetry /\ 0 \in 0..MaxFaults
  BY DEF Stage, MaxAge
<1>2. NoStages \in [Stage -> StageStatus]
  BY DEF NoStages, StageStatus
<1>3. TypeOK
  BY <1>1, <1>2 DEF TypeOK, Jobs
<1>4. AtStage
  BY DEF AtStage
<1> QED BY <1>3, <1>4 DEF TypeInv

LEMMA TriggerType == ASSUME TypeInv, NEW s \in Scans, Trigger(s) PROVE TypeInv'
<1> USE IdsAssumption, TimesAssumption
    DEF TypeInv, TypeOK, AtStage, Active, Closed, StageStatus, Stage, NoStages,
        AllQueued, MaxAge, Jobs, rowVars, apiVars, queueVars, slotVars, schedVars,
        progVars, Save, Fault
<1>1. CASE TriggerCheck(s)
  BY <1>1 DEF TriggerCheck
<1>2. CASE TriggerSave(s)
  BY <1>2 DEF TriggerSave
<1>3. CASE TriggerEnqueue(s)
  BY <1>3 DEF TriggerEnqueue
<1>4. CASE TriggerEnqueueRaises(s)
  BY <1>4 DEF TriggerEnqueueRaises
<1>5. CASE TriggerFail(s)
  BY <1>5 DEF TriggerFail
<1>6. CASE TriggerDies(s)
  BY <1>6 DEF TriggerDies
<1> QED BY <1>1, <1>2, <1>3, <1>4, <1>5, <1>6 DEF Trigger

LEMMA CancelType == ASSUME TypeInv, NEW s \in Scans, Cancel(s) PROVE TypeInv'
<1> USE DEF TypeInv, TypeOK, AtStage, rowVars, apiVars, queueVars, slotVars,
            schedVars, progVars
<1>1. CASE CancelCheck(s)
  BY <1>1 DEF CancelCheck
<1>2. CASE RequestCancel(s)
  BY <1>2 DEF RequestCancel
<1> QED BY <1>1, <1>2 DEF Cancel

\* What Record does to the types, wherever the slot goes next: only "at" is left.
LEMMA RecordType ==
  ASSUME TypeInv, NEW w \in Slots, NEW st \in Active \cup Closed,
         NEW stg \in [Stage -> StageStatus],
         NEW where \in {"check", "stage", "close", "mark"},
         Record(w, st, stg, where),
         at' \in [Slots -> 1..(NStages + 1)], faults' \in 0..MaxFaults
  PROVE  TypeOK'
<1> DEFINE a == IF st = "running" THEN elapsed[w] ELSE 0
<1>1. a \in 0..MaxAge
  BY TimesAssumption DEF TypeInv, TypeOK, MaxAge
<1>2. Save(run[w], st, stg, a)
  BY DEF Record
<1>3. /\ status' \in [Scans -> {"absent"} \cup Active \cup Closed]
      /\ stages' \in [Scans -> [Stage -> StageStatus]]
      /\ cancel' \in [Scans -> BOOLEAN]
      /\ age' \in [Scans -> 0..MaxAge]
  <2> HIDE DEF a
  <2> QED BY <1>1, <1>2 DEF Save, TypeInv, TypeOK
<1>4. /\ mem' \in [Slots -> [Stage -> StageStatus]]
      /\ pc' \in [Slots -> {"idle", "check", "launch", "stage", "beat", "finalise",
                            "close", "mark", "ack"}]
  BY DEF Record, TypeInv, TypeOK
<1> QED BY <1>3, <1>4 DEF Record, TypeInv, TypeOK, apiVars, queueVars, schedVars,
                          progVars

LEMMA PipelineType == ASSUME TypeInv, NEW w \in Slots, Pipeline(w) PROVE TypeInv'
<1> USE IdsAssumption, TimesAssumption DEF TypeInv
<1>t. /\ pc \in [Slots -> {"idle", "check", "launch", "stage", "beat", "finalise",
                            "close", "mark", "ack"}]
      /\ at \in [Slots -> 1..(NStages + 1)]
      /\ mem \in [Slots -> [Stage -> StageStatus]]
      /\ faults \in 0..MaxFaults
      /\ mem[w] \in [Stage -> StageStatus]
  BY DEF TypeOK
<1>1. CASE PollStop(w)
  BY <1>1 DEF PollStop, TypeOK, AtStage, Fault, AnswerOnError, rowVars, apiVars,
              queueVars, schedVars, progVars
<1>2. CASE SkipStage(w)
  <2>1. at[w] \in Stage /\ pc' = [pc EXCEPT ![w] = AfterStage(w)]
        /\ at' = [at EXCEPT ![w] = @ + 1] /\ faults' = faults
    BY <1>2 DEF SkipStage, AtStage, Record
  <2>2. at' \in [Slots -> 1..(NStages + 1)]
    BY <1>t, <2>1 DEF Stage
  <2>3. AfterStage(w) \in {"check", "close"}
    BY DEF AfterStage
  <2>4. [mem[w] EXCEPT ![at[w]] = "skipped"] \in [Stage -> StageStatus]
    BY <1>t DEF StageStatus
  <2>5. TypeOK'
    <3>1. Record(w, "running", [mem[w] EXCEPT ![at[w]] = "skipped"], AfterStage(w))
      BY <1>2 DEF SkipStage
    <3>2. AfterStage(w) \in {"check", "stage", "close", "mark"}
          /\ "running" \in Active \cup Closed /\ faults' \in 0..MaxFaults
      BY <1>t, <2>1, <2>3 DEF Active
    <3> QED BY <3>1, <3>2, <2>2, <2>4, RecordType
  <2>6. AtStage'
    BY <1>t, <2>1 DEF AtStage, AfterStage, Stage
  <2> QED BY <2>5, <2>6
<1>3. CASE StartStage(w)
  <2>1. [mem[w] EXCEPT ![at[w]] = "running"] \in [Stage -> StageStatus]
    BY <1>t DEF StageStatus
  <2>2. TypeOK'
    BY <1>3, <1>t, <2>1, RecordType DEF StartStage, Active
  <2>3. AtStage'
    BY <1>3, <1>t DEF StartStage, Record, AtStage
  <2> QED BY <2>2, <2>3
<1>4. CASE Beat(w)
  <2>1. TypeOK'
    BY <1>4, <1>t, RecordType DEF Beat, Active
  <2>2. AtStage'
    BY <1>4, <1>t DEF Beat, Record, AtStage
  <2> QED BY <2>1, <2>2
<1>5. ASSUME NEW outcome \in Outcomes, EndStage(w, outcome) PROVE TypeInv'
  <2>1. at[w] \in Stage /\ pc' = [pc EXCEPT ![w] = AfterStage(w)]
        /\ at' = [at EXCEPT ![w] = @ + 1]
    BY <1>5 DEF EndStage, AtStage, Record
  <2>2. at' \in [Slots -> 1..(NStages + 1)]
    BY <1>t, <2>1 DEF Stage
  <2>3. AfterStage(w) \in {"check", "close"}
    BY DEF AfterStage
  <2>4. Ended(mem[w], at[w], outcome) \in [Stage -> StageStatus]
    BY <1>t DEF Ended, StageStatus, Outcomes
  <2>5. faults' \in 0..MaxFaults
    BY <1>5, <1>t DEF EndStage, Fault
  <2>6. TypeOK'
    BY <1>5, <2>2, <2>3, <2>4, <2>5, RecordType DEF EndStage, Active
  <2>7. AtStage'
    BY <1>t, <2>1 DEF AtStage, AfterStage, Stage
  <2> QED BY <2>6, <2>7
<1>6. CASE FinaliseCancelled(w)
  <2>1. StopStages(mem[w]) \in [Stage -> StageStatus]
    BY <1>t DEF StopStages, StageStatus
  <2>2. TypeOK'
    BY <1>6, <1>t, <2>1, RecordType DEF FinaliseCancelled, Closed
  <2>3. AtStage'
    BY <1>6, <1>t DEF FinaliseCancelled, Record, AtStage
  <2> QED BY <2>2, <2>3
<1>7. CASE CloseRun(w)
  <2>1. Verdict(mem[w]) \in Closed
    BY DEF Verdict, Closed
  <2>2. TypeOK'
    BY <1>7, <1>t, <2>1, RecordType DEF CloseRun
  <2>3. AtStage'
    BY <1>7, <1>t DEF CloseRun, Record, AtStage
  <2> QED BY <2>2, <2>3
<1>8. CASE MarkInitial(w)
  BY <1>8 DEF MarkInitial, TypeOK, AtStage, rowVars, apiVars, queueVars, schedVars
<1> QED BY <1>1, <1>2, <1>3, <1>4, <1>5, <1>6, <1>7, <1>8 DEF Pipeline

LEMMA FreeSlotType ==
  ASSUME TypeInv, NEW w \in Slots, FreeSlot(w)
  PROVE  /\ pc' \in [Slots -> {"idle", "check", "launch", "stage", "beat", "finalise",
                               "close", "mark", "ack"}]
         /\ job' \in [Slots -> Jobs \cup {None}]
         /\ run' \in [Slots -> Scans \cup {None}]
         /\ mem' \in [Slots -> [Stage -> StageStatus]]
         /\ at' \in [Slots -> 1..(NStages + 1)]
         /\ elapsed' \in [Slots -> 0..JobTimeout]
         /\ AtStage'
<1>1. NoStages \in [Stage -> StageStatus] /\ 1 \in 1..(NStages + 1)
      /\ 0 \in 0..JobTimeout
  BY TimesAssumption DEF NoStages, StageStatus
<1> QED BY <1>1 DEF FreeSlot, TypeInv, TypeOK, AtStage

LEMMA ForgetType ==
  ASSUME TypeInv, NEW w \in Slots, Forget(w) \/ Redeliver(w), Working(w), job[w] \in Jobs
  PROVE  queue' \in SUBSET Jobs /\ tries' \in [Jobs -> Nat]
<1>1. CASE Forget(w)
  BY <1>1 DEF Forget, TypeInv, TypeOK
<1>2. CASE Redeliver(w) /\ ~Forget(w)
  BY <1>2 DEF Redeliver, TypeInv, TypeOK
<1> QED BY <1>1, <1>2

LEMMA InterruptedType ==
  ASSUME TypeInv, NEW w \in Slots, Interrupted(w)
  PROVE  /\ status' \in [Scans -> {"absent"} \cup Active \cup Closed]
         /\ stages' \in [Scans -> [Stage -> StageStatus]]
         /\ cancel' \in [Scans -> BOOLEAN]
         /\ age' \in [Scans -> 0..MaxAge]
<1>1. CASE pc[w] \in {"stage", "beat"}
  <2>1. [mem[w] EXCEPT ![at[w]] = "failed"] \in [Stage -> StageStatus]
    BY DEF TypeInv, TypeOK, StageStatus
  <2>2. 0 \in 0..MaxAge /\ "failed" \in Closed
    BY TimesAssumption DEF MaxAge, Closed
  <2> QED BY <1>1, <2>1, <2>2 DEF Interrupted, Save, TypeInv, TypeOK
<1>2. CASE pc[w] \notin {"stage", "beat"}
  BY <1>2 DEF Interrupted, rowVars, TypeInv, TypeOK
<1> QED BY <1>1, <1>2

LEMMA WorkerType ==
  ASSUME TypeInv, SlotOwnsJob, NEW w \in Slots, Worker(w)
  PROVE  TypeInv'
<1> USE IdsAssumption, TimesAssumption
<1>1. ASSUME NEW j \in Jobs, ClaimRefused(w, j) PROVE TypeInv'
  BY <1>1 DEF ClaimRefused, TypeInv, TypeOK, AtStage, rowVars, apiVars, slotVars,
              schedVars, progVars
<1>2. ASSUME NEW j \in Jobs, NEW s \in Scans, Claim(w, j, s) PROVE TypeInv'
  <2>1. AllQueued \in [Stage -> StageStatus] /\ 0 \in 0..MaxAge /\ 0 \in 0..JobTimeout
        /\ 1 \in 1..(NStages + 1) /\ 1 \in Stage
    BY DEF AllQueued, StageStatus, MaxAge, Stage
  <2>2. /\ status' \in [Scans -> {"absent"} \cup Active \cup Closed]
        /\ stages' \in [Scans -> [Stage -> StageStatus]]
        /\ cancel' \in [Scans -> BOOLEAN]
        /\ age' \in [Scans -> 0..MaxAge]
    BY <1>2, <2>1 DEF Claim, Save, TypeInv, TypeOK, Active
  <2>3. queue' \in SUBSET Jobs /\ tries' \in [Jobs -> Nat]
    BY <1>2 DEF Claim, TypeInv, TypeOK
  <2>4. /\ pc' \in [Slots -> {"idle", "check", "launch", "stage", "beat", "finalise",
                              "close", "mark", "ack"}]
        /\ job' \in [Slots -> Jobs \cup {None}]
        /\ run' \in [Slots -> Scans \cup {None}]
        /\ mem' \in [Slots -> [Stage -> StageStatus]]
        /\ at' \in [Slots -> 1..(NStages + 1)]
        /\ elapsed' \in [Slots -> 0..JobTimeout]
    BY <1>2, <2>1 DEF Claim, TypeInv, TypeOK
  <2>5. AtStage'
    BY <1>2, <2>1 DEF Claim, TypeInv, TypeOK, AtStage
  <2> QED BY <1>2, <2>2, <2>3, <2>4, <2>5
          DEF Claim, TypeInv, TypeOK, apiVars, schedVars, progVars
<1>3. CASE Pipeline(w)
  BY <1>3, PipelineType
<1>4. ASSUME FreeSlot(w), Forget(w) \/ Redeliver(w), Working(w),
             Interrupted(w) \/ UNCHANGED rowVars, faults' \in 0..MaxFaults,
             UNCHANGED <<apiVars, schedVars, progVars>>
      PROVE  TypeInv'
  <2>1. job[w] \in Jobs
    BY <1>4 DEF SlotOwnsJob
  <2>2. queue' \in SUBSET Jobs /\ tries' \in [Jobs -> Nat]
    BY <1>4, <2>1, ForgetType
  <2>3. /\ status' \in [Scans -> {"absent"} \cup Active \cup Closed]
        /\ stages' \in [Scans -> [Stage -> StageStatus]]
        /\ cancel' \in [Scans -> BOOLEAN]
        /\ age' \in [Scans -> 0..MaxAge]
    <3>1. CASE Interrupted(w)
      BY <3>1, InterruptedType
    <3>2. CASE UNCHANGED rowVars
      BY <3>2 DEF rowVars, TypeInv, TypeOK
    <3> QED BY <1>4, <3>1, <3>2
  <2> QED BY <1>4, <2>2, <2>3, FreeSlotType
          DEF TypeInv, TypeOK, apiVars, schedVars, progVars
<1>5. faults \in 0..MaxFaults /\ (Fault => faults' \in 0..MaxFaults)
  BY DEF TypeInv, TypeOK, Fault
<1>6. CASE Ack(w)
  BY <1>4, <1>5, <1>6 DEF Ack, Working
<1>7. CASE TimeOut(w)
  BY <1>4, <1>5, <1>7 DEF TimeOut
<1>8. CASE ShutDown(w)
  BY <1>4, <1>5, <1>8 DEF ShutDown
<1>9. CASE Crash(w)
  BY <1>4, <1>5, <1>9 DEF Crash
<1> QED BY <1>1, <1>2, <1>3, <1>6, <1>7, <1>8, <1>9 DEF Worker

LEMMA SchedulerType == ASSUME TypeInv, Scheduler PROVE TypeInv'
<1> USE DEF TypeInv, TypeOK, AtStage, rowVars, apiVars, queueVars, slotVars, progVars
<1>0. NoStages \in [Stage -> StageStatus]
  BY DEF NoStages, StageStatus
<1>1. CASE ReapRead
  BY <1>0, <1>1 DEF ReapRead
<1>2. ASSUME NEW s \in Scans, ReapWrite(s) PROVE TypeInv'
  <2>1. OrphanStages(snap[s]) \in [Stage -> StageStatus] /\ 0 \in 0..MaxAge
        /\ "failed" \in Closed
    BY TimesAssumption DEF OrphanStages, StageStatus, MaxAge, Closed
  <2> QED BY <1>0, <1>2, <2>1 DEF ReapWrite
<1>3. CASE Plan
  BY <1>3 DEF Plan
<1>4. CASE EnqueueBoot
  BY <1>4 DEF EnqueueBoot, Jobs
<1>5. CASE MarkEnqueued
  BY <1>5, TimesAssumption DEF MarkEnqueued
<1>6. CASE TickFails
  BY <1>0, <1>6, TimesAssumption DEF TickFails, Fault
<1> QED BY <1>1, <1>2, <1>3, <1>4, <1>5, <1>6 DEF Scheduler

LEMMA TimeType == ASSUME TypeInv, TimePasses PROVE TypeInv'
<1> USE TimesAssumption
<1>1. age' \in [Scans -> 0..MaxAge]
  <2>1. ASSUME NEW s \in Scans PROVE age'[s] \in 0..MaxAge
    <3>1. age[s] \in 0..MaxAge
      BY DEF TypeInv, TypeOK
    <3>2. AgeBound(s) \in {MaxAge, Cooloff + 1, 0}
      BY DEF AgeBound
    <3>3. AgeBound(s) \in 0..MaxAge
      BY <3>2 DEF MaxAge
    <3>4. age'[s] = IF age[s] < AgeBound(s) THEN age[s] + 1 ELSE age[s]
      BY DEF TimePasses
    <3> QED BY <3>1, <3>3, <3>4 DEF MaxAge
  <2> QED BY <2>1 DEF TimePasses
<1>2. elapsed' \in [Slots -> 0..JobTimeout]
  BY DEF TimePasses, TypeInv, TypeOK
<1>3. sinceBoot' \in 0..BootRetry
  BY DEF TimePasses, TypeInv, TypeOK
<1> QED BY <1>1, <1>2, <1>3
        DEF TimePasses, TypeInv, TypeOK, AtStage, apiVars, queueVars, progVars

LEMMA TypeInvNext ==
  ASSUME TypeInv, SlotOwnsJob, [Next]_vars
  PROVE  TypeInv'
<1>1. ASSUME NEW s \in Scans, Trigger(s) \/ Cancel(s) PROVE TypeInv'
  BY <1>1, TriggerType, CancelType
<1>2. ASSUME NEW p \in ProgramStates, SetProgram(p) PROVE TypeInv'
  BY <1>2, TimesAssumption DEF SetProgram, TypeInv, TypeOK, AtStage, rowVars, apiVars,
     queueVars, slotVars, schedVars
<1>3. ASSUME NEW w \in Slots, Worker(w) PROVE TypeInv'
  BY <1>3, WorkerType
<1>4. CASE Scheduler
  BY <1>4, SchedulerType
<1>5. CASE TimePasses
  BY <1>5, TimeType
<1>6. CASE UNCHANGED vars
  BY <1>6 DEF vars, TypeInv, TypeOK, AtStage
<1> QED BY <1>1, <1>2, <1>3, <1>4, <1>5, <1>6 DEF Next

-----------------------------------------------------------------------------
(* Ownership.  A job is waiting or in one slot, never both; a row is run by  *)
(* the slot that holds its job.  The argument follows the job: only the      *)
(* trigger request puts an API job in the queue, only a slot that gives it   *)
(* up puts it back, and the scheduler adds the bootstrap job only when the   *)
(* queue does not hold it.                                                   *)

Own == SlotOwnsJob /\ TriggerOwnsRow /\ OneOwner /\ ReapsRows

LEMMA OwnInit == Init => Own
BY DEF Init, Own, SlotOwnsJob, TriggerOwnsRow, OneOwner, ReapsRows, Working

LEMMA TriggerOwn == ASSUME TypeInv, Own, NEW s \in Scans, Trigger(s) PROVE Own'
<1> USE IdsAssumption
    DEF TypeInv, TypeOK, Own, SlotOwnsJob, TriggerOwnsRow, OneOwner, ReapsRows, Working,
        Jobs, rowVars, apiVars, queueVars, slotVars, schedVars, progVars
<1>1. CASE TriggerCheck(s)
  BY <1>1 DEF TriggerCheck
<1>2. CASE TriggerSave(s)
  BY <1>2 DEF TriggerSave, Save
<1>3. CASE TriggerEnqueue(s)
  BY <1>3 DEF TriggerEnqueue
<1>4. CASE TriggerEnqueueRaises(s)
  BY <1>4 DEF TriggerEnqueueRaises
<1>5. CASE TriggerFail(s)
  BY <1>5 DEF TriggerFail, Save
<1>6. CASE TriggerDies(s)
  BY <1>6 DEF TriggerDies
<1> QED BY <1>1, <1>2, <1>3, <1>4, <1>5, <1>6 DEF Trigger

LEMMA ClaimOwn ==
  ASSUME TypeInv, Own, NEW w \in Slots, NEW j \in Jobs, NEW s \in Scans, Claim(w, j, s)
  PROVE  Own'
<1> USE IdsAssumption
    DEF Claim, Save, IdsFor, TypeInv, TypeOK, Working, Jobs, apiVars, schedVars
<1>1. SlotOwnsJob'
  BY DEF Own, SlotOwnsJob, TriggerOwnsRow, OneOwner
<1>2. TriggerOwnsRow'
  BY DEF Own, TriggerOwnsRow
<1>3. OneOwner'
  BY DEF Own, SlotOwnsJob, TriggerOwnsRow, OneOwner
<1>4. ReapsRows'
  BY DEF Own, ReapsRows
<1> QED BY <1>1, <1>2, <1>3, <1>4 DEF Own

\* A step that keeps every slot's job and row, and removes no row.
LEMMA LoopOwn ==
  ASSUME TypeInv, Own,
         UNCHANGED <<job, run, trig, queue, reaping>>,
         \A w \in Slots : Working(w)' <=> Working(w),
         \A s \in Scans : status[s] = "absent" <=> status'[s] = "absent"
  PROVE  Own'
BY DEF TypeInv, TypeOK, Own, SlotOwnsJob, TriggerOwnsRow, OneOwner, ReapsRows, Working

LEMMA PipelineOwn == ASSUME TypeInv, Own, NEW w \in Slots, Pipeline(w) PROVE Own'
<1>1. ASSUME NEW st \in Active \cup Closed, NEW stg,
             NEW where \in {"check", "stage", "close", "mark"}, pc[w] # "idle",
             Record(w, st, stg, where)
      PROVE  Own'
  <2>1. UNCHANGED <<job, run, trig, queue, reaping>>
    BY <1>1 DEF Record, apiVars, queueVars, schedVars
  <2>2. \A v \in Slots : Working(v)' <=> Working(v)
    BY <1>1 DEF Record, Working, TypeInv, TypeOK
  <2>3. \A s \in Scans : status[s] = "absent" <=> status'[s] = "absent"
    BY <1>1 DEF Record, Save, TypeInv, TypeOK, Own, SlotOwnsJob, Working, Active, Closed
  <2> QED BY <2>1, <2>2, <2>3, LoopOwn
<1>2. CASE PollStop(w)
  <2>1. \A v \in Slots : Working(v)' <=> Working(v)
    BY <1>2 DEF PollStop, Working, TypeInv, TypeOK
  <2>2. UNCHANGED <<status, job, run, trig, queue, reaping>>
    BY <1>2 DEF PollStop, rowVars, apiVars, queueVars, schedVars
  <2> QED BY <2>1, <2>2, LoopOwn
<1>3. CASE MarkInitial(w)
  <2>1. \A v \in Slots : Working(v)' <=> Working(v)
    BY <1>3 DEF MarkInitial, Working, TypeInv, TypeOK
  <2>2. UNCHANGED <<status, job, run, trig, queue, reaping>>
    BY <1>3 DEF MarkInitial, rowVars, apiVars, queueVars, schedVars
  <2> QED BY <2>1, <2>2, LoopOwn
<1>4. AfterStage(w) \in {"check", "close"} /\ Verdict(mem[w]) \in Closed
      /\ "running" \in Active /\ "cancelled" \in Closed
  BY DEF AfterStage, Verdict, Closed, Active
<1>5. CASE SkipStage(w)
  BY <1>1, <1>4, <1>5 DEF SkipStage
<1>6. CASE StartStage(w)
  BY <1>1, <1>4, <1>6 DEF StartStage
<1>7. CASE Beat(w)
  BY <1>1, <1>4, <1>7 DEF Beat
<1>8. ASSUME NEW outcome \in Outcomes, EndStage(w, outcome) PROVE Own'
  BY <1>1, <1>4, <1>8 DEF EndStage
<1>9. CASE FinaliseCancelled(w)
  BY <1>1, <1>4, <1>9 DEF FinaliseCancelled
<1>10. CASE CloseRun(w)
  BY <1>1, <1>4, <1>10 DEF CloseRun
<1> QED BY <1>2, <1>3, <1>5, <1>6, <1>7, <1>8, <1>9, <1>10 DEF Pipeline

LEMMA FreeOwn ==
  ASSUME TypeInv, Own, NEW w \in Slots, Working(w), FreeSlot(w),
         Forget(w) \/ Redeliver(w), Interrupted(w) \/ UNCHANGED rowVars,
         UNCHANGED <<apiVars, schedVars>>
  PROVE  Own'
<1> USE IdsAssumption DEF FreeSlot, TypeInv, TypeOK, Working, Jobs, apiVars, schedVars
<1>1. job[w] \in Jobs /\ queue' \in {queue, queue \cup {job[w]}}
  BY DEF Own, SlotOwnsJob, Forget, Redeliver
<1>2. \A s \in Scans : status[s] = "absent" <=> status'[s] = "absent"
  BY DEF Own, SlotOwnsJob, Interrupted, Save, rowVars
<1>3. SlotOwnsJob'
  BY <1>1, <1>2 DEF Own, SlotOwnsJob, OneOwner
<1>4. TriggerOwnsRow'
  BY <1>1, <1>2 DEF Own, SlotOwnsJob, TriggerOwnsRow
<1>5. OneOwner'
  BY DEF Own, OneOwner
<1>6. ReapsRows'
  BY <1>2 DEF Own, ReapsRows
<1> QED BY <1>3, <1>4, <1>5, <1>6 DEF Own

LEMMA SchedulerOwn == ASSUME TypeInv, Own, Scheduler PROVE Own'
<1> USE IdsAssumption
    DEF TypeInv, TypeOK, Own, SlotOwnsJob, TriggerOwnsRow, OneOwner, ReapsRows, Working,
        Jobs, rowVars, apiVars, queueVars, slotVars, schedVars, progVars
<1>1. CASE ReapRead
  BY <1>1 DEF ReapRead, Reapable, Active
<1>2. ASSUME NEW s \in Scans, ReapWrite(s) PROVE Own'
  BY <1>2 DEF ReapWrite
<1>3. CASE Plan
  BY <1>3 DEF Plan
<1>4. CASE EnqueueBoot
  BY <1>4 DEF EnqueueBoot, Held
<1>5. CASE MarkEnqueued
  BY <1>5 DEF MarkEnqueued
<1>6. CASE TickFails
  BY <1>6 DEF TickFails
<1> QED BY <1>1, <1>2, <1>3, <1>4, <1>5, <1>6 DEF Scheduler

LEMMA OwnNext == ASSUME TypeInv, Own, [Next]_vars PROVE Own'
<1>1. ASSUME NEW s \in Scans, Trigger(s) PROVE Own'
  BY <1>1, TriggerOwn
<1>2. ASSUME NEW s \in Scans, Cancel(s) PROVE Own'
  BY <1>2, LoopOwn DEF Cancel, CancelCheck, RequestCancel, rowVars, queueVars, slotVars,
     schedVars, Working
<1>3. ASSUME NEW p \in ProgramStates, SetProgram(p) PROVE Own'
  BY <1>3, LoopOwn DEF SetProgram, rowVars, apiVars, queueVars, slotVars, schedVars, Working
<1>4. ASSUME NEW w \in Slots, Worker(w) PROVE Own'
  <2>1. ASSUME NEW j \in Jobs, ClaimRefused(w, j) PROVE Own'
    BY <2>1 DEF ClaimRefused, Own, SlotOwnsJob, TriggerOwnsRow, OneOwner, ReapsRows,
       Working, rowVars, apiVars, slotVars, schedVars
  <2>2. ASSUME NEW j \in Jobs, NEW s \in Scans, Claim(w, j, s) PROVE Own'
    BY <2>2, ClaimOwn
  <2>3. CASE Pipeline(w)
    BY <2>3, PipelineOwn
  <2>4. CASE Ack(w)
    BY <2>4, FreeOwn DEF Ack, Working
  <2>5. CASE TimeOut(w)
    BY <2>5, FreeOwn DEF TimeOut
  <2>6. CASE ShutDown(w)
    BY <2>6, FreeOwn DEF ShutDown
  <2>7. CASE Crash(w)
    BY <2>7, FreeOwn DEF Crash
  <2> QED BY <1>4, <2>1, <2>2, <2>3, <2>4, <2>5, <2>6, <2>7 DEF Worker
<1>5. CASE Scheduler
  BY <1>5, SchedulerOwn
<1>6. CASE TimePasses
  BY <1>6, LoopOwn DEF TimePasses, apiVars, queueVars, Working
<1>7. CASE UNCHANGED vars
  BY <1>7, LoopOwn DEF vars, Working
<1> QED BY <1>1, <1>2, <1>3, <1>4, <1>5, <1>6, <1>7 DEF Next

-----------------------------------------------------------------------------
(* Stops.  A flag, a slot that saw it and a CANCELLED row all go back to     *)
(* request_cancel: a poll answers TRUE only when the flag was read.          *)

LEMMA StopNext ==
  ASSUME TypeInv, Own, StopWasAsked, [Next]_vars
  PROVE  StopWasAsked'
<1> USE DEF TypeInv, TypeOK, StopWasAsked, rowVars, apiVars, queueVars, slotVars,
            schedVars, progVars
<1>1. ASSUME NEW s \in Scans, Trigger(s) PROVE StopWasAsked'
  <2>1. CASE TriggerSave(s) \/ TriggerFail(s)
    <3>1. /\ status \in [Scans -> {"absent"} \cup Active \cup Closed]
          /\ cancel \in [Scans -> BOOLEAN]
          /\ asked' = asked /\ pc' = pc /\ run' = run
          /\ cancel' = [cancel EXCEPT ![s] = FALSE]
          /\ \/ status' = [status EXCEPT ![s] = "queued"]
             \/ status' = [status EXCEPT ![s] = "failed"]
      BY <2>1 DEF TriggerSave, TriggerFail, Save
    <3> QED BY ONLY StopWasAsked, <3>1 DEF StopWasAsked
  <2>2. CASE \/ TriggerCheck(s) \/ TriggerEnqueue(s) \/ TriggerEnqueueRaises(s)
             \/ TriggerDies(s)
    BY <2>2 DEF TriggerCheck, TriggerEnqueue, TriggerEnqueueRaises, TriggerDies
  <2> QED BY <1>1, <2>1, <2>2 DEF Trigger
<1>2. ASSUME NEW s \in Scans, Cancel(s) PROVE StopWasAsked'
  <2>1. /\ cancel \in [Scans -> BOOLEAN] /\ asked \in [Scans -> BOOLEAN]
        /\ status' = status /\ pc' = pc /\ run' = run
        /\ \/ UNCHANGED <<cancel, asked>>
           \/ /\ cancel' = [cancel EXCEPT ![s] = TRUE]
              /\ asked' = [asked EXCEPT ![s] = TRUE]
    BY <1>2 DEF Cancel, CancelCheck, RequestCancel
  <2>2. \A w \in Slots : pc[w] = "finalise" => run[w] \in Scans
    BY DEF Own, SlotOwnsJob, Working
  <2>3. s \in Scans
    OBVIOUS
  <2> QED BY ONLY StopWasAsked, <2>1, <2>2, <2>3 DEF StopWasAsked
<1>3. ASSUME NEW w \in Slots, Worker(w) PROVE StopWasAsked'
  <2>1. pc[w] = "idle" \/ run[w] \in Scans
    BY DEF Own, SlotOwnsJob, Working
  <2>2. ASSUME NEW j \in Jobs, ClaimRefused(w, j) PROVE StopWasAsked'
    BY <2>2 DEF ClaimRefused
  <2>3. ASSUME NEW j \in Jobs, NEW s \in Scans, Claim(w, j, s) PROVE StopWasAsked'
    BY <2>3 DEF Claim, Save
  <2>4. CASE Pipeline(w)
    <3>1. ASSUME NEW st, NEW stg, NEW where \in {"check", "stage", "close", "mark"},
                 st = "cancelled" => pc[w] = "finalise", Record(w, st, stg, where)
          PROVE  StopWasAsked'
      BY <3>1 DEF Record, Save
    <3>2. CASE PollStop(w)
      BY <2>1, <3>2 DEF PollStop, AnswerOnError
    <3>3. CASE MarkInitial(w)
      BY <3>3 DEF MarkInitial
    <3>4. AfterStage(w) \in {"check", "close"} /\ Verdict(mem[w]) # "cancelled"
      BY DEF AfterStage, Verdict
    <3>5. CASE SkipStage(w)
      BY <3>1, <3>4, <3>5 DEF SkipStage
    <3>6. CASE StartStage(w)
      BY <3>1, <3>6 DEF StartStage
    <3>7. CASE Beat(w)
      BY <3>1, <3>7 DEF Beat
    <3>8. ASSUME NEW outcome \in Outcomes, EndStage(w, outcome) PROVE StopWasAsked'
      BY <3>1, <3>4, <3>8 DEF EndStage
    <3>9. CASE FinaliseCancelled(w)
      BY <3>1, <3>9 DEF FinaliseCancelled
    <3>10. CASE CloseRun(w)
      BY <3>1, <3>4, <3>10 DEF CloseRun
    <3> QED BY <2>4, <3>2, <3>3, <3>5, <3>6, <3>7, <3>8, <3>9, <3>10 DEF Pipeline
  <2>5. ASSUME FreeSlot(w), Interrupted(w) \/ UNCHANGED rowVars, UNCHANGED asked
        PROVE  StopWasAsked'
    BY <2>5 DEF FreeSlot, Interrupted, Save
  <2>6. CASE Ack(w) \/ TimeOut(w) \/ ShutDown(w) \/ Crash(w)
    BY <2>5, <2>6 DEF Ack, TimeOut, ShutDown, Crash
  <2> QED BY <1>3, <2>2, <2>3, <2>4, <2>6 DEF Worker
<1>4. CASE Scheduler
  BY <1>4 DEF Scheduler, ReapRead, ReapWrite, Plan, EnqueueBoot, MarkEnqueued, TickFails
<1>5. CASE TimePasses \/ UNCHANGED vars \/ \E p \in ProgramStates : SetProgram(p)
  BY <1>5 DEF TimePasses, vars, SetProgram
<1> QED BY <1>1, <1>2, <1>3, <1>4, <1>5 DEF Next

-----------------------------------------------------------------------------
(* The copy of the stages that a slot saves: ended stages, the stage at      *)
(* hand, then queued ones.  Only the slot's own steps change it.             *)

LEMMA PipelineCopy ==
  ASSUME TypeInv, CopyInOrder, NEW w \in Slots, Pipeline(w)
  PROVE  CopyOf(w)'
<1> USE TimesAssumption DEF TypeInv, TypeOK, AtStage, Stage
<1>1. CopyOf(w)
  BY DEF CopyInOrder, CopyOf
<1>2. CASE PollStop(w)
  BY <1>1, <1>2 DEF PollStop, CopyOf
<1>3. CASE SkipStage(w)
  BY <1>1, <1>3 DEF SkipStage, Record, AfterStage, CopyOf, Outcomes
<1>4. CASE StartStage(w)
  BY <1>1, <1>4 DEF StartStage, Record, CopyOf
<1>5. CASE Beat(w)
  BY <1>1, <1>5 DEF Beat, Record, CopyOf
<1>6. ASSUME NEW outcome \in Outcomes, EndStage(w, outcome) PROVE CopyOf(w)'
  BY <1>1, <1>6 DEF EndStage, Record, AfterStage, Ended, CopyOf, Outcomes
<1>7. CASE FinaliseCancelled(w)
  BY <1>7 DEF FinaliseCancelled, Record, CopyOf
<1>8. CASE CloseRun(w)
  BY <1>8 DEF CloseRun, Record, CopyOf
<1>9. CASE MarkInitial(w)
  BY <1>9 DEF MarkInitial, CopyOf
<1> QED BY <1>2, <1>3, <1>4, <1>5, <1>6, <1>7, <1>8, <1>9 DEF Pipeline

\* A step of slot w leaves what the other slots hold.
LEMMA OthersKeep ==
  ASSUME TypeInv, NEW w \in Slots, Worker(w), NEW v \in Slots, v # w
  PROVE  pc'[v] = pc[v] /\ at'[v] = at[v] /\ mem'[v] = mem[v]
         /\ run'[v] = run[v] /\ elapsed'[v] = elapsed[v]
<1> USE DEF TypeInv, TypeOK
<1>1. CASE Pipeline(w)
  BY <1>1 DEF Pipeline, PollStop, SkipStage, StartStage, Beat, EndStage,
     FinaliseCancelled, CloseRun, MarkInitial, Record
<1>2. ASSUME NEW j \in Jobs, ClaimRefused(w, j) \/ \E s \in Scans : Claim(w, j, s)
      PROVE  pc'[v] = pc[v] /\ at'[v] = at[v] /\ mem'[v] = mem[v]
             /\ run'[v] = run[v] /\ elapsed'[v] = elapsed[v]
  BY <1>2 DEF ClaimRefused, Claim, slotVars
<1>3. CASE Ack(w) \/ TimeOut(w) \/ ShutDown(w) \/ Crash(w)
  BY <1>3 DEF Ack, TimeOut, ShutDown, Crash, FreeSlot
<1> QED BY <1>1, <1>2, <1>3 DEF Worker

LEMMA CopyNext ==
  ASSUME TypeInv, CopyInOrder, [Next]_vars
  PROVE  CopyInOrder'
<1>1. ASSUME UNCHANGED <<pc, at, mem>> PROVE CopyInOrder'
  BY <1>1 DEF CopyInOrder, CopyOf
<1>2. ASSUME NEW w \in Slots, Worker(w) PROVE CopyInOrder'
  <2>1. ASSUME NEW v \in Slots, v # w PROVE CopyOf(v)'
    BY <1>2, <2>1, OthersKeep DEF CopyInOrder, CopyOf
  <2>2. CopyOf(w)'
    <3>1. CASE Pipeline(w)
      BY <3>1, PipelineCopy
    <3>2. ASSUME NEW j \in Jobs, ClaimRefused(w, j) PROVE CopyOf(w)'
      BY <3>2 DEF ClaimRefused, slotVars, CopyInOrder, CopyOf
    <3>3. ASSUME NEW j \in Jobs, NEW s \in Scans, Claim(w, j, s) PROVE CopyOf(w)'
      BY <3>3 DEF Claim, CopyOf, AllQueued, Stage, TypeInv, TypeOK
    <3>4. CASE Ack(w) \/ TimeOut(w) \/ ShutDown(w) \/ Crash(w)
      BY <3>4 DEF Ack, TimeOut, ShutDown, Crash, FreeSlot, CopyOf, TypeInv, TypeOK
    <3> QED BY <1>2, <3>1, <3>2, <3>3, <3>4 DEF Worker
  <2> QED BY <2>1, <2>2 DEF CopyInOrder, CopyOf
<1>3. ASSUME NEW s \in Scans, Trigger(s) \/ Cancel(s) PROVE CopyInOrder'
  BY <1>1, <1>3 DEF Trigger, TriggerCheck, TriggerSave, TriggerEnqueue,
     TriggerEnqueueRaises, TriggerFail, TriggerDies, Cancel, CancelCheck, RequestCancel,
     slotVars
<1>4. CASE Scheduler
  BY <1>1, <1>4 DEF Scheduler, ReapRead, ReapWrite, Plan, EnqueueBoot, MarkEnqueued,
     TickFails, slotVars
<1>5. CASE TimePasses \/ UNCHANGED vars \/ \E p \in ProgramStates : SetProgram(p)
  BY <1>1, <1>5 DEF TimePasses, vars, SetProgram, slotVars
<1> QED BY <1>2, <1>3, <1>4, <1>5 DEF Next

-----------------------------------------------------------------------------
(* What the rows show.                                                       *)

\* The rows after a save: the row s holds stages stg under status st, the others
\* are as before.
RowOK(st, stg) ==
  /\ st \in Closed => \A k \in Stage : stg[k] # "running"
  /\ st = "success" => \A k \in Stage : stg[k] \in {"success", "skipped"}
  /\ st \in Active => \A i, k \in Stage :
        i < k /\ stg[i] \in {"queued", "running"} => stg[k] = "queued"

LEMMA SaveReads ==
  ASSUME TypeInv, RowReads, NEW s \in Scans, NEW st \in Active \cup Closed,
         NEW stg \in [Stage -> StageStatus], RowOK(st, stg),
         status' = [status EXCEPT ![s] = st], stages' = [stages EXCEPT ![s] = stg]
  PROVE  RowReads'
BY DEF TypeInv, TypeOK, RowReads, RowOK, ClosedRunIsStill, SuccessMeansAllStagesEnded,
       StepperInOrder

LEMMA PipelineReads ==
  ASSUME TypeInv, Own, CopyInOrder, RowReads, NEW w \in Slots, Pipeline(w)
  PROVE  RowReads'
<1> USE TimesAssumption
<1>t. mem[w] \in [Stage -> StageStatus]
  BY DEF TypeInv, TypeOK
<1>c. CopyOf(w) /\ AtStage
  BY DEF CopyInOrder, CopyOf, TypeInv
<1>1. ASSUME pc[w] # "idle", NEW st \in Active \cup Closed,
             NEW stg \in [Stage -> StageStatus], RowOK(st, stg),
             NEW where, Record(w, st, stg, where)
      PROVE  RowReads'
  <2>1. run[w] \in Scans
    BY <1>1 DEF Own, SlotOwnsJob, Working
  <2> QED BY <1>1, <2>1, SaveReads DEF Record, Save
<1>2. "running" \in Active \cup Closed /\ "cancelled" \in Active \cup Closed
      /\ Verdict(mem[w]) \in Active \cup Closed
  BY DEF Active, Closed, Verdict
<1>3. CASE PollStop(w) \/ MarkInitial(w)
  BY <1>3 DEF PollStop, MarkInitial, rowVars, RowReads, ClosedRunIsStill,
     SuccessMeansAllStagesEnded, StepperInOrder
<1>4. CASE SkipStage(w)
  <2> DEFINE stg == [mem[w] EXCEPT ![at[w]] = "skipped"]
  <2>1. stg \in [Stage -> StageStatus]
    BY <1>t DEF StageStatus
  <2>2. RowOK("running", stg)
    BY <1>4, <1>t, <1>c DEF SkipStage, CopyOf, RowOK, Active, Closed, Outcomes, Stage, AtStage
  <2> QED BY <1>1, <1>2, <1>4, <2>1, <2>2 DEF SkipStage
<1>5. CASE StartStage(w)
  <2> DEFINE stg == [mem[w] EXCEPT ![at[w]] = "running"]
  <2>1. stg \in [Stage -> StageStatus]
    BY <1>t DEF StageStatus
  <2>2. RowOK("running", stg)
    BY <1>5, <1>t, <1>c DEF StartStage, CopyOf, RowOK, Active, Closed, Outcomes, Stage, AtStage
  <2> QED BY <1>1, <1>2, <1>5, <2>1, <2>2 DEF StartStage
<1>6. CASE Beat(w)
  <2>1. RowOK("running", mem[w])
    BY <1>6, <1>t, <1>c DEF Beat, CopyOf, RowOK, Active, Closed, Outcomes, Stage, AtStage
  <2> QED BY <1>1, <1>2, <1>6, <1>t, <2>1 DEF Beat
<1>7. ASSUME NEW outcome \in Outcomes, EndStage(w, outcome) PROVE RowReads'
  <2> DEFINE stg == Ended(mem[w], at[w], outcome)
  <2>1. stg \in [Stage -> StageStatus]
    BY <1>t DEF StageStatus, Ended, Outcomes
  <2>2. RowOK("running", stg)
    BY <1>7, <1>t, <1>c DEF EndStage, Ended, CopyOf, RowOK, Active, Closed, Outcomes, Stage,
       AtStage
  <2> QED BY <1>1, <1>2, <1>7, <2>1, <2>2 DEF EndStage
<1>8. CASE FinaliseCancelled(w)
  <2>1. StopStages(mem[w]) \in [Stage -> StageStatus]
    BY <1>t DEF StageStatus, StopStages
  <2>2. RowOK("cancelled", StopStages(mem[w]))
    BY <1>t DEF StopStages, RowOK, Active, Closed
  <2> QED BY <1>1, <1>2, <1>8, <2>1, <2>2 DEF FinaliseCancelled
<1>9. CASE CloseRun(w)
  <2>1. \A k \in Stage : mem[w][k] \in Outcomes
    BY <1>9, <1>c DEF CloseRun, CopyOf, AtStage, Stage
  <2>2. RowOK(Verdict(mem[w]), mem[w])
    BY <2>1 DEF Verdict, RowOK, Active, Closed, Outcomes
  <2> QED BY <1>1, <1>2, <1>9, <1>t, <2>2 DEF CloseRun
<1> QED BY <1>3, <1>4, <1>5, <1>6, <1>7, <1>8, <1>9 DEF Pipeline

LEMMA ReadsNext ==
  ASSUME TypeInv, Own, CopyInOrder, RowReads, [Next]_vars
  PROVE  RowReads'
<1>1. ASSUME UNCHANGED <<status, stages>> PROVE RowReads'
  BY <1>1 DEF RowReads, ClosedRunIsStill, SuccessMeansAllStagesEnded, StepperInOrder
<1>2. /\ RowOK("queued", AllQueued) /\ RowOK("running", AllQueued)
      /\ RowOK("failed", NoStages)
      /\ AllQueued \in [Stage -> StageStatus] /\ NoStages \in [Stage -> StageStatus]
      /\ {"queued", "running", "failed"} \subseteq Active \cup Closed
  BY DEF RowOK, AllQueued, NoStages, Active, Closed, StageStatus
<1>3. ASSUME NEW s \in Scans, Trigger(s) PROVE RowReads'
  <2>1. CASE TriggerSave(s)
    BY <1>2, <2>1, SaveReads DEF TriggerSave, Save
  <2>2. CASE TriggerFail(s)
    BY <1>2, <2>2, SaveReads DEF TriggerFail, Save
  <2>3. CASE \/ TriggerCheck(s) \/ TriggerEnqueue(s) \/ TriggerEnqueueRaises(s)
             \/ TriggerDies(s)
    BY <1>1, <2>3 DEF TriggerCheck, TriggerEnqueue, TriggerEnqueueRaises, TriggerDies,
       rowVars
  <2> QED BY <1>3, <2>1, <2>2, <2>3 DEF Trigger
<1>4. ASSUME NEW s \in Scans, Cancel(s) PROVE RowReads'
  BY <1>1, <1>4 DEF Cancel, CancelCheck, RequestCancel, rowVars
<1>5. ASSUME NEW w \in Slots, Worker(w) PROVE RowReads'
  <2>1. ASSUME NEW j \in Jobs, ClaimRefused(w, j) PROVE RowReads'
    BY <1>1, <2>1 DEF ClaimRefused, rowVars
  <2>2. ASSUME NEW j \in Jobs, NEW s \in Scans, Claim(w, j, s) PROVE RowReads'
    BY <1>2, <2>2, SaveReads DEF Claim, Save
  <2>3. CASE Pipeline(w)
    BY <2>3, PipelineReads
  <2>4. ASSUME Interrupted(w), pc[w] # "idle" PROVE RowReads'
    <3>1. CASE pc[w] \in {"stage", "beat"}
      <4> DEFINE stg == [mem[w] EXCEPT ![at[w]] = "failed"]
      <4>1. run[w] \in Scans
        BY <2>4 DEF Own, SlotOwnsJob, Working
      <4>2. stg \in [Stage -> StageStatus]
        BY DEF TypeInv, TypeOK, StageStatus
      <4>3. RowOK("failed", stg)
        <5>1. \A k \in Stage : k = at[w] \/ mem[w][k] # "running"
          <6>1. CopyOf(w) /\ at[w] \in Int /\ Stage \subseteq Int
            BY TimesAssumption DEF CopyInOrder, CopyOf, TypeInv, TypeOK, Stage
          <6>2. ASSUME NEW k \in Stage, k # at[w] PROVE mem[w][k] # "running"
            <7>1. k < at[w] \/ k > at[w]
              BY <6>1, <6>2
            <7> QED BY <3>1, <6>1, <7>1 DEF CopyOf, Outcomes
          <6> QED BY <6>2
        <5>2. \A k \in Stage : stg[k] # "running"
          BY <5>1 DEF TypeInv, TypeOK
        <5> QED BY <5>2 DEF RowOK, Active, Closed
      <4> QED BY <1>2, <2>4, <3>1, <4>1, <4>2, <4>3, SaveReads DEF Interrupted, Save
    <3>2. CASE pc[w] \notin {"stage", "beat"}
      BY <1>1, <2>4, <3>2 DEF Interrupted, rowVars
    <3> QED BY <3>1, <3>2
  <2>5. CASE Ack(w) \/ Crash(w)
    BY <1>1, <2>5 DEF Ack, Crash, rowVars
  <2>6. CASE TimeOut(w) \/ ShutDown(w)
    BY <2>4, <2>6 DEF TimeOut, ShutDown, Working
  <2> QED BY <1>5, <2>1, <2>2, <2>3, <2>5, <2>6 DEF Worker
<1>6. CASE Scheduler
  <2>1. ASSUME NEW s \in Scans, ReapWrite(s) PROVE RowReads'
    <3>1. OrphanStages(snap[s]) \in [Stage -> StageStatus]
      BY DEF OrphanStages, StageStatus, TypeInv, TypeOK
    <3>2. RowOK("failed", OrphanStages(snap[s]))
      BY DEF OrphanStages, RowOK, Active, Closed
    <3> QED BY <1>2, <2>1, <3>1, <3>2, SaveReads DEF ReapWrite
  <2>2. CASE ReapRead \/ Plan \/ EnqueueBoot \/ MarkEnqueued \/ TickFails
    BY <1>1, <2>2 DEF ReapRead, Plan, EnqueueBoot, MarkEnqueued, TickFails, rowVars
  <2> QED BY <1>6, <2>1, <2>2 DEF Scheduler
<1>7. CASE TimePasses \/ UNCHANGED vars \/ \E p \in ProgramStates : SetProgram(p)
  BY <1>1, <1>7 DEF TimePasses, vars, SetProgram, rowVars
<1> QED BY <1>3, <1>4, <1>5, <1>6, <1>7 DEF Next

-----------------------------------------------------------------------------
(* Verdicts and ages: what one slot's step does to another slot's row is     *)
(* excluded by OneOwner.                                                     *)

\* A slot keeps its row's verdict away until it is past the loop, and its row
\* no older than its job.
SlotRowOK(w) ==
  Working(w) =>
    /\ status[run[w]] \in {"success", "cancelled"} => pc[w] \in {"mark", "ack"}
    /\ status[run[w]] \in Active => age[run[w]] <= elapsed[w]

SlotRows == VerdictMeansIdle /\ RowAgesWithJob

LEMMA SlotRowsAre == SlotRows <=> \A w \in Slots : SlotRowOK(w)
BY DEF SlotRows, SlotRowOK, VerdictMeansIdle, RowAgesWithJob

LEMMA WorkerRows ==
  ASSUME TypeInv, Own, SlotRows, NEW w \in Slots, Worker(w)
  PROVE  SlotRows'
<1> USE TimesAssumption
<1>t. /\ status \in [Scans -> {"absent"} \cup Active \cup Closed]
      /\ age \in [Scans -> 0..MaxAge]
      /\ pc \in [Slots -> {"idle", "check", "launch", "stage", "beat", "finalise",
                            "close", "mark", "ack"}]
      /\ run \in [Slots -> Scans \cup {None}]
      /\ elapsed \in [Slots -> 0..JobTimeout]
      /\ Working(w) => run[w] \in Scans
  BY DEF TypeInv, TypeOK, Own, SlotOwnsJob
\* The rows of the other slots are not the row this step writes.
<1>1. ASSUME NEW v \in Slots, v # w PROVE SlotRowOK(v)'
  <2>1. SlotRowOK(v) /\ (Working(v) => run[v] \in Scans)
    BY SlotRowsAre DEF Own, SlotOwnsJob
  <2>2. pc'[v] = pc[v] /\ run'[v] = run[v] /\ elapsed'[v] = elapsed[v]
    BY <1>1, OthersKeep
  <2>3. Working(v) => status'[run[v]] = status[run[v]] /\ age'[run[v]] = age[run[v]]
    <3>1. Working(v) /\ Working(w) => run[v] # run[w]
      BY <1>1 DEF Own, OneOwner
    <3>2. CASE Pipeline(w)
      <4>1. Working(w)
        BY <3>2 DEF Pipeline, PollStop, SkipStage, StartStage, Beat, EndStage,
           FinaliseCancelled, CloseRun, MarkInitial, Working
      <4>2. ASSUME NEW st, NEW a, NEW stg, Save(run[w], st, stg, a)
            PROVE  Working(v) => status'[run[v]] = status[run[v]] /\ age'[run[v]] = age[run[v]]
        BY <1>t, <2>1, <3>1, <4>1, <4>2 DEF Save
      <4>3. CASE PollStop(w) \/ MarkInitial(w)
        BY <4>3 DEF PollStop, MarkInitial, rowVars
      <4> QED BY <3>2, <4>2, <4>3 DEF Pipeline, SkipStage, StartStage, Beat, EndStage,
              FinaliseCancelled, CloseRun, Record
    <3>3. ASSUME NEW j \in Jobs, NEW s \in Scans, Claim(w, j, s), Working(v)
          PROVE  status'[run[v]] = status[run[v]] /\ age'[run[v]] = age[run[v]]
      <4>1. run[v] # s
        BY <3>3, <1>1 DEF Own, SlotOwnsJob, TriggerOwnsRow, Claim, IdsFor, Jobs
      <4> QED BY <1>t, <2>1, <3>3, <4>1 DEF Claim, Save
    <3>4. ASSUME NEW j \in Jobs, ClaimRefused(w, j)
          PROVE  Working(v) => status'[run[v]] = status[run[v]] /\ age'[run[v]] = age[run[v]]
      BY <3>4 DEF ClaimRefused, rowVars
    <3>5. CASE Ack(w) \/ Crash(w)
      BY <3>5 DEF Ack, Crash, rowVars
    <3>6. CASE TimeOut(w) \/ ShutDown(w)
      BY <1>t, <2>1, <3>1, <3>6 DEF TimeOut, ShutDown, Interrupted, Save, rowVars
    <3> QED BY <3>2, <3>3, <3>4, <3>5, <3>6 DEF Worker
  <2>4. Working(v)' <=> Working(v)
    BY <2>2 DEF Working
  <2> QED BY <2>1, <2>2, <2>3, <2>4 DEF SlotRowOK
<1>2. SlotRowOK(w)'
  <2>1. SlotRowOK(w)
    BY SlotRowsAre
  <2>2. CASE Pipeline(w)
    <3>1. ASSUME NEW st \in {"running", "success", "failed", "cancelled"}, NEW stg,
                 NEW where \in {"check", "stage", "close", "mark"},
                 st \in {"success", "cancelled"} => where = "mark",
                 Working(w), Record(w, st, stg, where)
          PROVE  SlotRowOK(w)'
      <4>1. /\ run'[w] = run[w] /\ elapsed'[w] = elapsed[w] /\ pc'[w] = where
            /\ status'[run[w]] = st
            /\ age'[run[w]] = IF st = "running" THEN elapsed[w] ELSE 0
        BY <1>t, <3>1 DEF Record, Save
      <4> QED BY <1>t, <3>1, <4>1 DEF SlotRowOK, Active
    <3>2. CASE PollStop(w)
      BY <1>t, <2>1, <3>2 DEF PollStop, SlotRowOK, rowVars, Working
    <3>3. CASE MarkInitial(w)
      BY <1>t, <2>1, <3>3 DEF MarkInitial, SlotRowOK, rowVars, Working
    <3>4. /\ AfterStage(w) \in {"check", "close"}
          /\ Verdict(mem[w]) \in {"success", "failed"}
      BY DEF AfterStage, Verdict
    <3>5. CASE SkipStage(w)
      BY <3>1, <3>4, <3>5 DEF SkipStage, Working
    <3>6. CASE StartStage(w)
      BY <3>1, <3>6 DEF StartStage, Working
    <3>7. CASE Beat(w)
      BY <3>1, <3>7 DEF Beat, Working
    <3>8. ASSUME NEW outcome \in Outcomes, EndStage(w, outcome) PROVE SlotRowOK(w)'
      BY <3>1, <3>4, <3>8 DEF EndStage, Working
    <3>9. CASE FinaliseCancelled(w)
      BY <3>1, <3>9 DEF FinaliseCancelled, Working
    <3>10. CASE CloseRun(w)
      BY <3>1, <3>4, <3>10 DEF CloseRun, Working
    <3> QED BY <2>2, <3>2, <3>3, <3>5, <3>6, <3>7, <3>8, <3>9, <3>10 DEF Pipeline
  <2>3. ASSUME NEW j \in Jobs, NEW s \in Scans, Claim(w, j, s) PROVE SlotRowOK(w)'
    <3>1. run'[w] = s /\ elapsed'[w] = 0 /\ status'[s] = "running" /\ age'[s] = 0
      BY <1>t, <2>3 DEF Claim, Save
    <3> QED BY <3>1 DEF SlotRowOK
  <2>4. ASSUME NEW j \in Jobs, ClaimRefused(w, j) PROVE SlotRowOK(w)'
    BY <2>1, <2>4 DEF ClaimRefused, SlotRowOK, Working, rowVars, slotVars
  <2>5. CASE Ack(w) \/ TimeOut(w) \/ ShutDown(w) \/ Crash(w)
    BY <1>t, <2>5 DEF Ack, TimeOut, ShutDown, Crash, FreeSlot, SlotRowOK, Working
  <2> QED BY <2>2, <2>3, <2>4, <2>5 DEF Worker
<1> QED BY <1>1, <1>2, SlotRowsAre DEF SlotRows, SlotRowOK, VerdictMeansIdle,
        RowAgesWithJob

LEMMA RowsNext ==
  ASSUME TypeInv, Own, SlotRows, [Next]_vars
  PROVE  SlotRows'
<1> USE TimesAssumption DEF SlotRows, VerdictMeansIdle, RowAgesWithJob, Working
<1>1. ASSUME UNCHANGED <<status, age, pc, run, elapsed>> PROVE SlotRows'
  BY <1>1
<1>2. ASSUME NEW s \in Scans, Trigger(s) PROVE SlotRows'
  <2>1. CASE TriggerSave(s)
    <3>1. \A w \in Slots : Working(w) => run[w] # s
      BY <2>1 DEF TriggerSave, Own, SlotOwnsJob
    <3> QED BY <2>1, <3>1 DEF TriggerSave, Save, TypeInv, TypeOK, slotVars, Own, SlotOwnsJob
  <2>2. CASE TriggerFail(s)
    BY <2>2 DEF TriggerFail, Save, TypeInv, TypeOK, slotVars, Own, SlotOwnsJob, Active
  <2>3. CASE \/ TriggerCheck(s) \/ TriggerEnqueue(s) \/ TriggerEnqueueRaises(s)
             \/ TriggerDies(s)
    BY <1>1, <2>3 DEF TriggerCheck, TriggerEnqueue, TriggerEnqueueRaises, TriggerDies,
       rowVars, slotVars
  <2> QED BY <1>2, <2>1, <2>2, <2>3 DEF Trigger
<1>3. ASSUME NEW s \in Scans, Cancel(s) PROVE SlotRows'
  BY <1>1, <1>3 DEF Cancel, CancelCheck, RequestCancel, rowVars, slotVars
<1>4. ASSUME NEW w \in Slots, Worker(w) PROVE SlotRows'
  BY <1>4, WorkerRows
<1>5. CASE Scheduler
  <2>1. ASSUME NEW s \in Scans, ReapWrite(s) PROVE SlotRows'
    BY <2>1 DEF ReapWrite, TypeInv, TypeOK, slotVars, Own, SlotOwnsJob, Active
  <2>2. CASE ReapRead \/ Plan \/ EnqueueBoot \/ MarkEnqueued \/ TickFails
    BY <1>1, <2>2 DEF ReapRead, Plan, EnqueueBoot, MarkEnqueued, TickFails, rowVars, slotVars
  <2> QED BY <1>5, <2>1, <2>2 DEF Scheduler
<1>6. CASE TimePasses
  <2>1. ASSUME NEW w \in Slots, Working(w), status[run[w]] \in Active
        PROVE  age'[run[w]] <= elapsed'[w]
    <3>1. run[w] \in Scans /\ age[run[w]] <= elapsed[w]
      BY <2>1 DEF Own, SlotOwnsJob
    <3>2. age'[run[w]] \in {age[run[w]], age[run[w]] + 1} /\ elapsed'[w] = elapsed[w] + 1
      BY <1>6, <2>1, <3>1 DEF TimePasses
    <3> QED BY <3>1, <3>2 DEF TypeInv, TypeOK, MaxAge
  <2> QED BY <1>6, <2>1 DEF TimePasses
<1>7. CASE UNCHANGED vars \/ \E p \in ProgramStates : SetProgram(p)
  BY <1>1, <1>7 DEF vars, SetProgram, rowVars, slotVars
<1> QED BY <1>2, <1>3, <1>4, <1>5, <1>6, <1>7 DEF Next

-----------------------------------------------------------------------------
(* The inductive invariant and what follows from it.                         *)

LEMMA IndInvInit == Init => IndInv
<1> SUFFICES ASSUME Init PROVE IndInv
  OBVIOUS
<1>1. TypeOK /\ AtStage
  BY TypeInvInit DEF TypeInv
<1>2. SlotOwnsJob /\ TriggerOwnsRow /\ OneOwner /\ ReapsRows
  BY OwnInit DEF Own
<1>3. StopWasAsked /\ CopyInOrder /\ VerdictMeansIdle /\ RowAgesWithJob
  BY DEF Init, StopWasAsked, CopyInOrder, CopyOf, VerdictMeansIdle, RowAgesWithJob, Working
<1>4. RowReads
  BY DEF Init, RowReads, ClosedRunIsStill, SuccessMeansAllStagesEnded, StepperInOrder,
     Active, Closed
<1> QED BY <1>1, <1>2, <1>3, <1>4 DEF IndInv

LEMMA IndInvNext == IndInv /\ [Next]_vars => IndInv'
<1> SUFFICES ASSUME IndInv, [Next]_vars PROVE IndInv'
  OBVIOUS
<1>1. TypeInv /\ Own /\ SlotRows
  BY DEF IndInv, TypeInv, Own, SlotRows
<1>2. TypeInv'
  BY <1>1, TypeInvNext DEF IndInv
<1>3. Own'
  BY <1>1, OwnNext
<1>4. StopWasAsked'
  BY <1>1, StopNext DEF IndInv
<1>5. CopyInOrder'
  BY <1>1, CopyNext DEF IndInv
<1>6. RowReads'
  BY <1>1, ReadsNext DEF IndInv
<1>7. SlotRows'
  BY <1>1, RowsNext
<1> QED BY <1>2, <1>3, <1>4, <1>5, <1>6, <1>7 DEF IndInv, TypeInv, Own, SlotRows

\* The inductive invariant holds in every reachable state.
THEOREM IndInvHolds == Spec => []IndInv
BY IndInvInit, IndInvNext, PTL DEF Spec

\* Type correctness.
THEOREM TypeCorrect == Spec => []TypeOK
BY IndInvHolds, PTL DEF IndInv

\* No job and no row is ever in two slots: deduplication by job id, fresh scan
\* ids and redelivery keep one owner, for any number of slots and rows.
THEOREM OneExecution == Spec => []NoDoubleExecution
<1>1. IndInv => NoDoubleExecution
  BY DEF IndInv, OneOwner, NoDoubleExecution
<1> QED BY <1>1, IndInvHolds, PTL

\* However a run is closed (by its loop, a stop, a killed job, the reaper's old
\* copy or a failed enqueue), no stage is left running in its row; a SUCCESS row
\* has only ended stages; an open row reads in order.
THEOREM RowsRead == Spec => []RowReads
<1>1. IndInv => RowReads
  BY DEF IndInv
<1> QED BY <1>1, IndInvHolds, PTL

\* Only a recorded stop makes a run CANCELLED.
THEOREM StopsAreAsked == Spec => []CancelledOnlyOnRequest
<1>1. IndInv => CancelledOnlyOnRequest
  BY DEF IndInv, StopWasAsked, CancelledOnlyOnRequest
<1> QED BY <1>1, IndInvHolds, PTL

\* A SUCCESS or CANCELLED row has no slot still inside its pipeline.
THEOREM VerdictsAreFinal == Spec => []VerdictMeansIdle
BY IndInvHolds, PTL DEF IndInv

\* A run that a slot holds is never taken for a dead one, whatever the values of
\* the two time limits, as long as job_timeout is below the stale limit.
THEOREM LiveRunsAreFresh == Spec => []LiveRunIsNeverStale
<1>1. IndInv => LiveRunIsNeverStale
  BY TimesAssumption DEF IndInv, TypeOK, SlotOwnsJob, RowAgesWithJob, LiveRunIsNeverStale,
     MaxAge
<1> QED BY <1>1, IndInvHolds, PTL

\* A stop never lands on a closed row.
THEOREM LateStopsAreIgnored == Spec => LateStopChangesNothing
<1>1. ASSUME IndInv, [Next]_vars, NEW s \in Scans, status[s] \in Closed, ~cancel[s]
      PROVE  ~cancel'[s]
  <2>1. cancel \in [Scans -> BOOLEAN]
    BY <1>1 DEF IndInv, TypeOK
  <2>2. ASSUME NEW r, NEW st, NEW stg, NEW a, Save(r, st, stg, a) PROVE ~cancel'[s]
    BY <1>1, <2>1, <2>2 DEF Save
  <2>3. ASSUME NEW t \in Scans, Trigger(t) PROVE ~cancel'[s]
    BY <1>1, <2>2, <2>3 DEF Trigger, TriggerCheck, TriggerSave, TriggerEnqueue,
       TriggerEnqueueRaises, TriggerFail, TriggerDies, rowVars
  <2>4. ASSUME NEW t \in Scans, Cancel(t) PROVE ~cancel'[s]
    BY <1>1, <2>1, <2>4 DEF Cancel, CancelCheck, RequestCancel, Cancellable, rowVars,
       Active, Closed
  <2>5. ASSUME NEW w \in Slots, Pipeline(w) PROVE ~cancel'[s]
    BY <1>1, <2>2, <2>5 DEF Pipeline, PollStop, SkipStage, StartStage, Beat, EndStage,
       FinaliseCancelled, CloseRun, MarkInitial, Record, rowVars
  <2>6. ASSUME NEW w \in Slots, Worker(w), ~Pipeline(w) PROVE ~cancel'[s]
    BY <1>1, <2>2, <2>6 DEF Worker, ClaimRefused, Claim, Ack, TimeOut, ShutDown, Crash,
       Interrupted, rowVars
  <2>7. CASE Scheduler
    BY <1>1, <2>7 DEF Scheduler, ReapRead, ReapWrite, Plan, EnqueueBoot, MarkEnqueued,
       TickFails, rowVars
  <2>8. CASE TimePasses \/ UNCHANGED vars \/ \E p \in ProgramStates : SetProgram(p)
    BY <1>1, <2>8 DEF TimePasses, vars, SetProgram, rowVars
  <2> QED BY <1>1, <2>3, <2>4, <2>5, <2>6, <2>7, <2>8 DEF Next
<1>2. IndInv /\ [Next]_vars
      => [\A s \in Scans : status[s] \in Closed /\ ~cancel[s] => ~cancel'[s]]_vars
  BY <1>1
<1> QED BY <1>2, IndInvHolds, PTL DEF Spec, LateStopChangesNothing

-----------------------------------------------------------------------------
(* ScanRuns implements RunBoard.                                             *)

\* Slot w holds its run from the first save to the verdict.
Holds(w) == pc[w] \notin {"idle", "mark", "ack"}

LEMMA HeldRunsAre == HeldRuns = {run[w] : w \in {v \in Slots : Holds(v)}}
BY DEF HeldRuns, Holds

\* What a step of slot w does to the set of held runs.
LEMMA HeldRunsStep ==
  ASSUME IndInv, NEW w \in Slots, Worker(w)
  PROVE  /\ Holds(w) /\ Holds(w)' /\ run'[w] = run[w] => HeldRuns' = HeldRuns
         /\ Holds(w) /\ ~Holds(w)' => /\ run[w] \in HeldRuns
                                      /\ HeldRuns' = HeldRuns \ {run[w]}
         /\ ~Holds(w) /\ ~Holds(w)' => HeldRuns' = HeldRuns
         /\ ~Holds(w) /\ Holds(w)' => HeldRuns' = HeldRuns \cup {run'[w]}
<1>1. \A v \in Slots : v # w => (Holds(v)' <=> Holds(v)) /\ run'[v] = run[v]
  BY OthersKeep DEF IndInv, TypeInv, Holds
<1>2. \A v \in Slots : v # w /\ Holds(v) /\ Holds(w) => run[v] # run[w]
  BY DEF IndInv, OneOwner, Holds, Working
<1>3. HeldRuns' = {run'[v] : v \in {u \in Slots : Holds(u)'}}
  BY DEF HeldRuns, Holds
<1> HIDE DEF Holds
<1> QED BY <1>1, <1>2, <1>3, HeldRunsAre

LEMMA BoardInitImplied == Init => Board!BoardInit
BY DEF Init, Board!BoardInit, HeldRuns

\* A step of a slot: it takes a run, advances it, decides it or drops it.
LEMMA WorkerBoard ==
  ASSUME IndInv, NEW w \in Slots, Worker(w)
  PROVE  [Board!BoardNext]_(Board!boardVars)
<1> USE DEF Board!BoardNext, Board!boardVars, Board!Show
<1>t. /\ status \in [Scans -> {"absent"} \cup Active \cup Closed]
      /\ pc \in [Slots -> {"idle", "check", "launch", "stage", "beat", "finalise",
                            "close", "mark", "ack"}]
      /\ run \in [Slots -> Scans \cup {None}]
      /\ Working(w) => run[w] \in Scans
  BY DEF IndInv, TypeOK, SlotOwnsJob
<1>1. ASSUME NEW j \in Jobs, ClaimRefused(w, j) PROVE [Board!BoardNext]_(Board!boardVars)
  BY <1>1 DEF ClaimRefused, rowVars, apiVars, slotVars, HeldRuns
<1>2. ASSUME NEW j \in Jobs, NEW s \in Scans, Claim(w, j, s)
      PROVE  [Board!BoardNext]_(Board!boardVars)
  <2>1. ~Holds(w) /\ Holds(w)' /\ run'[w] = s
    BY <1>t, <1>2 DEF Claim, Holds
  <2>2. HeldRuns' = HeldRuns \cup {s}
    BY <2>1, HeldRunsStep
  <2>3. \A v \in Slots : Working(v) => run[v] # s
    BY <1>2, IdsAssumption
       DEF Claim, IdsFor, Jobs, IndInv, SlotOwnsJob, TriggerOwnsRow
  <2>4. s \notin HeldRuns
    BY <2>3 DEF HeldRuns, Working
  <2>5. Board!Take(s)
    BY <1>2, <2>2, <2>4 DEF Board!Take, Claim, Save, apiVars
  <2> QED BY <2>5
<1>3. CASE Pipeline(w)
  <2>1. Working(w)
    BY <1>3 DEF Pipeline, PollStop, SkipStage, StartStage, Beat, EndStage,
       FinaliseCancelled, CloseRun, MarkInitial, Working
  <2>2. ASSUME NEW st, NEW stg, NEW where, Record(w, st, stg, where), Holds(w),
               \/ st = "running" /\ where \in {"check", "stage", "close"}
               \/ st \in {"success", "failed", "cancelled"} /\ where = "mark"
                    /\ (st = "cancelled" => asked[run[w]])
        PROVE  [Board!BoardNext]_(Board!boardVars)
    <3>1. /\ run' = run /\ pc'[w] = where /\ asked' = asked
          /\ status' = [status EXCEPT ![run[w]] = st]
      BY <1>t, <2>2 DEF Record, Save, apiVars
    <3>2. CASE st = "running"
      <4>1. HeldRuns' = HeldRuns /\ run[w] \in HeldRuns
        BY <2>2, <3>1, <3>2, HeldRunsStep, HeldRunsAre DEF Holds
      <4>2. Board!Advance(run[w])
        BY <3>1, <3>2, <4>1 DEF Board!Advance
      <4> QED BY <1>t, <2>1, <4>2
    <3>3. CASE st # "running"
      <4>1. run[w] \in HeldRuns /\ HeldRuns' = HeldRuns \ {run[w]}
        BY <2>2, <3>1, <3>3, HeldRunsStep DEF Holds
      <4>2. Board!Decide(run[w], st)
        BY <2>2, <3>1, <3>3, <4>1 DEF Board!Decide
      <4> QED BY <1>t, <2>1, <2>2, <3>3, <4>2
    <3> QED BY <3>2, <3>3
  <2>3. CASE PollStop(w)
    <3>1. Holds(w) /\ Holds(w)' /\ run' = run
      BY <1>t, <2>3 DEF PollStop, Holds
    <3> QED BY <2>3, <3>1, HeldRunsStep DEF PollStop, rowVars, apiVars
  <2>4. CASE MarkInitial(w)
    <3>1. ~Holds(w) /\ ~Holds(w)'
      BY <1>t, <2>4 DEF MarkInitial, Holds
    <3> QED BY <2>4, <3>1, HeldRunsStep DEF MarkInitial, rowVars, apiVars
  <2>5. /\ AfterStage(w) \in {"check", "close"}
        /\ Verdict(mem[w]) \in {"success", "failed"}
    BY DEF AfterStage, Verdict
  <2>6. CASE SkipStage(w)
    BY <2>2, <2>5, <2>6 DEF SkipStage, Holds
  <2>7. CASE StartStage(w)
    BY <2>2, <2>7 DEF StartStage, Holds
  <2>8. CASE Beat(w)
    BY <2>2, <2>8 DEF Beat, Holds
  <2>9. ASSUME NEW outcome \in Outcomes, EndStage(w, outcome)
        PROVE  [Board!BoardNext]_(Board!boardVars)
    BY <2>2, <2>5, <2>9 DEF EndStage, Holds
  <2>10. CASE FinaliseCancelled(w)
    BY <2>2, <2>10 DEF FinaliseCancelled, Holds, IndInv, StopWasAsked
  <2>11. CASE CloseRun(w)
    BY <2>2, <2>5, <2>11 DEF CloseRun, Holds
  <2> QED BY <1>3, <2>3, <2>4, <2>6, <2>7, <2>8, <2>9, <2>10, <2>11 DEF Pipeline
<1>4. ASSUME Working(w), FreeSlot(w), UNCHANGED apiVars, UNCHANGED rowVars
      PROVE  [Board!BoardNext]_(Board!boardVars)
  <2>1. ~Holds(w)'
    BY <1>t, <1>4 DEF FreeSlot, Holds
  <2>2. CASE Holds(w)
    <3>1. Board!Drop(run[w])
      BY <1>4, <2>1, <2>2, HeldRunsStep DEF Board!Drop, rowVars, apiVars
    <3> QED BY <1>t, <1>4, <3>1
  <2>3. CASE ~Holds(w)
    BY <1>4, <2>1, <2>3, HeldRunsStep DEF rowVars, apiVars
  <2> QED BY <2>2, <2>3
<1>5. ASSUME Working(w), FreeSlot(w), UNCHANGED apiVars, Interrupted(w)
      PROVE  [Board!BoardNext]_(Board!boardVars)
  <2>1. CASE pc[w] \in {"stage", "beat"}
    <3>1. Holds(w) /\ ~Holds(w)'
      BY <1>t, <1>5, <2>1 DEF FreeSlot, Holds
    <3>2. Board!Decide(run[w], "failed")
      BY <1>5, <2>1, <3>1, HeldRunsStep DEF Board!Decide, Interrupted, Save, apiVars
    <3> QED BY <1>t, <1>5, <3>2
  <2>2. CASE pc[w] \notin {"stage", "beat"}
    BY <1>4, <1>5, <2>2 DEF Interrupted
  <2> QED BY <2>1, <2>2
<1>6. CASE Ack(w) \/ Crash(w)
  BY <1>4, <1>6 DEF Ack, Crash, Working
<1>7. CASE TimeOut(w) \/ ShutDown(w)
  BY <1>5, <1>7 DEF TimeOut, ShutDown
<1> QED BY <1>1, <1>2, <1>3, <1>6, <1>7 DEF Worker

LEMMA BoardStep ==
  IndInv /\ [Next]_vars => [Board!BoardNext]_(Board!boardVars)
<1> SUFFICES ASSUME IndInv, [Next]_vars PROVE [Board!BoardNext]_(Board!boardVars)
  OBVIOUS
<1> USE DEF Board!BoardNext, Board!boardVars, Board!Show
<1>1. ASSUME UNCHANGED <<status, asked, pc, run>> PROVE [Board!BoardNext]_(Board!boardVars)
  BY <1>1 DEF HeldRuns
<1>2. ASSUME NEW s \in Scans, Trigger(s) PROVE [Board!BoardNext]_(Board!boardVars)
  <2>1. CASE TriggerSave(s)
    <3>1. Board!Submit(s)
      BY <2>1 DEF Board!Submit, TriggerSave, Save, HeldRuns, slotVars, IndInv, TriggerOwnsRow
    <3> QED BY <3>1
  <2>2. CASE TriggerFail(s)
    <3>1. Board!GiveUp(s)
      BY <2>2 DEF Board!GiveUp, TriggerFail, Save, HeldRuns, slotVars, IndInv, TriggerOwnsRow
    <3> QED BY <3>1
  <2>3. CASE \/ TriggerCheck(s) \/ TriggerEnqueue(s) \/ TriggerEnqueueRaises(s)
             \/ TriggerDies(s)
    BY <1>1, <2>3 DEF TriggerCheck, TriggerEnqueue, TriggerEnqueueRaises, TriggerDies,
       rowVars, slotVars
  <2> QED BY <1>2, <2>1, <2>2, <2>3 DEF Trigger
<1>3. ASSUME NEW s \in Scans, Cancel(s) PROVE [Board!BoardNext]_(Board!boardVars)
  <2>1. CASE CancelCheck(s)
    BY <1>1, <2>1 DEF CancelCheck, rowVars, slotVars
  <2>2. CASE RequestCancel(s)
    <3>1. Board!Ask(s) \/ UNCHANGED <<status, asked, pc, run>>
      BY <2>2 DEF Board!Ask, Board!Open, RequestCancel, Cancellable, Active, HeldRuns, slotVars
    <3> QED BY <1>1, <3>1
  <2> QED BY <1>3, <2>1, <2>2 DEF Cancel
<1>4. ASSUME NEW w \in Slots, Worker(w) PROVE [Board!BoardNext]_(Board!boardVars)
  BY <1>4, WorkerBoard
<1>5. CASE Scheduler
  <2>1. ASSUME NEW s \in Scans, ReapWrite(s) PROVE [Board!BoardNext]_(Board!boardVars)
    <3>1. Board!GiveUp(s)
      BY <2>1 DEF Board!GiveUp, ReapWrite, apiVars, slotVars, HeldRuns, IndInv, ReapsRows
    <3> QED BY <3>1
  <2>2. CASE ReapRead \/ Plan \/ EnqueueBoot \/ MarkEnqueued \/ TickFails
    BY <1>1, <2>2 DEF ReapRead, Plan, EnqueueBoot, MarkEnqueued, TickFails, rowVars,
       apiVars, slotVars
  <2> QED BY <1>5, <2>1, <2>2 DEF Scheduler
<1>6. CASE TimePasses \/ UNCHANGED vars \/ \E p \in ProgramStates : SetProgram(p)
  BY <1>1, <1>6 DEF TimePasses, vars, SetProgram, rowVars, apiVars, slotVars
<1> QED BY <1>2, <1>3, <1>4, <1>5, <1>6 DEF Next

\* The rows implement the abstract board: only its holder shows a run running or
\* gives its verdict, and everybody else can only fail it.
THEOREM Implementation == Spec => ImplementsRunBoard
BY BoardInitImplied, BoardStep, IndInvHolds, PTL
   DEF Spec, ImplementsRunBoard, Board!BoardSpec
=============================================================================
