----------------------------- MODULE ScanRunsInv -----------------------------
(***************************************************************************)
(* The inductive invariant of ScanRuns: who owns a job, what a slot's copy *)
(* of the stages can hold, and what ties the rows to both.  TLC checks it  *)
(* on small instances; ScanRuns_proofs proves it inductive.                *)
(***************************************************************************)
EXTENDS ScanRuns

\* A slot inside the loop is at an existing stage, a slot past it is not.
AtStage ==
  \A w \in Slots :
    /\ pc[w] \in {"check", "launch", "stage", "beat"} => at[w] \in Stage
    /\ pc[w] = "close" => at[w] = NStages + 1

\* An idle slot holds nothing; a working slot's job is not also waiting; a job
\* of the API runs the row it was made for, the bootstrap job a row no trigger
\* request knows.
SlotOwnsJob ==
  \A w \in Slots :
    /\ ~Working(w) => job[w] = None
    /\ Working(w) =>
         /\ job[w] \in Jobs \ queue
         /\ run[w] \in Scans
         /\ status[run[w]] # "absent"
         /\ IF job[w] = Boot THEN trig[run[w]] = "none"
                             ELSE run[w] = job[w] /\ trig[run[w]] \in {"failing", "done"}

\* What the progress of a trigger request says of its row and of its job.
TriggerOwnsRow ==
  \A s \in Scans :
    /\ trig[s] = "checked" => status[s] = "absent"
    /\ trig[s] \in {"saved", "failing"} => status[s] # "absent"
    /\ s \in queue => trig[s] \in {"failing", "done"}

\* Distinct slots hold distinct jobs and distinct rows.
OneOwner ==
  \A v, w \in Slots : v # w /\ Working(v) /\ Working(w)
                        => job[v] # job[w] /\ run[v] # run[w]

\* The stop flag, a slot that saw it and a stopped row all go back to a request.
StopWasAsked ==
  /\ \A s \in Scans : cancel[s] \/ status[s] = "cancelled" => asked[s]
  /\ \A w \in Slots : pc[w] = "finalise" => asked[run[w]]

\* Inside the loop a slot's copy reads: ended stages, the stage at hand, then
\* queued ones.
CopyOf(w) ==
  pc[w] \in {"check", "launch", "stage", "beat", "finalise", "close"} =>
    \A k \in Stage :
      /\ k < at[w] => mem[w][k] \in Outcomes
      /\ k > at[w] => mem[w][k] = "queued"
      /\ k = at[w] => \/ mem[w][k] = "queued" /\ pc[w] \in {"check", "launch", "finalise"}
                      \/ mem[w][k] = "running" /\ pc[w] \in {"stage", "beat", "finalise"}

CopyInOrder == \A w \in Slots : CopyOf(w)

\* What a row shows fits its status, whoever wrote it last and from however old a copy:
\* the loop, a stop, a killed job, the reaper or the API's failure leave no running stage
\* behind, a success has no stage that failed, and a row in flight reads in order.
RowReads ==
  /\ ClosedRunIsStill
  /\ SuccessMeansAllStagesEnded
  /\ StepperInOrder

\* The row of a running slot is no older than the slot's job.
RowAgesWithJob ==
  \A w \in Slots : Working(w) /\ status[run[w]] \in Active => age[run[w]] <= elapsed[w]

\* The reaper only holds rows that exist.
ReapsRows == \A s \in reaping : status[s] # "absent"

\* All of it: the invariant that a step of Next preserves.
IndInv ==
  /\ TypeOK
  /\ AtStage
  /\ SlotOwnsJob
  /\ TriggerOwnsRow
  /\ OneOwner
  /\ StopWasAsked
  /\ CopyInOrder
  /\ RowReads
  /\ VerdictMeansIdle
  /\ RowAgesWithJob
  /\ ReapsRows
=============================================================================
