-------------------------- MODULE PhaseRuns_proofs --------------------------
(***************************************************************************)
(* One execution of a phase at a time, for any number of programs, phases, *)
(* slots, deliveries and faults other than a timeout: the queue dedups the *)
(* job of a program and phase while it waits and while it runs, so a job   *)
(* is in one place only (Ownership), whatever the duplicate guard sees.    *)
(***************************************************************************)
EXTENDS PhaseRuns, TLAPS

LEMMA NothingIsNoJob == Nothing \notin Jobs
BY PlanAssumption DEF Nothing, Jobs, Pairs, Programs, Phases

LEMMA WholeIsJob ==
  ASSUME NEW pr \in Pairs
  PROVE  Whole(pr) \in Jobs
BY DEF Whole, Jobs

\* What a phase triggers are jobs of the same program.
LEMMA FollowOnAreJobs ==
  ASSUME NEW j \in Jobs, NEW hosts \in Hosts \cup {{}}, NEW isNew \in BOOLEAN
  PROVE  FollowOnJobs(j, hosts, isNew) \subseteq Jobs
<1>1. /\ j.pair[1] \in Programs
      /\ FollowOn[j.pair[2]] \subseteq Phases
  BY CascadeAssumption DEF Jobs, Pairs
<1>2. \A p \in Phases : /\ [pair |-> <<j.pair[1], p>>, hosts |-> hosts] \in Jobs
                        /\ Whole(<<j.pair[1], p>>) \in Jobs
  BY <1>1, WholeIsJob DEF Jobs, Pairs
<1> QED BY <1>1, <1>2 DEF FollowOnJobs

\* The initial states satisfy the invariant.
LEMMA PhaseInit == Init => PhaseInv
BY PlanAssumption, TimeAssumption, NothingIsNoJob
   DEF Init, PhaseInv, TypeOK, Ownership, Deliveries, StraysTimedOut, InFlight, Never

-----------------------------------------------------------------------------
(* What an action does to the places of the jobs *)

\* Enqueueing: the queue gets only jobs that are nowhere else.
LEMMA EnqueueKeepsOwnership ==
  ASSUME PhaseInv, NEW js \in SUBSET Jobs, queue' = Enqueued(js),
         UNCHANGED <<job, tries>>, \A w \in Slots : pc'[w] = "idle" <=> pc[w] = "idle"
  PROVE  queue' \subseteq Jobs /\ Ownership' /\ Deliveries'
<1>1. /\ queue' \subseteq Jobs
      /\ queue \subseteq queue'
      /\ \A j \in queue' \ queue : j \in Jobs /\ ~ InFlight(j)
  BY DEF PhaseInv, TypeOK, Enqueued, Held
<1>2. Ownership'
  BY <1>1 DEF PhaseInv, Ownership, InFlight
<1>3. \A j \in queue' \ queue : tries[j] = 0
  BY <1>1 DEF PhaseInv, Deliveries
<1>4. Deliveries'
  BY <1>1, <1>3, TimeAssumption DEF PhaseInv, Deliveries, InFlight
<1> QED BY <1>1, <1>2, <1>4

\* A step that moves no job.
LEMMA SamePlaces ==
  ASSUME PhaseInv, UNCHANGED <<queue, job, tries>>,
         \A w \in Slots : pc'[w] = "idle" <=> pc[w] = "idle"
  PROVE  Ownership' /\ Deliveries'
BY DEF PhaseInv, Ownership, Deliveries, InFlight

\* A slot is freed, and its job is queued again or forgotten.
LEMMA FreeKeepsOwnership ==
  ASSUME PhaseInv, NEW w \in Slots, pc[w] # "idle", FreeSlot(w),
         Forget(job[w]) \/ Redeliver(job[w])
  PROVE  /\ queue' \subseteq Jobs
         /\ kept' \in [Jobs -> 0 .. KeepResult]
         /\ tries' \in [Jobs -> 0 .. MaxTries]
         /\ Ownership' /\ Deliveries'
<1> DEFINE j == job[w]
<1>1. /\ queue \subseteq Jobs
      /\ kept \in [Jobs -> 0 .. KeepResult]
      /\ tries \in [Jobs -> 0 .. MaxTries]
      /\ job \in [Slots -> Jobs \cup {Nothing}]
      /\ pc \in [Slots -> {"idle", "gate", "check", "save", "run", "close", "cascade", "ack"}]
  BY DEF PhaseInv, TypeOK
<1>2. j \in Jobs /\ j # Nothing /\ j \notin queue
  BY <1>1, NothingIsNoJob DEF PhaseInv, Ownership
<1>3. /\ job' = [job EXCEPT ![w] = Nothing]
      /\ pc' = [pc EXCEPT ![w] = "idle"]
  BY DEF FreeSlot
<1>4. \A v \in Slots : job'[v] # j
  BY <1>1, <1>2, <1>3 DEF PhaseInv, Ownership
<1>5. CASE Forget(j)
  <2>1. /\ queue' = queue
        /\ tries' = [tries EXCEPT ![j] = 0]
        /\ kept' = [kept EXCEPT ![j] = KeepResult]
    BY <1>5 DEF Forget
  <2>2. Ownership'
    BY <2>1, <1>1, <1>2, <1>3, NothingIsNoJob DEF PhaseInv, Ownership
  <2>3. \A i \in Jobs \ queue : tries'[i] = 0 \/ InFlight(i)'
    <3>1. tries'[j] = 0 /\ \A i \in Jobs : i # j => tries'[i] = tries[i]
      BY <2>1, <1>1, <1>2
    <3>2. \A i \in Jobs : i # j /\ InFlight(i) => InFlight(i)'
      BY <1>1, <1>2, <1>3 DEF InFlight
    <3>3. \A i \in Jobs \ queue : tries[i] = 0 \/ InFlight(i)
      BY DEF PhaseInv, Deliveries
    <3> QED BY ONLY <3>1, <3>2, <3>3
  <2>4. \A i \in queue : tries'[i] = tries[i]
    BY <2>1, <1>1, <1>2
  <2>5. Deliveries'
    BY <2>1, <2>3, <2>4 DEF PhaseInv, Deliveries
  <2>6. /\ kept' \in [Jobs -> 0 .. KeepResult]
        /\ tries' \in [Jobs -> 0 .. MaxTries]
    <3>1. KeepResult \in 0 .. KeepResult /\ 0 \in 0 .. MaxTries
      BY TimeAssumption
    <3> QED BY ONLY <3>1, <2>1, <1>1
  <2> QED BY <2>1, <2>2, <2>5, <2>6, <1>1
<1>6. CASE ~ Forget(j) /\ Redeliver(j)
  <2>1. /\ tries[j] < MaxTries
        /\ queue' = queue \cup {j}
        /\ UNCHANGED <<kept, tries>>
    BY <1>6 DEF Redeliver
  <2>2. Ownership'
    BY <2>1, <1>1, <1>2, <1>3, <1>4, NothingIsNoJob DEF PhaseInv, Ownership
  <2>3. Deliveries'
    BY <2>1, <1>1, <1>2, <1>3 DEF PhaseInv, Deliveries, InFlight
  <2> QED BY <2>1, <2>2, <2>3, <1>1, <1>2
<1> QED BY <1>5, <1>6

\* A slot takes a job of the queue.
LEMMA TakeKeepsOwnership ==
  ASSUME PhaseInv, NEW w \in Slots, NEW j \in Jobs, Take(w, j)
  PROVE  tries' \in [Jobs -> 0 .. MaxTries] /\ Ownership' /\ Deliveries'
<1>1. /\ queue \subseteq Jobs
      /\ tries \in [Jobs -> 0 .. MaxTries]
      /\ job \in [Slots -> Jobs \cup {Nothing}]
      /\ pc \in [Slots -> {"idle", "gate", "check", "save", "run", "close", "cascade", "ack"}]
  BY DEF PhaseInv, TypeOK
<1>2. /\ pc[w] = "idle"
      /\ j \in queue
      /\ queue' = queue \ {j}
      /\ tries' = [tries EXCEPT ![j] = @ + 1]
      /\ pc' = [pc EXCEPT ![w] = "gate"]
      /\ job' = [job EXCEPT ![w] = j]
  BY DEF Take
<1>3. tries[j] < MaxTries /\ job[w] = Nothing /\ j # Nothing
  BY <1>1, <1>2, NothingIsNoJob DEF PhaseInv, Deliveries, Ownership
<1>4. tries' \in [Jobs -> 0 .. MaxTries]
  BY <1>1, <1>2, <1>3, TimeAssumption
<1>5. Ownership'
  BY <1>1, <1>2, <1>3 DEF PhaseInv, Ownership
<1>6. \A i \in queue' : tries'[i] < MaxTries
  BY <1>1, <1>2 DEF PhaseInv, Deliveries
<1>7. \A i \in Jobs \ queue' : tries'[i] = 0 \/ InFlight(i)'
  <2> SUFFICES ASSUME NEW i \in Jobs \ queue' PROVE tries'[i] = 0 \/ InFlight(i)'
    OBVIOUS
  <2>1. CASE i = j
    BY <2>1, <1>1, <1>2 DEF InFlight
  <2>2. CASE i # j
    <3>1. tries'[i] = tries[i] /\ i \notin queue
      BY <2>2, <1>1, <1>2
    <3>2. \A v \in Slots : job[v] = i => job'[v] = i
      BY <1>1, <1>2, <1>3, NothingIsNoJob
    <3> QED BY <3>1, <3>2 DEF PhaseInv, Deliveries, InFlight
  <2> QED BY <2>1, <2>2
<1> QED BY <1>4, <1>5, <1>6, <1>7 DEF Deliveries

-----------------------------------------------------------------------------
(* The invariant is preserved *)

LEMMA SchedulerKeepsInv ==
  ASSUME PhaseInv, Scheduler \/ TickFails
  PROVE  PhaseInv'
<1> USE DEF planVars, queueVars, slotVars, deadVars, userVars
<1>1. CASE Plan
  <2>1. Planned \subseteq Pairs
    BY DEF Planned, Candidates, PhaseInv, TypeOK
  <2>2. TypeOK'
    BY <1>1, <2>1 DEF Plan, PhaseInv, TypeOK
  <2>3. Ownership' /\ Deliveries'
    BY <1>1, SamePlaces DEF Plan
  <2> QED BY <1>1, <2>2, <2>3 DEF Plan, PhaseInv, StraysTimedOut
<1>2. ASSUME NEW pr \in Pairs, Enqueue(pr) PROVE PhaseInv'
  <2>1. queue' \subseteq Jobs /\ Ownership' /\ Deliveries'
    <3>1. {Whole(pr)} \in SUBSET Jobs
      BY WholeIsJob
    <3> QED BY <1>2, <3>1, EnqueueKeepsOwnership DEF Enqueue
  <2>2. TypeOK'
    BY <1>2, <2>1 DEF Enqueue, PhaseInv, TypeOK
  <2> QED BY <1>2, <2>1, <2>2 DEF Enqueue, PhaseInv, StraysTimedOut
<1>3. CASE Mark
  <2>1. last' \in [Pairs -> Int] /\ \A pr \in Pairs : last'[pr] \in {Never} \cup (0 .. Interval[pr[2]])
    <3>1. \A pr \in Pairs : pr[2] \in Phases /\ 0 \in 0 .. Interval[pr[2]]
      BY PlanAssumption DEF Pairs
    <3>2. last \in [Pairs -> Int] /\ \A pr \in Pairs : last[pr] \in {Never} \cup (0 .. Interval[pr[2]])
      BY DEF PhaseInv, TypeOK
    <3>3. last' = [last EXCEPT ![marking] = 0]
      BY <1>3 DEF Mark
    <3>4. last' \in [Pairs -> Int]
      <4>1. last \in [Pairs -> Int]
        BY <3>2
      <4>2. \A pr \in Pairs : last[pr] \in Int
        BY <4>1
      <4>3. last' = [pr \in Pairs |-> IF pr = marking THEN 0 ELSE last[pr]]
        BY <4>1, <3>3, Zenon
      <4>4. \A pr \in Pairs : (IF pr = marking THEN 0 ELSE last[pr]) \in Int
        BY <4>2
      <4> QED BY <4>3, <4>4, Zenon
    <3>5. \A pr \in Pairs : last'[pr] = last[pr] \/ last'[pr] = 0
      BY ONLY <3>2, <3>3
    <3> QED BY <3>1, <3>2, <3>4, <3>5
  <2>2. TypeOK'
    BY <1>3, <2>1 DEF Mark, PhaseInv, TypeOK
  <2>3. Ownership' /\ Deliveries'
    BY <1>3, SamePlaces DEF Mark
  <2> QED BY <1>3, <2>2, <2>3 DEF Mark, PhaseInv, StraysTimedOut
<1>4. CASE TickFails
  <2>1. TypeOK'
    BY <1>4, TimeAssumption DEF TickFails, Fault, PhaseInv, TypeOK
  <2>2. Ownership' /\ Deliveries'
    BY <1>4, SamePlaces DEF TickFails
  <2> QED BY <1>4, <2>1, <2>2 DEF TickFails, PhaseInv, StraysTimedOut
<1> QED BY <1>1, <1>2, <1>3, <1>4 DEF Scheduler

LEMMA WorkerKeepsInv ==
  ASSUME PhaseInv, NEW w \in Slots, Worker(w)
  PROVE  PhaseInv'
<1> USE DEF planVars, queueVars, slotVars, deadVars, userVars
<1>0. TypeOK /\ Ownership /\ Deliveries /\ StraysTimedOut
  BY DEF PhaseInv
<1>1. ASSUME NEW j \in Jobs, Take(w, j) PROVE PhaseInv'
  <2>1. tries' \in [Jobs -> 0 .. MaxTries] /\ Ownership' /\ Deliveries'
    BY <1>1, TakeKeepsOwnership
  <2>2. TypeOK'
    BY <1>0, <1>1, <2>1 DEF Take, TypeOK
  <2> QED BY <1>0, <1>1, <2>1, <2>2 DEF Take, PhaseInv, StraysTimedOut
<1>2. CASE Gate(w) \/ Check(w) \/ Save(w) \/ Heartbeat(w)
  <2>1. TypeOK'
    BY <1>0, <1>2 DEF Gate, Check, Save, Heartbeat, Goto, TypeOK
  <2>2. \A v \in Slots : pc'[v] = "idle" <=> pc[v] = "idle"
    BY <1>0, <1>2 DEF Gate, Check, Save, Heartbeat, Goto, TypeOK
  <2>3. UNCHANGED <<queue, job, tries, strays>>
    BY <1>2 DEF Gate, Check, Save, Heartbeat, Goto
  <2> QED BY <1>0, <2>1, <2>2, <2>3, SamePlaces DEF PhaseInv, StraysTimedOut
<1>3. CASE Return(w)
  <2>1. job[w] \in Jobs
    BY <1>0, <1>3 DEF Return, Ownership, TypeOK
  <2>2. found' \in [Slots -> SUBSET Jobs]
    <3>1. PICK js \in SUBSET Jobs : found' = [found EXCEPT ![w] = js]
      BY <1>3, <2>1, FollowOnAreJobs DEF Return
    <3> QED BY <1>0, <3>1 DEF TypeOK
  <2>3. TypeOK'
    BY <1>0, <1>3, <2>2 DEF Return, Goto, TypeOK
  <2>4. /\ \A v \in Slots : pc'[v] = "idle" <=> pc[v] = "idle"
        /\ UNCHANGED <<queue, job, tries, strays>>
    BY <1>0, <1>3 DEF Return, Goto, TypeOK
  <2> QED BY <1>0, <2>3, <2>4, SamePlaces DEF PhaseInv, StraysTimedOut
<1>4. CASE Close(w)
  <2>1. TypeOK'
    BY <1>0, <1>4 DEF Close, Goto, TypeOK
  <2>2. /\ \A v \in Slots : pc'[v] = "idle" <=> pc[v] = "idle"
        /\ UNCHANGED <<queue, job, tries, strays>>
    BY <1>0, <1>4 DEF Close, Goto, TypeOK
  <2> QED BY <1>0, <2>1, <2>2, SamePlaces DEF PhaseInv, StraysTimedOut
<1>5. CASE Cascade(w)
  <2>1. PICK j \in found[w] :
          /\ queue' = Enqueued({j})
          /\ found' = [found EXCEPT ![w] = @ \ {j}]
          /\ pc' = [pc EXCEPT ![w] = IF found[w] = {j} THEN "ack" ELSE "cascade"]
    BY <1>5 DEF Cascade
  <2>2. {j} \in SUBSET Jobs
    BY <1>0, <2>1 DEF TypeOK
  <2>3. /\ \A v \in Slots : pc'[v] = "idle" <=> pc[v] = "idle"
        /\ UNCHANGED <<job, tries, strays>>
    BY <1>0, <1>5, <2>1 DEF Cascade, TypeOK
  <2>4. queue' \subseteq Jobs /\ Ownership' /\ Deliveries'
    BY <2>1, <2>2, <2>3, EnqueueKeepsOwnership
  <2>5. TypeOK'
    BY <1>0, <1>5, <2>1, <2>4 DEF Cascade, TypeOK
  <2> QED BY <1>0, <2>3, <2>4, <2>5 DEF PhaseInv, StraysTimedOut
<1>6. CASE Ack(w)
  <2>1. /\ queue' \subseteq Jobs
        /\ kept' \in [Jobs -> 0 .. KeepResult]
        /\ tries' \in [Jobs -> 0 .. MaxTries]
        /\ Ownership' /\ Deliveries'
    BY <1>6, FreeKeepsOwnership DEF Ack
  <2>2. TypeOK'
    BY <1>0, <1>6, <2>1 DEF Ack, FreeSlot, TypeOK
  <2> QED BY <1>0, <1>6, <2>1, <2>2 DEF Ack, PhaseInv, StraysTimedOut
<1> QED BY <1>1, <1>2, <1>3, <1>4, <1>5, <1>6 DEF Worker

\* A row that is left behind is young.
LEMMA AbandonTypes ==
  ASSUME TypeOK, NEW w \in Slots, Abandon(w)
  PROVE  orphan' \in [Pairs -> 0 .. Fresh]
<1>1. orphan \in [Pairs -> 0 .. Fresh] /\ beat[w] \in 0 .. Fresh
  BY TimeAssumption DEF TypeOK
<1>2. orphan' = orphan \/ \E pr : orphan' = [orphan EXCEPT ![pr] = beat[w]]
  BY DEF Abandon
<1> QED BY <1>1, <1>2

LEMMA FaultsKeepInv ==
  ASSUME PhaseInv, NEW w \in Slots, WorkerFaults(w)
  PROVE  PhaseInv'
<1> USE DEF planVars, queueVars, slotVars, deadVars, userVars
<1>0. TypeOK /\ Ownership /\ Deliveries /\ StraysTimedOut
  BY DEF PhaseInv
<1>1. CASE CascadeFails(w)
  <2>1. TypeOK'
    BY <1>0, <1>1, TimeAssumption DEF CascadeFails, Fault, TypeOK
  <2>2. /\ \A v \in Slots : pc'[v] = "idle" <=> pc[v] = "idle"
        /\ UNCHANGED <<queue, job, tries, strays>>
    BY <1>0, <1>1 DEF CascadeFails, TypeOK
  <2> QED BY <1>0, <2>1, <2>2, SamePlaces DEF PhaseInv, StraysTimedOut
<1>2. CASE Die(w)
  <2>1. /\ queue' \subseteq Jobs
        /\ kept' \in [Jobs -> 0 .. KeepResult]
        /\ tries' \in [Jobs -> 0 .. MaxTries]
        /\ Ownership' /\ Deliveries'
    BY <1>2, FreeKeepsOwnership DEF Die
  <2>2. orphan' \in [Pairs -> 0 .. Fresh]
    BY <1>0, <1>2, AbandonTypes DEF Die
  <2>3. faults' \in 0 .. MaxFaults
    BY <1>0, <1>2, TimeAssumption DEF Die, Fault, TypeOK
  <2>4. TypeOK'
    BY <1>0, <1>2, <2>1, <2>2, <2>3 DEF Die, FreeSlot, TypeOK
  <2> QED BY <1>0, <1>2, <2>1, <2>4 DEF Die, PhaseInv, StraysTimedOut
<1>3. CASE TimeOut(w)
  <2>0. pc[w] # "idle"
    BY <1>3 DEF TimeOut
  <2>1. /\ queue' \subseteq Jobs
        /\ kept' \in [Jobs -> 0 .. KeepResult]
        /\ tries' \in [Jobs -> 0 .. MaxTries]
        /\ Ownership' /\ Deliveries'
    BY <1>3, <2>0, FreeKeepsOwnership DEF TimeOut
  <2>2. orphan' \in [Pairs -> 0 .. Fresh]
    BY <1>0, <1>3, AbandonTypes DEF TimeOut
  <2>3. faults' \in 0 .. MaxFaults
    BY <1>0, <1>3, TimeAssumption DEF TimeOut, Fault, TypeOK
  <2>4. strays' \subseteq Pairs
    <3>1. job[w].pair \in Pairs
      BY <1>0, <2>0 DEF Ownership, TypeOK, Jobs
    <3> QED BY <1>0, <1>3, <3>1 DEF TimeOut, TypeOK
  <2>5. TypeOK'
    BY <1>0, <1>3, <2>1, <2>2, <2>3, <2>4 DEF TimeOut, FreeSlot, TypeOK
  <2>6. StraysTimedOut'
    BY <1>3 DEF TimeOut, Fault, StraysTimedOut
  <2> QED BY <2>1, <2>5, <2>6 DEF PhaseInv
<1> QED BY <1>1, <1>2, <1>3 DEF WorkerFaults

LEMMA RestKeepsInv ==
  ASSUME PhaseInv,
         \/ \E pr \in Pairs : StrayEnds(pr)
         \/ User
         \/ \E g \in Programs : StartFull(g) \/ EndFull(g)
  PROVE  PhaseInv'
<1> USE DEF planVars, queueVars, slotVars, deadVars, userVars
<1>1. UNCHANGED <<queue, job, tries, pc>>
  BY DEF StrayEnds, User, StartFull, EndFull
<1>2. TypeOK'
  BY TimeAssumption DEF StrayEnds, User, StartFull, EndFull, PhaseInv, TypeOK
<1>3. strays' \subseteq strays
  BY DEF StrayEnds, User, StartFull, EndFull
<1> QED BY <1>1, <1>2, <1>3, SamePlaces DEF PhaseInv, StraysTimedOut

LEMMA TickKeepsInv ==
  ASSUME PhaseInv, Tick
  PROVE  PhaseInv'
<1> USE DEF planVars, queueVars, slotVars, deadVars, userVars
<1>0. TypeOK
  BY DEF PhaseInv
<1>1. last' \in [Pairs -> Int] /\ \A pr \in Pairs : last'[pr] \in {Never} \cup (0 .. Interval[pr[2]])
  <2>1. \A pr \in Pairs : Interval[pr[2]] \in Nat
    BY PlanAssumption DEF Pairs
  <2> QED BY <1>0, <2>1 DEF Tick, Older, Never, TypeOK
<1>2. kept' \in [Jobs -> 0 .. KeepResult]
  BY <1>0, TimeAssumption DEF Tick, TypeOK
<1>3. beat' \in [Slots -> 0 .. 1]
  BY <1>0 DEF Tick, TypeOK
<1>4. orphan' \in [Pairs -> 0 .. Fresh]
  BY <1>0, TimeAssumption DEF Tick, Older, TypeOK
<1>5. TypeOK'
  BY <1>0, <1>1, <1>2, <1>3, <1>4 DEF Tick, TypeOK
<1>6. UNCHANGED <<queue, job, tries, pc, strays>>
  BY DEF Tick
<1> QED BY <1>5, <1>6, SamePlaces DEF PhaseInv, StraysTimedOut

LEMMA PhaseStep == PhaseInv /\ [Next]_vars => PhaseInv'
<1> SUFFICES ASSUME PhaseInv, [Next]_vars PROVE PhaseInv'
  OBVIOUS
<1>1. CASE UNCHANGED vars
  BY <1>1 DEF vars, PhaseInv, TypeOK, Ownership, Deliveries, StraysTimedOut, InFlight
<1>2. CASE Next
  BY <1>2, SchedulerKeepsInv, WorkerKeepsInv, FaultsKeepInv, RestKeepsInv,
     TickKeepsInv DEF Next
<1> QED BY <1>1, <1>2

-----------------------------------------------------------------------------
(* The theorems *)

\* A job is in one place and its deliveries are counted, always.
THEOREM PhaseInvHolds == Spec => []PhaseInv
BY PhaseInit, PhaseStep, PTL DEF Spec

\* The variables of the continuous engine keep their types: no job is delivered
\* more than MaxTries times.
THEOREM PhaseTypes == Spec => []TypeOK
<1>1. PhaseInv => TypeOK
  BY DEF PhaseInv
<1> QED BY <1>1, PhaseInvHolds, PTL

\* At most one job of a phase over a whole program is under way, however workers crash
\* and shut down and whatever times out.
THEOREM OneRunAtATime == Spec => []OnePhaseRun
<1>1. PhaseInv => OnePhaseRun
  <2> SUFFICES ASSUME PhaseInv, NEW pr \in Pairs,
                      NEW w \in Slots, NEW v \in Slots, Running(w, pr), Running(v, pr)
               PROVE  w = v
    BY DEF OnePhaseRun
  <2>1. Whole(pr) # Nothing
    BY WholeIsJob, NothingIsNoJob
  <2> QED BY <2>1 DEF Running, PhaseInv, Ownership
<1> QED BY <1>1, PhaseInvHolds, PTL

\* If no job reaches its timeout, nothing runs beside it either.
THEOREM OneRunWithoutTimeouts ==
  "timeout" \notin FaultKinds => (Spec => []NoStrayBeside)
<1> SUFFICES ASSUME "timeout" \notin FaultKinds PROVE Spec => []NoStrayBeside
  OBVIOUS
<1>1. PhaseInv => NoStrayBeside
  BY DEF PhaseInv, StraysTimedOut, NoStrayBeside
<1> QED BY <1>1, PhaseInvHolds, PTL
=============================================================================
