------------------------------- MODULE OnDemand -------------------------------
(***************************************************************************)
(* Runs that a user starts by hand: a canvas of the Playground and the      *)
(* 403-bypass.  The API checks a request, saves its row and enqueues it in  *)
(* three steps; a worker executes it and reports through the row; the       *)
(* scheduler's reaper closes rows that nobody does.                         *)
(*                                                                         *)
(* A canvas reports every change of a node by a write that it does not wait *)
(* for, so writes land late and in any order.                               *)
(***************************************************************************)
EXTENDS Naturals, FiniteSets, FiniteSetsExt

CONSTANTS
  Canvases,   \* playground requests
  Bypasses,   \* requests for a 403-bypass
  Nodes,      \* ids of a canvas, numbers: the runner sorts them
  Graphs,     \* canvases that a user may draw: tier of a node, edges
  Hosts,
  Typed,      \* hosts in the Target node's textarea
  InScope,    \* hosts of the program
  Excluded,   \* hosts that the program never touches
  Endpoints, HostOf,
  MaxTries,   \* deliveries of a job
  MaxMoves,   \* bound on revocations, renewals and changes of the endpoints
  MaxWrites,  \* bound on progress writes under way at once
  MaxFaults

Requests == Canvases \cup Bypasses
Tiers == {"source", "pipeline", "filter", "merge"}

ASSUME OnDemandAssumption ==
  /\ Canvases \cap Bypasses = {} /\ Nodes \subseteq Nat /\ IsFiniteSet(Nodes)
  /\ \A g \in Graphs : g.tier \in [Nodes -> Tiers] /\ g.edges \subseteq Nodes \X Nodes
  /\ UNION {Typed, InScope, Excluded} \subseteq Hosts /\ HostOf \in [Endpoints -> Hosts]
  /\ InScope \cap Excluded = {}
  /\ MaxTries \in Nat /\ MaxMoves \in Nat /\ MaxWrites \in Nat /\ MaxFaults \in Nat

VARIABLES
  graph,       \* the canvas
  owner,       \* the requester is owner of the instance
  authorized,  \* the program's authorization is current
  api,         \* how far the API is with a request
  row,         \* the run's row: status, and the nodes it shows
  old,         \* rows whose started_at is beyond the reaper's limit
  queue, tries,
  exec,        \* what a worker does
  writes,      \* progress writes that are under way
  waived, touched,      \* history: hosts that nodes touched with and without the waiver
  forbidden, recorded,  \* endpoints that answer 401 or 403, and the result kept of them
  moves, faults

apiVars == <<graph, owner, authorized, api, moves>>
rowVars == <<row, old>>
workVars == <<waived, touched, recorded>>
vars == <<apiVars, rowVars, queue, tries, exec, writes, workVars, forbidden, faults>>

Fault == faults < MaxFaults /\ faults' = faults + 1
Fine == UNCHANGED faults

Untold == [n \in Nodes |-> "none"]
Ended == {"success", "failed", "skipped"}
Nowhere == [at |-> "idle", report |-> Untold, outputs |-> [n \in Nodes |-> {}], node |-> 0]

-----------------------------------------------------------------------------
(* The graph *)

Upstream(n) == {m \in Nodes : <<m, n>> \in graph.edges}

\* Input sockets of a node; those of filter and the first of merge must be wired.
Sockets(t) == CASE t = "source" -> {0} [] t = "pipeline" -> {0, 1}
                [] t = "filter" -> {1} [] t = "merge" -> {1, 2}

\* _toposort: the first k nodes of the order, Kahn's algorithm with a sorted ready list
Ready(seen) == {n \in Nodes \ seen : Upstream(n) \subseteq seen}
First[k \in Nat] ==
  IF k = 0 THEN {}
  ELSE LET ready == Ready(First[k - 1])
       IN  IF ready = {} THEN First[k - 1] ELSE First[k - 1] \cup {Min(ready)}

validate ==
  /\ \A n \in Nodes : Cardinality(Upstream(n)) \in Sockets(graph.tier[n])
  /\ First[Cardinality(Nodes)] = Nodes

HasTarget == \E n \in Nodes : graph.tier[n] = "source"

-----------------------------------------------------------------------------
(* The API *)

SaveRow(r, status, nodes) == row' = [row EXCEPT ![r] = [status |-> status, nodes |-> nodes]]

\* A bypass whose worker has begun; its heartbeat keeps it fresh.
active_bypass == \E b \in Bypasses : row[b].status = "running" /\ b \notin old

Check(r) ==
  /\ api[r] = "new" /\ api' = [api EXCEPT ![r] = "checked"]
  /\ UNCHANGED <<graph, owner, authorized, moves, rowVars, queue, tries, exec, writes,
                 workVars, forbidden, faults>>

\* A canvas with a Target is the owner's; who is owner stays owner.
AcceptCanvas(r) == r \in Canvases /\ validate /\ (HasTarget => owner) /\ Check(r)

\* A bypass needs the authorization, and no other that has begun.
AcceptBypass(r) == r \in Bypasses /\ authorized /\ ~active_bypass /\ Check(r)

SaveQueued(r) ==
  /\ api[r] = "checked"
  /\ api' = [api EXCEPT ![r] = "saved"]
  /\ SaveRow(r, "queued", Untold)
  /\ UNCHANGED <<graph, owner, authorized, moves, old, queue, tries, exec, writes,
                 workVars, forbidden, faults>>

\* The enqueue may raise although the job got through; the API may die before it.
Enqueue(r) ==
  /\ api[r] = "saved"
  /\ \/ api' = [api EXCEPT ![r] = "done"] /\ queue' = queue \cup {r} /\ Fine
     \/ api' = [api EXCEPT ![r] = "failing"] /\ queue' \in {queue, queue \cup {r}} /\ Fault
     \/ api' = [api EXCEPT ![r] = "done"] /\ UNCHANGED queue /\ Fault
  /\ UNCHANGED <<graph, owner, authorized, moves, rowVars, tries, exec, writes,
                 workVars, forbidden>>

SaveFailed(r) ==
  /\ api[r] = "failing"
  /\ api' = [api EXCEPT ![r] = "done"]
  /\ SaveRow(r, "failed", Untold)
  /\ UNCHANGED <<graph, owner, authorized, moves, old, queue, tries, exec, writes,
                 workVars, forbidden, faults>>

-----------------------------------------------------------------------------
(* The worker *)

Working(r) == exec[r].at # "idle"

\* A delivery.  The payload of a canvas says what the API found of the requester; a bypass
\* whose authorization has gone raises and leaves its row as it is.
Take(r) ==
  /\ r \in queue /\ ~Working(r) /\ tries[r] < MaxTries
  /\ queue' = queue \ {r} /\ tries' = [tries EXCEPT ![r] = @ + 1]
  /\ \/ /\ r \in Canvases
        /\ exec' = [exec EXCEPT ![r] = [Nowhere EXCEPT !.at = "loop"]]
        /\ old' = old \ {r} /\ UNCHANGED row
     \/ /\ r \in Bypasses /\ authorized
        /\ exec' = [exec EXCEPT ![r] = [Nowhere EXCEPT !.at = "loop"]]
        /\ old' = old \ {r} /\ SaveRow(r, "running", Untold)
     \/ r \in Bypasses /\ ~authorized /\ UNCHANGED <<exec, rowVars>>
  /\ UNCHANGED <<apiVars, writes, workVars, forbidden, faults>>

\* on_event: the row's new contents are handed to a task.
Emit(r, run) ==
  /\ Cardinality(writes[r]) < MaxWrites
  /\ exec' = [exec EXCEPT ![r] = run]
  /\ writes' = [writes EXCEPT ![r] = @ \cup {run.report}]
  /\ UNCHANGED <<apiVars, rowVars, queue, tries, forbidden>>

\* The order of the loop
Next1(r) == Min(Ready({n \in Nodes : exec[r].report[n] \in Ended}))
Remaining(r) == \E n \in Nodes : exec[r].report[n] = "none"

\* A mutant: a node is skipped only if all it waits for failed.
BlockedByAll(r, n) ==
  Upstream(n) # {} /\ \A m \in Upstream(n) : exec[r].report[m] \in {"failed", "skipped"}

\* An upstream node failed or was skipped.
Blocked(r, n) == \E m \in Upstream(n) : exec[r].report[m] \in {"failed", "skipped"}

BeginNode(r) ==
  /\ r \in Canvases /\ exec[r].at = "loop" /\ Remaining(r)
  /\ LET n == Next1(r) IN
       Emit(r, IF Blocked(r, n) THEN [exec[r] EXCEPT !.report[n] = "skipped"]
               ELSE [exec[r] EXCEPT !.report[n] = "running", !.at = "node", !.node = n])
  /\ Fine /\ UNCHANGED workVars

Inputs(r, n) == UNION {exec[r].outputs[m] : m \in Upstream(n)}

\* A mutant: the waiver follows the hosts along the wires.
freeform_passed_on(r, n) ==
  IF \E m \in Nodes : graph.tier[m] = "source" THEN Inputs(r, n) ELSE {}

\* Only a wire straight from a Target node waives the authorization.
freeform_hosts_feeding(r, n) ==
  UNION {exec[r].outputs[m] : m \in {k \in Upstream(n) : graph.tier[k] = "source"}}

Produce(r, n, hosts) ==
  [exec[r] EXCEPT !.report[n] = "success", !.at = "loop", !.outputs[n] = hosts]

FailNode(r) == [exec[r] EXCEPT !.report[exec[r].node] = "failed", !.at = "loop"]

RunSource(r, n) ==
  graph.tier[n] = "source" /\ Emit(r, Produce(r, n, Typed)) /\ Fine /\ UNCHANGED workVars

RunUtility(r, n) ==
  /\ graph.tier[n] \in {"filter", "merge"}
  /\ \E hosts \in IF graph.tier[n] = "merge" THEN {Inputs(r, n)}
                  ELSE {Inputs(r, n), {}} : Emit(r, Produce(r, n, hosts))
  /\ Fine /\ UNCHANGED workVars

\* run_pipeline on the program: no hosts mean all of them.
RunOnProgram(r, n) ==
  /\ graph.tier[n] = "pipeline" /\ freeform_hosts_feeding(r, n) = {} /\ authorized
  /\ LET hosts == IF Inputs(r, n) = {} THEN InScope ELSE Inputs(r, n) \cap InScope IN
       /\ touched' = touched \cup hosts
       /\ \E found \in {{}, InScope} : Emit(r, Produce(r, n, found))
  /\ UNCHANGED <<waived, recorded>> /\ Fine

\* A scope made of the hosts typed, for this run only
freeform_scope(hosts) == hosts \ Excluded

RunFreeform(r, n) ==
  /\ graph.tier[n] = "pipeline" /\ freeform_hosts_feeding(r, n) # {}
  /\ LET hosts == freeform_scope(freeform_hosts_feeding(r, n)) IN
       waived' = waived \cup hosts /\ Emit(r, Produce(r, n, hosts))
  /\ UNCHANGED <<touched, recorded>> /\ Fine

\* A node ends, is refused or runs out of its budget.
EndNode(r) ==
  LET n == exec[r].node IN
  /\ exec[r].at = "node"
  /\ \/ RunSource(r, n) \/ RunUtility(r, n) \/ RunOnProgram(r, n) \/ RunFreeform(r, n)
     \/ /\ graph.tier[n] = "pipeline" /\ freeform_hosts_feeding(r, n) = {} /\ ~authorized
        /\ Emit(r, FailNode(r)) /\ Fine /\ UNCHANGED workVars
     \/ Emit(r, FailNode(r)) /\ Fault /\ UNCHANGED workVars

\* A progress write reaches the database.
Land(r) ==
  \E shown \in writes[r] :
    /\ writes' = [writes EXCEPT ![r] = @ \ {shown}]
    /\ SaveRow(r, "running", shown)
    /\ UNCHANGED <<apiVars, old, queue, tries, exec, workVars, forbidden, faults>>

Close(r, status, nodes) ==
  /\ SaveRow(r, status, nodes)
  /\ exec' = [exec EXCEPT ![r].at = "ack"]
  /\ UNCHANGED <<apiVars, old, queue, tries, writes, workVars, forbidden>>

\* A mutant: the verdict does not wait for the writes.
FinishAtOnce(r) ==
  /\ r \in Canvases /\ exec[r].at = "loop" /\ ~Remaining(r)
  /\ Close(r, "success", exec[r].report) /\ Fine

\* Every write has landed; the verdict is success, whatever became of the nodes.
Finish(r) ==
  /\ r \in Canvases /\ exec[r].at = "loop" /\ ~Remaining(r) /\ writes[r] = {}
  /\ Close(r, "success", exec[r].report) /\ Fine

record_bypass(e, through) ==
  [recorded EXCEPT ![e] = IF through THEN "bypassed" ELSE "tried"]

\* run_bypass: the live answer first; what gets through must get through twice.
TryBypass(r, e) ==
  /\ r \in Bypasses /\ exec[r].at = "loop" /\ HostOf[e] \in InScope
  /\ \E works, again \in BOOLEAN :
       recorded' = record_bypass(e, e \in forbidden /\ works /\ again)
  /\ UNCHANGED <<apiVars, rowVars, queue, tries, exec, writes, waived, touched, forbidden,
                 faults>>

EndBypass(r) ==
  /\ r \in Bypasses /\ exec[r].at = "loop"
  /\ \/ Close(r, IF forbidden = {} THEN "skipped" ELSE "success", Untold) /\ Fine
     \/ Close(r, "failed", Untold) /\ Fault

Ack(r) ==
  /\ exec[r].at = "ack"
  /\ exec' = [exec EXCEPT ![r] = Nowhere]
  /\ UNCHANGED <<apiVars, rowVars, queue, tries, writes, workVars, forbidden, faults>>

\* job_timeout cancels the task: no handler saves anything, writes under way go on.
TimeOut(r) ==
  /\ Working(r)
  /\ exec' = [exec EXCEPT ![r] = Nowhere]
  /\ UNCHANGED <<apiVars, rowVars, queue, tries, writes, workVars, forbidden, faults>>

\* The worker dies or is restarted; the queue delivers the job again.
Crash(r) ==
  /\ Working(r) /\ Fault
  /\ exec' = [exec EXCEPT ![r] = Nowhere]
  /\ writes' = [writes EXCEPT ![r] = {}]
  /\ queue' = queue \cup {r}
  /\ UNCHANGED <<apiVars, rowVars, tries, workVars, forbidden>>

-----------------------------------------------------------------------------
(* The reaper, the users and the world *)

Open == {"queued", "running"}

\* A row grows old unless a worker is at it: the job timeout is below the limit.
GrowOld(r) ==
  /\ row[r].status \in Open /\ r \notin old /\ ~Working(r)
  /\ old' = old \cup {r}
  /\ UNCHANGED <<apiVars, row, queue, tries, exec, writes, workVars, forbidden, faults>>

\* A mutant: only rows that a worker took are closed.
reap_running(r) == r \in old /\ row[r].status = "running"

stale(r) == r \in old /\ row[r].status \in Open

Reap(r) ==
  /\ stale(r)
  /\ SaveRow(r, "failed", row[r].nodes)
  /\ UNCHANGED <<apiVars, old, queue, tries, exec, writes, workVars, forbidden, faults>>

Change ==
  /\ moves < MaxMoves /\ moves' = moves + 1
  /\ \/ authorized' = ~authorized /\ UNCHANGED forbidden
     \/ \E opened \in SUBSET Endpoints : forbidden' = forbidden \ opened /\ UNCHANGED authorized
  /\ UNCHANGED <<graph, owner, api, rowVars, queue, tries, exec, writes, workVars, faults>>

\* Users start canvases or bypasses: the two share nothing but the authorization.
Init ==
  /\ graph \in Graphs /\ owner \in BOOLEAN /\ authorized \in BOOLEAN
  /\ \E asked \in {Canvases, Bypasses} :
       api = [r \in Requests |-> IF r \in asked THEN "new" ELSE "never"]
  /\ row = [r \in Requests |-> [status |-> "absent", nodes |-> Untold]] /\ old = {}
  /\ queue = {} /\ tries = [r \in Requests |-> 0]
  /\ exec = [r \in Requests |-> Nowhere] /\ writes = [r \in Requests |-> {}]
  /\ waived = {} /\ touched = {}
  /\ forbidden = Endpoints /\ recorded = [e \in Endpoints |-> "none"]
  /\ moves = 0 /\ faults = 0

Next ==
  \/ \E r \in Requests :
       \/ AcceptCanvas(r) \/ AcceptBypass(r) \/ SaveQueued(r) \/ Enqueue(r) \/ SaveFailed(r)
       \/ Take(r) \/ BeginNode(r) \/ EndNode(r) \/ Land(r) \/ Finish(r)
       \/ (\E e \in Endpoints : TryBypass(r, e)) \/ EndBypass(r)
       \/ Ack(r) \/ TimeOut(r) \/ Crash(r) \/ GrowOld(r) \/ Reap(r)
  \/ Change

Spec == Init /\ [][Next]_vars

\* The clock, job_timeout and the scheduler's reaper go on, and so do writes to the
\* database; nothing else is promised.
FairSpec == Spec /\ \A r \in Requests : /\ WF_vars(GrowOld(r)) /\ WF_vars(Reap(r))
                                        /\ WF_vars(TimeOut(r)) /\ WF_vars(Land(r))

-----------------------------------------------------------------------------
(* Properties *)

\* The verdict of a canvas is its last word ("let every queued progress write land before
\* the terminal one"): while a row says success and its job was delivered once, nothing is
\* under way that would turn it back, and it shows how each node ended.
VerdictIsLast ==
  \A r \in Canvases :
    row[r].status = "success" /\ tries[r] = 1 =>
      writes[r] = {} /\ \A n \in Nodes : row[r].nodes[n] \in Ended

\* Everything a node is fed by, near or far
Sources(n) ==
  LET up[k \in Nat] == IF k = 0 THEN Upstream(n)
                       ELSE up[k - 1] \cup UNION {Upstream(m) : m \in up[k - 1]}
  IN  up[Cardinality(Nodes)]

\* "One node erroring marks that node failed and skips everything downstream of it, while
\* independent branches still run": in whatever order the loop takes the nodes, a node is
\* skipped if and only if something it is fed by, near or far, failed.
FailureStaysBelow ==
  \A r \in Canvases : \A n \in Nodes :
    /\ exec[r].report[n] = "skipped" => \E m \in Sources(n) : exec[r].report[m] = "failed"
    /\ exec[r].report[n] \in {"running", "success"} =>
         \A m \in Sources(n) : exec[r].report[m] = "success"

\* "A host discovered by a properly-scoped scan could be piped onward and silently shed
\* the scope": the waiver reaches only hosts the owner typed and the program does not
\* exclude, and everything else that a canvas touches is in the program's scope.
WaiverStaysDirect ==
  /\ waived \subseteq Typed \ Excluded
  /\ touched \subseteq InScope

\* Every row that is saved is closed in the end, whatever dies, is refused or times out.
RowIsClosed == \A r \in Requests : row[r].status \in Open ~> row[r].status \notin Open
=============================================================================
