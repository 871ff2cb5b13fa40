-------------------------------- MODULE Traffic --------------------------------
(***************************************************************************)
(* What a stage sends to one target: requests that the process makes itself *)
(* and paces through the politeness limiter, and tools, child processes     *)
(* that it can only kill.  Each worker runs a stage at a time.              *)
(*                                                                         *)
(* The limiter is a token bucket in Redis that all workers share; a worker  *)
(* whose call to Redis fails takes from a bucket of its own instead, which  *)
(* has the share of one worker in rate and burst.  Tokens are counted in    *)
(* units of 1/worker_fleet_size, and the time in ticks of 1/rate.           *)
(***************************************************************************)
EXTENDS Naturals, FiniteSets, FiniteSetsExt

CONSTANTS
  Workers,
  Fetches,            \* requests that stages make, over and over
  Streams, Buffered,  \* calls of stream_tool, calls of run_tool
  WorkerOf,           \* the worker of a fetch or a call
  worker_fleet_size,
  Burst,              \* tokens of the full bucket
  MaxWait,            \* ticks that acquire waits
  Drain               \* what the history forgets in a tick, in tokens

Tools == Streams \cup Buffered

ASSUME TrafficAssumption ==
  /\ IsFiniteSet(Workers) /\ Streams \cap Buffered = {} /\ Fetches \cap Tools = {}
  /\ WorkerOf \in [Fetches \cup Tools -> Workers]
  /\ worker_fleet_size \in Nat \ {0} /\ Cardinality(Workers) <= worker_fleet_size
  /\ Burst \in Nat \ {0} /\ MaxWait \in Nat /\ Drain \in Nat

VARIABLES
  stage,   \* per worker: "running", "cancelling" or "over"
  up,      \* Redis answers
  tokens,  \* of the shared bucket
  local,   \* of each worker's own
  fetch,   \* [at, waited]
  call,    \* "idle", "reading", "reaping" (the output has ended), "killed" or "never"
  child,   \* "none", "running", "mute" (has closed its output) or "dead"
  sent     \* history: what was sent to the target and is not forgotten

stores == <<up, tokens, local, sent>>
tools == <<call, child>>
vars == <<stage, stores, fetch, tools>>

Token == worker_fleet_size
FullBucket == Burst * Token

\* _local_limit: the share of one worker, and never less than one token
LocalBucket == IF Burst > Token THEN Burst ELSE Token

\* Buckets fill when they are asked; filling them with the clock comes to the same.
Refilled(has, full, by) == IF has + by > full THEN full ELSE has + by

Idle == [at |-> "idle", waited |-> 0]
OwnFetches(w) == {f \in Fetches : WorkerOf[f] = w}
OwnTools(w) == {t \in Tools : WorkerOf[t] = w}
Quiet(w) == /\ \A f \in OwnFetches(w) : fetch[f].at \in {"idle", "never"}
            /\ \A t \in OwnTools(w) : call[t] \in {"idle", "never"}

-----------------------------------------------------------------------------
(* The limiter *)

Acquire(f) ==
  /\ stage[WorkerOf[f]] = "running" /\ fetch[f].at = "idle"
  /\ fetch' = [fetch EXCEPT ![f].at = "asking"]
  /\ UNCHANGED <<stage, stores, tools>>

Granted(f) == fetch' = [fetch EXCEPT ![f].at = "fetching"] /\ sent' = sent + Token

\* A mutant: who is refused waits until he gets a token.
RefusedForGood(f) == fetch' = [fetch EXCEPT ![f].at = "sleeping"] /\ UNCHANGED sent

\* "proceeds anyway rather than dropping the request"
Refused(f) ==
  /\ fetch' = [fetch EXCEPT ![f].at = IF fetch[f].waited >= MaxWait
                                      THEN "fetching" ELSE "sleeping"]
  /\ UNCHANGED sent

TakeShared(f) ==
  /\ up
  /\ \/ tokens >= Token /\ tokens' = tokens - Token /\ Granted(f)
     \/ tokens < Token /\ UNCHANGED tokens /\ Refused(f)
  /\ UNCHANGED local

\* A mutant: a worker that is on its own takes what it wants.
TakeFree(f) == Granted(f) /\ UNCHANGED <<tokens, local>>

\* Redis fails to answer, though the script may have run.
TakeLocal(f) ==
  LET w == WorkerOf[f] IN
  /\ \/ UNCHANGED tokens
     \/ up /\ tokens >= Token /\ tokens' = tokens - Token
  /\ \/ local[w] >= Token /\ local' = [local EXCEPT ![w] = @ - Token] /\ Granted(f)
     \/ local[w] < Token /\ UNCHANGED local /\ Refused(f)

Take(f) ==
  /\ fetch[f].at = "asking"
  /\ TakeShared(f) \/ TakeLocal(f)
  /\ UNCHANGED <<stage, up, tools>>

Fetched(f) ==
  /\ fetch[f].at = "fetching"
  /\ fetch' = [fetch EXCEPT ![f] = Idle]
  /\ UNCHANGED <<stage, stores, tools>>

\* A tick: one token for the shared bucket, each worker's share for its own.  Who sleeps
\* asks again.
Tick ==
  /\ tokens' = Refilled(tokens, FullBucket, Token)
  /\ local' = [w \in Workers |-> Refilled(local[w], LocalBucket, 1)]
  /\ fetch' = [f \in Fetches |-> IF fetch[f].at = "sleeping"
                                 THEN [at |-> "asking",
                                       waited |-> IF fetch[f].waited < MaxWait
                                                  THEN fetch[f].waited + 1 ELSE MaxWait]
                                 ELSE fetch[f]]
  /\ sent' = IF sent > Drain * Token THEN sent - Drain * Token ELSE 0
  /\ UNCHANGED <<stage, up, tools>>

RedisFails == up /\ up' = FALSE /\ UNCHANGED <<stage, tokens, local, sent, fetch, tools>>
RedisReturns == ~up /\ up' = TRUE /\ UNCHANGED <<stage, tokens, local, sent, fetch, tools>>

-----------------------------------------------------------------------------
(* Tools *)

OnlyTools == UNCHANGED <<stage, stores, fetch>>
Leave(t) == call' = [call EXCEPT ![t] = "idle"]
Kill(t) == child' = [child EXCEPT ![t] = "dead"]

Spawn(t) ==
  /\ stage[WorkerOf[t]] = "running" /\ call[t] = "idle" /\ child[t] \in {"none", "dead"}
  /\ call' = [call EXCEPT ![t] = "reading"] /\ child' = [child EXCEPT ![t] = "running"]
  /\ OnlyTools

\* The child closes its output, or ends; nothing makes it do so.
Closes(t) ==
  /\ child[t] = "running" /\ child' = [child EXCEPT ![t] = "mute"]
  /\ UNCHANGED call /\ OnlyTools

Ends(t) == child[t] \in {"running", "mute"} /\ Kill(t) /\ UNCHANGED call /\ OnlyTools

\* run_tool: communicate waits for the output and the child alike.
Communicated(t) ==
  t \in Buffered /\ call[t] = "reading" /\ child[t] = "dead" /\ Leave(t) /\ UNCHANGED child
  /\ OnlyTools

\* stream_tool: the pumps end with the output, and the child is waited for without a limit.
Pumped(t) ==
  /\ t \in Streams /\ call[t] = "reading" /\ child[t] \in {"mute", "dead"}
  /\ call' = [call EXCEPT ![t] = "reaping"] /\ UNCHANGED child /\ OnlyTools

\* The timeout kills the child; what is left to do is to wait for it.
TimesOut(t) ==
  /\ call[t] = "reading" /\ Kill(t) /\ call' = [call EXCEPT ![t] = "killed"] /\ OnlyTools

Reaped(t) ==
  /\ call[t] \in {"reaping", "killed"} /\ child[t] = "dead"
  /\ Leave(t) /\ UNCHANGED child /\ OnlyTools

-----------------------------------------------------------------------------
(* Stages *)

StageDone(w) ==
  /\ stage[w] = "running" /\ Quiet(w)
  /\ stage' = [stage EXCEPT ![w] = "over"] /\ UNCHANGED <<stores, fetch, tools>>

\* The user's stop, or the budget of the stage: the task is cancelled.
Cancel(w) ==
  /\ stage[w] = "running"
  /\ stage' = [stage EXCEPT ![w] = "cancelling"] /\ UNCHANGED <<stores, fetch, tools>>

\* The cancellation arrives where a fetch waits, for a token or an answer.
CancelFetch(f) ==
  /\ stage[WorkerOf[f]] = "cancelling" /\ fetch[f].at \in {"asking", "sleeping", "fetching"}
  /\ fetch' = [fetch EXCEPT ![f] = Idle] /\ UNCHANGED <<stage, stores, tools>>

\* A mutant: only a timeout kills.
AbandonTool(t) ==
  /\ stage[WorkerOf[t]] = "cancelling" /\ call[t] \in {"reading", "reaping", "killed"}
  /\ Leave(t) /\ UNCHANGED child /\ OnlyTools

\* It kills the child, unless the timeout has done so, and does not wait for it.
CancelTool(t) ==
  /\ stage[WorkerOf[t]] = "cancelling" /\ call[t] \in {"reading", "reaping", "killed"}
  /\ Leave(t) /\ Kill(t) /\ OnlyTools

Cancelled(w) ==
  /\ stage[w] = "cancelling" /\ Quiet(w)
  /\ stage' = [stage EXCEPT ![w] = "over"] /\ UNCHANGED <<stores, fetch, tools>>

NextStage(w) ==
  /\ stage[w] = "over"
  /\ stage' = [stage EXCEPT ![w] = "running"] /\ UNCHANGED <<stores, fetch, tools>>

\* Stages make requests or call tools: the two share nothing but the stage.
Init ==
  /\ stage = [w \in Workers |-> "running"] /\ up = TRUE
  /\ tokens = FullBucket /\ local = [w \in Workers |-> LocalBucket] /\ sent = 0
  /\ \E made \in {Fetches, Tools} :
       /\ fetch = [f \in Fetches |-> IF f \in made THEN Idle ELSE [Idle EXCEPT !.at = "never"]]
       /\ call = [t \in Tools |-> IF t \in made THEN "idle" ELSE "never"]
  /\ child = [t \in Tools |-> "none"]

Next ==
  \/ \E f \in Fetches : Acquire(f) \/ Take(f) \/ Fetched(f) \/ CancelFetch(f)
  \/ Tick \/ RedisFails \/ RedisReturns
  \/ \E t \in Tools : \/ Spawn(t) \/ Closes(t) \/ Ends(t) \/ Communicated(t) \/ Pumped(t)
                      \/ TimesOut(t) \/ Reaped(t) \/ CancelTool(t)
  \/ \E w \in Workers : StageDone(w) \/ Cancel(w) \/ Cancelled(w) \/ NextStage(w)

Spec == Init /\ [][Next]_vars

\* The clock goes on and the event loop runs what is ready; neither the target, nor Redis,
\* nor a child owes anything, and no stage is cancelled to help its requests.
FairSpec ==
  Spec /\ WF_vars(Tick) /\ \A f \in Fetches : WF_vars(Take(f)) /\ WF_vars(CancelFetch(f))

-----------------------------------------------------------------------------
(* Properties *)

TypeOK ==
  /\ stage \in [Workers -> {"running", "cancelling", "over"}] /\ up \in BOOLEAN
  /\ tokens \in 0..FullBucket /\ local \in [Workers -> 0..LocalBucket] /\ sent \in Nat
  /\ fetch \in [Fetches -> [at : {"idle", "asking", "sleeping", "fetching", "never"},
                            waited : Nat]]
  /\ call \in [Tools -> {"idle", "reading", "reaping", "killed", "never"}]
  /\ child \in [Tools -> {"none", "running", "mute", "dead"}]

\* Whatever comes and goes between the workers and Redis: with Drain = 2, what the limiter
\* has let through in any interval is at most twice the rate, and what was missing in the
\* buckets at its end.  Twice, because the workers on Redis have the whole rate and those
\* on their own have their share on top of it.
TwiceTheCeiling ==
  sent <= (FullBucket - tokens)
            + MapThenSumSet(LAMBDA w : LocalBucket - local[w], Workers)

\* "the aggregate stays within the configured cap", "even if every worker degrades at
\* once": with Drain = 1, no interval sees more than the rate and one burst.
CeilingHolds == sent <= FullBucket

\* "a stop must terminate the child, not just abandon it": when a stage is over, however
\* it ended, no child of it runs on and no request of it is under way.
OverMeansQuiet ==
  \A w \in Workers : stage[w] = "over" =>
    /\ \A f \in OwnFetches(w) : fetch[f].at \in {"idle", "never"}
    /\ \A t \in OwnTools(w) : child[t] \in {"none", "dead"}

\* "politeness must cost time, not findings": a request that asks for a token is made or
\* falls with its stage, however many compete for the tokens.
NothingIsDropped ==
  \A f \in Fetches : fetch[f].at = "asking" ~> fetch[f].at \in {"fetching", "idle"}
=============================================================================
