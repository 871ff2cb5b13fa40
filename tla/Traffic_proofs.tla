----------------------------- MODULE Traffic_proofs -----------------------------
(***************************************************************************)
(* That a stage which is over leaves nothing behind, and that the limiter  *)
(* lets through no more than twice the rate, for any number of workers,    *)
(* requests and tools.                                                     *)
(*                                                                         *)
(* OverMeansQuiet is not inductive: it says nothing of the calls, and a    *)
(* call that still reads may start to wait for a child.  The proof keeps   *)
(* two more facts: a child that runs has a call that will kill it or wait  *)
(* for its end, and a stage that is over has no call under way.            *)
(*                                                                         *)
(* TwiceTheCeiling needs no more than the buckets' types; its sum over the *)
(* workers is a function defined along the sizes of sets of workers, and   *)
(* what a step does to it is shown by induction over these sizes.          *)
(***************************************************************************)
EXTENDS Traffic, FiniteSetTheorems, TLAPS

Typed ==
  /\ stage \in [Workers -> {"running", "cancelling", "over"}]
  /\ DOMAIN fetch = Fetches /\ \A f \in Fetches : DOMAIN fetch[f] = {"at", "waited"}
  /\ call \in [Tools -> {"idle", "reading", "reaping", "killed", "never"}]
  /\ child \in [Tools -> {"none", "running", "mute", "dead"}]

\* A child that runs has not been left alone.
Watched ==
  \A t \in Tools : child[t] \in {"running", "mute"} => call[t] \in {"reading", "reaping"}

\* A stage that is over has neither requests nor calls.
OverIsQuiet == \A w \in Workers : stage[w] = "over" => Quiet(w)

TrafficInv == Typed /\ Watched /\ OverIsQuiet

LEMMA InitTraffic == Init => TrafficInv
  BY TrafficAssumption DEF Init, TrafficInv, Typed, Watched, OverIsQuiet, Quiet, OwnFetches,
                           OwnTools, Tools, Idle

-----------------------------------------------------------------------------
\* A step that changes one tool changes what TrafficInv says of that tool alone.
LEMMA OneTool ==
  ASSUME TrafficInv, NEW t \in Tools, UNCHANGED <<stage, fetch>>,
         NEW c \in {"idle", "reading", "reaping", "killed", "never"},
         NEW d \in {"none", "running", "mute", "dead"},
         call' = [call EXCEPT ![t] = c], child' = [child EXCEPT ![t] = d],
         d \in {"running", "mute"} => c \in {"reading", "reaping"},
         stage[WorkerOf[t]] = "over" => c \in {"idle", "never"}
  PROVE  TrafficInv'
  <1>1. Typed'
    BY DEF TrafficInv, Typed
  <1>2. Watched'
    BY DEF TrafficInv, Typed, Watched
  <1>3. OverIsQuiet'
    <2> SUFFICES ASSUME NEW w \in Workers, stage'[w] = "over"
                 PROVE  Quiet(w)'
      BY DEF OverIsQuiet
    <2>1. Quiet(w)
      BY DEF TrafficInv, OverIsQuiet
    <2> QED
      BY <2>1 DEF Quiet, OwnFetches, OwnTools, TrafficInv, Typed
  <1> QED
    BY <1>1, <1>2, <1>3 DEF TrafficInv

\* A step that changes fetches alone, and those of a stage that is over not at all but to
\* end them
LEMMA SomeFetches ==
  ASSUME TrafficInv, UNCHANGED <<stage, call, child>>,
         DOMAIN fetch' = Fetches, \A f \in Fetches : DOMAIN fetch'[f] = {"at", "waited"},
         \A f \in Fetches : stage[WorkerOf[f]] = "over" =>
                              fetch'[f].at \in {fetch[f].at, "idle"}
  PROVE  TrafficInv'
  BY DEF TrafficInv, Typed, Watched, OverIsQuiet, Quiet, OwnFetches, OwnTools

\* A request of a stage that is over neither asks, nor sleeps, nor is answered.
LEMMA OverFetch ==
  ASSUME TrafficInv, NEW f \in Fetches, stage[WorkerOf[f]] = "over"
  PROVE  fetch[f].at \in {"idle", "never"}
  BY TrafficAssumption DEF TrafficInv, OverIsQuiet, Quiet, OwnFetches

LEMMA OverTool ==
  ASSUME TrafficInv, NEW t \in Tools, stage[WorkerOf[t]] = "over"
  PROVE  call[t] \in {"idle", "never"}
  BY TrafficAssumption DEF TrafficInv, OverIsQuiet, Quiet, OwnTools

-----------------------------------------------------------------------------
LEMMA FetchStep ==
  ASSUME TrafficInv, NEW f \in Fetches,
         Acquire(f) \/ Take(f) \/ Fetched(f) \/ CancelFetch(f)
  PROVE  TrafficInv'
  <1>1. CASE Acquire(f)
    BY <1>1, SomeFetches, OverFetch DEF Acquire, tools, TrafficInv, Typed
  <1>2. CASE Take(f)
    <2>1. stage[WorkerOf[f]] # "over"
      BY <1>2, OverFetch DEF Take
    <2>2. /\ UNCHANGED <<stage, call, child>>
          /\ \E at \in {"fetching", "sleeping"} : fetch' = [fetch EXCEPT ![f].at = at]
      BY <1>2 DEF Take, TakeShared, TakeLocal, Granted, Refused, tools
    <2> QED
      BY <2>1, <2>2, SomeFetches DEF TrafficInv, Typed
  <1>3. CASE Fetched(f)
    BY <1>3, SomeFetches DEF Fetched, tools, Idle, TrafficInv, Typed
  <1>4. CASE CancelFetch(f)
    BY <1>4, SomeFetches DEF CancelFetch, tools, Idle, TrafficInv, Typed
  <1> QED
    BY <1>1, <1>2, <1>3, <1>4

LEMMA ClockStep ==
  ASSUME TrafficInv, Tick \/ RedisFails \/ RedisReturns
  PROVE  TrafficInv'
  <1>1. CASE Tick
    <2>1. UNCHANGED <<stage, call, child>>
      BY <1>1 DEF Tick, tools
    <2>2. DOMAIN fetch' = Fetches /\ \A f \in Fetches : DOMAIN fetch'[f] = {"at", "waited"}
      BY <1>1 DEF Tick, TrafficInv, Typed
    <2>3. ASSUME NEW f \in Fetches, stage[WorkerOf[f]] = "over"
          PROVE  fetch'[f].at \in {fetch[f].at, "idle"}
      BY <1>1, <2>3, OverFetch DEF Tick
    <2> QED
      BY <2>1, <2>2, <2>3, SomeFetches
  <1>2. CASE RedisFails \/ RedisReturns
    BY <1>2, SomeFetches DEF RedisFails, RedisReturns, tools, TrafficInv, Typed
  <1> QED
    BY <1>1, <1>2

LEMMA ToolStep ==
  ASSUME TrafficInv, NEW t \in Tools,
         \/ Spawn(t) \/ Closes(t) \/ Ends(t) \/ Communicated(t) \/ Pumped(t)
         \/ TimesOut(t) \/ Reaped(t) \/ CancelTool(t)
  PROVE  TrafficInv'
  <1> USE DEF OnlyTools, stores, Leave, Kill
  <1>0. /\ call = [call EXCEPT ![t] = call[t]] /\ child = [child EXCEPT ![t] = child[t]]
        /\ call[t] \in {"idle", "reading", "reaping", "killed", "never"}
        /\ child[t] \in {"none", "running", "mute", "dead"}
        /\ child[t] \in {"running", "mute"} => call[t] \in {"reading", "reaping"}
        /\ stage[WorkerOf[t]] = "over" => call[t] \in {"idle", "never"}
    BY OverTool DEF TrafficInv, Typed, Watched
  <1>1. CASE Spawn(t)
    BY <1>1, OneTool DEF Spawn
  <1>2. CASE Closes(t)
    BY <1>0, <1>2, OneTool DEF Closes
  <1>3. CASE Ends(t)
    BY <1>0, <1>3, OneTool DEF Ends
  <1>4. CASE Communicated(t)
    BY <1>0, <1>4, OneTool DEF Communicated
  <1>5. CASE Pumped(t)
    BY <1>0, <1>5, OneTool DEF Pumped
  <1>6. CASE TimesOut(t)
    BY <1>0, <1>6, OneTool DEF TimesOut
  <1>7. CASE Reaped(t)
    BY <1>0, <1>7, OneTool DEF Reaped
  <1>8. CASE CancelTool(t)
    BY <1>8, OneTool DEF CancelTool
  <1> QED
    BY <1>1, <1>2, <1>3, <1>4, <1>5, <1>6, <1>7, <1>8

\* A stage is declared over only when it is quiet.
LEMMA StageStep ==
  ASSUME TrafficInv, NEW w \in Workers,
         StageDone(w) \/ Cancel(w) \/ Cancelled(w) \/ NextStage(w)
  PROVE  TrafficInv'
  <1>1. UNCHANGED <<fetch, call, child>>
    BY DEF StageDone, Cancel, Cancelled, NextStage, tools
  <1>2. \E to \in {"running", "cancelling", "over"} :
          stage' = [stage EXCEPT ![w] = to] /\ (to = "over" => Quiet(w))
    BY DEF StageDone, Cancel, Cancelled, NextStage
  <1>3. Typed' /\ Watched'
    BY <1>1, <1>2 DEF TrafficInv, Typed, Watched
  <1>4. OverIsQuiet'
    BY <1>1, <1>2 DEF TrafficInv, Typed, OverIsQuiet, Quiet, OwnFetches, OwnTools
  <1> QED
    BY <1>3, <1>4 DEF TrafficInv

LEMMA NextTraffic == TrafficInv /\ [Next]_vars => TrafficInv'
  <1> SUFFICES ASSUME TrafficInv, [Next]_vars PROVE TrafficInv'
    OBVIOUS
  <1>1. CASE UNCHANGED vars
    BY <1>1 DEF vars, tools, TrafficInv, Typed, Watched, OverIsQuiet, Quiet, OwnFetches,
                OwnTools
  <1>2. CASE Next
    BY <1>2, FetchStep, ClockStep, ToolStep, StageStep DEF Next
  <1> QED
    BY <1>1, <1>2

LEMMA QuietFromInv == TrafficInv => OverMeansQuiet
  BY DEF TrafficInv, Typed, Watched, OverIsQuiet, OverMeansQuiet, Quiet, OwnFetches, OwnTools

\* However a stage ends (it is done, the user stops it, its budget is used up), no tool of
\* it runs on and no request of it is under way (modules/exec.py, core/ratelimit.py).
THEOREM OverIsOver == Spec => []OverMeansQuiet
  <1>1. Init => TrafficInv
    BY InitTraffic
  <1>2. TrafficInv /\ [Next]_vars => TrafficInv'
    BY NextTraffic
  <1>3. TrafficInv => OverMeansQuiet
    BY QuietFromInv
  <1> QED
    BY <1>1, <1>2, <1>3, PTL DEF Spec

-----------------------------------------------------------------------------
(* Numbers *)

\* A set of numbers has a least one.
LEMMA Least ==
  ASSUME NEW T \in SUBSET Nat, T # {}
  PROVE  \E n \in T : \A m \in T : n <= m
  <1> DEFINE R == {p \in Nat \X Nat : p[1] < p[2]}
  <1>1. IsWellFoundedOn(R, Nat)
    BY NatLessThanWellFounded DEF OpToRel
  <1>2. \A m \in T, n \in T : <<m, n>> \in R <=> m < n
    OBVIOUS
  <1> HIDE DEF R
  <1>3. PICK n \in T : \A m \in T : ~ (<<m, n>> \in R)
    BY <1>1, WFMin
  <1>4. \A m \in T : ~ (m < n)
    BY <1>2, <1>3
  <1> QED
    BY <1>4

\* What holds at first and from each number to the next holds of all.
LEMMA Climb ==
  ASSUME NEW T \in SUBSET Nat, 0 \in T, \A n \in T : n + 1 \in T
  PROVE  T = Nat
  <1> SUFFICES ASSUME Nat \ T # {}  PROVE FALSE
    OBVIOUS
  <1>1. PICK n \in Nat \ T : \A m \in Nat \ T : n <= m
    BY Least
  <1>2. n # 0 /\ n - 1 \in Nat /\ n = (n - 1) + 1
    BY <1>1
  <1>3. n - 1 \in T
    BY <1>1, <1>2
  <1> QED
    BY <1>2, <1>3

-----------------------------------------------------------------------------
(* What is missing in the workers' buckets *)

\* The worker that a sum takes first
Chosen(ws) == CHOOSE w \in ws : TRUE

\* The sum of TwiceTheCeiling, over any workers
Gaps(l) == CHOOSE iter : iter = [ws \in SUBSET Workers |->
  IF ws = {} THEN 0
  ELSE LET w == Chosen(ws) IN (LocalBucket - l[w]) + iter[ws \ {w}]]

Missing(l) == Gaps(l)[Workers]

\* The sum of TwiceTheCeiling depends on nothing but the buckets.
LEMMA SumIsMissing == MapThenSumSet(LAMBDA w : LocalBucket - local[w], Workers) = Missing(local)
  BY DEF MapThenSumSet, MapThenFoldSet, Missing, Gaps, Chosen

Buckets == [Workers -> 0..LocalBucket]

\* At most n workers
Few(n) == {ws \in SUBSET Workers : Cardinality(ws) <= n}

\* One worker less, and finally none
LEMMA FewWorkers ==
  /\ Few(0) = {{}} /\ Few(Cardinality(Workers)) = SUBSET Workers
  /\ Cardinality(Workers) \in Nat /\ Cardinality({}) = 0
  /\ \A ws \in SUBSET Workers : Cardinality(ws) \in Nat
  /\ \A n \in Nat : Few(n) \subseteq Few(n + 1)
  /\ \A n \in Nat : \A ws \in Few(n + 1) \ {{}} :
       /\ Chosen(ws) \in ws /\ Chosen(ws) \in Workers /\ ws \ {Chosen(ws)} \in Few(n)
       /\ Cardinality(ws \ {Chosen(ws)}) = Cardinality(ws) - 1
  <1>1. IsFiniteSet(Workers)
    BY TrafficAssumption
  <1>2. \A ws \in SUBSET Workers :
          IsFiniteSet(ws) /\ Cardinality(ws) \in Nat /\ Cardinality(ws) <= Cardinality(Workers)
    BY <1>1, FS_Subset, FS_CardinalityType
  <1>3. Cardinality({}) = 0 /\ \A ws \in SUBSET Workers : Cardinality(ws) = 0 => ws = {}
    BY <1>2, FS_EmptySet
  <1>4. Few(0) = {{}}
    BY <1>2, <1>3 DEF Few
  <1>5. ASSUME NEW n \in Nat, NEW ws \in Few(n + 1) \ {{}}
        PROVE  /\ Chosen(ws) \in ws /\ Chosen(ws) \in Workers /\ ws \ {Chosen(ws)} \in Few(n)
               /\ Cardinality(ws \ {Chosen(ws)}) = Cardinality(ws) - 1
    <2>1. Chosen(ws) \in ws /\ ws \in SUBSET Workers
      BY DEF Few, Chosen
    <2> DEFINE w == Chosen(ws)
               less == ws \ {w}
    <2> HIDE DEF w
    <2>2. Cardinality(less) = Cardinality(ws) - 1
      BY <1>2, <2>1, FS_RemoveElement DEF w
    <2>3. Cardinality(ws) <= n + 1 /\ Cardinality(ws) \in Nat /\ less \in SUBSET Workers
      BY <1>2, <2>1 DEF Few
    <2>4. less \in Few(n)
      BY <2>2, <2>3 DEF Few
    <2> QED
      BY <2>1, <2>2, <2>4 DEF w
  <1>6. \A n \in Nat : Few(n) \subseteq Few(n + 1)
    BY <1>2 DEF Few
  <1>7. Few(Cardinality(Workers)) = SUBSET Workers
    BY <1>2 DEF Few
  <1> QED
    BY <1>1, <1>2, <1>3, <1>4, <1>5, <1>6, <1>7, FS_CardinalityType

\* One more worker of the sum
Sum1(l, g, ws) == IF ws = {} THEN 0
                  ELSE (LocalBucket - l[Chosen(ws)]) + g[ws \ {Chosen(ws)}]

\* There is a sum over few workers.
LEMMA GapsOfFew ==
  ASSUME NEW l \in Buckets, NEW n \in Nat
  PROVE  \E g \in [Few(n) -> Nat] : \A ws \in Few(n) : g[ws] = Sum1(l, g, ws)
  <1> DEFINE T == {k \in Nat :
               \E g \in [Few(k) -> Nat] : \A ws \in Few(k) : g[ws] = Sum1(l, g, ws)}
  <1>1. 0 \in T
    <2> DEFINE g == [ws \in Few(0) |-> 0]
    <2>1. g \in [Few(0) -> Nat] /\ \A ws \in Few(0) : g[ws] = Sum1(l, g, ws)
      BY FewWorkers DEF Sum1
    <2> HIDE DEF g
    <2> QED
      BY <2>1
  <1>2. ASSUME NEW k \in T  PROVE k + 1 \in T
    <2>1. PICK g \in [Few(k) -> Nat] : \A ws \in Few(k) : g[ws] = Sum1(l, g, ws)
      OBVIOUS
    <2> DEFINE more == [ws \in Few(k + 1) |-> Sum1(l, g, ws)]
    <2>2. ASSUME NEW ws \in Few(k + 1)
          PROVE  Sum1(l, g, ws) \in Nat
      <3>1. CASE ws = {}
        BY <3>1 DEF Sum1
      <3>2. CASE ws # {}
        <4>1. Chosen(ws) \in Workers /\ ws \ {Chosen(ws)} \in Few(k)
          BY <3>2, FewWorkers
        <4>2. LocalBucket - l[Chosen(ws)] \in Nat /\ g[ws \ {Chosen(ws)}] \in Nat
          BY <4>1, TrafficAssumption DEF Buckets, LocalBucket, Token
        <4> QED
          BY <3>2, <4>2 DEF Sum1
      <3> QED
        BY <3>1, <3>2
    <2>3. \A ws \in Few(k) : ws \in Few(k + 1) /\ more[ws] = g[ws]
      BY <2>1, FewWorkers
    <2>4. ASSUME NEW ws \in Few(k + 1)
          PROVE  more[ws] = Sum1(l, more, ws)
      <3>1. more[ws] = Sum1(l, g, ws)
        OBVIOUS
      <3> HIDE DEF more
      <3>2. ws # {} => ws \ {Chosen(ws)} \in Few(k)
        BY FewWorkers
      <3> QED
        BY <2>3, <3>1, <3>2 DEF Sum1
    <2>5. more \in [Few(k + 1) -> Nat]
      BY <2>2
    <2> HIDE DEF more
    <2> QED
      BY <2>4, <2>5
  <1> HIDE DEF T
  <1>3. T = Nat
    <2>1. T \in SUBSET Nat
      BY DEF T
    <2> QED
      BY <1>1, <1>2, <2>1, Climb
  <1> QED
    BY <1>3 DEF T

\* What is missing is counted worker by worker.
LEMMA GapsAreSums ==
  ASSUME NEW l \in Buckets
  PROVE  /\ Gaps(l) \in [SUBSET Workers -> Nat]
         /\ \A ws \in SUBSET Workers : Gaps(l)[ws] = Sum1(l, Gaps(l), ws)
  <1>1. PICK g \in [SUBSET Workers -> Nat] :
          \A ws \in SUBSET Workers : g[ws] = Sum1(l, g, ws)
    <2>1. Cardinality(Workers) \in Nat /\ Few(Cardinality(Workers)) = SUBSET Workers
      BY FewWorkers
    <2>2. \E g \in [Few(Cardinality(Workers)) -> Nat] :
            \A ws \in Few(Cardinality(Workers)) : g[ws] = Sum1(l, g, ws)
      BY <2>1, GapsOfFew
    <2> QED
      BY <2>1, <2>2
  <1>2. g = [ws \in SUBSET Workers |-> Sum1(l, g, ws)]
    BY <1>1
  <1>3. Gaps(l) = [ws \in SUBSET Workers |-> Sum1(l, Gaps(l), ws)]
    <2>1. \E iter : iter = [ws \in SUBSET Workers |-> Sum1(l, iter, ws)]
      BY <1>2
    <2> QED
      BY <2>1 DEF Gaps, Sum1
  <1> DEFINE h == Gaps(l)
  <1> HIDE DEF h
  <1>4. \A ws \in SUBSET Workers : h[ws] = Sum1(l, h, ws)
    BY <1>3 DEF h
  <1>5. \A ws \in SUBSET Workers : h[ws] \in Nat
    <2> DEFINE T == {k \in Nat : \A ws \in Few(k) : h[ws] \in Nat}
    <2>0. h[{}] = 0 /\ Few(0) = {{}}
      <3>1. h[{}] = Sum1(l, h, {})
        BY <1>4
      <3> QED
        BY <3>1, FewWorkers DEF Sum1
    <2>1. 0 \in T
      <3>1. \A ws \in Few(0) : ws = {}
        BY <2>0
      <3>2. \A ws \in Few(0) : h[ws] \in Nat
        <4>1. h[{}] \in Nat
          BY <2>0
        <4> SUFFICES ASSUME NEW ws \in Few(0) PROVE h[ws] \in Nat
          OBVIOUS
        <4> QED
          BY <3>1, <4>1, Zenon
      <3> QED
        BY <3>2
    <2>2. ASSUME NEW k \in T  PROVE k + 1 \in T
      <3> SUFFICES ASSUME NEW ws \in Few(k + 1) PROVE h[ws] \in Nat
        OBVIOUS
      <3>0. ws \in SUBSET Workers
        BY DEF Few
      <3>1. h[ws] = Sum1(l, h, ws)
        BY <1>4, <3>0
      <3>2. CASE ws = {}
        BY <2>0, <3>2
      <3>3. CASE ws # {}
        <4>1. Chosen(ws) \in Workers /\ ws \ {Chosen(ws)} \in Few(k)
          BY <3>3, FewWorkers
        <4>2. LocalBucket - l[Chosen(ws)] \in Nat /\ h[ws \ {Chosen(ws)}] \in Nat
          BY <4>1, TrafficAssumption DEF Buckets, LocalBucket, Token
        <4> QED
          BY <3>1, <3>3, <4>2 DEF Sum1
      <3> QED
        BY <3>2, <3>3
    <2>3. T \in SUBSET Nat
      OBVIOUS
    <2> HIDE DEF T
    <2>4. T = Nat
      BY <2>1, <2>2, <2>3, Climb
    <2> QED
      BY <2>4, FewWorkers DEF T
  <1> QED
    BY <1>3, <1>4, <1>5 DEF h

\* If every bucket has at most one unit more, at most one unit for each worker is missing
\* less.
LEMMA OneUnitEach ==
  ASSUME NEW l \in Buckets, NEW m \in Buckets, \A w \in Workers : m[w] <= l[w] + 1
  PROVE  Missing(l) <= Missing(m) + Cardinality(Workers)
  <1> DEFINE g == Gaps(l)
             h == Gaps(m)
             T == {k \in Nat : \A ws \in Few(k) : g[ws] <= h[ws] + Cardinality(ws)}
  <1>1. /\ g \in [SUBSET Workers -> Nat] /\ h \in [SUBSET Workers -> Nat]
        /\ \A ws \in SUBSET Workers : g[ws] = Sum1(l, g, ws) /\ h[ws] = Sum1(m, h, ws)
    BY GapsAreSums
  <1> HIDE DEF g, h
  <1>0. g[{}] = 0 /\ h[{}] = 0 /\ Few(0) = {{}} /\ Cardinality({}) = 0
    <2>1. g[{}] = Sum1(l, g, {}) /\ h[{}] = Sum1(m, h, {})
      BY <1>1
    <2> QED
      BY <2>1, FewWorkers DEF Sum1
  <1>2. 0 \in T
    BY <1>0
  <1>3. ASSUME NEW k \in T  PROVE k + 1 \in T
    <2> SUFFICES ASSUME NEW ws \in Few(k + 1) PROVE g[ws] <= h[ws] + Cardinality(ws)
      OBVIOUS
    <2>1. ws \in SUBSET Workers
      BY DEF Few
    <2>2. CASE ws = {}
      BY <1>0, <2>2
    <2>3. CASE ws # {}
      <3> DEFINE w == Chosen(ws)
                 less == ws \ {w}
      <3>1. w \in Workers /\ less \in Few(k) /\ less \in SUBSET Workers
            /\ Cardinality(less) = Cardinality(ws) - 1 /\ Cardinality(ws) \in Nat
        BY <2>1, <2>3, FewWorkers
      <3>2. g[ws] = (LocalBucket - l[w]) + g[less] /\ h[ws] = (LocalBucket - m[w]) + h[less]
        BY <1>1, <2>1, <2>3 DEF Sum1
      <3> HIDE DEF w, less
      <3>3. g[less] <= h[less] + Cardinality(less)
        BY <3>1
      <3>4. /\ l[w] \in Nat /\ m[w] \in Nat /\ LocalBucket \in Nat /\ m[w] <= l[w] + 1
            /\ g[less] \in Nat /\ h[less] \in Nat
        BY <1>1, <3>1, TrafficAssumption DEF Buckets, LocalBucket, Token
      <3> QED
        BY <3>1, <3>2, <3>3, <3>4
    <2> QED
      BY <2>2, <2>3
  <1>4. T = Nat
    <2>1. T \in SUBSET Nat
      OBVIOUS
    <2> HIDE DEF T
    <2> QED
      BY <1>2, <1>3, <2>1, Climb
  <1> QED
    BY <1>4, FewWorkers DEF Missing, g, h

\* A token that is taken from one bucket is missing there.
LEMMA OneTokenLess ==
  ASSUME NEW l \in Buckets, NEW v \in Workers, l[v] >= Token
  PROVE  LET m == [l EXCEPT ![v] = @ - Token]
         IN  m \in Buckets /\ Missing(m) = Missing(l) + Token
  <1> DEFINE m == [l EXCEPT ![v] = @ - Token]
             g == Gaps(l)
             h == Gaps(m)
             T == {k \in Nat :
                     \A ws \in Few(k) : h[ws] = g[ws] + IF v \in ws THEN Token ELSE 0}
  <1>0. Token \in Nat /\ LocalBucket \in Nat
    BY TrafficAssumption DEF LocalBucket, Token
  <1>1. m \in Buckets
    BY <1>0 DEF Buckets
  <1>2. /\ g \in [SUBSET Workers -> Nat] /\ h \in [SUBSET Workers -> Nat]
        /\ \A ws \in SUBSET Workers : g[ws] = Sum1(l, g, ws) /\ h[ws] = Sum1(m, h, ws)
    BY <1>1, GapsAreSums
  <1>3. \A w \in Workers : /\ l[w] \in Nat /\ m[w] \in Nat
                           /\ m[w] = IF w = v THEN l[w] - Token ELSE l[w]
    BY <1>0, <1>1 DEF Buckets
  <1> HIDE DEF g, h, m
  <1>z. g[{}] = 0 /\ h[{}] = 0 /\ Few(0) = {{}}
    <2>1. g[{}] = Sum1(l, g, {}) /\ h[{}] = Sum1(m, h, {})
      BY <1>2
    <2> QED
      BY <2>1, FewWorkers DEF Sum1
  <1>4. 0 \in T
    <2>1. \A ws \in Few(0) : ws = {}
      BY <1>z
    <2>2. h[{}] = g[{}] + IF v \in {} THEN Token ELSE 0
      BY <1>z
    <2>3. \A ws \in Few(0) : h[ws] = g[ws] + IF v \in ws THEN Token ELSE 0
      BY <2>1, <2>2
    <2> QED
      BY <2>3
  <1>5. ASSUME NEW k \in T  PROVE k + 1 \in T
    <2> SUFFICES ASSUME NEW ws \in Few(k + 1)
                 PROVE  h[ws] = g[ws] + IF v \in ws THEN Token ELSE 0
      OBVIOUS
    <2>1. ws \in SUBSET Workers
      BY DEF Few
    <2>2. CASE ws = {}
      BY <1>z, <2>2
    <2>3. CASE ws # {}
      <3> DEFINE w == Chosen(ws)
                 less == ws \ {w}
      <3>1. w \in ws /\ w \in Workers /\ less \in Few(k) /\ less \in SUBSET Workers
        BY <2>1, <2>3, FewWorkers
      <3>2. g[ws] = (LocalBucket - l[w]) + g[less] /\ h[ws] = (LocalBucket - m[w]) + h[less]
        BY <1>2, <2>1, <2>3 DEF Sum1
      <3>3. v \in less <=> v \in ws /\ v # w
        OBVIOUS
      <3> HIDE DEF w, less
      <3>4. h[less] = g[less] + IF v \in less THEN Token ELSE 0
        BY <3>1
      <3>5. g[less] \in Nat /\ h[less] \in Nat
        BY <1>2, <3>1
      <3> QED
        BY <1>0, <1>3, <3>1, <3>2, <3>3, <3>4, <3>5
    <2> QED
      BY <2>2, <2>3
  <1>6. T = Nat
    <2>1. T \in SUBSET Nat
      OBVIOUS
    <2> HIDE DEF T
    <2> QED
      BY <1>4, <1>5, <2>1, Climb
  <1>7. Missing(m) = Missing(l) + Token
    BY <1>2, <1>6, FewWorkers DEF Missing, g, h
  <1> QED
    BY <1>1, <1>7 DEF m

-----------------------------------------------------------------------------
(* What was sent *)

CeilingInv ==
  /\ tokens \in 0..FullBucket /\ local \in Buckets /\ sent \in Nat
  /\ DOMAIN fetch = Fetches
  /\ sent <= (FullBucket - tokens) + Missing(local)

\* At first nothing was sent.
LEMMA InitCeiling == Init => CeilingInv
  <1> SUFFICES ASSUME Init PROVE CeilingInv
    OBVIOUS
  <1>1. Token \in Nat /\ LocalBucket \in Nat /\ FullBucket \in Nat
    BY TrafficAssumption DEF LocalBucket, Token, FullBucket
  <1>2. tokens = FullBucket /\ local \in Buckets /\ sent = 0 /\ DOMAIN fetch = Fetches
    BY <1>1 DEF Init, Buckets
  <1>3. Missing(local) \in Nat
    BY <1>2, GapsAreSums DEF Missing
  <1> QED
    BY <1>1, <1>2, <1>3 DEF CeilingInv

\* What is sent is taken from a bucket, and what flows into the buckets in a tick is twice
\* the rate at most: the rate, and a share for each worker.
LEMMA NextCeiling ==
  ASSUME Drain >= 2, CeilingInv, [Next]_vars
  PROVE  CeilingInv'
  <1>1. Token \in Nat \ {0} /\ LocalBucket \in Nat /\ FullBucket \in Nat /\ Drain \in Nat
    BY TrafficAssumption DEF LocalBucket, Token, FullBucket
  <1>2. /\ tokens \in 0..FullBucket /\ local \in Buckets /\ sent \in Nat
        /\ DOMAIN fetch = Fetches /\ Missing(local) \in Nat
        /\ sent <= (FullBucket - tokens) + Missing(local)
    BY GapsAreSums DEF CeilingInv, Missing
  <1>3. CASE UNCHANGED <<tokens, local, sent>> /\ DOMAIN fetch' = Fetches
    BY <1>2, <1>3 DEF CeilingInv
  <1>4. ASSUME NEW f \in Fetches, Take(f)  PROVE CeilingInv'
    <2> DEFINE w == WorkerOf[f]
    <2>1. w \in Workers /\ DOMAIN fetch' = Fetches
      BY <1>2, <1>4, TrafficAssumption
         DEF Take, TakeShared, TakeLocal, Granted, Refused
    <2>2. \/ tokens' = tokens
          \/ tokens >= Token /\ tokens' = tokens - Token
      BY <1>4 DEF Take, TakeShared, TakeLocal
    <2>3. tokens' \in 0..FullBucket /\ tokens' <= tokens
      BY <1>1, <1>2, <2>2
    <2>4. CASE UNCHANGED <<local, sent>>
      BY <1>1, <1>2, <2>1, <2>3, <2>4 DEF CeilingInv
    <2>5. CASE UNCHANGED local /\ tokens >= Token /\ tokens' = tokens - Token
               /\ sent' = sent + Token
      BY <1>1, <1>2, <2>1, <2>3, <2>5 DEF CeilingInv
    <2>6. CASE local[w] >= Token /\ local' = [local EXCEPT ![w] = @ - Token]
               /\ sent' = sent + Token
      <3>1. local' \in Buckets /\ Missing(local') = Missing(local) + Token
        BY <1>2, <2>1, <2>6, OneTokenLess
      <3> QED
        BY <1>1, <1>2, <2>1, <2>3, <2>6, <3>1 DEF CeilingInv
    <2> QED
      BY <1>4, <2>4, <2>5, <2>6 DEF Take, TakeShared, TakeLocal, Granted, Refused
  <1>5. CASE Tick
    <2>1. /\ tokens' = Refilled(tokens, FullBucket, Token)
          /\ local' = [w \in Workers |-> Refilled(local[w], LocalBucket, 1)]
          /\ sent' = IF sent > Drain * Token THEN sent - Drain * Token ELSE 0
          /\ DOMAIN fetch' = Fetches
      BY <1>5 DEF Tick
    <2>2. Drain * Token \in Nat /\ Drain * Token >= Token + Token
      BY <1>1
    <2>3. tokens' \in 0..FullBucket /\ tokens' <= tokens + Token
      BY <1>1, <1>2, <2>1 DEF Refilled
    <2>4. local' \in Buckets /\ \A w \in Workers : local'[w] <= local[w] + 1
      BY <1>1, <1>2, <2>1 DEF Refilled, Buckets
    <2>5. Missing(local) <= Missing(local') + Cardinality(Workers)
      BY <1>2, <2>4, OneUnitEach
    <2>6. Missing(local') \in Nat
      BY <2>4, GapsAreSums DEF Missing
    <2>7. Cardinality(Workers) \in Nat /\ Cardinality(Workers) <= Token
      BY FewWorkers, TrafficAssumption DEF Token
    <2>8. sent' \in Nat /\ sent' <= (FullBucket - tokens') + Missing(local')
      BY <1>1, <1>2, <2>1, <2>2, <2>3, <2>5, <2>6, <2>7
    <2> QED
      BY <2>1, <2>3, <2>4, <2>8 DEF CeilingInv
  <1>6. \/ UNCHANGED <<tokens, local, sent>> /\ DOMAIN fetch' = Fetches
        \/ \E f \in Fetches : Take(f)
        \/ Tick
    BY <1>2 DEF Next, vars, stores, tools, OnlyTools, Acquire, Fetched, CancelFetch, RedisFails,
       RedisReturns, Spawn, Closes, Ends, Communicated, Pumped, TimesOut, Reaped, CancelTool,
       StageDone, Cancel, Cancelled, NextStage
  <1> QED
    BY <1>3, <1>4, <1>5, <1>6

\* However often Redis fails, answers late or returns, what the limiter has let through to a
\* target in any interval is at most twice the rate and what was missing in the buckets at
\* its end, if the history forgets no less than that (core/ratelimit.py: acquire,
\* _local_limit).
THEOREM AtMostTwice == Drain >= 2 => (Spec => []TwiceTheCeiling)
  <1>1. Init => CeilingInv
    BY InitCeiling
  <1>2. Drain >= 2 /\ CeilingInv /\ [Next]_vars => CeilingInv'
    BY NextCeiling
  <1>3. CeilingInv => TwiceTheCeiling
    BY SumIsMissing DEF CeilingInv, TwiceTheCeiling
  <1> SUFFICES ASSUME Drain >= 2 PROVE Spec => []TwiceTheCeiling
    OBVIOUS
  <1>4. CeilingInv /\ [Next]_vars => CeilingInv'
    BY <1>2
  <1> QED
    BY <1>1, <1>3, <1>4, PTL DEF Spec
=============================================================================
