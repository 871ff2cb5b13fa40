----------------------------- MODULE Notify_proofs -----------------------------
(***************************************************************************)
(* What holds of the notify stages for any number of items, channels,      *)
(* stages and faults (a cleared item was alerted, a change event is alerted*)
(* only if it appeared after a baseline scan, and every repeated alert has *)
(* a cause), and of the limits whatever users store and operators          *)
(* configure.                                                              *)
(*                                                                         *)
(* RepeatsHaveACause needs an account of each alert: those sent are owed to*)
(* a stage that is through with the item or to a fault, and once the item  *)
(* is no longer new, the stages that have it in hand may each send it once.*)
(***************************************************************************)
EXTENDS Notify, Limits, FiniteSetTheorems, TLAPS

\* The inductive invariant.
NotifyInv == TypeOK /\ NothingSilenced /\ NoBaselineFlood /\ StagesKeepFaith

\* A stage that has families left is at one of them, the first.
LEMMA CurrentIsLeft ==
  ASSUME NEW n \in Notifiers, src[n] \in SUBSET (1..6), src[n] # {}
  PROVE  Current(n) \in src[n]
<1>1. \E k \in src[n] : \A l \in src[n] : k <= l
  OBVIOUS
<1> QED BY <1>1 DEF Current

\* A stage takes only new items of the family it is at.
LEMMA SliceOfQuery ==
  ASSUME NEW f, NEW S \in Slices(f)
  PROVE  S \subseteq Query(f)
BY DEF Slices

\* A counter that is capped stays within its cap.
LEMMA SmallestType ==
  ASSUME NEW x \in Nat
  PROVE  Smallest(x + 1, MaxAlerts) \in 0..MaxAlerts /\ Smallest(x + 1, MaxAlerts) > 0
BY BoundsAssumption DEF Smallest

\* The initial states satisfy the invariant.
LEMMA NotifyInit == Init => NotifyInv
BY ItemsAssumption, BoundsAssumption
   DEF Init, NotifyInv, TypeOK, NothingSilenced, NoBaselineFlood, StagesKeepFaith,
       Alerted, Sev, NoRun

\* An alert that reached a channel stays received.
LEMMA ReceivedStays ==
  ASSUME TypeOK, NEW i \in Items, NEW c \in Channels, Received(i, c)
  PROVE  /\ alerts' \in [Items -> [Channels -> 0..MaxAlerts]]
         /\ Alerted(i)'
         /\ \A j \in Items : Alerted(j) => Alerted(j)'
         /\ \A j \in Items : Alerted(j)' => Alerted(j) \/ j = i
<1>1. alerts \in [Items -> [Channels -> 0..MaxAlerts]]
  BY DEF TypeOK
<1>2. alerts[i][c] \in Nat
  BY <1>1, BoundsAssumption
<1>3. PICK m \in 0..MaxAlerts :
        m > 0 /\ alerts' = [alerts EXCEPT ![i] = [alerts[i] EXCEPT ![c] = m]]
  BY <1>2, SmallestType DEF Received
<1>4. /\ alerts' \in [Items -> [Channels -> 0..MaxAlerts]]
      /\ alerts'[i][c] = m
  BY ONLY <1>1, <1>3
<1>5. \A j \in Items, d \in Channels :
        alerts'[j][d] = IF j = i /\ d = c THEN m ELSE alerts[j][d]
  BY ONLY <1>1, <1>3
<1> QED BY <1>3, <1>4, <1>5 DEF Alerted

\* A stage at rest holds nothing, and the others hold what they held.
LEMMA RestTypes ==
  ASSUME TypeOK, NEW n \in Notifiers, AtRest(n)
  PROVE  /\ pc' \in [Notifiers -> {"idle", "list", "send", "clear"}]
         /\ chans' \in [Notifiers -> SUBSET Channels]
         /\ rules' \in [Notifiers -> [floor: Sev, on: SUBSET Family]]
         /\ since' \in [Notifiers -> 0..MaxBaseline]
         /\ src' \in [Notifiers -> SUBSET (1..6)]
<1>1. NoRun \in [floor: Sev, on: SUBSET Family]
  BY DEF NoRun, Sev
<1>2. 0 \in 0..MaxBaseline
  BY BoundsAssumption
<1>3. rules' \in [Notifiers -> [floor: Sev, on: SUBSET Family]]
  BY <1>1 DEF TypeOK, AtRest
<1>4. since' \in [Notifiers -> 0..MaxBaseline]
  BY <1>2 DEF TypeOK, AtRest
<1> QED BY <1>3, <1>4 DEF TypeOK, AtRest

\* A stage that forgets its work is typed.
LEMMA ForgetTypes ==
  ASSUME TypeOK, NEW n \in Notifiers, Forget(n)
  PROVE  /\ items' \in [Notifiers -> SUBSET stored]
         /\ plan' \in [Notifiers -> SUBSET (Items \X Channels)]
         /\ ok' \in [Notifiers -> SUBSET Items]
         /\ items'[n] = {} /\ plan'[n] = {} /\ ok'[n] = {}
         /\ \A m \in Notifiers \ {n} :
              items'[m] = items[m] /\ plan'[m] = plan[m] /\ ok'[m] = ok[m]
BY DEF TypeOK, Forget

\* Every step preserves the invariant.
LEMMA NotifyStep == NotifyInv /\ [Next]_vars => NotifyInv'
<1> SUFFICES ASSUME NotifyInv, [Next]_vars PROVE NotifyInv'
  OBVIOUS
<1> USE DEF NotifyInv
<1>t. TypeOK /\ NothingSilenced /\ NoBaselineFlood /\ StagesKeepFaith
  OBVIOUS
<1>1. ASSUME NEW i \in Items, NEW s \in Severities, Observe(i, s)
      PROVE  NotifyInv'
  <2>1. TypeOK'
    BY <1>1, ItemsAssumption
       DEF Observe, NewAfterUpsert, TypeOK, userVars, runVars
  <2>2. NothingSilenced'
    BY <1>1 DEF Observe, NewAfterUpsert, TypeOK, NothingSilenced, Alerted, runVars
  <2>3. \A j \in stored : firstSeen'[j] = firstSeen[j]
    BY <1>1 DEF Observe, TypeOK
  <2>4. NoBaselineFlood'
    BY <1>1, <2>3 DEF Observe, TypeOK, NoBaselineFlood, Alerted
  <2>5. StagesKeepFaith'
    BY <1>1, <2>3 DEF Observe, TypeOK, StagesKeepFaith, Alerted, runVars
  <2> QED BY <2>1, <2>2, <2>4, <2>5
<1>2. ASSUME CompleteBaseline \/ SetChannels \/ SetPolicy
      PROVE  NotifyInv'
  <2>1. UNCHANGED <<stored, isNew, severity, firstSeen, runVars, alerts, faults>>
    BY <1>2 DEF CompleteBaseline, SetChannels, SetPolicy, storeVars
  <2>2. /\ baseline' \in 0..MaxBaseline
        /\ enabled' \in SUBSET Channels
        /\ policy' \in [floor: Sev, on: SUBSET Family]
    BY <1>2, ItemsAssumption, BoundsAssumption
       DEF TypeOK, CompleteBaseline, SetChannels, SetPolicy
  <2> QED
    BY <2>1, <2>2
       DEF TypeOK, NothingSilenced, NoBaselineFlood, StagesKeepFaith, Alerted, runVars
<1>3. ASSUME NEW n \in Notifiers, Begin(n)
      PROVE  NotifyInv'
  <2>1. Sources(policy, baseline) \in SUBSET (1..6)
    BY DEF Sources
  <2>2. TypeOK'
    <3>1. rules' \in [Notifiers -> [floor: Sev, on: SUBSET Family]]
      BY <1>3 DEF Begin, TypeOK
    <3>2. /\ pc' \in [Notifiers -> {"idle", "list", "send", "clear"}]
          /\ since' \in [Notifiers -> 0..MaxBaseline]
          /\ src' \in [Notifiers -> SUBSET (1..6)]
      BY <1>3, <2>1 DEF Begin, TypeOK
    <3>3. chans' \in [Notifiers -> SUBSET Channels]
      BY <1>3 DEF Begin, TypeOK
    <3>4. plan[n] = {}
      BY <1>3 DEF Begin, StagesKeepFaith
    <3>5. \A m \in Notifiers :
            plan'[m] \subseteq items'[m] \X chans'[m] /\ ok'[m] \subseteq items'[m]
      BY <1>3, <3>4 DEF Begin, TypeOK
    <3> QED
      BY <1>3, <3>1, <3>2, <3>3, <3>5 DEF Begin, TypeOK, storeVars, userVars
  <2>3. StagesKeepFaith'
    BY <1>3, <2>1
       DEF Begin, TypeOK, StagesKeepFaith, Alerted, Sources, storeVars, userVars
  <2> QED
    BY <1>3, <2>2, <2>3 DEF Begin, NothingSilenced, NoBaselineFlood, Alerted, storeVars
<1>11. ASSUME NEW n \in Notifiers, Forget(n), AtRest(n),
             UNCHANGED <<stored, severity, firstSeen, userVars, alerts>>,
             isNew' \subseteq isNew, \A i \in isNew \ isNew' : Alerted(i),
             faults' \in 0..MaxFaults
      PROVE  NotifyInv'
  <2>1. /\ pc'[n] = "idle" /\ src'[n] = {}
        /\ \A m \in Notifiers \ {n} :
             /\ pc'[m] = pc[m] /\ src'[m] = src[m] /\ chans'[m] = chans[m]
             /\ rules'[m] = rules[m] /\ since'[m] = since[m]
    BY <1>11 DEF AtRest, TypeOK
  <2>2. \A m \in Notifiers :
          plan'[m] \subseteq items'[m] \X chans'[m] /\ ok'[m] \subseteq items'[m]
    BY <1>11, <2>1, ForgetTypes DEF TypeOK
  <2>3. TypeOK'
    BY <1>11, <2>2, ForgetTypes, RestTypes DEF TypeOK, userVars
  <2>4. StagesKeepFaith'
    BY <1>11, <2>1, ForgetTypes DEF StagesKeepFaith, Alerted, userVars
  <2> QED
    BY <1>11, <2>3, <2>4 DEF TypeOK, NothingSilenced, NoBaselineFlood, Alerted
<1>4. ASSUME NEW n \in Notifiers, pc[n] # "idle", NextFamily(n),
             UNCHANGED <<stored, severity, firstSeen, userVars, alerts>>,
             isNew' \subseteq isNew, \A i \in isNew \ isNew' : Alerted(i),
             faults' \in 0..MaxFaults
      PROVE  NotifyInv'
  <2>1. src[n] \in SUBSET (1..6) /\ src[n] # {}
    BY <1>4 DEF TypeOK, StagesKeepFaith
  <2>2. Current(n) \in src[n]
    BY <2>1, CurrentIsLeft
  <2>3. Forget(n) /\ (src[n] = {Current(n)} => AtRest(n))
        /\ (src[n] # {Current(n)} =>
              /\ src' = [src EXCEPT ![n] = @ \ {Current(n)}]
              /\ pc' = [pc EXCEPT ![n] = "list"]
              /\ UNCHANGED <<chans, rules, since>>)
    BY <1>4 DEF NextFamily
  <2>4. CASE src[n] = {Current(n)}
    BY <1>4, <1>11, <2>3, <2>4
  <2>5. CASE src[n] # {Current(n)}
    <3>1. /\ src' = [src EXCEPT ![n] = @ \ {Current(n)}]
          /\ pc' = [pc EXCEPT ![n] = "list"]
          /\ UNCHANGED <<chans, rules, since>>
      BY <2>3, <2>5
    <3>2. /\ src' \in [Notifiers -> SUBSET (1..6)]
          /\ src'[n] # {} /\ src'[n] \subseteq src[n]
          /\ \A m \in Notifiers \ {n} : src'[m] = src[m] /\ pc'[m] = pc[m]
          /\ pc' \in [Notifiers -> {"idle", "list", "send", "clear"}]
          /\ pc'[n] = "list"
      BY <2>1, <2>2, <2>5, <3>1 DEF TypeOK
    <3>3. TypeOK'
      BY <1>4, <2>3, <3>1, <3>2, ForgetTypes DEF TypeOK, userVars
    <3>4. StagesKeepFaith'
      BY <1>4, <2>3, <3>1, <3>2, ForgetTypes DEF StagesKeepFaith, Alerted, userVars
    <3> QED
      BY <1>4, <3>3, <3>4 DEF TypeOK, NothingSilenced, NoBaselineFlood, Alerted
  <2> QED BY <2>4, <2>5
<1>5. ASSUME NEW n \in Notifiers, List(n)
      PROVE  NotifyInv'
  <2>1. PICK S \in Slices(CurrentFamily(n)) :
          LET todo == {d \in S \X chans[n] :
                         Keep(d[1], rules[n], since[n]) /\ Passes(d[1], d[2])}
          IN  IF todo = {} THEN NothingToSend(n)
              ELSE /\ items' = [items EXCEPT ![n] = S]
                   /\ plan' = [plan EXCEPT ![n] = todo]
                   /\ pc' = [pc EXCEPT ![n] = "send"]
                   /\ UNCHANGED <<chans, rules, since, src, ok>>
    BY <1>5 DEF List
  <2> DEFINE todo == {d \in S \X chans[n] :
                        Keep(d[1], rules[n], since[n]) /\ Passes(d[1], d[2])}
  <2>2. UNCHANGED <<storeVars, userVars, alerts, faults>> /\ pc[n] = "list"
    BY <1>5 DEF List
  <2>3. CASE todo = {}
    BY <1>4, <2>1, <2>2, <2>3 DEF NothingToSend, storeVars, TypeOK
  <2>4. CASE todo # {}
    <3>1. /\ items' = [items EXCEPT ![n] = S]
          /\ plan' = [plan EXCEPT ![n] = todo]
          /\ pc' = [pc EXCEPT ![n] = "send"]
          /\ UNCHANGED <<chans, rules, since, src, ok>>
      BY <2>1, <2>4
    <3>2. S \subseteq Query(CurrentFamily(n))
      BY SliceOfQuery
    <3>3. S \subseteq stored /\ \A i \in S : FamilyOf[i] = CurrentFamily(n)
      BY <3>2 DEF Query, TypeOK
    <3>4. todo \subseteq S \X chans[n]
      OBVIOUS
    <3>5. ok[n] = {} /\ items[n] = {} /\ plan[n] = {} /\ src[n] # {}
      BY <2>2 DEF StagesKeepFaith
    <3>6. TypeOK'
      BY <2>2, <3>1, <3>3, <3>4, <3>5 DEF TypeOK, storeVars, userVars
    <3>7. Current(n) \in src[n]
      BY <3>5, CurrentIsLeft DEF TypeOK
    <3>8. IsSource(CurrentFamily(n), rules[n], since[n])
      BY <3>7 DEF StagesKeepFaith, CurrentFamily
    <3>9. ASSUME NEW d \in todo, FamilyOf[d[1]] \in Events
          PROVE  firstSeen[d[1]] > 0
      <4>1. d[1] \in S /\ Keep(d[1], rules[n], since[n])
        OBVIOUS
      <4>2. FirstSeenAfter(d[1], since[n])
        BY <4>1, <3>9 DEF Keep, Events
      <4>3. since[n] > 0
        BY <4>1, <3>3, <3>8, <3>9 DEF IsSource
      <4> QED BY <4>1, <4>2, <4>3, <3>3 DEF FirstSeenAfter, TypeOK
    <3>10. StagesKeepFaith'
      BY <2>2, <3>1, <3>5, <3>9
         DEF TypeOK, StagesKeepFaith, Alerted, storeVars, userVars
    <3> QED
      BY <2>2, <3>6, <3>10 DEF NothingSilenced, NoBaselineFlood, Alerted, storeVars
  <2> QED BY <2>3, <2>4
<1>6. ASSUME NEW n \in Notifiers, NEW i \in Items, NEW c \in Channels,
             Deliver(n, i, c) \/ GiveUp(n, i, c)
      PROVE  NotifyInv'
  <2>1. /\ Returned(n, i, c) /\ Received(i, c)
        /\ faults' \in 0..MaxFaults
        /\ ok' = [ok EXCEPT ![n] = @ \cup {i}] \/ UNCHANGED ok
    BY <1>6, BoundsAssumption DEF Deliver, GiveUp, Fault, TypeOK
  <2>2. /\ alerts' \in [Items -> [Channels -> 0..MaxAlerts]]
        /\ Alerted(i)'
        /\ \A j \in Items : Alerted(j) => Alerted(j)'
        /\ \A j \in Items : Alerted(j)' => Alerted(j) \/ j = i
    BY <2>1, ReceivedStays
  <2>3. /\ UNCHANGED <<storeVars, userVars, chans, rules, since, src, items>>
        /\ plan' = [plan EXCEPT ![n] = @ \ {<<i, c>>}]
        /\ pc' = [pc EXCEPT ![n] = IF plan[n] = {<<i, c>>} THEN "clear" ELSE "send"]
        /\ pc[n] = "send" /\ <<i, c>> \in plan[n]
    BY <2>1 DEF Returned
  <2>4. i \in items[n] /\ items[n] \subseteq stored
    BY <2>3 DEF TypeOK
  <2>5. FamilyOf[i] \in Events => firstSeen[i] > 0
    <3>1. FamilyOf[<<i, c>>[1]] \in Events => firstSeen[<<i, c>>[1]] > 0
      BY <2>3 DEF StagesKeepFaith
    <3> QED BY <3>1
  <2>6. TypeOK'
    BY <2>1, <2>2, <2>3, <2>4 DEF TypeOK, storeVars, userVars
  <2>7. NothingSilenced' /\ NoBaselineFlood'
    BY <2>2, <2>3, <2>4, <2>5 DEF TypeOK, NothingSilenced, NoBaselineFlood, storeVars
  <2>8. StagesKeepFaith'
    <3>1. \A m \in Notifiers \ {n} :
            pc'[m] = pc[m] /\ plan'[m] = plan[m] /\ ok'[m] = ok[m]
      BY <2>1, <2>3 DEF TypeOK
    <3>2. /\ pc'[n] \in {"send", "clear"} /\ plan'[n] \subseteq plan[n]
          /\ ok'[n] \subseteq ok[n] \cup {i}
      BY <2>1, <2>3 DEF TypeOK
    <3>3. /\ UNCHANGED <<firstSeen, rules, since, src, items>>
          /\ \A m \in Notifiers : ok[m] \subseteq Items
      BY <2>3 DEF storeVars, TypeOK
    <3>4. \A m \in Notifiers : \A j \in ok'[m] : Alerted(j)'
      BY <2>2, <3>1, <3>2, <3>3 DEF StagesKeepFaith
    <3>5. /\ pc[n] = "send" /\ StagesKeepFaith
          /\ (\A m \in Notifiers : \A k \in src'[m] :
                 IsSource(Families[k], rules'[m], since'[m]))
      BY <2>3, <3>3 DEF StagesKeepFaith
    <3>6. \A m \in Notifiers : \A d \in plan'[m] :
             FamilyOf[d[1]] \in Events => firstSeen'[d[1]] > 0
      BY <3>1, <3>2, <3>3, <3>5 DEF StagesKeepFaith
    <3>7. \A m \in Notifiers :
            /\ pc'[m] # "idle" => src'[m] # {}
            /\ pc'[m] \in {"idle", "list"} =>
                 items'[m] = {} /\ plan'[m] = {} /\ ok'[m] = {}
      BY <3>1, <3>2, <3>3, <3>5 DEF StagesKeepFaith
    <3> QED BY ONLY <3>4, <3>5, <3>6, <3>7 DEF StagesKeepFaith
  <2> QED BY <2>6, <2>7, <2>8
<1>7. ASSUME NEW n \in Notifiers, NEW i \in Items, NEW c \in Channels,
             Refuse(n, i, c)
      PROVE  NotifyInv'
  <2>1. /\ UNCHANGED <<storeVars, userVars, chans, rules, since, src, items, ok, alerts>>
        /\ faults' \in 0..MaxFaults
        /\ plan' = [plan EXCEPT ![n] = @ \ {<<i, c>>}]
        /\ pc' = [pc EXCEPT ![n] = IF plan[n] = {<<i, c>>} THEN "clear" ELSE "send"]
        /\ pc[n] = "send"
    BY <1>7, BoundsAssumption DEF Refuse, Returned, Fault, TypeOK
  <2>2. TypeOK'
    BY <2>1 DEF TypeOK, storeVars, userVars
  <2>3. StagesKeepFaith'
    BY <2>1 DEF TypeOK, StagesKeepFaith, Alerted, storeVars, userVars
  <2> QED
    BY <2>1, <2>2, <2>3 DEF NothingSilenced, NoBaselineFlood, Alerted, storeVars
<1>8. ASSUME NEW n \in Notifiers, Clear(n)
      PROVE  NotifyInv'
  <2>1. \A i \in isNew \ isNew' : Alerted(i)
    BY <1>8 DEF Clear, Delivered, StagesKeepFaith
  <2> QED BY <1>4, <1>8, <2>1 DEF Clear, TypeOK
<1>9. ASSUME NEW n \in Notifiers, Die(n)
      PROVE  NotifyInv'
  <2>1. /\ UNCHANGED <<storeVars, userVars, alerts>>
        /\ faults' \in 0..MaxFaults
        /\ Forget(n) /\ AtRest(n)
    BY <1>9, BoundsAssumption DEF Die, Fault, Return, TypeOK
  <2> QED BY <1>11, <2>1 DEF storeVars
<1>10. CASE UNCHANGED vars
  BY <1>10
     DEF vars, TypeOK, NothingSilenced, NoBaselineFlood, StagesKeepFaith, Alerted
<1> QED
  BY <1>1, <1>2, <1>3, <1>5, <1>6, <1>7, <1>8, <1>9, <1>10 DEF Next, Notifier

\* Every reachable state of any number of interleaved notify stages satisfies
\* the invariant.
THEOREM NotifyInvHolds == Spec => []NotifyInv
BY NotifyInit, NotifyStep, PTL DEF Spec

\* The variables keep their types: in particular what is left to deliver is
\* always among the documents the stage took and the channels it read.
THEOREM NotifyTypes == Spec => []TypeOK
BY NotifyInvHolds, PTL DEF NotifyInv

\* A signal whose is_new was cleared reached a channel (pipelines/notify.py:
\* "is_new is cleared only for delivered items").
THEOREM NotSilenced == Spec => []NothingSilenced
BY NotifyInvHolds, PTL DEF NotifyInv

\* A channel hears of an asset or a port only if it appeared after a baseline.
THEOREM BaselineIsQuiet == Spec => []NoBaselineFlood
BY NotifyInvHolds, PTL DEF NotifyInv

\* What a stage holds stays consistent with what it read.
THEOREM StagesAreFaithful == Spec => []StagesKeepFaith
BY NotifyInvHolds, PTL DEF NotifyInv

-----------------------------------------------------------------------------
(* Repeated alerts *)

\* The stages that have still to send item i to channel c, and those that are through
\* with it and had it accepted by some channel.
Due(i, c)  == {n \in Notifiers : <<i, c>> \in plan[n]}
Sent(i, c) == {n \in Notifiers : i \in ok[n] /\ <<i, c>> \notin plan[n]}

\* What RepeatsHaveACause needs to be inductive.  While an item is new, each alert is
\* owed to a stage that is through with it or to a fault; from then on no stage takes it
\* any more, and those that have it in hand may each send it once.
AlertsAccountedFor(i, c) ==
  /\ i \notin stored => alerts[i][c] = 0
  /\ i \in isNew => alerts[i][c] <= Cardinality(Sent(i, c)) + faults
  /\ i \in stored \ isNew =>
       alerts[i][c] + Cardinality(Due(i, c)) <= Cardinality(Notifiers) + faults

RepeatsInv == NotifyInv /\ \A i \in Items, c \in Channels : AlertsAccountedFor(i, c)

\* Two sets of stages that differ in at most one stage, or not at all.
LEMMA StagesCompared ==
  ASSUME NEW A \in SUBSET Notifiers, NEW B \in SUBSET Notifiers, NEW n \in Notifiers
  PROVE  /\ Cardinality(A) \in Nat /\ Cardinality(B) \in Nat
         /\ A \subseteq B => Cardinality(A) <= Cardinality(B)
         /\ A \ {n} \subseteq B => Cardinality(A) <= Cardinality(B) + 1
         /\ A \cup {n} \subseteq B /\ n \notin A => Cardinality(A) + 1 <= Cardinality(B)
<1>1. IsFiniteSet(A) /\ IsFiniteSet(B)
  BY BoundsAssumption, FS_Subset
<1>2. Cardinality(A) \in Nat /\ Cardinality(B) \in Nat
  BY <1>1, FS_CardinalityType
<1>3. A \subseteq B => Cardinality(A) <= Cardinality(B)
  BY <1>1, FS_Subset
<1>4. /\ IsFiniteSet(A \ {n}) /\ Cardinality(A \ {n}) \in Nat
      /\ Cardinality(A) <= Cardinality(A \ {n}) + 1
  <2>1. IsFiniteSet(A \ {n})
    BY <1>1, FS_Subset
  <2>2. Cardinality(A \ {n}) \in Nat
    BY <2>1, FS_CardinalityType
  <2>3. n \in A => Cardinality(A \ {n}) = Cardinality(A) - 1
    BY <1>1, FS_RemoveElement
  <2>4. ASSUME n \notin A  PROVE Cardinality(A \ {n}) = Cardinality(A)
    <3>1. A \ {n} = A
      BY <2>4
    <3> QED BY <3>1
  <2> QED BY <1>2, <2>1, <2>2, <2>3, <2>4
<1>5. A \ {n} \subseteq B => Cardinality(A \ {n}) <= Cardinality(B)
  BY <1>1, <1>4, FS_Subset
<1>6. n \notin A => Cardinality(A \cup {n}) = Cardinality(A) + 1
  BY <1>1, FS_AddElement
<1>7. A \cup {n} \subseteq B => Cardinality(A \cup {n}) <= Cardinality(B)
  BY <1>1, FS_Subset
<1> QED BY <1>2, <1>3, <1>4, <1>5, <1>6, <1>7

\* No stage both has an item still to send to a channel and is through with it.
LEMMA DueAndSent ==
  ASSUME NEW i, NEW c
  PROVE  Cardinality(Sent(i, c)) + Cardinality(Due(i, c)) <= Cardinality(Notifiers)
<1>1. IsFiniteSet(Sent(i, c)) /\ IsFiniteSet(Due(i, c))
  BY BoundsAssumption, FS_Subset DEF Sent, Due
<1>2. Sent(i, c) \cap Due(i, c) = {} /\ Sent(i, c) \cup Due(i, c) \subseteq Notifiers
  BY DEF Sent, Due
<1>3. /\ Cardinality(Sent(i, c)) \in Nat /\ Cardinality(Due(i, c)) \in Nat
      /\ Cardinality(Notifiers) \in Nat
  BY <1>1, BoundsAssumption, FS_CardinalityType
<1>4. Cardinality(Sent(i, c) \cup Due(i, c))
        = Cardinality(Sent(i, c)) + Cardinality(Due(i, c))
  <2>1. Cardinality(Sent(i, c) \cup Due(i, c))
          = Cardinality(Sent(i, c)) + Cardinality(Due(i, c))
              - Cardinality(Sent(i, c) \cap Due(i, c))
    BY <1>1, FS_Union
  <2>2. Cardinality(Sent(i, c) \cap Due(i, c)) = 0
    BY <1>2, FS_EmptySet
  <2> QED BY <1>3, <2>1, <2>2
<1>5. Cardinality(Sent(i, c) \cup Due(i, c)) <= Cardinality(Notifiers)
  BY <1>2, BoundsAssumption, FS_Subset
<1> QED BY <1>4, <1>5

\* A step that sends nothing, and after which each stage that was through with the item
\* still is, or has been charged to a fault, keeps the account.
LEMMA NothingReceived ==
  ASSUME NotifyInv, NotifyInv', NEW i \in Items, NEW c \in Channels, NEW n \in Notifiers,
         AlertsAccountedFor(i, c), alerts'[i][c] = alerts[i][c],
         i \in stored <=> i \in stored', i \in isNew' <=> i \in isNew,
         \/ Sent(i, c) \subseteq Sent(i, c)' /\ faults' \in {faults, faults + 1}
         \/ i \notin isNew /\ faults' \in {faults, faults + 1}
         \/ Sent(i, c) \ {n} \subseteq Sent(i, c)' /\ faults' = faults + 1,
         i \notin isNew => Due(i, c)' \subseteq Due(i, c)
  PROVE  AlertsAccountedFor(i, c)'
<1> DEFINE a == alerts[i][c]
           s == Cardinality(Sent(i, c))
           t == Cardinality(Sent(i, c)')
           d == Cardinality(Due(i, c))
           e == Cardinality(Due(i, c)')
<1>1. /\ Sent(i, c) \in SUBSET Notifiers /\ Sent(i, c)' \in SUBSET Notifiers
      /\ Due(i, c) \in SUBSET Notifiers /\ Due(i, c)' \in SUBSET Notifiers
  BY DEF Sent, Due
<1>2. /\ s \in Nat /\ t \in Nat /\ d \in Nat /\ e \in Nat
      /\ Sent(i, c) \subseteq Sent(i, c)' => s <= t
      /\ Sent(i, c) \ {n} \subseteq Sent(i, c)' => s <= t + 1
      /\ Due(i, c)' \subseteq Due(i, c) => e <= d
  BY <1>1, StagesCompared
<1>3. faults \in Nat /\ a \in Nat /\ Cardinality(Notifiers) \in Nat
  BY BoundsAssumption, FS_CardinalityType DEF NotifyInv, TypeOK
<1> HIDE DEF a, s, t, d, e
<1>4. i \notin stored' => a = 0
  BY DEF AlertsAccountedFor, a
<1>5. i \in isNew' => a <= t + faults'
  <2>1. i \in isNew' => a <= s + faults
    BY DEF AlertsAccountedFor, a, s
  <2> QED BY <1>2, <1>3, <2>1
<1>6. i \in stored' \ isNew' => a + e <= Cardinality(Notifiers) + faults'
  <2>1. i \in stored' \ isNew' => a + d <= Cardinality(Notifiers) + faults
    BY DEF AlertsAccountedFor, a, d
  <2>2. faults' \in {faults, faults + 1}
    OBVIOUS
  <2> QED BY <1>2, <1>3, <2>1, <2>2
<1> QED BY <1>4, <1>5, <1>6 DEF AlertsAccountedFor, a, t, e

\* What stage n alone has in hand changes.
LEMMA OneStageMoves ==
  ASSUME TypeOK, NEW n \in Notifiers, NEW i \in Items, NEW c \in Channels, Returned(n, i, c),
         \/ ok' = [ok EXCEPT ![n] = @ \cup {i}]
         \/ UNCHANGED ok,
         NEW j \in Items, NEW d \in Channels
  PROVE  /\ Sent(j, d) \subseteq Sent(j, d)' /\ Due(j, d)' \subseteq Due(j, d)
         /\ n \in Due(i, c) /\ Due(i, c)' \subseteq Due(i, c) \ {n} /\ n \notin Sent(i, c)
         /\ i \in ok'[n] => n \in Sent(i, c)'
         /\ i \in stored
<1>1. /\ plan' = [plan EXCEPT ![n] = @ \ {<<i, c>>}] /\ <<i, c>> \in plan[n]
      /\ UNCHANGED stored
  BY DEF Returned, storeVars
<1>2. /\ \A m \in Notifiers : ok[m] \subseteq ok'[m] /\ plan'[m] \subseteq plan[m]
      /\ plan'[n] = plan[n] \ {<<i, c>>}
      /\ \A m \in Notifiers \ {n} : plan'[m] = plan[m]
  BY <1>1 DEF TypeOK
<1>3. \A m \in Notifiers : j \in ok[m] /\ <<j, d>> \notin plan[m] => m \in Sent(j, d)'
  BY <1>2 DEF Sent
<1>4. i \in stored
  BY <1>1 DEF TypeOK
<1> QED BY <1>1, <1>2, <1>3, <1>4 DEF Sent, Due

\* Every step keeps the account of each alert.
LEMMA RepeatsStep == RepeatsInv /\ [Next]_vars => RepeatsInv'
<1> SUFFICES ASSUME RepeatsInv, [Next]_vars,
                    NEW i \in Items, NEW c \in Channels
             PROVE  AlertsAccountedFor(i, c)'
  BY NotifyStep DEF RepeatsInv
<1> DEFINE Acc == AlertsAccountedFor(i, c)'
<1>t. /\ NotifyInv /\ NotifyInv' /\ AlertsAccountedFor(i, c)
      /\ TypeOK /\ TypeOK' /\ StagesKeepFaith
  BY NotifyStep DEF RepeatsInv, NotifyInv
<1>s. /\ faults \in Nat /\ alerts[i][c] \in Nat
  BY <1>t, BoundsAssumption DEF TypeOK
<1>1. ASSUME UNCHANGED <<plan, ok>>
      PROVE  UNCHANGED <<Sent(i, c), Due(i, c)>>
  BY <1>1 DEF Sent, Due
<1>2. CASE UNCHANGED <<stored, isNew, alerts, faults, plan, ok>>
  BY <1>t, <1>1, <1>2 DEF AlertsAccountedFor
<1>3. ASSUME NEW j \in Items, NEW s \in Severities, Observe(j, s)
      PROVE  AlertsAccountedFor(i, c)'
  <2>1. /\ UNCHANGED <<alerts, faults, plan, ok>>
        /\ stored' = stored \cup {j}
        /\ isNew' = IF j \in stored THEN isNew ELSE isNew \cup {j}
    BY <1>3 DEF Observe, NewAfterUpsert, runVars
  <2>2. CASE i \in stored \/ i # j
    BY <1>t, <1>1, <2>1, <2>2 DEF AlertsAccountedFor
  <2>3. CASE i \notin stored /\ i = j
    <3>1. alerts'[i][c] = 0 /\ i \in isNew'
      BY <1>t, <2>1, <2>3 DEF AlertsAccountedFor
    <3>2. Sent(i, c)' \in SUBSET Notifiers
      BY DEF Sent
    <3>3. Cardinality(Sent(i, c)') \in Nat
      BY <3>2, BoundsAssumption, FS_Subset, FS_CardinalityType
    <3>4. i \in stored'
      BY <2>1, <2>3
    <3> QED BY <1>s, <2>1, <3>1, <3>3, <3>4 DEF AlertsAccountedFor
  <2> QED BY <2>2, <2>3
<1>4. CASE CompleteBaseline \/ SetChannels \/ SetPolicy
  BY <1>2, <1>4 DEF CompleteBaseline, SetChannels, SetPolicy, storeVars, runVars
<1>5. ASSUME NEW n \in Notifiers, Begin(n)  PROVE AlertsAccountedFor(i, c)'
  BY <1>2, <1>5 DEF Begin, storeVars
<1>6. ASSUME NEW n \in Notifiers, List(n)  PROVE AlertsAccountedFor(i, c)'
  <2>1. /\ ok[n] = {} /\ plan[n] = {}
        /\ UNCHANGED <<stored, isNew, alerts, faults>>
    BY <1>6, <1>t DEF List, StagesKeepFaith, storeVars
  <2>2. /\ ok'[n] = {} /\ (i \notin isNew => <<i, c>> \notin plan'[n])
        /\ \A m \in Notifiers \ {n} : ok'[m] = ok[m] /\ plan'[m] = plan[m]
    <3>1. PICK S \in Slices(CurrentFamily(n)) :
            \/ Forget(n)
            \/ \E todo \in SUBSET (S \X chans[n]) :
                 plan' = [plan EXCEPT ![n] = todo] /\ UNCHANGED ok
      BY <1>6 DEF List, NothingToSend, NextFamily
    <3>2. S \subseteq isNew
      BY SliceOfQuery DEF Query
    <3>3. CASE Forget(n)
      BY <1>t, <3>3 DEF Forget, TypeOK
    <3>4. ASSUME NEW todo \in SUBSET (S \X chans[n]),
                 plan' = [plan EXCEPT ![n] = todo], UNCHANGED ok
          PROVE  /\ ok'[n] = {} /\ (i \notin isNew => <<i, c>> \notin plan'[n])
                 /\ \A m \in Notifiers \ {n} : ok'[m] = ok[m] /\ plan'[m] = plan[m]
      BY <1>t, <2>1, <3>2, <3>4 DEF TypeOK
    <3> QED BY <3>1, <3>3, <3>4
  <2>3. /\ Sent(i, c) \subseteq Sent(i, c)'
        /\ i \notin isNew => Due(i, c)' \subseteq Due(i, c)
    BY <2>1, <2>2 DEF Sent, Due
  <2> QED BY <1>t, <1>s, <2>1, <2>3, NothingReceived
<1>7. ASSUME NEW n \in Notifiers, NEW j \in Items, NEW d \in Channels,
             Deliver(n, j, d) \/ GiveUp(n, j, d) \/ Refuse(n, j, d)
      PROVE  AlertsAccountedFor(i, c)'
  <2>1. /\ Returned(n, j, d) /\ UNCHANGED <<stored, isNew>>
        /\ ok' = [ok EXCEPT ![n] = @ \cup {j}] \/ UNCHANGED ok
        /\ faults' \in {faults, faults + 1}
    BY <1>7, <1>s DEF Deliver, GiveUp, Refuse, Returned, Fault, storeVars
  <2>2. /\ Sent(i, c) \subseteq Sent(i, c)' /\ Due(i, c)' \subseteq Due(i, c)
        /\ n \in Due(j, d) /\ Due(j, d)' \subseteq Due(j, d) \ {n} /\ n \notin Sent(j, d)
        /\ j \in ok'[n] => n \in Sent(j, d)'
        /\ j \in stored
    BY <1>t, <2>1, OneStageMoves
  <2>3. alerts \in [Items -> [Channels -> 0..MaxAlerts]]
    BY <1>t DEF TypeOK
  <2>4. CASE Refuse(n, j, d) \/ <<i, c>> # <<j, d>>
    <3>1. alerts'[i][c] = alerts[i][c]
      BY <1>7, <2>3, <2>4 DEF Refuse, Deliver, GiveUp, Received
    <3> QED BY <1>t, <2>1, <2>2, <3>1, NothingReceived
  <2>5. CASE i = j /\ c = d /\ (Deliver(n, j, d) \/ GiveUp(n, j, d))
    <3>1. alerts'[i][c] <= alerts[i][c] + 1 /\ alerts'[i][c] \in Nat
      <4>1. alerts'[i][c] = Smallest(alerts[i][c] + 1, MaxAlerts)
        BY <2>3, <2>5 DEF Deliver, GiveUp, Received
      <4> QED BY <1>s, <4>1, BoundsAssumption DEF Smallest
    <3>2. /\ Sent(i, c) \in SUBSET Notifiers /\ Sent(i, c)' \in SUBSET Notifiers
          /\ Due(i, c) \in SUBSET Notifiers /\ Due(i, c)' \in SUBSET Notifiers
      BY DEF Sent, Due
    <3>3. /\ Cardinality(Sent(i, c)) \in Nat /\ Cardinality(Sent(i, c)') \in Nat
          /\ Cardinality(Due(i, c)) \in Nat /\ Cardinality(Due(i, c)') \in Nat
          /\ Cardinality(Sent(i, c)) <= Cardinality(Sent(i, c)')
          /\ Cardinality(Due(i, c)') + 1 <= Cardinality(Due(i, c))
      <4>1. Due(i, c)' \cup {n} \subseteq Due(i, c) /\ n \notin Due(i, c)'
        BY <2>2, <2>5
      <4> QED BY <2>2, <3>2, <4>1, StagesCompared
    <3>4. \/ faults' = faults /\ Cardinality(Sent(i, c)) + 1 <= Cardinality(Sent(i, c)')
          \/ faults' = faults + 1
      <4>1. CASE Deliver(n, j, d)
        <5>1. ok'[n] = ok[n] \cup {j} /\ faults' = faults
          BY <1>t, <4>1 DEF Deliver, TypeOK
        <5>2. Sent(i, c) \cup {n} \subseteq Sent(i, c)' /\ n \notin Sent(i, c)
          BY <2>2, <2>5, <5>1
        <5> QED BY <3>2, <5>1, <5>2, StagesCompared
      <4>2. CASE GiveUp(n, j, d)
        BY <4>2 DEF GiveUp, Fault
      <4> QED BY <2>5, <4>1, <4>2
    <3>5. i \in stored
      BY <2>2, <2>5
    <3>6. CASE i \in isNew
      <4>1. alerts[i][c] <= Cardinality(Sent(i, c)) + faults
        BY <1>t, <3>6 DEF AlertsAccountedFor
      <4>2. alerts'[i][c] <= Cardinality(Sent(i, c)') + faults'
        BY <1>s, <3>1, <3>3, <3>4, <4>1
      <4> QED BY <2>1, <3>5, <3>6, <4>2 DEF AlertsAccountedFor
    <3>7. CASE i \notin isNew
      <4>1. alerts[i][c] + Cardinality(Due(i, c)) <= Cardinality(Notifiers) + faults
        BY <1>t, <3>5, <3>7 DEF AlertsAccountedFor
      <4>2. Cardinality(Notifiers) \in Nat
        BY BoundsAssumption, FS_CardinalityType
      <4>3. alerts'[i][c] + Cardinality(Due(i, c)') <= Cardinality(Notifiers) + faults'
        BY <1>s, <3>1, <3>3, <3>4, <4>1, <4>2
      <4> QED BY <2>1, <3>5, <3>7, <4>3 DEF AlertsAccountedFor
    <3> QED BY <3>6, <3>7
  <2> QED BY <1>7, <2>4, <2>5
<1>8. ASSUME NEW n \in Notifiers, Clear(n)  PROVE AlertsAccountedFor(i, c)'
  <2>1. /\ UNCHANGED <<stored, alerts, faults>> /\ isNew' = isNew \ ok[n] /\ Forget(n)
    BY <1>8 DEF Clear, Delivered, NextFamily
  <2>2. /\ plan'[n] = {} /\ ok'[n] = {}
        /\ \A m \in Notifiers \ {n} : ok'[m] = ok[m] /\ plan'[m] = plan[m]
    BY <1>t, <2>1 DEF Forget, TypeOK
  <2>3. Due(i, c)' \subseteq Due(i, c)
    BY <2>2 DEF Due
  <2>4. CASE i \in isNew <=> i \in isNew'
    <3>1. i \in isNew => Sent(i, c) \subseteq Sent(i, c)'
      BY <2>1, <2>2, <2>4 DEF Sent
    <3> QED BY <1>t, <1>s, <2>1, <2>3, <2>4, <3>1, NothingReceived
  <2>5. CASE i \in isNew /\ i \notin isNew'
    <3>1. alerts[i][c] <= Cardinality(Sent(i, c)) + faults
      BY <1>t, <2>5 DEF AlertsAccountedFor
    <3>2. Cardinality(Sent(i, c)) + Cardinality(Due(i, c)) <= Cardinality(Notifiers)
      BY DueAndSent
    <3>3. /\ Due(i, c) \in SUBSET Notifiers /\ Due(i, c)' \in SUBSET Notifiers
          /\ Sent(i, c) \in SUBSET Notifiers
      BY DEF Due, Sent
    <3>4. /\ Cardinality(Due(i, c)') <= Cardinality(Due(i, c))
          /\ Cardinality(Due(i, c)) \in Nat /\ Cardinality(Due(i, c)') \in Nat
          /\ Cardinality(Sent(i, c)) \in Nat /\ Cardinality(Notifiers) \in Nat
      BY <2>3, <3>3, StagesCompared, BoundsAssumption, FS_CardinalityType
    <3>5. alerts'[i][c] + Cardinality(Due(i, c)') <= Cardinality(Notifiers) + faults'
      BY <1>s, <2>1, <3>1, <3>2, <3>4
    <3>6. i \in stored
      BY <1>t, <2>5 DEF TypeOK
    <3> QED BY <2>1, <2>5, <3>5, <3>6 DEF AlertsAccountedFor
  <2>6. isNew' \subseteq isNew
    BY <2>1
  <2> QED BY <2>4, <2>5, <2>6
<1>9. ASSUME NEW n \in Notifiers, Die(n)  PROVE AlertsAccountedFor(i, c)'
  <2>1. /\ UNCHANGED <<stored, isNew, alerts>> /\ faults' = faults + 1 /\ Forget(n)
    BY <1>9 DEF Die, Fault, Return, storeVars
  <2>2. /\ plan'[n] = {} /\ ok'[n] = {}
        /\ \A m \in Notifiers \ {n} : ok'[m] = ok[m] /\ plan'[m] = plan[m]
    BY <1>t, <2>1 DEF Forget, TypeOK
  <2>3. Due(i, c)' \subseteq Due(i, c) /\ Sent(i, c) \ {n} \subseteq Sent(i, c)'
    BY <2>2 DEF Due, Sent
  <2> QED BY <1>t, <2>1, <2>3, NothingReceived
<1>10. CASE UNCHANGED vars
  BY <1>2, <1>10 DEF vars
<1> QED
  BY <1>3, <1>4, <1>5, <1>6, <1>7, <1>8, <1>9, <1>10 DEF Next, Notifier, RepeatsInv

\* An alert fires once but for stages that overlap and faults: however often the item is
\* observed again and whatever the users set, a channel receives it at most once for each
\* stage that can be under way and for each fault.
THEOREM RepeatsAreCaused == Spec => []RepeatsHaveACause
<1>1. Init => RepeatsInv
  <2> SUFFICES ASSUME Init  PROVE RepeatsInv
    OBVIOUS
  <2>1. stored = {} /\ isNew = {} /\ alerts = [i \in Items |-> [c \in Channels |-> 0]]
    BY DEF Init
  <2> QED BY <2>1, NotifyInit DEF RepeatsInv, AlertsAccountedFor
<1>2. RepeatsInv => RepeatsHaveACause
  <2> SUFFICES ASSUME RepeatsInv, NEW i \in Items, NEW c \in Channels
               PROVE  alerts[i][c] <= Cardinality(Notifiers) + faults
    BY DEF RepeatsHaveACause
  <2>1. AlertsAccountedFor(i, c) /\ TypeOK
    BY DEF RepeatsInv, NotifyInv
  <2>2. Sent(i, c) \in SUBSET Notifiers /\ Due(i, c) \in SUBSET Notifiers
    BY DEF Sent, Due
  <2>3. /\ Cardinality(Sent(i, c)) <= Cardinality(Notifiers)
        /\ Cardinality(Sent(i, c)) \in Nat /\ Cardinality(Due(i, c)) \in Nat
        /\ Cardinality(Notifiers) \in Nat
    BY <2>2, BoundsAssumption, FS_Subset, FS_CardinalityType
  <2>4. faults \in Nat /\ alerts[i][c] \in Nat
    BY <2>1, BoundsAssumption DEF TypeOK
  <2> QED BY <2>1, <2>3, <2>4 DEF AlertsAccountedFor
<1> QED
  BY <1>1, <1>2, RepeatsStep, PTL DEF Spec

-----------------------------------------------------------------------------
(* Limits *)

\* What may be stored under the names of phases and stages
Stored(o) == o \in [DOMAIN o -> Int \cup {Junk}]

-----------------------------------------------------------------------------
(* Cadence *)

\* The built-in cadences respect the floor.
LEMMA DefaultsAreSlow ==
  \A p \in CONFIGURABLE_PIPELINES \ NON_SCANNING :
    /\ DEFAULT_CADENCE_SECONDS[p] \in Nat
    /\ DEFAULT_CADENCE_SECONDS[p] >= MIN_INTERVAL_SECONDS
BY DEF DEFAULT_CADENCE_SECONDS, MIN_INTERVAL_SECONDS, NON_SCANNING, HOUR, MINUTE

\* What is stored is raised to the floor.
LEMMA SanitizedIsSlow ==
  ASSUME NEW o, Stored(o), NEW floor \in Nat,
         NEW p \in (DOMAIN sanitize_overrides(o, floor)) \ NON_SCANNING
  PROVE  /\ sanitize_overrides(o, floor)[p] \in Nat
         /\ sanitize_overrides(o, floor)[p] >= MIN_INTERVAL_SECONDS
         /\ sanitize_overrides(o, floor)[p] >= floor
BY JunkAssumption DEF sanitize_overrides, Stored, Larger, MIN_INTERVAL_SECONDS, MINUTE

\* "a custom cadence can never scan faster than this, whatever a user enters": no phase
\* that touches targets runs more often than the built-in floor and than the operator's,
\* whatever the program and its tenant have stored.
THEOREM CadenceKeepsTheFloor ==
  ASSUME NEW program, Stored(program), NEW tenant, Stored(tenant), NEW floor \in Nat,
         NEW p \in CONFIGURABLE_PIPELINES \ NON_SCANNING
  PROVE  /\ effective_cadence(program, tenant, floor)[p] >= MIN_INTERVAL_SECONDS
         /\ effective_cadence(program, tenant, floor)[p] >= floor
<1> DEFINE built_in == [q \in CONFIGURABLE_PIPELINES |->
                          IF q \in NON_SCANNING THEN DEFAULT_CADENCE_SECONDS[q]
                          ELSE Larger(DEFAULT_CADENCE_SECONDS[q], floor)]
           cleanT == sanitize_overrides(tenant, floor)
           cleanP == sanitize_overrides(program, floor)
<1>1. built_in[p] >= MIN_INTERVAL_SECONDS /\ built_in[p] >= floor
  BY DefaultsAreSlow DEF Larger, MIN_INTERVAL_SECONDS, MINUTE
<1>2. p \in DOMAIN cleanT =>
        cleanT[p] >= MIN_INTERVAL_SECONDS /\ cleanT[p] >= floor
  BY SanitizedIsSlow
<1>3. p \in DOMAIN cleanP =>
        cleanP[p] >= MIN_INTERVAL_SECONDS /\ cleanP[p] >= floor
  BY SanitizedIsSlow
<1>4. effective_cadence(program, tenant, floor)[p] =
        IF p \in DOMAIN cleanP THEN cleanP[p]
        ELSE IF p \in DOMAIN cleanT THEN cleanT[p] ELSE built_in[p]
  <2> HIDE DEF cleanT, cleanP
  <2>1. effective_cadence(program, tenant, floor) = Updated(Updated(built_in, cleanT), cleanP)
    BY DEF effective_cadence, cleanT, cleanP
  <2>2. p \in DOMAIN built_in
    OBVIOUS
  <2> HIDE DEF built_in
  <2>. QED  BY <2>1, <2>2 DEF Updated
<1>. QED  BY <1>1, <1>2, <1>3, <1>4

\* Cleaning what was cleaned under another floor leaves what one cleaning under the
\* higher of the two does.
LEMMA SanitizedTwice ==
  ASSUME NEW o, Stored(o), NEW f \in Nat, NEW g \in Nat
  PROVE  sanitize_overrides(sanitize_overrides(o, f), g) = sanitize_overrides(o, Larger(f, g))
<1> DEFINE once == sanitize_overrides(o, f)
           kept == {q \in DOMAIN o \cap CONFIGURABLE_PIPELINES : o[q] # Junk /\ o[q] > 0}
<1>1. DOMAIN once = kept
  BY DEF sanitize_overrides
<1>2. \A q \in kept : o[q] \in Int /\ o[q] > 0
  BY DEF Stored
<1>3. \A q \in kept : once[q] = IF q \in NON_SCANNING THEN o[q]
                                ELSE Larger(o[q], Larger(MIN_INTERVAL_SECONDS, f))
  BY DEF sanitize_overrides
<1>4. \A q \in kept : once[q] \in Int /\ once[q] # Junk /\ once[q] > 0
  BY <1>2, <1>3, JunkAssumption DEF Larger, MIN_INTERVAL_SECONDS, MINUTE
<1>5. {q \in DOMAIN once \cap CONFIGURABLE_PIPELINES : once[q] # Junk /\ once[q] > 0} = kept
  <2> HIDE DEF once
  <2>. QED  BY <1>1, <1>4
<1>6. \A q \in kept \ NON_SCANNING :
        Larger(once[q], Larger(MIN_INTERVAL_SECONDS, g)) =
          Larger(o[q], Larger(MIN_INTERVAL_SECONDS, Larger(f, g)))
  BY <1>2, <1>3 DEF Larger, MIN_INTERVAL_SECONDS, MINUTE
<1> DEFINE twice == sanitize_overrides(once, g)
           flat == sanitize_overrides(o, Larger(f, g))
<1>7. twice = [q \in kept |-> IF q \in NON_SCANNING THEN once[q]
                              ELSE Larger(once[q], Larger(MIN_INTERVAL_SECONDS, g))]
  <2> HIDE DEF once, kept
  <2>. QED  BY <1>5 DEF sanitize_overrides
<1>8. flat = [q \in kept |-> IF q \in NON_SCANNING THEN o[q]
                             ELSE Larger(o[q], Larger(MIN_INTERVAL_SECONDS, Larger(f, g)))]
  BY DEF sanitize_overrides
<1> HIDE DEF once, kept, twice, flat
<1>9. \A q \in kept : twice[q] = flat[q]
  BY <1>3, <1>6, <1>7, <1>8
<1>10. twice = flat
  BY <1>7, <1>8, <1>9
<1>. QED  BY <1>10 DEF twice, flat, once

\* What the screens show is what the scheduler plans with, though the screens clean the
\* stored values twice.
THEOREM ShownIsRun ==
  ASSUME NEW program, Stored(program), NEW tenant, Stored(tenant), NEW floor \in Nat
  PROVE  schedule_view(program, tenant, floor) = effective_cadence(program, tenant, floor)
<1>1. Larger(floor, floor) = floor
  BY DEF Larger
<1>. QED  BY <1>1, SanitizedTwice DEF schedule_view, effective_cadence

\* A floor that is raised later binds what was saved under the lower one.
THEOREM RaisedFloorBinds ==
  ASSUME NEW sent, Stored(sent), NEW tenant, NEW old \in Nat, NEW floor \in Nat, old <= floor
  PROVE  effective_cadence(set_schedule(sent, old), tenant, floor)
           = effective_cadence(sent, tenant, floor)
<1>1. Larger(old, floor) = floor
  BY DEF Larger
<1>. QED  BY <1>1, SanitizedTwice DEF set_schedule, effective_cadence

\* And the screens call a phase due exactly when the scheduler does.
THEOREM DueIsShown ==
  ASSUME NEW last \in Int \cup {Junk}, NEW now \in Int, NEW interval \in Int
  PROVE  is_due(last, now, interval)
           <=> (next_due(last, interval) = Junk \/ next_due(last, interval) <= now)
BY JunkAssumption DEF is_due, next_due

-----------------------------------------------------------------------------
(* Time limits *)

\* The bounds, as numbers
LEMMA Bounds == MIN_TIMEOUT_SECONDS = 30 /\ MAX_TIMEOUT_SECONDS = 21600
BY DEF MIN_TIMEOUT_SECONDS, MAX_TIMEOUT_SECONDS, HOUR, MINUTE

\* What a number becomes between the bounds, and that it stays there
LEMMA Clamped ==
  ASSUME NEW i \in Int
  PROVE  LET c == Larger(MIN_TIMEOUT_SECONDS, Smaller(i, MAX_TIMEOUT_SECONDS))
         IN  /\ c \in MIN_TIMEOUT_SECONDS..MAX_TIMEOUT_SECONDS
             /\ i \in MIN_TIMEOUT_SECONDS..MAX_TIMEOUT_SECONDS => c = i
<1> DEFINE below == Smaller(i, MAX_TIMEOUT_SECONDS)
<1>1. below \in Int /\ below <= MAX_TIMEOUT_SECONDS /\ (i <= MAX_TIMEOUT_SECONDS => below = i)
  BY Bounds DEF Smaller
<1> HIDE DEF below
<1>2. /\ Larger(MIN_TIMEOUT_SECONDS, below) \in MIN_TIMEOUT_SECONDS..MAX_TIMEOUT_SECONDS
      /\ below >= MIN_TIMEOUT_SECONDS => Larger(MIN_TIMEOUT_SECONDS, below) = below
  BY <1>1, Bounds DEF Larger
<1>3. i \in MIN_TIMEOUT_SECONDS..MAX_TIMEOUT_SECONDS
        => Larger(MIN_TIMEOUT_SECONDS, below) = i
  BY <1>1, <1>2, Bounds
<1>. QED  BY <1>2, <1>3 DEF below

\* The built-in timeouts are within the bounds.
LEMMA DefaultTimeouts ==
  \A s \in DOMAIN DEFAULT_TIMEOUTS_SECONDS :
    DEFAULT_TIMEOUTS_SECONDS[s] \in MIN_TIMEOUT_SECONDS..MAX_TIMEOUT_SECONDS
<1> TAKE s \in DOMAIN DEFAULT_TIMEOUTS_SECONDS
<1>1. DEFAULT_TIMEOUTS_SECONDS[s] \in {2 * MINUTE, 3 * MINUTE, 5 * MINUTE, 10 * MINUTE,
                                       15 * MINUTE, 20 * MINUTE, HOUR}
  BY Zenon DEF DEFAULT_TIMEOUTS_SECONDS
<1>. QED  BY <1>1, Bounds DEF HOUR, MINUTE

\* What is stored is brought within the bounds.
LEMMA CleanTimeouts ==
  ASSUME NEW o, Stored(o), NEW s \in DOMAIN sanitize_timeout_overrides(o)
  PROVE  /\ s \in DOMAIN DEFAULT_TIMEOUTS_SECONDS
         /\ sanitize_timeout_overrides(o)[s] \in MIN_TIMEOUT_SECONDS..MAX_TIMEOUT_SECONDS
<1>1. /\ s \in DOMAIN o \cap DOMAIN DEFAULT_TIMEOUTS_SECONDS /\ o[s] # Junk
      /\ sanitize_timeout_overrides(o)[s]
           = Larger(MIN_TIMEOUT_SECONDS, Smaller(o[s], MAX_TIMEOUT_SECONDS))
  BY DEF sanitize_timeout_overrides
<1>2. o[s] \in Int
  BY <1>1 DEF Stored
<1>3. Larger(MIN_TIMEOUT_SECONDS, Smaller(o[s], MAX_TIMEOUT_SECONDS))
        \in MIN_TIMEOUT_SECONDS..MAX_TIMEOUT_SECONDS
  BY <1>2, Clamped
<1>. QED  BY <1>1, <1>3

\* "a value entered in the UI can never make a stage hang forever or die instantly":
\* every stage has a limit, and it lies between the two bounds.
THEOREM TimeoutsAreBounded ==
  ASSUME NEW program, Stored(program), NEW tenant, Stored(tenant)
  PROVE  /\ DOMAIN effective_timeouts(program, tenant) = DOMAIN DEFAULT_TIMEOUTS_SECONDS
         /\ \A s \in DOMAIN DEFAULT_TIMEOUTS_SECONDS :
              effective_timeouts(program, tenant)[s]
                \in MIN_TIMEOUT_SECONDS..MAX_TIMEOUT_SECONDS
<1> DEFINE base == DEFAULT_TIMEOUTS_SECONDS
           cleanT == sanitize_timeout_overrides(tenant)
           cleanP == sanitize_timeout_overrides(program)
           bounds == MIN_TIMEOUT_SECONDS..MAX_TIMEOUT_SECONDS
<1>1. \A s \in DOMAIN base : base[s] \in bounds
  BY DefaultTimeouts
<1>2. \A s \in DOMAIN cleanT : s \in DOMAIN base /\ cleanT[s] \in bounds
  BY CleanTimeouts
<1>3. \A s \in DOMAIN cleanP : s \in DOMAIN base /\ cleanP[s] \in bounds
  BY CleanTimeouts
<1>4. effective_timeouts(program, tenant) = Updated(Updated(base, cleanT), cleanP)
  BY DEF effective_timeouts
<1> HIDE DEF base, cleanT, cleanP, bounds
<1>5. /\ DOMAIN Updated(Updated(base, cleanT), cleanP) = DOMAIN base
      /\ \A s \in DOMAIN base : Updated(Updated(base, cleanT), cleanP)[s] \in bounds
  BY <1>1, <1>2, <1>3 DEF Updated
<1>. QED  BY <1>4, <1>5 DEF base, bounds

\* The limits that the screens show are those that runs get.
THEOREM ShownLimitIsUsed ==
  ASSUME NEW program, Stored(program), NEW tenant, Stored(tenant)
  PROVE  timeouts_view(program, tenant) = effective_timeouts(program, tenant)
<1>1. ASSUME NEW o, Stored(o)
      PROVE  sanitize_timeout_overrides(sanitize_timeout_overrides(o))
               = sanitize_timeout_overrides(o)
  <2> DEFINE once == sanitize_timeout_overrides(o)
             twice == sanitize_timeout_overrides(once)
             kept == {r \in DOMAIN once \cap DOMAIN DEFAULT_TIMEOUTS_SECONDS : once[r] # Junk}
  <2>1. \A s \in DOMAIN once : /\ s \in DOMAIN DEFAULT_TIMEOUTS_SECONDS
                               /\ once[s] \in MIN_TIMEOUT_SECONDS..MAX_TIMEOUT_SECONDS
    BY <1>1, CleanTimeouts
  <2>2. once = [s \in DOMAIN once |-> once[s]]
    BY DEF sanitize_timeout_overrides
  <2>3. twice = [s \in kept |-> Larger(MIN_TIMEOUT_SECONDS, Smaller(once[s], MAX_TIMEOUT_SECONDS))]
    BY DEF sanitize_timeout_overrides
  <2> HIDE DEF once, twice
  <2>4. kept = DOMAIN once
    <3>1. \A i \in MIN_TIMEOUT_SECONDS..MAX_TIMEOUT_SECONDS : i # Junk
      BY JunkAssumption
    <3>. QED  BY <2>1, <3>1, Zenon
  <2>5. \A s \in DOMAIN once :
          Larger(MIN_TIMEOUT_SECONDS, Smaller(once[s], MAX_TIMEOUT_SECONDS)) = once[s]
    <3>1. \A i \in MIN_TIMEOUT_SECONDS..MAX_TIMEOUT_SECONDS : i \in Int
      OBVIOUS
    <3>. QED  BY <2>1, <3>1, Clamped, Zenon
  <2> HIDE DEF kept
  <2>6. twice = once
    BY <2>2, <2>3, <2>4, <2>5
  <2>. QED  BY <2>6 DEF once, twice
<1>. QED  BY <1>1 DEF timeouts_view, effective_timeouts

-----------------------------------------------------------------------------
(* Rates *)

\* What a tool is told stays within the configured rate per target, however many targets
\* and whatever the ceiling, as long as the targets together are allowed one packet per
\* second; below that the tool still gets one.  (The factor is the resolution.)
THEOREM ToolsArePolite ==
  ASSUME NEW hosts \in Nat, NEW cap \in Nat
  PROVE  /\ subprocess_rate_for(hosts, cap) \in 1..SUBPROCESS_RATE_CEILING
         /\ cap * Larger(1, hosts) >= 100 => within_cap(hosts, cap)
         /\ cap * Larger(1, hosts) < 100 => subprocess_rate_for(hosts, cap) = 1
<1> DEFINE total == cap * Larger(1, hosts)
<1>1. total \in Nat
  BY DEF Larger
<1>2. /\ subprocess_rate_for(hosts, cap)
           = Larger(1, Smaller(SUBPROCESS_RATE_CEILING, total \div 100))
      /\ within_cap(hosts, cap) <=> 100 * subprocess_rate_for(hosts, cap) <= total
  BY DEF subprocess_rate_for, within_cap
<1> HIDE DEF total
<1>3. total \div 100 \in Nat /\ 100 * (total \div 100) <= total
      /\ total < 100 * (total \div 100) + 100
  BY <1>1
<1>4. /\ subprocess_rate_for(hosts, cap) \in 1..SUBPROCESS_RATE_CEILING
      /\ total >= 100 => within_cap(hosts, cap)
      /\ total < 100 => subprocess_rate_for(hosts, cap) = 1
  BY <1>1, <1>2, <1>3 DEF Larger, Smaller, SUBPROCESS_RATE_CEILING
<1>. QED  BY <1>4 DEF total

-----------------------------------------------------------------------------
(* Alerts *)

\* The built-in policy is within the bounds.
LEMMA DefaultPolicy ==
  /\ DEFAULT_ALERT_POLICY["finding_min_severity"] = "medium"
  /\ DEFAULT_ALERT_POLICY["cve_min_cvss"] = 0
  /\ DEFAULT_ALERT_POLICY["port_filter"] = {}
  /\ \A k \in BOOL_KEYS : DEFAULT_ALERT_POLICY[k] = TRUE
  /\ DOMAIN DEFAULT_ALERT_POLICY
       = BOOL_KEYS \cup {"finding_min_severity", "cve_min_cvss", "port_filter"}
BY DEF DEFAULT_ALERT_POLICY, BOOL_KEYS

\* A stored alert policy has under its keys values of their kind, or junk.
StoredPolicy(o) ==
  /\ "finding_min_severity" \in DOMAIN o => o["finding_min_severity"] \in SEVERITIES \cup {Junk}
  /\ "cve_min_cvss" \in DOMAIN o => o["cve_min_cvss"] \in Int \cup {Junk}

\* What notify relies on
Scores == 0..100
Sound(kept) ==
  /\ "finding_min_severity" \in DOMAIN kept => kept["finding_min_severity"] \in SEVERITIES
  /\ "cve_min_cvss" \in DOMAIN kept => kept["cve_min_cvss"] \in Scores
  /\ \A k \in BOOL_KEYS \cap DOMAIN kept : kept[k] \in BOOLEAN
  /\ "port_filter" \in DOMAIN kept =>
       \A t \in kept["port_filter"] : t.from \in Ports /\ t.to \in Ports

\* What is stored of a policy is brought within the bounds.
LEMMA CleanPolicy ==
  ASSUME NEW o, StoredPolicy(o)
  PROVE  /\ DOMAIN sanitize_alert_policy(o) \subseteq DOMAIN DEFAULT_ALERT_POLICY
         /\ Sound(sanitize_alert_policy(o))
<1> DEFINE clean == sanitize_alert_policy(o)
<1>1. DOMAIN clean \subseteq DOMAIN o \cap DOMAIN DEFAULT_ALERT_POLICY
  BY DEF sanitize_alert_policy
<1>2. "finding_min_severity" \in DOMAIN clean =>
        clean["finding_min_severity"] = o["finding_min_severity"]
          /\ o["finding_min_severity"] # Junk
  BY DEF sanitize_alert_policy, BOOL_KEYS
<1>3. "cve_min_cvss" \in DOMAIN clean =>
        clean["cve_min_cvss"] = Smaller(100, Larger(0, o["cve_min_cvss"]))
          /\ o["cve_min_cvss"] # Junk
  BY DEF sanitize_alert_policy, BOOL_KEYS
<1>4. \A k \in BOOL_KEYS \cap DOMAIN clean : clean[k] \in BOOLEAN
  <2> TAKE k \in BOOL_KEYS \cap DOMAIN clean
  <2>1. clean[k] = (o[k] # FALSE)
    BY DEF sanitize_alert_policy, BOOL_KEYS
  <2>. QED  BY <2>1
<1>5. "port_filter" \in DOMAIN clean =>
        clean["port_filter"] \in {{}, clean_port_spec(o["port_filter"])}
  BY DEF sanitize_alert_policy, BOOL_KEYS
<1> HIDE DEF clean
<1>6. "cve_min_cvss" \in DOMAIN clean => clean["cve_min_cvss"] \in Scores
  <2> SUFFICES ASSUME "cve_min_cvss" \in DOMAIN clean PROVE clean["cve_min_cvss"] \in Scores
    OBVIOUS
  <2>1. o["cve_min_cvss"] \in Int
    BY <1>1, <1>3 DEF StoredPolicy
  <2>. QED  BY <1>3, <2>1 DEF Smaller, Larger, Scores
<1>7. "finding_min_severity" \in DOMAIN clean => clean["finding_min_severity"] \in SEVERITIES
  BY <1>1, <1>2 DEF StoredPolicy
<1>8. "port_filter" \in DOMAIN clean =>
        \A t \in clean["port_filter"] : t.from \in Ports /\ t.to \in Ports
  <2>1. \A spec : \A t \in clean_port_spec(spec) : t.from \in Ports /\ t.to \in Ports
    BY Zenon DEF clean_port_spec
  <2>. QED  BY <1>5, <2>1, Zenon
<1>9. Sound(clean)
  BY <1>4, <1>6, <1>7, <1>8, Zenon DEF Sound
<1>. QED  BY <1>1, <1>9, Zenon DEF clean

\* A policy that is laid over another is within the bounds.
LEMMA OverlaidPolicy ==
  ASSUME NEW f, Sound(f), NEW o, Sound(o)
  PROVE  Sound(Updated(f, o)) /\ DOMAIN Updated(f, o) = DOMAIN f \cup DOMAIN o
<1>1. DOMAIN Updated(f, o) = DOMAIN f \cup DOMAIN o
  BY DEF Updated
<1>2. \A k \in DOMAIN f \cup DOMAIN o :
        Updated(f, o)[k] = IF k \in DOMAIN o THEN o[k] ELSE f[k]
  BY DEF Updated
<1>3. Sound(Updated(f, o))
  BY <1>1, <1>2, Zenon DEF Sound
<1>. QED  BY <1>1, <1>3

\* "persisted config can never break the notify stage": whatever program and tenant have
\* stored, the policy that notify works with has every key, and a value of its kind there.
THEOREM PolicyIsSound ==
  ASSUME NEW program, StoredPolicy(program), NEW tenant, StoredPolicy(tenant)
  PROVE  /\ DOMAIN effective_alert_policy(program, tenant) = DOMAIN DEFAULT_ALERT_POLICY
         /\ Sound(effective_alert_policy(program, tenant))
<1>1. Sound(DEFAULT_ALERT_POLICY)
  <2>1. "medium" \in SEVERITIES /\ 0 \in Scores /\ TRUE \in BOOLEAN
    BY DEF SEVERITIES, Scores
  <2>. QED  BY <2>1, DefaultPolicy, Zenon DEF Sound
<1>2. /\ Sound(sanitize_alert_policy(tenant)) /\ Sound(sanitize_alert_policy(program))
      /\ DOMAIN sanitize_alert_policy(tenant) \subseteq DOMAIN DEFAULT_ALERT_POLICY
      /\ DOMAIN sanitize_alert_policy(program) \subseteq DOMAIN DEFAULT_ALERT_POLICY
  BY CleanPolicy
<1> DEFINE half == Updated(DEFAULT_ALERT_POLICY, sanitize_alert_policy(tenant))
<1>3. Sound(half) /\ DOMAIN half = DOMAIN DEFAULT_ALERT_POLICY
  BY <1>1, <1>2, OverlaidPolicy
<1> HIDE DEF half
<1>4. /\ Sound(Updated(half, sanitize_alert_policy(program)))
      /\ DOMAIN Updated(half, sanitize_alert_policy(program)) = DOMAIN DEFAULT_ALERT_POLICY
  <2>1. DOMAIN half \cup DOMAIN sanitize_alert_policy(program) = DOMAIN DEFAULT_ALERT_POLICY
    BY <1>2, <1>3
  <2>. QED  BY <1>2, <1>3, <2>1, OverlaidPolicy, Zenon
<1>. QED  BY <1>4 DEF half, effective_alert_policy

\* "known-exploited beats theoretical": a CVE on the KEV list that may affect a product, by
\* its version or because that is unknown, becomes a match that is worth an alert under
\* the built-in policy, whatever its score.
THEOREM KevIsAlerted ==
  ASSUME NEW products, NEW records, NEW kev, NEW item \in products, NEW record \in records,
         record.score \in 0..100 \cup {NoScore}, record.cve_id \in kev,
         item.product = record.product, item.version \in record.affected \cup {Junk}
  PROVE  \E match \in match_cves(products, records, kev) :
           /\ match.cve_id = record.cve_id /\ match.item = item
           /\ cve_keep(match, DEFAULT_ALERT_POLICY)
<1> DEFINE match == match_of(item, record, kev)
<1>1. confidence(item, record) # "none"
  BY DEF confidence
<1>2. match \in match_cves(products, records, kev)
  <2>1. <<item, record>> \in {q \in products \X records : /\ q[1].product = q[2].product
                                                      /\ confidence(q[1], q[2]) # "none"}
    BY <1>1
  <2>. QED  BY <2>1 DEF match_cves
<1>3. match.trusted /\ match.cve_id = record.cve_id /\ match.item = item
  BY DEF match_of
<1>4. rank[match.severity] >= 2
  <2>1. from_cvss(record.score) \in SEVERITIES
    BY DEF from_cvss, SEVERITIES
  <2>2. match.severity = escalate_for_kev(from_cvss(record.score), TRUE)
    BY DEF match_of
  <2>. QED  BY <2>1, <2>2 DEF escalate_for_kev, rank, SEVERITIES
<1>5. rank[DEFAULT_ALERT_POLICY["finding_min_severity"]] = 2
      /\ ~(DEFAULT_ALERT_POLICY["cve_min_cvss"] > 0)
  <2>1. rank["medium"] = 2
    BY DEF rank
  <2>. QED  BY <2>1, DefaultPolicy
<1> HIDE DEF match
<1>6. cve_keep(match, DEFAULT_ALERT_POLICY)
  BY <1>3, <1>4, <1>5 DEF cve_keep
<1>. QED  BY <1>2, <1>3, <1>6

-----------------------------------------------------------------------------
(* Purge *)

\* "a misconfigured or corrupt plan value can never wipe an operator's data": whatever the
\* configured number, what was seen within a month stays, and so does everything in the
\* protected collections; where the deletions fail makes no difference to that.
THEOREM PurgeKeepsTheMonth ==
  ASSUME NEW records, NEW tenants, NEW failing, NEW days \in Int, NEW now \in Int,
         NEW r \in records, r.seen \in Int,
         r.seen >= now - MIN_RETENTION_DAYS \/ r.collection \in PROTECTED
  PROVE  r \in purge_all(records, tenants, days, now, failing)
<1>1. r.seen >= now - MIN_RETENTION_DAYS => r.seen >= cutoff_for(days, now)
  BY DEF cutoff_for, Larger, MIN_RETENTION_DAYS
<1>2. r.collection \in PROTECTED => r.collection \notin PURGEABLE \ (PROTECTED \cup failing)
  OBVIOUS
<1>. QED  BY <1>1, <1>2 DEF purge_all, purge_tenant
=============================================================================
