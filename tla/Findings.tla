------------------------------- MODULE Findings -------------------------------
(***************************************************************************)
(* The findings of the stages that take reports back.  A run looks at the   *)
(* surface again, stores what it found and then retires what it looked for  *)
(* and did not find: param_discovery by the pages it probed to the end,     *)
(* broken_links by the pages of its links, dork by the pages it read.  Two  *)
(* runs of a stage may overlap (a full run and the cadence), die at any     *)
(* point and meet requests that are not answered.                           *)
(*                                                                         *)
(* Stages do not touch each other's findings: a behaviour is about one.     *)
(***************************************************************************)
EXTENDS Naturals, Sequences, FiniteSets, SequencesExt

CONSTANTS
  Runs,              \* executions of the stage that may overlap
  Stages,            \* stages under consideration
  Pages,             \* urls that may be probed
  CANDIDATE_PARAMS,  \* the built-in list, a sequence of names
  ArjunOnly,         \* names that only arjun tries
  BATCH,
  Ordered,           \* outbound links in the order of the check
  FoundOn, HostOf,   \* page and destination host of a link
  Handles,           \* links to profiles on social platforms
  Hits,              \* pages that the search engine lists
  Nobody,
  MaxFlips,          \* bound on changes of the world
  MaxFaults          \* bound on unanswered requests and deaths

Links == ToSet(Ordered)
Candidates == ToSet(CANDIDATE_PARAMS)
Params == Candidates \cup ArjunOnly

ASSUME FindingsAssumption ==
  /\ Stages \subseteq {"param_discovery", "broken_links", "dork"}
  /\ CANDIDATE_PARAMS \in Seq(Candidates) /\ Candidates \cap ArjunOnly = {}
  /\ BATCH \in Nat \ {0}
  /\ DOMAIN FoundOn = Links /\ DOMAIN HostOf = Links /\ Handles \subseteq Links
  /\ MaxFlips \in Nat /\ MaxFaults \in Nat

VARIABLES
  stage,      \* the stage of this behaviour
  facts,      \* what is the case: parameters accepted, hosts dead, pages exposed
  reported,   \* findings in the state NEW
  retired,    \* findings in the state FALSE_POSITIVE
  runs,
  flips, faults

findingsVars == <<stage, facts, reported, retired, runs, flips, faults>>

Items == CASE stage = "param_discovery" -> Pages \X Params
           [] stage = "broken_links" -> Links
           [] stage = "dork" -> Hits

Facts == IF stage = "broken_links" THEN {HostOf[l] : l \in Links} ELSE Items

\* What there is to find now
Holds(i) == (IF stage = "broken_links" THEN HostOf[i] ELSE i) \in facts

Location(i) == CASE stage = "param_discovery" -> i[1]
                 [] stage = "broken_links" -> FoundOn[i]
                 [] stage = "dork" -> i

Idle == [at |-> "idle", todo |-> {}, page |-> Nobody, queue |-> <<>>,
         complete |-> FALSE, found |-> {}, covered |-> {}, absent |-> {},
         pending |-> {}, victim |-> Nobody, alone |-> FALSE]
         \* absent, alone: history, what an answer denied and whether no run overlapped

-----------------------------------------------------------------------------
Others(r) == Runs \ {r}

\* A run takes up work; whoever else runs the stage is not alone any more.
Enter(r, run) ==
  runs' = [s \in Runs |->
             IF s = r
             THEN [run EXCEPT !.alone = \A o \in Others(r) : runs[o].at = "idle"]
             ELSE [runs[s] EXCEPT !.alone = FALSE]]

Set(r, run) == runs' = [runs EXCEPT ![r] = run]

Fault == faults < MaxFaults /\ faults' = faults + 1
Answered == UNCHANGED faults

\* -- param_discovery

\* Batches of the candidate list
Batches ==
  [n \in 1..((Len(CANDIDATE_PARAMS) + BATCH - 1) \div BATCH) |->
     SubSeq(CANDIDATE_PARAMS, (n - 1) * BATCH + 1,
            IF n * BATCH < Len(CANDIDATE_PARAMS) THEN n * BATCH
            ELSE Len(CANDIDATE_PARAMS))]

\* arjun has the whole list of pages first and answers for all of them or, when it is
\* out of time or not installed, for none.
StartParams(r) ==
  /\ stage = "param_discovery"
  /\ \E told \in {facts, {}} :
       Enter(r, [Idle EXCEPT !.at = "looking", !.todo = Pages, !.found = told])
  /\ UNCHANGED <<stage, facts, reported, retired, flips, faults>>

\* probe: a page whose baseline or control fails, or that is unstable, is left.
OpenPage(r, p) ==
  /\ runs[r].at = "looking" /\ stage = "param_discovery"
  /\ runs[r].page = Nobody /\ p \in runs[r].todo
  /\ \/ /\ Set(r, [runs[r] EXCEPT !.todo = @ \ {p}, !.page = p, !.queue = Batches,
                                  !.complete = TRUE])
        /\ Answered
     \/ /\ Set(r, [runs[r] EXCEPT !.todo = @ \ {p}])
        /\ Fault
  /\ UNCHANGED <<stage, facts, reported, retired, flips>>

\* A mutant: the second half starts one too late.
halvesOff(batch) == <<SubSeq(batch, 1, Len(batch) \div 2),
                      SubSeq(batch, Len(batch) \div 2 + 2, Len(batch))>>

\* What remains of a batch that moved: its halves.
halves(batch) == <<SubSeq(batch, 1, Len(batch) \div 2),
                   SubSeq(batch, Len(batch) \div 2 + 1, Len(batch))>>

\* A mutant: a batch without an answer is just skipped.
unresolvedSkip(run) == [run EXCEPT !.queue = Front(@)]

\* The run after a batch without an answer: this page was not examined in full.
unresolved(run) == [run EXCEPT !.queue = Front(@), !.complete = FALSE]

\* The loop over the queue: the last batch is popped.
ProbeBatch(r) ==
  LET run == runs[r]
      batch == Last(run.queue)
      items == {<<run.page, batch[n]>> : n \in DOMAIN batch}
  IN  /\ run.at = "looking" /\ run.queue # <<>>
      /\ \/ Set(r, unresolved(run)) /\ Fault
         \/ /\ Answered
            /\ \/ /\ items \cap facts = {}
                  /\ Set(r, [run EXCEPT !.queue = Front(@), !.absent = @ \cup items])
               \/ /\ items \cap facts # {} /\ Len(batch) = 1
                  /\ Set(r, [run EXCEPT !.queue = Front(@), !.found = @ \cup items])
               \/ /\ items \cap facts # {} /\ Len(batch) > 1
                  /\ Set(r, [run EXCEPT !.queue = Front(@) \o halves(batch)])
      /\ UNCHANGED <<stage, facts, reported, retired, flips>>

ClosePage(r) ==
  /\ runs[r].at = "looking" /\ runs[r].page # Nobody /\ runs[r].queue = <<>>
  /\ Set(r, [runs[r] EXCEPT !.page = Nobody,
                            !.covered = IF runs[r].complete THEN @ \cup {runs[r].page}
                                        ELSE @])
  /\ UNCHANGED <<stage, facts, reported, retired, flips, faults>>

\* -- broken_links

StartLinks(r) ==
  /\ stage = "broken_links" /\ Links # {}
  /\ Enter(r, [Idle EXCEPT !.at = "looking", !.queue = Ordered])
  /\ UNCHANGED <<stage, facts, reported, retired, flips, faults>>

\* A host is checked once, whatever links lead to it; a handle each time.
checked_hosts(run) ==
  {HostOf[Ordered[n]] : n \in {m \in 1..(Len(Ordered) - Len(run.queue)) :
                                 Ordered[m] \notin Handles}}

\* check_link: a lookup that fails looks like a clean link.
CheckLink(r) ==
  LET run == runs[r]
      l == Head(run.queue)
      rest == [run EXCEPT !.queue = Tail(@)]
  IN  /\ stage = "broken_links" /\ run.at = "looking" /\ run.queue # <<>>
      /\ \/ l \notin Handles /\ HostOf[l] \in checked_hosts(run) /\ Set(r, rest) /\ Answered
         \/ /\ l \in Handles \/ HostOf[l] \notin checked_hosts(run)
            /\ \/ Set(r, rest) /\ Fault
               \/ /\ Answered
                  /\ Set(r, IF Holds(l) THEN [rest EXCEPT !.found = @ \cup {l}]
                            ELSE [rest EXCEPT !.absent = @ \cup {l}])
      /\ UNCHANGED <<stage, facts, reported, retired, flips>>

\* -- dork

\* The queries that are answered in time list some pages.
StartDork(r) ==
  /\ stage = "dork"
  /\ \E listed \in SUBSET Hits :
       Enter(r, [Idle EXCEPT !.at = "looking", !.todo = listed])
  /\ UNCHANGED <<stage, facts, reported, retired, flips, faults>>

\* verify_hit: a page that cannot be fetched is kept, as unverified; one that lacks
\* what the query is about is taken back.
Verify(r, h) ==
  LET rest == [runs[r] EXCEPT !.todo = @ \ {h}]
  IN  /\ stage = "dork" /\ runs[r].at = "looking" /\ h \in runs[r].todo
      /\ \/ Set(r, [rest EXCEPT !.found = @ \cup {h}]) /\ Fault
         \/ /\ Answered
            /\ Set(r, IF Holds(h) THEN [rest EXCEPT !.found = @ \cup {h}]
                      ELSE [rest EXCEPT !.absent = @ \cup {h}])
      /\ UNCHANGED <<stage, facts, reported, retired, flips>>

-----------------------------------------------------------------------------
(* Storing and retiring *)

Looked(r) == /\ runs[r].at = "looking" /\ runs[r].todo = {} /\ runs[r].page = Nobody
             /\ runs[r].queue = <<>>

\* Locations a run claims to have examined
covered(r) == CASE stage = "param_discovery" -> runs[r].covered
                [] stage = "broken_links" -> {FoundOn[l] : l \in Links}
                [] stage = "dork" -> {}

\* dork takes back first and stores then, the others store first.
FinishLooking(r) ==
  /\ Looked(r)
  /\ Set(r, IF stage = "dork"
            THEN [runs[r] EXCEPT !.at = "retiring", !.pending = runs[r].absent]
            ELSE [runs[r] EXCEPT !.at = "storing", !.pending = runs[r].found])
  /\ UNCHANGED <<stage, facts, reported, retired, flips, faults>>

\* upsert: the observation sets every field, the state too.
Store(r, i) ==
  /\ runs[r].at = "storing" /\ i \in runs[r].pending
  /\ reported' = reported \cup {i} /\ retired' = retired \ {i}
  /\ Set(r, [runs[r] EXCEPT !.pending = @ \ {i}])
  /\ UNCHANGED <<stage, facts, flips, faults>>

\* A mutant: what the run found is not kept.
unreproducedAll(r) == {i \in reported \cup retired : Location(i) \in covered(r)}

\* retire_unreproduced reads the findings of the locations and skips those to keep.
unreproduced(r) ==
  {i \in reported \cup retired : Location(i) \in covered(r)} \ runs[r].found

AllStored(r) ==
  /\ runs[r].at = "storing" /\ runs[r].pending = {}
  /\ Set(r, IF stage = "dork" THEN [runs[r] EXCEPT !.at = "done"]
            ELSE [runs[r] EXCEPT !.at = "retiring", !.pending = unreproduced(r)])
  /\ UNCHANGED <<stage, facts, reported, retired, flips, faults>>

\* mark_false_positive: the state is read; only NEW may become FALSE_POSITIVE here.
ReadState(r, i) ==
  /\ runs[r].at = "retiring" /\ runs[r].victim = Nobody /\ i \in runs[r].pending
  /\ Set(r, [runs[r] EXCEPT !.pending = @ \ {i},
                            !.victim = IF i \in reported THEN i ELSE Nobody])
  /\ UNCHANGED <<stage, facts, reported, retired, flips, faults>>

\* ... and written, whatever it is by now.
WriteState(r) ==
  /\ runs[r].victim # Nobody
  /\ reported' = reported \ {runs[r].victim} /\ retired' = retired \cup {runs[r].victim}
  /\ Set(r, [runs[r] EXCEPT !.victim = Nobody])
  /\ UNCHANGED <<stage, facts, flips, faults>>

AllRetired(r) ==
  /\ runs[r].at = "retiring" /\ runs[r].pending = {} /\ runs[r].victim = Nobody
  /\ Set(r, IF stage = "dork"
            THEN [runs[r] EXCEPT !.at = "storing", !.pending = runs[r].found]
            ELSE [runs[r] EXCEPT !.at = "done"])
  /\ UNCHANGED <<stage, facts, reported, retired, flips, faults>>

End(r) ==
  /\ runs[r].at = "done"
  /\ Set(r, Idle)
  /\ UNCHANGED <<stage, facts, reported, retired, flips, faults>>

\* A timeout, a stop or a crash between any two steps.
Die(r) ==
  /\ runs[r].at \notin {"idle", "done"}
  /\ Fault
  /\ Set(r, Idle)
  /\ UNCHANGED <<stage, facts, reported, retired, flips>>

\* The world changes.
Flip(f) ==
  /\ flips < MaxFlips /\ flips' = flips + 1
  /\ facts' = IF f \in facts THEN facts \ {f} ELSE facts \cup {f}
  /\ UNCHANGED <<stage, reported, retired, runs, faults>>

Start(r) == runs[r].at = "idle" /\ (StartParams(r) \/ StartLinks(r) \/ StartDork(r))

Step(r) ==
  \/ \E p \in Pages : OpenPage(r, p)
  \/ (stage = "param_discovery" /\ ProbeBatch(r)) \/ ClosePage(r) \/ CheckLink(r)
  \/ \E h \in Hits : Verify(r, h)
  \/ FinishLooking(r) \/ AllStored(r) \/ WriteState(r) \/ AllRetired(r) \/ End(r)
  \/ \E i \in Items : Store(r, i) \/ ReadState(r, i)

FindingsInit ==
  /\ stage \in Stages
  /\ facts \in SUBSET Facts
  /\ reported = {} /\ retired = {}
  /\ runs = [r \in Runs |-> Idle] /\ flips = 0 /\ faults = 0

FindingsNext ==
  \/ \E r \in Runs : Start(r) \/ Step(r) \/ Die(r)
  \/ \E f \in Facts : Flip(f)

FindingsSpec == FindingsInit /\ [][FindingsNext]_findingsVars

\* The phase recurs (PhaseRuns), a run goes on, and the faults come to an end.
FairFindingsSpec ==
  FindingsSpec /\ \A r \in Runs : WF_findingsVars(Start(r)) /\ WF_findingsVars(Step(r))

-----------------------------------------------------------------------------
(* Properties *)

\* retire_unreproduced promises to act "only for locations the module actually covered
\* this run: a probe that failed halfway must not retire what it never re-examined": a
\* name of the built-in list, or a dork, is retired only by a run that asked again and was
\* answered that it is gone, whatever requests fail and however two runs interleave.  (It
\* is false of names that only arjun knows, which are retired when arjun runs out of
\* time, and of broken_links, which takes a failed lookup for a clean link.)
CandidateWasReexamined ==
  [][\A i \in retired' \ retired :
       \/ stage = "param_discovery" /\ i[2] \in ArjunOnly
       \/ stage = "broken_links"
       \/ \E r \in Runs : runs[r].victim = i /\ i \in runs[r].absent]_retired

\* A run that had the stage to itself leaves every finding it made open.
ReproducedIsOpen ==
  \A r \in Runs : runs[r].at = "done" /\ runs[r].alone => runs[r].found \subseteq reported

\* Once the world stays as it is and requests are answered, every parameter of the list
\* that a page accepts is reported for good, although batches hide it among others and
\* stale runs retire it, and every one that no page accepts is not.
FindingsSettle ==
  \A p \in Pages : \A n \in Candidates :
    stage = "param_discovery" =>
      /\ <>[](<<p, n>> \in facts) => <>[](<<p, n>> \in reported)
      /\ <>[](<<p, n>> \notin facts) => <>[](<<p, n>> \notin reported)
=============================================================================
