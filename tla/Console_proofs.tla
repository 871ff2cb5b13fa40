----------------------------- MODULE Console_proofs -----------------------------
(***************************************************************************)
(* The people, programs and modules of the console, and the runs that users*)
(* start by hand, for any number of requests, canvases and deliveries.     *)
(*                                                                         *)
(* AuthorizedWasProven and ActsWithinPowers are not inductive: a request   *)
(* acts on what it read before.  The proofs carry the promise through each *)
(* of these hands.  WaiverStaysDirect rests on the outputs of the Target   *)
(* nodes, VerdictIsLast on a runner that still works having no row with    *)
(* success.                                                                *)
(*                                                                         *)
(* ToggleCostsWhatIsShown and FailureStaysBelow are about functions that   *)
(* are defined along the natural numbers (passes over the modules, rings of*)
(* dependents, the order of a canvas, what feeds a node).  Iteration says  *)
(* that such a function exists, Climb is induction over a set of numbers,  *)
(* and a chain of subsets of a finite set has stopped after as many steps  *)
(* as the set has elements.                                                *)
(***************************************************************************)
EXTENDS Console, OnDemand, FiniteSetTheorems, TLAPS

Fields == {"op", "at", "id", "set", "read"}

ConsoleShaped ==
  /\ DOMAIN req = Slots /\ \A s \in Slots : DOMAIN req[s] = Fields
  /\ DOMAIN program = Programs
  /\ \A p \in Programs : DOMAIN program[p] = {"there", "token", "verified"}

\* A request that is about to write says that its program was proven.
Keeps(r, proof) ==
  (r.op = "check" /\ r.at = "found") \/ (r.op = "authorize" /\ r.at = "save")
    => r.id \in proof

ConsoleInv ==
  /\ ConsoleShaped
  /\ authorizations \subseteq proven
  /\ \A p \in Programs : program[p].verified => p \in proven
  /\ \A s \in Slots : Keeps(req[s], proven)

LEMMA InitConsole == ConsoleInit => ConsoleInv
  BY DEF ConsoleInit, ConsoleInv, ConsoleShaped, Fields, Keeps, NoRequest

-----------------------------------------------------------------------------
\* A request that moves on and leaves the programs alone
LEMMA OneSlot ==
  ASSUME ConsoleInv, NEW s \in Slots, NEW r, DOMAIN r = Fields,
         req' = [req EXCEPT ![s] = r], Keeps(r, proven),
         UNCHANGED <<program, authorizations, proven>>
  PROVE  ConsoleInv'
  BY DEF ConsoleInv, ConsoleShaped

\* What remains of a request that is answered, moved on or begun
LEMMA RequestSteps ==
  ASSUME ConsoleInv, NEW s \in Slots, UNCHANGED <<program, authorizations, proven>>
  PROVE  /\ Done(s) => ConsoleInv'
         /\ \A at, read : Move(s, at, read) /\ at \notin {"found", "save"} => ConsoleInv'
         /\ \A op, at, id, set, read :
              Begin(s, op, at, id, set, read) /\ op \notin {"check", "authorize"}
                => ConsoleInv'
  <1>1. ASSUME Done(s) PROVE ConsoleInv'
    <2>1. DOMAIN NoRequest = Fields /\ Keeps(NoRequest, proven)
      BY DEF NoRequest, Fields, Keeps
    <2> QED
      BY <1>1, <2>1, OneSlot DEF Done
  <1>2. ASSUME NEW at, NEW read, Move(s, at, read), at \notin {"found", "save"}
        PROVE  ConsoleInv'
    <2> DEFINE r == [req[s] EXCEPT !.at = at, !.read = read]
    <2>1. DOMAIN r = Fields /\ r.at = at
      BY DEF ConsoleInv, ConsoleShaped, Fields
    <2>2. req' = [req EXCEPT ![s] = r]
      BY <1>2 DEF Move
    <2> QED
      BY <1>2, <2>1, <2>2, OneSlot DEF Keeps
  <1>3. ASSUME NEW op, NEW at, NEW id, NEW set, NEW read,
               Begin(s, op, at, id, set, read), op \notin {"check", "authorize"}
        PROVE  ConsoleInv'
    <2> DEFINE r == [op |-> op, at |-> at, id |-> id, set |-> set, read |-> read]
    <2>1. DOMAIN r = Fields /\ r.op = op /\ req' = [req EXCEPT ![s] = r]
      BY <1>3 DEF Fields, Begin
    <2> QED
      BY <1>3, <2>1, OneSlot DEF Keeps
  <1> QED
    BY <1>1, <1>2, <1>3

LEMMA SameRequests ==
  ASSUME ConsoleInv, UNCHANGED <<req, program, authorizations, proven>>
  PROVE  ConsoleInv'
  BY DEF ConsoleInv, ConsoleShaped

-----------------------------------------------------------------------------
LEMMA PeopleStep ==
  ASSUME ConsoleInv, People
  PROVE  ConsoleInv'
  <1>0. UNCHANGED <<program, authorizations, proven>>
    BY DEF People, programs
  <1>1. PICK s \in Slots :
          \/ AskAsMember(s) \/ AskWithKey(s) \/ ReadUser(s) \/ Resolve(s) \/ Served(s)
          \/ CreateKey(s) \/ BeginMember(s) \/ SetMemberGroups(s) \/ CreateMember(s)
          \/ DeleteMember(s) \/ BeginUpdateGroup(s) \/ SaveGroup(s)
          \/ BeginDeleteGroup(s) \/ StripGroup(s) \/ DeleteGroup(s)
          \/ CreateGroup \/ RevokeKey
    BY DEF People
  <1>2. CASE AskAsMember(s) \/ AskWithKey(s)
    BY <1>0, <1>2, RequestSteps DEF AskAsMember, AskWithKey
  <1>3. CASE BeginMember(s) \/ BeginUpdateGroup(s) \/ BeginDeleteGroup(s)
    <2>1. ASSUME BeginMember(s) PROVE ConsoleInv'
      <3>1. PICK op, id, set :
              op \in {"set_groups", "create"} /\ Begin(s, op, "write", id, set, {})
        BY <2>1 DEF BeginMember
      <3> QED
        BY <1>0, <3>1, RequestSteps
    <2>2. ASSUME BeginUpdateGroup(s) PROVE ConsoleInv'
      BY <1>0, <2>2, RequestSteps DEF BeginUpdateGroup
    <2>3. ASSUME BeginDeleteGroup(s) PROVE ConsoleInv'
      <3>1. PICK id, read : Begin(s, "delete_group", "strip", id, {}, read)
        BY <2>3 DEF BeginDeleteGroup
      <3> QED
        BY <1>0, <3>1, RequestSteps
    <2> QED
      BY <1>3, <2>1, <2>2, <2>3
  <1>4. CASE ReadUser(s) \/ StripGroup(s)
    <2>1. ASSUME ReadUser(s) PROVE ConsoleInv'
      BY <1>0, <2>1, RequestSteps DEF ReadUser
    <2>2. ASSUME StripGroup(s) PROVE ConsoleInv'
      <3>1. PICK e \in req[s].read : Move(s, "strip", req[s].read \ {e})
        BY <2>2 DEF StripGroup
      <3> QED
        BY <1>0, <3>1, RequestSteps
    <2> QED
      BY <1>4, <2>1, <2>2
  <1>5. CASE Resolve(s)
    <2> DEFINE ps == normalise_permissions(Held(req[s].read))
               r == [req[s] EXCEPT !.at = "served", !.read = ps,
                       !.set = IF req[s].id \in Keys THEN normalise_scopes(@, ps) ELSE @]
    <2>1. req' = [req EXCEPT ![s] = r]
      BY <1>5 DEF Resolve
    <2>2. DOMAIN r = Fields /\ r.at = "served"
      BY DEF ConsoleInv, ConsoleShaped, Fields
    <2> HIDE DEF r
    <2> QED
      BY <1>0, <2>1, <2>2, OneSlot DEF Keeps
  <1>6. CASE Served(s) \/ CreateKey(s) \/ SetMemberGroups(s) \/ CreateMember(s)
               \/ SaveGroup(s) \/ DeleteGroup(s)
    BY <1>0, <1>6, RequestSteps
       DEF Served, CreateKey, SetMemberGroups, CreateMember, SaveGroup, DeleteGroup
  <1>7. CASE DeleteMember(s) \/ CreateGroup \/ RevokeKey
    BY <1>0, <1>7, SameRequests DEF DeleteMember, CreateGroup, RevokeKey
  <1> QED
    BY <1>1, <1>2, <1>3, <1>4, <1>5, <1>6, <1>7

LEMMA ModulesStep ==
  ASSUME ConsoleInv, AboutModules
  PROVE  ConsoleInv'
  <1>0. UNCHANGED <<program, authorizations, proven>>
    BY DEF AboutModules, programs
  <1>1. CASE SetEnabled
    BY <1>0, <1>1, SameRequests DEF SetEnabled
  <1>2. CASE \E s \in Slots : BeginModules(s) \/ SetDisabled(s)
    BY <1>0, <1>2, RequestSteps DEF BeginModules, SetDisabled
  <1> QED
    BY <1>1, <1>2 DEF AboutModules

-----------------------------------------------------------------------------
\* A check finds a challenge of its own program only.
LEMMA LookStep ==
  ASSUME ConsoleInv, NEW s \in Slots, Look(s)
  PROVE  ConsoleInv'
  <1>0. UNCHANGED <<program, authorizations>>
    BY DEF Look
  <1>1. CASE Done(s) /\ UNCHANGED proven
    BY <1>0, <1>1, RequestSteps
  <1>2. CASE shown(req[s].id, req[s].read) /\ Move(s, "found", {})
               /\ proven' = proven \cup {req[s].id}
    <2>1. req[s].id \in proven' /\ proven \subseteq proven'
      BY <1>2
    <2>2. ConsoleShaped'
      BY <1>0, <1>2 DEF Move, ConsoleInv, ConsoleShaped, Fields
    <2>3. req'[s].id = req[s].id /\ \A o \in Slots \ {s} : req'[o] = req[o]
      BY <1>2 DEF Move, ConsoleInv, ConsoleShaped, Fields
    <2>4. \A o \in Slots : Keeps(req'[o], proven')
      BY <2>1, <2>3 DEF ConsoleInv, Keeps
    <2> QED
      BY <1>0, <2>1, <2>2, <2>4 DEF ConsoleInv
  <1> QED
    BY <1>1, <1>2 DEF Look, shown

LEMMA ProgramsStep ==
  ASSUME ConsoleInv, AboutPrograms
  PROVE  ConsoleInv'
  <1>1. CASE \E p \in Programs : RequestVerification(p)
    <2> PICK p \in Programs : RequestVerification(p)
      BY <1>1
    <2>1. \A q \in Programs : /\ DOMAIN program'[q] = DOMAIN program[q]
                              /\ program'[q].verified = program[q].verified
      BY DEF RequestVerification, ConsoleInv, ConsoleShaped
    <2>2. UNCHANGED <<req, authorizations, proven>> /\ DOMAIN program' = Programs
      BY DEF RequestVerification, ConsoleInv, ConsoleShaped
    <2> QED
      BY <2>1, <2>2 DEF ConsoleInv, ConsoleShaped
  <1>2. CASE Publish
    BY <1>2, SameRequests DEF Publish
  <1>3. ASSUME NEW s \in Slots, BeginCheck(s)
        PROVE  ConsoleInv'
    <2> PICK p \in Programs : Begin(s, "check", "look", p, {}, {program[p].token})
      BY <1>3 DEF BeginCheck
    <2> DEFINE r == [op |-> "check", at |-> "look", id |-> p, set |-> {},
                     read |-> {program[p].token}]
    <2>1. DOMAIN r = Fields /\ Keeps(r, proven) /\ req' = [req EXCEPT ![s] = r]
      BY DEF Fields, Keeps, Begin
    <2> QED
      BY <1>3, <2>1, OneSlot DEF BeginCheck, programs
  <1>4. ASSUME NEW s \in Slots, BeginAuthorization(s)
        PROVE  ConsoleInv'
    <2> PICK p \in Programs : program[p].verified /\ Begin(s, "authorize", "save", p, {}, {})
      BY <1>4 DEF BeginAuthorization
    <2> DEFINE r == [op |-> "authorize", at |-> "save", id |-> p, set |-> {}, read |-> {}]
    <2>1. DOMAIN r = Fields /\ Keeps(r, proven) /\ req' = [req EXCEPT ![s] = r]
      BY DEF Fields, Keeps, Begin, ConsoleInv
    <2> QED
      BY <1>4, <2>1, OneSlot DEF BeginAuthorization, programs
  <1>5. ASSUME NEW s \in Slots, BeginDelete(s)
        PROVE  ConsoleInv'
    BY <1>5, RequestSteps DEF BeginDelete, programs
  <1>6. ASSUME NEW s \in Slots, SetVerified(s)
        PROVE  ConsoleInv'
    <2>1. req[s].id \in proven
      BY <1>6 DEF SetVerified, At, ConsoleInv, Keeps
    <2>2. UNCHANGED <<authorizations, proven>> /\ req' = [req EXCEPT ![s] = NoRequest]
      BY <1>6 DEF SetVerified, Done
    <2>3. DOMAIN program' = Programs
            /\ \A p \in Programs : /\ DOMAIN program'[p] = DOMAIN program[p]
                                   /\ p # req[s].id => program'[p] = program[p]
      BY <1>6 DEF SetVerified, ConsoleInv, ConsoleShaped
    <2>4. DOMAIN NoRequest = Fields /\ Keeps(NoRequest, proven)
      BY DEF NoRequest, Fields, Keeps
    <2> QED
      BY <2>1, <2>2, <2>3, <2>4 DEF ConsoleInv, ConsoleShaped
  <1>7. ASSUME NEW s \in Slots, SaveAuthorization(s)
        PROVE  ConsoleInv'
    <2>1. req[s].id \in proven
      BY <1>7 DEF SaveAuthorization, At, ConsoleInv, Keeps
    <2>2. DOMAIN NoRequest = Fields /\ Keeps(NoRequest, proven)
      BY DEF NoRequest, Fields, Keeps
    <2> QED
      BY <1>7, <2>1, <2>2 DEF SaveAuthorization, Done, ConsoleInv, ConsoleShaped
  <1>8. ASSUME NEW s \in Slots, DeleteData(s)
        PROVE  ConsoleInv'
    <2> DEFINE r == [req[s] EXCEPT !.at = "program", !.read = {}]
    <2>1. DOMAIN r = Fields /\ r.at = "program" /\ req' = [req EXCEPT ![s] = r]
      BY <1>8 DEF DeleteData, Move, ConsoleInv, ConsoleShaped, Fields
    <2>2. authorizations' \subseteq proven /\ UNCHANGED <<program, proven>>
      BY <1>8 DEF DeleteData, ConsoleInv
    <2>3. Keeps(r, proven)
      BY <2>1 DEF Keeps
    <2> HIDE DEF r
    <2> QED
      BY <2>1, <2>2, <2>3 DEF ConsoleInv, ConsoleShaped
  <1>9. ASSUME NEW s \in Slots, DeleteProgram(s)
        PROVE  ConsoleInv'
    <2>1. UNCHANGED <<authorizations, proven>> /\ req' = [req EXCEPT ![s] = NoRequest]
      BY <1>9 DEF DeleteProgram, Done
    <2>2. DOMAIN program' = Programs
            /\ \A p \in Programs : /\ DOMAIN program'[p] = DOMAIN program[p]
                                   /\ program'[p].verified => program[p].verified
      BY <1>9 DEF DeleteProgram, ConsoleInv, ConsoleShaped
    <2>3. DOMAIN NoRequest = Fields /\ Keeps(NoRequest, proven)
      BY DEF NoRequest, Fields, Keeps
    <2> QED
      BY <2>1, <2>2, <2>3 DEF ConsoleInv, ConsoleShaped
  <1> QED
    BY <1>1, <1>2, <1>3, <1>4, <1>5, <1>6, <1>7, <1>8, <1>9, LookStep DEF AboutPrograms

LEMMA NextConsole == ConsoleInv /\ [ConsoleNext]_consoleVars => ConsoleInv'
  <1> SUFFICES ASSUME ConsoleInv, [ConsoleNext]_consoleVars PROVE ConsoleInv'
    OBVIOUS
  <1>1. CASE UNCHANGED consoleVars
    BY <1>1, SameRequests DEF consoleVars, programs
  <1>2. CASE ConsoleNext
    BY <1>2, PeopleStep, ProgramsStep, ModulesStep DEF ConsoleNext
  <1> QED
    BY <1>1, <1>2

\* "Re-authorize a program only after its domain is verified": whatever requests are in
\* flight, whatever challenges are replaced and programs deleted, nothing is authorized
\* but what showed its own challenge (api/routes/programs.py).
THEOREM OnlyProvenIsAuthorized == ConsoleSpec => []AuthorizedWasProven
  <1>1. ConsoleInit => ConsoleInv
    BY InitConsole
  <1>2. ConsoleInv /\ [ConsoleNext]_consoleVars => ConsoleInv'
    BY NextConsole
  <1>3. ConsoleInv => AuthorizedWasProven
    BY DEF ConsoleInv, AuthorizedWasProven
  <1> QED
    BY <1>1, <1>2, <1>3, PTL DEF ConsoleSpec

-----------------------------------------------------------------------------
(* Powers                                                                  *)
(*                                                                         *)
(* A request first reads the user's groups and then what they give, and    *)
(* both may change in between and afterwards.  The proof follows what it   *)
(* has read: it stays below what the window of the request has collected,  *)
(* which only grows while the request goes on.                             *)

Powers(w) ==
  normalise_permissions({p \in Permissions : \E g \in w.in : <<g, p>> \in w.has})

\* A request that acts has read no more than its window shows.
Within(r, w) ==
  /\ r.op = "use" /\ r.at = "groups" => r.read \subseteq w.in /\ r.read \subseteq Groups
  /\ r.op = "use" /\ r.at = "served" =>
       /\ r.read \subseteq Powers(w)
       /\ r.id \in Keys => \A scope \in r.set : SCOPE_REQUIRES[scope] \in Powers(w)

\* What a request carries to its next step
Carries(r, keys) ==
  /\ r.op = "use" => /\ r.id \in Members \cup Keys
                     /\ r.id \in Keys => keys[r.id].state # "none"
  /\ r.op \in {"create", "set_groups"} => r.set \subseteq Groups
  /\ r.op = "update_group" => r.set \subseteq Permissions
  /\ r.op = "delete_group" => \A e \in r.read : e[2] \subseteq Groups

PeopleShaped ==
  /\ DOMAIN member = Members /\ \A m \in Members : There(member[m]) => member[m] \subseteq Groups
  /\ DOMAIN group = Groups /\ \A g \in Groups : There(group[g]) => group[g] \subseteq Permissions
  /\ DOMAIN key = Keys
  /\ \A k \in Keys : /\ DOMAIN key[k] = {"state", "by", "scopes"}
                     /\ key[k].state # "none" => key[k].by \in Members

PowersInv ==
  /\ DOMAIN req = Slots /\ \A s \in Slots : DOMAIN req[s] = Fields
  /\ DOMAIN window = Slots /\ \A s \in Slots : DOMAIN window[s] = {"in", "has"}
  /\ PeopleShaped
  /\ \A s \in Slots : Carries(req[s], key) /\ Within(req[s], window[s])

LEMMA NoRequestIsHarmless ==
  ASSUME NEW w, NEW keys
  PROVE  DOMAIN NoRequest = Fields /\ Carries(NoRequest, keys) /\ Within(NoRequest, w)
  BY DEF NoRequest, Fields, Carries, Within

LEMMA InitPowers == ConsoleInit => PowersInv
  <1> SUFFICES ASSUME ConsoleInit PROVE PowersInv
    OBVIOUS
  <1>1. \A s \in Slots : req[s] = NoRequest /\ window[s] = [in |-> {}, has |-> {}]
    BY DEF ConsoleInit
  <1>2. DOMAIN req = Slots /\ DOMAIN window = Slots /\ DOMAIN member = Members
          /\ DOMAIN group = Groups
    BY DEF ConsoleInit
  <1>3. \A m \in Members : There(member[m]) => member[m] \subseteq Groups
    BY ConsoleAssumption DEF ConsoleInit, There
  <1>4. \A g \in Groups : There(group[g]) => group[g] \subseteq Permissions
    <2>1. PICK others \in {New, {"view", "settings.manage"}} :
            group = [g \in Groups |-> IF g = DefaultGroup THEN {"view"} ELSE others]
      BY DEF ConsoleInit
    <2> QED
      BY <2>1 DEF There, Permissions
  <1>5. /\ DOMAIN key = Keys
        /\ \A k \in Keys : DOMAIN key[k] = {"state", "by", "scopes"} /\ key[k].state = "none"
    BY DEF ConsoleInit
  <1> QED
    BY <1>1, <1>2, <1>3, <1>4, <1>5, NoRequestIsHarmless DEF PowersInv, PeopleShaped

LEMMA MorePowers ==
  ASSUME NEW w, NEW more, w.in \subseteq more.in, w.has \subseteq more.has
  PROVE  Powers(w) \subseteq Powers(more)
  BY DEF Powers, normalise_permissions

\* Another step leaves a request within a window that has grown.
LEMMA StillWithin ==
  ASSUME NEW r, NEW w, NEW more, Within(r, w), w.in \subseteq more.in, w.has \subseteq more.has
  PROVE  Within(r, more)
  BY MorePowers DEF Within

\* Keys are made and revoked, but stay what they are of whom.
LEMMA StillCarried ==
  ASSUME NEW r, NEW keys, NEW later, Carries(r, keys),
         \A k \in Keys : keys[k].state # "none" => later[k].state # "none"
  PROVE  Carries(r, later)
  BY DEF Carries

LEMMA WindowGrows ==
  ASSUME PowersInv, window' = [s \in Slots |-> Collect(s)], NEW s \in Slots
  PROVE  /\ DOMAIN window'[s] = {"in", "has"}
         /\ req'[s].at # "idle" =>
              /\ window[s].in \subseteq window'[s].in /\ window[s].has \subseteq window'[s].has
              /\ \A p \in Groups \X Permissions : p[2] \in group'[p[1]] => p \in window'[s].has
              /\ \A m \in Members :
                   /\ There(member'[m])
                   /\ m = IF req'[s].id \in Keys THEN key'[req'[s].id].by ELSE req'[s].id
                   => member'[m] \subseteq window'[s].in
  <1>1. window'[s] = Collect(s)
    OBVIOUS
  <1>2. CASE req'[s].at = "idle"
    BY <1>1, <1>2 DEF Collect
  <1>3. CASE req'[s].at # "idle"
    BY <1>1, <1>3 DEF Collect, There
  <1> QED
    BY <1>2, <1>3

\* A step of one request, that leaves members, groups and keys in order
LEMMA OneRequest ==
  ASSUME PowersInv, window' = [o \in Slots |-> Collect(o)], PeopleShaped',
         \A k \in Keys : key[k].state # "none" => key'[k].state # "none",
         NEW s \in Slots, NEW r, DOMAIN r = Fields, req' = [req EXCEPT ![s] = r],
         Carries(r, key'), Within(r, window'[s])
  PROVE  PowersInv'
  <1>1. DOMAIN req' = Slots /\ \A o \in Slots : DOMAIN req'[o] = Fields
    BY DEF PowersInv
  <1>2. DOMAIN window' = Slots /\ \A o \in Slots : DOMAIN window'[o] = {"in", "has"}
    BY WindowGrows
  <1>3. ASSUME NEW o \in Slots PROVE Carries(req'[o], key')
    BY StillCarried DEF PowersInv
  <1>4. ASSUME NEW o \in Slots PROVE Within(req'[o], window'[o])
    <2>1. CASE o = s
      BY <2>1 DEF PowersInv
    <2>2. CASE o # s /\ req'[o].at # "idle"
      BY <2>2, WindowGrows, StillWithin DEF PowersInv
    <2>3. CASE req'[o].at = "idle"
      BY <2>3 DEF Within
    <2> QED
      BY <2>1, <2>2, <2>3
  <1>5. \A o \in Slots : (Carries(req[o], key) /\ Within(req[o], window[o]))'
    BY <1>3, <1>4 DEF Carries, Within, Powers
  <1> QED
    BY <1>1, <1>2, <1>5 DEF PowersInv

LEMMA NoOnesRequest ==
  ASSUME PowersInv, window' = [o \in Slots |-> Collect(o)], PeopleShaped',
         \A k \in Keys : key[k].state # "none" => key'[k].state # "none",
         UNCHANGED req
  PROVE  PowersInv'
  <1>1. ASSUME NEW o \in Slots PROVE Carries(req'[o], key')
    BY StillCarried DEF PowersInv
  <1>2. ASSUME NEW o \in Slots PROVE Within(req'[o], window'[o])
    <2>1. CASE req'[o].at # "idle"
      BY <2>1, WindowGrows, StillWithin DEF PowersInv
    <2>2. CASE req'[o].at = "idle"
      BY <2>2 DEF Within
    <2> QED
      BY <2>1, <2>2
  <1>3. \A o \in Slots : (Carries(req[o], key) /\ Within(req[o], window[o]))'
    BY <1>1, <1>2 DEF Carries, Within, Powers
  <1>4. DOMAIN window' = Slots /\ \A o \in Slots : DOMAIN window'[o] = {"in", "has"}
    BY WindowGrows
  <1> QED
    BY <1>3, <1>4 DEF PowersInv

-----------------------------------------------------------------------------
\* The actions in which a person or a key acts
LEMMA UseSteps ==
  ASSUME PowersInv, window' = [o \in Slots |-> Collect(o)], NEW s \in Slots,
         \/ AskAsMember(s) \/ AskWithKey(s) \/ ReadUser(s) \/ Resolve(s) \/ Served(s)
  PROVE  PowersInv'
  <1>0. UNCHANGED <<member, group, key>> /\ PeopleShaped'
    BY DEF AskAsMember, AskWithKey, ReadUser, Resolve, Served, PowersInv, PeopleShaped
  <1>1. ASSUME AskAsMember(s) \/ AskWithKey(s)
        PROVE  PowersInv'
    <2>1. PICK id, set : /\ Begin(s, "use", "user", id, set, {})
                         /\ id \in Members \cup Keys
                         /\ id \in Keys => key[id].state # "none"
      BY <1>1, ConsoleAssumption DEF AskAsMember, AskWithKey
    <2> DEFINE r == [op |-> "use", at |-> "user", id |-> id, set |-> set, read |-> {}]
    <2>2. DOMAIN r = Fields /\ Carries(r, key') /\ Within(r, window'[s])
      BY <1>0, <2>1 DEF Fields, Carries, Within
    <2>3. req' = [req EXCEPT ![s] = r]
      BY <2>1 DEF Begin
    <2> HIDE DEF r
    <2> QED
      BY <1>0, <2>2, <2>3, OneRequest
  <1>2. ASSUME ReadUser(s)
        PROVE  PowersInv'
    <2> DEFINE r == [req[s] EXCEPT !.at = "groups", !.read = GroupsOf(Asker(s))]
    <2>1. req' = [req EXCEPT ![s] = r] /\ DOMAIN req[s] = Fields /\ s \in DOMAIN req
            /\ req[s].op = "use" /\ Carries(req[s], key)
      BY <1>2 DEF ReadUser, Move, At, PowersInv
    <2>2. /\ DOMAIN r = Fields /\ r.op = "use" /\ r.at = "groups" /\ r.id = req[s].id
          /\ r.read = GroupsOf(Asker(s))
      BY <2>1 DEF Fields
    <2> HIDE DEF r
    <2>3. req'[s] = r
      BY <2>1
    <2>4. Asker(s) \in Members
      BY <2>1 DEF Asker, Carries, PowersInv, PeopleShaped
    <2>5. r.read \subseteq Groups
      BY <2>2, <2>4 DEF GroupsOf, PowersInv, PeopleShaped
    <2>6. r.read \subseteq window'[s].in
      BY <1>0, <2>2, <2>3, <2>4, WindowGrows DEF Asker, GroupsOf
    <2>7. Carries(r, key') /\ Within(r, window'[s])
      BY <1>0, <2>1, <2>2, <2>5, <2>6 DEF Carries, Within
    <2> QED
      BY <1>0, <2>1, <2>2, <2>7, OneRequest
  <1>3. ASSUME Resolve(s)
        PROVE  PowersInv'
    <2> DEFINE ps == normalise_permissions(Held(req[s].read))
               scopes == IF req[s].id \in Keys THEN normalise_scopes(req[s].set, ps)
                         ELSE req[s].set
               r == [req[s] EXCEPT !.at = "served", !.read = ps, !.set = scopes]
    <2>1. req' = [req EXCEPT ![s] = r] /\ DOMAIN req[s] = Fields /\ s \in DOMAIN req
            /\ req[s].op = "use" /\ req[s].at = "groups"
            /\ Carries(req[s], key) /\ Within(req[s], window[s])
      BY <1>3 DEF Resolve, At, PowersInv
    <2>2. /\ DOMAIN r = Fields /\ r.op = "use" /\ r.at = "served" /\ r.id = req[s].id
          /\ r.read = ps /\ r.set = scopes
      BY <2>1 DEF Fields
    <2> HIDE DEF r
    <2>3. req'[s] = r
      BY <2>1
    <2>4. req[s].read \subseteq window'[s].in /\ req[s].read \subseteq Groups
      BY <2>1, <2>2, <2>3, WindowGrows DEF Within
    <2>5. \A p \in Groups \X Permissions : p[2] \in group[p[1]] => p \in window'[s].has
      BY <1>0, <2>2, <2>3, WindowGrows
    <2>6. Held(req[s].read) \subseteq
            {p \in Permissions : \E g \in window'[s].in : <<g, p>> \in window'[s].has}
      <3> SUFFICES ASSUME NEW g \in req[s].read, There(group[g]), NEW p \in group[g]
                   PROVE  p \in Permissions /\ g \in window'[s].in /\ <<g, p>> \in window'[s].has
        BY DEF Held
      <3>1. g \in Groups /\ g \in window'[s].in /\ p \in Permissions
        BY <2>4 DEF PowersInv, PeopleShaped
      <3> QED
        BY <3>1, <2>5
    <2>7. ps \subseteq Powers(window'[s])
      BY <2>6 DEF Powers, normalise_permissions
    <2>8. req[s].id \in Keys => \A scope \in scopes : SCOPE_REQUIRES[scope] \in ps
      BY DEF normalise_scopes, allowed_scopes_for, SCOPE_REQUIRES, Scopes
    <2> HIDE DEF ps, scopes
    <2>9. Carries(r, key') /\ Within(r, window'[s])
      BY <1>0, <2>1, <2>2, <2>7, <2>8 DEF Carries, Within
    <2> QED
      BY <1>0, <2>1, <2>2, <2>9, OneRequest
  <1>4. ASSUME Served(s)
        PROVE  PowersInv'
    BY <1>0, <1>4, OneRequest, NoRequestIsHarmless DEF Served, Done
  <1> QED
    BY <1>1, <1>2, <1>3, <1>4

\* What a request that is over leaves
LEMMA Over ==
  ASSUME PowersInv, window' = [o \in Slots |-> Collect(o)], PeopleShaped',
         \A k \in Keys : key[k].state # "none" => key'[k].state # "none",
         NEW s \in Slots, Done(s)
  PROVE  PowersInv'
  BY OneRequest, NoRequestIsHarmless DEF Done

\* A request about members or groups that begins or goes on
LEMMA OwnersRequest ==
  ASSUME PowersInv, window' = [o \in Slots |-> Collect(o)], UNCHANGED <<group, key>>,
         PeopleShaped', NEW s \in Slots, NEW r, DOMAIN r = Fields, r.op # "use",
         Carries(r, key), req' = [req EXCEPT ![s] = r]
  PROVE  PowersInv'
  <1>1. Carries(r, key') /\ Within(r, window'[s])
    BY DEF Carries, Within
  <1> QED
    BY <1>1, OneRequest

LEMMA KeySteps ==
  ASSUME PowersInv, window' = [o \in Slots |-> Collect(o)], NEW s \in Slots,
         CreateKey(s) \/ RevokeKey
  PROVE  PowersInv'
  <1>1. CASE CreateKey(s)
    <2>1. PICK k \in Keys, wanted \in SUBSET Scopes :
            /\ key[k].state = "none"
            /\ key' = [key EXCEPT ![k] = [state |-> "live", by |-> req[s].id,
                                          scopes |-> normalise_scopes(wanted, req[s].read)]]
      BY <1>1 DEF CreateKey
    <2>2. req[s].id \in Members /\ UNCHANGED <<member, group>> /\ Done(s)
      BY <1>1 DEF CreateKey
    <2>3. DOMAIN key' = Keys
            /\ \A o \in Keys : /\ DOMAIN key'[o] = {"state", "by", "scopes"}
                               /\ key'[o].state # "none" => key'[o].by \in Members
                               /\ key[o].state # "none" => key'[o].state # "none"
      BY <2>1, <2>2 DEF PowersInv, PeopleShaped
    <2>4. PeopleShaped'
      BY <2>2, <2>3 DEF PowersInv, PeopleShaped
    <2> QED
      BY <2>2, <2>3, <2>4, Over
  <1>2. CASE RevokeKey
    <2>1. PICK k \in Keys : key[k].state = "live" /\ key' = [key EXCEPT ![k].state = "revoked"]
      BY <1>2 DEF RevokeKey
    <2>2. UNCHANGED <<req, member, group>>
      BY <1>2 DEF RevokeKey
    <2>3. DOMAIN key' = Keys
            /\ \A o \in Keys : /\ DOMAIN key'[o] = {"state", "by", "scopes"}
                               /\ key'[o].by = key[o].by
                               /\ key'[o].state # "none" <=> key[o].state # "none"
      BY <2>1 DEF PowersInv, PeopleShaped
    <2>4. PeopleShaped'
      BY <2>2, <2>3 DEF PowersInv, PeopleShaped
    <2> QED
      BY <2>2, <2>3, <2>4, NoOnesRequest
  <1> QED
    BY <1>1, <1>2

LEMMA MemberSteps ==
  ASSUME PowersInv, window' = [o \in Slots |-> Collect(o)], NEW s \in Slots,
         BeginMember(s) \/ SetMemberGroups(s) \/ CreateMember(s) \/ DeleteMember(s)
  PROVE  PowersInv'
  <1>1. CASE BeginMember(s)
    <2>1. PICK m, gs, op :
            /\ m \in Members /\ gs \in SUBSET Groups /\ op \in {"set_groups", "create"}
            /\ Begin(s, op, "write", m, gs, {})
      BY <1>1 DEF BeginMember
    <2> DEFINE r == [op |-> op, at |-> "write", id |-> m, set |-> gs, read |-> {}]
    <2>2. DOMAIN r = Fields /\ r.op # "use" /\ Carries(r, key) /\ req' = [req EXCEPT ![s] = r]
      BY <2>1 DEF Fields, Carries, Begin
    <2>3. UNCHANGED <<member, group, key>> /\ PeopleShaped'
      BY <1>1 DEF BeginMember, PowersInv, PeopleShaped
    <2> HIDE DEF r
    <2> QED
      BY <2>2, <2>3, OwnersRequest
  <1>2. CASE SetMemberGroups(s) \/ CreateMember(s)
    <2>1. req[s].set \subseteq Groups
      BY <1>2 DEF SetMemberGroups, CreateMember, At, PowersInv, Carries
    <2>2. PeopleShaped' /\ UNCHANGED <<group, key>> /\ Done(s)
      BY <1>2, <2>1 DEF SetMemberGroups, CreateMember, PowersInv, PeopleShaped
    <2> QED
      BY <2>2, Over
  <1>3. CASE DeleteMember(s)
    <2>1. PeopleShaped' /\ UNCHANGED <<req, group, key>>
      BY <1>3 DEF DeleteMember, PowersInv, PeopleShaped, There
    <2> QED
      BY <2>1, NoOnesRequest
  <1> QED
    BY <1>1, <1>2, <1>3

LEMMA NormalIsPermissions ==
  ASSUME NEW ps \in SUBSET Permissions
  PROVE  normalise_permissions(ps) \subseteq Permissions
  BY DEF normalise_permissions, Permissions

LEMMA GroupSteps ==
  ASSUME PowersInv, window' = [o \in Slots |-> Collect(o)], NEW s \in Slots,
         \/ CreateGroup \/ BeginUpdateGroup(s) \/ SaveGroup(s)
         \/ BeginDeleteGroup(s) \/ StripGroup(s) \/ DeleteGroup(s)
  PROVE  PowersInv'
  <1>1. CASE CreateGroup
    <2>1. PICK g \in Groups, ps \in SUBSET Permissions :
            group' = [group EXCEPT ![g] = normalise_permissions(ps)]
      BY <1>1 DEF CreateGroup
    <2>2. UNCHANGED <<req, member, key>>
      BY <1>1 DEF CreateGroup
    <2>3. PeopleShaped'
      BY <2>1, <2>2, NormalIsPermissions DEF PowersInv, PeopleShaped
    <2> QED
      BY <2>2, <2>3, NoOnesRequest
  <1>2. CASE BeginUpdateGroup(s)
    <2>1. PICK g \in Groups, ps \in SUBSET Permissions :
            Begin(s, "update_group", "write", g, normalise_permissions(ps), {})
      BY <1>2 DEF BeginUpdateGroup
    <2> DEFINE r == [op |-> "update_group", at |-> "write", id |-> g,
                     set |-> normalise_permissions(ps), read |-> {}]
    <2>2. DOMAIN r = Fields /\ r.op # "use" /\ Carries(r, key) /\ req' = [req EXCEPT ![s] = r]
      BY <2>1, NormalIsPermissions DEF Fields, Carries, Begin
    <2>3. UNCHANGED <<member, group, key>> /\ PeopleShaped'
      BY <1>2 DEF BeginUpdateGroup, PowersInv, PeopleShaped
    <2> HIDE DEF r
    <2> QED
      BY <2>2, <2>3, OwnersRequest
  <1>3. CASE SaveGroup(s) \/ DeleteGroup(s)
    <2>1. At(s, "update_group", "write") => req[s].set \subseteq Permissions
      BY DEF At, PowersInv, Carries
    <2>2. \E ps : /\ group' = [group EXCEPT ![req[s].id] = ps]
                  /\ There(ps) => ps \subseteq Permissions
      BY <1>3, <2>1 DEF SaveGroup, DeleteGroup, There
    <2>3. UNCHANGED <<member, key>> /\ Done(s)
      BY <1>3 DEF SaveGroup, DeleteGroup
    <2>4. PeopleShaped'
      BY <2>2, <2>3 DEF PowersInv, PeopleShaped
    <2> QED
      BY <2>3, <2>4, Over
  <1>4. CASE BeginDeleteGroup(s)
    <2>1. PICK g \in Groups :
            Begin(s, "delete_group", "strip", g, {},
                  {<<m, GroupsOf(m)>> : m \in {n \in Members : g \in GroupsOf(n)}})
      BY <1>4 DEF BeginDeleteGroup
    <2> DEFINE list == {<<m, GroupsOf(m)>> : m \in {n \in Members : g \in GroupsOf(n)}}
               r == [op |-> "delete_group", at |-> "strip", id |-> g, set |-> {},
                     read |-> list]
    <2>2. \A e \in list : e[2] \subseteq Groups
      BY DEF GroupsOf, PowersInv, PeopleShaped
    <2>3. req' = [req EXCEPT ![s] = r]
      BY <2>1 DEF Begin
    <2> HIDE DEF list
    <2>4. DOMAIN r = Fields /\ r.op # "use" /\ Carries(r, key)
      BY <2>2 DEF Fields, Carries
    <2>5. UNCHANGED <<member, group, key>> /\ PeopleShaped'
      BY <1>4 DEF BeginDeleteGroup, PowersInv, PeopleShaped
    <2> HIDE DEF r
    <2> QED
      BY <2>3, <2>4, <2>5, OwnersRequest
  <1>5. CASE StripGroup(s)
    <2>1. PICK e \in req[s].read :
            /\ member' = [member EXCEPT ![e[1]] = IF There(@) THEN e[2] \ {req[s].id} ELSE @]
            /\ Move(s, "strip", req[s].read \ {e})
      BY <1>5 DEF StripGroup
    <2>2. UNCHANGED <<group, key>> /\ req[s].op = "delete_group" /\ Carries(req[s], key)
            /\ DOMAIN req[s] = Fields
      BY <1>5 DEF StripGroup, At, PowersInv
    <2>3. e[2] \subseteq Groups
      BY <2>2 DEF Carries
    <2>4. PeopleShaped'
      BY <2>1, <2>2, <2>3 DEF PowersInv, PeopleShaped
    <2> DEFINE r == [req[s] EXCEPT !.at = "strip", !.read = req[s].read \ {e}]
    <2>5. /\ DOMAIN r = Fields /\ r.op = "delete_group" /\ r.read \subseteq req[s].read
          /\ req' = [req EXCEPT ![s] = r]
      BY <2>1, <2>2 DEF Move, Fields
    <2> HIDE DEF r
    <2>6. Carries(r, key)
      BY <2>2, <2>5 DEF Carries
    <2> QED
      BY <2>2, <2>4, <2>5, <2>6, OwnersRequest
  <1> QED
    BY <1>1, <1>2, <1>3, <1>4, <1>5

-----------------------------------------------------------------------------
\* Requests about programs and modules are none of a person's.
LEMMA OtherConcerns ==
  ASSUME PowersInv, AboutPrograms \/ AboutModules
  PROVE  PowersInv'
  <1>1. UNCHANGED <<member, group, key, window>>
    BY DEF AboutPrograms, AboutModules, people
  <1>2. PeopleShaped'
    BY <1>1 DEF PowersInv, PeopleShaped
  <1>3. ASSUME UNCHANGED req
        PROVE  PowersInv'
    BY <1>1, <1>2, <1>3 DEF PowersInv, Carries, Within, Powers
  <1>4. ASSUME NEW s \in Slots, NEW r, DOMAIN r = Fields,
               r.op \notin {"use", "create", "set_groups", "update_group", "delete_group"},
               req' = [req EXCEPT ![s] = r]
        PROVE  PowersInv'
    <2>1. Carries(r, key) /\ Within(r, window[s])
      BY <1>4 DEF Carries, Within
    <2>2. DOMAIN req' = Slots
            /\ \A o \in Slots : /\ DOMAIN req'[o] = Fields
                                /\ Carries(req'[o], key) /\ Within(req'[o], window[o])
      BY <1>4, <2>1 DEF PowersInv
    <2>3. \A o \in Slots : (Carries(req[o], key) /\ Within(req[o], window[o]))'
      BY <1>1, <2>2 DEF Carries, Within, Powers
    <2> QED
      BY <1>1, <1>2, <2>2, <2>3 DEF PowersInv
  <1>5. ASSUME NEW s \in Slots, NEW op, NEW at, NEW id, NEW set, NEW read,
               Begin(s, op, at, id, set, read), op \in {"check", "authorize", "delete", "modules"}
        PROVE  PowersInv'
    <2> DEFINE r == [op |-> op, at |-> at, id |-> id, set |-> set, read |-> read]
    <2>1. DOMAIN r = Fields /\ r.op = op /\ req' = [req EXCEPT ![s] = r]
      BY <1>5 DEF Begin, Fields
    <2> HIDE DEF r
    <2> QED
      BY <1>4, <1>5, <2>1
  <1>6. ASSUME NEW s \in Slots, Done(s)
        PROVE  PowersInv'
    BY <1>4, <1>6 DEF Done, NoRequest, Fields
  <1>7. ASSUME NEW s \in Slots, NEW at, NEW read, Move(s, at, read),
               req[s].op \in {"check", "delete"}
        PROVE  PowersInv'
    <2> DEFINE r == [req[s] EXCEPT !.at = at, !.read = read]
    <2>1. DOMAIN r = Fields /\ r.op = req[s].op /\ req' = [req EXCEPT ![s] = r]
      BY <1>7 DEF Move, PowersInv, Fields
    <2> HIDE DEF r
    <2> QED
      BY <1>4, <1>7, <2>1
  <1>8. CASE AboutPrograms
    <2>1. ASSUME NEW p \in Programs, RequestVerification(p)
          PROVE  PowersInv'
      BY <1>3, <2>1 DEF RequestVerification
    <2>2. CASE Publish
      BY <1>3, <2>2 DEF Publish
    <2>3. ASSUME NEW s \in Slots, BeginCheck(s) \/ BeginAuthorization(s) \/ BeginDelete(s)
          PROVE  PowersInv'
      <3>1. ASSUME BeginCheck(s) PROVE PowersInv'
        <4>1. PICK p \in Programs : Begin(s, "check", "look", p, {}, {program[p].token})
          BY <3>1 DEF BeginCheck
        <4> QED
          BY <1>5, <4>1
      <3>2. ASSUME BeginAuthorization(s) PROVE PowersInv'
        <4>1. PICK p \in Programs : Begin(s, "authorize", "save", p, {}, {})
          BY <3>2 DEF BeginAuthorization
        <4> QED
          BY <1>5, <4>1
      <3>3. ASSUME BeginDelete(s) PROVE PowersInv'
        <4>1. PICK p \in Programs : Begin(s, "delete", "data", p, {}, {})
          BY <3>3 DEF BeginDelete
        <4> QED
          BY <1>5, <4>1
      <3> QED
        BY <2>3, <3>1, <3>2, <3>3
    <2>4. ASSUME NEW s \in Slots,
                 SetVerified(s) \/ SaveAuthorization(s) \/ DeleteProgram(s)
          PROVE  PowersInv'
      BY <1>6, <2>4 DEF SetVerified, SaveAuthorization, DeleteProgram
    <2>5. ASSUME NEW s \in Slots, Look(s) \/ DeleteData(s)
          PROVE  PowersInv'
      BY <1>6, <1>7, <2>5 DEF Look, DeleteData, At
    <2> QED
      BY <1>8, <2>1, <2>2, <2>3, <2>4, <2>5 DEF AboutPrograms
  <1>9. CASE AboutModules
    <2>1. CASE SetEnabled
      BY <1>3, <2>1 DEF SetEnabled
    <2>2. ASSUME NEW s \in Slots, BeginModules(s)
          PROVE  PowersInv'
      <3>1. \E off : Begin(s, "modules", "disabled", Nobody, off, {})
        BY <2>2 DEF BeginModules
      <3> QED
        BY <1>5, <3>1
    <2>3. ASSUME NEW s \in Slots, SetDisabled(s)
          PROVE  PowersInv'
      BY <1>6, <2>3 DEF SetDisabled
    <2> QED
      BY <1>9, <2>1, <2>2, <2>3 DEF AboutModules
  <1> QED
    BY <1>8, <1>9

LEMMA NextPowers == PowersInv /\ [ConsoleNext]_consoleVars => PowersInv'
  <1> SUFFICES ASSUME PowersInv, [ConsoleNext]_consoleVars PROVE PowersInv'
    OBVIOUS
  <1>1. CASE UNCHANGED consoleVars
    BY <1>1 DEF consoleVars, people, PowersInv, PeopleShaped, Carries, Within, Powers
  <1>2. CASE People
    <2>1. PICK s \in Slots :
            \/ AskAsMember(s) \/ AskWithKey(s) \/ ReadUser(s) \/ Resolve(s) \/ Served(s)
            \/ CreateKey(s) \/ BeginMember(s) \/ SetMemberGroups(s) \/ CreateMember(s)
            \/ DeleteMember(s) \/ BeginUpdateGroup(s) \/ SaveGroup(s)
            \/ BeginDeleteGroup(s) \/ StripGroup(s) \/ DeleteGroup(s)
            \/ CreateGroup \/ RevokeKey
      BY <1>2 DEF People
    <2>2. window' = [o \in Slots |-> Collect(o)]
      BY <1>2 DEF People
    <2> QED
      BY <2>1, <2>2, UseSteps, KeySteps, MemberSteps, GroupSteps
  <1>3. CASE AboutPrograms \/ AboutModules
    BY <1>3, OtherConcerns
  <1> QED
    BY <1>1, <1>2, <1>3 DEF ConsoleNext

\* Whoever is removed, moved or loses a right while his request is on its way, a request
\* acts only with powers that a group of his gave since it came, and a key with none that
\* its maker has not (core/permissions.py, api/deps.py).
THEOREM PowersAreHeld == ConsoleSpec => []ActsWithinPowers
  <1>1. ConsoleInit => PowersInv
    BY InitPowers
  <1>2. PowersInv /\ [ConsoleNext]_consoleVars => PowersInv'
    BY NextPowers
  <1>3. PowersInv => ActsWithinPowers
    BY DEF PowersInv, ActsWithinPowers, Within, Powers, At
  <1> QED
    BY <1>1, <1>2, <1>3, PTL DEF ConsoleSpec

-----------------------------------------------------------------------------
(* Functions that are defined along the natural numbers *)

\* A set of numbers has a least one.
LEMMA Least ==
  ASSUME NEW T \in SUBSET Nat, T # {}
  PROVE  \E n \in T : \A m \in T : n <= m
  <1> DEFINE R == {p \in Nat \X Nat : p[1] < p[2]}
  <1>1. IsWellFoundedOn(R, Nat)
    BY NatLessThanWellFounded DEF OpToRel
  <1>2. \A m \in T, n \in T : <<m, n>> \in R <=> m < n
    OBVIOUS
  <1> HIDE DEF R
  <1>3. PICK n \in T : \A m \in T : ~ (<<m, n>> \in R)
    BY <1>1, WFMin
  <1>4. \A m \in T : ~ (m < n)
    BY <1>2, <1>3
  <1> QED
    BY <1>4

\* What holds at first and from each number to the next holds of all.
LEMMA Climb ==
  ASSUME NEW T \in SUBSET Nat, 0 \in T, \A n \in T : n + 1 \in T
  PROVE  T = Nat
  <1> SUFFICES ASSUME Nat \ T # {}  PROVE FALSE
    OBVIOUS
  <1>1. PICK n \in Nat \ T : \A m \in Nat \ T : n <= m
    BY Least
  <1>2. n # 0 /\ n - 1 \in Nat /\ n = (n - 1) + 1
    BY <1>1
  <1>3. n - 1 \in T
    BY <1>1, <1>2
  <1> QED
    BY <1>2, <1>3

\* The first n iterates of g from s
Iterates(g, s, n, h) == h[0] = s /\ \A k \in 0..(n - 1) : h[k + 1] = g[h[k]]

\* There is a function that goes from s by g forever.
LEMMA Iteration ==
  ASSUME NEW S, NEW s \in S, NEW g \in [S -> S]
  PROVE  \E f \in [Nat -> S] : f[0] = s /\ \A k \in Nat : f[k + 1] = g[f[k]]
  <1> DEFINE T == {n \in Nat : \E h \in [0..n -> S] : Iterates(g, s, n, h)}
  <1>1. T = Nat
    <2>1. 0 \in T
      <3>1. [k \in 0..0 |-> s] \in [0..0 -> S] /\ Iterates(g, s, 0, [k \in 0..0 |-> s])
        BY DEF Iterates
      <3> QED
        BY <3>1
    <2>2. ASSUME NEW n \in T  PROVE n + 1 \in T
      <3>1. PICK h \in [0..n -> S] : Iterates(g, s, n, h)
        OBVIOUS
      <3> DEFINE more == [k \in 0..(n + 1) |-> IF k = n + 1 THEN g[h[n]] ELSE h[k]]
      <3>2. more \in [0..(n + 1) -> S]
        OBVIOUS
      <3>3. more[0] = s /\ more[n + 1] = g[more[n]]
        BY <3>1 DEF Iterates
      <3>4. \A k \in 0..(n - 1) : more[k + 1] = g[more[k]]
        BY <3>1 DEF Iterates
      <3>5. \A k \in 0..(n + 1 - 1) : k = n \/ k \in 0..(n - 1)
        OBVIOUS
      <3> HIDE DEF more
      <3>6. Iterates(g, s, n + 1, more)
        BY <3>3, <3>4, <3>5 DEF Iterates
      <3> QED
        BY <3>2, <3>6
    <2> HIDE DEF T
    <2>3. T \in SUBSET Nat
      BY DEF T
    <2> QED
      BY <2>1, <2>2, <2>3, Climb
  <1> DEFINE upTo(n) == CHOOSE h \in [0..n -> S] : Iterates(g, s, n, h)
             f == [n \in Nat |-> upTo(n)[n]]
  <1>2. ASSUME NEW n \in Nat  PROVE upTo(n) \in [0..n -> S] /\ Iterates(g, s, n, upTo(n))
    BY <1>1
  <1> HIDE DEF T, upTo
  <1>3. ASSUME NEW n \in Nat  PROVE upTo(n + 1)[n] = upTo(n)[n]
    <2> DEFINE U == {k \in Nat : k <= n => upTo(n + 1)[k] = upTo(n)[k]}
    <2>1. 0 \in U
      BY <1>2 DEF Iterates
    <2>2. ASSUME NEW k \in U  PROVE k + 1 \in U
      <3>1. CASE k + 1 <= n
        <4>1. k \in 0..(n - 1) /\ k \in 0..(n + 1 - 1) /\ k <= n
          BY <3>1
        <4>2. upTo(n)[k + 1] = g[upTo(n)[k]] /\ upTo(n + 1)[k + 1] = g[upTo(n + 1)[k]]
          BY <1>2, <4>1 DEF Iterates
        <4> QED
          BY <4>1, <4>2
      <3> QED
        BY <3>1
    <2> HIDE DEF U
    <2>3. U = Nat
      <3>1. U \in SUBSET Nat
        BY DEF U
      <3> QED
        BY <2>1, <2>2, <3>1, Climb
    <2> QED
      BY <2>3 DEF U
  <1>4. f \in [Nat -> S] /\ f[0] = s
    BY <1>2 DEF Iterates
  <1>5. ASSUME NEW k \in Nat  PROVE f[k + 1] = g[f[k]]
    <2>1. k \in 0..(k + 1 - 1) /\ k + 1 \in Nat
      OBVIOUS
    <2>2. upTo(k + 1)[k + 1] = g[upTo(k + 1)[k]]
      BY <1>2, <2>1 DEF Iterates
    <2> QED
      BY <1>3, <2>1, <2>2
  <1> QED
    BY <1>4, <1>5

-----------------------------------------------------------------------------
(* Chains of subsets *)

\* A set that shrinks by the same rule again and again has stopped when all of its
\* elements could have gone.
LEMMA Shrinks ==
  ASSUME NEW S, IsFiniteSet(S), NEW f \in [Nat -> SUBSET S],
         \A k \in Nat : f[k + 1] \subseteq f[k],
         \A k \in Nat, l \in Nat : f[k] = f[l] => f[k + 1] = f[l + 1]
  PROVE  Cardinality(S) \in Nat /\ f[Cardinality(S) + 1] = f[Cardinality(S)]
  <1> DEFINE N == Cardinality(S)
             T == {k \in Nat : f[k + 1] = f[k] \/ Cardinality(f[k]) + k <= N}
  <1>1. N \in Nat
    BY FS_CardinalityType
  <1>2. ASSUME NEW k \in Nat
        PROVE  IsFiniteSet(f[k]) /\ Cardinality(f[k]) \in Nat /\ Cardinality(f[k]) <= N
    BY FS_Subset, FS_CardinalityType
  <1> HIDE DEF N
  <1>3. 0 \in T
    BY <1>1, <1>2
  <1>4. ASSUME NEW k \in T  PROVE k + 1 \in T
    <2>1. CASE f[k + 1] = f[k]
      BY <2>1
    <2>2. CASE f[k + 1] # f[k]
      <3>1. Cardinality(f[k]) + k <= N /\ Cardinality(f[k + 1]) <= Cardinality(f[k])
            /\ Cardinality(f[k + 1]) # Cardinality(f[k])
        BY <1>2, <2>2, FS_Subset
      <3>2. Cardinality(f[k + 1]) \in Nat /\ Cardinality(f[k]) \in Nat
        BY <1>2
      <3> QED
        BY <1>1, <3>1, <3>2
    <2> QED
      BY <2>1, <2>2
  <1>5. T = Nat
    <2>1. T \in SUBSET Nat
      OBVIOUS
    <2> HIDE DEF T
    <2> QED
      BY <1>3, <1>4, <2>1, Climb
  <1>6. f[N + 1] = f[N] \/ Cardinality(f[N]) + N <= N
    BY <1>1, <1>5
  <1>7. Cardinality(f[N]) = 0 => f[N] = {}
    BY <1>1, <1>2, FS_EmptySet
  <1>8. f[N + 1] \subseteq f[N]
    BY <1>1
  <1>9. f[N + 1] = f[N]
    <2>1. Cardinality(f[N]) + N <= N => Cardinality(f[N]) = 0
      BY <1>1, <1>2
    <2> QED
      BY <1>6, <1>7, <1>8, <2>1
  <1> QED
    BY <1>1, <1>9 DEF N

\* A set that grows by the same rule has stopped when all elements could have come.
LEMMA Grows ==
  ASSUME NEW S, IsFiniteSet(S), NEW f \in [Nat -> SUBSET S],
         \A k \in Nat : f[k] \subseteq f[k + 1],
         \A k \in Nat, l \in Nat : f[k] = f[l] => f[k + 1] = f[l + 1]
  PROVE  Cardinality(S) \in Nat /\ f[Cardinality(S) + 1] = f[Cardinality(S)]
  <1> DEFINE rest == [k \in Nat |-> S \ f[k]]
  <1>1. rest \in [Nat -> SUBSET S]
    OBVIOUS
  <1>2. \A k \in Nat : f[k] = S \ rest[k] /\ rest[k] = S \ f[k]
    OBVIOUS
  <1>3. \A k \in Nat : k + 1 \in Nat
    OBVIOUS
  <1> HIDE DEF rest
  <1>4. \A k \in Nat : rest[k + 1] \subseteq rest[k]
    BY <1>2, <1>3
  <1>5. \A k \in Nat : rest[k + 1] = rest[k] <=> f[k + 1] = f[k]
    BY <1>2, <1>3
  <1>6. \A k \in Nat, l \in Nat : rest[k] = rest[l] <=> f[k] = f[l]
    BY <1>2
  <1>7. \A k \in Nat, l \in Nat : rest[k] = rest[l] => rest[k + 1] = rest[l + 1]
    BY <1>3, <1>6
  <1>8. Cardinality(S) \in Nat /\ rest[Cardinality(S) + 1] = rest[Cardinality(S)]
    BY <1>1, <1>4, <1>7, Shrinks
  <1> QED
    BY <1>5, <1>8

-----------------------------------------------------------------------------
(* Which modules run *)

\* The passes of resolve
passes(on, off) == CHOOSE pass : pass = [k \in Nat |->
  IF k = 0 THEN Wanted(on, off) ELSE LET before == pass[k - 1] IN Met(before)]

\* What resolve takes from its passes
LEMMA ResolvePasses == \A on, off : resolve(on, off) = passes(on, off)[Cardinality(MODULES)]
  BY DEF resolve, passes

\* Each pass keeps what has all that it requires.
LEMMA Passes ==
  ASSUME NEW on, NEW off
  PROVE  /\ passes(on, off) \in [Nat -> SUBSET MODULES]
         /\ passes(on, off)[0] = Wanted(on, off)
         /\ \A k \in Nat : passes(on, off)[k + 1] = Met(passes(on, off)[k])
  <1> DEFINE g == [S \in SUBSET MODULES |-> Met(S)]
             p == passes(on, off)
  <1>1. Wanted(on, off) \in SUBSET MODULES /\ g \in [SUBSET MODULES -> SUBSET MODULES]
    BY ModulesAssumption DEF Wanted, Met
  <1>2. PICK f \in [Nat -> SUBSET MODULES] :
          f[0] = Wanted(on, off) /\ \A k \in Nat : f[k + 1] = g[f[k]]
    <2> HIDE DEF g
    <2> DEFINE s == Wanted(on, off)
               M == SUBSET MODULES
    <2>1. s \in M /\ g \in [M -> M]
      BY <1>1
    <2> HIDE DEF s, M
    <2>2. \E f \in [Nat -> M] : f[0] = s /\ \A k \in Nat : f[k + 1] = g[f[k]]
      BY <2>1, Iteration
    <2> QED
      BY <2>2 DEF s, M
  <1>3. f = [k \in Nat |-> IF k = 0 THEN Wanted(on, off) ELSE Met(f[k - 1])]
    <2>1. \A k \in Nat \ {0} : k - 1 \in Nat /\ (k - 1) + 1 = k
      OBVIOUS
    <2>2. \A k \in Nat : f[k] = IF k = 0 THEN Wanted(on, off) ELSE Met(f[k - 1])
      BY <1>2, <2>1
    <2> QED
      BY <1>2, <2>2
  <1>4. p = [k \in Nat |-> IF k = 0 THEN Wanted(on, off) ELSE Met(p[k - 1])]
    BY <1>3 DEF passes
  <1> HIDE DEF p
  <1>5. p[0] = Wanted(on, off) /\ \A k \in Nat : p[k + 1] = Met(p[k])
    BY <1>4
  <1>6. \A k \in Nat : p[k] \in SUBSET MODULES
    <2> DEFINE T == {k \in Nat : p[k] \in SUBSET MODULES}
    <2>1. 0 \in T /\ \A k \in T : k + 1 \in T
      BY <1>1, <1>5 DEF Met
    <2>2. T \in SUBSET Nat
      OBVIOUS
    <2> HIDE DEF T
    <2>3. T = Nat
      BY <2>1, <2>2, Climb
    <2> QED
      BY <2>3 DEF T
  <1>7. p \in [Nat -> SUBSET MODULES]
    BY <1>4, <1>6
  <1> QED
    BY <1>5, <1>7 DEF p

\* resolve keeps the most that is wanted and has all it requires.
LEMMA ResolveIsGreatest ==
  ASSUME NEW on, NEW off
  PROVE  /\ resolve(on, off) \subseteq Wanted(on, off)
         /\ \A n \in resolve(on, off) : requires[n] \subseteq resolve(on, off)
         /\ \A X \in SUBSET Wanted(on, off) :
              (\A n \in X : requires[n] \subseteq X) => X \subseteq resolve(on, off)
  <1> DEFINE p == passes(on, off)
             N == Cardinality(MODULES)
             W == Wanted(on, off)
  <1>1. /\ p \in [Nat -> SUBSET MODULES] /\ p[0] = W /\ resolve(on, off) = p[N]
        /\ \A k \in Nat : p[k + 1] = Met(p[k])
    <2>1. /\ passes(on, off) \in [Nat -> SUBSET MODULES]
          /\ passes(on, off)[0] = Wanted(on, off)
          /\ \A k \in Nat : passes(on, off)[k + 1] = Met(passes(on, off)[k])
      BY Passes
    <2>2. resolve(on, off) = passes(on, off)[Cardinality(MODULES)]
      BY ResolvePasses
    <2> HIDE DEF p, W, N
    <2> QED
      BY <2>1, <2>2 DEF p, W, N
  <1> HIDE DEF p, W
  <1>2. N \in Nat /\ p[N + 1] = p[N]
    <2>1. IsFiniteSet(MODULES)
      BY ModulesAssumption
    <2>2. \A k \in Nat : p[k + 1] \subseteq p[k]
      BY <1>1 DEF Met
    <2>3. \A k \in Nat, l \in Nat : p[k] = p[l] => p[k + 1] = p[l + 1]
      BY <1>1
    <2> QED
      BY <1>1, <2>1, <2>2, <2>3, Shrinks
  <1> HIDE DEF N
  <1>3. ASSUME NEW T \in SUBSET Nat, 0 \in T, \A k \in T : k + 1 \in T  PROVE N \in T
    BY <1>2, <1>3, Climb
  <1>4. p[N] \subseteq W
    <2> DEFINE T == {k \in Nat : p[k] \subseteq W}
    <2>1. T \in SUBSET Nat /\ 0 \in T /\ \A k \in T : k + 1 \in T
      BY <1>1 DEF Met
    <2> HIDE DEF T
    <2>2. N \in T
      BY <1>3, <2>1
    <2> QED
      BY <2>2 DEF T
  <1>5. \A n \in p[N] : requires[n] \subseteq p[N]
    BY <1>1, <1>2 DEF Met
  <1>6. ASSUME NEW X \in SUBSET W, \A n \in X : requires[n] \subseteq X  PROVE X \subseteq p[N]
    <2> DEFINE T == {k \in Nat : X \subseteq p[k]}
    <2>1. T \in SUBSET Nat /\ 0 \in T /\ \A k \in T : k + 1 \in T
      BY <1>1, <1>6 DEF Met
    <2> HIDE DEF T
    <2>2. N \in T
      BY <1>3, <2>1
    <2> QED
      BY <2>2 DEF T
  <1> QED
    BY <1>1, <1>4, <1>5, <1>6 DEF W

\* The rings of dependents_of
rings(m) == CHOOSE frontier : frontier = [k \in Nat |->
  IF k = 0 THEN {m}
  ELSE LET out == frontier[k - 1]
       IN  out \cup {n \in MODULES : requires[n] \cap out # {}}]

\* What dependents_of takes from its rings
LEMMA DependentsRings == \A m : dependents_of(m) = rings(m)[Cardinality(MODULES)] \ {m}
  BY DEF dependents_of, rings

\* What a ring and those that require one of it are
Widened(out) == out \cup {n \in MODULES : requires[n] \cap out # {}}

\* There is a sequence of rings.
LEMMA Spread ==
  ASSUME NEW s \in SUBSET MODULES
  PROVE  \E f \in [Nat -> SUBSET MODULES] :
           f[0] = s /\ \A k \in Nat : f[k + 1] = Widened(f[k])
  <1> DEFINE M == SUBSET MODULES
             g == [out \in M |-> Widened(out)]
  <1>1. s \in M /\ g \in [M -> M]
    BY DEF Widened
  <1>2. \A out \in M : g[out] = Widened(out)
    OBVIOUS
  <1> HIDE DEF g, M
  <1>3. PICK f \in [Nat -> M] : f[0] = s /\ \A k \in Nat : f[k + 1] = g[f[k]]
    BY <1>1, Iteration
  <1>4. \A k \in Nat : f[k + 1] = Widened(f[k])
    BY <1>2, <1>3
  <1> QED
    BY <1>3, <1>4 DEF M

\* Each ring adds what requires one of the last.
LEMMA Rings ==
  ASSUME NEW m \in MODULES
  PROVE  /\ rings(m) \in [Nat -> SUBSET MODULES] /\ rings(m)[0] = {m}
         /\ \A k \in Nat : rings(m)[k + 1] = Widened(rings(m)[k])
  <1> DEFINE p == rings(m)
  <1>2. PICK f \in [Nat -> SUBSET MODULES] :
          f[0] = {m} /\ \A k \in Nat : f[k + 1] = Widened(f[k])
    BY Spread
  <1>3. f = [k \in Nat |-> IF k = 0 THEN {m} ELSE Widened(f[k - 1])]
    <2>1. \A k \in Nat \ {0} : k - 1 \in Nat /\ (k - 1) + 1 = k
      OBVIOUS
    <2>2. \A k \in Nat : f[k] = IF k = 0 THEN {m} ELSE Widened(f[k - 1])
      BY <1>2, <2>1
    <2> QED
      BY <1>2, <2>2
  <1>4. p = [k \in Nat |-> IF k = 0 THEN {m} ELSE Widened(p[k - 1])]
    BY <1>3 DEF rings, Widened
  <1> HIDE DEF p
  <1>5. p[0] = {m} /\ \A k \in Nat : p[k + 1] = Widened(p[k])
    BY <1>4
  <1>6. \A k \in Nat : p[k] \in SUBSET MODULES
    <2> DEFINE T == {k \in Nat : p[k] \in SUBSET MODULES}
    <2>1. 0 \in T /\ \A k \in T : k + 1 \in T
      BY <1>5 DEF Widened
    <2>2. T \in SUBSET Nat
      OBVIOUS
    <2> HIDE DEF T
    <2>3. T = Nat
      BY <2>1, <2>2, Climb
    <2> QED
      BY <2>3 DEF T
  <1>7. p \in [Nat -> SUBSET MODULES]
    BY <1>4, <1>6
  <1> QED
    BY <1>5, <1>7 DEF p

\* dependents_of finds the least set that has m and whatever requires one of its members.
LEMMA DependentsAreLeast ==
  ASSUME NEW m \in MODULES
  PROVE  LET D == {m} \cup dependents_of(m)
         IN  /\ D \subseteq MODULES
             /\ \A n \in MODULES : requires[n] \cap D # {} => n \in D
             /\ \A X : m \in X /\ (\A n \in MODULES : requires[n] \cap X # {} => n \in X)
                         => D \subseteq X
  <1> DEFINE p == rings(m)
             N == Cardinality(MODULES)
             D == {m} \cup dependents_of(m)
  <1>1. /\ p \in [Nat -> SUBSET MODULES] /\ p[0] = {m}
        /\ \A k \in Nat : p[k + 1] = Widened(p[k])
    <2> HIDE DEF D, N
    <2> QED
      BY Rings
  <1>2. D = {m} \cup p[N]
    BY DependentsRings
  <1> HIDE DEF p, D
  <1>3. N \in Nat /\ p[N + 1] = p[N]
    <2>1. IsFiniteSet(MODULES)
      BY ModulesAssumption
    <2>2. \A k \in Nat : p[k] \subseteq p[k + 1]
      BY <1>1 DEF Widened
    <2>3. \A k \in Nat, l \in Nat : p[k] = p[l] => p[k + 1] = p[l + 1]
      BY <1>1
    <2> QED
      BY <1>1, <2>1, <2>2, <2>3, Grows
  <1> HIDE DEF N
  <1>4. ASSUME NEW T \in SUBSET Nat, 0 \in T, \A k \in T : k + 1 \in T  PROVE N \in T
    BY <1>3, <1>4, Climb
  <1>5. m \in p[N]
    <2> DEFINE T == {k \in Nat : m \in p[k]}
    <2>1. T \in SUBSET Nat /\ 0 \in T /\ \A k \in T : k + 1 \in T
      BY <1>1 DEF Widened
    <2> HIDE DEF T
    <2>2. N \in T
      BY <1>4, <2>1
    <2> QED
      BY <2>2 DEF T
  <1>6. \A n \in MODULES : requires[n] \cap p[N] # {} => n \in p[N]
    BY <1>1, <1>3 DEF Widened
  <1>7. ASSUME NEW X, m \in X, \A n \in MODULES : requires[n] \cap X # {} => n \in X
        PROVE  p[N] \subseteq X
    <2> DEFINE T == {k \in Nat : p[k] \subseteq X}
    <2>1. 0 \in T
      BY <1>1, <1>7
    <2>2. ASSUME NEW k \in T  PROVE k + 1 \in T
      <3>1. p[k + 1] = Widened(p[k]) /\ p[k] \subseteq X
        BY <1>1
      <3>2. Widened(p[k]) \subseteq X
        BY <1>7, <3>1 DEF Widened
      <3> QED
        BY <3>1, <3>2
    <2>3. T \in SUBSET Nat
      OBVIOUS
    <2> HIDE DEF T
    <2>4. N \in T
      BY <1>4, <2>1, <2>2, <2>3
    <2> QED
      BY <2>4 DEF T
  <1>8. D = p[N] /\ p[N] \subseteq MODULES
    BY <1>1, <1>2, <1>3, <1>5
  <1> QED
    BY <1>6, <1>7, <1>8 DEF D

\* A module that is switched off takes with it what depends on it, and nothing else.
LEMMA TogglingCosts ==
  ASSUME NEW m \in MODULES \ ESSENTIAL, NEW on, NEW off
  PROVE  resolve(on, off \cup {m}) = resolve(on, off) \ ({m} \cup dependents_of(m))
  <1> DEFINE D == {m} \cup dependents_of(m)
             R == resolve(on, off)
             less == resolve(on, off \cup {m})
  <1>1. /\ D \subseteq MODULES /\ m \in D
        /\ \A n \in MODULES : requires[n] \cap D # {} => n \in D
        /\ \A X : m \in X /\ (\A n \in MODULES : requires[n] \cap X # {} => n \in X)
                    => D \subseteq X
    BY DependentsAreLeast
  <1>2. /\ R \subseteq Wanted(on, off) /\ \A n \in R : requires[n] \subseteq R
        /\ \A X \in SUBSET Wanted(on, off) :
             (\A n \in X : requires[n] \subseteq X) => X \subseteq R
    BY ResolveIsGreatest
  <1>3. /\ less \subseteq Wanted(on, off \cup {m}) /\ \A n \in less : requires[n] \subseteq less
        /\ \A X \in SUBSET Wanted(on, off \cup {m}) :
             (\A n \in X : requires[n] \subseteq X) => X \subseteq less
    BY ResolveIsGreatest
  <1>4. Wanted(on, off \cup {m}) = Wanted(on, off) \ {m} /\ Wanted(on, off) \subseteq MODULES
    BY ModulesAssumption DEF Wanted
  <1> HIDE DEF D, R, less
  <1>5. R \ D \subseteq less
    <2>1. \A n \in R \ D : requires[n] \subseteq R \ D
      BY <1>1, <1>2, <1>4
    <2>2. R \ D \in SUBSET Wanted(on, off \cup {m})
      BY <1>1, <1>2, <1>4
    <2> DEFINE X == R \ D
    <2>3. X \in SUBSET Wanted(on, off \cup {m}) /\ \A n \in X : requires[n] \subseteq X
      BY <2>1, <2>2
    <2> HIDE DEF X
    <2>4. X \subseteq less
      BY <1>3, <2>3
    <2> QED
      BY <2>4 DEF X
  <1>6. less \subseteq R
    BY <1>2, <1>3, <1>4
  <1>7. less \cap D = {}
    <2>1. m \in MODULES \ less
      BY <1>3, <1>4
    <2>2. \A n \in MODULES : requires[n] \cap (MODULES \ less) # {} => n \in MODULES \ less
      BY <1>3
    <2>3. D \subseteq MODULES \ less
      BY <1>1, <2>1, <2>2
    <2> QED
      BY <2>3
  <1> QED
    BY <1>5, <1>6, <1>7 DEF D, R, less

\* Switching a module off costs the modules that its entry in the catalogue names, and no
\* other, whatever else is on or off and however modules require each other
\* (core/modules.py: resolve, dependents_of).
THEOREM CostIsShown == ConsoleSpec => []ToggleCostsWhatIsShown
  <1>1. ToggleCostsWhatIsShown
    <2> SUFFICES ASSUME NEW m \in MODULES \ ESSENTIAL
                 PROVE  resolve(enabled, disabled \cup {m}) =
                          {n \in MODULES : catalogue(enabled, disabled)[n].enabled}
                            \ ({m} \cup catalogue(enabled, disabled)[m].required_by)
      BY DEF ToggleCostsWhatIsShown
    <2>1. catalogue(enabled, disabled)[m].required_by = dependents_of(m)
      BY DEF catalogue
    <2>2. \A n \in MODULES :
            catalogue(enabled, disabled)[n].enabled <=> n \in resolve(enabled, disabled)
      BY DEF catalogue
    <2>3. resolve(enabled, disabled) \subseteq MODULES
      BY ResolveIsGreatest, ModulesAssumption DEF Wanted
    <2>4. {n \in MODULES : catalogue(enabled, disabled)[n].enabled} = resolve(enabled, disabled)
      BY <2>2, <2>3
    <2> QED
      BY <2>1, <2>4, TogglingCosts
  <1> QED
    BY <1>1, PTL

-----------------------------------------------------------------------------
(* Runs by hand: the waiver *)

\* A run as a worker holds it
Shaped(run) ==
  /\ DOMAIN run = {"at", "report", "outputs", "node"}
  /\ DOMAIN run.outputs = Nodes /\ DOMAIN run.report = Nodes

\* What leaves a Target node was typed.
TargetsTyped(run) ==
  \A n \in Nodes : graph.tier[n] = "source" => run.outputs[n] \subseteq Typed

WaiverInv ==
  /\ DOMAIN exec = Requests
  /\ \A r \in Requests : Shaped(exec[r]) /\ TargetsTyped(exec[r])
  /\ WaiverStaysDirect

LEMMA NowhereIsTyped == Shaped(Nowhere) /\ TargetsTyped(Nowhere)
  BY DEF Shaped, TargetsTyped, Nowhere, Untold

LEMMA InitWaiver == Init => WaiverInv
  <1> SUFFICES ASSUME Init PROVE WaiverInv
    OBVIOUS
  <1>1. DOMAIN exec = Requests /\ \A r \in Requests : exec[r] = Nowhere
    BY DEF Init
  <1>2. WaiverStaysDirect
    BY DEF Init, WaiverStaysDirect
  <1> QED
    BY <1>1, <1>2, NowhereIsTyped DEF WaiverInv

-----------------------------------------------------------------------------
\* A step of a run that touches what it may
LEMMA OneRun ==
  ASSUME WaiverInv, NEW r \in Requests, NEW run,
         exec' = [exec EXCEPT ![r] = run], Shaped(run), TargetsTyped(run),
         UNCHANGED graph, waived' \subseteq Typed \ Excluded, touched' \subseteq InScope
  PROVE  WaiverInv'
  <1>1. DOMAIN exec' = Requests
    BY DEF WaiverInv
  <1>2. ASSUME NEW o \in Requests
        PROVE  Shaped(exec'[o]) /\ TargetsTyped(exec'[o])
    BY DEF WaiverInv
  <1>3. \A o \in Requests : (Shaped(exec[o]) /\ TargetsTyped(exec[o]))'
    BY <1>2 DEF Shaped, TargetsTyped
  <1>4. WaiverStaysDirect'
    BY DEF WaiverStaysDirect
  <1> QED
    BY <1>1, <1>3, <1>4 DEF WaiverInv

\* A step that changes no run and touches nothing
LEMMA NoRun ==
  ASSUME WaiverInv, UNCHANGED <<exec, graph, waived, touched>>
  PROVE  WaiverInv'
  BY DEF WaiverInv, Shaped, TargetsTyped, WaiverStaysDirect

LEMMA Unchanged ==
  ASSUME WaiverInv
  PROVE  waived \subseteq Typed \ Excluded /\ touched \subseteq InScope
  BY DEF WaiverInv, WaiverStaysDirect

\* Another place or another report leaves the outputs.
LEMMA SameOutputs ==
  ASSUME NEW run, Shaped(run), TargetsTyped(run)
  PROVE  /\ \A at : LET other == [run EXCEPT !.at = at]
                    IN  Shaped(other) /\ TargetsTyped(other)
         /\ \A n, told, at, node :
              LET skipped == [run EXCEPT !.report[n] = told]
                  started == [run EXCEPT !.report[n] = told, !.at = at, !.node = node]
                  failed == [run EXCEPT !.report[n] = told, !.at = at]
              IN  /\ Shaped(skipped) /\ TargetsTyped(skipped)
                  /\ Shaped(started) /\ TargetsTyped(started)
                  /\ Shaped(failed) /\ TargetsTyped(failed)
  BY DEF Shaped, TargetsTyped

-----------------------------------------------------------------------------
LEMMA ApiStep ==
  ASSUME WaiverInv, NEW r \in Requests,
         \/ AcceptCanvas(r) \/ AcceptBypass(r) \/ SaveQueued(r) \/ Enqueue(r) \/ SaveFailed(r)
         \/ GrowOld(r) \/ Reap(r) \/ Land(r) \/ (\E e \in Endpoints : TryBypass(r, e))
  PROVE  WaiverInv'
  <1>1. UNCHANGED <<exec, graph, waived, touched>>
    BY DEF AcceptCanvas, AcceptBypass, Check, SaveQueued, Enqueue, SaveFailed, GrowOld, Reap,
           Land, TryBypass, workVars, apiVars
  <1> QED
    BY <1>1, NoRun

LEMMA DeliveryStep ==
  ASSUME WaiverInv, NEW r \in Requests, Take(r) \/ Ack(r) \/ TimeOut(r) \/ Crash(r)
  PROVE  WaiverInv'
  <1>1. UNCHANGED <<graph, waived, touched>>
    BY DEF Take, Ack, TimeOut, Crash, apiVars, workVars
  <1>2. \/ UNCHANGED exec
        \/ \E at : exec' = [exec EXCEPT ![r] = [Nowhere EXCEPT !.at = at]]
        \/ exec' = [exec EXCEPT ![r] = Nowhere]
    BY DEF Take, Ack, TimeOut, Crash
  <1>3. CASE UNCHANGED exec
    BY <1>1, <1>3, NoRun
  <1>4. ASSUME NEW at, exec' = [exec EXCEPT ![r] = [Nowhere EXCEPT !.at = at]]
        PROVE  WaiverInv'
    <2> DEFINE run == [Nowhere EXCEPT !.at = at]
    <2>1. Shaped(run) /\ TargetsTyped(run)
      BY NowhereIsTyped, SameOutputs
    <2> HIDE DEF run
    <2> QED
      BY <1>1, <1>4, <2>1, OneRun, Unchanged DEF run
  <1>5. CASE exec' = [exec EXCEPT ![r] = Nowhere]
    BY <1>1, <1>5, NowhereIsTyped, OneRun, Unchanged
  <1> QED
    BY <1>2, <1>3, <1>4, <1>5

LEMMA CloseStep ==
  ASSUME WaiverInv, NEW r \in Requests, Finish(r) \/ EndBypass(r)
  PROVE  WaiverInv'
  <1> DEFINE run == [exec[r] EXCEPT !.at = "ack"]
  <1>1. exec' = [exec EXCEPT ![r] = run] /\ UNCHANGED <<graph, waived, touched>>
    BY DEF Finish, EndBypass, Close, apiVars, workVars
  <1>2. Shaped(run) /\ TargetsTyped(run)
    BY SameOutputs DEF WaiverInv
  <1> HIDE DEF run
  <1> QED
    BY <1>1, <1>2, OneRun, Unchanged

LEMMA BeginStep ==
  ASSUME WaiverInv, NEW r \in Requests, BeginNode(r)
  PROVE  WaiverInv'
  <1> DEFINE n == Next1(r)
             run == IF Blocked(r, n) THEN [exec[r] EXCEPT !.report[n] = "skipped"]
                    ELSE [exec[r] EXCEPT !.report[n] = "running", !.at = "node", !.node = n]
  <1> HIDE DEF n
  <1>1. exec' = [exec EXCEPT ![r] = run] /\ UNCHANGED <<graph, waived, touched>>
    BY DEF BeginNode, Emit, apiVars, workVars, n
  <1>2. Shaped(run) /\ TargetsTyped(run)
    BY SameOutputs DEF WaiverInv
  <1> HIDE DEF run
  <1> QED
    BY <1>1, <1>2, OneRun, Unchanged

\* The outputs of another node, or of a Target with what was typed
LEMMA Produced ==
  ASSUME WaiverInv, NEW r \in Requests, NEW n, NEW hosts,
         graph.tier[n] = "source" => hosts \subseteq Typed
  PROVE  Shaped(Produce(r, n, hosts)) /\ TargetsTyped(Produce(r, n, hosts))
  <1> DEFINE run == Produce(r, n, hosts)
  <1>1. Shaped(exec[r]) /\ TargetsTyped(exec[r])
    BY DEF WaiverInv
  <1>2. /\ DOMAIN run = {"at", "report", "outputs", "node"}
        /\ run.outputs = [exec[r].outputs EXCEPT ![n] = hosts]
        /\ DOMAIN run.report = Nodes
    BY <1>1 DEF Produce, Shaped
  <1> HIDE DEF run
  <1>3. Shaped(run)
    BY <1>1, <1>2 DEF Shaped
  <1>4. TargetsTyped(run)
    BY <1>1, <1>2 DEF Shaped, TargetsTyped
  <1> QED
    BY <1>3, <1>4 DEF run

\* The hosts that a Target feeds straight into a node were typed.
LEMMA FedByTyped ==
  ASSUME WaiverInv, NEW r \in Requests, NEW n
  PROVE  freeform_hosts_feeding(r, n) \subseteq Typed
  BY DEF WaiverInv, TargetsTyped, freeform_hosts_feeding, Upstream

LEMMA EndStep ==
  ASSUME WaiverInv, NEW r \in Requests, EndNode(r)
  PROVE  WaiverInv'
  <1> DEFINE n == exec[r].node
  <1> HIDE DEF n
  <1>1. CASE RunSource(r, n)
    <2>1. /\ exec' = [exec EXCEPT ![r] = Produce(r, n, Typed)]
          /\ UNCHANGED <<graph, waived, touched>>
      BY <1>1 DEF RunSource, Emit, apiVars, workVars
    <2> QED
      BY <2>1, Produced, OneRun, Unchanged
  <1>2. CASE RunUtility(r, n)
    <2>1. PICK hosts : Emit(r, Produce(r, n, hosts))
      BY <1>2 DEF RunUtility
    <2>2. exec' = [exec EXCEPT ![r] = Produce(r, n, hosts)]
          /\ UNCHANGED <<graph, waived, touched>> /\ graph.tier[n] # "source"
      BY <1>2, <2>1 DEF RunUtility, Emit, apiVars, workVars
    <2> QED
      BY <2>2, Produced, OneRun, Unchanged
  <1>3. CASE RunOnProgram(r, n)
    <2>1. PICK found : Emit(r, Produce(r, n, found))
      BY <1>3 DEF RunOnProgram
    <2>2. exec' = [exec EXCEPT ![r] = Produce(r, n, found)]
          /\ UNCHANGED <<graph, waived>> /\ graph.tier[n] # "source"
      BY <1>3, <2>1 DEF RunOnProgram, Emit, apiVars
    <2>3. touched' \subseteq InScope
      BY <1>3, Unchanged DEF RunOnProgram
    <2> QED
      BY <2>2, <2>3, Produced, OneRun, Unchanged
  <1>4. CASE RunFreeform(r, n)
    <2> DEFINE hosts == freeform_scope(freeform_hosts_feeding(r, n))
    <2>1. Emit(r, Produce(r, n, hosts)) /\ waived' = waived \cup hosts
      BY <1>4 DEF RunFreeform
    <2>2. exec' = [exec EXCEPT ![r] = Produce(r, n, hosts)]
          /\ UNCHANGED <<graph, touched>> /\ graph.tier[n] # "source"
      BY <1>4, <2>1 DEF RunFreeform, Emit, apiVars
    <2>3. hosts \subseteq Typed \ Excluded
      BY FedByTyped DEF freeform_scope
    <2> HIDE DEF hosts
    <2>4. waived' \subseteq Typed \ Excluded
      BY <2>1, <2>3, Unchanged
    <2> QED
      BY <2>2, <2>4, Produced, OneRun, Unchanged
  <1>5. CASE Emit(r, FailNode(r)) /\ UNCHANGED workVars
    <2>1. exec' = [exec EXCEPT ![r] = FailNode(r)] /\ UNCHANGED <<graph, waived, touched>>
      BY <1>5 DEF Emit, apiVars, workVars
    <2>2. Shaped(FailNode(r)) /\ TargetsTyped(FailNode(r))
      BY SameOutputs DEF WaiverInv, FailNode
    <2> QED
      BY <2>1, <2>2, OneRun, Unchanged
  <1> QED
    BY <1>1, <1>2, <1>3, <1>4, <1>5 DEF EndNode, n

LEMMA NextWaiver == WaiverInv /\ [Next]_vars => WaiverInv'
  <1> SUFFICES ASSUME WaiverInv, [Next]_vars PROVE WaiverInv'
    OBVIOUS
  <1>1. CASE UNCHANGED vars
    BY <1>1, NoRun DEF vars, apiVars, workVars
  <1>2. CASE Change
    BY <1>2, NoRun DEF Change, workVars
  <1>3. CASE Next
    BY <1>2, <1>3, ApiStep, DeliveryStep, CloseStep, BeginStep, EndStep DEF Next
  <1> QED
    BY <1>1, <1>3

\* A scan without the program's scope is for hosts that the owner typed into a Target node
\* wired straight to it, and never for excluded ones; whatever is discovered on the way is
\* held to the scope (pipelines/playground.py).
THEOREM WaiverIsNotPassedOn == Spec => []WaiverStaysDirect
  <1>1. Init => WaiverInv
    BY InitWaiver
  <1>2. WaiverInv /\ [Next]_vars => WaiverInv'
    BY NextWaiver
  <1>3. WaiverInv => WaiverStaysDirect
    BY DEF WaiverInv
  <1> QED
    BY <1>1, <1>2, <1>3, PTL DEF Spec

-----------------------------------------------------------------------------
(* The verdict                                                             *)
(*                                                                         *)
(* A row says success only after its runner has waited for the writes; the *)
(* proof adds that a runner which still works has no row with success, and *)
(* that between two nodes none is shown as running.                        *)

Settled(run, n) == run.report[n] \in {"none"} \cup Ended

Orderly(run) ==
  /\ Shaped(run)
  /\ run.at = "loop" => \A n \in Nodes : Settled(run, n)
  /\ run.at = "node" => \A n \in Nodes \ {run.node} : Settled(run, n)

\* The run, the row, the writes and the deliveries of a canvas
Agreed(run, display, under_way, deliveries) ==
  /\ deliveries = 0 => run.at = "idle" /\ under_way = {} /\ display.status # "success"
  /\ deliveries = 1 /\ run.at \in {"loop", "node"} => display.status # "success"
  /\ deliveries = 1 /\ display.status = "success" =>
       under_way = {} /\ \A n \in Nodes : display.nodes[n] \in Ended

VerdictInv ==
  /\ exec = [r \in Requests |-> exec[r]] /\ row = [r \in Requests |-> row[r]]
  /\ writes = [r \in Requests |-> writes[r]]
  /\ tries \in [Requests -> Nat]
  /\ \A r \in Requests : Orderly(exec[r])
  /\ \A r \in Canvases : Agreed(exec[r], row[r], writes[r], tries[r])

LEMMA NowhereIsOrderly == Orderly(Nowhere) /\ Nowhere.at = "idle"
  BY NowhereIsTyped DEF Orderly, Nowhere

LEMMA InitVerdict == Init => VerdictInv
  <1> SUFFICES ASSUME Init PROVE VerdictInv
    OBVIOUS
  <1>1. /\ exec = [r \in Requests |-> exec[r]] /\ row = [r \in Requests |-> row[r]]
        /\ writes = [r \in Requests |-> writes[r]] /\ tries \in [Requests -> Nat]
        /\ \A r \in Requests : /\ exec[r] = Nowhere /\ row[r].status = "absent"
                               /\ writes[r] = {} /\ tries[r] = 0
    BY DEF Init
  <1> QED
    BY <1>1, NowhereIsOrderly DEF VerdictInv, Agreed, Requests

\* A step about one request
LEMMA OneVerdict ==
  ASSUME VerdictInv, NEW r \in Requests, NEW run, NEW display, NEW under_way, NEW n \in Nat,
         exec' = [exec EXCEPT ![r] = run], row' = [row EXCEPT ![r] = display],
         writes' = [writes EXCEPT ![r] = under_way], tries' = [tries EXCEPT ![r] = n],
         Orderly(run), r \in Canvases => Agreed(run, display, under_way, n)
  PROVE  VerdictInv'
  <1>0. /\ DOMAIN exec = Requests /\ DOMAIN row = Requests /\ DOMAIN writes = Requests
    BY DEF VerdictInv
  <1>1. /\ exec' = [o \in Requests |-> exec'[o]] /\ row' = [o \in Requests |-> row'[o]]
        /\ writes' = [o \in Requests |-> writes'[o]] /\ tries' \in [Requests -> Nat]
    BY <1>0 DEF VerdictInv
  <1>2. \A o \in Requests : Orderly(exec'[o])
    BY DEF VerdictInv
  <1>3. \A o \in Canvases : Agreed(exec'[o], row'[o], writes'[o], tries'[o])
    BY DEF VerdictInv, Requests
  <1>4. /\ \A o \in Requests : Orderly(exec[o])'
        /\ \A o \in Canvases : Agreed(exec[o], row[o], writes[o], tries[o])'
    BY <1>2, <1>3 DEF Orderly, Agreed, Shaped, Settled
  <1> QED
    BY <1>1, <1>4 DEF VerdictInv

\* What a step leaves alone stays.
LEMMA AsBefore ==
  ASSUME VerdictInv, NEW r \in Requests
  PROVE  /\ exec = [exec EXCEPT ![r] = exec[r]] /\ row = [row EXCEPT ![r] = row[r]]
         /\ writes = [writes EXCEPT ![r] = writes[r]] /\ tries = [tries EXCEPT ![r] = tries[r]]
         /\ tries[r] \in Nat /\ Orderly(exec[r])
         /\ r \in Canvases => Agreed(exec[r], row[r], writes[r], tries[r])
  BY DEF VerdictInv

LEMMA SameVerdict ==
  ASSUME VerdictInv, UNCHANGED <<exec, row, writes, tries>>
  PROVE  VerdictInv'
  BY DEF VerdictInv, Orderly, Shaped, Settled, Agreed

-----------------------------------------------------------------------------
\* A row that is saved with another status
LEMMA OneRow ==
  ASSUME VerdictInv, NEW r \in Requests, NEW status, NEW nodes, status # "success",
         SaveRow(r, status, nodes), UNCHANGED <<exec, writes, tries>>
  PROVE  VerdictInv'
  <1> DEFINE display == [status |-> status, nodes |-> nodes]
  <1>1. /\ exec' = [exec EXCEPT ![r] = exec[r]] /\ row' = [row EXCEPT ![r] = display]
        /\ writes' = [writes EXCEPT ![r] = writes[r]] /\ tries' = [tries EXCEPT ![r] = tries[r]]
    BY AsBefore DEF SaveRow
  <1>2. display.status # "success"
    OBVIOUS
  <1> HIDE DEF display
  <1>3. r \in Canvases => Agreed(exec[r], display, writes[r], tries[r])
    BY <1>2, AsBefore DEF Agreed
  <1>4. Orderly(exec[r]) /\ tries[r] \in Nat
    BY AsBefore
  <1> QED
    BY <1>1, <1>3, <1>4, OneVerdict

LEMMA VerdictApi ==
  ASSUME VerdictInv, NEW r \in Requests,
         \/ AcceptCanvas(r) \/ AcceptBypass(r) \/ SaveQueued(r) \/ Enqueue(r) \/ SaveFailed(r)
         \/ GrowOld(r) \/ Reap(r) \/ (\E e \in Endpoints : TryBypass(r, e))
  PROVE  VerdictInv'
  <1>1. CASE UNCHANGED <<exec, row, writes, tries>>
    BY <1>1, SameVerdict
  <1>2. CASE SaveQueued(r)
    BY <1>2, OneRow DEF SaveQueued
  <1>3. CASE SaveFailed(r)
    BY <1>3, OneRow DEF SaveFailed
  <1>4. CASE Reap(r)
    BY <1>4, OneRow DEF Reap
  <1> QED
    BY <1>1, <1>2, <1>3, <1>4
       DEF AcceptCanvas, AcceptBypass, Check, Enqueue, GrowOld, TryBypass, rowVars

LEMMA VerdictDelivery ==
  ASSUME VerdictInv, NEW r \in Requests, Take(r) \/ Ack(r) \/ TimeOut(r) \/ Crash(r)
  PROVE  VerdictInv'
  <1>1. CASE Take(r) /\ r \in Canvases
    <2> DEFINE run == [Nowhere EXCEPT !.at = "loop"]
    <2>1. /\ exec' = [exec EXCEPT ![r] = run] /\ UNCHANGED <<row, writes>>
          /\ tries' = [tries EXCEPT ![r] = tries[r] + 1]
      BY <1>1, OnDemandAssumption DEF Take
    <2>2. Orderly(run)
      BY NowhereIsTyped DEF Orderly, Settled, Nowhere, Untold, Shaped
    <2> HIDE DEF run
    <2>3. Agreed(run, row[r], writes[r], tries[r] + 1) /\ tries[r] + 1 \in Nat
      BY <1>1, AsBefore DEF Agreed
    <2>4. row' = [row EXCEPT ![r] = row[r]] /\ writes' = [writes EXCEPT ![r] = writes[r]]
      BY <2>1, AsBefore
    <2> QED
      BY <2>1, <2>2, <2>3, <2>4, OneVerdict
  <1>2. CASE Take(r) /\ r \notin Canvases
    <2>1. PICK run, display :
            /\ exec' = [exec EXCEPT ![r] = run] /\ Orderly(run)
            /\ row' = [row EXCEPT ![r] = display]
      <3>1. CASE UNCHANGED <<exec, row>>
        BY <3>1, AsBefore
      <3>2. CASE /\ exec' = [exec EXCEPT ![r] = [Nowhere EXCEPT !.at = "loop"]]
                 /\ SaveRow(r, "running", Untold)
        <4>1. Orderly([Nowhere EXCEPT !.at = "loop"])
          BY NowhereIsTyped DEF Orderly, Settled, Nowhere, Untold, Shaped
        <4> QED
          BY <3>2, <4>1 DEF SaveRow
      <3> QED
        BY <1>2, <3>1, <3>2 DEF Take, rowVars
    <2>2. UNCHANGED writes /\ tries' = [tries EXCEPT ![r] = tries[r] + 1]
      BY <1>2 DEF Take
    <2>3. writes' = [writes EXCEPT ![r] = writes[r]] /\ tries[r] + 1 \in Nat
      BY <2>2, AsBefore
    <2> QED
      BY <1>2, <2>1, <2>2, <2>3, OneVerdict
  <1>3. CASE Ack(r) \/ TimeOut(r) \/ Crash(r)
    <2>1. PICK under_way : /\ writes' = [writes EXCEPT ![r] = under_way]
                           /\ under_way \in {writes[r], {}}
      BY <1>3, AsBefore DEF Ack, TimeOut, Crash
    <2>2. exec' = [exec EXCEPT ![r] = Nowhere] /\ UNCHANGED <<row, tries>>
      BY <1>3 DEF Ack, TimeOut, Crash, rowVars
    <2>3. r \in Canvases => Agreed(Nowhere, row[r], under_way, tries[r])
      BY <2>1, AsBefore, NowhereIsOrderly DEF Agreed
    <2>4. row' = [row EXCEPT ![r] = row[r]] /\ tries' = [tries EXCEPT ![r] = tries[r]]
            /\ tries[r] \in Nat
      BY <2>2, AsBefore
    <2> QED
      BY <2>1, <2>2, <2>3, <2>4, NowhereIsOrderly, OneVerdict
  <1> QED
    BY <1>1, <1>2, <1>3

\* A write that lands says running.
LEMMA VerdictLand ==
  ASSUME VerdictInv, NEW r \in Requests, Land(r)
  PROVE  VerdictInv'
  <1>1. PICK display \in writes[r] :
          /\ writes' = [writes EXCEPT ![r] = writes[r] \ {display}]
          /\ row' = [row EXCEPT ![r] = [status |-> "running", nodes |-> display]]
    BY DEF Land, SaveRow
  <1>2. UNCHANGED <<exec, tries>>
    BY DEF Land
  <1>3. r \in Canvases => Agreed(exec[r], [status |-> "running", nodes |-> display],
                                 writes[r] \ {display}, tries[r])
    BY <1>1, AsBefore DEF Agreed
  <1> QED
    BY <1>1, <1>2, <1>3, AsBefore, OneVerdict

LEMMA VerdictClose ==
  ASSUME VerdictInv, NEW r \in Requests, Finish(r) \/ EndBypass(r)
  PROVE  VerdictInv'
  <1> DEFINE run == [exec[r] EXCEPT !.at = "ack"]
  <1>1. PICK status, nodes :
          /\ row' = [row EXCEPT ![r] = [status |-> status, nodes |-> nodes]]
          /\ r \in Canvases => nodes = exec[r].report
    BY OnDemandAssumption DEF Finish, EndBypass, Close, SaveRow
  <1>2. /\ exec' = [exec EXCEPT ![r] = run] /\ UNCHANGED <<writes, tries>>
        /\ exec[r].at = "loop"
    BY DEF Finish, EndBypass, Close
  <1>3. Orderly(run) /\ run.at = "ack"
    BY AsBefore DEF Orderly, Shaped
  <1> HIDE DEF run
  <1>4. r \in Canvases =>
          Agreed(run, [status |-> status, nodes |-> nodes], writes[r], tries[r])
    <2> SUFFICES ASSUME r \in Canvases
                 PROVE  Agreed(run, [status |-> status, nodes |-> nodes], writes[r], tries[r])
      OBVIOUS
    <2>1. Finish(r)
      BY OnDemandAssumption DEF EndBypass
    <2>2. writes[r] = {} /\ \A n \in Nodes : exec[r].report[n] \in Ended
      BY <1>2, <2>1, AsBefore DEF Finish, Remaining, Orderly, Settled
    <2>3. tries[r] # 0
      BY <1>2, AsBefore DEF Agreed
    <2> QED
      BY <1>1, <1>3, <2>2, <2>3 DEF Agreed
  <1>5. /\ writes' = [writes EXCEPT ![r] = writes[r]]
        /\ tries' = [tries EXCEPT ![r] = tries[r]] /\ tries[r] \in Nat
    BY <1>2, AsBefore
  <1> QED
    BY <1>1, <1>2, <1>3, <1>4, <1>5, OneVerdict

\* A node that begins or ends is told of while the row does not say success.
LEMMA VerdictEmit ==
  ASSUME VerdictInv, NEW r \in Requests, NEW run, Emit(r, run), Orderly(run),
         exec[r].at \in {"loop", "node"}, run.at \in {"loop", "node"}
  PROVE  VerdictInv'
  <1>1. /\ exec' = [exec EXCEPT ![r] = run] /\ UNCHANGED <<row, tries>>
        /\ writes' = [writes EXCEPT ![r] = writes[r] \cup {run.report}]
    BY DEF Emit, rowVars
  <1>2. r \in Canvases => Agreed(run, row[r], writes[r] \cup {run.report}, tries[r])
    BY AsBefore DEF Agreed
  <1>3. /\ row' = [row EXCEPT ![r] = row[r]]
        /\ tries' = [tries EXCEPT ![r] = tries[r]] /\ tries[r] \in Nat
    BY <1>1, AsBefore
  <1> QED
    BY <1>1, <1>2, <1>3, OneVerdict

LEMMA VerdictBegin ==
  ASSUME VerdictInv, NEW r \in Requests, BeginNode(r)
  PROVE  VerdictInv'
  <1> DEFINE n == Next1(r)
             skipped == [exec[r] EXCEPT !.report[n] = "skipped"]
             started == [exec[r] EXCEPT !.report[n] = "running", !.at = "node", !.node = n]
  <1> HIDE DEF n
  <1>1. exec[r].at = "loop" /\ (Emit(r, skipped) \/ Emit(r, started))
    BY DEF BeginNode, n
  <1>2. /\ Shaped(exec[r]) /\ \A m \in Nodes : Settled(exec[r], m)
    BY <1>1, AsBefore DEF Orderly
  <1>3. Orderly(skipped) /\ skipped.at = "loop"
    BY <1>1, <1>2 DEF Orderly, Shaped, Settled, Ended
  <1>4. Orderly(started) /\ started.at = "node"
    BY <1>1, <1>2 DEF Orderly, Shaped, Settled
  <1> HIDE DEF skipped, started
  <1> QED
    BY <1>1, <1>3, <1>4, VerdictEmit

LEMMA VerdictEnd ==
  ASSUME VerdictInv, NEW r \in Requests, EndNode(r)
  PROVE  VerdictInv'
  <1> DEFINE n == exec[r].node
  <1>1. exec[r].at = "node" /\ Shaped(exec[r]) /\ \A m \in Nodes \ {n} : Settled(exec[r], m)
    BY AsBefore DEF EndNode, Orderly
  <1>2. (\E hosts : Emit(r, Produce(r, n, hosts))) \/ Emit(r, FailNode(r))
    BY DEF EndNode, RunSource, RunUtility, RunOnProgram, RunFreeform
  <1>3. ASSUME NEW hosts, Emit(r, Produce(r, n, hosts))
        PROVE  VerdictInv'
    <2> DEFINE run == Produce(r, n, hosts)
    <2>1. /\ DOMAIN run = {"at", "report", "outputs", "node"} /\ run.at = "loop"
          /\ run.outputs = [exec[r].outputs EXCEPT ![n] = hosts]
          /\ run.report = [exec[r].report EXCEPT ![n] = "success"]
      BY <1>1 DEF Produce, Shaped
    <2> HIDE DEF run
    <2>2. Orderly(run)
      BY <1>1, <2>1 DEF Orderly, Shaped, Settled, Ended
    <2> QED
      BY <1>1, <1>3, <2>1, <2>2, VerdictEmit DEF run
  <1>4. CASE Emit(r, FailNode(r))
    <2> DEFINE run == FailNode(r)
    <2>1. /\ DOMAIN run = {"at", "report", "outputs", "node"} /\ run.at = "loop"
          /\ run.outputs = exec[r].outputs
          /\ run.report = [exec[r].report EXCEPT ![n] = "failed"]
      BY <1>1 DEF FailNode, Shaped
    <2> HIDE DEF run
    <2>2. Orderly(run)
      BY <1>1, <2>1 DEF Orderly, Shaped, Settled, Ended
    <2> QED
      BY <1>1, <1>4, <2>1, <2>2, VerdictEmit DEF run
  <1> QED
    BY <1>2, <1>3, <1>4

LEMMA NextVerdict == VerdictInv /\ [Next]_vars => VerdictInv'
  <1> SUFFICES ASSUME VerdictInv, [Next]_vars PROVE VerdictInv'
    OBVIOUS
  <1>1. CASE UNCHANGED vars
    BY <1>1, SameVerdict DEF vars, rowVars
  <1>2. CASE Change
    BY <1>2, SameVerdict DEF Change, rowVars
  <1>3. CASE Next
    BY <1>2, <1>3, VerdictApi, VerdictDelivery, VerdictLand, VerdictClose, VerdictBegin,
       VerdictEnd DEF Next
  <1> QED
    BY <1>1, <1>3

\* Once the row of a canvas says success, no progress write is left that would turn it
\* back, and it shows how each node ended (taskqueue/worker.py).
THEOREM VerdictStands == Spec => []VerdictIsLast
  <1>1. Init => VerdictInv
    BY InitVerdict
  <1>2. VerdictInv /\ [Next]_vars => VerdictInv'
    BY NextVerdict
  <1>3. VerdictInv => VerdictIsLast
    BY DEF VerdictInv, VerdictIsLast, Agreed
  <1> QED
    BY <1>1, <1>2, <1>3, PTL DEF Spec

-----------------------------------------------------------------------------
(* Runs by hand: the order of a canvas *)

\* One more node of the order
Later(seen) == IF Ready(seen) = {} THEN seen ELSE seen \cup {Min(Ready(seen))}

\* The smallest of some nodes is one of them.
LEMMA MinOfNodes ==
  ASSUME NEW S \in SUBSET Nodes, S # {}
  PROVE  Min(S) \in S
  <1>1. S \in SUBSET Nat
    BY OnDemandAssumption
  <1>2. \E n \in S : \A m \in S : n <= m
    BY <1>1, Least
  <1> QED
    BY <1>2 DEF Min

\* The order takes nodes.
LEMMA LaterNodes == \A seen \in SUBSET Nodes : Later(seen) \in SUBSET Nodes
  <1> SUFFICES ASSUME NEW seen \in SUBSET Nodes PROVE Later(seen) \in SUBSET Nodes
    OBVIOUS
  <1>1. Ready(seen) \in SUBSET Nodes
    BY DEF Ready
  <1> QED
    BY <1>1, MinOfNodes DEF Later

\* The order takes one node after another.
LEMMA TheOrder ==
  /\ First \in [Nat -> SUBSET Nodes] /\ First[0] = {}
  /\ \A k \in Nat : First[k + 1] = Later(First[k])
  <1> DEFINE M == SUBSET Nodes
             s == {}
             g == [seen \in M |-> Later(seen)]
  <1>1. s \in M /\ g \in [M -> M]
    BY LaterNodes
  <1>2. \A seen \in M : g[seen] = Later(seen)
    OBVIOUS
  <1>s. s = {}
    OBVIOUS
  <1> HIDE DEF g, M, s
  <1>3. PICK f \in [Nat -> M] : f[0] = s /\ \A k \in Nat : f[k + 1] = g[f[k]]
    BY <1>1, Iteration
  <1>4. \A k \in Nat : f[k + 1] = Later(f[k])
    BY <1>2, <1>3
  <1>5. f = [k \in Nat |-> IF k = 0 THEN {} ELSE Later(f[k - 1])]
    <2>1. \A k \in Nat \ {0} : k - 1 \in Nat /\ (k - 1) + 1 = k
      OBVIOUS
    <2>2. \A k \in Nat : f[k] = IF k = 0 THEN {} ELSE Later(f[k - 1])
      BY <1>3, <1>4, <1>s, <2>1
    <2> QED
      BY <1>3, <2>2
  <1>6. First = [k \in Nat |-> IF k = 0 THEN {} ELSE Later(First[k - 1])]
    BY <1>5 DEF First, Later
  <1>7. First[0] = {} /\ \A k \in Nat : First[k + 1] = Later(First[k])
    <2>1. \A k \in Nat : k + 1 # 0 /\ k + 1 \in Nat /\ (k + 1) - 1 = k
      OBVIOUS
    <2> QED
      BY <1>6, <2>1
  <1>8. \A k \in Nat : First[k] \in SUBSET Nodes
    <2> DEFINE T == {k \in Nat : First[k] \in SUBSET Nodes}
    <2>1. T \in SUBSET Nat /\ 0 \in T /\ \A k \in T : k + 1 \in T
      BY <1>7, LaterNodes
    <2> HIDE DEF T
    <2>2. T = Nat
      BY <2>1, Climb
    <2> QED
      BY <2>2 DEF T
  <1> QED
    BY <1>6, <1>7, <1>8

\* While a node of a valid canvas is left, one is ready.
LEMMA SomeNodeIsReady ==
  ASSUME validate, NEW seen \in SUBSET Nodes, seen # Nodes
  PROVE  Min(Ready(seen)) \in Ready(seen)
  <1>1. Ready(seen) # {}
    <2> SUFFICES ASSUME Ready(seen) = {} PROVE FALSE
      OBVIOUS
    <2> DEFINE T == {k \in Nat : First[k] \subseteq seen}
    <2>1. 0 \in T
      BY TheOrder
    <2>2. ASSUME NEW k \in T  PROVE k + 1 \in T
      <3>1. First[k] \subseteq seen /\ First[k] \in SUBSET Nodes /\ k \in Nat
            /\ First[k + 1] = Later(First[k])
        BY TheOrder
      <3>2. CASE Ready(First[k]) = {}
        BY <3>1, <3>2 DEF Later
      <3>3. CASE Ready(First[k]) # {}
        <4>1. Ready(First[k]) \in SUBSET Nodes
          BY DEF Ready
        <4>2. Min(Ready(First[k])) \in Ready(First[k])
          BY <3>3, <4>1, MinOfNodes
        <4>3. Min(Ready(First[k])) \in seen
          BY <3>1, <4>2 DEF Ready
        <4> QED
          BY <3>1, <3>3, <4>3 DEF Later
      <3> QED
        BY <3>2, <3>3
    <2>3. T \in SUBSET Nat
      OBVIOUS
    <2> HIDE DEF T
    <2>4. T = Nat
      BY <2>1, <2>2, <2>3, Climb
    <2>5. Cardinality(Nodes) \in Nat /\ First[Cardinality(Nodes)] = Nodes
      BY OnDemandAssumption, FS_CardinalityType DEF validate
    <2> QED
      BY <2>4, <2>5 DEF T
  <1>2. Ready(seen) \in SUBSET Nodes
    BY DEF Ready
  <1> QED
    BY <1>1, <1>2, MinOfNodes

-----------------------------------------------------------------------------
(* What a node is fed by, as a function of the edges *)

Before(edges, n) == {m \in Nodes : <<m, n>> \in edges}

WithFeeders(edges, S) == S \cup UNION {Before(edges, m) : m \in S}

Feeds(edges, n) == CHOOSE up : up = [k \in Nat |->
  IF k = 0 THEN Before(edges, n) ELSE WithFeeders(edges, up[k - 1])]

Above(edges, n) == Feeds(edges, n)[Cardinality(Nodes)]

\* Sources depends on nothing but the edges.
LEMMA SourcesAbove == \A n : Sources(n) = Above(graph.edges, n)
  BY DEF Sources, Above, Feeds, Upstream, Before, WithFeeders

\* There is a sequence of feeders.
LEMMA FeedsGo ==
  ASSUME NEW edges, NEW s \in SUBSET Nodes
  PROVE  \E f \in [Nat -> SUBSET Nodes] :
           f[0] = s /\ \A k \in Nat : f[k + 1] = WithFeeders(edges, f[k])
  <1> DEFINE M == SUBSET Nodes
             g == [S \in M |-> WithFeeders(edges, S)]
  <1>1. s \in M /\ g \in [M -> M]
    BY DEF WithFeeders, Before
  <1>2. \A S \in M : g[S] = WithFeeders(edges, S)
    OBVIOUS
  <1> HIDE DEF g, M
  <1>3. PICK f \in [Nat -> M] : f[0] = s /\ \A k \in Nat : f[k + 1] = g[f[k]]
    BY <1>1, Iteration
  <1>4. \A k \in Nat : f[k + 1] = WithFeeders(edges, f[k])
    BY <1>2, <1>3
  <1> QED
    BY <1>3, <1>4 DEF M

\* Each step adds what feeds a member.
LEMMA FeedsSteps ==
  ASSUME NEW edges, NEW n
  PROVE  /\ Feeds(edges, n) \in [Nat -> SUBSET Nodes]
         /\ Feeds(edges, n)[0] = Before(edges, n)
         /\ \A k \in Nat : Feeds(edges, n)[k + 1] = WithFeeders(edges, Feeds(edges, n)[k])
  <1> DEFINE p == Feeds(edges, n)
             s == Before(edges, n)
  <1>1. s \in SUBSET Nodes
    BY DEF Before
  <1> HIDE DEF s
  <1>2. PICK f \in [Nat -> SUBSET Nodes] :
          f[0] = s /\ \A k \in Nat : f[k + 1] = WithFeeders(edges, f[k])
    BY <1>1, FeedsGo
  <1>3. f = [k \in Nat |-> IF k = 0 THEN s ELSE WithFeeders(edges, f[k - 1])]
    <2>1. \A k \in Nat \ {0} : k - 1 \in Nat /\ (k - 1) + 1 = k
      OBVIOUS
    <2>2. \A k \in Nat : f[k] = IF k = 0 THEN s ELSE WithFeeders(edges, f[k - 1])
      BY <1>2, <2>1
    <2> QED
      BY <1>2, <2>2
  <1>4. Feeds(edges, n) = [k \in Nat |-> IF k = 0 THEN Before(edges, n)
                                         ELSE WithFeeders(edges, Feeds(edges, n)[k - 1])]
    <2>1. \E up : up = [k \in Nat |-> IF k = 0 THEN Before(edges, n)
                                       ELSE WithFeeders(edges, up[k - 1])]
      BY <1>3 DEF s
    <2> QED
      BY <2>1 DEF Feeds
  <1>p. p = [k \in Nat |-> IF k = 0 THEN s ELSE WithFeeders(edges, p[k - 1])]
    BY <1>4 DEF s
  <1> HIDE DEF p
  <1>5. p[0] = s /\ \A k \in Nat : p[k + 1] = WithFeeders(edges, p[k])
    <2>1. \A k \in Nat : k + 1 # 0 /\ k + 1 \in Nat /\ (k + 1) - 1 = k
      OBVIOUS
    <2> QED
      BY <1>p, <2>1
  <1>6. \A k \in Nat : p[k] \in SUBSET Nodes
    <2> DEFINE T == {k \in Nat : p[k] \in SUBSET Nodes}
    <2>1. \A S \in SUBSET Nodes : WithFeeders(edges, S) \in SUBSET Nodes
      BY DEF WithFeeders, Before
    <2>2. T \in SUBSET Nat /\ 0 \in T /\ \A k \in T : k + 1 \in T
      BY <1>1, <1>5, <2>1
    <2> HIDE DEF T
    <2>3. T = Nat
      BY <2>2, Climb
    <2> QED
      BY <2>3 DEF T
  <1>7. p \in [Nat -> SUBSET Nodes]
    BY <1>p, <1>6
  <1> QED
    BY <1>5, <1>7 DEF p, s

\* Above finds the least set that holds what feeds the node and whatever feeds a member.
LEMMA AboveIsLeast ==
  ASSUME NEW edges, NEW n
  PROVE  /\ Above(edges, n) \subseteq Nodes
         /\ Before(edges, n) \subseteq Above(edges, n)
         /\ \A m \in Above(edges, n) : Before(edges, m) \subseteq Above(edges, n)
         /\ \A X : Before(edges, n) \subseteq X /\ (\A m \in X : Before(edges, m) \subseteq X)
                     => Above(edges, n) \subseteq X
  <1> DEFINE p == Feeds(edges, n)
             N == Cardinality(Nodes)
  <1>1. /\ p \in [Nat -> SUBSET Nodes] /\ p[0] = Before(edges, n)
        /\ \A k \in Nat : p[k + 1] = WithFeeders(edges, p[k])
    BY FeedsSteps
  <1>2. Above(edges, n) = p[N]
    BY DEF Above
  <1> HIDE DEF p
  <1>3. N \in Nat /\ p[N + 1] = p[N]
    <2>1. IsFiniteSet(Nodes)
      BY OnDemandAssumption
    <2>2. \A k \in Nat : p[k] \subseteq p[k + 1]
      BY <1>1 DEF WithFeeders
    <2>3. \A k \in Nat, l \in Nat : p[k] = p[l] => p[k + 1] = p[l + 1]
      BY <1>1
    <2> QED
      BY <1>1, <2>1, <2>2, <2>3, Grows
  <1> HIDE DEF N
  <1>4. ASSUME NEW T \in SUBSET Nat, 0 \in T, \A k \in T : k + 1 \in T  PROVE N \in T
    BY <1>3, <1>4, Climb
  <1>5. Before(edges, n) \subseteq p[N]
    <2> DEFINE T == {k \in Nat : Before(edges, n) \subseteq p[k]}
    <2>1. T \in SUBSET Nat /\ 0 \in T /\ \A k \in T : k + 1 \in T
      BY <1>1 DEF WithFeeders
    <2> HIDE DEF T
    <2>2. N \in T
      BY <1>4, <2>1
    <2> QED
      BY <2>2 DEF T
  <1>6. \A m \in p[N] : Before(edges, m) \subseteq p[N]
    BY <1>1, <1>3 DEF WithFeeders
  <1>7. ASSUME NEW X, Before(edges, n) \subseteq X, \A m \in X : Before(edges, m) \subseteq X
        PROVE  p[N] \subseteq X
    <2> DEFINE T == {k \in Nat : p[k] \subseteq X}
    <2>1. 0 \in T
      BY <1>1, <1>7
    <2>2. ASSUME NEW k \in T  PROVE k + 1 \in T
      <3>1. p[k + 1] = WithFeeders(edges, p[k]) /\ p[k] \subseteq X /\ k + 1 \in Nat
        BY <1>1
      <3>2. WithFeeders(edges, p[k]) \subseteq X
        BY <1>7, <3>1 DEF WithFeeders
      <3> QED
        BY <3>1, <3>2
    <2>3. T \in SUBSET Nat
      OBVIOUS
    <2> HIDE DEF T
    <2>4. N \in T
      BY <1>4, <2>1, <2>2, <2>3
    <2> QED
      BY <2>4 DEF T
  <1>8. p[N] \subseteq Nodes
    BY <1>1, <1>3
  <1> QED
    BY <1>2, <1>5, <1>6, <1>7, <1>8

\* What feeds a node, near or far, is what feeds it straight and what feeds that.
LEMMA AboveUnfolds ==
  ASSUME NEW edges, NEW n
  PROVE  /\ \A m \in Before(edges, n) :
              m \in Above(edges, n) /\ Above(edges, m) \subseteq Above(edges, n)
         /\ \A x \in Above(edges, n) :
              x \in Before(edges, n) \/ \E m \in Before(edges, n) : x \in Above(edges, m)
  <1>1. \A o : /\ Before(edges, o) \subseteq Above(edges, o)
               /\ \A m \in Above(edges, o) : Before(edges, m) \subseteq Above(edges, o)
               /\ \A X : /\ Before(edges, o) \subseteq X
                         /\ \A m \in X : Before(edges, m) \subseteq X
                         => Above(edges, o) \subseteq X
    BY AboveIsLeast
  <1>2. ASSUME NEW m \in Before(edges, n)
        PROVE  m \in Above(edges, n) /\ Above(edges, m) \subseteq Above(edges, n)
    <2>1. m \in Above(edges, n)
      BY <1>1
    <2>2. Before(edges, m) \subseteq Above(edges, n)
      BY <1>1, <2>1
    <2> QED
      BY <1>1, <2>1, <2>2
  <1>3. ASSUME NEW x \in Above(edges, n)
        PROVE  x \in Before(edges, n) \/ \E m \in Before(edges, n) : x \in Above(edges, m)
    <2> DEFINE X == Before(edges, n) \cup UNION {Above(edges, m) : m \in Before(edges, n)}
    <2>1. Before(edges, n) \subseteq X
      OBVIOUS
    <2>2. ASSUME NEW y \in X  PROVE Before(edges, y) \subseteq X
      <3>1. CASE y \in Before(edges, n)
        BY <1>1, <3>1
      <3>2. CASE \E m \in Before(edges, n) : y \in Above(edges, m)
        BY <1>1, <3>2
      <3> QED
        BY <3>1, <3>2
    <2>3. x \in X
      <3> HIDE DEF X
      <3> QED
        BY <1>1, <2>1, <2>2
    <2> QED
      BY <2>3
  <1> QED
    BY <1>2, <1>3

-----------------------------------------------------------------------------
(* What a run has told of its nodes *)

\* A node is skipped only if something it is fed by failed, and begun only after all of it
\* succeeded.
Told(edges, report, n) ==
  /\ report[n] = "skipped" => \E m \in Above(edges, n) : report[m] = "failed"
  /\ report[n] \in {"running", "success"} => \A m \in Above(edges, n) : report[m] = "success"

\* One node runs while the run is at it, and none between two nodes.
Placed(run) ==
  /\ DOMAIN run = {"at", "report", "outputs", "node"}
  /\ run.report \in [Nodes -> {"none", "running"} \cup Ended]
  /\ run.at = "loop" => \A n \in Nodes : run.report[n] # "running"
  /\ run.at = "node" => /\ run.node \in Nodes /\ run.report[run.node] = "running"
                        /\ \A n \in Nodes \ {run.node} : run.report[n] # "running"

Reported(edges, run) == Placed(run) /\ \A n \in Nodes : Told(edges, run.report, n)

\* Only a canvas that is valid gets to a worker.
Unheard(r) == api[r] \in {"new", "never"} /\ r \notin queue /\ exec[r].at = "idle"

BelowInv ==
  /\ DOMAIN exec = Requests /\ DOMAIN api = Requests
  /\ validate \/ \A r \in Canvases : Unheard(r)
  /\ \A r \in Canvases : Reported(graph.edges, exec[r])

\* A run that has not begun, or just begun, has told nothing.
LEMMA NothingToldYet ==
  ASSUME NEW edges, NEW at \in {"idle", "loop"}
  PROVE  Reported(edges, [Nowhere EXCEPT !.at = at]) /\ Reported(edges, Nowhere)
  BY DEF Reported, Placed, Told, Nowhere, Untold, Ended

\* The initial states satisfy the invariant.
LEMMA InitBelow == Init => BelowInv
  <1> SUFFICES ASSUME Init PROVE BelowInv
    OBVIOUS
  <1>1. DOMAIN exec = Requests /\ DOMAIN api = Requests
    BY DEF Init
  <1>2. \A r \in Canvases : exec[r] = Nowhere /\ api[r] \in {"new", "never"} /\ r \notin queue
    BY DEF Init, Requests
  <1>3. \A r \in Canvases : Unheard(r)
    BY <1>2 DEF Unheard, Nowhere
  <1>4. \A r \in Canvases : Reported(graph.edges, exec[r])
    BY <1>2, NothingToldYet
  <1> QED
    BY <1>1, <1>3, <1>4 DEF BelowInv

\* Whether a canvas is valid depends on nothing but the canvas.
LEMMA ValidStays == UNCHANGED graph => validate' = validate
  BY DEF validate, First, Ready, Upstream

\* Nobody draws a canvas anew.
LEMMA SameGraph == [Next]_vars => UNCHANGED graph
  BY DEF Next, vars, apiVars, AcceptCanvas, AcceptBypass, Check, SaveQueued, Enqueue, SaveFailed,
         Take, BeginNode, EndNode, Emit, RunSource, RunUtility, RunOnProgram, RunFreeform, Land,
         Finish, Close, TryBypass, EndBypass, Ack, TimeOut, Crash, GrowOld, Reap, Change

\* A step about one request, which its run tells of
LEMMA OneBelow ==
  ASSUME BelowInv, NEW r \in Requests, NEW run, exec' = [exec EXCEPT ![r] = run],
         UNCHANGED graph, DOMAIN api' = Requests,
         \A o \in Requests \ {r} : api'[o] = api[o] /\ (o \in queue' <=> o \in queue),
         r \in Canvases => Reported(graph.edges, run) /\ ~Unheard(r)
  PROVE  BelowInv'
  <1>1. DOMAIN exec' = Requests
    BY DEF BelowInv
  <1>2. ASSUME NEW o \in Canvases
        PROVE  Reported(graph.edges, exec'[o])
    BY DEF BelowInv, Requests
  <1>3. validate \/ \A o \in Canvases : Unheard(o)'
    <2>1. CASE r \in Canvases
      BY <2>1 DEF BelowInv
    <2>2. CASE r \notin Canvases
      BY <2>2 DEF BelowInv, Unheard, Requests
    <2> QED
      BY <2>1, <2>2
  <1> QED
    BY <1>1, <1>2, <1>3, ValidStays DEF BelowInv

\* A step that no run tells of
LEMMA NoneBelow ==
  ASSUME BelowInv, UNCHANGED <<exec, graph>>, DOMAIN api' = Requests,
         validate \/ \A o \in Canvases : api'[o] = api[o] /\ (o \in queue' <=> o \in queue)
  PROVE  BelowInv'
  <1>1. validate \/ \A o \in Canvases : Unheard(o)'
    BY DEF BelowInv, Unheard
  <1> QED
    BY <1>1, ValidStays DEF BelowInv

\* What the API and the reaper do tells nothing of a node.
LEMMA BelowApi ==
  ASSUME BelowInv, NEW r \in Requests, UNCHANGED graph,
         \/ AcceptCanvas(r) \/ AcceptBypass(r) \/ SaveQueued(r) \/ Enqueue(r) \/ SaveFailed(r)
         \/ GrowOld(r) \/ Reap(r) \/ Land(r) \/ (\E e \in Endpoints : TryBypass(r, e))
  PROVE  BelowInv'
  <1>1. UNCHANGED exec
    BY DEF AcceptCanvas, AcceptBypass, Check, SaveQueued, Enqueue, SaveFailed, GrowOld, Reap,
           Land, TryBypass
  <1>2. /\ DOMAIN api' = Requests
        /\ \A o \in Requests \ {r} : api'[o] = api[o] /\ (o \in queue' <=> o \in queue)
    BY DEF AcceptCanvas, AcceptBypass, Check, SaveQueued, Enqueue, SaveFailed, GrowOld, Reap,
           Land, TryBypass, apiVars, BelowInv
  <1>3. \/ validate \/ r \notin Canvases \/ UNCHANGED <<api, queue>>
    <2>1. CASE AcceptCanvas(r) \/ AcceptBypass(r)
      BY <2>1, OnDemandAssumption DEF AcceptCanvas, AcceptBypass
    <2>2. CASE SaveQueued(r) \/ Enqueue(r) \/ SaveFailed(r)
      BY <2>2 DEF SaveQueued, Enqueue, SaveFailed, BelowInv, Unheard
    <2> QED
      BY <2>1, <2>2 DEF GrowOld, Reap, Land, TryBypass, apiVars
  <1> QED
    BY <1>1, <1>2, <1>3, NoneBelow DEF Requests

\* A delivery begins anew, and the end of a run tells nothing new.
LEMMA BelowDelivery ==
  ASSUME BelowInv, NEW r \in Requests, UNCHANGED graph,
         Take(r) \/ Ack(r) \/ TimeOut(r) \/ Crash(r) \/ Finish(r) \/ EndBypass(r)
  PROVE  BelowInv'
  <1>1. /\ DOMAIN api' = Requests
        /\ \A o \in Requests \ {r} : api'[o] = api[o] /\ (o \in queue' <=> o \in queue)
    BY DEF Take, Ack, TimeOut, Crash, Finish, EndBypass, Close, apiVars, BelowInv
  <1>2. r \in Canvases => ~Unheard(r)
    BY OnDemandAssumption DEF Take, Ack, TimeOut, Crash, Finish, EndBypass, Working, Unheard
  <1>3. CASE UNCHANGED exec
    <2>1. r \in Canvases => validate
      BY <1>2 DEF BelowInv
    <2> QED
      BY <1>1, <1>3, <2>1, NoneBelow DEF Requests
  <1>4. CASE exec' = [exec EXCEPT ![r] = [Nowhere EXCEPT !.at = "loop"]]
    BY <1>1, <1>2, <1>4, NothingToldYet, OneBelow
  <1>5. CASE exec' = [exec EXCEPT ![r] = Nowhere]
    BY <1>1, <1>2, <1>5, NothingToldYet, OneBelow
  <1>6. CASE exec' = [exec EXCEPT ![r].at = "ack"]
    <2> DEFINE run == [exec[r] EXCEPT !.at = "ack"]
    <2>1. r \in Canvases => Placed(exec[r]) /\ \A n \in Nodes : Told(graph.edges, exec[r].report, n)
      BY DEF BelowInv, Reported
    <2>2. r \in Canvases =>
            /\ DOMAIN run = {"at", "report", "outputs", "node"}
            /\ run.report = exec[r].report /\ run.at = "ack"
      BY <2>1 DEF Placed
    <2>3. exec' = [exec EXCEPT ![r] = run]
      BY <1>6
    <2> HIDE DEF run
    <2>4. r \in Canvases => Reported(graph.edges, run)
      BY <2>1, <2>2 DEF Reported, Placed
    <2> QED
      BY <1>1, <1>2, <2>3, <2>4, OneBelow
  <1> QED
    BY <1>3, <1>4, <1>5, <1>6 DEF Take, Ack, TimeOut, Crash, Finish, EndBypass, Close

\* A node that is skipped has a failed one above it, and when a node begins all above it
\* have succeeded: the loop takes no node before those that feed it.
LEMMA BelowBegin ==
  ASSUME BelowInv, NEW r \in Requests, BeginNode(r), UNCHANGED graph
  PROVE  BelowInv'
  <1> DEFINE E == graph.edges
             told == exec[r].report
             seen == {m \in Nodes : told[m] \in Ended}
             n == Next1(r)
             skipped == [exec[r] EXCEPT !.report[n] = "skipped"]
             started == [exec[r] EXCEPT !.report[n] = "running", !.at = "node", !.node = n]
  <1>1. /\ r \in Canvases /\ exec[r].at = "loop" /\ Remaining(r) /\ ~Unheard(r)
        /\ Emit(r, IF Blocked(r, n) THEN skipped ELSE started)
    BY DEF BeginNode, Unheard
  <1>2. validate /\ Placed(exec[r]) /\ \A m \in Nodes : Told(E, told, m)
    BY <1>1 DEF BelowInv, Reported
  <1>3. n \in Ready(seen)
    <2>1. seen # Nodes /\ seen \in SUBSET Nodes
      BY <1>1 DEF Remaining, Ended
    <2>2. n = Min(Ready(seen))
      BY DEF Next1
    <2> HIDE DEF seen, n
    <2> QED
      BY <1>2, <2>1, <2>2, SomeNodeIsReady
  <1> HIDE DEF n
  <1>4. /\ DOMAIN skipped = {"at", "report", "outputs", "node"} /\ skipped.at = "loop"
        /\ skipped.report = [told EXCEPT ![n] = "skipped"]
        /\ DOMAIN started = {"at", "report", "outputs", "node"} /\ started.at = "node"
        /\ started.report = [told EXCEPT ![n] = "running"] /\ started.node = n
    BY <1>1, <1>2 DEF Placed
  <1>5. /\ n \in Nodes /\ told \in [Nodes -> {"none", "running"} \cup Ended]
        /\ \A m \in Nodes : told[m] # "running"
        /\ told[n] = "none" /\ \A m \in Before(E, n) : told[m] \in Ended
    BY <1>1, <1>2, <1>3 DEF Ready, Placed, Upstream, Before, Ended
  <1>6. Blocked(r, n) <=> \E m \in Before(E, n) : told[m] \in {"failed", "skipped"}
    BY DEF Blocked, Upstream, Before
  <1>7. /\ \A m \in Nodes : Above(E, m) \subseteq Nodes
        /\ \A m \in Before(E, n) : m \in Above(E, n) /\ Above(E, m) \subseteq Above(E, n)
        /\ \A x \in Above(E, n) :
             x \in Before(E, n) \/ \E m \in Before(E, n) : x \in Above(E, m)
    BY AboveIsLeast, AboveUnfolds
  <1>8. Before(E, n) \subseteq Nodes
    BY DEF Before
  <1>9. UNCHANGED <<api, queue>>
    BY <1>1 DEF Emit, apiVars
  <1> HIDE DEF seen, skipped, started, told, E
  <1>10. CASE Blocked(r, n)
    <2>1. PICK m \in Above(E, n) : told[m] = "failed"
      <3>1. PICK k \in Before(E, n) : told[k] \in {"failed", "skipped"}
        BY <1>6, <1>10
      <3>2. CASE told[k] = "failed"
        BY <1>7, <3>2
      <3>3. CASE told[k] = "skipped"
        BY <1>2, <1>7, <1>8, <3>3 DEF Told
      <3> QED
        BY <3>1, <3>2, <3>3
    <2>2. ASSUME NEW o \in Nodes  PROVE Told(E, skipped.report, o)
      <3>1. CASE o = n
        BY <1>4, <1>5, <1>7, <2>1, <3>1 DEF Told
      <3>2. CASE o # n
        BY <1>2, <1>4, <1>5, <1>7, <3>2 DEF Told
      <3> QED
        BY <3>1, <3>2
    <2>3. Placed(skipped)
      BY <1>4, <1>5 DEF Placed, Ended
    <2>4. exec' = [exec EXCEPT ![r] = skipped]
      BY <1>1, <1>10 DEF Emit
    <2> QED
      BY <1>1, <1>9, <2>2, <2>3, <2>4, OneBelow DEF Reported, E, BelowInv
  <1>11. CASE ~Blocked(r, n)
    <2>1. \A m \in Before(E, n) : told[m] = "success"
      BY <1>5, <1>6, <1>11 DEF Ended
    <2>2. \A m \in Above(E, n) : told[m] = "success"
      BY <1>2, <1>7, <1>8, <2>1 DEF Told
    <2>3. ASSUME NEW o \in Nodes  PROVE Told(E, started.report, o)
      <3>1. CASE o = n
        BY <1>4, <1>5, <1>7, <2>2, <3>1 DEF Told
      <3>2. CASE o # n
        BY <1>2, <1>4, <1>5, <1>7, <3>2 DEF Told
      <3> QED
        BY <3>1, <3>2
    <2>4. Placed(started)
      BY <1>4, <1>5 DEF Placed, Ended
    <2>5. exec' = [exec EXCEPT ![r] = started]
      BY <1>1, <1>11 DEF Emit
    <2> QED
      BY <1>1, <1>9, <2>3, <2>4, <2>5, OneBelow DEF Reported, E, BelowInv
  <1> QED
    BY <1>10, <1>11

\* What a node that runs becomes, nobody below it has counted on.
LEMMA BelowEnd ==
  ASSUME BelowInv, NEW r \in Requests, EndNode(r), UNCHANGED graph
  PROVE  BelowInv'
  <1> DEFINE E == graph.edges
             told == exec[r].report
             n == exec[r].node
  <1>1. PICK run :
          /\ Emit(r, run) /\ exec[r].at = "node"
          /\ run = FailNode(r) \/ \E hosts : run = Produce(r, n, hosts)
    BY DEF EndNode, RunSource, RunUtility, RunOnProgram, RunFreeform
  <1>2. exec' = [exec EXCEPT ![r] = run] /\ UNCHANGED <<api, queue>>
    BY <1>1 DEF Emit, apiVars
  <1>3. r \in Canvases => Reported(E, run)
    <2> SUFFICES ASSUME r \in Canvases PROVE Reported(E, run)
      OBVIOUS
    <2>1. Placed(exec[r]) /\ \A m \in Nodes : Told(E, told, m)
      BY DEF BelowInv, Reported
    <2>2. PICK status \in {"success", "failed"} :
            /\ DOMAIN run = {"at", "report", "outputs", "node"} /\ run.at = "loop"
            /\ run.report = [told EXCEPT ![n] = status]
      BY <1>1, <2>1 DEF FailNode, Produce, Placed
    <2>3. /\ n \in Nodes /\ told[n] = "running"
          /\ \A m \in Nodes \ {n} : told[m] # "running"
          /\ told \in [Nodes -> {"none", "running"} \cup Ended]
      BY <1>1, <2>1 DEF Placed
    <2>4. \A m \in Nodes : Above(E, m) \subseteq Nodes
      BY AboveIsLeast
    <2> HIDE DEF told, n, E
    <2>5. Placed(run)
      BY <2>2, <2>3 DEF Placed, Ended
    <2>6. ASSUME NEW o \in Nodes  PROVE Told(E, run.report, o)
      <3>1. CASE o = n
        BY <2>1, <2>2, <2>3, <2>4, <3>1 DEF Told
      <3>2. CASE o # n
        BY <2>1, <2>2, <2>3, <2>4, <3>2 DEF Told
      <3> QED
        BY <3>1, <3>2
    <2> QED
      BY <2>5, <2>6 DEF Reported
  <1>4. ~Unheard(r)
    BY <1>1 DEF Unheard
  <1> QED
    BY <1>2, <1>3, <1>4, OneBelow DEF BelowInv

\* Every step keeps the invariant.
LEMMA NextBelow == BelowInv /\ [Next]_vars => BelowInv'
  <1> SUFFICES ASSUME BelowInv, [Next]_vars PROVE BelowInv'
    OBVIOUS
  <1>1. CASE UNCHANGED vars
    BY <1>1, NoneBelow DEF vars, apiVars, BelowInv
  <1>2. CASE Change
    BY <1>2, NoneBelow DEF Change, BelowInv
  <1>3. CASE Next
    BY <1>2, <1>3, SameGraph, BelowApi, BelowDelivery, BelowBegin, BelowEnd DEF Next
  <1> QED
    BY <1>1, <1>3

\* In any canvas and whatever fails, a node is skipped only below a failed one, and begins
\* or succeeds only if all that feeds it, near or far, succeeded (pipelines/playground.py:
\* run_workflow).
THEOREM FailuresStayBelow == Spec => []FailureStaysBelow
  <1>1. Init => BelowInv
    BY InitBelow
  <1>2. BelowInv /\ [Next]_vars => BelowInv'
    BY NextBelow
  <1>3. BelowInv => FailureStaysBelow
    BY SourcesAbove DEF BelowInv, Reported, Told, FailureStaysBelow
  <1> QED
    BY <1>1, <1>2, <1>3, PTL DEF Spec
=============================================================================
