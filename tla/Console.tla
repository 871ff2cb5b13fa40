-------------------------------- MODULE Console --------------------------------
(***************************************************************************)
(* What people do through the API besides scanning: an owner keeps members  *)
(* and their groups, members and their keys make requests, a domain is      *)
(* verified and authorized, a program is deleted, modules are switched.     *)
(*                                                                         *)
(* A request reads and writes in several steps, and others do so between.   *)
(* The three concerns share nothing; ConsoleInit picks the one looked at.   *)
(***************************************************************************)
EXTENDS Modules

CONSTANTS
  Slots,       \* requests in flight
  Members, Groups, Keys,
  DefaultGroup,
  Programs,
  MaxRequests, \* bound on the requests that change something
  MaxTokens,   \* bound on the challenges of a program
  Nobody

Permissions == {"view", "programs.manage", "settings.manage"}
SCOPE_REQUIRES ==
  [s \in {"read", "scans:run", "settings:write"} |->
     CASE s = "read" -> "view" [] s = "scans:run" -> "programs.manage"
       [] s = "settings:write" -> "settings.manage"]
Scopes == DOMAIN SCOPE_REQUIRES

ASSUME ConsoleAssumption ==
  /\ DefaultGroup \in Groups /\ Nobody \notin Members \cup Keys
  /\ Members \cap Keys = {}
  /\ MaxRequests \in Nat /\ MaxTokens \in Nat

VARIABLES
  concern,  \* "people", "programs" or "modules"
  begun,    \* requests so far
  req,      \* per slot: the request, how far it is and what it has read
  member,   \* the groups of a member, or New, or Gone
  group,    \* the permissions of a group, or New, or Gone
  key,      \* [state, by, scopes]
  window,   \* history, per slot: groups of who asks, and permissions of groups, meanwhile
  program,  \* [there, token, verified]
  authorizations, apex,  \* the records of authorization; the token that the domain shows
  proven,   \* history: programs whose own challenge was found
  enabled, disabled  \* modules that a program switched on and off

people == <<member, group, key, window>>
programs == <<program, authorizations, apex, proven>>
modules == <<enabled, disabled>>
consoleVars == <<concern, begun, req, people, programs, modules>>

New == {"new"}
Gone == {"gone"}
There(x) == x \notin {New, Gone}
NoRequest == [op |-> "none", at |-> "idle", id |-> Nobody, set |-> {}, read |-> {}]

Free(s) == req[s].at = "idle"
Begin(s, op, at, id, set, read) ==
  /\ Free(s) /\ begun < MaxRequests /\ begun' = begun + 1
  /\ req' = [req EXCEPT ![s] = [op |-> op, at |-> at, id |-> id, set |-> set, read |-> read]]
At(s, op, at) == req[s].op = op /\ req[s].at = at
Move(s, at, read) == req' = [req EXCEPT ![s].at = at, ![s].read = read]
Done(s) == req' = [req EXCEPT ![s] = NoRequest]

-----------------------------------------------------------------------------
(* Who may do what *)

\* Managing implies viewing.
normalise_permissions(ps) == ps \cup IF ps \ {"view"} # {} THEN {"view"} ELSE {}

Held(gs) == UNION {group[g] : g \in {h \in gs : There(group[h])}}

allowed_scopes_for(ps) == {s \in Scopes : SCOPE_REQUIRES[s] \in ps}

\* A mutant: a key keeps the scopes that it was made with.
scopes_as_made(wanted, ps) == wanted

\* Never more than the creator has now
normalise_scopes(wanted, ps) ==
  (wanted \cap allowed_scopes_for(ps)) \cup IF "view" \in ps THEN {"read"} ELSE {}

\* Only the groups of a user that is there count, whatever his token says.
GroupsOf(m) == IF There(member[m]) THEN member[m] ELSE {}

\* What the history collects of a slot, of what there is after a step
Collect(s) ==
  IF req'[s].at = "idle" THEN [in |-> {}, has |-> {}]
  ELSE [in |-> window[s].in \cup
               UNION {IF member'[m] \in {New, Gone} THEN {} ELSE member'[m] :
                      m \in Members \cap {IF req'[s].id \in Keys THEN key'[req'[s].id].by
                                          ELSE req'[s].id}},
        has |-> window[s].has \cup
                {p \in Groups \X Permissions : p[2] \in group'[p[1]]}]

-----------------------------------------------------------------------------
(* Members, groups and keys *)

\* get_principal: the key, then the user, then his groups.
AskAsMember(s) ==
  /\ \E m \in Members : Begin(s, "use", "user", m, Scopes, {})
  /\ UNCHANGED <<member, group, key>>

AskWithKey(s) ==
  /\ \E k \in Keys : key[k].state = "live" /\ Begin(s, "use", "user", k, key[k].scopes, {})
  /\ UNCHANGED <<member, group, key>>

Asker(s) == IF req[s].id \in Keys THEN key[req[s].id].by ELSE req[s].id

ReadUser(s) ==
  /\ At(s, "use", "user") /\ Move(s, "groups", GroupsOf(Asker(s)))
  /\ UNCHANGED <<begun, member, group, key>>

Resolve(s) ==
  /\ At(s, "use", "groups")
  /\ LET ps == normalise_permissions(Held(req[s].read)) IN
       req' = [req EXCEPT ![s].at = "served", ![s].read = ps,
                          ![s].set = IF req[s].id \in Keys THEN normalise_scopes(@, ps) ELSE @]
  /\ UNCHANGED <<begun, member, group, key>>

Served(s) == At(s, "use", "served") /\ Done(s) /\ UNCHANGED <<begun, member, group, key>>

\* A person who may manage settings makes a key, with scopes that he has.
CreateKey(s) ==
  /\ At(s, "use", "served") /\ req[s].id \in Members /\ "settings.manage" \in req[s].read
  /\ \E k \in Keys, wanted \in SUBSET Scopes :
       /\ key[k].state = "none"
       /\ key' = [key EXCEPT ![k] = [state |-> "live", by |-> req[s].id,
                                     scopes |-> normalise_scopes(wanted, req[s].read)]]
  /\ Done(s) /\ UNCHANGED <<begun, member, group>>

RevokeKey ==
  /\ \E k \in Keys : key[k].state = "live" /\ key' = [key EXCEPT ![k].state = "revoked"]
  /\ UNCHANGED <<begun, req, member, group>>

\* The owner's requests.  A member is created or moved after its groups were looked up.
BeginMember(s) ==
  /\ \E m \in Members, gs \in SUBSET Groups :
       /\ member[m] # Gone /\ \A g \in gs : There(group[g])
       /\ Begin(s, IF There(member[m]) THEN "set_groups" ELSE "create", "write", m, gs, {})
  /\ UNCHANGED <<member, group, key>>

SetMemberGroups(s) ==
  /\ At(s, "set_groups", "write") /\ Done(s)
  /\ member' = [member EXCEPT ![req[s].id] = IF There(@) THEN req[s].set ELSE @]
  /\ UNCHANGED <<begun, group, key>>

CreateMember(s) ==
  /\ At(s, "create", "write") /\ Done(s)
  /\ member' = [member EXCEPT ![req[s].id] = IF @ = New THEN req[s].set ELSE @]
  /\ UNCHANGED <<begun, group, key>>

DeleteMember(s) ==
  /\ \E m \in Members : There(member[m]) /\ member' = [member EXCEPT ![m] = Gone]
  /\ UNCHANGED <<begun, req, group, key>>

CreateGroup ==
  /\ \E g \in Groups, ps \in SUBSET Permissions :
       group[g] = New /\ group' = [group EXCEPT ![g] = normalise_permissions(ps)]
  /\ UNCHANGED <<begun, req, member, key>>

\* A save inserts a group that has gone meanwhile.
BeginUpdateGroup(s) ==
  /\ \E g \in Groups, ps \in SUBSET Permissions :
       There(group[g]) /\ Begin(s, "update_group", "write", g, normalise_permissions(ps), {})
  /\ UNCHANGED <<member, group, key>>

SaveGroup(s) ==
  /\ At(s, "update_group", "write") /\ Done(s)
  /\ group' = [group EXCEPT ![req[s].id] = req[s].set]
  /\ UNCHANGED <<begun, member, key>>

\* delete_group lists the users and takes the group from each, as it was in the list.
BeginDeleteGroup(s) ==
  /\ \E g \in Groups \ {DefaultGroup} :
       /\ There(group[g])
       /\ Begin(s, "delete_group", "strip", g, {},
                {<<m, GroupsOf(m)>> : m \in {n \in Members : g \in GroupsOf(n)}})
  /\ UNCHANGED <<member, group, key>>

StripGroup(s) ==
  /\ At(s, "delete_group", "strip")
  /\ \E e \in req[s].read :
       /\ member' = [member EXCEPT ![e[1]] = IF There(@) THEN e[2] \ {req[s].id} ELSE @]
       /\ Move(s, "strip", req[s].read \ {e})
  /\ UNCHANGED <<begun, group, key>>

DeleteGroup(s) ==
  /\ At(s, "delete_group", "strip") /\ req[s].read = {} /\ Done(s)
  /\ group' = [group EXCEPT ![req[s].id] = Gone]
  /\ UNCHANGED <<begun, member, key>>

People ==
  /\ concern = "people"
  /\ \E s \in Slots :
       \/ AskAsMember(s) \/ AskWithKey(s) \/ ReadUser(s) \/ Resolve(s) \/ Served(s)
       \/ CreateKey(s) \/ BeginMember(s) \/ SetMemberGroups(s) \/ CreateMember(s)
       \/ DeleteMember(s) \/ BeginUpdateGroup(s) \/ SaveGroup(s)
       \/ BeginDeleteGroup(s) \/ StripGroup(s) \/ DeleteGroup(s)
       \/ CreateGroup \/ RevokeKey
  /\ window' = [s \in Slots |-> Collect(s)]
  /\ UNCHANGED <<concern, programs, modules>>

-----------------------------------------------------------------------------
(* Verification, authorization and deletion of a program *)

\* set_verification: a new challenge takes the place of the old one.
RequestVerification(p) ==
  /\ program[p].there /\ program[p].token < MaxTokens
  /\ program' = [program EXCEPT ![p].token = @ + 1]
  /\ UNCHANGED <<begun, req, authorizations, apex, proven>>

\* Whoever has the domain publishes a challenge of some program, or takes it down.
Publish ==
  /\ \E p \in Programs : \E t \in 0..program[p].token : apex' = [of |-> p, token |-> t]
  /\ apex' # apex /\ UNCHANGED <<begun, req, program, authorizations, proven>>

BeginCheck(s) ==
  /\ \E p \in Programs : /\ program[p].there /\ program[p].token > 0
                          /\ Begin(s, "check", "look", p, {}, {program[p].token})
  /\ UNCHANGED programs

\* A mutant: any answer of the domain will do.
shown_any(p, tokens) == apex.token > 0

\* The domain shows the challenge that was read with the program.
shown(p, tokens) == apex.token > 0 /\ apex.of = p /\ apex.token \in tokens

\* A lookup that fails counts as not found.
Look(s) ==
  /\ At(s, "check", "look")
  /\ \/ /\ shown(req[s].id, req[s].read) /\ Move(s, "found", {})
        /\ proven' = IF apex.of = req[s].id THEN proven \cup {req[s].id} ELSE proven
     \/ Done(s) /\ UNCHANGED proven
  /\ UNCHANGED <<begun, program, authorizations, apex>>

\* An update, which does nothing when the program has gone
SetVerified(s) ==
  /\ At(s, "check", "found") /\ Done(s)
  /\ program' = [program EXCEPT ![req[s].id].verified = @ \/ program[req[s].id].there]
  /\ UNCHANGED <<begun, authorizations, apex, proven>>

BeginAuthorization(s) ==
  /\ \E p \in Programs : program[p].there /\ program[p].verified
                            /\ Begin(s, "authorize", "save", p, {}, {})
  /\ UNCHANGED programs

SaveAuthorization(s) ==
  /\ At(s, "authorize", "save") /\ Done(s)
  /\ authorizations' = authorizations \cup {req[s].id}
  /\ UNCHANGED <<begun, program, apex, proven>>

BeginDelete(s) ==
  /\ \E p \in Programs : program[p].there /\ Begin(s, "delete", "data", p, {}, {})
  /\ UNCHANGED programs

\* The data first, the authorization with it; then the program itself.
DeleteData(s) ==
  /\ At(s, "delete", "data") /\ Move(s, "program", {})
  /\ authorizations' = authorizations \ {req[s].id} /\ UNCHANGED <<begun, program, apex, proven>>

DeleteProgram(s) ==
  /\ At(s, "delete", "program") /\ Done(s)
  /\ program' = [program EXCEPT ![req[s].id].there = FALSE, ![req[s].id].verified = FALSE]
  /\ UNCHANGED <<begun, authorizations, apex, proven>>

AboutPrograms ==
  /\ concern = "programs"
  /\ \/ \E p \in Programs : RequestVerification(p)
     \/ Publish
     \/ \E s \in Slots : \/ BeginCheck(s) \/ Look(s) \/ SetVerified(s)
                         \/ BeginAuthorization(s) \/ SaveAuthorization(s)
                         \/ BeginDelete(s) \/ DeleteData(s) \/ DeleteProgram(s)
  /\ UNCHANGED <<concern, people, modules>>

-----------------------------------------------------------------------------
(* Switching modules *)

\* update_modules writes the two lists one after the other.
BeginModules(s) ==
  /\ \E on \in SUBSET OPT_IN, off \in SUBSET MODULES :
       /\ Begin(s, "modules", "disabled", Nobody, sanitize_disabled(off), {})
       /\ enabled' = on
  /\ UNCHANGED disabled

SetDisabled(s) ==
  /\ At(s, "modules", "disabled") /\ Done(s) /\ disabled' = req[s].set
  /\ UNCHANGED <<begun, enabled>>

\* set_modules writes one of them.
SetEnabled ==
  /\ \E on \in SUBSET OPT_IN : on # enabled /\ enabled' = on
  /\ UNCHANGED <<begun, req, disabled>>

AboutModules ==
  /\ concern = "modules"
  /\ SetEnabled \/ \E s \in Slots : BeginModules(s) \/ SetDisabled(s)
  /\ UNCHANGED <<concern, people, programs>>

ConsoleInit ==
  /\ concern \in {"people", "programs", "modules"} /\ begun = 0
  /\ req = [s \in Slots |-> NoRequest]
  /\ member \in [Members -> {New, {DefaultGroup}, Groups}]
  /\ \E others \in {New, {"view", "settings.manage"}} :
       group = [g \in Groups |-> IF g = DefaultGroup THEN {"view"} ELSE others]
  /\ \A m \in Members : There(member[m]) => \A g \in member[m] : There(group[g])
  /\ concern # "people" => member = [m \in Members |-> New] /\ \A g \in Groups : There(group[g])
  /\ key = [k \in Keys |-> [state |-> "none", by |-> Nobody, scopes |-> {}]]
  /\ window = [s \in Slots |-> [in |-> {}, has |-> {}]]
  /\ program = [p \in Programs |-> [there |-> TRUE, token |-> 0, verified |-> FALSE]]
  /\ authorizations = {} /\ proven = {} /\ apex = [of |-> Nobody, token |-> 0]
  /\ enabled = {} /\ disabled = {}

ConsoleNext == People \/ AboutPrograms \/ AboutModules

ConsoleSpec == ConsoleInit /\ [][ConsoleNext]_consoleVars

-----------------------------------------------------------------------------
(* Properties *)

\* A request that is served, of a member or of a key of his, has only powers that a group
\* of his gave at some moment since it came: whoever is removed, moved or loses a right
\* before that has lost it, with the session and the keys that he still holds.
ActsWithinPowers ==
  \A s \in Slots : At(s, "use", "served") =>
    LET ps == normalise_permissions({p \in Permissions :
                \E g \in window[s].in : <<g, p>> \in window[s].has})
    IN  /\ req[s].read \subseteq ps
        /\ req[s].id \in Keys => \A scope \in req[s].set : SCOPE_REQUIRES[scope] \in ps

\* An authorization to scan is recorded only for a program whose own challenge was found
\* at the domain, whatever challenges are replaced and programs deleted meanwhile.
AuthorizedWasProven == authorizations \subseteq proven

\* What the settings show before a module is switched off is what it costs: the module
\* and what depends on it, directly or not, and nothing else; whatever lists two saves
\* that cross have left.
ToggleCostsWhatIsShown ==
  \A m \in MODULES \ ESSENTIAL :
    resolve(enabled, disabled \cup {m}) =
      {n \in MODULES : catalogue(enabled, disabled)[n].enabled}
        \ ({m} \cup catalogue(enabled, disabled)[m].required_by)
=============================================================================
