---------------------------- MODULE GameProfiles ----------------------------
(***************************************************************************)
(* ProfileSupervisor and the sink that applies and restores for it.        *)
(*                                                                         *)
(* A profile wants some settings while its game runs.  Two profiles may    *)
(* want the same setting: the one that comes first applies it, the others  *)
(* join its lease, and the last owner to leave has it restored.  The keys  *)
(* of an action (metadata.resource_keys) belong to no other action of the  *)
(* registry, so they are leased and released together, and the action is   *)
(* the resource.                                                           *)
(*                                                                         *)
(* The engine behind the sink is one step per call here; ChangeEngine is   *)
(* about what happens inside.  item[a] is the latest journal item of a     *)
(* profile for setting a, backup[a] its backup, asked[a] its parameters.   *)
(***************************************************************************)
EXTENDS Naturals, FiniteSets

CONSTANTS
    Profile,      \* stored game profiles
    Instance,     \* processes, by pid and creation time: never used again
    Setting,      \* auto-apply actions, numbered by action id
    Values,       \* what a setting can be read as
    NoValue,      \* no lease / no item / setting not in the profile
    NoProfile,
    Wants,        \* [Profile -> [Setting -> Values \union {NoValue}]]
    SkipsConflicts, \* profiles whose conflict_policy is skip_conflicting
    KeyRank       \* order of the resource keys, which is not that of the ids

ASSUME ProfilesAssumption ==
    /\ NoValue \notin Values
    /\ NoProfile \notin Profile
    /\ Setting \subseteq Nat
    /\ Wants \in [Profile -> [Setting -> Values \union {NoValue}]]
    /\ SkipsConflicts \subseteq Profile
    /\ KeyRank \in [Setting -> Nat]

VARIABLES
    registered,  \* supervisor.profiles, matcher.bindings, runtime.registered
    active,      \* active_instances
    session,     \* session_of_profile and sessions: "none", "conflict", "applied"
    owned,       \* ActiveSession.owned_resources
    desired,     \* leases: ResourceLease.desired, NoValue where there is none
    owners,      \* leases: ResourceLease.owners, a session named by its profile
    os,          \* the Windows settings
    item,        \* journal: "none", "applied", "rolled_back", "recovery"
    backup,      \* journal: the value before that item
    asked        \* journal: the value that item asked for

supervisor == <<active, session, owned, desired, owners>>
engine     == <<os, item, backup, asked>>

ItemState == {"none", "applied", "rolled_back", "recovery"}
MaybeValue == Values \union {NoValue}

SupervisorTypeOK ==
    /\ registered \subseteq Profile
    /\ active \in [Profile -> SUBSET Instance]
    /\ session \in [Profile -> {"none", "conflict", "applied"}]
    /\ owned \in [Profile -> SUBSET Setting]
    /\ desired \in [Setting -> MaybeValue]
    /\ owners \in [Setting -> SUBSET Profile]
    /\ os \in [Setting -> Values]
    /\ item \in [Setting -> ItemState]
    /\ backup \in [Setting -> MaybeValue]
    /\ asked \in [Setting -> MaybeValue]

\* What a new process starts from: nothing of the supervisor is stored.
NewSupervisor ==
    [active  |-> [p \in Profile |-> {}],
     session |-> [p \in Profile |-> "none"],
     owned   |-> [p \in Profile |-> {}],
     desired |-> [a \in Setting |-> NoValue],
     owners  |-> [a \in Setting |-> {}]]

SupervisorInit(first) ==
    /\ registered = {}
    /\ active = NewSupervisor.active
    /\ session = NewSupervisor.session
    /\ owned = NewSupervisor.owned
    /\ desired = NewSupervisor.desired
    /\ owners = NewSupervisor.owners
    /\ os = [a \in Setting |-> first]
    /\ item = [a \in Setting |-> "none"]
    /\ backup = [a \in Setting |-> NoValue]
    /\ asked = [a \in Setting |-> NoValue]

ForgetSupervisor ==
    /\ active' = NewSupervisor.active
    /\ session' = NewSupervisor.session
    /\ owned' = NewSupervisor.owned
    /\ desired' = NewSupervisor.desired
    /\ owners' = NewSupervisor.owners

-----------------------------------------------------------------------------
\* decide_action.  Only a stored profile reaches the supervisor, and none of
\* its actions is `optional`: the policy alone makes a conflict skippable.
Asked(p) == {a \in Setting : Wants[p][a] # NoValue}

InConflict(p) ==
    {a \in Asked(p) : desired[a] # NoValue /\ desired[a] # Wants[p][a]}

\* leases.get of a resource with an equal desired state: p becomes an owner.
Joins(p) == {a \in Asked(p) : desired[a] = Wants[p][a]}

Bug_Applies(p) == Asked(p) \ InConflict(p)

\* ActionDecision::Apply: the settings without a lease.
Applies(p) == {a \in Asked(p) : desired[a] = NoValue}

Stopped(p) == InConflict(p) # {} /\ p \notin SkipsConflicts

\* commit_preview refuses while the recovery of an earlier change is open.
EngineRefuses == \E a \in Setting : item[a] = "recovery"

Bug_BackupsWith(s) == backup

\* The journal's backups once the settings in s were backed up.
BackupsWith(s) == [a \in Setting |-> IF a \in s THEN os[a] ELSE backup[a]]

\* What is left of a call of the engine.
CommitResults == {"succeeded", "unlisted", "undone", "stuck"}

\* sink.apply: one preview and one commit for all settings in `s`.
\*   succeeded: and every journal item was found again
\*   unlisted:  the items were applied and could not be found
\*   undone:    refused, or failed and unwound
\*   stuck:     failed, and some settings are left for recovery
EngineApply(p, s, result) ==
    LET Committed ==
            /\ ~EngineRefuses
            /\ os' = [a \in Setting |-> IF a \in s THEN Wants[p][a] ELSE os[a]]
            /\ item' = [a \in Setting |-> IF a \in s THEN "applied" ELSE item[a]]
            /\ backup' = BackupsWith(s)
            /\ asked' = [a \in Setting |-> IF a \in s THEN Wants[p][a] ELSE asked[a]]
    IN  \/ result \in {"succeeded", "unlisted"} /\ Committed
        \/ result = "undone" /\ UNCHANGED engine
        \/ /\ result = "stuck"
           /\ ~EngineRefuses
           /\ \E left \in (SUBSET s) \ {{}} :
                /\ os' = [a \in Setting |-> IF a \in left THEN Wants[p][a] ELSE os[a]]
                /\ item' = [a \in Setting |->
                              IF a \in left THEN "recovery"
                              ELSE IF a \in s THEN "rolled_back" ELSE item[a]]
                /\ backup' = BackupsWith(s)
                /\ asked' = [a \in Setting |-> IF a \in s THEN Wants[p][a] ELSE asked[a]]

Bug_RecordLaunch(p, i) ==
    active' = IF p \in registered /\ active[p] = {}
              THEN [active EXCEPT ![p] = {i}] ELSE active

\* on_launched before the first instance: an unregistered profile is ignored,
\* a second instance and a repeated event change nothing that is applied.
RecordLaunch(p, i) ==
    active' = IF p \in registered
              THEN [active EXCEPT ![p] = @ \union {i}] ELSE active

IsFirst(p, i) == p \in registered /\ active[p] = {}

\* on_launched, conflict: an empty session, so that the exit is noticed.
StopOnConflict(p) ==
    /\ session' = [session EXCEPT ![p] = "conflict"]
    /\ owned' = [owned EXCEPT ![p] = {}]
    /\ UNCHANGED <<desired, owners, engine>>

\* on_launched, sink.apply returned the items: new leases, joined leases.
TakeLeases(p) ==
    LET mine == Applies(p) \union Joins(p) IN
    /\ session' = [session EXCEPT ![p] = "applied"]
    /\ owned' = [owned EXCEPT ![p] = mine]
    /\ desired' = [a \in Setting |->
                     IF a \in Applies(p) THEN Wants[p][a] ELSE desired[a]]
    /\ owners' = [a \in Setting |->
                    IF a \in mine THEN owners[a] \union {p} ELSE owners[a]]

\* on_launched returns Ok.
Launched(p, i) ==
    /\ RecordLaunch(p, i)
    /\ UNCHANGED registered
    /\ \/ /\ ~IsFirst(p, i)
          /\ UNCHANGED <<session, owned, desired, owners, engine>>
       \/ /\ IsFirst(p, i) /\ Stopped(p)
          /\ StopOnConflict(p)
       \/ /\ IsFirst(p, i) /\ ~Stopped(p)
          /\ IF Applies(p) = {} THEN UNCHANGED engine
             ELSE EngineApply(p, Applies(p), "succeeded")
          /\ TakeLeases(p)

\* on_launched returns the error of sink.apply.  The instance stays recorded
\* and no session is: the next event of the profile finds it active.
LaunchFails(p, i) ==
    /\ IsFirst(p, i) /\ ~Stopped(p) /\ Applies(p) # {}
    /\ RecordLaunch(p, i)
    /\ \E result \in CommitResults \ {"succeeded"} :
          EngineApply(p, Applies(p), result)
    /\ UNCHANGED <<registered, session, owned, desired, owners>>

-----------------------------------------------------------------------------
Bug_IsLast(p, i) == active[p] = {} /\ session[p] # "none"

\* on_exited: is it the end of the session?
IsLast(p, i) == active[p] = {i} /\ session[p] # "none"

\* Settings whose last owner is p: these are restored.
Bug_Unshared(p) == {a \in owned[p] : p \in owners[a]}

Unshared(p) == {a \in owned[p] : owners[a] \subseteq {p}}

\* on_exited up to the rollbacks; the settings to restore are Unshared(p).
Exited(p, i) ==
    /\ active' = [active EXCEPT ![p] = @ \ {i}]
    /\ UNCHANGED registered
    /\ IF IsLast(p, i)
       THEN /\ session' = [session EXCEPT ![p] = "none"]
            /\ owned' = [owned EXCEPT ![p] = {}]
            /\ owners' = [a \in Setting |-> IF a \in owned[p]
                                            THEN owners[a] \ {p} ELSE owners[a]]
            /\ desired' = [a \in Setting |-> IF a \in Unshared(p)
                                             THEN NoValue ELSE desired[a]]
       ELSE UNCHANGED <<session, owned, desired, owners>>
    /\ UNCHANGED engine

\* to_restore.reverse() of a set ordered by resource key.
NextToRestore(s) == {a \in s : \A b \in s : KeyRank[b] <= KeyRank[a]}

\* sink.rollback returns Ok: the value was restored, or was back already.
RollbackOk(a) ==
    /\ item[a] = "applied"
    /\ os[a] \in {asked[a], backup[a]}
    /\ os' = [os EXCEPT ![a] = backup[a]]
    /\ item' = [item EXCEPT ![a] = "rolled_back"]
    /\ UNCHANGED <<backup, asked>>

\* sink.rollback returns an error: the item is not applied any more (somebody
\* restored it from the history), the value is a third one, the setter failed,
\* or the lock between processes was not granted.
MustFail(a) == item[a] # "applied" \/ os[a] \notin {asked[a], backup[a]}

RollbackErr(a) ==
    /\ \/ UNCHANGED item
       \/ item[a] = "applied" /\ item' = [item EXCEPT ![a] = "recovery"]
    /\ UNCHANGED <<os, backup, asked>>

=============================================================================
