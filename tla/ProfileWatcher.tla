--------------------------- MODULE ProfileWatcher ---------------------------
(***************************************************************************)
(* ProcessMatcher, ProfileRuntime and the cycle of the profile watcher     *)
(* thread over GameProfiles: which processes are seen to start and to end, *)
(* in what order the events reach the supervisor, and what becomes of the  *)
(* rest when one of them fails.                                            *)
(*                                                                         *)
(* Actors: the watcher thread, one step per event and one per restored     *)
(* setting; games that start and end; users who switch profiles on and     *)
(* off, restore an item from the history or change a setting themselves;   *)
(* the end of the process.  Definitions that cannot be converted are left  *)
(* out: create, set_enabled and the loading of the store refuse them.      *)
(***************************************************************************)
EXTENDS GameProfiles

CONSTANTS
    Matches,   \* [Instance -> SUBSET Profile]: bindings the process matches
    First      \* the value of every setting before the first game

ASSUME WatcherAssumption ==
    /\ Matches \in [Instance -> SUBSET Profile]
    /\ First \in Values

VARIABLES
    running,   \* processes: "new", "running", "gone"
    enabled,   \* ProfileStore: profiles whose automation_enabled is set
    seen,      \* matcher.seen
    health,    \* WatcherHealth: "ok", "transient", "sticky"
    stop,      \* the stop flag
    work,      \* what the watcher thread is doing
    touched    \* history: settings others changed, or that a failed call or a
               \* past process left behind

watcher == <<registered, seen, supervisor>>
vars == <<watcher, engine, running, enabled, health, stop, work, touched>>

Events == [kind : {"Launched", "Exited"}, profile : Profile, instance : Instance]

AtRest == [pc |-> "idle", final |-> FALSE, remove |-> {}, cur |-> NoProfile,
           todo |-> {}, restore |-> {}, failed |-> FALSE, after |-> "ok"]

WatcherTypeOK ==
    /\ SupervisorTypeOK
    /\ running \in [Instance -> {"new", "running", "gone"}]
    /\ enabled \subseteq Profile
    /\ seen \in [Profile -> SUBSET Instance]
    /\ health \in {"ok", "transient", "sticky"}
    /\ stop \in BOOLEAN
    /\ work \in [pc : {"idle", "sync", "look", "tick", "stopped"},
                 final : BOOLEAN, remove : SUBSET Profile,
                 cur : Profile \union {NoProfile}, todo : SUBSET Events,
                 restore : SUBSET Setting, failed : BOOLEAN,
                 after : {"ok", "transient"}]
    /\ touched \subseteq Setting

WatcherInit ==
    /\ SupervisorInit(First)
    /\ running = [i \in Instance |-> "new"]
    /\ enabled \in SUBSET Profile
    /\ seen = [p \in Profile |-> {}]
    /\ health = "ok"
    /\ stop = FALSE
    /\ work = AtRest
    /\ touched = {}

-----------------------------------------------------------------------------
\* ProcessMatcher
Alive == {i \in Instance : running[i] = "running"}

Current(p, snapshot) == {i \in snapshot : p \in Matches[i]}

\* Exits a snapshot gives of p: the confirmed ones among the missing.
Missing(p, snapshot) == seen[p] \ Current(p, snapshot)

Bug_Observed(snapshot, confirmed) ==
    [p \in Profile |-> IF p \in registered THEN Current(p, snapshot) ELSE seen[p]]

\* observe_with_confirmed_exits: a complete snapshot confirms every exit, an
\* incomplete one keeps whom it does not show and was not confirmed.
Observed(snapshot, confirmed) ==
    [p \in Profile |->
        IF p \in registered
        THEN (seen[p] \ (Missing(p, snapshot) \intersect confirmed))
             \union Current(p, snapshot)
        ELSE seen[p]]

EventsOf(snapshot, confirmed) ==
    {e \in Events :
        /\ e.profile \in registered
        /\ IF e.kind = "Launched"
           THEN e.instance \in Current(e.profile, snapshot) \ seen[e.profile]
           ELSE e.instance \in Missing(e.profile, snapshot) \intersect confirmed}

\* exit_events_before_unregister
ExitsOf(p) == {e \in Events : e.kind = "Exited" /\ e.profile = p
                                /\ e.instance \in seen[p]}

\* Events come profile by profile, the launches of one before its exits.
Due(e) ==
    /\ e \in work.todo
    /\ \/ work.cur \in {NoProfile, e.profile}
       \/ \A f \in work.todo : f.profile # work.cur
    /\ e.kind = "Launched"
       \/ \A f \in work.todo : f.profile = e.profile => f.kind = "Exited"

-----------------------------------------------------------------------------
\* run_cycle: store.list, and the registrations of runtime.sync.  The other
\* registered profiles are removed one by one; after stop, all of them are.
StartSync(listed, final) ==
    /\ work.pc = "idle"
    /\ registered' = registered \union listed
    /\ work' = [AtRest EXCEPT !.pc = "sync", !.final = final,
                              !.remove = registered \ listed]
    /\ UNCHANGED <<seen, supervisor, engine, running, enabled, health, stop, touched>>

Bug_Cycle == StartSync(enabled, FALSE)

Cycle == ~stop /\ StartSync(enabled, FALSE)

FinalSync == stop /\ StartSync({}, TRUE)

SyncPick(p) ==
    /\ work.pc = "sync" /\ work.cur = NoProfile
    /\ p \in work.remove
    /\ work' = [work EXCEPT !.cur = p, !.todo = ExitsOf(p)]
    /\ UNCHANGED <<watcher, engine, running, enabled, health, stop, touched>>

\* runtime.sync: a profile that is still active stays registered.
SyncUnregister ==
    LET p == work.cur IN
    /\ work.pc = "sync" /\ p # NoProfile
    /\ work.todo = {} /\ work.restore = {}
    /\ work' = [work EXCEPT !.cur = NoProfile, !.remove = @ \ {p}]
    /\ IF active[p] = {}
       THEN /\ registered' = registered \ {p}
            /\ seen' = [seen EXCEPT ![p] = {}]
       ELSE UNCHANGED <<registered, seen>>
    /\ UNCHANGED <<supervisor, engine, running, enabled, health, stop, touched>>

\* WatcherHealth.record and clear_transient: a sticky issue stays.
Record(issue) == health' = IF health = "sticky" THEN "sticky" ELSE issue

\* run_cycle after sync, and the end of run_loop.
SyncEnd ==
    /\ work.pc = "sync" /\ work.remove = {}
    /\ Record(IF work.failed THEN "sticky"
              ELSE IF registered = {} /\ ~work.final THEN "ok" ELSE health)
    /\ work' = [AtRest EXCEPT !.pc = IF work.final THEN "stopped"
                                     ELSE IF health' = "sticky" \/ registered = {}
                                          THEN "idle" ELSE "look"]
    /\ UNCHANGED <<watcher, engine, running, enabled, stop, touched>>

Tick(snapshot, confirmed, after) ==
    /\ work.pc = "look"
    /\ work' = [work EXCEPT !.pc = "tick", !.after = after,
                            !.todo = EventsOf(snapshot, confirmed)]
    /\ seen' = Observed(snapshot, confirmed)
    /\ UNCHANGED <<registered, supervisor, engine, running, enabled, health, stop, touched>>

TickComplete == Tick(Alive, Instance, "ok")

\* The snapshot misses processes, or there is none.  Each missing one is then
\* asked for by handle: gone, still running, or it cannot be told.
TickIncomplete(snapshot) ==
    LET missing == UNION {Missing(p, snapshot) : p \in registered}
    IN  \E confirmed \in SUBSET (missing \ Alive) :
          \E unknown \in SUBSET (missing \ confirmed) :
            /\ missing \ (confirmed \union unknown) \subseteq Alive
            /\ Tick(snapshot, confirmed, IF unknown = {} THEN "ok" ELSE "transient")

TickWithout ==
    LET missing == UNION {seen[p] : p \in Profile}
    IN  \E confirmed \in SUBSET (missing \ Alive) : Tick({}, confirmed, "transient")

\* handle_events, one event.  An error ends the tick: the watcher stops acting
\* on processes, and the rest of the events is dropped.
HandleLaunch(e) ==
    /\ work.pc = "tick" /\ work.restore = {}
    /\ Due(e) /\ e.kind = "Launched"
    /\ Launched(e.profile, e.instance)
    /\ work' = [work EXCEPT !.todo = @ \ {e}, !.cur = e.profile]
    /\ UNCHANGED <<seen, running, enabled, health, stop, touched>>

HandleLaunchFails(e) ==
    /\ work.pc = "tick" /\ work.restore = {}
    /\ Due(e) /\ e.kind = "Launched"
    /\ LaunchFails(e.profile, e.instance)
    /\ touched' = touched \union {a \in Setting : os'[a] # os[a] \/ item'[a] # item[a]}
    /\ health' = "sticky"
    /\ work' = AtRest
    /\ UNCHANGED <<seen, running, enabled, stop>>

HandleExit(e) ==
    /\ work.pc \in {"sync", "tick"} /\ work.restore = {}
    /\ Due(e) /\ e.kind = "Exited"
    /\ Exited(e.profile, e.instance)
    /\ work' = [work EXCEPT !.todo = @ \ {e}, !.cur = e.profile,
                            !.restore = IF IsLast(e.profile, e.instance)
                                        THEN Unshared(e.profile) ELSE {}]
    /\ UNCHANGED <<seen, running, enabled, health, stop, touched>>

RestoreOk(a) ==
    /\ a \in NextToRestore(work.restore)
    /\ RollbackOk(a)
    /\ work' = [work EXCEPT !.restore = @ \ {a}]
    /\ UNCHANGED <<watcher, running, enabled, health, stop, touched>>

\* The supervisor keeps no reference to what could not be restored.
RestoreFails(a) ==
    /\ a \in NextToRestore(work.restore)
    /\ RollbackErr(a)
    /\ work' = [work EXCEPT !.restore = @ \ {a}, !.failed = TRUE]
    /\ touched' = touched \union {a}
    /\ UNCHANGED <<watcher, running, enabled, health, stop>>

\* record_tick_result, and the end of run_cycle.
TickEnd ==
    /\ work.pc = "tick" /\ work.todo = {} /\ work.restore = {}
    /\ Record(IF work.failed THEN "sticky" ELSE work.after)
    /\ work' = AtRest
    /\ UNCHANGED <<watcher, engine, running, enabled, stop, touched>>

-----------------------------------------------------------------------------
GameStarts(i) ==
    /\ running[i] = "new"
    /\ running' = [running EXCEPT ![i] = "running"]
    /\ UNCHANGED <<watcher, engine, enabled, health, stop, work, touched>>

GameEnds(i) ==
    /\ running[i] = "running"
    /\ running' = [running EXCEPT ![i] = "gone"]
    /\ UNCHANGED <<watcher, engine, enabled, health, stop, work, touched>>

\* ProfileStore.set_enabled, or delete.
Switch(p) ==
    /\ enabled' = (enabled \ {p}) \union ({p} \ enabled)
    /\ UNCHANGED <<watcher, engine, running, health, stop, work, touched>>

Shutdown ==
    /\ ~stop
    /\ stop' = TRUE
    /\ UNCHANGED <<watcher, engine, running, enabled, health, work, touched>>

\* The history's undo of one item, and a change from outside.
UserRestores(a) ==
    /\ RollbackOk(a)
    /\ touched' = touched \union {a}
    /\ UNCHANGED <<watcher, running, enabled, health, stop, work>>

OutsideWrite(a) ==
    /\ \E v \in Values \ {os[a]} : os' = [os EXCEPT ![a] = v]
    /\ touched' = touched \union {a}
    /\ UNCHANGED <<watcher, item, backup, asked, running, enabled, health, stop, work>>

\* The process ends, by a crash or after the watcher stopped, and starts
\* again: what was leased stays applied, and nobody owns it.
NewProcess ==
    /\ touched' = touched \union work.restore
                    \union {a \in Setting : desired[a] # NoValue}
    /\ registered' = {}
    /\ seen' = [p \in Profile |-> {}]
    /\ ForgetSupervisor
    /\ health' = "ok"
    /\ stop' = FALSE
    /\ work' = AtRest
    /\ UNCHANGED <<engine, running, enabled>>

Restart == work.pc = "stopped" /\ NewProcess

Crash == work.pc # "stopped" /\ NewProcess

-----------------------------------------------------------------------------
SyncStep ==
    \/ Cycle \/ FinalSync
    \/ \E p \in Profile : SyncPick(p)
    \/ SyncUnregister \/ SyncEnd

\* Engine calls that fail of themselves are faults; the others are forced.
WatcherStep ==
    \/ SyncStep
    \/ TickComplete \/ TickEnd
    \/ \E e \in work.todo : HandleLaunch(e) \/ HandleExit(e)
    \/ \E e \in work.todo : EngineRefuses /\ HandleLaunchFails(e)
    \/ \E a \in work.restore : RestoreOk(a) \/ (MustFail(a) /\ RestoreFails(a))

LookStep ==
    \/ \E snapshot \in SUBSET Alive : TickIncomplete(snapshot)
    \/ TickWithout

GameStep == \E i \in Instance : GameStarts(i) \/ GameEnds(i)

UserStep == (\E p \in Profile : Switch(p)) \/ Shutdown \/ Restart

ProfileFault ==
    \/ \E e \in work.todo : HandleLaunchFails(e)
    \/ \E a \in work.restore : RestoreFails(a)
    \/ \E a \in Setting : UserRestores(a) \/ OutsideWrite(a)
    \/ Crash

WatcherNext == WatcherStep \/ LookStep \/ GameStep \/ UserStep \/ ProfileFault

WatcherSpec == WatcherInit /\ [][WatcherNext]_vars

-----------------------------------------------------------------------------
(***************************************************************************)
(* Properties                                                              *)
(***************************************************************************)

\* The sessions and the leases agree: a session owns a setting exactly if it is
\* an owner of its lease, a lease has an owner, its owners want the same value,
\* and only the session of a profile with a live instance owns anything
\* (on_launched and on_exited, which change five maps between them).  A setting
\* that nobody else changed has the value of its lease while there is one, with
\* the value before the FIRST owner as its backup, and that first value when all
\* owners have left: whichever owners came and left in between
\* (docs/GAME_PROFILES.md 5: "restored once, to the backup before the first
\* application").  The watcher restores none that a session still owns.
LeasedExactlyWhileOwned ==
    /\ [](\A p \in Profile, a \in Setting :
             /\ a \in owned[p] <=> p \in owners[a]
             /\ p \in owners[a] => desired[a] = Wants[p][a])
    /\ [](\A a \in Setting : desired[a] # NoValue <=> owners[a] # {})
    /\ [](\A p \in Profile :
             /\ owned[p] # {} => session[p] = "applied"
             /\ session[p] # "none" => active[p] # {})
    /\ [](\A a \in Setting \ touched :
             IF desired[a] # NoValue \/ a \in work.restore
             THEN /\ item[a] = "applied" /\ backup[a] = First
                  /\ desired[a] \in {os[a], NoValue}
             ELSE os[a] = First)
    /\ [][\A a \in Setting :
            item[a] = "applied" /\ item'[a] = "rolled_back" /\ work' # work
                => \A p \in Profile : a \notin owned[p]]_vars

\* Between two cycles the matcher and the supervisor agree on who is playing,
\* unless the watcher has stopped acting on processes: nothing else tells the
\* matcher that an event it has taken note of was not handled.  And the matcher
\* of a profile that stays switched on forgets only processes that have ended,
\* however incomplete the snapshots are.
MatcherAgrees ==
    /\ [](work.pc = "idle" /\ health # "sticky" => seen = active)
    /\ [][\A p \in Profile : \A i \in seen[p] :
            i \notin seen'[p] => running[i] = "gone" \/ p \notin registered']_vars

\* A profile gives its settings back when its game has ended, and also when it is
\* switched off while the game goes on, unless it is switched on again; only a
\* failure the watcher found stops it (tick, exit_events_before_unregister).
SettingsComeBack ==
    \A p \in Profile :
        /\ session[p] = "applied" /\ active[p] \intersect Alive = {}
               ~> \/ session[p] # "applied" \/ active[p] \intersect Alive # {}
                  \/ health = "sticky"
        /\ p \notin enabled /\ session[p] = "applied"
               ~> session[p] # "applied" \/ p \in enabled \/ health = "sticky"

\* The watcher thread ends after the stop flag is set, whatever it was doing.
ShutdownEnds == stop ~> work.pc = "stopped" \/ ~stop

\* What the code does not do: when the watcher has stopped, no session of a
\* profile is left ("treat active instances as ended and restore the applied
\* resources first", watcher.rs run_loop).
StopRestoresAll ==
    work.pc = "stopped" => \A p \in Profile : session[p] # "applied"

=============================================================================
