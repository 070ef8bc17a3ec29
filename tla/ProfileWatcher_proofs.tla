----------------------- MODULE ProfileWatcher_proofs -----------------------
(***************************************************************************)
(* The watcher and its supervisor for any profiles, games, settings and    *)
(* values: types, the leases, and what the matcher takes note of, however  *)
(* many engine calls fail, others interfere and the process dies.          *)
(***************************************************************************)
EXTENDS ProfileWatcher, TLAPS

\* A journal item that can be rolled back has a backup.
BackupsHold == \A a \in Setting : item[a] = "applied" => backup[a] \in Values

WatcherTypes == WatcherTypeOK /\ BackupsHold

\* Four of the five maps of the supervisor.
LeasesMatch ==
    /\ \A p \in Profile, a \in Setting :
          /\ a \in owned[p] <=> p \in owners[a]
          /\ p \in owners[a] => desired[a] = Wants[p][a]
    /\ \A a \in Setting : desired[a] # NoValue <=> owners[a] # {}

\* And the fifth.
SessionsMatch ==
    \A p \in Profile :
        /\ owned[p] # {} => session[p] = "applied"
        /\ session[p] # "none" => active[p] # {}

\* Nothing is restored outside of sync and tick, and nothing that is leased; in
\* sync the profile that is worked on is one of those to be removed.
WorkShape ==
    /\ work.pc \notin {"sync", "tick"} => work.restore = {}
    /\ \A a \in work.restore : desired[a] = NoValue
    /\ work.pc = "sync" =>
          /\ work.cur = NoProfile => work.todo = {} /\ work.restore = {}
          /\ work.cur # NoProfile => work.cur \in work.remove
          /\ \A e \in work.todo : e.kind = "Exited" /\ e.profile = work.cur

\* What nobody else touched holds the value of its lease, or the first one.
ValuesFollow ==
    \A a \in Setting \ touched :
        IF desired[a] # NoValue \/ a \in work.restore
        THEN /\ item[a] = "applied" /\ backup[a] = First
             /\ desired[a] \in {os[a], NoValue}
        ELSE os[a] = First

LeaseInv == LeasesMatch /\ SessionsMatch /\ WorkShape /\ ValuesFollow

\* The matcher holds only processes that were there and that it looks for.
SeenAreKnown ==
    \A p \in Profile : \A i \in seen[p] : p \in Matches[i] /\ running[i] # "new"

Noted(kind, p) ==
    {i \in Instance : [kind |-> kind, profile |-> p, instance |-> i] \in work.todo}

\* The matcher is ahead of the supervisor by the events that are still to be
\* handled; in sync it is ahead by the exits of the profile that is removed.
Ahead ==
    /\ work.pc \in {"idle", "look", "stopped"} => seen = active
    /\ work.pc = "tick" =>
          /\ \A e \in work.todo : e.profile \in registered
          /\ \A p \in Profile :
                /\ seen[p] = (active[p] \ Noted("Exited", p)) \union Noted("Launched", p)
                /\ Noted("Exited", p) \intersect Noted("Launched", p) = {}
    /\ work.pc = "sync" =>
          \A p \in Profile :
             IF p = work.cur THEN active[p] = Noted("Exited", p)
             ELSE seen[p] = active[p]

MatcherInv == SeenAreKnown /\ (health # "sticky" => Ahead)

-----------------------------------------------------------------------------
(* Types *)

EngineTypes ==
    /\ os \in [Setting -> Values]
    /\ item \in [Setting -> ItemState]
    /\ backup \in [Setting -> MaybeValue]
    /\ asked \in [Setting -> MaybeValue]
    /\ BackupsHold

LeaseTypes ==
    /\ active \in [Profile -> SUBSET Instance]
    /\ session \in [Profile -> {"none", "conflict", "applied"}]
    /\ owned \in [Profile -> SUBSET Setting]
    /\ desired \in [Setting -> MaybeValue]
    /\ owners \in [Setting -> SUBSET Profile]

ThreadTypes ==
    /\ registered \subseteq Profile
    /\ running \in [Instance -> {"new", "running", "gone"}]
    /\ enabled \subseteq Profile
    /\ seen \in [Profile -> SUBSET Instance]
    /\ health \in {"ok", "transient", "sticky"}
    /\ stop \in BOOLEAN
    /\ touched \subseteq Setting

WorkTypes ==
    work \in [pc : {"idle", "sync", "look", "tick", "stopped"},
             final : BOOLEAN, remove : SUBSET Profile,
             cur : Profile \union {NoProfile}, todo : SUBSET Events,
             restore : SUBSET Setting, failed : BOOLEAN,
             after : {"ok", "transient"}]

\* The types in four parts, which the steps disturb apart from one another.
LEMMA TypesInParts ==
    /\ WatcherTypes <=> EngineTypes /\ LeaseTypes /\ ThreadTypes /\ WorkTypes
    /\ WatcherTypes' <=> EngineTypes' /\ LeaseTypes' /\ ThreadTypes' /\ WorkTypes'
BY DEF WatcherTypes, WatcherTypeOK, SupervisorTypeOK, EngineTypes, LeaseTypes,
       ThreadTypes, WorkTypes, BackupsHold

LEMMA TypesInitially == WatcherInit => WatcherTypes
<1> SUFFICES ASSUME WatcherInit
             PROVE  WatcherTypes
  OBVIOUS
<1>1. EngineTypes
  BY WatcherAssumption
     DEF WatcherInit, SupervisorInit, EngineTypes, BackupsHold, ItemState, MaybeValue
<1>2. LeaseTypes
  BY DEF WatcherInit, SupervisorInit, NewSupervisor, LeaseTypes, MaybeValue
<1>3. ThreadTypes
  BY DEF WatcherInit, SupervisorInit, ThreadTypes
<1>4. WorkTypes
  BY DEF WatcherInit, AtRest, WorkTypes
<1> QED BY <1>1, <1>2, <1>3, <1>4, TypesInParts

\* A call of the engine, whatever comes of it.
LEMMA EngineApplyTypes ==
    ASSUME EngineTypes, NEW p \in Profile, NEW result, EngineApply(p, Applies(p), result)
    PROVE  EngineTypes'
<1> DEFINE s == Applies(p)
<1>1. \A a \in s : Wants[p][a] \in Values /\ a \in Setting
  BY ProfilesAssumption DEF Applies, Asked
<1>2. BackupsWith(s) \in [Setting -> MaybeValue]
  BY DEF BackupsWith, EngineTypes, MaybeValue
<1>3. \A a \in s : BackupsWith(s)[a] \in Values
  BY <1>1 DEF BackupsWith, EngineTypes
<1>4. \A a \in Setting \ s : BackupsWith(s)[a] = backup[a]
  BY DEF BackupsWith
<1> HIDE DEF s
<1>5. CASE UNCHANGED engine
  BY <1>5 DEF engine, EngineTypes, BackupsHold
<1>6. CASE /\ os' = [a \in Setting |-> IF a \in s THEN Wants[p][a] ELSE os[a]]
           /\ item' = [a \in Setting |-> IF a \in s THEN "applied" ELSE item[a]]
           /\ backup' = BackupsWith(s)
           /\ asked' = [a \in Setting |-> IF a \in s THEN Wants[p][a] ELSE asked[a]]
  BY <1>1, <1>2, <1>3, <1>4, <1>6 DEF EngineTypes, BackupsHold, ItemState, MaybeValue
<1>7. ASSUME NEW left \in SUBSET s,
             os' = [a \in Setting |-> IF a \in left THEN Wants[p][a] ELSE os[a]],
             item' = [a \in Setting |-> IF a \in left THEN "recovery"
                                       ELSE IF a \in s THEN "rolled_back" ELSE item[a]],
             backup' = BackupsWith(s),
             asked' = [a \in Setting |-> IF a \in s THEN Wants[p][a] ELSE asked[a]]
      PROVE  EngineTypes'
  BY <1>1, <1>2, <1>3, <1>4, <1>7 DEF EngineTypes, BackupsHold, ItemState, MaybeValue
<1> QED
  BY <1>5, <1>6, <1>7 DEF EngineApply, s

\* A launch, joined, applied or stopped on a conflict, keeps the types.
LEMMA LaunchedTypes ==
    ASSUME LeaseTypes, EngineTypes, NEW p \in Profile, NEW i \in Instance, Launched(p, i)
    PROVE  LeaseTypes' /\ EngineTypes'
<1>1. active' \in [Profile -> SUBSET Instance]
  BY DEF Launched, RecordLaunch, LeaseTypes
<1>2. CASE UNCHANGED <<session, owned, desired, owners, engine>>
  BY <1>1, <1>2 DEF engine, LeaseTypes, EngineTypes, BackupsHold
<1>3. CASE StopOnConflict(p)
  BY <1>1, <1>3 DEF StopOnConflict, engine, LeaseTypes, EngineTypes, BackupsHold
<1>4. CASE /\ IF Applies(p) = {} THEN UNCHANGED engine
                                 ELSE EngineApply(p, Applies(p), "succeeded")
           /\ TakeLeases(p)
  <2>1. EngineTypes'
    BY <1>4, EngineApplyTypes DEF engine, EngineTypes, BackupsHold
  <2>2. Applies(p) \subseteq Setting /\ Joins(p) \subseteq Setting
    BY DEF Applies, Joins, Asked
  <2>3. session' \in [Profile -> {"none", "conflict", "applied"}]
    BY <1>4 DEF TakeLeases, LeaseTypes
  <2>4. owned' \in [Profile -> SUBSET Setting]
    BY <1>4, <2>2 DEF TakeLeases, LeaseTypes
  <2>5. desired' \in [Setting -> MaybeValue]
    <3>1. \A a \in Setting : Wants[p][a] \in MaybeValue
      BY ProfilesAssumption DEF MaybeValue
    <3>2. desired' = [a \in Setting |->
                        IF a \in Applies(p) THEN Wants[p][a] ELSE desired[a]]
      BY <1>4 DEF TakeLeases
    <3> QED BY <3>1, <3>2 DEF LeaseTypes
  <2>6. owners' \in [Setting -> SUBSET Profile]
    BY <1>4, <2>2 DEF TakeLeases, LeaseTypes
  <2> QED BY <1>1, <2>1, <2>3, <2>4, <2>5, <2>6 DEF LeaseTypes
<1> QED BY <1>2, <1>3, <1>4 DEF Launched

\* An exit keeps the types.
LEMMA ExitedTypes ==
    ASSUME LeaseTypes, NEW p \in Profile, NEW i \in Instance, Exited(p, i)
    PROVE  LeaseTypes'
<1>1. active' \in [Profile -> SUBSET Instance]
  BY DEF Exited, LeaseTypes
<1>2. CASE UNCHANGED <<session, owned, desired, owners>>
  BY <1>1, <1>2 DEF LeaseTypes
<1>3. CASE /\ session' = [session EXCEPT ![p] = "none"]
           /\ owned' = [owned EXCEPT ![p] = {}]
           /\ owners' = [a \in Setting |-> IF a \in owned[p]
                                           THEN owners[a] \ {p} ELSE owners[a]]
           /\ desired' = [a \in Setting |-> IF a \in Unshared(p)
                                            THEN NoValue ELSE desired[a]]
  <2>1. owners' \in [Setting -> SUBSET Profile]
    BY <1>3 DEF LeaseTypes
  <2>2. desired' \in [Setting -> MaybeValue]
    BY <1>3 DEF LeaseTypes, MaybeValue
  <2>3. session' \in [Profile -> {"none", "conflict", "applied"}]
    BY <1>3 DEF LeaseTypes
  <2>4. owned' \in [Profile -> SUBSET Setting]
    BY <1>3 DEF LeaseTypes
  <2> QED BY <1>1, <2>1, <2>2, <2>3, <2>4 DEF LeaseTypes
<1> QED BY <1>2, <1>3 DEF Exited

\* What a look at the processes is told: an exit is confirmed only of a process
\* that is not there, or of one that does not match any more.
Looks(snapshot, confirmed, after) ==
    /\ Tick(snapshot, confirmed, after)
    /\ \A p \in registered : \A i \in Missing(p, snapshot) \intersect confirmed :
          p \in Matches[i] => i \notin Alive

\* Every look at the processes, complete or not, is one look with its own answers.
LEMMA LooksOfTheWatcher ==
    ASSUME WatcherTypes, TickComplete \/ LookStep
    PROVE  \E snapshot \in SUBSET Alive, confirmed \in SUBSET Instance,
              after \in {"ok", "transient"} : Looks(snapshot, confirmed, after)
<1>1. CASE TickComplete
  <2>1. Looks(Alive, Instance, "ok")
    BY <1>1 DEF TickComplete, Looks, Missing, Current
  <2> QED BY <2>1
<1>2. ASSUME NEW snapshot \in SUBSET Alive, TickIncomplete(snapshot)
      PROVE  \E confirmed \in SUBSET Instance, after \in {"ok", "transient"} :
                Looks(snapshot, confirmed, after)
  <2> DEFINE missing == UNION {Missing(p, snapshot) : p \in registered}
  <2>1. PICK confirmed \in SUBSET (missing \ Alive) : \E after \in {"ok", "transient"} :
                Tick(snapshot, confirmed, after)
    BY <1>2 DEF TickIncomplete
  <2>2. confirmed \in SUBSET Instance
    BY TypesInParts DEF Missing, ThreadTypes
  <2> QED BY <2>1, <2>2 DEF Looks
<1>3. CASE TickWithout
  <2> DEFINE missing == UNION {seen[p] : p \in Profile}
  <2>1. PICK confirmed \in SUBSET (missing \ Alive) : Tick({}, confirmed, "transient")
    BY <1>3 DEF TickWithout
  <2>2. confirmed \in SUBSET Instance
    BY DEF WatcherTypes, WatcherTypeOK
  <2>3. Looks({}, confirmed, "transient")
    BY <2>1 DEF Looks
  <2> QED BY <2>2, <2>3
<1> QED BY <1>1, <1>2, <1>3 DEF LookStep

\* The steps of the watcher, each once.
AnyStep ==
    \/ \E listed \in SUBSET Profile, final \in BOOLEAN : StartSync(listed, final)
    \/ \E p \in Profile : SyncPick(p)
    \/ SyncUnregister \/ SyncEnd
    \/ \E snapshot \in SUBSET Alive, confirmed \in SUBSET Instance,
          after \in {"ok", "transient"} : Looks(snapshot, confirmed, after)
    \/ \E e \in work.todo : HandleLaunch(e) \/ HandleLaunchFails(e) \/ HandleExit(e)
    \/ \E a \in work.restore : RestoreOk(a) \/ RestoreFails(a)
    \/ TickEnd
    \/ \E i \in Instance : GameStarts(i) \/ GameEnds(i)
    \/ \E p \in Profile : Switch(p)
    \/ Shutdown \/ NewProcess
    \/ \E a \in Setting : UserRestores(a) \/ OutsideWrite(a)
    \/ UNCHANGED vars

\* Every step of the specification is one of those a proof goes through.
LEMMA EveryStep ==
    ASSUME WatcherTypes, [WatcherNext]_vars
    PROVE  AnyStep
<1>1. enabled \in SUBSET Profile /\ {} \in SUBSET Profile
  BY DEF WatcherTypes, WatcherTypeOK
<1>2. CASE SyncStep
  BY <1>1, <1>2 DEF SyncStep, Cycle, FinalSync, AnyStep
<1>3. CASE TickComplete \/ LookStep
  BY <1>3, LooksOfTheWatcher DEF AnyStep
<1>4. CASE WatcherStep /\ ~SyncStep /\ ~TickComplete
  BY <1>4 DEF WatcherStep, AnyStep
<1>5. CASE GameStep \/ UserStep
  BY <1>5 DEF GameStep, UserStep, Restart, AnyStep
<1>6. CASE ProfileFault
  BY <1>6 DEF ProfileFault, Crash, AnyStep
<1>7. CASE UNCHANGED vars
  BY <1>7 DEF AnyStep
<1> QED BY <1>2, <1>3, <1>4, <1>5, <1>6, <1>7 DEF WatcherNext

\* Every step keeps the types.
LEMMA TypesKept ==
    ASSUME WatcherTypes, [WatcherNext]_vars
    PROVE  WatcherTypes'
<1> EngineTypes /\ LeaseTypes /\ ThreadTypes /\ WorkTypes
  BY TypesInParts
<1> SUFFICES EngineTypes' /\ LeaseTypes' /\ ThreadTypes' /\ WorkTypes'
  BY TypesInParts
<1>E. UNCHANGED engine => EngineTypes'
  BY DEF engine, EngineTypes, BackupsHold
<1>L. UNCHANGED supervisor => LeaseTypes'
  BY DEF supervisor, LeaseTypes
<1>1. ASSUME NEW listed \in SUBSET Profile, NEW final \in BOOLEAN,
          StartSync(listed, final)
      PROVE  EngineTypes' /\ LeaseTypes' /\ ThreadTypes' /\ WorkTypes'
  BY <1>1, <1>E, <1>L DEF StartSync, ThreadTypes, WorkTypes, AtRest
<1>2. ASSUME NEW p \in Profile, SyncPick(p)
      PROVE  EngineTypes' /\ LeaseTypes' /\ ThreadTypes' /\ WorkTypes'
  <2>1. ExitsOf(p) \subseteq Events
    BY DEF ExitsOf
  <2> QED BY <1>2, <2>1, <1>E, <1>L DEF SyncPick, watcher, ThreadTypes, WorkTypes
<1>3. CASE SyncUnregister
  <2>1. ThreadTypes'
    BY <1>3 DEF SyncUnregister, ThreadTypes
  <2>2. WorkTypes'
    BY <1>3 DEF SyncUnregister, WorkTypes
  <2> QED BY <1>3, <2>1, <2>2, <1>E, <1>L DEF SyncUnregister
<1>4. CASE SyncEnd
  <2>1. health' \in {"ok", "transient", "sticky"}
    BY <1>4 DEF SyncEnd, Record, ThreadTypes
  <2>2. WorkTypes'
    BY <1>4 DEF SyncEnd, WorkTypes, AtRest
  <2> QED BY <1>4, <2>1, <2>2, <1>E, <1>L DEF SyncEnd, watcher, ThreadTypes
<1>5. ASSUME NEW snapshot \in SUBSET Alive, NEW confirmed \in SUBSET Instance,
             NEW after \in {"ok", "transient"}, Looks(snapshot, confirmed, after)
      PROVE  EngineTypes' /\ LeaseTypes' /\ ThreadTypes' /\ WorkTypes'
  <2>1. EventsOf(snapshot, confirmed) \subseteq Events
    BY DEF EventsOf
  <2>2. Observed(snapshot, confirmed) \in [Profile -> SUBSET Instance]
    BY DEF Observed, Current, Alive, ThreadTypes
  <2> QED
    BY <1>5, <2>1, <2>2, <1>E, <1>L DEF Looks, Tick, ThreadTypes, WorkTypes
<1>6. ASSUME NEW e \in work.todo, HandleLaunch(e) \/ HandleLaunchFails(e) \/ HandleExit(e)
      PROVE  EngineTypes' /\ LeaseTypes' /\ ThreadTypes' /\ WorkTypes'
  <2>1. e \in Events /\ e.profile \in Profile /\ e.instance \in Instance
    BY DEF WorkTypes, Events
  <2>2. CASE HandleLaunch(e)
    <3>1. EngineTypes' /\ LeaseTypes'
      BY <2>1, <2>2, LaunchedTypes DEF HandleLaunch
    <3> QED BY <2>1, <2>2, <3>1 DEF HandleLaunch, Launched, ThreadTypes, WorkTypes
  <2>3. CASE HandleLaunchFails(e)
    <3>1. EngineTypes'
      BY <2>1, <2>3, EngineApplyTypes DEF HandleLaunchFails, LaunchFails
    <3>2. LeaseTypes'
      BY <2>1, <2>3 DEF HandleLaunchFails, LaunchFails, RecordLaunch, LeaseTypes
    <3> QED BY <2>3, <3>1, <3>2
            DEF HandleLaunchFails, LaunchFails, ThreadTypes, WorkTypes, AtRest
  <2>4. CASE HandleExit(e)
    <3>1. LeaseTypes'
      BY <2>1, <2>4, ExitedTypes DEF HandleExit
    <3>2. Unshared(e.profile) \subseteq Setting
      BY <2>1 DEF Unshared, LeaseTypes
    <3> QED BY <2>1, <2>4, <3>1, <3>2, <1>E DEF HandleExit, Exited, ThreadTypes, WorkTypes
  <2> QED BY <1>6, <2>2, <2>3, <2>4
<1>7. ASSUME NEW a \in work.restore, RestoreOk(a) \/ RestoreFails(a)
      PROVE  EngineTypes' /\ LeaseTypes' /\ ThreadTypes' /\ WorkTypes'
  <2>1. a \in Setting
    BY DEF WorkTypes
  <2>2. CASE RestoreOk(a)
    <3>1. EngineTypes'
      BY <2>1, <2>2 DEF RestoreOk, RollbackOk, EngineTypes, BackupsHold, ItemState
    <3> QED BY <2>2, <3>1, <1>L DEF RestoreOk, watcher, ThreadTypes, WorkTypes
  <2>3. CASE RestoreFails(a)
    <3>1. EngineTypes'
      BY <2>1, <2>3 DEF RestoreFails, RollbackErr, EngineTypes, BackupsHold, ItemState
    <3> QED BY <2>1, <2>3, <3>1, <1>L DEF RestoreFails, watcher, ThreadTypes, WorkTypes
  <2> QED BY <1>7, <2>2, <2>3
<1>8. CASE TickEnd
  BY <1>8, <1>E, <1>L DEF TickEnd, Record, watcher, ThreadTypes, WorkTypes, AtRest
<1>9. ASSUME NEW i \in Instance, GameStarts(i) \/ GameEnds(i)
      PROVE  EngineTypes' /\ LeaseTypes' /\ ThreadTypes' /\ WorkTypes'
  BY <1>9, <1>E, <1>L DEF GameStarts, GameEnds, watcher, ThreadTypes, WorkTypes
<1>10. ASSUME NEW p \in Profile, Switch(p)
       PROVE  EngineTypes' /\ LeaseTypes' /\ ThreadTypes' /\ WorkTypes'
  BY <1>10, <1>E, <1>L DEF Switch, watcher, ThreadTypes, WorkTypes
<1>11. CASE Shutdown
  BY <1>11, <1>E, <1>L DEF Shutdown, watcher, ThreadTypes, WorkTypes
<1>12. CASE NewProcess
  <2>1. LeaseTypes'
    BY <1>12 DEF NewProcess, ForgetSupervisor, NewSupervisor, LeaseTypes, MaybeValue
  <2> QED BY <1>12, <2>1, <1>E DEF NewProcess, ThreadTypes, WorkTypes, AtRest
<1>13. ASSUME NEW a \in Setting, UserRestores(a) \/ OutsideWrite(a)
       PROVE  EngineTypes' /\ LeaseTypes' /\ ThreadTypes' /\ WorkTypes'
  <2>1. EngineTypes'
    BY <1>13
       DEF UserRestores, OutsideWrite, RollbackOk, EngineTypes, BackupsHold, ItemState
  <2> QED BY <1>13, <2>1, <1>L
             DEF UserRestores, OutsideWrite, watcher, ThreadTypes, WorkTypes
<1>14. CASE UNCHANGED vars
  BY <1>14, <1>E, <1>L DEF vars, watcher, ThreadTypes, WorkTypes
<1> QED
  BY EveryStep, <1>1, <1>2, <1>3, <1>4, <1>5, <1>6, <1>7, <1>8, <1>9, <1>10, <1>11, <1>12,
     <1>13, <1>14 DEF AnyStep

\* The types hold of every reachable state.
LEMMA TypesHold == WatcherSpec => []WatcherTypes
<1> QED BY TypesInitially, TypesKept, PTL DEF WatcherSpec

\* The types hold for any profiles, games and settings: in particular what is put
\* back at the end of a session is a value Windows had, for every item that can be
\* rolled back has a backup.
THEOREM WatcherTypeCorrect == WatcherSpec => []WatcherTypeOK
<1>1. WatcherTypes => WatcherTypeOK
  BY DEF WatcherTypes
<1> QED BY TypesHold, <1>1, PTL

-----------------------------------------------------------------------------
(* The leases *)

\* A profile whose game is not there owns nothing, and a setting without a lease
\* belongs to nobody.
LEMMA NobodyOwns ==
    ASSUME LeaseTypes, LeasesMatch, SessionsMatch
    PROVE  /\ \A p \in Profile : active[p] = {} => session[p] = "none" /\ owned[p] = {}
           /\ \A a \in Setting : desired[a] = NoValue
                  => \A p \in Profile : a \notin owned[p]
BY DEF LeaseTypes, LeasesMatch, SessionsMatch

\* on_launched, whatever it decides.
LEMMA LaunchedLeases ==
    ASSUME LeaseTypes, LeasesMatch, SessionsMatch, NEW p \in Profile, NEW i \in Instance,
           Launched(p, i)
    PROVE  LeasesMatch' /\ SessionsMatch'
<1>1. active' = [active EXCEPT ![p] = @ \union {i}] \/ active' = active
  BY DEF Launched, RecordLaunch
<1>2. \A q \in Profile : active[q] # {} => active'[q] # {}
  BY <1>1 DEF LeaseTypes
<1>3. IsFirst(p, i) => active'[p] # {} /\ session[p] = "none" /\ owned[p] = {}
  BY NobodyOwns DEF IsFirst, Launched, RecordLaunch, LeaseTypes
<1>4. CASE UNCHANGED <<session, owned, desired, owners>>
  BY <1>2, <1>4 DEF LeasesMatch, SessionsMatch
<1>5. CASE IsFirst(p, i) /\ StopOnConflict(p)
  <2>1. owned' = owned
    BY <1>3, <1>5 DEF StopOnConflict, LeaseTypes
  <2>2. LeasesMatch'
    BY <1>5, <2>1 DEF StopOnConflict, LeasesMatch
  <2>3. SessionsMatch'
    BY <1>2, <1>3, <1>5, <2>1 DEF StopOnConflict, SessionsMatch, LeaseTypes
  <2> QED BY <2>2, <2>3
<1>6. CASE IsFirst(p, i) /\ TakeLeases(p)
  <2> DEFINE mine == Applies(p) \union Joins(p)
  <2>1. /\ session' = [session EXCEPT ![p] = "applied"]
        /\ owned' = [owned EXCEPT ![p] = mine]
        /\ desired' = [a \in Setting |-> IF a \in Applies(p) THEN Wants[p][a]
               ELSE desired[a]]
        /\ owners' = [a \in Setting |-> IF a \in mine THEN owners[a]
               \union {p} ELSE owners[a]]
    BY <1>6 DEF TakeLeases
  <2>2. \A a \in Applies(p) : desired[a] = NoValue /\ owners[a] = {}
            /\ Wants[p][a] # NoValue
    BY DEF Applies, Asked, LeasesMatch
  <2>3. \A a \in Joins(p) : desired[a] = Wants[p][a] /\ desired[a] # NoValue
    BY DEF Joins, Asked
  <2>4. mine \subseteq Setting
    BY DEF Applies, Joins, Asked
  <2>5. \A a \in Setting : p \notin owners[a]
    BY <1>3, <1>6 DEF LeasesMatch
  <2> HIDE DEF mine
  <2>6. ASSUME NEW q \in Profile, NEW a \in Setting
        PROVE  a \in owned'[q] <=> q \in owners'[a]
    BY <2>1, <2>4, <2>5, <1>3, <1>6 DEF LeasesMatch, LeaseTypes
  <2>7. ASSUME NEW q \in Profile, NEW a \in Setting, q \in owners'[a]
        PROVE  desired'[a] = Wants[q][a]
    <3>1. CASE a \in Applies(p)
      BY <2>1, <2>2, <2>7, <3>1
    <3>2. CASE a \notin Applies(p) /\ a \in Joins(p)
      BY <2>1, <2>3, <2>7, <3>2 DEF LeasesMatch
    <3>3. CASE a \notin mine
      BY <2>1, <2>7, <3>3 DEF LeasesMatch, mine
    <3> QED BY <3>1, <3>2, <3>3 DEF mine
  <2>8. ASSUME NEW a \in Setting
        PROVE  desired'[a] # NoValue <=> owners'[a] # {}
    <3>1. CASE a \in Applies(p)
      BY <2>1, <2>2, <3>1 DEF mine
    <3>2. CASE a \notin Applies(p) /\ a \in Joins(p)
      BY <2>1, <2>3, <3>2 DEF mine
    <3>3. CASE a \notin mine
      BY <2>1, <3>3 DEF LeasesMatch, mine
    <3> QED BY <3>1, <3>2, <3>3 DEF mine
  <2>9. SessionsMatch'
    BY <1>2, <1>3, <1>6, <2>1 DEF SessionsMatch, LeaseTypes
  <2> QED BY <2>6, <2>7, <2>8, <2>9 DEF LeasesMatch
<1> QED BY <1>4, <1>5, <1>6 DEF Launched

\* on_exited: the others of a shared lease keep it.
LEMMA ExitedLeases ==
    ASSUME LeaseTypes, LeasesMatch, SessionsMatch, NEW p \in Profile, NEW i \in Instance,
           Exited(p, i)
    PROVE  LeasesMatch' /\ SessionsMatch'
<1>1. active' = [active EXCEPT ![p] = @ \ {i}]
  BY DEF Exited
<1>2. CASE ~IsLast(p, i)
  <2>1. UNCHANGED <<session, owned, desired, owners>>
    BY <1>2 DEF Exited
  <2>2. SessionsMatch'
    BY <1>1, <1>2, <2>1 DEF SessionsMatch, IsLast, LeaseTypes
  <2> QED BY <2>1, <2>2 DEF LeasesMatch
<1>3. CASE IsLast(p, i)
  <2>1. /\ session' = [session EXCEPT ![p] = "none"]
        /\ owned' = [owned EXCEPT ![p] = {}]
        /\ owners' = [a \in Setting |-> IF a \in owned[p]
                                        THEN owners[a] \ {p} ELSE owners[a]]
        /\ desired' = [a \in Setting |-> IF a \in Unshared(p)
                                         THEN NoValue ELSE desired[a]]
    BY <1>3 DEF Exited
  <2>2. \A a \in Setting : a \in Unshared(p) <=> a \in owned[p] /\ owners'[a] = {}
    BY <2>1 DEF Unshared, LeaseTypes
  <2>3. ASSUME NEW q \in Profile, NEW a \in Setting
        PROVE  a \in owned'[q] <=> q \in owners'[a]
    BY <2>1 DEF LeasesMatch, LeaseTypes
  <2>4. ASSUME NEW q \in Profile, NEW a \in Setting, q \in owners'[a]
        PROVE  desired'[a] = Wants[q][a]
    <3>1. q \in owners[a] /\ a \notin Unshared(p)
      BY <2>1, <2>2, <2>4
    <3> QED BY <2>1, <3>1 DEF LeasesMatch
  <2>5. ASSUME NEW a \in Setting
        PROVE  desired'[a] # NoValue <=> owners'[a] # {}
    <3>1. CASE a \in owned[p]
      BY <2>1, <2>2, <3>1 DEF LeasesMatch
    <3>2. CASE a \notin owned[p]
      BY <2>1, <2>2, <3>2 DEF LeasesMatch
    <3> QED BY <3>1, <3>2
  <2>6. SessionsMatch'
    BY <1>1, <2>1 DEF SessionsMatch, LeaseTypes
  <2> QED BY <2>3, <2>4, <2>5, <2>6 DEF LeasesMatch
<1> QED BY <1>2, <1>3

\* What a step that leaves the leases, the engine and the touched alone has to
\* keep: a restore list that does not change, or is empty before and after.
LEMMA SameLeases ==
    ASSUME LeaseInv, UNCHANGED <<supervisor, engine, touched>>, WorkShape',
           work'.restore = work.restore
    PROVE  LeaseInv'
BY DEF LeaseInv, LeasesMatch, SessionsMatch, ValuesFollow, supervisor, engine

\* A launch that is handled: what it applies has its first value until then.
LEMMA LaunchedValues ==
    ASSUME EngineTypes, LeaseTypes, LeaseInv, NEW p \in Profile, NEW i \in Instance,
           Launched(p, i), work.restore = {}, work'.restore = {}, touched' = touched
    PROVE  ValuesFollow'
<1> SUFFICES ASSUME NEW a \in Setting \ touched
             PROVE  IF desired'[a] # NoValue
                    THEN /\ item'[a] = "applied" /\ backup'[a] = First
                         /\ desired'[a] \in {os'[a], NoValue}
                    ELSE os'[a] = First
  BY DEF ValuesFollow
<1>1. IF desired[a] # NoValue
      THEN /\ item[a] = "applied" /\ backup[a] = First
           /\ desired[a] \in {os[a], NoValue}
      ELSE os[a] = First
  BY DEF LeaseInv, ValuesFollow
<1>2. CASE UNCHANGED <<desired, engine>>
  BY <1>1, <1>2 DEF engine
<1>3. CASE /\ IF Applies(p) = {} THEN UNCHANGED engine
                                 ELSE EngineApply(p, Applies(p), "succeeded")
           /\ TakeLeases(p)
  <2>1. desired' = [b \in Setting |-> IF b \in Applies(p) THEN Wants[p][b]
            ELSE desired[b]]
    BY <1>3 DEF TakeLeases
  <2>2. CASE a \in Applies(p)
    <3>1. /\ os' = [b \in Setting |-> IF b \in Applies(p) THEN Wants[p][b] ELSE os[b]]
          /\ item' = [b \in Setting |-> IF b \in Applies(p) THEN "applied" ELSE item[b]]
          /\ backup' = BackupsWith(Applies(p))
      BY <1>3, <2>2 DEF EngineApply
    <3>2. desired[a] = NoValue /\ Wants[p][a] # NoValue
      BY <2>2 DEF Applies, Asked
    <3>3. backup'[a] = First
      BY <1>1, <2>2, <3>1, <3>2 DEF BackupsWith
    <3> QED BY <2>1, <2>2, <3>1, <3>2, <3>3
  <2>3. CASE a \notin Applies(p)
    <3>1. desired'[a] = desired[a]
      BY <2>1, <2>3
    <3>2. os'[a] = os[a] /\ item'[a] = item[a] /\ backup'[a] = backup[a]
      BY <1>3, <2>3 DEF EngineApply, BackupsWith, engine, EngineTypes
    <3> QED BY <1>1, <3>1, <3>2
  <2> QED BY <2>2, <2>3
<1> QED BY <1>2, <1>3 DEF Launched, StopOnConflict

\* One that fails has touched whatever it changed.
LEMMA FailedLaunchValues ==
    ASSUME EngineTypes, LeaseInv, NEW e, HandleLaunchFails(e)
    PROVE  ValuesFollow'
<1> SUFFICES ASSUME NEW a \in Setting \ touched'
             PROVE  IF desired'[a] # NoValue
                    THEN /\ item'[a] = "applied" /\ backup'[a] = First
                         /\ desired'[a] \in {os'[a], NoValue}
                    ELSE os'[a] = First
  BY DEF ValuesFollow, HandleLaunchFails, AtRest
<1>1. /\ a \notin touched /\ os'[a] = os[a] /\ item'[a] = item[a]
      /\ desired'[a] = desired[a] /\ work.restore = {}
  BY DEF HandleLaunchFails, LaunchFails
<1>2. desired[a] # NoValue => backup'[a] = backup[a]
  <2>1. PICK result : EngineApply(e.profile, Applies(e.profile), result)
    BY DEF HandleLaunchFails, LaunchFails
  <2>2. desired[a] # NoValue => a \notin Applies(e.profile)
    BY DEF Applies
  <2>3. backup' = backup \/ backup' = BackupsWith(Applies(e.profile))
    BY <2>1 DEF EngineApply, engine
  <2> QED BY <2>2, <2>3 DEF BackupsWith
<1> QED BY <1>1, <1>2 DEF LeaseInv, ValuesFollow

\* The end of a session: what nobody else owns is to be restored.
LEMMA ExitedValues ==
    ASSUME LeaseTypes, LeaseInv, NEW p \in Profile, NEW i \in Instance, Exited(p, i),
           work.restore = {}, touched' = touched,
           work'.restore = IF IsLast(p, i) THEN Unshared(p) ELSE {}
    PROVE  ValuesFollow' /\ \A a \in work'.restore : desired'[a] = NoValue
<1>1. CASE ~IsLast(p, i)
  BY <1>1 DEF Exited, LeaseInv, ValuesFollow, engine
<1>2. CASE IsLast(p, i)
  <2>1. desired' = [a \in Setting |-> IF a \in Unshared(p) THEN NoValue ELSE desired[a]]
    BY <1>2 DEF Exited
  <2>2. \A a \in Unshared(p) : a \in Setting /\ desired[a] # NoValue
    BY DEF Unshared, LeaseInv, LeasesMatch, LeaseTypes
  <2>3. UNCHANGED <<os, item, backup>> /\ work'.restore = Unshared(p)
    BY <1>2 DEF Exited, engine
  <2> QED BY <2>1, <2>2, <2>3 DEF LeaseInv, ValuesFollow
<1> QED BY <1>1, <1>2

LEMMA LeasesInitially == WatcherInit => LeaseInv
<1> SUFFICES ASSUME WatcherInit
             PROVE  LeaseInv
  OBVIOUS
<1>1. LeasesMatch /\ SessionsMatch
  BY DEF WatcherInit, SupervisorInit, NewSupervisor, LeasesMatch, SessionsMatch
<1>2. WorkShape
  BY DEF WatcherInit, AtRest, WorkShape
<1>3. ValuesFollow
  BY DEF WatcherInit, SupervisorInit, NewSupervisor, AtRest, ValuesFollow
<1> QED BY <1>1, <1>2, <1>3 DEF LeaseInv

\* Every step keeps the leases and what is known of the settings.
LEMMA LeasesKept ==
    ASSUME WatcherTypes, LeaseInv, [WatcherNext]_vars
    PROVE  LeaseInv'
<1> EngineTypes /\ LeaseTypes /\ ThreadTypes /\ WorkTypes
  BY TypesInParts
<1> LeasesMatch /\ SessionsMatch /\ WorkShape /\ ValuesFollow
  BY DEF LeaseInv
<1>1. ASSUME NEW listed \in SUBSET Profile, NEW final \in BOOLEAN,
          StartSync(listed, final)
      PROVE  LeaseInv'
  <2>1. WorkShape' /\ work'.restore = work.restore
    BY <1>1 DEF StartSync, AtRest, WorkShape, WorkTypes
  <2> QED BY <1>1, <2>1, SameLeases DEF StartSync
<1>2. ASSUME NEW p \in Profile, SyncPick(p)
      PROVE  LeaseInv'
  <2>1. WorkShape' /\ work'.restore = work.restore
    BY <1>2, ProfilesAssumption
       DEF SyncPick, ExitsOf, WorkShape, WorkTypes, watcher, supervisor
  <2> QED BY <1>2, <2>1, SameLeases DEF SyncPick, watcher
<1>3. CASE SyncUnregister
  <2>1. WorkShape' /\ work'.restore = work.restore
    BY <1>3 DEF SyncUnregister, WorkShape, WorkTypes, supervisor
  <2> QED BY <1>3, <2>1, SameLeases DEF SyncUnregister
<1>4. CASE SyncEnd
  <2>1. work.cur = NoProfile
    BY <1>4 DEF SyncEnd, WorkShape
  <2>2. WorkShape' /\ work'.restore = work.restore
    BY <1>4, <2>1 DEF SyncEnd, AtRest, WorkShape, WorkTypes
  <2> QED BY <1>4, <2>2, SameLeases DEF SyncEnd, watcher
<1>5. ASSUME NEW snapshot \in SUBSET Alive, NEW confirmed \in SUBSET Instance,
             NEW after \in {"ok", "transient"}, Looks(snapshot, confirmed, after)
      PROVE  LeaseInv'
  <2>1. WorkShape' /\ work'.restore = work.restore
    BY <1>5 DEF Looks, Tick, WorkShape, WorkTypes
  <2> QED BY <1>5, <2>1, SameLeases DEF Looks, Tick
<1>6. ASSUME NEW e \in work.todo, HandleLaunch(e) \/ HandleLaunchFails(e) \/ HandleExit(e)
      PROVE  LeaseInv'
  <2>1. e \in Events /\ e.profile \in Profile /\ e.instance \in Instance
    BY DEF WorkTypes, Events
  <2>2. CASE HandleLaunch(e)
    <3>1. work.pc = "tick" /\ work'.pc = "tick" /\ work.restore = {} /\ work'.restore = {}
      BY <2>2 DEF HandleLaunch, WorkTypes
    <3>2. LeasesMatch' /\ SessionsMatch'
      BY <2>1, <2>2, LaunchedLeases DEF HandleLaunch
    <3>3. ValuesFollow'
      BY <2>1, <2>2, <3>1, LaunchedValues DEF HandleLaunch
    <3> QED BY <3>1, <3>2, <3>3 DEF WorkShape, LeaseInv
  <2>3. CASE HandleLaunchFails(e)
    <3>1. ValuesFollow'
      BY <2>3, FailedLaunchValues
    <3>2. WorkShape'
      BY <2>3 DEF HandleLaunchFails, AtRest, WorkShape
    <3>3. UNCHANGED <<session, owned, desired, owners>> /\ LeasesMatch'
      BY <2>3 DEF HandleLaunchFails, LaunchFails, LeasesMatch
    <3>4. \A p \in Profile : active[p] # {} => active'[p] # {}
      BY <2>3 DEF HandleLaunchFails, LaunchFails, RecordLaunch, LeaseTypes
    <3> QED BY <3>1, <3>2, <3>3, <3>4 DEF SessionsMatch, LeaseInv
  <2>4. CASE HandleExit(e)
    <3>1. /\ work.restore = {} /\ touched' = touched
          /\ work'.restore = IF IsLast(e.profile, e.instance)
                             THEN Unshared(e.profile) ELSE {}
          /\ work'.pc = work.pc /\ work'.remove = work.remove
          /\ work'.cur = e.profile /\ work'.todo = work.todo \ {e}
          /\ work.pc \in {"sync", "tick"}
      BY <2>4 DEF HandleExit, WorkTypes
    <3>2. LeasesMatch' /\ SessionsMatch'
      BY <2>1, <2>4, ExitedLeases DEF HandleExit
    <3>3. ValuesFollow' /\ \A a \in work'.restore : desired'[a] = NoValue
      BY <2>1, <2>4, <3>1, ExitedValues DEF HandleExit
    <3>4. work.pc = "sync" => work.cur = e.profile /\ e.profile # NoProfile
      BY <2>1, ProfilesAssumption DEF WorkShape
    <3>5. WorkShape'
      BY <3>1, <3>3, <3>4 DEF WorkShape
    <3> QED BY <3>2, <3>3, <3>5 DEF LeaseInv
  <2> QED BY <1>6, <2>2, <2>3, <2>4
<1>7. ASSUME NEW a \in work.restore, RestoreOk(a) \/ RestoreFails(a)
      PROVE  LeaseInv'
  <2>1. /\ a \in Setting /\ desired[a] = NoValue
        /\ work'.restore = work.restore \ {a} /\ work'.pc = work.pc
        /\ work'.cur = work.cur /\ work'.todo = work.todo /\ work'.remove = work.remove
        /\ UNCHANGED supervisor
    BY <1>7 DEF RestoreOk, RestoreFails, WorkTypes, WorkShape, watcher
  <2>2. LeasesMatch' /\ SessionsMatch' /\ WorkShape'
    BY <2>1 DEF supervisor, LeasesMatch, SessionsMatch, WorkShape
  <2>3. ASSUME RestoreOk(a)
        PROVE  ValuesFollow'
    <3>1. \A b \in Setting \ {a} : os'[b] = os[b] /\ item'[b] = item[b]
              /\ backup'[b] = backup[b]
      BY <2>3 DEF RestoreOk, RollbackOk, EngineTypes
    <3>2. os'[a] = backup[a]
      BY <2>1, <2>3 DEF RestoreOk, RollbackOk, EngineTypes
    <3> QED BY <2>1, <2>3, <3>1, <3>2 DEF RestoreOk, supervisor, ValuesFollow
  <2>4. ASSUME RestoreFails(a)
        PROVE  ValuesFollow'
    <3>1. \A b \in Setting \ {a} : os'[b] = os[b] /\ item'[b] = item[b]
              /\ backup'[b] = backup[b]
      BY <2>4 DEF RestoreFails, RollbackErr, EngineTypes
    <3> QED BY <2>1, <2>4, <3>1 DEF RestoreFails, supervisor, ValuesFollow
  <2> QED BY <1>7, <2>2, <2>3, <2>4 DEF LeaseInv
<1>8. CASE TickEnd
  <2>1. WorkShape' /\ work'.restore = work.restore
    BY <1>8 DEF TickEnd, AtRest, WorkShape, WorkTypes
  <2> QED BY <1>8, <2>1, SameLeases DEF TickEnd, watcher
<1>9. ASSUME UNCHANGED <<supervisor, engine, touched, work>>
      PROVE  LeaseInv'
  BY <1>9, SameLeases DEF WorkShape, supervisor
<1>10. CASE NewProcess
  <2>1. LeasesMatch' /\ SessionsMatch'
    BY <1>10 DEF NewProcess, ForgetSupervisor, NewSupervisor, LeasesMatch, SessionsMatch
  <2>2. WorkShape'
    BY <1>10 DEF NewProcess, AtRest, WorkShape
  <2>3. ValuesFollow'
    BY <1>10 DEF NewProcess, ForgetSupervisor, NewSupervisor, engine, AtRest, ValuesFollow
  <2> QED BY <2>1, <2>2, <2>3 DEF LeaseInv
<1>11. ASSUME NEW a \in Setting, UserRestores(a) \/ OutsideWrite(a)
       PROVE  LeaseInv'
  <2>1. UNCHANGED supervisor /\ work' = work /\ touched' = touched \union {a}
    BY <1>11 DEF UserRestores, OutsideWrite, watcher
  <2>2. \A b \in Setting \ {a} : os'[b] = os[b] /\ item'[b] = item[b]
            /\ backup'[b] = backup[b]
    BY <1>11 DEF UserRestores, OutsideWrite, RollbackOk, EngineTypes
  <2>3. ValuesFollow'
    BY <2>1, <2>2 DEF ValuesFollow, supervisor
  <2> QED BY <2>1, <2>3 DEF supervisor, LeaseInv, LeasesMatch, SessionsMatch, WorkShape
<1>12. ASSUME NEW i \in Instance, GameStarts(i) \/ GameEnds(i)
       PROVE  LeaseInv'
  BY <1>9, <1>12 DEF GameStarts, GameEnds, watcher
<1>13. ASSUME NEW p \in Profile, Switch(p)
       PROVE  LeaseInv'
  BY <1>9, <1>13 DEF Switch, watcher
<1>14. CASE Shutdown
  BY <1>9, <1>14 DEF Shutdown, watcher
<1>15. CASE UNCHANGED vars
  BY <1>9, <1>15 DEF vars, watcher
<1> QED
  BY EveryStep, <1>1, <1>2, <1>3, <1>4, <1>5, <1>6, <1>7, <1>8, <1>10, <1>11, <1>12,
     <1>13,
     <1>14, <1>15 DEF AnyStep

\* The leases are right in every reachable state.
LEMMA LeasesHold == WatcherSpec => [](WatcherTypes /\ LeaseInv)
<1>1. WatcherTypes /\ LeaseInv /\ [WatcherNext]_vars => LeaseInv'
  BY LeasesKept
<1> QED BY TypesHold, LeasesInitially, <1>1, PTL DEF WatcherSpec

\* Only the watcher's own rollback takes an item back in a step in which the
\* watcher does something, and it rolls back what nobody leases.
LEMMA RestoredUnowned ==
    ASSUME WatcherTypes, LeaseInv, [WatcherNext]_vars, NEW a \in Setting,
           item[a] = "applied", item'[a] = "rolled_back", work' # work
    PROVE  \A p \in Profile : a \notin owned[p]
<1> EngineTypes /\ LeaseTypes /\ LeasesMatch /\ SessionsMatch /\ WorkShape
  BY TypesInParts DEF LeaseInv
<1> SUFFICES desired[a] = NoValue
  BY NobodyOwns
<1>1. ASSUME NEW e \in work.todo, HandleLaunchFails(e)
      PROVE  desired[a] = NoValue
  <2>1. PICK result : EngineApply(e.profile, Applies(e.profile), result)
    BY <1>1 DEF HandleLaunchFails, LaunchFails
  <2>2. a \in Applies(e.profile)
    BY <2>1 DEF EngineApply, engine
  <2> QED BY <2>2 DEF Applies
<1>2. ASSUME NEW e \in work.todo, HandleLaunch(e) \/ HandleExit(e)
      PROVE  FALSE
  <2>1. item' = item \/ item' = [b \in Setting |-> IF b \in Applies(e.profile)
                                                  THEN "applied" ELSE item[b]]
    BY <1>2 DEF HandleLaunch, HandleExit, Launched, Exited, StopOnConflict, EngineApply,
                engine
  <2> QED BY <2>1
<1>3. ASSUME NEW b \in work.restore, RestoreOk(b)
      PROVE  desired[a] = NoValue
  BY <1>3 DEF RestoreOk, RollbackOk, EngineTypes, WorkShape
<1>4. ASSUME NEW b \in work.restore, RestoreFails(b)
      PROVE  FALSE
  BY <1>4 DEF RestoreFails, RollbackErr, EngineTypes
<1>5. UNCHANGED engine \/ UNCHANGED work => FALSE
  BY DEF engine
<1> QED
  BY EveryStep, <1>1, <1>2, <1>3, <1>4, <1>5
     DEF AnyStep, StartSync, SyncPick, SyncUnregister, SyncEnd, Looks, Tick, TickEnd,
         GameStarts, GameEnds, Switch, Shutdown, NewProcess, UserRestores,
         OutsideWrite, vars

\* The sessions and the leases agree, what nobody else touched holds the value of
\* its lease or the value before the first owner, and the watcher restores nothing
\* that a session owns: for any number of profiles and settings, through failed
\* calls, interference and crashes.
THEOREM LeasesAreKept == WatcherSpec => LeasedExactlyWhileOwned
<1>1. WatcherTypes /\ LeaseInv =>
        /\ \A p \in Profile, a \in Setting :
             /\ a \in owned[p] <=> p \in owners[a]
             /\ p \in owners[a] => desired[a] = Wants[p][a]
        /\ \A a \in Setting : desired[a] # NoValue <=> owners[a] # {}
        /\ \A p \in Profile :
             /\ owned[p] # {} => session[p] = "applied"
             /\ session[p] # "none" => active[p] # {}
        /\ \A a \in Setting \ touched :
             IF desired[a] # NoValue \/ a \in work.restore
             THEN /\ item[a] = "applied" /\ backup[a] = First
                  /\ desired[a] \in {os[a], NoValue}
             ELSE os[a] = First
  BY DEF LeaseInv, LeasesMatch, SessionsMatch, ValuesFollow
<1>2. WatcherTypes /\ LeaseInv /\ [WatcherNext]_vars =>
        [\A a \in Setting :
            item[a] = "applied" /\ item'[a] = "rolled_back" /\ work' # work
                => \A p \in Profile : a \notin owned[p]]_vars
  BY RestoredUnowned
<1> QED BY LeasesHold, <1>1, <1>2, PTL DEF WatcherSpec, LeasedExactlyWhileOwned

-----------------------------------------------------------------------------
(* The matcher *)

\* What the matcher has seen stays a process that exists.
LEMMA KnownKept ==
    ASSUME WatcherTypes, SeenAreKnown, [WatcherNext]_vars
    PROVE  SeenAreKnown'
<1> ThreadTypes /\ WorkTypes
  BY TypesInParts
<1>1. CASE seen' = seen /\ running' = running
  BY <1>1 DEF SeenAreKnown
<1>2. ASSUME NEW i \in Instance, GameStarts(i) \/ GameEnds(i)
      PROVE  SeenAreKnown'
  BY <1>2 DEF GameStarts, GameEnds, watcher, SeenAreKnown, ThreadTypes
<1>3. CASE SyncUnregister \/ NewProcess
  BY <1>3 DEF SyncUnregister, NewProcess, SeenAreKnown, ThreadTypes
<1>4. ASSUME NEW snapshot \in SUBSET Alive, NEW confirmed \in SUBSET Instance,
             NEW after \in {"ok", "transient"}, Looks(snapshot, confirmed, after)
      PROVE  SeenAreKnown'
  <2>1. ASSUME NEW p \in Profile, NEW i \in seen'[p]
        PROVE  i \in seen[p] \/ (p \in Matches[i] /\ running[i] = "running")
    BY <1>4, <2>1 DEF Looks, Tick, Observed, Current, Alive
  <2> QED BY <1>4, <2>1 DEF Looks, Tick, SeenAreKnown
<1> QED
  BY EveryStep, <1>1, <1>2, <1>3, <1>4
     DEF AnyStep, StartSync, SyncPick, SyncEnd, HandleLaunch, HandleLaunchFails,
         HandleExit, RestoreOk, RestoreFails, TickEnd, Switch, Shutdown, UserRestores,
         OutsideWrite, vars, watcher

\* The events of a snapshot are the difference between what was seen before and
\* what is seen now.
LEMMA EventsAreTheDifference ==
    ASSUME ThreadTypes, NEW snapshot \in SUBSET Alive, NEW confirmed \in SUBSET Instance,
           work'.todo = EventsOf(snapshot, confirmed),
               seen' = Observed(snapshot, confirmed),
           NEW p \in Profile
    PROVE  /\ seen'[p] = (seen[p] \ Noted("Exited", p)') \union Noted("Launched", p)'
           /\ Noted("Exited", p)' \intersect Noted("Launched", p)' = {}
<1>1. \A i \in Instance, kind \in {"Launched", "Exited"} :
          [kind |-> kind, profile |-> p, instance |-> i] \in Events
  BY DEF Events
<1>2. \A i \in Instance :
          i \in Noted("Exited", p)' <=>
             p \in registered /\ i \in Missing(p, snapshot) \intersect confirmed
  BY <1>1 DEF Noted, EventsOf
<1>3. \A i \in Instance :
          i \in Noted("Launched", p)' <=>
             p \in registered /\ i \in Current(p, snapshot) \ seen[p]
  BY <1>1 DEF Noted, EventsOf
<1>4. Noted("Exited", p)' \subseteq Instance /\ Noted("Launched", p)' \subseteq Instance
  BY DEF Noted
<1>5. seen[p] \subseteq Instance /\ Current(p, snapshot) \subseteq Instance
  BY DEF ThreadTypes, Current, Alive
<1>6. seen'[p] = IF p \in registered
                 THEN (seen[p] \ (Missing(p, snapshot) \intersect confirmed))
                      \union Current(p, snapshot)
                 ELSE seen[p]
  BY DEF Observed
<1> QED BY <1>2, <1>3, <1>4, <1>5, <1>6 DEF Missing

LEMMA MatcherInitially == WatcherInit => MatcherInv
<1> SUFFICES ASSUME WatcherInit
             PROVE  SeenAreKnown /\ Ahead
  BY DEF MatcherInv
<1>1. SeenAreKnown
  BY DEF WatcherInit, SeenAreKnown
<1>2. Ahead
  BY DEF WatcherInit, SupervisorInit, NewSupervisor, AtRest, Ahead
<1> QED BY <1>1, <1>2

\* One event that is handled: the supervisor catches up by it.
LEMMA EventHandled ==
    ASSUME WatcherTypes, WorkShape, Ahead, NEW e \in work.todo, HandleLaunch(e)
        \/ HandleExit(e)
    PROVE  Ahead'
<1> LeaseTypes /\ ThreadTypes /\ WorkTypes
  BY TypesInParts
<1> DEFINE p == e.profile  i == e.instance
<1>1. /\ p \in Profile /\ i \in Instance
      /\ e = [kind |-> e.kind, profile |-> p, instance |-> i]
  BY DEF WorkTypes, Events
<1>2. /\ work'.todo = work.todo \ {e} /\ work'.pc = work.pc /\ work'.cur = p
      /\ UNCHANGED <<seen, registered>>
  BY DEF HandleLaunch, HandleExit, Launched, Exited, WorkTypes
<1>3. \A kind \in {"Launched", "Exited"}, q \in Profile :
          Noted(kind, q)' = IF kind = e.kind /\ q = p THEN Noted(kind, q) \ {i}
                            ELSE Noted(kind, q)
  BY <1>1, <1>2 DEF Noted
<1>4. i \in Noted(e.kind, p)
  BY <1>1 DEF Noted
<1> HIDE DEF p, i
<1>5. CASE HandleLaunch(e)
  <2>1. work.pc = "tick" /\ e.kind = "Launched" /\ p \in registered
    BY <1>5 DEF HandleLaunch, Ahead, p
  <2>2. active' = [active EXCEPT ![p] = @ \union {i}]
    BY <1>5, <2>1 DEF HandleLaunch, Launched, RecordLaunch, p, i
  <2>3. ASSUME NEW q \in Profile
        PROVE  /\ seen[q] = (active'[q] \ Noted("Exited", q)')
                               \union Noted("Launched", q)'
               /\ Noted("Exited", q)' \intersect Noted("Launched", q)' = {}
    <3>1. /\ seen[q] = (active[q] \ Noted("Exited", q)) \union Noted("Launched", q)
          /\ Noted("Exited", q) \intersect Noted("Launched", q) = {}
      BY <2>1 DEF Ahead
    <3>2. Noted("Exited", q)' = Noted("Exited", q)
      BY <1>3, <2>1
    <3>3. CASE q = p
      BY <1>1, <1>3, <1>4, <2>1, <2>2, <3>1, <3>2, <3>3 DEF LeaseTypes
    <3>4. CASE q # p
      BY <1>3, <2>1, <2>2, <3>1, <3>2, <3>4 DEF LeaseTypes
    <3> QED BY <3>3, <3>4
  <2> QED BY <1>2, <2>1, <2>3 DEF Ahead
<1>6. CASE HandleExit(e)
  <2>1. work.pc \in {"sync", "tick"} /\ e.kind = "Exited"
    BY <1>6 DEF HandleExit
  <2>2. active' = [active EXCEPT ![p] = @ \ {i}]
    BY <1>6 DEF HandleExit, Exited, p, i
  <2>3. CASE work.pc = "tick"
    <3>1. ASSUME NEW q \in Profile
          PROVE  /\ seen[q] = (active'[q] \ Noted("Exited", q)')
                                 \union Noted("Launched", q)'
                 /\ Noted("Exited", q)' \intersect Noted("Launched", q)' = {}
      <4>1. /\ seen[q] = (active[q] \ Noted("Exited", q)) \union Noted("Launched", q)
            /\ Noted("Exited", q) \intersect Noted("Launched", q) = {}
        BY <2>3 DEF Ahead
      <4>2. Noted("Launched", q)' = Noted("Launched", q)
        BY <1>3, <2>1
      <4>3. CASE q = p
        BY <1>1, <1>3, <1>4, <2>1, <2>2, <4>1, <4>2, <4>3 DEF LeaseTypes
      <4>4. CASE q # p
        BY <1>3, <2>1, <2>2, <4>1, <4>2, <4>4 DEF LeaseTypes
      <4> QED BY <4>3, <4>4
    <3> QED BY <1>2, <2>3, <3>1 DEF Ahead
  <2>4. CASE work.pc = "sync"
    <3>1. work.cur = p
      BY <2>4 DEF WorkShape, p
    <3>2. ASSUME NEW q \in Profile
          PROVE  IF q = p THEN active'[q] = Noted("Exited", q)' ELSE seen[q] = active'[q]
      BY <1>1, <1>3, <2>1, <2>2, <2>4, <3>1 DEF Ahead, LeaseTypes
    <3> QED BY <1>2, <2>4, <3>2 DEF Ahead
  <2> QED BY <2>1, <2>3, <2>4
<1> QED BY <1>5, <1>6

\* What is handled and what is still ahead remain all the matcher has seen.
LEMMA AheadKept ==
    ASSUME WatcherTypes, WorkShape, health # "sticky" => Ahead, [WatcherNext]_vars,
           health' # "sticky"
    PROVE  Ahead'
<1> LeaseTypes /\ ThreadTypes /\ WorkTypes
  BY TypesInParts
<1> DEFINE Stays == UNCHANGED <<seen, active, registered>> /\ work'.pc = work.pc
                    /\ work'.todo = work.todo /\ work'.cur = work.cur
<1>1. CASE NewProcess
  BY <1>1 DEF NewProcess, ForgetSupervisor, NewSupervisor, AtRest, Ahead
<1>2. ASSUME health = "sticky", ~NewProcess
      PROVE  FALSE
  BY <1>2, EveryStep
     DEF AnyStep, StartSync, SyncPick, SyncUnregister, SyncEnd, Record, Looks, Tick,
         HandleLaunch, HandleLaunchFails, HandleExit, RestoreOk, RestoreFails, TickEnd,
         GameStarts, GameEnds, Switch, Shutdown, UserRestores, OutsideWrite, vars
<1> SUFFICES ASSUME Ahead, ~NewProcess
             PROVE  Ahead'
  BY <1>1, <1>2
<1>3. CASE Stays
  BY <1>3 DEF Ahead, Noted
<1> HIDE DEF Stays
<1>4. ASSUME NEW listed \in SUBSET Profile, NEW final \in BOOLEAN,
          StartSync(listed, final)
      PROVE  Ahead'
  <2>1. /\ work'.pc = "sync" /\ work'.cur = NoProfile
        /\ seen = active /\ seen' = seen /\ active' = active
    BY <1>4 DEF StartSync, AtRest, Ahead, supervisor
  <2> QED BY <2>1, ProfilesAssumption DEF Ahead
<1>5. ASSUME NEW p \in Profile, SyncPick(p)
      PROVE  Ahead'
  <2>1. /\ work.pc = "sync" /\ work.cur = NoProfile
        /\ work'.pc = "sync" /\ work'.cur = p /\ work'.todo = ExitsOf(p)
        /\ seen' = seen /\ active' = active
    BY <1>5 DEF SyncPick, WorkTypes, watcher, supervisor
  <2>2. \A q \in Profile : seen[q] = active[q]
    BY <2>1, ProfilesAssumption DEF Ahead
  <2>3. Noted("Exited", p)' = seen[p]
    BY <2>1 DEF Noted, ExitsOf, Events, ThreadTypes
  <2> QED BY <2>1, <2>2, <2>3 DEF Ahead
<1>6. CASE SyncUnregister
  <2> DEFINE p == work.cur
  <2>1. /\ work.pc = "sync" /\ p # NoProfile /\ p \in Profile /\ work.todo = {}
        /\ work'.pc = "sync" /\ work'.cur = NoProfile /\ active' = active
    BY <1>6 DEF SyncUnregister, WorkTypes, supervisor
  <2>2. active[p] = {}
    BY <2>1 DEF Ahead, Noted
  <2>3. seen' = [seen EXCEPT ![p] = {}]
    BY <1>6, <2>2 DEF SyncUnregister
  <2>4. \A q \in Profile : q # p => seen[q] = active[q]
    BY <2>1 DEF Ahead
  <2>5. \A q \in Profile : seen'[q] = active'[q]
    BY <2>1, <2>2, <2>3, <2>4 DEF ThreadTypes
  <2> QED BY <2>1, <2>5, ProfilesAssumption DEF Ahead
<1>7. CASE SyncEnd
  <2>1. work.pc = "sync" /\ work.cur = NoProfile
    BY <1>7 DEF SyncEnd, WorkShape
  <2>2. seen = active
    BY <2>1, ProfilesAssumption DEF Ahead, ThreadTypes, LeaseTypes
  <2>3. work'.pc \in {"stopped", "idle", "look"} /\ seen' = seen /\ active' = active
    BY <1>7 DEF SyncEnd, AtRest, watcher, supervisor
  <2> QED BY <2>2, <2>3 DEF Ahead
<1>8. ASSUME NEW snapshot \in SUBSET Alive, NEW confirmed \in SUBSET Instance,
             NEW after \in {"ok", "transient"}, Looks(snapshot, confirmed, after)
      PROVE  Ahead'
  <2>1. /\ seen = active /\ active' = active /\ registered' = registered
        /\ work'.pc = "tick" /\ work'.todo = EventsOf(snapshot, confirmed)
        /\ seen' = Observed(snapshot, confirmed)
    BY <1>8 DEF Looks, Tick, Ahead, WorkTypes, supervisor
  <2>2. \A e \in EventsOf(snapshot, confirmed) : e.profile \in registered
    BY DEF EventsOf
  <2> QED BY <2>1, <2>2, EventsAreTheDifference DEF Ahead
<1>9. ASSUME NEW e \in work.todo, HandleLaunch(e) \/ HandleLaunchFails(e) \/ HandleExit(e)
      PROVE  Ahead'
  <2>1. ~HandleLaunchFails(e)
    BY DEF HandleLaunchFails
  <2> QED BY <1>9, <2>1, EventHandled
<1>10. CASE TickEnd
  <2>1. work.pc = "tick" /\ work.todo = {}
    BY <1>10 DEF TickEnd
  <2>2. \A p \in Profile : seen[p] = active[p]
    BY <2>1 DEF Ahead, Noted
  <2>3. seen = active
    BY <2>2 DEF ThreadTypes, LeaseTypes
  <2> QED BY <1>10, <2>3 DEF TickEnd, AtRest, watcher, supervisor, Ahead
<1>11. ASSUME NEW a \in work.restore, RestoreOk(a) \/ RestoreFails(a)
       PROVE  Stays
  BY <1>11 DEF RestoreOk, RestoreFails, watcher, supervisor, WorkTypes, Stays
<1>12. ASSUME NEW i \in Instance, GameStarts(i) \/ GameEnds(i)
       PROVE  Stays
  BY <1>12 DEF GameStarts, GameEnds, watcher, supervisor, Stays
<1>13. ASSUME NEW p \in Profile, Switch(p)
       PROVE  Stays
  BY <1>13 DEF Switch, watcher, supervisor, Stays
<1>14. CASE Shutdown \/ UNCHANGED vars
  BY <1>3, <1>14 DEF Shutdown, vars, watcher, supervisor, Stays
<1>15. ASSUME NEW a \in Setting, UserRestores(a) \/ OutsideWrite(a)
       PROVE  Stays
  BY <1>15 DEF UserRestores, OutsideWrite, watcher, supervisor, Stays
<1> QED
  BY EveryStep, <1>3, <1>4, <1>5, <1>6, <1>7, <1>8, <1>9, <1>10, <1>11, <1>12, <1>13,
     <1>14,
     <1>15 DEF AnyStep

\* The matcher's part of the invariant, with what it rests on.
LEMMA MatcherHolds == WatcherSpec => [](WatcherTypes /\ LeaseInv /\ MatcherInv)
<1>1. WatcherTypes /\ LeaseInv /\ MatcherInv /\ [WatcherNext]_vars => MatcherInv'
  BY KnownKept, AheadKept DEF MatcherInv, LeaseInv
<1> QED BY LeasesHold, MatcherInitially, <1>1, PTL DEF WatcherSpec

\* What is forgotten is forgotten for a reason.
LEMMA ForgottenAreGone ==
    ASSUME WatcherTypes, SeenAreKnown, [WatcherNext]_vars, NEW p \in Profile,
           NEW i \in seen[p], i \notin seen'[p]
    PROVE  running[i] = "gone" \/ p \notin registered'
<1> ThreadTypes /\ WorkTypes
  BY TypesInParts
<1>1. CASE SyncUnregister \/ NewProcess
  BY <1>1 DEF SyncUnregister, NewProcess, ThreadTypes
<1>2. ASSUME NEW snapshot \in SUBSET Alive, NEW confirmed \in SUBSET Instance,
             NEW after \in {"ok", "transient"}, Looks(snapshot, confirmed, after)
      PROVE  running[i] = "gone"
  <2>1. p \in registered /\ i \in Missing(p, snapshot) \intersect confirmed
    BY <1>2 DEF Looks, Tick, Observed
  <2>2. i \in Instance /\ p \in Matches[i] /\ running[i] # "new"
    BY DEF ThreadTypes, SeenAreKnown
  <2>3. i \notin Alive
    BY <1>2, <2>1, <2>2 DEF Looks
  <2> QED BY <2>2, <2>3 DEF Alive, ThreadTypes
<1>3. seen' # seen
  OBVIOUS
<1> QED
  BY EveryStep, <1>1, <1>2, <1>3
     DEF AnyStep, StartSync, SyncPick, SyncEnd, HandleLaunch, HandleLaunchFails,
         HandleExit, RestoreOk, RestoreFails, TickEnd, GameStarts, GameEnds, Switch,
         Shutdown, UserRestores, OutsideWrite, vars, watcher

\* Between two cycles the matcher and the supervisor agree on who is playing as
\* long as the watcher acts on processes, and no incomplete snapshot makes it forget
\* a process that goes on: for any number of processes and any matches of theirs.
THEOREM MatcherIsRight == WatcherSpec => MatcherAgrees
<1>1. MatcherInv => (work.pc = "idle" /\ health # "sticky" => seen = active)
  BY DEF MatcherInv, Ahead
<1>2. WatcherTypes /\ MatcherInv /\ [WatcherNext]_vars =>
        [\A p \in Profile : \A i \in seen[p] :
            i \notin seen'[p] => running[i] = "gone" \/ p \notin registered']_vars
  BY ForgottenAreGone DEF MatcherInv
<1> QED BY MatcherHolds, <1>1, <1>2, PTL DEF WatcherSpec, MatcherAgrees

=============================================================================
