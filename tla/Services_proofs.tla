--------------------------- MODULE Services_proofs ----------------------------
(***************************************************************************)
(* The services beside the engine: the file of profiles, the recorded runs, *)
(* the theme schedule, the hot corners, the taskbar watcher and the restart *)
(* of the shell, for any limits, times, screens and processes, however many *)
(* saves and calls fail and however often the program ends.                 *)
(***************************************************************************)
EXTENDS ProfileStore, RecordedRuns, ThemeSchedule, HotCorner, TaskbarWatcher,
        ShellRestart, FiniteSetTheorems, SequenceTheorems, TLAPS

-----------------------------------------------------------------------------
(* ProfileStore: the file opens again. *)

\* What every collection of profiles keeps to, in memory, in the copy that is saved
\* and in the file: the rules of loading, except for the kind of file.
Sound(profiles) ==
    /\ profiles = [id \in DOMAIN profiles |-> profiles[id]]
    /\ DOMAIN profiles \subseteq ProfileId
    /\ Cardinality(DOMAIN profiles) <= MaxProfiles
    /\ \A id \in DOMAIN profiles :
          /\ profiles[id] \in StoredProfile
          /\ Loads(profiles[id]) \/ profiles[id].kind = "document"

\* What the memory, the copy and the file have to do with each other.
Agree ==
    /\ psFile = [readable |-> psFile.readable, profiles |-> psFile.profiles]
    /\ psTodo \in Seq(RequestKind)
    /\ psState = "up" /\ ~psStale => psFile.profiles = psMemory
    /\ psRunning \subseteq Begun(psFile.profiles)
    /\ psState = "up" => psRunning \subseteq Begun(psMemory)
    /\ psSaving # "no" => psState = "up" /\ Begun(psMemory) \subseteq DOMAIN psNext
    /\ psSaving = "acknowledge" => Begun(psNext) \subseteq Begun(psMemory)

StoreInv ==
    /\ Sound(psFile.profiles) /\ Sound(psMemory) /\ Sound(psNext)
    /\ Agree

\* The set of ids is finite, and so is every set of ids in use.
LEMMA IdsFinite ==
    /\ IsFiniteSet(ProfileId) /\ Cardinality(ProfileId) = MaxProfiles + 1
    /\ \A D \in SUBSET ProfileId : IsFiniteSet(D) /\ Cardinality(D) \in Nat
<1>1. MaxProfiles \in Nat
  BY StoreAssumption
<1>2. IsFiniteSet(1..(MaxProfiles + 1))
          /\ Cardinality(1..(MaxProfiles + 1)) = MaxProfiles + 1
  BY <1>1, FS_Interval
<1> QED BY <1>2, FS_Subset, FS_CardinalityType DEF ProfileId

\* No profiles at all are sound.
LEMMA EmptyIsSound == Sound(NoProfiles)
<1>1. DOMAIN NoProfiles = {}
  BY DEF NoProfiles
<1>2. Cardinality({}) = 0
  BY FS_EmptySet
<1> QED BY <1>1, <1>2, StoreAssumption DEF Sound, NoProfiles

LEMMA StoreInitially == StoreInit => StoreInv
<1> SUFFICES ASSUME StoreInit PROVE StoreInv
  OBVIOUS
<1>1. psFile.profiles = NoProfiles /\ psMemory = NoProfiles /\ psNext = NoProfiles
  BY DEF StoreInit
<1>2. Agree
  BY <1>1 DEF StoreInit, Agree, Begun
<1> QED BY <1>1, <1>2, EmptyIsSound DEF StoreInv

\* While there is room a new id can be found, and there is room for it.
LEMMA RoomForOne ==
    ASSUME NEW D \in SUBSET ProfileId, Cardinality(D) < MaxProfiles
    PROVE  /\ \E i \in ProfileId : i \notin D
           /\ \A i : Cardinality(D \union {i}) <= MaxProfiles
<1>1. D # ProfileId
  BY IdsFinite, StoreAssumption
<1>2. IsFiniteSet(D) /\ Cardinality(D) \in Nat
  BY IdsFinite
<1>3. \A i : Cardinality(D \union {i}) \in {Cardinality(D), Cardinality(D) + 1}
  BY <1>2, FS_AddElement
<1>4. ASSUME NEW i PROVE Cardinality(D \union {i}) <= MaxProfiles
  <2> DEFINE old == Cardinality(D)
             new == Cardinality(D \union {i})
  <2>1. old \in Nat /\ new \in {old, old + 1} /\ old < MaxProfiles /\ MaxProfiles \in Nat
    BY <1>2, <1>3, StoreAssumption
  <2> HIDE DEF old, new
  <2>2. new <= MaxProfiles
    BY <2>1
  <2> QED BY <2>2 DEF new
<1> QED BY <1>1, <1>4

\* One profile is added or replaced.
LEMMA WithIsSound ==
    ASSUME Sound(psMemory), NEW id \in ProfileId, NEW p \in StoredProfile,
           Loads(p) \/ p.kind = "document",
           id \in DOMAIN psMemory \/ Cardinality(DOMAIN psMemory) < MaxProfiles
    PROVE  /\ Sound(With(id, p))
           /\ DOMAIN With(id, p) = DOMAIN psMemory \union {id}
           /\ \A i \in DOMAIN With(id, p) :
                 With(id, p)[i] = IF i = id THEN p ELSE psMemory[i]
<1>1. Cardinality(DOMAIN psMemory \union {id}) <= MaxProfiles
  <2>1. CASE id \in DOMAIN psMemory
    <3>1. DOMAIN psMemory \union {id} = DOMAIN psMemory
      BY <2>1
    <3> QED BY <3>1 DEF Sound
  <2>2. CASE Cardinality(DOMAIN psMemory) < MaxProfiles
    BY <2>2, RoomForOne DEF Sound
  <2> QED BY <2>1, <2>2
<1> QED BY <1>1 DEF Sound, With

\* A request is a sequence of kinds.
LEMMA RequestsAreSequences == Request \subseteq Seq(RequestKind)
<1>1. ASSUME NEW k \in RequestKind
      PROVE  <<k>> \in Seq(RequestKind) /\ <<k, "game">> \in Seq(RequestKind)
  <2>1. "game" \in RequestKind
    BY DEF RequestKind
  <2> QED BY <2>1
<1> QED BY <1>1 DEF Request

\* A command other than an import keeps the profiles it does not work on.
LEMMA CommandKeeps ==
    ASSUME StoreInv, StoreUserStep PROVE StoreInv'
<1> USE DEF StoreIdle, StoreReady, Saving, Command
<1>1. CASE StartImport
  BY <1>1, RequestsAreSequences DEF StartImport, StoreInv, Agree, Sound, Begun
<1>2. CASE SetRibbonColor
  BY <1>2 DEF SetRibbonColor, StoreInv, Agree, Sound, Begun
<1>3. ASSUME NEW id \in DOMAIN psMemory, NEW enabled \in BOOLEAN, SetEnabled(id, enabled)
      PROVE  StoreInv'
  <2> DEFINE p == [psMemory[id] EXCEPT !.enabled = enabled]
  <2>1. p \in StoredProfile /\ p.run = psMemory[id].run
    BY DEF StoreInv, Sound, StoredProfile
  <2>2. Loads(p) \/ p.kind = "document"
    BY <1>3 DEF StoreInv, Sound, StoredProfile, Loads, SetEnabled, IsManual
  <2>3. id \in ProfileId
    BY DEF StoreInv, Sound
  <2> HIDE DEF p
  <2>4. Sound(With(id, p)) /\ Begun(psMemory) \subseteq DOMAIN With(id, p)
    BY <2>1, <2>2, <2>3, WithIsSound DEF StoreInv, Begun
  <2> QED BY <1>3, <2>4 DEF SetEnabled, p, StoreInv, Agree, Sound, Begun
<1>4. ASSUME NEW id \in DOMAIN psMemory, SetActiveRun(id)
      PROVE  StoreInv'
  <2>1. PICK items \in 1..2 : psNext' = With(id, [psMemory[id] EXCEPT !.run = items])
    BY <1>4 DEF SetActiveRun
  <2> DEFINE p == [psMemory[id] EXCEPT !.run = items]
  <2>2. p \in StoredProfile
    BY DEF StoreInv, Sound, StoredProfile
  <2>3. Loads(p) \/ p.kind = "document"
    BY <1>4 DEF StoreInv, Sound, StoredProfile, Loads, SetActiveRun, IsManual
  <2>4. id \in ProfileId
    BY DEF StoreInv, Sound
  <2> HIDE DEF p
  <2>5. Sound(With(id, p)) /\ Begun(psMemory) \subseteq DOMAIN With(id, p)
    BY <2>2, <2>3, <2>4, WithIsSound DEF StoreInv, Begun
  <2>6. /\ psNext' = With(id, p) /\ psSaving' = "save" /\ psState = "up"
        /\ UNCHANGED <<psFile, psMemory, psState, psTodo, psStale, psRunning>>
    BY <1>4, <2>1 DEF SetActiveRun, p
  <2> QED BY <2>5, <2>6 DEF StoreInv, Agree, Sound, Begun
<1>5. ASSUME NEW id \in DOMAIN psMemory, AcknowledgeRolledBackItem(id)
      PROVE  StoreInv'
  <2> DEFINE p == [psMemory[id] EXCEPT !.run = @ - 1]
  <2>1. p \in StoredProfile /\ p.kind = psMemory[id].kind
            /\ p.enabled = psMemory[id].enabled
    BY <1>5 DEF StoreInv, Sound, StoredProfile, AcknowledgeRolledBackItem
  <2>2. Loads(p) \/ p.kind = "document"
    BY <1>5, <2>1 DEF StoreInv, Sound, Loads, AcknowledgeRolledBackItem
  <2>3. id \in ProfileId
    BY DEF StoreInv, Sound
  <2> HIDE DEF p
  <2>4. /\ Sound(With(id, p))
        /\ DOMAIN With(id, p) = DOMAIN psMemory
        /\ \A i \in DOMAIN psMemory : i # id => With(id, p)[i] = psMemory[i]
    BY <2>1, <2>2, <2>3, WithIsSound DEF StoreInv
  <2>5. id \in Begun(psMemory)
    BY <1>5 DEF AcknowledgeRolledBackItem, Begun
  <2>6. /\ Begun(psMemory) \subseteq DOMAIN With(id, p)
        /\ Begun(With(id, p)) \subseteq Begun(psMemory)
    BY <2>4, <2>5 DEF Begun
  <2> QED
    BY <1>5, <2>4, <2>6 DEF AcknowledgeRolledBackItem, p, StoreInv, Agree, Sound, Begun
<1>6. ASSUME NEW id \in DOMAIN psMemory, Delete(id)
      PROVE  StoreInv'
  <2> DEFINE rest == [i \in DOMAIN psMemory \ {id} |-> psMemory[i]]
  <2>1. Cardinality(DOMAIN rest) <= MaxProfiles
    <3>1. DOMAIN rest \subseteq DOMAIN psMemory
      OBVIOUS
    <3>2. Cardinality(DOMAIN rest) <= Cardinality(DOMAIN psMemory)
      BY <3>1, IdsFinite, FS_Subset DEF StoreInv, Sound
    <3>3. /\ Cardinality(DOMAIN rest) \in Nat /\ Cardinality(DOMAIN psMemory) \in Nat
          /\ Cardinality(DOMAIN psMemory) <= MaxProfiles
      BY <3>1, IdsFinite DEF StoreInv, Sound
    <3> QED BY <3>2, <3>3, StoreAssumption
  <2>2. Sound(rest) /\ Begun(psMemory) \subseteq DOMAIN rest
    BY <1>6, <2>1 DEF StoreInv, Sound, Begun, Delete, MayDelete
  <2> QED BY <1>6, <2>2 DEF Delete, StoreInv, Agree, Sound, Begun
<1> QED BY <1>1, <1>2, <1>3, <1>4, <1>5, <1>6 DEF StoreUserStep

\* What an import has still to create are requests.
LEMMA HeadOfTodo ==
    ASSUME StoreInv, Create
    PROVE  Head(psTodo) \in RequestKind /\ psTodo' \in Seq(RequestKind)
BY DEF StoreInv, Agree, Create

\* A profile of an import is refused or sound.
LEMMA CreateKeeps ==
    ASSUME StoreInv, Create PROVE StoreInv'
<1> USE DEF StoreReady, Saving
<1>1. CASE Accepted(Head(psTodo)) /\ HasRoom
  <2> DEFINE id == CHOOSE i \in ProfileId : i \notin DOMAIN psMemory
             p == [kind |-> Head(psTodo), enabled |-> FALSE, run |-> 0]
  <2>1. id \in ProfileId /\ id \notin DOMAIN psMemory
    BY <1>1, RoomForOne DEF HasRoom, StoreInv, Sound
  <2>2. p \in StoredProfile /\ (Loads(p) \/ p.kind = "document")
    BY <1>1, HeadOfTodo DEF StoredProfile, Accepted, Loads, RequestKind
  <2>3. psSaving' = "save" /\ psState = "up" /\ psNext' = With(id, p)
    BY <1>1 DEF Create
  <2>4. UNCHANGED <<psFile, psMemory, psState, psStale, psRunning>>
    BY <1>1 DEF Create
  <2> HIDE DEF id, p
  <2>5. Sound(With(id, p)) /\ DOMAIN psMemory \subseteq DOMAIN With(id, p)
    BY <1>1, <2>1, <2>2, WithIsSound DEF HasRoom, StoreInv
  <2> QED BY <2>3, <2>4, <2>5, HeadOfTodo DEF StoreInv, Agree, Sound, Begun
<1>2. CASE ~(Accepted(Head(psTodo)) /\ HasRoom)
  BY <1>2, HeadOfTodo DEF Create, StoreInv, Agree, Sound, Begun
<1> QED BY <1>1, <1>2

\* Saving, and what is kept when it fails.
LEMMA SavingKeeps ==
    ASSUME StoreInv, Persist \/ PersistFails PROVE StoreInv'
<1>1. CASE Persist
  BY <1>1 DEF Persist, BeginAndEnd, StoreInv, Agree, Sound, Begun, StoredProfile
<1>2. CASE PersistFails
  BY <1>2 DEF PersistFails, KeepsOnFailure, BeginAndEnd, StoreInv, Agree, Sound, Begun,
              StoredProfile
<1> QED BY <1>1, <1>2

\* Crashes, the next start, and others.
LEMMA RestartKeeps ==
    ASSUME StoreInv, StoreCrash \/ Open \/ OthersDamageFile PROVE StoreInv'
<1>1. CASE StoreCrash
  BY <1>1, EmptyIsSound DEF StoreCrash, BeginAndEnd, StoreInv, Agree, Sound, Begun,
                            StoredProfile
<1>2. CASE Open
  BY <1>2 DEF Open, StoreInv, Agree, Sound, Begun
<1>3. CASE OthersDamageFile
  BY <1>3 DEF OthersDamageFile, StoreInv, Agree, Sound, Begun
<1> QED BY <1>1, <1>2, <1>3

\* The invariant of every step.
LEMMA StoreInvariant == StoreSpec => []StoreInv
<1>1. StoreInv /\ [StoreNext]_psvars => StoreInv'
  <2> SUFFICES ASSUME StoreInv, [StoreNext]_psvars
               PROVE  StoreInv'
    OBVIOUS
  <2>1. CASE UNCHANGED psvars
    BY <2>1 DEF psvars, StoreInv, Agree, Sound, Begun
  <2>2. CASE StoreStep
    BY <2>2, SavingKeeps, CreateKeeps, RestartKeeps DEF StoreStep
  <2>3. CASE StoreUserStep
    BY <2>3, CommandKeeps
  <2>4. CASE StoreFault
    BY <2>4, SavingKeeps, RestartKeeps DEF StoreFault
  <2> QED BY <2>1, <2>2, <2>3, <2>4 DEF StoreNext
<1> QED BY StoreInitially, <1>1, PTL DEF StoreSpec

\* For any limit of profiles the next start opens the file, unless a profile of no
\* .exe is in it; memory and file agree, and a mode that was begun keeps its record.
THEOREM StoreReopens == StoreSpec => []StoreOpensAgain
<1>1. StoreInv => StoreOpensAgain
  BY DEF StoreInv, Agree, Sound, StoreOpensAgain, Opens, StoreReady
<1> QED BY StoreInvariant, <1>1, PTL

-----------------------------------------------------------------------------
(* RecordedRuns: a run that goes on is in its record. *)

ItemStates == {"none", "applied", "restored", "recovery"}

\* The items from the n-th down to the first.
Down(n) == [i \in 1..n |-> n - i + 1]
Unfinished == {Down(n) : n \in 1..MaxItems}
Left == Unfinished \union {<< >>}
RunRecord == [run : Run, left : Unfinished] \union {NoRun}

RunTypes ==
    /\ rrItem \in [Run -> [Ordinal -> ItemStates]]
    /\ rrMemory \in RunRecord /\ rrDisk \in RunRecord
    /\ \/ rrCommand.pc \in {"idle", "down"}
       \/ /\ rrCommand \in [pc : {"record", "undo", "rollback"}, run : Run,
                 left : Unfinished]
       \/ /\ rrCommand \in [pc : {"save"}, run : Run, left : Left]

Lists(record, r, k) == record.run = r /\ Contains(record.left, k)

\* A run begins once; the records are of runs that have begun, and neither they nor a
\* run about to be recorded were ever lost.
RecordsAreOfRuns ==
    /\ \A r \in rrLost \union rrUnread : r \in Run /\ Started(r)
    /\ \A record \in {rrMemory, rrDisk} :
          record # NoRun => Started(record.run) /\ record.run \notin rrLost \union rrUnread
    /\ rrCommand.pc \in {"record", "undo"} =>
          /\ Started(rrCommand.run) /\ rrMemory = NoRun
          /\ rrDisk # NoRun => rrDisk.run # rrCommand.run
    /\ rrCommand.pc = "record" => rrCommand.run \notin rrLost \union rrUnread

\* A command that ends a run works through the record in memory, from its head.
CommandFollowsRecord ==
    /\ rrCommand.pc = "rollback" =>
          rrMemory = [run |-> rrCommand.run, left |-> rrCommand.left]
    /\ rrCommand.pc = "save" =>
          /\ rrMemory # NoRun /\ rrMemory.run = rrCommand.run
          /\ rrCommand.left = Tail(rrMemory.left)
          /\ Head(rrMemory.left) \notin Applied(rrCommand.run)

\* What is applied is about to be recorded, or in both records, or in the file when
\* there is no program.
AppliedIsListed ==
    \A r \in Run \ (rrLost \union rrUnread) : \A k \in Applied(r) :
        \/ rrCommand.pc \in {"record", "undo"} /\ Lists(rrCommand, r, k)
        \/ Lists(rrDisk, r, k) /\ (rrCommand.pc = "down" \/ Lists(rrMemory, r, k))

RunsInv == RunTypes /\ RecordsAreOfRuns /\ CommandFollowsRecord /\ AppliedIsListed

-----------------------------------------------------------------------------
\* What is left of a run, taken apart.
LEMMA DownFacts ==
    ASSUME NEW n \in Nat \ {0}
    PROVE  /\ Down(n) # << >> /\ Len(Down(n)) = n /\ Head(Down(n)) = n
           /\ Tail(Down(n)) = IF n = 1 THEN << >> ELSE Down(n - 1)
           /\ \A k : Contains(Down(n), k) <=> k \in 1..n
<1>1. Down(n) \in Seq(1..n) /\ Len(Down(n)) = n /\ DOMAIN Down(n) = 1..n
  BY DEF Down
<1>2. \A i \in 1..n : Down(n)[i] = n - i + 1
  BY DEF Down
<1>3. Down(n) # << >> /\ Head(Down(n)) = n
  BY <1>1, <1>2
<1>4. Tail(Down(n)) = IF n = 1 THEN << >> ELSE Down(n - 1)
  <2>1. Tail(Down(n)) \in Seq(1..n) /\ Len(Tail(Down(n))) = n - 1
    BY <1>1, <1>3
  <2>2. CASE n = 1
    <3>1. Tail(Down(n)) # << >> => Len(Tail(Down(n))) \in Nat \ {0}
      BY <2>1, EmptySeq, Zenon
    <3> QED BY <2>1, <2>2, <3>1
  <2>3. CASE n # 1
    <3>1. /\ Down(n - 1) \in Seq(1..n) /\ Len(Down(n - 1)) = n - 1
          /\ \A i \in 1..(n - 1) : Down(n - 1)[i] = n - 1 - i + 1
      BY <2>3 DEF Down
    <3>2. \A i \in 1..(n - 1) : Tail(Down(n))[i] = n - 1 - i + 1
      BY <1>1, <1>2, <1>3
    <3>3. Len(Tail(Down(n))) = Len(Down(n - 1))
          /\ \A i \in 1..Len(Tail(Down(n))) : Tail(Down(n))[i] = Down(n - 1)[i]
      BY <2>1, <3>1, <3>2
    <3>4. Tail(Down(n)) = Down(n - 1)
      BY <2>1, <3>1, <3>3, SeqEqual, Zenon
    <3> QED BY <2>3, <3>4
  <2> QED BY <2>2, <2>3
<1>5. ASSUME NEW k
      PROVE  Contains(Down(n), k) <=> k \in 1..n
  <2>1. Contains(Down(n), k) <=> \E i \in 1..n : n - i + 1 = k
    BY <1>1, <1>2 DEF Contains
  <2>2. ASSUME NEW i \in 1..n, n - i + 1 = k
        PROVE  k \in 1..n
    BY <2>2
  <2>3. ASSUME k \in 1..n
        PROVE  n - k + 1 \in 1..n /\ n - (n - k + 1) + 1 = k
    BY <2>3
  <2> QED BY <2>1, <2>2, <2>3
<1> QED BY <1>1, <1>3, <1>4, <1>5

LEMMA NothingListed == \A k : ~Contains(<< >>, k)
BY DEF Contains

\* A run is undone last first.
LEMMA RunOrder == ASSUME NEW n \in Nat PROVE RollbackOrder(n) = Down(n)
<1> DEFINE up == [k \in 1..n |-> k]
<1>1. up \in Seq(1..n) /\ Len(up) = n
  OBVIOUS
<1>2. \A i \in 1..n : up[(Len(up) - i) + 1] = n - i + 1
  BY <1>1
<1> QED BY <1>1, <1>2 DEF RollbackOrder, Reverse, Down

LEMMA RunsInitially == RunsInit => RunsInv
<1> SUFFICES ASSUME RunsInit
             PROVE  RunsInv
  OBVIOUS
<1>1. RunTypes
  BY DEF RunsInit, RunTypes, RunRecord, ItemStates, NoJob
<1>2. RecordsAreOfRuns /\ CommandFollowsRecord /\ AppliedIsListed
  BY DEF RunsInit, RecordsAreOfRuns, CommandFollowsRecord, AppliedIsListed, NoJob,
         NoRun, Applied
<1> QED BY <1>1, <1>2 DEF RunsInv

\* What a rollback makes of the items.
LEMMA ItemChanges ==
    ASSUME RunTypes, NEW r \in Run, NEW k \in Ordinal, NEW outcome \in Outcomes,
           ItemAfter(r, k, outcome)
    PROVE  /\ rrItem' \in [Run -> [Ordinal -> ItemStates]]
           /\ \A q \in Run : Started(q) => Started(q)'
           /\ \A q \in Run : Applied(q)' \subseteq Applied(q)
           /\ \A q \in Run, j \in Ordinal : j \in Applied(q) /\ j \notin Applied(q)'
                  => q = r /\ j = k
           /\ outcome # "refused" => k \notin Applied(r)'
<1> DEFINE new == CASE outcome = "restored" -> "restored"
                    [] outcome \in {"failed", "third"} -> "recovery"
                    [] outcome = "refused" -> rrItem[r][k]
<1>1. rrItem' = [rrItem EXCEPT ![r] = [rrItem[r] EXCEPT ![k] = new]]
  BY DEF ItemAfter
<1>2. new \in ItemStates /\ (new = "applied" \/ new = "none" => new = rrItem[r][k])
      /\ (outcome # "refused" => new # "applied")
  BY DEF Outcomes, ItemStates, RunTypes
<1> HIDE DEF new
<1>3. \A q \in Run, j \in Ordinal : rrItem'[q][j] = IF q = r
          /\ j = k THEN new ELSE rrItem[q][j]
  BY <1>1 DEF RunTypes
<1>4. rrItem' \in [Run -> [Ordinal -> ItemStates]]
  BY <1>1, <1>2 DEF RunTypes
<1>5. 1 \in Ordinal
  BY RunsAssumption DEF Ordinal
<1> QED BY <1>2, <1>3, <1>4, <1>5 DEF Started, Applied

\* One lemma for each action: it keeps the invariant.
LEMMA StartRunKeeps ==
    ASSUME RunsInv, StartRun
    PROVE  RunsInv'
<1>1. PICK r \in Run, n \in Ordinal :
        /\ Fresh(r)
        /\ rrItem' = [rrItem EXCEPT
                        ![r] = [k \in Ordinal |-> IF k <= n THEN "applied" ELSE "none"]]
        /\ rrCommand' = [pc |-> "record", run |-> r, left |-> RollbackOrder(n)]
  BY RunsAssumption DEF StartRun, Ordinal
<1>2. rrCommand.pc = "idle" /\ rrMemory = NoRun
          /\ UNCHANGED <<rrKind, rrMemory, rrDisk, rrSaid, rrLost, rrUnread>>
  BY DEF StartRun
<1>3. /\ \A q \in Run \ {r} : rrItem'[q] = rrItem[q]
      /\ rrItem'[r] = [k \in Ordinal |-> IF k <= n THEN "applied" ELSE "none"]
      /\ rrItem' \in [Run -> [Ordinal -> ItemStates]]
  BY <1>1 DEF RunsInv, RunTypes, ItemStates
<1>4. /\ Started(r)' /\ ~Started(r) /\ Applied(r)' = 1..n
      /\ \A q \in Run \ {r} : Started(q)' = Started(q) /\ Applied(q)' = Applied(q)
  BY <1>1, <1>3, RunsAssumption DEF Started, Applied, Ordinal, Fresh
<1>5. RollbackOrder(n) \in Unfinished /\ \A k \in 1..n : Contains(RollbackOrder(n), k)
  BY RunOrder, DownFacts, RunsAssumption DEF Unfinished, Ordinal
<1>6. RunTypes'
  BY <1>1, <1>2, <1>3, <1>5 DEF RunsInv, RunTypes
<1>7. RecordsAreOfRuns'
  BY <1>1, <1>2, <1>4 DEF RunsInv, RunTypes, RecordsAreOfRuns, RunRecord
<1>8. CommandFollowsRecord'
  BY <1>1 DEF CommandFollowsRecord
<1>9. ASSUME NEW q \in Run \ (rrLost \union rrUnread), NEW k \in Applied(q)'
      PROVE  rrCommand'.pc \in {"record", "undo"} /\ Lists(rrCommand, q, k)'
  <2>1. CASE q = r
    BY <1>1, <1>4, <1>5, <1>9, <2>1 DEF Lists
  <2>2. CASE q # r
    BY <1>2, <1>4, <1>9, <2>2 DEF RunsInv, AppliedIsListed, Lists, NoRun, Run
  <2> QED BY <2>1, <2>2
<1> QED BY <1>2, <1>6, <1>7, <1>8, <1>9 DEF RunsInv, AppliedIsListed

LEMMA TimelineFailsKeeps ==
    ASSUME RunsInv, TimelineFails
    PROVE  RunsInv'
<1>1. /\ rrCommand.pc = "record" /\ rrCommand' = NoJob /\ NoJob.pc = "idle"
      /\ rrUnread' = rrUnread \union {rrCommand.run}
      /\ UNCHANGED <<rrItem, rrMemory, rrDisk, rrLost>>
  BY DEF TimelineFails, End, NoJob
<1>2. /\ rrCommand.run \in Run /\ Started(rrCommand.run) /\ rrMemory = NoRun
      /\ rrDisk # NoRun => rrDisk.run # rrCommand.run
  BY <1>1 DEF RunsInv, RunTypes, RecordsAreOfRuns
<1>3. RunTypes'
  BY <1>1 DEF RunsInv, RunTypes
<1>4. RecordsAreOfRuns'
  BY <1>1, <1>2 DEF RunsInv, RecordsAreOfRuns, Started
<1>5. CommandFollowsRecord'
  BY <1>1 DEF CommandFollowsRecord
<1>6. AppliedIsListed'
  BY <1>1, <1>2 DEF RunsInv, AppliedIsListed, Lists, Applied, NoRun, Run
<1> QED BY <1>3, <1>4, <1>5, <1>6 DEF RunsInv

LEMMA SaveNewRecordKeeps ==
    ASSUME RunsInv, SaveNewRecord
    PROVE  RunsInv'
<1> DEFINE record == [run |-> rrCommand.run, left |-> rrCommand.left]
<1>1. /\ rrCommand.pc = "record" /\ rrDisk' = record /\ rrMemory' = record
      /\ rrCommand'.pc = "idle" /\ UNCHANGED <<rrItem, rrLost, rrUnread>>
  BY DEF SaveNewRecord, End, NoJob
<1>2. record \in RunRecord /\ record # NoRun /\ record.run = rrCommand.run
          /\ rrCommand.run \in Run
  BY <1>1 DEF RunsInv, RunTypes, RunRecord, NoRun, Run
<1> HIDE DEF record
<1>3. RunTypes'
  BY <1>1, <1>2 DEF RunsInv, RunTypes
<1>4. RecordsAreOfRuns'
  BY <1>1, <1>2 DEF RunsInv, RecordsAreOfRuns, Started
<1>5. CommandFollowsRecord'
  BY <1>1 DEF CommandFollowsRecord
<1>6. ASSUME NEW r \in Run \ (rrLost \union rrUnread), NEW k \in Applied(r)
      PROVE  Lists(rrDisk, r, k)' /\ Lists(rrMemory, r, k)'
  <2>1. Lists(rrCommand, r, k)
    BY <1>1 DEF RunsInv, RecordsAreOfRuns, AppliedIsListed, Lists, NoRun, Run
  <2> QED BY <1>1, <2>1 DEF Lists, record
<1> QED BY <1>1, <1>3, <1>4, <1>5, <1>6 DEF RunsInv, AppliedIsListed, Applied

LEMMA NewRecordFailsKeeps ==
    ASSUME RunsInv, NewRecordFails
    PROVE  RunsInv'
<1>1. /\ rrCommand' \in [pc : {"undo"}, run : Run, left : Unfinished]
      /\ rrCommand'.run = rrCommand.run /\ rrCommand'.left = rrCommand.left
      /\ rrCommand.pc = "record" /\ rrCommand'.pc = "undo"
      /\ UNCHANGED <<rrItem, rrMemory, rrDisk, rrLost, rrUnread>>
  BY DEF NewRecordFails, AfterFailedRecord, RunsInv, RunTypes
<1> QED BY <1>1
           DEF RunsInv, RunTypes, RecordsAreOfRuns, CommandFollowsRecord,
               AppliedIsListed, Lists,
     Applied, Started

\* A record, or a command, with items left.
LEMMA HeadOfUnfinished ==
    ASSUME NEW left \in Unfinished
    PROVE  /\ left # << >> /\ Head(left) \in Ordinal /\ Contains(left, Head(left))
           /\ Tail(left) \in Left
           /\ \A k : Contains(left, k) =>
                 /\ k \in Ordinal /\ k <= Head(left)
                 /\ k = Head(left) \/ Contains(Tail(left), k)
           /\ Len(left) = 1 <=> Tail(left) = << >>
<1>1. PICK n \in 1..MaxItems : left = Down(n)
  BY DEF Unfinished
<1>2. n \in Nat \ {0} /\ n \in Ordinal /\ 1..n \subseteq Ordinal
  BY RunsAssumption DEF Ordinal
<1>3. /\ left # << >> /\ Len(left) = n /\ Head(left) = n
      /\ Tail(left) = IF n = 1 THEN << >> ELSE Down(n - 1)
      /\ \A k : Contains(left, k) <=> k \in 1..n
  BY <1>1, <1>2, DownFacts
<1>4. CASE n = 1
  BY <1>2, <1>3, <1>4 DEF Left
<1>5. CASE n # 1
  <2>1. n - 1 \in Nat \ {0} /\ n - 1 \in 1..MaxItems
    BY <1>5, RunsAssumption
  <2>2. Down(n - 1) # << >> /\ Down(n - 1) \in Unfinished
        /\ \A k : Contains(Down(n - 1), k) <=> k \in 1..(n - 1)
    BY <2>1, DownFacts DEF Unfinished
  <2>3. \A k \in 1..n : k \in Ordinal /\ k <= n /\ (k = n \/ k \in 1..(n - 1))
    BY <1>2
  <2>4. Tail(left) = Down(n - 1) /\ Tail(left) \in Left /\ Len(left) # 1
    BY <1>3, <1>5, <2>2 DEF Left
  <2>5. Contains(left, n) /\ \A k : Contains(left, k) => k \in 1..n
    BY <1>2, <1>3
  <2> QED BY <1>2, <1>3, <2>2, <2>3, <2>4, <2>5
<1> QED BY <1>4, <1>5

LEMMA CompensateKeeps ==
    ASSUME RunsInv, NEW outcome \in Outcomes, Compensate(outcome)
    PROVE  RunsInv'
<1>0. PICK r \in Run, k \in Ordinal : r = rrCommand.run /\ k = Head(rrCommand.left)
  BY HeadOfUnfinished DEF Compensate, RunsInv, RunTypes
<1>1. /\ rrCommand.pc = "undo" /\ ItemAfter(r, k, outcome)
      /\ rrUnread' = rrUnread
      /\ rrLost' = IF outcome = "restored" THEN rrLost ELSE rrLost \union {r}
      /\ UNCHANGED <<rrMemory, rrDisk>>
      /\ IF Len(rrCommand.left) = 1 THEN rrCommand' = NoJob
         ELSE rrCommand' = [rrCommand EXCEPT !.left = Tail(@)]
  BY <1>0 DEF Compensate, End
<1>2. rrCommand \in [pc : {"undo"}, run : Run, left : Unfinished]
  BY <1>1 DEF RunsInv, RunTypes
<1>3. r \in Run /\ rrCommand.left \in Unfinished /\ k \in Ordinal
  BY <1>2, HeadOfUnfinished
<1>4. /\ rrItem' \in [Run -> [Ordinal -> ItemStates]]
      /\ \A q \in Run : Started(q) => Started(q)'
      /\ \A q \in Run : Applied(q)' \subseteq Applied(q)
      /\ outcome # "refused" => k \notin Applied(r)'
  BY <1>1, <1>3, ItemChanges DEF RunsInv
<1>5. \/ rrCommand' = NoJob /\ Tail(rrCommand.left) = << >>
      \/ /\ rrCommand' \in [pc : {"undo"}, run : Run, left : Unfinished]
         /\ rrCommand'.pc = "undo" /\ rrCommand'.run = r
                /\ rrCommand'.left = Tail(rrCommand.left)
  BY <1>1, <1>2, <1>3, <1>0, HeadOfUnfinished DEF Left
<1>6. RunTypes'
  BY <1>1, <1>4, <1>5 DEF RunsInv, RunTypes, NoJob
<1>7. RecordsAreOfRuns'
  <2>1. ASSUME NEW q \in rrLost' \union rrUnread'
        PROVE  q \in Run /\ Started(q)'
    BY <1>0, <1>1, <1>3, <1>4, <2>1 DEF RunsInv, RecordsAreOfRuns
  <2>2. rrMemory = NoRun /\ rrMemory' = NoRun /\ rrDisk' = rrDisk
            /\ (rrDisk # NoRun => rrDisk.run # r)
    BY <1>0, <1>1 DEF RunsInv, RecordsAreOfRuns
  <2>3. rrDisk # NoRun
            => rrDisk.run \in Run /\ Started(rrDisk.run)' /\ rrDisk.run \notin rrLost' \union rrUnread'
    BY <1>1, <1>4, <2>2 DEF RunsInv, RecordsAreOfRuns, RunTypes, RunRecord, Started
  <2>4. rrCommand'.pc # "record"
            /\ (rrCommand'.pc = "undo" => rrCommand'.run = r /\ Started(r)')
    BY <1>0, <1>1, <1>3, <1>4, <1>5 DEF NoJob, RunsInv, RecordsAreOfRuns
  <2> QED BY <2>1, <2>2, <2>3, <2>4 DEF RecordsAreOfRuns, Started
<1>8. CommandFollowsRecord'
  BY <1>5 DEF CommandFollowsRecord, NoJob
<1>9. ASSUME NEW q \in Run \ (rrLost \union rrUnread)', NEW j \in Applied(q)'
      PROVE  rrCommand'.pc = "undo" /\ Lists(rrCommand, q, j)'
  <2>1. q \in Run \ (rrLost \union rrUnread) /\ j \in Applied(q)
    BY <1>1, <1>4, <1>9
  <2>2. Lists(rrCommand, q, j)
    BY <1>1, <2>1 DEF RunsInv, RecordsAreOfRuns, AppliedIsListed, Lists, NoRun, Run
  <2>3. q = r /\ outcome = "restored"
    BY <1>0, <1>1, <1>9, <2>2 DEF Lists
  <2>4. j # k
    BY <1>4, <1>9, <2>3
  <2>5. Contains(Tail(rrCommand.left), j)
    BY <1>0, <1>3, <2>2, <2>4, HeadOfUnfinished DEF Lists
  <2> QED BY <1>5, <2>3, <2>5, NothingListed DEF Lists
<1> QED BY <1>6, <1>7, <1>8, <1>9 DEF RunsInv, AppliedIsListed

LEMMA StartEndingKeeps ==
    ASSUME RunsInv, StartEnding
    PROVE  RunsInv'
<1>1. /\ rrCommand.pc = "idle" /\ rrMemory \in [run : Run, left : Unfinished]
      /\ rrCommand' = [pc |-> "rollback", run |-> rrMemory.run, left |-> rrMemory.left]
      /\ UNCHANGED <<rrItem, rrMemory, rrDisk, rrLost, rrUnread>>
  BY DEF StartEnding, RunsInv, RunTypes, RunRecord
<1>2. CommandFollowsRecord'
  BY <1>1 DEF CommandFollowsRecord
<1> QED BY <1>1, <1>2
           DEF RunsInv, RunTypes, RecordsAreOfRuns, AppliedIsListed, Lists, Applied,
               Started

\* The head of the record is not applied any more: the command saves the rest.
LEMMA SaveKeeps ==
    ASSUME RunsInv, rrCommand.pc = "rollback", Save,
           rrItem' \in [Run -> [Ordinal -> ItemStates]],
           \A q \in Run : Started(q) => Started(q)',
           \A q \in Run : Applied(q)' \subseteq Applied(q),
           UNCHANGED <<rrMemory, rrDisk, rrLost, rrUnread>>,
           Head(rrCommand.left) \notin {k \in Ordinal :
               rrItem'[rrCommand.run][k] = "applied"}
    PROVE  RunsInv'
<1>1. rrCommand \in [pc : {"rollback"}, run : Run, left : Unfinished]
      /\ rrMemory = [run |-> rrCommand.run, left |-> rrCommand.left]
      /\ rrMemory # NoRun
  BY DEF RunsInv, RunTypes, CommandFollowsRecord, NoRun, Run
<1>2. /\ rrCommand' \in [pc : {"save"}, run : Run, left : Left]
      /\ rrCommand'.pc = "save" /\ rrCommand'.run = rrCommand.run
      /\ rrCommand'.left = Tail(rrCommand.left)
  <2>1. rrCommand' = [[rrCommand EXCEPT !.pc = "save"]
                          EXCEPT !.left = Tail(rrCommand.left)]
    BY DEF Save
  <2>2. Tail(rrCommand.left) \in Left
    BY <1>1, HeadOfUnfinished
  <2>3. rrCommand' = [pc |-> "save", run |-> rrCommand.run, left |-> Tail(rrCommand.left)]
    BY <1>1, <2>1
  <2> QED BY <1>1, <2>2, <2>3
<1>3. RunTypes'
  BY <1>2 DEF RunsInv, RunTypes
<1>4. RecordsAreOfRuns'
  <2>1. \A record \in RunRecord : record # NoRun => record.run \in Run
    BY DEF RunRecord
  <2> QED BY <1>2, <2>1 DEF RunsInv, RunTypes, RecordsAreOfRuns, Started
<1>5. CommandFollowsRecord'
  BY <1>1, <1>2 DEF CommandFollowsRecord, Applied
<1>6. AppliedIsListed'
  BY <1>2 DEF RunsInv, AppliedIsListed, Lists
<1> QED BY <1>3, <1>4, <1>5, <1>6 DEF RunsInv

\* A step after which the command is over, or that a command does not take.
LEMMA EndKeeps ==
    ASSUME RunsInv, rrCommand.pc \notin {"record", "undo", "down"}, rrCommand' = NoJob,
           rrItem' \in [Run -> [Ordinal -> ItemStates]],
           \A q \in Run : Started(q) => Started(q)',
           \A q \in Run : Applied(q)' \subseteq Applied(q),
           UNCHANGED <<rrMemory, rrDisk, rrLost, rrUnread>>
    PROVE  RunsInv'
<1>1. RunTypes'
  BY DEF RunsInv, RunTypes, NoJob
<1>2. RecordsAreOfRuns'
  <2>1. \A record \in RunRecord : record # NoRun => record.run \in Run
    BY DEF RunRecord
  <2> QED BY <2>1 DEF RunsInv, RunTypes, RecordsAreOfRuns, Started, NoJob
<1>3. CommandFollowsRecord'
  BY DEF CommandFollowsRecord, NoJob
<1>4. AppliedIsListed'
  BY DEF RunsInv, AppliedIsListed, Lists
<1> QED BY <1>1, <1>2, <1>3, <1>4 DEF RunsInv

LEMMA RollBackNextKeeps ==
    ASSUME RunsInv, NEW outcome \in Outcomes, RollBackNext(outcome)
    PROVE  RunsInv'
<1>0. PICK r \in Run, k \in Ordinal : r = rrCommand.run /\ k = Head(rrCommand.left)
  BY HeadOfUnfinished DEF RollBackNext, RunsInv, RunTypes
<1>1. /\ rrCommand.pc = "rollback" /\ ItemAfter(r, k, outcome)
      /\ UNCHANGED <<rrMemory, rrDisk, rrLost, rrUnread>>
  BY <1>0 DEF RollBackNext
<1>2. /\ rrItem' \in [Run -> [Ordinal -> ItemStates]]
      /\ \A q \in Run : Started(q) => Started(q)'
      /\ \A q \in Run : Applied(q)' \subseteq Applied(q)
      /\ outcome # "refused" => k \notin Applied(r)'
  BY <1>1, ItemChanges DEF RunsInv
<1>3. CASE GoesOn(outcome)
  <2>1. Save /\ k \notin {j \in Ordinal : rrItem'[r][j] = "applied"}
    BY <1>2, <1>3 DEF RollBackNext, GoesOn, Applied
  <2> QED BY <1>0, <1>1, <1>2, <2>1, SaveKeeps
<1>4. CASE ~GoesOn(outcome)
  BY <1>1, <1>2, <1>4, EndKeeps DEF RollBackNext, End
<1> QED BY <1>3, <1>4

LEMMA NextIsDoneKeeps ==
    ASSUME RunsInv, NextIsDone
    PROVE  RunsInv'
<1>1. /\ rrCommand.pc = "rollback" /\ UNCHANGED <<rrItem, rrMemory, rrDisk, rrLost, rrUnread>>
      /\ Head(rrCommand.left) \notin {k \in Ordinal :
             rrItem'[rrCommand.run][k] = "applied"}
      /\ rrItem' \in [Run -> [Ordinal -> ItemStates]]
      /\ \A q \in Run : Started(q) => Started(q)'
      /\ \A q \in Run : Applied(q)' \subseteq Applied(q)
  BY DEF NextIsDone, Applied, Started, RunsInv, RunTypes
<1>2. CASE SkipsDone
  BY <1>1, <1>2, SaveKeeps DEF NextIsDone
<1>3. CASE ~SkipsDone
  BY <1>1, <1>3, EndKeeps DEF NextIsDone, End
<1> QED BY <1>2, <1>3

\* What is left of the record lists every item that is still applied.
LEMMA ShorterLists ==
    ASSUME RunsInv, rrCommand.pc = "save"
    PROVE  /\ Shortened \in RunRecord
           /\ Shortened # NoRun
                  => Shortened.run = rrCommand.run /\ Shortened.left = rrCommand.left
           /\ rrCommand.run \in Run /\ Started(rrCommand.run)
                  /\ rrCommand.run \notin rrLost \union rrUnread
           /\ \A r \in Run \ (rrLost \union rrUnread) : \A k \in Applied(r) : Lists(Shortened, r, k)
<1>1. /\ rrCommand \in [pc : {"save"}, run : Run, left : Left]
      /\ rrMemory \in [run : Run, left : Unfinished] /\ rrMemory # NoRun
      /\ rrMemory.run = rrCommand.run /\ rrCommand.left = Tail(rrMemory.left)
      /\ Head(rrMemory.left) \notin Applied(rrCommand.run)
  BY DEF RunsInv, RunTypes, CommandFollowsRecord, RunRecord
<1>2. Shortened \in RunRecord
      /\ (Shortened # NoRun
             => Shortened.run = rrCommand.run /\ Shortened.left = rrCommand.left)
  BY <1>1 DEF Shortened, RunRecord, Left
<1>3. rrCommand.run \in Run /\ Started(rrCommand.run) /\ rrCommand.run \notin rrLost \union rrUnread
  <2>1. Started(rrMemory.run) /\ rrMemory.run \notin rrLost \union rrUnread
    BY <1>1 DEF RunsInv, RecordsAreOfRuns
  <2> QED BY <1>1, <2>1 DEF Started
<1>4. ASSUME NEW r \in Run \ (rrLost \union rrUnread), NEW k \in Applied(r)
      PROVE  Lists(Shortened, r, k)
  <2>1. rrMemory.run = r /\ Contains(rrMemory.left, k)
    BY <1>1, <1>4 DEF RunsInv, AppliedIsListed, Lists
  <2>2. Contains(rrCommand.left, k)
    BY <1>1, <1>4, <2>1, HeadOfUnfinished
  <2>3. rrCommand.left # << >>
    BY <2>2, NothingListed
  <2> QED BY <1>1, <2>1, <2>2, <2>3 DEF Shortened, Lists
<1> QED BY <1>2, <1>3, <1>4

LEMMA SaveShorterKeeps ==
    ASSUME RunsInv, SaveShorter
    PROVE  RunsInv'
<1>1. /\ rrCommand.pc = "save" /\ rrDisk' = Shortened /\ rrMemory' = Shortened
      /\ UNCHANGED <<rrItem, rrLost, rrUnread>>
  BY DEF SaveShorter
<1>2. \/ rrCommand' = NoJob
      \/ /\ rrCommand' = [pc |-> "rollback", run |-> rrCommand.run,
                left |-> rrCommand.left]
         /\ rrCommand.left \in Unfinished
         /\ Shortened = [run |-> rrCommand.run, left |-> rrCommand.left]
  BY <1>1 DEF SaveShorter, End, RunsInv, RunTypes, Shortened, Left
<1>3. /\ Shortened \in RunRecord
      /\ Shortened # NoRun
             => Shortened.run = rrCommand.run /\ Shortened.left = rrCommand.left
      /\ rrCommand.run \in Run /\ Started(rrCommand.run) /\ rrCommand.run \notin rrLost \union rrUnread
      /\ \A r \in Run \ (rrLost \union rrUnread) : \A k \in Applied(r) : Lists(Shortened, r, k)
  BY <1>1, ShorterLists
<1>4. RunTypes'
  <2>1. CASE rrCommand' = NoJob
    BY <1>1, <1>3, <2>1 DEF RunsInv, RunTypes, NoJob
  <2>2. CASE /\ rrCommand' = [pc |-> "rollback", run |-> rrCommand.run,
                    left |-> rrCommand.left]
             /\ rrCommand.left \in Unfinished
    BY <1>1, <1>3, <2>2 DEF RunsInv, RunTypes
  <2> QED BY <1>2, <2>1, <2>2
<1>5. RecordsAreOfRuns'
  BY <1>1, <1>2, <1>3 DEF RunsInv, RecordsAreOfRuns, Started, NoJob
<1>6. CommandFollowsRecord'
  BY <1>1, <1>2 DEF CommandFollowsRecord, NoJob
<1>7. AppliedIsListed'
  BY <1>1, <1>3 DEF AppliedIsListed, Lists, Applied
<1> QED BY <1>4, <1>5, <1>6, <1>7 DEF RunsInv

LEMMA SaveShorterFailsKeeps ==
    ASSUME RunsInv, SaveShorterFails
    PROVE  RunsInv'
<1>1. /\ rrCommand.pc = "save" /\ rrDisk' = rrDisk /\ rrMemory' \in {Shortened, rrMemory}
      /\ rrCommand' = NoJob /\ UNCHANGED <<rrItem, rrLost, rrUnread>>
  BY DEF SaveShorterFails, End
<1>2. /\ Shortened \in RunRecord
      /\ Shortened # NoRun => Shortened.run = rrCommand.run
      /\ rrCommand.run \in Run /\ Started(rrCommand.run) /\ rrCommand.run \notin rrLost \union rrUnread
      /\ \A r \in Run \ (rrLost \union rrUnread) : \A k \in Applied(r) : Lists(Shortened, r, k)
  BY <1>1, ShorterLists
<1>3. RunTypes'
  BY <1>1, <1>2 DEF RunsInv, RunTypes, NoJob
<1>4. RecordsAreOfRuns'
  BY <1>1, <1>2 DEF RunsInv, RecordsAreOfRuns, Started, NoJob
<1>5. CommandFollowsRecord'
  BY <1>1 DEF CommandFollowsRecord, NoJob
<1>6. AppliedIsListed'
  BY <1>1, <1>2 DEF RunsInv, AppliedIsListed, Lists, Applied
<1> QED BY <1>3, <1>4, <1>5, <1>6 DEF RunsInv

LEMMA RollBackFromHistoryKeeps ==
    ASSUME RunsInv, NEW r \in Run, NEW k \in Ordinal, NEW outcome \in Outcomes,
           RollBackFromHistory(r, k, outcome)
    PROVE  RunsInv'
<1>1. /\ rrCommand.pc = "idle" /\ ItemAfter(r, k, outcome)
      /\ UNCHANGED <<rrMemory, rrDisk, rrCommand, rrLost, rrUnread>>
  BY DEF RollBackFromHistory
<1>2. /\ rrItem' \in [Run -> [Ordinal -> ItemStates]]
      /\ \A q \in Run : Started(q) => Started(q)'
      /\ \A q \in Run : Applied(q)' \subseteq Applied(q)
  BY <1>1, ItemChanges DEF RunsInv
<1>3. RunTypes'
  BY <1>1, <1>2 DEF RunsInv, RunTypes
<1>4. RecordsAreOfRuns'
  <2>1. \A record \in RunRecord : record # NoRun => record.run \in Run
    BY DEF RunRecord
  <2> QED BY <1>1, <1>2, <2>1 DEF RunsInv, RunTypes, RecordsAreOfRuns, Started
<1>5. CommandFollowsRecord' /\ AppliedIsListed'
  BY <1>1, <1>2 DEF RunsInv, CommandFollowsRecord, AppliedIsListed, Lists
<1> QED BY <1>3, <1>4, <1>5 DEF RunsInv

LEMMA ReconcileKeeps ==
    ASSUME RunsInv, NEW r \in Run, NEW k \in Ordinal, Reconcile(r, k)
    PROVE  RunsInv'
<1>1. /\ rrCommand.pc = "idle" /\ ItemAfter(r, k, "restored") /\ "restored" \in Outcomes
      /\ UNCHANGED <<rrMemory, rrDisk, rrCommand, rrLost, rrUnread>>
  BY DEF Reconcile, ItemAfter, Outcomes
<1>2. /\ rrItem' \in [Run -> [Ordinal -> ItemStates]]
      /\ \A q \in Run : Started(q) => Started(q)'
      /\ \A q \in Run : Applied(q)' \subseteq Applied(q)
  BY <1>1, ItemChanges DEF RunsInv
<1>3. RunTypes'
  BY <1>1, <1>2 DEF RunsInv, RunTypes
<1>4. RecordsAreOfRuns'
  <2>1. \A record \in RunRecord : record # NoRun => record.run \in Run
    BY DEF RunRecord
  <2> QED BY <1>1, <1>2, <2>1 DEF RunsInv, RunTypes, RecordsAreOfRuns, Started
<1>5. CommandFollowsRecord' /\ AppliedIsListed'
  BY <1>1, <1>2 DEF RunsInv, CommandFollowsRecord, AppliedIsListed, Lists
<1> QED BY <1>3, <1>4, <1>5 DEF RunsInv

LEMMA StopAppKeeps ==
    ASSUME RunsInv, StopApp
    PROVE  RunsInv'
<1>1. /\ rrCommand.pc # "down" /\ rrCommand'.pc = "down"
      /\ UNCHANGED <<rrItem, rrMemory, rrDisk, rrUnread>>
      /\ rrLost' = rrLost \union
            {r \in Run : rrCommand.pc \in {"record", "undo"} /\ r = rrCommand.run}
  BY DEF StopApp, NoJob
<1>2. RunTypes'
  BY <1>1 DEF RunsInv, RunTypes
<1>3. RecordsAreOfRuns'
  BY <1>1 DEF RunsInv, RecordsAreOfRuns, Started
<1>4. CommandFollowsRecord'
  BY <1>1 DEF CommandFollowsRecord
<1>5. AppliedIsListed'
  BY <1>1 DEF RunsInv, AppliedIsListed, Lists, Applied
<1> QED BY <1>2, <1>3, <1>4, <1>5 DEF RunsInv

LEMMA BootAppKeeps ==
    ASSUME RunsInv, BootApp
    PROVE  RunsInv'
<1>1. /\ rrCommand.pc = "down" /\ rrCommand'.pc = "idle" /\ rrMemory' = rrDisk
      /\ UNCHANGED <<rrItem, rrDisk, rrLost, rrUnread>>
  BY DEF BootApp, NoJob
<1>2. RunTypes'
  BY <1>1 DEF RunsInv, RunTypes
<1>3. RecordsAreOfRuns'
  BY <1>1 DEF RunsInv, RecordsAreOfRuns, Started
<1>4. CommandFollowsRecord' /\ AppliedIsListed'
  BY <1>1 DEF RunsInv, CommandFollowsRecord, AppliedIsListed, Lists, Applied
<1> QED BY <1>2, <1>3, <1>4 DEF RunsInv

LEMMA RunsInvariant == RunsSpec => []RunsInv
<1>1. RunsInv /\ [RunsNext]_rrvars => RunsInv'
  <2> SUFFICES ASSUME RunsInv, [RunsNext]_rrvars
               PROVE  RunsInv'
    OBVIOUS
  <2>0. "restored" \in Outcomes
    BY DEF Outcomes
  <2>1. CASE RunStep
    BY <2>0, <2>1, SaveNewRecordKeeps, CompensateKeeps, RollBackNextKeeps,
       NextIsDoneKeeps, SaveShorterKeeps, BootAppKeeps
       DEF RunStep
  <2>2. CASE RunUserStep
    BY <2>2, StartRunKeeps, StartEndingKeeps, ReconcileKeeps DEF RunUserStep
  <2>3. CASE RunFault
    BY <2>3, TimelineFailsKeeps, NewRecordFailsKeeps, SaveShorterFailsKeeps, StopAppKeeps, CompensateKeeps,
       RollBackNextKeeps, RollBackFromHistoryKeeps DEF RunFault
  <2>4. CASE UNCHANGED rrvars
    BY <2>4 DEF rrvars, RunsInv, RunTypes, RecordsAreOfRuns, CommandFollowsRecord,
       AppliedIsListed, Lists, Applied, Started
  <2> QED BY <2>1, <2>2, <2>3, <2>4 DEF RunsNext
<1> QED BY RunsInitially, <1>1, PTL DEF RunsSpec

\* Only a command that ends a run rolls its items back, and it takes the last one first.
LEMMA LastAppliedFirst ==
    ASSUME RunsInv, [RunsNext]_rrvars, NEW r \in Run, NEW k \in Ordinal,
        rrCommand.pc = "rollback",
           rrItem[r][k] = "applied", rrItem'[r][k] # "applied"
    PROVE  \A j \in Applied(r) : j <= k
<1>1. PICK outcome \in Outcomes : RollBackNext(outcome)
  BY DEF RunsNext, RunStep, RunUserStep, RunFault, rrvars, SaveNewRecord, Compensate,
         NextIsDone, SaveShorter, BootApp, StartRun, StartEnding, Reconcile,
         TimelineFails, NewRecordFails, SaveShorterFails, StopApp, RollBackFromHistory, Outcomes
<1>2. PICK q \in Run, i \in Ordinal : q = rrCommand.run /\ i = Head(rrCommand.left)
  BY HeadOfUnfinished DEF RunsInv, RunTypes
<1>3. ItemAfter(q, i, outcome)
  BY <1>1, <1>2 DEF RollBackNext
<1>4. r = q /\ k = i
  BY <1>3, ItemChanges DEF RunsInv, Applied
<1>5. rrMemory.run = r /\ rrMemory.left = rrCommand.left /\ rrMemory # NoRun
          /\ rrCommand.left \in Unfinished
  BY <1>2, <1>4 DEF RunsInv, RunTypes, CommandFollowsRecord, NoRun, Run
<1>6. r \notin rrLost \union rrUnread
  BY <1>5 DEF RunsInv, RecordsAreOfRuns
<1>7. \A j \in Applied(r) : Contains(rrCommand.left, j)
  BY <1>5, <1>6 DEF RunsInv, AppliedIsListed, Lists
<1> QED BY <1>2, <1>4, <1>5, <1>7, HeadOfUnfinished

\* For any runs and any number of items: an applied item is in the record of the
\* active run unless the user was told, the program ended before the record, or the
\* items of a manual mode could not be read after its commit (then nothing records or
\* gives them back, manual.rs:97-102); and an ending command rolls back no item of which a later one is still applied.
THEOREM RunsEndInOrder == RunsSpec => RunsAreKnownAndUndone
<1>1. RunsInv => (Quiet => \A r \in Run : \A k \in Applied(r) :
                     \/ rrMemory.run = r /\ Contains(rrMemory.left, k)
                     \/ r \in rrLost \union rrUnread)
  BY DEF RunsInv, AppliedIsListed, Quiet, Lists
<1>2. RunsInv /\ [RunsNext]_rrvars =>
         [\A r \in Run, k \in Ordinal :
              /\ rrCommand.pc = "rollback"
              /\ rrItem[r][k] = "applied" /\ rrItem'[r][k] # "applied"
              => \A j \in Applied(r) : j <= k]_rrvars
  BY LastAppliedFirst
<1> QED BY RunsInvariant, <1>1, <1>2, PTL DEF RunsSpec, RunsAreKnownAndUndone

-----------------------------------------------------------------------------
(* ThemeSchedule: the theme is that of the last boundary. *)

\* How far a time of day is past another, without the remainder.
LEMMA SinceIsPast ==
    ASSUME NEW at \in Minute, NEW now \in Minute
    PROVE  Since(at, now) = IF now >= at THEN now - at ELSE now - at + MinutesPerDay
<1>1. MinutesPerDay \in Nat /\ MinutesPerDay > 0
  BY ThemeAssumption
<1>2. now - at \in Int /\ now \in Int /\ at \in Int /\ now < MinutesPerDay
          /\ at < MinutesPerDay
      /\ now >= 0 /\ at >= 0
  BY <1>1 DEF Minute
<1>3. CASE now >= at
  <2>1. (now - at) % MinutesPerDay = now - at
    BY <1>1, <1>2, <1>3
  <2> QED BY <1>3, <2>1 DEF Since
<1>4. CASE ~(now >= at)
  <2>1. (now - at) % MinutesPerDay = now - at + MinutesPerDay
    BY <1>1, <1>2, <1>4
  <2> QED BY <1>4, <2>1 DEF Since
<1> QED BY <1>3, <1>4

\* desired_mode is the boundary passed last, also when the light hours go past
\* midnight.
LEMMA DesiredIsLastBoundary ==
    ASSUME NEW s \in Schedules, NEW now \in Minute, s.enabled
    PROVE  DesiredMode(s, now) = LastBoundary(s, now)
<1>1. /\ s.light \in Minute /\ s.dark \in Minute /\ s.light # s.dark
      /\ s.light \in Int /\ s.dark \in Int /\ now \in Int
      /\ s.light >= 0 /\ s.dark >= 0 /\ now >= 0
      /\ s.light < MinutesPerDay /\ s.dark < MinutesPerDay /\ now < MinutesPerDay
      /\ MinutesPerDay \in Int
  BY ThemeAssumption DEF Schedules, Valid, Minute
<1>2. /\ Since(s.light, now) = IF now >= s.light THEN now - s.light
             ELSE now - s.light + MinutesPerDay
      /\ Since(s.dark, now) = IF now >= s.dark THEN now - s.dark
             ELSE now - s.dark + MinutesPerDay
  BY <1>1, SinceIsPast
<1> QED BY <1>1, <1>2 DEF DesiredMode, LastBoundary

\* The tracker.
TrackerInv ==
    /\ thNow \in Minute /\ thSchedule \in Schedules
    /\ ~thCrossed => thLast = DesiredMode(thSchedule, thNow)
    /\ thDue # "none" => thDue = thLast
    /\ thDue = "none" /\ thLast # "none" /\ thExcused = {} => thMode = thLast

LEMMA TrackerInvariant == ThemeSpec => []TrackerInv
<1>1. ThemeInit => TrackerInv
  BY DEF ThemeInit, TrackerInv
<1>2. TrackerInv /\ [ThemeNext]_thvars => TrackerInv'
  <2> SUFFICES ASSUME TrackerInv, [ThemeNext]_thvars
               PROVE  TrackerInv'
    OBVIOUS
  <2>1. CASE Poll
    BY <2>1 DEF Poll, TrackerInv
  <2>2. CASE ApplyTheme
    BY <2>2 DEF ApplyTheme, TrackerInv
  <2>3. CASE ApplyThemeFails
    BY <2>3 DEF ApplyThemeFails, TrackerInv
  <2>4. CASE ClockMoves
    BY <2>4 DEF ClockMoves, TrackerInv
  <2>5. ASSUME NEW s \in Schedules, SetSchedule(s)
        PROVE  TrackerInv'
    BY <2>5 DEF SetSchedule, TrackerInv
  <2>6. CASE UserChooses
    BY <2>6 DEF UserChooses, TrackerInv
  <2>7. CASE RestartTheme
    BY <2>7 DEF RestartTheme, TrackerInv
  <2>8. CASE UNCHANGED thvars
    BY <2>8 DEF thvars, TrackerInv
  <2> QED BY <2>1, <2>2, <2>3, <2>4, <2>5, <2>6, <2>7, <2>8
             DEF ThemeNext, ThemeStep, ThemeOthers
<1> QED BY <1>1, <1>2, PTL DEF ThemeSpec

\* For any schedules, at any times of day: between boundaries the theme is what the
\* boundary passed last asks for, unless applying failed or the user chose otherwise,
\* and nothing is applied but at the first poll after a boundary.
THEOREM ScheduleFollowed == ThemeSpec => ThemeFollowsSchedule
<1>1. TrackerInv => (thSchedule.enabled /\ ~thCrossed /\ thDue = "none"
          /\ thExcused = {} =>
            thMode = LastBoundary(thSchedule, thNow))
  <2> SUFFICES ASSUME TrackerInv, thSchedule.enabled, ~thCrossed, thDue = "none",
      thExcused = {}
               PROVE  thMode = LastBoundary(thSchedule, thNow)
    OBVIOUS
  <2>1. thLast = LastBoundary(thSchedule, thNow)
    BY DesiredIsLastBoundary DEF TrackerInv
  <2> QED BY <2>1 DEF TrackerInv, LastBoundary
<1>2. TrackerInv /\ [ThemeNext]_thvars
          => [thDue = "none" /\ thDue' # "none" => thCrossed]_thvars
  BY DEF TrackerInv, ThemeNext, ThemeStep, ThemeOthers, Poll, ApplyTheme,
         ApplyThemeFails, ClockMoves, SetSchedule, UserChooses, RestartTheme
<1> QED BY TrackerInvariant, <1>1, <1>2, PTL DEF ThemeSpec, ThemeFollowsSchedule

-----------------------------------------------------------------------------
(* HotCorner: which corners there are, and when one opens. *)

TrackTypes == [last : Spots \union {Nowhere}, corner : Corner \union {None}, since : Int,
               cooldown : Int, fired : Corner \union {None}]

CornerTypes ==
    /\ hcMonitors \in Layouts
    /\ hcNow \in Nat
    /\ hcCursor \in Spots
    /\ hcTrack \in TrackTypes
    /\ hcVisit.rest \in Int /\ hcVisit.rest <= hcNow
    /\ hcOpened.at \in Int /\ hcOpened.rest \in Int /\ hcOpened.before \in Int

\* While the tracker waits, the last sample was where it noted the cursor to be, and
\* if it waits for the corner of that sample, the rest there began no later than the
\* waiting.
WaitsAtRest ==
    hcTrack.since # Never =>
        /\ hcVisit.corner = CornerAt(hcMonitors, hcTrack.last)
        /\ hcTrack.corner = hcVisit.corner /\ hcTrack.fired # hcTrack.corner =>
              hcVisit.rest # Never /\ hcVisit.rest <= hcTrack.since

\* A corner that was opened for stays marked until the cursor leaves it, and the pause
\* is counted from the last time.
OpenedIsMarked ==
    /\ hcVisit.opened => hcTrack.fired = hcVisit.corner
    /\ hcOpened.at # Never
           => hcOpened.at >= 0 /\ hcTrack.cooldown = hcOpened.at + CooldownMs

CornerInv == CornerTypes /\ WaitsAtRest /\ OpenedIsMarked /\ OpensAfterRest

\* What the tracker finds is a corner or none.
LEMMA CornerAtIsACorner ==
    ASSUME NEW monitors, NEW p
    PROVE  CornerAt(monitors, p) \in Corner \union {None}
<1> DEFINE under == {m \in monitors : Inside(m, p)}
           chosen == CHOOSE m \in under : TRUE
           fitting == {i \in 1..4 : Fits(monitors, chosen, p, CornerOrder[i])}
<1>1. CASE under = {} \/ fitting = {}
  BY <1>1 DEF CornerAt
<1>2. CASE ~(under = {} \/ fitting = {})
  <2> DEFINE first == CHOOSE i \in fitting : \A j \in fitting : i <= j
  <2> HIDE DEF chosen, under
  <2>1. fitting \subseteq {1, 2, 3, 4} /\ fitting # {}
    <3>1. 1..4 = {1, 2, 3, 4}
      OBVIOUS
    <3> QED BY <1>2, <3>1
  <2> HIDE DEF fitting
  <2>2. \E i \in fitting : \A j \in fitting : i <= j
    <3>1. CASE 1 \in fitting
      BY <2>1, <3>1
    <3>2. CASE 1 \notin fitting /\ 2 \in fitting
      BY <2>1, <3>2
    <3>3. CASE 1 \notin fitting /\ 2 \notin fitting /\ 3 \in fitting
      BY <2>1, <3>3
    <3>4. CASE 1 \notin fitting /\ 2 \notin fitting /\ 3 \notin fitting
      <4>1. 4 \in fitting
        BY <2>1, <3>4
      <4> QED BY <2>1, <3>4, <4>1
    <3> QED BY <3>1, <3>2, <3>3, <3>4
  <2>3. first \in {1, 2, 3, 4}
    BY <2>1, <2>2
  <2>4. CornerAt(monitors, p) = CornerOrder[first]
    BY <1>2 DEF CornerAt, fitting, chosen, under
  <2> HIDE DEF first
  <2>5. CornerOrder[1] \in Corner /\ CornerOrder[2] \in Corner
        /\ CornerOrder[3] \in Corner /\ CornerOrder[4] \in Corner
    BY DEF CornerOrder, Corner
  <2> QED BY <2>3, <2>4, <2>5
<1> QED BY <1>1, <1>2

LEMMA CornerInitially == HotCornerInit => CornerInv
BY DEF HotCornerInit, NewTrack, NoVisit, NotOpened, Never, CornerInv, CornerTypes,
       TrackTypes, WaitsAtRest, OpenedIsMarked, OpensAfterRest

\* The changes evaluate makes to the tracker, and what each leaves of its fields.
Waiting(t, corner, at) == [t EXCEPT !.corner = corner, !.since = at]
Pausing(t, at, fired) == [t EXCEPT !.cooldown = at, !.fired = fired]
Marked(t, fired) == [t EXCEPT !.fired = fired]

\* The fields of a track after each way of changing it.
LEMMA TrackChanges ==
    ASSUME NEW t \in TrackTypes, NEW corner \in Corner \union {None}, NEW at \in Int,
           NEW fired \in Corner \union {None}
    PROVE  /\ Waiting(t, corner, at) =
                 [last |-> t.last, corner |-> corner, since |-> at,
                  cooldown |-> t.cooldown, fired |-> t.fired]
           /\ Pausing(t, at, fired) =
                 [last |-> t.last, corner |-> t.corner, since |-> t.since,
                  cooldown |-> at, fired |-> fired]
           /\ Marked(t, fired) =
                 [last |-> t.last, corner |-> t.corner, since |-> t.since,
                  cooldown |-> t.cooldown, fired |-> fired]
<1> DEFINE u == [t EXCEPT !.corner = corner]
           w == [t EXCEPT !.cooldown = at]
<1>1. /\ u \in TrackTypes /\ u.last = t.last /\ u.corner = corner
      /\ u.cooldown = t.cooldown /\ u.fired = t.fired
  BY DEF TrackTypes
<1>2. /\ w \in TrackTypes /\ w.last = t.last /\ w.corner = t.corner
      /\ w.since = t.since /\ w.cooldown = at
  BY DEF TrackTypes
<1>3. /\ Waiting(t, corner, at) = [u EXCEPT !.since = at]
      /\ Pausing(t, at, fired) = [w EXCEPT !.fired = fired]
  BY DEF Waiting, Pausing
<1> HIDE DEF u, w
<1>4. [u EXCEPT !.since = at] =
          [last |-> u.last, corner |-> u.corner, since |-> at,
           cooldown |-> u.cooldown, fired |-> u.fired]
  BY <1>1 DEF TrackTypes
<1>5. [w EXCEPT !.fired = fired] =
          [last |-> w.last, corner |-> w.corner, since |-> w.since,
           cooldown |-> w.cooldown, fired |-> fired]
  BY <1>2 DEF TrackTypes
<1>6. Marked(t, fired) =
          [last |-> t.last, corner |-> t.corner, since |-> t.since,
           cooldown |-> t.cooldown, fired |-> fired]
  BY DEF TrackTypes, Marked
<1> QED BY <1>1, <1>2, <1>3, <1>4, <1>5, <1>6

\* A poll keeps the invariant: whatever it finds, and whether it opens or not.
LEMMA FollowKeeps ==
    ASSUME CornerInv, FollowHotCorner
    PROVE  CornerInv'
<1>0. CornerAt(hcMonitors, hcCursor) \in Corner \union {None}
  BY CornerAtIsACorner
<1> DEFINE corner == CornerAt(hcMonitors, hcCursor)
           open == corner # None /\ ~Blocked(corner)
           fires == open /\ Fires(hcTrack, corner)
           again == hcVisit.corner = corner /\ hcVisit.opened
           rest == IF ~open THEN Never
                   ELSE IF hcVisit.rest # Never /\ hcTrack.last = hcCursor
                   THEN hcVisit.rest ELSE hcNow
           seen == [hcTrack EXCEPT !.last = hcCursor]
<1> USE CornerAssumption
<1>1. hcNow' = hcNow + 1 /\ hcNow' \in Nat /\ hcNow \in Nat
          /\ UNCHANGED <<hcMonitors, hcCursor>>
  BY DEF FollowHotCorner, CornerInv, CornerTypes
<1>2. CASE hcAssigned = {}
  <2>1. hcTrack' = NewTrack /\ hcVisit' = NoVisit /\ hcOpened' = NotOpened
    BY <1>2 DEF FollowHotCorner
  <2> QED BY <1>1, <2>1
             DEF NewTrack, NoVisit, NotOpened, Never, CornerInv, CornerTypes,
                 TrackTypes,
       WaitsAtRest, OpenedIsMarked, OpensAfterRest
<1>3. CASE hcAssigned # {}
  <2>1. /\ hcTrack' = Tracked(hcTrack, corner)
        /\ hcVisit' = [corner |-> corner, rest |-> rest, opened |-> again \/ fires]
        /\ hcOpened' = IF fires
                       THEN [at |-> hcNow, rest |-> rest, again |-> again,
                           before |-> hcOpened.at]
                       ELSE hcOpened
    BY <1>3 DEF FollowHotCorner
  <2>2. rest \in Int /\ rest <= hcNow /\ (open => rest # Never)
    BY <1>1 DEF CornerInv, CornerTypes, Never
  <2>3. hcVisit'.corner = corner /\ hcVisit'.rest = rest
            /\ hcVisit'.opened = (again \/ fires)
    BY <2>1
  <2>0. corner \in Corner \union {None} /\ hcCursor \in Spots
    BY <1>0 DEF CornerInv, CornerTypes
  <2> HIDE DEF corner
  <2>t. hcTrack \in TrackTypes
    BY DEF CornerInv, CornerTypes
  <2>s. seen \in TrackTypes /\ seen.last = hcCursor
        /\ \A field \in {"corner", "since", "cooldown", "fired"} :
               seen[field] = hcTrack[field]
    BY <2>0, <2>t DEF TrackTypes
  <2> HIDE DEF seen
  <2>n. /\ NoDwell(seen) \in TrackTypes /\ NoDwell(seen).since = Never
        /\ NoDwell(seen).cooldown = seen.cooldown /\ NoDwell(seen).fired = seen.fired
    <3>1. NoDwell(seen) = [last |-> seen.last, corner |-> None, since |-> Never,
                           cooldown |-> seen.cooldown, fired |-> seen.fired]
      <4>1. NoDwell(seen) = Waiting(seen, None, Never) /\ Never \in Int
        BY DEF NoDwell, Waiting, Never
      <4> QED BY <2>s, <4>1, TrackChanges
    <3> QED BY <2>s, <3>1 DEF TrackTypes, Never
  <2>4. CASE corner = None \/ Blocked(corner)
    <3>1. ~open /\ ~fires /\ hcOpened' = hcOpened
      BY <2>1, <2>4
    <3>2. /\ hcTrack' \in TrackTypes
          /\ hcTrack'.since = Never /\ hcTrack'.cooldown = hcTrack.cooldown
          /\ hcTrack'.fired = IF corner = None THEN None ELSE hcTrack.fired
      <4>1. CASE corner = None
        <5>1. hcTrack' = [NoDwell(seen) EXCEPT !.fired = None]
          BY <2>1, <4>1 DEF Tracked, seen
        <5>2. hcTrack' = [last |-> NoDwell(seen).last, corner |-> NoDwell(seen).corner,
                          since |-> NoDwell(seen).since,
                          cooldown |-> NoDwell(seen).cooldown, fired |-> None]
          <6>1. hcTrack' = Marked(NoDwell(seen), None)
            BY <5>1 DEF Marked
          <6> QED BY <2>n, <6>1, TrackChanges
        <5> QED BY <2>s, <2>n, <4>1, <5>2 DEF TrackTypes
      <4>2. CASE corner # None
        <5>1. hcTrack' = NoDwell(seen)
          BY <2>1, <2>4, <4>2 DEF Tracked, Suppressed, seen
        <5> QED BY <2>s, <2>n, <4>2, <5>1
      <4> QED BY <4>1, <4>2
    <3>3. WaitsAtRest'
      BY <3>2 DEF WaitsAtRest
    <3>4. OpenedIsMarked'
      BY <2>3, <3>1, <3>2 DEF CornerInv, OpenedIsMarked
    <3>5. CornerTypes'
      BY <1>1, <2>0, <2>2, <2>3, <3>1, <3>2 DEF CornerInv, CornerTypes
    <3> QED BY <3>1, <3>3, <3>4, <3>5 DEF CornerInv, OpensAfterRest
  <2>5. CASE open /\ hcTrack.fired = corner
    <3>1. ~fires /\ hcOpened' = hcOpened
      BY <2>1, <2>5 DEF Fires
    <3>2. hcTrack' = seen
      BY <2>1, <2>5 DEF Tracked, seen
    <3>3. /\ hcTrack' \in TrackTypes /\ hcTrack'.last = hcCursor
          /\ \A field \in {"corner", "since", "cooldown", "fired"} :
                hcTrack'[field] = hcTrack[field]
      BY <2>s, <3>2
    <3>4. WaitsAtRest'
      BY <1>1, <2>3, <2>5, <3>3 DEF WaitsAtRest, corner
    <3>5. OpenedIsMarked'
      BY <2>3, <2>5, <3>1, <3>3 DEF CornerInv, OpenedIsMarked
    <3>6. CornerTypes'
      BY <1>1, <2>0, <2>2, <2>3, <3>1, <3>3 DEF CornerInv, CornerTypes
    <3> QED BY <3>1, <3>4, <3>5, <3>6 DEF CornerInv, OpensAfterRest
  <2>6. CASE open /\ hcTrack.fired # corner /\ Restarts(hcTrack, corner)
    <3>1. ~fires /\ hcOpened' = hcOpened /\ ~again
      BY <2>1, <2>6 DEF Fires, CornerInv, OpenedIsMarked
    <3>2. hcTrack' = [seen EXCEPT !.corner = corner, !.since = hcNow]
      BY <2>1, <2>6 DEF Tracked, seen
    <3>3. /\ hcTrack' \in TrackTypes /\ hcTrack'.last = hcCursor
          /\ hcTrack'.corner = corner /\ hcTrack'.since = hcNow
          /\ \A field \in {"cooldown", "fired"} : hcTrack'[field] = hcTrack[field]
      <4>1. hcTrack' = [last |-> seen.last, corner |-> corner, since |-> hcNow,
                        cooldown |-> seen.cooldown, fired |-> seen.fired]
        <5>1. hcTrack' = Waiting(seen, corner, hcNow)
          BY <3>2 DEF Waiting
        <5> QED BY <1>1, <2>0, <2>s, <5>1, TrackChanges
      <4> QED BY <1>1, <2>0, <2>s, <4>1 DEF TrackTypes
    <3>4. WaitsAtRest'
      BY <1>1, <2>2, <2>3, <2>6, <3>3 DEF WaitsAtRest, corner
    <3>5. OpenedIsMarked'
      BY <2>3, <3>1, <3>3 DEF CornerInv, OpenedIsMarked
    <3>6. CornerTypes'
      BY <1>1, <2>0, <2>2, <2>3, <3>1, <3>3 DEF CornerInv, CornerTypes
    <3> QED BY <3>1, <3>4, <3>5, <3>6 DEF CornerInv, OpensAfterRest
  <2>7. CASE open /\ hcTrack.fired # corner /\ ~Restarts(hcTrack, corner)
    <3>1. hcTrack.last = hcCursor /\ hcTrack.corner = corner /\ hcTrack.since # Never
      BY <2>7 DEF Restarts
    <3>2. rest = hcVisit.rest /\ hcVisit.rest # Never /\ hcVisit.rest <= hcTrack.since
              /\ ~again
      BY <2>7, <3>1 DEF CornerInv, WaitsAtRest, OpenedIsMarked, corner
    <3>3. CASE fires
      <4>1. hcTrack' = [seen EXCEPT !.cooldown = hcNow + CooldownMs, !.fired = corner]
        BY <2>1, <2>7, <3>3 DEF Tracked, seen
      <4>2. /\ hcTrack' \in TrackTypes /\ hcTrack'.last = hcCursor
            /\ hcTrack'.cooldown = hcNow + CooldownMs /\ hcTrack'.fired = corner
            /\ \A field \in {"corner", "since"} : hcTrack'[field] = hcTrack[field]
        <5>1. hcTrack' = [last |-> seen.last, corner |-> seen.corner,
                  since |-> seen.since,
                          cooldown |-> hcNow + CooldownMs, fired |-> corner]
          <6>1. hcTrack' = Pausing(seen, hcNow + CooldownMs, corner)
                /\ hcNow + CooldownMs \in Int
            BY <1>1, <4>1 DEF Pausing
          <6> QED BY <1>1, <2>0, <2>s, <6>1, TrackChanges
        <5> QED BY <1>1, <2>0, <2>s, <5>1 DEF TrackTypes
      <4>3. /\ hcNow - hcTrack.since >= DwellMs
            /\ hcTrack.cooldown = Never \/ hcNow >= hcTrack.cooldown
        BY <3>3 DEF Fires
      <4>4. hcNow - rest >= DwellMs
        BY <1>1, <2>2, <2>t, <3>2, <4>3 DEF TrackTypes
      <4>5. hcOpened.at # Never => hcNow - hcOpened.at >= CooldownMs
        BY <1>1, <4>3 DEF CornerInv, CornerTypes, OpenedIsMarked, Never
      <4>6. OpensAfterRest'
        BY <2>1, <3>2, <3>3, <4>4, <4>5 DEF OpensAfterRest
      <4>7. CornerTypes'
        BY <1>1, <2>0, <2>1, <2>2, <2>3, <3>3, <4>2 DEF CornerInv, CornerTypes
      <4>8. WaitsAtRest'
        BY <1>1, <2>3, <3>1, <3>2, <4>2 DEF WaitsAtRest, corner
      <4>9. OpenedIsMarked'
        BY <1>1, <2>1, <2>3, <3>3, <4>2 DEF OpenedIsMarked
      <4> QED BY <4>6, <4>7, <4>8, <4>9 DEF CornerInv
    <3>4. CASE ~fires
      <4>1. hcTrack' = seen /\ hcOpened' = hcOpened
        BY <2>1, <2>7, <3>4 DEF Tracked, seen
      <4>2. /\ hcTrack' \in TrackTypes /\ hcTrack'.last = hcCursor
            /\ \A field \in {"corner", "since", "cooldown", "fired"} :
                  hcTrack'[field] = hcTrack[field]
        BY <2>s, <4>1
      <4>3. WaitsAtRest'
        BY <1>1, <2>3, <3>1, <3>2, <4>2 DEF WaitsAtRest, corner
      <4>4. OpenedIsMarked'
        BY <2>3, <3>2, <3>4, <4>1, <4>2 DEF CornerInv, OpenedIsMarked
      <4>5. CornerTypes'
        BY <1>1, <2>0, <2>2, <2>3, <4>1, <4>2 DEF CornerInv, CornerTypes
      <4> QED BY <4>1, <4>3, <4>4, <4>5 DEF CornerInv, OpensAfterRest
    <3> QED BY <3>3, <3>4
  <2> QED BY <2>4, <2>5, <2>6, <2>7
<1> QED BY <1>2, <1>3

LEMMA CornerInvariant == HotCornerSpec => []CornerInv
<1>1. CornerInv /\ [HotCornerNext]_hcvars => CornerInv'
  <2> SUFFICES ASSUME CornerInv, [HotCornerNext]_hcvars
               PROVE  CornerInv'
    OBVIOUS
  <2>1. CASE FollowHotCorner
    BY <2>1, FollowKeeps
  <2>2. CASE UNCHANGED <<hcMonitors, hcTrack, hcVisit, hcOpened>>
                 /\ hcCursor' \in Spots /\ hcNow' \in {hcNow, hcNow + 1}
    BY <2>2 DEF CornerInv, CornerTypes, WaitsAtRest, OpenedIsMarked, OpensAfterRest
  <2> QED BY <2>1, <2>2
             DEF CornerInv, CornerTypes, HotCornerNext, CursorUnknown, WindowChanges,
                 CursorMoves, AssignCorners, hcvars
<1> QED BY CornerInitially, <1>1, PTL DEF HotCornerSpec

\* The screen opens only after the whole rest in the corner, once for each visit, and
\* never sooner than the cooldown after the last time.
THEOREM CornerRests == HotCornerSpec => []OpensAfterRest
<1>1. CornerInv => OpensAfterRest
  BY DEF CornerInv
<1> QED BY CornerInvariant, <1>1, PTL

-----------------------------------------------------------------------------
(* The geometry of the corners *)

\* No point of a screen is near two of its corners.
LEMMA OneCornerIsNear ==
    ASSUME NEW monitors, Desktop(monitors), NEW m \in monitors,
        NEW p \in [x : Int, y : Int],
           Inside(m, p), NEW c \in Corner, NEW d \in Corner,
           Near(p, CornerPoint(m, c)), Near(p, CornerPoint(m, d))
    PROVE  c = d
<1>1. /\ m.left \in Int /\ m.right \in Int /\ m.top \in Int /\ m.bottom \in Int
      /\ m.right - m.left >= 4 /\ m.bottom - m.top >= 4 /\ p.x \in Int /\ p.y \in Int
  BY DEF Desktop
<1>2. IsLeft(c) <=> IsLeft(d)
  BY <1>1 DEF Near, CornerPoint, Inside
<1>3. IsTop(c) <=> IsTop(d)
  BY <1>1 DEF Near, CornerPoint, Inside
<1> QED BY <1>2, <1>3 DEF IsLeft, IsTop, Corner

Grid(a, b, c, d) == [x : {a, b}, y : {c, d}]

\* The points around a vertex, one by one.
LEMMA FourPoints ==
    ASSUME NEW a, NEW b, NEW c, NEW d
    PROVE  Grid(a, b, c, d) =
              {[x |-> a, y |-> c], [x |-> a, y |-> d], [x |-> b, y |-> c],
                  [x |-> b, y |-> d]}
<1> USE DEF Grid
<1>1. ASSUME NEW r \in [x : {a, b}, y : {c, d}]
      PROVE  r \in {[x |-> a, y |-> c], [x |-> a, y |-> d], [x |-> b, y |-> c],
          [x |-> b, y |-> d]}
  <2>1. r = [x |-> r.x, y |-> r.y] /\ r.x \in {a, b} /\ r.y \in {c, d}
    OBVIOUS
  <2> QED BY <2>1
<1>2. ASSUME NEW r \in {[x |-> a, y |-> c], [x |-> a, y |-> d], [x |-> b, y |-> c],
          [x |-> b, y |-> d]}
      PROVE  r \in [x : {a, b}, y : {c, d}]
  BY <1>2
<1> QED BY <1>1, <1>2

\* The corner's own point is the one covered point around it exactly if no other
\* monitor goes on beyond it.
LEMMA OuterIsOneCovered ==
    ASSUME NEW monitors, Desktop(monitors), NEW m \in monitors, NEW corner \in Corner
    PROVE  OnOuterEdge(monitors, m, corner) <=>
             Cardinality({p \in Around(m, corner) : \E o \in monitors : Inside(o, p)}) = 1
<1> DEFINE covered == {p \in Around(m, corner) : \E o \in monitors : Inside(o, p)}
           c == CornerPoint(m, corner)
<1>1. /\ m.left \in Int /\ m.right \in Int /\ m.top \in Int /\ m.bottom \in Int
      /\ m.right - m.left >= 4 /\ m.bottom - m.top >= 4
  BY DEF Desktop
<1>2. Inside(m, c) /\ \A p \in Beyond(m, corner) : ~Inside(m, p) /\ p # c
  BY <1>1 DEF Inside, CornerPoint, Beyond
<1>3. Around(m, corner) = {c} \union Beyond(m, corner)
  <2> DEFINE x == IF IsLeft(corner) THEN m.left ELSE m.right
             y == IF IsTop(corner) THEN m.top ELSE m.bottom
             xo == IF IsLeft(corner) THEN m.left - 1 ELSE m.right
             yo == IF IsTop(corner) THEN m.top - 1 ELSE m.bottom
  <2>1. {x - 1, x} = {c.x, xo} /\ {y - 1, y} = {c.y, yo}
    BY <1>1 DEF CornerPoint
  <2>2. Around(m, corner) = [x : {c.x, xo}, y : {c.y, yo}]
    BY <2>1 DEF Around
  <2>3. Beyond(m, corner) = {[x |-> xo, y |-> c.y], [x |-> c.x, y |-> yo],
            [x |-> xo, y |-> yo]}
    BY DEF Beyond
  <2>4. c = [x |-> c.x, y |-> c.y]
    BY DEF CornerPoint
  <2> DEFINE cx == c.x
             cy == c.y
  <2>5. Grid(cx, xo, cy, yo) =
          {[x |-> cx, y |-> cy], [x |-> cx, y |-> yo], [x |-> xo, y |-> cy],
              [x |-> xo, y |-> yo]}
    BY FourPoints
  <2>6. Beyond(m, corner) = {[x |-> xo, y |-> cy], [x |-> cx, y |-> yo],
            [x |-> xo, y |-> yo]}
    BY <2>3
  <2>7. c = [x |-> cx, y |-> cy] /\ Around(m, corner) = Grid(cx, xo, cy, yo)
    BY <2>2, <2>4 DEF Grid
  <2> HIDE DEF c, cx, cy, xo, yo
  <2> QED BY <2>5, <2>6, <2>7
<1>4. c \in covered
  BY <1>2, <1>3
<1>5. OnOuterEdge(monitors, m, corner) <=> covered = {c}
  BY <1>2, <1>3, <1>4 DEF OnOuterEdge
<1>6. IsFiniteSet(covered)
  <2>1. IsFiniteSet(Around(m, corner))
    <3>1. PICK q, r, s : Beyond(m, corner) = {q, r, s}
      BY DEF Beyond
    <3>2. /\ IsFiniteSet({c}) /\ IsFiniteSet({q}) /\ IsFiniteSet({r}) /\ IsFiniteSet({s})
      BY FS_Singleton
    <3>3. IsFiniteSet({q} \union {r})
      BY <3>2, FS_Union
    <3>4. IsFiniteSet(({q} \union {r}) \union {s})
      BY <3>2, <3>3, FS_Union
    <3>5. IsFiniteSet({c} \union (({q} \union {r}) \union {s}))
      BY <3>2, <3>4, FS_Union
    <3>6. Around(m, corner) = {c} \union (({q} \union {r}) \union {s})
      <4> HIDE DEF c
      <4> QED BY <1>3, <3>1
    <3> QED BY <3>5, <3>6
  <2> QED BY <2>1, FS_Subset
<1>7. Cardinality(covered) = 1 <=> covered = {c}
  BY <1>4, <1>6, FS_Singleton
<1> QED BY <1>5, <1>7

\* external_corner_at.
LEMMA CornerAtNear ==
    ASSUME NEW monitors, Desktop(monitors), NEW m \in monitors, NEW corner \in Corner,
           NEW p \in [x : Int, y : Int], Inside(m, p), Near(p, CornerPoint(m, corner))
    PROVE  CornerAt(monitors, p) = IF OnOuterEdge(monitors, m, corner) THEN corner
        ELSE None
<1> DEFINE under == {o \in monitors : Inside(o, p)}
           fitting == {i \in 1..4 : Fits(monitors, m, p, CornerOrder[i])}
<1>1. under = {m}
  <2>1. ASSUME NEW o \in monitors, Inside(o, p)
        PROVE  o = m
    BY <2>1 DEF Inside, Desktop
  <2> QED BY <2>1
<1>2. (CHOOSE o \in under : TRUE) = m
  BY <1>1
<1>3. CornerAt(monitors, p) = IF fitting = {} THEN None
           ELSE CornerOrder[CHOOSE i \in fitting : \A j \in fitting : i <= j]
  BY <1>1, <1>2 DEF CornerAt
<1>4. PICK k \in 1..4 : CornerOrder[k] = corner
  BY DEF Corner, CornerOrder
<1>5. \A i \in 1..4 : CornerOrder[i] \in Corner /\ (CornerOrder[i] = corner => i = k)
  BY <1>4 DEF Corner, CornerOrder
<1>6. \A i \in fitting : i = k
  BY <1>5, OneCornerIsNear DEF Fits
<1>7. k \in fitting <=> OnOuterEdge(monitors, m, corner)
  BY <1>4 DEF Fits
<1> HIDE DEF fitting
<1>8. CASE OnOuterEdge(monitors, m, corner)
  <2>1. fitting = {k}
    BY <1>6, <1>7, <1>8
  <2>2. (CHOOSE i \in fitting : \A j \in fitting : i <= j) = k
    BY <2>1
  <2> QED BY <1>3, <1>4, <1>8, <2>1, <2>2
<1>9. CASE ~OnOuterEdge(monitors, m, corner)
  BY <1>3, <1>6, <1>7, <1>9
<1> QED BY <1>8, <1>9

\* On every arrangement of screens a point is taken for a corner exactly when it is
\* next to the vertex of a screen around which one quarter is covered.
THEOREM CornersFound == HotCornerSpec => []CornersAreFound
<1>1. CornerInv => CornersAreFound
  <2> SUFFICES ASSUME hcMonitors \in Layouts, NEW m \in hcMonitors, NEW corner \in Corner,
                      NEW p \in [x :
                          CornerPoint(m, corner).x - 1..CornerPoint(m, corner).x + 1,
                                 y : CornerPoint(m, corner).y - 1..CornerPoint(m,
                                     corner).y + 1],
                      Inside(m, p)
               PROVE  CornerAt(hcMonitors, p) =
                        IF Cardinality({q \in Around(m, corner) :
                                           \E o \in hcMonitors : Inside(o, q)}) = 1
                        THEN corner ELSE None
    BY DEF CornersAreFound, CornerInv, CornerTypes
  <2>1. Desktop(hcMonitors)
    BY CornerAssumption
  <2>2. CornerPoint(m, corner).x \in Int /\ CornerPoint(m, corner).y \in Int
    BY <2>1 DEF Desktop, CornerPoint
  <2>3. p \in [x : Int, y : Int] /\ Near(p, CornerPoint(m, corner))
    BY <2>2 DEF Near
  <2> QED BY <2>1, <2>3, CornerAtNear, OuterIsOneCovered
<1> QED BY CornerInvariant, <1>1, PTL

\* Both together: the screen opens at a corner of the desktop, after a rest there, once.
THEOREM HotCornersAreRight == HotCornerSpec => []CornerOpensAfterRest
BY CornerRests, CornersFound, PTL DEF CornerOpensAfterRest

-----------------------------------------------------------------------------
(* TaskbarWatcher: what is hidden is recorded. *)

\* The watcher hides a taskbar only that was shown when it began to watch; what it is
\* about to go back to is therefore shown, too.
OnlyShownIsHidden ==
    /\ tbWatch.owned # "none" => tbWatch.baseline = "shown"
    /\ tbWork.pc = "record" => tbWatch.baseline = "shown" /\ tbWork.target
    /\ tbWork.pc \in {"restore", "restoreWrite"} => ~tbWork.target

\* The record is written before the taskbar is hidden, and cleared after it is shown.
RecordCoversWrite ==
    /\ tbWork.pc \in {"lock", "write"} /\ tbWork.target
           => tbFile.restore_to = "shown" \/ "stale" \in tbExcused
    /\ tbWork.pc \in {"clear", "restoreClear"} => ~tbBit \/ tbBy = "user"

TaskbarInv ==
    TaskbarTypeOK /\ HidingIsRecorded /\ OnlyShownIsHidden /\ RecordCoversWrite

\* What the watcher thread may be doing: its part of TaskbarTypeOK.
WorkTypes ==
    [pc : {"down", "idle", "record", "lock", "write", "clear", "restore",
           "restoreWrite", "restoreClear"},
     why : {"none", "boot", "off", "drop"}, expected : BOOLEAN, target : BOOLEAN]

LEMMA TaskbarInitially == TaskbarInit => TaskbarInv
  BY DEF TaskbarInit, TaskbarInv, TaskbarTypeOK, HidingIsRecorded, OnlyShownIsHidden,
         RecordCoversWrite, NewWatch, Ready, NoCommand, RestoreTo, REQUIRED_STREAK

\* What evaluate makes of the watch, and when it decides to hide.
LEMMA EvaluatedIsWatch ==
    ASSUME NEW w, NEW front \in {"maximized", "normal", "unknown"}, NEW bit \in BOOLEAN,
           w \in [streak : {"none", "maximized", "normal"}, count : 0..REQUIRED_STREAK,
                  owned : {"none", "hidden", "shown"}, released : BOOLEAN,
                  baseline : RestoreTo, notApplicable : BOOLEAN],
           w.owned # "none" => w.baseline = "shown"
    PROVE  /\ Evaluated(w, front, bit) \in
                [streak : {"none", "maximized", "normal"}, count : 0..REQUIRED_STREAK,
                 owned : {"none", "hidden", "shown"}, released : BOOLEAN,
                 baseline : RestoreTo, notApplicable : BOOLEAN]
           /\ Evaluated(w, front, bit).owned # "none"
                  => Evaluated(w, front, bit).baseline = "shown"
           /\ Decision(w, front, bit) \in {"Hide", "Show"}
                  => Evaluated(w, front, bit).baseline = "shown"
<1>1. /\ Baseline(w, bit) \in {"shown", "hidden"}
      /\ w.baseline = "shown" => Baseline(w, bit) = "shown"
      /\ ~AlwaysHides(w, bit) => Baseline(w, bit) = "shown"
  BY DEF Baseline, AlwaysHides, AsValue, RestoreTo
<1>2. front # "unknown" => Counted(w, front) \in 0..REQUIRED_STREAK
  BY DEF Counted, REQUIRED_STREAK
<1>3. CASE w.released
  BY <1>3 DEF Evaluated, Decision
<1>4. CASE ~w.released /\ AlwaysHides(w, bit)
  <2>1. Decision(w, front, bit) = "NotApplicable"
    BY <1>4 DEF Decision
  <2>2. Evaluated(w, front, bit)
            = [w EXCEPT !.baseline = Baseline(w, bit), !.notApplicable = TRUE]
    BY <1>4, <2>1 DEF Evaluated
  <2> QED BY <1>1, <2>1, <2>2 DEF RestoreTo
<1>5. CASE ~w.released /\ ~AlwaysHides(w, bit) /\ Taken(w, bit)
  <2>1. Decision(w, front, bit) = "ReleaseOwnership"
    BY <1>5 DEF Decision
  <2>2. Evaluated(w, front, bit)
            = [streak |-> "none", count |-> 0, owned |-> w.owned, released |-> TRUE,
               baseline |-> Baseline(w, bit), notApplicable |-> w.notApplicable]
    BY <1>5, <2>1 DEF Evaluated
  <2>3. Evaluated(w, front, bit) \in
            [streak : {"none", "maximized", "normal"}, count : 0..REQUIRED_STREAK,
             owned : {"none", "hidden", "shown"}, released : BOOLEAN,
             baseline : RestoreTo, notApplicable : BOOLEAN]
    BY <1>1, <2>2 DEF RestoreTo, REQUIRED_STREAK
  <2>4. Evaluated(w, front, bit).owned # "none"
            => Evaluated(w, front, bit).baseline = "shown"
    BY <1>1, <2>2
  <2> QED BY <2>1, <2>3, <2>4
<1>6. CASE ~w.released /\ ~AlwaysHides(w, bit) /\ ~Taken(w, bit)
  <2>1. Decision(w, front, bit) =
            IF front = "unknown" \/ ~Acts(w, front) THEN "Idle"
            ELSE IF front = "maximized" THEN "Hide" ELSE "Show"
    BY <1>6 DEF Decision
  <2>2. Evaluated(w, front, bit) =
            IF front = "unknown" THEN [w EXCEPT !.baseline = Baseline(w, bit)]
            ELSE IF ~Acts(w, front)
                 THEN [w EXCEPT !.baseline = Baseline(w, bit), !.streak = front,
                                !.count = Counted(w, front)]
                 ELSE [w EXCEPT !.baseline = Baseline(w, bit), !.streak = front,
                                !.count = Counted(w, front), !.owned = Wanted(front)]
    BY <1>6, <2>1 DEF Evaluated
  <2> QED BY <1>1, <1>2, <1>6, <2>1, <2>2 DEF RestoreTo, Wanted
<1> QED BY <1>3, <1>4, <1>5, <1>6

\* The thread at the first step of the way back.
Restoring(why, expected) ==
    [pc |-> "restore", why |-> why, expected |-> expected, target |-> FALSE]

\* A new watch is one that owns nothing.
LEMMA NewWatchIsFree ==
    /\ NewWatch \in [streak : {"none", "maximized", "normal"}, count : 0..REQUIRED_STREAK,
                     owned : {"none", "hidden", "shown"}, released : BOOLEAN,
                     baseline : RestoreTo, notApplicable : BOOLEAN]
    /\ NewWatch.owned = "none"
  BY DEF NewWatch, RestoreTo, REQUIRED_STREAK

Ended == [Ready EXCEPT !.pc = "down"]

\* What the thread is doing at its start and end, and when it begins to restore.
LEMMA WorkIsTyped ==
    /\ Ready \in WorkTypes /\ Ready.pc = "idle" /\ ~Ready.target
    /\ Ended \in WorkTypes /\ Ended.pc = "down" /\ ~Ended.target
    /\ \A why \in {"boot", "off", "drop"} :
          /\ Restoring(why, FALSE) \in WorkTypes
          /\ Restoring(why, FALSE).pc = "restore" /\ ~Restoring(why, FALSE).target
<1>1. Ready \in WorkTypes /\ Ready.pc = "idle" /\ ~Ready.target
  BY DEF Ready, WorkTypes
<1>2. Ended \in WorkTypes /\ Ended.pc = "down" /\ ~Ended.target
  BY DEF Ended, Ready, WorkTypes
<1>3. ASSUME NEW why \in {"boot", "off", "drop"}
      PROVE  /\ Restoring(why, FALSE) \in WorkTypes
             /\ Restoring(why, FALSE).pc = "restore" /\ ~Restoring(why, FALSE).target
  BY DEF Restoring, WorkTypes
<1> QED BY <1>1, <1>2, <1>3

\* The decision of a poll, or the first step of the way back.
LEMMA PollKeeps == TaskbarInv /\ (PollOn \/ PollOff) => TaskbarInv'
<1> SUFFICES ASSUME TaskbarInv, PollOn \/ PollOff
             PROVE  TaskbarInv'
  OBVIOUS
<1> USE DEF TaskbarInv
<1>1. CASE PollOn
  <2> DEFINE decision == Decision(tbWatch, tbFront, tbBit)
  <2>1. /\ tbWatch' = Evaluated(tbWatch, tbFront, tbBit)
        /\ tbShown' \in [released : BOOLEAN, notApplicable : BOOLEAN]
        /\ tbWork' = [Ready EXCEPT
                !.pc = CASE decision = "Hide" -> "record"
                         [] decision = "Show" -> "lock"
                         [] OTHER -> "idle",
                !.expected = tbBit, !.target = decision = "Hide"]
        /\ UNCHANGED <<tbBit, tbBy, tbFront, tbFile, tbCommand, tbExcused>>
    BY <1>1 DEF PollOn, TaskbarTypeOK
  <2>2. /\ tbWork'.pc \in {"record", "lock", "idle"}
        /\ tbWork'.target = (decision = "Hide")
        /\ tbWork'.pc = "record" <=> decision = "Hide"
        /\ tbWork' \in [pc : {"record", "lock", "idle"}, why : {"none"},
                        expected : BOOLEAN, target : BOOLEAN]
    BY <2>1 DEF Ready, TaskbarTypeOK
  <2>3. TaskbarTypeOK' /\ (tbWatch'.owned # "none" => tbWatch'.baseline = "shown")
        /\ (decision \in {"Hide", "Show"} => tbWatch'.baseline = "shown")
    BY <2>1, <2>2, EvaluatedIsWatch DEF TaskbarTypeOK, OnlyShownIsHidden
  <2> QED BY <2>1, <2>2, <2>3 DEF HidingIsRecorded, OnlyShownIsHidden, RecordCoversWrite
<1>2. CASE PollOff
  <2>1. UNCHANGED <<tbBit, tbBy, tbFront, tbFile, tbShown, tbCommand, tbExcused>>
    BY <1>2 DEF PollOff
  <2>2. CASE OwnsHidden
    <3>1. /\ tbWatch' = tbWatch
          /\ tbWork' = Restoring("off", FALSE)
      BY <1>2, <2>2 DEF PollOff, OwnsHidden, OnlyShownIsHidden, Restoring, Ready
    <3> QED
      BY <2>1, <3>1 DEF TaskbarTypeOK, HidingIsRecorded, OnlyShownIsHidden,
                        RecordCoversWrite, Restoring
  <2>3. CASE ~OwnsHidden
    <3>1. tbWatch' = NewWatch /\ tbWork' = tbWork /\ tbWork.pc = "idle"
      BY <1>2, <2>3 DEF PollOff
    <3> QED
      BY <2>1, <3>1, NewWatchIsFree DEF TaskbarTypeOK, HidingIsRecorded,
                                        OnlyShownIsHidden, RecordCoversWrite
  <2> QED BY <2>2, <2>3
<1> QED BY <1>1, <1>2

\* The hiding and showing of a poll.
LEMMA ReplacingKeeps ==
    TaskbarInv /\ (RecordHiding \/ RecordHidingFails \/ Lock \/ GiveUpWrite \/ Replace
                   \/ ClearHiding(TRUE) \/ ClearHiding(FALSE))
        => TaskbarInv'
<1> SUFFICES ASSUME TaskbarInv,
                    RecordHiding \/ RecordHidingFails \/ Lock \/ GiveUpWrite \/ Replace
                        \/ ClearHiding(TRUE) \/ ClearHiding(FALSE)
             PROVE  TaskbarInv'
  OBVIOUS
<1> USE NewWatchIsFree DEF TaskbarInv, TaskbarTypeOK, HidingIsRecorded,
                           OnlyShownIsHidden, RecordCoversWrite
<1>1. CASE RecordHiding
  BY <1>1 DEF RecordHiding, Goto, RestoreTo
<1>2. CASE RecordHidingFails
  BY <1>2 DEF RecordHidingFails, Ready
<1>3. CASE Lock
  BY <1>3 DEF Lock, Goto
<1>4. CASE GiveUpWrite
  BY <1>4 DEF GiveUpWrite, Ready
<1>5. CASE Replace
  <2>1. CASE tbBit = tbWork.expected /\ tbWork.target
    <3>1. tbBit' = TRUE /\ tbWork.pc = "write"
      BY <1>5, <2>1 DEF Replace
    <3>2. /\ tbBy' = "watcher" /\ tbWork' = Ready
          /\ UNCHANGED <<tbFront, tbFile, tbShown, tbWatch, tbCommand, tbExcused>>
      BY <1>5, <2>1 DEF Replace
    <3> QED BY <2>1, <3>1, <3>2 DEF Ready
  <2>2. CASE tbBit = tbWork.expected /\ ~tbWork.target
    <3>1. tbBit' = FALSE /\ tbWork.pc = "write"
      BY <1>5, <2>2 DEF Replace
    <3>2. /\ tbBy' = "watcher" /\ tbWork' = [tbWork EXCEPT !.pc = "clear"]
          /\ UNCHANGED <<tbFront, tbFile, tbShown, tbWatch, tbCommand, tbExcused>>
      BY <1>5, <2>2 DEF Replace
    <3>3. tbBit' \in BOOLEAN /\ tbBy' \in {"watcher", "user"}
      BY <3>1, <3>2
    <3>4. tbWork' \in WorkTypes /\ tbWork'.pc = "clear" /\ ~tbWork'.target
      BY <2>2, <3>2 DEF WorkTypes
    <3>5. TaskbarTypeOK'
      BY <3>2, <3>3, <3>4 DEF WorkTypes
    <3> QED BY <3>1, <3>2, <3>4, <3>5
  <2>3. CASE tbBit # tbWork.expected
    <3>1. /\ tbWork' = Ready
          /\ UNCHANGED <<tbBit, tbBy, tbFront, tbFile, tbShown, tbWatch, tbCommand,
                         tbExcused>>
      BY <1>5, <2>3 DEF Replace
    <3> QED BY <3>1 DEF Ready
  <2> QED BY <2>1, <2>2, <2>3
<1>6. CASE ClearHiding(TRUE) \/ ClearHiding(FALSE)
  <2>1. /\ tbWork.pc = "clear" /\ tbWork' = Ready
        /\ tbFile' \in {tbFile, [tbFile EXCEPT !.restore_to = "none"]}
        /\ UNCHANGED <<tbBit, tbBy, tbFront, tbShown, tbWatch, tbCommand, tbExcused>>
    BY <1>6 DEF ClearHiding
  <2> QED BY <2>1 DEF Ready, RestoreTo
<1> QED BY <1>1, <1>2, <1>3, <1>4, <1>5, <1>6

\* The way back, and the start and the end of the thread.
LEMMA RestoringKeeps ==
    TaskbarInv /\ (RestoreTaskbar \/ RestoreWrite \/ RestoreClear(TRUE)
                   \/ RestoreClear(FALSE) \/ RestoreGivesUp
                   \/ BootTaskbar \/ StopTaskbar \/ CrashTaskbar)
        => TaskbarInv'
<1> SUFFICES ASSUME TaskbarInv,
                    RestoreTaskbar \/ RestoreWrite \/ RestoreClear(TRUE)
                        \/ RestoreClear(FALSE) \/ RestoreGivesUp
                        \/ BootTaskbar \/ StopTaskbar \/ CrashTaskbar
             PROVE  TaskbarInv'
  OBVIOUS
<1> USE NewWatchIsFree DEF TaskbarInv, TaskbarTypeOK, HidingIsRecorded,
                           OnlyShownIsHidden, RecordCoversWrite
<1>1. CASE RestoreTaskbar
  <2>1. /\ tbWork.pc = "restore" /\ tbWork.target = FALSE
        /\ UNCHANGED <<tbBit, tbBy, tbFront, tbFile, tbShown, tbWatch, tbCommand,
                       tbExcused>>
    BY <1>1 DEF RestoreTaskbar
  <2>2. tbWork' = [pc |-> IF tbBit THEN "restoreWrite" ELSE "restoreClear",
                   why |-> tbWork.why, expected |-> tbBit, target |-> FALSE]
    BY <1>1, <2>1 DEF RestoreTaskbar
  <2> QED BY <2>1, <2>2
<1>2. CASE RestoreWrite
  <2>1. /\ tbWork.target = FALSE /\ tbBit' = FALSE /\ tbBy' = "watcher"
        /\ UNCHANGED <<tbFront, tbFile, tbShown, tbWatch, tbCommand, tbExcused>>
    BY <1>2 DEF RestoreWrite
  <2>2. tbWork' \in WorkTypes /\ tbWork'.pc = "restoreClear"
    BY <1>2 DEF RestoreWrite, Goto, WorkTypes
  <2>3. tbBit' \in BOOLEAN /\ tbBy' \in {"watcher", "user"}
    BY <2>1
  <2>4. TaskbarTypeOK'
    BY <2>1, <2>2, <2>3 DEF WorkTypes
  <2> QED BY <2>1, <2>2, <2>4
<1>3. CASE RestoreClear(TRUE) \/ RestoreClear(FALSE)
  <2>1. /\ tbWork.pc = "restoreClear" /\ tbWatch' = NewWatch
        /\ tbFile' \in {tbFile, [tbFile EXCEPT !.restore_to = "none"]}
        /\ UNCHANGED <<tbBit, tbBy, tbFront, tbShown, tbCommand, tbExcused>>
    BY <1>3 DEF RestoreClear, Back
  <2>2. tbWork' \in [pc : {"down", "idle"}, why : {"none"}, expected : BOOLEAN,
                     target : BOOLEAN]
    BY <1>3 DEF RestoreClear, Back, Ready
  <2> QED BY <2>1, <2>2 DEF RestoreTo
<1>4. CASE RestoreGivesUp
  <2>1. tbWatch' = NewWatch
        /\ tbWork' \in [pc : {"down", "idle"}, why : {"none"}, expected : BOOLEAN,
                        target : BOOLEAN]
    BY <1>4 DEF RestoreGivesUp, Back, Ready
  <2> QED BY <1>4, <2>1 DEF RestoreGivesUp
<1>5. CASE BootTaskbar
  <2>1. tbWork' \in {Ready, Restoring("boot", FALSE)}
    BY <1>5 DEF BootTaskbar, Ready, Restoring
  <2>2. /\ tbWatch' = NewWatch /\ tbExcused' = tbExcused \ {"others"}
        /\ tbShown' = [released |-> FALSE, notApplicable |-> FALSE]
        /\ UNCHANGED <<tbBit, tbBy, tbFront, tbFile, tbCommand>>
    BY <1>5 DEF BootTaskbar
  <2>3. /\ tbWork' \in WorkTypes /\ tbWork'.pc \in {"idle", "restore"}
        /\ ~tbWork'.target
    BY <2>1, WorkIsTyped
  <2>4. tbShown' \in [released : BOOLEAN, notApplicable : BOOLEAN]
    BY <2>2
  <2>5. TaskbarTypeOK'
    BY <2>2, <2>3, <2>4 DEF WorkTypes
  <2> QED BY <2>2, <2>3, <2>5
<1>6. CASE StopTaskbar
  <2>1. tbWork' \in {Ended, Restoring("drop", FALSE)}
    BY <1>6 DEF StopTaskbar, OwnsHidden, Ready, Restoring, Ended
  <2>2. UNCHANGED <<tbBit, tbBy, tbFront, tbFile, tbShown, tbWatch, tbCommand, tbExcused>>
    BY <1>6 DEF StopTaskbar
  <2>3. /\ tbWork' \in WorkTypes /\ tbWork'.pc \in {"down", "restore"}
        /\ ~tbWork'.target
    BY <2>1, WorkIsTyped
  <2>4. TaskbarTypeOK'
    BY <2>2, <2>3 DEF WorkTypes
  <2> QED BY <2>2, <2>3, <2>4
<1>7. CASE CrashTaskbar
  <2>1. /\ tbWork' = [Ready EXCEPT !.pc = "down"] /\ tbCommand' = NoCommand
        /\ UNCHANGED <<tbBit, tbBy, tbFront, tbFile, tbShown, tbWatch, tbExcused>>
    BY <1>7 DEF CrashTaskbar
  <2>2. /\ tbWork' \in WorkTypes /\ tbWork'.pc = "down"
        /\ tbCommand' \in [pc : {"none", "read"}, enabled : BOOLEAN,
                           restore_to : RestoreTo]
        /\ tbCommand'.restore_to = "none"
    BY <2>1 DEF Ready, NoCommand, WorkTypes, RestoreTo
  <2>3. TaskbarTypeOK'
    BY <2>1, <2>2 DEF WorkTypes
  <2> QED BY <2>1, <2>2, <2>3
<1> QED BY <1>1, <1>2, <1>3, <1>4, <1>5, <1>6, <1>7

\* The commands and the user.
LEMMA CommandsKeep ==
    TaskbarInv /\ ((\E enabled \in BOOLEAN : CommandRead(enabled)) \/ CommandWrite
                   \/ CommandFails \/ UserSetsBit
                   \/ \E front \in {"maximized", "normal", "unknown"} :
                         FrontChanges(front))
        => TaskbarInv'
<1> SUFFICES ASSUME TaskbarInv,
                    \/ \E enabled \in BOOLEAN : CommandRead(enabled)
                    \/ CommandWrite \/ CommandFails \/ UserSetsBit
                    \/ \E front \in {"maximized", "normal", "unknown"} :
                           FrontChanges(front)
             PROVE  TaskbarInv'
  OBVIOUS
<1> USE DEF TaskbarInv, TaskbarTypeOK, HidingIsRecorded, OnlyShownIsHidden,
            RecordCoversWrite, NoCommand, RestoreTo
<1>1. CASE \E enabled \in BOOLEAN : CommandRead(enabled)
  BY <1>1 DEF CommandRead
<1>2. CASE CommandWrite
  <2>1. /\ tbFile' = [enabled |-> tbCommand.enabled, restore_to |-> tbCommand.restore_to]
        /\ tbShown' = [released |-> FALSE, notApplicable |-> FALSE]
        /\ tbCommand' = NoCommand
        /\ UNCHANGED <<tbBit, tbBy, tbFront, tbWatch, tbWork>>
    BY <1>2 DEF CommandWrite
  <2>2. /\ tbExcused' \subseteq {"failed", "stale", "others"}
        /\ \/ tbCommand.restore_to = tbFile.restore_to /\ tbExcused' = tbExcused
           \/ "stale" \in tbExcused'
    BY <1>2 DEF CommandWrite
  <2> QED BY <2>1, <2>2
<1>3. CASE CommandFails
  BY <1>3 DEF CommandFails
<1>4. CASE UserSetsBit
  BY <1>4 DEF UserSetsBit
<1>5. CASE \E front \in {"maximized", "normal", "unknown"} : FrontChanges(front)
  BY <1>5 DEF FrontChanges
<1> QED BY <1>1, <1>2, <1>3, <1>4, <1>5

LEMMA TaskbarInvariant == TaskbarSpec => []TaskbarInv
<1>1. TaskbarInv /\ [TaskbarStep \/ TaskbarUserStep \/ TaskbarFault]_tbvars => TaskbarInv'
  <2>1. TaskbarInv /\ UNCHANGED tbvars => TaskbarInv'
    BY DEF tbvars, TaskbarInv, TaskbarTypeOK, HidingIsRecorded, OnlyShownIsHidden,
           RecordCoversWrite
  <2>2. TaskbarInv /\ TaskbarStep => TaskbarInv'
    BY PollKeeps, ReplacingKeeps, RestoringKeeps DEF TaskbarStep
  <2>3. TaskbarInv /\ TaskbarUserStep => TaskbarInv'
    BY RestoringKeeps, CommandsKeep DEF TaskbarUserStep
  <2>4. TaskbarInv /\ TaskbarFault => TaskbarInv'
    BY ReplacingKeeps, RestoringKeeps, CommandsKeep DEF TaskbarFault
  <2> QED BY <2>1, <2>2, <2>3, <2>4
<1> QED BY TaskbarInitially, <1>1, PTL DEF TaskbarSpec

\* HidingIsRecorded (watcher.rs, commands.rs).
THEOREM HidingRecorded == TaskbarSpec => []HidingIsRecorded
<1>1. TaskbarInv => HidingIsRecorded
  BY DEF TaskbarInv
<1> QED BY TaskbarInvariant, <1>1, PTL

-----------------------------------------------------------------------------
(* ShellRestart: nobody else's process is ended. *)

\* Between the look at a process and its end there is a list only while there is a
\* restart, no id is in it twice, and what is in it is a shell or was given away.
RestartInv ==
    /\ DOMAIN srProc = ShellPids
    /\ srIds \subseteq ShellPids /\ srNamed \subseteq ShellPids
    /\ srNamed \intersect srIds = {}
    /\ srPc \notin {"look", "end"} => srIds = {}
    /\ srPc = "end" => srNamed = {}
    /\ \A p \in srIds \ srReused : srProc[p] \notin {"namesake", "other"}

RestartNext == RestartStep \/ RestartWindows \/ StartRestart \/ RestartFault

\* What a look notes is one shell's id at a time.
LEMMA LookingKeeps ==
    RestartInv /\ (LookAtPid \/ PidUnreadable \/ StartRestart) => RestartInv'
<1>1. RestartInv /\ LookAtPid => RestartInv'
  <2> SUFFICES ASSUME RestartInv, srPc = "look", NEW p \in srNamed,
                      srNamed' = srNamed \ {p},
                      srIds' = srIds \union {q \in {p} : IsShell(q)},
                      srReused' = srReused \ {p},
                      UNCHANGED <<srProc, srPc>>
               PROVE  RestartInv'
    BY DEF LookAtPid
  <2> QED BY DEF RestartInv, IsShell
<1>2. RestartInv /\ PidUnreadable => RestartInv'
  BY DEF RestartInv, PidUnreadable
<1>3. RestartInv /\ StartRestart => RestartInv'
  BY DEF RestartInv, StartRestart, RunsAs
<1> QED BY <1>1, <1>2, <1>3

\* Nothing else puts an id on the list, and what gets a new process under an id on it
\* is noted.
LEMMA OthersKeep ==
    RestartInv /\ RestartNext => RestartInv'
<1> SUFFICES ASSUME RestartInv, RestartNext
             PROVE  RestartInv'
  OBVIOUS
<1> USE DEF RestartInv
<1>1. CASE AllSeen \/ AllEnded
  BY <1>1 DEF AllSeen, AllEnded
<1>2. CASE EndPid
  BY <1>2 DEF EndPid, IsShell
<1>3. CASE EndPidFails
  BY <1>3 DEF EndPidFails
<1>4. CASE TaskbarSeen \/ TaskbarSeenLate \/ HalfTime \/ Deadline \/ GiveUpRestart
           \/ CannotRelaunch \/ TaskbarAppears
  BY <1>4 DEF TaskbarSeen, TaskbarSeenLate, HalfTime, Deadline, GiveUpRestart,
              CannotRelaunch, TaskbarAppears
<1>5. CASE RelaunchLate \/ RelaunchAgain
  BY <1>5 DEF RelaunchLate, RelaunchAgain, Relaunch, RunsAs
<1>6. CASE ProcessGoes \/ ShellEnds
  BY <1>6 DEF ProcessGoes, ShellEnds, RunsAs
<1>7. CASE WindowsRestarts \/ ProgramStarts
  BY <1>7 DEF WindowsRestarts, ProgramStarts, RunsAs
<1> QED
  BY LookingKeeps, <1>1, <1>2, <1>3, <1>4, <1>5, <1>6, <1>7
     DEF RestartNext, RestartStep, RestartWindows, RestartFault

LEMMA RestartInvariant == RestartSpec => []RestartInv
<1>1. RestartInit => RestartInv
  BY DEF RestartInit, RestartInv
<1>2. RestartInv /\ UNCHANGED srvars => RestartInv'
  BY DEF srvars, RestartInv
<1>3. RestartInv /\ [RestartNext]_srvars => RestartInv'
  BY <1>2, OthersKeep
<1> QED BY <1>1, <1>3, PTL DEF RestartSpec, RestartNext

\* OnlyShellsAreEnded (windows/shell_restart.rs).
THEOREM ShellsOnly == RestartSpec => OnlyShellsAreEnded
<1>1. RestartInv /\ [RestartNext]_srvars
          => [\A p \in ShellPids \ srReused :
                 srProc[p] \in {"namesake", "other"} => srProc'[p] = srProc[p]]_srvars
  <2> SUFFICES ASSUME RestartInv, RestartNext, NEW p \in ShellPids \ srReused,
                      srProc[p] \in {"namesake", "other"}
               PROVE  srProc'[p] = srProc[p]
    OBVIOUS
  <2>1. p \notin srIds
    BY DEF RestartInv
  <2>2. CASE EndPid
    BY <2>1, <2>2 DEF EndPid, RestartInv
  <2>3. CASE RelaunchLate \/ RelaunchAgain \/ ProcessGoes \/ ShellEnds
             \/ WindowsRestarts \/ ProgramStarts
    BY <2>3 DEF RelaunchLate, RelaunchAgain, Relaunch, ProcessGoes, ShellEnds,
                WindowsRestarts, ProgramStarts, RunsAs, RestartInv
  <2>4. CASE UNCHANGED srProc
    BY <2>4
  <2> QED
    BY <2>2, <2>3, <2>4
       DEF RestartNext, RestartStep, RestartWindows, RestartFault, StartRestart,
           LookAtPid, PidUnreadable, AllSeen, EndPidFails, AllEnded, TaskbarSeen,
           TaskbarSeenLate, HalfTime, Deadline, GiveUpRestart, CannotRelaunch,
           TaskbarAppears
<1> QED BY RestartInvariant, <1>1, PTL DEF RestartSpec, RestartNext, OnlyShellsAreEnded

=============================================================================
