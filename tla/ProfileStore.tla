---------------------------- MODULE ProfileStore ----------------------------
(***************************************************************************)
(* The file of game profiles and manual modes.  Every command works on a   *)
(* copy of what is in memory, saves the whole of it by writing a second    *)
(* file and renaming that over the first, and only then makes the copy its  *)
(* memory.  At the start the file is checked again with rules of its own,   *)
(* and a file that does not pass is not opened at all.                     *)
(*                                                                         *)
(* An import is a series of creations, each saved by itself.  Commands run  *)
(* one at a time.                                                          *)
(***************************************************************************)
EXTENDS Naturals, FiniteSets, Sequences

CONSTANT MaxProfiles    \* MAX_PROFILES

ASSUME StoreAssumption == MaxProfiles \in Nat \ {0}

VARIABLES
    psFile,     \* what is on disk
    psMemory,   \* the profiles in memory, by id
    psState,    \* "up", "down", or "refused": the file was not opened
    psTodo,     \* the profiles an import has still to create
    psNext,     \* the copy that is being saved
    psSaving,   \* "no", "save", or "acknowledge"
    psStale,    \* history: memory is ahead of the file
    psRunning   \* history: the modes that hold settings to give back

psvars == <<psFile, psMemory, psState, psTodo, psNext, psSaving, psStale, psRunning>>

\* What a request may ask for: a game, a game whose file is no .exe, a mode, and
\* a mode without actions.  An import of one is profile_create.
RequestKind == {"game", "document", "mode", "empty_mode"}
Request == {<<k>> : k \in RequestKind} \union {<<k, "game">> : k \in RequestKind}

ProfileId == 1..(MaxProfiles + 1)
StoredProfile == [kind : RequestKind, enabled : BOOLEAN, run : 0..2]
ProfileMap == UNION {[ids -> StoredProfile] : ids \in SUBSET ProfileId}
NoProfiles == [id \in {} |-> 0]

StoreTypeOK ==
    /\ psMemory \in ProfileMap /\ psNext \in ProfileMap /\ psFile.profiles \in ProfileMap
    /\ psFile.readable \in BOOLEAN
    /\ psState \in {"up", "down", "refused"}
    /\ psTodo \in Request \union {Tail(r) : r \in Request}
    /\ psSaving \in {"no", "save", "acknowledge"}
    /\ psStale \in BOOLEAN
    /\ psRunning \subseteq ProfileId

\* No file is an empty one.
StoreInit ==
    /\ psFile = [readable |-> TRUE, profiles |-> NoProfiles]
    /\ psMemory = NoProfiles /\ psNext = NoProfiles
    /\ psState = "up"
    /\ psTodo = << >>
    /\ psSaving = "no"
    /\ psStale = FALSE
    /\ psRunning = {}

-----------------------------------------------------------------------------
(* Saving *)

With(id, profile) ==
    [i \in DOMAIN psMemory \union {id} |-> IF i = id THEN profile ELSE psMemory[i]]

Saving(way, profiles) ==
    /\ psSaving' = way /\ psNext' = profiles
    /\ UNCHANGED <<psFile, psMemory, psState, psStale, psRunning>>

\* The modes that are begun and not given back.
Begun(profiles) == {id \in DOMAIN profiles : profiles[id].run > 0}

BeginAndEnd ==
    psRunning' = (psRunning \union (Begun(psNext) \ Begun(psMemory)))
                     \ {id \in DOMAIN psNext : psNext[id].run = 0}

\* persist: the second file is complete when it is renamed.
Persist ==
    /\ psSaving # "no"
    /\ psFile' = [psFile EXCEPT !.profiles = psNext]
    /\ psMemory' = psNext /\ psStale' = FALSE
    /\ BeginAndEnd
    /\ psSaving' = "no"
    /\ UNCHANGED <<psState, psTodo, psNext>>

\* Nothing of a command that cannot be saved remains, except an acknowledgement:
\* the setting is given back already.
KeepsOnFailure ==
    IF psSaving = "acknowledge"
    THEN psMemory' = psNext /\ psStale' = TRUE /\ BeginAndEnd
    ELSE UNCHANGED <<psMemory, psStale, psRunning>>

PersistFails ==
    /\ psSaving # "no"
    /\ KeepsOnFailure
    /\ psSaving' = "no"
    /\ UNCHANGED <<psFile, psState, psTodo, psNext>>

-----------------------------------------------------------------------------
(* The commands *)

StoreReady == psState = "up" /\ psSaving = "no"
StoreIdle == StoreReady /\ psTodo = << >>

StartImport ==
    /\ StoreIdle
    /\ psTodo' \in Request
    /\ UNCHANGED <<psFile, psMemory, psState, psNext, psSaving, psStale, psRunning>>

\* validate_manual_actions, validate_automation_actions, resolve_binding: any
\* file on a fixed drive is one to bind a profile to.
Accepted(kind) == kind # "empty_mode"

Bug_HasRoom == Cardinality(DOMAIN psMemory) <= MaxProfiles

HasRoom == Cardinality(DOMAIN psMemory) < MaxProfiles

\* create: import_apply goes on with the next profile when one is refused.
Create ==
    /\ StoreReady /\ psTodo # << >>
    /\ psTodo' = Tail(psTodo)
    /\ IF Accepted(Head(psTodo)) /\ HasRoom
       THEN LET id == CHOOSE i \in ProfileId : i \notin DOMAIN psMemory IN
            Saving("save", With(id, [kind |-> Head(psTodo), enabled |-> FALSE, run |-> 0]))
       ELSE UNCHANGED <<psFile, psMemory, psState, psNext, psSaving, psStale, psRunning>>

IsManual(id) == psMemory[id].kind \in {"mode", "empty_mode"}

Command(way, profiles) == StoreIdle /\ Saving(way, profiles) /\ UNCHANGED psTodo

SetEnabled(id, enabled) ==
    /\ enabled => ~IsManual(id)
    /\ Command("save", With(id, [psMemory[id] EXCEPT !.enabled = enabled]))

\* The colour is not modelled, but all of memory is saved.
SetRibbonColor == Command("save", psMemory)

SetActiveRun(id) ==
    /\ IsManual(id) /\ psMemory[id].run = 0
    /\ \E items \in 1..2 : Command("save", With(id, [psMemory[id] EXCEPT !.run = items]))

AcknowledgeRolledBackItem(id) ==
    /\ psMemory[id].run > 0
    /\ Command("acknowledge", With(id, [psMemory[id] EXCEPT !.run = @ - 1]))

MayDelete(id) == psMemory[id].run = 0

Delete(id) ==
    /\ MayDelete(id)
    /\ Command("save", [i \in DOMAIN psMemory \ {id} |-> psMemory[i]])

-----------------------------------------------------------------------------
(* Starting again *)

\* A crash may come after the file was renamed.
StoreCrash ==
    /\ psState = "up"
    /\ psState' = "down" /\ psMemory' = NoProfiles
    /\ psTodo' = << >> /\ psNext' = NoProfiles /\ psSaving' = "no"
    /\ psStale' = FALSE
    /\ \/ UNCHANGED <<psFile, psRunning>>
       \/ /\ psSaving # "no"
          /\ psFile' = [psFile EXCEPT !.profiles = psNext]
          /\ BeginAndEnd

\* validate_loaded_profiles
Loads(profile) ==
    CASE profile.kind = "game" -> profile.run = 0
      [] profile.kind = "mode" -> ~profile.enabled
      [] OTHER                 -> FALSE

Opens(profiles) ==
    /\ Cardinality(DOMAIN profiles) <= MaxProfiles
    /\ \A id \in DOMAIN profiles : Loads(profiles[id])

\* ProfileStore::open
Open ==
    /\ psState = "down"
    /\ IF psFile.readable /\ Opens(psFile.profiles)
       THEN psState' = "up" /\ psMemory' = psFile.profiles
       ELSE psState' = "refused" /\ UNCHANGED psMemory
    /\ UNCHANGED <<psFile, psTodo, psNext, psSaving, psStale, psRunning>>

OthersDamageFile ==
    /\ psState = "down"
    /\ psFile' = [psFile EXCEPT !.readable = FALSE]
    /\ UNCHANGED <<psMemory, psState, psTodo, psNext, psSaving, psStale, psRunning>>

StoreStep == Persist \/ Create \/ Open

StoreUserStep ==
    \/ StartImport \/ SetRibbonColor
    \/ \E id \in DOMAIN psMemory :
          \/ \E enabled \in BOOLEAN : SetEnabled(id, enabled)
          \/ SetActiveRun(id) \/ AcknowledgeRolledBackItem(id) \/ Delete(id)

StoreFault == PersistFails \/ StoreCrash \/ OthersDamageFile

StoreNext == StoreStep \/ StoreUserStep \/ StoreFault

StoreSpec == StoreInit /\ [][StoreNext]_psvars

-----------------------------------------------------------------------------
(* Properties *)

\* The file is always one that the next start opens, unless others damaged it:
\* the rules of create, set_enabled, set_active_run and delete allow no more than
\* validate_loaded_profiles does, at the limit of profiles too.  (Not so for a
\* profile of a file that is no .exe, which create accepts.)  Memory and file
\* agree between commands unless an acknowledgement could not be saved; and a mode
\* that holds settings to give back keeps its record, through every failure,
\* crash and start.
StoreOpensAgain ==
    /\ \/ Opens(psFile.profiles)
       \/ \E id \in DOMAIN psFile.profiles : psFile.profiles[id].kind = "document"
    /\ StoreReady /\ ~psStale => psFile.profiles = psMemory
    /\ psRunning \subseteq Begun(IF psState = "up" THEN psMemory ELSE psFile.profiles)

=============================================================================
