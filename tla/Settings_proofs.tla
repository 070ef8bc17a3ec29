--------------------------- MODULE Settings_proofs ----------------------------
(***************************************************************************)
(* Changes of more than one call: a registry value is given back as it was, *)
(* key and type included; a cleanup deletes what was listed, however many  *)
(* calls fail, others write and files are moved in between; the screen on  *)
(* which changes are tried acts on what the user saw, in whatever order    *)
(* the answers come; and a setting that was taken back is as if the program *)
(* had written nothing, however often others write from preview to end.    *)
(***************************************************************************)
EXTENDS RegistryValue, TempCleanup, TrialScreen, SettingCaptures, WellFoundedInduction,
        TLAPS

-----------------------------------------------------------------------------
(* RegistryValue *)

\* A write is about to replace what was read, unless others came in between; and
\* an item that is given back is at rest.
WritesWhatWasRead ==
    /\ rvStep = "write" => rvAt = rvBackup \/ rvUnseen
    /\ rvStep = "put" => rvAt = rvWant \/ rvUnseen
    /\ rvItem = "ROLLED_BACK" => rvStep = "rest"

RegistryInv == RegistryIsGivenBack /\ WritesWhatWasRead

LEMMA RegistryInitially == RegistryInit => RegistryInv
BY DEF RegistryInit, RegistryInv, RegistryIsGivenBack, WritesWhatWasRead

\* Every step forwards.
LEMMA ForwardKeeps ==
    ASSUME RegistryInv,
           \/ PreviewValue \/ CommitValue \/ CaptureValue \/ PrepareValue \/ CompareValue
           \/ WriteValue \/ VerifyValue
    PROVE  RegistryInv'
<1> USE DEF RegistryInv, RegistryIsGivenBack, WritesWhatWasRead, RvKeeps, RvGo, RvRest,
            RvClassify
<1>1. CASE PreviewValue
  BY <1>1 DEF PreviewValue
<1>2. CASE CommitValue
  BY <1>2 DEF CommitValue, Redetected
<1>3. CASE CaptureValue
  BY <1>3 DEF CaptureValue
<1>4. CASE PrepareValue
  BY <1>4 DEF PrepareValue, Redetected
<1>5. CASE CompareValue
  BY <1>5 DEF CompareValue, SameRaw
<1>6. CASE WriteValue
  BY <1>6 DEF WriteValue, RvPuts
<1>7. CASE VerifyValue
  BY <1>7 DEF VerifyValue
<1> QED BY <1>1, <1>2, <1>3, <1>4, <1>5, <1>6, <1>7

\* Every step back.
LEMMA BackwardKeeps ==
    ASSUME RegistryInv,
           \/ RollBackValue \/ IsOriginalValue \/ IsAppliedValue \/ ClassifyValue
           \/ PutValue \/ ConfirmValue
    PROVE  RegistryInv'
<1> USE DEF RegistryInv, RegistryIsGivenBack, WritesWhatWasRead, RvKeeps, RvGo, RvRest
<1>1. CASE RollBackValue
  BY <1>1 DEF RollBackValue
<1>2. CASE IsOriginalValue
  BY <1>2 DEF IsOriginalValue, SameRaw
<1>3. CASE IsAppliedValue
  BY <1>3 DEF IsAppliedValue
<1>4. CASE ClassifyValue
  BY <1>4 DEF ClassifyValue, SameRaw
<1>5. CASE PutValue
  BY <1>5 DEF PutValue, RvPuts
<1>6. CASE ConfirmValue
  BY <1>6 DEF ConfirmValue, SameRaw
<1> QED BY <1>1, <1>2, <1>3, <1>4, <1>5, <1>6

\* Failures, crashes, restarts and others.
LEMMA FaultsKeep ==
    ASSUME RegistryInv,
           RegistryCallFails \/ RegistryCrash \/ RegistryRestart \/ OthersWriteValue
    PROVE  RegistryInv'
<1> USE DEF RegistryInv, RegistryIsGivenBack, WritesWhatWasRead, RvKeeps, RvRest,
    RvClassify
<1>1. CASE RegistryCallFails
  BY <1>1 DEF RegistryCallFails
<1>2. CASE RegistryCrash
  BY <1>2 DEF RegistryCrash
<1>3. CASE RegistryRestart
  BY <1>3 DEF RegistryRestart
<1>4. CASE OthersWriteValue
  BY <1>4 DEF OthersWriteValue
<1> QED BY <1>1, <1>2, <1>3, <1>4

\* A registry value whose item is rolled back holds what the backup has, and no
\* write of this program ever replaced what it had not read.
THEOREM RegistryGivenBack == RegistrySpec => []RegistryIsGivenBack
<1>1. RegistryInv /\ [RegistryStep \/ RegistryUserStep \/ RegistryFault]_rvvars
          => RegistryInv'
  <2> SUFFICES ASSUME RegistryInv,
                      [RegistryStep \/ RegistryUserStep \/ RegistryFault]_rvvars
               PROVE  RegistryInv'
    OBVIOUS
  <2>1. CASE UNCHANGED rvvars
    BY <2>1 DEF rvvars, RegistryInv, RegistryIsGivenBack, WritesWhatWasRead
  <2>2. CASE RegistryStep
    BY <2>2, ForwardKeeps, BackwardKeeps, FaultsKeep DEF RegistryStep
  <2>3. CASE RegistryUserStep
    BY <2>3, ForwardKeeps, BackwardKeeps DEF RegistryUserStep
  <2>4. CASE RegistryFault
    BY <2>4, FaultsKeep DEF RegistryFault
  <2> QED BY <2>1, <2>2, <2>3, <2>4
<1>2. RegistryInv => RegistryIsGivenBack
  BY DEF RegistryInv
<1> QED BY RegistryInitially, <1>1, <1>2, PTL DEF RegistrySpec

-----------------------------------------------------------------------------
(* TempCleanup *)

CleanupTypes ==
    /\ tcPlace \in [CleanFiles -> Folders \union {"outside", "gone"}]
    /\ tcLinks \subseteq Folders
    /\ tcWalk \in [kind : {"list", "delete"},
                   pc : {"rest", "begin", "folder", "entries", "open", "file",
                         "place", "delete", "done"}]
    /\ tcPending \subseteq Folders
    /\ tcDir \in [folder : Folders, entries : SUBSET {"file", "folder"}]
    /\ tcHandle \in CleanFiles \union {NoFile}
    /\ tcWas \subseteq {"old", "inside"}

\* A folder with files in it, or below it, is no link.
LinksAreEmpty ==
    \A f \in CleanFiles :
        /\ tcPlace[f] = "temp" => "temp" \notin tcLinks
        /\ tcPlace[f] = "sub" => tcLinks = {}

\* What was found out about the open file was so after it was opened.
CheckedOpen ==
    /\ tcWalk.pc \in {"file", "place", "delete"} <=> tcHandle # NoFile
    /\ tcWalk.pc \in {"place", "delete"} => "old" \in tcWas
    /\ tcWalk.pc = "delete" => "inside" \in tcWas

\* The walk has still to come to folder d, or to the entry for what is in it.
StillComes(d, entry) ==
    d \in tcPending \/ (tcDir.folder = d /\ entry \in tcDir.entries)

\* An old file to which nothing happens was visited, or is still ahead.
NothingMissed ==
    /\ tcWalk.pc \in {"rest", "begin", "folder", "done"} => tcDir.entries = {}
    /\ tcWalk.pc = "done" => tcPending = {}
    /\ tcWalk.pc \notin {"rest", "begin"} /\ ~tcCut /\ ~tcDropped =>
          \A f \in (tcSteady \intersect tcOld) \ tcVisited :
             /\ tcPlace[f] = "temp" => StillComes("temp", "file")
             /\ tcPlace[f] = "sub"
                    => StillComes("sub", "file") \/ StillComes("temp", "folder")

CleanupInv == CleanupTypes /\ LinksAreEmpty /\ CheckedOpen /\ NothingMissed
             /\ tcSteady \subseteq CleanFiles

LEMMA CleanupInitially == CleanupInit => CleanupInv
BY CleanupAssumption
   DEF CleanupInit, CleanupInv, CleanupTypes, LinksAreEmpty, CheckedOpen,
       NothingMissed, Folders, NoFile

\* A step of the walk keeps the invariant, for the list and for the deletion.
LEMMA WalkStepKeeps ==
    ASSUME CleanupInv, Remembered,
           \/ BeginWalk \/ ReadFolder \/ ReadFolderFails \/ LookAtFolder \/ LookAtFile
           \/ CutShort \/ NextFolder \/ EndWalk \/ CloseWalk \/ DropEntry
           \/ \E kind \in {"list", "delete"} : StartWalk(kind)
    PROVE  CleanupInv'
<1> USE CleanupAssumption DEF CleanupInv, At, Look, Folders
<1>1. UNCHANGED <<tcPlace, tcOld, tcLinks, tcHandle>> /\ tcHandle = NoFile
  BY DEF BeginWalk, ReadFolder, ReadFolderFails, LookAtFolder, LookAtFile,
         CutShort, NextFolder, EndWalk, CloseWalk, DropEntry, StartWalk, CheckedOpen
<1>2. LinksAreEmpty' /\ tcSteady' \subseteq CleanFiles
  BY <1>1 DEF LinksAreEmpty, Remembered
<1>3. CASE BeginWalk
  BY <1>1, <1>2, <1>3
     DEF BeginWalk, CleanupTypes, CheckedOpen, NothingMissed, StillComes, Remembered
<1>4. CASE ReadFolder
  <2>1. PICK d \in tcPending :
        /\ Leads(d) # "nowhere"
        /\ tcPending' = tcPending \ {d}
        /\ tcDir' = [folder |-> d,
                     entries |-> {e \in {"file", "folder"} :
                                    IF e = "file" THEN Reaches(d) # {}
                                    ELSE d = "temp" /\ d \notin tcLinks}]
    BY <1>4 DEF ReadFolder
  <2>2. CleanupTypes' /\ CheckedOpen'
    BY <1>1, <1>4, <2>1 DEF ReadFolder, CleanupTypes, CheckedOpen, Remembered
  <2>3. NothingMissed'
    BY <1>1, <1>4, <2>1
       DEF ReadFolder, CleanupTypes, LinksAreEmpty, NothingMissed, StillComes,
           Remembered, Reaches, Leads
  <2> QED BY <1>2, <2>2, <2>3
<1>5. CASE ReadFolderFails
  BY <1>1, <1>2, <1>5
     DEF ReadFolderFails, CleanupTypes, CheckedOpen, NothingMissed, StillComes,
         Remembered
<1>6. CASE LookAtFolder
  BY <1>1, <1>2, <1>6
     DEF LookAtFolder, CleanupTypes, CheckedOpen, NothingMissed, StillComes,
         Remembered, Leads, LinksAreEmpty
<1>7. CASE LookAtFile
  <2>1. /\ tcDir' = [tcDir EXCEPT !.entries = tcDir.entries \ {"file"}]
        /\ tcPending' = tcPending /\ tcDropped' = tcDropped
        /\ tcVisited' = tcVisited \union (Reaches(tcDir.folder) \intersect tcOld)
        /\ tcWalk' = tcWalk \/ tcWalk' = [tcWalk EXCEPT !.pc = "open"]
        /\ ~tcCut' => ~tcCut /\ tcWalk.pc = "entries"
    BY <1>7 DEF LookAtFile
  <2>2. CleanupTypes' /\ CheckedOpen'
    BY <1>1, <2>1 DEF CleanupTypes, CheckedOpen, Remembered
  <2>3. NothingMissed'
    <3>1. \A f \in CleanFiles : tcPlace[f] = tcDir.folder => f \in Reaches(tcDir.folder)
      BY DEF Reaches, Leads, LinksAreEmpty, CleanupTypes
    <3>2. tcWalk.pc = "entries" /\ tcWalk'.pc \in {"entries", "open"}
      BY <1>7, <2>1 DEF LookAtFile, CleanupTypes
    <3> QED BY <1>1, <2>1, <3>1, <3>2
               DEF NothingMissed, StillComes, Remembered, CleanupTypes
  <2> QED BY <1>2, <2>2, <2>3
<1>8. CASE CutShort \/ DropEntry
  BY <1>1, <1>2, <1>8
     DEF CutShort, DropEntry, CleanupTypes, CheckedOpen, NothingMissed, StillComes,
         Remembered
<1>9. CASE NextFolder \/ EndWalk \/ CloseWalk
  BY <1>1, <1>2, <1>9
     DEF NextFolder, EndWalk, CloseWalk, CleanupTypes, CheckedOpen, NothingMissed,
         StillComes, Remembered
<1>10. ASSUME NEW kind \in {"list", "delete"}, StartWalk(kind)
       PROVE  CleanupInv'
  BY <1>1, <1>2, <1>10
     DEF StartWalk, CleanupTypes, CheckedOpen, NothingMissed, StillComes, Remembered
<1> QED BY <1>3, <1>4, <1>5, <1>6, <1>7, <1>8, <1>9, <1>10

\* So does what happens to the one open file.
LEMMA DeletionKeeps ==
    ASSUME CleanupInv, Remembered,
           \/ OpenFile \/ CheckFile \/ CheckPlace \/ DeleteFile \/ SkipFile
                  \/ FileCallFails
    PROVE  CleanupInv'
<1> USE CleanupAssumption DEF CleanupInv, At, Look, Folders
<1>1. /\ UNCHANGED <<tcOld, tcLinks, tcPending, tcDir, tcVisited, tcCut, tcDropped>>
      /\ tcSteady' \subseteq tcSteady
      /\ \A f \in tcSteady' : tcPlace'[f] = tcPlace[f]
      /\ tcWalk.pc \notin {"rest", "begin", "folder", "done"}
      /\ tcWalk'.pc \notin {"rest", "begin", "folder", "done"}
  BY DEF OpenFile, CheckFile, CheckPlace, DeleteFile, SkipFile, FileCallFails,
         Remembered, CleanupTypes
<1>2. NothingMissed'
  BY <1>1 DEF NothingMissed, StillComes
<1>3. CASE OpenFile
  BY <1>1, <1>2, <1>3
     DEF OpenFile, CleanupTypes, CheckedOpen, LinksAreEmpty, Remembered, Reaches
<1>4. CASE CheckFile
  BY <1>1, <1>2, <1>4 DEF CheckFile, CleanupTypes, CheckedOpen, LinksAreEmpty, Remembered
<1>5. CASE CheckPlace
  BY <1>1, <1>2, <1>5
     DEF CheckPlace, CleanupTypes, CheckedOpen, LinksAreEmpty, Remembered, BelowRoot
<1>6. CASE DeleteFile
  BY <1>1, <1>2, <1>6 DEF DeleteFile, CleanupTypes, CheckedOpen, LinksAreEmpty, Remembered
<1>7. CASE SkipFile \/ FileCallFails
  BY <1>1, <1>2, <1>7
     DEF SkipFile, FileCallFails, CleanupTypes, CheckedOpen, LinksAreEmpty, Remembered
<1> QED BY <1>3, <1>4, <1>5, <1>6, <1>7

\* Others work in the folder.
LEMMA OthersKeepWalk ==
    ASSUME CleanupInv, Remembered,
           UNCHANGED <<tcWalk, tcPending, tcDir, tcHandle, tcVisited, tcCut, tcDropped>>,
           \/ \E f \in CleanFiles : OthersTouch(f) \/ OthersMoveFile(f)
           \/ \E folder \in Folders : OthersLink(folder)
    PROVE  CleanupInv'
<1> USE CleanupAssumption DEF CleanupInv, Folders
<1>1. CheckedOpen'
  BY DEF CheckedOpen, CleanupTypes, Remembered
<1>2. NothingMissed'
  BY DEF NothingMissed, StillComes, Remembered
<1>3. CleanupTypes' /\ LinksAreEmpty'
  <2>1. ASSUME NEW f \in CleanFiles, OthersTouch(f)
        PROVE  CleanupTypes' /\ LinksAreEmpty'
    BY <2>1 DEF OthersTouch, CleanupTypes, LinksAreEmpty, Remembered
  <2>2. ASSUME NEW f \in CleanFiles, OthersMoveFile(f)
        PROVE  CleanupTypes' /\ LinksAreEmpty'
    <3>1. PICK p \in {"gone", "outside", Leads("temp"), Leads("sub")} \ {"nowhere",
              tcPlace[f]} :
              tcPlace' = [tcPlace EXCEPT ![f] = p]
      BY <2>2 DEF OthersMoveFile
    <3>2. p \in Folders \union {"outside", "gone"} /\ tcLinks' = tcLinks
      BY <2>2 DEF OthersMoveFile, Leads
    <3>3. CleanupTypes'
      BY <3>1, <3>2 DEF CleanupTypes, Remembered
    <3>4. p = "temp" => "temp" \notin tcLinks
      BY <3>1 DEF Leads
    <3>5. p = "sub" => tcLinks = {}
      BY <3>1 DEF Leads, CleanupTypes
    <3> QED BY <3>1, <3>2, <3>3, <3>4, <3>5 DEF LinksAreEmpty, CleanupTypes
  <2>3. ASSUME NEW folder \in Folders, OthersLink(folder)
        PROVE  CleanupTypes' /\ LinksAreEmpty'
    <3>0. tcPlace' = tcPlace
      BY <2>3 DEF OthersLink
    <3>1. tcLinks' \subseteq Folders
      <4>1. tcLinks' = tcLinks \ {folder} \/ tcLinks' = tcLinks \union {folder}
        BY <2>3 DEF OthersLink
      <4>2. tcLinks \subseteq Folders
        BY DEF CleanupTypes
      <4> HIDE DEF Folders
      <4> QED BY <2>3, <4>1, <4>2
    <3>2. CleanupTypes'
      BY <3>0, <3>1 DEF CleanupTypes, Remembered
    <3>3. \/ tcLinks' \subseteq tcLinks
          \/ \A f \in CleanFiles : tcPlace[f] \notin {folder, "sub"}
                 /\ tcLinks' = tcLinks \union {folder}
      BY <2>3 DEF OthersLink
    <3> QED BY <3>0, <3>2, <3>3 DEF LinksAreEmpty
  <2> QED BY <2>1, <2>2, <2>3
<1> QED BY <1>1, <1>2, <1>3 DEF Remembered

LEMMA CleanupInvariant == CleanupSpec => []CleanupInv
<1>1. CleanupInv /\ [CleanupNext]_tcvars => CleanupInv'
  <2> SUFFICES ASSUME CleanupInv, [CleanupNext]_tcvars
               PROVE  CleanupInv'
    OBVIOUS
  <2>1. CASE UNCHANGED tcvars
    BY <2>1
       DEF tcvars, CleanupInv, CleanupTypes, LinksAreEmpty, CheckedOpen, NothingMissed,
           StillComes
  <2>2. CASE CleanupNext
    BY <2>2, WalkStepKeeps, DeletionKeeps, OthersKeepWalk
       DEF CleanupNext, CleanupStep, CleanupUserStep, CleanupFault, FolderIsGone
  <2> QED BY <2>1, <2>2
<1> QED BY CleanupInitially, <1>1, PTL DEF CleanupSpec

\* A walk that was not cut short and lost no entry has come to every old file that
\* nothing happened to; and a file is deleted only if it was old, and inside the
\* temporary folder, while it was open: for any files, whatever other programs move,
\* touch or replace by a link in between.
THEOREM CleanupExact == CleanupSpec => CleanupIsExact
<1>1. CleanupInv => (tcWalk.pc = "done" /\ ~tcCut /\ ~tcDropped =>
            \A f \in tcSteady \intersect tcOld : tcPlace[f] \in Folders
                => f \in tcVisited)
  BY DEF CleanupInv, NothingMissed, StillComes, Folders
<1>2. CleanupInv /\ [CleanupNext]_tcvars =>
        [tcWalk.pc = "delete" /\ tcPlace' # tcPlace /\ tcHandle' = NoFile
          => tcWas = {"old", "inside"}]_tcvars
  BY DEF CleanupInv, CheckedOpen, CleanupTypes
<1> QED BY CleanupInvariant, <1>1, <1>2, PTL DEF CleanupSpec, CleanupIsExact

-----------------------------------------------------------------------------
(* TrialScreen *)

ChangeStates == {"none", "trial", "due", "saved", "cleared"}

\* What a call under way may be about and be answered.
CallTypes ==
    \A c \in tsCalls :
       /\ DOMAIN c = {"kind", "about", "answer", "change", "of"}
       /\ c.kind \in {"preview", "commit", "undo", "keep", "revert", "snapshot"}
       /\ c.kind \in {"keep", "revert"}
              => c.about[1] \in Changes /\ c.about = <<c.about[1]>>
       /\ c.kind # "snapshot" => c.of = c.kind
       /\ c.kind = "undo" => c.about \in AllItems
       /\ c.kind = "revert" => c.answer \in {"none", "ok", "error"}
       /\ c.kind = "commit" /\ c.answer = "ok" => c.change \in Changes

ScreenTypes ==
    /\ tsTrial \in {0} \union Changes
    /\ tsBar \subseteq AllItems
    /\ tsUndo.left \subseteq tsUndo.all
    /\ \E tx \in Changes : tsUndo.all \subseteq ChangeItems(tx)
    /\ tsGeneration \in Nat
    /\ tsState \in [Changes -> ChangeStates]
    /\ tsItem \in [AllItems -> {"none", "applied", "back", "recovery"}]
    /\ CallTypes

\* A preview, in the dialog or still to come, was asked for while the engine was
\* there, and the tick behind it is that preview's.
PreviewIsCurrent ==
    /\ tsPreview # 0 => tsPreview = tsGeneration /\ tsMode = "live"
    /\ tsPreview # 0 /\ tsConfirmed => tsTicked = tsPreview
    /\ \A c \in tsCalls : c.kind = "preview" =>
          /\ c.about[1] \in 1..tsGeneration /\ c.about = <<c.about[1]>>
          /\ c.about[1] = tsGeneration => tsMode = "live"

\* What the screen and the calls about a change know of it.
ChangeIsKnown ==
    /\ tsTrial # 0 => tsState[tsTrial] # "none"
    /\ tsTrial # 0 /\ tsState[tsTrial] = "saved" => KeepIsAnswered(tsTrial)
    /\ \A c \in tsCalls : c.kind \in {"keep", "revert"} =>
          /\ tsState[c.about[1]] # "none"
          /\ c.kind = "keep" /\ c.answer = "true"
                 => tsState[c.about[1]] = "saved" \/ ChangeItems(c.about[1]) \subseteq tsExcused
          /\ c.kind = "revert" => tsState[c.about[1]] # "trial"
          /\ c.kind = "revert" /\ c.answer = "ok"
                 => tsState[c.about[1]] \in {"saved", "cleared"}

\* A change whose commit is answered is new to the screen.
CommitIsNews ==
    \A c \in tsCalls : c.kind = "commit" /\ c.answer = "ok" =>
       /\ c.change # tsTrial /\ tsState[c.change] \notin {"none", "saved"}
       /\ \A d \in tsCalls :
             /\ d.kind = "commit" /\ d.answer = "ok" /\ d.change = c.change => d = c
             /\ d.kind \in {"keep", "revert"} => d.about[1] # c.change

\* One undo runs at a time; it has given back what it has left behind.
UndoIsAlone ==
    /\ \A c \in tsCalls : c.kind = "undo" =>
          /\ c.about \in tsUndo.left
          /\ c.answer = "ok" => tsItem[c.about] = "back"
    /\ \A c, d \in tsCalls :
          (c.kind = "undo" \/ c.of = "undo") /\ (d.kind = "undo" \/ d.of = "undo")
              => c = d
    /\ ~tsUndo.busy => \A c \in tsCalls : c.kind # "undo" /\ c.of # "undo"
    /\ \A i \in tsUndo.all \ tsUndo.left : tsItem[i] = "back"

\* A change that did not begin has no items.
NoneBefore == \A i \in AllItems : tsState[i[1]] = "none" => tsItem[i] = "none"

\* The trials that a pass is about are to be ended, or another pass ended them, or they
\* were kept in the meantime.
PassIsKnown(pass) ==
    /\ pass.changes \subseteq Changes
    /\ \A i \in pass.items : i[1] \in pass.changes
    /\ \A tx \in pass.changes :
          tsState[tx] \in {"due", "cleared"} \/ ChangeItems(tx) \subseteq tsExcused

\* Items of a change that is tried or kept are applied and those of one that is over are
\* not, the excused aside.
ItemsFollowTrials ==
    /\ \A i \in AllItems \ tsExcused :
          tsState[i[1]] \in {"trial", "due", "saved"} => tsItem[i] = "applied"
    /\ \A i \in AllItems : tsState[i[1]] = "cleared" => tsItem[i] \in {"back", "recovery"}

BarIsOfTrial == \A i \in tsBar : i[1] = tsTrial

ScreenInv ==
    /\ ScreenTypes /\ PreviewIsCurrent /\ ChangeIsKnown /\ CommitIsNews
    /\ UndoIsAlone /\ NoneBefore /\ BarIsOfTrial /\ PassIsKnown(tsPass)
    /\ ItemsFollowTrials /\ NoticeIsTrue(tsSaid)

-----------------------------------------------------------------------------
\* What most steps leave alone: the dialog, the changes in trial and the undo.
PreviewsRest ==
    /\ UNCHANGED <<tsMode, tsGeneration, tsPreview, tsConfirmed, tsTicked>>
    /\ \A c \in tsCalls' \ tsCalls : c.kind # "preview"

ChangesRest ==
    /\ UNCHANGED <<tsTrial, tsState>> /\ tsExcused \subseteq tsExcused'
    /\ \A c \in tsCalls' \ tsCalls :
          c.kind \notin {"keep", "revert"} /\ (c.kind = "commit" => c.answer # "ok")
    /\ \A c \in tsCalls \ tsCalls' : c.kind # "keep"

UndoRests ==
    /\ UNCHANGED <<tsUndo, tsItem>>
    /\ \A c \in tsCalls' \ tsCalls : c.kind # "undo" /\ c.of # "undo"

\* Steps that leave a part of the state alone keep the conjunct about it.
LEMMA PreviewsKept == ASSUME PreviewIsCurrent, PreviewsRest PROVE PreviewIsCurrent'
BY DEF PreviewIsCurrent, PreviewsRest

LEMMA ChangesKept ==
    ASSUME ChangeIsKnown, CommitIsNews, ChangesRest
    PROVE  ChangeIsKnown' /\ CommitIsNews'
<1>1. ChangeIsKnown'
  BY DEF ChangeIsKnown, ChangesRest, KeepIsAnswered
<1>2. CommitIsNews'
  BY DEF CommitIsNews, ChangesRest
<1> QED BY <1>1, <1>2

LEMMA UndoKept == ASSUME UndoIsAlone, UndoRests PROVE UndoIsAlone'
BY DEF UndoIsAlone, UndoRests

LEMMA ItemsKept ==
    ASSUME NoneBefore, PassIsKnown(tsPass), ItemsFollowTrials,
           UNCHANGED <<tsState, tsItem, tsPass, tsExcused>>
    PROVE  NoneBefore' /\ PassIsKnown(tsPass)' /\ ItemsFollowTrials'
BY DEF NoneBefore, PassIsKnown, ItemsFollowTrials

LEMMA SilenceIsTrue == ASSUME Silent PROVE NoticeIsTrue(tsSaid)'
BY DEF Silent, Silence, NoticeIsTrue

LEMMA TypesKept ==
    ASSUME ScreenTypes,
        UNCHANGED <<tsTrial, tsBar, tsUndo, tsGeneration, tsState, tsItem, tsPass, tsExcused>>,
           CallTypes'
    PROVE  ScreenTypes'
BY DEF ScreenTypes

LEMMA FewerCalls == ASSUME CallTypes, tsCalls' \subseteq tsCalls PROVE CallTypes'
BY DEF CallTypes

\* The fields of a call, asked, answered or sent after another one.
LEMMA InvocationFields ==
    ASSUME NEW kind, NEW about
    PROVE  LET d == Invocation(kind, about) IN
           /\ DOMAIN d = {"kind", "about", "answer", "change", "of"}
           /\ d.kind = kind /\ d.about = about /\ d.answer = "none" /\ d.change = 0
           /\ d.of = kind
BY DEF Invocation

LEMMA SnapshotFields ==
    ASSUME NEW handler
    PROVE  LET d == Snapshot(handler) IN
           /\ DOMAIN d = {"kind", "about", "answer", "change", "of"}
           /\ d.kind = "snapshot" /\ d.answer = "none" /\ d.of = handler
BY DEF Snapshot, Invocation

LEMMA AnswerFields ==
    ASSUME NEW c, DOMAIN c = {"kind", "about", "answer", "change", "of"}, NEW a
    PROVE  LET d == [c EXCEPT !.answer = a] IN
           /\ DOMAIN d = {"kind", "about", "answer", "change", "of"}
           /\ d.kind = c.kind /\ d.about = c.about /\ d.answer = a /\ d.of = c.of
           /\ d.change = c.change
OBVIOUS

LEMMA CommitFields ==
    ASSUME NEW c, DOMAIN c = {"kind", "about", "answer", "change", "of"}, NEW tx
    PROVE  LET d == [c EXCEPT !.answer = "ok", !.change = tx] IN
           /\ DOMAIN d = {"kind", "about", "answer", "change", "of"}
           /\ d.kind = c.kind /\ d.about = c.about /\ d.answer = "ok" /\ d.of = c.of
           /\ d.change = tx
OBVIOUS

LEMMA ScreenInitially == ASSUME ScreenInit PROVE ScreenInv
<1>1. 0 \notin Changes /\ Changes # {}
  BY ScreenAssumption DEF Changes
<1> QED
  BY <1>1 DEF ScreenInit, ScreenInv, ScreenTypes, CallTypes, ChangeStates, NoUndo,
     PreviewIsCurrent, ChangeIsKnown, CommitIsNews, UndoIsAlone, NoneBefore, BarIsOfTrial,
     PassIsKnown, NoPass, ItemsFollowTrials, NoticeIsTrue, Silence, AllItems, ChangeItems

-----------------------------------------------------------------------------
(* The dialog *)

\* One lemma for each action of the user, and of the answers that come.
LEMMA RequestPreviewKeeps == ASSUME ScreenInv, RequestPreview PROVE ScreenInv'
<1>1. PICK d : d = Invocation("preview", <<tsGeneration + 1>>)
  OBVIOUS
<1>2. /\ DOMAIN d = {"kind", "about", "answer", "change", "of"}
      /\ d.kind = "preview" /\ d.about = <<tsGeneration + 1>> /\ d.answer = "none"
             /\ d.of = "preview"
  BY <1>1, InvocationFields
<1>3. /\ tsMode = "live" /\ tsPreview = 0 /\ tsGeneration' = tsGeneration + 1
      /\ tsCalls' = tsCalls \union {d} /\ Silent
      /\ UNCHANGED <<tsMode, tsPreview, tsConfirmed, tsTicked, tsBar, tsTrial, tsUndo,
             tsState, tsItem, tsPass, tsExcused>>
  BY <1>1 DEF RequestPreview, Invoke, tsview, tsapplied, tsengine
<1>4. CallTypes'
  BY <1>2, <1>3 DEF ScreenInv, ScreenTypes, CallTypes
<1>5. ScreenTypes'
  BY <1>3, <1>4 DEF ScreenInv, ScreenTypes
<1>6. PreviewIsCurrent'
  BY <1>2, <1>3 DEF ScreenInv, ScreenTypes, PreviewIsCurrent
<1>7. ChangesRest /\ UndoRests
  BY <1>2, <1>3 DEF ChangesRest, UndoRests
<1> QED BY <1>3, <1>5, <1>6, <1>7, ChangesKept, UndoKept, ItemsKept, SilenceIsTrue
           DEF ScreenInv, BarIsOfTrial

LEMMA PreviewAnswerKeeps == ASSUME ScreenInv, PreviewArrives \/ PreviewFails
    PROVE ScreenInv'
<1>1. PICK call \in tsCalls :
        /\ call.kind = "preview" /\ tsCalls' = tsCalls \ {call}
        /\ ShowPreview(call) \/ UNCHANGED <<tsPreview, tsConfirmed, tsTicked>>
  BY DEF PreviewArrives, PreviewFails, Drop, tsview
<1>2. /\ UNCHANGED <<tsMode, tsGeneration, tsBar, tsTrial, tsUndo, tsState, tsItem, tsPass, tsExcused>>
             /\ Silent
  BY DEF PreviewArrives, PreviewFails, SameRequests, tsapplied, tsengine
<1>3. ScreenTypes'
  BY <1>1, <1>2, FewerCalls DEF ScreenInv, ScreenTypes
<1>4. PreviewIsCurrent'
  BY <1>1, <1>2 DEF ScreenInv, ScreenTypes, PreviewIsCurrent, ShowPreview, tsview
<1>5. ChangesRest /\ UndoRests
  BY <1>1, <1>2 DEF ChangesRest, UndoRests
<1> QED BY <1>2, <1>3, <1>4, <1>5, ChangesKept, UndoKept, ItemsKept, SilenceIsTrue
           DEF ScreenInv, BarIsOfTrial

LEMMA DialogKeeps == ASSUME ScreenInv, TickBox \/ CancelPreview PROVE ScreenInv'
<1>1. /\ UNCHANGED <<tsMode, tsGeneration, tsBar, tsTrial, tsUndo, tsCalls, tsState,
             tsItem, tsPass, tsExcused>> /\ Silent
  BY DEF TickBox, CancelPreview, SameRequests, tsapplied, tsengine
<1>2. ScreenTypes'
  BY <1>1, FewerCalls DEF ScreenInv, ScreenTypes
<1>3. PreviewIsCurrent'
  BY <1>1 DEF ScreenInv, ScreenTypes, PreviewIsCurrent, TickBox, CancelPreview
<1>4. ChangesRest /\ UndoRests
  BY <1>1 DEF ChangesRest, UndoRests
<1> QED BY <1>1, <1>2, <1>3, <1>4, ChangesKept, UndoKept, ItemsKept, SilenceIsTrue
           DEF ScreenInv, BarIsOfTrial

LEMMA ConfirmPreviewKeeps == ASSUME ScreenInv, ConfirmPreview PROVE ScreenInv'
<1>1. PICK d : d = Invocation("commit", <<tsPreview>>)
  OBVIOUS
<1>2. /\ DOMAIN d = {"kind", "about", "answer", "change", "of"}
      /\ d.kind = "commit" /\ d.answer = "none" /\ d.of = "commit"
  BY <1>1, InvocationFields
<1>3. /\ tsCalls' = tsCalls \union {d} /\ Silent
      /\ UNCHANGED <<tsMode, tsGeneration, tsPreview, tsConfirmed, tsTicked, tsBar,
             tsTrial, tsUndo, tsState, tsItem, tsPass, tsExcused>>
  BY <1>1 DEF ConfirmPreview, Invoke, SameRequests, tsview, tsapplied, tsengine
<1>4. CallTypes'
  BY <1>2, <1>3 DEF ScreenInv, ScreenTypes, CallTypes
<1>5. PreviewsRest /\ ChangesRest /\ UndoRests
  BY <1>2, <1>3 DEF PreviewsRest, ChangesRest, UndoRests
<1> QED BY <1>3, <1>4, <1>5, TypesKept, PreviewsKept, ChangesKept, UndoKept, ItemsKept,
           SilenceIsTrue
           DEF ScreenInv, BarIsOfTrial

\* What is answered is the change on trial from now on, and nothing was asked about it.
LEMMA CommitArrivesKeeps == ASSUME ScreenInv, CommitArrives PROVE ScreenInv'
<1>1. PICK call, d :
        /\ call \in tsCalls /\ call.kind = "commit" /\ d = Snapshot("commit")
        /\ \/ /\ call.answer = "ok" /\ tsBar' = ChangeItems(call.change)
              /\ tsTrial' = call.change /\ tsSaid' = <<"applied", tsBar'>>
           \/ /\ call.answer # "ok" /\ tsBar' \subseteq tsBar /\ tsTrial' = tsTrial
                     /\ Silent
        /\ \/ tsCalls' = tsCalls \ {call} /\ UNCHANGED <<tsPreview, tsConfirmed>>
           \/ /\ tsCalls' = (tsCalls \ {call}) \union {d}
              /\ tsPreview' = 0
  BY DEF CommitArrives, Drop, Swap, ClosePreview, tsview, tsapplied
<1>2. UNCHANGED <<tsMode, tsGeneration, tsTicked, tsUndo, tsState, tsItem, tsPass, tsExcused>>
  BY DEF CommitArrives, ClosePreview, SameRequests, tsview, tsengine
<1>3. /\ DOMAIN d = {"kind", "about", "answer", "change", "of"}
      /\ d.kind = "snapshot" /\ d.of = "commit"
  BY <1>1, SnapshotFields
<1>4. CallTypes'
  BY <1>1, <1>3 DEF ScreenInv, ScreenTypes, CallTypes
<1>5. call.answer = "ok"
          => /\ call.change \in Changes /\ ChangeItems(call.change) \subseteq AllItems
                            /\ \A i \in ChangeItems(call.change) : i[1] = call.change
  <2>1. call.answer = "ok" => call.change \in Changes
    BY <1>1 DEF ScreenInv, ScreenTypes, CallTypes
  <2>2. \A tx \in Changes : ChangeItems(tx) \subseteq AllItems
    BY DEF AllItems
  <2>3. \A tx \in Changes : \A i \in ChangeItems(tx) : i[1] = tx
    BY DEF ChangeItems
  <2> QED BY <2>1, <2>2, <2>3
<1>6. ScreenTypes'
  BY <1>1, <1>2, <1>4, <1>5 DEF ScreenInv, ScreenTypes
<1>7. PreviewIsCurrent'
  BY <1>1, <1>2, <1>3 DEF ScreenInv, PreviewIsCurrent
<1>8. ChangeIsKnown'
  BY <1>1, <1>2, <1>3 DEF ScreenInv, ChangeIsKnown, CommitIsNews, KeepIsAnswered
<1>9. CommitIsNews'
  BY <1>1, <1>2, <1>3 DEF ScreenInv, CommitIsNews
<1>10. UndoIsAlone'
  BY <1>1, <1>2, <1>3 DEF ScreenInv, UndoIsAlone
<1>11. BarIsOfTrial'
  BY <1>1, <1>5 DEF ScreenInv, BarIsOfTrial
<1>12. NoticeIsTrue(tsSaid)'
  <2>1. CASE Silent
    BY <2>1, SilenceIsTrue
  <2>2. CASE tsSaid' = <<"applied", tsBar'>>
    <3>1. tsBar' = ChangeItems(call.change) /\ call.answer = "ok"
      BY <1>1, <2>2 DEF Silent, Silence
    <3>2. tsState[call.change] \in {"trial", "due", "cleared"}
      BY <1>1, <1>5, <3>1
         DEF ScreenInv, ScreenTypes, ChangeStates, CommitIsNews
    <3>3. \A i \in tsBar' \ tsExcused :
             tsItem[i] = "applied" \/ tsState[i[1]] = "cleared"
      BY <1>5, <3>1, <3>2 DEF ScreenInv, ItemsFollowTrials
    <3> QED BY <1>2, <2>2, <3>3 DEF NoticeIsTrue
  <2> QED BY <1>1, <2>1, <2>2
<1> QED BY <1>2, <1>6, <1>7, <1>8, <1>9, <1>10, <1>11, <1>12, ItemsKept DEF ScreenInv

LEMMA SnapshotKeeps == ASSUME ScreenInv, SnapshotArrives \/ SnapshotFails PROVE ScreenInv'
<1>1. /\ UNCHANGED <<tsBar, tsTrial, tsState, tsItem, tsPass, tsExcused>> /\ Silent
      /\ \/ UNCHANGED <<tsCalls, tsUndo>>
         \/ \E call \in tsCalls :
               /\ call.kind = "snapshot" /\ tsCalls' = tsCalls \ {call}
               /\ tsUndo' = IF call.of = "undo" THEN NoUndo ELSE tsUndo
  BY DEF SnapshotArrives, SnapshotFails, Settle, Drop, tsapplied, tsengine
<1>2. \/ tsMode' = "live" /\ UNCHANGED <<tsGeneration, tsPreview, tsConfirmed, tsTicked>>
      \/ tsMode = "catalog"
             /\ UNCHANGED <<tsMode, tsGeneration, tsPreview, tsConfirmed, tsTicked>>
      \/ tsGeneration' = tsGeneration + 1 /\ tsPreview' = 0
  BY DEF SnapshotArrives, SnapshotFails, ClosePreview, tsview
<1>3. ScreenTypes'
  <2>1. CallTypes'
    BY <1>1, FewerCalls DEF ScreenInv, ScreenTypes
  <2>2. tsGeneration' \in Nat
    BY <1>2 DEF ScreenInv, ScreenTypes
  <2>3. tsUndo'.left \subseteq tsUndo'.all
            /\ \E tx \in Changes : tsUndo'.all \subseteq ChangeItems(tx)
    BY <1>1, ScreenAssumption DEF ScreenInv, ScreenTypes, NoUndo, Changes
  <2> QED BY <1>1, <2>1, <2>2, <2>3 DEF ScreenInv, ScreenTypes
<1>4. PreviewIsCurrent'
  BY <1>1, <1>2 DEF ScreenInv, ScreenTypes, PreviewIsCurrent
<1>5. ChangesRest
  BY <1>1 DEF ChangesRest
<1>6. UndoIsAlone'
  <2>1. CASE UNCHANGED <<tsCalls, tsUndo>>
    BY <1>1, <2>1, UndoKept DEF ScreenInv, UndoRests
  <2>2. ASSUME NEW call \in tsCalls, tsCalls' = tsCalls \ {call}, call.of = "undo",
            tsUndo' = NoUndo
        PROVE  UndoIsAlone'
    BY <1>1, <2>2 DEF ScreenInv, UndoIsAlone, NoUndo
  <2>3. ASSUME NEW call \in tsCalls, tsCalls' = tsCalls \ {call}, tsUndo' = tsUndo
        PROVE  UndoIsAlone'
    BY <1>1, <2>3, UndoKept DEF ScreenInv, UndoRests
  <2> QED BY <1>1, <2>1, <2>2, <2>3
<1> QED BY <1>1, <1>3, <1>4, <1>5, <1>6, ChangesKept, ItemsKept, SilenceIsTrue
           DEF ScreenInv, BarIsOfTrial

-----------------------------------------------------------------------------
(* The bar *)

\* A set of natural numbers that is not empty has a least element.
LEMMA LeastOf ==
    ASSUME NEW S \in SUBSET Nat, S # {}
    PROVE  \E n \in S : \A m \in S : n <= m
<1>1. PICK n \in S : \A m \in S : ~ (<<m, n>> \in OpToRel(<, Nat))
  BY WFMin, NatLessThanWellFounded, Zenon
<1>2. \A m \in S : ~ (m < n)
  BY <1>1 DEF OpToRel
<1> QED BY <1>2

\* Every change has a size.
LEMMA SizeOfChange == \A tx \in Changes : ChangeSizes[tx] \in Nat
BY ScreenAssumption DEF Changes

\* The last of some items is one of them.
LEMMA LastIsOfThem ==
    ASSUME NEW tx \in Changes, NEW items \in SUBSET ChangeItems(tx), items # {}
    PROVE  LastOf(items) \in items
<1> DEFINE n == ChangeSizes[tx]
           left(i) == n - i[2]
           S == {left(i) : i \in items}
<1>1. n \in Nat
  BY SizeOfChange
<1>2. \A i \in items : i[2] \in 1..n
  BY DEF ChangeItems
<1>3. \A i \in items : left(i) \in Nat
  BY <1>1, <1>2
<1>4. S \in SUBSET Nat /\ S # {}
  BY <1>3
<1>5. PICK k \in S : \A m \in S : k <= m
  <2> HIDE DEF S
  <2> QED BY <1>4, LeastOf
<1>6. PICK i \in items : k = left(i)
  BY <1>5
<1>7. \A j \in items : left(i) <= left(j)
  BY <1>5, <1>6
<1>8. \A j \in items : j[2] <= i[2]
  BY <1>1, <1>2, <1>7
<1> QED BY <1>8 DEF LastOf

LEMMA UndoJustAppliedKeeps == ASSUME ScreenInv, UndoJustApplied PROVE ScreenInv'
<1>1. PICK d : d = Invocation("undo", LastOf(tsBar))
  OBVIOUS
<1>2. /\ DOMAIN d = {"kind", "about", "answer", "change", "of"}
      /\ d.kind = "undo" /\ d.about = LastOf(tsBar) /\ d.answer = "none" /\ d.of = "undo"
  BY <1>1, InvocationFields
<1>3. /\ tsBar # {} /\ ~tsUndo.busy /\ tsCalls' = tsCalls \union {d} /\ Silent
      /\ tsUndo' = [all |-> tsBar, left |-> tsBar, busy |-> TRUE]
      /\ UNCHANGED <<tsMode, tsGeneration, tsPreview, tsConfirmed, tsTicked, tsBar,
             tsTrial, tsState, tsItem, tsPass, tsExcused>>
  BY <1>1 DEF UndoJustApplied, Invoke, SameRequests, tsview, tsapplied, tsengine
<1>4. \E tx \in Changes : tsBar \subseteq ChangeItems(tx)
  BY <1>3 DEF ScreenInv, ScreenTypes, BarIsOfTrial, AllItems, ChangeItems
<1>5. LastOf(tsBar) \in tsBar
  BY <1>3, <1>4, LastIsOfThem
<1>6. CallTypes'
  BY <1>2, <1>3, <1>5 DEF ScreenInv, ScreenTypes, CallTypes
<1>7. ScreenTypes'
  BY <1>3, <1>4, <1>6 DEF ScreenInv, ScreenTypes
<1>8. PreviewsRest /\ ChangesRest
  BY <1>2, <1>3 DEF PreviewsRest, ChangesRest
<1>9. UndoIsAlone'
  BY <1>2, <1>3, <1>5 DEF ScreenInv, UndoIsAlone
<1> QED BY <1>3, <1>7, <1>8, <1>9, PreviewsKept, ChangesKept, ItemsKept, SilenceIsTrue
           DEF ScreenInv, BarIsOfTrial

\* The item given back leaves the list, and the next one is asked for, or it was the
\* last one and all are back.
LEMMA UndoArrivesKeeps == ASSUME ScreenInv, UndoArrives PROVE ScreenInv'
<1>1. PICK call, left, d, e :
        /\ call \in tsCalls /\ call.kind = "undo" /\ left = tsUndo.left \ {call.about}
        /\ d = Invocation("undo", LastOf(left)) /\ e = Snapshot("undo")
        /\ \/ /\ tsUndo' = NoUndo /\ tsCalls' = tsCalls \ {call}
              /\ UNCHANGED tsapplied /\ Silent
           \/ /\ call.answer = "ok" /\ left # {}
                     /\ tsUndo' = [tsUndo EXCEPT !.left = left]
              /\ tsCalls' = (tsCalls \ {call}) \union {d}
              /\ tsBar' = tsBar \ {call.about} /\ tsTrial' = tsTrial /\ Silent
           \/ /\ call.answer = "ok" /\ left = {}
                     /\ tsCalls' = (tsCalls \ {call}) \union {e}
              /\ tsSaid' = <<"undone", tsUndo.all>> /\ tsBar' = {} /\ tsTrial' = 0
              /\ tsUndo' = tsUndo
  BY DEF UndoArrives, Drop, Swap, UndoGoesOn
<1>2. UNCHANGED <<tsMode, tsGeneration, tsPreview, tsConfirmed, tsTicked, tsState,
          tsItem, tsPass, tsExcused>>
  BY DEF UndoArrives, SameRequests, tsview, tsengine
<1>3. /\ DOMAIN d = {"kind", "about", "answer", "change", "of"}
      /\ d.kind = "undo" /\ d.about = LastOf(left) /\ d.answer = "none" /\ d.of = "undo"
  BY <1>1, InvocationFields
<1>4. /\ DOMAIN e = {"kind", "about", "answer", "change", "of"}
      /\ e.kind = "snapshot" /\ e.of = "undo"
  BY <1>1, SnapshotFields
<1>5. call.about \in tsUndo.left /\ (call.answer = "ok" => tsItem[call.about] = "back")
          /\ tsUndo.busy
  BY <1>1 DEF ScreenInv, UndoIsAlone
<1>6. PreviewIsCurrent'
  BY <1>1, <1>2, <1>3, <1>4, PreviewsKept DEF ScreenInv, PreviewsRest
<1>7. CASE /\ tsUndo' = NoUndo /\ tsCalls' = tsCalls \ {call}
           /\ UNCHANGED tsapplied /\ Silent
  <2>1. ScreenTypes'
    BY <1>2, <1>7, FewerCalls, ScreenAssumption
       DEF ScreenInv, ScreenTypes, NoUndo, tsapplied, Changes
  <2>2. ChangesRest
    BY <1>1, <1>2, <1>7 DEF ChangesRest, tsapplied
  <2>3. UndoIsAlone'
    BY <1>1, <1>2, <1>7 DEF ScreenInv, UndoIsAlone, NoUndo
  <2> QED BY <1>2, <1>6, <1>7, <2>1, <2>2, <2>3, ChangesKept, ItemsKept, SilenceIsTrue
          DEF ScreenInv, BarIsOfTrial, tsapplied
<1>8. CASE /\ call.answer = "ok" /\ left # {} /\ tsUndo' = [tsUndo EXCEPT !.left = left]
           /\ tsCalls' = (tsCalls \ {call}) \union {d}
           /\ tsBar' = tsBar \ {call.about} /\ tsTrial' = tsTrial /\ Silent
  <2>1. tsUndo'.left = left /\ tsUndo'.all = tsUndo.all /\ tsUndo'.busy = tsUndo.busy
    BY <1>8 DEF ScreenInv, ScreenTypes
  <2>2. LastOf(left) \in left
    BY <1>1, <1>8, LastIsOfThem DEF ScreenInv, ScreenTypes
  <2>3. LastOf(left) \in AllItems
    BY <1>1, <2>2 DEF ScreenInv, ScreenTypes, AllItems
  <2>4. CallTypes'
    BY <1>3, <1>8, <2>3 DEF ScreenInv, ScreenTypes, CallTypes
  <2>5. ScreenTypes'
    BY <1>1, <1>2, <1>8, <2>1, <2>4 DEF ScreenInv, ScreenTypes
  <2>6. ChangesRest
    BY <1>1, <1>2, <1>3, <1>8 DEF ChangesRest
  <2>7. UndoIsAlone'
    <3>1. \A c \in tsCalls' : c.kind = "undo" \/ c.of = "undo" => c = d
      BY <1>1, <1>8 DEF ScreenInv, UndoIsAlone
    <3>2. d.about \in tsUndo'.left /\ d.answer # "ok"
      BY <1>3, <2>1, <2>2
    <3>3. \A i \in tsUndo.all \ left : tsItem[i] = "back"
      BY <1>1, <1>5, <1>8 DEF ScreenInv, UndoIsAlone
    <3> QED BY <1>2, <1>5, <2>1, <3>1, <3>2, <3>3 DEF UndoIsAlone
  <2> QED BY <1>2, <1>6, <1>8, <2>5, <2>6, <2>7, ChangesKept, ItemsKept, SilenceIsTrue
          DEF ScreenInv, BarIsOfTrial
<1>9. CASE /\ call.answer = "ok" /\ left = {} /\ tsCalls' = (tsCalls \ {call}) \union {e}
           /\ tsSaid' = <<"undone", tsUndo.all>> /\ tsBar' = {} /\ tsTrial' = 0
           /\ tsUndo' = tsUndo
  <2>1. CallTypes'
    BY <1>4, <1>9 DEF ScreenInv, ScreenTypes, CallTypes
  <2>2. ScreenTypes'
    BY <1>2, <1>9, <2>1 DEF ScreenInv, ScreenTypes
  <2>3. ChangeIsKnown' /\ CommitIsNews'
    BY <1>2, <1>4, <1>9
       DEF ScreenInv, ChangeIsKnown, CommitIsNews, ScreenTypes, CallTypes, Changes
  <2>4. UndoIsAlone'
    BY <1>1, <1>2, <1>4, <1>5, <1>9 DEF ScreenInv, UndoIsAlone
  <2>5. \A i \in tsUndo.all : tsItem[i] = "back"
    BY <1>1, <1>5, <1>9 DEF ScreenInv, UndoIsAlone
  <2>6. NoticeIsTrue(tsSaid)'
    BY <1>2, <1>9, <2>5 DEF NoticeIsTrue
  <2> QED BY <1>2, <1>6, <1>9, <2>2, <2>3, <2>4, <2>6, ItemsKept
             DEF ScreenInv, BarIsOfTrial
<1> QED BY <1>1, <1>7, <1>8, <1>9

LEMMA KeepTrialKeeps == ASSUME ScreenInv, KeepTrial PROVE ScreenInv'
<1>1. PICK d : d = Invocation("keep", <<tsTrial>>)
  OBVIOUS
<1>2. /\ DOMAIN d = {"kind", "about", "answer", "change", "of"}
      /\ d.kind = "keep" /\ d.about = <<tsTrial>> /\ d.answer = "none" /\ d.of = "keep"
  BY <1>1, InvocationFields
<1>3. /\ tsTrial # 0 /\ tsCalls' = tsCalls \union {d} /\ Silent
      /\ UNCHANGED <<tsMode, tsGeneration, tsPreview, tsConfirmed, tsTicked, tsBar,
             tsTrial, tsUndo,
                     tsState, tsItem, tsPass, tsExcused>>
  BY <1>1 DEF KeepTrial, Invoke, SameRequests, tsview, tsapplied, tsengine
<1>4. CallTypes'
  BY <1>2, <1>3 DEF ScreenInv, ScreenTypes, CallTypes
<1>5. PreviewsRest /\ UndoRests
  BY <1>2, <1>3 DEF PreviewsRest, UndoRests
<1>6. ChangeIsKnown'
  BY <1>2, <1>3 DEF ScreenInv, ChangeIsKnown, KeepIsAnswered
<1>7. CommitIsNews'
  BY <1>2, <1>3 DEF ScreenInv, CommitIsNews
<1> QED BY <1>3, <1>4, <1>5, <1>6, <1>7, TypesKept, PreviewsKept, UndoKept, ItemsKept,
           SilenceIsTrue
        DEF ScreenInv, BarIsOfTrial

LEMMA KeepArrivesKeeps == ASSUME ScreenInv, KeepArrives PROVE ScreenInv'
<1>1. PICK call \in tsCalls :
        /\ call.kind = "keep" /\ call.answer # "none" /\ tsCalls' = tsCalls \ {call}
        /\ \/ /\ call.answer = "true" /\ tsTrial' = 0 /\ tsBar' = {}
              /\ tsSaid' = <<"saved", ChangeItems(call.about[1])>>
           \/ call.answer # "true" /\ UNCHANGED <<tsTrial, tsBar>> /\ Silent
  BY DEF KeepArrives, Drop, tsapplied
<1>2. UNCHANGED <<tsMode, tsGeneration, tsPreview, tsConfirmed, tsTicked, tsUndo,
          tsState, tsItem, tsPass, tsExcused>>
  BY DEF KeepArrives, SameRequests, tsview, tsengine
<1>3. ScreenTypes'
  BY <1>1, <1>2, FewerCalls DEF ScreenInv, ScreenTypes
<1>4. PreviewsRest /\ UndoRests
  BY <1>1, <1>2 DEF PreviewsRest, UndoRests
<1>5. ChangeIsKnown'
  BY <1>1, <1>2 DEF ScreenInv, ChangeIsKnown, KeepIsAnswered
<1>6. CommitIsNews'
  BY <1>1, <1>2 DEF ScreenInv, CommitIsNews, ScreenTypes, CallTypes, Changes
<1>7. NoticeIsTrue(tsSaid)'
  <2>1. CASE Silent
    BY <2>1, SilenceIsTrue
  <2>2. CASE call.answer = "true" /\ tsSaid' = <<"saved", ChangeItems(call.about[1])>>
    <3>1. /\ tsState[call.about[1]] = "saved" \/ ChangeItems(call.about[1]) \subseteq tsExcused
          /\ call.about[1] \in Changes
      BY <1>1, <2>2 DEF ScreenInv, ScreenTypes, CallTypes, ChangeIsKnown
    <3>2. \A i \in ChangeItems(call.about[1]) : i[1] = call.about[1] /\ i \in AllItems
      BY <3>1 DEF ChangeItems, AllItems
    <3>3. \A i \in ChangeItems(call.about[1]) \ tsExcused :
             tsState[i[1]] = "saved" /\ tsItem[i] = "applied"
      BY <3>1, <3>2 DEF ScreenInv, ItemsFollowTrials
    <3> QED BY <1>2, <2>2, <3>3 DEF NoticeIsTrue
  <2> QED BY <1>1, <2>1, <2>2
<1> QED BY <1>1, <1>2, <1>3, <1>4, <1>5, <1>6, <1>7, PreviewsKept, UndoKept, ItemsKept
        DEF ScreenInv, BarIsOfTrial

LEMMA CloseBarKeeps == ASSUME ScreenInv, CloseBar PROVE ScreenInv'
<1>1. /\ tsBar' = {} /\ Silent
      /\ UNCHANGED <<tsMode, tsGeneration, tsPreview, tsConfirmed, tsTicked, tsTrial,
             tsUndo, tsCalls,
                     tsState, tsItem, tsPass, tsExcused>>
  BY DEF CloseBar, SameRequests, tsview, tsengine
<1>2. ScreenTypes'
  BY <1>1, FewerCalls DEF ScreenInv, ScreenTypes
<1>3. PreviewsRest /\ ChangesRest /\ UndoRests
  BY <1>1 DEF PreviewsRest, ChangesRest, UndoRests
<1> QED BY <1>1, <1>2, <1>3, PreviewsKept, ChangesKept, UndoKept, ItemsKept, SilenceIsTrue
        DEF ScreenInv, BarIsOfTrial

LEMMA TimeIsUpKeeps == ASSUME ScreenInv, TimeIsUp PROVE ScreenInv'
<1>1. PICK d : d = Invocation("revert", <<tsTrial>>)
  OBVIOUS
<1>2. /\ DOMAIN d = {"kind", "about", "answer", "change", "of"}
      /\ d.kind = "revert" /\ d.about = <<tsTrial>> /\ d.answer = "none"
             /\ d.of = "revert"
  BY <1>1, InvocationFields
<1>3. /\ tsTrial # 0 /\ tsState[tsTrial] # "trial" /\ tsCalls' = tsCalls \union {d}
             /\ Silent
      /\ UNCHANGED <<tsMode, tsGeneration, tsPreview, tsConfirmed, tsTicked, tsBar,
             tsTrial, tsUndo,
                     tsState, tsItem, tsPass, tsExcused>>
  BY <1>1 DEF TimeIsUp, Invoke, SameRequests, tsview, tsengine
<1>4. CallTypes'
  BY <1>2, <1>3 DEF ScreenInv, ScreenTypes, CallTypes
<1>5. PreviewsRest /\ UndoRests
  BY <1>2, <1>3 DEF PreviewsRest, UndoRests
<1>6. ChangeIsKnown'
  BY <1>2, <1>3 DEF ScreenInv, ChangeIsKnown, KeepIsAnswered
<1>7. CommitIsNews'
  BY <1>2, <1>3 DEF ScreenInv, CommitIsNews
<1> QED BY <1>3, <1>4, <1>5, <1>6, <1>7, TypesKept, PreviewsKept, UndoKept, ItemsKept,
           SilenceIsTrue
        DEF ScreenInv, BarIsOfTrial

\* The engine said that it took the trial back: it did, or the trial was saved before
\* and the answer to that is still to come.
LEMMA RevertArrivesKeeps == ASSUME ScreenInv, RevertArrives PROVE ScreenInv'
<1>1. PICK call \in tsCalls :
        /\ call.kind = "revert" /\ call.answer # "none" /\ tsCalls' = tsCalls \ {call}
        /\ \/ UNCHANGED <<tsTrial, tsBar>> /\ Silent
           \/ /\ call.about = <<tsTrial>> /\ call.answer # "error" /\ tsTrial' = 0
                     /\ tsBar' = {}
              /\ tsSaid' = <<"expired", ChangeItems(call.about[1])>>
  BY DEF RevertArrives, Drop, tsapplied, IsCancelled
<1>2. UNCHANGED <<tsMode, tsGeneration, tsPreview, tsConfirmed, tsTicked, tsUndo,
          tsState, tsItem, tsPass, tsExcused>>
  BY DEF RevertArrives, SameRequests, tsview, tsengine
<1>3. ScreenTypes'
  BY <1>1, <1>2, FewerCalls DEF ScreenInv, ScreenTypes
<1>4. PreviewsRest /\ UndoRests
  BY <1>1, <1>2 DEF PreviewsRest, UndoRests
<1>5. ChangeIsKnown'
  BY <1>1, <1>2 DEF ScreenInv, ChangeIsKnown, KeepIsAnswered
<1>6. CommitIsNews'
  BY <1>1, <1>2 DEF ScreenInv, CommitIsNews, ScreenTypes, CallTypes, Changes
<1>7. NoticeIsTrue(tsSaid)'
  <2>1. CASE Silent
    BY <2>1, SilenceIsTrue
  <2>2. CASE /\ call.about = <<tsTrial>> /\ call.answer # "error"
             /\ tsSaid' = <<"expired", ChangeItems(call.about[1])>>
    <3>1. call.answer = "ok" /\ tsTrial \in Changes
      BY <1>1, <2>2 DEF ScreenInv, ScreenTypes, CallTypes
    <3>2. tsState[tsTrial] = "cleared" \/ KeepIsAnswered(tsTrial)
      BY <1>1, <2>2, <3>1 DEF ScreenInv, ChangeIsKnown, Changes
    <3>3. KeepIsAnswered(tsTrial) =>
             \E c \in tsCalls' : c.kind = "keep" /\ c.about = <<tsTrial>>
                 /\ c.answer = "true"
      BY <1>1 DEF KeepIsAnswered
    <3>4. \A i \in ChangeItems(tsTrial) : i[1] = tsTrial /\ i \in AllItems
      BY <3>1 DEF ChangeItems, AllItems
    <3>5. tsState[tsTrial] = "cleared" =>
             \A i \in ChangeItems(tsTrial) : tsItem[i] \in {"back", "recovery"}
      BY <3>4 DEF ScreenInv, ItemsFollowTrials
    <3> QED BY <1>2, <2>2, <3>2, <3>3, <3>4, <3>5 DEF NoticeIsTrue, KeepIsAnswered
  <2> QED BY <1>1, <2>1, <2>2
<1> QED BY <1>1, <1>2, <1>3, <1>4, <1>5, <1>6, <1>7, PreviewsKept, UndoKept, ItemsKept
        DEF ScreenInv, BarIsOfTrial

-----------------------------------------------------------------------------
(* The engine *)

\* A change goes on: its time runs out or it is taken back, although it was saved only
\* when its items are excused.  An item goes on when it is given back or set aside.
StatesGoOn ==
    /\ tsState' \in [Changes -> ChangeStates]
    /\ \A tx \in Changes : \/ tsState'[tx] = tsState[tx]
                           \/ tsState[tx] = "trial" /\ tsState'[tx] = "due"
                           \/ /\ tsState'[tx] = "cleared"
                              /\ tsState[tx] = "due" \/ ChangeItems(tx) \subseteq tsExcused
    /\ tsExcused \subseteq tsExcused'

ItemsGoOn ==
    /\ tsItem' \in [AllItems -> {"none", "applied", "back", "recovery"}]
    /\ \A i \in AllItems : tsItem'[i] = tsItem[i] \/ tsItem[i] = "applied"

ScreenWaits ==
    /\ UNCHANGED <<tsMode, tsGeneration, tsPreview, tsConfirmed, tsTicked, tsBar,
           tsTrial, tsUndo>>
    /\ Silent

\* Every item belongs to a change.
LEMMA ItemsAreOfChanges == \A i \in AllItems : i[1] \in Changes
BY DEF AllItems, ChangeItems

LEMMA UndoListed == ASSUME ScreenTypes PROVE tsUndo.all \subseteq AllItems
BY DEF ScreenTypes, AllItems

\* A change that only goes on keeps what is known of it, and so do its items.
LEMMA StatesKept ==
    ASSUME ScreenTypes, ChangeIsKnown, CommitIsNews, StatesGoOn,
        UNCHANGED <<tsTrial, tsCalls>>
    PROVE  ChangeIsKnown' /\ CommitIsNews'
<1>1. ChangeIsKnown'
  BY DEF ScreenTypes, CallTypes, ChangeIsKnown, StatesGoOn, KeepIsAnswered
<1>2. CommitIsNews'
  BY DEF ScreenTypes, CallTypes, CommitIsNews, StatesGoOn
<1> QED BY <1>1, <1>2

LEMMA ItemsGo ==
    ASSUME ScreenTypes, UndoIsAlone, NoneBefore, ItemsGoOn, tsUndo' = tsUndo,
           \A tx \in Changes : tsState'[tx] = "none" => tsState[tx] = "none",
           \A c \in tsCalls' \ tsCalls : c.kind # "undo" /\ c.of # "undo"
    PROVE  UndoIsAlone' /\ NoneBefore'
<1>1. \A i \in AllItems : tsItem[i] = "back" => tsItem'[i] = "back"
  BY DEF ItemsGoOn
<1>2. UndoIsAlone'
  BY <1>1, UndoListed DEF UndoIsAlone, ScreenTypes, CallTypes
<1>3. NoneBefore'
  BY ItemsAreOfChanges DEF NoneBefore, ItemsGoOn
<1> QED BY <1>2, <1>3

\* What is known of a pass stays known while changes go on.
LEMMA PassStays ==
    ASSUME ScreenTypes, PassIsKnown(tsPass), StatesGoOn, tsPass' = tsPass
    PROVE  PassIsKnown(tsPass)'
BY DEF PassIsKnown, StatesGoOn

PassEnds == [AllItems -> {"back", "failed", "third", "refused"}]

LEMMA EndsOfPasses ==
    /\ AllBack \in PassEnds
    /\ \A pass : OneFails(pass) \subseteq PassEnds
BY DEF AllBack, OneFails, PassEnds

\* A pass over trials it knows leaves a trial alone, and then excuses its items, or ends
\* it with none of its items applied.
LEMMA TakeBackGoesOn ==
    ASSUME ScreenTypes, ItemsFollowTrials, NEW pass, PassIsKnown(pass),
           NEW ends \in PassEnds, TakeBack(pass, ends)
    PROVE  StatesGoOn /\ ItemsGoOn /\ ItemsFollowTrials'
<1>1. /\ \A tx \in Changes : tsState'[tx] = IF tx \in pass.changes /\ Finishes(pass, ends, tx)
                                            THEN "cleared" ELSE tsState[tx]
      /\ tsState' \in [Changes -> ChangeStates]
  BY DEF ScreenTypes, TakeBack, ChangeStates
<1>2. /\ tsExcused \subseteq tsExcused'
      /\ \A tx \in pass.changes : ~Finishes(pass, ends, tx) => ChangeItems(tx) \subseteq tsExcused'
  BY DEF TakeBack
<1>3. \A i \in AllItems :
          tsItem'[i] = IF i \in pass.items /\ tsItem[i] = "applied"
                       THEN ItemAfterPass(ends[i]) ELSE tsItem[i]
  BY DEF TakeBack
<1>4. \A i \in AllItems : ItemAfterPass(ends[i]) \in {"applied", "back", "recovery"}
  BY DEF PassEnds, ItemAfterPass
<1>5. StatesGoOn
  BY <1>1, <1>2 DEF StatesGoOn, PassIsKnown
<1>6. ItemsGoOn
  <2>1. tsItem' \in [AllItems -> {"none", "applied", "back", "recovery"}]
    BY <1>4 DEF TakeBack, ScreenTypes
  <2> QED BY <1>3, <2>1 DEF ItemsGoOn
<1>7. ASSUME NEW i \in AllItems
      PROVE  /\ i[1] \in Changes /\ i \in ChangeItems(i[1])
             /\ i[1] \notin pass.changes => i \notin pass.items
  BY DEF PassIsKnown, AllItems, ChangeItems
<1>8. ASSUME NEW i \in AllItems, tsState'[i[1]] = "cleared"
      PROVE  tsItem'[i] \in {"back", "recovery"}
  <2>1. CASE i[1] \in pass.changes /\ Finishes(pass, ends, i[1])
    BY <1>3, <1>7, <2>1 DEF Finishes, ItemAfterPass
  <2>2. CASE ~(i[1] \in pass.changes /\ Finishes(pass, ends, i[1]))
    <3>1. tsItem[i] \in {"back", "recovery"}
      BY <1>1, <1>7, <1>8, <2>2 DEF ItemsFollowTrials
    <3> QED BY <1>3, <3>1
  <2> QED BY <2>1, <2>2
<1>9. ASSUME NEW i \in AllItems \ tsExcused', tsState'[i[1]] \in {"trial", "due", "saved"}
      PROVE  tsItem'[i] = "applied"
  <2>1. i[1] \notin pass.changes
    BY <1>1, <1>2, <1>7, <1>9
  <2>2. tsItem[i] = "applied"
    BY <1>1, <1>2, <1>7, <1>9, <2>1 DEF ItemsFollowTrials
  <2> QED BY <1>3, <1>7, <2>1, <2>2
<1> QED BY <1>5, <1>6, <1>8, <1>9 DEF ItemsFollowTrials

\* What a pass reads is known of it.
LEMMA PassReads ==
    ASSUME NEW txs \in SUBSET Due
    PROVE  PassIsKnown(PassOver(txs))
BY DEF PassIsKnown, PassOver, Due, ChangeItems

\* The engine goes on by itself.
LEMMA EngineAloneKeeps ==
    ASSUME ScreenInv, NEW ends \in PassEnds,
           DeadlinePasses \/ ThreadReads \/ ThreadTakesBack(ends)
    PROVE  ScreenInv'
<1>1. ScreenWaits /\ UNCHANGED tsCalls
  BY DEF DeadlinePasses, ThreadReads, ThreadTakesBack, ScreenWaits, tsscreen, tsview,
         tsapplied
<1>2. StatesGoOn /\ ItemsGoOn /\ ItemsFollowTrials' /\ PassIsKnown(tsPass)'
  <2>1. CASE DeadlinePasses
    <3>1. StatesGoOn /\ ItemsGoOn
      BY <2>1
         DEF DeadlinePasses, ScreenInv, ScreenTypes, StatesGoOn, ItemsGoOn, ChangeStates
    <3>2. ItemsFollowTrials'
      BY <2>1, <3>1, ItemsAreOfChanges
         DEF DeadlinePasses, ScreenInv, StatesGoOn, ItemsFollowTrials
    <3>3. tsPass' = tsPass
      BY <2>1 DEF DeadlinePasses
    <3> QED BY <3>1, <3>2, <3>3, PassStays DEF ScreenInv
  <2>2. CASE ThreadReads
    <3>1. UNCHANGED <<tsState, tsItem, tsExcused>>
      BY <2>2 DEF ThreadReads
    <3>2. PICK tx \in Due : tsPass' = PassOver({tx})
      BY <2>2 DEF ThreadReads
    <3>3. PassIsKnown(tsPass)'
      BY <3>1, <3>2, PassReads DEF PassIsKnown
    <3> QED BY <3>1, <3>3 DEF ScreenInv, ScreenTypes, StatesGoOn, ItemsGoOn, ItemsFollowTrials
  <2>3. CASE ThreadTakesBack(ends)
    <3>1. TakeBack(tsPass, ends) /\ tsPass' = NoPass
      BY <2>3 DEF ThreadTakesBack
    <3>2. PassIsKnown(tsPass)'
      BY <3>1 DEF PassIsKnown, NoPass
    <3> QED BY <3>1, <3>2, TakeBackGoesOn DEF ScreenInv
  <2> QED BY <2>1, <2>2, <2>3
<1>3. CallTypes'
  BY <1>1, FewerCalls DEF ScreenInv, ScreenTypes
<1>4. ScreenTypes'
  BY <1>1, <1>2, <1>3 DEF ScreenInv, ScreenTypes, ScreenWaits, StatesGoOn, ItemsGoOn
<1>5. PreviewsRest
  BY <1>1 DEF ScreenWaits, PreviewsRest
<1>6. ChangeIsKnown' /\ CommitIsNews'
  BY <1>1, <1>2, StatesKept DEF ScreenInv, ScreenWaits
<1>7. UndoIsAlone' /\ NoneBefore'
  <2>1. \A tx \in Changes : tsState'[tx] = "none" => tsState[tx] = "none"
    BY <1>2 DEF StatesGoOn
  <2> QED BY <1>1, <1>2, <2>1, ItemsGo DEF ScreenInv, ScreenWaits
<1> QED BY <1>1, <1>2, <1>4, <1>5, <1>6, <1>7, PreviewsKept, SilenceIsTrue
        DEF ScreenInv, BarIsOfTrial, ScreenWaits

\* An item that goes on is excused, and its change stays as it is.
LEMMA ItemIsExcused ==
    ASSUME ItemsFollowTrials, ItemsGoOn, PassIsKnown(tsPass), UNCHANGED <<tsState, tsPass>>,
           tsExcused \subseteq tsExcused',
           \A i \in AllItems \ tsExcused' : tsItem'[i] = tsItem[i]
    PROVE  ItemsFollowTrials' /\ PassIsKnown(tsPass)'
BY DEF ItemsFollowTrials, ItemsGoOn, PassIsKnown

LEMMA RollbackFromHistoryKeeps == ASSUME ScreenInv, RollbackFromHistory PROVE ScreenInv'
<1>1. ScreenWaits /\ UNCHANGED <<tsCalls, tsState, tsPass>>
  BY DEF RollbackFromHistory, SameRequests, ScreenWaits, tsview, tsapplied
<1>2. /\ ItemsGoOn /\ tsExcused \subseteq tsExcused'
      /\ \A i \in AllItems \ tsExcused' : tsItem'[i] = tsItem[i]
  BY DEF RollbackFromHistory, ScreenInv, ScreenTypes, ItemsGoOn
<1>3. CallTypes'
  BY <1>1, FewerCalls DEF ScreenInv, ScreenTypes
<1>4. ScreenTypes'
  BY <1>1, <1>2, <1>3 DEF ScreenInv, ScreenTypes, ScreenWaits, ItemsGoOn
<1>5. PreviewsRest /\ ChangesRest
  BY <1>1, <1>2 DEF ScreenWaits, PreviewsRest, ChangesRest
<1>6. UndoIsAlone' /\ NoneBefore'
  BY <1>1, <1>2, ItemsGo DEF ScreenInv, ScreenWaits
<1>7. ItemsFollowTrials' /\ PassIsKnown(tsPass)'
  BY <1>1, <1>2, ItemIsExcused DEF ScreenInv
<1> QED BY <1>1, <1>4, <1>5, <1>6, <1>7, PreviewsKept, ChangesKept, SilenceIsTrue
        DEF ScreenInv, BarIsOfTrial, ScreenWaits

\* An answer of the engine: what the next lemmas have in common.
LEMMA AnswerTypes ==
    ASSUME CallTypes, NEW call \in tsCalls, NEW answer,
           tsCalls' = (tsCalls \ {call}) \union {[call EXCEPT !.answer = answer]},
           call.kind # "commit" \/ answer # "ok",
           call.kind = "revert" => answer \in {"none", "ok", "error"}
    PROVE  CallTypes'
<1>1. PICK d : d = [call EXCEPT !.answer = answer]
  OBVIOUS
<1>2. DOMAIN call = {"kind", "about", "answer", "change", "of"}
  BY DEF CallTypes
<1>3. /\ DOMAIN d = {"kind", "about", "answer", "change", "of"}
      /\ d.kind = call.kind /\ d.about = call.about /\ d.answer = answer
  BY <1>1, <1>2, AnswerFields
<1> QED BY <1>1, <1>3 DEF CallTypes

\* One lemma for each step of the engine.
LEMMA CommitRefusedKeeps ==
    ASSUME ScreenInv, ScreenWaits, NEW call \in tsCalls, NEW answer,
           call.kind = "commit", answer \in {"undone", "error"},
           tsCalls' = (tsCalls \ {call}) \union {[call EXCEPT !.answer = answer]},
           UNCHANGED <<tsState, tsItem, tsPass, tsExcused>>
    PROVE  ScreenInv'
<1>1. PICK d : d = [call EXCEPT !.answer = answer]
  OBVIOUS
<1>2. /\ DOMAIN call = {"kind", "about", "answer", "change", "of"} /\ call.of = "commit"
  BY DEF ScreenInv, ScreenTypes, CallTypes
<1>3. d.kind = "commit" /\ d.answer = answer /\ d.of = "commit"
  BY <1>1, <1>2, AnswerFields
<1>4. tsCalls' = (tsCalls \ {call}) \union {d}
  BY <1>1
<1>5. CallTypes'
  BY AnswerTypes DEF ScreenInv, ScreenTypes
<1>6. PreviewsRest /\ ChangesRest /\ UndoRests
  BY <1>3, <1>4 DEF PreviewsRest, ChangesRest, UndoRests, ScreenWaits
<1> QED BY <1>5, <1>6, TypesKept, PreviewsKept, ChangesKept, UndoKept, ItemsKept,
           SilenceIsTrue
        DEF ScreenInv, BarIsOfTrial, ScreenWaits

LEMMA ExecuteCommitKeeps == ASSUME ScreenInv, ExecuteCommit PROVE ScreenInv'
<1>1. ScreenWaits /\ UNCHANGED <<tsPass, tsExcused>>
  BY DEF ExecuteCommit, ScreenWaits, tsscreen, tsview, tsapplied
<1>2. PICK call \in tsCalls :
        /\ call.kind = "commit" /\ call.answer = "none"
        /\ \/ \E tx \in Changes :
                 /\ NextChange(tx)
                 /\ tsCalls' = (tsCalls \ {call})
                        \union {[call EXCEPT !.answer = "ok", !.change = tx]}
                 /\ tsState' = [tsState EXCEPT ![tx] = "trial"]
                 /\ tsItem' = [i \in AllItems |-> IF i[1] = tx THEN "applied"
                        ELSE tsItem[i]]
           \/ /\ tsCalls' = (tsCalls \ {call}) \union {[call EXCEPT !.answer = "error"]}
              /\ UNCHANGED <<tsState, tsItem>>
  BY DEF ExecuteCommit, Waiting, Swap, Answer
<1>3. DOMAIN call = {"kind", "about", "answer", "change", "of"}
  BY DEF ScreenInv, ScreenTypes, CallTypes
<1>4. ASSUME NEW tx \in Changes, NextChange(tx),
             tsCalls' = (tsCalls \ {call})
                 \union {[call EXCEPT !.answer = "ok", !.change = tx]},
             tsState' = [tsState EXCEPT ![tx] = "trial"],
             tsItem' = [i \in AllItems |-> IF i[1] = tx THEN "applied" ELSE tsItem[i]]
      PROVE  ScreenInv'
  <2>1. PICK d : d = [call EXCEPT !.answer = "ok", !.change = tx]
    OBVIOUS
  <2>2. /\ DOMAIN d = {"kind", "about", "answer", "change", "of"}
        /\ d.kind = "commit" /\ d.answer = "ok" /\ d.change = tx /\ d.of = "commit"
    BY <1>2, <1>3, <2>1, CommitFields DEF ScreenInv, ScreenTypes, CallTypes
  <2>3. tsCalls' = (tsCalls \ {call}) \union {d}
    BY <1>4, <2>1
  <2>4. tsState[tx] = "none"
    BY <1>4 DEF NextChange
  <2>5. tsState' \in [Changes -> ChangeStates] /\ tsState'[tx] = "trial"
        /\ \A x \in Changes : x # tx => tsState'[x] = tsState[x]
    BY <1>4 DEF ScreenInv, ScreenTypes, ChangeStates
  <2>6. ScreenTypes'
    <3>1. CallTypes'
      BY <1>4, <2>2, <2>3 DEF ScreenInv, ScreenTypes, CallTypes
    <3>2. tsItem' \in [AllItems -> {"none", "applied", "back", "recovery"}]
      BY <1>4 DEF ScreenInv, ScreenTypes
    <3> QED BY <1>1, <2>5, <3>1, <3>2 DEF ScreenInv, ScreenTypes, ScreenWaits
  <2>7. PreviewsRest
    BY <1>1, <2>2, <2>3 DEF PreviewsRest, ScreenWaits
  <2>8. tsTrial # tx /\ \A c \in tsCalls : c.kind \in {"keep", "revert"}
            => c.about[1] # tx
    BY <1>4, <2>4 DEF ScreenInv, ChangeIsKnown, Changes
  <2>9. ChangeIsKnown'
    <3>1. tsTrial' = tsTrial /\ (tsTrial # 0 => tsState'[tsTrial] = tsState[tsTrial])
      BY <1>1, <2>5, <2>8 DEF ScreenInv, ScreenTypes, ScreenWaits
    <3>2. \A c \in tsCalls' : c.kind \in {"keep", "revert"} =>
             c \in tsCalls /\ tsState'[c.about[1]] = tsState[c.about[1]]
      BY <2>2, <2>3, <2>5, <2>8 DEF ScreenInv, ScreenTypes, CallTypes
    <3>3. \A c \in tsCalls : c.kind = "keep" => c \in tsCalls'
      BY <1>2, <2>3
    <3> QED BY <1>1, <3>1, <3>2, <3>3 DEF ScreenInv, ChangeIsKnown, KeepIsAnswered
  <2>10. CommitIsNews'
    <3>1. ASSUME NEW c \in tsCalls', c.kind = "commit", c.answer = "ok", c # d
          PROVE  /\ c \in tsCalls /\ c.change # tx /\ c.change \in Changes
                 /\ tsState'[c.change] = tsState[c.change]
      BY <2>3, <2>4, <2>5, <3>1 DEF ScreenInv, ScreenTypes, CallTypes, CommitIsNews
    <3> QED BY <1>1, <2>2, <2>3, <2>5, <2>8, <3>1 DEF ScreenInv, ScreenWaits, CommitIsNews
  <2>11. UndoIsAlone'
    <3>1. \A i \in AllItems : tsItem[i] = "back" => tsItem'[i] = "back"
      BY <1>4, <2>4 DEF ScreenInv, NoneBefore
    <3> QED BY <1>1, <2>2, <2>3, <3>1, UndoListed
            DEF ScreenInv, ScreenTypes, CallTypes, ScreenWaits, UndoIsAlone
  <2>12. NoneBefore'
    BY <1>4, <2>5, ItemsAreOfChanges DEF ScreenInv, NoneBefore
  <2>13. PassIsKnown(tsPass)'
    BY <1>1, <2>4, <2>5 DEF ScreenInv, PassIsKnown
  <2>14. ItemsFollowTrials'
    BY <1>1, <1>4, <2>5, ItemsAreOfChanges DEF ScreenInv, ItemsFollowTrials
  <2> QED BY <1>1, <2>6, <2>7, <2>9, <2>10, <2>11, <2>12, <2>13, <2>14, PreviewsKept, SilenceIsTrue
          DEF ScreenInv, BarIsOfTrial, ScreenWaits
<1>5. ASSUME tsCalls' = (tsCalls \ {call}) \union {[call EXCEPT !.answer = "error"]},
             UNCHANGED <<tsState, tsItem>>
      PROVE  ScreenInv'
  BY <1>1, <1>2, <1>5, CommitRefusedKeeps
<1> QED BY <1>2, <1>4, <1>5

LEMMA CommitIsUndoneKeeps == ASSUME ScreenInv, CommitIsUndone PROVE ScreenInv'
<1>1. ScreenWaits /\ UNCHANGED <<tsState, tsItem, tsPass, tsExcused>>
  BY DEF CommitIsUndone, ScreenWaits, tsscreen, tsview, tsapplied
<1>2. PICK call \in tsCalls, answer \in {"undone", "error"} :
        /\ call.kind = "commit"
        /\ tsCalls' = (tsCalls \ {call}) \union {[call EXCEPT !.answer = answer]}
  BY DEF CommitIsUndone, Waiting, Answer, Swap
<1> QED BY <1>1, <1>2, CommitRefusedKeeps

LEMMA ExecuteKeepKeeps == ASSUME ScreenInv, ExecuteKeep PROVE ScreenInv'
<1>1. ScreenWaits /\ UNCHANGED <<tsItem, tsPass>>
  BY DEF ExecuteKeep, ScreenWaits, tsscreen, tsview, tsapplied
<1>2. PICK call \in tsCalls, answer \in {"true", "false"}, tx \in Changes :
        /\ call.kind = "keep" /\ call.answer = "none" /\ call.about = <<tx>>
        /\ tsCalls' = (tsCalls \ {call}) \union {[call EXCEPT !.answer = answer]}
        /\ \/ answer = "true" /\ tsState[tx] \in {"trial", "due"}
              /\ tsState' = [tsState EXCEPT ![tx] = "saved"]
              /\ tsExcused' = IF tx \in tsPass.changes
                                 THEN tsExcused \union ChangeItems(tx) ELSE tsExcused
           \/ answer = "false" /\ UNCHANGED <<tsState, tsExcused>>
  BY DEF ExecuteKeep, Waiting, Answer, Swap, ScreenInv, ScreenTypes, CallTypes
<1>3. PICK d : d = [call EXCEPT !.answer = answer]
  OBVIOUS
<1>4. /\ DOMAIN call = {"kind", "about", "answer", "change", "of"} /\ call.of = "keep"
  BY <1>2 DEF ScreenInv, ScreenTypes, CallTypes
<1>5. d.kind = "keep" /\ d.about = <<tx>> /\ d.answer = answer /\ d.of = "keep"
  BY <1>2, <1>3, <1>4, AnswerFields
<1>6. tsCalls' = (tsCalls \ {call}) \union {d}
  BY <1>2, <1>3
<1>7. /\ tsState' \in [Changes -> ChangeStates]
      /\ \A x \in Changes : tsState'[x] = tsState[x]
                            \/ (x = tx /\ answer = "true" /\ tsState'[x] = "saved"
                                /\ tsState[x] \in {"trial", "due"})
      /\ answer = "true" => tsState'[tx] = "saved"
      /\ tsExcused \subseteq tsExcused'
  BY <1>2 DEF ScreenInv, ScreenTypes, ChangeStates
<1>8. CallTypes'
  BY <1>2, AnswerTypes DEF ScreenInv, ScreenTypes
<1>9. ScreenTypes'
  BY <1>1, <1>7, <1>8 DEF ScreenInv, ScreenTypes, ScreenWaits
<1>10. PreviewsRest /\ UndoRests
  BY <1>1, <1>5, <1>6 DEF PreviewsRest, UndoRests, ScreenWaits
<1>11. ChangeIsKnown'
  <2>1. tsTrial' # 0 => tsState'[tsTrial'] # "none"
    BY <1>1, <1>7 DEF ScreenInv, ScreenTypes, ChangeIsKnown, ScreenWaits
  <2>2. ASSUME tsTrial' # 0, tsState'[tsTrial'] = "saved"
        PROVE  \E c \in tsCalls' : c.kind = "keep" /\ c.about = <<tsTrial'>>
            /\ c.answer = "true"
    <3>1. CASE tsTrial = tx /\ answer = "true"
      BY <1>1, <1>5, <1>6, <3>1 DEF ScreenWaits
    <3>2. CASE ~(tsTrial = tx /\ answer = "true")
      <4>1. tsState[tsTrial] = "saved" /\ tsTrial # 0
        BY <1>1, <1>7, <2>2, <3>2 DEF ScreenInv, ScreenTypes, ScreenWaits
      <4> QED BY <1>1, <1>2, <1>6, <4>1
                 DEF ScreenInv, ChangeIsKnown, KeepIsAnswered, ScreenWaits
    <3> QED BY <3>1, <3>2
  <2>3. ASSUME NEW c \in tsCalls', c.kind \in {"keep", "revert"}
        PROVE  /\ tsState'[c.about[1]] # "none"
               /\ c.kind = "keep" /\ c.answer = "true"
                      => \/ tsState'[c.about[1]] = "saved"
                         \/ ChangeItems(c.about[1]) \subseteq tsExcused'
               /\ c.kind = "revert" => tsState'[c.about[1]] # "trial"
               /\ c.kind = "revert" /\ c.answer = "ok"
                      => tsState'[c.about[1]] \in {"saved", "cleared"}
    <3>1. CASE c = d
      BY <1>2, <1>5, <1>7, <3>1 DEF ScreenInv, ChangeIsKnown
    <3>2. CASE c \in tsCalls
      BY <1>7, <2>3, <3>2 DEF ScreenInv, ScreenTypes, CallTypes, ChangeIsKnown
    <3> QED BY <1>6, <3>1, <3>2
  <2> QED BY <2>1, <2>2, <2>3 DEF ChangeIsKnown, KeepIsAnswered
<1>12. CommitIsNews'
  <2>1. \A c \in tsCalls' : c.kind = "commit" => c \in tsCalls
    BY <1>5, <1>6
  <2>2. \A c \in tsCalls : c.kind = "commit" /\ c.answer = "ok" =>
           c.change # tx /\ tsState'[c.change] = tsState[c.change]
    BY <1>2, <1>7 DEF ScreenInv, ScreenTypes, CallTypes, CommitIsNews
  <2> QED BY <1>1, <1>5, <1>6, <2>1, <2>2 DEF ScreenInv, CommitIsNews, ScreenWaits
<1>13. NoneBefore'
  BY <1>1, <1>7, ItemsAreOfChanges DEF ScreenInv, NoneBefore
<1>14. PassIsKnown(tsPass)'
  BY <1>1, <1>2, <1>7 DEF ScreenInv, PassIsKnown
<1>15. ItemsFollowTrials'
  BY <1>1, <1>7, ItemsAreOfChanges DEF ScreenInv, ItemsFollowTrials
<1> QED BY <1>1, <1>9, <1>10, <1>11, <1>12, <1>13, <1>14, <1>15, PreviewsKept, UndoKept, SilenceIsTrue
        DEF ScreenInv, BarIsOfTrial, ScreenWaits

LEMMA RollbackKeeps == ASSUME ScreenInv, ExecuteRollback \/ RollbackFails PROVE ScreenInv'
<1>1. ScreenWaits /\ UNCHANGED <<tsState, tsPass>>
  BY DEF ExecuteRollback, RollbackFails, ScreenWaits, tsscreen, tsview, tsapplied
<1>2. PICK call \in tsCalls, answer \in {"ok", "error", "recovery"} :
        /\ call.kind = "undo" /\ call.answer = "none"
        /\ tsCalls' = (tsCalls \ {call}) \union {[call EXCEPT !.answer = answer]}
        /\ \/ /\ tsItem[call.about] = "applied"
              /\ tsItem' = [tsItem EXCEPT ![call.about] = IF answer = "ok" THEN "back"
                     ELSE "recovery"]
              /\ tsExcused' = tsExcused \union {call.about}
           \/ answer # "ok" /\ UNCHANGED <<tsItem, tsExcused>>
  BY DEF ExecuteRollback, RollbackFails, Waiting, Answer, Swap
<1>3. PICK d : d = [call EXCEPT !.answer = answer]
  OBVIOUS
<1>4. /\ DOMAIN call = {"kind", "about", "answer", "change", "of"} /\ call.of = "undo"
      /\ call.about \in AllItems
  BY <1>2 DEF ScreenInv, ScreenTypes, CallTypes
<1>5. d.kind = "undo" /\ d.about = call.about /\ d.answer = answer /\ d.of = "undo"
  BY <1>2, <1>3, <1>4, AnswerFields
<1>6. tsCalls' = (tsCalls \ {call}) \union {d}
  BY <1>2, <1>3
<1>7. /\ ItemsGoOn /\ (answer = "ok" => tsItem'[call.about] = "back")
      /\ tsExcused \subseteq tsExcused'
      /\ \A i \in AllItems \ tsExcused' : tsItem'[i] = tsItem[i]
  BY <1>2, <1>4 DEF ScreenInv, ScreenTypes, ItemsGoOn
<1>8. CallTypes'
  BY <1>2, AnswerTypes DEF ScreenInv, ScreenTypes
<1>9. ScreenTypes'
  BY <1>1, <1>7, <1>8 DEF ScreenInv, ScreenTypes, ScreenWaits, ItemsGoOn
<1>10. PreviewsRest /\ ChangesRest
  BY <1>1, <1>2, <1>5, <1>6, <1>7 DEF PreviewsRest, ChangesRest, ScreenWaits
<1>11. UndoIsAlone'
  <2>1. \A c \in tsCalls' : c.kind = "undo" \/ c.of = "undo" => c = d
    BY <1>2, <1>6 DEF ScreenInv, UndoIsAlone
  <2>2. tsUndo.busy /\ d.about \in tsUndo.left
            /\ (d.answer = "ok" => tsItem'[d.about] = "back")
    BY <1>2, <1>5, <1>7 DEF ScreenInv, UndoIsAlone
  <2>3. \A i \in tsUndo.all \ tsUndo.left : tsItem'[i] = "back"
    BY <1>7, UndoListed DEF ScreenInv, UndoIsAlone, ItemsGoOn
  <2> QED BY <1>1, <2>1, <2>2, <2>3 DEF UndoIsAlone, ScreenWaits
<1>12. NoneBefore'
  BY <1>1, <1>7 DEF ScreenInv, NoneBefore, ItemsGoOn
<1>13. ItemsFollowTrials' /\ PassIsKnown(tsPass)'
  BY <1>1, <1>7, ItemIsExcused DEF ScreenInv
<1> QED BY <1>1, <1>9, <1>10, <1>11, <1>12, <1>13, PreviewsKept, ChangesKept, SilenceIsTrue
        DEF ScreenInv, BarIsOfTrial, ScreenWaits

\* An answer that nothing is known of: none that an undo, a keeping or a revert
\* goes on with.
LEMMA InvocationFailsKeeps == ASSUME ScreenInv, InvocationFails PROVE ScreenInv'
<1>1. ScreenWaits /\ UNCHANGED <<tsState, tsItem, tsPass, tsExcused>>
  BY DEF InvocationFails, ScreenWaits, tsscreen, tsview, tsapplied, tsengine
<1>2. PICK call \in tsCalls :
        /\ call.kind \in {"undo", "keep", "revert"} /\ call.answer = "none"
        /\ tsCalls' = (tsCalls \ {call}) \union {[call EXCEPT !.answer = "error"]}
  BY DEF InvocationFails, Answer, Swap
<1>3. PICK d : d = [call EXCEPT !.answer = "error"]
  OBVIOUS
<1>4. DOMAIN call = {"kind", "about", "answer", "change", "of"} /\ call.of = call.kind
  BY <1>2 DEF ScreenInv, ScreenTypes, CallTypes
<1>5. d.kind = call.kind /\ d.about = call.about /\ d.answer = "error" /\ d.of = call.kind
  BY <1>3, <1>4, AnswerFields
<1>6. tsCalls' = (tsCalls \ {call}) \union {d}
  BY <1>2, <1>3
<1>7. CallTypes'
  BY <1>2, AnswerTypes DEF ScreenInv, ScreenTypes
<1>8. ScreenTypes'
  BY <1>1, <1>7, TypesKept DEF ScreenInv, ScreenWaits
<1>9. PreviewsRest
  BY <1>1, <1>2, <1>5, <1>6 DEF PreviewsRest, ScreenWaits
<1>10. ChangeIsKnown' /\ CommitIsNews'
  <2>1. ChangeIsKnown'
    BY <1>1, <1>2, <1>5, <1>6 DEF ScreenInv, ChangeIsKnown, KeepIsAnswered, ScreenWaits
  <2>2. CommitIsNews'
    BY <1>1, <1>2, <1>5, <1>6 DEF ScreenInv, CommitIsNews, ScreenWaits
  <2> QED BY <2>1, <2>2
<1>11. UndoIsAlone'
  BY <1>1, <1>2, <1>4, <1>5, <1>6 DEF ScreenInv, UndoIsAlone, ScreenWaits
<1> QED BY <1>1, <1>8, <1>9, <1>10, <1>11, PreviewsKept, ItemsKept, SilenceIsTrue
        DEF ScreenInv, BarIsOfTrial, ScreenWaits

LEMMA ExecuteRevertKeeps ==
    ASSUME ScreenInv, NEW ends \in PassEnds, ExecuteRevert(ends)
    PROVE  ScreenInv'
<1> DEFINE pass == PassOver(Due)
<1>1. ScreenWaits /\ tsPass' = tsPass
  BY DEF ExecuteRevert, ScreenWaits, tsscreen, tsview, tsapplied
<1>2. PICK call \in tsCalls, answer \in {"ok", "error"}, tx \in Changes :
        /\ call.kind = "revert" /\ call.about = <<tx>> /\ answer = RevertAnswer(pass, ends)
        /\ tsCalls' = (tsCalls \ {call}) \union {[call EXCEPT !.answer = answer]}
        /\ TakeBack(pass, ends)
  BY DEF ExecuteRevert, Waiting, Answer, Swap, RevertAnswer, ScreenInv, ScreenTypes,
         CallTypes
<1>3. PICK d : d = [call EXCEPT !.answer = answer]
  OBVIOUS
<1>4. DOMAIN call = {"kind", "about", "answer", "change", "of"} /\ call.of = "revert"
  BY <1>2 DEF ScreenInv, ScreenTypes, CallTypes
<1>5. d.kind = "revert" /\ d.about = <<tx>> /\ d.answer = answer /\ d.of = "revert"
  BY <1>2, <1>3, <1>4, AnswerFields
<1>6. tsCalls' = (tsCalls \ {call}) \union {d}
  BY <1>2, <1>3
<1>7. StatesGoOn /\ ItemsGoOn /\ ItemsFollowTrials' /\ PassIsKnown(tsPass)'
  <2>1. PassIsKnown(pass)
    BY PassReads
  <2>2. StatesGoOn /\ ItemsGoOn /\ ItemsFollowTrials'
    BY <1>2, <2>1, TakeBackGoesOn DEF ScreenInv
  <2> QED BY <1>1, <2>2, PassStays DEF ScreenInv
<1>8. answer = "ok" => tsState'[tx] # "due"
  <2>1. pass.changes = Due /\ (tsState[tx] = "due" => tx \in Due)
    BY DEF PassOver, Due
  <2>2. tsState'[tx] = IF tx \in pass.changes /\ Finishes(pass, ends, tx)
                       THEN "cleared" ELSE tsState[tx]
    BY <1>2 DEF TakeBack
  <2>3. answer = "ok" => \A x \in pass.changes : Finishes(pass, ends, x)
    BY <1>2 DEF RevertAnswer
  <2> HIDE DEF pass
  <2> QED BY <2>1, <2>2, <2>3
<1>9. CallTypes'
  BY <1>2, AnswerTypes DEF ScreenInv, ScreenTypes
<1>10. ScreenTypes'
  BY <1>1, <1>7, <1>9 DEF ScreenInv, ScreenTypes, ScreenWaits, StatesGoOn, ItemsGoOn
<1>11. PreviewsRest
  BY <1>1, <1>5, <1>6 DEF PreviewsRest, ScreenWaits
<1>12. tsState[tx] \notin {"none", "trial"}
  BY <1>2 DEF ScreenInv, ChangeIsKnown
<1>13. ChangeIsKnown'
  <2>1. /\ tsTrial # 0 => tsState'[tsTrial] # "none"
        /\ tsTrial # 0 /\ tsState'[tsTrial] = "saved" => KeepIsAnswered(tsTrial)
    BY <1>7 DEF ScreenInv, ScreenTypes, StatesGoOn, ChangeIsKnown
  <2>2. \A c \in tsCalls : c.kind = "keep" => c \in tsCalls'
    BY <1>2, <1>6
  <2>3. ASSUME NEW c \in tsCalls, c.kind \in {"keep", "revert"}
        PROVE  /\ tsState'[c.about[1]] # "none"
               /\ c.kind = "keep" /\ c.answer = "true"
                      => \/ tsState'[c.about[1]] = "saved"
                         \/ ChangeItems(c.about[1]) \subseteq tsExcused'
               /\ c.kind = "revert" => tsState'[c.about[1]] # "trial"
               /\ c.kind = "revert" /\ c.answer = "ok"
                      => tsState'[c.about[1]] \in {"saved", "cleared"}
    BY <1>7, <2>3 DEF ScreenInv, ScreenTypes, CallTypes, ChangeIsKnown, StatesGoOn
  <2>4. tsState'[tx] \notin {"none", "trial"}
            /\ (answer = "ok" => tsState'[tx] \in {"saved", "cleared"})
    BY <1>7, <1>8, <1>12 DEF StatesGoOn, ChangeStates
  <2> QED BY <1>1, <1>5, <1>6, <2>1, <2>2, <2>3, <2>4
             DEF ChangeIsKnown, KeepIsAnswered, ScreenWaits
<1>14. CommitIsNews'
  <2>1. \A c \in tsCalls' : c.kind = "commit" => c \in tsCalls
    BY <1>5, <1>6
  <2>2. \A c \in tsCalls : c.kind = "commit" /\ c.answer = "ok" =>
           c.change # tx /\ tsState'[c.change] \notin {"none", "saved"}
    BY <1>2, <1>7 DEF ScreenInv, ScreenTypes, CallTypes, CommitIsNews, StatesGoOn
  <2> QED BY <1>1, <1>5, <1>6, <2>1, <2>2 DEF ScreenInv, CommitIsNews, ScreenWaits
<1>15. UndoIsAlone' /\ NoneBefore'
  <2>1. \A x \in Changes : tsState'[x] = "none" => tsState[x] = "none"
    BY <1>7 DEF StatesGoOn
  <2> QED BY <1>1, <1>5, <1>6, <1>7, <2>1, ItemsGo DEF ScreenInv, ScreenWaits
<1> QED BY <1>1, <1>7, <1>10, <1>11, <1>13, <1>14, <1>15, PreviewsKept, SilenceIsTrue
        DEF ScreenInv, BarIsOfTrial, ScreenWaits

-----------------------------------------------------------------------------
LEMMA ScreenInvariant == ScreenSpec => []ScreenInv
<1>1. ScreenInv /\ [ScreenNext]_tsvars => ScreenInv'
  <2> SUFFICES ASSUME ScreenInv, [ScreenNext]_tsvars
               PROVE  ScreenInv'
    OBVIOUS
  <2>1. CASE ScreenStep
    BY <2>1, PreviewAnswerKeeps, CommitArrivesKeeps, SnapshotKeeps, UndoArrivesKeeps,
       KeepArrivesKeeps, TimeIsUpKeeps, RevertArrivesKeeps
       DEF ScreenStep
  <2>2. CASE ScreenUserStep
    BY <2>2, RequestPreviewKeeps, DialogKeeps, ConfirmPreviewKeeps,
       UndoJustAppliedKeeps, KeepTrialKeeps, CloseBarKeeps
       DEF ScreenUserStep
  <2>3. CASE ScreenEngineStep
    BY <2>3, EndsOfPasses, ExecuteCommitKeeps, ExecuteKeepKeeps, RollbackKeeps, ExecuteRevertKeeps,
       EngineAloneKeeps
       DEF ScreenEngineStep
  <2>4. CASE ScreenFault
    <3>1. CASE RevertFails
      BY <3>1, EndsOfPasses, ExecuteRevertKeeps, EngineAloneKeeps DEF RevertFails
    <3> QED
      BY <2>4, <3>1, PreviewAnswerKeeps, SnapshotKeeps, InvocationFailsKeeps,
         CommitIsUndoneKeeps, RollbackKeeps, RollbackFromHistoryKeeps
         DEF ScreenFault
  <2>5. CASE UNCHANGED tsvars
    <3>1. PreviewsRest /\ ChangesRest /\ UndoRests
      BY <2>5 DEF tsvars, PreviewsRest, ChangesRest, UndoRests
    <3>2. CallTypes' /\ BarIsOfTrial' /\ NoticeIsTrue(tsSaid)'
      BY <2>5
         DEF tsvars, ScreenInv, ScreenTypes, CallTypes, BarIsOfTrial, NoticeIsTrue,
             KeepIsAnswered
    <3>3. ScreenTypes' /\ NoneBefore' /\ PassIsKnown(tsPass)' /\ ItemsFollowTrials'
      BY <2>5, <3>2, TypesKept, ItemsKept DEF tsvars, ScreenInv
    <3> QED BY <3>1, <3>2, <3>3, PreviewsKept, ChangesKept, UndoKept DEF ScreenInv
  <2> QED BY <2>1, <2>2, <2>3, <2>4, <2>5 DEF ScreenNext
<1> QED BY ScreenInitially, <1>1, PTL DEF ScreenSpec

\* Only the button of the dialog sends a commit.
LEMMA CommitIsConfirmed ==
    ASSUME ScreenInv, ScreenNext, NEW call \in tsCalls' \ tsCalls,
           call.kind = "commit", call.answer = "none"
    PROVE  call.about = <<tsTicked>> /\ call.about = <<tsGeneration>> /\ tsMode = "live"
<1>1. ConfirmPreview
  <2>1. \A kind, about : Invocation(kind, about).kind = kind
    BY InvocationFields
  <2>2. \A handler : Snapshot(handler).kind = "snapshot"
    BY SnapshotFields
  <2>3. ASSUME NEW c \in tsCalls, NEW answer, call = [c EXCEPT !.answer = answer]
        PROVE  answer = "none"
    <3>1. DOMAIN c = {"kind", "about", "answer", "change", "of"}
      BY DEF ScreenInv, ScreenTypes, CallTypes
    <3>2. call.answer = answer
      BY <2>3, <3>1, AnswerFields
    <3> QED BY <3>2
  <2>4. ASSUME NEW c \in tsCalls, NEW tx, call = [c EXCEPT !.answer = "ok", !.change = tx]
        PROVE  FALSE
    <3>1. DOMAIN c = {"kind", "about", "answer", "change", "of"}
      BY DEF ScreenInv, ScreenTypes, CallTypes
    <3>2. call.answer = "ok"
      BY <2>4, <3>1, CommitFields
    <3> QED BY <3>2
  <2>5. ~ScreenStep
    <3>1. ~PreviewArrives /\ ~SnapshotArrives /\ ~KeepArrives /\ ~RevertArrives
      BY DEF PreviewArrives, SnapshotArrives, Settle, KeepArrives, RevertArrives, Drop
    <3>2. ~CommitArrives
      BY <2>2 DEF CommitArrives, Drop, Swap
    <3>3. ~UndoArrives
      <4>1. UndoArrives => \E about : call \in tsCalls
                \union {Invocation("undo", about), Snapshot("undo")}
        BY DEF UndoArrives, Drop, Swap
      <4> QED BY <2>1, <2>2, <4>1
    <3>4. ~TimeIsUp
      BY <2>1 DEF TimeIsUp, Invoke
    <3> QED BY <3>1, <3>2, <3>3, <3>4 DEF ScreenStep
  <2>6. ScreenUserStep => ConfirmPreview
    BY <2>1
       DEF ScreenUserStep, RequestPreview, TickBox, CancelPreview, UndoJustApplied,
           KeepTrial, CloseBar, Invoke
  <2>7. ~ScreenEngineStep
    <3>1. ~ExecuteCommit
      BY <2>3, <2>4 DEF ExecuteCommit, Waiting, Answer, Swap
    <3>2. ~ExecuteKeep /\ ~ExecuteRollback /\ \A ends : ~ExecuteRevert(ends)
      BY <2>3
         DEF ExecuteKeep, ExecuteRollback, ExecuteRevert, RevertAnswer, Waiting,
             Answer, Swap
    <3>3. ~DeadlinePasses /\ ~ThreadReads /\ \A ends : ~ThreadTakesBack(ends)
      BY DEF DeadlinePasses, ThreadReads, ThreadTakesBack
    <3> QED BY <3>1, <3>2, <3>3 DEF ScreenEngineStep
  <2>8. ~ScreenFault
    <3>1. ~CommitIsUndone /\ ~RollbackFails /\ ~InvocationFails
      BY <2>3 DEF CommitIsUndone, RollbackFails, InvocationFails, Waiting, Answer, Swap
    <3>2. ~PreviewFails /\ ~SnapshotFails /\ ~RollbackFromHistory
      BY DEF PreviewFails, SnapshotFails, Settle, RollbackFromHistory, Drop
    <3>3. \A ends : ~ExecuteRevert(ends) /\ ~ThreadTakesBack(ends)
      BY <2>3 DEF ExecuteRevert, ThreadTakesBack, RevertAnswer, Waiting, Answer, Swap
    <3> QED BY <3>1, <3>2, <3>3 DEF ScreenFault, RevertFails
  <2> QED BY <2>5, <2>6, <2>7, <2>8 DEF ScreenNext
<1>2. call.about = <<tsPreview>> /\ tsPreview # 0 /\ tsConfirmed
  BY <1>1, InvocationFields DEF ConfirmPreview, Invoke
<1> QED BY <1>2 DEF ScreenInv, PreviewIsCurrent

\* For any number of changes of any sizes, in whatever order the answers come: a
\* commit begins only for the preview whose box is ticked, what the bar offers to undo
\* belongs to the change on trial, and a notice says of the items what is so when it
\* appears, but for the exceptions that NoticeIsTrue names.
THEOREM ScreenStaysHonest == ScreenSpec => ScreenIsHonest
<1>1. ScreenInv => (\A i \in tsBar : i[1] = tsTrial) /\ NoticeIsTrue(tsSaid)
  BY DEF ScreenInv, BarIsOfTrial
<1>2. ScreenInv /\ [ScreenNext]_tsvars =>
         [\A call \in tsCalls' \ tsCalls :
             call.kind = "commit" /\ call.answer = "none" =>
                /\ call.about = <<tsTicked>> /\ call.about = <<tsGeneration>>
                /\ tsMode = "live"]_tsvars
  BY CommitIsConfirmed
<1> QED BY ScreenInvariant, <1>1, <1>2, PTL DEF ScreenSpec, ScreenIsHonest

-----------------------------------------------------------------------------
(* SettingCaptures *)

BeforeWrite == {"idle", "shown", "valid", "current", "captured", "prepared"}
WithBackup == {"captured", "prepared", "verify", "rest", "classify", "give_back", "confirm"}

\* The parts of a setting.
Places == IF scKind \in {"power_scheme", "watch", "guide"} THEN {1}
          ELSE IF scKind \in {"registry", "color_mode", "shift", "high_contrast", "sleep",
                              "volumes", "launch"} THEN {1, 2}
          ELSE {1, 2, 3}

\* What Windows may hold before anything is written here.
HeldBefore ==
    IF scKind = "power_mode"
    THEN {"calm", "odd", "odder", "none"} \X {"calm", "none"} \X {"calm", "saver"}
    ELSE RawOf(scKind)

IsCapture(saved) == \E r \in RawOf(scKind) : MayCapture(r) /\ saved = Capture(r)

\* What is looked at beyond the saved parts.
IsFit(r, saved) ==
    /\ scKind = "printer" => ~IsManaged(r) /\ r[2] # PrinterTarget /\ r[2] # saved[1]
    /\ scKind = "watch" => IsObserved(r)

\* Nobody has touched the parts that decide, and this program has not written.
IsAsSaved(r, saved) ==
    /\ HasParts(r, saved) /\ IsFit(r, saved)
    /\ scKind = "vpn" => r[3] = "none"

\* Nobody has touched them since this program wrote.
IsAsWanted(r, saved) ==
    /\ IsFit(r, saved)
    /\ scKind # "vpn" => HasParts(r, Wants(saved))
    /\ scKind = "vpn" =>
          r[1] = (IF IsConnected(saved) THEN "theirs" ELSE "mine")
          /\ r[3] = (IF IsConnected(saved) THEN "none" ELSE "held")

\* Actions that replace the parts they saved, and give those back.
ReplacesWhatItSaved == scKind \notin {"vpn", "volumes", "launch"}

Puts(new, r, p) ==
    /\ DOMAIN new = DOMAIN r
    /\ \A i \in DOMAIN r : new[i] = IF i \in DOMAIN p THEN p[i] ELSE r[i]

WritesWhatItWants(r, saved) ==
    LET new == Overwrite(r, saved) IN
    r \in RawOf(scKind) /\ new # NoWrite =>
        /\ DOMAIN new = Places
        /\ new = r \/ HasParts(r, saved)
        /\ ReplacesWhatItSaved => new = r \/ Puts(new, r, Wants(saved))
        /\ IsAsSaved(r, saved) => IsAsWanted(new, saved)

GivesBackWhatItSaved(r, saved) ==
    LET new == GiveBack(r, saved) IN
    /\ new # NoWrite => DOMAIN new = Places
    /\ ReplacesWhatItSaved /\ (scKind = "sleep" => r[1] \in {"yes", "no"}) /\ new # NoWrite =>
          Puts(new, r, saved) /\ IsMixOf(r, saved, Wants(saved))
    /\ IsAsWanted(r, saved) /\ scRecorded => new # NoWrite /\ IsAsSaved(new, saved)

JudgesWhatIs(r, saved) ==
    /\ ReplacesWhatItSaved /\ IsRestored(r, saved) => HasParts(r, saved)
    /\ IsAsSaved(r, saved) => IsRestored(r, saved)
    /\ IsAsWanted(r, saved) => IsApplied(r, saved) \/ IsAsSaved(r, saved)

IsFaithful(r, saved) ==
    /\ DOMAIN saved \subseteq Places
    /\ DOMAIN Wants(saved) = DOMAIN saved
    /\ WritesWhatItWants(r, saved)
    /\ GivesBackWhatItSaved(r, saved)
    /\ JudgesWhatIs(r, saved)

LEMMA PutIfIsPut ==
    ASSUME NEW may, NEW r, NEW p, DOMAIN r # {}
    PROVE  /\ may => PutIf(may, r, p) = Put(r, p)
           /\ PutIf(may, r, p) # NoWrite <=> may
           /\ Puts(Put(r, p), r, p)
<1>1. DOMAIN Put(r, p) = DOMAIN r /\ Puts(Put(r, p), r, p)
  BY DEF Put, Puts
<1>2. DOMAIN NoWrite = {}
  BY DEF NoWrite
<1>3. Put(r, p) # NoWrite
  BY <1>1, <1>2
<1> QED BY <1>1, <1>3 DEF PutIf

\* Whatever is put in the place of saved parts, the rest stays fit.
LEMMA FitStays ==
    ASSUME NEW r, DOMAIN r = Places, NEW saved, NEW p, NEW new, Puts(new, r, p),
           scKind = "printer" => DOMAIN p = {1}, scKind = "watch" => DOMAIN p = {},
           IsFit(r, saved)
    PROVE  IsFit(new, saved)
<1>1. CASE scKind = "printer"
  BY <1>1 DEF Places, Puts, IsFit, IsManaged
<1>2. CASE scKind = "watch"
  BY <1>2 DEF Places, Puts, IsFit, IsObserved
<1> QED BY <1>1, <1>2 DEF IsFit

LEMMA ReplacesPlainly ==
    ASSUME NEW r, DOMAIN r = Places, NEW saved, scKind \notin {"vpn", "volumes", "launch"},
           scKind = "printer" => DOMAIN saved = {1}, scKind = "watch" => DOMAIN saved = {},
           DOMAIN saved \subseteq Places, DOMAIN Wants(saved) = DOMAIN saved,
           NEW may, Overwrite(r, saved) = PutIf(may, r, Wants(saved)),
           r \in RawOf(scKind) => (may => HasParts(r, saved))
    PROVE  WritesWhatItWants(r, saved)
<1> DEFINE new == Overwrite(r, saved)
<1>1. SUFFICES ASSUME r \in RawOf(scKind), new # NoWrite
               PROVE  /\ DOMAIN new = Places /\ HasParts(r, saved)
                      /\ Puts(new, r, Wants(saved))
                      /\ IsAsSaved(r, saved) => IsAsWanted(new, saved)
  BY DEF WritesWhatItWants
<1>2. DOMAIN r # {}
  BY DEF Places
<1>3. may /\ Puts(new, r, Wants(saved))
  BY <1>1, <1>2, PutIfIsPut
<1>4. HasParts(new, Wants(saved)) /\ DOMAIN new = Places
  BY <1>3 DEF Puts, HasParts
<1>5. IsFit(r, saved) => IsFit(new, saved)
  BY <1>3, FitStays
<1> QED BY <1>1, <1>3, <1>4, <1>5 DEF IsAsSaved, IsAsWanted

LEMMA GivesBackPlainly ==
    ASSUME NEW r, DOMAIN r = Places, NEW saved, scKind \notin {"vpn", "volumes", "launch"},
           scKind = "printer" => DOMAIN saved = {1}, scKind = "watch" => DOMAIN saved = {},
           DOMAIN saved \subseteq Places,
           NEW may, GiveBack(r, saved) = PutIf(may, r, saved),
           (scKind = "sleep" => r[1] \in {"yes", "no"}) /\ may => IsMixOf(r, saved, Wants(saved)),
           IsAsWanted(r, saved) /\ scRecorded => may
    PROVE  GivesBackWhatItSaved(r, saved)
<1> DEFINE new == GiveBack(r, saved)
<1>1. DOMAIN r # {}
  BY DEF Places
<1>2. new # NoWrite => may /\ Puts(new, r, saved)
  BY <1>1, PutIfIsPut
<1>3. may => new # NoWrite
  BY <1>1, PutIfIsPut
<1>4. Puts(new, r, saved) => HasParts(new, saved) /\ DOMAIN new = Places
  BY DEF Puts, HasParts
<1>5. Puts(new, r, saved) /\ IsFit(r, saved) => IsFit(new, saved)
  BY FitStays
<1> QED
  BY <1>2, <1>3, <1>4, <1>5 DEF GivesBackWhatItSaved, IsAsSaved, IsAsWanted

LEMMA OneIsMix ==
    ASSUME NEW r, NEW saved, NEW wanted, DOMAIN wanted = DOMAIN saved
    PROVE  /\ IsOneOf(r, saved, wanted) => IsMixOf(r, saved, wanted)
           /\ HasParts(r, wanted) => IsOneOf(r, saved, wanted)
BY DEF IsOneOf, IsMixOf, HasParts

\* An action that writes what it wants over what it saved, and what it saved over that.
LEMMA PlainIsFaithful ==
    ASSUME NEW r, DOMAIN r = Places, NEW saved, scKind \notin {"vpn", "volumes", "launch"},
           scKind = "printer" => DOMAIN saved = {1}, scKind = "watch" => DOMAIN saved = {},
           DOMAIN saved \subseteq Places, DOMAIN Wants(saved) = DOMAIN saved,
           NEW mayWrite, Overwrite(r, saved) = PutIf(mayWrite, r, Wants(saved)),
           r \in RawOf(scKind) => (mayWrite => HasParts(r, saved)),
           NEW mayGive, GiveBack(r, saved) = PutIf(mayGive, r, saved),
           mayGive => IsMixOf(r, saved, Wants(saved)),
           IsAsWanted(r, saved) /\ scRecorded => mayGive,
           IsFit(r, saved) /\ HasParts(r, Wants(saved)) => IsApplied(r, saved),
           IsRestored(r, saved) => HasParts(r, saved),
           IsFit(r, saved) /\ HasParts(r, saved) => IsRestored(r, saved)
    PROVE  IsFaithful(r, saved)
<1>1. WritesWhatItWants(r, saved)
  BY ReplacesPlainly
<1>2. GivesBackWhatItSaved(r, saved)
  BY GivesBackPlainly
<1>3. JudgesWhatIs(r, saved)
  BY DEF JudgesWhatIs, IsAsWanted, IsAsSaved
<1> QED BY <1>1, <1>2, <1>3 DEF IsFaithful

LEMMA RegistryIsFaithful ==
    ASSUME scKind = "registry", NEW r, DOMAIN r = Places, NEW saved, IsCapture(saved)
    PROVE  IsFaithful(r, saved)
<1>1. /\ RawOf(scKind) = RegistryRaw /\ Places = {1, 2}
      /\ \A q : Capture(q) = [i \in DOMAIN q |-> q[i]]
  BY DEF RawOf, Places, Capture, Saves
<1>2. /\ Wants(saved) = RegistryWants(saved)
      /\ Overwrite(r, saved) = OverwriteRegistry(r, saved)
      /\ GiveBack(r, saved) = RegistryGiveBack(r, saved)
      /\ IsApplied(r, saved) <=> RegistryIsApplied(r)
      /\ IsRestored(r, saved) <=> HasParts(r, saved)
  BY DEF Wants, Overwrite, GiveBack, IsApplied, IsRestored
<1>3. DOMAIN saved = {1, 2} /\ DOMAIN Wants(saved) = {1, 2}
  BY <1>1, <1>2 DEF IsCapture, RegistryRaw, RegistryWants
<1>4. HasParts(r, Wants(saved)) => IsApplied(r, saved)
  BY <1>1, <1>2, <1>3 DEF RegistryIsApplied, RegistryLooks, RegistryWants, HasParts
<1> QED
  BY <1>1, <1>2, <1>3, <1>4, OneIsMix, PlainIsFaithful
     DEF OverwriteRegistry, RegistryGiveBack, IsAsWanted

LEMMA ColourIsFaithful ==
    ASSUME scKind = "color_mode", NEW r, DOMAIN r = Places, NEW saved, IsCapture(saved)
    PROVE  IsFaithful(r, saved)
<1>1. /\ RawOf(scKind) = ColourRaw /\ Places = {1, 2}
      /\ \A q : Capture(q) = [i \in DOMAIN q |-> q[i]]
  BY DEF RawOf, Places, Capture, Saves
<1>2. /\ Wants(saved) = ColourWants(saved)
      /\ Overwrite(r, saved) = OverwriteColour(r, saved)
      /\ GiveBack(r, saved) = ColourGiveBack(r, saved)
      /\ IsApplied(r, saved) <=> ColourIsApplied(r)
      /\ IsRestored(r, saved) <=> HasParts(r, saved)
  BY DEF Wants, Overwrite, GiveBack, IsApplied, IsRestored
<1>3. DOMAIN saved = {1, 2} /\ DOMAIN Wants(saved) = {1, 2}
  BY <1>1, <1>2 DEF IsCapture, ColourRaw, ColourWants
<1>4. HasParts(r, Wants(saved)) => IsApplied(r, saved)
  BY <1>1, <1>2, <1>3 DEF ColourIsApplied, ColourLooks, ColourWants, HasParts
<1> QED
  BY <1>1, <1>2, <1>3, <1>4, OneIsMix, PlainIsFaithful
     DEF OverwriteColour, ColourGiveBack, IsAsWanted

LEMMA WindowIsFaithful ==
    ASSUME scKind = "window_color", NEW r, DOMAIN r = Places, NEW saved, IsCapture(saved)
    PROVE  IsFaithful(r, saved)
<1>1. /\ RawOf(scKind) = WindowRaw /\ Places = {1, 2, 3}
      /\ \A q : Capture(q) = [i \in WindowSaves |-> q[i]]
  BY DEF RawOf, Places, Capture, Saves
<1>2. /\ Wants(saved) = WindowWants(saved)
      /\ Overwrite(r, saved) = OverwriteWindow(r, saved)
      /\ GiveBack(r, saved) = WindowGiveBack(r, saved)
      /\ IsApplied(r, saved) <=> WindowIsApplied(r, saved)
      /\ IsRestored(r, saved) <=> HasParts(r, saved)
  BY DEF Wants, Overwrite, GiveBack, IsApplied, IsRestored
<1>3. DOMAIN saved = {2, 3} /\ DOMAIN Wants(saved) = {2, 3}
  BY <1>1, <1>2 DEF IsCapture, WindowRaw, WindowWants, WindowSaves
<1>4. HasParts(r, Wants(saved)) => IsApplied(r, saved)
  BY <1>1, <1>2, <1>3 DEF WindowIsApplied
<1> QED
  BY <1>1, <1>2, <1>3, <1>4, OneIsMix, PlainIsFaithful
     DEF OverwriteWindow, WindowGiveBack, IsAsWanted

LEMMA ShiftIsFaithful ==
    ASSUME scKind = "shift", NEW r, DOMAIN r = Places, NEW saved, IsCapture(saved)
    PROVE  IsFaithful(r, saved)
<1>1. /\ RawOf(scKind) = ShiftRaw /\ Places = {1, 2}
      /\ \A q : Capture(q) = [i \in DOMAIN q |-> q[i]]
  BY DEF RawOf, Places, Capture, Saves
<1>2. /\ Wants(saved) = ShiftWants(saved)
      /\ Overwrite(r, saved) = OverwriteShift(r, saved)
      /\ GiveBack(r, saved) = ShiftGiveBack(r, saved, scRecorded)
      /\ IsApplied(r, saved) <=> HasParts(r, Wants(saved))
      /\ IsRestored(r, saved) <=> HasParts(r, saved)
  BY DEF Wants, Overwrite, GiveBack, IsApplied, IsRestored
<1>3. DOMAIN saved = {1, 2} /\ DOMAIN Wants(saved) = {1, 2}
  BY <1>1, <1>2 DEF IsCapture, ShiftRaw, ShiftWants
<1>4. HasParts(r, Wants(saved)) => IsApplied(r, saved)
  BY <1>1, <1>2, <1>3 DEF ShiftWants
<1>5. ShiftIsOurs(r, saved, scRecorded) => IsMixOf(r, saved, Wants(saved))
  BY <1>2, <1>3, OneIsMix DEF ShiftIsOurs
<1>6. HasParts(r, Wants(saved)) => ShiftIsOurs(r, saved, scRecorded)
  BY <1>2, <1>3, OneIsMix DEF ShiftIsOurs
<1> QED
  BY <1>1, <1>2, <1>3, <1>4, <1>5, <1>6, PlainIsFaithful
     DEF OverwriteShift, ShiftGiveBack, IsAsWanted

LEMMA PointerIsFaithful ==
    ASSUME scKind = "pointer", NEW r, DOMAIN r = Places, NEW saved, IsCapture(saved)
    PROVE  IsFaithful(r, saved)
<1>1. /\ RawOf(scKind) = PointerRaw /\ Places = {1, 2, 3}
      /\ \A q : Capture(q) = [i \in DOMAIN q |-> q[i]]
  BY DEF RawOf, Places, Capture, Saves
<1>2. /\ Wants(saved) = PointerWants(saved)
      /\ Overwrite(r, saved) = OverwritePointer(r, saved)
      /\ GiveBack(r, saved) = PointerGiveBack(r, saved)
      /\ IsApplied(r, saved) <=> PointerIsApplied(r, saved)
      /\ IsRestored(r, saved) <=> HasParts(r, saved)
  BY DEF Wants, Overwrite, GiveBack, IsApplied, IsRestored
<1>3. DOMAIN saved = {1, 2, 3} /\ DOMAIN Wants(saved) = {1, 2, 3}
  BY <1>1, <1>2 DEF IsCapture, PointerRaw, PointerWants
<1>4. HasParts(r, Wants(saved)) => IsApplied(r, saved)
  BY <1>1, <1>2, <1>3 DEF PointerIsApplied
<1> QED
  BY <1>1, <1>2, <1>3, <1>4, OneIsMix, PlainIsFaithful
     DEF OverwritePointer, PointerGiveBack, IsAsWanted

LEMMA PowerIsFaithful ==
    ASSUME scKind = "power_mode", NEW r, DOMAIN r = Places, NEW saved, IsCapture(saved)
    PROVE  IsFaithful(r, saved)
<1>1. /\ RawOf(scKind) = PowerRaw /\ Places = {1, 2, 3}
      /\ \A q : Capture(q) = [i \in PowerSaves |-> q[i]]
  BY DEF RawOf, Places, Capture, Saves
<1>2. /\ Wants(saved) = PowerWants(saved)
      /\ Overwrite(r, saved) = OverwritePower(r, saved)
      /\ GiveBack(r, saved) = PowerGiveBack(r, saved)
      /\ IsApplied(r, saved) <=> PowerIsApplied(r, saved)
      /\ IsRestored(r, saved) <=> HasParts(r, saved)
  BY DEF Wants, Overwrite, GiveBack, IsApplied, IsRestored
<1>3. DOMAIN saved = {1, 2} /\ DOMAIN Wants(saved) = {1, 2}
  BY <1>1, <1>2 DEF IsCapture, PowerRaw, PowerWants, PowerSaves
<1>4. HasParts(r, Wants(saved)) => IsApplied(r, saved)
  BY <1>1, <1>2, <1>3 DEF PowerIsApplied
<1> QED
  BY <1>1, <1>2, <1>3, <1>4, OneIsMix, PlainIsFaithful
     DEF OverwritePower, PowerGiveBack, IsAsWanted

LEMMA PlanIsFaithful ==
    ASSUME scKind = "power_scheme", NEW r, DOMAIN r = Places, NEW saved, IsCapture(saved)
    PROVE  IsFaithful(r, saved)
<1>1. /\ RawOf(scKind) = PlanRaw /\ Places = {1}
      /\ \A q : Capture(q) = [i \in DOMAIN q |-> q[i]]
  BY DEF RawOf, Places, Capture, Saves
<1>2. /\ Wants(saved) = PlanWants(saved)
      /\ Overwrite(r, saved) = OverwritePlan(r, saved)
      /\ GiveBack(r, saved) = PlanGiveBack(r, saved)
      /\ IsApplied(r, saved) <=> PlanIsApplied(r, saved)
      /\ IsRestored(r, saved) <=> HasParts(r, saved)
  BY DEF Wants, Overwrite, GiveBack, IsApplied, IsRestored
<1>3. DOMAIN saved = {1} /\ DOMAIN Wants(saved) = {1}
  BY <1>1, <1>2 DEF IsCapture, PlanRaw, PlanWants
<1>4. HasParts(r, Wants(saved)) => IsApplied(r, saved)
  BY <1>1, <1>2, <1>3 DEF PlanIsApplied
<1> QED
  BY <1>1, <1>2, <1>3, <1>4, OneIsMix, PlainIsFaithful
     DEF OverwritePlan, PlanGiveBack, IsAsWanted

LEMMA ContrastIsFaithful ==
    ASSUME scKind = "high_contrast", NEW r, DOMAIN r = Places, NEW saved, IsCapture(saved)
    PROVE  IsFaithful(r, saved)
<1>1. /\ RawOf(scKind) = ContrastRaw /\ Places = {1, 2}
      /\ \A q : Capture(q) = [i \in DOMAIN q |-> q[i]]
  BY DEF RawOf, Places, Capture, Saves
<1>2. /\ Wants(saved) = ContrastWants(saved)
      /\ Overwrite(r, saved) = OverwriteContrast(r, saved)
      /\ GiveBack(r, saved) = ContrastGiveBack(r, saved)
      /\ IsApplied(r, saved) <=> ContrastIsApplied(r, saved)
      /\ IsRestored(r, saved) <=> HasParts(r, saved)
  BY DEF Wants, Overwrite, GiveBack, IsApplied, IsRestored
<1>3. DOMAIN saved = {1, 2} /\ DOMAIN Wants(saved) = {1, 2}
  BY <1>1, <1>2 DEF IsCapture, ContrastRaw, ContrastWants
<1>4. HasParts(r, Wants(saved)) => IsApplied(r, saved)
  BY <1>1, <1>2, <1>3 DEF ContrastIsApplied
<1>5. WritesWhatItWants(r, saved)
  <2>1. CASE saved[1] = "on"
    <3>1. Overwrite(r, saved) = r /\ (HasParts(r, saved) => HasParts(r, Wants(saved)))
      BY <1>2, <1>3, <2>1 DEF OverwriteContrast, ContrastWants, HasParts
    <3> QED BY <3>1 DEF WritesWhatItWants, IsAsSaved, IsAsWanted
  <2>2. CASE saved[1] # "on"
    BY <1>1, <1>2, <1>3, <2>2, ReplacesPlainly DEF OverwriteContrast
  <2> QED BY <2>1, <2>2
<1>6. GivesBackWhatItSaved(r, saved)
  BY <1>1, <1>2, <1>3, OneIsMix, GivesBackPlainly DEF ContrastGiveBack, IsAsWanted
<1>7. JudgesWhatIs(r, saved)
  BY <1>2, <1>4 DEF JudgesWhatIs, IsAsWanted, IsAsSaved
<1> QED BY <1>1, <1>3, <1>5, <1>6, <1>7 DEF IsFaithful

LEMMA PrinterIsFaithful ==
    ASSUME scKind = "printer", NEW r, DOMAIN r = Places, NEW saved, IsCapture(saved)
    PROVE  IsFaithful(r, saved)
<1>1. /\ RawOf(scKind) = PrinterRaw /\ Places = {1, 2, 3}
      /\ \A q : Capture(q) = [i \in PrinterSaves |-> q[i]]
  BY DEF RawOf, Places, Capture, Saves
<1>2. /\ Wants(saved) = PrinterWants
      /\ Overwrite(r, saved) = OverwritePrinter(r, saved)
      /\ GiveBack(r, saved) = PrinterGiveBack(r, saved)
      /\ IsApplied(r, saved) <=> PrinterIs(r, PrinterWants)
      /\ IsRestored(r, saved) <=> PrinterIs(r, saved)
  BY DEF Wants, Overwrite, GiveBack, IsApplied, IsRestored
<1>3. DOMAIN saved = {1} /\ DOMAIN Wants(saved) = {1}
  BY <1>1, <1>2 DEF IsCapture, PrinterRaw, PrinterWants, PrinterSaves
<1>4. /\ IsFit(r, saved) /\ HasParts(r, Wants(saved)) =>
            PrinterIs(r, Wants(saved)) /\ r[2] # saved[1]
      /\ \A p : PrinterIs(r, p) => HasParts(r, p)
      /\ IsFit(r, saved) /\ HasParts(r, saved) => PrinterIs(r, saved)
  BY DEF PrinterIs, IsFit
<1> QED
  BY <1>1, <1>2, <1>3, <1>4, OneIsMix, PlainIsFaithful
     DEF OverwritePrinter, PrinterGiveBack, IsAsWanted

LEMMA MicrophoneIsFaithful ==
    ASSUME scKind = "microphone", NEW r, DOMAIN r = Places, NEW saved, IsCapture(saved)
    PROVE  IsFaithful(r, saved)
<1>1. /\ RawOf(scKind) = MicrophoneRaw /\ Places = {1, 2, 3}
      /\ \A q : Capture(q) = [i \in MicrophoneSaves(q) |-> q[i]]
  BY DEF RawOf, Places, Capture, Saves
<1>2. /\ Wants(saved) = MicrophoneWants(saved)
      /\ Overwrite(r, saved) = OverwriteMicrophone(r, saved)
      /\ GiveBack(r, saved) = MicrophoneGiveBack(r, saved)
      /\ IsApplied(r, saved) <=> MicrophoneIsApplied(r, saved)
      /\ IsRestored(r, saved) <=> HasParts(r, saved)
  BY DEF Wants, Overwrite, GiveBack, IsApplied, IsRestored
<1>3. DOMAIN saved \subseteq Places /\ DOMAIN Wants(saved) = DOMAIN saved
  BY <1>1, <1>2 DEF IsCapture, MicrophoneWants, MicrophoneSaves, DefaultMicrophone
<1>4. HasParts(r, Wants(saved)) => IsApplied(r, saved)
  BY <1>1, <1>2, <1>3 DEF MicrophoneIsApplied
<1>5. WritesWhatItWants(r, saved)
  BY <1>1, <1>2, <1>3, ReplacesPlainly DEF OverwriteMicrophone
<1>6. GivesBackWhatItSaved(r, saved)
  BY <1>1, <1>2, <1>3, OneIsMix, GivesBackPlainly DEF MicrophoneGiveBack, IsAsWanted
<1>7. JudgesWhatIs(r, saved)
  BY <1>2, <1>4 DEF JudgesWhatIs, IsAsWanted, IsAsSaved
<1> QED BY <1>1, <1>3, <1>5, <1>6, <1>7 DEF IsFaithful

LEMMA SleepIsFaithful ==
    ASSUME scKind = "sleep", NEW r, DOMAIN r = Places, NEW saved, IsCapture(saved)
    PROVE  IsFaithful(r, saved)
<1>1. /\ RawOf(scKind) = SleepRaw /\ Places = {1, 2}
      /\ \A q : Capture(q) = [i \in SleepSaves |-> q[i]]
  BY DEF RawOf, Places, Capture, Saves
<1>2. /\ Wants(saved) = SleepWants
      /\ Overwrite(r, saved) = OverwriteSleep(r)
      /\ GiveBack(r, saved) = SleepGiveBack(r, saved)
      /\ IsApplied(r, saved) <=> SleepIsApplied(r)
      /\ IsRestored(r, saved) <=> HasParts(r, saved)
  BY DEF Wants, Overwrite, GiveBack, IsApplied, IsRestored
<1>3. /\ DOMAIN saved = {1} /\ saved[1] = "no"
      /\ DOMAIN Wants(saved) = {1} /\ Wants(saved)[1] = "yes"
  BY <1>1, <1>2 DEF IsCapture, SleepRaw, SleepWants, SleepSaves
<1>4. WritesWhatItWants(r, saved)
  <2>1. r \in RawOf(scKind) => HasParts(r, saved)
    BY <1>1, <1>3 DEF SleepRaw, HasParts
  <2>2. Overwrite(r, saved) = PutIf(TRUE, r, Wants(saved))
    BY <1>2 DEF OverwriteSleep, PutIf
  <2> QED BY <1>1, <1>3, <2>1, <2>2, ReplacesPlainly
<1>5. GivesBackWhatItSaved(r, saved)
  <2>1. r[1] \in {"yes", "no"} => IsMixOf(r, saved, Wants(saved))
    BY <1>3 DEF IsMixOf
  <2>2. GiveBack(r, saved) = PutIf(TRUE, r, saved)
    BY <1>2 DEF SleepGiveBack, PutIf
  <2> QED BY <1>1, <1>3, <2>1, <2>2, GivesBackPlainly
<1>6. JudgesWhatIs(r, saved)
  BY <1>2 DEF JudgesWhatIs, SleepIsApplied, IsAsWanted, IsAsSaved
<1> QED BY <1>1, <1>3, <1>4, <1>5, <1>6 DEF IsFaithful

LEMMA WatchIsFaithful ==
    ASSUME scKind = "watch", NEW r, DOMAIN r = Places, NEW saved, IsCapture(saved)
    PROVE  IsFaithful(r, saved)
<1>1. Places = {1} /\ \A q : Capture(q) = [i \in {} |-> q[i]]
  BY DEF Places, Capture, Saves
<1>2. /\ Wants(saved) = saved
      /\ Overwrite(r, saved) = OverwriteWatch(r)
      /\ GiveBack(r, saved) = WatchGiveBack(r)
      /\ IsApplied(r, saved) <=> IsObserved(r)
      /\ IsRestored(r, saved) <=> IsObserved(r)
  BY DEF Wants, Overwrite, GiveBack, IsApplied, IsRestored
<1>3. DOMAIN saved = {} /\ HasParts(r, saved)
  BY <1>1 DEF IsCapture, HasParts
<1>4. WritesWhatItWants(r, saved)
  BY <1>2, <1>3 DEF WritesWhatItWants, OverwriteWatch, IsAsSaved, IsAsWanted
<1>5. GivesBackWhatItSaved(r, saved)
  <2>1. r # NoWrite
    BY <1>1 DEF NoWrite
  <2>2. IsMixOf(r, saved, Wants(saved)) /\ Puts(r, r, saved)
    BY <1>3 DEF IsMixOf, Puts
  <2> QED
    BY <1>2, <1>3, <2>1, <2>2
       DEF GivesBackWhatItSaved, WatchGiveBack, IsAsSaved, IsAsWanted, IsFit
<1>6. JudgesWhatIs(r, saved)
  BY <1>2, <1>3 DEF JudgesWhatIs, IsAsWanted, IsAsSaved, IsFit
<1> QED BY <1>1, <1>2, <1>3, <1>4, <1>5, <1>6 DEF IsFaithful

LEMMA VpnIsFaithful ==
    ASSUME scKind = "vpn", NEW r, DOMAIN r = Places, NEW saved, IsCapture(saved)
    PROVE  IsFaithful(r, saved)
<1>1. /\ RawOf(scKind) = VpnRaw /\ Places = {1, 2, 3}
      /\ \A q : Capture(q) = [i \in VpnSaves |-> q[i]]
      /\ \A q : MayCapture(q) => IsRegistered(q)
  BY DEF RawOf, Places, Capture, Saves, MayCapture, MayStart
<1>2. /\ Wants(saved) = saved
      /\ Overwrite(r, saved) = OverwriteVpn(r, saved)
      /\ GiveBack(r, saved) = VpnGiveBack(r, saved)
      /\ IsApplied(r, saved) <=> VpnIsApplied(r, saved)
      /\ IsRestored(r, saved) <=> VpnIsRestored(r, saved)
  BY DEF Wants, Overwrite, GiveBack, IsApplied, IsRestored
<1>3. /\ DOMAIN saved = {1} /\ saved[1] \in {"down", "theirs"}
      /\ IsConnected(saved) <=> saved[1] = "theirs"
  BY <1>1 DEF IsCapture, VpnRaw, VpnSaves, IsRegistered, IsConnected
<1>4. ~ReplacesWhatItSaved /\ \A q : IsFit(q, saved)
  BY DEF ReplacesWhatItSaved, IsFit
<1>5. WritesWhatItWants(r, saved)
  BY <1>1, <1>2, <1>3, <1>4
     DEF WritesWhatItWants, OverwriteVpn, VpnRaw, IsConnected, IsRegistered, HasParts,
         IsAsSaved, IsAsWanted, NoWrite
<1>6. GivesBackWhatItSaved(r, saved)
  BY <1>1, <1>2, <1>3, <1>4
     DEF GivesBackWhatItSaved, VpnGiveBack, IsConnected, HasParts, IsAsSaved, IsAsWanted,
         NoWrite
<1>7. JudgesWhatIs(r, saved)
  BY <1>2, <1>3, <1>4
     DEF JudgesWhatIs, VpnIsApplied, VpnIsRestored, IsConnected, HasParts, IsAsSaved,
         IsAsWanted
<1> QED BY <1>1, <1>2, <1>3, <1>5, <1>6, <1>7 DEF IsFaithful

LEMMA VolumesAreFaithful ==
    ASSUME scKind = "volumes", NEW r, DOMAIN r = Places, NEW saved, IsCapture(saved)
    PROVE  IsFaithful(r, saved)
<1>1. /\ RawOf(scKind) = VolumeRaw /\ Places = {1, 2}
      /\ \A q : Capture(q) = [i \in Playing(q) |-> q[i]]
  BY DEF RawOf, Places, Capture, Saves
<1>2. /\ Wants(saved) = saved
      /\ Overwrite(r, saved) = OverwriteVolume(r, saved)
      /\ GiveBack(r, saved) = VolumeGiveBack(r, saved)
      /\ IsApplied(r, saved)
      /\ IsRestored(r, saved) <=> VolumeIsRestored(r, saved)
  BY DEF Wants, Overwrite, GiveBack, IsApplied, IsRestored
<1>3. DOMAIN saved \subseteq {1, 2} /\ \A i \in DOMAIN saved : saved[i] # "gone"
  <2>1. PICK q \in VolumeRaw : saved = [i \in Playing(q) |-> q[i]]
    BY <1>1 DEF IsCapture
  <2> QED BY <2>1 DEF VolumeRaw, Playing
<1>4. ~ReplacesWhatItSaved /\ \A q : IsFit(q, saved)
  BY DEF ReplacesWhatItSaved, IsFit
<1>5. WritesWhatItWants(r, saved)
  BY <1>2, <1>4 DEF WritesWhatItWants, OverwriteVolume, IsAsSaved, IsAsWanted
<1>6. GivesBackWhatItSaved(r, saved)
  <2> DEFINE new == GiveBack(r, saved)
  <2>1. new # NoWrite /\ Puts(new, r, StillPlaying(r, saved))
    BY <1>1, <1>2, PutIfIsPut DEF VolumeGiveBack, PutIf
  <2>2. HasParts(r, saved) => HasParts(new, saved)
    BY <1>1, <1>3, <2>1 DEF Puts, StillPlaying, Playing, HasParts
  <2> QED
    BY <1>1, <1>2, <1>4, <2>1, <2>2
       DEF GivesBackWhatItSaved, Puts, IsAsSaved, IsAsWanted
<1>7. JudgesWhatIs(r, saved)
  BY <1>2, <1>4
     DEF JudgesWhatIs, VolumeIsRestored, StillPlaying, HasParts, IsAsSaved, IsAsWanted
<1> QED BY <1>1, <1>2, <1>3, <1>5, <1>6, <1>7 DEF IsFaithful

LEMMA LaunchIsFaithful ==
    ASSUME scKind = "launch", NEW r, DOMAIN r = Places, NEW saved, IsCapture(saved)
    PROVE  IsFaithful(r, saved)
<1>1. Places = {1, 2} /\ \A q : Capture(q) = [i \in {} |-> q[i]]
  BY DEF Places, Capture, Saves
<1>2. /\ Wants(saved) = saved
      /\ Overwrite(r, saved) = OverwriteLaunch(r)
      /\ GiveBack(r, saved) = r
      /\ IsRestored(r, saved) <=> HasParts(r, saved)
  BY DEF Wants, Overwrite, GiveBack, LaunchGiveBack, IsRestored
<1>3. DOMAIN saved = {} /\ \A q : HasParts(q, saved)
  BY <1>1 DEF IsCapture, HasParts
<1>4. ~ReplacesWhatItSaved /\ \A q : IsFit(q, saved)
  BY DEF ReplacesWhatItSaved, IsFit
<1>5. WritesWhatItWants(r, saved)
  BY <1>1, <1>2, <1>3, <1>4, PutIfIsPut
     DEF WritesWhatItWants, OverwriteLaunch, Puts, IsAsWanted
<1>6. GivesBackWhatItSaved(r, saved)
  <2>1. r # NoWrite
    BY <1>1 DEF NoWrite
  <2> QED
    BY <1>1, <1>2, <1>3, <1>4, <2>1 DEF GivesBackWhatItSaved, IsAsSaved
<1>7. JudgesWhatIs(r, saved)
  BY <1>2, <1>3, <1>4 DEF JudgesWhatIs, IsAsSaved
<1> QED BY <1>1, <1>2, <1>3, <1>5, <1>6, <1>7 DEF IsFaithful

\* Every action that may be captured is faithful, whatever Windows holds by then.
LEMMA AllAreFaithful ==
    ASSUME scKind \in CaptureKinds, NEW r, DOMAIN r = Places, NEW saved, IsCapture(saved)
    PROVE  IsFaithful(r, saved)
<1>1. scKind # "guide"
  BY DEF IsCapture, MayCapture, MayStart, GuideRefuses
<1> QED
  BY <1>1, RegistryIsFaithful, ColourIsFaithful, WindowIsFaithful, ShiftIsFaithful,
     PointerIsFaithful, PowerIsFaithful, PlanIsFaithful, ContrastIsFaithful,
     PrinterIsFaithful, MicrophoneIsFaithful, SleepIsFaithful, WatchIsFaithful,
     VpnIsFaithful, VolumesAreFaithful, LaunchIsFaithful DEF CaptureKinds

LEMMA KindStays ==
    ASSUME scKind' = scKind
    PROVE  /\ Places' = Places /\ HeldBefore' = HeldBefore
           /\ \A r : Looks(r)' = Looks(r) /\ (IsVisible(r)' <=> IsVisible(r))
           /\ \A s : (IsCapture(s)' <=> IsCapture(s)) /\ Wants(s)' = Wants(s)
           /\ \A r, s : /\ IsAsSaved(r, s)' <=> IsAsSaved(r, s)
                        /\ IsAsWanted(r, s)' <=> IsAsWanted(r, s)
<1>1. Places' = Places
  BY DEF Places
<1>2. HeldBefore' = HeldBefore
  BY DEF HeldBefore
<1>3. \A r : Looks(r)' = Looks(r)
  BY DEF Looks
<1>4. \A r : IsVisible(r)' <=> IsVisible(r)
  BY <1>3 DEF IsVisible
<1>5. \A s : Wants(s)' = Wants(s)
  BY DEF Wants
<1>6. \A s : IsCapture(s)' <=> IsCapture(s)
  <2>1. \A r : Capture(r)' = Capture(r)
    BY DEF Capture, Saves
  <2>2. \A r : MayCapture(r)' <=> MayCapture(r)
    BY <1>4 DEF MayCapture, MayStart
  <2> QED BY <2>1, <2>2 DEF IsCapture
<1>7. \A r, s : IsFit(r, s)' <=> IsFit(r, s)
  BY DEF IsFit
<1>8. \A r, s : IsAsSaved(r, s)' <=> IsAsSaved(r, s)
  BY <1>7 DEF IsAsSaved
<1>9. \A r, s : IsAsWanted(r, s)' <=> IsAsWanted(r, s)
  BY <1>5, <1>7 DEF IsAsWanted
<1> QED BY <1>1, <1>2, <1>3, <1>4, <1>5, <1>6, <1>8, <1>9

\* One part of a tuple is replaced by a value of that part.
LEMMA TripleStays ==
    ASSUME NEW A, NEW B, NEW C, NEW r \in A \X B \X C, NEW i \in DOMAIN r, NEW v,
           v \in {q[i] : q \in A \X B \X C}
    PROVE  [r EXCEPT ![i] = v] \in A \X B \X C
<1> DEFINE new == [r EXCEPT ![i] = v]
<1>1. DOMAIN r = 1..3 /\ r[1] \in A /\ r[2] \in B /\ r[3] \in C
  OBVIOUS
<1>2. new[1] \in A /\ new[2] \in B /\ new[3] \in C
  BY <1>1
<1>3. new = <<new[1], new[2], new[3]>>
  BY <1>1
<1> QED BY <1>2, <1>3

LEMMA PairStays ==
    ASSUME NEW A, NEW B, NEW r \in A \X B, NEW i \in DOMAIN r, NEW v,
           v \in {q[i] : q \in A \X B}
    PROVE  [r EXCEPT ![i] = v] \in A \X B
<1> DEFINE new == [r EXCEPT ![i] = v]
<1>1. DOMAIN r = 1..2 /\ r[1] \in A /\ r[2] \in B
  OBVIOUS
<1>2. new[1] \in A /\ new[2] \in B
  BY <1>1
<1>3. new = <<new[1], new[2]>>
  BY <1>1
<1> QED BY <1>2, <1>3

LEMMA HeldHasPlaces ==
    ASSUME scKind \in CaptureKinds, NEW r \in HeldBefore
    PROVE  DOMAIN r = Places
BY DEF CaptureKinds, HeldBefore, RawOf, Places, RegistryRaw, ColourRaw, WindowRaw, ShiftRaw,
       PointerRaw, PlanRaw, ContrastRaw, PrinterRaw, MicrophoneRaw, SleepRaw, VpnRaw,
       VolumeRaw, WatchRaw, GuideRaw, LaunchRaw

\* What others write leaves a setting that is possible.
LEMMA HeldStays ==
    ASSUME scKind \in CaptureKinds, NEW r \in HeldBefore, NEW i \in DOMAIN r, NEW v,
           v \in {q[i] : q \in RawOf(scKind)}, Possible([r EXCEPT ![i] = v])
    PROVE  [r EXCEPT ![i] = v] \in HeldBefore
<1> DEFINE new == [r EXCEPT ![i] = v]
<1>1. CASE scKind = "registry"
  <2>1. HeldBefore = RegistryRaw /\ RawOf(scKind) = RegistryRaw
    BY <1>1 DEF HeldBefore, RawOf
  <2>2. /\ RegistryRaw \subseteq {"present", "gone"} \X {"absent", "off", "on", "odd", "odder"}
        /\ \A q \in {"present", "gone"} \X {"absent", "off", "on", "odd", "odder"} :
              q[1] = "present" \/ q[2] = "absent" => q \in RegistryRaw
    BY DEF RegistryRaw
  <2>3. new \in {"present", "gone"} \X {"absent", "off", "on", "odd", "odder"}
    <3>1. v \in {q[i] : q \in {"present", "gone"} \X {"absent", "off", "on", "odd", "odder"}}
      BY <2>1, <2>2
    <3> QED BY <2>1, <2>2, <3>1, PairStays
  <2> QED BY <1>1, <2>1, <2>2, <2>3 DEF Possible
<1>2. CASE scKind = "printer"
  <2> DEFINE all == {"office", "home", "photo"} \X {"none", "office", "home"} \X {"yes", "no"}
  <2>1. /\ HeldBefore = PrinterRaw /\ RawOf(scKind) = PrinterRaw
        /\ PrinterRaw = {q \in all : q[1] # q[2]}
    BY <1>2 DEF HeldBefore, RawOf, PrinterRaw
  <2>2. v \in {q[i] : q \in all} /\ r \in all
    BY <2>1
  <2>3. new \in all
    BY <2>2, TripleStays
  <2> QED BY <1>2, <2>1, <2>3 DEF Possible
<1>3. CASE scKind = "power_mode"
  <2> DEFINE all == {"calm", "odd", "odder", "none"} \X {"calm", "none"} \X {"calm", "saver"}
  <2>1. HeldBefore = all /\ RawOf(scKind) \subseteq all
    BY <1>3 DEF HeldBefore, RawOf, PowerRaw
  <2>2. v \in {q[i] : q \in all}
    BY <2>1
  <2> QED BY <2>1, <2>2, TripleStays
<1>4. CASE scKind \in {"window_color", "pointer", "microphone", "vpn"}
  <2>1. HeldBefore = RawOf(scKind)
    BY <1>4 DEF HeldBefore
  <2>2. CASE scKind = "window_color"
    BY <2>1, <2>2, TripleStays DEF RawOf, WindowRaw
  <2>3. CASE scKind = "pointer"
    BY <2>1, <2>3, TripleStays DEF RawOf, PointerRaw
  <2>4. CASE scKind = "microphone"
    BY <2>1, <2>4, TripleStays DEF RawOf, MicrophoneRaw
  <2>5. CASE scKind = "vpn"
    BY <2>1, <2>5, TripleStays DEF RawOf, VpnRaw
  <2> QED BY <1>4, <2>2, <2>3, <2>4, <2>5
<1>5. CASE scKind \in {"color_mode", "shift", "high_contrast", "sleep", "volumes", "launch"}
  <2>1. HeldBefore = RawOf(scKind)
    BY <1>5 DEF HeldBefore
  <2>2. CASE scKind = "color_mode"
    BY <2>1, <2>2, PairStays DEF RawOf, ColourRaw
  <2>3. CASE scKind = "shift"
    BY <2>1, <2>3, PairStays DEF RawOf, ShiftRaw
  <2>4. CASE scKind = "high_contrast"
    BY <2>1, <2>4, PairStays DEF RawOf, ContrastRaw
  <2>5. CASE scKind = "sleep"
    BY <2>1, <2>5, PairStays DEF RawOf, SleepRaw
  <2>6. CASE scKind = "volumes"
    BY <2>1, <2>6, PairStays DEF RawOf, VolumeRaw
  <2>7. CASE scKind = "launch"
    BY <2>1, <2>7, PairStays DEF RawOf, LaunchRaw
  <2> QED BY <1>5, <2>2, <2>3, <2>4, <2>5, <2>6, <2>7
<1>6. CASE scKind \in {"power_scheme", "watch", "guide"}
  <2>1. HeldBefore = RawOf(scKind) /\ DOMAIN r = {1}
    BY <1>6, HeldHasPlaces DEF HeldBefore, Places
  <2>2. PICK q \in RawOf(scKind) : v = q[1]
    BY <2>1
  <2>3. DOMAIN q = {1}
    BY <1>6, <2>1, HeldHasPlaces DEF Places
  <2>4. q = <<q[1]>>
    BY <1>6 DEF RawOf, PlanRaw, WatchRaw, GuideRaw
  <2>5. r = <<r[1]>>
    BY <1>6, <2>1 DEF RawOf, PlanRaw, WatchRaw, GuideRaw
  <2>6. new = <<v>>
    BY <2>1, <2>5
  <2> QED BY <2>1, <2>2, <2>4, <2>6
<1> QED BY <1>1, <1>2, <1>3, <1>4, <1>5, <1>6 DEF CaptureKinds

\* What is known of every state.  Before the write nothing of this program is there.
CaptureIsKnown ==
    /\ scKind \in CaptureKinds /\ scOthers \in Nat
    /\ DOMAIN scRaw = Places /\ DOMAIN scWithout = Places
    /\ scPc \in BeforeWrite =>
          scRaw \in HeldBefore /\ scWithout = scRaw /\ scReplaced = NoWrite
    /\ scPc \in BeforeWrite \ {"idle"} /\ scKind = "power_mode" => ~PowerIsUnavailable(scRaw)
    /\ scPc \in {"idle", "shown", "valid", "current", "captured"} => scItem = "none"
    /\ scPc \in WithBackup => IsCapture(scSaved)
    /\ scKind = "sleep" => scRaw[1] \in {"yes", "no"}

\* As long as nobody touched what decides, it is what was saved or what was wanted.
UntouchedIsOurs ==
    scTouched \intersect Decisive = {} =>
        /\ scItem # "RECOVERY"
        /\ scPc \in {"captured", "prepared", "confirm"} => IsAsSaved(scRaw, scSaved)
        /\ scPc \in {"verify", "rest", "give_back"} => IsAsWanted(scRaw, scSaved)
        /\ scPc \in {"rest", "give_back"} => scRecorded
        /\ scPc = "classify" =>
              IsAsSaved(scRaw, scSaved) \/ (scRecorded /\ IsAsWanted(scRaw, scSaved))

\* Where Windows holds something else than it would without this program, one of the
\* two is the original and the other what this program wanted.
OnlyOurPartsDiffer ==
    scPc \in WithBackup /\ ReplacesWhatItSaved =>
        \A i \in Places :
           scRaw[i] # scWithout[i] =>
              /\ i \in DOMAIN scSaved
              /\ scRaw[i] \in {scSaved[i], Wants(scSaved)[i]}
              /\ scWithout[i] \in {scSaved[i], Wants(scSaved)[i]}

\* A connection differs only where this program made it.
OnlyOurConnectionDiffers ==
    scPc \in WithBackup /\ scKind = "vpn" =>
        /\ scRaw[1] # scWithout[1] =>
              scRaw[1] = "mine" /\ scWithout[1] = "down" /\ scSaved[1] = "down"
        /\ scRaw[2] = scWithout[2] /\ scWithout[3] = "none" /\ scWithout[1] # "mine"
        /\ scRaw[1] = "mine" \/ scRaw[3] # "none" => scSaved[1] = "down"

Shows(r) == scShown = <<Looks(r)>>

IsForeseen == \E r \in RawOf(scKind) : Shows(r) /\ HasParts(r, scSaved)

\* How many writes of others a backup takes that does not fit its preview.
BackupIsForeseen ==
    /\ scPc \in BeforeWrite \ {"idle"} => \E r \in RawOf(scKind) : Shows(r)
    /\ scPc = "current" => Shows(scRaw) \/ scOthers >= 1
    /\ scPc = "captured" =>
          IsForeseen \/ (scOthers >= 1 /\ ~Shows(scRaw)) \/ scOthers >= 2
    /\ scPc = "prepared" =>
          IsForeseen \/ (scOthers >= 2 /\ ~HasParts(scRaw, scSaved)) \/ scOthers >= 3
    /\ scReplaced # NoWrite =>
          (IsForeseen \/ scOthers >= 3) /\ HasParts(scReplaced, scSaved)

RestoredIsAccounted ==
    /\ scItem = "ROLLED_BACK" => scPc = "end"
    /\ scItem = "ROLLED_BACK" /\ scKind \notin {"volumes", "launch"} =>
          \A i \in DOMAIN scRaw :
             scRaw[i] # scWithout[i] =>
                i \in DOMAIN scSaved /\ scWithout[i] = Wants(scSaved)[i]

CapturesInv ==
    /\ CaptureIsKnown /\ UntouchedIsOurs /\ OnlyOurPartsDiffer /\ OnlyOurConnectionDiffers
    /\ BackupIsForeseen /\ RestoredIsAccounted

LEMMA CapturesInitially == CapturesInit => CapturesInv
<1> SUFFICES ASSUME CapturesInit PROVE CapturesInv
  OBVIOUS
<1> USE DEF CapturesInit
<1>1. scRaw \in HeldBefore
  <2>1. CASE scKind = "power_mode"
    BY <2>1 DEF HeldBefore, RawOf, PowerRaw
  <2>2. CASE scKind # "power_mode"
    BY <2>2 DEF HeldBefore
  <2> QED BY <2>1, <2>2
<1>2. DOMAIN scRaw = Places
  BY <1>1, HeldHasPlaces
<1>3. scKind = "sleep" => scRaw[1] \in {"yes", "no"}
  BY DEF RawOf, SleepRaw
<1>4. CaptureIsKnown
  BY <1>1, <1>2, <1>3 DEF CaptureIsKnown, BeforeWrite, WithBackup
<1>5. UntouchedIsOurs
  BY DEF UntouchedIsOurs
<1>6. OnlyOurPartsDiffer /\ OnlyOurConnectionDiffers
  BY DEF OnlyOurPartsDiffer, OnlyOurConnectionDiffers, WithBackup
<1>7. BackupIsForeseen
  BY DEF BackupIsForeseen, BeforeWrite, NoWrite
<1>8. RestoredIsAccounted
  BY DEF RestoredIsAccounted
<1> QED BY <1>4, <1>5, <1>6, <1>7, <1>8 DEF CapturesInv

\* A setting that may be changed is one that Windows is known to have.
LEMMA KnownIsRaw ==
    ASSUME CaptureIsKnown, scPc \in BeforeWrite \ {"idle"}
    PROVE  scRaw \in RawOf(scKind)
<1>1. CASE scKind = "power_mode"
  BY <1>1 DEF CaptureIsKnown, HeldBefore, RawOf, PowerRaw, PowerIsUnavailable, BeforeWrite
<1>2. CASE scKind # "power_mode"
  BY <1>2 DEF CaptureIsKnown, HeldBefore, BeforeWrite
<1> QED BY <1>1, <1>2

\* What is as it was in the parts that decide is as it was.
LEMMA SameDecides ==
    ASSUME NEW r, DOMAIN r = Places, NEW new, NEW saved, DOMAIN saved \subseteq Places,
           \A j \in Places : new[j] = r[j] \/ j \notin DOMAIN saved,
           scKind \in {"printer", "watch"} => \A j \in Places : new[j] = r[j],
           scKind = "vpn" => DOMAIN saved = {1} /\ new[3] = r[3],
           DOMAIN Wants(saved) = DOMAIN saved
    PROVE  /\ IsAsSaved(r, saved) => IsAsSaved(new, saved)
           /\ IsAsWanted(r, saved) => IsAsWanted(new, saved)
<1>1. IsFit(r, saved) => IsFit(new, saved)
  BY DEF IsFit, IsManaged, IsObserved, Places
<1>2. HasParts(r, saved) => HasParts(new, saved)
  BY DEF HasParts
<1>3. HasParts(r, Wants(saved)) => HasParts(new, Wants(saved))
  BY DEF HasParts
<1>4. IsAsSaved(r, saved) => IsAsSaved(new, saved)
  BY <1>1, <1>2 DEF IsAsSaved
<1>5. scKind = "vpn" => new[1] = r[1]
  BY DEF Places
<1>6. IsAsWanted(r, saved) => IsAsWanted(new, saved)
  BY <1>1, <1>3, <1>5 DEF IsAsWanted
<1> QED BY <1>4, <1>6

\* What others write is accounted to them.
LEMMA OthersKeepCaptures ==
    ASSUME CapturesInv, OthersWriteSetting
    PROVE  CapturesInv'
<1> USE DEF CapturesInv
<1>0. PICK i \in DOMAIN scRaw : \E v \in {r[i] : r \in RawOf(scKind)} \ {scRaw[i]} :
         /\ IsOpenToOthers(i) /\ Possible([scRaw EXCEPT ![i] = v])
         /\ scKind = "power_mode" => v # "none"
         /\ scRaw' = [scRaw EXCEPT ![i] = v]
         /\ scWithout' = [scWithout EXCEPT ![i] = v]
         /\ scTouched' = IF HasBackup THEN scTouched \union {i} ELSE {}
  BY DEF OthersWriteSetting
<1>1. PICK v \in {r[i] : r \in RawOf(scKind)} \ {scRaw[i]} :
         /\ IsOpenToOthers(i) /\ Possible([scRaw EXCEPT ![i] = v])
         /\ scKind = "power_mode" => v # "none"
         /\ scRaw' = [scRaw EXCEPT ![i] = v]
         /\ scWithout' = [scWithout EXCEPT ![i] = v]
         /\ scTouched' = IF HasBackup THEN scTouched \union {i} ELSE {}
  BY <1>0
<1>2. /\ scPc # "end" /\ scOthers' = scOthers + 1 /\ scKind' = scKind
      /\ UNCHANGED <<scPc, scShown, scSaved, scItem, scRecorded, scReplaced>>
  BY DEF OthersWriteSetting
<1>3. /\ Places' = Places /\ HeldBefore' = HeldBefore
      /\ \A r : Looks(r)' = Looks(r)
      /\ \A s : (IsCapture(s)' <=> IsCapture(s)) /\ Wants(s)' = Wants(s)
      /\ \A r, s : /\ IsAsSaved(r, s)' <=> IsAsSaved(r, s)
                   /\ IsAsWanted(r, s)' <=> IsAsWanted(r, s)
  BY <1>2, KindStays
<1>4. /\ i \in Places /\ DOMAIN scRaw' = Places /\ DOMAIN scWithout' = Places
      /\ scRaw'[i] = v /\ scWithout'[i] = v
      /\ \A j \in Places \ {i} : scRaw'[j] = scRaw[j] /\ scWithout'[j] = scWithout[j]
  BY <1>1 DEF CaptureIsKnown
<1>5. CaptureIsKnown'
  <2>1. scPc \in BeforeWrite => scRaw' \in HeldBefore
    BY <1>1, HeldStays DEF CaptureIsKnown
  <2>2. scPc \in BeforeWrite => scWithout' = scRaw'
    BY <1>1 DEF CaptureIsKnown
  <2>3. scPc \in BeforeWrite \ {"idle"} /\ scKind = "power_mode"
           => ~PowerIsUnavailable(scRaw')
    BY <1>1, <1>4 DEF CaptureIsKnown, PowerIsUnavailable, Places
  <2>4. scKind = "sleep" => scRaw'[1] \in {"yes", "no"}
    BY <1>1, <1>4 DEF CaptureIsKnown, IsOpenToOthers, Places
  <2> QED
    BY <1>2, <1>3, <1>4, <2>1, <2>2, <2>3, <2>4 DEF CaptureIsKnown, BeforeWrite, WithBackup
<1>6. UntouchedIsOurs'
  <2> SUFFICES ASSUME (scTouched \intersect Decisive = {})'
               PROVE  (/\ scItem # "RECOVERY"
                       /\ scPc \in {"captured", "prepared", "confirm"} =>
                             IsAsSaved(scRaw, scSaved)
                       /\ scPc \in {"verify", "rest", "give_back"} =>
                             IsAsWanted(scRaw, scSaved)
                       /\ scPc \in {"rest", "give_back"} => scRecorded
                       /\ scPc = "classify" =>
                             IsAsSaved(scRaw, scSaved)
                             \/ (scRecorded /\ IsAsWanted(scRaw, scSaved)))'
    BY DEF UntouchedIsOurs
  <2>1. CASE ~HasBackup
    BY <1>2, <2>1 DEF HasBackup, CaptureIsKnown
  <2>2. CASE HasBackup
    <3>1. Decisive' = Decisive
      BY <1>2, <1>4 DEF Decisive, CaptureIsKnown
    <3>2. scTouched \intersect Decisive = {} /\ i \notin Decisive
      BY <1>1, <2>2, <3>1
    <3>3. scPc \in WithBackup => 
            /\ IsAsSaved(scRaw, scSaved) => IsAsSaved(scRaw', scSaved)
            /\ IsAsWanted(scRaw, scSaved) => IsAsWanted(scRaw', scSaved)
      <4>1. SUFFICES ASSUME scPc \in WithBackup
                     PROVE  /\ IsAsSaved(scRaw, scSaved) => IsAsSaved(scRaw', scSaved)
                            /\ IsAsWanted(scRaw, scSaved) => IsAsWanted(scRaw', scSaved)
        OBVIOUS
      <4>2. IsFaithful(scRaw, scSaved) /\ DOMAIN scRaw = Places /\ IsCapture(scSaved)
        BY <4>1, AllAreFaithful DEF CaptureIsKnown
      <4>3. scKind = "vpn" => DOMAIN scSaved = {1} /\ scRaw'[3] = scRaw[3]
        BY <1>1, <1>4, <4>2
           DEF IsOpenToOthers, Places, IsCapture, Capture, Saves, VpnSaves
      <4>4. \A j \in Places : scRaw'[j] = scRaw[j] \/ j \notin DOMAIN scSaved
        BY <1>4, <3>2, <4>2 DEF Decisive, IsFaithful
      <4>5. scKind \in {"printer", "watch"} => \A j \in Places : scRaw'[j] = scRaw[j]
        BY <1>4, <3>2, <4>2 DEF Decisive
      <4> QED BY <4>2, <4>3, <4>4, <4>5, SameDecides DEF IsFaithful
    <3> QED BY <1>2, <1>3, <3>2, <3>3 DEF UntouchedIsOurs, WithBackup
  <2> QED BY <2>1, <2>2
<1>7. OnlyOurPartsDiffer'
  BY <1>2, <1>3, <1>4 DEF OnlyOurPartsDiffer, ReplacesWhatItSaved, WithBackup
<1>8. OnlyOurConnectionDiffers'
  <2>1. scKind = "vpn" => i \in {1, 2}
    BY <1>1, <1>4 DEF IsOpenToOthers, Places
  <2>2. scKind = "vpn" /\ i = 1 => v # "mine"
    BY <1>1 DEF RawOf, VpnRaw
  <2> QED BY <1>2, <1>3, <1>4, <2>1, <2>2 DEF OnlyOurConnectionDiffers, WithBackup, Places
<1>9. BackupIsForeseen'
  <2>1. IsForeseen' <=> IsForeseen
    BY <1>2, <1>3 DEF IsForeseen, Shows
  <2>2. (\E r \in RawOf(scKind) : Shows(r))' <=> \E r \in RawOf(scKind) : Shows(r)
    BY <1>2, <1>3 DEF Shows
  <2>3. scOthers \in Nat
    BY DEF CaptureIsKnown
  <2> QED
    BY <1>2, <2>1, <2>2, <2>3 DEF BackupIsForeseen, BeforeWrite
<1>10. RestoredIsAccounted'
  BY <1>2 DEF RestoredIsAccounted
<1> QED BY <1>5, <1>6, <1>7, <1>8, <1>9, <1>10

\* Where nothing is written, what is known of the setting stays.
LEMMA ReadingChangesNothing ==
    ASSUME ScOnlyReads
    PROVE  /\ Places' = Places /\ HeldBefore' = HeldBefore /\ Decisive' = Decisive
           /\ Wants(scSaved)' = Wants(scSaved)
           /\ IsCapture(scSaved)' <=> IsCapture(scSaved)
           /\ IsAsSaved(scRaw, scSaved)' <=> IsAsSaved(scRaw, scSaved)
           /\ IsAsWanted(scRaw, scSaved)' <=> IsAsWanted(scRaw, scSaved)
           /\ IsForeseen' <=> IsForeseen
           /\ Shows(scRaw)' <=> Shows(scRaw)
           /\ (\E r \in RawOf(scKind) : Shows(r))' <=> \E r \in RawOf(scKind) : Shows(r)
           /\ UNCHANGED <<scKind, scRaw, scWithout, scTouched, scOthers, scShown, scSaved,
                          scReplaced>>
<1>1. UNCHANGED <<scKind, scRaw, scWithout, scTouched, scOthers, scShown, scSaved, scReplaced>>
  BY DEF ScOnlyReads, ScKeeps
<1>2. Decisive' = Decisive
  BY <1>1 DEF Decisive
<1>3. \A r : Shows(r)' <=> Shows(r)
  BY <1>1, KindStays DEF Shows
<1>4. IsForeseen' <=> IsForeseen
  BY <1>1, <1>3 DEF IsForeseen
<1> QED BY <1>1, <1>2, <1>3, <1>4, KindStays

\* A step that only reads keeps what does not depend on what comes next.
LEMMA ReadingKeeps ==
    ASSUME CapturesInv, ScOnlyReads,
           scPc' \in WithBackup => scPc \in WithBackup,
           scPc' \in BeforeWrite => scPc \in BeforeWrite /\ scPc' # "idle",
           scPc = "idle" /\ scPc' # "end" => ~PowerIsUnavailable(scRaw) \/ scKind # "power_mode",
           scPc' \in {"shown", "valid", "current", "captured"} => scItem' = "none"
    PROVE  CaptureIsKnown' /\ OnlyOurPartsDiffer' /\ OnlyOurConnectionDiffers'
<1> USE ReadingChangesNothing DEF CapturesInv
<1>1. CaptureIsKnown'
  BY DEF CaptureIsKnown, BeforeWrite, WithBackup
<1>2. OnlyOurPartsDiffer'
  BY DEF OnlyOurPartsDiffer, ReplacesWhatItSaved
<1>3. OnlyOurConnectionDiffers'
  BY DEF OnlyOurConnectionDiffers
<1> QED BY <1>1, <1>2, <1>3

LEMMA StillShownShows == StillShown => Shows(scRaw)
BY DEF StillShown, Shows

LEMMA PreviewKeeps ==
    ASSUME CapturesInv, PreviewSetting
    PROVE  CapturesInv'
<1> USE DEF CapturesInv
<1>1. /\ scPc = "idle" /\ UNCHANGED <<scKind, scRaw, scWithout, scTouched, scOthers, scSaved,
                                      scReplaced>>
      /\ scPc' = "shown" => scShown' = <<Looks(scRaw)>> /\ MayStart(scRaw) /\ scItem' = scItem
      /\ scPc' \in {"shown", "end"} /\ (scPc' = "end" => scItem' = "refused")
  BY DEF PreviewSetting, ScKeeps, ScGo, ScEnd
<1>2. /\ Places' = Places /\ HeldBefore' = HeldBefore
      /\ \A r : Looks(r)' = Looks(r)
  BY <1>1, KindStays
<1>3. scPc' = "shown" => scRaw \in RawOf(scKind)
                         /\ (scKind = "power_mode" => ~PowerIsUnavailable(scRaw))
  <2>1. MayStart(scRaw) /\ scKind = "power_mode" => ~PowerIsUnavailable(scRaw)
    BY DEF MayStart
  <2>2. scRaw \in HeldBefore
    BY <1>1 DEF CaptureIsKnown, BeforeWrite
  <2>3. scKind = "power_mode" /\ ~PowerIsUnavailable(scRaw) => scRaw \in RawOf(scKind)
    BY <2>2 DEF HeldBefore, RawOf, PowerRaw, PowerIsUnavailable
  <2> QED BY <1>1, <2>1, <2>2, <2>3 DEF HeldBefore
<1>4. CaptureIsKnown'
  BY <1>1, <1>2, <1>3 DEF CaptureIsKnown, BeforeWrite, WithBackup
<1>5. UntouchedIsOurs'
  BY <1>1 DEF UntouchedIsOurs, CaptureIsKnown
<1>6. OnlyOurPartsDiffer' /\ OnlyOurConnectionDiffers'
  BY <1>1 DEF OnlyOurPartsDiffer, OnlyOurConnectionDiffers, WithBackup
<1>7. BackupIsForeseen'
  BY <1>1, <1>2, <1>3 DEF BackupIsForeseen, BeforeWrite, Shows, CaptureIsKnown
<1>8. RestoredIsAccounted'
  BY <1>1 DEF RestoredIsAccounted, CaptureIsKnown
<1> QED BY <1>4, <1>5, <1>6, <1>7, <1>8

\* Validation, and the two detections around the backup.
LEMMA CheckKeeps ==
    ASSUME CapturesInv, ValidateSetting \/ DetectSetting \/ RedetectSetting
    PROVE  CapturesInv'
<1> USE ReadingChangesNothing DEF CapturesInv
<1>1. /\ ScOnlyReads
      /\ \/ scPc = "shown" /\ scPc' = "valid" /\ scItem' = scItem
         \/ scPc = "valid" /\ scPc' = "current" /\ scItem' = scItem /\ StillShown
         \/ scPc = "captured" /\ scPc' = "prepared" /\ scItem' = "PREPARED" /\ StillShown
         \/ scPc \in {"shown", "valid", "captured"} /\ scPc' = "end" /\ scItem' = "refused"
  BY DEF ValidateSetting, DetectSetting, RedetectSetting, ScGo, ScEnd
<1>2. CaptureIsKnown' /\ OnlyOurPartsDiffer' /\ OnlyOurConnectionDiffers'
  BY <1>1, ReadingKeeps DEF BeforeWrite, WithBackup, CaptureIsKnown
<1>3. UntouchedIsOurs'
  BY <1>1 DEF UntouchedIsOurs, CaptureIsKnown
<1>4. BackupIsForeseen'
  <2>1. scPc = "captured" /\ Shows(scRaw) /\ HasParts(scRaw, scSaved) => IsForeseen
    BY KnownIsRaw DEF IsForeseen, BeforeWrite
  <2> QED BY <1>1, <2>1, StillShownShows DEF BackupIsForeseen, BeforeWrite, CaptureIsKnown
<1>5. RestoredIsAccounted'
  BY <1>1 DEF RestoredIsAccounted
<1> QED BY <1>2, <1>3, <1>4, <1>5

LEMMA CaptureKeeps ==
    ASSUME CapturesInv, CaptureSetting
    PROVE  CapturesInv'
<1> USE DEF CapturesInv
<1>1. /\ scPc = "current" /\ UNCHANGED <<scKind, scRaw, scWithout, scTouched, scOthers, scShown,
                                         scReplaced>>
      /\ scPc' = "captured" => /\ scSaved' = Capture(scRaw) /\ MayCapture(scRaw)
                               /\ scItem' = scItem
      /\ scPc' \in {"captured", "end"} /\ (scPc' = "end" => scItem' = "refused")
  BY DEF CaptureSetting, ScKeeps, ScGo, ScEnd
<1>2. /\ Places' = Places /\ HeldBefore' = HeldBefore
      /\ \A r : Looks(r)' = Looks(r)
      /\ \A s : (IsCapture(s)' <=> IsCapture(s)) /\ Wants(s)' = Wants(s)
      /\ \A r, s : IsAsSaved(r, s)' <=> IsAsSaved(r, s)
  BY <1>1, KindStays
<1>3. scRaw \in RawOf(scKind)
  BY <1>1, KnownIsRaw DEF BeforeWrite
<1>4. scPc' = "captured" => /\ IsCapture(scSaved') /\ HasParts(scRaw, scSaved')
                            /\ IsAsSaved(scRaw, scSaved')
  <2>1. HasParts(scRaw, Capture(scRaw))
    BY DEF HasParts, Capture
  <2>2. MayCapture(scRaw) => IsFit(scRaw, Capture(scRaw))
    <3>1. CASE scKind = "printer"
      BY <1>3, <3>1
         DEF MayCapture, MayStart, PrinterIsMutable, IsFit, RawOf, PrinterRaw, Capture, Saves,
             PrinterSaves
    <3>2. CASE scKind = "watch"
      BY <3>2 DEF MayCapture, IsVisible, MayFail, Looks, WatchLooks, IsFit, IsObserved
    <3> QED BY <3>1, <3>2 DEF IsFit
  <2>3. scKind = "vpn" => scRaw[3] = "none"
    BY <1>3 DEF RawOf, VpnRaw
  <2> QED BY <1>1, <1>3, <2>1, <2>2, <2>3 DEF IsCapture, IsAsSaved
<1>5. CaptureIsKnown'
  BY <1>1, <1>2, <1>4 DEF CaptureIsKnown, BeforeWrite, WithBackup
<1>6. UntouchedIsOurs'
  BY <1>1, <1>2, <1>4 DEF UntouchedIsOurs, CaptureIsKnown
<1>7. OnlyOurPartsDiffer' /\ OnlyOurConnectionDiffers'
  <2>1. scWithout' = scRaw'
    BY <1>1 DEF CaptureIsKnown, BeforeWrite
  <2>2. scKind = "vpn" => scRaw[3] = "none" /\ scRaw[1] # "mine"
    BY <1>3 DEF RawOf, VpnRaw
  <2> QED
    BY <1>1, <2>1, <2>2 DEF OnlyOurPartsDiffer, OnlyOurConnectionDiffers, WithBackup
<1>8. BackupIsForeseen'
  <2>1. scPc' = "captured" /\ Shows(scRaw) => IsForeseen'
    BY <1>1, <1>2, <1>3, <1>4 DEF IsForeseen, Shows
  <2>2. Shows(scRaw)' <=> Shows(scRaw)
    BY <1>1, <1>2 DEF Shows
  <2>3. (\E r \in RawOf(scKind) : Shows(r))' <=> \E r \in RawOf(scKind) : Shows(r)
    BY <1>1, <1>2 DEF Shows
  <2> QED
    BY <1>1, <2>1, <2>2, <2>3 DEF BackupIsForeseen, BeforeWrite, CaptureIsKnown
<1>9. RestoredIsAccounted'
  BY <1>1 DEF RestoredIsAccounted, CaptureIsKnown
<1> QED BY <1>5, <1>6, <1>7, <1>8, <1>9

\* What an action is faithful about, for the setting as it is and the backup as it was.
LEMMA BackupIsFaithful ==
    ASSUME CapturesInv, scPc \in WithBackup
    PROVE  IsFaithful(scRaw, scSaved) /\ IsCapture(scSaved) /\ DOMAIN scRaw = Places
BY AllAreFaithful DEF CapturesInv, CaptureIsKnown

LEMMA ReplaceKeeps ==
    ASSUME CapturesInv, ReplaceSetting
    PROVE  CapturesInv'
<1> DEFINE new == Overwrite(scRaw, scSaved)
<1> USE DEF CapturesInv
<1>1. /\ scPc = "prepared" /\ UNCHANGED <<scKind, scWithout, scTouched, scOthers, scShown,
                                         scSaved>>
      /\ new = NoWrite => /\ UNCHANGED <<scRaw, scReplaced>>
                          /\ scPc' = "classify" /\ scItem' = "APPLY_FAILED"
      /\ new # NoWrite => /\ scRaw' = new /\ scReplaced' \in {NoWrite, scRaw}
                          /\ new = scRaw => scReplaced' = NoWrite
                          /\ scPc' = "verify" /\ scItem' = scItem
  BY DEF ReplaceSetting, ScKeeps, ScFails, ScGo
<1>2. /\ Places' = Places
      /\ \A s : (IsCapture(s)' <=> IsCapture(s)) /\ Wants(s)' = Wants(s)
      /\ \A r, s : /\ IsAsSaved(r, s)' <=> IsAsSaved(r, s)
                   /\ IsAsWanted(r, s)' <=> IsAsWanted(r, s)
      /\ \A r : Looks(r)' = Looks(r)
  BY <1>1, KindStays
<1>3. IsFaithful(scRaw, scSaved) /\ IsCapture(scSaved) /\ DOMAIN scRaw = Places
  BY <1>1, BackupIsFaithful DEF WithBackup
<1>4. scRaw \in RawOf(scKind) /\ scWithout = scRaw /\ scReplaced = NoWrite
  BY <1>1, KnownIsRaw DEF CaptureIsKnown, BeforeWrite
<1>5. new # NoWrite =>
         /\ DOMAIN new = Places
         /\ new = scRaw \/ HasParts(scRaw, scSaved)
         /\ ReplacesWhatItSaved => new = scRaw \/ Puts(new, scRaw, Wants(scSaved))
         /\ IsAsSaved(scRaw, scSaved) => IsAsWanted(new, scSaved)
  BY <1>3, <1>4 DEF IsFaithful, WritesWhatItWants
<1>6. DOMAIN scSaved \subseteq Places /\ DOMAIN Wants(scSaved) = DOMAIN scSaved
  BY <1>3 DEF IsFaithful
<1>7. CaptureIsKnown'
  <2>1. scKind = "sleep" => scRaw'[1] \in {"yes", "no"}
    <3>1. scKind = "sleep" => 1 \in Places /\ Wants(scSaved)[1] = "yes" /\ ReplacesWhatItSaved
      BY DEF Places, Wants, SleepWants, SleepSaves, ReplacesWhatItSaved
    <3>2. scKind = "sleep" => 1 \in DOMAIN Wants(scSaved)
      BY DEF Wants, SleepWants, SleepSaves
    <3> QED BY <1>1, <1>3, <1>5, <3>1, <3>2 DEF CaptureIsKnown, Puts
  <2> QED
    BY <1>1, <1>2, <1>3, <1>4, <1>5, <2>1 DEF CaptureIsKnown, BeforeWrite, WithBackup
<1>8. UntouchedIsOurs'
  <2>1. Decisive' = Decisive
    BY <1>1, <1>3, <1>5 DEF Decisive
  <2> QED
    BY <1>1, <1>2, <1>5, <2>1 DEF UntouchedIsOurs
<1>9. OnlyOurPartsDiffer'
  <2> SUFFICES ASSUME ReplacesWhatItSaved, NEW i \in Places, scRaw'[i] # scWithout'[i]
               PROVE  /\ i \in DOMAIN scSaved
                      /\ scRaw'[i] \in {scSaved[i], Wants(scSaved)[i]}
                      /\ scWithout'[i] \in {scSaved[i], Wants(scSaved)[i]}
    BY <1>1, <1>2 DEF OnlyOurPartsDiffer, ReplacesWhatItSaved
  <2>1. new # NoWrite /\ scRaw' = new /\ new # scRaw /\ scWithout' = scRaw
    BY <1>1, <1>4
  <2>2. Puts(new, scRaw, Wants(scSaved)) /\ HasParts(scRaw, scSaved)
    BY <1>5, <2>1
  <2> QED BY <1>3, <1>6, <2>1, <2>2 DEF Puts, HasParts
<1>10. OnlyOurConnectionDiffers'
  <2> SUFFICES ASSUME scKind = "vpn"
               PROVE  OnlyOurConnectionDiffers'
    BY <1>1 DEF OnlyOurConnectionDiffers
  <2>1. new = OverwriteVpn(scRaw, scSaved) /\ scRaw \in VpnRaw
    BY <1>4 DEF Overwrite, RawOf
  <2>2. PICK q \in VpnRaw : IsRegistered(q) /\ scSaved = [i \in VpnSaves |-> q[i]]
    BY <1>3 DEF IsCapture, MayCapture, MayStart, Capture, Saves, RawOf
  <2>3. scSaved[1] \in {"down", "theirs"} /\ (IsConnected(scSaved) <=> scSaved[1] = "theirs")
    BY <2>2 DEF VpnRaw, VpnSaves, IsRegistered, IsConnected
  <2>4. scRaw[3] = "none" /\ scRaw[1] \in {"down", "theirs", "unregistered"}
    BY <2>1 DEF VpnRaw
  <2>5. CASE new = NoWrite \/ new = scRaw
    BY <1>1, <1>4, <2>4, <2>5 DEF OnlyOurConnectionDiffers
  <2>6. CASE new # NoWrite /\ new # scRaw
    <3>1. new = <<"mine", scRaw[2], "held">> /\ scSaved[1] = "down" /\ scRaw[1] = "down"
      BY <2>1, <2>3, <2>4, <2>6 DEF OverwriteVpn, IsRegistered, IsConnected
    <3> QED BY <1>1, <1>4, <2>4, <2>6, <3>1 DEF OnlyOurConnectionDiffers
  <2> QED BY <2>5, <2>6
<1>11. BackupIsForeseen'
  <2>1. IsForeseen' <=> IsForeseen
    BY <1>1, <1>2 DEF IsForeseen, Shows
  <2> QED
    BY <1>1, <1>4, <1>5, <2>1 DEF BackupIsForeseen, BeforeWrite, CaptureIsKnown
<1>12. RestoredIsAccounted'
  BY <1>1 DEF RestoredIsAccounted
<1> QED BY <1>7, <1>8, <1>9, <1>10, <1>11, <1>12

\* What is judged to be restored differs only where others wrote what was wanted.
LEMMA RestoredMeansAccounted ==
    ASSUME CapturesInv, scPc \in WithBackup, IsRestored(scRaw, scSaved),
           scKind \notin {"volumes", "launch"}, NEW i \in Places, scRaw[i] # scWithout[i]
    PROVE  i \in DOMAIN scSaved /\ scWithout[i] = Wants(scSaved)[i]
<1> USE DEF CapturesInv
<1>1. IsFaithful(scRaw, scSaved)
  BY BackupIsFaithful
<1>2. CASE scKind = "vpn"
  <2>1. VpnIsRestored(scRaw, scSaved)
    BY <1>2 DEF IsRestored
  <2>2. CASE i = 1
    BY <1>2, <2>1, <2>2 DEF OnlyOurConnectionDiffers, VpnIsRestored, IsConnected
  <2>3. CASE i = 2
    BY <1>2, <2>3 DEF OnlyOurConnectionDiffers
  <2>4. CASE i = 3
    BY <1>2, <2>1, <2>4 DEF OnlyOurConnectionDiffers, VpnIsRestored, IsConnected
  <2> QED BY <1>2, <2>2, <2>3, <2>4 DEF Places
<1>3. CASE scKind # "vpn"
  <2>1. ReplacesWhatItSaved
    BY <1>3 DEF ReplacesWhatItSaved
  <2>2. HasParts(scRaw, scSaved)
    BY <1>1, <2>1 DEF IsFaithful, JudgesWhatIs
  <2> QED BY <2>1, <2>2 DEF OnlyOurPartsDiffer, HasParts
<1> QED BY <1>2, <1>3

\* The steps that only judge: the verification, the wish to take back, the
\* classification and the confirmation.
LEMMA JudgingKeeps ==
    ASSUME CapturesInv, VerifySetting \/ TakeBackSetting \/ ClassifySetting \/ ConfirmSetting
    PROVE  CapturesInv'
<1> USE ReadingChangesNothing DEF CapturesInv
<1>1. /\ ScOnlyReads /\ scPc \in {"verify", "rest", "classify", "confirm"}
      /\ \/ /\ scPc = "verify" /\ IsApplied(scRaw, scSaved)
            /\ scPc' = "rest" /\ scItem' = "APPLIED" /\ scRecorded'
         \/ /\ scPc = "verify" /\ ~IsApplied(scRaw, scSaved)
            /\ scPc' = "classify" /\ scItem' = "APPLY_FAILED"
         \/ scPc = "rest" /\ scPc' = "classify" /\ UNCHANGED <<scItem, scRecorded>>
         \/ /\ scPc \in {"classify", "confirm"} /\ IsRestored(scRaw, scSaved)
            /\ scPc' = "end" /\ scItem' = "ROLLED_BACK"
         \/ /\ scPc = "classify" /\ ~IsRestored(scRaw, scSaved) /\ MayGiveBack
            /\ scPc' = "give_back" /\ UNCHANGED <<scItem, scRecorded>>
         \/ /\ scPc = "classify" /\ ~IsRestored(scRaw, scSaved) /\ ~MayGiveBack
            /\ scPc' = "rest" /\ scItem' = "RECOVERY"
         \/ /\ scPc = "confirm" /\ ~IsRestored(scRaw, scSaved)
            /\ scPc' = "rest" /\ scItem' = "RECOVERY"
  BY DEF VerifySetting, TakeBackSetting, ClassifySetting, ConfirmSetting, ScGo, ScEnd, ScFails,
         ScUnresolved
<1>2. IsFaithful(scRaw, scSaved) /\ DOMAIN scRaw = Places
  BY <1>1, BackupIsFaithful DEF WithBackup
<1>3. CaptureIsKnown' /\ OnlyOurPartsDiffer' /\ OnlyOurConnectionDiffers'
  BY <1>1, ReadingKeeps DEF BeforeWrite, WithBackup
<1>4. UntouchedIsOurs'
  <2>1. /\ IsAsSaved(scRaw, scSaved) => IsRestored(scRaw, scSaved)
        /\ IsAsWanted(scRaw, scSaved) => IsApplied(scRaw, scSaved) \/ IsAsSaved(scRaw, scSaved)
    BY <1>2 DEF IsFaithful, JudgesWhatIs
  <2>2. IsApplied(scRaw, scSaved) => MayGiveBack
    BY DEF MayGiveBack
  <2> QED BY <1>1, <2>1, <2>2 DEF UntouchedIsOurs
<1>5. BackupIsForeseen'
  BY <1>1 DEF BackupIsForeseen, BeforeWrite
<1>6. RestoredIsAccounted'
  <2>1. CASE scItem' = "ROLLED_BACK"
    <3>1. scPc' = "end" /\ (scItem # "ROLLED_BACK" => IsRestored(scRaw, scSaved))
      BY <1>1, <2>1 DEF RestoredIsAccounted
    <3>2. scItem # "ROLLED_BACK"
      BY <1>1 DEF RestoredIsAccounted
    <3> QED
      BY <1>1, <1>2, <2>1, <3>1, <3>2, RestoredMeansAccounted
         DEF RestoredIsAccounted, WithBackup
  <2> QED BY <2>1 DEF RestoredIsAccounted
<1> QED BY <1>3, <1>4, <1>5, <1>6

LEMMA GiveBackKeeps ==
    ASSUME CapturesInv, GiveBackSetting
    PROVE  CapturesInv'
<1> DEFINE new == GiveBack(scRaw, scSaved)
<1> USE DEF CapturesInv
<1>1. /\ scPc = "give_back" /\ UNCHANGED <<scKind, scWithout, scTouched, scOthers, scShown,
                                         scSaved, scReplaced>>
      /\ new = NoWrite => UNCHANGED scRaw /\ scPc' = "rest" /\ scItem' = "RECOVERY"
      /\ new # NoWrite => scRaw' = new /\ scPc' = "confirm" /\ scItem' = scItem
  BY DEF GiveBackSetting, ScKeeps, ScUnresolved, ScGo
<1>2. /\ Places' = Places
      /\ \A s : (IsCapture(s)' <=> IsCapture(s)) /\ Wants(s)' = Wants(s)
      /\ \A r, s : IsAsSaved(r, s)' <=> IsAsSaved(r, s)
      /\ \A r : Looks(r)' = Looks(r)
  BY <1>1, KindStays
<1>3. IsFaithful(scRaw, scSaved) /\ IsCapture(scSaved) /\ DOMAIN scRaw = Places
  BY <1>1, BackupIsFaithful DEF WithBackup
<1>4. /\ new # NoWrite => DOMAIN new = Places
      /\ ReplacesWhatItSaved /\ new # NoWrite =>
            Puts(new, scRaw, scSaved) /\ IsMixOf(scRaw, scSaved, Wants(scSaved))
      /\ IsAsWanted(scRaw, scSaved) /\ scRecorded => new # NoWrite /\ IsAsSaved(new, scSaved)
  BY <1>3 DEF IsFaithful, GivesBackWhatItSaved, CaptureIsKnown
<1>5. CaptureIsKnown'
  <2>1. scKind = "sleep" => scRaw'[1] \in {"yes", "no"}
    <3>1. SUFFICES ASSUME scKind = "sleep", new # NoWrite
                   PROVE  new[1] \in {"yes", "no"}
      BY <1>1 DEF CaptureIsKnown
    <3>2. PICK q \in SleepRaw : scSaved = [i \in {1} |-> q[i]]
      BY <1>3, <3>1 DEF IsCapture, Capture, Saves, SleepSaves, RawOf
    <3>3. ReplacesWhatItSaved /\ 1 \in Places
      BY <3>1 DEF ReplacesWhatItSaved, Places
    <3> QED BY <1>3, <1>4, <3>1, <3>2, <3>3 DEF Puts, SleepRaw
  <2> QED
    BY <1>1, <1>2, <1>3, <1>4, <2>1 DEF CaptureIsKnown, BeforeWrite, WithBackup
<1>6. UntouchedIsOurs'
  <2>1. Decisive' = Decisive
    BY <1>1, <1>3, <1>4 DEF Decisive
  <2> QED BY <1>1, <1>2, <1>4, <2>1 DEF UntouchedIsOurs
<1>7. OnlyOurPartsDiffer'
  <2> SUFFICES ASSUME ReplacesWhatItSaved, NEW i \in Places, scRaw'[i] # scWithout'[i]
               PROVE  /\ i \in DOMAIN scSaved
                      /\ scRaw'[i] \in {scSaved[i], Wants(scSaved)[i]}
                      /\ scWithout'[i] \in {scSaved[i], Wants(scSaved)[i]}
    BY <1>1, <1>2 DEF OnlyOurPartsDiffer, ReplacesWhatItSaved
  <2>1. scRaw[i] # scWithout[i] =>
           /\ i \in DOMAIN scSaved
           /\ scRaw[i] \in {scSaved[i], Wants(scSaved)[i]}
           /\ scWithout[i] \in {scSaved[i], Wants(scSaved)[i]}
    BY <1>1 DEF OnlyOurPartsDiffer, WithBackup
  <2>2. CASE new = NoWrite
    BY <1>1, <2>1, <2>2
  <2>3. CASE new # NoWrite
    <3>1. scRaw'[i] = IF i \in DOMAIN scSaved THEN scSaved[i] ELSE scRaw[i]
      BY <1>1, <1>3, <1>4, <2>3 DEF Puts
    <3>2. i \in DOMAIN scSaved => scRaw[i] \in {scSaved[i], Wants(scSaved)[i]}
      BY <1>4, <2>3 DEF IsMixOf
    <3> QED BY <1>1, <2>1, <3>1, <3>2
  <2> QED BY <2>2, <2>3
<1>8. OnlyOurConnectionDiffers'
  <2> SUFFICES ASSUME scKind = "vpn", new # NoWrite
               PROVE  OnlyOurConnectionDiffers'
    BY <1>1 DEF OnlyOurConnectionDiffers, WithBackup
  <2>1. new = VpnGiveBack(scRaw, scSaved)
    BY DEF GiveBack
  <2>2. new = scRaw \/ (new = <<"down", scRaw[2], "none">> /\ scRaw[1] = "mine")
    BY <2>1 DEF VpnGiveBack
  <2> QED BY <1>1, <2>2 DEF OnlyOurConnectionDiffers, WithBackup
<1>9. BackupIsForeseen'
  <2>1. IsForeseen' <=> IsForeseen
    BY <1>1, <1>2 DEF IsForeseen, Shows
  <2> QED BY <1>1, <2>1 DEF BackupIsForeseen, BeforeWrite
<1>10. RestoredIsAccounted'
  BY <1>1 DEF RestoredIsAccounted
<1> QED BY <1>5, <1>6, <1>7, <1>8, <1>9, <1>10

\* A change that is at rest is as known as before.
LEMMA CapturesStutter ==
    ASSUME CapturesInv, UNCHANGED scvars
    PROVE  CapturesInv'
<1> USE ReadingChangesNothing DEF CapturesInv
<1>1. ScOnlyReads /\ UNCHANGED <<scPc, scItem, scRecorded>>
  BY DEF scvars, ScOnlyReads, ScKeeps
<1>2. CaptureIsKnown'
  BY <1>1 DEF CaptureIsKnown
<1>3. UntouchedIsOurs'
  BY <1>1 DEF UntouchedIsOurs
<1>4. OnlyOurPartsDiffer' /\ OnlyOurConnectionDiffers'
  BY <1>1 DEF OnlyOurPartsDiffer, OnlyOurConnectionDiffers, ReplacesWhatItSaved
<1>5. BackupIsForeseen'
  BY <1>1 DEF BackupIsForeseen
<1>6. RestoredIsAccounted'
  BY <1>1 DEF RestoredIsAccounted
<1> QED BY <1>2, <1>3, <1>4, <1>5, <1>6

LEMMA CapturesAccount == CapturesInv => EndIsAccounted
<1> SUFFICES ASSUME CapturesInv PROVE EndIsAccounted
  OBVIOUS
<1>1. scItem = "ROLLED_BACK" /\ scKind \notin {"volumes", "launch"} =>
         \A i \in DOMAIN scRaw :
            scRaw[i] # scWithout[i] =>
               i \in DOMAIN scSaved /\ scWithout[i] = Wants(scSaved)[i]
  BY DEF CapturesInv, RestoredIsAccounted
<1>2. scItem = "RECOVERY" => scTouched \intersect Decisive # {}
  BY DEF CapturesInv, UntouchedIsOurs
<1>3. scReplaced # NoWrite /\ scOthers < 3 =>
         \E r \in RawOf(scKind) :
             scShown = <<Looks(r)>> /\ \A i \in DOMAIN scSaved : r[i] = scReplaced[i]
  <2>1. SUFFICES ASSUME scReplaced # NoWrite, scOthers < 3
                 PROVE  \E r \in RawOf(scKind) :
                           scShown = <<Looks(r)>> /\ \A i \in DOMAIN scSaved : r[i] = scReplaced[i]
    OBVIOUS
  <2>2. IsForeseen /\ HasParts(scReplaced, scSaved)
    BY <2>1 DEF CapturesInv, BackupIsForeseen, CaptureIsKnown
  <2> QED BY <2>2 DEF IsForeseen, Shows, HasParts
<1> QED BY <1>1, <1>2, <1>3 DEF EndIsAccounted

\* For every number of writes of others, between any two readings of a setting of each
\* of the sixteen kinds of action (preview, create_backup_for_preview, apply,
\* classify_action, rollback): what is taken back is as it would be without this
\* program, but for what others wrote as it had; only who touched what decides leaves
\* an item to the user; and it takes three writes to deceive the preview.
THEOREM EndAccounted == CapturesSpec => []EndIsAccounted
<1>1. CapturesInv /\ [CaptureStep \/ CaptureUserStep]_scvars => CapturesInv'
  BY PreviewKeeps, CheckKeeps, CaptureKeeps, ReplaceKeeps, JudgingKeeps, GiveBackKeeps,
     OthersKeepCaptures, CapturesStutter DEF CaptureStep, CaptureUserStep
<1> QED BY <1>1, CapturesInitially, CapturesAccount, PTL DEF CapturesSpec

=============================================================================
