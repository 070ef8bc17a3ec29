----------------------------- MODULE TempCleanup -----------------------------
(***************************************************************************)
(* The list of old temporary files and their deletion.  Both walk the      *)
(* user's temporary folder and come to each file by its path, while other  *)
(* programs create, touch and move files and replace folders by links: the  *)
(* list is made by one walk and the deletion by another.                    *)
(*                                                                         *)
(* The folder has one folder below it.  All files have the same name, so   *)
(* that a path leads to whatever file is there when it is followed.         *)
(***************************************************************************)
EXTENDS Naturals, FiniteSets

CONSTANT CleanFiles

VARIABLES
    tcPlace,    \* where each file is: a folder, or "gone"
    tcOld,      \* plain files that were not changed for TEMP_CLEANUP_MIN_AGE_DAYS
    tcLinks,    \* folders of which there is only a link, to "outside"
    tcWalk,     \* the walk: its kind and step
    tcPending,  \* folders it has still to read
    tcDir,      \* the folder it reads, and the entries it has yet to look at
    tcHandle,   \* the file that is open for deletion
    tcVisited,  \* files the last walk listed, or tried to delete
    tcCut,      \* truncated
    tcSteady,   \* history: files that nothing happened to since the walk began
    tcWas,      \* history: what the open file has been since it was opened
    tcDropped   \* history: an entry the walk could not read and did not report

tcvars == <<tcPlace, tcOld, tcLinks, tcWalk, tcPending, tcDir, tcHandle,
            tcVisited, tcCut, tcSteady, tcWas, tcDropped>>

Folders == {"temp", "sub"}
NoFile == "none"

ASSUME CleanupAssumption == NoFile \notin CleanFiles

CleanupTypeOK ==
    /\ tcPlace \in [CleanFiles -> Folders \union {"outside", "gone"}]
    /\ tcOld \subseteq CleanFiles /\ tcLinks \subseteq Folders
    /\ tcWalk.kind \in {"list", "delete"}
    /\ tcWalk.pc \in {"rest", "begin", "folder", "entries", "open", "file",
                      "place", "delete", "done"}
    /\ tcPending \subseteq Folders
    /\ tcDir.folder \in Folders /\ tcDir.entries \subseteq {"file", "folder"}
    /\ tcHandle \in CleanFiles \union {NoFile}
    /\ tcVisited \subseteq CleanFiles /\ tcSteady \subseteq CleanFiles
    /\ tcWas \subseteq {"old", "inside"}
    /\ {tcCut, tcDropped} \subseteq BOOLEAN

CleanupInit ==
    /\ tcPlace \in [CleanFiles -> Folders \union {"outside"}]
    /\ \A f, g \in CleanFiles : tcPlace[f] = tcPlace[g] => f = g
    /\ tcOld \in SUBSET CleanFiles
    /\ tcLinks = {}
    /\ tcWalk = [kind |-> "list", pc |-> "rest"]
    /\ tcPending = {} /\ tcDir = [folder |-> "temp", entries |-> {}]
    /\ tcHandle = NoFile /\ tcVisited = {} /\ tcCut = FALSE
    /\ tcSteady = {} /\ tcWas = {} /\ tcDropped = FALSE

-----------------------------------------------------------------------------
\* Where the path of a folder leads; the linked folder has none below it.
Leads(folder) ==
    IF folder \in tcLinks THEN "outside"
    ELSE IF "temp" \in tcLinks THEN "nowhere"
    ELSE folder

Reaches(folder) == {f \in CleanFiles : tcPlace[f] = Leads(folder)}

\* final_path_is_below
Bug_BelowRoot(f) == tcPlace[f] # "gone"

BelowRoot(f) == tcPlace[f] \in Folders

At(pc) == tcWalk' = [tcWalk EXCEPT !.pc = pc]
Look(entries) == tcDir' = [tcDir EXCEPT !.entries = entries]

\* storage_temp_cleanup_plan, storage_temp_cleanup_apply: TrustedTempRoot::open
\* holds the folder itself, never a link.
StartWalk(kind) ==
    /\ tcWalk.pc = "rest" /\ "temp" \notin tcLinks
    /\ tcWalk' = [kind |-> kind, pc |-> "begin"]
    /\ tcVisited' = {} /\ tcCut' = FALSE /\ tcDropped' = FALSE
    /\ UNCHANGED <<tcPlace, tcOld, tcLinks, tcPending, tcDir, tcHandle>>

\* path_has_reparse_component again: a link ends the command.
BeginWalk ==
    /\ tcWalk.pc = "begin"
    /\ IF "temp" \in tcLinks THEN At("rest") /\ UNCHANGED tcPending
       ELSE At("folder") /\ tcPending' = {"temp"}
    /\ UNCHANGED <<tcPlace, tcOld, tcLinks, tcDir, tcHandle, tcVisited, tcCut, tcDropped>>

\* read_dir of the folder that waits: its files, and the folder in it.
ReadFolder ==
    /\ tcWalk.pc = "folder"
    /\ \E d \in tcPending :
        /\ Leads(d) # "nowhere"
        /\ tcPending' = tcPending \ {d}
        /\ tcDir' = [folder |-> d,
                     entries |-> {e \in {"file", "folder"} :
                                    IF e = "file" THEN Reaches(d) # {}
                                    ELSE d = "temp" /\ d \notin tcLinks}]
    /\ At("entries")
    /\ UNCHANGED <<tcPlace, tcOld, tcLinks, tcHandle, tcVisited, tcCut, tcDropped>>

\* It cannot be read, or is not there.
ReadFolderFails ==
    /\ tcWalk.pc = "folder"
    /\ \E d \in tcPending : tcPending' = tcPending \ {d}
    /\ tcCut' = TRUE
    /\ UNCHANGED <<tcPlace, tcOld, tcLinks, tcWalk, tcDir, tcHandle, tcVisited, tcDropped>>

FolderIsGone == (\E d \in tcPending : Leads(d) = "nowhere") /\ ReadFolderFails

\* symlink_metadata of the folder: a link is passed over, and its absence cuts
\* the walk short.
LookAtFolder ==
    /\ tcWalk.pc = "entries" /\ "folder" \in tcDir.entries
    /\ Look(tcDir.entries \ {"folder"})
    /\ tcPending' = tcPending \union {d \in {"sub"} : Leads(d) = d}
    /\ tcCut' = (tcCut \/ Leads("sub") = "nowhere")
    /\ UNCHANGED <<tcPlace, tcOld, tcLinks, tcWalk, tcHandle, tcVisited, tcDropped>>

\* symlink_metadata of the file: an old one is visited, another passed over.  An old
\* file whose name or time cannot be used is passed over too: see DropEntry.
LookAtFile ==
    /\ tcWalk.pc = "entries" /\ "file" \in tcDir.entries
    /\ Look(tcDir.entries \ {"file"})
    /\ LET found == Reaches(tcDir.folder) IN
       /\ tcCut' = (tcCut \/ found = {})
       /\ tcVisited' = tcVisited \union (found \intersect tcOld)
       /\ IF found \intersect tcOld # {} /\ tcWalk.kind = "delete" THEN At("open")
          ELSE UNCHANGED tcWalk
    /\ UNCHANGED <<tcPlace, tcOld, tcLinks, tcPending, tcHandle, tcDropped>>

\* An entry is left out and nothing says so: one that cannot be read
\* (entries.flatten()), or a file whose time cannot be read or whose name is not
\* Unicode.
DropEntry ==
    /\ tcWalk.pc = "entries" /\ tcDir.entries # {}
    /\ \E e \in tcDir.entries : Look(tcDir.entries \ {e})
    /\ tcDropped' = TRUE
    /\ UNCHANGED <<tcPlace, tcOld, tcLinks, tcWalk, tcPending, tcHandle, tcVisited, tcCut>>

\* The time or the number of files is used up.
CutShort ==
    /\ \/ tcWalk.pc = "folder" /\ tcPending # {}
       \/ tcWalk.pc = "entries" /\ tcDir.entries # {}
    /\ tcPending' = {} /\ Look({}) /\ At("folder")
    /\ tcCut' = TRUE
    /\ UNCHANGED <<tcPlace, tcOld, tcLinks, tcHandle, tcVisited, tcDropped>>

NextFolder ==
    /\ tcWalk.pc = "entries" /\ tcDir.entries = {}
    /\ At("folder")
    /\ UNCHANGED <<tcPlace, tcOld, tcLinks, tcPending, tcDir, tcHandle, tcVisited, tcCut,
                   tcDropped>>

EndWalk ==
    /\ tcWalk.pc = "folder" /\ tcPending = {}
    /\ At("done")
    /\ UNCHANGED <<tcPlace, tcOld, tcLinks, tcPending, tcDir, tcHandle, tcVisited, tcCut,
                   tcDropped>>

\* The answer is shown.
CloseWalk ==
    /\ tcWalk.pc = "done"
    /\ At("rest")
    /\ UNCHANGED <<tcPlace, tcOld, tcLinks, tcPending, tcDir, tcHandle, tcVisited, tcCut,
                   tcDropped>>

-----------------------------------------------------------------------------
(* delete_validated_temp_file *)

\* open_temp_handle: the path is followed once more; the file may have gone.
OpenFile ==
    /\ tcWalk.pc = "open"
    /\ \/ \E f \in Reaches(tcDir.folder) : tcHandle' = f /\ At("file")
       \/ Reaches(tcDir.folder) = {} /\ At("entries") /\ UNCHANGED tcHandle
    /\ UNCHANGED <<tcPlace, tcOld, tcLinks, tcPending, tcDir, tcVisited, tcCut, tcDropped>>

CheckFile ==
    /\ tcWalk.pc = "file" /\ tcHandle \in tcOld
    /\ At("place")
    /\ UNCHANGED <<tcPlace, tcOld, tcLinks, tcPending, tcDir, tcHandle, tcVisited, tcCut,
                   tcDropped>>

\* final_path_for_handle
CheckPlace ==
    /\ tcWalk.pc = "place" /\ BelowRoot(tcHandle)
    /\ At("delete")
    /\ UNCHANGED <<tcPlace, tcOld, tcLinks, tcPending, tcDir, tcHandle, tcVisited, tcCut,
                   tcDropped>>

\* SetFileInformationByHandle
DeleteFile ==
    /\ tcWalk.pc = "delete"
    /\ tcPlace' = [tcPlace EXCEPT ![tcHandle] = "gone"]
    /\ tcHandle' = NoFile /\ At("entries")
    /\ UNCHANGED <<tcOld, tcLinks, tcPending, tcDir, tcVisited, tcCut, tcDropped>>

\* The file is no longer what it was, or a call fails: it is reported, and kept.
SkipFile ==
    /\ \/ tcWalk.pc = "file" /\ tcHandle \notin tcOld
       \/ tcWalk.pc = "place" /\ ~BelowRoot(tcHandle)
    /\ tcHandle' = NoFile /\ At("entries")
    /\ UNCHANGED <<tcPlace, tcOld, tcLinks, tcPending, tcDir, tcVisited, tcCut, tcDropped>>

FileCallFails ==
    /\ tcWalk.pc \in {"open", "file", "place", "delete"}
    /\ tcHandle' = NoFile /\ At("entries")
    /\ UNCHANGED <<tcPlace, tcOld, tcLinks, tcPending, tcDir, tcVisited, tcCut, tcDropped>>

-----------------------------------------------------------------------------
\* Others change a file, restore one with its old date, move or delete one.
OthersTouch(f) ==
    /\ tcPlace[f] # "gone"
    /\ tcOld' = IF f \in tcOld THEN tcOld \ {f} ELSE tcOld \union {f}
    /\ UNCHANGED <<tcPlace, tcLinks>>

OthersMoveFile(f) ==
    /\ tcPlace[f] # "gone"
    /\ \E p \in {"gone", "outside", Leads("temp"), Leads("sub")} \ {"nowhere", tcPlace[f]} :
        /\ p = "gone" \/ \A g \in CleanFiles : tcPlace[g] # p
        /\ tcPlace' = [tcPlace EXCEPT ![f] = p]
    /\ UNCHANGED <<tcOld, tcLinks>>

\* An empty folder becomes a link, or a link a folder.
OthersLink(folder) ==
    /\ IF folder \in tcLinks THEN tcLinks' = tcLinks \ {folder}
       ELSE /\ \A f \in CleanFiles : tcPlace[f] \notin {folder, "sub"}
            /\ folder = "temp" => "sub" \notin tcLinks
            /\ Leads(folder) = folder
            /\ tcLinks' = tcLinks \union {folder}
    /\ UNCHANGED <<tcPlace, tcOld>>

\* The histories.
Remembered ==
    /\ tcSteady' = IF tcWalk.pc = "rest" /\ tcWalk'.pc = "begin" THEN CleanFiles
                   ELSE {f \in tcSteady : tcPlace'[f] = tcPlace[f] /\ (f \in tcOld' <=> f \in tcOld)}
    /\ tcWas' = IF tcHandle' = NoFile THEN {}
                ELSE tcWas \union {w \in {"old", "inside"} :
                        IF w = "old" THEN tcHandle' \in tcOld' ELSE tcPlace'[tcHandle'] \in Folders}

CleanupStep ==
    /\ \/ BeginWalk \/ ReadFolder \/ FolderIsGone \/ LookAtFolder \/ LookAtFile \/ CutShort
       \/ NextFolder \/ EndWalk \/ CloseWalk
       \/ OpenFile \/ CheckFile \/ CheckPlace \/ DeleteFile \/ SkipFile
    /\ Remembered

CleanupUserStep ==
    (\E kind \in {"list", "delete"} : StartWalk(kind)) /\ Remembered

CleanupFault ==
    \/ (ReadFolderFails \/ DropEntry \/ FileCallFails) /\ Remembered
    \/ /\ \/ \E f \in CleanFiles : OthersTouch(f) \/ OthersMoveFile(f)
          \/ \E folder \in Folders : OthersLink(folder)
       /\ UNCHANGED <<tcWalk, tcPending, tcDir, tcHandle, tcVisited, tcCut, tcDropped>>
       /\ Remembered

CleanupNext == CleanupStep \/ CleanupUserStep \/ CleanupFault

CleanupSpec == CleanupInit /\ [][CleanupNext]_tcvars

-----------------------------------------------------------------------------
\* Deletion cannot be undone: a file is deleted only if, since it was opened, it
\* was an old file and was inside the temporary folder, wherever its path led when
\* the walk saw it (the checks on the handle in delete_validated_temp_file).
\* And a walk that does not call itself truncated has come to every old file in the
\* folder that nothing happened to meanwhile, and so the deletion finds, of what
\* the list showed, everything that stayed as it was; entries that cannot be read,
\* and files whose time cannot be read or whose name is not Unicode, are left out in
\* silence.
CleanupIsExact ==
    /\ [][tcWalk.pc = "delete" /\ tcPlace' # tcPlace /\ tcHandle' = NoFile
          => tcWas = {"old", "inside"}]_tcvars
    /\ [](tcWalk.pc = "done" /\ ~tcCut /\ ~tcDropped =>
            \A f \in tcSteady \intersect tcOld : tcPlace[f] \in Folders => f \in tcVisited)

=============================================================================
