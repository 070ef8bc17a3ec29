--------------------------- MODULE WindowIdentity ----------------------------
(***************************************************************************)
(* How a window is known again.  A saved layout knows a window by its       *)
(* program, class and title; what is changed and given back is known by its *)
(* handle, its process and a random mark put on the window itself, since     *)
(* Windows gives handles and process ids to others once they are free.      *)
(* Reading a window takes several calls, and anything may happen between.   *)
(*                                                                         *)
(* One saved window, with the title Ours; other programs' windows never     *)
(* match it, and those of its own program share one process id.             *)
(***************************************************************************)
EXTENDS Naturals, FiniteSets

CONSTANTS Handles, MaxOpened    \* bound: windows opened in a behaviour

ASSUME IdentityAssumption == IsFiniteSet(Handles) /\ MaxOpened \in Nat

VARIABLES
    wiBorn,     \* creation time of the process that has the id
    wiWindow,   \* the window a handle stands for, or NoWindow
    wiOpened,   \* windows opened so far; each has its own number
    wiPc,       \* what the engine does with the saved window
    wiTodo,     \* handles enumerated and not yet read
    wiSnap,     \* creation time in the snapshot of the processes
    wiRead,     \* the handle that is being read, with its place
    wiCands,    \* candidates: handle, place and title as read
    wiOriginal, \* OriginalWindowPlacementEntry: handle, process, mark, place
    wiMarked,   \* history: the window that carries the mark, and where it stood
    wiUnseen    \* history: the handle stands for another window, or that window
                \* changed, since it was read for the last time

wivars == <<wiBorn, wiWindow, wiOpened, wiPc, wiTodo, wiSnap, wiRead, wiCands,
            wiOriginal, wiMarked, wiUnseen>>

NoWindow == [id |-> 0, born |-> 0, title |-> "none", at |-> "none", mark |-> 0]
NoHandle == "none"
NoOriginal == [handle |-> NoHandle, born |-> 0, mark |-> 0, at |-> "none"]
Nothing == [handle |-> NoHandle, at |-> "none"]
Ours == "ours"
Places == {"first", "second", "desired"}

IsOpen(h) == wiWindow[h].id # 0
Reading == {"read", "again", "plan", "fresh"}

IdentityTypeOK ==
    /\ wiBorn \in Nat /\ wiOpened \in 0..MaxOpened
    /\ \A h \in Handles : wiWindow[h].id \in 0..MaxOpened
    /\ wiPc \in {"rest", "list", "look", "mark", "verify", "kept", "move", "end"} \union Reading
    /\ wiTodo \subseteq Handles /\ wiSnap \in Nat
    /\ wiRead.handle \in Handles \union {NoHandle}
    /\ \A c \in wiCands : c.handle \in Handles
    /\ wiOriginal.handle \in Handles \union {NoHandle}
    /\ wiMarked.places \subseteq Places
    /\ wiUnseen \in BOOLEAN

IdentityInit ==
    /\ wiBorn = 1
    /\ \E hs \in (SUBSET Handles) \ {{}} :
        /\ wiOpened = Cardinality(hs)
        /\ wiWindow \in [Handles -> {NoWindow} \union
                [id : 1..wiOpened, born : {1}, title : {Ours, "other"},
                 at : {"first"}, mark : {0}]]
        /\ \A h \in Handles : IsOpen(h) <=> h \in hs
        /\ \A h, g \in hs : wiWindow[h].id = wiWindow[g].id => h = g
    /\ wiPc = "rest" /\ wiTodo = {} /\ wiSnap = 0 /\ wiRead = Nothing
    /\ wiCands = {} /\ wiOriginal = NoOriginal
    /\ wiMarked = [id |-> 0, places |-> {}] /\ wiUnseen = FALSE

-----------------------------------------------------------------------------
(* enumerate_candidates, for a capture, its verification and a move *)

StartReading(from, to) ==
    /\ wiPc = from
    /\ wiPc' = to
    /\ wiTodo' = {h \in Handles : IsOpen(h)}
    /\ wiCands' = {} /\ wiSnap' = 0
    /\ UNCHANGED <<wiRead, wiOriginal>>

\* snapshot_process_identities, after the windows were listed.
SnapshotProcesses ==
    /\ wiPc \in Reading /\ wiSnap = 0
    /\ wiSnap' = wiBorn
    /\ UNCHANGED <<wiPc, wiTodo, wiRead, wiCands, wiOriginal>>

\* read_candidate up to the first look at its process: the window that was listed
\* may have gone, and its process be another than in the snapshot.
ReadPlace ==
    /\ wiPc \in Reading /\ wiSnap # 0 /\ wiRead = Nothing
    /\ \E h \in wiTodo :
        IF IsOpen(h) /\ wiWindow[h].born = wiSnap /\ wiBorn = wiSnap
        THEN wiRead' = [handle |-> h, at |-> wiWindow[h].at] /\ UNCHANGED wiTodo
        ELSE wiTodo' = wiTodo \ {h} /\ UNCHANGED wiRead
    /\ UNCHANGED <<wiPc, wiSnap, wiCands, wiOriginal>>

\* The title, and the second look at the process.
ReadTitle ==
    /\ wiPc \in Reading /\ wiRead # Nothing
    /\ LET h == wiRead.handle IN
       /\ wiTodo' = wiTodo \ {h}
       /\ wiCands' = IF IsOpen(h) /\ wiBorn = wiSnap
                     THEN wiCands \union {[handle |-> h, at |-> wiRead.at,
                                           title |-> wiWindow[h].title]}
                     ELSE wiCands
    /\ wiRead' = Nothing
    /\ UNCHANGED <<wiPc, wiSnap, wiOriginal>>

\* A call fails: the window is skipped.
ReadFails ==
    /\ wiPc \in Reading /\ wiSnap # 0
    /\ \E h \in wiTodo : wiTodo' = wiTodo \ {h}
    /\ wiRead' = Nothing
    /\ UNCHANGED <<wiPc, wiSnap, wiCands, wiOriginal>>

AllRead == wiSnap # 0 /\ wiTodo = {}
Matching == {c \in wiCands : c.title = Ours}

LeaveReading(pc) ==
    /\ wiPc' = pc
    /\ UNCHANGED <<wiTodo, wiSnap, wiRead, wiCands, wiOriginal>>

-----------------------------------------------------------------------------
(* The backup: capture, mark, and a second capture that only looks *)

StartCapture == StartReading("rest", "read")

\* resolve_match: only a single match is taken.
ResolveMatch ==
    /\ wiPc = "read" /\ AllRead
    /\ IF Cardinality(Matching) = 1 THEN LeaveReading("mark") ELSE LeaveReading("end")
    /\ UNCHANGED <<wiBorn, wiWindow, wiOpened, wiMarked>>

\* attach_new_window_instance_marker: on what has the handle now.  A window's mark
\* is its number here: no two are the same.
AttachMark ==
    /\ wiPc = "mark"
    /\ \E c \in Matching :
        IF IsOpen(c.handle)
        THEN LET w == wiWindow[c.handle] IN
             /\ wiWindow' = [wiWindow EXCEPT ![c.handle].mark = w.id]
             /\ wiOriginal' = [handle |-> c.handle, born |-> wiSnap, mark |-> w.id, at |-> c.at]
             /\ wiMarked' = [id |-> w.id, places |-> {w.at}]
             /\ wiPc' = "verify"
        ELSE wiPc' = "end" /\ UNCHANGED <<wiWindow, wiOriginal, wiMarked>>
    /\ UNCHANGED <<wiBorn, wiOpened, wiTodo, wiSnap, wiRead, wiCands>>

StartVerify == StartReading("verify", "again")

\* bind_original_window_markers, resolve_original_candidate: the same handle, the
\* same process, and the mark still on it.
IsMarked(c) ==
    /\ c.title = Ours /\ c.handle = wiOriginal.handle
    /\ wiSnap = wiOriginal.born
    /\ wiWindow[c.handle].mark = wiOriginal.mark

Bug_VerifyCapture ==
    /\ wiPc = "again" /\ AllRead
    /\ IF Cardinality(Matching) = 1 /\ (\A c \in Matching : IsMarked(c))
       THEN LeaveReading("kept") ELSE LeaveReading("end")
    /\ UNCHANGED <<wiBorn, wiWindow, wiOpened, wiMarked>>

\* verify_captured_window_layout_originals: the place is compared too, so that a
\* place read from one window is not kept for another.
VerifyCapture ==
    /\ wiPc = "again" /\ AllRead
    /\ IF /\ Cardinality(Matching) = 1
          /\ \A c \in Matching : IsMarked(c) /\ c.at = wiOriginal.at
       THEN LeaveReading("kept") ELSE LeaveReading("end")
    /\ UNCHANGED <<wiBorn, wiWindow, wiOpened, wiMarked>>

-----------------------------------------------------------------------------
(* mutate_transaction, for the one window *)

StartMove == StartReading("kept", "plan")

PlanMove ==
    /\ wiPc = "plan" /\ AllRead
    /\ IF \E c \in wiCands : IsMarked(c) /\ c.at = wiOriginal.at
       THEN /\ wiPc' = "fresh"
            /\ wiTodo' = {wiOriginal.handle} /\ wiSnap' = wiOriginal.born
            /\ wiCands' = {}
            /\ UNCHANGED <<wiRead, wiOriginal>>
       ELSE LeaveReading("end")
    /\ UNCHANGED <<wiBorn, wiWindow, wiOpened, wiMarked>>

\* refresh_candidate: read once more, and the mark looked at last.
RefreshOriginal ==
    /\ wiPc = "fresh" /\ AllRead
    /\ IF \E c \in wiCands : IsMarked(c) /\ c.at = wiOriginal.at
       THEN LeaveReading("move") ELSE LeaveReading("end")
    /\ UNCHANGED <<wiBorn, wiWindow, wiOpened, wiMarked>>

\* SetWindowPlacement, on what has the handle now.
MoveWindow ==
    /\ wiPc = "move"
    /\ LET h == wiOriginal.handle IN
       IF IsOpen(h) THEN wiWindow' = [wiWindow EXCEPT ![h].at = "desired"]
       ELSE UNCHANGED wiWindow
    /\ LeaveReading("end")
    /\ UNCHANGED <<wiBorn, wiOpened, wiMarked>>

-----------------------------------------------------------------------------
(* The program whose window it is, and the user *)

OpenWindow(h, w) ==
    /\ ~IsOpen(h) /\ wiOpened < MaxOpened
    /\ wiOpened' = wiOpened + 1
    /\ wiWindow' = [wiWindow EXCEPT ![h] =
            [id |-> wiOpened', born |-> wiBorn, title |-> w.title, at |-> w.at, mark |-> 0]]
    /\ UNCHANGED wiBorn

CloseWindow(h) ==
    /\ IsOpen(h)
    /\ wiWindow' = [wiWindow EXCEPT ![h] = NoWindow]
    /\ UNCHANGED <<wiBorn, wiOpened>>

ChangeWindow(h, w) ==
    /\ IsOpen(h)
    /\ wiWindow' = [wiWindow EXCEPT ![h].title = w.title, ![h].at = w.at]
    /\ wiWindow' # wiWindow
    /\ UNCHANGED <<wiBorn, wiOpened>>

\* The process ends, its windows go with it, and another gets its id.
ReplaceProcess ==
    /\ wiBorn' = wiBorn + 1
    /\ wiWindow' = [h \in Handles |-> NoWindow]
    /\ UNCHANGED wiOpened

IdentityStep ==
    /\ \/ /\ StartVerify \/ SnapshotProcesses \/ ReadPlace \/ ReadTitle
          /\ UNCHANGED <<wiBorn, wiWindow, wiOpened, wiMarked>>
       \/ ResolveMatch \/ AttachMark \/ VerifyCapture \/ PlanMove \/ RefreshOriginal
       \/ MoveWindow
    /\ wiUnseen' = (wiUnseen /\ wiPc' = wiPc)

IdentityUserStep ==
    /\ StartCapture \/ StartMove
    /\ UNCHANGED <<wiBorn, wiWindow, wiOpened, wiMarked>>
    /\ wiUnseen' = FALSE

IdentityFault ==
    \/ /\ ReadFails
       /\ UNCHANGED <<wiBorn, wiWindow, wiOpened, wiMarked, wiUnseen>>
    \/ /\ \/ ReplaceProcess
          \/ \E h \in Handles :
                \/ CloseWindow(h)
                \/ \E w \in [title : {Ours, "other"}, at : {"first", "second"}] :
                      OpenWindow(h, w) \/ ChangeWindow(h, w)
       /\ wiMarked' = [wiMarked EXCEPT !.places = @ \union
                {wiWindow'[h].at : h \in {g \in Handles :
                    wiMarked.id # 0 /\ wiWindow'[g].id = wiMarked.id}}]
       /\ wiUnseen' = (wiUnseen \/ wiPc = "move")
       /\ UNCHANGED <<wiPc, wiTodo, wiSnap, wiRead, wiCands, wiOriginal>>

IdentityNext == IdentityStep \/ IdentityUserStep \/ IdentityFault

IdentitySpec == IdentityInit /\ [][IdentityNext]_wivars

-----------------------------------------------------------------------------

\* A window is not mistaken for another.  The place that is kept for the undo is
\* one where the marked window itself stood, though it was read before the mark
\* was put on; and the only window that is ever moved is the marked one, however
\* handles and process ids were given to others in between, unless the handle
\* changed hands after the last look at it, which no call of Windows can exclude.
WindowIsNotMistaken ==
    /\ [](wiPc = "kept" => wiOriginal.at \in wiMarked.places)
    /\ [][\A h \in Handles :
              wiPc = "move" /\ wiPc' = "end" /\ wiWindow'[h] # wiWindow[h]
                  => wiWindow[h].id = wiMarked.id \/ wiUnseen]_wivars

=============================================================================
