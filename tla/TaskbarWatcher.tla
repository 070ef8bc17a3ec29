--------------------------- MODULE TaskbarWatcher ---------------------------
(***************************************************************************)
(* The taskbar is hidden while the window in front is maximized: the       *)
(* watcher's state machine, the poll that carries out its decisions, the   *)
(* file that remembers across crashes that the taskbar is hidden, and the  *)
(* command that switches the feature on and off.  It changes its setting   *)
(* without the engine and its journal.                                     *)
(*                                                                         *)
(* A poll is one step up to the decision and one per access to the file,   *)
(* the lock or the taskbar afterwards.                                     *)
(***************************************************************************)
EXTENDS Naturals

VARIABLES
    tbBit,      \* ABS_AUTOHIDE: TRUE while the taskbar hides itself
    tbBy,       \* history: "watcher" or "user", who set the bit
    tbFront,    \* the window in front: "maximized", "normal", "unknown"
    tbFile,     \* the setting, in memory and on disk: enabled, restore_to
    tbShown,    \* what the UI is told: released, not_applicable
    tbWatch,    \* TaskbarWatcher
    tbWork,     \* the watcher thread
    tbCommand,  \* set_taskbar_auto_hide between its get and its set
    tbExcused   \* history: "failed" calls, a "stale" set, writes of "others"

tbvars == <<tbBit, tbBy, tbFront, tbFile, tbShown, tbWatch, tbWork, tbCommand,
            tbExcused>>

REQUIRED_STREAK == 2

\* Option<bool>: the value to go back to.
RestoreTo == {"none", "shown", "hidden"}
AsValue(bit) == IF bit THEN "hidden" ELSE "shown"

NewWatch == [streak |-> "none", count |-> 0, owned |-> "none",
             released |-> FALSE, baseline |-> "none", notApplicable |-> FALSE]

Ready == [pc |-> "idle", why |-> "none", expected |-> FALSE, target |-> FALSE]

NoCommand == [pc |-> "none", enabled |-> FALSE, restore_to |-> "none"]

TaskbarTypeOK ==
    /\ tbBit \in BOOLEAN
    /\ tbBy \in {"watcher", "user"}
    /\ tbFront \in {"maximized", "normal", "unknown"}
    /\ tbFile \in [enabled : BOOLEAN, restore_to : RestoreTo]
    /\ tbShown \in [released : BOOLEAN, notApplicable : BOOLEAN]
    /\ tbWatch \in [streak : {"none", "maximized", "normal"},
                    count : 0..REQUIRED_STREAK,
                    owned : {"none", "hidden", "shown"}, released : BOOLEAN,
                    baseline : RestoreTo, notApplicable : BOOLEAN]
    /\ tbWork \in [pc : {"down", "idle", "record", "lock", "write", "clear",
                         "restore", "restoreWrite", "restoreClear"},
                   why : {"none", "boot", "off", "drop"},
                   expected : BOOLEAN, target : BOOLEAN]
    /\ tbCommand \in [pc : {"none", "read"}, enabled : BOOLEAN,
                      restore_to : RestoreTo]
    /\ tbExcused \subseteq {"failed", "stale", "others"}

TaskbarInit ==
    /\ tbBit \in BOOLEAN
    /\ tbBy = "user"
    /\ tbFront = "normal"
    /\ tbFile = [enabled |-> FALSE, restore_to |-> "none"]
    /\ tbShown = [released |-> FALSE, notApplicable |-> FALSE]
    /\ tbWatch = NewWatch
    /\ tbWork = Ready
    /\ tbCommand = NoCommand
    /\ tbExcused = {}

-----------------------------------------------------------------------------
\* TaskbarWatcher::evaluate, in the order of its early returns.
Baseline(w, bit) == IF w.baseline = "none" THEN AsValue(bit) ELSE w.baseline

\* The user's own setting is to hide always: there is nothing to do.
AlwaysHides(w, bit) == w.notApplicable \/ Baseline(w, bit) = "hidden"

\* The bit is not what the watcher wrote last.
Taken(w, bit) == w.owned # "none" /\ w.owned # AsValue(bit)

Bug_Counted(w, front) == IF w.streak = front THEN w.count + 1 ELSE 1

Counted(w, front) ==
    IF w.streak = front /\ w.count < REQUIRED_STREAK THEN w.count + 1
    ELSE IF w.streak = front THEN w.count ELSE 1

Wanted(front) == IF front = "maximized" THEN "hidden" ELSE "shown"

\* It shows the taskbar only after it has hidden it.
Acts(w, front) ==
    /\ Counted(w, front) = REQUIRED_STREAK
    /\ w.owned # Wanted(front)
    /\ w.owned # "none" \/ front = "maximized"

Decision(w, front, bit) ==
    CASE w.released                        -> "Idle"
      [] ~w.released /\ AlwaysHides(w, bit) -> "NotApplicable"
      [] ~w.released /\ ~AlwaysHides(w, bit) /\ Taken(w, bit) -> "ReleaseOwnership"
      [] ~w.released /\ ~AlwaysHides(w, bit) /\ ~Taken(w, bit) ->
            IF front = "unknown" \/ ~Acts(w, front) THEN "Idle"
            ELSE IF front = "maximized" THEN "Hide" ELSE "Show"

\* The ownership is taken here, before anything is written.
Evaluated(w, front, bit) ==
    LET known == [w EXCEPT !.baseline = Baseline(w, bit)]
        counted == [known EXCEPT !.streak = front, !.count = Counted(w, front)]
    IN  CASE w.released -> w
          [] Decision(w, front, bit) = "NotApplicable" ->
                [known EXCEPT !.notApplicable = TRUE]
          [] Decision(w, front, bit) = "ReleaseOwnership" ->
                [known EXCEPT !.released = TRUE, !.streak = "none", !.count = 0]
          [] Decision(w, front, bit) = "Idle" /\ ~w.released ->
                IF front = "unknown" THEN known ELSE counted
          [] Decision(w, front, bit) \in {"Hide", "Show"} ->
                [counted EXCEPT !.owned = Wanted(front)]

Bug_OwnsHidden == tbWatch.owned = "shown" /\ ~tbWatch.released

OwnsHidden == tbWatch.owned = "hidden" /\ ~tbWatch.released

-----------------------------------------------------------------------------
Goto(pc) == tbWork' = [tbWork EXCEPT !.pc = pc]

\* follow_taskbar_auto_hide up to the decision, switched on.
PollOn ==
    LET decision == Decision(tbWatch, tbFront, tbBit) IN
    /\ tbWork.pc = "idle" /\ tbFile.enabled
    /\ tbWatch' = Evaluated(tbWatch, tbFront, tbBit)
    /\ tbShown' = [released |-> tbShown.released \/ decision = "ReleaseOwnership",
                   notApplicable |-> tbShown.notApplicable
                                       \/ decision = "NotApplicable"]
    /\ tbWork' = [Ready EXCEPT
            !.pc = CASE decision = "Hide" -> "record"
                     [] decision = "Show" -> "lock"
                     [] OTHER -> "idle",
            !.expected = tbBit, !.target = decision = "Hide"]
    /\ UNCHANGED <<tbBit, tbBy, tbFront, tbFile, tbCommand, tbExcused>>

\* Switched off: what it hid is restored, and the watcher starts anew.
PollOff ==
    /\ tbWork.pc = "idle" /\ ~tbFile.enabled
    /\ tbWork' = IF OwnsHidden
                 THEN [Ready EXCEPT !.pc = "restore", !.why = "off",
                                    !.target = tbWatch.baseline = "hidden"]
                 ELSE tbWork
    /\ tbWatch' = IF OwnsHidden THEN tbWatch ELSE NewWatch
    /\ UNCHANGED <<tbBit, tbBy, tbFront, tbFile, tbShown, tbCommand, tbExcused>>

\* record_hiding: the value to go back to is stored before the bit is set.
RecordHiding ==
    /\ tbWork.pc = "record"
    /\ tbFile' = [tbFile EXCEPT !.restore_to = tbWatch.baseline]
    /\ Goto("lock")
    /\ UNCHANGED <<tbBit, tbBy, tbFront, tbShown, tbWatch, tbCommand, tbExcused>>

RecordHidingFails ==
    /\ tbWork.pc = "record"
    /\ tbWatch' = NewWatch
    /\ tbWork' = Ready
    /\ UNCHANGED <<tbBit, tbBy, tbFront, tbFile, tbShown, tbCommand, tbExcused>>

Lock ==
    /\ tbWork.pc = "lock"
    /\ Goto("write")
    /\ UNCHANGED <<tbBit, tbBy, tbFront, tbFile, tbShown, tbWatch, tbCommand,
                   tbExcused>>

\* The poll ends without a write: the lock was not granted, or the taskbar
\* could not be read or written.
GiveUpWrite ==
    /\ tbWork.pc \in {"lock", "write"}
    /\ tbWork' = Ready
    /\ tbExcused' = tbExcused \union {"failed"}
    /\ UNCHANGED <<tbBit, tbBy, tbFront, tbFile, tbShown, tbWatch, tbCommand>>

\* replace_taskbar_auto_hide: compare, set, read again.
Replace ==
    /\ tbWork.pc = "write"
    /\ IF tbBit = tbWork.expected
       THEN /\ tbBit' = tbWork.target
            /\ tbBy' = "watcher"
            /\ tbWork' = IF tbWork.target THEN Ready
                         ELSE [tbWork EXCEPT !.pc = "clear"]
       ELSE /\ tbWork' = Ready
            /\ UNCHANGED <<tbBit, tbBy>>
    /\ UNCHANGED <<tbFront, tbFile, tbShown, tbWatch, tbCommand, tbExcused>>

\* clear_hiding, which may fail and then leaves the record.
ClearHiding(kept) ==
    /\ tbWork.pc = "clear"
    /\ tbFile' = IF kept THEN tbFile ELSE [tbFile EXCEPT !.restore_to = "none"]
    /\ tbWork' = Ready
    /\ UNCHANGED <<tbBit, tbBy, tbFront, tbShown, tbWatch, tbCommand, tbExcused>>

-----------------------------------------------------------------------------
\* Where restore_taskbar_to returns to.
Back ==
    /\ tbWork' = [Ready EXCEPT !.pc = IF tbWork.why = "drop" THEN "down" ELSE "idle"]
    /\ tbWatch' = NewWatch

\* restore_taskbar_to: read, compare-and-set unless it is back, forget.  It
\* holds no lock.
RestoreTaskbar ==
    /\ tbWork.pc = "restore"
    /\ tbWork' = [tbWork EXCEPT
            !.expected = tbBit,
            !.pc = IF tbBit = tbWork.target THEN "restoreClear" ELSE "restoreWrite"]
    /\ UNCHANGED <<tbBit, tbBy, tbFront, tbFile, tbShown, tbWatch, tbCommand,
                   tbExcused>>

RestoreWrite ==
    /\ tbWork.pc = "restoreWrite" /\ tbBit = tbWork.expected
    /\ tbBit' = tbWork.target
    /\ tbBy' = "watcher"
    /\ Goto("restoreClear")
    /\ UNCHANGED <<tbFront, tbFile, tbShown, tbWatch, tbCommand, tbExcused>>

RestoreClear(kept) ==
    /\ tbWork.pc = "restoreClear"
    /\ tbFile' = IF kept THEN tbFile ELSE [tbFile EXCEPT !.restore_to = "none"]
    /\ Back
    /\ UNCHANGED <<tbBit, tbBy, tbFront, tbShown, tbCommand, tbExcused>>

\* It cannot be read or set, or somebody was faster: the record stays.
RestoreGivesUp ==
    /\ tbWork.pc \in {"restore", "restoreWrite"}
    /\ Back
    /\ tbExcused' = tbExcused \union {"failed"}
    /\ UNCHANGED <<tbBit, tbBy, tbFront, tbFile, tbShown, tbCommand>>

-----------------------------------------------------------------------------
\* The end of the watcher thread: the guard's Drop.
StopTaskbar ==
    /\ tbWork.pc = "idle"
    /\ tbCommand = NoCommand
    /\ tbWork' = IF OwnsHidden
                 THEN [Ready EXCEPT !.pc = "restore", !.why = "drop",
                                    !.target = tbWatch.baseline = "hidden"]
                 ELSE [Ready EXCEPT !.pc = "down"]
    /\ UNCHANGED <<tbBit, tbBy, tbFront, tbFile, tbShown, tbWatch, tbCommand,
                   tbExcused>>

CrashTaskbar ==
    /\ tbWork.pc # "down"
    /\ tbWork' = [Ready EXCEPT !.pc = "down"]
    /\ tbCommand' = NoCommand
    /\ UNCHANGED <<tbBit, tbBy, tbFront, tbFile, tbShown, tbWatch, tbExcused>>

Bug_BootTaskbar ==
    /\ tbWork.pc = "down"
    /\ tbWork' = Ready
    /\ tbWatch' = NewWatch
    /\ tbShown' = [released |-> FALSE, notApplicable |-> FALSE]
    /\ tbFile' = [tbFile EXCEPT !.restore_to = "none"]
    /\ tbExcused' = tbExcused \ {"others"}
    /\ UNCHANGED <<tbBit, tbBy, tbFront, tbCommand>>

\* recover_taskbar_from_previous_run comes before the first poll.
BootTaskbar ==
    /\ tbWork.pc = "down"
    /\ tbWork' = IF tbFile.restore_to = "none" THEN Ready
                 ELSE [Ready EXCEPT !.pc = "restore", !.why = "boot",
                                    !.target = tbFile.restore_to = "hidden"]
    /\ tbWatch' = NewWatch
    /\ tbShown' = [released |-> FALSE, notApplicable |-> FALSE]
    /\ tbExcused' = tbExcused \ {"others"}
    /\ UNCHANGED <<tbBit, tbBy, tbFront, tbFile, tbCommand>>

\* set_taskbar_auto_hide: get, then set with the record that was read.
CommandRead(enabled) ==
    /\ tbWork.pc # "down" /\ tbCommand.pc = "none"
    /\ tbCommand' = [pc |-> "read", enabled |-> enabled,
                     restore_to |-> tbFile.restore_to]
    /\ UNCHANGED <<tbBit, tbBy, tbFront, tbFile, tbShown, tbWatch, tbWork, tbExcused>>

CommandWrite ==
    /\ tbCommand.pc = "read"
    /\ tbFile' = [enabled |-> tbCommand.enabled, restore_to |-> tbCommand.restore_to]
    /\ tbShown' = [released |-> FALSE, notApplicable |-> FALSE]
    /\ tbCommand' = NoCommand
    /\ tbExcused' = IF tbCommand.restore_to = tbFile.restore_to THEN tbExcused
                    ELSE tbExcused \union {"stale"}
    /\ UNCHANGED <<tbBit, tbBy, tbFront, tbWatch, tbWork>>

CommandFails ==
    /\ tbCommand.pc = "read"
    /\ tbCommand' = NoCommand
    /\ UNCHANGED <<tbBit, tbBy, tbFront, tbFile, tbShown, tbWatch, tbWork, tbExcused>>

FrontChanges(front) ==
    /\ front # tbFront
    /\ tbFront' = front
    /\ UNCHANGED <<tbBit, tbBy, tbFile, tbShown, tbWatch, tbWork, tbCommand, tbExcused>>

UserSetsBit ==
    /\ tbBit' = ~tbBit
    /\ tbBy' = "user"
    /\ tbExcused' = tbExcused \union {"others"}
    /\ UNCHANGED <<tbFront, tbFile, tbShown, tbWatch, tbWork, tbCommand>>

TaskbarStep ==
    \/ PollOn \/ PollOff
    \/ RecordHiding \/ Lock \/ Replace \/ ClearHiding(FALSE)
    \/ RestoreTaskbar \/ RestoreWrite \/ RestoreClear(FALSE)
    \/ tbWork.pc = "restoreWrite" /\ tbBit # tbWork.expected /\ RestoreGivesUp
    \/ BootTaskbar

TaskbarUserStep ==
    \/ \E enabled \in BOOLEAN : CommandRead(enabled)
    \/ CommandWrite
    \/ \E front \in {"maximized", "normal", "unknown"} : FrontChanges(front)
    \/ StopTaskbar

TaskbarFault ==
    \/ RecordHidingFails \/ GiveUpWrite \/ ClearHiding(TRUE)
    \/ RestoreClear(TRUE) \/ RestoreGivesUp
    \/ CommandFails \/ CrashTaskbar \/ UserSetsBit

TaskbarSpec ==
    TaskbarInit /\ [][TaskbarStep \/ TaskbarUserStep \/ TaskbarFault]_tbvars

-----------------------------------------------------------------------------
\* While the taskbar is hidden by the watcher, the value to go back to is on
\* disk, so that the next start finds it after a crash (watcher.rs: it is stored
\* before the bit is set).  A settings command that read the file before and
\* writes it after the watcher may lose the record.  What is recorded is never a
\* hidden taskbar: not after a crash either, when what the watcher finds may be
\* what it wrote itself.
HidingIsRecorded ==
    /\ tbBit /\ tbBy = "watcher" => tbFile.restore_to = "shown" \/ "stale" \in tbExcused
    /\ tbFile.restore_to # "hidden" /\ tbCommand.restore_to # "hidden"

\* What the watcher hid is shown again after the feature is switched off; it is kept
\* hidden if a call failed: then only the next start tries again.
TaskbarIsGivenBack ==
    tbBit /\ tbBy = "watcher" /\ ~tbFile.enabled
        ~> \/ ~tbBit \/ tbBy = "user" \/ tbFile.enabled
           \/ tbExcused \intersect {"failed", "stale"} # {}

=============================================================================
