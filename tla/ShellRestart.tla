---------------------------- MODULE ShellRestart -----------------------------
(***************************************************************************)
(* Restarting the shell: every explorer.exe of Windows in this session is   *)
(* ended, and the command waits for the taskbar, which Windows brings back  *)
(* by itself or the command starts.  Processes are known by their ids,      *)
(* which Windows gives to others when they are free, and a process that     *)
(* was ended still owns its windows for a moment.                           *)
(***************************************************************************)
EXTENDS Naturals, FiniteSets

CONSTANT ShellPids

VARIABLES
    srProc,     \* what runs under each process id
    srTray,     \* the process that owns the taskbar's window
    srAuto,     \* AutoRestartShell: Windows starts a shell when there is none
    srPc,       \* the command
    srNamed,    \* ids the snapshot named explorer.exe, still to be looked at
    srIds,      \* ids of shells, still to be ended
    srStarted,  \* relaunched
    srAnswer,   \* what the last command said: shell_returned, or an error
    srReused,   \* history: ids given to another process since they were looked at
    srExcused   \* history: why the taskbar may stay away

srvars == <<srProc, srTray, srAuto, srPc, srNamed, srIds, srStarted, srAnswer,
            srReused, srExcused>>

NoPid == "none"
\* explorer.exe of Windows in this session is the shell, or shows folders only; a
\* namesake has its name only.
Kinds == {"free", "shell", "folders", "ended", "namesake", "other"}

RunsAs(kind) == {p \in ShellPids : srProc[p] = kind}
HasTaskbar == srTray # NoPid
LiveTaskbar == HasTaskbar /\ srProc[srTray] = "shell"

RestartTypeOK ==
    /\ srProc \in [ShellPids -> Kinds]
    /\ srTray \in ShellPids \union {NoPid}
    /\ HasTaskbar => srProc[srTray] \in {"shell", "ended"}
    /\ srAuto \in BOOLEAN
    /\ srPc \in {"rest", "look", "end", "wait", "late", "again", "last"}
    /\ srNamed \subseteq ShellPids /\ srIds \subseteq ShellPids
    /\ srStarted \in BOOLEAN
    /\ srAnswer \in {"none", "returned", "missing", "error"}
    /\ srReused \subseteq ShellPids
    /\ srExcused \subseteq {"start", "dying"}

RestartInit ==
    /\ srProc \in [ShellPids -> Kinds \ {"ended"}]
    /\ RunsAs("free") # {} /\ Cardinality(RunsAs("shell")) = 1
    /\ srTray \in RunsAs("shell")
    /\ srAuto \in BOOLEAN
    /\ srPc = "rest" /\ srNamed = {} /\ srIds = {}
    /\ srStarted = FALSE /\ srAnswer = "none"
    /\ srReused = {} /\ srExcused = {}

-----------------------------------------------------------------------------
\* CreateToolhelp32Snapshot
StartRestart ==
    /\ srPc = "rest" /\ srAnswer = "none"
    /\ srPc' = "look"
    /\ srNamed' = UNION {RunsAs(k) : k \in {"shell", "folders", "ended", "namesake"}}
    /\ UNCHANGED <<srProc, srTray, srAuto, srIds, srStarted, srAnswer, srReused, srExcused>>

\* The image is not looked at, only its name.
Bug_IsShell(p) == srProc[p] \in {"shell", "folders", "namesake"}

\* ProcessIdToSessionId, is_windows_shell_image
IsShell(p) == srProc[p] \in {"shell", "folders"}

\* An id that was given away meanwhile is looked at as what it is now.
LookAtPid ==
    /\ srPc = "look"
    /\ \E p \in srNamed :
        /\ srNamed' = srNamed \ {p}
        /\ srIds' = srIds \union {q \in {p} : IsShell(q)}
        /\ srReused' = srReused \ {p}
    /\ UNCHANGED <<srProc, srTray, srAuto, srPc, srStarted, srAnswer, srExcused>>

\* The image of a shell cannot be read.
PidUnreadable ==
    /\ srPc = "look"
    /\ \E p \in srNamed : srNamed' = srNamed \ {p}
    /\ UNCHANGED <<srProc, srTray, srAuto, srPc, srIds, srStarted, srAnswer, srReused,
                   srExcused>>

\* The window of a shell that has ended is a taskbar too.
TaskbarLookedAt == srExcused' = srExcused \union {e \in {"dying"} : ~LiveTaskbar}

\* A taskbar and no shell: the look itself is wrong, and nothing is done.
AllSeen ==
    /\ srPc = "look" /\ srNamed = {}
    /\ IF srIds = {} /\ HasTaskbar
       THEN srPc' = "rest" /\ srAnswer' = "error" /\ TaskbarLookedAt
       ELSE srPc' = "end" /\ UNCHANGED <<srAnswer, srExcused>>
    /\ UNCHANGED <<srProc, srTray, srAuto, srNamed, srIds, srStarted, srReused>>

\* TerminateProcess, on whatever has the id now; it returns before the process is
\* gone with its windows.
EndPid ==
    /\ srPc = "end"
    /\ \E p \in srIds :
        /\ srIds' = srIds \ {p}
        /\ srProc' = [srProc EXCEPT ![p] = IF @ \in {"free", "ended"} THEN @
                                           ELSE IF IsShell(p) THEN "ended" ELSE "free"]
    /\ UNCHANGED <<srTray, srAuto, srPc, srNamed, srStarted, srAnswer, srReused, srExcused>>

EndPidFails ==
    /\ srPc = "end"
    /\ \E p \in srIds : srIds' = srIds \ {p}
    /\ UNCHANGED <<srProc, srTray, srAuto, srPc, srNamed, srStarted, srAnswer, srReused,
                   srExcused>>

AllEnded ==
    /\ srPc = "end" /\ srIds = {}
    /\ srPc' = "wait" /\ srStarted' = FALSE
    /\ UNCHANGED <<srProc, srTray, srAuto, srNamed, srIds, srAnswer, srReused, srExcused>>

\* The taskbar is there: it may be the one of a shell that was ended.
TaskbarSeen ==
    /\ srPc \in {"wait", "late", "last"} /\ HasTaskbar
    /\ srPc' = "rest" /\ srAnswer' = "returned"
    /\ TaskbarLookedAt
    /\ UNCHANGED <<srProc, srTray, srAuto, srNamed, srIds, srStarted, srReused>>

\* After the deadline it is there: the answer looks once more.
TaskbarSeenLate ==
    /\ srPc = "again" /\ HasTaskbar
    /\ srPc' = "last" /\ TaskbarLookedAt
    /\ UNCHANGED <<srProc, srTray, srAuto, srNamed, srIds, srStarted, srAnswer, srReused>>

\* relaunch_shell; a process that cannot be started yet is tried again.
Relaunch(next) ==
    /\ \E p \in RunsAs("free") : srProc' = [srProc EXCEPT ![p] = "shell"]
    /\ srStarted' = TRUE /\ srPc' = next
    /\ UNCHANGED <<srTray, srAuto, srNamed, srIds, srAnswer, srReused, srExcused>>

\* Half of the time is over.
HalfTime ==
    /\ srPc = "wait" /\ ~HasTaskbar
    /\ srPc' = "late"
    /\ UNCHANGED <<srProc, srTray, srAuto, srNamed, srIds, srStarted, srAnswer, srReused,
                   srExcused>>

RelaunchLate == srPc = "late" /\ ~srStarted /\ ~HasTaskbar /\ Relaunch("late")

Bug_Deadline ==
    /\ srPc = "late" /\ ~HasTaskbar
    /\ srPc' = IF srStarted THEN "last" ELSE "again"
    /\ UNCHANGED <<srProc, srTray, srAuto, srNamed, srIds, srStarted, srAnswer, srReused,
                   srExcused>>

\* The time is over.
Deadline ==
    /\ srPc = "late" /\ ~HasTaskbar
    /\ srPc' = "again"
    /\ UNCHANGED <<srProc, srTray, srAuto, srNamed, srIds, srStarted, srAnswer, srReused,
                   srExcused>>

RelaunchAgain == srPc = "again" /\ ~HasTaskbar /\ Relaunch("last")

CannotRelaunch ==
    /\ srPc = "again" /\ ~HasTaskbar
    /\ srPc' = "last" /\ srExcused' = srExcused \union {"start"}
    /\ UNCHANGED <<srProc, srTray, srAuto, srNamed, srIds, srStarted, srAnswer, srReused>>

\* The second wait is over too, or the answer finds none.
GiveUpRestart ==
    /\ srPc = "last" /\ ~HasTaskbar
    /\ srPc' = "rest" /\ srAnswer' = "missing"
    /\ UNCHANGED <<srProc, srTray, srAuto, srNamed, srIds, srStarted, srReused, srExcused>>

-----------------------------------------------------------------------------
\* An ended process goes, and its window with it.
ProcessGoes ==
    /\ \E p \in RunsAs("ended") :
        /\ srProc' = [srProc EXCEPT ![p] = "free"]
        /\ srTray' = IF srTray = p THEN NoPid ELSE srTray
    /\ UNCHANGED <<srAuto, srPc, srNamed, srIds, srStarted, srAnswer, srReused, srExcused>>

\* A shell without a taskbar takes it over; Windows starts one where there is none.
TaskbarAppears ==
    /\ ~HasTaskbar /\ \E p \in RunsAs("shell") : srTray' = p
    /\ UNCHANGED <<srProc, srAuto, srPc, srNamed, srIds, srStarted, srAnswer, srReused,
                   srExcused>>

WindowsRestarts ==
    /\ ~HasTaskbar /\ srAuto /\ RunsAs("shell") = {}
    /\ \E p \in RunsAs("free") :
        /\ srProc' = [srProc EXCEPT ![p] = "shell"]
        /\ srReused' = srReused \union {p}
    /\ UNCHANGED <<srTray, srAuto, srPc, srNamed, srIds, srStarted, srAnswer, srExcused>>

\* The shell ends by itself, the one that was started for the last time included;
\* what happens to it after the command is not looked at.
ShellEnds ==
    /\ srAnswer = "none"
    /\ \E p \in RunsAs("shell") : srProc' = [srProc EXCEPT ![p] = "ended"]
    /\ srExcused' = srExcused \union {e \in {"start"} : srPc = "last"}
    /\ UNCHANGED <<srTray, srAuto, srPc, srNamed, srIds, srStarted, srAnswer, srReused>>

\* Another process gets a free id; one stays free.
ProgramStarts ==
    /\ Cardinality(RunsAs("free")) > 1
    /\ \E p \in RunsAs("free"), kind \in {"namesake", "other"} :
        /\ srProc' = [srProc EXCEPT ![p] = kind]
        /\ srReused' = srReused \union {p}
    /\ UNCHANGED <<srTray, srAuto, srPc, srNamed, srIds, srStarted, srAnswer, srExcused>>

RestartStep ==
    \/ LookAtPid \/ AllSeen \/ EndPid \/ AllEnded \/ TaskbarSeen \/ TaskbarSeenLate \/ HalfTime
    \/ RelaunchLate \/ Deadline \/ RelaunchAgain \/ GiveUpRestart

RestartWindows == ProcessGoes \/ TaskbarAppears \/ WindowsRestarts

RestartFault ==
    PidUnreadable \/ EndPidFails \/ CannotRelaunch \/ ShellEnds \/ ProgramStarts

RestartSpec ==
    /\ RestartInit
    /\ [][RestartStep \/ RestartWindows \/ StartRestart \/ RestartFault]_srvars

-----------------------------------------------------------------------------
\* No process but the shell's own is ended, unless its id was given away between
\* the look at it and the call that ends it, which asks for the id alone.
OnlyShellsAreEnded ==
    [][\A p \in ShellPids \ srReused :
          srProc[p] \in {"namesake", "other"} => srProc'[p] = srProc[p]]_srvars

\* A restart that was begun ends, and after it there is a taskbar: because
\* Windows brought the shell back, because the command started it, or started it
\* again when it did not stay.  Only when it cannot be started at the end of the
\* wait, or when the taskbar the command saw was that of the shell it had just ended
\* and Windows does not restart it, the user is left without one.
ShellIsRestarted ==
    srPc = "look" ~> /\ srAnswer # "none"
                     /\ \/ LiveTaskbar
                        \/ "start" \in srExcused
                        \/ "dying" \in srExcused /\ ~srAuto

=============================================================================
