----------------------------- MODULE ModeRibbon ------------------------------
(***************************************************************************)
(* The mode ribbon: a strip above the taskbar in the colour of the mode    *)
(* that was activated last.  Three threads share it: the main thread runs  *)
(* the commands, the watcher reports the games, and the thread of the      *)
(* ribbon's window repaints at a message, or at the latest each second.    *)
(***************************************************************************)
EXTENDS Naturals, Sequences, SequencesExt

CONSTANTS
    GameModes, ManualModes,     \* the profiles
    Colours                     \* ModeRibbonColor

ASSUME RibbonAssumption ==
    /\ GameModes \intersect ManualModes = {}
    /\ {"none", "gone"} \intersect Colours = {}

VARIABLES
    mrBegan,    \* the modes that are active, in the order they began; of modes
                \* in one set the window's thread was told of none when the last
                \* of them began
    mrColour,   \* ribbon_color of the profiles in the store
    mrEntries,  \* RibbonSelection: game and manual, by activation_order
    mrMain,     \* main thread
    mrWatch,    \* watcher thread, and the list it is about to hand over
    mrThread,   \* the thread that owns the window
    mrSignals,  \* ControllerInner.stop, WM_CLOSE posted
    mrShown,    \* the window: its colour, "none" when hidden, "gone" without one
    mrDesk,     \* "clear", or "covered": the window in front fills its screen, or the
                \* taskbar hides itself, is not at the bottom or cannot be read
    mrStale     \* history: modes that ended without the ribbon being told

mrvars == <<mrBegan, mrColour, mrEntries, mrMain, mrWatch, mrThread, mrSignals,
            mrShown, mrDesk, mrStale>>

Modes == GameModes \union ManualModes
NoColour == "none"
RibbonColours == Colours \union {NoColour}
Active == UNION ToSet(mrBegan)
Listed(ms) == [m \in ms |-> mrColour[m]]
ModesListed(entries) == {e.mode : e \in ToSet(entries)}

AtMain(pc) == [pc |-> pc, mode |-> NoColour]
AtWatch(pc) == [pc |-> pc, list |-> << >>]

RibbonTypeOK ==
    /\ Active \subseteq Modes
    /\ mrColour \in [Modes -> RibbonColours]
    /\ ModesListed(mrEntries) \subseteq Modes
    /\ mrMain.pc \in {"spawn", "sync", "idle", "colour", "shutdown", "join",
                      "without", "exited"}
    /\ mrMain.mode \in Modes \union {NoColour}
    /\ mrWatch.pc \in {"off", "idle", "sync", "ended"}
    /\ mrThread \in {"creating", "loop", "ended"}
    /\ mrSignals \subseteq {"stop", "close"}
    /\ mrShown \in RibbonColours \union {"gone"}
    /\ mrDesk \in {"clear", "covered"}
    /\ mrStale \subseteq ManualModes

\* The program starts; manual modes may be active from its last run.
RibbonInit ==
    /\ \E ms \in SUBSET ManualModes : mrBegan = SelectSeq(<<ms>>, LAMBDA s : s # {})
    /\ mrColour \in [Modes -> RibbonColours]
    /\ mrEntries = << >>
    /\ mrMain = AtMain("spawn") /\ mrWatch = AtWatch("off")
    /\ mrThread = "creating" /\ mrSignals = {}
    /\ mrShown = "gone" /\ mrDesk = "clear"
    /\ mrStale = {}

-----------------------------------------------------------------------------
WithoutModes(began, ms) ==
    SelectSeq([i \in DOMAIN began |-> began[i] \ ms], LAMBDA s : s # {})

\* Modes begin, together with those of which nothing is known yet.
WithModes(began, ms) ==
    LET untold == UNION ToSet(began) \ ModesListed(mrEntries) IN
    IF ms = {} THEN began ELSE Append(WithoutModes(began, untold), untold \union ms)

Bug_Sync(scope, list) ==
    LET kept == SelectSeq(mrEntries, LAMBDA e : e.mode \in DOMAIN list)
        new == DOMAIN list \ ModesListed(kept)
    IN  \E order \in SetToSeqs(new) :
            mrEntries' =
                [i \in DOMAIN kept |-> [kept[i] EXCEPT
                    !.colour = IF kept[i].mode \in DOMAIN list THEN list[kept[i].mode] ELSE @]]
                \o [i \in DOMAIN order |-> [mode |-> order[i], colour |-> list[order[i]]]]

\* RibbonSelection::sync: what is listed keeps its place and takes the listed
\* colour, what is new comes last, in the order of a HashMap.
Sync(scope, list) ==
    LET kept == SelectSeq(mrEntries,
                          LAMBDA e : e.mode \in scope => e.mode \in DOMAIN list)
        new == DOMAIN list \ ModesListed(kept)
    IN  \E order \in SetToSeqs(new) :
            mrEntries' =
                [i \in DOMAIN kept |-> [kept[i] EXCEPT
                    !.colour = IF kept[i].mode \in DOMAIN list THEN list[kept[i].mode] ELSE @]]
                \o [i \in DOMAIN order |-> [mode |-> order[i], colour |-> list[order[i]]]]

\* RibbonSelection::selected_color: a mode without a colour hides those before it.
Selected == IF mrEntries = << >> THEN NoColour ELSE Last(mrEntries).colour

-----------------------------------------------------------------------------
\* run_window_loop up to the first message.
CreateRibbon ==
    /\ mrThread = "creating"
    /\ mrThread' = "loop" /\ mrShown' = NoColour
    /\ UNCHANGED <<mrBegan, mrColour, mrEntries, mrMain, mrWatch, mrSignals, mrDesk, mrStale>>

\* The window or its timer cannot be made.
CreateRibbonFails ==
    /\ mrThread = "creating"
    /\ mrThread' = "ended"
    /\ UNCHANGED <<mrBegan, mrColour, mrEntries, mrMain, mrWatch, mrSignals, mrShown, mrDesk,
                   mrStale>>

EndRibbon == mrThread' = "ended" /\ mrShown' = "gone"

\* RibbonWindow::refresh, or the end when the controller was stopped.
RepaintRibbon ==
    \/ "stop" \in mrSignals /\ EndRibbon
    \/ /\ "stop" \notin mrSignals
       /\ mrShown' = IF mrDesk = "clear" THEN Selected ELSE NoColour
       /\ UNCHANGED mrThread

\* A refresh message, or the timer: a message that is not posted costs a second.
RefreshRibbon ==
    /\ mrThread = "loop"
    /\ RepaintRibbon
    /\ UNCHANGED <<mrBegan, mrColour, mrEntries, mrMain, mrWatch, mrSignals, mrDesk, mrStale>>

\* SetWindowPos fails: hidden until the next timer.
ShowRibbonFails ==
    /\ mrThread = "loop" /\ mrShown \in Colours
    /\ mrShown' = NoColour
    /\ UNCHANGED <<mrBegan, mrColour, mrEntries, mrMain, mrWatch, mrThread, mrSignals,
                   mrDesk, mrStale>>

\* WM_CLOSE: from the controller, or, as a fault, from another program.
CloseRibbon ==
    /\ mrThread = "loop" /\ EndRibbon
    /\ UNCHANGED <<mrBegan, mrColour, mrEntries, mrMain, mrWatch, mrSignals, mrDesk, mrStale>>

-----------------------------------------------------------------------------
\* ModeRibbonController::spawn: the thread is ready, or has failed.
SpawnReturns ==
    /\ mrMain.pc = "spawn" /\ mrThread # "creating"
    /\ mrMain' = AtMain(IF mrThread = "loop" THEN "sync" ELSE "without")
    /\ UNCHANGED <<mrBegan, mrColour, mrEntries, mrWatch, mrThread, mrSignals, mrShown,
                   mrDesk, mrStale>>

\* The thread is not ready after five seconds: it is stopped and waited for.
SpawnTimesOut ==
    /\ mrMain.pc = "spawn"
    /\ mrSignals' = {"stop"} /\ mrMain' = AtMain("join")
    /\ UNCHANGED <<mrBegan, mrColour, mrEntries, mrWatch, mrThread, mrShown, mrDesk, mrStale>>

\* sync_manual_mode_ribbons, at the start and after a command.  The watcher is
\* started after the first.
SyncManual ==
    /\ mrMain.pc = "sync"
    /\ Sync(ManualModes, Listed(Active \intersect ManualModes))
    /\ mrMain' = AtMain("idle")
    /\ mrWatch' = IF mrWatch.pc = "off" THEN AtWatch("idle") ELSE mrWatch
    /\ mrStale' = mrStale \intersect Active
    /\ UNCHANGED <<mrBegan, mrColour, mrThread, mrSignals, mrShown, mrDesk>>

\* profile_run_now and profile_restore_now; ProfileStore and RecordedRuns have
\* their inside.  An error returns before the ribbon is told.
RunMode(m) ==
    /\ mrMain.pc = "idle" /\ m \notin Active
    /\ mrBegan' = WithModes(mrBegan, {m})
    /\ mrMain' = AtMain("sync")
    /\ UNCHANGED <<mrColour, mrEntries, mrWatch, mrThread, mrSignals, mrShown, mrDesk, mrStale>>

RestoreMode(m) ==
    /\ mrMain.pc = "idle" /\ m \in Active
    /\ mrBegan' = WithoutModes(mrBegan, {m})
    /\ mrMain' = AtMain("sync")
    /\ UNCHANGED <<mrColour, mrEntries, mrWatch, mrThread, mrSignals, mrShown, mrDesk, mrStale>>

\* acknowledge_rolled_back_items cannot save the last item: the mode has ended in
\* memory, and the error keeps the ribbon from being told.
RestoreModeUnsaved(m) ==
    /\ mrMain.pc = "idle" /\ m \in Active
    /\ mrBegan' = WithoutModes(mrBegan, {m})
    /\ mrStale' = mrStale \union {m}
    /\ UNCHANGED <<mrColour, mrEntries, mrMain, mrWatch, mrThread, mrSignals, mrShown, mrDesk>>

\* profile_set_ribbon_color: the store, the entry, and the manual modes again.
SetColour(m, c) ==
    /\ mrMain.pc = "idle" /\ c # mrColour[m]
    /\ mrColour' = [mrColour EXCEPT ![m] = c]
    /\ mrMain' = [pc |-> "colour", mode |-> m]
    /\ UNCHANGED <<mrBegan, mrEntries, mrWatch, mrThread, mrSignals, mrShown, mrDesk, mrStale>>

\* RibbonSelection::update_color
UpdateColour ==
    /\ mrMain.pc = "colour"
    /\ mrEntries' = [i \in DOMAIN mrEntries |->
                        IF mrEntries[i].mode = mrMain.mode
                        THEN [mrEntries[i] EXCEPT !.colour = mrColour[mrMain.mode]]
                        ELSE mrEntries[i]]
    /\ mrMain' = AtMain("sync")
    /\ UNCHANGED <<mrBegan, mrColour, mrWatch, mrThread, mrSignals, mrShown, mrDesk, mrStale>>

\* The state is dropped: the watcher is stopped first, then the controller.
Quit ==
    /\ mrMain.pc = "idle"
    /\ mrMain' = AtMain("shutdown")
    /\ UNCHANGED <<mrBegan, mrColour, mrEntries, mrWatch, mrThread, mrSignals, mrShown, mrDesk,
                   mrStale>>

\* ModeRibbonController::drop
DropController ==
    /\ mrMain.pc = "shutdown" /\ mrWatch.pc = "ended"
    /\ mrSignals' = {"stop"} \union IF mrThread = "loop" THEN {"close"} ELSE {}
    /\ mrMain' = AtMain("join")
    /\ UNCHANGED <<mrBegan, mrColour, mrEntries, mrWatch, mrThread, mrShown, mrDesk, mrStale>>

Join ==
    /\ mrMain.pc = "join" /\ mrThread = "ended"
    /\ mrMain' = AtMain(IF mrWatch.pc = "off" THEN "without" ELSE "exited")
    /\ UNCHANGED <<mrBegan, mrColour, mrEntries, mrWatch, mrThread, mrSignals, mrShown,
                   mrDesk, mrStale>>

-----------------------------------------------------------------------------
\* run_cycle, and the list of sync_game_mode_ribbons.
WatchCycle ==
    /\ mrWatch.pc = "idle" /\ mrMain.pc # "shutdown"
    /\ \E games \in SUBSET GameModes :
        /\ mrBegan' = WithModes(WithoutModes(mrBegan, GameModes \ games), games \ Active)
        /\ mrWatch' = [pc |-> "sync", list |-> Listed(games)]
    /\ UNCHANGED <<mrColour, mrEntries, mrMain, mrThread, mrSignals, mrShown, mrDesk, mrStale>>

\* A colour chosen since the list was read is taken back until the next cycle.
WatchSync ==
    /\ mrWatch.pc = "sync"
    /\ Sync(GameModes, mrWatch.list)
    /\ mrWatch' = AtWatch("idle")
    /\ UNCHANGED <<mrBegan, mrColour, mrMain, mrThread, mrSignals, mrShown, mrDesk, mrStale>>

\* The end of run_loop: the games are given back, and no ribbon is theirs.
WatchEnds ==
    /\ mrWatch.pc = "idle" /\ mrMain.pc = "shutdown"
    /\ mrBegan' = WithoutModes(mrBegan, GameModes)
    /\ Sync(GameModes, << >>)
    /\ mrWatch' = AtWatch("ended")
    /\ UNCHANGED <<mrColour, mrMain, mrThread, mrSignals, mrShown, mrDesk, mrStale>>

DeskChanges ==
    /\ mrDesk' \in {"clear", "covered"} \ {mrDesk}
    /\ UNCHANGED <<mrBegan, mrColour, mrEntries, mrMain, mrWatch, mrThread, mrSignals,
                   mrShown, mrStale>>

RibbonThread ==
    CreateRibbon \/ RefreshRibbon \/ ("close" \in mrSignals /\ CloseRibbon)

RibbonMain == SpawnReturns \/ SyncManual \/ UpdateColour \/ DropController \/ Join

RibbonWatch == WatchSync \/ WatchEnds \/ WatchCycle

RibbonUserStep ==
    \/ \E m \in ManualModes : RunMode(m) \/ RestoreMode(m)
    \/ \E m \in Modes, c \in RibbonColours : SetColour(m, c)
    \/ Quit \/ DeskChanges

RibbonFault ==
    \/ CreateRibbonFails \/ SpawnTimesOut \/ ShowRibbonFails \/ CloseRibbon
    \/ \E m \in ManualModes : RestoreModeUnsaved(m)

-----------------------------------------------------------------------------
\* What the window should show: nothing of it once the program gave it up; the
\* colour of the mode that began last where it does not cover anything.
RibbonRuns == mrMain.pc \in {"idle", "sync", "colour"}

ShouldShow ==
    IF ~RibbonRuns THEN {"gone"}
    ELSE IF mrBegan = << >> \/ mrDesk # "clear" THEN {NoColour}
    ELSE {mrColour[m] : m \in Last(mrBegan)}

\* The window is somebody else's to close, and a mode that ended with an error was
\* not told to it.
Excused ==
    \/ mrMain.pc = "spawn"
    \/ RibbonRuns /\ (mrThread = "ended" \/ mrStale # {})

\* The ribbon follows the modes: once the modes, their colours and the desktop stay
\* as they are, it comes to show what it should, through colours chosen while the
\* watcher holds an older list, modes that end in any order, a window that comes to
\* cover the screen, a thread that was not ready in time, and the end of the
\* program (mode_ribbon.rs: it shows the mode that runs, and is gone with the
\* window that the program owns).
RibbonFollowsModes ==
    <>[][UNCHANGED <<mrBegan, mrColour, mrDesk>>]_mrvars =>
        <>[](Excused \/ mrShown \in ShouldShow)

=============================================================================
