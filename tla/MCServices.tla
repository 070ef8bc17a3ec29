----------------------------- MODULE MCServices -----------------------------
(***************************************************************************)
(* Small instances of the services around the engine, for TLC.  They share *)
(* no state with one another, so a behaviour is about one of them, chosen   *)
(* at the start ("focus"); the others keep one initial state.  Failing      *)
(* calls, crashes and writes of others are bounded by MaxFaults in all.     *)
(***************************************************************************)
EXTENDS TaskbarWatcher, RecordedRuns, ThemeSchedule, HotCorner,
        CompositeSettings, WindowLayout, WindowRescue, RegistryValue,
        ProfileStore, ModeRibbon, TempCleanup, ShellRestart, WindowIdentity,
        RescueGeometry, SettingCaptures, TrialScreen

CONSTANT MaxFaults

VARIABLES focus, faults

services == <<tbvars, rrvars, thvars, hcvars, csvars, wlvars, rsvars, rvvars, psvars>>
desktop == <<mrvars, tcvars, srvars, wivars, rgvars, scvars, tsvars>>
mcvars == <<services, desktop, focus, faults>>

Monitor(left, top, right, bottom) ==
    [left |-> left, top |-> top, right |-> right, bottom |-> bottom]

\* None, one monitor, two side by side, three in an L, two that meet in a corner
\* only, and pairs that are shifted against each other.
OneMonitor == {Monitor(0, 0, 4, 4)}
SideBySide == {Monitor(0, 0, 4, 4), Monitor(4, 0, 8, 4)}
MCLayouts == {{}, OneMonitor, SideBySide,
              SideBySide \union {Monitor(4, 4, 8, 8)},
              {Monitor(0, 0, 4, 4), Monitor(4, 4, 8, 8)},
              {Monitor(0, 0, 4, 4), Monitor(4, 2, 8, 6)},
              {Monitor(0, 0, 4, 4), Monitor(1, 4, 8, 8)}}

\* Two points in a corner, and one in the middle.
MCSpots == {[x |-> 0, y |-> 0], [x |-> 1, y |-> 0], [x |-> 2, y |-> 2]}

MCWindows == <<1, 2>>

\* A change of two items, and one of one.
MCChangeSizes == <<2, 1>>

\* Windows on, beside and across every edge, small and larger than a screen, and
\* screens alone, shifted, mirrored in another size, and apart.
MCLostRects == {Rect(x, y, x + w, y + h) :
                   x \in {-5, -3, -1, 0, 1, 3, 4, 6}, y \in {-3, -2, 0, 2, 4},
                   w \in {1, 4, 6}, h \in {1, 4}}
OneArea == {Rect(0, 0, 4, 3)}
MCAreaSets == {OneArea,
               OneArea \union {Rect(4, 1, 7, 4)},
               OneArea \union {Rect(0, 0, 3, 1)},
               {Rect(0, 0, 3, 3), Rect(5, 0, 7, 3)},
               {Rect(0, 0, 2, 2), Rect(0, 2, 2, 4), Rect(1, 1, 3, 5)}}

Focus == {"taskbar", "runs", "theme", "corner", "settings", "layout",
          "rescue", "registry", "store", "ribbon", "cleanup", "restart",
          "identity", "geometry", "capture", "screen"}

\* What the parts that are not in focus look like.
NoneActive ==
    mrBegan = << >> /\ mrColour = [m \in Modes |-> NoColour]
NothingOld ==
    /\ tcPlace = CHOOSE p \in [CleanFiles -> Folders] : IsInjective(p)
    /\ tcOld = {}
OneShell ==
    LET p == CHOOSE p \in ShellPids : TRUE IN
    /\ srProc = [q \in ShellPids |-> IF q = p THEN "shell" ELSE "free"]
    /\ srAuto
OneOpen ==
    LET h == CHOOSE h \in Handles : TRUE IN
    wiWindow = [[g \in Handles |-> NoWindow] EXCEPT
                    ![h] = [id |-> 1, born |-> 1, title |-> "other", at |-> "first", mark |-> 0]]
OnScreen ==
    /\ rgWindow = Rect(6, 4, 7, 5) /\ rgNormal = rgWindow
    /\ rgAreas = OneArea

OnePlan == scKind = "power_scheme" /\ scRaw = <<"balanced">>

MCInit ==
    /\ focus \in Focus /\ faults = 0
    /\ TaskbarInit
    /\ focus # "taskbar" => tbBit = FALSE
    /\ RunsInit
    /\ focus # "runs" => rrKind = "manual"
    /\ ThemeInit
    /\ focus # "theme" => /\ thMode = "dark" /\ thNow = 0
                          /\ thSchedule = [enabled |-> FALSE, light |-> 0, dark |-> 1]
    /\ HotCornerInit
    /\ focus # "corner" => hcMonitors = {} /\ hcCursor = [x |-> 2, y |-> 2]
    /\ CompositeInit
    /\ focus # "settings" => csKind = "color_mode"
    /\ LayoutInit
    /\ focus # "layout" => wlSame = {}
    /\ RescueInit
    /\ RegistryInit
    /\ focus # "registry" => rvAt = "one" /\ rvWant = "zero" /\ rvItem = "none"
    /\ StoreInit
    /\ Cardinality(wlSame) <= 1
    /\ RibbonInit /\ (focus # "ribbon" => NoneActive)
    /\ CleanupInit /\ (focus # "cleanup" => NothingOld)
    /\ RestartInit /\ (focus # "restart" => OneShell)
    /\ IdentityInit /\ (focus # "identity" => OneOpen)
    /\ GeometryInit /\ (focus # "geometry" => OnScreen)
    /\ CapturesInit /\ (focus # "capture" => OnePlan)
    /\ ScreenInit

\* Bound: the screen meets two requests and three calls at a time, or faults and two;
\* while the thread is in its pass there is one call.
ScreenBound ==
    LET calls == Cardinality(tsCalls) IN
    /\ tsPass # NoPass => calls <= 1
    /\ \/ faults = 0 /\ calls <= 3
       \/ tsAsked < 2 /\ calls <= 2

Fault(step) == faults < MaxFaults /\ step /\ faults' = faults + 1

Work(step) == step /\ UNCHANGED faults

\* The dynamics of the hot corners do not depend on the layout: they are run on
\* two monitors, and every layout is looked at as it is.
ServiceNext ==
    \/ /\ focus = "taskbar"
       /\ Work(TaskbarStep \/ TaskbarUserStep) \/ Fault(TaskbarFault)
       /\ UNCHANGED <<rrvars, thvars, hcvars, csvars, wlvars, rsvars, rvvars, psvars,
                      desktop, focus>>
    \/ /\ focus = "runs"
       /\ Work(RunStep \/ RunUserStep) \/ Fault(RunFault)
       /\ UNCHANGED <<tbvars, thvars, hcvars, csvars, wlvars, rsvars, rvvars, psvars,
                      desktop, focus>>
    \/ /\ focus = "theme"
       /\ Work(ThemeStep \/ ThemeOthers)
       /\ UNCHANGED <<tbvars, rrvars, hcvars, csvars, wlvars, rsvars, rvvars, psvars,
                      desktop, focus>>
    \/ /\ focus = "corner" /\ hcMonitors = SideBySide
       /\ Work(HotCornerNext)
       /\ UNCHANGED <<tbvars, rrvars, thvars, csvars, wlvars, rsvars, rvvars, psvars,
                      desktop, focus>>
    \/ /\ focus = "settings"
       /\ Work(SettingStep \/ SettingUserStep) \/ Fault(SettingFault)
       /\ UNCHANGED <<tbvars, rrvars, thvars, hcvars, wlvars, rsvars, rvvars, psvars,
                      desktop, focus>>
    \/ /\ focus = "layout"
       /\ Work(LayoutStep \/ LayoutUserStep) \/ Fault(LayoutFault)
       /\ UNCHANGED <<tbvars, rrvars, thvars, hcvars, csvars, rsvars, rvvars, psvars,
                      desktop, focus>>
    \/ /\ focus = "rescue"
       /\ Work(RescueStep \/ RescueUserStep) \/ Fault(RescueFault)
       /\ UNCHANGED <<tbvars, rrvars, thvars, hcvars, csvars, wlvars, rvvars, psvars,
                      desktop, focus>>
    \/ /\ focus = "registry"
       /\ Work(RegistryStep \/ RegistryUserStep) \/ Fault(RegistryFault)
       /\ UNCHANGED <<tbvars, rrvars, thvars, hcvars, csvars, wlvars, rsvars, psvars,
                      desktop, focus>>
    \/ /\ focus = "store"
       /\ Work(StoreStep \/ StoreUserStep) \/ Fault(StoreFault)
       /\ UNCHANGED <<tbvars, rrvars, thvars, hcvars, csvars, wlvars, rsvars, rvvars,
                      desktop, focus>>
    \/ /\ focus = "ribbon"
       /\ \/ Work(RibbonThread \/ RibbonMain \/ RibbonWatch \/ RibbonUserStep)
          \/ Fault(RibbonFault)
       /\ UNCHANGED <<services, tcvars, srvars, wivars, rgvars, scvars, tsvars, focus>>
    \/ /\ focus = "cleanup"
       /\ Work(CleanupStep \/ CleanupUserStep) \/ Fault(CleanupFault)
       /\ UNCHANGED <<services, mrvars, srvars, wivars, rgvars, scvars, tsvars, focus>>
    \/ /\ focus = "restart"
       /\ Work(RestartStep \/ RestartWindows \/ StartRestart) \/ Fault(RestartFault)
       /\ UNCHANGED <<services, mrvars, tcvars, wivars, rgvars, scvars, tsvars, focus>>
    \/ /\ focus = "identity"
       /\ Work(IdentityStep \/ IdentityUserStep) \/ Fault(IdentityFault)
       /\ UNCHANGED <<services, mrvars, tcvars, srvars, rgvars, scvars, tsvars, focus>>
    \/ /\ focus = "geometry"
       /\ Work(BringBack)
       /\ UNCHANGED <<services, mrvars, tcvars, srvars, wivars, scvars, tsvars, focus>>
    \/ /\ focus = "capture"
       /\ Work(CaptureStep \/ CaptureUserStep)
       /\ UNCHANGED <<services, mrvars, tcvars, srvars, wivars, rgvars, tsvars, focus>>
    \/ /\ focus = "screen"
       /\ \/ Work(ScreenStep \/ ScreenUserStep \/ ScreenEngineStep)
          \/ Fault(ScreenFault)
       /\ ScreenBound'
       /\ UNCHANGED <<services, mrvars, tcvars, srvars, wivars, rgvars, scvars, focus>>

\* What has nothing left to do: all runs started and ended, a setting, a
\* layout or a registry value rolled back or handed to the user, a layout of monitors looked at.
Rest ==
    /\ \/ focus = "runs" /\ rrItem[MaxRuns][1] # "none" /\ rrMemory = NoRun
       \/ focus = "settings" /\ csItem \in {"ROLLED_BACK", "RECOVERY"}
       \/ focus = "layout" /\ wlItem \in {"ROLLED_BACK", "RECOVERY"}
       \/ focus = "registry" /\ rvItem = "ROLLED_BACK"
       \/ focus = "store" /\ psState = "refused"
       \/ focus = "ribbon" /\ mrMain.pc \in {"without", "exited"}
       \/ focus = "cleanup" /\ tcWalk.pc = "rest" /\ "temp" \in tcLinks
       \/ focus = "restart" /\ srAnswer # "none"
       \/ focus = "identity" /\ wiPc = "end"
       \/ focus = "geometry"
       \/ focus = "capture" /\ scPc = "end"
       \/ focus = "corner" /\ (hcMonitors # SideBySide \/ hcNow = EndOfTime)
    /\ UNCHANGED mcvars

\* The threads run on, a command that was begun ends, and a process that was ended
\* goes.  SharingEnds asks for more: that the user asks to end the session again and
\* again.
MCSpec ==
    /\ MCInit /\ [][ServiceNext \/ Rest]_mcvars
    /\ WF_tbvars(focus = "taskbar" /\ TaskbarStep)
    /\ WF_tbvars(focus = "taskbar" /\ CommandWrite)
    /\ WF_rrvars(focus = "runs" /\ RunStep)
    /\ WF_rrvars(focus = "runs" /\ StartEnding)
    /\ WF_mrvars(focus = "ribbon" /\ RibbonThread)
    /\ WF_mrvars(focus = "ribbon" /\ RibbonMain)
    /\ WF_mrvars(focus = "ribbon" /\ RibbonWatch)
    /\ WF_srvars(focus = "restart" /\ RestartStep)
    /\ WF_srvars(focus = "restart" /\ RestartWindows)

ServicesTypeOK ==
    /\ focus \in Focus /\ faults \in 0..MaxFaults
    /\ TaskbarTypeOK /\ RunsTypeOK /\ ThemeTypeOK /\ HotCornerTypeOK
    /\ CompositeTypeOK /\ LayoutTypeOK /\ RescueTypeOK /\ RegistryTypeOK
    /\ StoreTypeOK /\ RibbonTypeOK /\ CleanupTypeOK /\ RestartTypeOK
    /\ IdentityTypeOK /\ GeometryTypeOK /\ CapturesTypeOK /\ ScreenTypeOK

=============================================================================
