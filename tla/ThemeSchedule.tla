--------------------------- MODULE ThemeSchedule ----------------------------
(***************************************************************************)
(* Light and dark by the clock: a poll of the watcher thread compares what *)
(* the schedule wants now with what it wanted last and, when they differ,  *)
(* applies theme.color_mode through the engine.  The user may choose       *)
(* another mode in between, and keeps it until the next boundary.          *)
(***************************************************************************)
EXTENDS Integers

CONSTANT MinutesPerDay      \* MINUTES_PER_DAY, in coarser minutes

ASSUME ThemeAssumption == MinutesPerDay \in Nat \ {0, 1}

VARIABLES
    thNow,      \* the local time
    thSchedule, \* ThemeSchedule, in memory and on disk
    thLast,     \* ThemeScheduleTracker.last
    thDue,      \* the poll: the mode it is about to apply, or "none"
    thMode,     \* the mode Windows shows
    thCrossed,  \* history: since the last poll the schedule wants something
                \* else, was switched on, or the program was started
    thExcused   \* history since the last poll that applied something: "user",
                \* "failed"

thvars == <<thNow, thSchedule, thLast, thDue, thMode, thCrossed, thExcused>>

Mode == {"light", "dark"}
Minute == 0..(MinutesPerDay - 1)

\* ThemeSchedule::validate
Valid(s) == s.light \in Minute /\ s.dark \in Minute /\ s.light # s.dark
Schedules == {s \in [enabled : BOOLEAN, light : Minute, dark : Minute] : Valid(s)}

ThemeTypeOK ==
    /\ thNow \in Minute
    /\ thSchedule \in Schedules
    /\ thLast \in Mode \union {"none"}
    /\ thDue \in Mode \union {"none"}
    /\ thMode \in Mode
    /\ thCrossed \in BOOLEAN
    /\ thExcused \subseteq {"user", "failed"}

ThemeInit ==
    /\ thNow \in Minute
    /\ thSchedule \in Schedules
    /\ thLast = "none" /\ thDue = "none"
    /\ thMode \in Mode
    /\ thCrossed = TRUE
    /\ thExcused = {}

-----------------------------------------------------------------------------
Bug_DesiredMode(s, now) ==
    IF ~s.enabled THEN "none"
    ELSE IF now >= s.light /\ now < s.dark THEN "light" ELSE "dark"

\* ThemeSchedule::desired_mode; the light hours may go past midnight.
DesiredMode(s, now) ==
    LET isLight == IF s.light < s.dark
                   THEN now >= s.light /\ now < s.dark
                   ELSE now >= s.light \/ now < s.dark
    IN  IF ~s.enabled THEN "none" ELSE IF isLight THEN "light" ELSE "dark"

\* What the schedule means: the boundary passed last decides.
Since(at, now) == (now - at) % MinutesPerDay
LastBoundary(s, now) ==
    IF Since(s.light, now) < Since(s.dark, now) THEN "light" ELSE "dark"

-----------------------------------------------------------------------------
\* ThemeScheduleTracker::evaluate; it forgets when the schedule is off.
Poll ==
    LET desired == DesiredMode(thSchedule, thNow) IN
    /\ thDue = "none"
    /\ thLast' = desired
    /\ thDue' = IF desired = thLast THEN "none" ELSE desired
    /\ thCrossed' = FALSE
    /\ thExcused' = IF desired \in {"none", thLast} THEN thExcused ELSE {}
    /\ UNCHANGED <<thNow, thSchedule, thMode>>

\* Preview and commit, or a preview that finds nothing to change.
ApplyTheme ==
    /\ thDue # "none"
    /\ thMode' = thDue
    /\ thDue' = "none"
    /\ UNCHANGED <<thNow, thSchedule, thLast, thCrossed, thExcused>>

\* The preview or the commit fails.  The tracker has moved on: it is not tried
\* again before the next boundary.
ApplyThemeFails ==
    /\ thDue # "none"
    /\ thDue' = "none"
    /\ thExcused' = thExcused \union {"failed"}
    /\ UNCHANGED <<thNow, thSchedule, thLast, thMode, thCrossed>>

\* The time passes; it also jumps, over a sleep of the machine for one.
ClockMoves ==
    /\ thNow' \in Minute \ {thNow}
    /\ thCrossed' = \/ thCrossed
                    \/ DesiredMode(thSchedule, thNow') # DesiredMode(thSchedule, thNow)
    /\ UNCHANGED <<thSchedule, thLast, thDue, thMode, thExcused>>

\* ThemeScheduleStore::set
SetSchedule(s) ==
    /\ s # thSchedule
    /\ thSchedule' = s
    /\ thCrossed' = TRUE
    /\ UNCHANGED <<thNow, thLast, thDue, thMode, thExcused>>

UserChooses ==
    /\ thMode' \in Mode \ {thMode}
    /\ thExcused' = thExcused \union {"user"}
    /\ UNCHANGED <<thNow, thSchedule, thLast, thDue, thCrossed>>

\* A new program has a new tracker.
RestartTheme ==
    /\ thLast' = "none" /\ thDue' = "none"
    /\ thCrossed' = TRUE
    /\ UNCHANGED <<thNow, thSchedule, thMode, thExcused>>

ThemeStep == Poll \/ ApplyTheme

ThemeOthers ==
    \/ ApplyThemeFails \/ ClockMoves \/ UserChooses \/ RestartTheme
    \/ \E s \in Schedules : SetSchedule(s)

ThemeNext == ThemeStep \/ ThemeOthers

ThemeSpec == ThemeInit /\ [][ThemeNext]_thvars

-----------------------------------------------------------------------------
\* The schedule is followed and does not compete with the user.  Between
\* boundaries the theme is what the boundary passed last asks for, unless applying
\* failed or the user chose otherwise since; and a mode is applied only at the
\* first poll after a boundary, a new schedule or a start, so that a mode the user
\* chose stands until then (ThemeScheduleTracker::observe).
ThemeFollowsSchedule ==
    /\ [](thSchedule.enabled /\ ~thCrossed /\ thDue = "none" /\ thExcused = {} =>
            thMode = LastBoundary(thSchedule, thNow))
    /\ [][thDue = "none" /\ thDue' # "none" => thCrossed]_thvars

=============================================================================
