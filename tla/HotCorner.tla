----------------------------- MODULE HotCorner ------------------------------
(***************************************************************************)
(* Hot corners: the cursor resting in an outer corner of the desktop opens *)
(* the modes screen.  The geometry that tells an outer corner from one     *)
(* between two monitors, and the state machine that waits for the cursor   *)
(* to rest, fires once and pauses.                                         *)
(***************************************************************************)
EXTENDS Integers, FiniteSets

CONSTANTS
    Layouts,    \* sets of monitors: [left, top, right, bottom]
    Spots,      \* points the cursor goes to
    DwellMs, CooldownMs,    \* dwell_ms and cooldown_ms, in polls
    EndOfTime   \* bound: polls

\* Monitors of at least two hot zones each way, none over another.
Desktop(layout) ==
    /\ layout \subseteq [left : Int, top : Int, right : Int, bottom : Int]
    /\ \A m \in layout : m.right - m.left >= 4 /\ m.bottom - m.top >= 4
    /\ \A m, o \in layout : m # o => \/ m.right <= o.left \/ o.right <= m.left
                                     \/ m.bottom <= o.top \/ o.bottom <= m.top

ASSUME CornerAssumption ==
    /\ DwellMs \in Nat \ {0} /\ CooldownMs \in Nat \ {0} /\ EndOfTime \in Nat
    /\ \A layout \in Layouts : Desktop(layout)

VARIABLES
    hcMonitors, \* the desktop
    hcWindow,   \* "normal", or a window in front that suppresses firing
    hcAssigned, \* the corners that open the modes screen
    hcNow,      \* elapsed
    hcCursor,   \* the cursor
    hcTrack,    \* HotCornerTracker
    hcVisit,    \* history: the corner of the last sample, since when the samples
                \* have been the same and unsuppressed, opened since it was entered
    hcOpened    \* history: the last time the modes screen was opened

hcvars == <<hcMonitors, hcWindow, hcAssigned, hcNow, hcCursor, hcTrack, hcVisit,
            hcOpened>>

Corner == {"topLeft", "topRight", "bottomLeft", "bottomRight"}
None == "none"
Never == -1     \* Option::None of a time
Nowhere == [x |-> -99, y |-> -99]

NewTrack == [last |-> Nowhere, corner |-> None, since |-> Never,
             cooldown |-> Never, fired |-> None]

NoVisit == [corner |-> None, rest |-> Never, opened |-> FALSE]
NotOpened == [at |-> Never, rest |-> Never, before |-> Never, again |-> FALSE]

HotCornerTypeOK ==
    /\ hcMonitors \in Layouts
    /\ hcWindow \in {"normal", "fullscreen", "maximized"}
    /\ hcAssigned \subseteq Corner
    /\ hcNow \in 0..EndOfTime
    /\ hcCursor \in Spots
    /\ hcTrack.corner \in Corner \union {None}
    /\ hcTrack.fired \in Corner \union {None}
    /\ hcTrack.since <= hcNow
    /\ hcVisit.rest \in Never..hcNow
    /\ hcOpened.at \in Never..hcNow

-----------------------------------------------------------------------------
\* HotCornerSetting, ScreenRect::contains, ScreenRect::corner_point
Inside(m, p) == p.x >= m.left /\ p.x < m.right /\ p.y >= m.top /\ p.y < m.bottom

IsLeft(corner) == corner \in {"topLeft", "bottomLeft"}
IsTop(corner) == corner \in {"topLeft", "topRight"}

CornerPoint(m, corner) ==
    [x |-> IF IsLeft(corner) THEN m.left ELSE m.right - 1,
     y |-> IF IsTop(corner) THEN m.top ELSE m.bottom - 1]

\* near, with HOT_ZONE_RADIUS
Near(p, q) == p.x - q.x \in -1..1 /\ p.y - q.y \in -1..1

\* The three points beyond a corner: beside, above or below, and diagonally.
Beyond(m, corner) ==
    LET p == CornerPoint(m, corner)
        x == IF IsLeft(corner) THEN m.left - 1 ELSE m.right
        y == IF IsTop(corner) THEN m.top - 1 ELSE m.bottom
    IN  {[x |-> x, y |-> p.y], [x |-> p.x, y |-> y], [x |-> x, y |-> y]}

\* corner_is_on_desktop_outer_edge
OnOuterEdge(monitors, m, corner) ==
    ~\E other \in monitors \ {m} : \E p \in Beyond(m, corner) : Inside(other, p)

\* external_corner_at: the first that fits, in the order of the list.
CornerOrder == <<"topLeft", "topRight", "bottomLeft", "bottomRight">>
Fits(monitors, m, p, corner) ==
    Near(p, CornerPoint(m, corner)) /\ OnOuterEdge(monitors, m, corner)

CornerAt(monitors, p) ==
    LET under == {m \in monitors : Inside(m, p)}
        m == CHOOSE m \in under : TRUE
        fitting == {i \in 1..4 : Fits(monitors, m, p, CornerOrder[i])}
    IN  IF under = {} \/ fitting = {} THEN None
        ELSE CornerOrder[CHOOSE i \in fitting : \A j \in fitting : i <= j]

HotCornerInit ==
    /\ hcMonitors \in Layouts
    /\ hcWindow = "normal"
    /\ hcAssigned = Corner
    /\ hcNow = 0
    /\ hcCursor \in Spots
    /\ hcTrack = NewTrack
    /\ hcVisit = NoVisit
    /\ hcOpened = NotOpened

-----------------------------------------------------------------------------
\* HotCornerTracker::evaluate, one operator for each return.
NoDwell(t) == [t EXCEPT !.corner = None, !.since = Never]

Bug_Suppressed(t) == t

\* Suppression restarts the waiting and keeps the mark of having fired.
Suppressed(t) == NoDwell(t)

\* The cursor moved, or the corner is another one, or nothing was waited for.
Restarts(t, corner) ==
    t.last # hcCursor \/ t.corner # corner \/ t.since = Never

Fires(t, corner) ==
    /\ ~Restarts(t, corner) /\ t.fired # corner
    /\ hcNow - t.since >= DwellMs
    /\ t.cooldown = Never \/ hcNow >= t.cooldown

Blocked(corner) == corner \notin hcAssigned \/ hcWindow # "normal"

Tracked(t, corner) ==
    LET seen == [t EXCEPT !.last = hcCursor] IN
    CASE corner = None -> [NoDwell(seen) EXCEPT !.fired = None]
      [] corner # None /\ Blocked(corner) -> Suppressed(seen)
      [] corner # None /\ ~Blocked(corner) /\ t.fired = corner -> seen
      [] corner # None /\ ~Blocked(corner) /\ t.fired # corner ->
            IF Restarts(t, corner)
            THEN [seen EXCEPT !.corner = corner, !.since = hcNow]
            ELSE IF Fires(t, corner)
            THEN [seen EXCEPT !.cooldown = hcNow + CooldownMs, !.fired = corner]
            ELSE seen

\* follow_hot_corner: without an assigned corner the tracker is made anew.
FollowHotCorner ==
    LET corner == CornerAt(hcMonitors, hcCursor)
        open == corner # None /\ ~Blocked(corner)
        fires == open /\ Fires(hcTrack, corner)
        again == hcVisit.corner = corner /\ hcVisit.opened
        rest == IF ~open THEN Never
                ELSE IF hcVisit.rest # Never /\ hcTrack.last = hcCursor
                THEN hcVisit.rest ELSE hcNow
    IN  /\ hcNow < EndOfTime
        /\ hcNow' = hcNow + 1
        /\ IF hcAssigned = {}
           THEN /\ hcTrack' = NewTrack
                /\ hcVisit' = NoVisit
                /\ hcOpened' = NotOpened
           ELSE /\ hcTrack' = Tracked(hcTrack, corner)
                /\ hcVisit' = [corner |-> corner, rest |-> rest,
                               opened |-> again \/ fires]
                /\ hcOpened' = IF fires
                               THEN [at |-> hcNow, rest |-> rest, again |-> again,
                                     before |-> hcOpened.at]
                               ELSE hcOpened
        /\ UNCHANGED <<hcMonitors, hcWindow, hcAssigned, hcCursor>>

\* The cursor or the monitors cannot be read: the tracker is not asked.
CursorUnknown ==
    /\ hcAssigned # {}
    /\ hcNow < EndOfTime
    /\ hcNow' = hcNow + 1
    /\ UNCHANGED <<hcMonitors, hcWindow, hcAssigned, hcCursor, hcTrack, hcVisit,
                   hcOpened>>

CursorMoves(p) ==
    /\ p # hcCursor
    /\ hcCursor' = p
    /\ UNCHANGED <<hcMonitors, hcWindow, hcAssigned, hcNow, hcTrack, hcVisit,
                   hcOpened>>

WindowChanges ==
    /\ hcWindow' \in {"normal", "fullscreen", "maximized"} \ {hcWindow}
    /\ UNCHANGED <<hcMonitors, hcAssigned, hcNow, hcCursor, hcTrack, hcVisit,
                   hcOpened>>

\* HotCornerStore::set
AssignCorners(corners) ==
    /\ corners # hcAssigned
    /\ hcAssigned' = corners
    /\ UNCHANGED <<hcMonitors, hcWindow, hcNow, hcCursor, hcTrack, hcVisit,
                   hcOpened>>

HotCornerNext ==
    \/ FollowHotCorner \/ CursorUnknown \/ WindowChanges
    \/ \E p \in Spots : CursorMoves(p)
    \/ \E corners \in {{}, {"topLeft"}, Corner} : AssignCorners(corners)

HotCornerSpec == HotCornerInit /\ [][HotCornerNext]_hcvars

-----------------------------------------------------------------------------
\* The modes screen opens only when every sample for the time to wait found the
\* cursor in the same place, in a corner that is assigned and not covered by a
\* full-screen or maximized window; not twice before the cursor left the corner;
\* and not before the pause since the last time is over.
OpensAfterRest ==
    hcOpened.at # Never =>
        /\ hcOpened.at - hcOpened.rest >= DwellMs
        /\ ~hcOpened.again
        /\ hcOpened.before # Never => hcOpened.at - hcOpened.before >= CooldownMs

\* The four points around the vertex of a corner.
Around(m, corner) ==
    LET x == IF IsLeft(corner) THEN m.left ELSE m.right
        y == IF IsTop(corner) THEN m.top ELSE m.bottom
    IN  [x : {x - 1, x}, y : {y - 1, y}]

\* The corners of the desktop are found and no others: the cursor is in one
\* exactly if it is near a corner of its monitor around which the desktop covers
\* one point of four, so that the cursor cannot slip on to another monitor.
CornersAreFound ==
    \A m \in hcMonitors, corner \in Corner :
        LET c == CornerPoint(m, corner)
            covered == {p \in Around(m, corner) : \E o \in hcMonitors : Inside(o, p)}
            zone == {p \in [x : c.x - 1..c.x + 1, y : c.y - 1..c.y + 1] : Inside(m, p)}
        IN  \A p \in zone : CornerAt(hcMonitors, p) =
                              IF Cardinality(covered) = 1 THEN corner ELSE None

\* The screen opens at a corner of the desktop, after a rest there, and once: the
\* two statements above.
CornerOpensAfterRest == OpensAfterRest /\ CornersAreFound

=============================================================================
