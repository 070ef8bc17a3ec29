--------------------------- MODULE RescueGeometry ----------------------------
(***************************************************************************)
(* Which windows are called lost, and where a lost one goes.  A window is   *)
(* lost when less than a tenth of it lies on the work areas of the screens  *)
(* together; screens may overlap, so the part that is seen is the area of a *)
(* union, swept from left to right.  It goes to the screen of the main      *)
(* window, no further than it has to.                                       *)
(*                                                                         *)
(* Coordinates are far from the ends of i32, as rect_is_valid demands.      *)
(***************************************************************************)
EXTENDS Integers, FiniteSets, FiniteSetsExt, SequencesExt

CONSTANTS LostRects, AreaSets, NormalOffsets

VARIABLES
    rgWindow,   \* observed_rect: where the window is on the screen
    rgNormal,   \* rcNormalPosition, in coordinates that may be shifted
    rgAreas,    \* connected_monitor_work_areas, each once
    rgAnchor,   \* work_area_for_window of the main window
    rgBefore    \* history: the window and its normal place before the rescue, or << >>

rgvars == <<rgWindow, rgNormal, rgAreas, rgAnchor, rgBefore>>

Rect(left, top, right, bottom) ==
    [left |-> left, top |-> top, right |-> right, bottom |-> bottom]
Width(r) == r.right - r.left
Height(r) == r.bottom - r.top

\* rect_is_valid
IsRect(r) ==
    /\ r \in [left : Int, top : Int, right : Int, bottom : Int]
    /\ Width(r) > 0 /\ Height(r) > 0

ASSUME RectsAssumption ==
    /\ \A r \in LostRects \union UNION AreaSets : IsRect(r)
    /\ NormalOffsets \subseteq Int

GeometryTypeOK ==
    /\ Width(rgWindow) > 0 /\ Height(rgWindow) > 0
    /\ rgAnchor \in rgAreas
    /\ Len(rgBefore) \in {0, 2}

\* translate_rect.
Shifted(r, dx, dy) == Rect(r.left + dx, r.top + dy, r.right + dx, r.bottom + dy)

GeometryInit ==
    /\ rgWindow \in LostRects
    /\ \E d \in NormalOffsets : rgNormal = Shifted(rgWindow, d, 0)
    /\ rgAreas \in AreaSets /\ rgAnchor \in rgAreas
    /\ rgBefore = << >>

-----------------------------------------------------------------------------
(* Is it lost? *)

RectArea(r) == Width(r) * Height(r)

Intersection(r, s) == Rect(Max({r.left, s.left}), Max({r.top, s.top}),
                           Min({r.right, s.right}), Min({r.bottom, s.bottom}))
Intersects(r, s) == LET i == Intersection(r, s) IN Width(i) > 0 /\ Height(i) > 0

\* The height a set of intervals <<top, bottom>> covers: in the order of their
\* tops, each one joins the run of those before it or ends that run.
CoveredHeight(intervals) ==
    LET Before(i, j) == i[1] < j[1] \/ (i[1] = j[1] /\ i[2] < j[2])
        Join(run, i) ==
            IF i[1] <= run.bottom
            THEN [run EXCEPT !.bottom = Max({@, i[2]})]
            ELSE [sum |-> run.sum + run.bottom - run.top, top |-> i[1], bottom |-> i[2]]
        sorted == SetToSortSeq(intervals, Before)
        last == FoldLeft(Join, [sum |-> 0, top |-> sorted[1][1], bottom |-> sorted[1][2]],
                         sorted)
    IN IF intervals = {} THEN 0 ELSE last.sum + last.bottom - last.top

Bug_UnionArea(rects) == MapThenSumSet(RectArea, rects)

\* The sweep: between two neighbouring boundaries the same rectangles are cut.
UnionArea(rects) ==
    LET bounds == SetToSortSeq(UNION {{r.left, r.right} : r \in rects}, <)
        Strip(k) == {<<r.top, r.bottom>> :
                        r \in {s \in rects : s.left < bounds[k + 1] /\ s.right > bounds[k]}}
    IN MapThenSumSet(LAMBDA k : (bounds[k + 1] - bounds[k]) * CoveredHeight(Strip(k)),
                     1..(Len(bounds) - 1))

MinVisibleAreaPercent == 10

IsOffscreen(window, areas) ==
    UnionArea({Intersection(window, a) : a \in {b \in areas : Intersects(window, b)}}) * 100
        < RectArea(window) * MinVisibleAreaPercent

-----------------------------------------------------------------------------
(* Where does it go? *)

Bug_Clamped(start, size, from, to) == Max({from, Min({start, to})})

\* clamp_window_axis: a window that is larger than the screen keeps its corner there.
Clamped(start, size, from, to) ==
    IF to - size < from THEN from ELSE Max({from, Min({start, to - size})})

RescueRect(window, area) ==
    LET left == Clamped(window.left, Width(window), area.left, area.right)
        top == Clamped(window.top, Height(window), area.top, area.bottom)
    IN Rect(left, top, left + Width(window), top + Height(window))

\* The normal place is moved by what the window is moved by.
BringBack ==
    /\ IsOffscreen(rgWindow, rgAreas) /\ rgBefore = << >>
    /\ rgWindow' = RescueRect(rgWindow, rgAnchor)
    /\ rgNormal' = Shifted(rgNormal, rgWindow'.left - rgWindow.left, rgWindow'.top - rgWindow.top)
    /\ rgBefore' = <<rgWindow, rgNormal>>
    /\ UNCHANGED <<rgAreas, rgAnchor>>

GeometrySpec == GeometryInit /\ [][BringBack]_rgvars

-----------------------------------------------------------------------------
Cells(r) == (r.left .. r.right - 1) \X (r.top .. r.bottom - 1)
SeenCells(window, areas) == Cells(window) \intersect UNION {Cells(a) : a \in areas}
FitsIn(window, area) == Width(window) <= Width(area) /\ Height(window) <= Height(area)
LiesIn(r, area) == Cells(r) \subseteq Cells(area)
Apart(a, b) == Max({a - b, b - a})
Distance(r, s) == Apart(r.left, s.left) + Apart(r.top, s.top)

\* A rescued window keeps its size and the shift of its normal place; its upper left
\* corner, where it can be held, is on the screen of the main window; and if it fits
\* there it is wholly on it, with no place on it nearer to where the window was
\* (rescue_rect, clamp_window_axis, translate_rect).
RescuedIsOnScreen ==
    rgBefore # << >> =>
        LET old == rgBefore[1] IN
        /\ Width(rgWindow) = Width(old) /\ Height(rgWindow) = Height(old)
        /\ rgNormal.left - rgWindow.left = rgBefore[2].left - old.left
        /\ rgNormal.top - rgWindow.top = rgBefore[2].top - old.top
        /\ <<rgWindow.left, rgWindow.top>> \in Cells(rgAnchor)
        /\ FitsIn(old, rgAnchor) =>
              /\ LiesIn(rgWindow, rgAnchor)
              /\ \A x \in rgAnchor.left..rgAnchor.right, y \in rgAnchor.top..rgAnchor.bottom :
                    LET r == Rect(x, y, x + Width(old), y + Height(old)) IN
                    LiesIn(r, rgAnchor) => Distance(old, rgWindow) <= Distance(old, r)

\* A window is taken for lost exactly when less than a tenth of its cells, counted
\* one by one, is on some screen, however the screens overlap or are apart; and a
\* rescued one is not lost any more, unless it is more than three times as wide or
\* high as the screen (rect_is_offscreen, union_area).
LostWindowsAreBroughtBack ==
    /\ rgBefore = << >> =>
          (IsOffscreen(rgWindow, rgAreas)
              <=> 10 * Cardinality(SeenCells(rgWindow, rgAreas)) < Cardinality(Cells(rgWindow)))
    /\ rgBefore # << >> =>
          LET old == rgBefore[1] IN
          Width(old) <= 3 * Width(rgAnchor) /\ Height(old) <= 3 * Height(rgAnchor)
              => ~IsOffscreen(rgWindow, rgAreas)

=============================================================================
