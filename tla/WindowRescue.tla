---------------------------- MODULE WindowRescue ----------------------------
(***************************************************************************)
(* One window outside every screen is brought back, and may be sent to     *)
(* where it was again.  A scan lists the lost windows with where they are  *)
(* and where each would go; a rescue looks again, moves the window, waits  *)
(* until it stands there and keeps what it needs for the undo in memory.   *)
(* A rescue that fails puts the window back, unless somebody else moved it. *)
(*                                                                         *)
(* Windows may bring a window onto a screen that is told to go off it, so  *)
(* going back takes two calls.  The commands run one at a time, holding    *)
(* the engine's mutation gate; users and other programs move windows at    *)
(* any moment.                                                             *)
(***************************************************************************)
EXTENDS Naturals, FiniteSets

CONSTANTS
    LostWindows,    \* the windows that are outside every screen at first
    MaxRescues      \* MAX_ACTIVE_WINDOW_RESCUES

ASSUME RescueAssumption == IsFiniteSet(LostWindows) /\ MaxRescues \in Nat

VARIABLES
    rsAt,       \* where each window is
    rsListed,   \* what the last scan offers: the place a window was seen at
    rsActive,   \* the undo records
    rsCall,     \* the command that runs
    rsBefore,   \* history: where a window was before this program moved it and
                \* nobody else did since, or "none"
    rsUnseen,   \* history: windows others moved since the command looked at them
    rsWarned,   \* history: windows the user was told to look after
    rsLeft      \* history: windows a command left behind with an error that does
                \* not say so

rsvars == <<rsAt, rsListed, rsActive, rsCall, rsBefore, rsUnseen, rsWarned, rsLeft>>

Lost == {"lost1", "lost2"}
RescuePlace == Lost \union {"target1", "target2", "clamped", "third", "gone"}

\* rescue_rect: the nearest place on the screen of the main window.
TargetOf(p) == IF p = "lost1" THEN "target1" ELSE "target2"

NoCall == [pc |-> "none", way |-> "rescue", window |-> "none", from |-> "none"]

RescueRecords == [window : LostWindows, from : Lost, to : {"target1", "target2"}]

RescueTypeOK ==
    /\ rsAt \in [LostWindows -> RescuePlace]
    /\ rsListed \in [LostWindows -> Lost \union {"none"}]
    /\ rsActive \subseteq RescueRecords /\ Cardinality(rsActive) <= MaxRescues
    /\ \/ rsCall = NoCall
       \/ /\ rsCall.pc \in {"send", "wait", "look", "back", "exact", "confirm"}
          /\ rsCall.way \in {"rescue", "undo"}
          /\ rsCall.window \in LostWindows /\ rsCall.from \in Lost
    /\ rsBefore \in [LostWindows -> Lost \union {"none"}]
    /\ rsUnseen \subseteq LostWindows /\ rsWarned \subseteq LostWindows
    /\ rsLeft \subseteq LostWindows

RescueInit ==
    /\ rsAt = [w \in LostWindows |-> "lost1"]
    /\ rsListed = [w \in LostWindows |-> "none"]
    /\ rsActive = {}
    /\ rsCall = NoCall
    /\ rsBefore = [w \in LostWindows |-> "none"]
    /\ rsUnseen = {} /\ rsWarned = {} /\ rsLeft = {}

-----------------------------------------------------------------------------
(* Scan *)

Rescued(w) == \E r \in rsActive : r.window = w

\* Every listing of the scan before is dropped.  A lost window may be listed as
\* one that cannot be moved (elevated, hung, unknown), and is when it was rescued
\* before; such a listing is only refused, so it is left out.
ScanLost ==
    /\ rsCall = NoCall
    /\ \E able \in SUBSET {w \in LostWindows : rsAt[w] \in Lost /\ ~Rescued(w)} :
          rsListed' = [w \in LostWindows |-> IF w \in able THEN rsAt[w] ELSE "none"]
    /\ UNCHANGED <<rsAt, rsActive, rsCall, rsBefore, rsUnseen, rsWarned, rsLeft>>

-----------------------------------------------------------------------------
(* Rescue *)

Running(pc) == rsCall.pc = pc
Target == TargetOf(rsCall.from)
GoTo(pc) == rsCall' = [rsCall EXCEPT !.pc = pc]

Ends2(warned) ==
    /\ rsCall' = NoCall
    /\ rsWarned' = IF warned THEN rsWarned \union {rsCall.window}
                   ELSE rsWarned \ {rsCall.window}
    /\ rsLeft' = rsLeft \ {rsCall.window}

\* An ordinary error, which says that the state could not be checked and not that
\* the window may have moved (offscreen_window_rescue_error).
LeftBehind ==
    /\ rsCall' = NoCall
    /\ rsWarned' = rsWarned \ {rsCall.window}
    /\ rsLeft' = rsLeft \union {rsCall.window}

\* This program moves window w to p.
Moves(w, p) ==
    /\ rsAt' = [rsAt EXCEPT ![w] = p]
    /\ rsBefore' = [rsBefore EXCEPT ![w] = IF p = rsCall.from THEN "none"
                                           ELSE rsCall.from]

\* candidate_matches_saved and rect_is_offscreen: it is still where it was listed.
SeenAgain(w) == rsAt[w] = rsListed[w]

StartRescue(w) ==
    /\ rsCall = NoCall
    /\ rsListed[w] # "none" /\ Cardinality(rsActive) < MaxRescues
    /\ SeenAgain(w)
    /\ rsCall' = [pc |-> "send", way |-> "rescue", window |-> w, from |-> rsListed[w]]
    /\ rsUnseen' = rsUnseen \ {w}
    /\ UNCHANGED <<rsAt, rsListed, rsActive, rsBefore, rsWarned, rsLeft>>

\* set_saved_placement: the window's program may put it somewhere else.
SendRescue ==
    LET w == rsCall.window IN
    /\ Running("send") /\ rsAt[w] # "gone"
    /\ \E p \in {Target, "clamped"} : Moves(w, p)
    /\ GoTo("wait")
    /\ UNCHANGED <<rsListed, rsActive, rsUnseen, rsWarned, rsLeft>>

\* wait_for_rescued_candidate sees it in place: the undo record is kept.
KeepRescue ==
    LET w == rsCall.window IN
    /\ Running("wait") /\ rsAt[w] = Target
    /\ rsListed' = [rsListed EXCEPT ![w] = "none"]
    /\ rsActive' = rsActive \union {[window |-> w, from |-> rsCall.from, to |-> Target]}
    /\ Ends2(FALSE)
    /\ UNCHANGED <<rsAt, rsBefore, rsUnseen>>

Bug_AfterFailure == Ends2(FALSE) /\ UNCHANGED <<rsAt, rsBefore, rsUnseen>>

\* rescue_error_after_compensation
AfterFailure == GoTo("look") /\ UNCHANGED <<rsAt, rsBefore, rsUnseen, rsWarned, rsLeft>>

\* Its time is over and it is not in place, or the call itself was refused.
GiveUpWaiting ==
    /\ \/ Running("wait") /\ rsAt[rsCall.window] # Target
       \/ Running("send") /\ rsAt[rsCall.window] = "gone"
    /\ AfterFailure
    /\ UNCHANGED <<rsListed, rsActive>>

Bug_MayGoBack(w) == rsAt[w] # "gone"

MayGoBack(w) == rsAt[w] \in {rsCall.from, Target}

\* compensate_single_rescue
CompensateRescue ==
    LET w == rsCall.window IN
    /\ Running("look")
    /\ rsUnseen' = rsUnseen \ {w}
    /\ IF MayGoBack(w) THEN GoTo("back") /\ UNCHANGED <<rsWarned, rsLeft>>
       ELSE Ends2(TRUE)
    /\ UNCHANGED <<rsAt, rsListed, rsActive, rsBefore>>

-----------------------------------------------------------------------------
(* Back to where it was: restore_exact_saved_placement and the wait after it, *)
(* for the compensation and for the undo.                                     *)

\* set_saved_placement: Windows may keep it on the screen.
SendBack ==
    LET w == rsCall.window IN
    /\ Running("back") /\ rsAt[w] # "gone"
    /\ \E p \in {rsCall.from, "clamped"} : Moves(w, p)
    /\ GoTo("exact")
    /\ UNCHANGED <<rsListed, rsActive, rsUnseen, rsWarned, rsLeft>>

\* Wherever else it is read to be, SetWindowPos puts it where it was.
SendExact ==
    LET w == rsCall.window IN
    /\ Running("exact") /\ rsAt[w] # "gone"
    /\ Moves(w, rsCall.from)
    /\ GoTo("confirm")
    /\ UNCHANGED <<rsListed, rsActive, rsUnseen, rsWarned, rsLeft>>

ThisRecord(r) == r.window = rsCall.window

\* wait_for_saved_candidate.  The undo is done and its record goes, or the rescue
\* has failed and is compensated; otherwise the user is asked to look.
ConfirmBack ==
    LET back == rsAt[rsCall.window] = rsCall.from IN
    /\ Running("confirm")
    /\ rsActive' = IF back /\ rsCall.way = "undo"
                   THEN {r \in rsActive : ~ThisRecord(r)} ELSE rsActive
    /\ Ends2(~back)
    /\ UNCHANGED <<rsAt, rsListed, rsBefore, rsUnseen>>

CannotGoBack ==
    /\ rsCall.pc \in {"back", "exact"} /\ rsAt[rsCall.window] = "gone"
    /\ Ends2(rsCall.way = "rescue")
    /\ UNCHANGED <<rsAt, rsListed, rsActive, rsBefore, rsUnseen>>

\* rollback: nobody has moved it since the rescue.
StillRescued(r) == rsAt[r.window] = r.to

StartUndo(r) ==
    /\ rsCall = NoCall
    /\ r \in rsActive /\ StillRescued(r)
    /\ rsCall' = [pc |-> "back", way |-> "undo", window |-> r.window, from |-> r.from]
    /\ rsUnseen' = rsUnseen \ {r.window}
    /\ UNCHANGED <<rsAt, rsListed, rsActive, rsBefore, rsWarned, rsLeft>>

-----------------------------------------------------------------------------
(* Failing calls, and others *)

\* A call fails without having moved the window.  A refused move is compensated and
\* a compensation that fails tells the user to look after the window.  But a look
\* that fails while the rescued place is waited for leaves it there without
\* compensation or record, and an undo whose second call fails leaves it where the
\* first put it: both end with an ordinary error.
RescueCallFails ==
    /\ \/ Running("send") /\ AfterFailure
       \/ /\ rsCall.pc \in {"wait", "look", "back", "exact"}
          /\ IF Running("wait") \/ (Running("exact") /\ rsCall.way = "undo")
             THEN LeftBehind
             ELSE Ends2(rsCall.way = "rescue")
          /\ UNCHANGED <<rsAt, rsBefore, rsUnseen>>
    /\ UNCHANGED <<rsListed, rsActive>>

\* Somebody who puts a window exactly where this program had put it cannot be
\* told from this program, and is left out.
OthersMoveLost(w) ==
    /\ rsAt[w] # "gone"
    /\ \E p \in (Lost \union {"third", "gone"}) \ {rsAt[w]} :
            rsAt' = [rsAt EXCEPT ![w] = p]
    /\ rsBefore' = [rsBefore EXCEPT ![w] = "none"]
    /\ rsUnseen' = rsUnseen \union {w}
    /\ UNCHANGED <<rsListed, rsActive, rsCall, rsWarned, rsLeft>>

RescueStep == \/ SendRescue \/ KeepRescue \/ GiveUpWaiting \/ CompensateRescue
              \/ SendBack \/ SendExact \/ ConfirmBack \/ CannotGoBack

RescueUserStep == \/ ScanLost
                  \/ \E w \in LostWindows : StartRescue(w)
                  \/ \E r \in rsActive : StartUndo(r)

RescueFault == RescueCallFails \/ \E w \in LostWindows : OthersMoveLost(w)

RescueNext == RescueStep \/ RescueUserStep \/ RescueFault

RescueSpec == RescueInit /\ [][RescueNext]_rsvars

-----------------------------------------------------------------------------
(* Properties *)

\* Between commands, a window that stands where this program put it, and that
\* nobody moved since, can be sent back to exactly where it was, or the user was
\* told to look after it (OffscreenWindowRescueManager: a failed rescue is
\* compensated, and neither a second scan nor a failed undo loses the record).
\* Two failures are excepted, rsLeft, since the code neither compensates them nor says
\* so: a look that fails while the rescued place is waited for (the ? behind
\* wait_for_rescued_candidate in rescue) and the second call of an undo (the ? behind
\* restore_exact_saved_placement in rollback).
RescueCanBeUndone ==
    rsCall = NoCall =>
        \A w \in LostWindows \ (rsWarned \union rsLeft) :
            rsBefore[w] # "none" =>
                [window |-> w, from |-> rsBefore[w], to |-> rsAt[w]] \in rsActive

\* A window others moved is moved by this program only if they did so after the
\* command looked at it: neither a rescue, nor its compensation, nor an undo that
\* comes late overwrites a third placement.
RescueKeepsOthersMoves ==
    [][\A w \in LostWindows :
          /\ rsAt'[w] # rsAt[w] /\ rsBefore[w] = "none" /\ rsUnseen' = rsUnseen
          => w \in rsUnseen \/ rsAt[w] = rsCall.from]_rsvars

=============================================================================
