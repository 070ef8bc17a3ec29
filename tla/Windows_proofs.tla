---------------------------- MODULE Windows_proofs ----------------------------
(***************************************************************************)
(* The window services for any windows, places and limits, however many calls *)
(* fail or land late and however often others move the windows.            *)
(***************************************************************************)
EXTENDS WindowRescue, WindowLayout, WindowIdentity, RescueGeometry, FiniteSetTheorems, TLAPS

-----------------------------------------------------------------------------
(* WindowRescue: a rescued window goes back, and others' moves stay. *)

OurPlaces == {"target1", "target2", "clamped"}

\* What is needed of the types; the number of undo records is not.
RescueTypes ==
    /\ rsAt \in [LostWindows -> RescuePlace]
    /\ rsListed \in [LostWindows -> Lost \union {"none"}]
    /\ rsActive \subseteq RescueRecords
    /\ \/ rsCall = NoCall
       \/ rsCall \in [pc : {"send", "wait", "look", "back", "exact", "confirm"},
                      way : {"rescue", "undo"}, window : LostWindows, from : Lost]
    /\ rsBefore \in [LostWindows -> Lost \union {"none"}]

\* A window stands where this program put it exactly if the history says so; the
\* records and the listings agree with the history and with each other.
Recorded ==
    /\ \A w \in LostWindows : rsAt[w] \in OurPlaces <=> rsBefore[w] # "none"
    /\ \A r \in rsActive : /\ r.to = TargetOf(r.from)
                           /\ rsBefore[r.window] \in {"none", r.from}
                           /\ rsListed[r.window] = "none"
    /\ \A w \in LostWindows \ (rsWarned \union rsLeft) :
          rsBefore[w] # "none" /\ (rsCall = NoCall \/ w # rsCall.window) =>
              [window |-> w, from |-> rsBefore[w], to |-> rsAt[w]] \in rsActive

\* What a command knows of its own window.
CallKnows ==
    LET w == rsCall.window IN
    rsCall # NoCall =>
        /\ rsBefore[w] \in {"none", rsCall.from}
        /\ rsCall.way = "rescue" => \A r \in rsActive : r.window # w
        /\ rsCall.way = "undo" =>
              /\ [window |-> w, from |-> rsCall.from, to |-> Target] \in rsActive
              /\ rsCall.pc \in {"back", "exact", "confirm"}
              /\ \A r \in rsActive : r.window = w => r.from = rsCall.from
        /\ rsCall.pc = "send" => rsAt[w] = rsCall.from \/ w \in rsUnseen
        /\ rsCall.pc = "send" => rsBefore[w] = "none"
        /\ rsCall.pc = "back" => rsAt[w] \in {rsCall.from, Target} \/ w \in rsUnseen
        /\ rsCall.pc = "back" /\ rsBefore[w] # "none" => rsAt[w] = Target
        /\ rsCall.pc = "exact" => rsAt[w] \in {rsCall.from, "clamped"} \/ w \in rsUnseen

\* At most one record per window.
OneRecord ==
    \A r, s \in rsActive : r.window = s.window => r = s

RescueInv == RescueTypes /\ Recorded /\ CallKnows /\ OneRecord

LEMMA RescueInitially == RescueInit => RescueInv
BY DEF RescueInit, RescueInv, RescueTypes, Recorded, CallKnows, OneRecord, OurPlaces,
       Lost, RescuePlace, NoCall

\* A scan lists only windows without a record.
LEMMA ScanLostKeeps ==
    ASSUME RescueInv, ScanLost
    PROVE  RescueInv'
<1> USE DEF RescueInv, RescueTypes, RescueRecords, Lost, NoCall, Running, Target,
            GoTo, Ends2, ScanLost, Rescued
<1>1. RescueTypes'
  OBVIOUS
<1>2. Recorded'
  BY DEF Recorded, CallKnows
<1>3. CallKnows'
  BY DEF Recorded, CallKnows
<1>4. OneRecord'
  BY DEF OneRecord, CallKnows
<1> QED BY <1>1, <1>2, <1>3, <1>4

\* The steps of a command that move no window.
LEMMA GiveUpKeeps ==
    ASSUME RescueInv, GiveUpWaiting
    PROVE  RescueInv'
<1> USE DEF RescueInv, RescueTypes, RescueRecords, Lost, NoCall, Running, Target,
            GoTo, Ends2, GiveUpWaiting, AfterFailure
<1>1. RescueTypes'
  OBVIOUS
<1>2. Recorded'
  BY DEF Recorded, CallKnows
<1>3. CallKnows'
  BY DEF Recorded, CallKnows
<1>4. OneRecord'
  BY DEF OneRecord, CallKnows
<1> QED BY <1>1, <1>2, <1>3, <1>4

\* The compensation looks before it goes back.
LEMMA CompensateKeeps ==
    ASSUME RescueInv, CompensateRescue
    PROVE  RescueInv'
<1> USE DEF RescueInv, RescueTypes, RescueRecords, Lost, NoCall, Running, Target,
            GoTo, Ends2, CompensateRescue, MayGoBack, OurPlaces
<1>1. RescueTypes'
  OBVIOUS
<1>2. Recorded'
  BY DEF Recorded, CallKnows
<1>3. CallKnows'
  BY DEF Recorded, CallKnows
<1>4. OneRecord'
  BY DEF OneRecord, CallKnows
<1> QED BY <1>1, <1>2, <1>3, <1>4

\* A call fails: the user is told, or the window was not moved, or it is one of the two
\* failures that leave it behind.
LEMMA FailKeeps ==
    ASSUME RescueInv, RescueCallFails
    PROVE  RescueInv'
<1> USE DEF RescueInv, RescueTypes, RescueRecords, Lost, NoCall, Running, Target,
            GoTo, Ends2, LeftBehind, RescueCallFails, AfterFailure
<1>1. RescueTypes'
  OBVIOUS
<1>2. Recorded'
  <2>1. CASE Running("send")
    BY <2>1 DEF Recorded, CallKnows
  <2>2. CASE ~Running("send") /\ LeftBehind
    BY <2>2 DEF Recorded, CallKnows
  <2>3. CASE ~Running("send") /\ rsCall.way = "rescue" /\ ~LeftBehind
    BY <2>3 DEF Recorded, CallKnows
  <2>4. CASE rsCall.way = "undo" /\ ~Running("exact")
    <3>1. rsCall # NoCall /\ Running("back")
      BY <2>4 DEF CallKnows
    <3>2. rsCall' = NoCall /\ UNCHANGED <<rsAt, rsActive, rsListed, rsBefore>>
          /\ rsWarned' = rsWarned \ {rsCall.window} /\ rsLeft' = rsLeft \ {rsCall.window}
      BY <2>4, <3>1
    <3>3. \A w \in LostWindows : w = rsCall.window /\ rsBefore[w] # "none" =>
             [window |-> w, from |-> rsBefore[w], to |-> rsAt[w]] \in rsActive
      BY <2>4, <3>1 DEF CallKnows
    <3> QED BY <3>2, <3>3 DEF Recorded
  <2>5. CASE Running("exact") /\ rsCall.way = "undo"
    BY <2>5, <2>2
  <2>6. rsCall.way \in {"rescue", "undo"}
    OBVIOUS
  <2> HIDE DEF RescueInv, RescueTypes, LeftBehind, Ends2, RescueCallFails, Running
  <2> QED BY <2>1, <2>2, <2>3, <2>4, <2>5, <2>6
<1>3. CallKnows'
  BY DEF Recorded, CallKnows
<1>4. OneRecord'
  BY DEF OneRecord, CallKnows
<1> QED BY <1>1, <1>2, <1>3, <1>4

\* The window is gone.
LEMMA CannotGoBackKeeps ==
    ASSUME RescueInv, CannotGoBack
    PROVE  RescueInv'
<1> USE DEF RescueInv, RescueTypes, RescueRecords, Lost, NoCall, Running, Target,
            GoTo, Ends2, CannotGoBack
<1>1. RescueTypes'
  OBVIOUS
<1>2. Recorded'
  <2>1. rsBefore[rsCall.window] = "none"
    BY DEF Recorded, OurPlaces
  <2>2. CASE rsCall.way = "rescue"
    BY <2>1, <2>2 DEF Recorded
  <2>3. CASE rsCall.way # "rescue"
    BY <2>1, <2>3 DEF Recorded
  <2> QED BY <2>2, <2>3
<1>3. CallKnows'
  BY DEF Recorded, CallKnows
<1>4. OneRecord'
  BY DEF OneRecord, CallKnows
<1> QED BY <1>1, <1>2, <1>3, <1>4

\* The calls that move the window.
LEMMA SendRescueKeeps ==
    ASSUME RescueInv, SendRescue
    PROVE  RescueInv'
<1> USE DEF RescueInv, RescueTypes, RescueRecords, Lost, NoCall, Running, Target,
            GoTo, Ends2, Moves, OurPlaces, RescuePlace, TargetOf, SendRescue
<1>1. RescueTypes'
  OBVIOUS
<1>2. Recorded'
  BY DEF Recorded, CallKnows
<1>3. CallKnows'
  BY DEF Recorded, CallKnows
<1>4. OneRecord'
  BY DEF OneRecord, CallKnows
<1> QED BY <1>1, <1>2, <1>3, <1>4

\* Back, as far as Windows lets it.
LEMMA SendBackKeeps ==
    ASSUME RescueInv, SendBack
    PROVE  RescueInv'
<1> USE DEF RescueInv, RescueTypes, RescueRecords, Lost, NoCall, Running, Target,
            GoTo, Ends2, Moves, OurPlaces, RescuePlace, TargetOf, SendBack
<1>1. RescueTypes'
  OBVIOUS
<1>2. Recorded'
  BY DEF Recorded, CallKnows
<1>3. CallKnows'
  BY DEF Recorded, CallKnows
<1>4. OneRecord'
  BY DEF OneRecord, CallKnows
<1> QED BY <1>1, <1>2, <1>3, <1>4

\* Back exactly.
LEMMA SendExactKeeps ==
    ASSUME RescueInv, SendExact
    PROVE  RescueInv'
<1> USE DEF RescueInv, RescueTypes, RescueRecords, Lost, NoCall, Running, Target,
            GoTo, Ends2, Moves, OurPlaces, RescuePlace, TargetOf, SendExact
<1>1. RescueTypes'
  OBVIOUS
<1>2. Recorded'
  BY DEF Recorded, CallKnows
<1>3. CallKnows'
  BY DEF Recorded, CallKnows
<1>4. OneRecord'
  BY DEF OneRecord, CallKnows
<1> QED BY <1>1, <1>2, <1>3, <1>4

\* The rescue is recorded.
LEMMA KeepKeeps ==
    ASSUME RescueInv, KeepRescue
    PROVE  RescueInv'
<1> USE DEF RescueInv, RescueTypes, RescueRecords, Lost, NoCall, Running, Target,
            GoTo, Ends2, Moves, OurPlaces, RescuePlace, TargetOf, KeepRescue
<1>1. RescueTypes'
  OBVIOUS
<1>2. Recorded'
  BY DEF Recorded, CallKnows
<1>3. CallKnows'
  BY DEF Recorded, CallKnows
<1>4. OneRecord'
  BY DEF OneRecord, CallKnows
<1> QED BY <1>1, <1>2, <1>3, <1>4

\* The undo or the compensation ends.
LEMMA ConfirmKeeps ==
    ASSUME RescueInv, ConfirmBack
    PROVE  RescueInv'
<1> USE DEF RescueInv, RescueTypes, RescueRecords, Lost, NoCall, Running, Target,
            GoTo, Ends2, Moves, OurPlaces, RescuePlace, TargetOf, ConfirmBack, ThisRecord
<1>1. RescueTypes'
  OBVIOUS
<1>2. Recorded'
  BY DEF Recorded, CallKnows
<1>3. CallKnows'
  BY DEF Recorded, CallKnows
<1>4. OneRecord'
  BY DEF OneRecord, CallKnows
<1> QED BY <1>1, <1>2, <1>3, <1>4

\* A rescue begins from where the window was listed.
LEMMA StartRescueKeeps ==
    ASSUME RescueInv, NEW w \in LostWindows, StartRescue(w)
    PROVE  RescueInv'
<1> USE DEF RescueInv, RescueTypes, RescueRecords, Lost, NoCall, Running, Target,
            GoTo, Ends2, Moves, OurPlaces, RescuePlace, TargetOf, StartRescue, SeenAgain
<1>1. RescueTypes'
  OBVIOUS
<1>2. Recorded'
  BY DEF Recorded, CallKnows
<1>3. CallKnows'
  BY DEF Recorded, CallKnows
<1>4. OneRecord'
  BY DEF OneRecord, CallKnows
<1> QED BY <1>1, <1>2, <1>3, <1>4

\* An undo begins from where the rescue left the window.
LEMMA StartUndoKeeps ==
    ASSUME RescueInv, NEW r \in rsActive, StartUndo(r)
    PROVE  RescueInv'
<1> USE DEF RescueInv, RescueTypes, RescueRecords, Lost, NoCall, Running, Target,
            GoTo, Ends2, Moves, OurPlaces, RescuePlace, TargetOf, StartUndo, StillRescued
<1>1. RescueTypes'
  OBVIOUS
<1>2. Recorded'
  BY DEF Recorded, CallKnows
<1>3. CallKnows'
  BY DEF Recorded, CallKnows
<1>4. OneRecord'
  BY DEF OneRecord, CallKnows
<1> QED BY <1>1, <1>2, <1>3, <1>4

\* Others move a window.
LEMMA OthersKeep ==
    ASSUME RescueInv, NEW w \in LostWindows, OthersMoveLost(w)
    PROVE  RescueInv'
<1> USE DEF RescueInv, RescueTypes, RescueRecords, Lost, NoCall, Running, Target,
            GoTo, Ends2, Moves, OurPlaces, RescuePlace, TargetOf, OthersMoveLost
<1>1. RescueTypes'
  OBVIOUS
<1>2. Recorded'
  BY DEF Recorded, CallKnows
<1>3. CallKnows'
  BY DEF Recorded, CallKnows
<1>4. OneRecord'
  BY DEF OneRecord, CallKnows
<1> QED BY <1>1, <1>2, <1>3, <1>4

\* The invariant of every step.
LEMMA RescueInvariant == RescueSpec => []RescueInv
<1>1. RescueInv /\ [RescueNext]_rsvars => RescueInv'
  <2> SUFFICES ASSUME RescueInv, [RescueNext]_rsvars
               PROVE  RescueInv'
    OBVIOUS
  <2>1. CASE UNCHANGED rsvars
    BY <2>1 DEF rsvars, RescueInv, RescueTypes, Recorded, CallKnows, OneRecord, Target
  <2>2. CASE RescueStep
    BY <2>2, SendRescueKeeps, KeepKeeps, GiveUpKeeps, CompensateKeeps, SendBackKeeps,
       SendExactKeeps, ConfirmKeeps, CannotGoBackKeeps DEF RescueStep
  <2>3. CASE RescueUserStep
    BY <2>3, ScanLostKeeps, StartRescueKeeps, StartUndoKeeps DEF RescueUserStep
  <2>4. CASE RescueFault
    BY <2>4, FailKeeps, OthersKeep DEF RescueFault
  <2> QED BY <2>1, <2>2, <2>3, <2>4 DEF RescueNext
<1> QED BY RescueInitially, <1>1, PTL DEF RescueSpec

\* Every window this program moved and left where nobody else put it can be sent back,
\* or the user was told, whatever fails but the look while a rescued place is waited
\* for and the second call of an undo: these leave the window with an ordinary error
\* (window_placement.rs:422-423 and 512-517).
THEOREM RescueUndoable == RescueSpec => []RescueCanBeUndone
<1>1. RescueInv => RescueCanBeUndone
  BY DEF RescueInv, Recorded, RescueCanBeUndone
<1> QED BY RescueInvariant, <1>1, PTL

\* No command moves a window that others moved before it looked.
THEOREM OthersMovesKept == RescueSpec => RescueKeepsOthersMoves
<1> DEFINE Kept == \A w \in LostWindows :
          /\ rsAt'[w] # rsAt[w] /\ rsBefore[w] = "none" /\ rsUnseen' = rsUnseen
          => w \in rsUnseen \/ rsAt[w] = rsCall.from
<1>1. RescueInv /\ [RescueNext]_rsvars => [Kept]_rsvars
  <2> SUFFICES ASSUME RescueInv, RescueNext, NEW w \in LostWindows,
                      rsAt'[w] # rsAt[w], rsBefore[w] = "none", rsUnseen' = rsUnseen
               PROVE  w \in rsUnseen \/ rsAt[w] = rsCall.from
    OBVIOUS
  <2>1. CASE \E v \in LostWindows : OthersMoveLost(v)
    BY <2>1 DEF OthersMoveLost, RescueInv, RescueTypes
  <2>2. CASE SendRescue \/ SendBack \/ SendExact
    <3>1. w = rsCall.window /\ rsCall # NoCall
      BY <2>2 DEF SendRescue, SendBack, SendExact, Moves, Running, NoCall, RescueInv,
                  RescueTypes
    <3>2. rsAt[w] \notin OurPlaces
      BY DEF RescueInv, Recorded
    <3> QED
      BY <2>2, <3>1, <3>2 DEF SendRescue, SendBack, SendExact, Running, RescueInv,
                              CallKnows, OurPlaces, Target, TargetOf
  <2>3. CASE UNCHANGED rsAt
    BY <2>3
  <2> QED
    BY <2>1, <2>2, <2>3
       DEF RescueNext, RescueStep, RescueUserStep, RescueFault, KeepRescue,
           GiveUpWaiting, AfterFailure, CompensateRescue, ConfirmBack, CannotGoBack,
           ScanLost, StartRescue, StartUndo, RescueCallFails
<1> QED BY RescueInvariant, <1>1, PTL DEF RescueKeepsOthersMoves, RescueSpec

-----------------------------------------------------------------------------
(* WindowLayout: a layout is taken back. *)

LayoutTxs ==
    [pc : {"none", "plan", "refresh", "send", "wait", "check", "final",
           "undo", "undoSend", "undoWait", "undoCheck"},
     way : {"apply", "rollback"}, todo : SUBSET Window,
     done : [Window -> {"none"} \union Owned2], source : Owned2, whole : BOOLEAN]

LayoutTypes ==
    /\ wlAt \in [Window -> Place]
    /\ wlFound \in [Window -> Place \union {"late"}]
    /\ wlSame \subseteq Window
    /\ wlQueue \in [Window -> {"none", "original", "desired"}]
    /\ wlTx \in LayoutTxs

\* What the journal's state of the item says of what the engine does.
ItemFitsPhase ==
    /\ (wlTx.pc # "none") = (wlPhase = "run")
    /\ wlPhase = "run" =>
          wlItem = IF wlTx.way = "apply" THEN "APPLYING" ELSE "ROLLING_BACK"
    /\ wlPhase = "verify" => wlItem = "APPLYING"
    /\ wlPhase = "confirm" => wlItem = "ROLLING_BACK"
    /\ wlPhase = "classify" => wlFrom = wlItem
    /\ wlItem \in {"ROLLED_BACK", "RECOVERY"} => wlPhase = "rest"
    /\ wlItem \in {"PREPARED", "APPLYING"} => wlSaid # "failed"

\* Only what this program sends moves a window nobody else moved.
OwnPlaces == \A w \in Window \ wlTouched : wlAt[w] \in Owned2

\* The windows to be moved are not moved yet, those to be moved back are; and to a
\* window that was moved nothing is under way but what moves it back.
TodoIsRight ==
    /\ wlTx.pc \in {"refresh", "send", "wait"} => \A w \in wlTx.todo : ~Moved(w)
    /\ Undoing => \A w \in wlTx.todo : Moved(w)
    /\ wlPhase = "run" =>
          \A w \in Window : Moved(w) /\ wlQueue[w] # "none" =>
              wlTx.pc = "undoWait" /\ InTurn(w)
    /\ wlTx.pc = "plan" => \A w \in Window : ~Moved(w)

\* Nothing was sent to a window while the journal says PREPARED.
PreparedIsUntouched ==
    wlItem = "PREPARED" =>
        \A w \in Window : /\ wlQueue[w] = "none"
                          /\ w \notin wlTouched => wlAt[w] = "original"

\* A window nobody else moved is moved by a rollback after what was sent before.
Fenced(w) ==
    /\ wlPhase = "run" /\ wlTx.way = "rollback" =>
          /\ wlTx.pc \in {"refresh", "send", "wait"}
                 => w \in wlTx.todo \/ wlQueue[w] = "none"
          /\ wlTx.pc \in {"check", "final"} => wlQueue[w] = "none"
    /\ wlPhase = "confirm" => wlQueue[w] = "none"
    /\ wlItem = "ROLLED_BACK" => wlAt[w] = "original" /\ wlQueue[w] = "none"

\* A transaction knows the place of every window it moved, and left the others where
\* they were.
Dispatched(w) == Moved(w) \/ (wlTx.pc = "wait" /\ InTurn(w))
FoundIsKept(w) ==
    wlPhase = "run" =>
        /\ wlTx.way = "apply" => wlFound[w] = "original"
        /\ wlFound[w] # "late" =>
              /\ wlFound[w] \in Owned2
              /\ ~Dispatched(w) => wlAt[w] = wlFound[w] /\ wlQueue[w] = "none"
              /\ Moved(w) => Source(w) = wlFound[w]
              /\ wlTx.pc \in {"send", "wait"} /\ InTurn(w) => wlTx.source = wlFound[w]
              /\ wlQueue[w] # "none" => wlTx.pc \in {"wait", "undoWait"} /\ InTurn(w)

\* After a transaction that failed and needs no recovery.
IsBack(w) ==
    /\ wlAt[w] = "original" /\ wlQueue[w] \in {"none", "original"}
    /\ wlFound[w] \in {"original", "late"}
    /\ wlPhase = "run" =>
          /\ Source(w) \in {"none", "original"}
          /\ wlTx.pc \in {"send", "wait"} /\ InTurn(w) => wlTx.source = "original"
          /\ wlTx.way = "rollback"

FailedIsBack ==
    wlSaid = "failed" =>
        \/ \A w \in Window \ wlTouched : IsBack(w)
        \/ /\ wlItem = "RECOVERY"
           /\ \A w \in Window \ wlTouched :
                 \/ wlFound[w] = "late"
                 \/ wlFound[w] = wlAt[w] /\ wlQueue[w] = "none"

\* A window others moved is moved by this program only if they moved it after a look.
LookedAt(w) ==
    /\ wlQueue[w] # "none" /\ wlAt[w] = "third" => w \in wlUnseen
    /\ wlTx.pc \in {"send", "undoSend"} /\ InTurn(w) /\ wlAt[w] = "third"
           => w \in wlUnseen
    /\ /\ wlTx.pc \in {"refresh", "send", "wait"} /\ w \in wlTx.todo
              /\ wlQueue[w] # "none"
       /\ wlTx.pc = "wait" => ~InTurn(w)
       => wlAt[w] # "third"

LayoutInv ==
    /\ LayoutTypes /\ ItemFitsPhase /\ OwnPlaces /\ TodoIsRight /\ PreparedIsUntouched
    /\ \A w \in Window \ wlTouched : Fenced(w) /\ FoundIsKept(w)
    /\ FailedIsBack
    /\ \A w \in Window : LookedAt(w)

-----------------------------------------------------------------------------
\* What a step makes of the transaction's record, field by field.
TxIs(t, tx, pc, todo, done, source) ==
    /\ t \in LayoutTxs /\ t.way = tx.way
    /\ t.pc = pc /\ t.todo = todo /\ t.done = done /\ t.source = source

TxGoes(tx, pc) == [tx EXCEPT !.pc = pc]
TxTodo(tx, pc, todo) == [tx EXCEPT !.pc = pc, !.todo = todo]
TxSource(tx, pc, source) == [tx EXCEPT !.pc = pc, !.source = source]
TxDone(tx, pc, todo, done) == [tx EXCEPT !.pc = pc, !.todo = todo, !.done = done]
TxLess(tx, pc, todo) == [tx EXCEPT !.pc = pc, !.todo = todo, !.whole = FALSE]

TxPcs == {"plan", "refresh", "send", "wait", "check", "final",
          "undo", "undoSend", "undoWait", "undoCheck"}

\* The fields of a transaction after each way of changing it.
LEMMA TxChanges ==
    ASSUME NEW tx \in LayoutTxs, NEW pc \in TxPcs, NEW todo \in SUBSET Window,
           NEW done \in [Window -> {"none"} \union Owned2], NEW source \in Owned2
    PROVE  /\ TxIs(TxGoes(tx, pc), tx, pc, tx.todo, tx.done, tx.source)
           /\ TxIs(TxTodo(tx, pc, todo), tx, pc, todo, tx.done, tx.source)
           /\ TxIs(TxSource(tx, pc, source), tx, pc, tx.todo, tx.done, source)
           /\ TxIs(TxDone(tx, pc, todo, done), tx, pc, todo, done, tx.source)
           /\ TxIs(TxLess(tx, pc, todo), tx, pc, todo, tx.done, tx.source)
<1> DEFINE goes == [tx EXCEPT !.pc = pc]
           does == [goes EXCEPT !.todo = todo]
<1>1. TxIs(goes, tx, pc, tx.todo, tx.done, tx.source)
  BY DEF TxIs, LayoutTxs, TxPcs
<1>2. TxGoes(tx, pc) = goes
  BY DEF TxGoes
<1>3. TxSource(tx, pc, source) = [goes EXCEPT !.source = source]
  BY DEF TxSource
<1>4. TxTodo(tx, pc, todo) = does
  BY DEF TxTodo
<1>5. TxDone(tx, pc, todo, done) = [does EXCEPT !.done = done]
  BY DEF TxDone
<1>6. TxLess(tx, pc, todo) = [does EXCEPT !.whole = FALSE]
  BY DEF TxLess
<1> HIDE DEF goes
<1>7. TxIs([goes EXCEPT !.source = source], tx, pc, tx.todo, tx.done, source)
  BY <1>1 DEF TxIs, LayoutTxs
<1>8. TxIs(does, tx, pc, todo, tx.done, tx.source)
  BY <1>1 DEF TxIs, LayoutTxs
<1> HIDE DEF does
<1>9. TxIs([does EXCEPT !.done = done], tx, pc, todo, done, tx.source)
  BY <1>8 DEF TxIs, LayoutTxs
<1>10. TxIs([does EXCEPT !.whole = FALSE], tx, pc, todo, tx.done, tx.source)
  BY <1>8 DEF TxIs, LayoutTxs
<1> QED BY <1>1, <1>2, <1>3, <1>4, <1>5, <1>6, <1>7, <1>8, <1>9, <1>10

LEMMA NoTxIsATx == NoTx \in LayoutTxs /\ NoTx.pc = "none" /\ NoTx.way = "apply"
                    /\ NoTx.todo = {} /\ \A w \in Window : NoTx.done[w] = "none"
BY DEF NoTx, LayoutTxs, Owned2

-----------------------------------------------------------------------------
\* Whose turn it is: a window still to be seen to, and only one.
LEMMA TurnIsTodo == ASSUME NEW w, InTurn(w) PROVE w \in wlTx.todo
BY DEF InTurn

LEMMA OneInTurn == ASSUME NEW v, NEW w, InTurn(v), InTurn(w) PROVE v = w
<1>1. Windows \in Seq(Nat)
  BY WindowsAssumption
<1>2. DOMAIN Windows \subseteq Nat
  BY <1>1
<1>3. PICK i \in DOMAIN Windows :
        /\ Windows[i] = v
        /\ \A j \in DOMAIN Windows : Windows[j] \in wlTx.todo
               => IF Undoing THEN j <= i ELSE i <= j
  BY DEF InTurn
<1>4. PICK k \in DOMAIN Windows :
        /\ Windows[k] = w
        /\ \A j \in DOMAIN Windows : Windows[j] \in wlTx.todo
               => IF Undoing THEN j <= k ELSE k <= j
  BY DEF InTurn
<1>5. v \in wlTx.todo /\ w \in wlTx.todo
  BY TurnIsTodo
<1>6. i = k
  BY <1>2, <1>3, <1>4, <1>5
<1> QED BY <1>3, <1>4, <1>6

LEMMA SameTurns ==
    ASSUME wlTx'.todo = wlTx.todo, Undoing' = Undoing
    PROVE  \A w : InTurn(w)' = InTurn(w)
BY DEF InTurn

LEMMA TurnIsTodoNext == \A w : InTurn(w)' => w \in wlTx'.todo
BY DEF InTurn

LEMMA LayoutInitially == LayoutInit => LayoutInv
BY NoTxIsATx
   DEF LayoutInit, LayoutInv, LayoutTypes, ItemFitsPhase, OwnPlaces, TodoIsRight,
       PreparedIsUntouched, Fenced, FoundIsKept, FailedIsBack, LookedAt, Place, Owned2,
       Undoing

\* One lemma for each step of the transaction: it keeps the invariant.
LEMMA MovesBackKeeps ==
    ASSUME LayoutInv, wlTx.pc \in {"refresh", "send", "check", "final"},
        wlPhase = "run", MovesBack,
           UNCHANGED <<wlAt, wlQueue, wlFound, wlSame, wlTouched>>,
           \/ wlUnseen' = wlUnseen
           \/ wlTx.pc = "refresh" /\ \E w \in Window : InTurn(w)
                  /\ wlUnseen' = wlUnseen \ {w}
    PROVE  LayoutInv'
<1> DEFINE moved == {w \in Window : Moved(w)}
<1>0. LayoutTypes
  BY DEF LayoutInv
<1>1. TxIs(wlTx', wlTx, "undo", moved, wlTx.done, wlTx.source)
  <2>1. wlTx' = TxTodo(wlTx, "undo", moved)
    BY DEF MovesBack, GoOn, TxTodo
  <2>2. moved \in SUBSET Window /\ "undo" \in TxPcs
            /\ wlTx.done \in [Window -> {"none"} \union Owned2]
        /\ wlTx.source \in Owned2 /\ wlTx \in LayoutTxs
    BY <1>0 DEF TxPcs, LayoutTypes, LayoutTxs
  <2> HIDE DEF moved
  <2> QED BY <2>1, <2>2, TxChanges
<1>2. UNCHANGED <<wlPhase, wlItem, wlFrom, wlSaid>>
  BY DEF MovesBack, GoOn
<1>3. \A w \in Window : Moved(w)' = Moved(w)
  BY <1>1 DEF Moved, TxIs
<1>4. LayoutTypes'
  BY <1>0, <1>1 DEF LayoutTypes, TxIs
<1>5. ItemFitsPhase'
  BY <1>1, <1>2 DEF LayoutInv, ItemFitsPhase, TxIs
<1>6. OwnPlaces' /\ PreparedIsUntouched'
  BY <1>2 DEF LayoutInv, OwnPlaces, PreparedIsUntouched
<1>7. TodoIsRight'
  BY <1>1, <1>3 DEF LayoutInv, TodoIsRight, TxIs
<1>8. ASSUME NEW w \in Window \ wlTouched
      PROVE  Fenced(w)' /\ FoundIsKept(w)'
  BY <1>1, <1>2, <1>3
     DEF LayoutInv, ItemFitsPhase, Fenced, FoundIsKept, Dispatched, Source, TxIs
<1>9. FailedIsBack'
  BY <1>1, <1>2 DEF LayoutInv, FailedIsBack, IsBack, Source, TxIs
<1>10. ASSUME NEW w \in Window
       PROVE  LookedAt(w)'
  BY <1>1, TurnIsTodo DEF LayoutInv, LookedAt, TxIs
<1> QED BY <1>4, <1>5, <1>6, <1>7, <1>8, <1>9, <1>10 DEF LayoutInv

LEMMA LeaveKeeps ==
    ASSUME LayoutInv,
           NEW w \in Window,
           InTurn(w),
           Leave(w),
           wlPhase = "run",
           wlTx.pc \in {"undo", "undoSend"},
           UNCHANGED <<wlAt, wlQueue, wlFound, wlSame, wlTouched>>,
           wlUnseen' = wlUnseen \/ (wlTx.pc = "undo" /\ wlUnseen' = wlUnseen \ {w})
    PROVE  LayoutInv'
<1>0. LayoutTypes
  BY DEF LayoutInv
<1>1. TxIs(wlTx', wlTx, "undo", wlTx.todo \ {w}, wlTx.done, wlTx.source)
  <2>1. wlTx' = TxLess(wlTx, "undo", wlTx.todo \ {w})
    BY DEF Leave, GoOn, TxLess
  <2>2. /\ wlTx \in LayoutTxs /\ wlTx.todo \in SUBSET Window
        /\ wlTx.done \in [Window -> {"none"} \union Owned2] /\ wlTx.source \in Owned2
    BY <1>0 DEF LayoutTypes, LayoutTxs
  <2>3. wlTx.todo \ {w} \in SUBSET Window
    BY <2>2
  <2> QED BY <2>1, <2>2, TxChanges, <2>3 DEF TxPcs
<1>2. UNCHANGED <<wlPhase, wlItem, wlFrom, wlSaid>>
  BY DEF Leave, GoOn
<1>3. /\ \A v \in Window : Moved(v)' = Moved(v)
      /\ \A v : InTurn(v)' => v \in wlTx'.todo
      /\ \A v : InTurn(v) => v \in wlTx.todo
  BY <1>1, TurnIsTodo, TurnIsTodoNext DEF Moved, TxIs
<1>4. LayoutTypes'
  BY <1>0, <1>1 DEF LayoutTypes, TxIs
<1>5. ItemFitsPhase'
  BY <1>1, <1>2 DEF LayoutInv, ItemFitsPhase, TxIs, Tx
<1>6. OwnPlaces' /\ PreparedIsUntouched'
  BY <1>2 DEF LayoutInv, OwnPlaces, PreparedIsUntouched
<1>7. TodoIsRight'
  BY <1>0, <1>1, <1>2, <1>3
     DEF LayoutInv, TodoIsRight, TxIs, Tx, Undoing, LayoutTypes, LayoutTxs
<1>8. ASSUME NEW v \in Window \ wlTouched
      PROVE  Fenced(v)' /\ FoundIsKept(v)'
  BY <1>1, <1>2, <1>3
     DEF LayoutInv, ItemFitsPhase, Fenced, FoundIsKept, Dispatched, Source, TxIs, Tx
<1>9. FailedIsBack'
  BY <1>1, <1>2, <1>3 DEF LayoutInv, FailedIsBack, IsBack, Source, TxIs, Tx
<1>10. ASSUME NEW v \in Window
       PROVE  LookedAt(v)'
  BY <1>1, <1>2, <1>3
     DEF LayoutInv, LookedAt, TxIs, Tx, TodoIsRight, Undoing, ItemFitsPhase
<1> QED BY <1>4, <1>5, <1>6, <1>7, <1>8, <1>9, <1>10 DEF LayoutInv

LEMMA RefreshKeeps ==
    ASSUME LayoutInv,
           NEW w \in Window,
           Refresh(w),
           MayBeMoved(w),
           UNCHANGED <<wlSame, wlTouched>>
    PROVE  LayoutInv'
<1>0. LayoutTypes
  BY DEF LayoutInv
<1>1. TxIs(wlTx', wlTx, "send", wlTx.todo, wlTx.done, SourceOf(w))
  <2>1. wlTx' = TxSource(wlTx, "send", SourceOf(w))
    BY DEF Refresh, GoOn, TxSource
  <2>2. /\ wlTx \in LayoutTxs /\ wlTx.todo \in SUBSET Window
        /\ wlTx.done \in [Window -> {"none"} \union Owned2] /\ wlTx.source \in Owned2
    BY <1>0 DEF LayoutTypes, LayoutTxs
  <2>3. SourceOf(w) \in Owned2
    BY DEF SourceOf, Owned2
  <2> QED BY <2>1, <2>2, TxChanges, <2>3 DEF TxPcs
<1>2. UNCHANGED <<wlPhase, wlItem, wlFrom, wlSaid>>
  BY DEF Refresh, GoOn
<1>3. /\ \A v \in Window : Moved(v)' = Moved(v)
      /\ \A v : InTurn(v)' = InTurn(v)
  BY <1>1, SameTurns DEF Refresh, Moved, TxIs, Tx, Undoing
<1>4. LayoutTypes'
  BY <1>0, <1>1 DEF LayoutTypes, TxIs, Refresh
<1>5. ItemFitsPhase'
  BY <1>1, <1>2 DEF LayoutInv, ItemFitsPhase, TxIs, Tx, Refresh
<1>6. OwnPlaces' /\ PreparedIsUntouched'
  BY <1>2 DEF LayoutInv, OwnPlaces, PreparedIsUntouched, Refresh
<1>7. TodoIsRight'
  BY <1>0, <1>1, <1>2, <1>3
     DEF LayoutInv, TodoIsRight, TxIs, Tx, Undoing, LayoutTypes, LayoutTxs, Refresh
<1>8. ASSUME NEW v \in Window \ wlTouched
      PROVE  Fenced(v)' /\ FoundIsKept(v)'
  BY <1>1, <1>2, <1>3, TurnIsTodo, OneInTurn
     DEF LayoutInv, ItemFitsPhase, Fenced, FoundIsKept, Dispatched, Source, TxIs, Tx,
         Refresh, SourceOf, AtOriginal, Owned2, TodoIsRight
<1>9. FailedIsBack'
  BY <1>1, <1>2, <1>3, OneInTurn
     DEF LayoutInv, FailedIsBack, IsBack, Source, TxIs, Tx, Refresh, SourceOf,
         AtOriginal
<1>10. ASSUME NEW v \in Window
       PROVE  LookedAt(v)'
  BY <1>1, <1>2, <1>3, OneInTurn
     DEF LayoutInv, LookedAt, TxIs, Tx, Refresh, MayBeMoved, AtOriginal, AtDesired
<1> QED BY <1>4, <1>5, <1>6, <1>7, <1>8, <1>9, <1>10 DEF LayoutInv

LEMMA SendKeeps ==
    ASSUME LayoutInv,
           NEW w \in Window,
           Send(w),
           wlAt[w] # "gone",
           UNCHANGED <<wlSame, wlTouched>>
    PROVE  LayoutInv'
<1>0. LayoutTypes
  BY DEF LayoutInv
<1>1. TxIs(wlTx', wlTx, "wait", wlTx.todo, wlTx.done, wlTx.source)
  <2>1. wlTx' = TxGoes(wlTx, "wait")
    BY DEF Send, GoOn, TxGoes
  <2>2. /\ wlTx \in LayoutTxs /\ wlTx.todo \in SUBSET Window
        /\ wlTx.done \in [Window -> {"none"} \union Owned2] /\ wlTx.source \in Owned2
    BY <1>0 DEF LayoutTypes, LayoutTxs
  <2> QED BY <2>1, <2>2, TxChanges DEF TxPcs
<1>2. UNCHANGED <<wlPhase, wlItem, wlFrom, wlSaid>>
  BY DEF Send, GoOn
<1>3. /\ \A v \in Window : Moved(v)' = Moved(v)
      /\ \A v : InTurn(v)' = InTurn(v)
  BY <1>1, SameTurns DEF Send, Moved, TxIs, Tx, Undoing
<1>4. LayoutTypes'
  BY <1>0, <1>1 DEF LayoutTypes, TxIs, Send, Destination
<1>5. ItemFitsPhase'
  BY <1>1, <1>2 DEF LayoutInv, ItemFitsPhase, TxIs, Tx, Send
<1>6. OwnPlaces' /\ PreparedIsUntouched'
  BY <1>2
     DEF LayoutInv, OwnPlaces, PreparedIsUntouched, Send, LayoutTypes, ItemFitsPhase,
         Tx
<1>7. TodoIsRight'
  BY <1>0, <1>1, <1>2, <1>3, TurnIsTodo
     DEF LayoutInv, TodoIsRight, TxIs, Tx, Undoing, LayoutTypes, LayoutTxs, Send
<1>8. ASSUME NEW v \in Window \ wlTouched
      PROVE  Fenced(v)' /\ FoundIsKept(v)'
  BY <1>1, <1>2, <1>3, TurnIsTodo, OneInTurn
     DEF LayoutInv, ItemFitsPhase, Fenced, FoundIsKept, Dispatched, Source, TxIs, Tx,
         Send, LayoutTypes, TodoIsRight
<1>9. FailedIsBack'
  BY <1>1, <1>2, <1>3, OneInTurn
     DEF LayoutInv, FailedIsBack, IsBack, Source, TxIs, Tx, Send, LayoutTypes,
         Destination, ItemFitsPhase
<1>10. ASSUME NEW v \in Window
       PROVE  LookedAt(v)'
  BY <1>1, <1>2, <1>3, OneInTurn DEF LayoutInv, LookedAt, TxIs, Tx, Send, LayoutTypes
<1> QED BY <1>4, <1>5, <1>6, <1>7, <1>8, <1>9, <1>10 DEF LayoutInv

LEMMA ReturnsKeeps ==
    ASSUME LayoutInv,
           NEW w \in Window,
           Returns(w),
           UNCHANGED <<wlSame, wlTouched>>
    PROVE  LayoutInv'
<1>0. LayoutTypes
  BY DEF LayoutInv
<1>1. TxIs(wlTx', wlTx, "refresh", wlTx.todo \ {w},
          [wlTx.done EXCEPT ![w] = wlTx.source], wlTx.source)
  <2>1. wlTx' = TxDone(wlTx, "refresh", wlTx.todo \ {w},
            [wlTx.done EXCEPT ![w] = wlTx.source])
    BY DEF Returns, GoOn, TxDone
  <2>2. /\ wlTx \in LayoutTxs /\ wlTx.todo \in SUBSET Window
        /\ wlTx.done \in [Window -> {"none"} \union Owned2] /\ wlTx.source \in Owned2
    BY <1>0 DEF LayoutTypes, LayoutTxs
  <2>3. /\ wlTx.todo \ {w} \in SUBSET Window
        /\ [wlTx.done EXCEPT ![w] = wlTx.source] \in [Window -> {"none"} \union Owned2]
    BY <2>2
  <2> QED BY <2>1, <2>2, TxChanges, <2>3 DEF TxPcs
<1>2. UNCHANGED <<wlPhase, wlItem, wlFrom, wlSaid>>
  BY DEF Returns, GoOn
<1>3. /\ \A v \in Window : Moved(v)' = (Moved(v) \/ v = w)
      /\ \A v : InTurn(v)' => v \in wlTx'.todo
      /\ \A v : InTurn(v) => v = w
      /\ w \in wlTx.todo /\ InTurn(w) /\ wlTx.pc = "wait" /\ wlQueue[w] = "none"
      /\ \A v \in Window : Source(v)' = IF v = w THEN wlTx.source ELSE Source(v)
  BY <1>0, <1>1, TurnIsTodo, TurnIsTodoNext, OneInTurn
     DEF Returns, Tx, Moved, Source, TxIs, LayoutTypes, LayoutTxs, Owned2
<1>4. LayoutTypes'
  BY <1>0, <1>1 DEF LayoutTypes, TxIs, Returns
<1>5. ItemFitsPhase'
  BY <1>1, <1>2 DEF LayoutInv, ItemFitsPhase, TxIs, Tx, Returns
<1>6. OwnPlaces' /\ PreparedIsUntouched'
  BY <1>2 DEF LayoutInv, OwnPlaces, PreparedIsUntouched, Returns
<1>7. TodoIsRight'
  BY <1>0, <1>1, <1>2, <1>3
     DEF LayoutInv, TodoIsRight, TxIs, Tx, Undoing, LayoutTypes, LayoutTxs, Returns
<1>8. ASSUME NEW v \in Window \ wlTouched
      PROVE  Fenced(v)' /\ FoundIsKept(v)'
  <2>1. Fenced(v) /\ FoundIsKept(v) /\ v \in Window
    BY DEF LayoutInv
  <2>2. Fenced(v)'
    BY <1>1, <1>2, <1>3, <2>1 DEF Fenced, TxIs, Tx, Returns, LayoutInv, ItemFitsPhase
  <2>3. wlPhase = "run" /\ wlFound' = wlFound /\ wlAt' = wlAt /\ wlQueue' = wlQueue
        /\ wlTx'.way = wlTx.way /\ wlTx'.pc = "refresh"
    BY <1>1 DEF Returns, Tx, TxIs
  <2>4. /\ Moved(v)' <=> (Moved(v) \/ v = w)
        /\ Source(v)' = IF v = w THEN wlTx.source ELSE Source(v)
        /\ InTurn(v) <=> v = w
        /\ wlTx.pc = "wait" /\ wlQueue[w] = "none"
    BY <1>3, <2>1
  <2>5. FoundIsKept(v)'
    BY <2>1, <2>3, <2>4 DEF FoundIsKept, Dispatched
  <2> QED BY <2>2, <2>5
<1>9. FailedIsBack'
  BY <1>1, <1>2, <1>3
     DEF LayoutInv, FailedIsBack, IsBack, Source, TxIs, Tx, Returns, LayoutTypes,
         LayoutTxs
<1>10. ASSUME NEW v \in Window
       PROVE  LookedAt(v)'
  BY <1>1, <1>2, <1>3 DEF LayoutInv, LookedAt, TxIs, Tx, Returns
<1> QED BY <1>4, <1>5, <1>6, <1>7, <1>8, <1>9, <1>10 DEF LayoutInv

LEMMA AllSentKeeps ==
    ASSUME LayoutInv,
           AllSent,
           UNCHANGED <<wlSame, wlTouched>>
    PROVE  LayoutInv'
<1>0. LayoutTypes
  BY DEF LayoutInv
<1>1. TxIs(wlTx', wlTx, "check", wlTx.todo, wlTx.done, wlTx.source)
  <2>1. wlTx' = TxGoes(wlTx, "check")
    BY DEF AllSent, GoOn, TxGoes
  <2>2. /\ wlTx \in LayoutTxs /\ wlTx.todo \in SUBSET Window
        /\ wlTx.done \in [Window -> {"none"} \union Owned2] /\ wlTx.source \in Owned2
    BY <1>0 DEF LayoutTypes, LayoutTxs
  <2> QED BY <2>1, <2>2, TxChanges DEF TxPcs
<1>2. UNCHANGED <<wlPhase, wlItem, wlFrom, wlSaid>>
  BY DEF AllSent, GoOn
<1>3. /\ \A v \in Window : Moved(v)' = Moved(v)
      /\ \A v : InTurn(v)' = InTurn(v)
  BY <1>1, SameTurns DEF AllSent, Moved, TxIs, Tx, Undoing
<1>4. LayoutTypes'
  BY <1>0, <1>1 DEF LayoutTypes, TxIs, AllSent
<1>5. ItemFitsPhase'
  BY <1>1, <1>2 DEF LayoutInv, ItemFitsPhase, TxIs, Tx, AllSent
<1>6. OwnPlaces' /\ PreparedIsUntouched'
  BY <1>2 DEF LayoutInv, OwnPlaces, PreparedIsUntouched, AllSent
<1>7. TodoIsRight'
  BY <1>0, <1>1, <1>2, <1>3
     DEF LayoutInv, TodoIsRight, TxIs, Tx, Undoing, LayoutTypes, LayoutTxs, AllSent
<1>8. ASSUME NEW v \in Window \ wlTouched
      PROVE  Fenced(v)' /\ FoundIsKept(v)'
  BY <1>1, <1>2, <1>3
     DEF LayoutInv, ItemFitsPhase, Fenced, FoundIsKept, Dispatched, Source, TxIs, Tx,
         AllSent
<1>9. FailedIsBack'
  BY <1>1, <1>2, <1>3 DEF LayoutInv, FailedIsBack, IsBack, Source, TxIs, Tx, AllSent
<1>10. ASSUME NEW v \in Window
       PROVE  LookedAt(v)'
  BY <1>1, <1>2, <1>3 DEF LayoutInv, LookedAt, TxIs, Tx, AllSent
<1> QED BY <1>4, <1>5, <1>6, <1>7, <1>8, <1>9, <1>10 DEF LayoutInv

LEMMA CheckKeeps ==
    ASSUME LayoutInv,
           Check,
           \A w \in Window : Moved(w) => wlAt[w] = Destination(w),
           UNCHANGED <<wlSame, wlTouched>>
    PROVE  LayoutInv'
<1>0. LayoutTypes
  BY DEF LayoutInv
<1>1. TxIs(wlTx', wlTx, "final", wlTx.todo, wlTx.done, wlTx.source)
  <2>1. wlTx' = TxGoes(wlTx, "final")
    BY DEF Check, GoOn, TxGoes
  <2>2. /\ wlTx \in LayoutTxs /\ wlTx.todo \in SUBSET Window
        /\ wlTx.done \in [Window -> {"none"} \union Owned2] /\ wlTx.source \in Owned2
    BY <1>0 DEF LayoutTypes, LayoutTxs
  <2> QED BY <2>1, <2>2, TxChanges DEF TxPcs
<1>2. UNCHANGED <<wlPhase, wlItem, wlFrom, wlSaid>>
  BY DEF Check, GoOn
<1>3. /\ \A v \in Window : Moved(v)' = Moved(v)
      /\ \A v : InTurn(v)' = InTurn(v)
  BY <1>1, SameTurns DEF Check, Moved, TxIs, Tx, Undoing
<1>4. LayoutTypes'
  BY <1>0, <1>1 DEF LayoutTypes, TxIs, Check
<1>5. ItemFitsPhase'
  BY <1>1, <1>2 DEF LayoutInv, ItemFitsPhase, TxIs, Tx, Check
<1>6. OwnPlaces' /\ PreparedIsUntouched'
  BY <1>2 DEF LayoutInv, OwnPlaces, PreparedIsUntouched, Check
<1>7. TodoIsRight'
  BY <1>0, <1>1, <1>2, <1>3
     DEF LayoutInv, TodoIsRight, TxIs, Tx, Undoing, LayoutTypes, LayoutTxs, Check
<1>8. ASSUME NEW v \in Window \ wlTouched
      PROVE  Fenced(v)' /\ FoundIsKept(v)'
  BY <1>1, <1>2, <1>3
     DEF LayoutInv, ItemFitsPhase, Fenced, FoundIsKept, Dispatched, Source, TxIs, Tx,
         Check
<1>9. FailedIsBack'
  BY <1>1, <1>2, <1>3 DEF LayoutInv, FailedIsBack, IsBack, Source, TxIs, Tx, Check
<1>10. ASSUME NEW v \in Window
       PROVE  LookedAt(v)'
  BY <1>1, <1>2, <1>3 DEF LayoutInv, LookedAt, TxIs, Tx, Check
<1> QED BY <1>4, <1>5, <1>6, <1>7, <1>8, <1>9, <1>10 DEF LayoutInv

LEMMA UndoKeeps ==
    ASSUME LayoutInv,
           NEW w \in Window,
           Undo(w),
           AtOriginal(w) \/ AtDesired(w),
           UNCHANGED <<wlSame, wlTouched>>
    PROVE  LayoutInv'
<1>0. LayoutTypes
  BY DEF LayoutInv
<1>1. TxIs(wlTx', wlTx, "undoSend", wlTx.todo, wlTx.done, wlTx.source)
  <2>1. wlTx' = TxGoes(wlTx, "undoSend")
    BY DEF Undo, GoOn, TxGoes
  <2>2. /\ wlTx \in LayoutTxs /\ wlTx.todo \in SUBSET Window
        /\ wlTx.done \in [Window -> {"none"} \union Owned2] /\ wlTx.source \in Owned2
    BY <1>0 DEF LayoutTypes, LayoutTxs
  <2> QED BY <2>1, <2>2, TxChanges DEF TxPcs
<1>2. UNCHANGED <<wlPhase, wlItem, wlFrom, wlSaid>>
  BY DEF Undo, GoOn
<1>3. /\ \A v \in Window : Moved(v)' = Moved(v)
      /\ \A v : InTurn(v)' = InTurn(v)
  BY <1>1, SameTurns DEF Undo, Moved, TxIs, Tx, Undoing
<1>4. LayoutTypes'
  BY <1>0, <1>1 DEF LayoutTypes, TxIs, Undo
<1>5. ItemFitsPhase'
  BY <1>1, <1>2 DEF LayoutInv, ItemFitsPhase, TxIs, Tx, Undo
<1>6. OwnPlaces' /\ PreparedIsUntouched'
  BY <1>2 DEF LayoutInv, OwnPlaces, PreparedIsUntouched, Undo
<1>7. TodoIsRight'
  BY <1>0, <1>1, <1>2, <1>3
     DEF LayoutInv, TodoIsRight, TxIs, Tx, Undoing, LayoutTypes, LayoutTxs, Undo
<1>8. ASSUME NEW v \in Window \ wlTouched
      PROVE  Fenced(v)' /\ FoundIsKept(v)'
  BY <1>1, <1>2, <1>3
     DEF LayoutInv, ItemFitsPhase, Fenced, FoundIsKept, Dispatched, Source, TxIs, Tx,
         Undo
<1>9. FailedIsBack'
  BY <1>1, <1>2, <1>3 DEF LayoutInv, FailedIsBack, IsBack, Source, TxIs, Tx, Undo
<1>10. ASSUME NEW v \in Window
       PROVE  LookedAt(v)'
  BY <1>1, <1>2, <1>3, OneInTurn, TurnIsTodo
     DEF LayoutInv, LookedAt, TxIs, Tx, Undo, AtOriginal, AtDesired, TodoIsRight,
         ItemFitsPhase, Undoing
<1> QED BY <1>4, <1>5, <1>6, <1>7, <1>8, <1>9, <1>10 DEF LayoutInv

LEMMA UndoSendKeeps ==
    ASSUME LayoutInv,
           NEW w \in Window,
           UndoSend(w),
           wlAt[w] # "gone",
           UNCHANGED <<wlSame, wlTouched>>
    PROVE  LayoutInv'
<1>0. LayoutTypes
  BY DEF LayoutInv
<1>1. TxIs(wlTx', wlTx, "undoWait", wlTx.todo, wlTx.done, wlTx.source)
  <2>1. wlTx' = TxGoes(wlTx, "undoWait")
    BY DEF UndoSend, GoOn, TxGoes
  <2>2. /\ wlTx \in LayoutTxs /\ wlTx.todo \in SUBSET Window
        /\ wlTx.done \in [Window -> {"none"} \union Owned2] /\ wlTx.source \in Owned2
    BY <1>0 DEF LayoutTypes, LayoutTxs
  <2> QED BY <2>1, <2>2, TxChanges DEF TxPcs
<1>2. UNCHANGED <<wlPhase, wlItem, wlFrom, wlSaid>>
  BY DEF UndoSend, GoOn
<1>3. /\ \A v \in Window : Moved(v)' = Moved(v)
      /\ \A v : InTurn(v)' = InTurn(v)
  BY <1>1, SameTurns DEF UndoSend, Moved, TxIs, Tx, Undoing
<1>4. LayoutTypes'
  <2>1. Moved(w) /\ wlTx.done \in [Window -> {"none"} \union Owned2]
    BY <1>0, TurnIsTodo
       DEF UndoSend, Tx, LayoutInv, TodoIsRight, Undoing, LayoutTypes, LayoutTxs
  <2>2. Source(w) \in {"original", "desired"}
    BY <2>1 DEF Moved, Source, Owned2
  <2> QED BY <1>0, <1>1, <2>2 DEF LayoutTypes, TxIs, UndoSend
<1>5. ItemFitsPhase'
  BY <1>1, <1>2 DEF LayoutInv, ItemFitsPhase, TxIs, Tx, UndoSend
<1>6. OwnPlaces' /\ PreparedIsUntouched'
  BY <1>2
     DEF LayoutInv, OwnPlaces, PreparedIsUntouched, UndoSend, LayoutTypes,
         ItemFitsPhase, Tx
<1>7. TodoIsRight'
  BY <1>0, <1>1, <1>2, <1>3, TurnIsTodo, OneInTurn
     DEF LayoutInv, TodoIsRight, TxIs, Tx, Undoing, LayoutTypes, LayoutTxs, UndoSend
<1>8. ASSUME NEW v \in Window \ wlTouched
      PROVE  Fenced(v)' /\ FoundIsKept(v)'
  BY <1>1, <1>2, <1>3, TurnIsTodo, OneInTurn
     DEF LayoutInv, ItemFitsPhase, Fenced, FoundIsKept, Dispatched, Source, TxIs, Tx,
         UndoSend, LayoutTypes, TodoIsRight, Undoing
<1>9. FailedIsBack'
  BY <1>1, <1>2, <1>3, OneInTurn, TurnIsTodo
     DEF LayoutInv, FailedIsBack, IsBack, Source, TxIs, Tx, UndoSend, LayoutTypes,
         TodoIsRight, Undoing, Moved, ItemFitsPhase
<1>10. ASSUME NEW v \in Window
       PROVE  LookedAt(v)'
  BY <1>1, <1>2, <1>3, OneInTurn DEF LayoutInv, LookedAt, TxIs, Tx, UndoSend, LayoutTypes
<1> QED BY <1>4, <1>5, <1>6, <1>7, <1>8, <1>9, <1>10 DEF LayoutInv

LEMMA AllUndoneKeeps ==
    ASSUME LayoutInv,
           AllUndone,
           UNCHANGED <<wlSame, wlTouched>>
    PROVE  LayoutInv'
<1>0. LayoutTypes
  BY DEF LayoutInv
<1>1. TxIs(wlTx', wlTx, "undoCheck", wlTx.todo, wlTx.done, wlTx.source)
  <2>1. wlTx' = TxGoes(wlTx, "undoCheck")
    BY DEF AllUndone, GoOn, TxGoes
  <2>2. /\ wlTx \in LayoutTxs /\ wlTx.todo \in SUBSET Window
        /\ wlTx.done \in [Window -> {"none"} \union Owned2] /\ wlTx.source \in Owned2
    BY <1>0 DEF LayoutTypes, LayoutTxs
  <2> QED BY <2>1, <2>2, TxChanges DEF TxPcs
<1>2. UNCHANGED <<wlPhase, wlItem, wlFrom, wlSaid>>
  BY DEF AllUndone, GoOn
<1>3. /\ \A v \in Window : Moved(v)' = Moved(v)
      /\ \A v : InTurn(v)' => v \in wlTx'.todo
      /\ \A v : InTurn(v) => v \in wlTx.todo
  BY <1>1, TurnIsTodo, TurnIsTodoNext DEF AllUndone, Moved, TxIs
<1>4. LayoutTypes'
  BY <1>0, <1>1 DEF LayoutTypes, TxIs, AllUndone
<1>5. ItemFitsPhase'
  BY <1>1, <1>2 DEF LayoutInv, ItemFitsPhase, TxIs, Tx, AllUndone
<1>6. OwnPlaces' /\ PreparedIsUntouched'
  BY <1>2 DEF LayoutInv, OwnPlaces, PreparedIsUntouched, AllUndone
<1>7. TodoIsRight'
  BY <1>0, <1>1, <1>2, <1>3
     DEF LayoutInv, TodoIsRight, TxIs, Tx, Undoing, LayoutTypes, LayoutTxs, AllUndone
<1>8. ASSUME NEW v \in Window \ wlTouched
      PROVE  Fenced(v)' /\ FoundIsKept(v)'
  BY <1>1, <1>2, <1>3
     DEF LayoutInv, ItemFitsPhase, Fenced, FoundIsKept, Dispatched, Source, TxIs, Tx,
         AllUndone, Undoing
<1>9. FailedIsBack'
  BY <1>1, <1>2, <1>3 DEF LayoutInv, FailedIsBack, IsBack, Source, TxIs, Tx, AllUndone
<1>10. ASSUME NEW v \in Window
       PROVE  LookedAt(v)'
  BY <1>1, <1>2, <1>3, TurnIsTodo DEF LayoutInv, LookedAt, TxIs, Tx, AllUndone
<1> QED BY <1>4, <1>5, <1>6, <1>7, <1>8, <1>9, <1>10 DEF LayoutInv

LEMMA UndoReturnsKeeps ==
    ASSUME LayoutInv,
           NEW w \in Window,
           UndoReturns(w),
           UNCHANGED <<wlSame, wlTouched>>
    PROVE  LayoutInv'
<1>0. LayoutTypes
  BY DEF LayoutInv
<1>1. TxIs(wlTx', wlTx, "undo", wlTx.todo \ {w}, wlTx.done, wlTx.source)
  <2>1. wlTx' = TxTodo(wlTx, "undo", wlTx.todo \ {w})
    BY DEF UndoReturns, GoOn, TxTodo
  <2>2. /\ wlTx \in LayoutTxs /\ wlTx.todo \in SUBSET Window
        /\ wlTx.done \in [Window -> {"none"} \union Owned2] /\ wlTx.source \in Owned2
    BY <1>0 DEF LayoutTypes, LayoutTxs
  <2>3. wlTx.todo \ {w} \in SUBSET Window
    BY <2>2
  <2> QED BY <2>1, <2>2, TxChanges, <2>3 DEF TxPcs
<1>2. UNCHANGED <<wlPhase, wlItem, wlFrom, wlSaid>>
  BY DEF UndoReturns, GoOn
<1>3. /\ \A v \in Window : Moved(v)' = Moved(v)
      /\ \A v : InTurn(v)' => v \in wlTx'.todo
      /\ \A v : InTurn(v) => v \in wlTx.todo
  BY <1>1, TurnIsTodo, TurnIsTodoNext DEF Moved, TxIs
<1>4. LayoutTypes'
  BY <1>0, <1>1 DEF LayoutTypes, TxIs, UndoReturns
<1>5. ItemFitsPhase'
  BY <1>1, <1>2 DEF LayoutInv, ItemFitsPhase, TxIs, Tx, UndoReturns
<1>6. OwnPlaces' /\ PreparedIsUntouched'
  BY <1>2 DEF LayoutInv, OwnPlaces, PreparedIsUntouched, UndoReturns
<1>7. TodoIsRight'
  BY <1>0, <1>1, <1>2, <1>3, OneInTurn
     DEF LayoutInv, TodoIsRight, TxIs, Tx, Undoing, LayoutTypes, LayoutTxs, UndoReturns
<1>8. ASSUME NEW v \in Window \ wlTouched
      PROVE  Fenced(v)' /\ FoundIsKept(v)'
  BY <1>1, <1>2, <1>3, OneInTurn
     DEF LayoutInv, ItemFitsPhase, Fenced, FoundIsKept, Dispatched, Source, TxIs, Tx,
         UndoReturns
<1>9. FailedIsBack'
  BY <1>1, <1>2, <1>3 DEF LayoutInv, FailedIsBack, IsBack, Source, TxIs, Tx, UndoReturns
<1>10. ASSUME NEW v \in Window
       PROVE  LookedAt(v)'
  BY <1>1, <1>2, <1>3 DEF LayoutInv, LookedAt, TxIs, Tx, UndoReturns
<1> QED BY <1>4, <1>5, <1>6, <1>7, <1>8, <1>9, <1>10 DEF LayoutInv

LEMMA EndsKeeps ==
    ASSUME LayoutInv, wlPhase = "run",
        NEW result \in {"ok", "failed", "cut", "recovery"}, Ends(result),
           UNCHANGED <<wlAt, wlQueue, wlFound, wlUnseen, wlSame, wlTouched>>,
           result = "ok" => wlTx.pc = "final",
           result = "failed" => /\ wlTx.pc \notin {"wait", "undoWait"}
                                /\ \A w \in Window : Moved(w) => wlAt[w] = Source(w)
    PROVE  LayoutInv'
<1>1. /\ wlTx' = NoTx /\ wlTx'.pc = "none" /\ wlSaid' = result
      /\ wlItem = IF wlTx.way = "apply" THEN "APPLYING" ELSE "ROLLING_BACK"
      /\ wlTx.way \in {"apply", "rollback"}
  BY NoTxIsATx DEF Ends, LayoutInv, ItemFitsPhase, LayoutTypes, LayoutTxs
<1>2. \/ /\ result = "ok" /\ wlItem' = wlItem
         /\ wlPhase' = IF wlTx.way = "apply" THEN "verify" ELSE "confirm"
      \/ /\ result # "ok" /\ wlTx.way = "apply"
         /\ wlItem' = "APPLY_FAILED" /\ wlFrom' = wlItem' /\ wlPhase' = "classify"
      \/ /\ result # "ok" /\ wlTx.way = "rollback"
         /\ wlItem' = "RECOVERY" /\ wlPhase' = "rest"
  BY <1>1 DEF Ends, Classifies
<1>3. LayoutTypes'
  BY <1>1, NoTxIsATx DEF LayoutInv, LayoutTypes
<1>4. ItemFitsPhase'
  BY <1>1, <1>2 DEF ItemFitsPhase
<1>5. OwnPlaces' /\ TodoIsRight' /\ PreparedIsUntouched'
  BY <1>1, <1>2 DEF LayoutInv, OwnPlaces, TodoIsRight, PreparedIsUntouched, Undoing
<1>6. ASSUME NEW w \in Window \ wlTouched
      PROVE  Fenced(w)' /\ FoundIsKept(w)'
  BY <1>1, <1>2 DEF LayoutInv, Fenced, FoundIsKept
<1>7. FailedIsBack'
  <2> SUFFICES ASSUME result = "failed"
               PROVE  FailedIsBack'
    BY <1>1 DEF FailedIsBack
  <2>1. ASSUME NEW w \in Window \ wlTouched
        PROVE  /\ wlTx.way = "apply" => wlFound[w] = "original"
               /\ wlFound[w] # "late" => wlAt[w] = wlFound[w] /\ wlQueue[w] = "none"
    BY DEF LayoutInv, FoundIsKept, Dispatched
  <2> QED BY <1>1, <1>2, <2>1 DEF FailedIsBack, IsBack
<1>8. ASSUME NEW w \in Window
      PROVE  LookedAt(w)'
  BY <1>1 DEF LayoutInv, LookedAt
<1> QED BY <1>3, <1>4, <1>5, <1>6, <1>7, <1>8 DEF LayoutInv


LEMMA PlanKeeps ==
    ASSUME LayoutInv,
           Plan,
           ~(wlTx.way = "apply" /\ \E w \in Window : ~AtOriginal(w)),
           UNCHANGED <<wlSame, wlTouched>>
    PROVE  LayoutInv'
<1> DEFINE planned == {w \in Window : IF wlTx.way = "apply" THEN ~AtDesired(w)
                                   ELSE AtOriginal(w) \/ AtDesired(w)}
<1>0. LayoutTypes
  BY DEF LayoutInv
<1>1. TxIs(wlTx', wlTx, "refresh", planned, wlTx.done, wlTx.source)
  <2>1. wlTx' = TxTodo(wlTx, "refresh", planned)
    BY DEF Plan, GoOn, TxTodo
  <2>2. /\ wlTx \in LayoutTxs /\ wlTx.todo \in SUBSET Window
        /\ wlTx.done \in [Window -> {"none"} \union Owned2] /\ wlTx.source \in Owned2
    BY <1>0 DEF LayoutTypes, LayoutTxs
  <2>3. planned \in SUBSET Window
    OBVIOUS
  <2> HIDE DEF planned
  <2> QED BY <2>1, <2>2, TxChanges, <2>3 DEF TxPcs
<1>2. UNCHANGED <<wlPhase, wlItem, wlFrom, wlSaid>>
  BY DEF Plan, GoOn
<1>3. /\ \A v \in Window : Moved(v)' = Moved(v)
      /\ \A v : InTurn(v)' => v \in wlTx'.todo
      /\ \A v : InTurn(v) => v \in wlTx.todo
  BY <1>1, TurnIsTodo, TurnIsTodoNext DEF Moved, TxIs
<1>4. LayoutTypes'
  BY <1>0, <1>1 DEF LayoutTypes, TxIs, Plan
<1>5. ItemFitsPhase'
  BY <1>1, <1>2 DEF LayoutInv, ItemFitsPhase, TxIs, Tx, Plan
<1>6. OwnPlaces' /\ PreparedIsUntouched'
  BY <1>2 DEF LayoutInv, OwnPlaces, PreparedIsUntouched, Plan
<1>7. TodoIsRight'
  BY <1>0, <1>1, <1>2, <1>3
     DEF LayoutInv, TodoIsRight, TxIs, Tx, Undoing, LayoutTypes, LayoutTxs, Plan
<1>8. ASSUME NEW v \in Window \ wlTouched
      PROVE  Fenced(v)' /\ FoundIsKept(v)'
  BY <1>1, <1>2, <1>3
     DEF LayoutInv, ItemFitsPhase, Fenced, FoundIsKept, Dispatched, Source, TxIs, Tx,
         Plan, OwnPlaces, AtOriginal, AtDesired, Owned2
<1>9. FailedIsBack'
  BY <1>1, <1>2, <1>3 DEF LayoutInv, FailedIsBack, IsBack, Source, TxIs, Tx, Plan
<1>10. ASSUME NEW v \in Window
       PROVE  LookedAt(v)'
  BY <1>1, <1>2, <1>3 DEF LayoutInv, LookedAt, TxIs, Tx, Plan, AtOriginal, AtDesired, Tx
<1> QED BY <1>4, <1>5, <1>6, <1>7, <1>8, <1>9, <1>10 DEF LayoutInv

LEMMA TransactionKeeps ==
    ASSUME LayoutInv, TransactionStep, UNCHANGED <<wlSame, wlTouched>>
    PROVE  LayoutInv'
<1>1. CASE Plan
  <2>1. CASE wlTx.way = "apply" /\ \E w \in Window : ~AtOriginal(w)
    BY <1>1, <2>1, EndsKeeps DEF Plan, Tx, LayoutInv, TodoIsRight
  <2>2. CASE ~(wlTx.way = "apply" /\ \E w \in Window : ~AtOriginal(w))
    BY <1>1, <2>2, PlanKeeps
  <2> QED BY <2>1, <2>2
<1>2. CASE AllSent
  BY <1>2, AllSentKeeps
<1>3. CASE Check
  <2>1. CASE \A w \in Window : Moved(w) => wlAt[w] = Destination(w)
    BY <1>3, <2>1, CheckKeeps
  <2>2. CASE ~\A w \in Window : Moved(w) => wlAt[w] = Destination(w)
    BY <1>3, <2>2, MovesBackKeeps DEF Check, Tx
  <2> QED BY <2>1, <2>2
<1>4. CASE Final
  <2>1. CASE IF wlTx.way = "apply" THEN IsDesired ELSE IsOriginal
    BY <1>4, <2>1, EndsKeeps DEF Final, Tx
  <2>2. CASE ~(IF wlTx.way = "apply" THEN IsDesired ELSE IsOriginal)
    BY <1>4, <2>2, MovesBackKeeps DEF Final, Tx
  <2> QED BY <2>1, <2>2
<1>5. CASE AllUndone
  BY <1>5, AllUndoneKeeps
<1>6. CASE UndoCheck
  <2> DEFINE back == wlTx.whole /\ \A w \in Window : Moved(w) => wlAt[w] = Source(w)
  <2>1. CASE back
    BY <1>6, <2>1, EndsKeeps DEF UndoCheck, Tx
  <2>2. CASE ~back
    BY <1>6, <2>2, EndsKeeps DEF UndoCheck, Tx
  <2> QED BY <2>1, <2>2
<1>7. ASSUME NEW w \in Window, Refresh(w)
      PROVE  LayoutInv'
  <2>1. CASE MayBeMoved(w)
    BY <1>7, <2>1, RefreshKeeps
  <2>2. CASE ~MayBeMoved(w)
    BY <1>7, <2>2, MovesBackKeeps DEF Refresh, Tx
  <2> QED BY <2>1, <2>2
<1>8. ASSUME NEW w \in Window, Send(w)
      PROVE  LayoutInv'
  <2>1. CASE wlAt[w] = "gone"
    BY <1>8, <2>1, MovesBackKeeps DEF Send, Tx
  <2>2. CASE wlAt[w] # "gone"
    BY <1>8, <2>2, SendKeeps
  <2> QED BY <2>1, <2>2
<1>9. ASSUME NEW w \in Window, Undo(w)
      PROVE  LayoutInv'
  <2>1. CASE AtOriginal(w) \/ AtDesired(w)
    BY <1>9, <2>1, UndoKeeps
  <2>2. CASE ~(AtOriginal(w) \/ AtDesired(w))
    BY <1>9, <2>2, LeaveKeeps DEF Undo, Tx
  <2> QED BY <2>1, <2>2
<1>10. ASSUME NEW w \in Window, UndoSend(w)
       PROVE  LayoutInv'
  <2>1. CASE wlAt[w] = "gone"
    BY <1>10, <2>1, LeaveKeeps DEF UndoSend, Tx
  <2>2. CASE wlAt[w] # "gone"
    BY <1>10, <2>2, UndoSendKeeps
  <2> QED BY <2>1, <2>2
<1> QED BY <1>1, <1>2, <1>3, <1>4, <1>5, <1>6, <1>7, <1>8, <1>9, <1>10, ReturnsKeeps,
           UndoReturnsKeeps
        DEF TransactionStep

LEMMA CallRefusedKeeps ==
    ASSUME LayoutInv, CallRefused, UNCHANGED <<wlSame, wlTouched>>
    PROVE  LayoutInv'
<1>1. CASE Tx("plan") /\ Ends("failed")
  BY <1>1, EndsKeeps DEF CallRefused, Tx, LayoutInv, TodoIsRight
<1>2. CASE Tx("refresh") /\ Ends("cut")
  BY <1>2, EndsKeeps DEF CallRefused, Tx
<1>3. CASE (Tx("send") \/ Tx("check") \/ Tx("final")) /\ MovesBack
  BY <1>3, MovesBackKeeps DEF CallRefused, Tx
<1>4. CASE (Tx("undo") \/ Tx("undoSend")) /\ \E w \in Window : InTurn(w) /\ Leave(w)
  BY <1>4, LeaveKeeps DEF CallRefused, Tx
<1>5. CASE Tx("undoCheck") /\ Ends("recovery")
  BY <1>5, EndsKeeps DEF CallRefused, Tx
<1> QED BY <1>1, <1>2, <1>3, <1>4, <1>5 DEF CallRefused

LEMMA BeginsKeeps ==
    ASSUME LayoutInv, wlPhase # "run", NEW way \in {"apply", "rollback"}, Begins(way),
           wlItem' = IF way = "apply" THEN "APPLYING" ELSE "ROLLING_BACK",
           way = "apply" => wlItem = "PREPARED",
           way = "rollback" => wlItem # "RECOVERY",
           UNCHANGED <<wlAt, wlSame, wlQueue, wlSaid, wlUnseen, wlTouched>>
    PROVE  LayoutInv'
<1>1. /\ wlPhase' = "run" /\ wlTx' \in LayoutTxs /\ wlTx'.pc = "plan" /\ wlTx'.way = way
      /\ wlTx'.todo = {} /\ \A w \in Window : wlTx'.done[w] = "none"
  <2>1. wlTx' = [[NoTx EXCEPT !.pc = "plan"] EXCEPT !.way = way] /\ wlPhase' = "run"
    BY DEF Begins
  <2> DEFINE planned == [NoTx EXCEPT !.pc = "plan"]
  <2>2. /\ planned \in LayoutTxs /\ planned.pc = "plan" /\ planned.todo = {}
        /\ \A w \in Window : planned.done[w] = "none"
    BY NoTxIsATx DEF LayoutTxs
  <2>3. wlTx' = [planned EXCEPT !.way = way]
    BY <2>1
  <2> HIDE DEF planned
  <2> QED BY <2>1, <2>2, <2>3 DEF LayoutTxs
<1>2. \A w \in Window : wlFound'[w] = IF wlQueue[w] = "none" THEN wlAt[w] ELSE "late"
  BY DEF Begins
<1>3. LayoutTypes'
  <2>1. wlFound' \in [Window -> Place \union {"late"}]
    BY DEF Begins, LayoutInv, LayoutTypes
  <2> QED BY <1>1, <2>1 DEF LayoutInv, LayoutTypes
<1>4. ItemFitsPhase'
  BY <1>1 DEF LayoutInv, ItemFitsPhase
<1>5. OwnPlaces' /\ TodoIsRight' /\ PreparedIsUntouched'
  BY <1>1 DEF LayoutInv, OwnPlaces, TodoIsRight, PreparedIsUntouched, Undoing, Moved
<1>6. ASSUME NEW w \in Window \ wlTouched
      PROVE  Fenced(w)' /\ FoundIsKept(w)'
  <2>1. wlTx'.done[w] = "none" /\ ~Moved(w)' /\ wlAt[w] \in Owned2
    BY <1>1 DEF Moved, LayoutInv, OwnPlaces
  <2>2. way = "apply" => wlFound'[w] = "original"
    BY <1>2 DEF LayoutInv, PreparedIsUntouched
  <2> QED BY <1>1, <1>2, <2>1, <2>2 DEF Fenced, FoundIsKept
<1>7. FailedIsBack'
  <2> SUFFICES ASSUME wlSaid = "failed", NEW w \in Window \ wlTouched
               PROVE  IsBack(w)'
    BY DEF FailedIsBack
  <2>1. way = "rollback"
    BY DEF LayoutInv, ItemFitsPhase
  <2>2. IsBack(w)
    BY <2>1 DEF LayoutInv, FailedIsBack
  <2> QED BY <1>1, <1>2, <2>1, <2>2 DEF IsBack, Source
<1>8. ASSUME NEW w \in Window
      PROVE  LookedAt(w)'
  BY <1>1 DEF LayoutInv, LookedAt
<1> QED BY <1>3, <1>4, <1>5, <1>6, <1>7, <1>8 DEF LayoutInv

\* A step of the engine between two transactions, or the end of the process.
LEMMA RestsKeeps ==
    ASSUME LayoutInv,
        UNCHANGED <<wlAt, wlSame, wlQueue, wlSaid, wlUnseen, wlTouched, wlFound>>,
           wlTx' = wlTx
               \/ wlTx' = NoTx, wlTx'.pc = "none", wlPhase' # "run", ItemFitsPhase',
           wlItem' = "PREPARED" => wlItem = "PREPARED",
           wlItem = "RECOVERY" => wlItem' = "RECOVERY",
           \A w \in Window \ wlTouched : Fenced(w)'
    PROVE  LayoutInv'
<1>1. LayoutTypes'
  BY NoTxIsATx DEF LayoutInv, LayoutTypes
<1>2. OwnPlaces' /\ TodoIsRight' /\ PreparedIsUntouched'
  BY DEF LayoutInv, OwnPlaces, TodoIsRight, PreparedIsUntouched, Undoing
<1>3. ASSUME NEW w \in Window \ wlTouched
      PROVE  FoundIsKept(w)'
  BY DEF FoundIsKept
<1>4. FailedIsBack'
  BY DEF LayoutInv, FailedIsBack, IsBack
<1>5. ASSUME NEW w \in Window
      PROVE  LookedAt(w)'
  BY DEF LayoutInv, LookedAt
<1> QED BY <1>1, <1>2, <1>3, <1>4, <1>5 DEF LayoutInv

\* Where everything is found in its place, every window nobody moved is.
LEMMA NoneDesired ==
    ASSUME LayoutInv, IsOriginal, NEW w \in Window \ wlTouched
    PROVE  wlAt[w] = "original"
<1>1. wlAt[w] \in {"original", "desired"}
  BY DEF LayoutInv, OwnPlaces, Owned2
<1>2. ~\E v \in Window : wlAt[v] = "desired"
  BY DEF IsOriginal, Classification
<1> QED BY <1>1, <1>2

LEMMA EngineKeeps ==
    ASSUME LayoutInv, NEW ok \in BOOLEAN,
           \/ StartLayout \/ VerifyLayout(ok) \/ ClassifyLayout(ok) \/ ConfirmLayout(ok)
           \/ StartLayoutRollback \/ RestartLayout \/ LayoutCrash,
           UNCHANGED <<wlAt, wlSame, wlQueue, wlSaid, wlUnseen, wlTouched>>
    PROVE  LayoutInv'
<1>0. ItemFitsPhase
  BY DEF LayoutInv
<1>1. CASE StartLayout
  BY <1>1, BeginsKeeps DEF StartLayout
<1>2. CASE VerifyLayout(ok)
  BY <1>0, <1>2, RestsKeeps DEF VerifyLayout, Classifies, ItemFitsPhase, Fenced
<1>3. CASE ClassifyLayout(ok)
  <2>1. CASE wlItem' = "ROLLING_BACK" /\ Begins("rollback")
    BY <1>0, <1>3, <2>1, BeginsKeeps DEF ClassifyLayout, ItemFitsPhase
  <2>2. CASE /\ wlItem' = IF ok /\ IsOriginal THEN "ROLLED_BACK" ELSE "RECOVERY"
             /\ ok /\ IsOriginal => ~NeedsFence
             /\ wlPhase' = "rest" /\ UNCHANGED <<wlTx, wlFound>>
    <3>1. ASSUME NEW w \in Window \ wlTouched
          PROVE  Fenced(w)'
      BY <1>0, <1>3, <2>2 DEF ClassifyLayout, NeedsFence, ItemFitsPhase, LayoutInv,
         PreparedIsUntouched, Fenced
    <3> QED BY <1>0, <1>3, <2>2, <3>1, RestsKeeps DEF ClassifyLayout, ItemFitsPhase
  <2> QED BY <1>3, <2>1, <2>2 DEF ClassifyLayout
<1>4. CASE ConfirmLayout(ok)
  <2>1. ASSUME NEW w \in Window \ wlTouched
        PROVE  Fenced(w)'
    BY <1>0, <1>4, NoneDesired DEF ConfirmLayout, LayoutInv, Fenced
  <2> QED BY <1>0, <1>4, <2>1, RestsKeeps DEF ConfirmLayout, ItemFitsPhase
<1>5. CASE StartLayoutRollback
  BY <1>0, <1>5, RestsKeeps DEF StartLayoutRollback, Classifies, ItemFitsPhase, Fenced
<1>6. CASE RestartLayout
  BY <1>0, <1>6, RestsKeeps DEF RestartLayout, Classifies, ItemFitsPhase, Fenced
<1>7. CASE LayoutCrash
  BY <1>0, <1>7, RestsKeeps, NoTxIsATx DEF LayoutCrash, ItemFitsPhase, Fenced
<1> QED BY <1>1, <1>2, <1>3, <1>4, <1>5, <1>6, <1>7

\* A placement that lands, late or not, keeps the invariant.
LEMMA LandKeeps ==
    ASSUME LayoutInv, NEW w \in Window, Land(w),
           UNCHANGED <<wlSame, wlItem, wlFrom, wlPhase, wlTx, wlSaid, wlFound, wlUnseen,
               wlTouched>>
    PROVE  LayoutInv'
<1>1. /\ wlQueue[w] \in {"original", "desired"}
      /\ \A v \in Window : wlAt'[v] = IF v = w THEN wlQueue[w] ELSE wlAt[v]
      /\ \A v \in Window : wlQueue'[v] = IF v = w THEN "none" ELSE wlQueue[v]
  BY DEF Land, LayoutInv, LayoutTypes
<1>2. \A v : InTurn(v)' = InTurn(v)
  BY SameTurns DEF Undoing
<1>3. LayoutTypes'
  BY <1>1 DEF Land, LayoutInv, LayoutTypes, Place
<1>4. ItemFitsPhase'
  BY DEF LayoutInv, ItemFitsPhase
<1>5. OwnPlaces' /\ TodoIsRight' /\ PreparedIsUntouched'
  BY <1>1, <1>2
     DEF LayoutInv, OwnPlaces, TodoIsRight, PreparedIsUntouched, Undoing, Moved, Owned2
<1>6. ASSUME NEW v \in Window \ wlTouched
      PROVE  Fenced(v)' /\ FoundIsKept(v)'
  <2>1. Fenced(v) /\ FoundIsKept(v)
    BY DEF LayoutInv
  <2>2. Fenced(v)'
    BY <1>1, <2>1 DEF Fenced
  <2>3. FoundIsKept(v)'
    BY <1>1, <1>2, <2>1 DEF FoundIsKept, Dispatched, Moved, Source, LayoutInv, TodoIsRight
  <2> QED BY <2>2, <2>3
<1>7. FailedIsBack'
  BY <1>1, <1>2 DEF LayoutInv, FailedIsBack, IsBack, Source
<1>8. ASSUME NEW v \in Window
      PROVE  LookedAt(v)'
  BY <1>1, <1>2 DEF LayoutInv, LookedAt
<1> QED BY <1>3, <1>4, <1>5, <1>6, <1>7, <1>8 DEF LayoutInv

LEMMA OthersMoveKeeps ==
    ASSUME LayoutInv, NEW w \in Window, OthersMove(w),
        wlItem \notin {"ROLLED_BACK", "RECOVERY"},
           UNCHANGED <<wlSame, wlQueue, wlItem, wlFrom, wlPhase, wlTx, wlSaid, wlFound>>
    PROVE  LayoutInv'
<1>1. /\ wlQueue[w] = "none" /\ wlTouched' = wlTouched \union {w}
      /\ wlUnseen' = wlUnseen \union {w}
      /\ \A v \in Window \ {w} : wlAt'[v] = wlAt[v]
  BY DEF OthersMove, LayoutInv, LayoutTypes
<1>2. \A v : InTurn(v)' = InTurn(v)
  BY SameTurns DEF Undoing
<1>3. LayoutTypes'
  BY DEF OthersMove, LayoutInv, LayoutTypes, Place
<1>4. ItemFitsPhase'
  BY DEF LayoutInv, ItemFitsPhase
<1>5. OwnPlaces' /\ TodoIsRight' /\ PreparedIsUntouched'
  BY <1>1, <1>2 DEF LayoutInv, OwnPlaces, TodoIsRight, PreparedIsUntouched, Undoing, Moved
<1>6. ASSUME NEW v \in Window \ wlTouched'
      PROVE  Fenced(v)' /\ FoundIsKept(v)'
  BY <1>1, <1>2 DEF LayoutInv, Fenced, FoundIsKept, Dispatched, Moved, Source
<1>7. FailedIsBack'
  BY <1>1, <1>2 DEF LayoutInv, FailedIsBack, IsBack, Source
<1>8. ASSUME NEW v \in Window
      PROVE  LookedAt(v)'
  BY <1>1, <1>2 DEF LayoutInv, LookedAt
<1> QED BY <1>3, <1>4, <1>5, <1>6, <1>7, <1>8 DEF LayoutInv

LEMMA LayoutStepKeeps == LayoutInv /\ [LayoutNext]_wlvars => LayoutInv'
<1> SUFFICES ASSUME LayoutInv, [LayoutNext]_wlvars
             PROVE  LayoutInv'
  OBVIOUS
<1>1. CASE LayoutStep
  BY <1>1, TransactionKeeps, EngineKeeps, LandKeeps DEF LayoutStep
<1>2. CASE LayoutUserStep
  BY <1>2, EngineKeeps DEF LayoutUserStep
<1>3. CASE LayoutFault
  BY <1>3, CallRefusedKeeps, EngineKeeps, OthersMoveKeeps DEF LayoutFault
<1>4. CASE UNCHANGED wlvars
  BY <1>4 DEF wlvars, LayoutInv, LayoutTypes, ItemFitsPhase, OwnPlaces, TodoIsRight,
     PreparedIsUntouched, Fenced, FoundIsKept, FailedIsBack, IsBack, LookedAt, Dispatched,
     Moved, Source, InTurn, Undoing
<1> QED BY <1>1, <1>2, <1>3, <1>4 DEF LayoutNext

LEMMA LayoutInvariant == LayoutSpec => []LayoutInv
BY LayoutInitially, LayoutStepKeeps, PTL DEF LayoutSpec

\* What the invariant says of windows taken back.
LEMMA TakenBack ==
    ASSUME LayoutInv, NEW w \in Window \ wlTouched
    PROVE  /\ wlItem = "ROLLED_BACK" => AtOriginal(w) /\ wlQueue[w] = "none"
           /\ /\ wlSaid = "failed" /\ wlPhase \in {"classify", "rest"}
              /\ wlItem \in {"APPLY_FAILED", "RECOVERY"}
              => wlFound[w] \in {wlAt[w], "late"}
BY DEF LayoutInv, Fenced, AtOriginal, FailedIsBack, IsBack

\* A step that moves a window is its thread's, or others'.
LEMMA MovedAfterALook ==
    ASSUME LayoutInv, [LayoutNext]_wlvars, NEW w \in Window,
           wlAt[w] = "third", wlAt'[w] \in Owned2, wlUnseen' = wlUnseen
    PROVE  w \in wlUnseen
<1>1. wlAt' # wlAt
  BY DEF Owned2
<1>2. CASE LayoutStep
  <2>1. PICK v \in Window : Land(v)
    BY <1>1, <1>2
       DEF LayoutStep, TransactionStep, Plan, AllSent, Check, Final, AllUndone,
           UndoCheck, Refresh, Send, Returns, Undo, UndoSend, UndoReturns
  <2>2. v = w /\ wlQueue[w] # "none"
    BY <2>1 DEF Land, LayoutInv, LayoutTypes, Owned2
  <2> QED BY <2>2 DEF LayoutInv, LookedAt
<1>3. CASE LayoutFault
  <2>1. PICK v \in Window : OthersMove(v)
    BY <1>1, <1>3 DEF LayoutFault, CallRefused
  <2>2. v = w
    BY <2>1 DEF OthersMove, LayoutInv, LayoutTypes, Owned2
  <2> QED BY <2>1, <2>2 DEF OthersMove
<1> QED BY <1>1, <1>2, <1>3 DEF LayoutNext, LayoutUserStep, wlvars

\* For any list of windows: a transaction that is rolled back has every window others
\* left alone where it stood, with nothing of ours still on its way to it, and one
\* that failed has put it back where it found it; and no window others moved is moved
\* again, unless they did so after the look that precedes every call.
THEOREM LayoutComesBack == LayoutSpec => LayoutIsTakenBack
<1>1. LayoutInv => \A w \in Window \ wlTouched :
            /\ wlItem = "ROLLED_BACK" => AtOriginal(w) /\ wlQueue[w] = "none"
            /\ /\ wlSaid = "failed" /\ wlPhase \in {"classify", "rest"}
               /\ wlItem \in {"APPLY_FAILED", "RECOVERY"}
               => wlFound[w] \in {wlAt[w], "late"}
  BY TakenBack
<1>2. LayoutInv /\ [LayoutNext]_wlvars =>
         [\A w \in Window :
             wlAt[w] = "third" /\ wlAt'[w] \in Owned2 /\ wlUnseen' = wlUnseen
             => w \in wlUnseen]_wlvars
  BY MovedAfterALook
<1> QED BY LayoutInvariant, <1>1, <1>2, PTL DEF LayoutSpec, LayoutIsTakenBack

-----------------------------------------------------------------------------
(* WindowIdentity: a window is known again. *)

Spots2 == Places \union {"none"}
WindowType ==
    [id : Nat, born : Nat, title : {Ours, "other", "none"}, at : Spots2, mark : Nat]

IdentityTypes ==
    /\ wiBorn \in Nat /\ wiOpened \in Nat
    /\ wiWindow \in [Handles -> WindowType]
    /\ wiTodo \subseteq Handles
    /\ wiRead = Nothing \/ wiRead \in [handle : wiTodo, at : Spots2]
    /\ wiCands \subseteq [handle : Handles, at : Spots2, title : {Ours, "other", "none"}]
    /\ wiMarked.id \in Nat
    /\ wiMarked = [id |-> wiMarked.id, places |-> wiMarked.places]

\* No two windows have one number, and a mark is the number of its window.
WindowsDiffer ==
    /\ \A h \in Handles : /\ wiWindow[h].id <= wiOpened
                          /\ wiWindow[h].mark \in {0, wiWindow[h].id}
    /\ \A h, g \in Handles : wiWindow[h].id = wiWindow[g].id /\ IsOpen(h) => h = g
    /\ wiMarked.id <= wiOpened

Marked == wiPc \in {"verify", "again", "kept", "plan", "fresh", "move"}

\* The marked window never gets another handle.
OriginalIsMarked ==
    /\ Marked => /\ wiOriginal.mark = wiMarked.id /\ wiMarked.id # 0
                 /\ \A h \in Handles : wiWindow[h].id = wiMarked.id
                        => h = wiOriginal.handle
    /\ wiPc \notin Reading => wiRead = Nothing
    /\ wiPc = "move" => wiWindow[wiOriginal.handle].id = wiMarked.id \/ wiUnseen

\* What is read of the marked window are places where it stood.
PlacesAreKnown ==
    /\ wiPc \in {"verify", "again"} =>
          \A h \in Handles : wiWindow[h].id = wiMarked.id
              => wiWindow[h].at \in wiMarked.places
    /\ wiPc = "again" =>
          /\ \A c \in wiCands : wiWindow[c.handle].id = wiMarked.id
                 => c.at \in wiMarked.places
          /\ wiRead # Nothing /\ wiWindow[wiRead.handle].id = wiMarked.id
                => wiRead.at \in wiMarked.places
    /\ wiPc = "kept" => wiOriginal.at \in wiMarked.places

IdentityInv == IdentityTypes /\ WindowsDiffer /\ OriginalIsMarked /\ PlacesAreKnown

LEMMA IdentityInitially == IdentityInit => IdentityInv
<1> SUFFICES ASSUME IdentityInit
             PROVE  IdentityInv
  OBVIOUS
<1>1. PICK hs \in (SUBSET Handles) \ {{}} :
        /\ wiOpened = Cardinality(hs)
        /\ wiWindow \in [Handles -> {NoWindow} \union
                [id : 1..wiOpened, born : {1}, title : {Ours, "other"},
                 at : {"first"}, mark : {0}]]
        /\ \A h \in Handles : IsOpen(h) <=> h \in hs
        /\ \A h, g \in hs : wiWindow[h].id = wiWindow[g].id => h = g
  BY DEF IdentityInit
<1>2. wiOpened \in Nat
  BY <1>1, FS_Subset, FS_CardinalityType, IdentityAssumption
<1>3. \A h \in Handles : /\ wiWindow[h] \in WindowType /\ wiWindow[h].id <= wiOpened
                         /\ wiWindow[h].mark = 0
  BY <1>1, <1>2 DEF NoWindow, WindowType, Ours, Spots2, Places
<1>4. wiWindow \in [Handles -> WindowType]
  BY <1>1, <1>3
<1>5. \A h, g \in Handles : wiWindow[h].id = wiWindow[g].id /\ IsOpen(h) => h = g
  <2>1. ASSUME NEW h \in Handles, NEW g \in Handles, wiWindow[h].id = wiWindow[g].id,
            IsOpen(h)
        PROVE  h = g
    <3>1. IsOpen(g)
      BY <2>1 DEF IsOpen
    <3> QED BY <1>1, <2>1, <3>1
  <2> QED BY <2>1
<1> QED BY <1>2, <1>3, <1>4, <1>5
    DEF IdentityInit, IdentityInv, IdentityTypes, WindowsDiffer, OriginalIsMarked,
        Marked, PlacesAreKnown, Reading

\* The engine reads windows.
LEMMA ReadingKeeps ==
    ASSUME IdentityInv, UNCHANGED <<wiBorn, wiWindow, wiOpened, wiMarked>>,
           \/ StartVerify \/ StartCapture \/ StartMove
           \/ SnapshotProcesses \/ ReadPlace \/ ReadTitle \/ ReadFails
    PROVE  IdentityInv'
<1> USE DEF IdentityInv
<1>1. WindowsDiffer'
  BY DEF WindowsDiffer, IsOpen
<1>2. CASE StartVerify \/ StartCapture \/ StartMove
  BY <1>1, <1>2
     DEF StartVerify, StartCapture, StartMove, StartReading, IdentityTypes, Reading,
         OriginalIsMarked, Marked, PlacesAreKnown
<1> SUFFICES ASSUME wiPc \in Reading, wiPc' = wiPc, wiOriginal' = wiOriginal
             PROVE  IdentityInv'
  BY <1>2 DEF SnapshotProcesses, ReadPlace, ReadTitle, ReadFails
<1>3. OriginalIsMarked'
  BY DEF OriginalIsMarked, Marked, Reading
<1>4. CASE SnapshotProcesses
  BY <1>1, <1>3, <1>4 DEF SnapshotProcesses, IdentityTypes, PlacesAreKnown, Reading
<1>5. CASE ReadPlace
  <2>1. PICK h \in wiTodo :
            \/ wiRead' = [handle |-> h, at |-> wiWindow[h].at] /\ UNCHANGED wiTodo
            \/ wiTodo' = wiTodo \ {h} /\ UNCHANGED wiRead
    BY <1>5 DEF ReadPlace
  <2>2. wiRead = Nothing /\ wiCands' = wiCands
    BY <1>5 DEF ReadPlace
  <2>3. h \in Handles /\ wiWindow[h].at \in Spots2
    BY DEF IdentityTypes, WindowType
  <2>4. IdentityTypes'
    BY <2>1, <2>2, <2>3 DEF IdentityTypes
  <2>5. PlacesAreKnown'
    BY <2>1, <2>2, <2>3 DEF PlacesAreKnown, Reading
  <2> QED BY <1>1, <1>3, <2>4, <2>5
<1>6. CASE ReadTitle
  <2>1. wiRead \in [handle : wiTodo, at : Spots2] /\ wiRead.handle \in Handles
            /\ wiRead' = Nothing
    BY <1>6 DEF ReadTitle, IdentityTypes
  <2>2. \/ wiCands' = wiCands
        \/ wiCands' = wiCands \union {[handle |-> wiRead.handle, at |-> wiRead.at,
                                       title |-> wiWindow[wiRead.handle].title]}
    BY <1>6 DEF ReadTitle
  <2>3. wiWindow[wiRead.handle].title \in {Ours, "other", "none"}
    BY <2>1 DEF IdentityTypes, WindowType
  <2>4. IdentityTypes'
    BY <1>6, <2>1, <2>2, <2>3 DEF ReadTitle, IdentityTypes
  <2>5. PlacesAreKnown'
    BY <1>6, <2>1, <2>2 DEF ReadTitle, PlacesAreKnown, Reading
  <2> QED BY <1>1, <1>3, <2>4, <2>5
<1>7. CASE ReadFails
  BY <1>1, <1>3, <1>7 DEF ReadFails, IdentityTypes, PlacesAreKnown, Reading
<1> QED BY <1>4, <1>5, <1>6, <1>7
   DEF SnapshotProcesses, ReadPlace, ReadTitle, ReadFails, StartVerify, StartCapture,
       StartMove, StartReading, Reading

\* A candidate with the mark is the marked window.
LEMMA MarkIsTheWindow ==
    ASSUME IdentityInv, Marked, NEW c \in wiCands, IsMarked(c)
    PROVE  c.handle \in Handles /\ c.handle = wiOriginal.handle
        /\ wiWindow[c.handle].id = wiMarked.id
BY DEF IdentityInv, IdentityTypes, WindowsDiffer, OriginalIsMarked, IsMarked

\* What follows from what was read.
LEMMA DecisionsKeep ==
    ASSUME IdentityInv, wiUnseen' = (wiUnseen /\ wiPc' = wiPc),
           ResolveMatch \/ VerifyCapture \/ PlanMove \/ RefreshOriginal
    PROVE  IdentityInv'
<1> USE DEF IdentityInv
<1>1. UNCHANGED <<wiBorn, wiWindow, wiOpened, wiMarked, wiOriginal>>
          /\ wiRead = Nothing /\ wiRead' = Nothing
  BY DEF ResolveMatch, VerifyCapture, PlanMove, RefreshOriginal, AllRead, LeaveReading,
         IdentityTypes
<1>2. WindowsDiffer'
  BY <1>1 DEF WindowsDiffer, IsOpen
<1>3. CASE ResolveMatch
  BY <1>1, <1>2, <1>3
     DEF ResolveMatch, LeaveReading, IdentityTypes, OriginalIsMarked, Marked,
         PlacesAreKnown, Reading
<1>4. CASE VerifyCapture
  <2>1. wiPc = "again" /\ wiPc' \in {"kept", "end"} /\ UNCHANGED <<wiTodo, wiCands>>
    BY <1>4 DEF VerifyCapture, LeaveReading
  <2>2. ASSUME wiPc' = "kept"
        PROVE  wiOriginal.at \in wiMarked.places
    <3>1. Cardinality(Matching) = 1 /\ \A c \in Matching : IsMarked(c)
              /\ c.at = wiOriginal.at
      BY <1>4, <2>2 DEF VerifyCapture, LeaveReading
    <3>2. PICK c \in Matching : TRUE
      BY <3>1, FS_EmptySet
    <3>3. c \in wiCands /\ Marked
      BY <2>1 DEF Matching, Marked
    <3> QED BY <2>1, <3>1, <3>2, <3>3, MarkIsTheWindow DEF PlacesAreKnown
  <2> QED BY <1>1, <1>2, <2>1, <2>2
             DEF IdentityTypes, OriginalIsMarked, Marked, PlacesAreKnown, Reading
<1>5. CASE PlanMove
  BY <1>1, <1>2, <1>5
     DEF PlanMove, LeaveReading, IdentityTypes, OriginalIsMarked, Marked,
         PlacesAreKnown, Reading, IsMarked
<1>6. CASE RefreshOriginal
  <2>1. wiPc = "fresh" /\ wiPc' \in {"move", "end"} /\ UNCHANGED <<wiTodo, wiCands>>
    BY <1>6 DEF RefreshOriginal, LeaveReading
  <2>2. wiPc' = "move" => wiWindow[wiOriginal.handle].id = wiMarked.id
    BY <1>6, <2>1, MarkIsTheWindow DEF RefreshOriginal, LeaveReading, Marked
  <2> QED BY <1>1, <1>2, <2>1, <2>2
             DEF IdentityTypes, OriginalIsMarked, Marked, PlacesAreKnown, Reading
<1> QED BY <1>3, <1>4, <1>5, <1>6

\* The two steps at which the window may be another one.
LEMMA AttachMarkKeeps ==
    ASSUME IdentityInv, AttachMark
    PROVE  IdentityInv'
<1> USE DEF IdentityInv
<1>1. wiPc = "mark" /\ wiPc' \in {"verify", "end"}
          /\ UNCHANGED <<wiBorn, wiOpened, wiTodo, wiRead, wiCands>>
      /\ wiRead = Nothing
  BY DEF AttachMark, OriginalIsMarked, Reading
<1>2. CASE wiPc' = "end" /\ UNCHANGED <<wiWindow, wiOriginal, wiMarked>>
  BY <1>1, <1>2
     DEF IdentityTypes, WindowsDiffer, IsOpen, OriginalIsMarked, Marked,
         PlacesAreKnown, Reading
<1>3. ASSUME NEW c \in Matching, IsOpen(c.handle), NEW w, w = wiWindow[c.handle],
             wiWindow' = [wiWindow EXCEPT ![c.handle].mark = w.id],
             wiOriginal' = [handle |-> c.handle, born |-> wiSnap, mark |-> w.id,
                 at |-> c.at],
             wiMarked' = [id |-> w.id, places |-> {w.at}],
             wiPc' = "verify"
      PROVE  IdentityInv'
  <2>1. c.handle \in Handles /\ w \in WindowType /\ w.id # 0 /\ w.id \in Nat
            /\ w.id <= wiOpened
    BY <1>3 DEF Matching, IdentityTypes, WindowsDiffer, WindowType, IsOpen
  <2>2. /\ wiWindow' \in [Handles -> WindowType]
        /\ \A h \in Handles : /\ wiWindow'[h].id = wiWindow[h].id
                              /\ wiWindow'[h].at = wiWindow[h].at
                              /\ wiWindow'[h].mark \in {wiWindow[h].mark, wiWindow[h].id}
    BY <1>3, <2>1 DEF IdentityTypes, WindowType
  <2>3. IdentityTypes'
    BY <1>1, <1>3, <2>1, <2>2 DEF IdentityTypes
  <2>4. WindowsDiffer'
    BY <1>1, <1>3, <2>1, <2>2 DEF WindowsDiffer, IsOpen
  <2>5. \A h \in Handles : wiWindow'[h].id = w.id => h = c.handle
    BY <1>3, <2>1, <2>2 DEF WindowsDiffer
  <2>6. OriginalIsMarked'
    BY <1>1, <1>3, <2>1, <2>5 DEF OriginalIsMarked
  <2>7. PlacesAreKnown'
    BY <1>3, <2>2, <2>5 DEF PlacesAreKnown
  <2> QED BY <2>3, <2>4, <2>6, <2>7
<1> QED BY <1>2, <1>3 DEF AttachMark

LEMMA MoveWindowKeeps ==
    ASSUME IdentityInv, MoveWindow
    PROVE  IdentityInv'
<1> USE DEF IdentityInv
<1>1. wiPc' = "end"
          /\ UNCHANGED <<wiBorn, wiOpened, wiMarked, wiTodo, wiRead, wiCands>>
          /\ wiRead = Nothing
  BY DEF MoveWindow, LeaveReading, OriginalIsMarked, Reading
<1>2. /\ wiWindow' \in [Handles -> WindowType]
      /\ \A h \in Handles : /\ wiWindow'[h].id = wiWindow[h].id
                            /\ wiWindow'[h].mark = wiWindow[h].mark
  BY DEF MoveWindow, IdentityTypes, WindowType, Spots2, Places
<1> QED BY <1>1, <1>2
           DEF IdentityTypes, WindowsDiffer, IsOpen, OriginalIsMarked, Marked,
               PlacesAreKnown, Reading

\* Handles and process ids change hands.
LEMMA WindowsChange ==
    ASSUME IdentityInv,
           \/ ReplaceProcess
           \/ \E h \in Handles :
                \/ CloseWindow(h)
                \/ \E w \in [title : {Ours, "other"}, at : {"first", "second"}] :
                      OpenWindow(h, w) \/ ChangeWindow(h, w),
           wiMarked' = [wiMarked EXCEPT !.places = @ \union
                {wiWindow'[h].at : h \in {g \in Handles :
                    wiMarked.id # 0 /\ wiWindow'[g].id = wiMarked.id}}],
           wiUnseen' = (wiUnseen \/ wiPc = "move"),
           UNCHANGED <<wiPc, wiTodo, wiSnap, wiRead, wiCands, wiOriginal>>
    PROVE  IdentityInv'
<1> USE DEF IdentityInv
<1>1. /\ wiMarked'.id = wiMarked.id /\ wiMarked.places \subseteq wiMarked'.places
      /\ \A h \in Handles : wiMarked.id # 0 /\ wiWindow'[h].id = wiMarked.id
            => wiWindow'[h].at \in wiMarked'.places
      /\ wiMarked' = [id |-> wiMarked'.id, places |-> wiMarked'.places]
  BY DEF IdentityTypes
<1>2. /\ wiBorn' \in Nat /\ wiOpened' \in Nat /\ wiOpened <= wiOpened'
      /\ wiWindow' \in [Handles -> WindowType]
      /\ \A h \in Handles :
            /\ \/ wiWindow'[h].id \in {wiWindow[h].id, 0}
               \/ /\ wiWindow'[h].id = wiOpened + 1 /\ wiOpened' = wiOpened + 1
                  /\ \A g \in Handles \ {h} : wiWindow'[g] = wiWindow[g]
            /\ wiWindow'[h].id <= wiOpened'
            /\ wiWindow'[h].mark \in {0, wiWindow'[h].id}
  <2>1. CASE ReplaceProcess
    BY <2>1 DEF ReplaceProcess, IdentityTypes, WindowType, NoWindow, Spots2
  <2>2. ASSUME NEW h \in Handles, CloseWindow(h)
        PROVE  <1>2!:
    BY <2>2 DEF CloseWindow, IdentityTypes, WindowsDiffer, WindowType, NoWindow, Spots2
  <2>3. ASSUME NEW h \in Handles,
            NEW w \in [title : {Ours, "other"}, at : {"first", "second"}],
               OpenWindow(h, w)
        PROVE  <1>2!:
    BY <2>3
       DEF OpenWindow, IdentityTypes, WindowsDiffer, WindowType, NoWindow, Spots2,
           Places
  <2>4. ASSUME NEW h \in Handles,
            NEW w \in [title : {Ours, "other"}, at : {"first", "second"}],
               ChangeWindow(h, w)
        PROVE  <1>2!:
    BY <2>4
       DEF ChangeWindow, IdentityTypes, WindowsDiffer, WindowType, NoWindow, Spots2,
           Places
  <2> QED BY <2>1, <2>2, <2>3, <2>4
<1>3. IdentityTypes'
  BY <1>1, <1>2 DEF IdentityTypes
<1>4. WindowsDiffer'
  BY <1>1, <1>2 DEF WindowsDiffer, IsOpen, IdentityTypes, WindowType
<1>5. \A h \in Handles : wiMarked.id # 0 /\ wiWindow'[h].id = wiMarked.id
          => wiWindow[h].id = wiMarked.id
  BY <1>2 DEF WindowsDiffer, IdentityTypes, WindowType
<1>6. OriginalIsMarked'
  BY <1>1, <1>5 DEF OriginalIsMarked, Marked
<1>7. PlacesAreKnown'
  BY <1>1, <1>5 DEF PlacesAreKnown, OriginalIsMarked, Marked, IdentityTypes
<1> QED BY <1>3, <1>4, <1>6, <1>7

LEMMA IdentityInvariant == IdentitySpec => []IdentityInv
<1>1. IdentityInv /\ [IdentityNext]_wivars => IdentityInv'
  <2> SUFFICES ASSUME IdentityInv, [IdentityNext]_wivars
               PROVE  IdentityInv'
    OBVIOUS
  <2>1. CASE UNCHANGED wivars
    BY <2>1
       DEF wivars, IdentityInv, IdentityTypes, WindowsDiffer, IsOpen, OriginalIsMarked,
           Marked, PlacesAreKnown
  <2>2. CASE IdentityStep \/ IdentityUserStep
    BY <2>2, ReadingKeeps, DecisionsKeep, AttachMarkKeeps, MoveWindowKeeps
       DEF IdentityStep, IdentityUserStep
  <2>3. CASE IdentityFault
    BY <2>3, ReadingKeeps, WindowsChange DEF IdentityFault
  <2> QED BY <2>1, <2>2, <2>3 DEF IdentityNext
<1> QED BY IdentityInitially, <1>1, PTL DEF IdentitySpec

\* For any handles and process ids, however often they are given to others: the place
\* kept for the undo is one where the marked window stood, and no other window is ever
\* moved unless its handle changed hands after the last look.
THEOREM WindowKnownAgain == IdentitySpec => WindowIsNotMistaken
<1>1. IdentityInv => (wiPc = "kept" => wiOriginal.at \in wiMarked.places)
  BY DEF IdentityInv, PlacesAreKnown
<1>2. IdentityInv /\ [IdentityNext]_wivars =>
        [\A h \in Handles :
              wiPc = "move" /\ wiPc' = "end" /\ wiWindow'[h] # wiWindow[h]
                  => wiWindow[h].id = wiMarked.id \/ wiUnseen]_wivars
  <2> SUFFICES ASSUME IdentityInv, IdentityNext, NEW h \in Handles, wiPc = "move",
      wiPc' = "end",
                      wiWindow'[h] # wiWindow[h]
               PROVE  wiWindow[h].id = wiMarked.id \/ wiUnseen
    OBVIOUS
  <2>1. MoveWindow
    BY DEF IdentityNext, IdentityStep, IdentityUserStep, IdentityFault, StartVerify,
           SnapshotProcesses, ReadPlace, ReadTitle, ResolveMatch, AttachMark,
           VerifyCapture, PlanMove, RefreshOriginal, StartCapture, StartMove,
           StartReading, ReadFails, Reading
  <2>2. h = wiOriginal.handle
    BY <2>1 DEF MoveWindow, IdentityInv, IdentityTypes
  <2> QED BY <2>2 DEF IdentityInv, OriginalIsMarked
<1> QED BY IdentityInvariant, <1>1, <1>2, PTL DEF IdentitySpec, WindowIsNotMistaken

-----------------------------------------------------------------------------
(* RescueGeometry *)

LEMMA MaxOfTwo ==
    ASSUME NEW a \in Int, NEW b \in Int
    PROVE  Max({a, b}) = IF a >= b THEN a ELSE b
<1>1. \E x \in {a, b} : \A y \in {a, b} : x >= y
  OBVIOUS
<1> QED BY <1>1 DEF Max

LEMMA MinOfTwo ==
    ASSUME NEW a \in Int, NEW b \in Int
    PROVE  Min({a, b}) = IF a <= b THEN a ELSE b
<1>1. \E x \in {a, b} : \A y \in {a, b} : x <= y
  OBVIOUS
<1> QED BY <1>1 DEF Min

\* clamp_window_axis on one axis: inside, if there is room, and then the nearest place.
LEMMA ClampIsNearest ==
    ASSUME NEW start \in Int, NEW size \in Int, NEW from \in Int, NEW to \in Int,
           size > 0, from < to
    PROVE  LET at == Clamped(start, size, from, to) IN
           /\ at \in Int /\ from <= at /\ at < to
           /\ size <= to - from =>
                 /\ at + size <= to
                 /\ \A x \in Int : from <= x /\ x + size <= to => Apart(start, at) <= Apart(start, x)
<1>1. CASE to - size < from
  BY <1>1 DEF Clamped
<1>2. CASE ~(to - size < from)
  <2> DEFINE at == Clamped(start, size, from, to)
             low == IF start <= to - size THEN start ELSE to - size
  <2>1. at = IF from >= low THEN from ELSE low
    BY <1>2, MaxOfTwo, MinOfTwo DEF Clamped
  <2>2. at \in Int /\ from <= at /\ at + size <= to
    BY <1>2, <2>1
  <2>3. \A x \in Int : Apart(start, x) = IF start >= x THEN start - x ELSE x - start
    BY MaxOfTwo DEF Apart
  <2> HIDE DEF at
  <2>4. \A x \in Int : from <= x /\ x + size <= to => Apart(start, at) <= Apart(start, x)
    BY <1>2, <2>1, <2>2, <2>3
  <2> QED BY <2>2, <2>4 DEF at
<1> QED BY <1>1, <1>2

LEMMA CellsOfRect ==
    ASSUME NEW r, IsRect(r), NEW x, NEW y
    PROVE  <<x, y>> \in Cells(r) <=> /\ x \in Int /\ r.left <= x /\ x < r.right
                                     /\ y \in Int /\ r.top <= y /\ y < r.bottom
BY DEF Cells, IsRect

LEMMA LiesInIsWithin ==
    ASSUME NEW r, IsRect(r), NEW area, IsRect(area)
    PROVE  LiesIn(r, area) <=> /\ area.left <= r.left /\ r.right <= area.right
                               /\ area.top <= r.top /\ r.bottom <= area.bottom
<1> USE DEF IsRect, Width, Height
<1>1. ASSUME LiesIn(r, area)
      PROVE  /\ area.left <= r.left /\ r.right <= area.right
             /\ area.top <= r.top /\ r.bottom <= area.bottom
  <2>1. <<r.left, r.top>> \in Cells(area) /\ <<r.right - 1, r.bottom - 1>> \in Cells(area)
    BY <1>1, CellsOfRect DEF LiesIn
  <2> QED BY <2>1, CellsOfRect
<1>2. ASSUME area.left <= r.left, r.right <= area.right,
             area.top <= r.top, r.bottom <= area.bottom
      PROVE  LiesIn(r, area)
  BY <1>2 DEF LiesIn, Cells
<1> QED BY <1>1, <1>2

\* rescue_rect
LEMMA RescueIsNearest ==
    ASSUME NEW old, IsRect(old), NEW area, IsRect(area)
    PROVE  LET new == RescueRect(old, area) IN
           /\ IsRect(new) /\ Width(new) = Width(old) /\ Height(new) = Height(old)
           /\ <<new.left, new.top>> \in Cells(area)
           /\ FitsIn(old, area) =>
                 /\ LiesIn(new, area)
                 /\ \A x \in Int, y \in Int :
                       LET r == Rect(x, y, x + Width(old), y + Height(old)) IN
                       LiesIn(r, area) => Distance(old, new) <= Distance(old, r)
<1> DEFINE new == RescueRect(old, area)
           w == Width(old)
           h == Height(old)
           left == Clamped(old.left, w, area.left, area.right)
           top == Clamped(old.top, h, area.top, area.bottom)
<1>1. /\ w \in Int /\ w > 0 /\ h \in Int /\ h > 0
      /\ old.left \in Int /\ old.top \in Int
      /\ area.left \in Int /\ area.right \in Int /\ area.left < area.right
      /\ area.top \in Int /\ area.bottom \in Int /\ area.top < area.bottom
  BY DEF IsRect, Width, Height
<1>2. /\ left \in Int /\ area.left <= left /\ left < area.right
      /\ w <= area.right - area.left =>
            /\ left + w <= area.right
            /\ \A x \in Int : area.left <= x /\ x + w <= area.right =>
                  Apart(old.left, left) <= Apart(old.left, x)
  BY <1>1, ClampIsNearest
<1>3. /\ top \in Int /\ area.top <= top /\ top < area.bottom
      /\ h <= area.bottom - area.top =>
            /\ top + h <= area.bottom
            /\ \A y \in Int : area.top <= y /\ y + h <= area.bottom =>
                  Apart(old.top, top) <= Apart(old.top, y)
  BY <1>1, ClampIsNearest
<1>4. new = [left |-> left, top |-> top, right |-> left + w, bottom |-> top + h]
  BY DEF RescueRect, Rect
<1> HIDE DEF new, left, top, w, h
<1>5. IsRect(new) /\ Width(new) = w /\ Height(new) = h
  BY <1>1, <1>2, <1>3, <1>4 DEF IsRect, Width, Height
<1>6. <<new.left, new.top>> \in Cells(area)
  BY <1>2, <1>3, <1>4, CellsOfRect
<1>7. ASSUME FitsIn(old, area)
      PROVE  /\ LiesIn(new, area)
             /\ \A x \in Int, y \in Int :
                   LET r == Rect(x, y, x + w, y + h) IN
                   LiesIn(r, area) => Distance(old, new) <= Distance(old, r)
  <2>1. w <= area.right - area.left /\ h <= area.bottom - area.top
    BY <1>7 DEF FitsIn, Width, Height, w, h
  <2>2. LiesIn(new, area)
    BY <1>2, <1>3, <1>4, <1>5, <2>1, LiesInIsWithin
  <2>3. ASSUME NEW x \in Int, NEW y \in Int, LiesIn(Rect(x, y, x + w, y + h), area)
        PROVE  Distance(old, new) <= Distance(old, Rect(x, y, x + w, y + h))
    <3> DEFINE r == Rect(x, y, x + w, y + h)
    <3>1. r = [left |-> x, top |-> y, right |-> x + w, bottom |-> y + h]
      BY DEF Rect
    <3>2. IsRect(r)
      BY <1>1, <3>1 DEF IsRect, Width, Height
    <3>3. area.left <= x /\ x + w <= area.right /\ area.top <= y /\ y + h <= area.bottom
      BY <2>3, <3>1, <3>2, LiesInIsWithin
    <3>4. /\ Apart(old.left, left) <= Apart(old.left, x)
          /\ Apart(old.top, top) <= Apart(old.top, y)
      BY <1>2, <1>3, <2>1, <3>3
    <3>5. /\ Apart(old.left, left) \in Int /\ Apart(old.left, x) \in Int
          /\ Apart(old.top, top) \in Int /\ Apart(old.top, y) \in Int
      BY <1>1, <1>2, <1>3, MaxOfTwo DEF Apart
    <3>6. /\ Distance(old, new) = Apart(old.left, left) + Apart(old.top, top)
          /\ Distance(old, r) = Apart(old.left, x) + Apart(old.top, y)
      BY <1>4, <3>1 DEF Distance
    <3> HIDE DEF r
    <3>7. Distance(old, new) <= Distance(old, r)
      BY <3>4, <3>5, <3>6
    <3> QED BY <3>7 DEF r
  <2> QED BY <2>2, <2>3
<1> QED BY <1>5, <1>6, <1>7 DEF new, w, h

GeometryInv ==
    /\ IsRect(rgWindow) /\ IsRect(rgAnchor)
    /\ rgNormal \in [left : Int, top : Int, right : Int, bottom : Int]
    /\ RescuedIsOnScreen

LEMMA GeometryInitially == GeometryInit => GeometryInv
<1> SUFFICES ASSUME GeometryInit PROVE GeometryInv
  OBVIOUS
<1>1. IsRect(rgWindow) /\ IsRect(rgAnchor)
  BY RectsAssumption DEF GeometryInit
<1>2. PICK d \in NormalOffsets : rgNormal = Shifted(rgWindow, d, 0)
  BY DEF GeometryInit
<1>3. d \in Int
  BY RectsAssumption
<1>4. rgNormal \in [left : Int, top : Int, right : Int, bottom : Int]
  BY <1>1, <1>2, <1>3 DEF Shifted, Rect, IsRect
<1> QED BY <1>1, <1>4 DEF GeometryInv, GeometryInit, RescuedIsOnScreen

LEMMA BringBackKeeps ==
    ASSUME GeometryInv, BringBack
    PROVE  GeometryInv'
<1> DEFINE new == RescueRect(rgWindow, rgAnchor)
<1>1. /\ rgWindow' = new /\ rgAnchor' = rgAnchor /\ rgBefore' = <<rgWindow, rgNormal>>
      /\ rgNormal' = Shifted(rgNormal, new.left - rgWindow.left, new.top - rgWindow.top)
  BY DEF BringBack
<1>2. /\ IsRect(rgWindow) /\ IsRect(rgAnchor)
      /\ rgNormal \in [left : Int, top : Int, right : Int, bottom : Int]
  BY DEF GeometryInv
<1>3. /\ IsRect(new) /\ Width(new) = Width(rgWindow) /\ Height(new) = Height(rgWindow)
      /\ <<new.left, new.top>> \in Cells(rgAnchor)
      /\ FitsIn(rgWindow, rgAnchor) =>
            /\ LiesIn(new, rgAnchor)
            /\ \A x \in Int, y \in Int :
                  LET r == Rect(x, y, x + Width(rgWindow), y + Height(rgWindow)) IN
                  LiesIn(r, rgAnchor) => Distance(rgWindow, new) <= Distance(rgWindow, r)
  BY <1>2, RescueIsNearest
<1>4. rgNormal' = [left   |-> rgNormal.left + (new.left - rgWindow.left),
                   top    |-> rgNormal.top + (new.top - rgWindow.top),
                   right  |-> rgNormal.right + (new.left - rgWindow.left),
                   bottom |-> rgNormal.bottom + (new.top - rgWindow.top)]
  BY <1>1 DEF Shifted, Rect
<1>5. /\ new.left \in Int /\ new.top \in Int /\ rgWindow.left \in Int /\ rgWindow.top \in Int
      /\ rgAnchor.left \in Int /\ rgAnchor.right \in Int
      /\ rgAnchor.top \in Int /\ rgAnchor.bottom \in Int
  BY <1>2, <1>3 DEF IsRect
<1> HIDE DEF new
<1>6. rgNormal' \in [left : Int, top : Int, right : Int, bottom : Int]
  BY <1>2, <1>4, <1>5
<1>7. /\ rgNormal'.left - new.left = rgNormal.left - rgWindow.left
      /\ rgNormal'.top - new.top = rgNormal.top - rgWindow.top
  BY <1>2, <1>4, <1>5
<1>8. rgBefore'[1] = rgWindow /\ rgBefore'[2] = rgNormal
  BY <1>1
<1>9. RescuedIsOnScreen'
  BY <1>1, <1>3, <1>5, <1>7, <1>8 DEF RescuedIsOnScreen
<1> QED BY <1>1, <1>2, <1>3, <1>6, <1>9 DEF GeometryInv

\* However large a lost window and however the screens lie, the rescued window keeps
\* its size and the shift of its normal place, has its corner on the main window's
\* screen, and is wholly on it and nowhere nearer possible if it fits (rescue_rect,
\* clamp_window_axis, translate_rect).
THEOREM RescuedStaysOnScreen == GeometrySpec => []RescuedIsOnScreen
<1>1. GeometryInv /\ [BringBack]_rgvars => GeometryInv'
  <2>1. GeometryInv /\ UNCHANGED rgvars => GeometryInv'
    BY DEF GeometryInv, RescuedIsOnScreen, rgvars
  <2> QED BY <2>1, BringBackKeeps
<1>2. GeometryInv => RescuedIsOnScreen
  BY DEF GeometryInv
<1> QED BY <1>1, <1>2, GeometryInitially, PTL DEF GeometrySpec

=============================================================================
