---------------------------- MODULE WindowLayout ----------------------------
(***************************************************************************)
(* A saved layout of windows is applied and rolled back.  A window belongs *)
(* to another process: it is moved by a call that this process waits for   *)
(* and that the window's own thread carries out, so a call that was sent   *)
(* before a crash still lands after it.  Every window is looked at again   *)
(* right before it is moved, and a transaction that fails in the middle    *)
(* moves back what it has moved.                                           *)
(*                                                                         *)
(* Around the transaction stands the part of the engine one item meets:    *)
(* apply, verify, classify, roll back, verify, and the restart.            *)
(***************************************************************************)
EXTENDS Naturals, SequencesExt

CONSTANT Windows        \* the windows of the layout, in its order

ASSUME WindowsAssumption == Windows \in Seq(Nat) /\ IsInjective(Windows)

VARIABLES
    wlAt,       \* where each window is
    wlSame,     \* windows whose saved and original places are the same
    wlQueue,    \* a placement sent to the window's thread and not yet done
    wlItem,     \* the journal's state of the item
    wlFrom,     \* its state when the present recovery read it
    wlPhase,    \* what the engine is doing
    wlTx,       \* mutate_transaction
    wlSaid,     \* history: how the last transaction ended
    wlFound,    \* history: wlAt when it began, or "late" if a placement sent
                \* before a crash was still to land
    wlUnseen,   \* history: windows others moved since they were last looked at
    wlTouched   \* history: windows others moved or closed

wlvars == <<wlAt, wlSame, wlQueue, wlItem, wlFrom, wlPhase, wlTx, wlSaid,
            wlFound, wlUnseen, wlTouched>>

Window == ToSet(Windows)
Place == {"original", "desired", "third", "gone"}
Owned2 == {"original", "desired"}

\* todo: the windows still to be moved, or moved back; done: the windows moved, with
\* the place each is moved back to.
NoTx == [pc |-> "none", way |-> "apply", todo |-> {},
         done |-> [w \in Window |-> "none"], source |-> "original", whole |-> TRUE]

LayoutTypeOK ==
    /\ wlAt \in [Window -> Place] /\ wlFound \in [Window -> Place \union {"late"}]
    /\ wlSame \subseteq Window
    /\ wlQueue \in [Window -> {"none", "original", "desired"}]
    /\ {wlItem, wlFrom} \subseteq {"PREPARED", "APPLYING", "APPLY_FAILED", "APPLIED",
                                   "ROLLING_BACK", "ROLLED_BACK", "RECOVERY"}
    /\ wlPhase \in {"rest", "run", "verify", "classify", "confirm", "down"}
    /\ wlTx.pc \in {"none", "plan", "refresh", "send", "wait", "check", "final",
                    "undo", "undoSend", "undoWait", "undoCheck"}
    /\ (wlTx.pc # "none") = (wlPhase = "run")
    /\ wlTx.way \in {"apply", "rollback"}
    /\ wlTx.todo \subseteq Window
    /\ wlTx.done \in [Window -> {"none"} \union Owned2]
    /\ wlSaid \in {"none", "ok", "failed", "cut", "recovery"}
    /\ wlUnseen \subseteq Window /\ wlTouched \subseteq Window

LayoutInit ==
    /\ wlAt = [w \in Window |-> "original"] /\ wlFound = wlAt
    /\ wlSame \in SUBSET Window
    /\ wlQueue = [w \in Window |-> "none"]
    /\ wlItem = "PREPARED" /\ wlFrom = "PREPARED"
    /\ wlPhase = "rest"
    /\ wlTx = NoTx
    /\ wlSaid = "none"
    /\ wlUnseen = {} /\ wlTouched = {}

-----------------------------------------------------------------------------
(* Looking *)

AtOriginal(w) == wlAt[w] = "original"
AtDesired(w) == wlAt[w] = "desired" \/ (w \in wlSame /\ AtOriginal(w))

\* classify_transaction_entries
Classification ==
    LET external == \E w \in Window : wlAt[w] \in {"third", "gone"}
        desired == \E w \in Window : wlAt[w] = "desired"
        original == \E w \in Window : AtOriginal(w) /\ w \notin wlSame
    IN  CASE external /\ ~desired              -> "OriginalWithExternal"
          [] external /\ desired               -> "AppliedWithExternal"
          [] ~external /\ ~desired             -> "Original"
          [] ~external /\ desired /\ ~original -> "Desired"
          [] ~external /\ desired /\ original  -> "MixedOwned"

IsDesired == Classification \in {"Desired", "Original"}
IsOriginal == Classification \in {"Original", "OriginalWithExternal"}

\* What the look right before the call allows.
MayBeMoved(w) ==
    IF wlTx.way = "apply" THEN AtOriginal(w) ELSE AtOriginal(w) \/ AtDesired(w)

SourceOf(w) == IF AtOriginal(w) THEN "original" ELSE "desired"

\* The windows are taken in the order of the layout, and moved back from the last one
\* moved to the first.
Undoing == wlTx.pc \in {"undo", "undoSend", "undoWait"}

InTurn(w) ==
    /\ w \in wlTx.todo
    /\ \E i \in DOMAIN Windows :
          /\ Windows[i] = w
          /\ \A j \in DOMAIN Windows :
                Windows[j] \in wlTx.todo => IF Undoing THEN j <= i ELSE i <= j

Moved(w) == wlTx.done[w] # "none"

\* compensation_placement, candidate_matches_compensation_source
Source(w) == wlTx.done[w]

Destination(w) ==
    IF wlTx.way = "apply" /\ w \notin wlSame THEN "desired" ELSE "original"

-----------------------------------------------------------------------------
(* mutate_transaction *)

Tx(pc) == wlPhase = "run" /\ wlTx.pc = pc

GoOn(tx) == wlTx' = tx /\ UNCHANGED <<wlPhase, wlItem, wlFrom, wlSaid>>

Classifies(item) == /\ wlItem' = item /\ wlFrom' = item
                    /\ wlPhase' = "classify"

\* What the engine does with the end of apply or of rollback.
Ends(result) ==
    /\ wlTx' = NoTx
    /\ wlSaid' = result
    /\ CASE result = "ok" -> /\ wlPhase' = IF wlTx.way = "apply" THEN "verify" ELSE "confirm"
                             /\ UNCHANGED <<wlItem, wlFrom>>
         [] result # "ok" /\ wlTx.way = "apply" -> Classifies("APPLY_FAILED")
         [] result # "ok" /\ wlTx.way = "rollback" ->
                /\ wlPhase' = "rest" /\ wlItem' = "RECOVERY"
                /\ UNCHANGED wlFrom

\* mutation_failure_with_compensation
MovesBack == GoOn([wlTx EXCEPT !.pc = "undo", !.todo = {w \in Window : Moved(w)}])

\* Every window is classified before the first is moved.
Plan ==
    /\ Tx("plan")
    /\ IF wlTx.way = "apply" /\ \E w \in Window : ~AtOriginal(w) THEN Ends("failed")
       ELSE GoOn([wlTx EXCEPT !.pc = "refresh",
                    !.todo = {w \in Window : IF wlTx.way = "apply" THEN ~AtDesired(w)
                                             ELSE AtOriginal(w) \/ AtDesired(w)}])
    /\ UNCHANGED <<wlAt, wlQueue, wlFound, wlUnseen>>

\* refresh_candidate and the checks on what it read.
Refresh(w) ==
    /\ Tx("refresh") /\ InTurn(w)
    /\ wlUnseen' = wlUnseen \ {w}
    /\ IF MayBeMoved(w) THEN GoOn([wlTx EXCEPT !.pc = "send", !.source = SourceOf(w)])
       ELSE MovesBack
    /\ UNCHANGED <<wlAt, wlQueue, wlFound>>

\* set_saved_placement: the probe is answered only when the window's thread has
\* done what was sent to it before.
Send(w) ==
    /\ Tx("send") /\ InTurn(w) /\ wlQueue[w] = "none"
    /\ IF wlAt[w] = "gone" THEN MovesBack /\ UNCHANGED wlQueue
       ELSE /\ wlQueue' = [wlQueue EXCEPT ![w] = Destination(w)]
            /\ GoOn([wlTx EXCEPT !.pc = "wait"])
    /\ UNCHANGED <<wlAt, wlFound, wlUnseen>>

Returns(w) ==
    /\ Tx("wait") /\ InTurn(w) /\ wlQueue[w] = "none"
    /\ GoOn([wlTx EXCEPT !.pc = "refresh", !.todo = @ \ {w},
                         !.done = [@ EXCEPT ![w] = wlTx.source]])
    /\ UNCHANGED <<wlAt, wlQueue, wlFound, wlUnseen>>

AllSent ==
    /\ Tx("refresh") /\ wlTx.todo = {}
    /\ GoOn([wlTx EXCEPT !.pc = "check"])
    /\ UNCHANGED <<wlAt, wlQueue, wlFound, wlUnseen>>

\* verify_mutations; its repetition is the choice of when this step happens.
Check ==
    /\ Tx("check")
    /\ IF \A w \in Window : Moved(w) => wlAt[w] = Destination(w)
       THEN GoOn([wlTx EXCEPT !.pc = "final"])
       ELSE MovesBack
    /\ UNCHANGED <<wlAt, wlQueue, wlFound, wlUnseen>>

Final ==
    /\ Tx("final")
    /\ IF IF wlTx.way = "apply" THEN IsDesired ELSE IsOriginal
       THEN Ends("ok") ELSE MovesBack
    /\ UNCHANGED <<wlAt, wlQueue, wlFound, wlUnseen>>

(* compensate_dispatched *)

\* It goes on past a window it cannot move, and remembers.
Leave(w) == GoOn([wlTx EXCEPT !.pc = "undo", !.todo = @ \ {w}, !.whole = FALSE])

Undo(w) ==
    /\ Tx("undo") /\ InTurn(w)
    /\ wlUnseen' = wlUnseen \ {w}
    /\ IF AtOriginal(w) \/ AtDesired(w) THEN GoOn([wlTx EXCEPT !.pc = "undoSend"])
       ELSE Leave(w)
    /\ UNCHANGED <<wlAt, wlQueue, wlFound>>

UndoSend(w) ==
    /\ Tx("undoSend") /\ InTurn(w) /\ wlQueue[w] = "none"
    /\ IF wlAt[w] = "gone" THEN Leave(w) /\ UNCHANGED wlQueue
       ELSE /\ wlQueue' = [wlQueue EXCEPT ![w] = Source(w)]
            /\ GoOn([wlTx EXCEPT !.pc = "undoWait"])
    /\ UNCHANGED <<wlAt, wlFound, wlUnseen>>

UndoReturns(w) ==
    /\ Tx("undoWait") /\ InTurn(w) /\ wlQueue[w] = "none"
    /\ GoOn([wlTx EXCEPT !.pc = "undo", !.todo = @ \ {w}])
    /\ UNCHANGED <<wlAt, wlQueue, wlFound, wlUnseen>>

AllUndone ==
    /\ Tx("undo") /\ wlTx.todo = {}
    /\ GoOn([wlTx EXCEPT !.pc = "undoCheck"])
    /\ UNCHANGED <<wlAt, wlQueue, wlFound, wlUnseen>>

\* verify_compensations
UndoCheck ==
    /\ Tx("undoCheck")
    /\ Ends(IF wlTx.whole /\ \A w \in Window : Moved(w) => wlAt[w] = Source(w)
            THEN "failed" ELSE "recovery")
    /\ UNCHANGED <<wlAt, wlQueue, wlFound, wlUnseen>>

TransactionStep ==
    \/ Plan \/ AllSent \/ Check \/ Final \/ AllUndone \/ UndoCheck
    \/ \E w \in Window : Refresh(w) \/ Send(w) \/ Returns(w)
    \/ \E w \in Window : Undo(w) \/ UndoSend(w) \/ UndoReturns(w)

\* A call fails.  Before the first window there is nothing to move back; the
\* look before a later one ends the transaction with the rest still moved.
CallRefused ==
    /\ \/ Tx("plan") /\ Ends("failed")
       \/ Tx("refresh") /\ wlTx.todo # {} /\ Ends("cut")
       \/ (Tx("send") \/ Tx("check") \/ Tx("final")) /\ MovesBack
       \/ (Tx("undo") \/ Tx("undoSend")) /\ \E w \in Window : InTurn(w) /\ Leave(w)
       \/ Tx("undoCheck") /\ Ends("recovery")
    /\ UNCHANGED <<wlAt, wlQueue, wlFound, wlUnseen>>

-----------------------------------------------------------------------------
(* The engine around the transaction *)

Begins(way) == /\ wlPhase' = "run"
               /\ wlTx' = [NoTx EXCEPT !.pc = "plan", !.way = way]
               /\ wlFound' = [w \in Window |-> IF wlQueue[w] = "none" THEN wlAt[w]
                                                ELSE "late"]

StartLayout ==
    /\ wlPhase = "rest" /\ wlItem = "PREPARED"
    /\ wlItem' = "APPLYING"
    /\ Begins("apply")
    /\ UNCHANGED wlFrom

\* verify_applied: "ok" unless something moved or the look fails.
VerifyLayout(ok) ==
    /\ wlPhase = "verify"
    /\ IF ok /\ IsDesired THEN /\ wlItem' = "APPLIED" /\ wlPhase' = "rest"
                               /\ UNCHANGED wlFrom
       ELSE Classifies("APPLY_FAILED")
    /\ UNCHANGED <<wlTx, wlFound>>

Bug_NeedsFence == FALSE

\* needs_original_rollback_fence
NeedsFence == wlFrom # "PREPARED"

\* classify_action and what rollback_after_failure, rollback_item and reconcile
\* do with it; PREPARED proves that no window was moved.
ClassifyLayout(ok) ==
    /\ wlPhase = "classify"
    /\ IF ok /\ (IF IsOriginal THEN NeedsFence ELSE wlFrom # "PREPARED")
       THEN wlItem' = "ROLLING_BACK" /\ Begins("rollback")
       ELSE /\ wlItem' = IF ok /\ IsOriginal THEN "ROLLED_BACK" ELSE "RECOVERY"
            /\ wlPhase' = "rest"
            /\ UNCHANGED <<wlTx, wlFound>>
    /\ UNCHANGED wlFrom

\* verify_rolled_back
ConfirmLayout(ok) ==
    /\ wlPhase = "confirm"
    /\ wlItem' = IF ok /\ IsOriginal THEN "ROLLED_BACK" ELSE "RECOVERY"
    /\ wlPhase' = "rest"
    /\ UNCHANGED <<wlFrom, wlTx, wlFound>>

\* rollback_item of an applied layout.
StartLayoutRollback ==
    /\ wlPhase = "rest" /\ wlItem = "APPLIED"
    /\ Classifies("APPLIED")
    /\ UNCHANGED <<wlTx, wlFound>>

\* reconcile: an applied item stays, any other is looked at.
RestartLayout ==
    /\ wlPhase = "down"
    /\ IF wlItem = "APPLIED" THEN wlPhase' = "rest" /\ UNCHANGED <<wlItem, wlFrom>>
       ELSE Classifies(wlItem)
    /\ UNCHANGED <<wlTx, wlFound>>

\* The process dies; what it sent to a window stays in that window's queue.
LayoutCrash ==
    /\ wlPhase # "down" /\ wlItem \notin {"ROLLED_BACK", "RECOVERY"}
    /\ wlPhase' = "down" /\ wlTx' = NoTx
    /\ UNCHANGED <<wlItem, wlFrom, wlFound>>

\* The window's thread carries out what was sent to it.
Land(w) ==
    /\ wlQueue[w] # "none"
    /\ wlAt' = [wlAt EXCEPT ![w] = wlQueue[w]]
    /\ wlQueue' = [wlQueue EXCEPT ![w] = "none"]

\* A user moves a window through the same thread, so not before a placement
\* that waits there.
OthersMove(w) ==
    /\ wlAt[w] # "gone" /\ wlQueue[w] = "none"
    /\ \E v \in {"original", "third", "gone"} \ {wlAt[w]} :
            wlAt' = [wlAt EXCEPT ![w] = v]
    /\ wlUnseen' = wlUnseen \union {w}
    /\ wlTouched' = wlTouched \union {w}

LayoutStep ==
    \/ TransactionStep /\ UNCHANGED <<wlSame, wlTouched>>
    \/ /\ StartLayout \/ VerifyLayout(TRUE) \/ ClassifyLayout(TRUE)
          \/ ConfirmLayout(TRUE) \/ RestartLayout
       /\ UNCHANGED <<wlAt, wlSame, wlQueue, wlSaid, wlUnseen, wlTouched>>
    \/ \E w \in Window : Land(w) /\ UNCHANGED <<wlSame, wlItem, wlFrom, wlPhase,
                                    wlTx, wlSaid, wlFound, wlUnseen, wlTouched>>

LayoutUserStep ==
    /\ StartLayoutRollback
    /\ UNCHANGED <<wlAt, wlSame, wlQueue, wlSaid, wlUnseen, wlTouched>>

LayoutFault ==
    \/ CallRefused /\ UNCHANGED <<wlSame, wlTouched>>
    \/ /\ VerifyLayout(FALSE) \/ ClassifyLayout(FALSE) \/ ConfirmLayout(FALSE)
          \/ LayoutCrash
       /\ UNCHANGED <<wlAt, wlSame, wlQueue, wlSaid, wlUnseen, wlTouched>>
    \/ /\ wlItem \notin {"ROLLED_BACK", "RECOVERY"}
       /\ \E w \in Window : OthersMove(w)
       /\ UNCHANGED <<wlSame, wlQueue, wlItem, wlFrom, wlPhase, wlTx, wlSaid, wlFound>>

LayoutNext == LayoutStep \/ LayoutUserStep \/ LayoutFault

LayoutSpec == LayoutInit /\ [][LayoutNext]_wlvars

-----------------------------------------------------------------------------
(* Properties *)

\* When the journal says that the layout is rolled back, every window nobody
\* else moved stands where it stood, and nothing this program sent, not even
\* before a crash, is still to land on it (needs_original_rollback_fence and the
\* reassertion in mutate_transaction).  A transaction that fails without asking for
\* recovery has put every such window back where it found it, unless a placement
\* from before a crash landed meanwhile (compensate_dispatched,
\* verify_compensations); only a look that itself fails cuts this short.  And a
\* window others moved is moved by this program only if they moved it after the
\* look that precedes every call (refresh_candidate).
LayoutIsTakenBack ==
    /\ [](\A w \in Window \ wlTouched :
            /\ wlItem = "ROLLED_BACK" => AtOriginal(w) /\ wlQueue[w] = "none"
            /\ /\ wlSaid = "failed" /\ wlPhase \in {"classify", "rest"}
               /\ wlItem \in {"APPLY_FAILED", "RECOVERY"}
               => wlFound[w] \in {wlAt[w], "late"})
    /\ [][\A w \in Window :
             wlAt[w] = "third" /\ wlAt'[w] \in Owned2 /\ wlUnseen' = wlUnseen
             => w \in wlUnseen]_wlvars

=============================================================================
