---------------------------- MODULE TrialScreen ----------------------------
(***************************************************************************)
(* The screen on which a change is previewed, confirmed, tried, kept and     *)
(* undone.  It talks to the engine by calls: a call is sent, executed and    *)
(* answered, and between any two of these the user and other answers go on.  *)
(* What a handler does until its first await is one step, and so is what it  *)
(* does with each answer.                                                    *)
(*                                                                         *)
(* Of the engine there is what the screen can see: which previews it still   *)
(* has, the trials and the items.  ChangeEngine is about the rest.  The      *)
(* buttons of the bar stay within reach while a dialog is open.              *)
(***************************************************************************)
EXTENDS Naturals, Sequences

CONSTANTS
    MaxRequests,     \* bound: previews asked for
    ChangeSizes      \* how many items the first, the second ... change has

ASSUME ScreenAssumption ==
    ChangeSizes \in Seq(Nat) /\ MaxRequests \in 1..Len(ChangeSizes)

VARIABLES
    tsMode,          \* dataMode
    tsGeneration,    \* previewRequests: the generation of the latest request
    tsAsked,         \* how many previews were asked for
    tsPreview,       \* the preview in the dialog, by its generation; 0 if none
    tsConfirmed,     \* previewConfirmed
    tsCommitting,    \* commitPending
    tsBar,           \* justApplied
    tsTrial,         \* the change in trial; 0 if none
    tsTimeIsUp,      \* trialLeft = 0
    tsUndo,          \* undoJustApplied: the items it began with, and those left
    tsSaid,        \* the notice that appeared just now
    tsCalls,         \* the calls under way
    tsSpent,        \* the previews the engine no longer has
    tsState,         \* the engine's trials, by change
    tsItem,          \* the engine's items
    tsPass,          \* what the engine's thread has read and takes back next
    tsTicked,        \* history: the preview whose box was ticked by the user
    tsExcused        \* history: items taken back one by one, and those of a change of
                     \* which a pass over the expired trials kept the trial, or that
                     \* was kept in the middle of such a pass

tsvars == <<tsMode, tsGeneration, tsAsked, tsPreview, tsConfirmed, tsCommitting, tsBar,
            tsTrial, tsTimeIsUp, tsUndo, tsSaid, tsCalls, tsSpent, tsState, tsItem,
            tsPass, tsTicked, tsExcused>>

Changes == 1..Len(ChangeSizes)
ChangeItems(tx) == {<<tx, i>> : i \in 1..ChangeSizes[tx]}
AllItems == UNION {ChangeItems(tx) : tx \in Changes}

\* The items of a change are undone from the last one to the first.
LastOf(items) == CHOOSE i \in items : \A j \in items : j[2] <= i[2]

tsview == <<tsPreview, tsConfirmed, tsTicked>>
tsapplied == <<tsBar, tsTrial, tsTimeIsUp>>
tsengine == <<tsSpent, tsState, tsItem, tsPass, tsExcused>>

Silence == <<"nothing", {}>>
Silent == tsSaid' = Silence

SameRequests == UNCHANGED <<tsMode, tsGeneration, tsAsked>>

\* A call is about a preview, a change or an item; the answer to a commit names the
\* change.
Invocation(kind, about) ==
    [kind |-> kind, about |-> about, answer |-> "none", change |-> 0, of |-> kind]
Invoke(call) == tsCalls' = tsCalls \union {call}
Drop(call) == tsCalls' = tsCalls \ {call}
Swap(call, next) == tsCalls' = (tsCalls \ {call}) \union {next}

\* What waits for the snapshot that a handler asks for at its end.
Snapshot(handler) == [Invocation("snapshot", << >>) EXCEPT !.of = handler]

NoPass == [changes |-> {}, items |-> {}]

NoUndo == [all |-> {}, left |-> {}, busy |-> FALSE]

ScreenTypeOK ==
    /\ tsMode \in {"loading", "live", "catalog"}
    /\ tsGeneration \in Nat /\ tsAsked \in 0..MaxRequests
    /\ {tsPreview, tsTicked} \subseteq 0..tsGeneration
    /\ {tsConfirmed, tsCommitting, tsTimeIsUp, tsUndo.busy} \subseteq BOOLEAN
    /\ tsBar \subseteq AllItems /\ tsTrial \in {0} \union Changes
    /\ tsUndo.left \subseteq tsUndo.all
    /\ tsState \in [Changes -> {"none", "trial", "due", "saved", "cleared"}]
    /\ tsItem \in [AllItems -> {"none", "applied", "back", "recovery"}]
    /\ tsPass.changes \subseteq Changes /\ tsPass.items \subseteq AllItems
    /\ tsExcused \subseteq AllItems

ScreenInit ==
    /\ tsMode = "loading" /\ tsGeneration = 0 /\ tsAsked = 0
    /\ tsPreview = 0 /\ tsConfirmed = FALSE /\ tsTicked = 0 /\ tsCommitting = FALSE
    /\ tsBar = {} /\ tsTrial = 0 /\ tsTimeIsUp = FALSE
    /\ tsUndo = NoUndo /\ tsSaid = Silence
    /\ tsCalls = {}
    /\ tsSpent = {}
    /\ tsState = [tx \in Changes |-> "none"]
    /\ tsItem = [i \in AllItems |-> "none"]
    /\ tsPass = NoPass /\ tsExcused = {}

-----------------------------------------------------------------------------
(* The dialog of the preview. *)

RequestPreview ==
    /\ tsMode = "live" /\ tsPreview = 0
    /\ tsAsked < MaxRequests
    /\ tsAsked' = tsAsked + 1 /\ tsGeneration' = tsGeneration + 1
    /\ Invoke(Invocation("preview", <<tsGeneration'>>))
    /\ UNCHANGED <<tsMode, tsview, tsCommitting, tsapplied, tsUndo, tsengine>> /\ Silent

Bug_ShowPreview(call) ==
    IF call.about = <<tsGeneration>>
        THEN tsPreview' = call.about[1] /\ UNCHANGED <<tsConfirmed, tsTicked>>
        ELSE UNCHANGED tsview

\* An answer that is not to the latest request is dropped.
ShowPreview(call) ==
    IF call.about = <<tsGeneration>>
        THEN tsPreview' = call.about[1] /\ tsConfirmed' = FALSE /\ UNCHANGED tsTicked
        ELSE UNCHANGED tsview

\* The command changes nothing that others see, and is one step with its answer.
PreviewArrives ==
    \E call \in tsCalls :
       /\ call.kind = "preview"
       /\ ShowPreview(call) /\ Drop(call)
       /\ SameRequests
       /\ UNCHANGED <<tsCommitting, tsapplied, tsUndo, tsengine>> /\ Silent

PreviewFails ==
    \E call \in tsCalls :
       /\ call.kind = "preview" /\ Drop(call)
       /\ SameRequests
       /\ UNCHANGED <<tsview, tsCommitting, tsapplied, tsUndo, tsengine>> /\ Silent

TickBox ==
    /\ tsPreview # 0
    /\ tsConfirmed' = ~tsConfirmed
    /\ tsTicked' = IF tsConfirmed THEN 0 ELSE tsPreview
    /\ SameRequests
    /\ UNCHANGED <<tsPreview, tsCommitting, tsapplied, tsUndo, tsCalls, tsengine>> /\ Silent

\* The box stays ticked behind the closed dialog.
CancelPreview ==
    /\ tsPreview # 0 /\ ~tsCommitting
    /\ tsPreview' = 0
    /\ SameRequests
    /\ UNCHANGED <<tsConfirmed, tsTicked, tsCommitting, tsapplied, tsUndo, tsCalls,
                   tsengine>>
    /\ Silent

ConfirmPreview ==
    /\ tsPreview # 0 /\ tsConfirmed /\ ~tsCommitting
    /\ tsCommitting' = TRUE
    /\ Invoke(Invocation("commit", <<tsPreview>>))
    /\ SameRequests
    /\ UNCHANGED <<tsview, tsapplied, tsUndo, tsengine>> /\ Silent

ClosePreview == tsPreview' = 0 /\ tsConfirmed' = FALSE /\ UNCHANGED tsTicked

\* The bar and the trial of an earlier change give way.
CommitArrives ==
    \E call \in tsCalls :
       /\ call.kind = "commit" /\ call.answer # "none"
       /\ \/ /\ call.answer = "ok"
             /\ tsBar' = ChangeItems(call.change)
             /\ tsTrial' = call.change /\ tsTimeIsUp' = FALSE
             /\ tsSaid' = <<"applied", tsBar'>>
          \/ /\ call.answer = "undone"
             /\ tsBar' = {}
             /\ UNCHANGED <<tsTrial, tsTimeIsUp>> /\ Silent
          \/ call.answer = "error" /\ UNCHANGED tsapplied /\ Silent
       /\ IF call.answer = "error"
             THEN tsCommitting' = FALSE /\ Drop(call) /\ UNCHANGED tsview
             ELSE ClosePreview /\ Swap(call, Snapshot("commit")) /\ UNCHANGED tsCommitting
       /\ SameRequests
       /\ UNCHANGED <<tsUndo, tsengine>>

\* refreshSnapshot; the handlers that wait for it go on.  Others ask for it, too, at
\* any time.
Settle ==
    /\ \/ UNCHANGED <<tsCalls, tsCommitting, tsUndo>>
       \/ \E call \in tsCalls :
             /\ call.kind = "snapshot" /\ Drop(call)
             /\ tsCommitting' = (tsCommitting /\ call.of # "commit")
             /\ tsUndo' = IF call.of = "undo" THEN NoUndo ELSE tsUndo
    /\ UNCHANGED <<tsAsked, tsapplied, tsengine>> /\ Silent

SnapshotArrives ==
    /\ Settle
    /\ tsMode' = "live"
    /\ UNCHANGED <<tsGeneration, tsview>>

\* The effect of a mode that is not live.
SnapshotFails ==
    /\ Settle
    /\ tsMode' = "catalog"
    /\ IF tsMode = "catalog" THEN UNCHANGED <<tsGeneration, tsview>>
       ELSE tsGeneration' = tsGeneration + 1 /\ ClosePreview

-----------------------------------------------------------------------------
(* The bar of what was just applied. *)

UndoJustApplied ==
    /\ tsBar # {} /\ ~tsUndo.busy
    /\ tsUndo' = [all |-> tsBar, left |-> tsBar, busy |-> TRUE]
    /\ Invoke(Invocation("undo", LastOf(tsBar)))
    /\ SameRequests
    /\ UNCHANGED <<tsview, tsCommitting, tsapplied, tsengine>> /\ Silent

Bug_UndoGoesOn(answer) == answer \in {"ok", "recovery"}

UndoGoesOn(answer) == answer = "ok"

\* The last one first; the bar and the trial are cleared whatever they are by now.
UndoArrives ==
    \E call \in tsCalls :
       /\ call.kind = "undo" /\ call.answer # "none"
       /\ LET left == tsUndo.left \ {call.about} IN
          \/ /\ ~UndoGoesOn(call.answer)
             /\ tsUndo' = NoUndo /\ Drop(call)
             /\ UNCHANGED tsapplied /\ Silent
          \/ /\ UndoGoesOn(call.answer) /\ left # {}
             /\ tsUndo' = [tsUndo EXCEPT !.left = left]
             /\ Swap(call, Invocation("undo", LastOf(left)))
             /\ tsBar' = tsBar \ {call.about}
             /\ UNCHANGED <<tsTrial, tsTimeIsUp>> /\ Silent
          \/ /\ UndoGoesOn(call.answer) /\ left = {}
             /\ Swap(call, Snapshot("undo"))
             /\ tsSaid' = <<"undone", tsUndo.all>>
             /\ tsBar' = {} /\ tsTrial' = 0 /\ tsTimeIsUp' = FALSE
             /\ UNCHANGED tsUndo
       /\ SameRequests
       /\ UNCHANGED <<tsview, tsCommitting, tsengine>>

\* Not offered for a change that can only be tried.  Bound: one call at a time, where
\* a user may press the button again.
KeepTrial ==
    /\ tsBar # {} /\ tsTrial # 0
    /\ ~\E call \in tsCalls : call.kind = "keep" /\ call.about = <<tsTrial>>
    /\ Invoke(Invocation("keep", <<tsTrial>>))
    /\ SameRequests
    /\ UNCHANGED <<tsview, tsCommitting, tsapplied, tsUndo, tsengine>> /\ Silent

KeepArrives ==
    \E call \in tsCalls :
       /\ call.kind = "keep" /\ call.answer # "none"
       /\ Drop(call)
       /\ IF call.answer = "true"
             THEN /\ tsSaid' = <<"saved", ChangeItems(call.about[1])>>
                  /\ tsTrial' = 0 /\ tsBar' = {} /\ tsTimeIsUp' = FALSE
             ELSE UNCHANGED tsapplied /\ Silent
       /\ SameRequests
       /\ UNCHANGED <<tsview, tsCommitting, tsUndo, tsengine>>

CloseBar ==
    /\ tsBar # {} /\ tsBar' = {}
    /\ SameRequests
    /\ UNCHANGED <<tsview, tsCommitting, tsTrial, tsTimeIsUp, tsUndo, tsCalls, tsengine>> /\ Silent

\* The screen began to count after the engine did.
TimeIsUp ==
    /\ tsTrial # 0 /\ ~tsTimeIsUp /\ tsState[tsTrial] # "trial"
    /\ tsTimeIsUp' = TRUE
    /\ Invoke(Invocation("revert", <<tsTrial>>))
    /\ SameRequests
    /\ UNCHANGED <<tsview, tsCommitting, tsBar, tsTrial, tsUndo, tsengine>> /\ Silent

\* The effect of an earlier trial.
IsCancelled(call) == call.about # <<tsTrial>>

RevertArrives ==
    \E call \in tsCalls :
       /\ call.kind = "revert" /\ call.answer # "none"
       /\ IF IsCancelled(call) \/ call.answer = "error"
             THEN Drop(call) /\ UNCHANGED tsapplied /\ Silent
             ELSE /\ Drop(call)
                  /\ tsTrial' = 0 /\ tsBar' = {} /\ tsTimeIsUp' = FALSE
                  /\ tsSaid' = <<"expired", ChangeItems(call.about[1])>>
       /\ SameRequests
       /\ UNCHANGED <<tsview, tsCommitting, tsUndo, tsengine>>

\* One item, from the history, in one step with the engine's.
RollbackFromHistory ==
    \E item \in AllItems :
       /\ tsItem[item] = "applied" /\ tsPreview = 0
       /\ tsItem' = [tsItem EXCEPT ![item] = "back"]
       /\ tsExcused' = tsExcused \union {item}
       /\ SameRequests
       /\ UNCHANGED <<tsview, tsCommitting, tsapplied, tsUndo, tsCalls, tsSpent, tsState,
                      tsPass>>
       /\ Silent

-----------------------------------------------------------------------------
(* The commands, each executed as a whole, and the engine's thread. *)

tsscreen == <<tsMode, tsGeneration, tsAsked, tsview, tsCommitting, tsapplied, tsUndo>>

Answer(call, answer) == Swap(call, [call EXCEPT !.answer = answer])

Waiting(kind) == {call \in tsCalls : call.kind = kind /\ call.answer = "none"}

NextChange(tx) == tsState[tx] = "none" /\ \A other \in 1..(tx - 1) : tsState[other] # "none"

\* A preview can be used once.
ExecuteCommit ==
    \E call \in Waiting("commit") :
       /\ tsSpent' = tsSpent \union {call.about[1]}
       /\ \/ \E tx \in Changes :
                /\ call.about[1] \notin tsSpent /\ NextChange(tx)
                /\ Swap(call, [call EXCEPT !.answer = "ok", !.change = tx])
                /\ tsState' = [tsState EXCEPT ![tx] = "trial"]
                /\ tsItem' = [i \in AllItems |-> IF i[1] = tx THEN "applied" ELSE tsItem[i]]
          \/ /\ call.about[1] \in tsSpent
             /\ Answer(call, "error")
             /\ UNCHANGED <<tsState, tsItem>>
       /\ UNCHANGED <<tsPass, tsExcused, tsscreen>> /\ Silent

CommitIsUndone ==
    \E call \in Waiting("commit"), answer \in {"undone", "error"} :
       /\ call.about[1] \notin tsSpent
       /\ tsSpent' = tsSpent \union {call.about[1]}
       /\ Answer(call, answer)
       /\ UNCHANGED <<tsState, tsItem, tsPass, tsExcused, tsscreen>> /\ Silent

\* confirm_trial: whatever a pass over the expired trials is about to do.
ExecuteKeep ==
    \E call \in Waiting("keep") : LET tx == call.about[1] IN
       /\ IF tsState[tx] \in {"trial", "due"}
             THEN /\ Answer(call, "true")
                  /\ tsState' = [tsState EXCEPT ![tx] = "saved"]
                  /\ tsExcused' = IF tx \in tsPass.changes
                                     THEN tsExcused \union ChangeItems(tx) ELSE tsExcused
             ELSE Answer(call, "false") /\ UNCHANGED <<tsState, tsExcused>>
       /\ UNCHANGED <<tsSpent, tsItem, tsPass, tsscreen>> /\ Silent

ExecuteRollback ==
    \E call \in Waiting("undo") :
       /\ IF tsItem[call.about] = "applied"
             THEN /\ Answer(call, "ok")
                  /\ tsItem' = [tsItem EXCEPT ![call.about] = "back"]
                  /\ tsExcused' = tsExcused \union {call.about}
             ELSE Answer(call, "error") /\ UNCHANGED <<tsItem, tsExcused>>
       /\ UNCHANGED <<tsSpent, tsState, tsPass, tsscreen>> /\ Silent

\* rollback_item answers with a status, not with an error.
RollbackFails ==
    \E call \in Waiting("undo") :
       /\ tsItem[call.about] = "applied"
       /\ Answer(call, "recovery")
       /\ tsItem' = [tsItem EXCEPT ![call.about] = "recovery"]
       /\ tsExcused' = tsExcused \union {call.about}
       /\ UNCHANGED <<tsSpent, tsState, tsPass, tsscreen>> /\ Silent

DeadlinePasses ==
    /\ \E tx \in Changes :
          tsState[tx] = "trial" /\ tsState' = [tsState EXCEPT ![tx] = "due"]
    /\ UNCHANGED <<tsCalls, tsSpent, tsItem, tsPass, tsExcused, tsscreen>> /\ Silent

\* What a pass reads of the expired trials: their items that are applied.
PassOver(txs) ==
    [changes |-> txs,
     items |-> {i \in UNION {ChangeItems(tx) : tx \in txs} : tsItem[i] = "applied"}]

Due == {tx \in Changes : tsState[tx] = "due"}

\* How rollback_item ends for each item.  "failed" is a result that says so, "third" an
\* error after the item was given to recovery, "refused" one that changed nothing.
AllBack == [i \in AllItems |-> "back"]

OneFails(pass) ==
    {[AllBack EXCEPT ![i] = o] : i \in pass.items, o \in {"failed", "third", "refused"}}

ItemAfterPass(end) ==
    CASE end = "back" -> "back"
      [] end \in {"failed", "third"} -> "recovery"
      [] end = "refused" -> "applied"

Bug_Finishes(pass, ends, tx) == TRUE

\* Only an error keeps the trial: one of rollback_item, which also answers with one when
\* the item is no longer applied, or an item read as neither applied nor back.
Finishes(pass, ends, tx) ==
    \A i \in ChangeItems(tx) :
        IF i \in pass.items THEN tsItem[i] = "applied" /\ ends[i] \in {"back", "failed"}
        ELSE tsItem[i] = "back"

\* revert_expired_trials after it has read: the items are rolled back whatever became
\* of the trial since.
TakeBack(pass, ends) ==
    LET finished == {tx \in pass.changes : Finishes(pass, ends, tx)} IN
    /\ tsItem' = [i \in AllItems |->
                     IF i \in pass.items /\ tsItem[i] = "applied"
                         THEN ItemAfterPass(ends[i]) ELSE tsItem[i]]
    /\ tsState' = [tx \in Changes |-> IF tx \in finished THEN "cleared" ELSE tsState[tx]]
    /\ tsExcused' = tsExcused \union
                        UNION {ChangeItems(tx) : tx \in pass.changes \ finished}

RevertAnswer(pass, ends) ==
    IF \A tx \in pass.changes : Finishes(pass, ends, tx) THEN "ok" ELSE "error"

\* The command reads and takes back in one step, and the thread, which runs the same
\* function for one trial after the other, in two.  (A trial kept between the reading
\* of the trials and that of its items has no items then: only its row goes.)
ExecuteRevert(ends) ==
    \E call \in Waiting("revert") :
       /\ TakeBack(PassOver(Due), ends)
       /\ Answer(call, RevertAnswer(PassOver(Due), ends))
       /\ UNCHANGED <<tsSpent, tsPass, tsscreen>> /\ Silent

ThreadReads ==
    /\ tsPass = NoPass
    /\ \E tx \in Due : tsPass' = PassOver({tx})
    /\ UNCHANGED <<tsCalls, tsSpent, tsState, tsItem, tsExcused, tsscreen>> /\ Silent

ThreadTakesBack(ends) ==
    /\ tsPass # NoPass
    /\ TakeBack(tsPass, ends)
    /\ tsPass' = NoPass
    /\ UNCHANGED <<tsCalls, tsSpent, tsscreen>> /\ Silent

RevertFails ==
    \/ \E ends \in OneFails(PassOver(Due)) : ExecuteRevert(ends)
    \/ \E ends \in OneFails(tsPass) : ThreadTakesBack(ends)

\* Any command may fail before it changes anything.
InvocationFails ==
    /\ \E call \in tsCalls :
          /\ call.answer = "none" /\ call.kind \in {"undo", "keep", "revert"}
          /\ Answer(call, "error")
    /\ UNCHANGED <<tsengine, tsscreen>> /\ Silent

ScreenStep ==
    \/ PreviewArrives \/ CommitArrives \/ SnapshotArrives \/ UndoArrives \/ KeepArrives
    \/ TimeIsUp \/ RevertArrives

ScreenUserStep ==
    \/ RequestPreview \/ TickBox \/ CancelPreview \/ ConfirmPreview
    \/ UndoJustApplied \/ KeepTrial \/ CloseBar

ScreenEngineStep ==
    \/ ExecuteCommit \/ ExecuteKeep \/ ExecuteRollback
    \/ ExecuteRevert(AllBack) \/ DeadlinePasses
    \/ ThreadReads \/ ThreadTakesBack(AllBack)

\* What fails, and what is undone elsewhere.
ScreenFault ==
    \/ PreviewFails \/ SnapshotFails \/ InvocationFails \/ CommitIsUndone
    \/ RollbackFails \/ RevertFails \/ RollbackFromHistory

ScreenNext == ScreenStep \/ ScreenUserStep \/ ScreenEngineStep \/ ScreenFault

ScreenSpec == ScreenInit /\ [][ScreenNext]_tsvars

-----------------------------------------------------------------------------

KeepIsAnswered(tx) ==
    \E call \in tsCalls : call.kind = "keep" /\ call.about = <<tx>> /\ call.answer = "true"

\* What a notice says of the items of a change when it appears.
\* "applied": they are applied, or taken back since, one by one or by a pass.
\* "saved": the trial is confirmed and they are applied, and stay so; except for what
\* the user had taken back before, and for a change of which a pass had begun to take
\* items back (keepTrial looks at neither).
\* "undone": they are back, all of them.
\* "expired": nothing of the change is applied any more: each item is back, or its
\* restore failed and it waits for recovery (the notice says "back" of that, too: only
\* an error of revert_expired_trials holds it back); except that the change was saved,
\* and the answer that says so is still on its way.
NoticeIsTrue(notice) ==
    LET items == notice[2] IN
    /\ notice[1] = "applied" =>
          \A i \in items \ tsExcused : tsItem[i] = "applied" \/ tsState[i[1]] = "cleared"
    /\ notice[1] = "saved" =>
          \A i \in items \ tsExcused : tsItem[i] = "applied" /\ tsState[i[1]] = "saved"
    /\ notice[1] = "undone" => \A i \in items : tsItem[i] = "back"
    /\ notice[1] = "expired" =>
          \A i \in items : \/ tsState[i[1]] = "cleared" /\ tsItem[i] \in {"back", "recovery"}
                          \/ KeepIsAnswered(i[1])

\* A commit begins only for the preview that was asked for last, that was asked for
\* while the engine was there, and whose box the user ticked (requestPreviewRequest
\* and confirmPreview): a late answer, a closed dialog or an engine that went away in
\* between never turns a tick into the consent to another change.  What the bar offers
\* to undo belongs to the change it offers to save.  And a notice says of its items what
\* is so when it appears, but for the exceptions NoticeIsTrue names (confirmPreview,
\* undoJustApplied, keepTrial and the effect that ends a trial), with several of them
\* and the engine's thread under way at once.
ScreenIsHonest ==
    /\ [][\A call \in tsCalls' \ tsCalls :
            call.kind = "commit" /\ call.answer = "none" =>
               /\ call.about = <<tsTicked>> /\ call.about = <<tsGeneration>>
               /\ tsMode = "live"]_tsvars
    /\ [](\A i \in tsBar : i[1] = tsTrial)
    /\ []NoticeIsTrue(tsSaid)

=============================================================================
