---------------------------- MODULE ChangeEngine ----------------------------
(***************************************************************************)
(* PcCustomEngine: preview, commit, automatic unwinding of a failed        *)
(* commit, individual rollback, trials with a deadline, crash recovery.    *)
(*                                                                         *)
(* Actors: the command threads (preview, commit, rollback, reconcile,      *)
(* confirm), the trial reverter thread, the boot sequence, Windows and the *)
(* programs that change the same settings from outside.  Everything that   *)
(* changes a setting runs under the mutation gate: `job` is what the       *)
(* holder of the gate is doing, one step per operating system access and   *)
(* one per journal statement, so that a crash, a failed statement or an    *)
(* outside change can come between any two of them.  A read of a setting   *)
(* and the journal statement it decides are one step: the statement        *)
(* touches no setting, so an outside change between the two has the effect *)
(* of one after both.                                                      *)
(***************************************************************************)
EXTENDS ChangeJournal

CONSTANTS
    Slots,           \* bound: previews open at the same time
    Initial,         \* value of every setting before the first change
    SessionActions,  \* session.prevent_sleep: the setting dies with the process
    FencedActions,   \* setup.window_layout: an original read needs a fence
    TrialOnlyActions,\* display.high_contrast trial: may not be confirmed
    Requests,        \* the requests users make, as plans
    CallsFail        \* bound: reads and setters may fail of themselves, and
                     \* not only because the setting is not as expected

ASSUME EngineAssumption ==
    /\ Initial \in Values
    /\ SessionActions \subseteq Action
    /\ FencedActions \subseteq Action
    /\ TrialOnlyActions \subseteq Action
    /\ Requests \subseteq Plans
    /\ CallsFail \in BOOLEAN

VARIABLES
    os,         \* the settings of the machine
    foreign,    \* transactions whose backups another Windows build took
    mode,       \* "down", "recovering", "reverting", "running"
    slot,       \* previews: "empty", "open", "claimed", "claimedTrial"
    plan,       \* a preview's invocations
    seen,       \* a preview's fingerprints: the values that were shown
    job,        \* the holder of the mutation gate
    rev,        \* the pass of revert_expired_trials, which holds no gate
    toClear,    \* trials whose commit was undone, before clear_trial
    writer      \* history: transaction whose apply wrote the value (0: none)

machine  == <<os, foreign>>
previews == <<slot, plan, seen>>
vars == <<journal, machine, mode, previews, job, rev, toClear, writer>>

JobPcs == {"idle",
           "detect", "capture", "redetect", "prepare",
           "applying", "applyRead", "applyWrite", "verify", "applyFailed",
           "judge", "cancel", "undo", "settle", "succeed",
           "item", "next",
           "undoRead", "undoWrite", "undoVerify", "undoFailed"}

Idle == [op |-> "idle", by |-> "none", pc |-> "idle", tx |-> 0, act |-> 0,
         plan |-> NoPlan, seen |-> NoPlan, draft |-> NoPlan, hold |-> FALSE,
         todo |-> {}, rollbackFailed |-> FALSE, recoveryRequired |-> FALSE,
         batch |-> {}, queue |-> {}, kept |-> {}]

Jobs == [op : {"idle", "commit", "rollback", "reconcile"},
         by : {"none", "user", "reverter", "boot"},
         pc : JobPcs, tx : Tx \union {0}, act : Action \union {0},
         plan : Plans, seen : Plans, draft : Plans, hold : BOOLEAN,
         todo : SUBSET Action, rollbackFailed : BOOLEAN, recoveryRequired : BOOLEAN,
         batch : SUBSET Tx, queue : SUBSET Items, kept : SUBSET Tx]

Resting == [pc |-> "idle", txs |-> {}, tx |-> 0, acts |-> {}, ok |-> TRUE]

Passes == [pc : {"idle", "pick", "items", "wait"}, txs : SUBSET Tx,
           tx : Tx \union {0}, acts : SUBSET Action, ok : BOOLEAN]

TypeOK ==
    /\ JournalTypeOK
    /\ os \in [Action -> Values]
    /\ foreign \subseteq Tx
    /\ mode \in {"down", "recovering", "reverting", "running"}
    /\ slot \in [Slots -> {"empty", "open", "claimed", "claimedTrial"}]
    /\ plan \in [Slots -> Plans]
    /\ seen \in [Slots -> Plans]
    /\ job \in Jobs
    /\ rev \in Passes
    /\ toClear \subseteq Tx
    /\ writer \in [Action -> Tx \union {0}]

Init ==
    /\ JournalInit
    /\ os = [a \in Action |-> Initial]
    /\ foreign = {}
    /\ mode = "down"
    /\ slot = [s \in Slots |-> "empty"]
    /\ plan = [s \in Slots |-> NoPlan]
    /\ seen = [s \in Slots |-> NoPlan]
    /\ job = Idle
    /\ rev = Resting
    /\ toClear = {}
    /\ writer = [a \in Action |-> 0]

-----------------------------------------------------------------------------
(* What an action reports about its setting                                *)

\* classify_action: a read may fail, and then nothing is known.  Only the
\* values decide; the caller's item state matters for fenced actions below.
Classes(t, a) ==
    {CASE os[a] = orig[<<t, a>>] -> "original"
       [] os[a] # orig[<<t, a>>] /\ os[a] = want[<<t, a>>] -> "applied"
       [] OTHER -> "third"}
    \union (IF CallsFail THEN {"unknown"} ELSE {})

\* A read, a write or a verification has an error to report.
MayFail(expected) == CallsFail \/ ~expected

\* needs_original_rollback_fence: a layout write may still be in flight when
\* the original is read, so that the rollback is issued all the same.
Fenced(t, a) == a \in FencedActions /\ itemState[<<t, a>>] # "PREPARED"

\* Seeded fault: the build of the backup is not compared.
Bug_MutationAllowed(t) == TRUE

\* ensure_backup_mutation_allowed: the backup was taken on this base build.
MutationAllowed(t) == t \notin foreign

-----------------------------------------------------------------------------
(* Leaving the gate                                                        *)

\* The result goes to whoever called: a failed boot reconcile leaves the
\* engine down, the reverter notes the result and takes its next item.
Release(ok) ==
    /\ job' = Idle
    /\ mode' = IF job.by = "boot" THEN (IF ok THEN "reverting" ELSE "down") ELSE mode
    /\ rev' = IF job.by = "reverter"
              THEN [rev EXCEPT !.pc = "items", !.ok = rev.ok /\ ok]
              ELSE rev

Goto(pc) == job' = [job EXCEPT !.pc = pc]

\* An error of a statement, a validation or a read that `?` returns: the
\* operation ends where it is and nothing is cleaned up.
Abort ==
    /\ Release(FALSE)
    /\ UNCHANGED <<journal, machine, previews, toClear, writer>>

OsPcs == {"applyRead", "applyWrite", "undoRead", "undoWrite"}

JobAborts == job.pc \notin OsPcs \union {"idle"} /\ Abort

-----------------------------------------------------------------------------
(* Previews                                                                *)

\* preview: refused while recovery is pending; remembers what it showed.
Preview(s) ==
    /\ mode = "running" /\ slot[s] = "empty" /\ ~RecoveryPending
    /\ \E t \in Tx : IsNextTx(t)              \* bound MaxTx
    /\ \E p \in Requests :
        /\ plan' = [plan EXCEPT ![s] = p]
        /\ seen' = [seen EXCEPT ![s] =
                       [a \in Action |-> IF p[a] = NoValue THEN NoValue ELSE os[a]]]
    /\ slot' = [slot EXCEPT ![s] = "open"]
    /\ UNCHANGED <<journal, machine, mode, job, rev, toClear, writer>>

EmptySlot(s) ==
    /\ slot' = [slot EXCEPT ![s] = "empty"]
    /\ plan' = [plan EXCEPT ![s] = NoPlan]
    /\ seen' = [seen EXCEPT ![s] = NoPlan]

\* Five minutes pass, or the user never commits.
PreviewExpires(s) ==
    /\ slot[s] = "open"
    /\ EmptySlot(s)
    /\ UNCHANGED <<journal, machine, mode, job, rev, toClear, writer>>

\* commit_preview / commit_preview_as_trial: the token is used up before the
\* gate is waited for.
ClaimPreview(s, hold) ==
    /\ mode = "running" /\ slot[s] = "open"
    /\ slot' = [slot EXCEPT ![s] = IF hold THEN "claimedTrial" ELSE "claimed"]
    /\ UNCHANGED <<journal, machine, mode, plan, seen, job, rev, toClear, writer>>

-----------------------------------------------------------------------------
(* Commit: forward                                                         *)

First(acts, a) == a \in acts /\ \A b \in acts : a <= b
Last(acts, a)  == a \in acts /\ \A b \in acts : b <= a
Planned(p)     == {a \in Action : p[a] # NoValue}

\* Seeded fault: the loop leaves out the next item.
Bug_AfterNext(acts, a) == {b \in acts : a + 1 < b}

After(acts, a) == {b \in acts : a < b}

\* The gate is free: the recovery gate is read again under it.
StartCommit(s) ==
    /\ mode = "running" /\ job.pc = "idle"
    /\ slot[s] \in {"claimed", "claimedTrial"}
    /\ \E t \in Tx : IsNextTx(t)              \* bound MaxTx
    /\ EmptySlot(s)
    /\ IF RecoveryPending
       THEN job' = job
       ELSE \E a \in Action :
              /\ First(Planned(plan[s]), a)
              /\ job' = [Idle EXCEPT !.op = "commit", !.by = "user", !.pc = "detect",
                                     !.act = a, !.plan = plan[s], !.seen = seen[s],
                                     !.hold = (slot[s] = "claimedTrial")]
    /\ UNCHANGED <<journal, machine, mode, rev, toClear, writer>>

\* create_backup_for_preview: read, back up, read again; both reads must
\* give what the preview showed.
Detect ==
    /\ job.pc = "detect"
    /\ IF os[job.act] = job.seen[job.act]
       THEN /\ Goto("capture")
            /\ UNCHANGED <<journal, machine, mode, previews, rev, toClear, writer>>
       ELSE Abort

Capture ==
    /\ job.pc = "capture"
    /\ job' = [job EXCEPT !.pc = "redetect", !.draft[job.act] = os[job.act]]
    /\ UNCHANGED <<journal, machine, mode, previews, rev, toClear, writer>>

Redetect ==
    /\ job.pc = "redetect"
    /\ IF os[job.act] # job.seen[job.act]
       THEN Abort
       ELSE /\ IF After(Planned(job.plan), job.act) = {}
               THEN Goto("prepare")
               ELSE \E b \in Action :
                      /\ First(After(Planned(job.plan), job.act), b)
                      /\ job' = [job EXCEPT !.pc = "detect", !.act = b]
            /\ UNCHANGED <<journal, machine, mode, previews, rev, toClear, writer>>

Prepare ==
    /\ job.pc = "prepare"
    /\ \E t \in Tx, a \in Action :
        /\ IsNextTx(t)
        /\ First(Planned(job.plan), a)
        /\ RecordPrepared(t, job.plan, job.draft, job.hold)
        /\ job' = [Idle EXCEPT !.op = "commit", !.by = "user", !.pc = "applying",
                               !.tx = t, !.act = a, !.hold = job.hold]
    /\ UNCHANGED <<machine, mode, previews, rev, toClear, writer>>

StartApplying ==
    /\ job.pc = "applying"
    /\ MarkItemApplying(job.tx, job.act)
    /\ Goto("applyRead")
    /\ UNCHANGED <<machine, mode, previews, rev, toClear, writer>>

\* The setter compares the setting with the backup before it writes.
ApplyRead ==
    /\ job.pc = "applyRead"
    /\ \/ os[job.act] = orig[<<job.tx, job.act>>] /\ Goto("applyWrite")
       \/ /\ MayFail(os[job.act] = orig[<<job.tx, job.act>>])
          /\ Goto("applyFailed")
    /\ UNCHANGED <<journal, machine, mode, previews, rev, toClear, writer>>

\* The write fails, or is done and then cannot be confirmed, or is done.
ApplyWrite ==
    /\ job.pc = "applyWrite"
    /\ \/ /\ CallsFail
          /\ UNCHANGED <<os, writer>>
          /\ Goto("applyFailed")
       \/ /\ os' = [os EXCEPT ![job.act] = want[<<job.tx, job.act>>]]
          /\ writer' = [writer EXCEPT ![job.act] = job.tx]
          /\ Goto("verify") \/ (CallsFail /\ Goto("applyFailed"))
    /\ UNCHANGED <<journal, foreign, mode, previews, rev, toClear>>

\* verify_applied, then mark_item_applied and the next item.
VerifyApplied ==
    /\ job.pc = "verify"
    /\ \/ /\ MayFail(os[job.act] = want[<<job.tx, job.act>>])
          /\ Goto("applyFailed")
          /\ UNCHANGED journal
       \/ /\ os[job.act] = want[<<job.tx, job.act>>]
          /\ MarkItemApplied(job.tx, job.act)
          /\ LET later == After(ActionsOf(job.tx), job.act)
                 done  == job.todo \union {job.act} IN
             IF later = {}
             THEN job' = [job EXCEPT !.pc = "succeed", !.todo = done]
             ELSE \E b \in Action :
                    /\ First(later, b)
                    /\ job' = [job EXCEPT !.pc = "applying", !.act = b, !.todo = done]
    /\ UNCHANGED <<machine, mode, previews, rev, toClear, writer>>

Succeed ==
    /\ job.pc = "succeed"
    /\ SetTransactionState(job.tx, "SUCCEEDED")
    /\ Release(TRUE)
    /\ UNCHANGED <<machine, previews, toClear, writer>>

-----------------------------------------------------------------------------
(* Commit: rollback_after_failure                                          *)

ApplyFailed ==
    /\ job.pc = "applyFailed"
    /\ MarkApplyFailure(job.tx, job.act)
    /\ Goto("judge")
    /\ UNCHANGED <<machine, mode, previews, rev, toClear, writer>>

\* What did the failed apply leave behind?
JudgeFailed ==
    /\ job.pc = "judge"
    /\ \E c \in Classes(job.tx, job.act) :
        \/ /\ c = "original" /\ ~Fenced(job.tx, job.act)
           /\ MarkItemRolledBack(job.tx, job.act)
           /\ Goto("cancel")
        \/ /\ c = "applied" \/ (c = "original" /\ Fenced(job.tx, job.act))
           /\ job' = [job EXCEPT !.pc = "cancel", !.todo = job.todo \union {job.act}]
           /\ UNCHANGED journal
        \/ /\ c \in {"third", "unknown"}
           /\ RecordRecovery(job.tx, job.act, FALSE)
           /\ job' = [job EXCEPT !.pc = "cancel", !.recoveryRequired = TRUE]
    /\ UNCHANGED <<machine, mode, previews, rev, toClear, writer>>

\* Seeded fault: skip(failed_index) instead of skip(failed_index + 1).
Bug_UndispatchedAndFailed(t, a) ==
    {b \in ActionsOf(t) : a <= b /\ CanMarkRolledBack(t, b)}

Undispatched(t, a) == After(ActionsOf(t), a)

\* Items behind the failed one were never dispatched: they only end.
CancelRest ==
    /\ job.pc = "cancel"
    /\ IF Undispatched(job.tx, job.act) = {}
       THEN /\ Goto("undo")
            /\ UNCHANGED journal
       ELSE \E b \in Action :
              /\ First(Undispatched(job.tx, job.act), b)
              /\ MarkItemRolledBack(job.tx, b)
              /\ job' = [job EXCEPT !.act = b]
    /\ UNCHANGED <<machine, mode, previews, rev, toClear, writer>>

\* Seeded fault: applied_indices.into_iter() without rev().
Bug_FirstToUndo(acts, a) == First(acts, a)

NextToUndo(acts, a) == Last(acts, a)

\* applied_indices.into_iter().rev(): the last applied item first.
UndoNext ==
    /\ job.pc = "undo"
    /\ IF job.todo = {}
       THEN /\ Goto("settle")
            /\ UNCHANGED journal
       ELSE \E a \in Action :
              /\ NextToUndo(job.todo, a)
              /\ IF MutationAllowed(job.tx)
                 THEN /\ MarkTxRollingBack(job.tx, a)
                      /\ job' = [job EXCEPT !.pc = "undoRead", !.act = a,
                                            !.todo = job.todo \ {a}]
                 ELSE /\ RecordRecovery(job.tx, a, FALSE)
                      /\ job' = [job EXCEPT !.todo = job.todo \ {a},
                                            !.recoveryRequired = TRUE]
    /\ UNCHANGED <<machine, mode, previews, rev, toClear, writer>>

\* Seeded fault: items set aside for recovery are forgotten.
Bug_FinalWithoutRecovery(rollbackFailed, recoveryRequired) ==
    IF rollbackFailed THEN "ROLLBACK_FAILED" ELSE "ROLLED_BACK"

\* Seeded fault: the state of the item is written to its transaction.
Bug_FinalItemState(rollbackFailed, recoveryRequired) ==
    IF rollbackFailed \/ recoveryRequired THEN "APPLY_FAILED" ELSE "ROLLED_BACK"

FinalState(rollbackFailed, recoveryRequired) ==
    IF rollbackFailed THEN "ROLLBACK_FAILED"
    ELSE IF recoveryRequired THEN "RECOVERY_REQUIRED" ELSE "ROLLED_BACK"

\* The end of the unwinding; commit_preview_as_trial then drops the trial of
\* a transaction that was undone, after the gate is released.
SettleCommit ==
    /\ job.pc = "settle"
    /\ LET s == FinalState(job.rollbackFailed, job.recoveryRequired) IN
        /\ SetTransactionState(job.tx, s)
        /\ toClear' = IF job.hold /\ s = "ROLLED_BACK" THEN toClear \union {job.tx}
                      ELSE toClear
    /\ Release(TRUE)
    /\ UNCHANGED <<machine, previews, writer>>

ClearUndoneTrial(t) ==
    /\ t \in toClear
    /\ ClearTrialRow(t)
    /\ toClear' = toClear \ {t}
    /\ UNCHANGED <<machine, mode, previews, job, rev, writer>>

-----------------------------------------------------------------------------
(* Restoring one setting, shared by commit, rollback and reconcile         *)

\* Where the caller goes on after one item.
Resume(failed) ==
    IF job.op = "rollback" THEN Release(TRUE)
    ELSE /\ job' = [job EXCEPT !.pc = IF job.op = "commit" THEN "undo" ELSE "next",
                               !.rollbackFailed = job.rollbackFailed \/ failed]
         /\ UNCHANGED <<mode, rev>>

\* The restore compares before it writes: an original is left alone, a third
\* value is refused.
UndoRead ==
    /\ job.pc = "undoRead"
    /\ \/ os[job.act] = orig[<<job.tx, job.act>>] /\ Goto("undoVerify")
       \/ /\ os[job.act] # orig[<<job.tx, job.act>>]
          /\ os[job.act] = want[<<job.tx, job.act>>]
          /\ Goto("undoWrite")
       \/ /\ MayFail(os[job.act] \in {orig[<<job.tx, job.act>>], want[<<job.tx, job.act>>]})
          /\ Goto("undoFailed")
    /\ UNCHANGED <<journal, machine, mode, previews, rev, toClear, writer>>

UndoWrite ==
    /\ job.pc = "undoWrite"
    /\ \/ /\ CallsFail
          /\ UNCHANGED <<os, writer>>
          /\ Goto("undoFailed")
       \/ /\ os' = [os EXCEPT ![job.act] = orig[<<job.tx, job.act>>]]
          /\ writer' = [writer EXCEPT ![job.act] = 0]
          /\ Goto("undoVerify") \/ (CallsFail /\ Goto("undoFailed"))
    /\ UNCHANGED <<journal, foreign, mode, previews, rev, toClear>>

\* Seeded fault: a write that returned without an error counts as restored.
Bug_WriteIsEnough(t, a) == TRUE

RestoreVerified(t, a) == os[a] = orig[<<t, a>>]

UndoVerify ==
    /\ job.pc = "undoVerify"
    /\ \/ /\ RestoreVerified(job.tx, job.act)
          /\ MarkItemRolledBack(job.tx, job.act)
          /\ Resume(FALSE)
       \/ /\ MayFail(RestoreVerified(job.tx, job.act))
          /\ RecordRecovery(job.tx, job.act, TRUE)
          /\ Resume(TRUE)
    /\ UNCHANGED <<machine, previews, toClear, writer>>

UndoFailed ==
    /\ job.pc = "undoFailed"
    /\ RecordRecovery(job.tx, job.act, TRUE)
    /\ Resume(TRUE)
    /\ UNCHANGED <<machine, previews, toClear, writer>>

-----------------------------------------------------------------------------
(* rollback_item                                                           *)

\* Seeded fault: anything the history shows may be rolled back.
Bug_AnyItemAllowed(t, a) == itemState[<<t, a>>] # "NONE"

\* Only an applied or half rolled back item may be rolled back alone; for
\* anything else the call is refused before it changes anything.
ItemRollbackAllowed(t, a) == itemState[<<t, a>>] \in {"APPLIED", "ROLLING_BACK"}

RollbackJob(t, a, by) ==
    [Idle EXCEPT !.op = "rollback", !.by = by, !.pc = "item", !.tx = t, !.act = a]

StartRollback(t, a) ==
    /\ mode = "running" /\ job.pc = "idle"
    /\ ItemRollbackAllowed(t, a)
    /\ job' = RollbackJob(t, a, "user")
    /\ UNCHANGED <<journal, machine, mode, previews, rev, toClear, writer>>

RollbackOne ==
    /\ job.pc = "item"
    /\ \E c \in Classes(job.tx, job.act) :
        \/ /\ c = "original" /\ ~Fenced(job.tx, job.act)
           /\ MarkItemRolledBack(job.tx, job.act)
           /\ Release(TRUE)
        \/ /\ c = "applied" \/ (c = "original" /\ Fenced(job.tx, job.act))
           /\ IF MutationAllowed(job.tx)
              THEN /\ MarkItemRollingBack(job.tx, job.act)
                   /\ Goto("undoRead")
                   /\ UNCHANGED <<mode, rev>>
              ELSE Release(FALSE) /\ UNCHANGED journal
        \/ /\ c \in {"third", "unknown"}
           /\ RecordRecovery(job.tx, job.act, FALSE)
           /\ Release(FALSE)
    /\ UNCHANGED <<machine, previews, toClear, writer>>

-----------------------------------------------------------------------------
(* reconcile_now                                                           *)

\* What is loaded when the gate is taken: an item that is already
\* ROLLED_BACK is skipped by the loop and so left out of the queue.
ReconcileJob(by) ==
    [Idle EXCEPT !.op = "reconcile", !.by = by, !.pc = "next",
                 !.batch = LoadedTx(SessionActions),
                 !.queue = {i \in LoadedItems(SessionActions) : itemState[i] # "ROLLED_BACK"},
                 !.kept = {t \in LoadedTx(SessionActions) : txState[t] = "SUCCEEDED"}]

StartReconcile ==
    /\ mode = "running" /\ job.pc = "idle"
    /\ LoadedTx(SessionActions) # {}
    /\ job' = ReconcileJob("user")
    /\ UNCHANGED <<journal, machine, mode, previews, rev, toClear, writer>>

QueueOf(t) == {a \in Action : <<t, a>> \in job.queue}

\* Seeded fault: `continue` without taking the item off.
Bug_GiveUpAgain(t, a) ==
    /\ RecordRecovery(t, a, FALSE)
    /\ job' = [job EXCEPT !.recoveryRequired = TRUE]
    /\ UNCHANGED <<mode, rev>>

\* The item goes, with a recovery row.
GiveUp(t, a) ==
    /\ RecordRecovery(t, a, FALSE)
    /\ job' = [job EXCEPT !.queue = job.queue \ {<<t, a>>}, !.recoveryRequired = TRUE]
    /\ UNCHANGED <<mode, rev>>

\* PREPARED: no setter was called for the item.
Dispatched(t, a) == itemState[<<t, a>>] # "PREPARED"

ReconcileItem ==
    /\ job.pc = "next"
    /\ \E t \in Tx, a \in Action :
        /\ First(job.batch, t)
        /\ Last(QueueOf(t), a)
        /\ \E c \in Classes(t, a) :
            \/ /\ c # "original"
               /\ c \in {"third", "unknown"} \/ ~Dispatched(t, a)
               /\ GiveUp(t, a)
            \/ /\ c = "original" /\ ~Fenced(t, a)
               /\ MarkItemRolledBack(t, a)
               /\ job' = [job EXCEPT !.queue = job.queue \ {<<t, a>>}]
               /\ UNCHANGED <<mode, rev>>
            \/ /\ (c = "applied" /\ Dispatched(t, a)) \/ (c = "original" /\ Fenced(t, a))
               /\ ~MutationAllowed(t)
               /\ GiveUp(t, a)
            \/ /\ (c = "applied" /\ Dispatched(t, a)) \/ (c = "original" /\ Fenced(t, a))
               /\ MutationAllowed(t) /\ CanMarkTxRollingBack(t, a)
               /\ MarkTxRollingBack(t, a)
               /\ job' = [job EXCEPT !.pc = "undoRead", !.tx = t, !.act = a,
                                     !.queue = job.queue \ {<<t, a>>}]
               /\ UNCHANGED <<mode, rev>>
            \/ /\ (c = "applied" /\ Dispatched(t, a)) \/ (c = "original" /\ Fenced(t, a))
               /\ MutationAllowed(t) /\ ~CanMarkTxRollingBack(t, a)
               /\ Release(FALSE)
               /\ UNCHANGED journal
    /\ UNCHANGED <<machine, previews, toClear, writer>>

\* A transaction that was loaded as SUCCEEDED stays so.
ReconcileSettle ==
    /\ job.pc = "next"
    /\ \E t \in Tx :
        /\ First(job.batch, t)
        /\ QueueOf(t) = {}
        /\ SetTransactionState(t, IF t \in job.kept THEN "SUCCEEDED"
                                  ELSE FinalState(job.rollbackFailed, job.recoveryRequired))
        /\ job' = [job EXCEPT !.batch = job.batch \ {t}, !.tx = 0, !.act = 0,
                              !.rollbackFailed = FALSE, !.recoveryRequired = FALSE]
    /\ UNCHANGED <<machine, mode, previews, rev, toClear, writer>>

ReconcileEnd ==
    /\ job.pc = "next" /\ job.batch = {}
    /\ Release(TRUE)
    /\ UNCHANGED <<journal, machine, previews, toClear, writer>>

-----------------------------------------------------------------------------
(* revert_expired_trials: at boot, then every 500 ms                       *)

ExpiredTrials == {t \in Tx : trial[t] = "due"}

RevertScan ==
    /\ mode \in {"reverting", "running"} /\ rev.pc = "idle"
    /\ mode = "reverting" \/ ExpiredTrials # {}
    /\ rev' = [Resting EXCEPT !.pc = "pick", !.txs = ExpiredTrials]
    /\ UNCHANGED <<journal, machine, mode, previews, job, toClear, writer>>

\* pending_trial_items: a snapshot without the gate; empty for a trial that
\* was confirmed or cleared in the meantime.
RevertPick ==
    /\ rev.pc = "pick"
    /\ \E t \in rev.txs :
        LET items == IF trial[t] = "due" THEN ActionsOf(t) ELSE {} IN
        rev' = [rev EXCEPT !.pc = "items", !.txs = rev.txs \ {t}, !.tx = t,
                           !.acts = {a \in items : ItemRollbackAllowed(t, a)},
                           !.ok = \A a \in items : \/ ItemRollbackAllowed(t, a)
                                                   \/ itemState[<<t, a>>] = "ROLLED_BACK"]
    /\ UNCHANGED <<journal, machine, mode, previews, job, toClear, writer>>

\* Each item through rollback_item, which reads the item again.
RevertItem ==
    /\ rev.pc = "items" /\ job.pc = "idle"
    /\ \E a \in Action :
        /\ First(rev.acts, a)
        /\ IF ItemRollbackAllowed(rev.tx, a)
           THEN /\ job' = RollbackJob(rev.tx, a, "reverter")
                /\ rev' = [rev EXCEPT !.pc = "wait", !.acts = rev.acts \ {a}]
           ELSE /\ rev' = [rev EXCEPT !.acts = rev.acts \ {a}, !.ok = FALSE]
                /\ job' = job
    /\ UNCHANGED <<journal, machine, mode, previews, toClear, writer>>

\* Seeded fault: the trial is dropped whatever became of its items.
Bug_DropTrial(t) == FALSE

\* all_ok is false: some item was neither rolled back now nor before.
KeepTrial(t) == ~rev.ok

RevertClear ==
    /\ rev.pc = "items" /\ rev.acts = {}
    /\ IF KeepTrial(rev.tx) THEN UNCHANGED journal ELSE ClearTrialRow(rev.tx)
    /\ rev' = [rev EXCEPT !.pc = "pick", !.tx = 0, !.ok = TRUE]
    /\ UNCHANGED <<machine, mode, previews, job, toClear, writer>>

\* The boot sequence starts the commands whether or not the pass succeeded.
RevertEnd ==
    /\ rev.pc = "pick" /\ rev.txs = {}
    /\ rev' = Resting
    /\ mode' = "running"
    /\ UNCHANGED <<journal, machine, previews, job, toClear, writer>>

\* confirm_trial takes no gate.
Confirm(t) ==
    /\ mode = "running"
    /\ \A a \in ActionsOf(t) : a \notin TrialOnlyActions
    /\ ConfirmTrialRow(t)
    /\ UNCHANGED <<machine, mode, previews, job, rev, toClear, writer>>

-----------------------------------------------------------------------------
(* Boot, crash and the outside world                                       *)

\* initialize_engine: reconcile first, then the expired trials.
Boot ==
    /\ mode = "down"
    /\ mode' = "recovering"
    /\ job' = ReconcileJob("boot")
    /\ UNCHANGED <<journal, machine, previews, rev, toClear, writer>>

\* The process ends anywhere: what is not in the journal or in Windows is
\* gone, and so is what the process held for a session action.
Crash ==
    /\ mode # "down"
    /\ mode' = "down"
    /\ slot' = [s \in Slots |-> "empty"]
    /\ plan' = [s \in Slots |-> NoPlan]
    /\ seen' = [s \in Slots |-> NoPlan]
    /\ job' = Idle
    /\ rev' = Resting
    /\ toClear' = {}
    /\ os' = [a \in Action |-> IF a \in SessionActions THEN Initial ELSE os[a]]
    /\ writer' = [a \in Action |-> IF a \in SessionActions THEN 0 ELSE writer[a]]
    /\ UNCHANGED <<journal, foreign>>

\* A Windows update between two runs of the app changes the base build.
WindowsUpdate ==
    /\ mode = "down"
    /\ foreign' = {t \in Tx : txState[t] # "NONE"}
    /\ UNCHANGED <<journal, os, mode, previews, job, rev, toClear, writer>>

\* The user in Settings, a policy, another program.
OutsideWrite(a, v) ==
    /\ a \notin SessionActions
    /\ os[a] # v
    /\ os' = [os EXCEPT ![a] = v]
    /\ writer' = [writer EXCEPT ![a] = 0]
    /\ UNCHANGED <<journal, foreign, mode, previews, job, rev, toClear>>

\* 10 to 300 seconds after the commit was prepared.
HoldElapses(t) ==
    /\ trial[t] = "held"
    /\ trial' = [trial EXCEPT ![t] = "due"]
    /\ UNCHANGED <<txState, itemState, orig, want, applyOrder, pending>>
    /\ UNCHANGED <<machine, mode, previews, job, rev, toClear, writer>>

-----------------------------------------------------------------------------
CommitStep ==
    \/ Detect \/ Capture \/ Redetect \/ Prepare
    \/ StartApplying \/ ApplyRead \/ ApplyWrite \/ VerifyApplied \/ Succeed
    \/ ApplyFailed \/ JudgeFailed \/ CancelRest \/ UndoNext \/ SettleCommit

UndoStep == UndoRead \/ UndoWrite \/ UndoVerify \/ UndoFailed

ReconcileStep == ReconcileItem \/ ReconcileSettle \/ ReconcileEnd

RevertStep == RevertScan \/ RevertPick \/ RevertItem \/ RevertClear \/ RevertEnd

\* What the threads of the app do without being asked.
EngineStep == CommitStep \/ UndoStep \/ RollbackOne \/ ReconcileStep \/ RevertStep

UserStep ==
    \/ \E s \in Slots : \/ Preview(s) \/ PreviewExpires(s) \/ StartCommit(s)
                        \/ \E hold \in BOOLEAN : ClaimPreview(s, hold)
    \/ \E t \in Tx : Confirm(t) \/ ClearUndoneTrial(t)
    \/ \E t \in Tx, a \in Action : StartRollback(t, a)
    \/ StartReconcile

FaultStep ==
    \/ JobAborts \/ Crash \/ WindowsUpdate
    \/ \E a \in Action, v \in Values : OutsideWrite(a, v)

Next ==
    \/ EngineStep \/ UserStep \/ FaultStep \/ Boot
    \/ \E t \in Tx : HoldElapses(t)

Spec == Init /\ [][Next]_vars

-----------------------------------------------------------------------------
(* Properties                                                              *)

OwnedStates == {"APPLYING", "APPLIED", "APPLY_FAILED", "ROLLING_BACK",
                "ROLLBACK_FAILED", "RECOVERY_REQUIRED"}

\* While a value an apply wrote is still on the machine, and differs from the
\* backup, the journal never calls that item untouched or given back: there
\* is a backup and a state from which it can be restored, whatever crashed.
AppliedValueIsAccounted ==
    \A t \in Tx, a \in Action :
        writer[a] = t /\ os[a] # orig[<<t, a>>] => itemState[<<t, a>>] \in OwnedStates

\* A transaction the journal calls SUCCEEDED has no item whose apply was not
\* confirmed, even after crashes, single rollbacks and reconciles.
SucceededItemsWereVerified ==
    \A t \in Tx, a \in Action :
        txState[t] = "SUCCEEDED" =>
            itemState[<<t, a>>] \notin {"PREPARED", "APPLYING", "APPLY_FAILED"}

\* A transaction the journal calls ROLLED_BACK has every item given back.
RolledBackIsComplete ==
    \A t \in Tx, a \in Action :
        txState[t] = "ROLLED_BACK" => itemState[<<t, a>>] \in {"NONE", "ROLLED_BACK"}

ForwardPcs == {"applying", "applyRead", "applyWrite", "verify", "succeed"}

\* While one change goes forward nothing else is unfinished: no other
\* transaction is in flight and no item waits for recovery.
ForwardRunsAlone ==
    job.pc \in ForwardPcs =>
        /\ pending = {}
        /\ \A t \in Tx \ {job.tx} : ~InFlight(t)

\* Every item that is neither confirmed nor given back is found by the next
\* reconcile and keeps new changes out, wherever the process stopped.  Items
\* being rolled back one by one are the exception: see RollingBackIsEnumerated.
UnfinishedIsEnumerated ==
    \A t \in Tx, a \in Action :
        itemState[<<t, a>>] \in {"PREPARED", "APPLYING", "APPLY_FAILED",
                             "ROLLBACK_FAILED", "RECOVERY_REQUIRED"} =>
            Loads(t, a, SessionActions) /\ RecoveryPending

\* The same for an item whose rollback was started.
RollingBackIsEnumerated ==
    \A t \in Tx, a \in Action :
        itemState[<<t, a>>] = "ROLLING_BACK" /\ job.pc = "idle" =>
            \/ Loads(t, a, SessionActions)
            \/ RollbackAvailable(t, a)
            \/ trial[t] \in {"held", "due"}

\* No journal statement of an operation is refused by its WHERE clause: a
\* refusal would end a commit, its unwinding or a rollback half way, with the
\* setting written.  Reconcile is the exception: see RecoveryIsNotRefused.
StatementsNotRefused ==
    /\ job.pc = "applying" => CanMarkApplying(job.tx, job.act)
    /\ job.pc = "verify" => CanMarkApplied(job.tx, job.act)
    /\ job.pc = "applyFailed" => CanMarkApplyFailure(job.tx, job.act)
    /\ job.pc \in {"judge", "item", "undoVerify", "undoFailed"} =>
           CanMarkRolledBack(job.tx, job.act) /\ CanRecordRecovery(job.tx, job.act)
    /\ job.pc = "item" => CanMarkItemRollingBack(job.tx, job.act)
    /\ job.pc = "cancel" =>
           \A b \in Undispatched(job.tx, job.act) : CanMarkRolledBack(job.tx, b)
    /\ job.pc = "undo" => \A a \in job.todo : CanMarkTxRollingBack(job.tx, a)

\* An item whose setter may have been called is recorded as given back only
\* while the setting does hold its original: whether by a rollback, by the
\* unwinding of a commit, by recovery, or because it was found that way.
GivenBackHoldsOriginal ==
    [][\A t \in Tx, a \in Action :
         /\ itemState[<<t, a>>] \notin {"NONE", "PREPARED", "ROLLED_BACK"}
         /\ itemState'[<<t, a>>] = "ROLLED_BACK"
         => os[a] = orig[<<t, a>>]]_vars

\* Settings are given back in the reverse of the order they were applied in:
\* when a whole transaction is undone, an item starts to roll back only after
\* every item behind it was given back or set aside.
ReverseOrder ==
    [][\A t \in Tx, a \in Action :
         /\ itemState[<<t, a>>] # "ROLLING_BACK"
         /\ itemState'[<<t, a>>] = "ROLLING_BACK"
         /\ job.op # "rollback" /\ t \notin job.kept
         => \A b \in Action : a < b =>
              itemState'[<<t, b>>] \in {"NONE", "ROLLED_BACK", "ROLLBACK_FAILED",
                                    "RECOVERY_REQUIRED"}]_vars

\* A backup another Windows build took is never written back.
ForeignBackupIsNotRestored ==
    job.pc \in {"undoRead", "undoWrite", "undoVerify", "undoFailed"} =>
        job.tx \notin foreign

-----------------------------------------------------------------------------
(* What the documentation says and the code does not do                    *)

\* "PREPARED proves no OS primitive was dispatched. A matching intended value
\* therefore belongs to an external actor and must never be overwritten by
\* recovery": recovery restores only what some apply wrote or tried to write.
RecoveryRestoresOnlyDispatched ==
    [][\A a \in Action :
         /\ job.pc = "undoWrite" /\ job.act = a /\ os'[a] # os[a]
         => <<job.tx, a>> \in applyOrder]_vars

\* A trial whose deadline passed is dropped only when nothing of it is left.
UnrestoredTrialIsKept ==
    [][\A t \in Tx :
         trial[t] = "due" /\ trial'[t] = "none" =>
             \A a \in Action : itemState[<<t, a>>] \in {"NONE", "ROLLED_BACK"}]_vars

\* Once confirmed, a trial is not taken back by the deadline.
ConfirmedTrialStays ==
    [][\A t \in Tx, a \in Action :
         /\ trial[t] = "confirmed" /\ job.by = "reverter"
         /\ itemState[<<t, a>>] = "APPLIED"
         => itemState'[<<t, a>>] = "APPLIED"]_vars

\* The recovery at boot is never refused by the journal's own guards.
RecoveryIsNotRefused ==
    job.pc = "next" =>
        \A t \in Tx, a \in Action :
            /\ First(job.batch, t) /\ Last(QueueOf(t), a)
            /\ Dispatched(t, a) /\ MutationAllowed(t)
            /\ os[a] = want[<<t, a>>]
            => CanMarkTxRollingBack(t, a)

-----------------------------------------------------------------------------
(* The engine implements the promise                                       *)

SomeRow(t) == \E a \in Action : <<t, a>> \in pending

AllGivenBack(t) == \A a \in Action : itemState[<<t, a>>] \in {"NONE", "ROLLED_BACK"}

phaseOf(t) ==
    IF txState[t] = "NONE" THEN "none"
    ELSE IF InFlight(t) THEN "open"
    ELSE IF SomeRow(t) THEN "blocked"
    ELSE IF AllGivenBack(t) THEN "undone" ELSE "kept"

Promise == INSTANCE ReversibleChange WITH
    Change <- Tx,
    Part <- Action,
    phase <- [t \in Tx |-> phaseOf(t)],
    parts <- [t \in Tx |-> ActionsOf(t)],
    restored <- {i \in Items : itemState[i] = "ROLLED_BACK"}

PromiseKept == Promise!CSpec
============================================================================
