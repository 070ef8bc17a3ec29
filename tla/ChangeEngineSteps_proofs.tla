---------------------- MODULE ChangeEngineSteps_proofs ----------------------
(***************************************************************************)
(* What one step of ChangeEngine may do to the journal: nothing, prepare   *)
(* one transaction, move one item that was not given back, or settle one   *)
(* transaction.  Three properties of steps follow: an item is given back   *)
(* only at its original, items are undone last first, and the engine       *)
(* implements ReversibleChange.                                            *)
(***************************************************************************)
EXTENDS ChangeEngineSafety_proofs

SetAside == {"ROLLBACK_FAILED", "RECOVERY_REQUIRED"}

\* One item that was not given back goes to state s, with its recovery row.
ItemMoves(t, a, s) ==
    /\ ItemSet(t, a, s) /\ s \in ItemStates \ {"NONE"}
    /\ ~GivenBack(t, a)
    /\ \A u \in Tx : txState'[u] = txState[u] \/ (u = t /\ txState'[u] # "NONE")
    /\ \A i \in Items : i # <<t, a>> => (i \in pending' <=> i \in pending)

\* When an item may be called given back, and when its restore may begin.
GivesBackRightly(t, a, s) ==
    s = "ROLLED_BACK" => itemState[<<t, a>>] = "PREPARED" \/ os[a] = orig[<<t, a>>]

UndoesInOrder(t, a, s) ==
    s = "ROLLING_BACK" /\ job.op # "rollback" /\ t \notin job.kept =>
        \A b \in Action : a < b => GivenBack(t, b) \/ itemState[<<t, b>>] \in SetAside

Moves == \E t \in Tx, a \in Action, s \in ItemStates :
            ItemMoves(t, a, s) /\ GivesBackRightly(t, a, s) /\ UndoesInOrder(t, a, s)

SettledStates == TxStates \ (InFlightStates \union {"NONE"})

\* A transaction whose items were judged gets its final state.
Settles ==
    \E t \in Tx, s \in SettledStates :
        /\ txState[t] # "NONE"
        /\ txState' = [txState EXCEPT ![t] = s]
        /\ UNCHANGED <<itemState, pending>>

\* A transaction gets its rows while nothing else is unfinished.
Begins ==
    \E t \in Tx :
        /\ ~RecoveryPending
        /\ txState[t] = "NONE"
        /\ \A b \in Action : itemState'[<<t, b>>] \in {"NONE", "PREPARED"}
        /\ \E b \in Action : itemState'[<<t, b>>] = "PREPARED"
        /\ \A u \in Tx \ {t}, b \in Action : itemState'[<<u, b>>] = itemState[<<u, b>>]
        /\ txState' = [txState EXCEPT ![t] = "PREPARED"] /\ UNCHANGED pending

JournalRests == UNCHANGED <<txState, itemState, pending>>

StepShape == JournalRests \/ Moves \/ Settles \/ Begins

\* The transaction that is about to be settled has its rows.
StartedOK ==
    /\ job.pc \in {"succeed", "settle"} => txState[job.tx] # "NONE"
    /\ Reconciling => \A t \in job.batch : txState[t] # "NONE"

-----------------------------------------------------------------------------
\* A statement about one item, as far as the journal allows it at all.
LEMMA StatementMoves ==
    ASSUME IInv, NEW t \in Tx, NEW a \in Action,
           \/ MarkItemApplying(t, a) \/ MarkItemApplied(t, a) \/ MarkApplyFailure(t, a)
           \/ MarkItemRollingBack(t, a) /\ job.op = "rollback"
           \/ MarkTxRollingBack(t, a) /\ UndoesInOrder(t, a, "ROLLING_BACK")
           \/ RecordRecovery(t, a, TRUE) \/ RecordRecovery(t, a, FALSE)
           \/ MarkItemRolledBack(t, a) /\ GivesBackRightly(t, a, "ROLLED_BACK")
    PROVE  Moves
<1>0. JournalTypeOK /\ JournalOK
  BY DEF IInv, WellTyped, TypeOK
<1>1. ASSUME NEW s \in ItemStates \ {"NONE"},
             itemState' = [itemState EXCEPT ![<<t, a>>] = s], ~GivenBack(t, a),
             GivesBackRightly(t, a, s), UndoesInOrder(t, a, s),
             \/ txState' = txState
             \/ \E x \in TxStates \ {"NONE"} : txState' = [txState EXCEPT ![t] = x],
             \/ pending' = pending
             \/ pending' = pending \union {<<t, a>>}
             \/ pending' = pending \ {<<t, a>>}
      PROVE  Moves
  <2>1. ItemSet(t, a, s)
    BY <1>0, <1>1, OneItem
  <2>2. \A u \in Tx : txState'[u] = txState[u] \/ (u = t /\ txState'[u] # "NONE")
    BY <1>0, <1>1 DEF JournalTypeOK
  <2>3. \A i \in Items : i # <<t, a>> => (i \in pending' <=> i \in pending)
    BY <1>1
  <2>4. ItemMoves(t, a, s)
    BY <1>1, <2>1, <2>2, <2>3 DEF ItemMoves
  <2> QED
    BY <1>1, <2>4 DEF Moves
<1>2. CASE MarkItemApplying(t, a)
  BY <1>1, <1>2 DEF MarkItemApplying, CanMarkApplying, ItemStates, TxStates, GivenBack,
                    GivesBackRightly, UndoesInOrder
<1>3. CASE MarkItemApplied(t, a) \/ MarkApplyFailure(t, a)
  BY <1>1, <1>3
     DEF MarkItemApplied, CanMarkApplied, MarkApplyFailure, CanMarkApplyFailure,
         ItemStates, GivenBack, GivesBackRightly, UndoesInOrder
<1>4. CASE MarkItemRollingBack(t, a) /\ job.op = "rollback"
  BY <1>1, <1>4 DEF MarkItemRollingBack, CanMarkItemRollingBack, ItemStates, GivenBack,
                    GivesBackRightly, UndoesInOrder
<1>5. CASE MarkTxRollingBack(t, a) /\ UndoesInOrder(t, a, "ROLLING_BACK")
  BY <1>1, <1>5
     DEF MarkTxRollingBack, CanMarkTxRollingBack, CanMarkItemRollingBack, ItemStates,
         TxStates, GivenBack, GivesBackRightly
<1>6. CASE RecordRecovery(t, a, TRUE) \/ RecordRecovery(t, a, FALSE)
  BY <1>1, <1>6
     DEF RecordRecovery, CanRecordRecovery, ItemStates, GivenBack, GivesBackRightly,
         UndoesInOrder
<1>7. CASE MarkItemRolledBack(t, a) /\ GivesBackRightly(t, a, "ROLLED_BACK")
  BY <1>1, <1>7
     DEF MarkItemRolledBack, CanMarkRolledBack, ItemStates, GivenBack, UndoesInOrder
<1> QED
  BY <1>2, <1>3, <1>4, <1>5, <1>6, <1>7

\* A read that says "original" is right.
LEMMA OriginalIsOriginal ==
    ASSUME NEW t \in Tx, NEW a \in Action, "original" \in Classes(t, a)
    PROVE  GivesBackRightly(t, a, "ROLLED_BACK")
  BY DEF Classes, GivesBackRightly

\* A commit and its unwinding.
LEMMA CommitShape ==
    ASSUME IInv, EndsOK, StartedOK, CommitStep
    PROVE  StepShape
<1> USE DEF StartPcs, ApplyPcs, WorkPcs, EndPcs, UndoPcs
<1>0. /\ job \in Jobs /\ JournalTypeOK /\ JournalOK /\ HolderOK
      /\ SiblingsOK /\ UnwindingOK /\ AloneOK
  BY DEF IInv, WellTyped, TypeOK, StepOK, EndsOK
<1>1. CASE \/ Detect \/ Capture \/ Redetect \/ ApplyRead \/ ApplyWrite
                  \/ UNCHANGED journal
  BY <1>1 DEF Detect, Capture, Redetect, ApplyRead, ApplyWrite, Abort, journal, StepShape,
              JournalRests
<1>2. CASE Prepare
  <2>1. PICK t \in Tx, a \in Action :
          IsNextTx(t) /\ First(Planned(job.plan), a)
          /\ RecordPrepared(t, job.plan, job.draft, job.hold)
    BY <1>2 DEF Prepare
  <2>2. ~RecoveryPending
    BY <1>0, <1>2 DEF Prepare, AloneOK
  <2>3. \A b \in Action : itemState[<<t, b>>] = "NONE"
    BY <1>0, <2>1 DEF JournalOK, IsNextTx
  <2>4. Begins
    <3>1. \A b \in Action : itemState'[<<t, b>>] \in {"NONE", "PREPARED"}
      BY <2>1, <2>3 DEF RecordPrepared, Items
    <3>2. itemState'[<<t, a>>] = "PREPARED"
      BY <2>1 DEF RecordPrepared, Items, First, Planned
    <3>3. \A u \in Tx \ {t}, b \in Action : itemState'[<<u, b>>] = itemState[<<u, b>>]
      BY <2>1 DEF RecordPrepared, Items
    <3> QED
      BY <2>1, <2>2, <3>1, <3>2, <3>3 DEF Begins, RecordPrepared, IsNextTx
  <2> QED
    BY <2>4 DEF StepShape
<1>3. CASE StartApplying \/ VerifyApplied \/ ApplyFailed
  <2>1. job.tx \in Tx /\ job.act \in Action
    BY <1>0, <1>3 DEF StartApplying, VerifyApplied, ApplyFailed, HolderOK
  <2> QED
    BY <1>1, <1>3, <2>1, StatementMoves
       DEF StartApplying, VerifyApplied, ApplyFailed, StepShape
<1>4. CASE Succeed \/ SettleCommit
  <2>1. job.tx \in Tx /\ txState[job.tx] # "NONE"
    BY <1>0, <1>4 DEF Succeed, SettleCommit, HolderOK, StartedOK
  <2>2. PICK s \in SettledStates : SetTransactionState(job.tx, s)
    BY <1>4 DEF Succeed, SettleCommit, FinalState, SettledStates, TxStates, InFlightStates
  <2> QED
    BY <2>1, <2>2 DEF SetTransactionState, Settles, StepShape
<1>5. CASE JudgeFailed
  <2>1. job.tx \in Tx /\ job.act \in Action
    BY <1>0, <1>5 DEF JudgeFailed, HolderOK
  <2> QED
    BY <1>1, <1>5, <2>1, StatementMoves, OriginalIsOriginal DEF JudgeFailed, StepShape
<1>6. CASE CancelRest /\ ~UNCHANGED journal
  <2>1. job.pc = "cancel" /\ job.tx \in Tx /\ job.act \in Action
    BY <1>0, <1>6 DEF CancelRest, HolderOK
  <2>2. PICK b \in Action : /\ First(Undispatched(job.tx, job.act), b)
                            /\ MarkItemRolledBack(job.tx, b)
    BY <1>6 DEF CancelRest
  <2>3. itemState[<<job.tx, b>>] = "PREPARED"
    BY <1>0, <2>1, <2>2 DEF First, Undispatched, After, ActionsOf, SiblingsOK, Action
  <2> QED
    BY <2>1, <2>2, <2>3, StatementMoves DEF GivesBackRightly, StepShape
<1>7. CASE UndoNext /\ ~UNCHANGED journal
  <2>1. job.tx \in Tx /\ job.todo \subseteq Action
    BY <1>0, <1>7 DEF UndoNext, HolderOK, Jobs
  <2>2. PICK a \in Action :
          /\ NextToUndo(job.todo, a)
          /\ MarkTxRollingBack(job.tx, a) \/ RecordRecovery(job.tx, a, FALSE)
    BY <1>7 DEF UndoNext
  <2>3. UndoesInOrder(job.tx, a, "ROLLING_BACK")
    <3>1. \A b \in Action : b \in job.todo \/ Ended(job.tx, b)
      BY <1>0, <1>7 DEF UndoNext, UnwindingOK, Unwinding
    <3>2. \A b \in Action : a < b => b \notin job.todo
      BY <2>2 DEF NextToUndo, Last, Action
    <3> QED
      BY <3>1, <3>2 DEF UndoesInOrder, Ended, SetAside
  <2> QED
    BY <2>1, <2>2, <2>3, StatementMoves DEF StepShape
<1> QED
  BY <1>1, <1>2, <1>3, <1>4, <1>5, <1>6, <1>7 DEF CommitStep

\* A restore and a single rollback.
LEMMA UndoShape ==
    ASSUME IInv, UndoStep \/ RollbackOne
    PROVE  StepShape
<1> USE DEF StartPcs, ApplyPcs, WorkPcs, EndPcs, UndoPcs
<1>1. job.tx \in Tx /\ job.act \in Action
  BY DEF UndoStep, UndoRead, UndoWrite, UndoVerify, UndoFailed, RollbackOne, HolderOK,
         IInv, WellTyped
<1>2. CASE UNCHANGED journal
  BY <1>2 DEF journal, StepShape, JournalRests
<1>3. CASE UndoVerify \/ UndoFailed
  <2>1. RestoreVerified(job.tx, job.act)
            => GivesBackRightly(job.tx, job.act, "ROLLED_BACK")
    BY DEF RestoreVerified, GivesBackRightly
  <2> QED
    BY <1>1, <1>3, <2>1, StatementMoves DEF UndoVerify, UndoFailed, StepShape
<1>4. CASE RollbackOne
  <2>1. job.op = "rollback"
    BY <1>4 DEF RollbackOne, HolderOK, IInv, WellTyped
  <2> QED
    BY <1>1, <1>2, <1>4, <2>1, StatementMoves, OriginalIsOriginal
       DEF RollbackOne, StepShape
<1> QED
  BY <1>2, <1>3, <1>4 DEF UndoStep, UndoRead, UndoWrite

\* A recovery.
LEMMA ReconcileShape ==
    ASSUME IInv, EndsOK, StartedOK, ReconcileStep
    PROVE  StepShape
<1>0. /\ job \in Jobs /\ BatchOK /\ job.pc = "next" /\ job.batch \subseteq Tx
  BY DEF IInv, WellTyped, TypeOK, EndsOK, ReconcileStep, ReconcileItem, ReconcileSettle,
         ReconcileEnd, Jobs
<1>1. CASE UNCHANGED journal
  BY <1>1 DEF journal, StepShape, JournalRests
<1>2. CASE ReconcileItem /\ ~UNCHANGED journal
  <2>1. PICK t \in Tx, a \in Action :
          /\ First(job.batch, t) /\ Last(QueueOf(t), a)
          /\ \/ RecordRecovery(t, a, FALSE)
             \/ MarkItemRolledBack(t, a) /\ "original" \in Classes(t, a)
             \/ MarkTxRollingBack(t, a)
    BY ZenonT(60), <1>2 DEF ReconcileItem, GiveUp
  <2>2. UndoesInOrder(t, a, "ROLLING_BACK")
    <3>1. CASE t \in job.kept
      BY <3>1 DEF UndoesInOrder
    <3>2. CASE t \notin job.kept
      <4>1. \A b \in Action : <<t, b>> \in job.queue \/ Ended(t, b)
        BY <1>0, <2>1, <3>2 DEF BatchOK, Reconciling, First, Ended, UndoPcs
      <4>2. \A b \in Action : a < b => <<t, b>> \notin job.queue
        BY <2>1 DEF Last, QueueOf, Action
      <4> QED
        BY <4>1, <4>2 DEF UndoesInOrder, Ended, SetAside
    <3> QED
      BY <3>1, <3>2
  <2> QED
    BY <2>1, <2>2, StatementMoves, OriginalIsOriginal DEF StepShape
<1>3. CASE ReconcileSettle
  <2>1. PICK t \in Tx, s \in SettledStates : First(job.batch, t)
            /\ SetTransactionState(t, s)
    BY <1>3 DEF ReconcileSettle, FinalState, SettledStates, TxStates, InFlightStates
  <2>2. txState[t] # "NONE"
    BY <1>0, <2>1 DEF StartedOK, Reconciling, First
  <2> QED
    BY <2>1, <2>2 DEF SetTransactionState, Settles, StepShape
<1> QED
  BY <1>1, <1>2, <1>3 DEF ReconcileStep, ReconcileEnd

\* Everybody else.
LEMMA NextShape ==
    ASSUME IInv, EndsOK, StartedOK, [Next]_vars
    PROVE  StepShape
<1>1. CASE CommitStep \/ UndoStep \/ RollbackOne \/ ReconcileStep
  BY <1>1, CommitShape, UndoShape, ReconcileShape
<1>2. CASE JournalRests
  BY <1>2 DEF StepShape
<1>3. CASE \/ RevertStep \/ JobAborts \/ Crash \/ WindowsUpdate \/ StartReconcile \/ Boot
           \/ UNCHANGED vars
           \/ \E a \in Action, v \in Values : OutsideWrite(a, v)
           \/ \E t \in Tx, a \in Action : StartRollback(t, a)
  BY <1>2, <1>3
     DEF JournalRests, RevertStep, RevertScan, RevertPick, RevertItem, RevertClear,
         RevertEnd, ClearTrialRow, JobAborts, Abort, Crash, WindowsUpdate,
         StartReconcile, Boot, OutsideWrite, StartRollback, journal, vars
<1>4. CASE \/ \E s \in Slots : \/ Preview(s) \/ PreviewExpires(s) \/ StartCommit(s)
                               \/ \E hold \in BOOLEAN : ClaimPreview(s, hold)
           \/ \E t \in Tx : Confirm(t) \/ ClearUndoneTrial(t) \/ HoldElapses(t)
  BY <1>2, <1>4
     DEF JournalRests, Preview, PreviewExpires, StartCommit, ClaimPreview, Confirm,
         ClearUndoneTrial, HoldElapses, ConfirmTrialRow, ClearTrialRow, journal
<1> QED
  BY <1>1, <1>3, <1>4 DEF Next, EngineStep, UserStep, FaultStep

-----------------------------------------------------------------------------
\* No transaction loses its rows.
LEMMA RowsStayPut ==
    ASSUME JournalTypeOK, StepShape
    PROVE  \A t \in Tx : txState[t] # "NONE" => txState'[t] # "NONE"
  BY DEF StepShape, JournalRests, Moves, ItemMoves, Settles, SettledStates, Begins,
     JournalTypeOK

\* A commit settles the transaction it prepared.
LEMMA CommitKeepsStarted ==
    ASSUME IInv, EndsOK, StartedOK, HolderOK', CommitStep
    PROVE  StartedOK'
<1> USE DEF StartPcs, ApplyPcs, WorkPcs, EndPcs, UndoPcs
<1>0. /\ job \in Jobs /\ JournalTypeOK /\ JournalOK /\ HolderOK /\ TransactionOK
      /\ job.op = "commit" /\ \A t \in Tx : txState[t] # "NONE" => txState'[t] # "NONE"
  BY CommitShape, RowsStayPut
     DEF IInv, WellTyped, TypeOK, StepOK, CommitStep, Detect, Capture, Redetect,
         Prepare, StartApplying, ApplyRead, ApplyWrite, VerifyApplied, Succeed,
         ApplyFailed, JudgeFailed, CancelRest, UndoNext, SettleCommit, HolderOK
<1>1. ASSUME job'.op \in {"commit", "idle"},
             job'.pc \in {"succeed", "settle"}
                 => job'.tx \in Tx /\ txState'[job'.tx] # "NONE"
      PROVE  StartedOK'
  BY <1>1 DEF StartedOK, Reconciling, HolderOK
<1>2. CASE Abort \/ Succeed \/ SettleCommit
  <2>1. job'.op = "idle" /\ job'.pc = "idle"
    BY <1>2 DEF Abort, Succeed, SettleCommit, Release, Idle
  <2> QED
    BY <1>1, <2>1
<1>3. CASE ~Abort /\ (Detect \/ Capture \/ Redetect \/ Prepare)
  <2>1. job'.op = "commit" /\ job'.pc \notin {"succeed", "settle"}
    BY ZenonT(60), <1>0, <1>3 DEF Detect, Capture, Redetect, Prepare, Goto, Idle, Jobs
  <2> QED
    BY <1>1, <2>1
<1>4. CASE StartApplying \/ ApplyRead \/ ApplyWrite \/ ApplyFailed \/ JudgeFailed
               \/ CancelRest
  <2>1. job'.op = "commit" /\ job'.pc \notin {"succeed", "settle"}
    BY <1>0, <1>4
       DEF StartApplying, ApplyRead, ApplyWrite, ApplyFailed, JudgeFailed, CancelRest,
           Goto, Jobs
  <2> QED
    BY <1>1, <2>1
<1>5. CASE VerifyApplied \/ UndoNext
  <2>1. job'.op = "commit" /\ job'.tx = job.tx
    BY <1>0, <1>5 DEF VerifyApplied, UndoNext, Goto, Jobs
  <2>2. job.tx \in Tx /\ txState[job.tx] # "NONE"
    BY <1>0, <1>5 DEF VerifyApplied, UndoNext, HolderOK, TransactionOK, Unwinding
  <2> QED
    BY <1>0, <1>1, <2>1, <2>2
<1> QED
  BY <1>2, <1>3, <1>4, <1>5 DEF CommitStep

\* Every step keeps it.
LEMMA NextKeepsStarted ==
    ASSUME IInv, EndsOK, StartedOK, [Next]_vars
    PROVE  StartedOK'
<1> USE DEF StartPcs, ApplyPcs, WorkPcs, EndPcs, UndoPcs
<1>0. /\ job \in Jobs /\ JournalOK /\ HolderOK /\ HolderOK'
      /\ \A t \in Tx : txState[t] # "NONE" => txState'[t] # "NONE"
  BY NextTypes, NextShape, RowsStayPut DEF IInv, WellTyped, TypeOK
<1>1. CASE CommitStep
  BY <1>0, <1>1, CommitKeepsStarted
<1>2. ASSUME job'.pc \notin {"succeed", "settle", "next"}, job'.op # "reconcile"
      PROVE  StartedOK'
  BY <1>2 DEF StartedOK, Reconciling
<1>3. CASE job'.pc = "idle"
  BY <1>3 DEF StartedOK, Reconciling
<1>4. CASE job' = job
  <2>1. job.pc \in {"succeed", "settle"} => job.tx \in Tx
    BY <1>0 DEF HolderOK
  <2> QED
    BY <1>0, <1>4, <2>1 DEF StartedOK, Reconciling, Jobs
<1>5. ASSUME Reconciling, job'.batch \subseteq job.batch,
          job'.pc \notin {"succeed", "settle"}
      PROVE  StartedOK'
  BY <1>0, <1>5 DEF StartedOK, Jobs
<1>6. CASE UndoStep
  <2>1. job.pc \in UndoPcs /\ job.op \in {"commit", "rollback", "reconcile"}
    BY <1>0, <1>6 DEF UndoStep, UndoRead, UndoWrite, UndoVerify, UndoFailed, HolderOK
  <2>2. \/ job'.pc = "idle"
        \/ /\ job'.op = job.op /\ job'.batch = job.batch
                  /\ job'.pc \notin {"succeed", "settle"}
           /\ job.op # "reconcile" => job'.pc # "next"
    <3>1. CASE UndoRead \/ UndoWrite
      BY <1>0, <2>1, <3>1 DEF UndoRead, UndoWrite, Goto, Jobs
    <3>2. CASE \E failed \in BOOLEAN : Resume(failed)
      <4>1. PICK failed \in BOOLEAN : Resume(failed)
        BY <3>2
      <4>2. CASE job.op = "rollback"
        BY <4>1, <4>2 DEF Resume, Release, Idle
      <4>3. CASE job.op # "rollback"
        <5>1. job' = [job EXCEPT !.pc = IF job.op = "commit" THEN "undo" ELSE "next",
                                 !.rollbackFailed = job.rollbackFailed \/ failed]
          BY <4>1, <4>3 DEF Resume
        <5> QED
          BY <1>0, <2>1, <4>3, <5>1 DEF Jobs
      <4> QED
        BY <4>2, <4>3
    <3> QED
      BY <1>6, <3>1, <3>2 DEF UndoStep, UndoVerify, UndoFailed
  <2> QED
    BY <1>2, <1>3, <1>5, <2>1, <2>2 DEF Reconciling
<1>7. CASE RollbackOne
  <2>1. job' = Idle \/ Goto("undoRead")
    BY <1>7 DEF RollbackOne, Release
  <2>2. job.op = "rollback"
    BY <1>0, <1>7 DEF RollbackOne, HolderOK
  <2> QED
    BY <1>0, <1>2, <2>1, <2>2 DEF Idle, Goto, Jobs
<1>8. CASE RevertItem \/ \E t \in Tx, a \in Action : StartRollback(t, a)
  <2>1. job' = job \/ (job'.pc = "item" /\ job'.op = "rollback")
    BY <1>8 DEF RevertItem, StartRollback, RollbackJob, Idle
  <2> QED
    BY <1>2, <1>4, <2>1
<1>9. CASE ReconcileStep
  <2>1. job.pc = "next"
    BY <1>9 DEF ReconcileStep, ReconcileItem, ReconcileSettle, ReconcileEnd
  <2>2. \/ job'.pc = "idle"
        \/ job'.batch \subseteq job.batch /\ job'.pc \in {"next", "undoRead"}
    <3>1. CASE ReconcileItem
      <4>1. PICK t \in Tx, a \in Action :
              \/ GiveUp(t, a)
              \/ job' = [job EXCEPT !.queue = job.queue \ {<<t, a>>}]
              \/ job' = [job EXCEPT !.pc = "undoRead", !.tx = t, !.act = a,
                                    !.queue = job.queue \ {<<t, a>>}]
              \/ Release(FALSE)
        BY ZenonT(60), <3>1 DEF ReconcileItem
      <4>2. CASE GiveUp(t, a)
        BY <1>0, <2>1, <4>2 DEF GiveUp, Jobs
      <4>3. CASE job' = [job EXCEPT !.queue = job.queue \ {<<t, a>>}]
        BY <1>0, <2>1, <4>3 DEF Jobs
      <4>4. CASE job' = [job EXCEPT !.pc = "undoRead", !.tx = t, !.act = a,
                                    !.queue = job.queue \ {<<t, a>>}]
        BY <1>0, <4>4 DEF Jobs
      <4>5. CASE Release(FALSE)
        BY <4>5 DEF Release, Idle
      <4> QED
        BY <4>1, <4>2, <4>3, <4>4, <4>5
    <3>2. CASE ReconcileSettle
      <4>1. PICK t \in Tx :
              job' = [job EXCEPT !.batch = job.batch \ {t}, !.tx = 0, !.act = 0,
                                 !.rollbackFailed = FALSE, !.recoveryRequired = FALSE]
        BY <3>2 DEF ReconcileSettle
      <4> QED
        BY <1>0, <2>1, <4>1 DEF Jobs
    <3>3. CASE ReconcileEnd
      BY <3>3 DEF ReconcileEnd, Release, Idle
    <3> QED
      BY <1>9, <3>1, <3>2, <3>3 DEF ReconcileStep
  <2> QED
    BY <1>3, <1>5, <2>1, <2>2 DEF Reconciling
<1>10. CASE StartReconcile \/ Boot
  <2>1. job'.pc = "next" /\ job'.batch = LoadedTx(SessionActions)
    BY <1>10 DEF StartReconcile, Boot, ReconcileJob, Idle
  <2>2. \A t \in LoadedTx(SessionActions) : t \in Tx /\ txState[t] # "NONE"
    BY <1>0 DEF LoadedTx, Loads, JournalOK
  <2> QED
    BY <1>0, <2>1, <2>2 DEF StartedOK
<1>11. CASE \E s \in Slots : StartCommit(s)
  <2>1. PICK s \in Slots : StartCommit(s)
    BY <1>11
  <2>2. CASE RecoveryPending
    BY <1>4, <2>1, <2>2 DEF StartCommit
  <2>3. CASE ~RecoveryPending
    <3>1. job'.pc = "detect" /\ job'.op = "commit"
      BY <2>1, <2>3 DEF StartCommit, Idle
    <3> QED
      BY <1>2, <3>1
  <2> QED
    BY <2>2, <2>3
<1>12. CASE \/ RevertScan \/ RevertPick \/ RevertClear \/ RevertEnd \/ JobAborts \/ Crash
            \/ WindowsUpdate \/ UNCHANGED vars
            \/ \E a \in Action, v \in Values : OutsideWrite(a, v)
            \/ \E s \in Slots : \/ Preview(s) \/ PreviewExpires(s)
                                \/ \E hold \in BOOLEAN : ClaimPreview(s, hold)
            \/ \E t \in Tx : Confirm(t) \/ ClearUndoneTrial(t) \/ HoldElapses(t)
  <2>1. job' = job \/ job' = Idle
    BY <1>12
       DEF RevertScan, RevertPick, RevertClear, RevertEnd, JobAborts, Abort, Release,
           Crash, WindowsUpdate, OutsideWrite, Preview, PreviewExpires, ClaimPreview,
           Confirm, ClearUndoneTrial, HoldElapses, vars
  <2> QED
    BY <1>3, <1>4, <2>1 DEF Idle
<1> QED
  BY <1>1, <1>6, <1>7, <1>8, <1>9, <1>10, <1>11, <1>12
     DEF Next, EngineStep, RevertStep, UserStep, FaultStep

\* The three invariants together, for the properties of steps.
SInv == IInv /\ EndsOK /\ StartedOK

\* All that the step properties rest on, of every reachable state.
LEMMA StepInvariant == Spec => []SInv
<1>1. Init => SInv
  BY InitInvariant, InitEnds DEF Init, Idle, SInv, StartedOK, Reconciling, UndoPcs
<1>2. SInv /\ [Next]_vars => SInv'
  BY NextTypes, NextKeeps, NextKeepsEnds, NextKeepsStarted DEF SInv, IInv
<1> QED
  BY <1>1, <1>2, PTL DEF Spec

-----------------------------------------------------------------------------
\* An item whose setter may have been called is recorded as given back only
\* while its setting holds the original.
THEOREM GivenBackIsOriginal == Spec => GivenBackHoldsOriginal
<1> DEFINE Held == \A t \in Tx, a \in Action :
          /\ itemState[<<t, a>>] \notin {"NONE", "PREPARED", "ROLLED_BACK"}
          /\ itemState'[<<t, a>>] = "ROLLED_BACK"
          => os[a] = orig[<<t, a>>]
<1>1. SInv /\ [Next]_vars => [Held]_vars
  <2> SUFFICES ASSUME SInv, [Next]_vars
               PROVE  Held
    OBVIOUS
  <2>1. StepShape
    BY NextShape DEF SInv
  <2>2. CASE JournalRests \/ Settles
    BY <2>2 DEF JournalRests, Settles
  <2>3. CASE Moves
    BY <2>3 DEF Moves, ItemMoves, ItemSet, GivesBackRightly
  <2>4. CASE Begins
    BY <2>4 DEF Begins
  <2> QED
    BY <2>1, <2>2, <2>3, <2>4 DEF StepShape
<1> QED
  BY <1>1, StepInvariant, PTL DEF GivenBackHoldsOriginal, Spec

\* A transaction is undone from its last item to its first.
THEOREM UndoneLastFirst == Spec => ReverseOrder
<1> DEFINE Ordered == \A t \in Tx, a \in Action :
         /\ itemState[<<t, a>>] # "ROLLING_BACK"
         /\ itemState'[<<t, a>>] = "ROLLING_BACK"
         /\ job.op # "rollback" /\ t \notin job.kept
         => \A b \in Action : a < b =>
              itemState'[<<t, b>>] \in {"NONE", "ROLLED_BACK", "ROLLBACK_FAILED",
                                    "RECOVERY_REQUIRED"}
<1>1. SInv /\ [Next]_vars => [Ordered]_vars
  <2> SUFFICES ASSUME SInv, [Next]_vars
               PROVE  Ordered
    OBVIOUS
  <2>1. StepShape
    BY NextShape DEF SInv
  <2>2. CASE JournalRests \/ Settles
    BY <2>2 DEF JournalRests, Settles
  <2>3. CASE Moves
    <3>1. PICK t \in Tx, a \in Action, s \in ItemStates :
            ItemSet(t, a, s) /\ UndoesInOrder(t, a, s)
      BY <2>3 DEF Moves, ItemMoves
    <3>2. ASSUME NEW u \in Tx, NEW c \in Action,
                 itemState[<<u, c>>] # "ROLLING_BACK",
                     itemState'[<<u, c>>] = "ROLLING_BACK",
                 job.op # "rollback", u \notin job.kept, NEW b \in Action, c < b
          PROVE  itemState'[<<u, b>>] \in {"NONE", "ROLLED_BACK", "ROLLBACK_FAILED",
                                           "RECOVERY_REQUIRED"}
      <4>1. u = t /\ c = a /\ s = "ROLLING_BACK"
        BY <3>1, <3>2 DEF ItemSet
      <4>2. GivenBack(t, b) \/ itemState[<<t, b>>] \in SetAside
        BY <3>1, <3>2, <4>1 DEF UndoesInOrder
      <4>3. itemState'[<<t, b>>] = itemState[<<t, b>>]
        BY <3>1, <3>2, <4>1 DEF ItemSet, Action
      <4> QED
        BY <4>1, <4>2, <4>3 DEF GivenBack, SetAside
    <3> QED
      BY <3>2
  <2>4. CASE Begins
    BY <2>4 DEF Begins
  <2> QED
    BY <2>1, <2>2, <2>3, <2>4 DEF StepShape
<1> QED
  BY <1>1, StepInvariant, PTL DEF ReverseOrder, Spec

-----------------------------------------------------------------------------
(* The engine implements ReversibleChange                                  *)

phases == [t \in Tx |-> phaseOf(t)]
partsOf == [t \in Tx |-> ActionsOf(t)]
given == {i \in Items : itemState[i] = "ROLLED_BACK"}

\* What the mapping makes of a transaction with rows.
LEMMA PhaseSays ==
    ASSUME NEW t \in Tx, txState[t] # "NONE"
    PROVE  /\ phaseOf(t) \in {"open", "blocked", "undone", "kept"}
           /\ phaseOf(t) = "undone" => AllGivenBack(t)
           /\ ~AllGivenBack(t) => phaseOf(t) # "undone"
  BY DEF phaseOf

\* A step that leaves the journal's states alone is a stuttering step.
LEMMA RestIsStutter ==
    ASSUME JournalRests
    PROVE  phases' = phases /\ partsOf' = partsOf /\ given' = given
<1>1. \A t \in Tx : phaseOf(t)' = phaseOf(t)
  BY DEF JournalRests, phaseOf, InFlight, SomeRow, AllGivenBack
<1>2. \A t \in Tx : ActionsOf(t)' = ActionsOf(t)
  BY DEF JournalRests, ActionsOf
<1> QED
  BY <1>1, <1>2 DEF phases, partsOf, given, JournalRests

\* One item that moves is work on its change, which was not undone yet.
LEMMA MoveIsWork ==
    ASSUME JournalTypeOK, JournalOK, Moves
    PROVE  \E c \in Tx : Promise!Work(c)
<1>1. PICK t \in Tx, a \in Action, s \in ItemStates : ItemMoves(t, a, s)
  BY DEF Moves
<1>2. /\ ItemSet(t, a, s) /\ s # "NONE"
             /\ itemState[<<t, a>>] \notin {"NONE", "ROLLED_BACK"}
      /\ txState[t] # "NONE" /\ txState'[t] # "NONE"
  BY <1>1 DEF ItemMoves, GivenBack, JournalOK
<1>3. phaseOf(t) \in {"open", "blocked", "kept"}
  BY <1>2, PhaseSays DEF AllGivenBack
<1>4. /\ phaseOf(t)' \in {"open", "blocked", "undone", "kept"}
      /\ phaseOf(t)' = "undone" => AllGivenBack(t)'
  BY <1>2 DEF phaseOf
<1>5. ASSUME NEW u \in Tx \ {t}
      PROVE  phaseOf(u)' = phaseOf(u)
  <2>1. /\ txState'[u] = txState[u]
        /\ \A b \in Action : itemState'[<<u, b>>] = itemState[<<u, b>>]
    BY <1>1 DEF ItemMoves, ItemSet
  <2>2. \A b \in Action : <<u, b>> \in pending' <=> <<u, b>> \in pending
    BY <1>1 DEF ItemMoves, Items
  <2> QED
    BY <2>1, <2>2 DEF phaseOf, InFlight, SomeRow, AllGivenBack
<1>6. phases' = [phases EXCEPT ![t] = phaseOf(t)']
  BY <1>5 DEF phases
<1>7. \A u \in Tx : ActionsOf(u)' = ActionsOf(u)
  BY <1>2 DEF ActionsOf, ItemSet
<1>8. partsOf' = partsOf
  BY <1>7 DEF partsOf
<1>9. \A u \in Tx, b \in Action :
        <<u, b>> \in given' <=> \/ u = t /\ b = a /\ s = "ROLLED_BACK"
                                \/ <<u, b>> \in given
  BY <1>2 DEF given, ItemSet, Items
<1>10. given' = IF s = "ROLLED_BACK" THEN given \union {<<t, a>>} ELSE given
  <2>1. given' \subseteq Tx \X Action /\ given \subseteq Tx \X Action
    BY DEF given, Items
  <2> QED
    BY <1>9, <2>1
<1>11. a \in partsOf[t]
  BY <1>2 DEF partsOf, ActionsOf
<1>12. phaseOf(t)' = "undone" => \A q \in partsOf[t] : <<t, q>> \in given'
  <2>1. ASSUME phaseOf(t)' = "undone", NEW q \in partsOf[t]
        PROVE  <<t, q>> \in given'
    <3>1. q \in ActionsOf(t)'
      BY <1>7, <2>1 DEF partsOf
    <3>2. itemState'[<<t, q>>] \in {"NONE", "ROLLED_BACK"}
      BY <1>4, <2>1, <3>1 DEF AllGivenBack, ActionsOf
    <3> QED
      BY <3>1, <3>2 DEF ActionsOf, given, Items
  <2> QED
    BY <2>1
<1>13. phases[t] = phaseOf(t)
  BY DEF phases
<1> QED
  BY <1>3, <1>4, <1>6, <1>8, <1>10, <1>11, <1>12, <1>13
     DEF Promise!Work, Promise!Active, phases, partsOf, given

\* A transaction that is settled is work on it, unless it was undone before.
LEMMA SettleIsWork ==
    ASSUME JournalTypeOK, Settles
    PROVE  \/ \E c \in Tx : Promise!Work(c)
           \/ phases' = phases /\ partsOf' = partsOf /\ given' = given
<1>1. PICK t \in Tx, s \in SettledStates :
        /\ txState[t] # "NONE"
        /\ txState' = [txState EXCEPT ![t] = s]
        /\ UNCHANGED <<itemState, pending>>
  BY DEF Settles
<1>2. /\ txState'[t] \notin InFlightStates \union {"NONE"}
      /\ \A u \in Tx \ {t} : txState'[u] = txState[u]
  BY <1>1 DEF JournalTypeOK, SettledStates
<1>3. \A u \in Tx \ {t} : phaseOf(u)' = phaseOf(u)
  BY <1>1, <1>2 DEF phaseOf, InFlight, SomeRow, AllGivenBack
<1>4. phases' = [phases EXCEPT ![t] = phaseOf(t)']
  BY <1>3 DEF phases
<1>5. partsOf' = partsOf /\ given' = given
  BY <1>1 DEF partsOf, ActionsOf, given
<1>6. /\ phaseOf(t) \in {"open", "blocked", "undone", "kept"}
      /\ phaseOf(t)' \in {"open", "blocked", "undone", "kept"}
      /\ phaseOf(t)' = "undone" => AllGivenBack(t)'
  BY <1>1, <1>2 DEF phaseOf
<1>7. phaseOf(t)' = "undone" => \A q \in partsOf[t] : <<t, q>> \in given'
  BY <1>1, <1>6 DEF AllGivenBack, partsOf, ActionsOf, given, Items
<1>8. phases[t] = phaseOf(t)
  BY DEF phases
<1>9. CASE phaseOf(t) # "undone"
  <2>1. Promise!Work(t)
    BY <1>4, <1>5, <1>6, <1>7, <1>8, <1>9
       DEF Promise!Work, Promise!Active, phases, partsOf, given
  <2> QED
    BY <2>1
<1>10. CASE phaseOf(t) = "undone"
  <2>1. AllGivenBack(t) /\ ~SomeRow(t)
    BY <1>10 DEF phaseOf
  <2>2. phaseOf(t)' = "undone"
    BY <1>1, <1>2, <2>1 DEF phaseOf, InFlight, AllGivenBack, SomeRow
  <2> QED
    BY <1>4, <1>5, <1>8, <1>10, <2>2 DEF phases
<1> QED
  BY <1>9, <1>10

\* A transaction that gets its rows begins while nothing else is open or
\* needs attention.
LEMMA BeginIsBegin ==
    ASSUME JournalTypeOK, JournalOK, Begins
    PROVE  \E c \in Tx : Promise!Begin(c)
<1>1. PICK t \in Tx :
        /\ ~RecoveryPending
        /\ txState[t] = "NONE"
        /\ \A b \in Action : itemState'[<<t, b>>] \in {"NONE", "PREPARED"}
        /\ \E b \in Action : itemState'[<<t, b>>] = "PREPARED"
        /\ \A u \in Tx \ {t}, b \in Action : itemState'[<<u, b>>] = itemState[<<u, b>>]
        /\ txState' = [txState EXCEPT ![t] = "PREPARED"] /\ UNCHANGED pending
  BY DEF Begins
<1>2. txState'[t] = "PREPARED" /\ \A u \in Tx \ {t} : txState'[u] = txState[u]
  BY <1>1 DEF JournalTypeOK
<1>3. \A u \in Tx \ {t} : phaseOf(u)' = phaseOf(u)
  BY <1>1, <1>2 DEF phaseOf, InFlight, SomeRow, AllGivenBack
<1>4. phaseOf(t) = "none" /\ phaseOf(t)' = "open"
  BY <1>1, <1>2 DEF phaseOf, InFlight, InFlightStates
<1>5. phases' = [phases EXCEPT ![t] = "open"]
  BY <1>3, <1>4 DEF phases
<1>6. \A d \in Tx : phaseOf(d) \notin {"open", "blocked"}
  BY <1>1 DEF phaseOf, RecoveryPending, SomeRow
<1>7. \A u \in Tx \ {t} : ActionsOf(u)' = ActionsOf(u)
  BY <1>1 DEF ActionsOf
<1>8. ActionsOf(t)' \in (SUBSET Action) \ {{}}
  BY <1>1 DEF ActionsOf
<1>9. partsOf' = [partsOf EXCEPT ![t] = ActionsOf(t)']
  BY <1>7 DEF partsOf
<1>10. \A b \in Action : itemState[<<t, b>>] = "NONE"
  BY <1>1 DEF JournalOK
<1>11. \A u \in Tx, b \in Action :
         itemState'[<<u, b>>] = "ROLLED_BACK" <=> itemState[<<u, b>>] = "ROLLED_BACK"
  BY <1>1, <1>10
<1>12. given' = given
  BY <1>11 DEF given, Items
<1> QED
  BY <1>4, <1>5, <1>6, <1>8, <1>9, <1>12 DEF Promise!Begin, phases, partsOf, given

\* The engine implements ReversibleChange: a change begins only when no other
\* is open or needs attention, its parts are given back one at a time and
\* stay so, and when it is undone every part was given back.
THEOREM EngineKeepsPromise == Spec => PromiseKept
<1>1. Init => Promise!CInit
  <2> SUFFICES ASSUME Init
               PROVE  Promise!CInit
    OBVIOUS
  <2>1. \A t \in Tx : phaseOf(t) = "none" /\ ActionsOf(t) = {}
    BY DEF Init, JournalInit, phaseOf, ActionsOf, Items
  <2>2. given = {}
    BY DEF Init, JournalInit, given, Items
  <2> QED
    BY <2>1, <2>2 DEF Promise!CInit, given
<1>2. SInv /\ [Next]_vars => [Promise!CNext]_(Promise!cvars)
  <2> SUFFICES ASSUME SInv, [Next]_vars
               PROVE  [Promise!CNext]_(Promise!cvars)
    OBVIOUS
  <2>1. JournalTypeOK /\ JournalOK /\ StepShape
    BY NextShape DEF SInv, IInv, WellTyped, TypeOK
  <2>2. CASE JournalRests
    BY <2>2, RestIsStutter DEF Promise!cvars, phases, partsOf, given
  <2>3. CASE Moves
    BY <2>1, <2>3, MoveIsWork DEF Promise!CNext
  <2>4. CASE Settles
    <3>1. CASE \E c \in Tx : Promise!Work(c)
      BY <3>1 DEF Promise!CNext
    <3>2. CASE phases' = phases /\ partsOf' = partsOf /\ given' = given
      BY <3>2 DEF Promise!cvars, phases, partsOf, given
    <3> QED
      BY <2>1, <2>4, <3>1, <3>2, SettleIsWork
  <2>5. CASE Begins
    BY <2>1, <2>5, BeginIsBegin DEF Promise!CNext
  <2> QED
    BY <2>1, <2>2, <2>3, <2>4, <2>5 DEF StepShape
<1> QED
  BY <1>1, <1>2, StepInvariant, PTL DEF Spec, PromiseKept, Promise!CSpec

=============================================================================
