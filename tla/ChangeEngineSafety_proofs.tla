---------------------- MODULE ChangeEngineSafety_proofs ----------------------
(***************************************************************************)
(* Three more invariants of ChangeEngine, proved from IInv: what an apply  *)
(* wrote is accounted for, a backup of another Windows build is not        *)
(* restored, and what is called rolled back is complete.  Each is          *)
(* strengthened to something inductive relative to IInv.                   *)
(***************************************************************************)
EXTENDS ChangeEngine_proofs

\* A setting is written only for an item whose setter was dispatched.
WritersAreDispatched ==
    \A t \in Tx, a \in Action :
        writer[a] = t => itemState[<<t, a>>] \notin {"NONE", "PREPARED"}

WritesOK == AppliedValueIsAccounted /\ WritersAreDispatched

\* Who may be running in which mode of the app: nobody while it is down, and
\* only the boot sequence while it recovers.
ModeOK ==
    /\ mode = "down" => job.pc = "idle"
    /\ mode \in {"down", "recovering"} => rev.pc = "idle"
    /\ job.by = "boot" => mode = "recovering"

BackupsOK == ForeignBackupIsNotRestored /\ ModeOK

GivenBack(t, a) == itemState[<<t, a>>] \in {"NONE", "ROLLED_BACK"}

\* Given back, or set aside with a row, as the holder remembers.
Ended(t, a) ==
    \/ GivenBack(t, a)
    \/ /\ itemState[<<t, a>>] \in {"ROLLBACK_FAILED", "RECOVERY_REQUIRED"}
       /\ <<t, a>> \in pending
       /\ job.rollbackFailed \/ job.recoveryRequired

\* What a settled transaction has left.
SettledOK ==
    \A t \in Tx, a \in Action :
        /\ txState[t] = "ROLLED_BACK" => GivenBack(t, a)
        /\ txState[t] \in {"ROLLBACK_FAILED", "RECOVERY_REQUIRED"} =>
             GivenBack(t, a) \/ <<t, a>> \in pending

\* The items of a commit that are not yet visited are the ones in `todo`.
UnwindingOK ==
    /\ job.pc \in WorkPcs \ {"cancel"} =>
         \A b \in Action : b < job.act
             => itemState[<<job.tx, b>>] = "NONE" \/ b \in job.todo
    /\ job.pc = "cancel" =>
         \A b \in Action : b <= job.act => b \in job.todo \/ Ended(job.tx, b)
    /\ Unwinding =>
         \A b \in Action : \/ b \in job.todo
                           \/ Ended(job.tx, b)
                           \/ job.pc \in UndoPcs /\ b = job.act
    /\ job.pc = "settle" => \A b \in Action : Ended(job.tx, b)

\* The items of a reconcile that are not yet visited are the ones in `queue`.
BatchOK ==
    Reconciling =>
        /\ job.pc \in UndoPcs => First(job.batch, job.tx)
        /\ \A t \in job.batch \ job.kept, a \in Action :
              \/ <<t, a>> \in job.queue
              \/ GivenBack(t, a)
              \/ job.pc \in UndoPcs /\ t = job.tx /\ a = job.act
              \/ First(job.batch, t) /\ Ended(t, a)

EndsOK == SettledOK /\ UnwindingOK /\ BatchOK

-----------------------------------------------------------------------------
(* What was written is accounted for                                       *)

\* A step that writes no setting and moves no item keeps it.
LEMMA NoItemKeepsWrites ==
    ASSUME WritesOK, UNCHANGED <<itemState, orig, os, writer>>
    PROVE  WritesOK'
  BY DEF WritesOK, AppliedValueIsAccounted, WritersAreDispatched

\* So does a statement about one item that leaves it accounted for, or ends it
\* while the setting holds the original or was never written by it.
LEMMA ItemKeepsWrites ==
    ASSUME WritesOK, NEW t \in Tx, NEW a \in Action, NEW s, ItemSet(t, a, s),
           \/ s \in OwnedStates
           \/ s = "ROLLED_BACK"
                  /\ (os[a] = orig[<<t, a>>] \/ itemState[<<t, a>>] = "PREPARED"),
           UNCHANGED <<orig, os, writer>>
    PROVE  WritesOK'
<1>1. AppliedValueIsAccounted'
  BY DEF WritesOK, AppliedValueIsAccounted, WritersAreDispatched, ItemSet
<1>2. WritersAreDispatched'
  BY DEF WritesOK, WritersAreDispatched, ItemSet, OwnedStates
<1> QED
  BY <1>1, <1>2 DEF WritesOK

\* A commit: rows are prepared for a transaction that wrote nothing yet, and
\* the setter runs for an item that is APPLYING.
LEMMA CommitKeepsWrites ==
    ASSUME IInv, WritesOK, CommitStep
    PROVE  WritesOK'
<1> USE DEF StartPcs, ApplyPcs, WorkPcs, EndPcs, UndoPcs
<1>0. /\ job \in Jobs /\ JournalTypeOK /\ JournalOK /\ HolderOK
      /\ CurrentOK /\ SiblingsOK /\ writer \in [Action -> Tx \union {0}]
             /\ os \in [Action -> Values]
  BY DEF IInv, WellTyped, TypeOK, StepOK
<1>1. CASE Detect \/ Capture \/ Redetect \/ ApplyRead \/ Succeed \/ SettleCommit
  BY <1>1, NoItemKeepsWrites
     DEF Detect, Capture, Redetect, ApplyRead, Succeed, SettleCommit, Abort,
         SetTransactionState, journal, machine
<1>2. CASE Prepare
  <2>1. PICK t \in Tx : /\ txState[t] = "NONE"
                        /\ RecordPrepared(t, job.plan, job.draft, job.hold)
                        /\ UNCHANGED <<os, writer>>
    BY <1>2 DEF Prepare, IsNextTx, machine
  <2>2. \A a \in Action : itemState[<<t, a>>] = "NONE" /\ writer[a] # t
    BY <1>0, <2>1 DEF JournalOK, WritesOK, WritersAreDispatched
  <2>3. \A u \in Tx, a \in Action : u # t =>
          itemState'[<<u, a>>] = itemState[<<u, a>>] /\ orig'[<<u, a>>] = orig[<<u, a>>]
    BY <2>1 DEF RecordPrepared, Items
  <2> QED
    BY <2>1, <2>2, <2>3 DEF WritesOK, AppliedValueIsAccounted, WritersAreDispatched
<1>3. CASE StartApplying \/ VerifyApplied \/ ApplyFailed
  <2>1. job.tx \in Tx /\ job.act \in Action /\ UNCHANGED <<orig, os, writer>>
    BY <1>0, <1>3
       DEF StartApplying, VerifyApplied, ApplyFailed, HolderOK, MarkItemApplying,
           MarkItemApplied, MarkApplyFailure, journal, machine
  <2>2. CASE UNCHANGED itemState
    BY <2>1, <2>2, NoItemKeepsWrites
  <2>3. CASE itemState' # itemState
    <3>1. PICK s \in OwnedStates : ItemSet(job.tx, job.act, s)
      BY <1>0, <1>3, <2>1, <2>3, OneItem
         DEF StartApplying, VerifyApplied, ApplyFailed, MarkItemApplying, MarkItemApplied,
             MarkApplyFailure, OwnedStates, journal
    <3> QED
      BY <2>1, <3>1, ItemKeepsWrites
  <2> QED
    BY <2>2, <2>3
<1>4. CASE ApplyWrite
  <2>1. /\ job.tx \in Tx /\ job.act \in Action
               /\ itemState[<<job.tx, job.act>>] = "APPLYING"
        /\ UNCHANGED <<itemState, orig>>
    BY <1>0, <1>4 DEF ApplyWrite, HolderOK, CurrentOK, journal
  <2>2. CASE UNCHANGED <<os, writer>>
    BY <2>1, <2>2, NoItemKeepsWrites
  <2>3. CASE /\ os' = [os EXCEPT ![job.act] = want[<<job.tx, job.act>>]]
             /\ writer' = [writer EXCEPT ![job.act] = job.tx]
    <3>1. \A a \in Action \ {job.act} : os'[a] = os[a] /\ writer'[a] = writer[a]
      BY <1>0, <2>3
    <3>2. writer'[job.act] = job.tx
      BY <1>0, <2>1, <2>3
    <3> QED
      BY <2>1, <3>1, <3>2
         DEF WritesOK, AppliedValueIsAccounted, WritersAreDispatched, OwnedStates
  <2> QED
    BY <1>4, <2>2, <2>3 DEF ApplyWrite
<1>5. CASE JudgeFailed
  <2>1. job.tx \in Tx /\ job.act \in Action /\ UNCHANGED <<os, writer>>
    BY <1>0, <1>5 DEF JudgeFailed, HolderOK, machine
  <2>2. CASE UNCHANGED journal
    BY <2>1, <2>2, NoItemKeepsWrites DEF journal
  <2>3. CASE "original" \in Classes(job.tx, job.act)
                 /\ MarkItemRolledBack(job.tx, job.act)
    <3>1. os[job.act] = orig[<<job.tx, job.act>>]
      BY <2>3 DEF Classes
    <3> QED
      BY <1>0, <2>1, <2>3, <3>1, OneItem, ItemKeepsWrites DEF MarkItemRolledBack
  <2>4. CASE RecordRecovery(job.tx, job.act, FALSE)
    BY <1>0, <2>1, <2>4, OneItem, ItemKeepsWrites DEF RecordRecovery, OwnedStates
  <2> QED
    BY <1>5, <2>2, <2>3, <2>4 DEF JudgeFailed
<1>6. CASE CancelRest
  <2>1. /\ job.pc = "cancel" /\ job.tx \in Tx /\ job.act \in Action
               /\ UNCHANGED <<os, writer>>
    BY <1>0, <1>6 DEF CancelRest, HolderOK, machine
  <2>2. CASE UNCHANGED journal
    BY <2>1, <2>2, NoItemKeepsWrites DEF journal
  <2>3. CASE \E b \in Action : /\ First(Undispatched(job.tx, job.act), b)
                               /\ MarkItemRolledBack(job.tx, b)
    <3>1. PICK b \in Action : /\ First(Undispatched(job.tx, job.act), b)
                              /\ MarkItemRolledBack(job.tx, b)
      BY <2>3
    <3>2. itemState[<<job.tx, b>>] = "PREPARED"
      BY <1>0, <2>1, <3>1
         DEF First, Undispatched, After, ActionsOf, SiblingsOK, Action
    <3> QED
      BY <1>0, <2>1, <3>1, <3>2, OneItem, ItemKeepsWrites DEF MarkItemRolledBack
  <2> QED
    BY <1>6, <2>2, <2>3 DEF CancelRest
<1>7. CASE UndoNext
  <2>1. job.tx \in Tx /\ UNCHANGED <<os, writer>>
    BY <1>0, <1>7 DEF UndoNext, HolderOK, machine
  <2>2. CASE UNCHANGED journal
    BY <2>1, <2>2, NoItemKeepsWrites DEF journal
  <2>3. ASSUME NEW a \in Action,
               MarkTxRollingBack(job.tx, a) \/ RecordRecovery(job.tx, a, FALSE)
        PROVE  WritesOK'
    BY <1>0, <2>1, <2>3, OneItem, ItemKeepsWrites
       DEF MarkTxRollingBack, RecordRecovery, OwnedStates
  <2> QED
    BY <1>7, <2>2, <2>3 DEF UndoNext
<1> QED
  BY <1>1, <1>2, <1>3, <1>4, <1>5, <1>6, <1>7 DEF CommitStep

\* A restore is recorded only when the original was read back.
LEMMA UndoKeepsWrites ==
    ASSUME IInv, WritesOK, UndoStep \/ RollbackOne
    PROVE  WritesOK'
<1> USE DEF StartPcs, ApplyPcs, WorkPcs, EndPcs, UndoPcs
<1>0. /\ job \in Jobs /\ JournalTypeOK /\ HolderOK
      /\ writer \in [Action -> Tx \union {0}] /\ os \in [Action -> Values]
  BY DEF IInv, WellTyped, TypeOK
<1>1. job.tx \in Tx /\ job.act \in Action
  BY <1>0 DEF UndoStep, UndoRead, UndoWrite, UndoVerify, UndoFailed, RollbackOne, HolderOK
<1>2. ASSUME MarkItemRolledBack(job.tx, job.act), os[job.act] = orig[<<job.tx, job.act>>],
             UNCHANGED <<os, writer>>
      PROVE  WritesOK'
  BY <1>0, <1>1, <1>2, OneItem, ItemKeepsWrites DEF MarkItemRolledBack
<1>3. ASSUME NEW failed \in BOOLEAN, RecordRecovery(job.tx, job.act, failed),
             UNCHANGED <<os, writer>>
      PROVE  WritesOK'
  BY <1>0, <1>1, <1>3, OneItem, ItemKeepsWrites DEF RecordRecovery, OwnedStates
<1>4. CASE UndoRead
  BY <1>4, NoItemKeepsWrites DEF UndoRead, journal, machine
<1>5. CASE UndoWrite
  <2>1. UNCHANGED <<itemState, orig>>
    BY <1>5 DEF UndoWrite, journal
  <2>2. CASE UNCHANGED <<os, writer>>
    BY <2>1, <2>2, NoItemKeepsWrites
  <2>3. CASE /\ os' = [os EXCEPT ![job.act] = orig[<<job.tx, job.act>>]]
             /\ writer' = [writer EXCEPT ![job.act] = 0]
    <3>1. \A a \in Action \ {job.act} : os'[a] = os[a] /\ writer'[a] = writer[a]
      BY <1>0, <2>3
    <3>2. writer'[job.act] = 0 /\ 0 \notin Tx
      BY <1>0, <1>1, <2>3 DEF Tx
    <3> QED
      BY <2>1, <3>1, <3>2 DEF WritesOK, AppliedValueIsAccounted, WritersAreDispatched
  <2> QED
    BY <1>5, <2>2, <2>3 DEF UndoWrite
<1>6. CASE UndoVerify
  BY <1>2, <1>3, <1>6 DEF UndoVerify, RestoreVerified, machine
<1>7. CASE UndoFailed
  BY <1>3, <1>7 DEF UndoFailed, machine
<1>8. CASE RollbackOne
  <2>1. UNCHANGED <<os, writer>>
    BY <1>8 DEF RollbackOne, machine
  <2>2. CASE UNCHANGED journal
    BY <2>1, <2>2, NoItemKeepsWrites DEF journal
  <2>3. CASE "original" \in Classes(job.tx, job.act)
                 /\ MarkItemRolledBack(job.tx, job.act)
    BY <1>2, <2>1, <2>3 DEF Classes
  <2>4. CASE MarkItemRollingBack(job.tx, job.act)
    BY <1>0, <1>1, <2>1, <2>4, OneItem, ItemKeepsWrites
       DEF MarkItemRollingBack, OwnedStates
  <2>5. CASE RecordRecovery(job.tx, job.act, FALSE)
    BY <1>3, <2>1, <2>5
  <2> QED
    BY <1>8, <2>2, <2>3, <2>4, <2>5 DEF RollbackOne
<1> QED
  BY <1>4, <1>5, <1>6, <1>7, <1>8 DEF UndoStep

\* Recovery ends an item only where it reads the original.
LEMMA ReconcileKeepsWrites ==
    ASSUME IInv, WritesOK, ReconcileStep
    PROVE  WritesOK'
<1>0. JournalTypeOK
  BY DEF IInv, WellTyped, TypeOK
<1>1. UNCHANGED <<os, writer>>
  BY DEF ReconcileStep, ReconcileItem, ReconcileSettle, ReconcileEnd, machine
<1>2. CASE ReconcileSettle \/ ReconcileEnd
  BY <1>1, <1>2, NoItemKeepsWrites
     DEF ReconcileSettle, ReconcileEnd, SetTransactionState, journal
<1>3. CASE ReconcileItem
  <2>1. PICK t \in Tx, a \in Action :
          \/ GiveUp(t, a)
          \/ "original" \in Classes(t, a) /\ MarkItemRolledBack(t, a)
          \/ MarkTxRollingBack(t, a)
          \/ UNCHANGED journal
    BY ZenonT(60), <1>3 DEF ReconcileItem
  <2>2. CASE GiveUp(t, a)
    BY <1>0, <1>1, <2>2, OneItem, ItemKeepsWrites DEF GiveUp, RecordRecovery, OwnedStates
  <2>3. CASE "original" \in Classes(t, a) /\ MarkItemRolledBack(t, a)
    <3>1. os[a] = orig[<<t, a>>]
      BY <2>3 DEF Classes
    <3> QED
      BY <1>0, <1>1, <2>3, <3>1, OneItem, ItemKeepsWrites DEF MarkItemRolledBack
  <2>4. CASE MarkTxRollingBack(t, a)
    BY <1>0, <1>1, <2>4, OneItem, ItemKeepsWrites DEF MarkTxRollingBack, OwnedStates
  <2>5. CASE UNCHANGED journal
    BY <1>1, <2>5, NoItemKeepsWrites DEF journal
  <2> QED
    BY <2>1, <2>2, <2>3, <2>4, <2>5
<1> QED
  BY <1>2, <1>3 DEF ReconcileStep

\* Everybody else moves no item; what others write, and what dies with the
\* process, no transaction has written.
LEMMA WorldKeepsWrites ==
    ASSUME IInv, WritesOK,
           \/ Crash
           \/ \E a \in Action, v \in Values : OutsideWrite(a, v)
    PROVE  WritesOK'
<1>1. /\ writer \in [Action -> Tx \union {0}] /\ os \in [Action -> Values]
      /\ UNCHANGED <<itemState, orig>> /\ 0 \notin Tx
  BY DEF IInv, WellTyped, TypeOK, Crash, OutsideWrite, journal, Tx
<1>2. \A a \in Action : writer'[a] = 0 \/ (writer'[a] = writer[a] /\ os'[a] = os[a])
  BY <1>1 DEF Crash, OutsideWrite
<1> QED
  BY <1>1, <1>2 DEF WritesOK, AppliedValueIsAccounted, WritersAreDispatched

\* Every step keeps it.
LEMMA NextKeepsWrites ==
    ASSUME IInv, WritesOK, [Next]_vars
    PROVE  WritesOK'
<1>1. CASE CommitStep \/ UndoStep \/ RollbackOne \/ ReconcileStep
  BY <1>1, CommitKeepsWrites, UndoKeepsWrites, ReconcileKeepsWrites
<1>2. CASE Crash \/ \E a \in Action, v \in Values : OutsideWrite(a, v)
  BY <1>2, WorldKeepsWrites
<1>3. CASE RevertStep \/ StartReconcile \/ Boot \/ JobAborts \/ WindowsUpdate
               \/ UNCHANGED vars
  BY <1>3, NoItemKeepsWrites
     DEF RevertStep, RevertScan, RevertPick, RevertItem, RevertClear, RevertEnd,
         ClearTrialRow, StartReconcile, Boot, JobAborts, Abort, WindowsUpdate, vars,
         journal, machine
<1>4. CASE \/ \E s \in Slots : \/ Preview(s) \/ PreviewExpires(s) \/ StartCommit(s)
                               \/ \E hold \in BOOLEAN : ClaimPreview(s, hold)
           \/ \E t \in Tx : Confirm(t) \/ ClearUndoneTrial(t) \/ HoldElapses(t)
           \/ \E t \in Tx, a \in Action : StartRollback(t, a)
  BY <1>4, NoItemKeepsWrites
     DEF Preview, PreviewExpires, StartCommit, ClaimPreview, Confirm, ClearUndoneTrial,
         HoldElapses, StartRollback, ConfirmTrialRow, ClearTrialRow, journal, machine
<1> QED
  BY <1>1, <1>2, <1>3, <1>4 DEF Next, EngineStep, UserStep, FaultStep

\* The engine never loses the original of a value it wrote, whatever crashed.
THEOREM WrittenIsAccounted == Spec => []AppliedValueIsAccounted
<1>1. Init => WritesOK
  BY DEF Init, JournalInit, WritesOK, AppliedValueIsAccounted, WritersAreDispatched,
         Tx, Items
<1>2. IInv /\ WritesOK /\ [Next]_vars => WritesOK'
  BY NextKeepsWrites
<1>3. WritesOK => AppliedValueIsAccounted
  BY DEF WritesOK
<1> QED
  BY <1>1, <1>2, <1>3, Invariant, PTL DEF Spec

-----------------------------------------------------------------------------
(* A backup of another Windows build is not restored                       *)

\* The gate is released: a failed boot leaves the app down with nobody running.
LEMMA ReleaseKeepsBackups ==
    ASSUME IInv, BackupsOK, job.pc # "idle", NEW ok \in BOOLEAN, Release(ok)
    PROVE  BackupsOK'
<1>1. job'.pc = "idle" /\ job'.by = "none"
  BY DEF Release, Idle
<1>2. mode # "down" /\ rev \in Passes
  BY DEF BackupsOK, ModeOK, IInv, WellTyped, TypeOK
<1>3. CASE job.by = "boot"
  BY <1>1, <1>2, <1>3
     DEF BackupsOK, ModeOK, ForeignBackupIsNotRestored, Release
<1>4. CASE job.by = "reverter"
  <2>1. rev.pc = "wait" /\ mode # "recovering" /\ mode' = mode
    BY <1>4 DEF IInv, PassOK, BackupsOK, ModeOK, Release
  <2> QED
    BY <1>1, <1>2, <2>1 DEF BackupsOK, ModeOK, ForeignBackupIsNotRestored
<1>5. CASE job.by \notin {"boot", "reverter"}
  BY <1>1, <1>2, <1>5 DEF BackupsOK, ModeOK, ForeignBackupIsNotRestored, Release
<1> QED
  BY <1>3, <1>4, <1>5

\* The holder moves on: it starts to restore only what this build backed up.
LEMMA MoveKeepsBackups ==
    ASSUME BackupsOK, job.pc # "idle", UNCHANGED <<mode, rev, foreign>>,
           job'.by # "boot" \/ job'.by = job.by,
           job'.pc \in UndoPcs => \/ MutationAllowed(job'.tx)
                                  \/ job.pc \in UndoPcs /\ job'.tx = job.tx
    PROVE  BackupsOK'
<1>1. ModeOK'
  BY DEF BackupsOK, ModeOK
<1>2. ForeignBackupIsNotRestored'
  BY DEF BackupsOK, ForeignBackupIsNotRestored, UndoPcs, MutationAllowed
<1> QED
  BY <1>1, <1>2 DEF BackupsOK

\* A commit.
LEMMA CommitKeepsBackups ==
    ASSUME IInv, BackupsOK, CommitStep
    PROVE  BackupsOK'
<1>0. job \in Jobs
  BY DEF IInv, WellTyped, TypeOK
<1>1. job.pc # "idle" /\ foreign' = foreign
  BY DEF CommitStep, Detect, Capture, Redetect, Prepare, StartApplying, ApplyRead,
         ApplyWrite, VerifyApplied, Succeed, ApplyFailed, JudgeFailed, CancelRest,
         UndoNext, SettleCommit, Abort, machine
<1>2. CASE Abort \/ Succeed \/ SettleCommit
  BY <1>1, <1>2, ReleaseKeepsBackups DEF Abort, Succeed, SettleCommit
<1>3. CASE ~Abort /\ (Detect \/ Capture \/ Redetect \/ Prepare)
  <2>1. UNCHANGED <<mode, rev>> /\ job'.pc \notin UndoPcs /\ job'.by \in {job.by, "user"}
    BY ZenonT(60), <1>0, <1>3
       DEF Detect, Capture, Redetect, Prepare, Goto, Idle, UndoPcs, Jobs
  <2> QED
    BY <1>1, <2>1, MoveKeepsBackups
<1>4. CASE StartApplying \/ ApplyRead \/ ApplyWrite \/ VerifyApplied \/ ApplyFailed
  <2>1. UNCHANGED <<mode, rev>> /\ job'.pc \notin UndoPcs /\ job'.by = job.by
    BY ZenonT(60), <1>0, <1>4
       DEF StartApplying, ApplyRead, ApplyWrite, VerifyApplied, ApplyFailed, Goto,
           UndoPcs, Jobs
  <2> QED
    BY <1>1, <2>1, MoveKeepsBackups
<1>5. CASE JudgeFailed \/ CancelRest
  <2>1. UNCHANGED <<mode, rev>> /\ job'.pc \notin UndoPcs /\ job'.by = job.by
    BY <1>0, <1>5 DEF JudgeFailed, CancelRest, Goto, UndoPcs, Jobs
  <2> QED
    BY <1>1, <2>1, MoveKeepsBackups
<1>6. CASE UndoNext
  <2>1. UNCHANGED <<mode, rev>> /\ job'.by = job.by /\ job'.tx = job.tx
    BY <1>0, <1>6 DEF UndoNext, Goto, Jobs
  <2>2. job'.pc \in UndoPcs => MutationAllowed(job.tx)
    BY <1>0, <1>6 DEF UndoNext, Goto, UndoPcs, Jobs
  <2> QED
    BY <1>1, <2>1, <2>2, MoveKeepsBackups
<1> QED
  BY <1>2, <1>3, <1>4, <1>5, <1>6 DEF CommitStep

\* A restore, for whichever of the three operations, and a single rollback.
LEMMA UndoKeepsBackups ==
    ASSUME IInv, BackupsOK, UndoStep \/ RollbackOne
    PROVE  BackupsOK'
<1>0. job \in Jobs
  BY DEF IInv, WellTyped, TypeOK
<1>1. job.pc # "idle" /\ foreign' = foreign
  BY DEF UndoStep, UndoRead, UndoWrite, UndoVerify, UndoFailed, RollbackOne, machine
<1>2. CASE \E ok \in BOOLEAN : Release(ok)
  BY <1>1, <1>2, ReleaseKeepsBackups
<1>3. CASE UndoRead \/ UndoWrite
  <2>1. /\ UNCHANGED <<mode, rev>> /\ job'.by = job.by /\ job'.tx = job.tx
        /\ job.pc \in UndoPcs
    BY <1>0, <1>3 DEF UndoRead, UndoWrite, Goto, UndoPcs, Jobs
  <2> QED
    BY <1>1, <2>1, MoveKeepsBackups
<1>4. CASE (UndoVerify \/ UndoFailed) /\ ~(\E ok \in BOOLEAN : Release(ok))
  <2>1. UNCHANGED <<mode, rev>> /\ job'.by = job.by /\ job'.pc \notin UndoPcs
    BY ZenonT(60), <1>0, <1>4 DEF UndoVerify, UndoFailed, Resume, UndoPcs, Jobs
  <2> QED
    BY <1>1, <2>1, MoveKeepsBackups
<1>5. CASE RollbackOne /\ ~(\E ok \in BOOLEAN : Release(ok))
  <2>1. /\ UNCHANGED <<mode, rev>> /\ MutationAllowed(job.tx)
        /\ job'.by = job.by /\ job'.tx = job.tx
    BY <1>0, <1>5 DEF RollbackOne, Goto, Jobs
  <2> QED
    BY <1>1, <2>1, MoveKeepsBackups
<1> QED
  BY <1>2, <1>3, <1>4, <1>5 DEF UndoStep

\* Recovery sets an item aside whose backup another build took.
LEMMA ReconcileKeepsBackups ==
    ASSUME IInv, BackupsOK, ReconcileStep
    PROVE  BackupsOK'
<1>0. job \in Jobs
  BY DEF IInv, WellTyped, TypeOK
<1>1. job.pc = "next" /\ foreign' = foreign
  BY DEF ReconcileStep, ReconcileItem, ReconcileSettle, ReconcileEnd, machine
<1>2. CASE \E ok \in BOOLEAN : Release(ok)
  BY <1>1, <1>2, ReleaseKeepsBackups
<1>3. CASE ReconcileItem /\ ~(\E ok \in BOOLEAN : Release(ok))
  <2>1. PICK t \in Tx, a \in Action :
          \/ GiveUp(t, a)
          \/ /\ job' = [job EXCEPT !.queue = job.queue \ {<<t, a>>}]
             /\ UNCHANGED <<mode, rev>>
          \/ /\ MutationAllowed(t)
             /\ job' = [job EXCEPT !.pc = "undoRead", !.tx = t, !.act = a,
                                   !.queue = job.queue \ {<<t, a>>}]
             /\ UNCHANGED <<mode, rev>>
    BY ZenonT(60), <1>3 DEF ReconcileItem
  <2>2. UNCHANGED <<mode, rev>> /\ job'.by = job.by
    BY <1>0, <2>1 DEF GiveUp, Jobs
  <2>3. job'.pc \in UndoPcs => MutationAllowed(job'.tx)
    BY <1>0, <1>1, <2>1 DEF GiveUp, Jobs, UndoPcs
  <2> QED
    BY <1>1, <2>2, <2>3, MoveKeepsBackups
<1>4. CASE ReconcileSettle
  <2>1. UNCHANGED <<mode, rev>> /\ job'.by = job.by /\ job'.pc \notin UndoPcs
    BY <1>0, <1>1, <1>4 DEF ReconcileSettle, Jobs, UndoPcs
  <2> QED
    BY <1>1, <2>1, MoveKeepsBackups
<1> QED
  BY <1>2, <1>3, <1>4 DEF ReconcileStep, ReconcileEnd

\* A job begins: by a user or the reverter while the app runs, or at the boot.
LEMMA BeginKeepsBackups ==
    ASSUME IInv, BackupsOK,
           \/ \E s \in Slots : StartCommit(s)
           \/ \E t \in Tx, a \in Action : StartRollback(t, a)
           \/ StartReconcile \/ RevertItem \/ Boot
    PROVE  BackupsOK'
<1>0. job \in Jobs /\ rev \in Passes
  BY DEF IInv, WellTyped, TypeOK
<1>1. foreign' = foreign
  BY DEF StartCommit, StartRollback, StartReconcile, RevertItem, Boot, machine
<1>2. CASE \E s \in Slots : StartCommit(s)
  <2>1. PICK s \in Slots : StartCommit(s)
    BY <1>2
  <2>2. mode = "running" /\ UNCHANGED <<mode, rev>>
    BY <2>1 DEF StartCommit
  <2>3. CASE RecoveryPending
    BY <1>1, <2>1, <2>2, <2>3
       DEF StartCommit, BackupsOK, ModeOK, ForeignBackupIsNotRestored
  <2>4. CASE ~RecoveryPending
    <3>1. job'.by = "user" /\ job'.pc = "detect"
      BY <2>1, <2>4 DEF StartCommit, Idle
    <3> QED
      BY <2>2, <3>1 DEF BackupsOK, ModeOK, ForeignBackupIsNotRestored
  <2> QED
    BY <2>3, <2>4
<1>3. CASE StartReconcile \/ \E t \in Tx, a \in Action : StartRollback(t, a)
  <2>1. /\ mode = "running" /\ UNCHANGED <<mode, rev>>
        /\ job'.by = "user" /\ job'.pc \notin UndoPcs
    BY ZenonT(60), <1>3
       DEF StartRollback, StartReconcile, RollbackJob, ReconcileJob, Idle, UndoPcs
  <2> QED
    BY <2>1 DEF BackupsOK, ModeOK, ForeignBackupIsNotRestored, UndoPcs
<1>4. CASE RevertItem
  <2>1. /\ mode \notin {"down", "recovering"} /\ UNCHANGED mode
        /\ job' = job \/ (job'.by = "reverter" /\ job'.pc \notin UndoPcs)
    BY ZenonT(60), <1>4 DEF RevertItem, RollbackJob, Idle, UndoPcs, BackupsOK, ModeOK
  <2> QED
    BY <1>1, <2>1 DEF BackupsOK, ModeOK, ForeignBackupIsNotRestored, UndoPcs
<1>5. CASE Boot
  <2>1. /\ mode = "down" /\ mode' = "recovering" /\ rev' = rev
        /\ job'.by = "boot" /\ job'.pc = "next"
    BY <1>5 DEF Boot, ReconcileJob, Idle
  <2> QED
    BY <2>1 DEF BackupsOK, ModeOK, ForeignBackupIsNotRestored
<1> QED
  BY <1>2, <1>3, <1>4, <1>5

\* The reverter outside the gate, the crash and the Windows update.
LEMMA OutsideKeepsBackups ==
    ASSUME IInv, BackupsOK,
           \/ RevertScan \/ RevertPick \/ RevertClear \/ RevertEnd
           \/ Crash \/ WindowsUpdate \/ JobAborts
    PROVE  BackupsOK'
<1>0. rev \in Passes
  BY DEF IInv, WellTyped, TypeOK
<1>1. CASE RevertScan \/ RevertPick \/ RevertClear
  <2>1. /\ mode \notin {"down", "recovering"} /\ UNCHANGED <<mode, job, foreign>>
    BY <1>1 DEF RevertScan, RevertPick, RevertClear, BackupsOK, ModeOK, machine
  <2> QED
    BY <2>1 DEF BackupsOK, ModeOK, ForeignBackupIsNotRestored
<1>2. CASE RevertEnd
  <2>1. /\ mode \notin {"down", "recovering"} /\ mode' = "running"
        /\ UNCHANGED <<job, foreign>>
    BY <1>2 DEF RevertEnd, BackupsOK, ModeOK, machine
  <2> QED
    BY <2>1 DEF BackupsOK, ModeOK, ForeignBackupIsNotRestored
<1>3. CASE Crash
  BY <1>3 DEF Crash, Idle, Resting, BackupsOK, ModeOK, ForeignBackupIsNotRestored
<1>4. CASE WindowsUpdate
  <2>1. job'.pc = "idle" /\ UNCHANGED <<mode, rev, job>>
    BY <1>4 DEF WindowsUpdate, BackupsOK, ModeOK
  <2> QED
    BY <2>1 DEF BackupsOK, ModeOK, ForeignBackupIsNotRestored
<1>5. CASE JobAborts
  BY <1>5, ReleaseKeepsBackups DEF JobAborts, Abort
<1> QED
  BY <1>1, <1>2, <1>3, <1>4, <1>5

\* Every step keeps it.
LEMMA NextKeepsBackups ==
    ASSUME IInv, BackupsOK, [Next]_vars
    PROVE  BackupsOK'
<1>1. CASE CommitStep \/ UndoStep \/ RollbackOne \/ ReconcileStep
  BY <1>1, CommitKeepsBackups, UndoKeepsBackups, ReconcileKeepsBackups
<1>2. CASE \/ \E s \in Slots : StartCommit(s)
           \/ \E t \in Tx, a \in Action : StartRollback(t, a)
           \/ StartReconcile \/ RevertItem \/ Boot
  BY <1>2, BeginKeepsBackups
<1>3. CASE \/ RevertScan \/ RevertPick \/ RevertClear \/ RevertEnd
           \/ Crash \/ WindowsUpdate \/ JobAborts
  BY <1>3, OutsideKeepsBackups
<1>4. CASE UNCHANGED <<mode, rev, job, foreign>>
  BY <1>4 DEF BackupsOK, ModeOK, ForeignBackupIsNotRestored
<1>5. CASE \/ \E s \in Slots : \/ Preview(s) \/ PreviewExpires(s)
                               \/ \E hold \in BOOLEAN : ClaimPreview(s, hold)
           \/ \E t \in Tx : Confirm(t) \/ ClearUndoneTrial(t) \/ HoldElapses(t)
           \/ \E a \in Action, v \in Values : OutsideWrite(a, v)
           \/ UNCHANGED vars
  BY <1>4, <1>5
     DEF Preview, PreviewExpires, ClaimPreview, Confirm, ClearUndoneTrial, HoldElapses,
         OutsideWrite, vars, machine
<1> QED
  BY <1>1, <1>2, <1>3, <1>5 DEF Next, EngineStep, RevertStep, UserStep, FaultStep

\* No operation restores a backup that was taken on another Windows build.
THEOREM ForeignBackupStays == Spec => []ForeignBackupIsNotRestored
<1>1. Init => BackupsOK
  BY DEF Init, Idle, Resting, BackupsOK, ModeOK, ForeignBackupIsNotRestored
<1>2. IInv /\ BackupsOK /\ [Next]_vars => BackupsOK'
  BY NextKeepsBackups
<1>3. BackupsOK => ForeignBackupIsNotRestored
  BY DEF BackupsOK
<1> QED
  BY <1>1, <1>2, <1>3, Invariant, PTL DEF Spec

-----------------------------------------------------------------------------
(* What is called rolled back is complete                                  *)

\* A step that moves neither the gate holder nor an item keeps it.
LEMMA NothingKeepsEnds ==
    ASSUME EndsOK, UNCHANGED <<job, txState, itemState, pending>>
    PROVE  EndsOK'
<1>1. SettledOK' /\ UnwindingOK'
  BY DEF EndsOK, SettledOK, UnwindingOK, GivenBack, Ended, Unwinding
<1>2. BatchOK'
  BY DEF EndsOK, BatchOK, GivenBack, Ended, Reconciling
<1> QED
  BY <1>1, <1>2 DEF EndsOK

\* A holder at none of these places says nothing about it.
LEMMA OutsideEnds ==
    ASSUME job'.pc \in StartPcs \union {"idle", "item", "succeed"}
    PROVE  UnwindingOK' /\ BatchOK'
  BY DEF UnwindingOK, BatchOK, Unwinding, Reconciling, StartPcs, WorkPcs, ApplyPcs,
         UndoPcs

\* A statement about one item that was not given back yet: its transaction is
\* not called rolled back, and a row that is there stays until it is.
LEMMA ItemKeepsSettled ==
    ASSUME SettledOK, NEW t \in Tx, NEW a \in Action, NEW s, ItemSet(t, a, s),
           ~GivenBack(t, a),
           s = "ROLLED_BACK" \/ (<<t, a>> \in pending => <<t, a>> \in pending'),
           \A i \in Items : i # <<t, a>> => (i \in pending' <=> i \in pending),
           \A u \in Tx : \/ txState'[u] = txState[u]
                         \/ u = t /\ txState'[u] \in {"APPLYING", "ROLLING_BACK"}
    PROVE  SettledOK'
<1>1. ASSUME NEW u \in Tx, NEW b \in Action
      PROVE  (/\ txState[u] = "ROLLED_BACK" => GivenBack(u, b)
              /\ txState[u] \in {"ROLLBACK_FAILED", "RECOVERY_REQUIRED"} =>
                   GivenBack(u, b) \/ <<u, b>> \in pending)'
  <2>1. <<u, b>> \in Items
    BY DEF Items
  <2>2. CASE u = t /\ b = a
    BY <2>2 DEF SettledOK, ItemSet, GivenBack
  <2>3. CASE ~(u = t /\ b = a)
    BY <2>1, <2>3 DEF SettledOK, ItemSet, GivenBack
  <2> QED
    BY <2>2, <2>3
<1> QED
  BY <1>1 DEF SettledOK

\* A transaction is settled when each of its items has ended.
LEMMA TxKeepsSettled ==
    ASSUME JournalTypeOK, SettledOK, NEW t \in Tx, NEW s,
           txState' = [txState EXCEPT ![t] = s], UNCHANGED <<itemState, pending>>,
           \/ s \in {"SUCCEEDED", "APPLYING", "PREPARED"}
           \/ /\ s = FinalState(job.rollbackFailed, job.recoveryRequired)
              /\ \A a \in Action : Ended(t, a)
    PROVE  SettledOK'
<1>1. txState'[t] = s /\ \A u \in Tx \ {t} : txState'[u] = txState[u]
  BY DEF JournalTypeOK
<1> QED
  BY <1>1 DEF SettledOK, GivenBack, Ended, FinalState

\* A commit that goes forward: everything before the item it is at is in todo.
LEMMA ForwardKeepsEnds ==
    ASSUME IInv, EndsOK,
           \/ \E s \in Slots : StartCommit(s)
           \/ Detect \/ Capture \/ Redetect \/ Prepare
           \/ StartApplying \/ ApplyRead \/ ApplyWrite \/ VerifyApplied \/ Succeed
                  \/ ApplyFailed
    PROVE  EndsOK'
<1> USE DEF StartPcs, ApplyPcs, WorkPcs, UndoPcs
<1>0. /\ job \in Jobs /\ JournalTypeOK /\ JournalOK /\ HolderOK
      /\ CurrentOK /\ SiblingsOK /\ SettledOK /\ UnwindingOK
  BY DEF IInv, WellTyped, TypeOK, StepOK, EndsOK
<1>1. ASSUME job'.pc \in StartPcs \union {"idle"}, UNCHANGED journal
      PROVE  EndsOK'
  <2>1. SettledOK'
    BY <1>0, <1>1 DEF SettledOK, GivenBack, journal
  <2> QED
    BY <1>1, <2>1, OutsideEnds DEF EndsOK
<1>2. CASE \E s \in Slots : StartCommit(s)
  <2>1. PICK s \in Slots : StartCommit(s)
    BY <1>2
  <2>2. CASE RecoveryPending
    BY <2>1, <2>2, NothingKeepsEnds DEF StartCommit, journal
  <2>3. CASE ~RecoveryPending
    BY <1>1, <2>1, <2>3 DEF StartCommit, Idle
  <2> QED
    BY <2>2, <2>3
<1>3. CASE Abort
  BY <1>1, <1>3 DEF Abort, Release, Idle
<1>4. CASE (Detect \/ Capture \/ Redetect) /\ ~Abort
  <2>1. job'.pc \in StartPcs /\ UNCHANGED journal
    BY <1>0, <1>4 DEF Detect, Capture, Redetect, Goto, Jobs
  <2> QED
    BY <1>1, <2>1
<1>5. CASE Prepare
  <2>1. PICK t \in Tx, a \in Action :
          /\ IsNextTx(t)
          /\ First(Planned(job.plan), a)
          /\ RecordPrepared(t, job.plan, job.draft, job.hold)
          /\ job' = [Idle EXCEPT !.op = "commit", !.by = "user", !.pc = "applying",
                                 !.tx = t, !.act = a, !.hold = job.hold]
    BY <1>5 DEF Prepare
  <2>2. job'.pc = "applying" /\ job'.tx = t /\ job'.act = a
    BY <2>1 DEF Idle
  <2>3. /\ txState'[t] = "PREPARED" /\ pending' = pending
        /\ \A u \in Tx \ {t} : txState'[u] = txState[u]
    BY <1>0, <2>1 DEF RecordPrepared, JournalTypeOK
  <2>4. \A u \in Tx \ {t}, b \in Action : itemState'[<<u, b>>] = itemState[<<u, b>>]
    BY <2>1 DEF RecordPrepared, Items
  <2>5. \A b \in Action : b < a => itemState'[<<t, b>>] = "NONE"
    <3>1. \A b \in Action : b < a => job.plan[b] = NoValue
      BY <2>1 DEF First, Planned, Action
    <3>2. \A b \in Action : itemState[<<t, b>>] = "NONE"
      BY <1>0, <2>1 DEF JournalOK, IsNextTx
    <3> QED
      BY <2>1, <3>1, <3>2 DEF RecordPrepared, Items
  <2>6. SettledOK'
    BY <1>0, <2>3, <2>4 DEF SettledOK, GivenBack
  <2>7. UnwindingOK' /\ BatchOK'
    BY <2>2, <2>5 DEF UnwindingOK, BatchOK, Unwinding, Reconciling
  <2> QED
    BY <2>6, <2>7 DEF EndsOK
<1>6. CASE Succeed
  <2>1. job'.pc = "idle" /\ job.tx \in Tx
    BY <1>0, <1>6 DEF Succeed, Release, Idle, HolderOK, EndPcs
  <2>2. SettledOK'
    BY <1>0, <1>6, <2>1, TxKeepsSettled DEF Succeed, SetTransactionState
  <2> QED
    BY <2>1, <2>2, OutsideEnds DEF EndsOK
<1>7. CASE \/ StartApplying \/ ApplyRead \/ ApplyWrite \/ ApplyFailed
           \/ VerifyApplied /\ UNCHANGED journal
  <2>1. /\ job.pc \in WorkPcs \ {"cancel"} /\ job'.pc \in WorkPcs \ {"cancel"}
               /\ job.op = "commit"
        /\ SameWork /\ job'.act = job.act /\ job'.todo = job.todo
        /\ job.tx \in Tx /\ job.act \in Action
    <3>1. CASE VerifyApplied /\ UNCHANGED journal
      <4>1. Goto("applyFailed")
        BY <1>0, <3>1
           DEF VerifyApplied, MarkItemApplied, CanMarkApplied, HolderOK, journal,
               JournalTypeOK, Items
      <4> QED
        BY <1>0, <3>1, <4>1 DEF VerifyApplied, Goto, Jobs, SameWork, HolderOK
    <3> QED
      BY <1>0, <1>7, <3>1
         DEF StartApplying, ApplyRead, ApplyWrite, ApplyFailed, Goto, Jobs, SameWork,
             HolderOK
  <2>2. \/ UNCHANGED <<txState, itemState, pending>>
        \/ /\ \E s \in OwnedStates : ItemSet(job.tx, job.act, s)
           /\ ~GivenBack(job.tx, job.act) /\ pending' = pending
           /\ \A u \in Tx : \/ txState'[u] = txState[u]
                            \/ u = job.tx /\ txState'[u] \in {"APPLYING", "ROLLING_BACK"}
    BY <1>0, <1>7, <2>1, OneItem
       DEF StartApplying, ApplyRead, ApplyWrite, VerifyApplied, ApplyFailed,
           MarkItemApplying, CanMarkApplying, MarkApplyFailure, CanMarkApplyFailure,
           GivenBack, OwnedStates, journal, JournalTypeOK
  <2>3. SettledOK'
    <3>1. CASE UNCHANGED <<txState, itemState, pending>>
      BY <1>0, <3>1 DEF SettledOK, GivenBack
    <3> QED
      BY <1>0, <2>1, <2>2, <3>1, ItemKeepsSettled
  <2>4. \A b \in Action : b < job.act
            => itemState'[<<job.tx, b>>] = itemState[<<job.tx, b>>]
    BY <2>1, <2>2 DEF ItemSet, Action
  <2>5. UnwindingOK' /\ BatchOK'
    BY <1>0, <2>1, <2>4 DEF UnwindingOK, BatchOK, Unwinding, Reconciling, SameWork
  <2> QED
    BY <2>3, <2>5 DEF EndsOK
<1>8. CASE VerifyApplied /\ ~UNCHANGED journal
  <2>1. /\ job.pc = "verify" /\ job.tx \in Tx /\ job.act \in Action
        /\ MarkItemApplied(job.tx, job.act)
    BY <1>0, <1>8 DEF VerifyApplied, HolderOK
  <2>2. /\ ItemSet(job.tx, job.act, "APPLIED") /\ ~GivenBack(job.tx, job.act)
        /\ pending' = pending /\ txState' = txState
    BY <1>0, <2>1, OneItem DEF MarkItemApplied, CanMarkApplied, GivenBack
  <2>3. SettledOK'
    BY <1>0, <2>1, <2>2, ItemKeepsSettled
  <2>4. CASE job'.pc = "succeed"
    BY <2>3, <2>4, OutsideEnds DEF EndsOK
  <2>5. CASE job'.pc # "succeed"
    <3>1. PICK b \in Action :
            /\ First(After(ActionsOf(job.tx), job.act), b)
            /\ job' = [job EXCEPT !.pc = "applying", !.act = b,
                   !.todo = job.todo \union {job.act}]
      BY <1>0, <1>8, <2>5 DEF VerifyApplied, Jobs
    <3>2. /\ job'.pc = "applying" /\ job'.tx = job.tx /\ job'.act = b
          /\ job'.todo = job.todo \union {job.act}
      BY <1>0, <3>1 DEF Jobs
    <3>3. ASSUME NEW c \in Action, c < b
          PROVE  itemState'[<<job.tx, c>>] = "NONE" \/ c \in job'.todo
      <4>1. CASE c < job.act
        BY <1>0, <2>1, <2>2, <3>2, <4>1 DEF UnwindingOK, ItemSet, Action
      <4>2. CASE c = job.act
        BY <3>2, <4>2
      <4>3. CASE job.act < c
        BY <2>1, <2>2, <3>1, <3>3, <4>3 DEF First, After, ActionsOf, ItemSet, Action
      <4> QED
        BY <2>1, <4>1, <4>2, <4>3 DEF Action
    <3> QED
      BY <2>3, <3>2, <3>3 DEF EndsOK, UnwindingOK, BatchOK, Unwinding, Reconciling
  <2> QED
    BY <2>4, <2>5
<1> QED
  BY <1>2, <1>3, <1>4, <1>5, <1>6, <1>7, <1>8

\* The failed item is judged, those behind it are cancelled.
LEMMA CancelKeepsEnds ==
    ASSUME IInv, EndsOK, JudgeFailed \/ CancelRest
    PROVE  EndsOK'
<1> USE DEF StartPcs, ApplyPcs, WorkPcs, UndoPcs
<1>0. /\ job \in Jobs /\ JournalTypeOK /\ HolderOK
      /\ CurrentOK /\ SiblingsOK /\ SettledOK /\ UnwindingOK
  BY DEF IInv, WellTyped, TypeOK, StepOK, EndsOK
<1>1. job.tx \in Tx /\ job.act \in Action /\ job.op = "commit"
  BY <1>0 DEF JudgeFailed, CancelRest, HolderOK
<1>2. CASE JudgeFailed
  <2>1. /\ job.pc = "judge" /\ job'.pc = "cancel" /\ SameWork /\ job'.act = job.act
        /\ itemState[<<job.tx, job.act>>] = "APPLY_FAILED"
    BY <1>0, <1>2 DEF JudgeFailed, Goto, Jobs, SameWork, CurrentOK
  <2>2. \A b \in Action : b < job.act
            => itemState[<<job.tx, b>>] = "NONE" \/ b \in job.todo
    BY <1>0, <2>1 DEF UnwindingOK
  <2>3. CASE /\ job' = [job EXCEPT !.pc = "cancel", !.todo = job.todo \union {job.act}]
             /\ UNCHANGED journal
    <3>1. job'.todo = job.todo \union {job.act}
      BY <1>0, <2>3 DEF Jobs
    <3>2. SettledOK'
      BY <1>0, <2>3 DEF SettledOK, GivenBack, journal
    <3>3. UnwindingOK' /\ BatchOK'
      BY <1>1, <2>1, <2>2, <2>3, <3>1
         DEF UnwindingOK, BatchOK, Unwinding, Reconciling, SameWork, Ended, GivenBack,
             journal, Action
    <3> QED
      BY <3>2, <3>3 DEF EndsOK
  <2>4. CASE \/ MarkItemRolledBack(job.tx, job.act) /\ Goto("cancel")
             \/ /\ RecordRecovery(job.tx, job.act, FALSE)
                /\ job' = [job EXCEPT !.pc = "cancel", !.recoveryRequired = TRUE]
    <3>1. PICK s \in {"ROLLED_BACK", "RECOVERY_REQUIRED"} :
            /\ ItemSet(job.tx, job.act, s) /\ txState' = txState
            /\ pending' = IF s = "ROLLED_BACK" THEN pending \ {<<job.tx, job.act>>}
                          ELSE pending \union {<<job.tx, job.act>>}
            /\ s = "RECOVERY_REQUIRED" => job'.recoveryRequired
            /\ job'.todo = job.todo
      BY <1>0, <1>1, <2>4, OneItem DEF MarkItemRolledBack, RecordRecovery, Goto, Jobs
    <3>2. SettledOK'
      BY <1>0, <1>1, <2>1, <3>1, ItemKeepsSettled DEF GivenBack
    <3>3. Ended(job.tx, job.act)'
      BY <1>1, <2>1, <3>1 DEF Ended, GivenBack, ItemSet, SameWork
    <3>4. \A b \in Action : b < job.act
              => itemState'[<<job.tx, b>>] = itemState[<<job.tx, b>>]
      BY <1>1, <3>1 DEF ItemSet, Action
    <3>5. UnwindingOK' /\ BatchOK'
      BY <1>1, <2>1, <2>2, <3>1, <3>3, <3>4
         DEF UnwindingOK, BatchOK, Unwinding, Reconciling, SameWork, Ended, GivenBack,
             Action
    <3> QED
      BY <3>2, <3>5 DEF EndsOK
  <2> QED
    BY <1>2, <2>3, <2>4 DEF JudgeFailed
<1>3. CASE CancelRest
  <2>1. /\ job.pc = "cancel"
        /\ \A b \in Action : b <= job.act => b \in job.todo \/ Ended(job.tx, b)
    BY <1>0, <1>3 DEF CancelRest, UnwindingOK
  <2>2. CASE Undispatched(job.tx, job.act) = {}
    <3>1. /\ job'.pc = "undo" /\ SameWork /\ job'.todo = job.todo
          /\ job'.rollbackFailed = job.rollbackFailed
          /\ job'.recoveryRequired = job.recoveryRequired
          /\ UNCHANGED journal
      BY <1>0, <1>3, <2>2 DEF CancelRest, Goto, Jobs, SameWork
    <3>2. \A b \in Action : b \in job.todo \/ Ended(job.tx, b)
      BY <1>1, <2>1, <2>2 DEF Undispatched, After, ActionsOf, Ended, GivenBack, Action
    <3>3. SettledOK'
      BY <1>0, <3>1 DEF SettledOK, GivenBack, journal
    <3>4. UnwindingOK' /\ BatchOK'
      BY <3>1, <3>2
         DEF UnwindingOK, BatchOK, Unwinding, Reconciling, SameWork, Ended, GivenBack,
             journal
    <3> QED
      BY <3>3, <3>4 DEF EndsOK
  <2>3. CASE Undispatched(job.tx, job.act) # {}
    <3>1. PICK b \in Action :
            /\ First(Undispatched(job.tx, job.act), b)
            /\ MarkItemRolledBack(job.tx, b)
            /\ job' = [job EXCEPT !.act = b]
      BY <1>3, <2>3 DEF CancelRest
    <3>2. /\ job'.pc = "cancel" /\ SameWork /\ job'.act = b /\ job'.todo = job.todo
          /\ job'.rollbackFailed = job.rollbackFailed
          /\ job'.recoveryRequired = job.recoveryRequired
      BY <1>0, <2>1, <3>1 DEF Jobs, SameWork
    <3>3. /\ ItemSet(job.tx, b, "ROLLED_BACK") /\ ~GivenBack(job.tx, b)
          /\ pending' = pending \ {<<job.tx, b>>} /\ txState' = txState
      BY <1>0, <1>1, <3>1, OneItem DEF MarkItemRolledBack, CanMarkRolledBack, GivenBack
    <3>4. SettledOK'
      BY <1>0, <1>1, <3>3, ItemKeepsSettled
    <3>5. \A c \in Action : c # b /\ Ended(job.tx, c) => Ended(job.tx, c)'
      BY <1>1, <3>2, <3>3 DEF ItemSet, Ended, GivenBack, SameWork, Items
    <3>6. ASSUME NEW c \in Action, c <= b
          PROVE  c \in job.todo \/ Ended(job.tx, c)'
      <4>1. CASE c = b
        BY <1>1, <3>2, <3>3, <4>1 DEF ItemSet, Ended, GivenBack, SameWork
      <4>2. CASE c # b /\ c <= job.act
        BY <2>1, <3>5, <4>2
      <4>3. CASE c # b /\ ~(c <= job.act)
        <5>1. Ended(job.tx, c)
          BY <1>1, <3>1, <3>6, <4>3
             DEF First, Undispatched, After, ActionsOf, Ended, GivenBack, Action
        <5> QED
          BY <3>5, <4>3, <5>1
      <4> QED
        BY <4>1, <4>2, <4>3
    <3>7. UnwindingOK' /\ BatchOK'
      BY <3>2, <3>6
         DEF UnwindingOK, BatchOK, Unwinding, Reconciling, SameWork, Ended, GivenBack
    <3> QED
      BY <3>4, <3>7 DEF EndsOK
  <2> QED
    BY <2>2, <2>3
<1> QED
  BY <1>2, <1>3

\* The items to undo are taken one by one, and then the transaction is settled.
LEMMA UnwindKeepsEnds ==
    ASSUME IInv, EndsOK, UndoNext \/ SettleCommit
    PROVE  EndsOK'
<1> USE DEF StartPcs, ApplyPcs, WorkPcs, UndoPcs
<1>0. /\ job \in Jobs /\ JournalTypeOK /\ HolderOK
      /\ SiblingsOK /\ SettledOK /\ UnwindingOK
  BY DEF IInv, WellTyped, TypeOK, StepOK, EndsOK
<1>1. job.tx \in Tx /\ job.op = "commit" /\ job.todo \subseteq Action
  BY <1>0 DEF UndoNext, SettleCommit, HolderOK, EndPcs, Jobs
<1>2. CASE UndoNext
  <2>1. /\ job.pc = "undo"
        /\ \A b \in Action : b \in job.todo \/ Ended(job.tx, b)
        /\ \A b \in job.todo : itemState[<<job.tx, b>>] \in {"APPLIED", "APPLY_FAILED"}
    BY <1>0, <1>2 DEF UndoNext, UnwindingOK, SiblingsOK, Unwinding
  <2>2. CASE job.todo = {}
    <3>1. /\ job'.pc = "settle" /\ SameWork /\ UNCHANGED journal
          /\ job'.rollbackFailed = job.rollbackFailed
          /\ job'.recoveryRequired = job.recoveryRequired
      BY <1>0, <1>2, <2>2 DEF UndoNext, Goto, Jobs, SameWork
    <3>2. SettledOK'
      BY <1>0, <3>1 DEF SettledOK, GivenBack, journal
    <3>3. UnwindingOK' /\ BatchOK'
      BY <2>1, <2>2, <3>1
         DEF UnwindingOK, BatchOK, Unwinding, Reconciling, SameWork, Ended, GivenBack,
             journal
    <3> QED
      BY <3>2, <3>3 DEF EndsOK
  <2>3. CASE job.todo # {} /\ MutationAllowed(job.tx)
    <3>1. PICK a \in Action :
            /\ NextToUndo(job.todo, a)
            /\ MarkTxRollingBack(job.tx, a)
            /\ job' = [job EXCEPT !.pc = "undoRead", !.act = a, !.todo = job.todo \ {a}]
      BY <1>2, <2>3 DEF UndoNext
    <3>2. /\ job'.pc = "undoRead" /\ SameWork /\ job'.act = a
                 /\ job'.todo = job.todo \ {a}
          /\ job'.rollbackFailed = job.rollbackFailed
          /\ job'.recoveryRequired = job.recoveryRequired
      BY <1>0, <3>1 DEF Jobs, SameWork
    <3>3. /\ ItemSet(job.tx, a, "ROLLING_BACK") /\ ~GivenBack(job.tx, a)
                 /\ pending' = pending
          /\ \A u \in Tx : \/ txState'[u] = txState[u]
                           \/ u = job.tx /\ txState'[u] \in {"APPLYING", "ROLLING_BACK"}
      BY <1>0, <1>1, <2>1, <3>1, OneItem
         DEF MarkTxRollingBack, JournalTypeOK, GivenBack, NextToUndo, Last
    <3>4. SettledOK'
      BY <1>0, <1>1, <3>3, ItemKeepsSettled
    <3>5. \A b \in Action : b # a /\ Ended(job.tx, b) => Ended(job.tx, b)'
      BY <1>1, <3>2, <3>3 DEF ItemSet, Ended, GivenBack, SameWork, Items
    <3>6. UnwindingOK' /\ BatchOK'
      BY <1>1, <2>1, <3>2, <3>5
         DEF UnwindingOK, BatchOK, Unwinding, Reconciling, SameWork, Ended, GivenBack
    <3> QED
      BY <3>4, <3>6 DEF EndsOK
  <2>4. CASE job.todo # {} /\ ~MutationAllowed(job.tx)
    <3>1. PICK a \in Action :
            /\ NextToUndo(job.todo, a)
            /\ RecordRecovery(job.tx, a, FALSE)
            /\ job' = [job EXCEPT !.todo = job.todo \ {a}, !.recoveryRequired = TRUE]
      BY <1>2, <2>4 DEF UndoNext
    <3>2. /\ job'.pc = "undo" /\ SameWork /\ job'.todo = job.todo \ {a}
          /\ job'.rollbackFailed = job.rollbackFailed /\ job'.recoveryRequired
      BY <1>0, <2>1, <3>1 DEF Jobs, SameWork
    <3>3. /\ ItemSet(job.tx, a, "RECOVERY_REQUIRED") /\ ~GivenBack(job.tx, a)
          /\ pending' = pending \union {<<job.tx, a>>} /\ txState' = txState
      BY <1>0, <1>1, <3>1, OneItem DEF RecordRecovery, CanRecordRecovery, GivenBack
    <3>4. SettledOK'
      BY <1>0, <1>1, <3>3, ItemKeepsSettled
    <3>5. \A b \in Action : b # a /\ Ended(job.tx, b) => Ended(job.tx, b)'
      <4>1. \A b \in Action : b # a =>
              /\ itemState'[<<job.tx, b>>] = itemState[<<job.tx, b>>]
              /\ <<job.tx, b>> \in pending => <<job.tx, b>> \in pending'
        BY <1>1, <3>3 DEF ItemSet
      <4> QED
        BY <3>2, <4>1 DEF Ended, GivenBack, SameWork
    <3>6. Ended(job.tx, a)'
      BY <1>1, <3>2, <3>3 DEF Ended, ItemSet, SameWork
    <3>7. UnwindingOK' /\ BatchOK'
      BY <1>1, <2>1, <3>2, <3>5, <3>6
         DEF UnwindingOK, BatchOK, Unwinding, Reconciling, SameWork, Ended, GivenBack
    <3> QED
      BY <3>4, <3>7 DEF EndsOK
  <2> QED
    BY <2>2, <2>3, <2>4
<1>3. CASE SettleCommit
  <2>1. job'.pc = "idle" /\ \A b \in Action : Ended(job.tx, b)
    BY <1>0, <1>3 DEF SettleCommit, Release, Idle, UnwindingOK
  <2>2. SettledOK'
    BY <1>0, <1>1, <1>3, <2>1, TxKeepsSettled DEF SettleCommit, SetTransactionState
  <2> QED
    BY <2>1, <2>2, OutsideEnds DEF EndsOK
<1> QED
  BY <1>2, <1>3

\* One item is restored, for whichever of the three operations.
LEMMA UndoKeepsEnds ==
    ASSUME IInv, EndsOK, UndoStep
    PROVE  EndsOK'
<1> USE DEF StartPcs, ApplyPcs, WorkPcs, UndoPcs
<1>0. /\ job \in Jobs /\ JournalTypeOK /\ HolderOK
      /\ CurrentOK /\ SettledOK /\ UnwindingOK /\ BatchOK
  BY DEF IInv, WellTyped, TypeOK, StepOK, EndsOK
<1>1. /\ job.pc \in UndoPcs /\ job.tx \in Tx /\ job.act \in Action
      /\ job.op \in {"commit", "rollback", "reconcile"}
      /\ itemState[<<job.tx, job.act>>] = "ROLLING_BACK" /\ job.batch \subseteq Tx
  BY <1>0
     DEF UndoStep, UndoRead, UndoWrite, UndoVerify, UndoFailed, HolderOK, CurrentOK,
         Jobs
<1>2. CASE UndoRead \/ UndoWrite
  <2>1. PICK pc \in UndoPcs : Goto(pc) /\ UNCHANGED journal
    BY <1>2 DEF UndoRead, UndoWrite
  <2>2. /\ job'.pc \in UndoPcs /\ SameWork /\ job'.act = job.act /\ job'.todo = job.todo
        /\ job'.rollbackFailed = job.rollbackFailed
        /\ job'.recoveryRequired = job.recoveryRequired
        /\ job'.batch = job.batch /\ job'.queue = job.queue /\ job'.kept = job.kept
    BY <1>0, <2>1 DEF Goto, Jobs, SameWork
  <2>3. SettledOK'
    BY <1>0, <2>1 DEF SettledOK, GivenBack, journal
  <2>4. UnwindingOK'
    BY <1>0, <1>1, <2>1, <2>2
       DEF UnwindingOK, Unwinding, SameWork, Ended, GivenBack, journal
  <2>5. BatchOK'
    BY <1>0, <1>1, <2>1, <2>2
       DEF BatchOK, Reconciling, SameWork, Ended, GivenBack, journal, First
  <2> QED
    BY <2>3, <2>4, <2>5 DEF EndsOK
<1>3. CASE UndoVerify \/ UndoFailed
  <2>1. PICK s \in {"ROLLED_BACK", "ROLLBACK_FAILED"}, failed \in BOOLEAN :
          /\ Resume(failed) /\ (s = "ROLLBACK_FAILED" => failed)
          /\ ItemSet(job.tx, job.act, s) /\ txState' = txState
          /\ pending' = IF s = "ROLLED_BACK" THEN pending \ {<<job.tx, job.act>>}
                        ELSE pending \union {<<job.tx, job.act>>}
    <3>1. \/ MarkItemRolledBack(job.tx, job.act) /\ Resume(FALSE)
          \/ RecordRecovery(job.tx, job.act, TRUE) /\ Resume(TRUE)
      BY <1>3 DEF UndoVerify, UndoFailed
    <3>2. CASE MarkItemRolledBack(job.tx, job.act) /\ Resume(FALSE)
      BY <1>0, <1>1, <3>2, OneItem DEF MarkItemRolledBack
    <3>3. CASE RecordRecovery(job.tx, job.act, TRUE) /\ Resume(TRUE)
      BY <1>0, <1>1, <3>3, OneItem DEF RecordRecovery
    <3> QED
      BY <3>1, <3>2, <3>3
  <2>2. SettledOK'
    BY <1>0, <1>1, <2>1, ItemKeepsSettled DEF GivenBack
  <2>3. CASE job.op = "rollback"
    BY <2>1, <2>2, <2>3, OutsideEnds DEF EndsOK, Resume, Release, Idle
  <2>4. CASE job.op = "commit"
    <3>1. /\ job'.pc = "undo" /\ SameWork /\ job'.todo = job.todo
          /\ job'.rollbackFailed = (job.rollbackFailed \/ failed)
          /\ job'.recoveryRequired = job.recoveryRequired
      BY <1>0, <2>1, <2>4 DEF Resume, Jobs, SameWork
    <3>2. \A b \in Action : b \in job.todo \/ Ended(job.tx, b) \/ b = job.act
      BY <1>0, <1>1, <2>4 DEF UnwindingOK, Unwinding
    <3>3. \A b \in Action : b # job.act /\ Ended(job.tx, b) => Ended(job.tx, b)'
      <4>1. \A b \in Action : b # job.act =>
              /\ itemState'[<<job.tx, b>>] = itemState[<<job.tx, b>>]
              /\ <<job.tx, b>> \in pending => <<job.tx, b>> \in pending'
        BY <1>1, <2>1 DEF ItemSet
      <4> QED
        BY <3>1, <4>1 DEF Ended, GivenBack, SameWork
    <3>4. \A b \in Action : b = job.act => Ended(job.tx, b)'
      BY <1>1, <2>1, <3>1 DEF ItemSet, Ended, GivenBack, SameWork
    <3>5. UnwindingOK' /\ BatchOK'
      BY <2>4, <3>1, <3>2, <3>3, <3>4
         DEF UnwindingOK, BatchOK, Unwinding, Reconciling, SameWork, Ended, GivenBack
    <3> QED
      BY <2>2, <3>5 DEF EndsOK
  <2>5. CASE job.op = "reconcile"
    <3>1. /\ job'.pc = "next" /\ SameWork
          /\ job'.rollbackFailed = (job.rollbackFailed \/ failed)
          /\ job'.recoveryRequired = job.recoveryRequired
          /\ job'.batch = job.batch /\ job'.queue = job.queue /\ job'.kept = job.kept
      BY <1>0, <2>1, <2>5 DEF Resume, Jobs, SameWork
    <3>2. /\ First(job.batch, job.tx)
          /\ \A t \in job.batch \ job.kept, a \in Action :
                \/ <<t, a>> \in job.queue
                \/ GivenBack(t, a)
                \/ t = job.tx /\ a = job.act
                \/ First(job.batch, t) /\ Ended(t, a)
      BY <1>0, <1>1, <2>5 DEF BatchOK, Reconciling
    <3>3. ASSUME NEW t \in job.batch \ job.kept, NEW a \in Action
          PROVE  \/ <<t, a>> \in job.queue
                 \/ GivenBack(t, a)'
                 \/ First(job.batch, t) /\ Ended(t, a)'
      <4>1. t \in Tx /\ <<t, a>> \in Items
        BY <1>1 DEF Items
      <4>2. CASE t = job.tx /\ a = job.act
        BY <2>1, <3>1, <3>2, <4>1, <4>2 DEF ItemSet, Ended, GivenBack
      <4>3. CASE ~(t = job.tx /\ a = job.act)
        <5>1. itemState'[<<t, a>>] = itemState[<<t, a>>]
          BY <2>1, <4>1, <4>3 DEF ItemSet
        <5>2. <<t, a>> \in pending => <<t, a>> \in pending'
          BY <2>1, <4>3
        <5> QED
          BY <3>1, <3>2, <4>3, <5>1, <5>2 DEF Ended, GivenBack
      <4> QED
        BY <4>2, <4>3
    <3>4. BatchOK'
      BY <3>1, <3>3 DEF BatchOK, Reconciling
    <3>5. UnwindingOK'
      BY <3>1 DEF UnwindingOK, Unwinding
    <3> QED
      BY <2>2, <3>4, <3>5 DEF EndsOK
  <2> QED
    BY <1>1, <2>3, <2>4, <2>5
<1> QED
  BY <1>2, <1>3 DEF UndoStep

\* A single rollback works on an item that was not given back.
LEMMA RollbackKeepsEnds ==
    ASSUME IInv, EndsOK,
           RollbackOne \/ RevertItem \/ \E t \in Tx, a \in Action : StartRollback(t, a)
    PROVE  EndsOK'
<1> USE DEF StartPcs, ApplyPcs, WorkPcs, UndoPcs
<1>0. /\ job \in Jobs /\ JournalTypeOK /\ HolderOK /\ CurrentOK /\ SettledOK
  BY DEF IInv, WellTyped, TypeOK, StepOK, EndsOK
<1>1. CASE RevertItem \/ \E t \in Tx, a \in Action : StartRollback(t, a)
  <2>1. UNCHANGED journal /\ (job' = job \/ job'.pc = "item")
    BY <1>1 DEF RevertItem, StartRollback, RollbackJob, Idle
  <2>2. CASE job' = job
    BY <2>1, <2>2, NothingKeepsEnds DEF journal
  <2>3. CASE job'.pc = "item"
    <3>1. SettledOK'
      BY <1>0, <2>1 DEF SettledOK, GivenBack, journal
    <3> QED
      BY <2>3, <3>1, OutsideEnds DEF EndsOK
  <2> QED
    BY <2>1, <2>2, <2>3
<1>2. CASE RollbackOne
  <2>1. /\ job.pc = "item" /\ job.op = "rollback" /\ job.tx \in Tx /\ job.act \in Action
        /\ itemState[<<job.tx, job.act>>] \in {"APPLIED", "ROLLING_BACK"}
    BY <1>0, <1>2 DEF RollbackOne, HolderOK, CurrentOK
  <2>2. \/ job'.pc = "idle"
        \/ job'.pc = "undoRead" /\ job'.op = "rollback"
    <3>1. job' = Idle \/ Goto("undoRead")
      BY <1>2 DEF RollbackOne, Release
    <3> QED
      BY <1>0, <2>1, <3>1 DEF Goto, Idle, Jobs
  <2>3. UnwindingOK' /\ BatchOK'
    BY <2>2 DEF UnwindingOK, BatchOK, Unwinding, Reconciling
  <2>4. CASE UNCHANGED journal
    BY <1>0, <2>3, <2>4 DEF EndsOK, SettledOK, GivenBack, journal
  <2>5. CASE \/ MarkItemRolledBack(job.tx, job.act)
             \/ MarkItemRollingBack(job.tx, job.act)
             \/ RecordRecovery(job.tx, job.act, FALSE)
    <3>1. PICK s \in {"ROLLED_BACK", "ROLLING_BACK", "RECOVERY_REQUIRED"} :
            /\ ItemSet(job.tx, job.act, s) /\ txState' = txState
            /\ \/ s = "ROLLED_BACK" /\ pending' = pending \ {<<job.tx, job.act>>}
               \/ pending' \in {pending, pending \union {<<job.tx, job.act>>}}
      BY <1>0, <2>1, <2>5, OneItem
         DEF MarkItemRolledBack, MarkItemRollingBack, RecordRecovery
    <3>2. SettledOK'
      BY <1>0, <2>1, <3>1, ItemKeepsSettled DEF GivenBack
    <3> QED
      BY <2>3, <3>2 DEF EndsOK
  <2> QED
    BY <1>2, <2>4, <2>5 DEF RollbackOne
<1> QED
  BY <1>1, <1>2

\* A reconcile loads everything of an unsettled transaction that has not ended.
LEMMA ReconcileJobKeepsEnds ==
    ASSUME IInv, EndsOK, NEW by, job' = ReconcileJob(by), UNCHANGED journal
    PROVE  EndsOK'
<1>0. JournalTypeOK /\ JournalOK /\ SettledOK
  BY DEF IInv, WellTyped, TypeOK, EndsOK
<1>1. /\ job'.pc = "next" /\ job'.batch = LoadedTx(SessionActions)
      /\ job'.queue = {i \in LoadedItems(SessionActions) : itemState[i] # "ROLLED_BACK"}
      /\ job'.kept = {t \in LoadedTx(SessionActions) : txState[t] = "SUCCEEDED"}
  BY DEF ReconcileJob, Idle
<1>2. SettledOK'
  BY <1>0 DEF SettledOK, GivenBack, journal
<1>3. ASSUME NEW t \in Tx, NEW a \in Action,
             txState[t] # "SUCCEEDED", ~GivenBack(t, a)
      PROVE  <<t, a>> \in job'.queue
  <2>1. txState[t] \in TxStates \ {"NONE", "SUCCEEDED", "ROLLED_BACK"}
    BY <1>0, <1>3 DEF JournalOK, JournalTypeOK, SettledOK, GivenBack
  <2>2. InFlight(t) \/ <<t, a>> \in pending
    BY <1>0, <1>3, <2>1 DEF InFlight, InFlightStates, TxStates, SettledOK
  <2> QED
    BY <1>1, <1>3, <2>2 DEF LoadedItems, Loads, Items, GivenBack
<1>4. BatchOK'
  BY <1>1, <1>3 DEF BatchOK, LoadedTx, GivenBack, UndoPcs, journal
<1>5. UnwindingOK'
  BY <1>1 DEF UnwindingOK, Unwinding, WorkPcs, ApplyPcs, UndoPcs
<1> QED
  BY <1>2, <1>4, <1>5 DEF EndsOK

\* Recovery takes the items of its first transaction one by one, and settles it
\* when none is left.
LEMMA ReconcileKeepsEnds ==
    ASSUME IInv, EndsOK, ReconcileStep
    PROVE  EndsOK'
<1> USE DEF StartPcs, ApplyPcs, WorkPcs, UndoPcs
<1>0. /\ job \in Jobs /\ JournalTypeOK /\ HolderOK /\ SettledOK /\ BatchOK
  BY DEF IInv, WellTyped, TypeOK, StepOK, EndsOK
<1>1. /\ job.pc = "next" /\ job.op = "reconcile" /\ job.batch \subseteq Tx
      /\ \A u \in job.batch \ job.kept, b \in Action :
            \/ <<u, b>> \in job.queue
            \/ GivenBack(u, b)
            \/ First(job.batch, u) /\ Ended(u, b)
  BY <1>0
     DEF ReconcileStep, ReconcileItem, ReconcileSettle, ReconcileEnd, HolderOK,
         BatchOK, Reconciling, Jobs
<1>2. CASE UNCHANGED journal /\ \E ok \in BOOLEAN : Release(ok)
  <2>1. job'.pc = "idle" /\ SettledOK'
    BY <1>0, <1>2 DEF Release, Idle, SettledOK, GivenBack, journal
  <2> QED
    BY <2>1, OutsideEnds DEF EndsOK
<1>3. CASE ReconcileItem /\ ~(UNCHANGED journal /\ \E ok \in BOOLEAN : Release(ok))
  <2>1. PICK t \in Tx, a \in Action :
          /\ First(job.batch, t)
          /\ \/ GiveUp(t, a)
             \/ /\ MarkItemRolledBack(t, a)
                /\ job' = [job EXCEPT !.queue = job.queue \ {<<t, a>>}]
             \/ /\ MarkTxRollingBack(t, a)
                /\ job' = [job EXCEPT !.pc = "undoRead", !.tx = t, !.act = a,
                                      !.queue = job.queue \ {<<t, a>>}]
    BY ZenonT(60), <1>3 DEF ReconcileItem
  <2>2. PICK s \in {"ROLLED_BACK", "RECOVERY_REQUIRED", "ROLLING_BACK"} :
          /\ ItemSet(t, a, s) /\ ~GivenBack(t, a)
          /\ \A u \in Tx : \/ txState'[u] = txState[u]
                           \/ u = t /\ txState'[u] \in {"APPLYING", "ROLLING_BACK"}
          /\ \/ s = "ROLLED_BACK" /\ pending' = pending \ {<<t, a>>} /\ job'.pc = "next"
                /\ job'.recoveryRequired = job.recoveryRequired
             \/ s = "RECOVERY_REQUIRED" /\ pending' = pending \union {<<t, a>>}
                    /\ job'.pc = "next"
                /\ job'.recoveryRequired
             \/ s = "ROLLING_BACK" /\ pending' = pending /\ job'.pc = "undoRead"
                /\ job'.tx = t /\ job'.act = a
                       /\ job'.recoveryRequired = job.recoveryRequired
    <3>1. CASE GiveUp(t, a)
      BY <1>0, <1>1, <3>1, OneItem
         DEF GiveUp, RecordRecovery, CanRecordRecovery, GivenBack, Jobs
    <3>2. CASE /\ MarkItemRolledBack(t, a)
               /\ job' = [job EXCEPT !.queue = job.queue \ {<<t, a>>}]
      BY <1>0, <1>1, <3>2, OneItem
         DEF MarkItemRolledBack, CanMarkRolledBack, GivenBack, Jobs
    <3>3. CASE /\ MarkTxRollingBack(t, a)
               /\ job' = [job EXCEPT !.pc = "undoRead", !.tx = t, !.act = a,
                                     !.queue = job.queue \ {<<t, a>>}]
      BY <1>0, <1>1, <3>3, OneItem
         DEF MarkTxRollingBack, CanMarkTxRollingBack, CanMarkItemRollingBack,
             GivenBack, Jobs, JournalTypeOK
    <3> QED
      BY <2>1, <3>1, <3>2, <3>3
  <2>3. /\ job'.op = "reconcile" /\ job'.batch = job.batch /\ job'.kept = job.kept
        /\ job'.queue = job.queue \ {<<t, a>>} /\ job'.rollbackFailed = job.rollbackFailed
    BY <1>0, <1>1, <2>1 DEF GiveUp, Jobs
  <2>4. SettledOK'
    BY <1>0, <2>2, ItemKeepsSettled
  <2>5. ASSUME NEW u \in job.batch \ job.kept, NEW b \in Action
        PROVE  \/ <<u, b>> \in job'.queue
               \/ GivenBack(u, b)'
               \/ job'.pc \in UndoPcs /\ u = job'.tx /\ b = job'.act
               \/ First(job.batch, u) /\ Ended(u, b)'
    <3>1. u \in Tx
      BY <1>1
    <3>2. CASE u = t /\ b = a
      BY <2>1, <2>2, <3>2 DEF ItemSet, Ended, GivenBack
    <3>3. CASE ~(u = t /\ b = a)
      <4>1. itemState'[<<u, b>>] = itemState[<<u, b>>]
                /\ (<<u, b>> \in pending => <<u, b>> \in pending')
        BY <2>2, <3>1, <3>3 DEF ItemSet
      <4>2. job.recoveryRequired => job'.recoveryRequired
        BY <2>2
      <4> QED
        BY <1>1, <2>3, <3>3, <4>1, <4>2 DEF Ended, GivenBack
    <3> QED
      BY <3>2, <3>3
  <2>6. BatchOK'
    BY <2>1, <2>2, <2>3, <2>5 DEF BatchOK, Reconciling
  <2>7. UnwindingOK'
    BY <2>2, <2>3 DEF UnwindingOK, Unwinding
  <2> QED
    BY <2>4, <2>6, <2>7 DEF EndsOK
<1>4. CASE ReconcileSettle
  <2>1. PICK t \in Tx :
          /\ First(job.batch, t) /\ QueueOf(t) = {}
          /\ SetTransactionState(t, IF t \in job.kept THEN "SUCCEEDED"
                                    ELSE FinalState(job.rollbackFailed,
                                        job.recoveryRequired))
          /\ job' = [job EXCEPT !.batch = job.batch \ {t}, !.tx = 0, !.act = 0,
                                !.rollbackFailed = FALSE, !.recoveryRequired = FALSE]
    BY <1>4 DEF ReconcileSettle
  <2>2. /\ job'.pc = "next" /\ job'.batch = job.batch \ {t} /\ job'.queue = job.queue
        /\ job'.kept = job.kept
    BY <1>0, <1>1, <2>1 DEF Jobs
  <2>3. t \notin job.kept => \A a \in Action : Ended(t, a)
    BY <1>1, <2>1 DEF QueueOf, First, Ended
  <2>4. SettledOK'
    BY <1>0, <2>1, <2>3, TxKeepsSettled DEF SetTransactionState
  <2>5. \A u \in job'.batch \ job'.kept, a \in Action :
          <<u, a>> \in job'.queue \/ GivenBack(u, a)'
    <3>1. \A u \in job.batch : u # t => ~First(job.batch, u)
      BY <1>1, <2>1 DEF First, Tx
    <3> QED
      BY <1>1, <2>1, <2>2, <3>1 DEF SetTransactionState, GivenBack
  <2>6. BatchOK' /\ UnwindingOK'
    BY <2>2, <2>5 DEF BatchOK, Reconciling, UnwindingOK, Unwinding
  <2> QED
    BY <2>4, <2>6 DEF EndsOK
<1> QED
  BY <1>2, <1>3, <1>4 DEF ReconcileStep, ReconcileEnd

\* Every step keeps it.
LEMMA NextKeepsEnds ==
    ASSUME IInv, EndsOK, [Next]_vars
    PROVE  EndsOK'
<1>1. CASE CommitStep
  BY <1>1, ForwardKeepsEnds, CancelKeepsEnds, UnwindKeepsEnds DEF CommitStep
<1>2. CASE UndoStep \/ ReconcileStep
  BY <1>2, UndoKeepsEnds, ReconcileKeepsEnds
<1>3. CASE RollbackOne \/ RevertItem \/ \E t \in Tx, a \in Action : StartRollback(t, a)
  BY <1>3, RollbackKeepsEnds
<1>4. CASE StartReconcile \/ Boot
  BY <1>4, ReconcileJobKeepsEnds DEF StartReconcile, Boot
<1>5. CASE \E s \in Slots : StartCommit(s)
  BY <1>5, ForwardKeepsEnds
<1>6. CASE JobAborts \/ Crash
  <2>1. job'.pc = "idle" /\ UNCHANGED journal
    BY <1>6 DEF JobAborts, Abort, Release, Crash, Idle
  <2>2. SettledOK'
    BY <2>1 DEF EndsOK, SettledOK, GivenBack, journal
  <2> QED
    BY <2>1, <2>2, OutsideEnds DEF EndsOK
<1>7. CASE \/ RevertScan \/ RevertPick \/ RevertClear \/ RevertEnd
           \/ WindowsUpdate \/ UNCHANGED vars
           \/ \E a \in Action, v \in Values : OutsideWrite(a, v)
  BY <1>7, NothingKeepsEnds
     DEF RevertScan, RevertPick, RevertClear, RevertEnd, WindowsUpdate, OutsideWrite,
         ClearTrialRow, journal, vars
<1>8. CASE \/ \E s \in Slots : \/ Preview(s) \/ PreviewExpires(s)
                               \/ \E hold \in BOOLEAN : ClaimPreview(s, hold)
           \/ \E t \in Tx : Confirm(t) \/ ClearUndoneTrial(t) \/ HoldElapses(t)
  BY <1>8, NothingKeepsEnds
     DEF Preview, PreviewExpires, ClaimPreview, Confirm, ClearUndoneTrial, HoldElapses,
         ConfirmTrialRow, ClearTrialRow, journal
<1> QED
  BY <1>1, <1>2, <1>3, <1>4, <1>5, <1>6, <1>7, <1>8
     DEF Next, EngineStep, RevertStep, UserStep, FaultStep

\* Nothing has begun at first.
LEMMA InitEnds == Init => EndsOK
  BY DEF Init, JournalInit, Idle, EndsOK, SettledOK, UnwindingOK, BatchOK, Unwinding,
         Reconciling, GivenBack, WorkPcs, ApplyPcs, UndoPcs, Items

\* What the journal calls ROLLED_BACK has nothing left to give back.
THEOREM RolledBackMeansComplete == Spec => []RolledBackIsComplete
<1>1. Init => EndsOK
  BY InitEnds
<1>2. IInv /\ EndsOK /\ [Next]_vars => EndsOK'
  BY NextKeepsEnds
<1>3. EndsOK => RolledBackIsComplete
  BY DEF EndsOK, SettledOK, GivenBack, RolledBackIsComplete
<1> QED
  BY <1>1, <1>2, <1>3, Invariant, PTL DEF Spec

==============================================================================
