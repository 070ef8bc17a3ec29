---------------------- MODULE ChangeEngineTypes_proofs ----------------------
(***************************************************************************)
(* ChangeEngine is type correct, for any number of transactions, settings, *)
(* values and previews.  TypeOK alone is not inductive: it does not say    *)
(* where the holder of the gate has a transaction, an action and a row at  *)
(* all, nor that a row holds a backup and an invocation that can be        *)
(* written to a setting.  HolderOK and RowsHoldValues do.                  *)
(***************************************************************************)
EXTENDS ChangeEngine, TLAPS

-----------------------------------------------------------------------------
(* What every journal statement preserves, whoever executes it. *)

\* Every item has a backup and an invocation.
RowsHoldValues ==
    \A i \in Items : itemState[i] # "NONE" => orig[i] \in Values /\ want[i] \in Values

JournalSound == JournalTypeOK /\ RowsHoldValues

\* No statement deletes an item.
RowsStay == \A i \in Items : itemState[i] # "NONE" => itemState'[i] # "NONE"

\* Every statement keeps the types of the journal's columns: in particular
\* the states it writes are states its readers know (ItemState::from_db and
\* TransactionState::from_db fail on any other).
LEMMA PrepareTypes ==
    ASSUME JournalSound, NEW t \in Tx, NEW p \in Plans, NEW b \in Plans,
           NEW hold \in BOOLEAN, RecordPrepared(t, p, b, hold),
           \A a \in Action : p[a] # NoValue => b[a] \in Values
    PROVE  JournalSound' /\ RowsStay
<1>1. JournalTypeOK'
  BY DEF JournalSound, JournalTypeOK, RecordPrepared, Items, Plans, TxStates, ItemStates
<1>2. \A i \in Items : i[2] \in Action
  BY DEF Items
<1>3. RowsHoldValues'
  BY <1>2 DEF JournalSound, JournalTypeOK, RowsHoldValues, RecordPrepared, Plans
<1>4. RowsStay
  BY DEF RowsStay, RecordPrepared
<1> QED
  BY <1>1, <1>3, <1>4 DEF JournalSound

\* The same of every statement about one item: mark_item_applying to
\* record_recovery_item.
LEMMA ItemStatementTypes ==
    ASSUME JournalSound, NEW t \in Tx, NEW a \in Action,
           \/ MarkItemApplying(t, a)
           \/ MarkItemApplied(t, a)
           \/ MarkApplyFailure(t, a)
           \/ MarkItemRollingBack(t, a)
           \/ MarkTxRollingBack(t, a)
           \/ MarkItemRolledBack(t, a)
           \/ \E failed \in BOOLEAN : RecordRecovery(t, a, failed)
    PROVE  JournalSound' /\ RowsStay
<1>0. <<t, a>> \in Items
  BY DEF Items
<1> USE DEF JournalSound, RowsHoldValues, RowsStay, JournalTypeOK, TxStates, ItemStates
<1>1. CASE MarkItemApplying(t, a)
  BY <1>0, <1>1 DEF MarkItemApplying, CanMarkApplying
<1>2. CASE MarkItemApplied(t, a)
  BY <1>0, <1>2 DEF MarkItemApplied, CanMarkApplied
<1>3. CASE MarkApplyFailure(t, a)
  BY <1>0, <1>3 DEF MarkApplyFailure, CanMarkApplyFailure
<1>4. CASE MarkItemRollingBack(t, a)
  BY <1>0, <1>4 DEF MarkItemRollingBack, CanMarkItemRollingBack
<1>5. CASE MarkTxRollingBack(t, a)
  BY <1>0, <1>5 DEF MarkTxRollingBack, CanMarkTxRollingBack, CanMarkItemRollingBack
<1>6. CASE MarkItemRolledBack(t, a)
  BY <1>0, <1>6 DEF MarkItemRolledBack, CanMarkRolledBack
<1>7. CASE \E failed \in BOOLEAN : RecordRecovery(t, a, failed)
  BY <1>0, <1>7 DEF RecordRecovery, CanRecordRecovery
<1> QED
  BY <1>1, <1>2, <1>3, <1>4, <1>5, <1>6, <1>7

\* The same of the statements about a transaction or its trial.
LEMMA TxStatementTypes ==
    ASSUME JournalSound, NEW t \in Tx,
           \/ \E s \in TxStates : SetTransactionState(t, s)
           \/ ConfirmTrialRow(t)
           \/ ClearTrialRow(t)
    PROVE  JournalSound' /\ RowsStay
  BY DEF JournalSound, RowsHoldValues, RowsStay, JournalTypeOK,
         SetTransactionState, ConfirmTrialRow, ClearTrialRow

\* A step without a statement keeps them too.
LEMMA NoStatement ==
    ASSUME JournalSound, UNCHANGED journal
    PROVE  JournalSound' /\ RowsStay
  BY DEF JournalSound, RowsHoldValues, RowsStay, JournalTypeOK, journal

-----------------------------------------------------------------------------
(* The engine. *)

StartPcs == {"detect", "capture", "redetect", "prepare"}
ApplyPcs == {"applyRead", "applyWrite", "verify", "applyFailed"}
WorkPcs  == {"applying", "judge", "cancel"} \union ApplyPcs
EndPcs   == {"succeed", "undo", "settle"}
UndoPcs  == {"undoRead", "undoWrite", "undoVerify", "undoFailed"}

\* Which operation is where, and on what it works.
HolderOK ==
    /\ job.pc \in StartPcs \union WorkPcs \union EndPcs => job.op = "commit"
    /\ job.pc = "item" => job.op = "rollback"
    /\ job.pc = "next" => job.op = "reconcile"
    /\ job.pc \in UndoPcs => job.op \in {"commit", "rollback", "reconcile"}
    /\ job.pc \in StartPcs \union WorkPcs \union UndoPcs \union {"item"}
           => job.act \in Action
    /\ job.pc \in WorkPcs \union UndoPcs \union EndPcs \union {"item"} => job.tx \in Tx

\* It reads and writes a setting only for an item that is in the journal.
HolderHasRow == job.pc \in OsPcs => itemState[<<job.tx, job.act>>] # "NONE"

\* The settings that were backed up so far, in the order of their actions.
BackedUp ==
    /\ job.pc \in {"detect", "capture"} =>
         \A a \in Planned(job.plan) : a < job.act => job.draft[a] \in Values
    /\ job.pc = "redetect" =>
         \A a \in Planned(job.plan) : a <= job.act => job.draft[a] \in Values
    /\ job.pc = "prepare" =>
         \A a \in Planned(job.plan) : job.draft[a] \in Values

WellTyped == TypeOK /\ RowsHoldValues /\ HolderOK /\ HolderHasRow /\ BackedUp

\* The reverter knows its transaction, and waits while it holds the gate.
PassOK ==
    /\ rev.pc \in {"items", "wait"} => rev.tx \in Tx
    /\ job.by = "reverter" => rev.pc = "wait"

\* WellTyped as far as it is about who holds the gate.
HolderTypes ==
    /\ job \in Jobs
    /\ HolderOK
    /\ BackedUp
    /\ rev \in Passes
    /\ mode \in {"down", "recovering", "reverting", "running"}

\* What the steps of the gate holder that touch no setting leave alone.
Quiet == UNCHANGED <<machine, previews, toClear, writer>>

\* A step that touches only the journal, the gate holder, the mode and the
\* reverter keeps every type once those four do.
LEMMA QuietTypes ==
    ASSUME WellTyped, Quiet, JournalSound', HolderTypes', HolderHasRow'
    PROVE  WellTyped'
  BY DEF Quiet, WellTyped, TypeOK, HolderTypes, JournalSound, machine, previews

\* A free gate, a resting reverter and an empty plan have their types.
LEMMA IdleTypes == Idle \in Jobs /\ Resting \in Passes /\ NoPlan \in Plans
  BY DEF Idle, Jobs, JobPcs, NoPlan, Plans, Resting, Passes

\* Nobody holds the gate.
LEMMA IdleHolds ==
    ASSUME job' = Idle
    PROVE  job' \in Jobs /\ HolderOK' /\ BackedUp' /\ HolderHasRow'
  BY IdleTypes DEF Idle, HolderOK, StartPcs, ApplyPcs, WorkPcs, EndPcs, UndoPcs,
                   BackedUp, HolderHasRow, OsPcs

\* The holder leaves the gate.
LEMMA ReleaseTypes ==
    ASSUME HolderTypes, NEW ok \in BOOLEAN, Release(ok)
    PROVE  HolderTypes' /\ HolderHasRow'
<1>1. rev' \in Passes
  BY DEF HolderTypes, Release, Passes
<1>2. mode' \in {"down", "recovering", "reverting", "running"}
  BY DEF HolderTypes, Release
<1> QED
  BY <1>1, <1>2, IdleHolds DEF HolderTypes, Release

\* What the holder does after one item was restored or not.
LEMMA ResumeTypes ==
    ASSUME HolderTypes, job.pc \in UndoPcs, NEW failed \in BOOLEAN, Resume(failed)
    PROVE  HolderTypes' /\ HolderHasRow'
<1>1. CASE job.op = "rollback"
  BY <1>1, ReleaseTypes DEF Resume
<1>2. CASE job.op # "rollback"
  <2>1. job.rollbackFailed \/ failed \in BOOLEAN
    BY Zenon DEF HolderTypes, Jobs
  <2>2. PICK flag \in BOOLEAN :
          job' = [job EXCEPT !.pc = IF job.op = "commit" THEN "undo" ELSE "next",
                             !.rollbackFailed = flag]
    BY <1>2, <2>1 DEF Resume
  <2>3. job' \in Jobs
    BY ZenonT(60), <2>2 DEF HolderTypes, Jobs, JobPcs
  <2>4. HolderOK' /\ BackedUp' /\ HolderHasRow'
    BY <1>2, <2>2
       DEF HolderTypes, Jobs, HolderOK, StartPcs, ApplyPcs, WorkPcs, EndPcs, UndoPcs,
           BackedUp, HolderHasRow, OsPcs
  <2> QED
    BY <1>2, <2>3, <2>4 DEF Resume, HolderTypes
<1> QED
  BY <1>1, <1>2

\* An operation that gives up keeps the types: it changes nothing durable.
LEMMA AbortTypes ==
    ASSUME WellTyped, Abort
    PROVE  WellTyped'
<1>1. HolderTypes' /\ HolderHasRow'
  BY ReleaseTypes DEF Abort, WellTyped, TypeOK, HolderTypes
<1> QED
  BY <1>1, QuietTypes, NoStatement DEF Abort, Quiet, WellTyped, TypeOK, JournalSound

\* Steps of those who do not hold the gate and leave the rows alone.
LEMMA OthersTypes ==
    ASSUME WellTyped, UNCHANGED <<job, itemState>>
    PROVE  job' \in Jobs /\ HolderOK' /\ BackedUp' /\ HolderHasRow'
  BY DEF WellTyped, TypeOK, HolderOK, BackedUp, HolderHasRow

\* A fresh database and an app that does not run are well typed.
LEMMA InitTypes == Init => WellTyped
<1> SUFFICES ASSUME Init
             PROVE  WellTyped
  OBVIOUS
<1>1. JournalTypeOK /\ RowsHoldValues
  BY DEF Init, JournalInit, JournalTypeOK, TxStates, ItemStates, RowsHoldValues
<1>2. /\ slot \in [Slots -> {"empty", "open", "claimed", "claimedTrial"}]
      /\ plan \in [Slots -> Plans] /\ seen \in [Slots -> Plans]
  BY IdleTypes DEF Init
<1>3. os \in [Action -> Values] /\ writer \in [Action -> Tx \union {0}]
  BY EngineAssumption DEF Init
<1>4. HolderOK /\ BackedUp /\ HolderHasRow
  BY DEF Init, Idle, HolderOK, StartPcs, ApplyPcs, WorkPcs, EndPcs, UndoPcs,
         BackedUp, HolderHasRow, OsPcs
<1> QED
  BY <1>1, <1>2, <1>3, <1>4, IdleTypes DEF Init, TypeOK, WellTyped

-----------------------------------------------------------------------------
\* A preview token is handed out, expires or is used up.
LEMMA PreviewTypes ==
    ASSUME WellTyped, NEW s \in Slots,
           \/ Preview(s) \/ PreviewExpires(s)
           \/ \E hold \in BOOLEAN : ClaimPreview(s, hold)
    PROVE  WellTyped'
<1>0. UNCHANGED <<journal, machine, mode, job, rev, toClear, writer>>
  BY DEF Preview, PreviewExpires, ClaimPreview
<1>1. /\ slot' \in [Slots -> {"empty", "open", "claimed", "claimedTrial"}]
      /\ plan' \in [Slots -> Plans] /\ seen' \in [Slots -> Plans]
  <2>1. CASE Preview(s)
    <3>1. PICK p \in Requests :
            /\ plan' = [plan EXCEPT ![s] = p]
            /\ seen' = [seen EXCEPT ![s] =
                          [a \in Action |-> IF p[a] = NoValue THEN NoValue ELSE os[a]]]
      BY <2>1 DEF Preview
    <3>2. [a \in Action |-> IF p[a] = NoValue THEN NoValue ELSE os[a]] \in Plans
      BY DEF WellTyped, TypeOK, Plans
    <3> QED
      BY <2>1, <3>1, <3>2, EngineAssumption DEF Preview, WellTyped, TypeOK
  <2>2. CASE PreviewExpires(s)
    BY <2>2, IdleTypes DEF PreviewExpires, EmptySlot, WellTyped, TypeOK
  <2>3. CASE \E hold \in BOOLEAN : ClaimPreview(s, hold)
    BY <2>3 DEF ClaimPreview, WellTyped, TypeOK
  <2> QED
    BY <2>1, <2>2, <2>3
<1>2. JournalSound' /\ job' \in Jobs /\ HolderOK' /\ BackedUp' /\ HolderHasRow'
  BY <1>0, NoStatement, OthersTypes DEF WellTyped, TypeOK, JournalSound, journal
<1> QED
  BY <1>0, <1>1, <1>2 DEF WellTyped, TypeOK, JournalSound, machine

-----------------------------------------------------------------------------
\* A commit up to the prepared row group.
LEMMA PrepareStepTypes ==
    ASSUME WellTyped,
           \/ \E s \in Slots : StartCommit(s)
           \/ Detect \/ Capture \/ Redetect \/ Prepare
    PROVE  WellTyped'
<1> USE DEF StartPcs, ApplyPcs, WorkPcs, EndPcs, UndoPcs, OsPcs
<1>0. ASSUME UNCHANGED journal
      PROVE  JournalSound'
  BY <1>0, NoStatement DEF WellTyped, TypeOK, JournalSound
<1>1. CASE \E s \in Slots : StartCommit(s)
  <2>1. PICK s \in Slots : StartCommit(s)
    BY <1>1
  <2>2. /\ slot' \in [Slots -> {"empty", "open", "claimed", "claimedTrial"}]
        /\ plan' \in [Slots -> Plans] /\ seen' \in [Slots -> Plans]
    BY <2>1, IdleTypes DEF StartCommit, EmptySlot, WellTyped, TypeOK
  <2>3. job' \in Jobs /\ HolderOK' /\ BackedUp' /\ HolderHasRow'
    <3>1. CASE job' = job
      BY <2>1, <3>1, OthersTypes DEF StartCommit, journal
    <3>2. CASE job' # job
      <4>1. PICK a \in Action, hold \in BOOLEAN :
              /\ First(Planned(plan[s]), a)
              /\ job' = [Idle EXCEPT !.op = "commit", !.by = "user", !.pc = "detect",
                                     !.act = a, !.plan = plan[s], !.seen = seen[s],
                                     !.hold = hold]
        BY <2>1, <3>2 DEF StartCommit
      <4>2. plan[s] \in Plans /\ seen[s] \in Plans
        BY DEF WellTyped, TypeOK
      <4>3. job' \in Jobs /\ HolderOK' /\ HolderHasRow'
        BY ZenonT(60), <4>1, <4>2, IdleTypes DEF Jobs, JobPcs, HolderOK, HolderHasRow
      <4>4. \A b \in Action : b < a => b \notin Planned(plan[s])
        BY <4>1 DEF First, Planned, Action
      <4>5. job'.pc = "detect" /\ job'.act = a /\ job'.plan = plan[s]
        BY <4>1 DEF Idle
      <4>6. BackedUp'
        BY <4>4, <4>5 DEF BackedUp, Planned
      <4> QED
        BY <4>3, <4>6
    <3> QED
      BY <3>1, <3>2
  <2> QED
    BY <1>0, <2>1, <2>2, <2>3 DEF StartCommit, WellTyped, TypeOK, JournalSound, machine
<1>2. CASE Detect
  <2>1. CASE Abort
    BY <2>1, AbortTypes
  <2>2. CASE ~Abort
    <3>1. job.pc = "detect" /\ job' = [job EXCEPT !.pc = "capture"]
      BY <1>2, <2>2 DEF Detect, Goto
    <3>2. job' \in Jobs /\ HolderOK' /\ HolderHasRow'
      BY <3>1 DEF WellTyped, TypeOK, Jobs, JobPcs, HolderOK, HolderHasRow
    <3>3. BackedUp'
      <4>1. /\ job'.pc = "capture" /\ job'.act = job.act /\ job'.plan = job.plan
            /\ job'.draft = job.draft
        BY <3>1 DEF WellTyped, TypeOK, Jobs
      <4>2. \A a \in Planned(job.plan) : a < job.act => job.draft[a] \in Values
        BY <3>1 DEF WellTyped, BackedUp
      <4> QED
        BY <4>1, <4>2 DEF BackedUp, Planned
    <3> QED
      BY <1>0, <1>2, <2>2, <3>2, <3>3, QuietTypes
         DEF Detect, Quiet, WellTyped, TypeOK, HolderTypes
  <2> QED
    BY <2>1, <2>2
<1>3. CASE Capture
  <2>1. /\ [job.draft EXCEPT ![job.act] = os[job.act]] \in Plans
        /\ job.act \in Action /\ os[job.act] \in Values
    BY <1>3 DEF Capture, WellTyped, TypeOK, Jobs, Plans, HolderOK
  <2>2. job' = [job EXCEPT !.pc = "redetect",
                           !.draft = [job.draft EXCEPT ![job.act] = os[job.act]]]
    BY <1>3 DEF Capture
  <2>3. job' \in Jobs /\ HolderOK' /\ HolderHasRow'
    BY ZenonT(60), <1>3, <2>1, <2>2
       DEF Capture, WellTyped, TypeOK, Jobs, JobPcs, HolderOK, HolderHasRow
  <2>4. /\ job'.pc = "redetect" /\ job'.act = job.act /\ job'.plan = job.plan
        /\ job'.draft = [job.draft EXCEPT ![job.act] = os[job.act]]
    BY <2>2 DEF WellTyped, TypeOK, Jobs
  <2>5. \A a \in Planned(job.plan) : a < job.act => job.draft[a] \in Values
    BY <1>3 DEF Capture, WellTyped, BackedUp
  <2>6. job.draft \in [Action -> Values \union {NoValue}]
    BY DEF WellTyped, TypeOK, Jobs, Plans
  <2>7. BackedUp'
    <3>1. ASSUME NEW a \in Planned(job.plan), a <= job.act
          PROVE  job'.draft[a] \in Values
      <4>1. a \in Action /\ job.act \in Action
        BY <2>1 DEF Planned
      <4>2. a < job.act \/ a = job.act
        BY <3>1, <4>1 DEF Action
      <4> QED
        BY <2>1, <2>4, <2>5, <2>6, <4>1, <4>2
    <3> QED
      BY <2>4, <3>1 DEF BackedUp
  <2> QED
    BY <1>0, <1>3, <2>3, <2>7, QuietTypes
       DEF Capture, Quiet, WellTyped, TypeOK, HolderTypes
<1>4. CASE Redetect
  <2>1. CASE Abort
    BY <2>1, AbortTypes
  <2>2. CASE ~Abort
    <3>1. \A a \in Planned(job.plan) : a <= job.act => job.draft[a] \in Values
      BY <1>4 DEF Redetect, WellTyped, BackedUp
    <3>2. job' \in Jobs /\ HolderOK' /\ HolderHasRow' /\ BackedUp'
      <4>1. CASE After(Planned(job.plan), job.act) = {}
        <5>1. job' = [job EXCEPT !.pc = "prepare"]
          BY <1>4, <2>2, <4>1 DEF Redetect, Goto
        <5>2. job' \in Jobs /\ HolderOK' /\ HolderHasRow'
          BY <1>4, <5>1
             DEF Redetect, WellTyped, TypeOK, Jobs, JobPcs, HolderOK, HolderHasRow
        <5>3. /\ job'.pc = "prepare" /\ job'.act = job.act /\ job'.plan = job.plan
              /\ job'.draft = job.draft
          BY <5>1 DEF WellTyped, TypeOK, Jobs
        <5>4. \A a \in Planned(job.plan) : a <= job.act
          <6>1. job.act \in Action
            BY <1>4 DEF Redetect, WellTyped, HolderOK
          <6>2. \A a \in Planned(job.plan) : a \in Action /\ ~(job.act < a)
            <7>1. \A a \in Planned(job.plan) : ~(job.act < a)
              BY <4>1 DEF After
            <7> QED
              BY <7>1 DEF Planned
          <6> QED
            BY <6>1, <6>2 DEF Action
        <5>5. BackedUp'
          BY <3>1, <5>3, <5>4 DEF BackedUp, Planned
        <5> QED
          BY <5>2, <5>5
      <4>2. CASE After(Planned(job.plan), job.act) # {}
        <5>1. PICK b \in Action :
                /\ First(After(Planned(job.plan), job.act), b)
                /\ job' = [job EXCEPT !.pc = "detect", !.act = b]
          BY <1>4, <2>2, <4>2 DEF Redetect
        <5>2. job' \in Jobs /\ HolderOK' /\ HolderHasRow'
          BY <1>4, <5>1
             DEF Redetect, WellTyped, TypeOK, Jobs, JobPcs, HolderOK, HolderHasRow
        <5>3. /\ job'.pc = "detect" /\ job'.act = b /\ job'.plan = job.plan
              /\ job'.draft = job.draft
          BY <5>1 DEF WellTyped, TypeOK, Jobs
        <5>4. \A a \in Planned(job.plan) : a < b => a <= job.act
          <6>1. \A a \in Planned(job.plan) : job.act < a => b <= a
            BY <5>1 DEF First, After
          <6>2. job.act \in Action /\ \A a \in Planned(job.plan) : a \in Action
            BY <1>4 DEF Redetect, WellTyped, HolderOK, Planned
          <6> QED
            BY <6>1, <6>2 DEF Action
        <5>5. BackedUp'
          BY <3>1, <5>3, <5>4 DEF BackedUp, Planned
        <5> QED
          BY <5>2, <5>5
      <4> QED
        BY <4>1, <4>2
    <3> QED
      BY <1>0, <1>4, <2>2, <3>2, QuietTypes
         DEF Redetect, Quiet, WellTyped, TypeOK, HolderTypes
  <2> QED
    BY <2>1, <2>2
<1>5. CASE Prepare
  <2>1. PICK t \in Tx, a \in Action :
          /\ RecordPrepared(t, job.plan, job.draft, job.hold)
          /\ job' = [Idle EXCEPT !.op = "commit", !.by = "user", !.pc = "applying",
                                 !.tx = t, !.act = a, !.hold = job.hold]
    BY <1>5 DEF Prepare
  <2>2. job.plan \in Plans /\ job.draft \in Plans /\ job.hold \in BOOLEAN
    BY DEF WellTyped, TypeOK, Jobs
  <2>3. job' \in Jobs /\ HolderOK' /\ HolderHasRow' /\ BackedUp'
    BY ZenonT(60), <2>1, <2>2, IdleTypes
       DEF Jobs, JobPcs, HolderOK, HolderHasRow, BackedUp
  <2>4. \A b \in Action : job.plan[b] # NoValue => job.draft[b] \in Values
    BY <1>5 DEF Prepare, WellTyped, BackedUp, Planned
  <2>5. JournalSound'
    BY <2>1, <2>2, <2>4, PrepareTypes DEF WellTyped, TypeOK, JournalSound
  <2> QED
    BY <1>5, <2>3, <2>5, QuietTypes DEF Prepare, Quiet, WellTyped, TypeOK, HolderTypes
<1> QED
  BY <1>1, <1>2, <1>3, <1>4, <1>5

\* A commit that applies one item after the other.
LEMMA ApplyStepTypes ==
    ASSUME WellTyped,
           StartApplying \/ ApplyRead \/ ApplyWrite \/ VerifyApplied \/ Succeed
    PROVE  WellTyped'
<1> USE DEF StartPcs, ApplyPcs, WorkPcs, EndPcs, UndoPcs, OsPcs
<1>0. JournalSound
  BY DEF WellTyped, TypeOK, JournalSound
<1>1. CASE StartApplying
  <2>1. job.pc = "applying" /\ job' = [job EXCEPT !.pc = "applyRead"]
    BY <1>1 DEF StartApplying, Goto
  <2>2. job.tx \in Tx /\ job.act \in Action
    BY <2>1 DEF WellTyped, HolderOK
  <2>3. JournalSound' /\ RowsStay
    BY <1>0, <1>1, <2>2, ItemStatementTypes DEF StartApplying
  <2>4. /\ job' \in Jobs /\ HolderOK' /\ BackedUp'
        /\ job'.tx = job.tx /\ job'.act = job.act
    BY <2>1 DEF WellTyped, TypeOK, Jobs, JobPcs, HolderOK, BackedUp
  <2>5. HolderHasRow'
    BY <1>1, <2>2, <2>3, <2>4
       DEF HolderHasRow, StartApplying, MarkItemApplying, CanMarkApplying, RowsStay, Items
  <2> QED
    BY <1>1, <2>3, <2>4, <2>5, QuietTypes
       DEF StartApplying, Quiet, WellTyped, TypeOK, HolderTypes
<1>2. CASE ApplyRead
  <2>1. job' \in Jobs /\ HolderOK' /\ BackedUp' /\ job'.tx = job.tx /\ job'.act = job.act
    BY <1>2 DEF ApplyRead, Goto, WellTyped, TypeOK, Jobs, JobPcs, HolderOK, BackedUp
  <2>2. JournalSound' /\ HolderHasRow'
    BY <1>0, <1>2, <2>1, NoStatement DEF ApplyRead, WellTyped, HolderHasRow, journal
  <2> QED
    BY <1>2, <2>1, <2>2, QuietTypes DEF ApplyRead, Quiet, WellTyped, TypeOK, HolderTypes
<1>3. CASE ApplyWrite
  <2>1. job' \in Jobs /\ HolderOK' /\ BackedUp' /\ HolderHasRow'
    BY <1>3
       DEF ApplyWrite, Goto, WellTyped, TypeOK, Jobs, JobPcs, HolderOK, BackedUp,
           HolderHasRow
  <2>2. job.tx \in Tx /\ want[<<job.tx, job.act>>] \in Values
    BY <1>3 DEF ApplyWrite, WellTyped, HolderOK, HolderHasRow, RowsHoldValues, Items
  <2>3. os' \in [Action -> Values] /\ writer' \in [Action -> Tx \union {0}]
    BY <1>3, <2>2 DEF ApplyWrite, WellTyped, TypeOK
  <2>4. JournalSound'
    BY <1>0, <1>3, NoStatement DEF ApplyWrite
  <2> QED
    BY <1>3, <2>1, <2>3, <2>4 DEF ApplyWrite, WellTyped, TypeOK, JournalSound, previews
<1>4. CASE VerifyApplied
  <2>1. job.tx \in Tx /\ job.act \in Action
    BY <1>4 DEF VerifyApplied, WellTyped, HolderOK
  <2>2. job' \in Jobs /\ HolderOK' /\ BackedUp' /\ HolderHasRow'
    <3> USE DEF WellTyped, TypeOK, Jobs, JobPcs, HolderOK, BackedUp, HolderHasRow
    <3>0. job.pc = "verify" /\ job.todo \union {job.act} \in SUBSET Action
      BY <1>4, <2>1 DEF VerifyApplied
    <3>1. CASE Goto("applyFailed")
      BY <3>0, <3>1 DEF Goto
    <3>2. CASE job' = [job EXCEPT !.pc = "succeed", !.todo = job.todo \union {job.act}]
      BY <3>0, <3>2
    <3>3. CASE \E b \in Action : job' = [job EXCEPT !.pc = "applying", !.act = b,
                                                    !.todo = job.todo \union {job.act}]
      <4>1. PICK b \in Action : job' = [job EXCEPT !.pc = "applying", !.act = b,
                                                   !.todo = job.todo \union {job.act}]
        BY <3>3
      <4> QED
        BY ZenonT(60), <3>0, <4>1
    <3> QED
      BY ZenonT(60), <1>4, <3>1, <3>2, <3>3 DEF VerifyApplied
  <2>3. JournalSound'
    BY <1>0, <1>4, <2>1, ItemStatementTypes, NoStatement DEF VerifyApplied
  <2> QED
    BY <1>4, <2>2, <2>3, QuietTypes
       DEF VerifyApplied, Quiet, WellTyped, TypeOK, HolderTypes
<1>5. CASE Succeed
  <2>1. HolderTypes' /\ HolderHasRow'
    BY <1>5, ReleaseTypes DEF Succeed, WellTyped, TypeOK, HolderTypes
  <2>2. JournalSound'
    BY <1>0, <1>5, TxStatementTypes DEF Succeed, WellTyped, HolderOK, TxStates
  <2> QED
    BY <1>5, <2>1, <2>2, QuietTypes DEF Succeed, Quiet
<1> QED
  BY <1>1, <1>2, <1>3, <1>4, <1>5

\* The unwinding of a commit that failed.
LEMMA UnwindStepTypes ==
    ASSUME WellTyped,
           ApplyFailed \/ JudgeFailed \/ CancelRest \/ UndoNext \/ SettleCommit
    PROVE  WellTyped'
<1> USE DEF StartPcs, ApplyPcs, WorkPcs, EndPcs, UndoPcs, OsPcs
<1>0. JournalSound
  BY DEF WellTyped, TypeOK, JournalSound
<1>1. CASE ApplyFailed
  <2>1. job.pc = "applyFailed" /\ job' = [job EXCEPT !.pc = "judge"]
    BY <1>1 DEF ApplyFailed, Goto
  <2>2. job.tx \in Tx /\ job.act \in Action
    BY <2>1 DEF WellTyped, HolderOK
  <2>3. JournalSound'
    BY <1>0, <1>1, <2>2, ItemStatementTypes DEF ApplyFailed
  <2>4. job' \in Jobs /\ HolderOK' /\ BackedUp' /\ HolderHasRow'
    BY <2>1 DEF WellTyped, TypeOK, Jobs, JobPcs, HolderOK, BackedUp, HolderHasRow
  <2> QED
    BY <1>1, <2>3, <2>4, QuietTypes DEF ApplyFailed, Quiet, WellTyped, TypeOK, HolderTypes
<1>2. CASE JudgeFailed
  <2>1. job.tx \in Tx /\ job.act \in Action
    BY <1>2 DEF JudgeFailed, WellTyped, HolderOK
  <2>2. JournalSound'
    BY <1>0, <1>2, <2>1, ItemStatementTypes, NoStatement DEF JudgeFailed
  <2>3. job' \in Jobs /\ HolderOK' /\ BackedUp' /\ HolderHasRow'
    <3> USE DEF WellTyped, TypeOK, Jobs, JobPcs, HolderOK, BackedUp, HolderHasRow
    <3>0. job.pc = "judge" /\ job.todo \union {job.act} \in SUBSET Action
      BY <1>2, <2>1 DEF JudgeFailed
    <3>1. CASE Goto("cancel")
      BY <3>0, <3>1 DEF Goto
    <3>2. CASE job' = [job EXCEPT !.pc = "cancel", !.todo = job.todo \union {job.act}]
      BY <3>0, <3>2
    <3>3. CASE job' = [job EXCEPT !.pc = "cancel", !.recoveryRequired = TRUE]
      BY <3>0, <3>3
    <3> QED
      BY <1>2, <3>1, <3>2, <3>3 DEF JudgeFailed
  <2> QED
    BY <1>2, <2>2, <2>3, QuietTypes DEF JudgeFailed, Quiet, WellTyped, TypeOK, HolderTypes
<1>3. CASE CancelRest
  <2>1. job.pc = "cancel" /\ job.tx \in Tx
    BY <1>3 DEF CancelRest, WellTyped, HolderOK
  <2>2. JournalSound' /\ job' \in Jobs /\ HolderOK' /\ BackedUp' /\ HolderHasRow'
    <3> USE DEF WellTyped, TypeOK, Jobs, JobPcs, HolderOK, BackedUp, HolderHasRow
    <3>1. CASE Goto("undo") /\ UNCHANGED journal
      BY <1>0, <2>1, <3>1, NoStatement DEF Goto
    <3>2. CASE \E b \in Action : MarkItemRolledBack(job.tx, b)
                   /\ job' = [job EXCEPT !.act = b]
      <4>1. PICK b \in Action : MarkItemRolledBack(job.tx, b)
                /\ job' = [job EXCEPT !.act = b]
        BY <3>2
      <4>2. JournalSound'
        BY <1>0, <2>1, <4>1, ItemStatementTypes
      <4> QED
        BY <2>1, <4>1, <4>2
    <3> QED
      BY <1>3, <3>1, <3>2 DEF CancelRest
  <2> QED
    BY <1>3, <2>2, QuietTypes DEF CancelRest, Quiet, WellTyped, TypeOK, HolderTypes
<1>4. CASE UndoNext
  <2>1. job.pc = "undo" /\ job.op = "commit" /\ job.tx \in Tx
    BY <1>4 DEF UndoNext, WellTyped, HolderOK
  <2>2. JournalSound' /\ job' \in Jobs /\ HolderOK' /\ BackedUp' /\ HolderHasRow'
    <3> USE DEF WellTyped, TypeOK, Jobs, JobPcs, HolderOK, BackedUp, HolderHasRow
    <3>1. CASE Goto("settle") /\ UNCHANGED journal
      BY <1>0, <2>1, <3>1, NoStatement DEF Goto
    <3>2. CASE \E a \in Action :
                 /\ MarkTxRollingBack(job.tx, a)
                 /\ job' = [job EXCEPT !.pc = "undoRead", !.act = a,
                        !.todo = job.todo \ {a}]
      <4>1. PICK a \in Action :
                 /\ MarkTxRollingBack(job.tx, a)
                 /\ job' = [job EXCEPT !.pc = "undoRead", !.act = a,
                        !.todo = job.todo \ {a}]
        BY <3>2
      <4>2. JournalSound' /\ RowsStay
        BY <1>0, <2>1, <4>1, ItemStatementTypes
      <4>3. itemState'[<<job.tx, a>>] # "NONE"
        BY <2>1, <4>1, <4>2
           DEF MarkTxRollingBack, CanMarkTxRollingBack, CanMarkItemRollingBack,
               RowsStay, Items
      <4>4. job' \in Jobs /\ job'.tx = job.tx /\ job'.act = a
        BY <2>1, <4>1
      <4>5. HolderOK' /\ BackedUp'
        BY <2>1, <4>1
      <4> QED
        BY <4>2, <4>3, <4>4, <4>5
    <3>3. CASE \E a \in Action :
                 /\ RecordRecovery(job.tx, a, FALSE)
                 /\ job' = [job EXCEPT !.todo = job.todo \ {a}, !.recoveryRequired = TRUE]
      <4>1. PICK a \in Action :
                 /\ RecordRecovery(job.tx, a, FALSE)
                 /\ job' = [job EXCEPT !.todo = job.todo \ {a}, !.recoveryRequired = TRUE]
        BY <3>3
      <4>2. JournalSound'
        BY <1>0, <2>1, <4>1, ItemStatementTypes
      <4> QED
        BY <2>1, <4>1, <4>2
    <3> QED
      BY <1>4, <3>1, <3>2, <3>3 DEF UndoNext
  <2> QED
    BY <1>4, <2>2, QuietTypes DEF UndoNext, Quiet, WellTyped, TypeOK, HolderTypes
<1>5. CASE SettleCommit
  <2>1. HolderTypes' /\ HolderHasRow'
    BY <1>5, ReleaseTypes DEF SettleCommit, WellTyped, TypeOK, HolderTypes
  <2>2. job.tx \in Tx /\ FinalState(job.rollbackFailed, job.recoveryRequired) \in TxStates
    BY <1>5 DEF SettleCommit, WellTyped, HolderOK, FinalState, TxStates
  <2>3. JournalSound'
    BY <1>0, <1>5, <2>2, TxStatementTypes DEF SettleCommit
  <2> QED
    BY <1>5, <2>1, <2>2, <2>3
       DEF SettleCommit, WellTyped, TypeOK, JournalSound, HolderTypes, machine, previews
<1> QED
  BY <1>1, <1>2, <1>3, <1>4, <1>5

-----------------------------------------------------------------------------
\* One setting is restored.
LEMMA UndoStepTypes ==
    ASSUME WellTyped, UndoStep
    PROVE  WellTyped'
<1> USE DEF StartPcs, ApplyPcs, WorkPcs, EndPcs, UndoPcs, OsPcs
<1>0. JournalSound /\ HolderTypes
  BY DEF WellTyped, TypeOK, JournalSound, HolderTypes
<1>1. CASE UndoRead
  <2>1. job' \in Jobs /\ HolderOK' /\ BackedUp' /\ job'.tx = job.tx /\ job'.act = job.act
    BY <1>1 DEF UndoRead, Goto, WellTyped, TypeOK, Jobs, JobPcs, HolderOK, BackedUp
  <2>2. JournalSound' /\ HolderHasRow'
    BY <1>0, <1>1, <2>1, NoStatement DEF UndoRead, WellTyped, HolderHasRow, journal
  <2> QED
    BY <1>1, <2>1, <2>2, QuietTypes DEF UndoRead, Quiet, WellTyped, TypeOK, HolderTypes
<1>2. CASE UndoWrite
  <2>1. job' \in Jobs /\ HolderOK' /\ BackedUp' /\ HolderHasRow'
    BY <1>2
       DEF UndoWrite, Goto, WellTyped, TypeOK, Jobs, JobPcs, HolderOK, BackedUp,
           HolderHasRow
  <2>2. job.tx \in Tx /\ orig[<<job.tx, job.act>>] \in Values
    BY <1>2 DEF UndoWrite, WellTyped, HolderOK, HolderHasRow, RowsHoldValues, Items
  <2>3. os' \in [Action -> Values] /\ writer' \in [Action -> Tx \union {0}]
    BY <1>2, <2>2 DEF UndoWrite, WellTyped, TypeOK
  <2>4. JournalSound'
    BY <1>0, <1>2, NoStatement DEF UndoWrite
  <2> QED
    BY <1>2, <2>1, <2>3, <2>4 DEF UndoWrite, WellTyped, TypeOK, JournalSound, previews
<1>3. CASE UndoVerify \/ UndoFailed
  <2>1. job.pc \in UndoPcs /\ job.tx \in Tx /\ job.act \in Action
    BY <1>3 DEF UndoVerify, UndoFailed, WellTyped, HolderOK
  <2>2. HolderTypes' /\ HolderHasRow'
    BY <1>0, <1>3, <2>1, ResumeTypes DEF UndoVerify, UndoFailed
  <2>3. JournalSound'
    BY <1>0, <1>3, <2>1, ItemStatementTypes DEF UndoVerify, UndoFailed
  <2> QED
    BY <1>3, <2>2, <2>3, QuietTypes DEF UndoVerify, UndoFailed, Quiet
<1> QED
  BY <1>1, <1>2, <1>3 DEF UndoStep

-----------------------------------------------------------------------------
\* rollback_item, whether a user or the reverter calls it.
LEMMA RollbackJobTypes ==
    ASSUME NEW t \in Tx, NEW a \in Action, NEW by \in {"user", "reverter"},
           job' = RollbackJob(t, a, by)
    PROVE  job' \in Jobs /\ HolderOK' /\ BackedUp' /\ HolderHasRow'
  BY ZenonT(60), IdleTypes
     DEF RollbackJob, Jobs, JobPcs, HolderOK, BackedUp, HolderHasRow, StartPcs,
         ApplyPcs, WorkPcs, EndPcs, UndoPcs, OsPcs

\* rollback_item, called by a user: its entry and its classification.
LEMMA RollbackStepTypes ==
    ASSUME WellTyped,
           RollbackOne \/ \E t \in Tx, a \in Action : StartRollback(t, a)
    PROVE  WellTyped'
<1> USE DEF StartPcs, ApplyPcs, WorkPcs, EndPcs, UndoPcs, OsPcs
<1>0. JournalSound /\ HolderTypes
  BY DEF WellTyped, TypeOK, JournalSound, HolderTypes
<1>1. CASE \E t \in Tx, a \in Action : StartRollback(t, a)
  <2>1. PICK t \in Tx, a \in Action : StartRollback(t, a)
    BY <1>1
  <2>2. job' \in Jobs /\ HolderOK' /\ BackedUp' /\ HolderHasRow'
    BY <2>1, RollbackJobTypes DEF StartRollback
  <2>3. JournalSound'
    BY <1>0, <2>1, NoStatement DEF StartRollback
  <2> QED
    BY <2>1, <2>2, <2>3, QuietTypes
       DEF StartRollback, Quiet, WellTyped, TypeOK, HolderTypes
<1>2. CASE RollbackOne
  <2>1. job.pc = "item" /\ job.tx \in Tx /\ job.act \in Action
    BY <1>2 DEF RollbackOne, WellTyped, HolderOK
  <2>2. JournalSound' /\ RowsStay
    BY <1>0, <1>2, <2>1, ItemStatementTypes, NoStatement DEF RollbackOne
  <2>3. HolderTypes' /\ HolderHasRow'
    <3>1. CASE Release(TRUE) \/ Release(FALSE)
      BY <1>0, <3>1, ReleaseTypes
    <3>2. CASE /\ MarkItemRollingBack(job.tx, job.act)
               /\ Goto("undoRead")
               /\ UNCHANGED <<mode, rev>>
      <4>1. job' = [job EXCEPT !.pc = "undoRead"]
        BY <3>2 DEF Goto
      <4>2. /\ job' \in Jobs /\ HolderOK' /\ BackedUp'
            /\ job'.tx = job.tx /\ job'.act = job.act
        BY <2>1, <4>1 DEF WellTyped, TypeOK, Jobs, JobPcs, HolderOK, BackedUp
      <4>3. itemState'[<<job.tx, job.act>>] # "NONE"
        BY <2>1, <2>2, <3>2
           DEF MarkItemRollingBack, CanMarkItemRollingBack, RowsStay, Items
      <4> QED
        BY <1>0, <3>2, <4>2, <4>3 DEF HolderTypes, HolderHasRow
    <3> QED
      BY <1>2, <3>1, <3>2 DEF RollbackOne
  <2> QED
    BY <1>2, <2>2, <2>3, QuietTypes DEF RollbackOne, Quiet
<1> QED
  BY <1>1, <1>2

-----------------------------------------------------------------------------
\* reconcile_now, whether a user or the boot sequence calls it.
LEMMA ReconcileJobTypes ==
    ASSUME NEW by \in {"user", "boot"}, job' = ReconcileJob(by)
    PROVE  job' \in Jobs /\ HolderOK' /\ BackedUp' /\ HolderHasRow'
<1>1. /\ LoadedTx(SessionActions) \in SUBSET Tx
      /\ {i \in LoadedItems(SessionActions) :
             itemState[i] # "ROLLED_BACK"} \in SUBSET Items
      /\ {t \in LoadedTx(SessionActions) : txState[t] = "SUCCEEDED"} \in SUBSET Tx
  BY DEF LoadedTx, LoadedItems
<1> QED
  BY ZenonT(60), <1>1, IdleTypes
     DEF ReconcileJob, Jobs, JobPcs, HolderOK, BackedUp, HolderHasRow, StartPcs,
         ApplyPcs, WorkPcs, EndPcs, UndoPcs, OsPcs

\* reconcile_now, called by a user: its load, its items and its end.
LEMMA ReconcileStepTypes ==
    ASSUME WellTyped, ReconcileStep \/ StartReconcile
    PROVE  WellTyped'
<1> USE DEF StartPcs, ApplyPcs, WorkPcs, EndPcs, UndoPcs, OsPcs
<1>0. JournalSound /\ HolderTypes
  BY DEF WellTyped, TypeOK, JournalSound, HolderTypes
<1>1. CASE StartReconcile
  <2>1. job' \in Jobs /\ HolderOK' /\ BackedUp' /\ HolderHasRow'
    BY <1>1, ReconcileJobTypes DEF StartReconcile
  <2>2. JournalSound'
    BY <1>0, <1>1, NoStatement DEF StartReconcile
  <2> QED
    BY <1>1, <2>1, <2>2, QuietTypes
       DEF StartReconcile, Quiet, WellTyped, TypeOK, HolderTypes
<1>2. CASE ReconcileItem
  <2>1. PICK t \in Tx, a \in Action :
          \/ GiveUp(t, a)
          \/ /\ MarkItemRolledBack(t, a)
             /\ job' = [job EXCEPT !.queue = job.queue \ {<<t, a>>}]
             /\ UNCHANGED <<mode, rev>>
          \/ /\ CanMarkTxRollingBack(t, a)
             /\ MarkTxRollingBack(t, a)
             /\ job' = [job EXCEPT !.pc = "undoRead", !.tx = t, !.act = a,
                                   !.queue = job.queue \ {<<t, a>>}]
             /\ UNCHANGED <<mode, rev>>
          \/ Release(FALSE) /\ UNCHANGED journal
    BY ZenonT(60), <1>2 DEF ReconcileItem
  <2>2. job.pc = "next" /\ job.op = "reconcile" /\ job.queue \ {<<t, a>>} \in SUBSET Items
    BY <1>2 DEF ReconcileItem, WellTyped, TypeOK, Jobs, HolderOK
  <2>3. JournalSound' /\ HolderTypes' /\ HolderHasRow'
    <3> USE DEF WellTyped, TypeOK, Jobs, JobPcs, HolderOK, BackedUp, HolderHasRow,
        HolderTypes
    <3>1. CASE GiveUp(t, a)
      <4>1. JournalSound'
        BY <1>0, <3>1, ItemStatementTypes DEF GiveUp
      <4> QED
        BY <2>2, <3>1, <4>1 DEF GiveUp
    <3>2. CASE /\ MarkItemRolledBack(t, a)
               /\ job' = [job EXCEPT !.queue = job.queue \ {<<t, a>>}]
               /\ UNCHANGED <<mode, rev>>
      <4>1. JournalSound'
        BY <1>0, <3>2, ItemStatementTypes
      <4> QED
        BY <2>2, <3>2, <4>1
    <3>3. CASE /\ CanMarkTxRollingBack(t, a)
               /\ MarkTxRollingBack(t, a)
               /\ job' = [job EXCEPT !.pc = "undoRead", !.tx = t, !.act = a,
                                     !.queue = job.queue \ {<<t, a>>}]
               /\ UNCHANGED <<mode, rev>>
      <4>1. JournalSound' /\ RowsStay
        BY <1>0, <3>3, ItemStatementTypes
      <4>2. itemState'[<<t, a>>] # "NONE"
        BY <3>3, <4>1 DEF CanMarkTxRollingBack, CanMarkItemRollingBack, RowsStay, Items
      <4>3. job' \in Jobs /\ job'.tx = t /\ job'.act = a
        BY <2>2, <3>3
      <4>4. HolderOK' /\ BackedUp'
        BY <2>2, <3>3
      <4> QED
        BY <3>3, <4>1, <4>2, <4>3, <4>4
    <3>4. CASE Release(FALSE) /\ UNCHANGED journal
      BY <1>0, <3>4, ReleaseTypes, NoStatement
    <3> QED
      BY <2>1, <3>1, <3>2, <3>3, <3>4
  <2> QED
    BY <1>2, <2>3, QuietTypes DEF ReconcileItem, Quiet
<1>3. CASE ReconcileSettle
  <2>1. PICK t \in Tx :
          /\ SetTransactionState(t, IF t \in job.kept THEN "SUCCEEDED"
                                    ELSE FinalState(job.rollbackFailed,
                                        job.recoveryRequired))
          /\ job' = [job EXCEPT !.batch = job.batch \ {t}, !.tx = 0, !.act = 0,
                                !.rollbackFailed = FALSE, !.recoveryRequired = FALSE]
    BY <1>3 DEF ReconcileSettle
  <2>2. PICK s \in TxStates : SetTransactionState(t, s)
    BY <2>1 DEF FinalState, TxStates
  <2>3. JournalSound'
    BY <1>0, <2>2, TxStatementTypes
  <2>4. job.pc = "next" /\ job.batch \ {t} \in SUBSET Tx
    BY <1>3 DEF ReconcileSettle, WellTyped, TypeOK, Jobs
  <2>5. job' \in Jobs /\ HolderOK' /\ BackedUp' /\ HolderHasRow'
    BY ZenonT(60), <2>1, <2>4
       DEF WellTyped, TypeOK, Jobs, JobPcs, HolderOK, BackedUp, HolderHasRow
  <2> QED
    BY <1>3, <2>3, <2>5, QuietTypes
       DEF ReconcileSettle, Quiet, WellTyped, TypeOK, HolderTypes
<1>4. CASE ReconcileEnd
  <2>1. HolderTypes' /\ HolderHasRow'
    BY <1>0, <1>4, ReleaseTypes DEF ReconcileEnd
  <2> QED
    BY <1>0, <1>4, <2>1, NoStatement, QuietTypes DEF ReconcileEnd, Quiet
<1> QED
  BY <1>1, <1>2, <1>3, <1>4 DEF ReconcileStep

-----------------------------------------------------------------------------
\* The pass of the reverter.
LEMMA RevertStepTypes ==
    ASSUME WellTyped, PassOK, RevertStep
    PROVE  WellTyped'
<1>0. JournalSound /\ HolderTypes /\ rev \in Passes
  BY DEF WellTyped, TypeOK, JournalSound, HolderTypes
<1>1. CASE RevertScan
  <2>1. ExpiredTrials \in SUBSET Tx
    BY DEF ExpiredTrials
  <2>2. rev' \in Passes
    BY <1>1, <2>1, IdleTypes DEF RevertScan, Passes
  <2> QED
    BY <1>0, <1>1, <2>2, NoStatement, OthersTypes, QuietTypes
       DEF RevertScan, Quiet, HolderTypes, journal
<1>2. CASE RevertPick
  <2> DEFINE items(t) == IF trial[t] = "due" THEN ActionsOf(t) ELSE {}
             acts(t) == {a \in items(t) : ItemRollbackAllowed(t, a)}
             ok(t) == \A a \in items(t) : \/ ItemRollbackAllowed(t, a)
                                          \/ itemState[<<t, a>>] = "ROLLED_BACK"
  <2>1. PICK t \in rev.txs :
          rev' = [rev EXCEPT !.pc = "items", !.txs = rev.txs \ {t}, !.tx = t,
                             !.acts = acts(t), !.ok = ok(t)]
    BY <1>2 DEF RevertPick
  <2>2. acts(t) \in SUBSET Action /\ ok(t) \in BOOLEAN
    BY DEF ActionsOf
  <2> HIDE DEF acts, ok
  <2>3. rev' \in Passes
    BY <1>0, <2>1, <2>2 DEF Passes
  <2> QED
    BY <1>0, <1>2, <2>3, NoStatement, OthersTypes, QuietTypes
       DEF RevertPick, Quiet, HolderTypes, journal
<1>3. CASE RevertItem
  <2>1. PICK a \in Action :
          IF ItemRollbackAllowed(rev.tx, a)
          THEN /\ job' = RollbackJob(rev.tx, a, "reverter")
               /\ rev' = [rev EXCEPT !.pc = "wait", !.acts = rev.acts \ {a}]
          ELSE /\ rev' = [rev EXCEPT !.acts = rev.acts \ {a}, !.ok = FALSE]
               /\ job' = job
    BY <1>3 DEF RevertItem
  <2>2. rev' \in Passes
    BY ZenonT(60), <1>0, <2>1 DEF Passes
  <2>3. job' \in Jobs /\ HolderOK' /\ BackedUp' /\ HolderHasRow'
    <3>1. rev.tx \in Tx
      BY <1>3 DEF RevertItem, PassOK
    <3> QED
      BY <1>3, <2>1, <3>1, RollbackJobTypes, OthersTypes DEF RevertItem, journal
  <2> QED
    BY <1>0, <1>3, <2>2, <2>3, NoStatement, QuietTypes DEF RevertItem, Quiet, HolderTypes
<1>4. CASE RevertClear
  <2>1. rev' \in Passes
    BY <1>0, <1>4 DEF RevertClear, Passes
  <2>2. JournalSound' /\ UNCHANGED itemState
    <3>1. rev.tx \in Tx
      BY <1>4 DEF RevertClear, PassOK
    <3> QED
      BY <1>0, <1>4, <3>1, NoStatement, TxStatementTypes
         DEF RevertClear, ClearTrialRow, journal
  <2> QED
    BY <1>0, <1>4, <2>1, <2>2, OthersTypes, QuietTypes DEF RevertClear, Quiet, HolderTypes
<1>5. CASE RevertEnd
  BY <1>0, <1>5, IdleTypes, NoStatement, OthersTypes, QuietTypes
     DEF RevertEnd, Quiet, HolderTypes, journal
<1> QED
  BY <1>1, <1>2, <1>3, <1>4, <1>5 DEF RevertStep

\* The reverter's pass and the holder of the gate stay in step.
LEMMA PassStep ==
    ASSUME WellTyped, PassOK, [Next]_vars
    PROVE  PassOK'
<1>0. job \in Jobs /\ rev \in Passes
  BY DEF WellTyped, TypeOK
<1>1. CASE rev' = rev /\ (job'.by = job.by \/ job'.by # "reverter")
  BY <1>1 DEF PassOK
<1>2. CASE \E ok \in BOOLEAN : Release(ok)
  <2>1. PICK ok \in BOOLEAN : Release(ok)
    BY <1>2
  <2>2. job'.by # "reverter"
    BY <2>1 DEF Release, Idle
  <2>3. CASE job.by = "reverter"
    BY <1>0, <2>1, <2>2, <2>3 DEF Release, PassOK, Passes
  <2>4. CASE job.by # "reverter"
    BY <2>1, <2>2, <2>4 DEF Release, PassOK
  <2> QED
    BY <2>3, <2>4
<1>3. CASE Crash
  BY <1>3 DEF Crash, PassOK, Idle, Resting
<1>4. CASE RevertStep
  <2>1. CASE RevertScan
    BY <1>0, <2>1 DEF RevertScan, PassOK, Passes, Resting
  <2>2. CASE RevertPick
    <3>1. rev.pc = "pick" /\ job' = job
      BY <2>2 DEF RevertPick
    <3>2. rev'.tx \in rev.txs
      BY <1>0, <2>2 DEF RevertPick, Passes
    <3> QED
      BY <1>0, <3>1, <3>2 DEF PassOK, Passes
  <2>3. CASE RevertItem
    <3>1. rev.pc = "items" /\ rev.tx \in Tx /\ job.pc = "idle"
      BY <2>3 DEF RevertItem, PassOK
    <3>2. \/ \E acts : rev' = [rev EXCEPT !.pc = "wait", !.acts = acts]
          \/ job' = job /\ \E acts : rev' = [rev EXCEPT !.acts = acts, !.ok = FALSE]
      BY <2>3 DEF RevertItem
    <3> QED
      BY <1>0, <3>1, <3>2 DEF PassOK, Passes
  <2>4. CASE RevertClear
    BY <1>0, <2>4 DEF RevertClear, PassOK, Passes
  <2>5. CASE RevertEnd
    BY <1>0, <2>5 DEF RevertEnd, PassOK, Passes, Resting
  <2> QED
    BY <1>4, <2>1, <2>2, <2>3, <2>4, <2>5 DEF RevertStep
<1>5. CASE CommitStep
  <2>1. CASE Detect \/ Capture \/ Redetect \/ Prepare
    BY ZenonT(60), <1>0, <1>1, <1>2, <2>1
       DEF Detect, Capture, Redetect, Prepare, Goto, Abort, Idle, Jobs
  <2>2. CASE StartApplying \/ ApplyRead \/ ApplyWrite \/ VerifyApplied \/ Succeed
    BY <1>0, <1>1, <1>2, <2>2
       DEF StartApplying, ApplyRead, ApplyWrite, VerifyApplied, Succeed, Goto, Jobs
  <2>3. CASE ApplyFailed \/ JudgeFailed \/ CancelRest
    BY <1>0, <1>1, <2>3 DEF ApplyFailed, JudgeFailed, CancelRest, Goto, Jobs
  <2>4. CASE UndoNext \/ SettleCommit
    BY <1>0, <1>1, <1>2, <2>4 DEF UndoNext, SettleCommit, Goto, Jobs
  <2> QED
    BY <1>5, <2>1, <2>2, <2>3, <2>4 DEF CommitStep
<1>6. CASE UndoStep
  <2>1. CASE UndoRead \/ UndoWrite
    BY <1>0, <1>1, <2>1 DEF UndoRead, UndoWrite, Goto, Jobs
  <2>2. CASE UndoVerify \/ UndoFailed
    <3>1. PICK failed \in BOOLEAN : Resume(failed)
      BY <2>2 DEF UndoVerify, UndoFailed
    <3>2. CASE job.op = "rollback"
      BY <1>2, <3>1, <3>2 DEF Resume
    <3>3. CASE job.op # "rollback"
      BY <1>0, <1>1, <3>1, <3>3 DEF Resume, Jobs
    <3> QED
      BY <3>2, <3>3
  <2> QED
    BY <1>6, <2>1, <2>2 DEF UndoStep
<1>7. CASE RollbackOne
  <2>1. CASE Release(TRUE) \/ Release(FALSE)
    BY <1>2, <2>1
  <2>2. CASE Goto("undoRead") /\ UNCHANGED <<mode, rev>>
    BY <1>0, <1>1, <2>2 DEF Goto, Jobs
  <2> QED
    BY <1>7, <2>1, <2>2 DEF RollbackOne
<1>8. CASE ReconcileStep
  <2>1. CASE Release(TRUE) \/ Release(FALSE)
    BY <1>2, <2>1
  <2>2. CASE ReconcileItem /\ ~Release(FALSE)
    <3>1. job'.by = job.by /\ rev' = rev
      BY ZenonT(60), <1>0, <2>2 DEF ReconcileItem, GiveUp, Jobs
    <3> QED
      BY <1>1, <3>1
  <2>3. CASE ReconcileSettle
    BY <1>0, <1>1, <2>3 DEF ReconcileSettle, Jobs
  <2> QED
    BY <1>8, <2>1, <2>2, <2>3 DEF ReconcileStep, ReconcileEnd
<1>9. CASE UserStep \/ Boot
  BY ZenonT(60), <1>1, <1>9
     DEF UserStep, Preview, PreviewExpires, StartCommit, ClaimPreview, Confirm,
         ClearUndoneTrial, StartRollback, StartReconcile, Boot, RollbackJob,
         ReconcileJob, Idle
<1>10. CASE \/ JobAborts \/ WindowsUpdate \/ UNCHANGED vars
            \/ \E a \in Action, v \in Values : OutsideWrite(a, v)
            \/ \E t \in Tx : HoldElapses(t)
  BY <1>1, <1>2, <1>10
     DEF JobAborts, Abort, WindowsUpdate, OutsideWrite, HoldElapses, vars
<1> QED
  BY <1>3, <1>4, <1>5, <1>6, <1>7, <1>8, <1>9, <1>10 DEF Next, EngineStep, FaultStep

-----------------------------------------------------------------------------
\* Statements about trials, the boot, the crash and the outside world.
LEMMA WorldTypes ==
    ASSUME WellTyped,
           \/ \E t \in Tx : Confirm(t) \/ ClearUndoneTrial(t) \/ HoldElapses(t)
           \/ Boot \/ Crash \/ WindowsUpdate
           \/ \E a \in Action, v \in Values : OutsideWrite(a, v)
    PROVE  WellTyped'
<1>0. JournalSound /\ HolderTypes
  BY DEF WellTyped, TypeOK, JournalSound, HolderTypes
<1>1. CASE \E t \in Tx : Confirm(t) \/ ClearUndoneTrial(t)
  <2>1. JournalSound' /\ UNCHANGED <<itemState, job, rev, mode>>
    BY <1>0, <1>1, TxStatementTypes
       DEF Confirm, ClearUndoneTrial, ConfirmTrialRow, ClearTrialRow
  <2>2. toClear' \subseteq Tx /\ UNCHANGED <<machine, previews, writer>>
    BY <1>1 DEF Confirm, ClearUndoneTrial, WellTyped, TypeOK
  <2> QED
    BY <2>1, <2>2, OthersTypes DEF WellTyped, TypeOK, JournalSound, machine, previews
<1>2. CASE \E t \in Tx : HoldElapses(t)
  <2>1. JournalSound' /\ UNCHANGED <<itemState, job>>
    BY <1>0, <1>2 DEF HoldElapses, JournalSound, JournalTypeOK, RowsHoldValues
  <2> QED
    BY <1>0, <1>2, <2>1, OthersTypes, QuietTypes DEF HoldElapses, Quiet, HolderTypes
<1>3. CASE Boot
  <2>1. job' \in Jobs /\ HolderOK' /\ BackedUp' /\ HolderHasRow'
    BY <1>3, ReconcileJobTypes DEF Boot
  <2> QED
    BY <1>0, <1>3, <2>1, NoStatement, QuietTypes DEF Boot, Quiet, HolderTypes
<1>4. CASE Crash
  <2>1. job' \in Jobs /\ HolderOK' /\ BackedUp' /\ HolderHasRow' /\ JournalSound'
    BY <1>0, <1>4, IdleHolds, NoStatement DEF Crash
  <2>2. os' \in [Action -> Values] /\ writer' \in [Action -> Tx \union {0}]
    BY <1>4, EngineAssumption DEF Crash, WellTyped, TypeOK
  <2>3. /\ slot' \in [Slots -> {"empty", "open", "claimed", "claimedTrial"}]
        /\ plan' \in [Slots -> Plans] /\ seen' \in [Slots -> Plans]
    BY <1>4, IdleTypes DEF Crash
  <2> QED
    BY <1>4, <2>1, <2>2, <2>3, IdleTypes DEF Crash, WellTyped, TypeOK, JournalSound
<1>5. CASE WindowsUpdate \/ \E a \in Action, v \in Values : OutsideWrite(a, v)
  <2>1. JournalSound' /\ job' \in Jobs /\ HolderOK' /\ BackedUp' /\ HolderHasRow'
    BY <1>0, <1>5, NoStatement, OthersTypes DEF WindowsUpdate, OutsideWrite, journal
  <2>2. foreign' \subseteq Tx /\ os' \in [Action -> Values]
            /\ writer' \in [Action -> Tx \union {0}]
    BY <1>5 DEF WindowsUpdate, OutsideWrite, WellTyped, TypeOK
  <2> QED
    BY <1>5, <2>1, <2>2
       DEF WindowsUpdate, OutsideWrite, WellTyped, TypeOK, JournalSound, previews
<1> QED
  BY <1>1, <1>2, <1>3, <1>4, <1>5

\* Every step of the engine, its users and the world.
LEMMA NextTypes ==
    ASSUME WellTyped, PassOK, [Next]_vars
    PROVE  WellTyped' /\ PassOK'
<1>1. PassOK'
  BY PassStep
<1>2. CASE EngineStep
  BY <1>2, PrepareStepTypes, ApplyStepTypes, UnwindStepTypes, UndoStepTypes,
     RollbackStepTypes, ReconcileStepTypes, RevertStepTypes, <1>1
     DEF EngineStep, CommitStep
<1>3. CASE UserStep
  BY <1>3, PreviewTypes, PrepareStepTypes, WorldTypes, RollbackStepTypes,
     ReconcileStepTypes, <1>1
     DEF UserStep
<1>4. CASE FaultStep \/ Boot \/ \E t \in Tx : HoldElapses(t)
  BY <1>4, AbortTypes, WorldTypes, <1>1 DEF FaultStep, JobAborts
<1>5. CASE UNCHANGED vars
  <2>1. JournalSound' /\ job' \in Jobs /\ HolderOK' /\ BackedUp' /\ HolderHasRow'
    BY <1>5, NoStatement, OthersTypes DEF vars, journal, WellTyped, TypeOK, JournalSound
  <2> QED
    BY <1>1, <1>5, <2>1 DEF vars, WellTyped, TypeOK, JournalSound, machine, previews
<1> QED
  BY <1>2, <1>3, <1>4, <1>5 DEF Next

\* Type correctness of the engine: whatever the users, the reverter, Windows
\* and crashes do, every column of the journal holds a state its readers
\* know, and only a backup or an invocation of an item is written to a setting.
THEOREM TypeCorrect == Spec => []TypeOK
<1>1. Init => WellTyped /\ PassOK
  BY InitTypes DEF Init, PassOK, Idle, Resting
<1>2. WellTyped /\ PassOK /\ [Next]_vars => (WellTyped /\ PassOK)'
  BY NextTypes
<1>3. WellTyped => TypeOK
  BY DEF WellTyped
<1> QED
  BY <1>1, <1>2, <1>3, PTL DEF Spec

=============================================================================
