------------------------ MODULE ChangeEngine_proofs ------------------------
(***************************************************************************)
(* Proofs about ChangeEngine, for any number of transactions, settings,    *)
(* values and previews.  The inductive invariant IInv says, for every      *)
(* place the holder of the mutation gate can be at, which items of its     *)
(* transaction are in which state: what makes the WHERE clauses of the     *)
(* journal's statements hold, and what is left unfinished if the process   *)
(* ends there.                                                             *)
(***************************************************************************)
EXTENDS ChangeEngineTypes_proofs

\* The item has a row, was not confirmed and not given back.
Raw(t, a) == itemState[<<t, a>>] \in {"PREPARED", "APPLYING", "APPLY_FAILED"}

Unwinding == job.pc = "undo" \/ (job.pc \in UndoPcs /\ job.op = "commit")

Reconciling == job.pc = "next" \/ (job.pc \in UndoPcs /\ job.op = "reconcile")

\* The item the holder is at.
CurrentOK ==
    /\ job.pc = "applying" => itemState[<<job.tx, job.act>>] = "PREPARED"
    /\ job.pc \in ApplyPcs => itemState[<<job.tx, job.act>>] = "APPLYING"
    /\ job.pc = "judge" => itemState[<<job.tx, job.act>>] = "APPLY_FAILED"
    /\ job.pc = "item" => itemState[<<job.tx, job.act>>] \in {"APPLIED", "ROLLING_BACK"}
    /\ job.pc \in UndoPcs => itemState[<<job.tx, job.act>>] = "ROLLING_BACK"

\* The transaction it works on.
TransactionOK ==
    /\ job.pc = "applying" => txState[job.tx] \in {"PREPARED", "APPLYING"}
    /\ job.pc \in ApplyPcs \union {"judge", "cancel"} => txState[job.tx] = "APPLYING"
    /\ Unwinding => txState[job.tx] \in {"APPLYING", "ROLLING_BACK"}

\* The items before and behind it, and those that are to be undone.
SiblingsOK ==
    /\ job.pc \in WorkPcs =>
         \A b \in Action : b > job.act
             => itemState[<<job.tx, b>>] \in {"NONE", "PREPARED"}
    /\ job.pc \in WorkPcs \ {"cancel"} =>
         /\ \A b \in Action : b < job.act => ~Raw(job.tx, b)
         /\ \A b \in job.todo : itemState[<<job.tx, b>>] = "APPLIED"
    /\ job.pc = "cancel" =>
         /\ \A b \in Action : b <= job.act /\ Raw(job.tx, b) => b \in job.todo
         /\ \A b \in job.todo : itemState[<<job.tx, b>>] \in {"APPLIED", "APPLY_FAILED"}
    /\ Unwinding =>
         /\ \A b \in Action : Raw(job.tx, b) => b \in job.todo
         /\ \A b \in job.todo : itemState[<<job.tx, b>>] \in {"APPLIED", "APPLY_FAILED"}
    /\ job.pc \in {"succeed", "settle"} => \A b \in Action : ~Raw(job.tx, b)

\* What reconcile has still to visit.
QueueOK ==
    Reconciling => \A t \in job.batch, a \in Action : Raw(t, a) => <<t, a>> \in job.queue

\* What the journal holds between operations, and so after a crash.
JournalOK ==
    /\ \A t \in Tx, a \in Action : Raw(t, a) => InFlight(t)
    /\ \A i \in Items : itemState[i] \in {"ROLLBACK_FAILED", "RECOVERY_REQUIRED"}
           => i \in pending
    /\ \A t \in Tx, a \in Action : itemState[<<t, a>>] # "NONE" => txState[t] # "NONE"

\* Nothing else is unfinished from the moment the gate was taken.
AloneOK ==
    /\ job.pc \in StartPcs => ~RecoveryPending
    /\ ForwardRunsAlone

StepOK == CurrentOK /\ TransactionOK /\ SiblingsOK /\ QueueOK /\ AloneOK

IInv == WellTyped /\ PassOK /\ StepOK /\ JournalOK

-----------------------------------------------------------------------------
\* Steps of those who do not hold the gate: they touch neither it nor what
\* the journal says about items and transactions.
LEMMA OthersKeep ==
    ASSUME IInv, UNCHANGED <<job, txState, itemState, pending>>
    PROVE  StepOK' /\ JournalOK'
<1>1. CurrentOK' /\ TransactionOK' /\ JournalOK'
  BY DEF IInv, StepOK, CurrentOK, TransactionOK, JournalOK, Unwinding, Raw, InFlight
<1>2. SiblingsOK' /\ QueueOK'
  BY DEF IInv, StepOK, SiblingsOK, QueueOK, Unwinding, Reconciling, Raw
<1>3. AloneOK'
  BY DEF IInv, StepOK, AloneOK, RecoveryPending, ForwardRunsAlone, InFlight
<1> QED
  BY <1>1, <1>2, <1>3 DEF StepOK

\* A holder that is not inside a change says nothing about it.
LEMMA OutsideSays ==
    ASSUME job'.pc \in {"idle"}
    PROVE  StepOK'
  BY DEF StepOK, CurrentOK, TransactionOK, SiblingsOK, QueueOK, AloneOK, ForwardRunsAlone,
         Unwinding, Reconciling, StartPcs, ApplyPcs, WorkPcs, UndoPcs, ForwardPcs

\* A step without a statement about states or recovery rows keeps what the
\* journal says of every item.
LEMMA SameJournalKeeps ==
    ASSUME JournalOK, UNCHANGED <<txState, itemState, pending>>
    PROVE  JournalOK'
  BY DEF JournalOK, Raw, InFlight

\* The gate is released, or lost in a crash.
LEMMA LeaveKeeps ==
    ASSUME IInv, job' = Idle, UNCHANGED <<txState, itemState, pending>>
    PROVE  StepOK' /\ JournalOK'
<1>1. job'.pc = "idle"
  BY DEF Idle
<1> QED
  BY <1>1, OutsideSays, SameJournalKeeps DEF IInv

-----------------------------------------------------------------------------
\* What a statement about one item does to all of them.
ItemSet(t, a, s) ==
    \A u \in Tx, b \in Action :
        itemState'[<<u, b>>] = IF u = t /\ b = a THEN s ELSE itemState[<<u, b>>]

\* An update of one row of transaction_items leaves all the others alone.
LEMMA OneItem ==
    ASSUME JournalTypeOK, NEW t \in Tx, NEW a \in Action, NEW s,
           itemState' = [itemState EXCEPT ![<<t, a>>] = s]
    PROVE  ItemSet(t, a, s)
  BY DEF JournalTypeOK, ItemSet, Items

\* What a move of the gate holder leaves of its job.
SameWork == job'.op = job.op /\ job'.tx = job.tx

\* A commit up to the prepared row group: the recovery gate was read under the
\* mutation gate, and nobody else writes to the journal.
LEMMA PrepareStepKeeps ==
    ASSUME IInv,
           \/ \E s \in Slots : StartCommit(s)
           \/ Detect \/ Capture \/ Redetect \/ Prepare
    PROVE  StepOK' /\ JournalOK'
<1> USE DEF StartPcs, ApplyPcs, WorkPcs, EndPcs, UndoPcs, ForwardPcs
<1>0. job \in Jobs
  BY DEF IInv, WellTyped, TypeOK
<1>1. ASSUME job'.pc \in StartPcs, ~RecoveryPending, UNCHANGED journal
      PROVE  StepOK' /\ JournalOK'
  <2>1. UNCHANGED <<txState, itemState, pending>>
    BY <1>1 DEF journal
  <2>2. JournalOK'
    BY <2>1, SameJournalKeeps DEF IInv
  <2>3. AloneOK'
    BY <1>1, <2>1 DEF AloneOK, ForwardRunsAlone, RecoveryPending, InFlight
  <2> QED
    BY <1>1, <2>2, <2>3
       DEF StepOK, CurrentOK, TransactionOK, SiblingsOK, QueueOK, Unwinding, Reconciling
<1>2. CASE \E s \in Slots : StartCommit(s)
  <2>1. PICK s \in Slots : StartCommit(s)
    BY <1>2
  <2>2. CASE RecoveryPending
    BY <2>1, <2>2, OthersKeep DEF StartCommit, journal
  <2>3. CASE ~RecoveryPending
    BY <1>1, <2>1, <2>3 DEF StartCommit, Idle
  <2> QED
    BY <2>2, <2>3
<1>3. CASE Abort
  BY <1>3, LeaveKeeps DEF Abort, Release, journal
<1>4. CASE (Detect \/ Capture \/ Redetect) /\ ~Abort
  <2>1. job.pc \in StartPcs /\ UNCHANGED journal
    BY <1>4 DEF Detect, Capture, Redetect
  <2>2. ~RecoveryPending
    BY <2>1 DEF IInv, StepOK, AloneOK
  <2>3. job'.pc \in StartPcs
    BY <1>0, <1>4 DEF Detect, Capture, Redetect, Goto, Jobs
  <2> QED
    BY <1>1, <2>1, <2>2, <2>3
<1>5. CASE Prepare
  <2>1. PICK t \in Tx, a \in Action :
          /\ IsNextTx(t)
          /\ First(Planned(job.plan), a)
          /\ RecordPrepared(t, job.plan, job.draft, job.hold)
          /\ job' = [Idle EXCEPT !.op = "commit", !.by = "user", !.pc = "applying",
                                 !.tx = t, !.act = a, !.hold = job.hold]
    BY <1>5 DEF Prepare
  <2>2. job'.pc = "applying" /\ job'.tx = t /\ job'.act = a /\ job'.todo = {}
            /\ job'.op = "commit"
    BY <2>1 DEF Idle
  <2>3. pending' = pending /\ pending = {} /\ \A u \in Tx : ~InFlight(u)
    BY <1>5, <2>1 DEF Prepare, RecordPrepared, IInv, StepOK, AloneOK, RecoveryPending
  <2>4. /\ txState' = [txState EXCEPT ![t] = "PREPARED"]
        /\ txState[t] = "NONE" /\ txState \in [Tx -> TxStates]
    BY <2>1 DEF RecordPrepared, IsNextTx, IInv, WellTyped, TypeOK, JournalTypeOK
  <2>5. \A b \in Action :
          itemState'[<<t, b>>] = IF job.plan[b] # NoValue THEN "PREPARED" ELSE "NONE"
    <3>1. \A b \in Action : itemState[<<t, b>>] = "NONE"
      BY <2>4 DEF IInv, JournalOK
    <3> QED
      BY <2>1, <3>1 DEF RecordPrepared, Items
  <2>6. \A u \in Tx \ {t}, b \in Action : itemState'[<<u, b>>] = itemState[<<u, b>>]
    BY <2>1 DEF RecordPrepared, Items
  <2>7. JournalOK'
    <3>1. \A u \in Tx, b \in Action : ~Raw(u, b)
      BY <2>3 DEF IInv, JournalOK
    <3>2. (\A u \in Tx, b \in Action : Raw(u, b) => InFlight(u))'
      BY <2>4, <2>6, <3>1 DEF Raw, InFlight, InFlightStates
    <3>3. (\A u \in Tx, b \in Action : itemState[<<u, b>>] # "NONE"
              => txState[u] # "NONE")'
      BY <2>4, <2>6 DEF IInv, JournalOK
    <3>4. \A i \in Items : itemState'[i] \in {"PREPARED", itemState[i]}
      BY <2>1 DEF RecordPrepared
    <3>5. \A i \in Items : itemState[i] \notin {"ROLLBACK_FAILED", "RECOVERY_REQUIRED"}
      BY <2>3 DEF IInv, JournalOK
    <3> QED
      BY <3>2, <3>3, <3>4, <3>5 DEF JournalOK
  <2>8. CurrentOK' /\ TransactionOK' /\ QueueOK'
    BY <2>1, <2>2, <2>4, <2>5
       DEF CurrentOK, TransactionOK, QueueOK, Unwinding, Reconciling, First, Planned
  <2>9. SiblingsOK'
    <3>1. \A b \in Action : b < a => job.plan[b] = NoValue
      BY <2>1 DEF First, Planned, Action
    <3> QED
      BY <2>2, <2>5, <3>1 DEF SiblingsOK, Unwinding, Raw
  <2>10. AloneOK'
    BY <2>2, <2>3, <2>4 DEF AloneOK, ForwardRunsAlone, InFlight
  <2> QED
    BY <2>7, <2>8, <2>9, <2>10 DEF StepOK
<1> QED
  BY <1>2, <1>3, <1>4, <1>5

\* JournalOK only asks, for an item that changes its state, whether it is now
\* unfinished in a transaction in flight, and whether a set aside one has a row.
LEMMA ItemKeepsJournal ==
    ASSUME IInv, NEW t \in Tx, NEW a \in Action, NEW s, ItemSet(t, a, s),
           itemState[<<t, a>>] # "NONE",
           s \in {"PREPARED", "APPLYING", "APPLY_FAILED"} => InFlight(t)',
           s \in {"ROLLBACK_FAILED", "RECOVERY_REQUIRED"} => <<t, a>> \in pending',
           \A i \in Items : i # <<t, a>> => (i \in pending' <=> i \in pending),
           \A u \in Tx : txState'[u] = txState[u] \/ (u = t /\ InFlight(t)')
    PROVE  JournalOK'
<1>1. (\A u \in Tx, b \in Action : Raw(u, b) => InFlight(u))'
  BY DEF IInv, JournalOK, ItemSet, Raw, InFlight
<1>2. (\A u \in Tx, b \in Action : itemState[<<u, b>>] # "NONE" => txState[u] # "NONE")'
  BY DEF IInv, JournalOK, ItemSet, InFlight, InFlightStates
<1>3. (\A u \in Tx, b \in Action :
         itemState[<<u, b>>] \in {"ROLLBACK_FAILED", "RECOVERY_REQUIRED"}
             => <<u, b>> \in pending)'
  BY DEF IInv, JournalOK, ItemSet, Items
<1>4. (\A i \in Items : itemState[i] \in {"ROLLBACK_FAILED", "RECOVERY_REQUIRED"}
          => i \in pending)'
  BY <1>3 DEF Items
<1> QED
  BY <1>1, <1>2, <1>4 DEF JournalOK

\* A transaction is settled only when none of its items is unfinished.
LEMMA TxKeepsJournal ==
    ASSUME JournalTypeOK, JournalOK, NEW t \in Tx, NEW s \in TxStates \ {"NONE"},
           \A a \in Action : ~Raw(t, a),
           txState' = [txState EXCEPT ![t] = s], UNCHANGED <<itemState, pending>>
    PROVE  JournalOK'
  BY DEF JournalTypeOK, JournalOK, Raw, InFlight

\* The holder moves on inside the work on one item.
LEMMA MoveKeeps ==
    ASSUME IInv, UNCHANGED journal, NEW pc \in ApplyPcs \union UndoPcs, Goto(pc),
           \/ job.pc \in ApplyPcs /\ job.pc \in ForwardPcs /\ pc \in ApplyPcs
           \/ job.pc \in UndoPcs /\ pc \in UndoPcs
    PROVE  StepOK' /\ JournalOK'
<1> USE DEF StartPcs, ApplyPcs, WorkPcs, UndoPcs, ForwardPcs
<1>1. UNCHANGED <<txState, itemState, pending>>
  BY DEF journal
<1>2. /\ job'.pc = pc /\ job'.op = job.op /\ job'.tx = job.tx /\ job'.act = job.act
      /\ job'.todo = job.todo /\ job'.batch = job.batch /\ job'.queue = job.queue
  BY DEF IInv, WellTyped, TypeOK, Goto, Jobs
<1>3. JournalOK'
  BY <1>1, SameJournalKeeps DEF IInv
<1>4. CurrentOK' /\ TransactionOK'
  BY <1>1, <1>2 DEF IInv, StepOK, CurrentOK, TransactionOK, Unwinding
<1>5. SiblingsOK' /\ QueueOK'
  BY <1>1, <1>2 DEF IInv, StepOK, SiblingsOK, QueueOK, Unwinding, Reconciling, Raw
<1>6. AloneOK'
  BY <1>1, <1>2 DEF IInv, StepOK, AloneOK, ForwardRunsAlone, InFlight
<1> QED
  BY <1>3, <1>4, <1>5, <1>6 DEF StepOK

\* A commit that applies one item after the other.
LEMMA ApplyStepKeeps ==
    ASSUME IInv,
           StartApplying \/ ApplyRead \/ ApplyWrite \/ VerifyApplied \/ Succeed
    PROVE  StepOK' /\ JournalOK'
<1> USE DEF StartPcs, ApplyPcs, WorkPcs, EndPcs, UndoPcs, ForwardPcs
<1>0. /\ job \in Jobs /\ JournalTypeOK /\ JournalOK
      /\ CurrentOK /\ TransactionOK /\ SiblingsOK /\ AloneOK /\ HolderOK
  BY DEF IInv, WellTyped, TypeOK, StepOK
<1>1. CASE StartApplying
  <2>1. /\ job.pc = "applying" /\ job'.pc = "applyRead"
        /\ SameWork /\ job'.act = job.act /\ job'.todo = job.todo
    BY <1>0, <1>1 DEF StartApplying, Goto, Jobs, SameWork
  <2>2. job.tx \in Tx /\ job.act \in Action /\ job.op = "commit"
    BY <1>0, <2>1 DEF HolderOK
  <2>3. /\ ItemSet(job.tx, job.act, "APPLYING")
               /\ itemState[<<job.tx, job.act>>] = "PREPARED"
        /\ pending' = pending /\ txState' = [txState EXCEPT ![job.tx] = "APPLYING"]
    BY <1>0, <1>1, <2>2, OneItem DEF StartApplying, MarkItemApplying, CanMarkApplying
  <2>4. txState'[job.tx] = "APPLYING" /\ \A u \in Tx \ {job.tx} : txState'[u] = txState[u]
    BY <1>0, <2>2, <2>3 DEF JournalTypeOK
  <2>5. JournalOK'
    BY <2>2, <2>3, <2>4, ItemKeepsJournal DEF InFlight, InFlightStates
  <2>6. CurrentOK' /\ TransactionOK' /\ QueueOK'
    BY <2>1, <2>2, <2>3, <2>4
       DEF CurrentOK, TransactionOK, QueueOK, Unwinding, Reconciling, SameWork, ItemSet
  <2>7. SiblingsOK'
    BY <1>0, <2>1, <2>2, <2>3
       DEF SiblingsOK, Unwinding, SameWork, ItemSet, Raw, Jobs, Action
  <2>8. AloneOK'
    BY <1>0, <2>1, <2>3, <2>4 DEF AloneOK, ForwardRunsAlone, SameWork, InFlight
  <2> QED
    BY <2>5, <2>6, <2>7, <2>8 DEF StepOK
<1>2. CASE ApplyRead \/ ApplyWrite \/ (VerifyApplied /\ Goto("applyFailed"))
  <2>1. /\ job.pc \in ApplyPcs /\ \E pc \in ApplyPcs : Goto(pc)
        /\ job.pc \in ForwardPcs
    BY <1>2 DEF ApplyRead, ApplyWrite, VerifyApplied
  <2>2. UNCHANGED journal
    <3>1. CASE VerifyApplied /\ Goto("applyFailed")
      <4>1. job'.pc = "applyFailed"
        BY <1>0, <3>1 DEF Goto, Jobs
      <4> QED
        BY <1>0, <3>1, <4>1 DEF VerifyApplied, Jobs
    <3> QED
      BY <1>2, <3>1 DEF ApplyRead, ApplyWrite
  <2> QED
    BY <2>1, <2>2, MoveKeeps
<1>3. CASE VerifyApplied /\ ~Goto("applyFailed")
  <2>1. job.pc = "verify" /\ MarkItemApplied(job.tx, job.act)
    BY <1>3 DEF VerifyApplied
  <2>2. job.tx \in Tx /\ job.act \in Action /\ job.op = "commit"
    BY <1>0, <2>1 DEF HolderOK
  <2>3. /\ ItemSet(job.tx, job.act, "APPLIED")
               /\ itemState[<<job.tx, job.act>>] = "APPLYING"
        /\ pending' = pending /\ txState' = txState
    BY <1>0, <2>1, <2>2, OneItem DEF MarkItemApplied, CanMarkApplied
  <2>4. JournalOK'
    BY <2>2, <2>3, ItemKeepsJournal
  <2>5. /\ \A b \in Action : b > job.act
               => itemState[<<job.tx, b>>] \in {"NONE", "PREPARED"}
        /\ \A b \in Action : b < job.act => ~Raw(job.tx, b)
        /\ \A b \in job.todo : itemState[<<job.tx, b>>] = "APPLIED"
        /\ txState[job.tx] = "APPLYING"
    BY <1>0, <2>1 DEF SiblingsOK, TransactionOK
  <2>6. AloneOK' \/ job'.pc \notin {"applying", "succeed"} \/ job'.tx # job.tx
    BY <1>0, <2>1, <2>3 DEF AloneOK, ForwardRunsAlone, InFlight
  <2>7. CASE After(ActionsOf(job.tx), job.act) = {}
    <3>1. job'.pc = "succeed" /\ SameWork
      BY <1>0, <1>3, <2>7 DEF VerifyApplied, Jobs, SameWork
    <3>2. \A b \in Action : b > job.act => itemState[<<job.tx, b>>] = "NONE"
      <4>1. \A b \in ActionsOf(job.tx) : ~(job.act < b)
        BY <2>7 DEF After
      <4> QED
        BY <2>2, <4>1 DEF ActionsOf, Action
    <3>3. SiblingsOK'
      BY <2>2, <2>3, <2>5, <3>1, <3>2
         DEF SiblingsOK, Unwinding, SameWork, ItemSet, Raw, Action
    <3> QED
      BY <2>4, <2>6, <3>1, <3>3
         DEF StepOK, CurrentOK, TransactionOK, QueueOK, Unwinding, Reconciling, SameWork
  <2>8. CASE After(ActionsOf(job.tx), job.act) # {}
    <3>1. PICK b \in Action :
            /\ First(After(ActionsOf(job.tx), job.act), b)
            /\ job' = [job EXCEPT !.pc = "applying", !.act = b,
                                  !.todo = job.todo \union {job.act}]
      BY <1>3, <2>8 DEF VerifyApplied
    <3>2. /\ job'.pc = "applying" /\ job'.act = b /\ SameWork
          /\ job'.todo = job.todo \union {job.act}
      BY <1>0, <3>1 DEF Jobs, SameWork
    <3>3. /\ job.act < b /\ itemState[<<job.tx, b>>] # "NONE"
          /\ \A c \in Action : job.act < c /\ c < b => itemState[<<job.tx, c>>] = "NONE"
      <4>1. b \in ActionsOf(job.tx) /\ job.act < b
        BY <3>1 DEF First, After
      <4>2. \A c \in ActionsOf(job.tx) : job.act < c => b <= c
        BY <3>1 DEF First, After
      <4> QED
        BY <4>1, <4>2 DEF ActionsOf, Action
    <3>4. itemState'[<<job.tx, b>>] = "PREPARED"
      BY <2>2, <2>3, <2>5, <3>3 DEF ItemSet, Action
    <3>5. job.todo \subseteq Action
      BY <1>0 DEF Jobs
    <3>6. SiblingsOK'
      <4>1. \A c \in Action : c > b => itemState'[<<job.tx, c>>] \in {"NONE", "PREPARED"}
        BY <2>2, <2>3, <2>5, <3>3 DEF ItemSet, Action
      <4>2. \A c \in Action : c < b => ~Raw(job.tx, c)'
        <5>1. ASSUME NEW c \in Action, c < b
              PROVE  itemState'[<<job.tx, c>>] \notin {"PREPARED", "APPLYING",
                  "APPLY_FAILED"}
          <6>1. CASE c < job.act
            BY <2>2, <2>3, <2>5, <6>1 DEF ItemSet, Raw, Action
          <6>2. CASE c = job.act
            BY <2>2, <2>3, <6>2 DEF ItemSet
          <6>3. CASE job.act < c
            BY <2>2, <2>3, <3>3, <5>1, <6>3 DEF ItemSet, Action
          <6> QED
            BY <2>2, <6>1, <6>2, <6>3 DEF Action
        <5>2. job'.tx = job.tx
          BY <3>2 DEF SameWork
        <5> QED
          BY <5>1, <5>2 DEF Raw
      <4>3. \A c \in job'.todo : itemState'[<<job.tx, c>>] = "APPLIED"
        BY <2>2, <2>3, <2>5, <3>2, <3>5 DEF ItemSet
      <4> QED
        BY <3>2, <4>1, <4>2, <4>3 DEF SiblingsOK, Unwinding, SameWork, Raw
    <3> QED
      BY <2>3, <2>4, <2>5, <2>6, <3>2, <3>4, <3>6
         DEF StepOK, CurrentOK, TransactionOK, QueueOK, Unwinding, Reconciling, SameWork
  <2> QED
    BY <2>7, <2>8
<1>4. CASE Succeed
  <2>1. job.pc = "succeed" /\ job.tx \in Tx /\ job'.pc = "idle"
    BY <1>0, <1>4 DEF Succeed, HolderOK, Release, Idle
  <2>2. /\ \A b \in Action : ~Raw(job.tx, b)
        /\ txState' = [txState EXCEPT ![job.tx] = "SUCCEEDED"]
        /\ UNCHANGED <<itemState, pending>>
    BY <1>0, <1>4 DEF Succeed, SiblingsOK, SetTransactionState
  <2>3. JournalOK'
    BY <1>0, <2>1, <2>2, TxKeepsJournal DEF TxStates
  <2> QED
    BY <2>1, <2>3, OutsideSays
<1> QED
  BY <1>1, <1>2, <1>3, <1>4

-----------------------------------------------------------------------------
\* From the first failure to the list of items to undo.
LEMMA JudgeStepKeeps ==
    ASSUME IInv, ApplyFailed \/ JudgeFailed \/ CancelRest
    PROVE  StepOK' /\ JournalOK'
<1> USE DEF StartPcs, ApplyPcs, WorkPcs, EndPcs, UndoPcs, ForwardPcs
<1>0. /\ job \in Jobs /\ JournalTypeOK /\ JournalOK
      /\ CurrentOK /\ TransactionOK /\ SiblingsOK /\ HolderOK
  BY DEF IInv, WellTyped, TypeOK, StepOK
<1>00. job.tx \in Tx /\ job.act \in Action /\ job.op = "commit"
           /\ job.todo \subseteq Action
  BY <1>0 DEF ApplyFailed, JudgeFailed, CancelRest, HolderOK, Jobs
<1>1. CASE ApplyFailed
  <2>1. /\ job.pc = "applyFailed" /\ job'.pc = "judge"
        /\ SameWork /\ job'.act = job.act /\ job'.todo = job.todo
    BY <1>0, <1>1 DEF ApplyFailed, Goto, Jobs, SameWork
  <2>2. /\ ItemSet(job.tx, job.act, "APPLY_FAILED")
               /\ itemState[<<job.tx, job.act>>] = "APPLYING"
        /\ pending' = pending /\ txState' = txState /\ txState[job.tx] = "APPLYING"
    BY <1>0, <1>00, <1>1, <2>1, OneItem
       DEF ApplyFailed, MarkApplyFailure, CanMarkApplyFailure, TransactionOK
  <2>3. JournalOK'
    BY <1>00, <2>2, ItemKeepsJournal DEF InFlight, InFlightStates
  <2>4. CurrentOK' /\ TransactionOK' /\ QueueOK'
    BY <1>00, <2>1, <2>2
       DEF CurrentOK, TransactionOK, QueueOK, Unwinding, Reconciling, SameWork, ItemSet
  <2>5. SiblingsOK'
    BY <1>0, <1>00, <2>1, <2>2 DEF SiblingsOK, Unwinding, SameWork, ItemSet, Raw, Action
  <2> QED
    BY <2>1, <2>3, <2>4, <2>5 DEF StepOK, AloneOK, ForwardRunsAlone
<1>2. CASE JudgeFailed
  <2>1. /\ job.pc = "judge" /\ job'.pc = "cancel"
        /\ SameWork /\ job'.act = job.act
        /\ job'.todo \in {job.todo, job.todo \union {job.act}}
    BY <1>0, <1>2 DEF JudgeFailed, Goto, Jobs, SameWork
  <2>2. /\ \A b \in Action : b > job.act
               => itemState[<<job.tx, b>>] \in {"NONE", "PREPARED"}
        /\ \A b \in Action : b < job.act => ~Raw(job.tx, b)
        /\ \A b \in job.todo : itemState[<<job.tx, b>>] = "APPLIED"
        /\ txState[job.tx] = "APPLYING" /\ itemState[<<job.tx, job.act>>] = "APPLY_FAILED"
    BY <1>0, <2>1 DEF SiblingsOK, TransactionOK, CurrentOK
  <2>3. CASE UNCHANGED journal /\ job'.todo = job.todo \union {job.act}
    <3>1. UNCHANGED <<txState, itemState, pending>>
      BY <2>3 DEF journal
    <3>2. SiblingsOK'
      BY <1>00, <2>1, <2>2, <2>3, <3>1 DEF SiblingsOK, Unwinding, SameWork, Raw, Action
    <3> QED
      BY <1>0, <2>1, <2>2, <3>1, <3>2, SameJournalKeeps
         DEF StepOK, CurrentOK, TransactionOK, QueueOK, AloneOK, ForwardRunsAlone,
             Unwinding, Reconciling, SameWork
  <2>4. CASE /\ job'.todo = job.todo
             /\ \/ MarkItemRolledBack(job.tx, job.act)
                \/ RecordRecovery(job.tx, job.act, FALSE)
    <3>1. PICK s \in {"ROLLED_BACK", "RECOVERY_REQUIRED"} :
            /\ ItemSet(job.tx, job.act, s) /\ txState' = txState
            /\ pending' = IF s = "ROLLED_BACK" THEN pending \ {<<job.tx, job.act>>}
                          ELSE pending \union {<<job.tx, job.act>>}
      BY <1>0, <1>00, <2>4, OneItem DEF MarkItemRolledBack, RecordRecovery
    <3>2. JournalOK'
      BY <1>00, <2>2, <3>1, ItemKeepsJournal
    <3>3. SiblingsOK'
      BY <1>00, <2>1, <2>2, <2>4, <3>1
         DEF SiblingsOK, Unwinding, SameWork, ItemSet, Raw, Action
    <3> QED
      BY <2>1, <2>2, <3>1, <3>2, <3>3
         DEF StepOK, CurrentOK, TransactionOK, QueueOK, AloneOK, ForwardRunsAlone,
             Unwinding, Reconciling, SameWork
  <2> QED
    BY <1>0, <1>2, <2>3, <2>4 DEF JudgeFailed, Goto, Jobs
<1>3. CASE CancelRest
  <2>1. /\ job.pc = "cancel" /\ txState[job.tx] = "APPLYING"
        /\ \A b \in Action : b > job.act
               => itemState[<<job.tx, b>>] \in {"NONE", "PREPARED"}
        /\ \A b \in Action : b <= job.act /\ Raw(job.tx, b) => b \in job.todo
        /\ \A b \in job.todo : itemState[<<job.tx, b>>] \in {"APPLIED", "APPLY_FAILED"}
    BY <1>0, <1>3 DEF CancelRest, SiblingsOK, TransactionOK
  <2>2. CASE Undispatched(job.tx, job.act) = {}
    <3>1. /\ job'.pc = "undo" /\ SameWork /\ job'.todo = job.todo
          /\ UNCHANGED <<txState, itemState, pending>>
      BY <1>0, <1>3, <2>2 DEF CancelRest, Goto, Jobs, SameWork, journal
    <3>2. \A b \in Action : b > job.act => itemState[<<job.tx, b>>] = "NONE"
      <4>1. \A b \in ActionsOf(job.tx) : ~(job.act < b)
        BY <2>2 DEF Undispatched, After
      <4> QED
        BY <1>00, <4>1 DEF ActionsOf, Action
    <3>3. \A b \in Action : Raw(job.tx, b) => b \in job.todo
      BY <1>00, <2>1, <3>2 DEF Raw, Action
    <3> QED
      BY <1>0, <1>00, <2>1, <3>1, <3>3, SameJournalKeeps
         DEF StepOK, CurrentOK, TransactionOK, SiblingsOK, QueueOK, AloneOK,
             ForwardRunsAlone, Unwinding, Reconciling, SameWork, Raw
  <2>3. CASE Undispatched(job.tx, job.act) # {}
    <3>1. PICK b \in Action :
            /\ First(After(ActionsOf(job.tx), job.act), b)
            /\ MarkItemRolledBack(job.tx, b)
            /\ job' = [job EXCEPT !.act = b]
      BY <1>3, <2>3 DEF CancelRest, Undispatched
    <3>2. job'.pc = "cancel" /\ SameWork /\ job'.act = b /\ job'.todo = job.todo
      BY <1>0, <2>1, <3>1 DEF Jobs, SameWork
    <3>3. /\ job.act < b /\ itemState[<<job.tx, b>>] # "NONE"
          /\ \A c \in Action : job.act < c /\ c < b => itemState[<<job.tx, c>>] = "NONE"
      <4>1. b \in ActionsOf(job.tx) /\ job.act < b
        BY <3>1 DEF First, After
      <4>2. \A c \in ActionsOf(job.tx) : job.act < c => b <= c
        BY <3>1 DEF First, After
      <4> QED
        BY <4>1, <4>2 DEF ActionsOf, Action
    <3>4. /\ ItemSet(job.tx, b, "ROLLED_BACK") /\ txState' = txState
          /\ pending' = pending \ {<<job.tx, b>>}
      BY <1>0, <1>00, <3>1, OneItem DEF MarkItemRolledBack
    <3>5. JournalOK'
      BY <1>00, <3>3, <3>4, ItemKeepsJournal
    <3>6. b \notin job.todo
      BY <1>00, <2>1, <3>3 DEF Action
    <3>7. \A c \in Action : c > b => itemState'[<<job.tx, c>>] \in {"NONE", "PREPARED"}
      BY <1>00, <2>1, <3>3, <3>4 DEF ItemSet, Action
    <3>8. ASSUME NEW c \in Action, c <= b,
                 itemState'[<<job.tx, c>>] \in {"PREPARED", "APPLYING", "APPLY_FAILED"}
          PROVE  c \in job.todo
      BY <1>00, <2>1, <3>3, <3>4, <3>8 DEF ItemSet, Raw, Action
    <3>9. \A c \in job.todo : itemState'[<<job.tx, c>>] \in {"APPLIED", "APPLY_FAILED"}
      BY <1>00, <2>1, <3>4, <3>6 DEF ItemSet
    <3>10. SiblingsOK'
      BY <3>2, <3>7, <3>8, <3>9 DEF SiblingsOK, Unwinding, SameWork, Raw
    <3> QED
      BY <2>1, <3>2, <3>4, <3>5, <3>10
         DEF StepOK, CurrentOK, TransactionOK, QueueOK, AloneOK, ForwardRunsAlone,
             Unwinding, Reconciling, SameWork
  <2> QED
    BY <2>2, <2>3
<1> QED
  BY <1>1, <1>2, <1>3

\* The items to undo, one by one, and the end of the unwinding.
LEMMA UnwindStepKeeps ==
    ASSUME IInv, UndoNext \/ SettleCommit
    PROVE  StepOK' /\ JournalOK'
<1> USE DEF StartPcs, ApplyPcs, WorkPcs, EndPcs, UndoPcs, ForwardPcs
<1>0. /\ job \in Jobs /\ JournalTypeOK /\ JournalOK
      /\ TransactionOK /\ SiblingsOK /\ HolderOK
  BY DEF IInv, WellTyped, TypeOK, StepOK
<1>00. job.tx \in Tx /\ job.op = "commit" /\ job.todo \subseteq Action
  BY <1>0 DEF UndoNext, SettleCommit, HolderOK, Jobs
<1>1. CASE UndoNext
  <2>1. /\ job.pc = "undo" /\ txState[job.tx] \in {"APPLYING", "ROLLING_BACK"}
        /\ \A b \in Action : Raw(job.tx, b) => b \in job.todo
        /\ \A b \in job.todo : itemState[<<job.tx, b>>] \in {"APPLIED", "APPLY_FAILED"}
    BY <1>0, <1>1 DEF UndoNext, TransactionOK, SiblingsOK, Unwinding
  <2>2. CASE job.todo = {}
    <3>1. /\ job'.pc = "settle" /\ SameWork
          /\ UNCHANGED <<txState, itemState, pending>>
      BY <1>0, <1>1, <2>2 DEF UndoNext, Goto, Jobs, SameWork, journal
    <3>2. SiblingsOK'
      BY <2>1, <2>2, <3>1 DEF SiblingsOK, Unwinding, SameWork, Raw
    <3> QED
      BY <1>0, <3>1, <3>2, SameJournalKeeps
         DEF StepOK, CurrentOK, TransactionOK, QueueOK, AloneOK, ForwardRunsAlone,
             Unwinding, Reconciling
  <2>3. CASE job.todo # {} /\ MutationAllowed(job.tx)
    <3>1. PICK a \in Action :
            /\ NextToUndo(job.todo, a)
            /\ MarkTxRollingBack(job.tx, a)
            /\ job' = [job EXCEPT !.pc = "undoRead", !.act = a, !.todo = job.todo \ {a}]
      BY <1>1, <2>3 DEF UndoNext
    <3>2. job'.pc = "undoRead" /\ SameWork /\ job'.act = a /\ job'.todo = job.todo \ {a}
      BY <1>0, <3>1 DEF Jobs, SameWork
    <3>3. /\ ItemSet(job.tx, a, "ROLLING_BACK") /\ pending' = pending
          /\ itemState[<<job.tx, a>>] # "NONE"
          /\ txState'[job.tx] = "ROLLING_BACK"
          /\ \A u \in Tx \ {job.tx} : txState'[u] = txState[u]
      BY <1>0, <1>00, <3>1, OneItem
         DEF MarkTxRollingBack, CanMarkTxRollingBack, CanMarkItemRollingBack,
             JournalTypeOK
    <3>4. JournalOK'
      BY <1>00, <3>3, ItemKeepsJournal DEF InFlight, InFlightStates
    <3>5. SiblingsOK'
      BY <1>00, <2>1, <3>2, <3>3 DEF SiblingsOK, Unwinding, SameWork, ItemSet, Raw
    <3> QED
      BY <1>00, <3>2, <3>3, <3>4, <3>5
         DEF StepOK, CurrentOK, TransactionOK, QueueOK, AloneOK, ForwardRunsAlone,
             Unwinding, Reconciling, SameWork, ItemSet
  <2>4. CASE job.todo # {} /\ ~MutationAllowed(job.tx)
    <3>1. PICK a \in Action :
            /\ NextToUndo(job.todo, a)
            /\ RecordRecovery(job.tx, a, FALSE)
            /\ job' = [job EXCEPT !.todo = job.todo \ {a}, !.recoveryRequired = TRUE]
      BY <1>1, <2>4 DEF UndoNext
    <3>2. job'.pc = "undo" /\ SameWork /\ job'.todo = job.todo \ {a}
      BY <1>0, <2>1, <3>1 DEF Jobs, SameWork
    <3>3. /\ ItemSet(job.tx, a, "RECOVERY_REQUIRED") /\ txState' = txState
          /\ itemState[<<job.tx, a>>] # "NONE"
                 /\ pending' = pending \union {<<job.tx, a>>}
      BY <1>0, <1>00, <3>1, OneItem DEF RecordRecovery, CanRecordRecovery
    <3>4. JournalOK'
      BY <1>00, <3>3, ItemKeepsJournal
    <3>5. SiblingsOK'
      BY <1>00, <2>1, <3>2, <3>3 DEF SiblingsOK, Unwinding, SameWork, ItemSet, Raw
    <3> QED
      BY <2>1, <3>2, <3>3, <3>4, <3>5
         DEF StepOK, CurrentOK, TransactionOK, QueueOK, AloneOK, ForwardRunsAlone,
             Unwinding, Reconciling, SameWork
  <2> QED
    BY <2>2, <2>3, <2>4
<1>2. CASE SettleCommit
  <2>1. /\ job.pc = "settle" /\ job'.pc = "idle"
        /\ \A b \in Action : ~Raw(job.tx, b)
        /\ UNCHANGED <<itemState, pending>>
    BY <1>0, <1>2 DEF SettleCommit, Release, Idle, SiblingsOK, SetTransactionState
  <2> DEFINE s == FinalState(job.rollbackFailed, job.recoveryRequired)
  <2>2. s \in TxStates \ {"NONE"} /\ txState' = [txState EXCEPT ![job.tx] = s]
    BY <1>2 DEF SettleCommit, SetTransactionState, FinalState, TxStates
  <2> HIDE DEF s
  <2>3. JournalOK'
    BY <1>0, <1>00, <2>1, <2>2, TxKeepsJournal
  <2> QED
    BY <2>1, <2>3, OutsideSays
<1> QED
  BY <1>1, <1>2

-----------------------------------------------------------------------------
\* An item that is being restored, for whichever of the three operations.
LEMMA UndoStepKeeps ==
    ASSUME IInv, UndoStep
    PROVE  StepOK' /\ JournalOK'
<1> USE DEF StartPcs, ApplyPcs, WorkPcs, EndPcs, UndoPcs, ForwardPcs
<1>1. CASE UndoRead \/ UndoWrite
  BY <1>1, MoveKeeps DEF UndoRead, UndoWrite
<1>2. CASE UndoVerify \/ UndoFailed
  <2>0. /\ job \in Jobs /\ JournalTypeOK /\ JournalOK
        /\ CurrentOK /\ TransactionOK /\ SiblingsOK /\ QueueOK /\ HolderOK
    BY DEF IInv, WellTyped, TypeOK, StepOK
  <2>1. /\ job.pc \in UndoPcs /\ job.tx \in Tx /\ job.act \in Action
        /\ job.op \in {"commit", "rollback", "reconcile"}
        /\ itemState[<<job.tx, job.act>>] = "ROLLING_BACK" /\ job.todo \subseteq Action
    BY <1>2, <2>0 DEF UndoVerify, UndoFailed, HolderOK, CurrentOK, Jobs
  <2>2. PICK s \in {"ROLLED_BACK", "ROLLBACK_FAILED"}, failed \in BOOLEAN :
          /\ Resume(failed)
          /\ ItemSet(job.tx, job.act, s) /\ txState' = txState
          /\ pending' = IF s = "ROLLED_BACK" THEN pending \ {<<job.tx, job.act>>}
                        ELSE pending \union {<<job.tx, job.act>>}
    BY <1>2, <2>0, <2>1, OneItem
       DEF UndoVerify, UndoFailed, MarkItemRolledBack, RecordRecovery
  <2>3. JournalOK'
    BY <2>1, <2>2, ItemKeepsJournal
  <2>4. CASE job.op = "rollback"
    BY <2>2, <2>3, <2>4, OutsideSays DEF Resume, Release, Idle
  <2>5. CASE job.op = "commit"
    <3>1. job'.pc = "undo" /\ SameWork /\ job'.todo = job.todo
      BY <2>0, <2>2, <2>5 DEF Resume, Jobs, SameWork
    <3>2. SiblingsOK'
      <4>1. /\ \A b \in Action : Raw(job.tx, b) => b \in job.todo
            /\ \A b \in job.todo :
                   itemState[<<job.tx, b>>] \in {"APPLIED", "APPLY_FAILED"}
        BY <2>0, <2>1, <2>5 DEF SiblingsOK, Unwinding
      <4> QED
        BY <2>1, <2>2, <3>1, <4>1 DEF SiblingsOK, Unwinding, SameWork, ItemSet, Raw
    <3> QED
      BY <2>0, <2>1, <2>2, <2>3, <2>5, <3>1, <3>2
         DEF StepOK, CurrentOK, TransactionOK, QueueOK, AloneOK, ForwardRunsAlone,
             Unwinding, Reconciling, SameWork
  <2>6. CASE job.op = "reconcile"
    <3>1. job'.pc = "next" /\ job'.batch = job.batch /\ job'.queue = job.queue
      BY <2>0, <2>2, <2>6 DEF Resume, Jobs
    <3>2. QueueOK'
      <4>1. \A t \in job.batch, a \in Action : Raw(t, a) => <<t, a>> \in job.queue
        BY <2>0, <2>1, <2>6 DEF QueueOK, Reconciling
      <4>2. job.batch \subseteq Tx
        BY <2>0 DEF Jobs
      <4> QED
        BY <2>2, <3>1, <4>1, <4>2 DEF QueueOK, ItemSet, Raw
    <3> QED
      BY <2>3, <3>1, <3>2
         DEF StepOK, CurrentOK, TransactionOK, SiblingsOK, AloneOK, ForwardRunsAlone,
             Unwinding
  <2> QED
    BY <2>1, <2>4, <2>5, <2>6
<1> QED
  BY <1>1, <1>2 DEF UndoStep

-----------------------------------------------------------------------------
\* A single rollback; no other operation knows of its transaction.
LEMMA RollbackStepKeeps ==
    ASSUME IInv,
           \/ RollbackOne \/ RevertItem
           \/ \E t \in Tx, a \in Action : StartRollback(t, a)
    PROVE  StepOK' /\ JournalOK'
<1> USE DEF StartPcs, ApplyPcs, WorkPcs, EndPcs, UndoPcs, ForwardPcs
<1>0. /\ job \in Jobs /\ JournalTypeOK /\ JournalOK /\ CurrentOK /\ HolderOK
  BY DEF IInv, WellTyped, TypeOK, StepOK
<1>1. ASSUME NEW t, NEW a, NEW by, job' = RollbackJob(t, a, by),
             ItemRollbackAllowed(t, a), UNCHANGED journal
      PROVE  StepOK' /\ JournalOK'
  <2>1. UNCHANGED <<txState, itemState, pending>>
    BY <1>1 DEF journal
  <2>2. job'.pc = "item" /\ job'.tx = t /\ job'.act = a
    BY <1>1 DEF RollbackJob, Idle
  <2>3. itemState'[<<t, a>>] \in {"APPLIED", "ROLLING_BACK"}
    BY <1>1, <2>1 DEF ItemRollbackAllowed
  <2> QED
    BY <1>0, <2>1, <2>2, <2>3, SameJournalKeeps
       DEF StepOK, CurrentOK, TransactionOK, SiblingsOK, QueueOK, AloneOK,
           ForwardRunsAlone, Unwinding, Reconciling
<1>2. CASE \E t \in Tx, a \in Action : StartRollback(t, a)
  BY <1>1, <1>2 DEF StartRollback
<1>3. CASE RevertItem
  <2>1. PICK a \in Action :
          IF ItemRollbackAllowed(rev.tx, a)
          THEN job' = RollbackJob(rev.tx, a, "reverter")
          ELSE job' = job
    BY <1>3 DEF RevertItem
  <2> QED
    BY <1>1, <1>3, <2>1, OthersKeep DEF RevertItem, journal
<1>4. CASE RollbackOne
  <2>1. /\ job.pc = "item" /\ job.op = "rollback" /\ job.tx \in Tx /\ job.act \in Action
        /\ itemState[<<job.tx, job.act>>] # "NONE"
    BY <1>0, <1>4 DEF RollbackOne, HolderOK, CurrentOK
  <2>2. CASE UNCHANGED journal /\ Release(FALSE)
    BY <2>2, LeaveKeeps DEF Release, journal
  <2>3. CASE \/ MarkItemRolledBack(job.tx, job.act) /\ Release(TRUE)
             \/ RecordRecovery(job.tx, job.act, FALSE) /\ Release(FALSE)
    <3>1. PICK s \in {"ROLLED_BACK", "RECOVERY_REQUIRED"} :
            /\ ItemSet(job.tx, job.act, s) /\ txState' = txState
            /\ pending' = IF s = "ROLLED_BACK" THEN pending \ {<<job.tx, job.act>>}
                          ELSE pending \union {<<job.tx, job.act>>}
      BY <1>0, <2>1, <2>3, OneItem DEF MarkItemRolledBack, RecordRecovery
    <3>2. JournalOK'
      BY <2>1, <3>1, ItemKeepsJournal
    <3>3. job'.pc = "idle"
      <4>1. job' = Idle
        BY <2>3 DEF Release
      <4> QED
        BY <4>1 DEF Idle
    <3> QED
      BY <3>2, <3>3, OutsideSays
  <2>4. CASE MarkItemRollingBack(job.tx, job.act) /\ Goto("undoRead")
    <3>1. /\ ItemSet(job.tx, job.act, "ROLLING_BACK") /\ txState' = txState
          /\ pending' = pending
      BY <1>0, <2>1, <2>4, OneItem DEF MarkItemRollingBack
    <3>2. JournalOK'
      BY <2>1, <3>1, ItemKeepsJournal
    <3>3. job'.pc = "undoRead" /\ SameWork /\ job'.act = job.act
      BY <1>0, <2>4 DEF Goto, Jobs, SameWork
    <3> QED
      BY <2>1, <3>1, <3>2, <3>3
         DEF StepOK, CurrentOK, TransactionOK, SiblingsOK, QueueOK, AloneOK,
             ForwardRunsAlone, Unwinding, Reconciling, SameWork, ItemSet
  <2> QED
    BY <1>4, <2>2, <2>3, <2>4 DEF RollbackOne
<1> QED
  BY <1>2, <1>3, <1>4

-----------------------------------------------------------------------------
\* A reconcile starts with everything unfinished in its queue.
LEMMA ReconcileJobKeeps ==
    ASSUME IInv, NEW by, job' = ReconcileJob(by), UNCHANGED journal
    PROVE  StepOK' /\ JournalOK'
<1>1. UNCHANGED <<txState, itemState, pending>>
  BY DEF journal
<1>2. /\ job'.pc = "next" /\ job'.batch = LoadedTx(SessionActions)
      /\ job'.queue = {i \in LoadedItems(SessionActions) : itemState[i] # "ROLLED_BACK"}
  BY DEF ReconcileJob, Idle
<1>3. ASSUME NEW t \in Tx, NEW a \in Action, Raw(t, a)
      PROVE  <<t, a>> \in job'.queue
  BY <1>2, <1>3 DEF IInv, JournalOK, Raw, LoadedItems, Loads, Items
<1>4. QueueOK'
  BY <1>1, <1>2, <1>3 DEF QueueOK, LoadedTx, Raw
<1> QED
  BY <1>1, <1>2, <1>4, SameJournalKeeps
     DEF IInv, StepOK, CurrentOK, TransactionOK, SiblingsOK, AloneOK, ForwardRunsAlone,
         Unwinding, StartPcs, ApplyPcs, WorkPcs, UndoPcs, ForwardPcs

\* Reconcile settles a transaction only when its queue is empty.
LEMMA ReconcileStepKeeps ==
    ASSUME IInv, ReconcileStep
    PROVE  StepOK' /\ JournalOK'
<1> USE DEF StartPcs, ApplyPcs, WorkPcs, EndPcs, UndoPcs, ForwardPcs
<1>0. /\ job \in Jobs /\ JournalTypeOK /\ JournalOK /\ QueueOK /\ HolderOK
  BY DEF IInv, WellTyped, TypeOK, StepOK
<1>1. CASE ReconcileEnd
  BY <1>1, LeaveKeeps DEF ReconcileEnd, Release, journal
<1>2. CASE Release(FALSE) /\ UNCHANGED journal
  BY <1>2, LeaveKeeps DEF Release, journal
<1>3. CASE ReconcileItem /\ ~(Release(FALSE) /\ UNCHANGED journal)
  <2>1. /\ job.pc = "next" /\ job.op = "reconcile" /\ job.batch \subseteq Tx
        /\ \A u \in job.batch, b \in Action : Raw(u, b) => <<u, b>> \in job.queue
    BY <1>0, <1>3 DEF ReconcileItem, HolderOK, QueueOK, Reconciling, Jobs
  <2>2. PICK t \in Tx, a \in Action :
          \/ GiveUp(t, a)
          \/ /\ MarkItemRolledBack(t, a)
             /\ job' = [job EXCEPT !.queue = job.queue \ {<<t, a>>}]
          \/ /\ MarkTxRollingBack(t, a)
             /\ job' = [job EXCEPT !.pc = "undoRead", !.tx = t, !.act = a,
                                   !.queue = job.queue \ {<<t, a>>}]
    BY ZenonT(60), <1>3 DEF ReconcileItem
  <2>3. CASE GiveUp(t, a) \/ (/\ MarkItemRolledBack(t, a)
                              /\ job' = [job EXCEPT !.queue = job.queue \ {<<t, a>>}])
    <3>1. job'.pc = "next" /\ job'.batch = job.batch
              /\ job'.queue = job.queue \ {<<t, a>>}
      BY <1>0, <2>1, <2>3 DEF GiveUp, Jobs
    <3>2. PICK s \in {"ROLLED_BACK", "RECOVERY_REQUIRED"} :
            /\ ItemSet(t, a, s) /\ txState' = txState /\ itemState[<<t, a>>] # "NONE"
            /\ pending' = IF s = "ROLLED_BACK" THEN pending \ {<<t, a>>}
                          ELSE pending \union {<<t, a>>}
      BY <1>0, <2>3, OneItem
         DEF GiveUp, MarkItemRolledBack, RecordRecovery, CanMarkRolledBack,
             CanRecordRecovery
    <3>3. JournalOK'
      BY <3>2, ItemKeepsJournal
    <3>4. QueueOK'
      BY <2>1, <3>1, <3>2 DEF QueueOK, ItemSet, Raw
    <3> QED
      BY <3>1, <3>3, <3>4
         DEF StepOK, CurrentOK, TransactionOK, SiblingsOK, AloneOK, ForwardRunsAlone,
             Unwinding
  <2>4. CASE /\ MarkTxRollingBack(t, a)
             /\ job' = [job EXCEPT !.pc = "undoRead", !.tx = t, !.act = a,
                                   !.queue = job.queue \ {<<t, a>>}]
    <3>1. /\ job'.pc = "undoRead" /\ job'.tx = t /\ job'.act = a /\ job'.op = "reconcile"
          /\ job'.batch = job.batch /\ job'.queue = job.queue \ {<<t, a>>}
      BY <1>0, <2>1, <2>4 DEF Jobs
    <3>2. /\ ItemSet(t, a, "ROLLING_BACK") /\ pending' = pending
          /\ itemState[<<t, a>>] # "NONE"
          /\ txState'[t] = "ROLLING_BACK" /\ \A u \in Tx \ {t} : txState'[u] = txState[u]
      BY <1>0, <2>4, OneItem
         DEF MarkTxRollingBack, CanMarkTxRollingBack, CanMarkItemRollingBack,
             JournalTypeOK
    <3>3. JournalOK'
      BY <3>2, ItemKeepsJournal DEF InFlight, InFlightStates
    <3>4. QueueOK'
      BY <2>1, <3>1, <3>2 DEF QueueOK, ItemSet, Raw
    <3> QED
      BY <3>1, <3>2, <3>3, <3>4
         DEF StepOK, CurrentOK, TransactionOK, SiblingsOK, AloneOK, ForwardRunsAlone,
             Unwinding, ItemSet
  <2> QED
    BY <2>2, <2>3, <2>4
<1>4. CASE ReconcileSettle
  <2>1. PICK t \in Tx :
          /\ First(job.batch, t) /\ QueueOf(t) = {}
          /\ SetTransactionState(t, IF t \in job.kept THEN "SUCCEEDED"
                                    ELSE FinalState(job.rollbackFailed,
                                        job.recoveryRequired))
          /\ job' = [job EXCEPT !.batch = job.batch \ {t}, !.tx = 0, !.act = 0,
                                !.rollbackFailed = FALSE, !.recoveryRequired = FALSE]
    BY <1>4 DEF ReconcileSettle
  <2>2. /\ job'.pc = "next" /\ job'.batch = job.batch \ {t} /\ job'.queue = job.queue
        /\ \A u \in job.batch, b \in Action : Raw(u, b) => <<u, b>> \in job.queue
    BY <1>0, <1>4, <2>1 DEF ReconcileSettle, QueueOK, Reconciling, Jobs
  <2>3. \A b \in Action : ~Raw(t, b)
    BY <2>1, <2>2 DEF First, QueueOf
  <2> DEFINE s == IF t \in job.kept THEN "SUCCEEDED"
                  ELSE FinalState(job.rollbackFailed, job.recoveryRequired)
  <2>4. /\ s \in TxStates \ {"NONE"} /\ txState' = [txState EXCEPT ![t] = s]
        /\ UNCHANGED <<itemState, pending>>
    BY <2>1 DEF SetTransactionState, FinalState, TxStates
  <2> HIDE DEF s
  <2>5. JournalOK'
    BY <1>0, <2>3, <2>4, TxKeepsJournal
  <2>6. QueueOK'
    BY <2>2, <2>4 DEF QueueOK, Raw
  <2> QED
    BY <2>2, <2>5, <2>6
       DEF StepOK, CurrentOK, TransactionOK, SiblingsOK, AloneOK, ForwardRunsAlone,
           Unwinding
<1> QED
  BY <1>1, <1>2, <1>3, <1>4 DEF ReconcileStep

-----------------------------------------------------------------------------
\* The inductive invariant holds at first and is kept by every step.
LEMMA InitInvariant == Init => IInv
<1> SUFFICES ASSUME Init
             PROVE  IInv
  OBVIOUS
<1>1. WellTyped /\ PassOK
  BY InitTypes DEF Init, PassOK, Idle, Resting
<1>2. JournalOK
  BY DEF Init, JournalInit, JournalOK, Raw, Items
<1>3. StepOK
  BY DEF Init, Idle, StepOK, CurrentOK, TransactionOK, SiblingsOK, QueueOK, AloneOK,
         ForwardRunsAlone, Unwinding, Reconciling, StartPcs, ApplyPcs, WorkPcs,
         UndoPcs, ForwardPcs
<1> QED
  BY <1>1, <1>2, <1>3 DEF IInv

\* Every step of the app, of its users and of the faults keeps the invariant.
LEMMA NextKeeps ==
    ASSUME IInv, [Next]_vars
    PROVE  StepOK' /\ JournalOK'
<1>1. CASE CommitStep
  BY <1>1, PrepareStepKeeps, ApplyStepKeeps, JudgeStepKeeps, UnwindStepKeeps
     DEF CommitStep
<1>2. CASE UndoStep
  BY <1>2, UndoStepKeeps
<1>3. CASE RollbackOne \/ RevertItem \/ \E t \in Tx, a \in Action : StartRollback(t, a)
  BY <1>3, RollbackStepKeeps
<1>4. CASE ReconcileStep
  BY <1>4, ReconcileStepKeeps
<1>5. CASE StartReconcile \/ Boot
  BY <1>5, ReconcileJobKeeps DEF StartReconcile, Boot
<1>6. CASE RevertScan \/ RevertPick \/ RevertClear \/ RevertEnd
  BY <1>6, OthersKeep
     DEF RevertScan, RevertPick, RevertClear, RevertEnd, ClearTrialRow, journal
<1>7. CASE \E s \in Slots : \/ Preview(s) \/ PreviewExpires(s)
                            \/ \E hold \in BOOLEAN : ClaimPreview(s, hold)
  BY <1>7, OthersKeep DEF Preview, PreviewExpires, ClaimPreview, journal
<1>8. CASE \E s \in Slots : StartCommit(s)
  BY <1>8, PrepareStepKeeps
<1>9. CASE \E t \in Tx : Confirm(t) \/ ClearUndoneTrial(t) \/ HoldElapses(t)
  BY <1>9, OthersKeep
     DEF Confirm, ClearUndoneTrial, HoldElapses, ConfirmTrialRow, ClearTrialRow
<1>10. CASE JobAborts \/ Crash
  BY <1>10, LeaveKeeps DEF JobAborts, Abort, Release, Crash, journal
<1>11. CASE \/ WindowsUpdate \/ UNCHANGED vars
            \/ \E a \in Action, v \in Values : OutsideWrite(a, v)
  BY <1>11, OthersKeep DEF WindowsUpdate, OutsideWrite, journal, vars
<1> QED
  BY <1>1, <1>2, <1>3, <1>4, <1>5, <1>6, <1>7, <1>8, <1>9, <1>10, <1>11
     DEF Next, EngineStep, RevertStep, UserStep, FaultStep

\* IInv is an invariant of the engine, its users and the world.
THEOREM Invariant == Spec => []IInv
<1>1. IInv /\ [Next]_vars => IInv'
  BY NextTypes, NextKeeps DEF IInv
<1> QED
  BY <1>1, InitInvariant, PTL DEF Spec

-----------------------------------------------------------------------------
\* No commit, unwinding or single rollback ever runs into a WHERE clause that
\* does not hold, with its setting already written: whatever the users, the
\* reverter, crashes and the world did before.
THEOREM NeverRefused == Spec => []StatementsNotRefused
<1>1. ASSUME IInv
      PROVE  StatementsNotRefused
  <2> USE DEF StartPcs, ApplyPcs, WorkPcs, EndPcs, UndoPcs
  <2>0. CurrentOK /\ TransactionOK /\ SiblingsOK /\ HolderOK
    BY <1>1 DEF IInv, StepOK, WellTyped
  <2>1. job.pc = "applying" => CanMarkApplying(job.tx, job.act)
    BY <2>0 DEF CurrentOK, TransactionOK, CanMarkApplying
  <2>2. job.pc = "verify" => CanMarkApplied(job.tx, job.act)
    BY <2>0 DEF CurrentOK, CanMarkApplied
  <2>3. job.pc = "applyFailed" => CanMarkApplyFailure(job.tx, job.act)
    BY <2>0 DEF CurrentOK, TransactionOK, CanMarkApplyFailure
  <2>4. job.pc \in {"judge", "item", "undoVerify", "undoFailed"} =>
           CanMarkRolledBack(job.tx, job.act) /\ CanRecordRecovery(job.tx, job.act)
    <3>1. job.pc = "item"
              => itemState[<<job.tx, job.act>>] \in {"APPLIED", "ROLLING_BACK"}
      BY <2>0 DEF CurrentOK
    <3> QED
      BY <2>0, <3>1 DEF CurrentOK, CanMarkRolledBack, CanRecordRecovery
  <2>5. job.pc = "item" => CanMarkItemRollingBack(job.tx, job.act)
    BY <2>0 DEF CurrentOK, CanMarkItemRollingBack
  <2>6. job.pc = "cancel" =>
           \A b \in Undispatched(job.tx, job.act) : CanMarkRolledBack(job.tx, b)
    BY <2>0
       DEF SiblingsOK, Undispatched, After, ActionsOf, CanMarkRolledBack, HolderOK,
           Action
  <2>7. job.pc = "undo" => \A a \in job.todo : CanMarkTxRollingBack(job.tx, a)
    BY <2>0
       DEF SiblingsOK, TransactionOK, Unwinding, CanMarkTxRollingBack,
           CanMarkItemRollingBack
  <2> QED
    BY <2>1, <2>2, <2>3, <2>4, <2>5, <2>6, <2>7 DEF StatementsNotRefused
<1> QED
  BY <1>1, Invariant, PTL

\* Wherever the process stops, an item that is neither confirmed nor given
\* back is loaded by the next recovery, and until then keeps new changes out.
THEOREM NothingIsForgotten == Spec => []UnfinishedIsEnumerated
<1>1. ASSUME IInv
      PROVE  UnfinishedIsEnumerated
  <2>1. ASSUME NEW t \in Tx, NEW a \in Action,
               itemState[<<t, a>>] \in {"PREPARED", "APPLYING", "APPLY_FAILED",
                                        "ROLLBACK_FAILED", "RECOVERY_REQUIRED"}
        PROVE  Loads(t, a, SessionActions) /\ RecoveryPending
    <3>1. CASE Raw(t, a)
      BY <1>1, <3>1 DEF IInv, JournalOK, Raw, Loads, RecoveryPending
    <3>2. CASE ~Raw(t, a)
      <4>1. <<t, a>> \in pending
        BY <1>1, <2>1, <3>2 DEF IInv, JournalOK, Raw, Items
      <4> QED
        BY <2>1, <4>1 DEF Loads, RecoveryPending
    <3> QED
      BY <3>1, <3>2
  <2> QED
    BY <2>1 DEF UnfinishedIsEnumerated
<1> QED
  BY <1>1, Invariant, PTL

\* A transaction is SUCCEEDED only with every apply confirmed: at its commit,
\* and again when a reconcile restores that state.
THEOREM SuccessWasVerified == Spec => []SucceededItemsWereVerified
<1>1. IInv => SucceededItemsWereVerified
  BY DEF IInv, JournalOK, SucceededItemsWereVerified, Raw, InFlight, InFlightStates
<1> QED
  BY <1>1, Invariant, PTL

\* No change goes forward on top of an unfinished one.
THEOREM ForwardIsAlone == Spec => []ForwardRunsAlone
<1>1. IInv => ForwardRunsAlone
  BY DEF IInv, StepOK, AloneOK
<1> QED
  BY <1>1, Invariant, PTL

=============================================================================
