--------------------------- MODULE ChangeJournal ---------------------------
(***************************************************************************)
(* The durable change journal (SQLite, WAL, synchronous = FULL).           *)
(*                                                                         *)
(* One statement below is one IMMEDIATE SQLite transaction of              *)
(* journal/repository.rs: it happens completely or not at all, and a       *)
(* process crash never loses one that was committed.  CanXxx is the WHERE  *)
(* clause of a statement that must change exactly one row                  *)
(* (require_exactly_one), and its guard: where it does not hold the        *)
(* statement returns an error and changes nothing, and the caller has a    *)
(* step of its own for that error where it can happen (the engine's        *)
(* StatementsNotRefused says where it cannot).  Timestamps, stage events,  *)
(* error codes and diagnostics are left out.                               *)
(*                                                                         *)
(* A transaction is numbered by its start order (ORDER BY                  *)
(* started_at_unix_ms).  An item is a pair <<transaction, action>>: a      *)
(* request never names an action twice, and its items are applied in the   *)
(* order of their action ids, so that the action number is also the        *)
(* ordinal and the apply_order of the item.                                *)
(***************************************************************************)
EXTENDS Naturals

CONSTANTS
    MaxTx,        \* bound: change transactions in a behaviour
    NumActions,   \* number of setting actions in the registry
    Values,       \* what one setting can be read as
    NoValue       \* no backup / action not in the request

ASSUME JournalAssumption ==
    /\ MaxTx \in Nat \ {0}
    /\ NumActions \in Nat \ {0}
    /\ NoValue \notin Values

Tx     == 1..MaxTx
Action == 1..NumActions
Items  == Tx \X Action
Plans  == [Action -> Values \union {NoValue}]
NoPlan == [a \in Action |-> NoValue]

VARIABLES
    txState,    \* transactions.state, "NONE" before the row exists
    itemState,  \* transaction_items.state, "NONE" before the row exists
    orig,       \* backups.payload: the value of the setting before the change
    want,       \* transaction_items.invocation_json: the value asked for
    applyOrder, \* items whose transaction_items.apply_order is set
    pending,    \* items with a recovery_items row whose status is not 'resolved'
    trial       \* trials row: "none", "held" and, once expires_at has passed,
                \* "due" (confirmed_at IS NULL), "confirmed"

journal == <<txState, itemState, orig, want, applyOrder, pending, trial>>

TxStates == {"NONE", "PREPARED", "APPLYING", "SUCCEEDED", "ROLLING_BACK",
             "ROLLED_BACK", "ROLLBACK_FAILED", "RECOVERY_REQUIRED"}

ItemStates == {"NONE", "PREPARED", "APPLYING", "APPLIED", "APPLY_FAILED",
               "ROLLING_BACK", "ROLLED_BACK", "ROLLBACK_FAILED",
               "RECOVERY_REQUIRED"}

\* States whose transactions recovery always loads ('APPLIED' is in the
\* query too, but nothing writes it to a transaction).
InFlightStates == {"PREPARED", "APPLYING", "ROLLING_BACK"}

JournalTypeOK ==
    /\ txState \in [Tx -> TxStates]
    /\ itemState \in [Items -> ItemStates]
    /\ orig \in [Items -> Values \union {NoValue}]
    /\ want \in [Items -> Values \union {NoValue}]
    /\ applyOrder \subseteq Items
    /\ pending \subseteq Items
    /\ trial \in [Tx -> {"none", "held", "due", "confirmed"}]

JournalInit ==
    /\ txState = [t \in Tx |-> "NONE"]
    /\ itemState = [i \in Items |-> "NONE"]
    /\ orig = [i \in Items |-> NoValue]
    /\ want = [i \in Items |-> NoValue]
    /\ applyOrder = {}
    /\ pending = {}
    /\ trial = [t \in Tx |-> "none"]

-----------------------------------------------------------------------------
(* Queries                                                                 *)

\* The actions a transaction has an item for.
ActionsOf(t) == {a \in Action : itemState[<<t, a>>] # "NONE"}

\* A transaction id that was not handed out yet, the next in start order.
IsNextTx(t) ==
    /\ txState[t] = "NONE"
    /\ \A u \in Tx : u < t => txState[u] # "NONE"

InFlight(t) == txState[t] \in InFlightStates

\* Seeded fault: only rows are counted, not transactions a crash interrupted.
Bug_RowsOnly == pending # {}

\* Seeded fault: only interrupted transactions are counted, not rows.
Bug_InFlightOnly == \E t \in Tx : InFlight(t)

\* recovery_count() > 0: an unresolved recovery row, or an in-flight
\* transaction that has none.
RecoveryPending == pending # {} \/ \E t \in Tx : InFlight(t)

\* The transactions and items load_recovery_transactions returns.  `session`
\* stands for the action id session.prevent_sleep, whose kept items are
\* always loaded.
Loads(t, a, session) ==
    /\ itemState[<<t, a>>] # "NONE"
    /\ \/ <<t, a>> \in pending
       \/ txState[t] = "SUCCEEDED" /\ a \in session /\ itemState[<<t, a>>] # "ROLLED_BACK"
       \/ InFlight(t)

LoadedItems(session) == {i \in Items : Loads(i[1], i[2], session)}

LoadedTx(session) == {t \in Tx : \E a \in Action : Loads(t, a, session)}

\* list_timeline's rollback_available: what the history offers to undo.
RollbackAvailable(t, a) == txState[t] = "SUCCEEDED" /\ itemState[<<t, a>>] = "APPLIED"

-----------------------------------------------------------------------------
(* Statements                                                              *)

\* One durable row group for the whole request, with every backup and, for a
\* trial, its deadline, before anything is applied.
RecordPrepared(t, plan, backup, hold) ==
    LET new == {i \in Items : i[1] = t /\ plan[i[2]] # NoValue} IN
    /\ txState' = [txState EXCEPT ![t] = "PREPARED"]
    /\ itemState' = [i \in Items |-> IF i \in new THEN "PREPARED" ELSE itemState[i]]
    /\ orig' = [i \in Items |-> IF i \in new THEN backup[i[2]] ELSE orig[i]]
    /\ want' = [i \in Items |-> IF i \in new THEN plan[i[2]] ELSE want[i]]
    /\ trial' = IF hold THEN [trial EXCEPT ![t] = "held"] ELSE trial
    /\ UNCHANGED <<applyOrder, pending>>

CanMarkApplying(t, a) ==
    txState[t] \in {"PREPARED", "APPLYING"} /\ itemState[<<t, a>>] = "PREPARED"

MarkItemApplying(t, a) ==
    /\ CanMarkApplying(t, a)
    /\ txState' = [txState EXCEPT ![t] = "APPLYING"]
    /\ itemState' = [itemState EXCEPT ![<<t, a>>] = "APPLYING"]
    /\ applyOrder' = applyOrder \union {<<t, a>>}
    /\ UNCHANGED <<orig, want, pending, trial>>

CanMarkApplied(t, a) == itemState[<<t, a>>] = "APPLYING"

MarkItemApplied(t, a) ==
    /\ CanMarkApplied(t, a)
    /\ itemState' = [itemState EXCEPT ![<<t, a>>] = "APPLIED"]
    /\ UNCHANGED <<txState, orig, want, applyOrder, pending, trial>>

CanMarkApplyFailure(t, a) ==
    itemState[<<t, a>>] = "APPLYING" /\ txState[t] \in {"APPLYING", "ROLLING_BACK"}

MarkApplyFailure(t, a) ==
    /\ CanMarkApplyFailure(t, a)
    /\ itemState' = [itemState EXCEPT ![<<t, a>>] = "APPLY_FAILED"]
    /\ UNCHANGED <<txState, orig, want, applyOrder, pending, trial>>

\* mark_item_rolling_back: the item alone, its transaction keeps its state.
CanMarkItemRollingBack(t, a) ==
    itemState[<<t, a>>] \in {"APPLYING", "APPLIED", "APPLY_FAILED", "ROLLING_BACK",
                         "RECOVERY_REQUIRED", "ROLLBACK_FAILED"}

MarkItemRollingBack(t, a) ==
    /\ CanMarkItemRollingBack(t, a)
    /\ itemState' = [itemState EXCEPT ![<<t, a>>] = "ROLLING_BACK"]
    /\ UNCHANGED <<txState, orig, want, applyOrder, pending, trial>>

\* mark_transaction_item_rolling_back: the item and its transaction.
CanMarkTxRollingBack(t, a) ==
    /\ txState[t] \in {"APPLYING", "SUCCEEDED", "ROLLING_BACK",
                       "RECOVERY_REQUIRED", "ROLLBACK_FAILED"}
    /\ CanMarkItemRollingBack(t, a)

MarkTxRollingBack(t, a) ==
    /\ CanMarkTxRollingBack(t, a)
    /\ txState' = [txState EXCEPT ![t] = "ROLLING_BACK"]
    /\ itemState' = [itemState EXCEPT ![<<t, a>>] = "ROLLING_BACK"]
    /\ UNCHANGED <<orig, want, applyOrder, pending, trial>>

CanMarkRolledBack(t, a) == itemState[<<t, a>>] \notin {"NONE", "ROLLED_BACK"}

MarkItemRolledBack(t, a) ==
    /\ CanMarkRolledBack(t, a)
    /\ itemState' = [itemState EXCEPT ![<<t, a>>] = "ROLLED_BACK"]
    /\ pending' = pending \ {<<t, a>>}
    /\ UNCHANGED <<txState, orig, want, applyOrder, trial>>

\* failed: a rollback was tried and its error is recorded with the row.
CanRecordRecovery(t, a) == itemState[<<t, a>>] \notin {"NONE", "ROLLED_BACK"}

\* Seeded fault: the item changes its state but no row is written.
Bug_RecordWithoutRow(t, a, failed) ==
    /\ CanRecordRecovery(t, a)
    /\ itemState' = [itemState EXCEPT ![<<t, a>>] =
                        IF failed THEN "ROLLBACK_FAILED" ELSE "RECOVERY_REQUIRED"]
    /\ UNCHANGED <<txState, orig, want, applyOrder, pending, trial>>

RecordRecovery(t, a, failed) ==
    /\ CanRecordRecovery(t, a)
    /\ itemState' = [itemState EXCEPT ![<<t, a>>] =
                        IF failed THEN "ROLLBACK_FAILED" ELSE "RECOVERY_REQUIRED"]
    /\ pending' = pending \union {<<t, a>>}
    /\ UNCHANGED <<txState, orig, want, applyOrder, trial>>

SetTransactionState(t, s) ==
    /\ txState' = [txState EXCEPT ![t] = s]
    /\ UNCHANGED <<itemState, orig, want, applyOrder, pending, trial>>

\* UPDATE trials ... WHERE confirmed_at_unix_ms IS NULL.
ConfirmTrialRow(t) ==
    /\ trial[t] \in {"held", "due"}
    /\ trial' = [trial EXCEPT ![t] = "confirmed"]
    /\ UNCHANGED <<txState, itemState, orig, want, applyOrder, pending>>

ClearTrialRow(t) ==
    /\ trial' = [trial EXCEPT ![t] = "none"]
    /\ UNCHANGED <<txState, itemState, orig, want, applyOrder, pending>>

============================================================================
