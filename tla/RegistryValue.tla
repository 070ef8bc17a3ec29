--------------------------- MODULE RegistryValue ---------------------------
(***************************************************************************)
(* One registry value as the registry family of actions sees it.  Windows  *)
(* holds a key that may be missing, and in it a value that may be missing,  *)
(* of the expected type and range, or of any other.  Two views of it are     *)
(* taken: "detect" reads a number out of it, and takes a missing key for a  *)
(* missing value; the backup has the key, the type and the bytes.  Previews  *)
(* compare the first view, apply and restore the second.                    *)
(*                                                                         *)
(* An item begins as a new change, or as one an older version applied under *)
(* a key that did not exist, which no new backup may be made of.            *)
(***************************************************************************)
EXTENDS Naturals

VARIABLES
    rvAt,       \* what Windows holds
    rvWant,     \* the number the action writes
    rvSeen,     \* the fingerprint of the preview, or "none"
    rvBackup,   \* the original of the backup, or "none"
    rvItem,     \* the journal's state of the item, or "none"
    rvFrom,     \* its state when it was classified
    rvStep,     \* where the operation that runs is, or "rest"
    rvUnseen,   \* history: others wrote since it was last read in full
    rvBlind     \* history: a write replaced what had not been read

rvvars == <<rvAt, rvWant, rvSeen, rvBackup, rvItem, rvFrom, rvStep, rvUnseen, rvBlind>>

Number == {"zero", "one"}
RawState == Number \union {"no_key", "no_value", "foreign"}

\* decode_dword and the range of the action.
Detected(raw) == CASE raw \in Number                 -> raw
                   [] raw \in {"no_key", "no_value"} -> "unset"
                   [] raw = "foreign"                -> "unknown"

RvItems == {"none", "PREPARED", "APPLYING", "APPLY_FAILED", "APPLIED", "ROLLING_BACK",
            "ROLLED_BACK", "RECOVERY"}

RegistryTypeOK ==
    /\ rvAt \in RawState /\ rvWant \in Number
    /\ rvSeen \in Number \union {"unset", "unknown", "none"}
    /\ rvBackup \in RawState \union {"none"}
    /\ (rvBackup = "none") => rvItem = "none"
    /\ rvItem \in RvItems /\ rvFrom \in RvItems
    /\ rvStep \in {"rest", "capture", "redetect", "compare", "write", "verify",
                   "original", "applied", "restore", "put", "confirm", "down"}
    /\ rvUnseen \in BOOLEAN /\ rvBlind \in BOOLEAN

RegistryInit ==
    /\ rvWant \in Number
    /\ rvSeen = "none"
    /\ \/ /\ rvAt \in RawState
          /\ rvBackup = "none" /\ rvItem = "none"
       \/ /\ rvAt = rvWant
          /\ rvBackup = "no_key" /\ rvItem = "APPLIED"
    /\ rvFrom = rvItem
    /\ rvStep = "rest"
    /\ rvUnseen = FALSE /\ rvBlind = FALSE

RvGo(step) == rvStep' = step /\ UNCHANGED <<rvItem, rvFrom>>
RvRest(item) == rvItem' = item /\ rvStep' = "rest" /\ UNCHANGED rvFrom
RvClassify(item) == rvItem' = item /\ rvFrom' = item /\ rvStep' = "original"

RvKeeps == UNCHANGED <<rvAt, rvWant, rvBlind>>

-----------------------------------------------------------------------------
(* Forwards *)

\* detect_current_state: it may well be of an unknown type.
PreviewValue ==
    /\ rvStep = "rest" /\ rvItem = "none"
    /\ rvSeen' = Detected(rvAt)
    /\ UNCHANGED <<rvBackup, rvItem, rvFrom, rvStep, rvUnseen>> /\ RvKeeps

\* create_backup_for_preview: the preview is still true, or it is void.
Redetected(next) ==
    /\ IF Detected(rvAt) = rvSeen THEN next /\ UNCHANGED rvSeen
       ELSE RvRest("none") /\ rvSeen' = "none"
    /\ UNCHANGED rvUnseen /\ RvKeeps

CommitValue ==
    /\ rvStep = "rest" /\ rvItem = "none" /\ rvSeen # "none"
    /\ Redetected(RvGo("capture"))
    /\ UNCHANGED rvBackup

\* prepare_registry_backup
CaptureValue ==
    /\ rvStep = "capture"
    /\ rvUnseen' = FALSE
    /\ IF rvAt = "no_key" THEN RvRest("none") /\ rvSeen' = "none" /\ UNCHANGED rvBackup
       ELSE RvGo("redetect") /\ rvBackup' = rvAt /\ UNCHANGED rvSeen
    /\ RvKeeps

PrepareValue ==
    /\ rvStep = "redetect"
    /\ Redetected(rvItem' = "PREPARED" /\ rvStep' = "compare" /\ UNCHANGED rvFrom)
    /\ rvBackup' = IF Detected(rvAt) = rvSeen THEN rvBackup ELSE "none"

Bug_SameRaw(raw) == Detected(rvAt) = Detected(raw)

\* current == backup.original
SameRaw(raw) == rvAt = raw

\* mark_item_applying and apply_verified_registry_backup up to its write.
CompareValue ==
    /\ rvStep = "compare"
    /\ rvUnseen' = FALSE
    /\ IF SameRaw(rvBackup) THEN rvItem' = "APPLYING" /\ rvStep' = "write" /\ UNCHANGED rvFrom
       ELSE RvClassify("APPLY_FAILED")
    /\ UNCHANGED <<rvSeen, rvBackup>> /\ RvKeeps

\* This program replaces what it last read to be "expected".
RvPuts(raw, expected) ==
    /\ rvAt' = raw
    /\ rvBlind' = (rvBlind \/ (rvAt # expected /\ ~rvUnseen))
    /\ UNCHANGED <<rvWant, rvSeen, rvBackup, rvUnseen>>

\* write_raw_value creates the key if it is gone.
WriteValue ==
    /\ rvStep = "write"
    /\ RvPuts(rvWant, rvBackup)
    /\ RvGo("verify")

\* verify_applied
VerifyValue ==
    /\ rvStep = "verify"
    /\ IF Detected(rvAt) = rvWant THEN RvRest("APPLIED") ELSE RvClassify("APPLY_FAILED")
    /\ UNCHANGED <<rvSeen, rvBackup, rvUnseen>> /\ RvKeeps

-----------------------------------------------------------------------------
(* Backwards: classify_action, then rollback and verify_rolled_back *)

\* rollback_item, or a reconcile of what was set aside.
RollBackValue ==
    /\ rvStep = "rest" /\ rvItem \in {"APPLIED", "RECOVERY"}
    /\ rvFrom' = rvItem /\ rvStep' = "original"
    /\ UNCHANGED <<rvSeen, rvBackup, rvItem, rvUnseen>> /\ RvKeeps

IsOriginalValue ==
    /\ rvStep = "original"
    /\ rvUnseen' = FALSE
    /\ IF SameRaw(rvBackup) THEN RvRest("ROLLED_BACK") ELSE RvGo("applied")
    /\ UNCHANGED <<rvSeen, rvBackup>> /\ RvKeeps

\* PREPARED proves that the value is not ours.
IsAppliedValue ==
    /\ rvStep = "applied"
    /\ IF Detected(rvAt) = rvWant /\ rvFrom # "PREPARED"
       THEN rvItem' = "ROLLING_BACK" /\ rvStep' = "restore" /\ UNCHANGED rvFrom
       ELSE RvRest("RECOVERY")
    /\ UNCHANGED <<rvSeen, rvBackup, rvUnseen>> /\ RvKeeps

\* restore_registry_backup: classify_registry_backup.  CreatedKeyWithoutValue ends
\* like a third state.
ClassifyValue ==
    /\ rvStep = "restore"
    /\ rvUnseen' = FALSE
    /\ IF SameRaw(rvBackup) THEN RvGo("confirm")
       ELSE IF rvAt = rvWant THEN RvGo("put") ELSE RvRest("RECOVERY")
    /\ UNCHANGED <<rvSeen, rvBackup>> /\ RvKeeps

\* A key that did not exist is kept all the same, which is no success.
PutValue ==
    /\ rvStep = "put"
    /\ RvPuts(CASE rvBackup \in {"no_value", "no_key"} ->
                     IF rvAt = "no_key" THEN "no_key" ELSE "no_value"
                [] OTHER -> rvBackup,
              rvWant)
    /\ IF rvBackup = "no_key" THEN RvRest("RECOVERY") ELSE RvGo("confirm")

ConfirmValue ==
    /\ rvStep = "confirm"
    /\ rvUnseen' = FALSE
    /\ RvRest(IF SameRaw(rvBackup) THEN "ROLLED_BACK" ELSE "RECOVERY")
    /\ UNCHANGED <<rvSeen, rvBackup>> /\ RvKeeps

-----------------------------------------------------------------------------
(* Failing calls, crashes, others *)

\* A write that fails may have created the key.
RegistryCallFails ==
    /\ CASE rvStep \in {"capture", "redetect"} ->
                RvRest("none") /\ rvSeen' = "none" /\ rvBackup' = "none"
         [] rvStep \in {"compare", "write", "verify"} ->
                RvClassify("APPLY_FAILED") /\ UNCHANGED <<rvSeen, rvBackup>>
         [] rvStep \in {"original", "applied", "restore", "put", "confirm"} ->
                RvRest("RECOVERY") /\ UNCHANGED <<rvSeen, rvBackup>>
         [] OTHER -> FALSE
    /\ \/ UNCHANGED rvAt
       \/ /\ rvStep = "write" \/ (rvStep = "put" /\ rvBackup \notin {"no_key", "no_value"})
          /\ rvAt = "no_key" /\ rvAt' = "no_value"
    /\ UNCHANGED <<rvWant, rvUnseen, rvBlind>>

RegistryCrash ==
    /\ rvStep \notin {"rest", "down"}
    /\ rvStep' = "down" /\ rvSeen' = "none"
    /\ rvBackup' = IF rvItem = "none" THEN "none" ELSE rvBackup
    /\ UNCHANGED <<rvItem, rvFrom, rvUnseen>> /\ RvKeeps

\* reconcile
RegistryRestart ==
    /\ rvStep = "down"
    /\ IF rvItem \in {"none", "APPLIED", "ROLLED_BACK"} THEN RvRest(rvItem)
       ELSE RvClassify(rvItem)
    /\ UNCHANGED <<rvSeen, rvBackup, rvUnseen>> /\ RvKeeps

OthersWriteValue ==
    /\ rvItem # "ROLLED_BACK"
    /\ \E raw \in RawState \ {rvAt} : rvAt' = raw
    /\ rvUnseen' = TRUE
    /\ UNCHANGED <<rvWant, rvSeen, rvBackup, rvItem, rvFrom, rvStep, rvBlind>>

RegistryStep == \/ CaptureValue \/ PrepareValue \/ CompareValue \/ WriteValue \/ VerifyValue
                \/ IsOriginalValue \/ IsAppliedValue \/ ClassifyValue \/ PutValue
                \/ ConfirmValue \/ RegistryRestart

RegistryUserStep == PreviewValue \/ CommitValue \/ RollBackValue

RegistryFault == RegistryCallFails \/ RegistryCrash \/ OthersWriteValue

RegistrySpec ==
    RegistryInit /\ [][RegistryStep \/ RegistryUserStep \/ RegistryFault]_rvvars

-----------------------------------------------------------------------------
(* Properties *)

\* An item is rolled back only when the registry holds exactly what the backup
\* has: the bytes and the type, no value where there was none, and no key where
\* there was none, so that the backup of an older version whose key stays behind
\* is never recorded as given back.  And no write, forwards or back, replaces a
\* state that was not read before it, though the previews are compared in the
\* coarser view, in which a missing key is a missing value and every foreign type
\* the same (apply_verified_registry_backup, restore_registry_backup,
\* verify_registry_backup_restored).
RegistryIsGivenBack ==
    /\ rvItem = "ROLLED_BACK" => rvAt = rvBackup
    /\ ~rvBlind

=============================================================================
