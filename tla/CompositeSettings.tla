------------------------- MODULE CompositeSettings -------------------------
(***************************************************************************)
(* Settings whose operations take several calls of Windows, and the part of *)
(* the engine that one item meets: apply, verify, classify, roll back,       *)
(* verify, and the restart.  An operation is the program SettingPrograms or  *)
(* this module gives for the kind of setting, run one call at a time; others *)
(* may write, a call may fail and the process may die between any two calls. *)
(*                                                                         *)
(* The kinds of this module have two values: the colour mode and the window *)
(* colour (two registry values each), the Shift shortcuts (sticky and        *)
(* filter keys), the pointer (acceleration and speed) and the power mode     *)
(* (plugged in and on battery).                                              *)
(***************************************************************************)
EXTENDS SettingPrograms

VARIABLES
    csKind,     \* which of the actions this behaviour is about
    csAt,       \* what Windows holds, by part
    csMine,     \* what the process remembers as its own, besides the backup
    csItem,     \* the journal's state of the item
    csFrom,     \* its state when the present recovery read it
    csPrint,    \* applied_fingerprint: "none", "memory" or "disk"
    csPhase,    \* what the engine is doing
    csCode,     \* what is left of the running operation
    csSaid,     \* history: how the last apply and the last rollback ended
    csFound,    \* history: csAt when the last rollback began
    csUnseen,   \* history: parts others wrote since they were last compared
    csMoved,    \* history: the setting moved on its own since the last rollback began
    csTrouble   \* history: a call failed, or others wrote, at any time

csvars == <<csKind, csAt, csMine, csItem, csFrom, csPrint, csPhase, csCode, csSaid,
            csFound, csUnseen, csMoved, csTrouble>>

OneValued == {"registry_value", "power_scheme", "default_printer", "high_contrast",
              "prevent_sleep", "temporary_vpn"}
TwoValued == {"color_mode", "window_color", "shift_guard", "pointer_feel", "power_mode",
              "comms_mic_mute"}

Part == IF csKind \in OneValued THEN {1} ELSE {1, 2}
Original == [p \in Part |-> "original"]
Intended == [p \in Part |-> "intended"]

\* The SystemParametersInfo pairs are read in one go, all others value by value.
Paired == csKind \in {"shift_guard", "pointer_feel"}

\* A call that fails may have done its work all the same, but for a write to the
\* registry and a request to the lease worker.
Certain == csKind \in {"color_mode", "window_color", "registry_value", "prevent_sleep"}

CompositeTypeOK ==
    /\ csKind \in OneValued \union TwoValued
    /\ csAt \in [Part -> Value] /\ csFound \in [Part -> Value]
    /\ csMine \in {"none", "intended", "settled", "other"}
    /\ {csItem, csFrom} \subseteq {"PREPARED", "APPLYING", "APPLY_FAILED", "APPLIED",
                                   "ROLLING_BACK", "ROLLED_BACK", "RECOVERY"}
    /\ csPrint \in {"none", "memory", "disk"}
    /\ csPhase \in {"rest", "apply", "verify", "classify", "rollback", "confirm", "down"}
    /\ csCode = << >> <=> csPhase \in {"rest", "down"}
    /\ csSaid \in [apply : {"none", "ok", "conflict", "failed", "recovery"},
                   rollback : {"none", "ok", "conflict", "failed", "recovery"}]
    /\ csUnseen \subseteq Part
    /\ csMoved \in BOOLEAN /\ csTrouble \in BOOLEAN

CompositeInit ==
    /\ csKind \in OneValued \union TwoValued
    /\ csMine = "none"
    /\ csAt = Original /\ csFound = Original
    /\ csItem = "PREPARED" /\ csFrom = "PREPARED"
    /\ csPrint = "none"
    /\ csPhase = "rest" /\ csCode = << >>
    /\ csSaid = [apply |-> "none", rollback |-> "none"]
    /\ csUnseen = {}
    /\ csMoved = FALSE /\ csTrouble = FALSE

-----------------------------------------------------------------------------
HoldsAll(f) == [p \in Part |-> {f[p]}]
Ended == Observe(Part) \o Say("ok")

\* Every part is read, whatever the first one was.
EachHolds(v, no, trouble) ==
    Compare(Holds({1}, v), Compare([q \in {2} |-> Value], << >>, trouble) \o no, trouble)
    \o Compare(Holds({2}, v), no, trouble)

(* color_mode.rs *)

\* compensate_apply: stops at the first entry it cannot restore.
ColorUndo(n, result) ==
    LET back(p) == Restore(p, "original", "intended", << >>, Recovery, Failed) IN
    (IF n = 2 THEN back(2) ELSE << >>) \o (IF n >= 1 THEN back(1) ELSE << >>) \o Say(result)

\* Both entries are looked at before the first is written, and each again.
ColorApply ==
    LET entry(p) ==
            Compare(Holds({p}, "original"), ColorUndo(p - 1, "conflict"),
                    ColorUndo(p - 1, "failed"))
            \o Assign(p, "intended", ColorUndo(p - 1, "failed"))
            \o Compare(Holds({p}, "intended"), ColorUndo(p, "failed"), ColorUndo(p, "failed"))
    IN  Compare(Holds({1}, "original"), Conflict, Failed)
        \o Compare(Holds({2}, "original"), Conflict, Failed)
        \o entry(1) \o entry(2) \o Ended

\* Nothing is written unless both entries are ours or untouched.
Preflight ==
    LET ours(p) == [q \in {p} |-> {"original", "intended"}] IN
    Compare(ours(1), Compare([q \in {2} |-> Value], << >>, Failed) \o Conflict, Failed)
    \o Compare(ours(2), Conflict, Failed)

ColorRollback ==
    LET back(p) == Restore(p, "original", "intended", << >>, Recovery, Failed) IN
    Preflight \o back(2) \o back(1) \o Ended

(* window_color.rs *)

\* compensate: here only ever one entry has been written.
WindowUndo(n, result) ==
    IF n = 0 THEN Say(result)
    ELSE Restore(1, "original", "intended", << >>, Recovery, Recovery)
         \o Compare(Holds({1}, "original"), Recovery, Recovery)
         \o Say(result)

\* A read that fails ends the loop without the way back.
WindowApply ==
    LET entry(p) ==
            Compare(Holds({p}, "original"), WindowUndo(p - 1, "conflict"), Failed)
            \o Assign(p, "intended", WindowUndo(p - 1, "failed"))
    IN  entry(1) \o entry(2) \o Ended

WindowRollback ==
    LET back(p) == Restore(p, "original", "intended", << >>, Conflict, Failed) IN
    Preflight \o back(2) \o back(1) \o Ended

(* accessibility_shortcuts.rs: 1 is sticky, 2 is filter *)

\* compensate_owned_sticky_component, compensate_owned_filter_component.
BackIfOwned(p, from, to, trouble) ==
    Restore(p, from[p], to[p], Compare(Holds({p}, from[p]), trouble, trouble),
            trouble, trouble)

\* compensate_partial_replacement: sticky is tried even if filter went wrong.
BackBoth(from, to, result) ==
    LET sticky == BackIfOwned(1, from, to, Recovery) IN
    BackIfOwned(2, from, to, sticky \o Recovery)
    \o sticky
    \o Compare(HoldsAll(from), Recovery, Recovery) \o Say(result)

\* replace_keyboard_accessibility_settings
ShiftReplace(from, to) ==
    LET written == from[1] # to[1]
        back(result) == (IF written THEN BackIfOwned(1, from, to, Recovery) ELSE << >>)
                        \o Say(result)
    IN  Compare(HoldsAll(from), Conflict, Failed)
        \o (IF written THEN Assign(1, to[1], back("failed")) ELSE << >>)
        \o Compare([p \in Part |-> {IF p = 1 THEN to[1] ELSE from[2]}],
                   back("conflict"), back("failed"))
        \o (IF from[2] = to[2] THEN << >>
            ELSE Assign(2, to[2], BackBoth(from, to, "failed"))
                 \o Compare(HoldsAll(to), BackBoth(from, to, "conflict"),
                            BackBoth(from, to, "failed")))
        \o Ended

ShiftApply == Compare(HoldsAll(Original), Conflict, Failed)
              \o ShiftReplace(Original, Intended)

MixedOwned(at) == /\ at \notin {Original, Intended}
                  /\ \A p \in Part : at[p] \in {"original", "intended"}

\* rollback_with_recovery_policy; a mix of both settings is taken for our own
\* only if the apply never finished or a rollback had begun.
ShiftRollback(at) ==
    IF at = Original THEN Ended
    ELSE IF \/ at = Intended
            \/ MixedOwned(at) /\ (csPrint = "none" \/ csFrom = "ROLLING_BACK")
         THEN ShiftReplace(at, Original)
    ELSE Conflict

(* pointer_feel.rs *)

\* Acceleration, then speed; if the speed fails, the way back is written without
\* looking and then read ("look").
WriteBoth(before, to, look) ==
    LET ended == look \o Failed
        speed == Assign(2, before[2], ended) \o ended
    IN  Assign(1, to[1], Failed)
        \o Assign(2, to[2], Assign(1, before[1], speed) \o speed)
        \o Ended

\* write_transaction
PointerWrite(before, to) ==
    WriteBoth(before, to, Compare(HoldsAll(before), Recovery, Recovery))

\* replace_pointer_feel; write reads the way back once more, after the check.
PointerReplace(from, purpose) ==
    Compare(HoldsAll(from), Conflict, Failed) \o Read(purpose, Failed)

PointerRollback(at) ==
    CASE at = Original -> Ended
      [] at = Intended -> PointerReplace(Intended, "pointer_back")
      [] OTHER         -> Conflict

(* power_mode_switch.rs: 1 is plugged in, 2 on battery *)

\* write_pair, after it has read what is to come back if the second write fails.
PowerWrite(before, to) ==
    WriteBoth(before, to, Compare(Holds({1}, before[1]), Recovery, Recovery)
                          \o Compare(Holds({2}, before[2]), Recovery, Recovery))

PowerApply == EachHolds("original", Conflict, Failed) \o Read("power_on", Failed)

PowerRollback(at) ==
    CASE at = Original -> Ended
      [] at = Intended -> Read("power_back", Failed)
      [] OTHER         -> Conflict

-----------------------------------------------------------------------------
(* mod.rs of the engine: the operations, by kind *)

ApplyCode ==
    CASE csKind = "color_mode"      -> ColorApply
      [] csKind = "window_color"    -> WindowApply
      [] csKind = "shift_guard"     -> ShiftApply
      [] csKind = "pointer_feel"    -> PointerReplace(Original, "pointer_on")
      [] csKind = "power_mode"      -> PowerApply
      [] csKind = "comms_mic_mute"  -> MicrophoneApply
      [] csKind = "registry_value"  -> RegistryApply
      [] csKind = "power_scheme"    -> SchemeApply
      [] csKind = "default_printer" -> PrinterApply
      [] csKind = "high_contrast"   -> ContrastApply
      [] csKind = "prevent_sleep"   -> LeaseApply
      [] csKind = "temporary_vpn"   -> VpnApply

\* What verify_applied and rollback take for the value that was applied.
Mine == IF csMine = "none" THEN "intended" ELSE csMine

RollbackCode ==
    CASE csKind = "color_mode"      -> ColorRollback
      [] csKind = "window_color"    -> WindowRollback
      [] csKind = "shift_guard"     -> Read("shift_rollback", Failed)
      [] csKind = "pointer_feel"    -> Read("pointer_rollback", Failed)
      [] csKind = "power_mode"      -> Read("power_rollback", Failed)
      [] csKind = "comms_mic_mute"  -> MicrophoneRollback
      [] csKind = "registry_value"  -> RegistryRollback
      [] csKind = "power_scheme"    -> SchemeRollback
      [] csKind = "default_printer" -> PrinterRollback
      [] csKind = "high_contrast"   -> ContrastRollback(Mine)
      [] csKind = "prevent_sleep"   -> LeaseRollback
      [] csKind = "temporary_vpn"   -> VpnRollback(csMine)

Bug_VerifyAll(v, no, trouble) == Compare(Holds({1}, v), no, trouble)

\* verify_applied, verify_rolled_back
VerifyAll(v, no, trouble) ==
    CASE Paired -> Compare(Holds(Part, v), no, trouble)
      [] csKind \in {"color_mode", "window_color", "power_mode"} -> EachHolds(v, no, trouble)
      [] OTHER -> Compare(Holds({1}, IF v = "intended" THEN Mine ELSE v), no, trouble)

\* Of a connection, the process that made it has to know that it is its own, or
\* that it is no longer.
Verify(v, no, trouble) ==
    IF csKind # "temporary_vpn" THEN VerifyAll(v, no, trouble)
    ELSE IF v = "original"
         THEN Compare(Holds({1}, "original"), no, trouble)
              \o (IF csMine = "none" THEN << >> ELSE no)
    ELSE IF csMine = "none" THEN trouble ELSE Compare(Connected, no, trouble)

\* classify_action
ClassifyCode ==
    LET unknown == Say("unknown")
        rest == IF csKind = "shift_guard" THEN Read("shift_class", unknown)
                ELSE Say("third")
    IN  Verify("original", Verify("intended", rest, unknown) \o Say("applied"), unknown)
        \o Say("original")

Bug_MixIsOurs == csFrom = "ROLLING_BACK"

\* classify_shift_guard_recovery_state
MixIsOurs ==
    \/ csFrom = "ROLLING_BACK"
    \/ csPrint = "none" /\ csFrom \in {"APPLYING", "APPLY_FAILED"}

ShiftClass(at) ==
    CASE at = Original -> Say("original")
      [] at = Intended -> Say("applied")
      [] OTHER -> IF MixedOwned(at) /\ MixIsOurs THEN Say("applied") ELSE Say("third")

\* What follows a reading.
After(purpose, at) ==
    CASE purpose = "shift_rollback"   -> ShiftRollback(at)
      [] purpose = "shift_class"      -> ShiftClass(at)
      [] purpose = "pointer_rollback" -> PointerRollback(at)
      [] purpose = "pointer_on"       -> PointerWrite(at, Intended)
      [] purpose = "pointer_back"     -> PointerWrite(at, Original)
      [] purpose = "power_rollback"   -> PowerRollback(at)
      [] purpose = "power_on"         -> PowerWrite(at, Intended)
      [] purpose = "power_back"       -> PowerWrite(at, Original)
      [] purpose = "adopt"            -> Adopt(at)

-----------------------------------------------------------------------------
(* One call *)

Bug_Owned(i) == csAt[i.part] # i.back

\* What restore_registry_backup and its likes may write over.
Owned(i) == csAt[i.part] = i.mine

\* The power mode is read value by value.
ReadNow(i) == IF csKind = "power_mode" THEN {Len(i.seen) + 1} ELSE Part

Seen(i) == [p \in 1..Len(i.seen) \union ReadNow(i) |->
                IF p \in ReadNow(i) THEN csAt[p] ELSE i.seen[p]]

Looked(i) == CASE i.do = "compare"                -> DOMAIN i.want
               [] i.do \in {"restore", "assign"} -> {i.part}
               [] i.do = "depends"                -> {1}
               [] i.do = "read" -> IF i.purpose = "power_rollback" THEN ReadNow(i) ELSE {}
               [] i.do \in {"remember", "close"}  -> {}

\* What Windows holds once the call has done its work.
Effect(i) == CASE i.do = "assign"                             -> [csAt EXCEPT ![i.part] = i.to]
               [] i.do = "close" /\ csAt[1] = "intended" -> Original
               [] OTHER                                       -> csAt

Call ==
    LET i == Head(csCode) IN
    /\ csCode # << >> /\ i.do # "say"
    /\ csAt' = Effect(i)
    /\ csMine' = IF i.do = "remember" THEN i.mine ELSE csMine
    /\ csUnseen' = csUnseen \ Looked(i)
    /\ csCode' =
        CASE i.do = "compare" -> IF \A p \in DOMAIN i.want : csAt[p] \in i.want[p]
                                 THEN Tail(csCode) ELSE i.bad
          [] i.do \in {"assign", "remember"} -> Tail(csCode)
          [] i.do = "depends" -> i.next[csAt[1]]
          [] i.do = "close"   -> IF csAt[1] = "intended" THEN Tail(csCode) ELSE i.gone
          [] i.do = "read"    -> IF DOMAIN Seen(i) = Part THEN After(i.purpose, Seen(i))
                                 ELSE <<[i EXCEPT !.seen = Seen(i)]>>
          [] i.do = "restore" -> IF csAt[i.part] = i.back THEN Tail(csCode)
                                 ELSE IF Owned(i)
                                 THEN Assign(i.part, i.back, i.err) \o i.after \o Tail(csCode)
                                 ELSE i.bad
    /\ UNCHANGED <<csKind, csItem, csFrom, csPrint, csPhase, csSaid, csFound, csMoved,
                   csTrouble>>

CallFails ==
    LET i == Head(csCode) IN
    /\ csCode # << >> /\ i.do \notin {"say", "remember"}
    /\ \/ UNCHANGED csAt
       \/ ~Certain /\ csAt' = Effect(i)
    /\ csCode' = i.err
    /\ csTrouble' = TRUE
    /\ UNCHANGED <<csKind, csMine, csItem, csFrom, csPrint, csPhase, csSaid, csFound,
                   csUnseen, csMoved>>

-----------------------------------------------------------------------------
(* The engine around the operations *)

Starts(phase, code) == csPhase' = phase /\ csCode' = code

Rests(state) == /\ csItem' = state
                /\ csPhase' = "rest" /\ csCode' = << >>
                /\ UNCHANGED <<csFrom, csPrint>>

\* mark_item_applying and the call of apply.
StartApply ==
    /\ csPhase = "rest" /\ csItem = "PREPARED"
    /\ csItem' = "APPLYING"
    /\ Starts("apply", ApplyCode)
    /\ UNCHANGED <<csKind, csAt, csMine, csFrom, csPrint, csSaid, csFound, csUnseen,
                   csMoved, csTrouble>>

\* mark_apply_failure, and rollback_after_failure looks at what is there.
ApplyFailed == /\ csItem' = "APPLY_FAILED" /\ csFrom' = "APPLY_FAILED"
               /\ Starts("classify", ClassifyCode)

ApplyEnds(result) ==
    /\ csPhase = "apply"
    /\ csSaid' = [csSaid EXCEPT !.apply = result]
    /\ IF result = "ok"
       THEN /\ csPrint' = "memory"
            /\ Starts("verify", Verify("intended", Say("no"), Say("no")) \o Say("yes"))
            /\ UNCHANGED <<csItem, csFrom>>
       ELSE ApplyFailed /\ UNCHANGED csPrint
    /\ UNCHANGED <<csFound, csMoved>>

\* mark_item_applied saves the backup with its fingerprint.
VerifyEnds(result) ==
    /\ csPhase = "verify"
    /\ IF result = "yes"
       THEN /\ csItem' = "APPLIED" /\ csPrint' = "disk"
            /\ csPhase' = "rest" /\ csCode' = << >>
            /\ UNCHANGED csFrom
       ELSE ApplyFailed /\ UNCHANGED csPrint
    /\ UNCHANGED <<csSaid, csFound, csMoved>>

\* rollback_after_failure, rollback_item and reconcile once they know what is
\* there.  PREPARED proves that nothing of ours was written.
ClassifyEnds(result) ==
    /\ csPhase = "classify"
    /\ CASE result = "original" -> Rests("ROLLED_BACK") /\ UNCHANGED <<csFound, csMoved>>
         [] result = "applied" /\ csFrom # "PREPARED" ->
                /\ csItem' = "ROLLING_BACK"
                /\ Starts("rollback", RollbackCode)
                /\ csFound' = csAt /\ csMoved' = FALSE
                /\ UNCHANGED <<csFrom, csPrint>>
         [] OTHER -> Rests("RECOVERY") /\ UNCHANGED <<csFound, csMoved>>
    /\ UNCHANGED csSaid

RollbackEnds(result) ==
    /\ csPhase = "rollback"
    /\ csSaid' = [csSaid EXCEPT !.rollback = result]
    /\ IF result = "ok"
       THEN /\ Starts("confirm", Verify("original", Say("no"), Say("no")) \o Say("yes"))
            /\ UNCHANGED <<csItem, csFrom, csPrint>>
       ELSE Rests("RECOVERY")
    /\ UNCHANGED <<csFound, csMoved>>

ConfirmEnds(result) ==
    /\ csPhase = "confirm"
    /\ Rests(IF result = "yes" THEN "ROLLED_BACK" ELSE "RECOVERY")
    /\ UNCHANGED <<csSaid, csFound, csMoved>>

OperationEnds ==
    /\ csCode # << >> /\ Head(csCode).do = "say"
    /\ LET result == Head(csCode).result IN
       \/ ApplyEnds(result) \/ VerifyEnds(result) \/ ClassifyEnds(result)
       \/ RollbackEnds(result) \/ ConfirmEnds(result)
    /\ UNCHANGED <<csKind, csAt, csMine, csUnseen, csTrouble>>

\* rollback_item of an applied item.
StartRollback ==
    /\ csPhase = "rest" /\ csItem = "APPLIED"
    /\ csFrom' = "APPLIED"
    /\ Starts("classify", ClassifyCode)
    /\ UNCHANGED <<csKind, csAt, csMine, csItem, csPrint, csSaid, csFound, csUnseen,
                   csMoved, csTrouble>>

\* The process dies between two calls.  A fingerprint not saved is forgotten, and
\* so is which connection is our own; the lease ends with its worker.
Crash ==
    /\ csPhase # "down"
    /\ csItem \notin {"ROLLED_BACK", "RECOVERY"}
    /\ csPhase' = "down" /\ csCode' = << >>
    /\ csPrint' = IF csPrint = "disk" THEN "disk" ELSE "none"
    /\ csMine' = IF csKind = "high_contrast" /\ csPrint = "disk" THEN csMine ELSE "none"
    /\ csAt' = IF csKind = "prevent_sleep" THEN Original ELSE csAt
    /\ UNCHANGED <<csKind, csItem, csFrom, csSaid, csFound, csUnseen, csMoved, csTrouble>>

\* reconcile: an applied item stays, any other is looked at.
Restart ==
    /\ csPhase = "down"
    /\ IF csItem = "APPLIED" THEN csPhase' = "rest" /\ csCode' = << >> /\ UNCHANGED csFrom
       ELSE csFrom' = csItem /\ Starts("classify", ClassifyCode)
    /\ UNCHANGED <<csKind, csAt, csMine, csItem, csPrint, csSaid, csFound, csUnseen,
                   csMoved, csTrouble>>

\* What others can make of a part: nobody else has this item's lease, and a mute
\* bit that is not ours is the original one.
Foreign(p) == CASE csKind = "prevent_sleep"             -> {}
                [] csKind = "comms_mic_mute" /\ p = 1 -> {"original"}
                [] OTHER                               -> {"original", "other"}

\* The Settings app, a theme, another utility.
OthersWrite ==
    \E p \in Part : \E v \in Foreign(p) :
        /\ csItem \notin {"ROLLED_BACK", "RECOVERY"}
        /\ v # csAt[p]
        /\ csAt' = [csAt EXCEPT ![p] = v]
        /\ csUnseen' = csUnseen \union {p}
        /\ csMoved' = TRUE /\ csTrouble' = TRUE
        /\ UNCHANGED <<csKind, csMine, csItem, csFrom, csPrint, csPhase, csCode, csSaid,
                       csFound>>

\* Windows completes a contrast theme some time after it was turned on.
WindowsSettles ==
    /\ csKind = "high_contrast" /\ csAt[1] = "intended"
    /\ csItem \notin {"ROLLED_BACK", "RECOVERY"}
    /\ csAt' = [csAt EXCEPT ![1] = "settled"]
    /\ csMoved' = TRUE
    /\ UNCHANGED <<csKind, csMine, csItem, csFrom, csPrint, csPhase, csCode, csSaid, csFound,
                   csUnseen, csTrouble>>

SettingStep == Call \/ OperationEnds \/ StartApply \/ Restart \/ WindowsSettles
SettingUserStep == StartRollback
SettingFault == CallFails \/ Crash \/ OthersWrite

-----------------------------------------------------------------------------
(* Properties *)

\* When the journal says that the setting is as it was, no place of it holds a
\* value this program put there, whatever failed, crashed or was changed by
\* others on the way (rollback_after_failure, rollback_item and reconcile end an
\* item only after verify_rolled_back has read it).  The same holds of an apply
\* that refuses because of a conflict; and a rollback that does, and that nobody
\* disturbed, leaves every place as it found it (window_color.rs:386-390: the worst
\* is to stop half way and leave a mix).
\*
\* No write of this program, forwards, back, or on a way back, replaces a value
\* of others that it has compared; what it may lose is what was written after
\* its last comparison ("Third" of classify_registry_backup, the checks in
\* replace_keyboard_accessibility_settings, replace_default_printer,
\* disconnect_owned_vpn and their likes).  There is one exception: a theme that
\* others choose in the seconds after a contrast theme was turned on is taken for
\* what Windows made of ours, and recorded as applied (high_contrast.rs:203-206).
\*
\* However often the process dies, between which calls soever, most of these settings
\* never need the user: the value that only the crash has left behind is
\* recognized and put back; for the Shift shortcuts even a mix of old and new
\* (classify_shift_guard_recovery_state, rollback_with_recovery_policy).  Not so for
\* the other settings of two values, for a contrast theme whose fingerprint was
\* not saved yet and for a connection of a process that is gone.
OursGoesOthersStay ==
    /\ [](csItem = "ROLLED_BACK" \/ csSaid.apply = "conflict" =>
              \A p \in Part : csAt[p] \notin {"intended", "settled"})
    /\ [](csSaid.rollback = "conflict" /\ ~csMoved => csAt = csFound)
    /\ [][\A p \in Part :
              /\ csCode' # csCode
              /\ csAt[p] = "other" /\ csAt'[p] # "other"
              => p \in csUnseen \/ csMine = "other"]_csvars
    /\ [](/\ csKind \in {"shift_guard", "comms_mic_mute", "registry_value", "power_scheme",
                         "default_printer", "prevent_sleep"}
          /\ ~csTrouble
          => csItem # "RECOVERY")

=============================================================================
