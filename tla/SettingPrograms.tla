-------------------------- MODULE SettingPrograms ---------------------------
(***************************************************************************)
(* An operation of a setting action (apply, rollback, verification) as the  *)
(* sequence of the calls it makes of Windows: the vocabulary, and the       *)
(* programs of the actions that have one value.  CompositeSettings runs the *)
(* programs one call at a time and adds the actions that have two values.   *)
(*                                                                         *)
(* A part of a setting holds what it held at the backup ("original"), what  *)
(* the action wants ("intended"), what Windows makes of that afterwards     *)
(* ("settled", only for a contrast theme) or anything else ("other").       *)
(***************************************************************************)
EXTENDS Naturals, Sequences

Value == {"original", "intended", "settled", "other"}

(* Instructions.  "err" is what follows when the call itself fails. *)

Say(result) == <<[do |-> "say", result |-> result]>>

\* Go on if every part named holds one of the values wanted, else with "bad".
Compare(want, bad, err) ==
    <<[do |-> "compare", want |-> want, bad |-> bad, err |-> err]>>

Assign(p, v, err) == <<[do |-> "assign", part |-> p, to |-> v, err |-> err]>>

\* Go on with what depends on the values read.
Read(purpose, err) == <<[do |-> "read", purpose |-> purpose, seen |-> << >>, err |-> err]>>

\* Put "back" into p if it holds "mine", followed by "after"; go on if it holds
\* "back" already.  What others put there is left to "bad".
Restore(p, back, mine, after, bad, err) ==
    <<[do |-> "restore", part |-> p, back |-> back, mine |-> mine,
       after |-> after, bad |-> bad, err |-> err]>>

\* What the process holds of its own: a contrast theme it has seen after its
\* write, or a connection.
Remember(mine) == <<[do |-> "remember", mine |-> mine]>>

\* Look at part 1 and go on as the value it holds says.
Depends(next, err) == <<[do |-> "depends", next |-> next, err |-> err]>>

\* Close the connection that is ours; "gone" is what follows when it was closed.
CloseOurs(gone, err) == <<[do |-> "close", gone |-> gone, err |-> err]>>

\* "back" for the original, "own" for what is ours, "theirs" for anything else.
ByOwner(mine, back, own, theirs) ==
    [v \in Value |-> CASE v = "original" -> back [] v = mine -> own [] OTHER -> theirs]

Holds(ps, v) == [p \in ps |-> {v}]

Conflict == Say("conflict")
Failed == Say("failed")
Recovery == Say("recovery")

\* A reading that nothing depends on, for the evidence; it may fail.
Observe(ps) == Compare([p \in ps |-> Value], << >>, Failed)

Done == Observe({1}) \o Say("ok")

-----------------------------------------------------------------------------
(* One registry value: explorer_visibility.rs *)

RegistryUndo == Restore(1, "original", "intended", << >>, Recovery, Failed) \o Failed

RegistryApply ==
    Compare(Holds({1}, "original"), Conflict, Failed)
    \o Assign(1, "intended", Failed)
    \o Compare(Holds({1}, "intended"), RegistryUndo, RegistryUndo)
    \o Done

RegistryRollback == Restore(1, "original", "intended", << >>, Conflict, Failed) \o Done

(* power_scheme_switch.rs: a setting that failed is judged by what is there. *)

SchemeReplace(from, to) ==
    LET judge == Depends([v \in Value |-> CASE v = to   -> Say("ok")
                                            [] v = from -> Failed
                                            [] OTHER    -> Conflict], Recovery)
    IN  Assign(1, to, judge) \o judge

SchemeApply == Compare(Holds({1}, "original"), Conflict, Failed)
               \o SchemeReplace("original", "intended")

SchemeRollback ==
    Depends(ByOwner("intended", Say("ok"), SchemeReplace("intended", "original"), Conflict),
            Failed)

(* default_printer.rs.  A printer that is gone when it is to come back ends like *)
(* a reading that fails.                                                         *)

PrinterReplace(from, to) ==
    Compare(Holds({1}, from), Conflict, Failed)
    \o Assign(1, to, Failed)
    \o Compare(Holds({1}, to), Recovery, Recovery)
    \o Say("ok")

PrinterApply == PrinterReplace("original", "intended")

PrinterRollback == Compare(Holds({1}, "intended"), Conflict, Failed)
                   \o PrinterReplace("intended", "original")

(* comms_mic_mute.rs: 1 is the mute bit of the microphone the backup names, 2 is *)
(* the device calls go to by default.  Only apply goes by the default device.    *)

MuteReplace(from, to) ==
    Compare(Holds({1}, from), Conflict, Failed)
    \o Assign(1, to, Failed)
    \o Compare(Holds({1}, to), Failed, Failed)
    \o Say("ok")

MicrophoneApply == Compare(Holds({2}, "original"), Conflict, Failed)
                   \o MuteReplace("original", "intended")

MicrophoneRollback ==
    Depends(ByOwner("intended", Say("ok"), MuteReplace("intended", "original"), Conflict),
            Failed)

(* high_contrast.rs: what is there some seconds after the write is ours. *)

ContrastApply ==
    Compare(Holds({1}, "original"), Conflict, Failed)
    \o Assign(1, "intended", Failed)
    \o Read("adopt", Failed)

Adopt(at) == IF at[1] = "original" THEN Failed ELSE Remember(at[1]) \o Say("ok")

ContrastRollback(mine) ==
    LET ended == Compare(Holds({1}, "original"), Recovery, Failed) \o Say("ok") IN
    Depends(ByOwner(mine, ended,
                    Compare(Holds({1}, mine), Conflict, Failed)
                    \o Assign(1, "original", Failed) \o ended,
                    Conflict),
            Failed)

(* prevent_sleep.rs: the lease this item holds in execution_state.rs. *)

LeaseApply == Assign(1, "intended", Failed) \o Done
LeaseRollback == Assign(1, "original", Failed) \o Done

(* temporary_vpn.rs.  "other" is a connection of the same name that somebody   *)
(* else made; the name is all that a reading shows, the handle what hangs up.  *)

Connected == [p \in {1} |-> {"intended", "other"}]

\* disconnect_owned_vpn
HangUp(bad, err) ==
    Compare(Holds({1}, "intended"), bad, err)
    \o CloseOurs(err, err)
    \o Compare(Holds({1}, "original"), Recovery, err)

\* abandon_dial_attempt: our own may be gone already.
Abandon(result, trouble) ==
    LET gone == Compare([p \in {1} |-> {"original", "other"}], Recovery, trouble) \o result
    IN  CloseOurs(gone, Recovery) \o gone

VpnApply ==
    LET cleanup(result) == HangUp(Conflict, Failed) \o Remember("none") \o result IN
    Compare(Holds({1}, "original"), Conflict, Failed)
    \o Compare(Holds({1}, "original"), Conflict, Failed)
    \o Assign(1, "intended", Abandon(Failed, Failed))
    \o Compare(Holds({1}, "intended"), Abandon(Recovery, Failed), Abandon(Failed, Recovery))
    \o Remember("intended")
    \o Compare(Connected, cleanup(Recovery), cleanup(Failed))
    \o Say("ok")

VpnRollback(mine) ==
    Compare(Connected, Conflict, Failed)
    \o (IF mine = "none" THEN Recovery
        ELSE HangUp(Conflict, Failed) \o Remember("none")
             \o Compare(Holds({1}, "original"), Recovery, Failed) \o Say("ok"))

=============================================================================
