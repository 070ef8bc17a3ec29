-------------------------- MODULE ReversibleChange --------------------------
(***************************************************************************)
(* What the engine promises about a change, without saying how: a request  *)
(* for several settings is one change.  A change begins only when no other *)
(* change is unsettled or needs attention.  Until it ends it may be kept,  *)
(* need attention, or be worked on again; parts of it are given back one   *)
(* at a time and a part that was given back stays so.  A change that is    *)
(* undone has given back every part, and it is never taken up again.       *)
(***************************************************************************)
CONSTANTS Change, Part

VARIABLES
    phase,      \* "none", "open", "kept", "blocked" or "undone", per change
    parts,      \* the settings the change is about
    restored    \* the <<change, part>> pairs that were given back

cvars == <<phase, parts, restored>>

Active == {"open", "kept", "blocked"}

CInit ==
    /\ phase = [c \in Change |-> "none"]
    /\ parts = [c \in Change |-> {}]
    /\ restored = {}

Begin(c) ==
    /\ phase[c] = "none"
    /\ \A d \in Change : phase[d] \notin {"open", "blocked"}
    /\ phase' = [phase EXCEPT ![c] = "open"]
    /\ \E ps \in (SUBSET Part) \ {{}} : parts' = [parts EXCEPT ![c] = ps]
    /\ UNCHANGED restored

Work(c) ==
    /\ phase[c] \in Active
    /\ \E p \in Active \union {"undone"} :
        /\ phase' = [phase EXCEPT ![c] = p]
        /\ \/ UNCHANGED restored
           \/ \E q \in parts[c] : restored' = restored \union {<<c, q>>}
        /\ p = "undone" => \A q \in parts[c] : <<c, q>> \in restored'
    /\ UNCHANGED parts

CNext == \E c \in Change : Begin(c) \/ Work(c)

CSpec == CInit /\ [][CNext]_cvars
=============================================================================
