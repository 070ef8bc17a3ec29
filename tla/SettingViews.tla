---------------------------- MODULE SettingViews ----------------------------
(***************************************************************************)
(* Four views of one setting: what its preview shows of it, what its backup *)
(* keeps, what its replacement writes, and what its rollback compares before *)
(* it writes back.  They are taken of different things: a preview may show a *)
(* label of a value, or another value than the one that is replaced.         *)
(*                                                                         *)
(* A setting is a tuple of parts.  A backup maps the parts that are saved    *)
(* to what they held.  An operation that writes yields the tuple as it is    *)
(* afterwards, or NoWrite if it refuses to write.  How the calls of one       *)
(* operation interleave with others is the subject of CompositeSettings;      *)
(* here an operation is one step.                                            *)
(***************************************************************************)
EXTENDS Naturals, Sequences

NoWrite == << >>

\* r with the parts of p in their place.
Put(r, p) == [i \in DOMAIN r |-> IF i \in DOMAIN p THEN p[i] ELSE r[i]]

HasParts(r, p) == \A i \in DOMAIN p : r[i] = p[i]

PutIf(mayWrite, r, p) == IF mayWrite THEN Put(r, p) ELSE NoWrite

\* All parts are the original's, or all are ours.
IsOneOf(r, saved, wanted) == HasParts(r, saved) \/ HasParts(r, wanted)

\* Each part is the original's or ours.
IsMixOf(r, saved, wanted) ==
    \A i \in DOMAIN saved : r[i] \in {saved[i], wanted[i]}

-----------------------------------------------------------------------------
(* One number in the registry: its key, and its value.  Two values of an     *)
(* unexpected type or range look the same.                                   *)

RegistryRaw == ({"present"} \X {"absent", "off", "on", "odd", "odder"})
                   \union {<<"gone", "absent">>}

RegistryLooks(r) == CASE r[2] \in {"odd", "odder"} -> "unknown"
                      [] r[2] = "absent"           -> "unset"
                      [] OTHER                     -> r[2]

\* A key that is missing cannot be restored, so no backup is made of it.
RegistryKeeps(r) == r[1] = "present"

RegistryWants(saved) == <<"present", "on">>

OverwriteRegistry(r, saved) == PutIf(HasParts(r, saved), r, RegistryWants(saved))

RegistryIsApplied(r) == RegistryLooks(r) = "on"

RegistryGiveBack(r, saved) == PutIf(IsOneOf(r, saved, RegistryWants(saved)), r, saved)

-----------------------------------------------------------------------------
(* The colour mode of applications and of Windows. *)

ColourRaw == {"light", "dark", "absent"} \X {"light", "dark", "odd"}

\* Whatever it is that is not set: the preview shows only that something is not.
ColourLooks(r) == CASE "odd" \in {r[1], r[2]}    -> "failed"
                    [] "absent" \in {r[1], r[2]} -> "unconfigured"
                    [] r[1] = r[2]               -> r[1]
                    [] OTHER                     -> "mixed"

ColourWants(saved) == <<"dark", "dark">>

OverwriteColour(r, saved) == PutIf(HasParts(r, saved), r, ColourWants(saved))

ColourIsApplied(r) == ColourLooks(r) = "dark"

\* The parts are looked at before the first is written.
ColourGiveBack(r, saved) == PutIf(IsMixOf(r, saved, ColourWants(saved)), r, saved)

-----------------------------------------------------------------------------
(* The colour of windows: the one the compositor uses is shown, the two in   *)
(* the registry are replaced.                                                *)

WindowRaw == {"unreadable", "blue"} \X {"blue", "green", "teal"} \X {"blue", "teal"}

WindowLooks(r) == IF r[1] = "unreadable" THEN "unknown" ELSE r[1]

WindowSaves == {2, 3}

WindowWants(saved) == [i \in DOMAIN saved |-> "teal"]

OverwriteWindow(r, saved) == PutIf(HasParts(r, saved), r, WindowWants(saved))

WindowIsApplied(r, saved) == HasParts(r, WindowWants(saved))

WindowGiveBack(r, saved) == PutIf(IsMixOf(r, saved, WindowWants(saved)), r, saved)

-----------------------------------------------------------------------------
(* The shortcuts of sticky keys and of filter keys.  "used" and "latched" are *)
(* sticky keys that are on, and a key that is held just now; a filter may be   *)
(* slow in how it waits, which is not shown.                                   *)

ShiftRaw == {"asks", "silent", "used", "latched"} \X {"asks", "silent", "slow", "slow_silent"}

FilterAsks(filter) == filter \in {"asks", "slow"}

ShiftLooks(r) == <<r[1] # "silent", r[1] = "used", FilterAsks(r[2])>>

ShiftIsInUse(r) == r[1] \in {"used", "latched"}

Silenced(filter) == IF filter \in {"slow", "slow_silent"} THEN "slow_silent" ELSE "silent"

ShiftWants(saved) == <<"silent", Silenced(saved[2])>>

OverwriteShift(r, saved) ==
    PutIf(~ShiftIsInUse(r) /\ HasParts(r, saved), r, ShiftWants(saved))

\* A mix is ours only while nothing was recorded of the replacement.
ShiftIsOurs(r, saved, recorded) ==
    IF recorded THEN IsOneOf(r, saved, ShiftWants(saved))
    ELSE IsMixOf(r, saved, ShiftWants(saved))

ShiftGiveBack(r, saved, recorded) == PutIf(ShiftIsOurs(r, saved, recorded), r, saved)

-----------------------------------------------------------------------------
(* How the pointer moves: the two thresholds, the acceleration, the speed. *)

PointerRaw == {"zero", "six_ten", "other"} \X {"on", "off"} \X {"slow", "fast"}

\* The thresholds are not shown.
PointerLooks(r) == <<r[2], r[3]>>

\* Acceleration without thresholds means nothing.
PointerWants(saved) == <<IF saved[1] = "zero" THEN "six_ten" ELSE saved[1], "on", saved[3]>>

OverwritePointer(r, saved) == PutIf(HasParts(r, saved), r, PointerWants(saved))

PointerIsApplied(r, saved) == HasParts(r, PointerWants(saved))

Bug_PointerGiveBack(r, saved) ==
    PutIf(PointerLooks(r) \in {PointerLooks(saved), PointerLooks(PointerWants(saved))}, r, saved)

PointerGiveBack(r, saved) == PutIf(IsOneOf(r, saved, PointerWants(saved)), r, saved)

-----------------------------------------------------------------------------
(* The power mode when plugged in and on battery, and the one in effect.     *)
(* Modes without a name share a label.                                       *)

PowerRaw == ({"calm", "odd", "odder"} \X {"calm", "none"} \X {"calm", "saver"})
                \union {<<"none", "none", "calm">>}

PowerLabel(mode) == IF mode \in {"odd", "odder"} THEN "unnamed" ELSE mode

PowerLooks(r) == IF r[1] = "none" /\ r[2] = "none" THEN <<"unsupported">>
                 ELSE <<PowerLabel(r[1]), PowerLabel(r[2]), r[3]>>

PowerSaves == {1, 2}

\* Windows has no mode for one of them.
PowerIsUnavailable(r) == "none" \in {r[1], r[2]}

PowerWants(saved) == [i \in DOMAIN saved |-> "fast"]

OverwritePower(r, saved) == PutIf(HasParts(r, saved), r, PowerWants(saved))

PowerIsApplied(r, saved) == HasParts(r, PowerWants(saved))

PowerGiveBack(r, saved) == PutIf(IsOneOf(r, saved, PowerWants(saved)), r, saved)

-----------------------------------------------------------------------------
(* The power plan: shown, saved and compared as what it is. *)

PlanRaw == {<<"balanced">>, <<"saver">>, <<"custom">>}

PlanLooks(r) == r[1]

PlanWants(saved) == <<"balanced">>

OverwritePlan(r, saved) == PutIf(HasParts(r, saved), r, PlanWants(saved))

PlanIsApplied(r, saved) == HasParts(r, PlanWants(saved))

PlanGiveBack(r, saved) == PutIf(IsOneOf(r, saved, PlanWants(saved)), r, saved)

-----------------------------------------------------------------------------
(* High contrast, and the scheme Windows remembers for it. *)

ContrastRaw == {"on", "off"} \X {"null", "night", "desert"}

ContrastLooks(r) == r

\* Windows never gives a missing scheme back.
ContrastIsRoundTrip(r) == r[1] = "on" \/ r[2] # "null"

ContrastWants(saved) == <<"on", saved[2]>>

\* If it was on, nothing is written, and nothing compared.
OverwriteContrast(r, saved) ==
    IF saved[1] = "on" THEN r ELSE PutIf(HasParts(r, saved), r, ContrastWants(saved))

ContrastIsApplied(r, saved) == HasParts(r, ContrastWants(saved))

ContrastGiveBack(r, saved) == PutIf(IsOneOf(r, saved, ContrastWants(saved)), r, saved)

=============================================================================
