-------------------------- MODULE SettingCaptures --------------------------
(***************************************************************************)
(* A change of one setting from its preview to its end, with every reading   *)
(* of it as a step of its own: the preview, the two detections around the    *)
(* backup, the comparison of the replacement, the verification, the          *)
(* classification, the rollback and its confirmation.  Others (the user,     *)
(* Windows, other programs) write one part of the setting between any two    *)
(* of them.  SettingViews and SessionViews say what each reading is of.      *)
(***************************************************************************)
EXTENDS SessionViews

CONSTANT MaxOthers

ASSUME MaxOthersAssumption == MaxOthers \in Nat

VARIABLES
    scKind,       \* which action
    scRaw,        \* what Windows holds
    scPc,         \* what the engine does next
    scShown,      \* what the preview showed, as a sequence of one
    scSaved,      \* the backup
    scItem,       \* the journal's state of the item
    scRecorded,   \* the backup has the fingerprint of what was applied
    scReplaced,   \* history: what the replacement found, if it wrote
    scWithout,    \* history: what Windows would hold had nothing been written here
    scTouched,    \* history: the parts others changed since the backup
    scOthers      \* history: how often others have written

scvars == <<scKind, scRaw, scPc, scShown, scSaved, scItem, scRecorded,
            scReplaced, scWithout, scTouched, scOthers>>

CaptureKinds == {"registry", "color_mode", "window_color", "shift", "pointer",
                 "power_mode", "power_scheme", "high_contrast", "printer",
                 "microphone", "sleep", "vpn", "volumes", "watch", "guide", "launch"}

RawOf(kind) ==
    CASE kind = "registry"      -> RegistryRaw
      [] kind = "color_mode"    -> ColourRaw
      [] kind = "window_color"  -> WindowRaw
      [] kind = "shift"         -> ShiftRaw
      [] kind = "pointer"       -> PointerRaw
      [] kind = "power_mode"    -> PowerRaw
      [] kind = "power_scheme"  -> PlanRaw
      [] kind = "high_contrast" -> ContrastRaw
      [] kind = "printer"       -> PrinterRaw
      [] kind = "microphone"    -> MicrophoneRaw
      [] kind = "sleep"         -> SleepRaw
      [] kind = "vpn"           -> VpnRaw
      [] kind = "volumes"       -> VolumeRaw
      [] kind = "watch"         -> WatchRaw
      [] kind = "guide"         -> GuideRaw
      [] kind = "launch"        -> LaunchRaw

\* detect_current_state; "failed" if there is no answer.
Looks(r) ==
    CASE scKind = "registry"      -> RegistryLooks(r)
      [] scKind = "color_mode"    -> ColourLooks(r)
      [] scKind = "window_color"  -> WindowLooks(r)
      [] scKind = "shift"         -> ShiftLooks(r)
      [] scKind = "pointer"       -> PointerLooks(r)
      [] scKind = "power_mode"    -> PowerLooks(r)
      [] scKind = "power_scheme"  -> PlanLooks(r)
      [] scKind = "high_contrast" -> ContrastLooks(r)
      [] scKind = "printer"       -> PrinterLooks(r)
      [] scKind = "microphone"    -> MicrophoneLooks(r)
      [] scKind = "vpn"           -> VpnLooks(r)
      [] scKind = "volumes"       -> VolumeLooks(r)
      [] scKind = "watch"         -> WatchLooks(r)
      [] scKind = "launch"        -> LaunchLooks(r)
      [] OTHER                    -> r

MayFail == {"color_mode", "microphone", "watch"}

IsVisible(r) == scKind \in MayFail => Looks(r) # "failed"

\* validate
MayStart(r) ==
    CASE scKind = "shift"         -> ~ShiftIsInUse(r)
      [] scKind = "power_mode"    -> ~PowerIsUnavailable(r)
      [] scKind = "high_contrast" -> ContrastIsRoundTrip(r)
      [] scKind = "printer"       -> PrinterIsMutable(r)
      [] scKind = "microphone"    -> IsVisible(r)
      [] scKind = "vpn"           -> IsRegistered(r)
      [] scKind = "launch"        -> CanLaunch(r)
      [] scKind = "guide"         -> ~GuideRefuses
      [] OTHER                    -> TRUE

\* create_backup, which looks at the same again.
MayCapture(r) ==
    /\ MayStart(r)
    /\ scKind = "registry" => RegistryKeeps(r)
    /\ scKind = "watch" => IsVisible(r)

Saves(r) ==
    CASE scKind = "window_color"              -> WindowSaves
      [] scKind = "power_mode"                -> PowerSaves
      [] scKind = "printer"                   -> PrinterSaves
      [] scKind = "microphone"                -> MicrophoneSaves(r)
      [] scKind = "sleep"                     -> SleepSaves
      [] scKind = "vpn"                       -> VpnSaves
      [] scKind = "volumes"                   -> Playing(r)
      [] scKind \in {"watch", "guide", "launch"} -> {}
      [] OTHER                                -> DOMAIN r

Capture(r) == [i \in Saves(r) |-> r[i]]

\* What the change makes of the parts that are saved.
Wants(saved) ==
    CASE scKind = "registry"      -> RegistryWants(saved)
      [] scKind = "color_mode"    -> ColourWants(saved)
      [] scKind = "window_color"  -> WindowWants(saved)
      [] scKind = "shift"         -> ShiftWants(saved)
      [] scKind = "pointer"       -> PointerWants(saved)
      [] scKind = "power_mode"    -> PowerWants(saved)
      [] scKind = "power_scheme"  -> PlanWants(saved)
      [] scKind = "high_contrast" -> ContrastWants(saved)
      [] scKind = "printer"       -> PrinterWants
      [] scKind = "microphone"    -> MicrophoneWants(saved)
      [] scKind = "sleep"         -> SleepWants
      [] OTHER                    -> saved

\* apply
Overwrite(r, saved) ==
    CASE scKind = "registry"      -> OverwriteRegistry(r, saved)
      [] scKind = "color_mode"    -> OverwriteColour(r, saved)
      [] scKind = "window_color"  -> OverwriteWindow(r, saved)
      [] scKind = "shift"         -> OverwriteShift(r, saved)
      [] scKind = "pointer"       -> OverwritePointer(r, saved)
      [] scKind = "power_mode"    -> OverwritePower(r, saved)
      [] scKind = "power_scheme"  -> OverwritePlan(r, saved)
      [] scKind = "high_contrast" -> OverwriteContrast(r, saved)
      [] scKind = "printer"       -> OverwritePrinter(r, saved)
      [] scKind = "microphone"    -> OverwriteMicrophone(r, saved)
      [] scKind = "sleep"         -> OverwriteSleep(r)
      [] scKind = "vpn"           -> OverwriteVpn(r, saved)
      [] scKind = "volumes"       -> OverwriteVolume(r, saved)
      [] scKind = "watch"         -> OverwriteWatch(r)
      [] scKind = "launch"        -> OverwriteLaunch(r)

\* verify_applied
IsApplied(r, saved) ==
    CASE scKind = "registry"      -> RegistryIsApplied(r)
      [] scKind = "color_mode"    -> ColourIsApplied(r)
      [] scKind = "window_color"  -> WindowIsApplied(r, saved)
      [] scKind = "pointer"       -> PointerIsApplied(r, saved)
      [] scKind = "power_mode"    -> PowerIsApplied(r, saved)
      [] scKind = "power_scheme"  -> PlanIsApplied(r, saved)
      [] scKind = "high_contrast" -> ContrastIsApplied(r, saved)
      [] scKind = "printer"       -> PrinterIs(r, PrinterWants)
      [] scKind = "microphone"    -> MicrophoneIsApplied(r, saved)
      [] scKind = "sleep"         -> SleepIsApplied(r)
      [] scKind = "vpn"           -> VpnIsApplied(r, saved)
      [] scKind = "volumes"       -> TRUE
      [] scKind = "watch"         -> IsObserved(r)
      [] scKind = "launch"        -> LaunchIsApplied(r)
      [] OTHER                    -> HasParts(r, Wants(saved))

\* verify_rolled_back
IsRestored(r, saved) ==
    CASE scKind = "printer" -> PrinterIs(r, saved)
      [] scKind = "vpn"     -> VpnIsRestored(r, saved)
      [] scKind = "volumes" -> VolumeIsRestored(r, saved)
      [] scKind = "watch"   -> IsObserved(r)
      [] OTHER              -> HasParts(r, saved)

\* rollback
GiveBack(r, saved) ==
    CASE scKind = "registry"      -> RegistryGiveBack(r, saved)
      [] scKind = "color_mode"    -> ColourGiveBack(r, saved)
      [] scKind = "window_color"  -> WindowGiveBack(r, saved)
      [] scKind = "shift"         -> ShiftGiveBack(r, saved, scRecorded)
      [] scKind = "pointer"       -> PointerGiveBack(r, saved)
      [] scKind = "power_mode"    -> PowerGiveBack(r, saved)
      [] scKind = "power_scheme"  -> PlanGiveBack(r, saved)
      [] scKind = "high_contrast" -> ContrastGiveBack(r, saved)
      [] scKind = "printer"       -> PrinterGiveBack(r, saved)
      [] scKind = "microphone"    -> MicrophoneGiveBack(r, saved)
      [] scKind = "sleep"         -> SleepGiveBack(r, saved)
      [] scKind = "vpn"           -> VpnGiveBack(r, saved)
      [] scKind = "volumes"       -> VolumeGiveBack(r, saved)
      [] scKind = "watch"         -> WatchGiveBack(r)
      [] scKind = "launch"        -> LaunchGiveBack(r)

-----------------------------------------------------------------------------

CapturePcs == {"idle", "shown", "valid", "current", "captured", "prepared", "verify",
               "rest", "classify", "give_back", "confirm", "end"}

CaptureItems == {"none", "refused", "PREPARED", "APPLY_FAILED", "APPLIED", "ROLLED_BACK",
                 "RECOVERY"}

CapturesTypeOK ==
    /\ scKind \in CaptureKinds /\ scPc \in CapturePcs /\ scItem \in CaptureItems
    /\ DOMAIN scRaw \subseteq 1..3 /\ DOMAIN scWithout = DOMAIN scRaw
    /\ DOMAIN scReplaced \in {{}, DOMAIN scRaw}
    /\ Len(scShown) \in 0..1 /\ DOMAIN scSaved \subseteq DOMAIN scRaw
    /\ scTouched \subseteq DOMAIN scRaw /\ scOthers \in 0..MaxOthers
    /\ scRecorded \in BOOLEAN

CapturesInit ==
    /\ scKind \in CaptureKinds
    /\ scRaw \in RawOf(scKind)
    /\ scPc = "idle" /\ scItem = "none" /\ scRecorded = FALSE
    /\ scShown = << >> /\ scSaved = << >>
    /\ scReplaced = NoWrite /\ scWithout = scRaw /\ scTouched = {} /\ scOthers = 0

ScKeeps == UNCHANGED <<scKind, scWithout, scTouched, scOthers>>
ScGo(pc) == scPc' = pc /\ UNCHANGED <<scItem, scRecorded>>
ScEnd(item) == scPc' = "end" /\ scItem' = item /\ UNCHANGED scRecorded
ScOnlyReads == UNCHANGED <<scRaw, scShown, scSaved, scReplaced>> /\ ScKeeps

StillShown == IsVisible(scRaw) /\ scShown = <<Looks(scRaw)>>

\* preview: validate and detect_current_state.
PreviewSetting ==
    /\ scPc = "idle"
    /\ IF MayStart(scRaw) /\ IsVisible(scRaw)
          THEN ScGo("shown") /\ scShown' = <<Looks(scRaw)>>
          ELSE ScEnd("refused") /\ UNCHANGED scShown
    /\ UNCHANGED <<scRaw, scSaved, scReplaced>> /\ ScKeeps

\* commit_preview_inner
ValidateSetting ==
    /\ scPc = "shown"
    /\ IF MayStart(scRaw) THEN ScGo("valid") ELSE ScEnd("refused")
    /\ ScOnlyReads

\* create_backup_for_preview
DetectSetting ==
    /\ scPc = "valid"
    /\ IF StillShown THEN ScGo("current") ELSE ScEnd("refused")
    /\ ScOnlyReads

CaptureSetting ==
    /\ scPc = "current"
    /\ IF MayCapture(scRaw) THEN ScGo("captured") /\ scSaved' = Capture(scRaw)
       ELSE ScEnd("refused") /\ UNCHANGED scSaved
    /\ UNCHANGED <<scRaw, scShown, scReplaced>> /\ ScKeeps

Bug_RedetectSetting ==
    /\ scPc = "captured"
    /\ scPc' = "prepared" /\ scItem' = "PREPARED" /\ UNCHANGED scRecorded
    /\ ScOnlyReads

RedetectSetting ==
    /\ scPc = "captured"
    /\ IF StillShown THEN scPc' = "prepared" /\ scItem' = "PREPARED" /\ UNCHANGED scRecorded
       ELSE ScEnd("refused")
    /\ ScOnlyReads

\* A failure is judged at once, as a reconcile or a rollback is.
ScFails == scPc' = "classify" /\ scItem' = "APPLY_FAILED" /\ UNCHANGED scRecorded

\* mark_item_applying and apply
ReplaceSetting ==
    /\ scPc = "prepared"
    /\ LET new == Overwrite(scRaw, scSaved) IN
       IF new = NoWrite THEN ScFails /\ UNCHANGED <<scRaw, scReplaced>>
       ELSE /\ ScGo("verify")
            /\ scRaw' = new
            /\ scReplaced' = IF new = scRaw THEN NoWrite ELSE scRaw
    /\ UNCHANGED <<scShown, scSaved>> /\ ScKeeps

\* verify_applied and mark_item_applied
VerifySetting ==
    /\ scPc = "verify"
    /\ IF IsApplied(scRaw, scSaved)
          THEN scPc' = "rest" /\ scItem' = "APPLIED" /\ scRecorded' = TRUE
          ELSE ScFails
    /\ ScOnlyReads

\* rollback_item, at the user's wish.
TakeBackSetting ==
    /\ scPc = "rest"
    /\ ScGo("classify")
    /\ ScOnlyReads

\* classify_action; only the shortcuts of the keyboard have a mix of their own.
MayGiveBack ==
    \/ IsApplied(scRaw, scSaved)
    \/ /\ scKind = "shift" /\ scItem = "APPLY_FAILED"
       /\ ShiftIsOurs(scRaw, scSaved, FALSE)

ScUnresolved == scPc' = "rest" /\ scItem' = "RECOVERY" /\ UNCHANGED scRecorded

ClassifySetting ==
    /\ scPc = "classify"
    /\ IF IsRestored(scRaw, scSaved) THEN ScEnd("ROLLED_BACK")
       ELSE IF MayGiveBack THEN ScGo("give_back")
       ELSE ScUnresolved
    /\ ScOnlyReads

GiveBackSetting ==
    /\ scPc = "give_back"
    /\ LET new == GiveBack(scRaw, scSaved) IN
       IF new = NoWrite THEN ScUnresolved /\ UNCHANGED scRaw
       ELSE ScGo("confirm") /\ scRaw' = new
    /\ UNCHANGED <<scShown, scSaved, scReplaced>> /\ ScKeeps

ConfirmSetting ==
    /\ scPc = "confirm"
    /\ IF IsRestored(scRaw, scSaved) THEN ScEnd("ROLLED_BACK") ELSE ScUnresolved
    /\ ScOnlyReads

-----------------------------------------------------------------------------

Possible(r) ==
    /\ scKind = "registry" => r[1] = "present" \/ r[2] = "absent"
    /\ scKind = "printer" => r[1] # r[2]

\* What only this program writes, what never returns, and what a machine has or not.
IsOpenToOthers(i) ==
    /\ scKind = "sleep" => i # 1
    /\ scKind = "vpn" => i # 3
    /\ scKind = "volumes" => scRaw[i] # "gone"
    /\ scKind = "power_mode" => scRaw[i] # "none"

HasBackup == scPc \notin {"idle", "shown", "valid", "current"}

OthersWriteSetting ==
    /\ scOthers < MaxOthers /\ scPc # "end"
    /\ \E i \in DOMAIN scRaw : \E value \in {r[i] : r \in RawOf(scKind)} \ {scRaw[i]} :
          /\ IsOpenToOthers(i) /\ Possible([scRaw EXCEPT ![i] = value])
          /\ scKind = "power_mode" => value # "none"
          /\ scRaw' = [scRaw EXCEPT ![i] = value]
          /\ scWithout' = [scWithout EXCEPT ![i] = value]
          /\ scTouched' = IF HasBackup THEN scTouched \union {i} ELSE {}
    /\ scOthers' = scOthers + 1
    /\ UNCHANGED <<scKind, scPc, scShown, scSaved, scItem, scRecorded, scReplaced>>

CaptureStep ==
    \/ PreviewSetting \/ ValidateSetting \/ DetectSetting \/ CaptureSetting
    \/ RedetectSetting \/ ReplaceSetting \/ VerifySetting \/ ClassifySetting
    \/ GiveBackSetting \/ ConfirmSetting

CaptureUserStep == TakeBackSetting \/ OthersWriteSetting

CapturesSpec == CapturesInit /\ [][CaptureStep \/ CaptureUserStep]_scvars

-----------------------------------------------------------------------------

\* The parts that decide whether a rollback is possible.
Decisive == IF scKind \in {"printer", "watch"} THEN DOMAIN scRaw ELSE DOMAIN scSaved

\* At the end of a change that was taken back, Windows holds what it would hold had
\* this program written nothing, except where others wrote what it had written
\* itself; and an item is left to the user only if others wrote, since the backup, a
\* part that decides (verify_applied, classify_action and rollback of every action).
\* Volumes are given back whatever they are by then, and applications stay open.
\*
\* What a change replaces could be seen in its preview: some setting that looks as it
\* did there has these parts.  The backup is read between two detections and compared
\* before the write, so that it takes three writes of others to deceive all of them
\* (create_backup_for_preview, and apply of every action).
EndIsAccounted ==
    /\ scItem = "ROLLED_BACK" /\ scKind \notin {"volumes", "launch"} =>
          \A i \in DOMAIN scRaw :
             scRaw[i] # scWithout[i] =>
                i \in DOMAIN scSaved /\ scWithout[i] = Wants(scSaved)[i]
    /\ scItem = "RECOVERY" => scTouched \intersect Decisive # {}
    /\ scReplaced # NoWrite /\ scOthers < 3 =>
          \E r \in RawOf(scKind) :
              scShown = <<Looks(r)>> /\ \A i \in DOMAIN scSaved : r[i] = scReplaced[i]

=============================================================================
