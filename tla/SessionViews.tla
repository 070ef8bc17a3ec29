---------------------------- MODULE SessionViews ----------------------------
(***************************************************************************)
(* The views of SettingViews for the actions of a session (a printer, a      *)
(* microphone, a connection, what keeps Windows awake), for those that only  *)
(* look, and for those that only explain.                                    *)
(***************************************************************************)
EXTENDS SettingViews, FiniteSets

(* The default printer: which it is, which of the two is not installed, and  *)
(* whether Windows chooses it itself.                                        *)

PrinterRaw == {r \in {"office", "home", "photo"} \X {"none", "office", "home"} \X {"yes", "no"} :
                  r[1] # r[2]}

PrinterTarget == "home"

IsManaged(r) == r[3] = "yes"

PrinterLooks(r) == IF IsManaged(r) THEN <<"managed">> ELSE <<r[1], r[2]>>

PrinterIsMutable(r) ==
    /\ ~IsManaged(r)
    /\ r[2] # PrinterTarget
    /\ r[1] # PrinterTarget

PrinterSaves == {1}

PrinterWants == [i \in PrinterSaves |-> PrinterTarget]

OverwritePrinter(r, saved) ==
    PutIf(~IsManaged(r) /\ HasParts(r, saved) /\ r[2] # PrinterTarget, r, PrinterWants)

PrinterIs(r, part) == ~IsManaged(r) /\ HasParts(r, part)

\* A printer that is the original's already is a conflict, too.
PrinterGiveBack(r, saved) == PutIf(PrinterIs(r, PrinterWants) /\ r[2] # saved[1], r, saved)

-----------------------------------------------------------------------------
(* The microphone of calls: which of two it is, and each one's mute. *)

MicrophoneRaw == {"a", "b"} \X {"on", "muted", "gone"} \X {"on", "muted"}

\* The place of the microphone that is the default now.
DefaultMicrophone(r) == IF r[1] = "a" THEN 2 ELSE 3

\* Its mute is shown, and not which one it is.
MicrophoneLooks(r) == LET mute == r[DefaultMicrophone(r)] IN
                      IF mute = "gone" THEN "failed" ELSE mute

MicrophoneSaves(r) == {DefaultMicrophone(r)}

MicrophoneWants(saved) == [i \in DOMAIN saved |-> "muted"]

\* It is the same device, and still the default.
OverwriteMicrophone(r, saved) ==
    PutIf(DefaultMicrophone(r) \in DOMAIN saved /\ HasParts(r, saved), r, MicrophoneWants(saved))

\* The saved device, whichever is the default by now.
MicrophoneIsApplied(r, saved) == HasParts(r, MicrophoneWants(saved))

MicrophoneGiveBack(r, saved) == PutIf(IsOneOf(r, saved, MicrophoneWants(saved)), r, saved)

-----------------------------------------------------------------------------
(* What keeps Windows awake: the lease of this change, and those of others. *)

SleepRaw == {"no"} \X {"none", "system", "screen"}

SleepSaves == {1}

SleepWants == [i \in SleepSaves |-> "yes"]

\* A lease of one's own needs no comparison.
OverwriteSleep(r) == Put(r, SleepWants)

SleepIsApplied(r) == HasParts(r, SleepWants)

SleepGiveBack(r, saved) == Put(r, saved)

-----------------------------------------------------------------------------
(* A connection that is registered with Windows, another one, and the handle *)
(* this program keeps of the connection it made.                             *)

VpnRaw == {"down", "theirs", "unregistered"} \X {"up", "down"} \X {"none"}

IsConnected(r) == r[1] \in {"mine", "theirs"}

\* All that are registered are shown.
VpnLooks(r) == <<IF IsConnected(r) THEN "up" ELSE r[1], r[2]>>

IsRegistered(r) == r[1] # "unregistered"

VpnSaves == {1}

OverwriteVpn(r, saved) ==
    IF IsRegistered(r) /\ IsConnected(r) = IsConnected(saved)
        THEN IF IsConnected(saved) THEN r ELSE <<"mine", r[2], "held">>
        ELSE NoWrite

VpnIsApplied(r, saved) == IsConnected(r) /\ (IsConnected(saved) \/ r[3] = "held")

\* Only the connection this program made is closed.
VpnGiveBack(r, saved) ==
    IF IsConnected(r) /\ IsConnected(saved) THEN r
    ELSE IF r[1] = "mine" /\ r[3] = "held" THEN <<"down", r[2], "none">>
    ELSE NoWrite

VpnIsRestored(r, saved) ==
    IF IsConnected(saved) THEN IsConnected(r)
    ELSE r[1] = "down" /\ r[3] = "none"

-----------------------------------------------------------------------------
(* The volumes of the applications that play now.  Nothing is replaced: the  *)
(* volumes are kept, to be given back.                                       *)

VolumeRaw == {"gone", "low", "high"} \X {"gone", "low", "high"}

Playing(r) == {i \in DOMAIN r : r[i] # "gone"}

\* How many play, and not how loud.
VolumeLooks(r) == Cardinality(Playing(r))

OverwriteVolume(r, saved) == IF HasParts(r, saved) THEN r ELSE NoWrite

StillPlaying(r, saved) == [i \in DOMAIN saved \intersect Playing(r) |-> saved[i]]

\* Whatever their volume is now.
VolumeGiveBack(r, saved) == Put(r, StillPlaying(r, saved))

VolumeIsRestored(r, saved) == HasParts(r, StillPlaying(r, saved))

-----------------------------------------------------------------------------
(* Observations: a value that may be unreadable for a time.  Nothing is      *)
(* saved or written.  Applied and restored is what can be observed.          *)

WatchRaw == {<<"few">>, <<"many">>, <<"failed">>}

WatchLooks(r) == r[1]

IsObserved(r) == r[1] # "failed"

OverwriteWatch(r) == IF IsObserved(r) THEN r ELSE NoWrite

WatchGiveBack(r) == IF IsObserved(r) THEN r ELSE NoWrite

-----------------------------------------------------------------------------
(* Guides to a page of Windows: the state is shown, and that is all. *)

GuideRaw == {<<"left">>, <<"right">>}

GuideRefuses == TRUE

-----------------------------------------------------------------------------
(* Two applications that are opened together.  They are never closed. *)

LaunchRaw == {"open", "closed", "missing", "open_missing"} \X {"open", "closed"}

\* One that runs is shown as such, though it could not be opened again.
LaunchLooks(r) == <<IF r[1] = "open_missing" THEN "open" ELSE r[1], r[2]>>

CanLaunch(r) == r[1] \in {"open", "closed"}

LaunchWants == <<"open", "open">>

OverwriteLaunch(r) == PutIf(CanLaunch(r), r, LaunchWants)

LaunchIsApplied(r) == LaunchLooks(r) = LaunchWants

LaunchGiveBack(r) == r

=============================================================================
