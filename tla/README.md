# A verification project for PCカスタム

PCカスタム is a Windows 11 desktop app (Tauri, Rust core, React UI) that changes
Windows settings for its user and promises to be able to give every one of them
back: after a failed change, after a crash, when a trial ends, when a game
exits. This directory holds TLA+ modules that model that core, TLC
configurations that check them on small instances, and TLAPS proofs of what
holds for every instance. Rust paths below are relative to
`src-tauri/src/` of the repository.

## 1. The system

| component | state | operations | what makes it hard |
| --- | --- | --- | --- |
| change journal (`journal/`, SQLite WAL, FULL) | transactions, items, backups, recovery rows, trials | one IMMEDIATE transaction per statement, each guarded by a WHERE clause that must match one row | which orders of statements a crash or a refusal can leave behind |
| engine: commit (`engine/mod.rs`, `engine/transaction.rs`) | previews in memory, mutation gate | preview, commit, commit as trial, automatic unwinding, confirm | failures at any step; stale previews; the settings belong to others too |
| engine: recovery (`engine/recovery.rs`, `bootstrap.rs`) | – | roll back one item, reconcile, take expired trials back | what to believe of an item whose setter may or may not have run |
| setting actions (`actions/`, `backup/`) | the Windows settings | detect, validate, back up, apply, verify, roll back, verify | compare-then-write, two values behind one action, values that settle later, settings that die with the process |
| registry values (`actions/registry_settings.rs`, `backup/registry.rs`) | key, type and bytes | two views: a number for previews, the raw state for backups | missing keys, foreign types, backups of older versions |
| game profiles (`game_profile/`) | profiles, active instances, sessions, resource leases | launch, exit, sync, tick | shared resources, incomplete process snapshots, failing events |
| profile store (`game_profile/store.rs`) | the profiles in memory and in one file | create, import, enable, record a run, delete, open | the rules for writing and for opening are different code |
| manual modes, screen sharing (`game_profile/manual.rs`, `share_session.rs`) | record of the current run in a file | run, restore, compensate | engine, file and memory change one after the other |
| taskbar watcher, theme schedule, hot corner | small trackers and settings files | one poll every cycle, user switches | ownership of a setting the user may change by hand |
| window layout, off-screen rescue | saved layout, in-flight placements, marks on windows | save, apply, undo | asynchronous window moves, handles that are used again, geometry |
| mode ribbon (`windows/mode_ribbon.rs`) | the active modes by order, a window on a thread of its own | spawn, sync, colour, drop | three threads that hand over lists and messages |
| temporary file cleanup (`windows/observations.rs`) | – | list, delete | a path leads elsewhere by the time it is followed again |
| shell restart (`windows/shell_restart.rs`) | – | restart | process ids and windows that change hands while it waits |
| compatibility, validation, presentation, reports, UI | – | table lookup, input checks, wording | no protocol of their own |

How they interact. The commands are synchronous Tauri commands and run one after
another; the `TrialReverter` thread and the game-profile watcher thread run
beside them. `ChangeEngine` lets commands overlap as well, which covers more than
the app does today. All changes of settings run under one in-process mutation gate and a named mutex;
previews, `confirm_trial` and the reverter's scan do not take it. Game profiles,
manual modes, screen sharing and the theme schedule are clients of the engine:
they keep item ids and ask for those items to be rolled back. The taskbar
watcher writes its setting without the engine. Everything durable is in the
journal or in small JSON files; everything else is lost in a crash, and
`initialize_engine` reconciles the journal with Windows at the next start,
before anything else may run.

What must hold, per component:

* journal and engine: whatever crashes, fails or interferes, a value that was
  written is accounted for; "succeeded", "rolled back" and "given back" are true
  when they are recorded; nothing unfinished is forgotten, and it keeps new
  changes out; settings are undone last first; a foreign backup is not
  restored; no statement is refused half way; trials end; the gate is released.
* game profiles: a resource is restored exactly when its last owner leaves, no
  launch or exit is lost, a failure does not leave a half-owned lease.
* setting actions: what is called rolled back has nothing of ours left, what
  others put there stays, and a crash half way is resumed without the user.
* manual modes and screen sharing: the record names exactly what can still be
  restored, and an ending that is repeated ends.
* profile store: whatever the app saved, it can open again.
* windows: a window that was moved goes back, and one that its user moved since
  does not.
* theme schedule and hot corner: the boundary takes effect once and leaves the
  user's own choice alone; the corner opens after a rest, once.
* mode ribbon: it comes to show the mode that began last, and goes with the program.
* temporary files: only old files inside the folder are deleted, and none is passed
  over without a word, aside from entries, times and names that cannot be read.
* shell restart: nobody else's process is ended, and there is a taskbar afterwards.
* taskbar watcher: it only ever undoes its own change, also after a crash.

`PROJECT.json` lists every component and, under `hazards`, what is hard to test
in them and which property covers it.

## 2. The modules

| module | models | lines of the code |
| --- | --- | --- |
| `ChangeJournal` | the journal's columns as variables, its queries as predicates, one operator per statement with its WHERE clause as `CanXxx` | `journal/`, `migrations/` |
| `ChangeEngine` | the engine over that journal: commands, reverter, boot, crash, Windows update, outside writes | `engine/`, `bootstrap.rs`, `actions/registry_settings.rs`, `backup/registry.rs` |
| `ReversibleChange` | the abstract promise: changes that begin alone, are kept, set aside or undone part by part | stated over `engine/` |
| `GameProfiles` | the supervisor: sessions, leases and owners of shared settings; the sink that commits and restores | `game_profile/mod.rs`, `engine_sink.rs` |
| `ProfileWatcher` | the matcher, the runtime and the watcher thread's cycle over `GameProfiles` | `observer.rs`, `runtime.rs`, `watcher.rs` |
| `TaskbarWatcher` | the taskbar that hides behind a maximized window, and its durable marker | `taskbar_watcher.rs`, `watcher.rs`, `commands.rs`, `windows/taskbar_autohide.rs` |
| `RecordedRuns` | a manual mode and a sharing session: run, record, end | `manual.rs`, `share_session.rs`, `store.rs` |
| `ProfileStore` | the file of profiles and its copy in memory | `store.rs` |
| `ThemeSchedule`, `HotCorner` | two trackers that the watcher thread polls | `theme_schedule.rs`, `hot_corner.rs` |
| `SettingPrograms` | the operations of twelve actions as sequences of calls | `actions/*.rs` and the bindings they use |
| `CompositeSettings` | runs those programs one call at a time, with what the engine does around one item | the same, `engine/` |
| `SettingViews`, `SessionViews` | what the preview, the backup, the replacement and the rollback of each kind of action look at | `actions/*.rs`, `windows/*.rs` |
| `SettingCaptures` | a change of one such setting while others write its parts | `engine/`, `action/traits.rs` |
| `RegistryValue` | one registry value with key, type and bytes, from preview to restore | `actions/registry_settings.rs`, `backup/registry.rs`, `engine/` |
| `WindowLayout` | the transaction that places several windows and takes them back | `windows/window_placement.rs`, `actions/window_layout.rs` |
| `WindowRescue` | a window outside every screen is brought back, and the undo | `windows/window_placement.rs` |
| `WindowIdentity` | how a window is read, marked and known again before it is moved | `windows/window_placement.rs`, `windows/process.rs` |
| `RescueGeometry` | which windows are lost, and where a lost one goes | `windows/window_placement.rs` |
| `ModeRibbon` | the ribbon's window, the commands and the watcher that feed it | `windows/mode_ribbon.rs`, `bootstrap.rs`, `watcher.rs`, `commands.rs` |
| `TempCleanup` | the walk over the temporary folder and the deletion by handle | `windows/observations.rs` |
| `ShellRestart` | ending the shell's processes and waiting for the taskbar | `windows/shell_restart.rs` |
| `TrialScreen` | the screen of a preview, its trial, its undo and its keeping, with answers that come late | `../../src/App.tsx`, `frontendLogic.ts`, `backend.ts`, `engine/` |
| `MCChangeEngine`, `MCProfileWatcher`, `MCServices` | instances for TLC, the fault bounds, fairness | – |
| `ChangeEngineTypes_proofs`, `ChangeEngine_proofs` | the proofs about the engine: statements, types, the inductive invariant | – |
| `ChangeEngineSafety_proofs`, `ChangeEngineSteps_proofs` | what that invariant gives: written values, complete rollbacks, the shape of a step, the refinement | – |
| `ProfileWatcher_proofs` | the proofs about the supervisor, the matcher and the watcher | – |
| `Windows_proofs` | the proofs about `WindowRescue`, `WindowLayout`, `WindowIdentity`, `RescueGeometry` | – |
| `Services_proofs` | the proofs about `ProfileStore`, `RecordedRuns`, `ThemeSchedule`, `HotCorner`, `TaskbarWatcher`, `ShellRestart` | – |
| `Settings_proofs` | the proofs about `RegistryValue`, `TempCleanup`, `TrialScreen`, `SettingCaptures` | – |

### The engine: state

A transaction is a number in its start order, an item a pair
`<<transaction, action>>`. `txState`, `itemState`, `orig`, `want`, `applyOrder`,
`pending` (unresolved `recovery_items`) and `trial` are the database and survive
a crash. `os` is Windows. `foreign` are the transactions whose backups an earlier
build took. `slot`, `plan`, `seen` are the previews in memory; `job` is what the
holder of the mutation gate is doing; `rev` is the reverter's pass, which is
outside the gate; `toClear` is a trial whose commit was undone and whose row is
about to be cleared. `writer` is a history variable, read by no action: which
transaction wrote the value a setting now has.

### The engine: actions

Every access to Windows and every journal statement is a step of its own, so a
crash, a failing statement (`JobAborts`) or an outside write may come between
any two of them. Three simplifications: a read of a setting and the journal
statement it decides are one step (the statement touches no setting, so a change
between them is one after both); a time stamp, event row or error code that no
decision reads is left out; and a setting is one value, the four classes of
`classify_action` being computed from it. A setting of a session action goes back
to its initial value when the process ends. A setting of a fenced action
(`setup.window_layout`) is rolled back even if the original is read, because the
move may still be in flight. Reads and setters fail freely when `CallsFail`.

`commit_preview` is `ClaimPreview`, `StartCommit`, then per item `Detect`, `Capture`,
`Redetect`, then `Prepare`, then per item `StartApplying`, `ApplyRead`,
`ApplyWrite`, `VerifyApplied`, then `Succeed`. `rollback_after_failure` is
`ApplyFailed`, `JudgeFailed`, `CancelRest`, `UndoNext` … `SettleCommit`.
`restore` is `UndoRead`, `UndoWrite`, `UndoVerify` or `UndoFailed`, shared by the
three callers, which `Resume` goes back to. `rollback_item` is `StartRollback` and
`RollbackOne`; `reconcile_now` is `StartReconcile` (or `Boot`), `ReconcileItem`,
`ReconcileSettle`, `ReconcileEnd`; `revert_expired_trials` is `RevertScan` to
`RevertEnd`, where `RevertItem` calls `rollback_item` and waits for it.

### The game profiles

`active`, `session`, `owned`, `desired` and `owners` are the supervisor's maps, `seen`
the matcher's, `enabled` the store's switch; all but `enabled` die with the process. `item`,
`backup` and `asked` are what the journal has of a setting, `work` is where the
watcher thread is. A cycle of the thread is `Sync` (profiles that were
switched off are ended first, then the registration follows the store), then
`TickComplete`, `TickPartial` or a failed look (`LookStep`), then one step per event
and per restored setting. A commit or a restore of the engine is one step with the
outcomes `ChangeEngine` allows. `touched` and the other variables marked "history" are
read by no action. A resource key belongs to one action only, so a lease is
per action. Stopping the thread, crashing and starting again are actions.

### The services

`TaskbarWatcher` has one step for a poll's decision and one for each access to the
file, the lock and the taskbar after it; the user's switch reads and writes the file in two
steps, as `set_taskbar_auto_hide` does. `RecordedRuns` has one step for the commit, and one for
each rollback and each save; `rrKind` says which of the two programs runs.
`ThemeSchedule` and `HotCorner` have one step per poll (the schedule a second one
for the commit), users and windows in between. `ProfileStore` takes a command up to
its copy in one step and saves in the next; an import is a series of
creations. A profile is its kind, its switch and how many items of its run are left.

### The settings

An action's `apply`, `rollback` and verification are written in `SettingPrograms` and
`CompositeSettings` with instructions named for what the code does (`Compare`,
`Assign`, `Restore`, `Say`, …), one call of Windows each; `Step` of the second module carries
out one instruction, or has it fail, and then continues with what the code does
on that error. `csPhase` is the operation the engine runs for the item. A value is
"original", "intended", "settled" (what Windows makes of a contrast theme) or
"other". `Part` has two members for actions with two values.

`SettingCaptures` asks another question of the same actions, and of volumes, launches, guides and
observations beside them: what is each decision taken of? A setting is a tuple of
everything that its code reads or writes; `Looks` is what the preview shows of it (a label of a
power mode, a pointer without its thresholds, the compositor's colour), `Capture` what the backup
keeps, `Overwrite`, `GiveBack`, `IsApplied` and `IsRestored` what apply, rollback and the two
verifications compare and write. An operation is one step there, the steps of the engine
around it are those of `create_backup_for_preview`, and others write any part between
any two steps. `scWithout` follows what Windows would hold had the app written nothing. `RegistryValue` keeps the two views
of one value apart: `Detected` for previews, the raw state for backups.

### The windows

A placement is a call that another process carries out: `wlQueue` is what was sent and has not
landed, and may land after a crash of the sender. `mutate_transaction` is
`wlTx`: plan, then for each window look, send, wait, check, then a last look at all;
a failure turns into the compensation, window by window. In `WindowRescue` going back takes two
calls, since Windows may clamp the first; `rsActive` are the undo records. Places
are names: what matters is whether a window is where it was, where it
was put, or anywhere else.

`WindowIdentity` follows one window of the layout through that transaction: `wiWindow` is
what a handle stands for at the moment, `wiCands` what was read of it, each call of
`read_candidate` that can see something else a step of its own. A mark is random 63 bits in the
code; the model gives each window its own, so that two marks are never equal. The program that
owns the windows opens, closes, renames and moves them at any time, and its process id goes to
another process. `RescueGeometry` has rectangles with numbers: `UnionArea` is
the sweep of `union_area`, held against counting cells, and `Clamped` is one axis of the placement.

### The desktop

`ModeRibbon` has a program counter for the main thread, for the watcher and for the
window's thread. `mrBegan` is the list of active modes in the order they began, which is what the
ribbon should follow; `mrEntries` is `RibbonSelection`. What the watcher read and has not
handed over is `mrWatch.list`. A refresh message and the timer are one action, since a
message that is not posted costs at most a second. `TempCleanup` has a folder, one folder in it, and a path in
each that leads to whatever file is there at the time; `tcWalk` is the walk, `tcHandle` the open
file. `ShellRestart` has what runs under each process id, and who owns the taskbar's
window; a process that was ended keeps it until `ProcessGoes`.

### The screen

`TrialScreen` has the state of the React component that a trial needs (`dataMode`, `preview`,
`previewConfirmed`, `commitPending`, `justApplied`, `trial`, the generation of
`LatestRequestGuard`), and `tsCalls`, the calls under way: sent, executed by the engine
and answered in three steps, so that answers overtake each other. A handler is one step up to
each await and one after it, with the values it closed over in the call's `about`. Of the engine there
are the previews it has used up, the trials and the items, with the reverter's thread and
rollbacks from the history beside the screen. The thread reads the expired trials in one step (`tsPass`) and takes
them back in another, so that a keeping can come between; the command does both in one. `tsExcused` is
history: items taken back one by one, and those of a change that a pass did not finish or that was kept
in the middle of one.

Operators named `Bug_…` are plausible faults of the operator defined after them.
Nothing uses them: `PROJECT.json` "mutants" puts each in the place of the correct
one, and the run's property must then fail.

## 3. What is checked

| run | instance | shows |
| --- | --- | --- |
| `engine_wide` | 1 transaction, 2 settings, 3 values, one setting fenced, reads and setters fail freely, 1 fault | `TypeOK`; `StatementsNotRefused`; `SucceededItemsWereVerified`; `RolledBackIsComplete`; `AppliedValueIsAccounted`; `GivenBackHoldsOriginal`; `ReverseOrder` |
| `engine_nested` | 2 transactions on the same setting, there and back, 1 fault | `ForwardRunsAlone`; `UnfinishedIsEnumerated`; `PromiseKept` (refinement of `ReversibleChange`) |
| `engine_deep` | 1 transaction, 2 settings, one a session setting that may only be tried, 3 faults, fairness | `ForeignBackupIsNotRestored`; `GateIsReleased`; `TrialIsTakenBack` |
| `game_profiles` | 2 profiles that share one setting and disagree about another, 3 processes, two of them of the same game, 1 disturbance, fairness | see below |
| `services` | one service per behaviour: see below; 2 faults, fairness | see below |

`game_profiles`:

| property | what it says |
| --- | --- |
| `LeasedExactlyWhileOwned` | a lease exists exactly while a session owns it; a setting nobody else changed holds the leased value while there is a lease, with the value before the first owner as its backup, and that first value when all owners have left; the watcher restores no setting that a session still owns |
| `MatcherAgrees` | between two cycles the matcher and the supervisor know the same games, unless the watcher has stopped acting on processes; however incomplete the snapshots are, the matcher forgets only processes that have ended |
| `SettingsComeBack` | liveness: a profile whose game ended, or that was switched off, gives its settings back, unless the watcher found a failure |
| `ShutdownEnds` | liveness: the watcher thread ends after the stop flag, whatever it was doing |

`services`:

| part | instance | properties |
| --- | --- | --- |
| taskbar | both first values, a switch racing the thread | `HidingIsRecorded` (what the watcher hid is recorded on disk before, and what is recorded is never the hidden state); `TaskbarIsGivenBack` (liveness: switching the feature off brings the taskbar back) |
| runs | 2 runs of 1–3 items, manual and sharing | `RunsAreKnownAndUndone` (what was applied and not undone is in the record, unless compensating failed, the program ended before the record, or the items of a manual mode could not be read after its commit; a run is undone last first); `SharingEnds` (liveness) |
| theme | a day of 4 minutes, every schedule | `ThemeFollowsSchedule` (each boundary takes effect once, and between two of them the user's choice stays) |
| corner | 7 arrangements of up to 3 screens, 3 cursor points, dwell 2, cooldown 5, 8 polls | `CornerOpensAfterRest` (also: the corners of the desktop are found in every arrangement) |
| settings | 12 kinds of settings, 1–2 values each | `OursGoesOthersStay` (what is rolled back has nothing of ours left, and a part others wrote is not overwritten; a crash alone leaves most of them nothing for the user) |
| captures | 16 kinds of settings, 1–3 parts each, 2 writes of others | `EndIsAccounted` (after a rollback Windows is as if the app had written nothing; an item waits for the user only if others wrote; what was replaced could be seen in the preview) |
| layout | 2 windows, one possibly saved where it already is | `LayoutIsTakenBack` (and a window that others moved is kept) |
| rescue | 2 lost windows, room for 1 undo record | `RescueCanBeUndone` (two failures excepted that say nothing of a moved window: section 4); `RescueKeepsOthersMoves` |
| registry | 5 raw states, new and legacy backups | `RegistryIsGivenBack` |
| store | at most 2 profiles of 4 kinds, imports of 2 | `StoreOpensAgain` |
| ribbon | 1 game and 1 manual mode, with a colour or without | `RibbonFollowsModes` (liveness) |
| cleanup | 2 files, a folder in the folder | `CleanupIsExact` (what is deleted was old and inside since it was opened; what a walk leaves out is reported, but for what cannot be read: section 4) |
| restart | 3 process ids | `OnlyShellsAreEnded` (nobody else's process is ended, unless its id was given away after the look); `ShellIsRestarted` (liveness: a taskbar comes back) |
| identity | 2 handles, 3 windows opened | `WindowIsNotMistaken` |
| screen | 2 previews of 2 and 1 items, 3 calls at a time; or 1 preview, 2 calls at a time and 2 faults | `ScreenIsHonest` (a tick is the consent to the preview it was given to; the bar is about one change; a notice says what is so of the items, with the exceptions that `NoticeIsTrue` names: section 4) |
| geometry | 240 windows with shifted and unshifted normal places, 5 arrangements of screens | `LostWindowsAreBroughtBack` (lost is what less than a tenth of the cells of is seen, and a rescued window is not lost); `RescuedIsOnScreen` (it keeps its size, and goes no further than it has to) |

The parts of `services` share no state, so that one run over their disjoint union
loses nothing: a behaviour picks its part and leaves the others in one
initial state. What they share in the program is the engine, which `ChangeEngine` is about.

A fault is a crash, a failing statement or validation, a Windows update or an
outside write; `MaxFaults` bounds them in all, `MaxTx` the transactions, `Slots`
the open previews. Two settings are enough for the order of items and for "the items
before and behind the failed one"; three values for original, wanted and a third;
two transactions for nesting on one setting and for "no other transaction";
three faults for a crash during the recovery from a crash, or an update between
two crashes. Deadlock is checked in every run: an app at rest may stutter
(`Rest`), so a deadlock would be a gate holder, a boot or a reverter pass that
cannot go on.
In `game_profiles` a disturbance is a failing engine call, a crash, a write by others, a
switch of a profile or the stop; three processes are enough for a second instance of
one game and for a game of the other profile, and one of the settings' resource keys sorts
against its id, so that the order of restores shows. In `services` two faults are
enough for a failure and the failure of its compensation, or for a crash during
the recovery from one. Two windows are enough for one that is moved and
one that fails; one undo record and two lost windows reach the limit; two
profiles at most and an import of two reach the other limit. Eight polls are a dwell, a firing,
a cooldown and a second firing; a cooldown of five is longer than leaving the corner, coming back and resting
again, so that it is the cooldown that holds the second firing back. Three process ids are a shell, a folder window or a
namesake, and a free one that Windows gives away again. Two previews are a late answer or a second change beside the first one's
undo; while the reverter's thread is between reading and taking back, one call is under way; a larger instance of the
screen (the same changes, any number of faults, 6.0 million states) was checked by hand. Two handles and three windows are
enough for a handle that is used again and for a second window that matches. Two files are enough for
one that takes another's path. `MaxOthers` are the writes of others to one setting: two make a
value that changes and changes back, which the two looks around the backup and the comparison before the
write still notice or give back; three can deceive all of them, and `EndIsAccounted` says so
of fewer.

Fairness (`LiveSpec`). The holder of the gate goes on, and so do the reverter's
steps outside it: they are straight-line code of live threads. `RevertItem` waits
for the gate against users who may take it again and again; parking_lot's mutex
hands over fairly under contention, which is strong fairness. After a crash
somebody starts the app again (`Boot`), and deadlines pass. No fairness is assumed
of users or of faults.

In `game_profiles` the watcher thread runs on (weak fairness of its steps), and complete snapshots
come again and again (strong fairness of `TickComplete`): a snapshot is incomplete only
while some process cannot be looked at. In `services` the watcher thread goes on, a
command that was begun ends, and, for `SharingEnds` only, the user asks to end the
session again after a failure. The ribbon's thread, the main thread and the watcher each go
on; so does the restart command, and Windows ends what was terminated. Nothing is assumed of games, users' switches or faults.

## 4. What the code does not do

Seven runs are expected to fail, each with one property taken from the
repository's own words; `PROJECT.json` "findings" quotes them.

* `RecoveryRestoresOnlyDispatched`: an item that recovery set aside as never
  dispatched is restored by the next recovery all the same, over an outside value.
* `UnrestoredTrialIsKept`: the trial of a setting whose restore failed is dropped,
  because `rollback_item` reports that failure as `Ok`.
* `RollingBackIsEnumerated`: a crash during the rollback of a single item leaves
  it in a state that neither recovery nor the history's undo finds.
* `ConfirmedTrialStays`: a trial confirmed while the reverter holds its snapshot is
  taken back.
* `RecoveryIsNotRefused`: a crash in the recovery of a `PREPARED` transaction can
  leave a pair of states that makes every later start of the engine fail.
* `StopRestoresAll`: an event that fails drops the exits behind it, and neither
  disabling the profile nor stopping the watcher restores its settings.
* `SharingEndIsRestored`: an item that could not be restored is taken for one that
  is done when the session is ended again.

Where one of these limits a property that does hold, the property says so
(`UnfinishedIsEnumerated` leaves out `ROLLING_BACK`, `StatementsNotRefused` leaves
out reconcile). The rest of this section was noticed while modelling. The models do
what the code does; no property forbids it, because no document decides it or
because the text it departs from is a remark.

Engine. A reconcile of one item of a kept transaction puts the transaction into
`ROLLING_BACK`, and a crash there makes the next start undo the kept items beside it. A
value that changes and changes back around the backup is backed up. A transaction may
stay `RECOVERY_REQUIRED` for ever if the process ends after its last recovery row
was resolved. `ApplicationState` drops `_instance_guard` before `_trial_reverter` is joined,
unlike what `windows/transaction_lock.rs`:52-53 says. A store that fails to open after the
reconcile leaves the app fail-closed without a reverter.

Settings with two values. A crash between the two writes of the colour mode, the
window colour, the pointer or the power mode leaves a mix that is classified
`Third`, and recovery needs the user; of the actions with two written values only the
Shift guard resumes (`OursGoesOthersStay`). A read that fails on the second entry of the window colour is
not compensated inside `apply`, nor is a first write of the pointer or the power mode.
A contrast theme the user picks within 2.5 s after ours is taken for ours. A VPN
connection is no longer known to be ours after a restart.

Previews. The preview of the window colour shows the colour of the compositor, not the two
values of the registry that are replaced; the preview of the pointer leaves out the thresholds; a
colour mode with one value missing is shown as one that was never set. The fingerprint of the game readiness check
contains the free space of the disk, so that its preview goes stale by itself. An
observation that cannot be read when it is verified, and again when it is classified, leaves an item
in `RECOVERY_REQUIRED` although nothing was written. The rollback of the volumes
overwrites what the user chose since, by design.

Registry. `detect` does not tell a missing key from a missing value: the preview of
a missing key is shown and its commit always ends in `COMPATIBILITY_BLOCKED`. A value of
a foreign type has a stable fingerprint too, so a verified action overwrites it,
and gives it back byte for byte. The legacy backup of a missing key keeps the key
and waits for recovery until somebody deletes it. `write_raw_value` creates a key that was
deleted in between.

Windows. In the layout's loop an error of `refresh_candidate` returns without compensation. In a
rescue an error while the new place is waited for
(window_placement.rs:422-423) leaves the window moved, without undo or compensation; an undo whose
second call fails (512-517) leaves the window at a clamped place, where the next undo is
refused as a third placement. Both end with an ordinary error, for which `offscreen_window_rescue_error`
says that the state could not be checked or that nothing was moved, and not that the window's position should be looked
at. `RescueCanBeUndone` names these two (`rsLeft`) and holds of all else. The second call of going back overwrites a move made
after the first one; undo records of closed windows stay and count towards the
limit.

Profiles and runs. When the timeline cannot be read after the commit of a manual mode has succeeded, or
lists another number of items than the mode has actions (manual.rs:96-102), the command returns an error
without saving a record and without compensating: the mode stays applied and only the history knows it, while
a record that cannot be saved, the next step, is compensated (113-133). The session compensates in both
cases. `RunsAreKnownAndUndone` names these runs (`rrUnread`). `create` accepts any file, `validate_loaded_profiles` only `.exe`: a
profile of another file is saved, and the whole store is refused at the next
start, though store.rs:583-584 says both apply the same rules (`StoreOpensAgain` leaves
this kind of profile out). An action that a later version makes ineligible has
the same effect. A manual mode whose next item is no longer applied can never be
ended. `profile_run_now` reports a failure of the ribbon after a run that succeeded.
GAME_PROFILES.md §7.1 has interrupted games rolled back at the next start; the code leaves
their settings applied. GAME_PROFILES.md:101 restores in the reverse of the order of
application; the code takes the order of the resource keys. `profile_delete` needs the engine, though
bootstrap.rs:119 says deletion stays possible without it.

Taskbar and theme. `owned` is set before the lock is taken, so a refused lock looks
like a change by hand at the next poll and the feature withdraws, unlike watcher.rs:475-476.
`set_taskbar_auto_hide` may write back a restore marker the thread cleared, or lose one it
set. Giving ownership up leaves the marker, and the next start overwrites the user's choice. The
schedule records a boundary before the commit succeeded, so a failed commit is not
tried again; a restart applies it once more over the user's choice.

Mode ribbon. A mode whose last record cannot be saved has ended in memory, but the error
returns before the ribbon is told: it keeps showing that mode until the next command. Without a
ribbon `profile_run_now` applies the settings and then returns `MODE_RIBBON_UNAVAILABLE`. A colour
chosen while the watcher holds an older list is overwritten by it until the next cycle. Modes that
are found active together take the order of a `HashMap`.

Temporary files and shell. observations.rs:783 has it that no file can be added between list
and deletion; one that is moved in with an old date can, and so can one that a truncated list left
out. `entries.flatten()` drops an unreadable entry without setting `truncated`, and so do the walk's checks with an old
file whose time cannot be read or whose name is not Unicode (observations.rs:899-911). `terminate` opens a
process by the id that was looked at before, which may belong to another by then. The taskbar
of a shell that is about to go is taken for the one that came back: if Windows does not
restart it, none comes.

Screen. An undo or a keeping that ends after another commit has returned clears that commit's bar
and trial, which then cannot be saved any more and is taken back. A commit that is rolled back clears
the bar of the earlier trial with the same effect. An item rolled back from the history stays in the bar,
and a later undo stops there with an error. Keeping twice reports that the change is still on
trial. What the notices say is not always so, and `NoticeIsTrue` names each case. "Saved": `confirm_trial` looks
only at the trial, so that items may be back already, taken back one by one or by a pass over the expired
trials that began before. "試用時間が終わったため、開始前の値へ戻しました。" (App.tsx:499): a restore that failed and left the item to recovery
counts as done, since `rollback_item` is `Ok` (one of a third value, or one that is refused, is an error
and holds the notice back), and the change may have been saved, with the answer still under way. "Applied": the
items may have been taken back before the answer came. App.tsx:539 says that a change that is not kept goes back at the next start; the reverter takes it back after
30 seconds.

## 5. What is proved

No theorem bounds the faults: calls fail, others interfere and the program dies as often as
they like. The constants are arbitrary up to the assumptions their modules name:

* engine: any transactions, settings, previews and values, any set of session, fenced and
  trial-only settings (`JournalAssumption` and `EngineAssumption` only give types);
* watcher: any profiles, processes, settings and values, any matching and any conflict
  policies (`ProfilesAssumption`, `WatcherAssumption`: types as well);
* windows: any number of windows, undo records and handles (`RescueAssumption`,
  `WindowsAssumption`: a list without repetition, `IdentityAssumption`);
* `MaxProfiles`, `MaxRuns`, `MaxItems`, `MinutesPerDay`: any (`StoreAssumption`,
  `RunsAssumption`, `ThemeAssumption`: a run may have two items, a day two minutes);
* hot corner: any dwell and pause, and any desktops of monitors that do not overlap and are at
  least two hot zones wide and high (`CornerAssumption`; Windows lays no monitor over another);
* any process ids, any files, any raw registry values, any number of previews and changes of any sizes
  (`CleanupAssumption`, `ScreenAssumption`);
* any number of writes by others to one setting (`MaxOthersAssumption`), and windows and screens
  that are any rectangles with an inside (`RectsAssumption`, which is `rect_is_valid` without its bound).

| theorem | module |
| --- | --- |
| `TypeCorrect`: `Spec => []TypeOK` | `ChangeEngineTypes_proofs` |
| `Invariant`: `Spec => []IInv` | `ChangeEngine_proofs` |
| `NeverRefused`: `Spec => []StatementsNotRefused` | `ChangeEngine_proofs` |
| `NothingIsForgotten`: `Spec => []UnfinishedIsEnumerated` | `ChangeEngine_proofs` |
| `SuccessWasVerified`: `Spec => []SucceededItemsWereVerified` | `ChangeEngine_proofs` |
| `ForwardIsAlone`: `Spec => []ForwardRunsAlone` | `ChangeEngine_proofs` |
| `WrittenIsAccounted`: `Spec => []AppliedValueIsAccounted` | `ChangeEngineSafety_proofs` |
| `ForeignBackupStays`: `Spec => []ForeignBackupIsNotRestored` | `ChangeEngineSafety_proofs` |
| `RolledBackMeansComplete`: `Spec => []RolledBackIsComplete` | `ChangeEngineSafety_proofs` |
| `GivenBackIsOriginal`: `Spec => GivenBackHoldsOriginal` | `ChangeEngineSteps_proofs` |
| `UndoneLastFirst`: `Spec => ReverseOrder` | `ChangeEngineSteps_proofs` |
| `EngineKeepsPromise`: `Spec => PromiseKept` | `ChangeEngineSteps_proofs` |
| `WatcherTypeCorrect`: `WatcherSpec => []WatcherTypeOK` | `ProfileWatcher_proofs` |
| `LeasesAreKept`: `WatcherSpec => LeasedExactlyWhileOwned` | `ProfileWatcher_proofs` |
| `MatcherIsRight`: `WatcherSpec => MatcherAgrees` | `ProfileWatcher_proofs` |
| `RescueUndoable`: `RescueSpec => []RescueCanBeUndone` | `Windows_proofs` |
| `OthersMovesKept`: `RescueSpec => RescueKeepsOthersMoves` | `Windows_proofs` |
| `LayoutComesBack`: `LayoutSpec => LayoutIsTakenBack` | `Windows_proofs` |
| `WindowKnownAgain`: `IdentitySpec => WindowIsNotMistaken` | `Windows_proofs` |
| `RescuedStaysOnScreen`: `GeometrySpec => []RescuedIsOnScreen` | `Windows_proofs` |
| `StoreReopens`: `StoreSpec => []StoreOpensAgain` | `Services_proofs` |
| `RunsEndInOrder`: `RunsSpec => RunsAreKnownAndUndone` | `Services_proofs` |
| `ScheduleFollowed`: `ThemeSpec => ThemeFollowsSchedule` | `Services_proofs` |
| `HotCornersAreRight`: `HotCornerSpec => []CornerOpensAfterRest` | `Services_proofs` |
| `HidingRecorded`: `TaskbarSpec => []HidingIsRecorded` | `Services_proofs` |
| `ShellsOnly`: `RestartSpec => OnlyShellsAreEnded` | `Services_proofs` |
| `RegistryGivenBack`: `RegistrySpec => []RegistryIsGivenBack` | `Settings_proofs` |
| `CleanupExact`: `CleanupSpec => CleanupIsExact` | `Settings_proofs` |
| `ScreenStaysHonest`: `ScreenSpec => ScreenIsHonest` | `Settings_proofs` |
| `EndAccounted`: `CapturesSpec => []EndIsAccounted` | `Settings_proofs` |

`TypeOK` is not inductive: `Prepare` stores `job.draft` as the backup and
`UndoWrite` writes a backup to Windows, so one has to know that the draft is
complete and that an item has a backup. `WellTyped` adds that
(`BackedUp`, `RowsHoldValues`) and that whoever is past `Prepare` works on an item
that exists (`HolderOK`, `HolderHasRow`).

`IInv` is `WellTyped`, `PassOK` (what the reverter's snapshot still implies),
`StepOK` and `JournalOK`. `StepOK` says, for each place the gate holder may be at,
what that implies of its item (`CurrentOK`), of its transaction (`TransactionOK`),
of the items before and behind it (`SiblingsOK`), of the queue of a reconcile
(`QueueOK`), and, going forward, of all other transactions (`AloneOK`). `JournalOK`
is what is true of the journal alone at every moment: which item states each
transaction state allows, and that whatever is neither confirmed nor given back
has an unresolved row or an in-flight transaction. The four safety
theorems are read off from it. It is needed because each statement is guarded by
states another statement wrote, possibly before a crash: that
`mark_item_applied` is not refused depends on nobody else having moved the item,
which depends on the gate, which depends on what a crash leaves behind. The proof
has one lemma per group of actions and one step per action; statements are handled
by the lemmas at the start of `ChangeEngineTypes_proofs`. `IInv` was model-checked on the instances of
`engine_wide` and `engine_nested` before it was proved.

Three more invariants rest on `IInv`. `WritesOK` adds to `AppliedValueIsAccounted` that
whoever wrote a setting has an item past `PREPARED`. `BackupsOK` adds to
`ForeignBackupIsNotRestored` who may run in which mode of the app (`ModeOK`), because an
update of Windows comes only while the app is down. `EndsOK` says that while a transaction is
unwound, or a batch recovered, every item is still queued, at hand, or has ended
(`UnwindingOK`, `BatchOK`), so that the final state, computed from two flags, agrees with
the items (`SettledOK`).
`StepShape` then sorts the engine's steps: the journal rests, one item moves,
one transaction is settled, or one begins; `StartedOK` says that what is settled was begun. Under that case split the
two properties of steps and the refinement are short: a move or a settlement is
`Work` of the abstract change, a begin is `Begin`, and the rest stutters.

### The watcher

`LeaseInv` has four parts. `LeasesMatch` and `SessionsMatch` relate the supervisor's five maps
(owners, owned, desired, sessions, active): the code keeps them in step by hand, over two
functions per operation. `WorkShape` says what is under way may still be restored: only settings
that nobody leases any more, and only within `sync` and `tick`. `ValuesFollow` says what the two
have to do with Windows: a setting nobody else touched holds the value of its lease over an
applied item with the first value as its backup, or holds the first value. It has to cover the time between
the end of a lease and the restore (`a \in work.restore`), when no map speaks of the setting any
more. `LeasedExactlyWhileOwned` reads off from it; its part about steps speaks of the watcher's
own.

`MatcherInv` is `SeenAreKnown` and `Ahead`: between two cycles matcher and
supervisor agree, and within one the matcher is ahead by exactly the events that are still to be
handled. A cycle that fails half way leaves them apart for good, which is why it holds only until the
watcher has stopped acting (`health # "sticky"`).

### Windows

`RescueInv` adds to `RescueCanBeUndone` that a window this app moved and nobody else did
has its first place in the undo record or in the call that is running (`Recorded`, the windows of which the
user was told and those of the two failures aside;
`CallKnows`) and that there is one record per window (`OneRecord`); `OthersMovesKept` needs it
for the steps that move a window, which have to know that it was looked at.

`LayoutInv` is about the windows that nobody else moved, and what each place in the transaction implies of
them: the windows still to be moved are not moved, those to be moved back are, and nothing is under
way to a window that was moved but what moves it back (`TodoIsRight`); nothing was sent while the
journal says `PREPARED` (`PreparedIsUntouched`); a rollback moves a window after what was sent to it
before (`Fenced`); the transaction knows where each window was that it moved and left the others there
(`FoundIsKept`); after a failure all are back, unless a place could not be read in time
(`FailedIsBack`). `LookedAt` is the counterpart for windows others moved. The request that is still
in a window's queue makes this hard: it can be carried out long after the step that sent it, so
each part has to say what is in the queue.

`IdentityInv` says that no two windows have one number, that the window that bears the mark never gets
another handle (`OriginalIsMarked`), and that what was read of it is a place where it stood (`PlacesAreKnown`).
A handle is reused only after its window is gone, and the mark goes with the window.

### Services

`StoreInv` says that the file, the memory and the copy being saved are each one that opens (`Sound`), and
that file and memory agree as long as no acknowledgement failed (`Agree`).

`RunsInv` says of every item that is applied, and whose run was neither reported, cut off by a crash nor left
unread, that it is about to be recorded, or in the
file and in memory, or, when there is no program, in the file (`AppliedIsListed`); that a command that
ends a run works through the record in memory from its head (`CommandFollowsRecord`), and that a
run begins once and a lost one is in no record (`RecordsAreOfRuns`). The two copies of the record and
the list the command holds are written at three different moments. What is left of a
run is always its first items, last first (`Down(n)`), which gives the order.

`TrackerInv` says that the tracker's last mode is the one the schedule asks for unless a
boundary was passed since; `DesiredIsLastBoundary` that `desired_mode`, two comparisons in the code, is the
boundary passed last for every pair of times, those past midnight included.

`CornerInv` relates the tracker, which knows the last cursor and a time, to the history of samples: a
waiting tracker has been seeing that corner since no later than it notes (`WaitsAtRest`), and a corner that
was opened for stays marked until the cursor leaves it (`OpenedIsMarked`). That the corners of
the desktop are found is a fact about the arrangement alone: the code asks whether another monitor has one of the
three points beyond a monitor's corner; for monitors that do not overlap that is the same as one
covered quarter around the vertex.

`TaskbarInv` says that what the watcher hides was shown when it began to watch, so that everything it
goes back to is shown (`OnlyShownIsHidden`), and that the record is in the file from before the write
until after the way back (`RecordCoversWrite`). A command that writes back an older record is
the one exception, and the theorem names it.

`RestartInv` says that an id on the list is there once, that no id stays on it after the
last call, and that what is on it is not somebody else's unless the id was given away since it was looked at.

### Settings and screen

`RegistryInv` adds to `RegistryIsGivenBack` what a step that is about to write knows
(`WritesWhatWasRead`): unless others wrote since, the value is the backup's before `apply`
writes, and the wanted one before `restore` does.

`CleanupInv` says that what was found out about the open file was so after it was opened
(`CheckedOpen`), and that an old file to which nothing happens was visited or lies ahead
of the walk: in a pending folder or under an entry that is still to be read (`NothingMissed`).

`ScreenInv` was model-checked on two changes of two items and one, with any number of faults and two calls at a
time (6.0 million states). The preview in the dialog is the
latest that was asked for and the tick is its (`PreviewIsCurrent`); the screen's trial and the calls about a
change agree with what became of it (`ChangeIsKnown`); a commit that is answered is news to the
screen (`CommitIsNews`); one undo runs at a time and has given back what it left behind
(`UndoIsAlone`); the bar is about the change in trial (`BarIsOfTrial`). For the notices: items are applied as long as the change
is tried or kept and are not when it is over, unless they are excused (`ItemsFollowTrials`), and a pass over
the expired trials is about trials that are still to be ended, were ended by another pass, or were kept
meanwhile (`PassIsKnown`). Answers come late and in any
order, so each part also speaks of the calls under way.

`CapturesInv` was model-checked with three writes of others (72,316 states) before it was proved. The
lemmas `RegistryIsFaithful` to `LaunchIsFaithful` say of each of the sixteen kinds what its functions owe one
another, and `AllAreFaithful` collects them: `Overwrite` changes only the parts the backup has, to what the action wants; `GiveBack` gives those parts
back and no others; `IsRestored` accepts nothing but the original in them, and a setting nobody touched is never
refused by either verification. The proof of
the steps knows the kinds only through that lemma. Its parts are what holds at each step
(`CaptureIsKnown`); that as long as nobody touched a part that decides, it is what was saved or what
was wanted (`UntouchedIsOurs`); that where Windows differs from what it would hold
without the app, one of the two is the original and the other what the app wanted (`OnlyOurPartsDiffer`,
and `OnlyOurConnectionDiffers` for the VPN, whose rollback may end only a connection of its own); and how many
writes of others it takes, at each step of the commit, for a backup its preview does not show
(`BackupIsForeseen`): one deceives the first look, two the backup between the looks, three the comparison
before the write, which gives the bound in the property.

### Only model-checked

* Liveness: `GateIsReleased`, `TrialIsTakenBack`, `SettingsComeBack`, `ShutdownEnds`, `SharingEnds`,
  `RibbonFollowsModes`, `TaskbarIsGivenBack`, `ShellIsRestarted`. Liveness under fairness and `ENABLED` are out of the prover's reach.
* `OursGoesOthersStay`: the programs of the twelve kinds of settings are data that one interpreter runs, and the
  module has no constant. Only `MCServices` bounds its faults. Without a bound
  (`CompositeInit` with `SettingStep`, `SettingUserStep` and `SettingFault` as the next-state relation) the module
  has 230,590 states, and TLC, run by hand, found the property in all of them: nothing is left to generalize.
* `LostWindowsAreBroughtBack`: the sweep of `UnionArea` sorts with an operator the prover has no
  definition of, and adds up with a fold; that it counts the cells is an induction over the strips.
* `ServicesTypeOK` collects the type invariants of the services.
* What a recursive definition computes for every input: induction over data is out of reach, too.

## 6. Not modelled, and why

"components" in `PROJECT.json` says it for every part. In short:

* text and tables: `presentation.rs`, validation of requests, the compatibility
  catalog (its verdict is an input of `ChangeEngine`), reports, the config snapshot,
  the storage history, the setup guide. No state changes there.
* bindings that only look: `ui_probe.rs` walks Windows' own user interface,
  `observations.rs` reads but for the cleanup. What the bindings write is an instruction of
  `SettingPrograms`, a placement of `WindowLayout` or a setter of `ChangeEngine`.
* windows: display profiles and scaling, and the filters that decide which windows are offered
  at all (styles, games, full screen, higher integrity).
* file formats: the stores' JSON and its versions, the journal's stage events.
* the React interface: the views, the search, and the panels that show one answer.

## 7. What could come next

* The sweep of `RescueGeometry` for rectangles of every size, with a prover that can do induction.
* Display scaling as operators with reference definitions.
* `WindowIdentity` composed with `WindowLayout`: the transaction over several windows whose
  handles change hands.
* The start of the app as a sequence of stores that may each refuse to open.
