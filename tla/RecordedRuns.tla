---------------------------- MODULE RecordedRuns ----------------------------
(***************************************************************************)
(* Runs whose end is a second command: a manual mode and a screen sharing  *)
(* session.  Starting one commits a transaction of the engine and then     *)
(* stores, in a file of its own, which items to roll back; ending one      *)
(* rolls them back one by one and shortens the record after each.  The     *)
(* engine's transaction and the file are two stores that no common         *)
(* transaction holds together.                                             *)
(*                                                                         *)
(* The engine is a parameter of this model: a commit and a rollback of one *)
(* item are single steps here (ChangeEngine has their inside).  rrKind says *)
(* which of the two programs a behaviour runs.                             *)
(***************************************************************************)
EXTENDS Naturals, Sequences, SequencesExt

CONSTANTS
    MaxRuns,    \* bound: runs started
    MaxItems    \* reversible items of the longest mode; a session has two

ASSUME RunsAssumption == MaxRuns \in Nat \ {0} /\ MaxItems \in Nat \ {0, 1}

VARIABLES
    rrKind,     \* "manual": manual.rs; "share": share_session.rs
    rrItem,     \* journal: state of each run's items, by ordinal
    rrMemory,   \* active_run of the store in memory
    rrDisk,     \* active_run in the file
    rrCommand,  \* the command in progress
    rrSaid,     \* history: what the last finished command told the user
    rrLost,     \* history: runs of which an end without a record was reported,
                \* or that a crash cut off before the record
    rrUnread    \* history: runs whose items could not be read after the commit

rrvars == <<rrKind, rrItem, rrMemory, rrDisk, rrCommand, rrSaid, rrLost, rrUnread>>

Run == 1..MaxRuns
Ordinal == 1..MaxItems
NoRun == [run |-> 0, left |-> << >>]
NoJob == [pc |-> "idle", run |-> 0, left |-> << >>]

\* What a record may list: the reversible items, in the order of rollback.
Records == {[run |-> r, left |-> l] :
                r \in Run, l \in UNION {[1..n -> Ordinal] : n \in Ordinal}} \union {NoRun}

RunsTypeOK ==
    /\ rrKind \in {"manual", "share"}
    /\ rrItem \in [Run -> [Ordinal -> {"none", "applied", "restored", "recovery"}]]
    /\ rrMemory \in Records /\ rrDisk \in Records
    /\ rrCommand.pc \in {"idle", "record", "undo", "rollback", "save", "down"}
    /\ rrSaid \in {"none", "started", "failed", "restored"}
    /\ rrLost \subseteq Run /\ rrUnread \subseteq Run

RunsInit ==
    /\ rrKind \in {"manual", "share"}
    /\ rrItem = [r \in Run |-> [k \in Ordinal |-> "none"]]
    /\ rrMemory = NoRun /\ rrDisk = NoRun
    /\ rrCommand = NoJob
    /\ rrSaid = "none"
    /\ rrLost = {} /\ rrUnread = {}

-----------------------------------------------------------------------------
Applied(r) == {k \in Ordinal : rrItem[r][k] = "applied"}

Started(r) == rrItem[r][1] # "none"

Fresh(r) == ~Started(r) /\ \A q \in Run : q < r => Started(q)

Bug_RollbackOrder(n) == [k \in 1..n |-> k]

\* transaction_timeline is in reverse ordinal order; the session reverses the
\* committed items itself.
RollbackOrder(n) == Reverse([k \in 1..n |-> k])

End(said) ==
    /\ rrCommand' = NoJob
    /\ rrSaid' = said

\* run_manual_profile and start up to the end of the commit.  A manual mode may
\* have any number of reversible items (one without any leaves no record); a session
\* always has its two.
StartRun ==
    /\ rrCommand.pc = "idle" /\ rrMemory = NoRun
    /\ \E r \in Run, n \in IF rrKind = "share" THEN {2} ELSE Ordinal :
        /\ Fresh(r)
        /\ rrItem' = [rrItem EXCEPT
                        ![r] = [k \in Ordinal |-> IF k <= n THEN "applied" ELSE "none"]]
        /\ rrCommand' = [pc |-> "record", run |-> r, left |-> RollbackOrder(n)]
    /\ UNCHANGED <<rrKind, rrMemory, rrDisk, rrSaid, rrLost, rrUnread>>

\* manual_transaction_items: the items of the committed transaction cannot be
\* read, or are not as many as the actions.  The command ends there with an error:
\* nothing is recorded and nothing is rolled back.  (The session compensates when
\* its count is wrong, as when its record cannot be saved.)
TimelineFails ==
    /\ rrKind = "manual" /\ rrCommand.pc = "record"
    /\ rrUnread' = rrUnread \union {rrCommand.run}
    /\ End("failed")
    /\ UNCHANGED <<rrKind, rrItem, rrMemory, rrDisk, rrLost>>

\* set_active_run, replace_active_run: the file first, then the memory.
SaveNewRecord ==
    LET record == [run |-> rrCommand.run, left |-> rrCommand.left] IN
    /\ rrCommand.pc = "record"
    /\ rrDisk' = record /\ rrMemory' = record
    /\ End("started")
    /\ UNCHANGED <<rrKind, rrItem, rrLost, rrUnread>>

Bug_AfterFailedRecord == /\ End("failed") /\ UNCHANGED <<rrLost, rrUnread>>

\* The record cannot be saved: what was applied is rolled back at once.
AfterFailedRecord ==
    /\ rrCommand' = [rrCommand EXCEPT !.pc = "undo"]
    /\ UNCHANGED <<rrSaid, rrLost, rrUnread>>

NewRecordFails ==
    /\ rrCommand.pc = "record"
    /\ AfterFailedRecord
    /\ UNCHANGED <<rrKind, rrItem, rrMemory, rrDisk>>

\* PcCustomEngine::rollback_item of an item that is applied.  "refused" stands
\* for an error before anything is recorded (the lock, the Windows identity).
\* "failed" records a recovery item and returns a result that says so; "third"
\* records one and returns an error.
Outcomes == {"restored", "failed", "third", "refused"}

ItemAfter(r, k, outcome) ==
    rrItem' = [rrItem EXCEPT ![r][k] =
        CASE outcome = "restored" -> "restored"
          [] outcome \in {"failed", "third"} -> "recovery"
          [] outcome = "refused" -> @]

\* Compensation goes on past a failure and reports it at the end.
Compensate(outcome) ==
    LET k == Head(rrCommand.left) IN
    /\ rrCommand.pc = "undo"
    /\ ItemAfter(rrCommand.run, k, outcome)
    /\ rrLost' = IF outcome = "restored" THEN rrLost ELSE rrLost \union {rrCommand.run}
    /\ IF Len(rrCommand.left) = 1 THEN End("failed")
       ELSE /\ rrCommand' = [rrCommand EXCEPT !.left = Tail(@)]
            /\ UNCHANGED rrSaid
    /\ UNCHANGED <<rrKind, rrMemory, rrDisk, rrUnread>>

-----------------------------------------------------------------------------
\* restore_manual_profile and finish.
StartEnding ==
    /\ rrCommand.pc = "idle" /\ rrMemory # NoRun
    /\ rrCommand' = [pc |-> "rollback", run |-> rrMemory.run, left |-> rrMemory.left]
    /\ UNCHANGED <<rrKind, rrItem, rrMemory, rrDisk, rrSaid, rrLost, rrUnread>>

Save == /\ rrCommand' = [rrCommand EXCEPT !.pc = "save", !.left = Tail(@)]
        /\ UNCHANGED rrSaid

\* The manual mode goes on only after a rollback that succeeded; the session
\* also after an error that left the item not to be rolled back any more.
GoesOn(outcome) ==
    \/ outcome = "restored"
    \/ rrKind = "share" /\ outcome = "third"

RollBackNext(outcome) ==
    LET k == Head(rrCommand.left) IN
    /\ rrCommand.pc = "rollback"
    /\ k \in Applied(rrCommand.run)
    /\ ItemAfter(rrCommand.run, k, outcome)
    /\ IF GoesOn(outcome) THEN Save ELSE End("failed")
    /\ UNCHANGED <<rrKind, rrMemory, rrDisk, rrLost, rrUnread>>

Bug_SkipsDone == FALSE

\* The session asks the journal first and skips what cannot be rolled back.
SkipsDone == rrKind = "share"

\* rollback_item refuses an item that is not applied.
NextIsDone ==
    /\ rrCommand.pc = "rollback"
    /\ Head(rrCommand.left) \notin Applied(rrCommand.run)
    /\ IF SkipsDone THEN Save ELSE End("failed")
    /\ UNCHANGED <<rrKind, rrItem, rrMemory, rrDisk, rrLost, rrUnread>>

Shortened == IF rrCommand.left = << >> THEN NoRun
             ELSE [run |-> rrCommand.run, left |-> rrCommand.left]

SaveShorter ==
    /\ rrCommand.pc = "save"
    /\ rrDisk' = Shortened /\ rrMemory' = Shortened
    /\ IF rrCommand.left = << >> THEN End("restored")
       ELSE /\ rrCommand' = [rrCommand EXCEPT !.pc = "rollback"]
            /\ UNCHANGED rrSaid
    /\ UNCHANGED <<rrKind, rrItem, rrLost, rrUnread>>

\* acknowledge_rolled_back_items keeps what is true in memory although the file
\* says otherwise; replace_active_run leaves both as they are.
SaveShorterFails ==
    /\ rrCommand.pc = "save"
    /\ rrMemory' = IF rrKind = "manual" THEN Shortened ELSE rrMemory
    /\ End("failed")
    /\ UNCHANGED <<rrKind, rrItem, rrDisk, rrLost, rrUnread>>

-----------------------------------------------------------------------------
\* The user rolls an item back from the history; not both stores are told.
RollBackFromHistory(r, k, outcome) ==
    /\ rrCommand.pc = "idle"
    /\ k \in Applied(r)
    /\ outcome # "refused"
    /\ ItemAfter(r, k, outcome)
    /\ rrSaid' = "none"
    /\ UNCHANGED <<rrKind, rrMemory, rrDisk, rrCommand, rrLost, rrUnread>>

\* reconcile_now gives back what could not be rolled back before.
Reconcile(r, k) ==
    /\ rrCommand.pc = "idle"
    /\ rrItem[r][k] = "recovery"
    /\ rrItem' = [rrItem EXCEPT ![r][k] = "restored"]
    /\ UNCHANGED <<rrKind, rrMemory, rrDisk, rrCommand, rrSaid, rrLost, rrUnread>>

\* The program ends, or is ended in the middle of a command.
StopApp ==
    /\ rrCommand.pc # "down"
    /\ rrCommand' = [NoJob EXCEPT !.pc = "down"]
    /\ rrLost' = rrLost \union
            {r \in Run : rrCommand.pc \in {"record", "undo"} /\ r = rrCommand.run}
    /\ UNCHANGED <<rrKind, rrItem, rrMemory, rrDisk, rrSaid, rrUnread>>

\* ProfileStore::open, ShareSessionStore::open
BootApp ==
    /\ rrCommand.pc = "down"
    /\ rrCommand' = NoJob
    /\ rrMemory' = rrDisk
    /\ rrSaid' = "none"
    /\ UNCHANGED <<rrKind, rrItem, rrDisk, rrLost, rrUnread>>

\* The commands' steps when nothing fails.
RunStep ==
    \/ SaveNewRecord \/ Compensate("restored")
    \/ RollBackNext("restored") \/ NextIsDone \/ SaveShorter
    \/ BootApp

RunUserStep ==
    \/ StartRun \/ StartEnding
    \/ \E r \in Run, k \in Ordinal : Reconcile(r, k)

RunFault ==
    \/ TimelineFails \/ NewRecordFails \/ SaveShorterFails \/ StopApp
    \/ \E outcome \in Outcomes \ {"restored"} :
            Compensate(outcome) \/ RollBackNext(outcome)
    \/ \E r \in Run, k \in Ordinal, outcome \in Outcomes :
            RollBackFromHistory(r, k, outcome)

RunsNext == RunStep \/ RunUserStep \/ RunFault

RunsSpec == RunsInit /\ [][RunsNext]_rrvars

-----------------------------------------------------------------------------
Quiet == rrCommand.pc = "idle"

\* Between two commands, and after a restart, every applied item of a run is in
\* the record of the run that is active, or else one of three things happened to
\* that run: the user was told that it could not be rolled back, or the program
\* ended between the commit and the record (both rrLost; an unsaved record is
\* compensated, manual.rs and share_session.rs), or its items could not be read
\* after the commit (rrUnread: manual.rs returns its error there and gives nothing
\* back; the mode is on and no ending can be asked for).
\* And an ending command rolls an item back only when nothing of the
\* run that was applied after it still is, over several commands, crashes in between
\* and rollbacks from the history (compensation_order, the reversal in
\* share_session.rs).  Compensation goes on past a failure and is no such command.
RunsAreKnownAndUndone ==
    /\ [](Quiet => \A r \in Run : \A k \in Applied(r) :
              \/ rrMemory.run = r /\ Contains(rrMemory.left, k)
              \/ r \in rrLost \union rrUnread)
    /\ [][\A r \in Run, k \in Ordinal :
              /\ rrCommand.pc = "rollback"
              /\ rrItem[r][k] = "applied" /\ rrItem'[r][k] # "applied"
              => \A j \in Applied(r) : j <= k]_rrvars

\* A sharing session that the user keeps asking to end does end, whatever failed
\* or was cut off before (share_session.rs skips what is rolled back already).
SharingEnds == rrKind = "share" /\ rrMemory # NoRun ~> rrMemory = NoRun

\* What the code does not do: a session that was reported as ended, its windows
\* and settings restored (share_session.rs: the message of finish), has restored
\* them.
SharingEndIsRestored ==
    rrKind = "share" /\ Quiet /\ rrSaid = "restored" =>
        \A r \in Run, k \in Ordinal :
            (\A q \in Run : Started(q) => q <= r) => rrItem[r][k] # "recovery"

=============================================================================
