--------------------------- MODULE MCChangeEngine ---------------------------
(***************************************************************************)
(* Small instances of ChangeEngine for TLC.  The faults of a behaviour     *)
(* (crashes, failing statements, outside writes, Windows updates) are      *)
(* bounded by MaxFaults in all; failing reads and failing setters are not. *)
(***************************************************************************)
EXTENDS ChangeEngine, TLC

CONSTANT MaxFaults

VARIABLE faults

MCValues == {"off", "on", "third"}

MCRequests == {[a \in Action |-> "on"],
               [a \in Action |-> IF a = 1 THEN "on" ELSE NoValue]}

\* One setting that is turned on, and back off by a later change.
TwoValues == {"off", "on"}

ThereAndBack == {[a \in Action |-> v] : v \in TwoValues}

TurnOn == {[a \in Action |-> "on"]}

MCInit == Init /\ faults = 0

MCNext ==
    \/ /\ EngineStep \/ UserStep \/ Boot \/ \E t \in Tx : HoldElapses(t)
       /\ UNCHANGED faults
    \/ /\ faults < MaxFaults
       /\ FaultStep
       /\ faults' = faults + 1

\* An engine with nothing to do rests: TLC's deadlock check is left to find a
\* gate holder, a reverter pass or a boot that cannot go on.
Rest ==
    /\ mode = "running" /\ job.pc = "idle" /\ rev.pc = "idle"
    /\ UNCHANGED <<vars, faults>>

MCSpec == MCInit /\ [][MCNext \/ Rest]_<<vars, faults>>

-----------------------------------------------------------------------------
\* What the holder of the gate does next.
GateStep == CommitStep \/ UndoStep \/ RollbackOne \/ ReconcileStep

\* The threads run on.  The reverter waits for the gate against users who may
\* keep taking it: parking_lot hands a contended mutex over fairly, so its
\* turn comes.  After a crash somebody starts the app again.  Deadlines come.
LiveSpec ==
    /\ MCSpec
    /\ WF_<<vars, faults>>(GateStep /\ UNCHANGED faults)
    /\ WF_<<vars, faults>>((RevertScan \/ RevertPick \/ RevertClear \/ RevertEnd)
                           /\ UNCHANGED faults)
    /\ SF_<<vars, faults>>(RevertItem /\ UNCHANGED faults)
    /\ WF_<<vars, faults>>(Boot /\ UNCHANGED faults)
    /\ \A t \in Tx : WF_<<vars, faults>>(HoldElapses(t) /\ UNCHANGED faults)

\* No operation keeps the gate for ever, whatever fails under it.
GateIsReleased == job.pc # "idle" ~> job.pc = "idle"

\* An applied setting of a trial that nobody confirmed does not stay: it is
\* given back or set aside for recovery, across crashes.  A backup of another
\* build is the exception.
TrialIsTakenBack ==
    \A t \in Tx, a \in Action :
        trial[t] = "held" /\ itemState[<<t, a>>] = "APPLIED"
            ~> \/ itemState[<<t, a>>] # "APPLIED"
               \/ trial[t] = "confirmed"
               \/ t \in foreign

=============================================================================
