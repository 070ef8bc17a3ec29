-------------------------- MODULE MCProfileWatcher --------------------------
(***************************************************************************)
(* Small instances of ProfileWatcher for TLC.  Failing engine calls,       *)
(* changes by others, crashes, switching a profile on or off and stopping  *)
(* the watcher are bounded by MaxDisturbances in all; failures that an     *)
(* earlier one makes certain are not.                                      *)
(***************************************************************************)
EXTENDS ProfileWatcher

CONSTANT MaxDisturbances

VARIABLE disturbances

mcvars == <<vars, disturbances>>

\* Two games share a setting and disagree about another one, whose key comes
\* first although its id comes last.  The second game skips conflicts.
MCWants ==
    [p \in Profile |-> [a \in Setting |->
        IF a = 2 /\ p = "chess" THEN "third" ELSE "on"]]

\* Two games that want different settings.
MCApart ==
    [p \in Profile |-> [a \in Setting |->
        IF (a = 1) = (p = "go") THEN "on" ELSE NoValue]]

\* The first game can be started twice.
MCMatches == [i \in Instance |-> IF i = 2 THEN {"chess"} ELSE {"go"}]

MCKeyRank == [a \in Setting |-> 3 - a]

MCInit == WatcherInit /\ disturbances = 0

\* The watcher reads the store and the stop flag when a cycle starts and the
\* processes when it looks: a change of theirs in between commutes with its
\* other steps, and is taken before them.
Between == work.pc \in {"idle", "look", "stopped"}

MCNext ==
    \/ /\ WatcherStep \/ LookStep \/ (Between /\ GameStep)
       /\ UNCHANGED disturbances
    \/ /\ disturbances < MaxDisturbances
       /\ ProfileFault \/ (Between /\ UserStep)
       /\ disturbances' = disturbances + 1

Rest == work.pc = "stopped" /\ UNCHANGED mcvars

\* The watcher thread runs on; its engine calls return; complete snapshots come
\* again and again.  Nothing is assumed of games, users and faults.
MCSpec ==
    /\ MCInit /\ [][MCNext \/ Rest]_mcvars
    /\ WF_mcvars(WatcherStep /\ UNCHANGED disturbances)
    /\ SF_mcvars(TickComplete /\ UNCHANGED disturbances)

=============================================================================
