---------------------------- MODULE PipelineStates ----------------------------
(***************************************************************************)
(* The processing states of a collected document version and the one table *)
(* of allowed transitions every stage of the pipeline asks                  *)
(* (pipeline/state_machine.py).                                             *)
(***************************************************************************)
EXTENDS Integers

\* A state without successors, in the order the table lists them.
TerminalStates ==
    {"approved", "rejected", "archived", "duplicate", "irrelevant",
     "background_only", "access_denied", "failed"}

AllowedTransitions ==
    [discovered   |-> {"collected", "access_denied", "failed"},
     collected    |-> {"normalized", "failed"},
     normalized   |-> {"deduplicated", "duplicate"},
     deduplicated |-> {"classified", "failed"},
     classified   |-> {"extracted", "irrelevant", "background_only"},
     extracted    |-> {"validated", "failed"},
     validated    |-> {"needs_review", "rejected"},
     needs_review |-> {"approved", "rejected", "archived"}]

WorkingStates == DOMAIN AllowedTransitions

PipelineState == WorkingStates \cup TerminalStates

\* can_transition: FALSE for an unknown state, and out of a terminal one.
CanTransition(from, to) ==
    /\ from \in WorkingStates
    /\ to \in AllowedTransitions[from]

\* A version without a row yet.
Absent == "absent"

\* How far along a state is.  Every allowed transition climbs (theorem
\* TransitionsClimb), so a stage that re-ran on a finished version, or a
\* write that brought an older state back, would have to descend.
Rank ==
    [absent |-> 0, discovered |-> 1, collected |-> 2, normalized |-> 3,
     deduplicated |-> 4, classified |-> 5, extracted |-> 6, validated |-> 7,
     needs_review |-> 8, approved |-> 9, rejected |-> 9, archived |-> 9,
     duplicate |-> 9, irrelevant |-> 9, background_only |-> 9,
     access_denied |-> 9, failed |-> 9]
===============================================================================
