-------------------------- MODULE MCMatchScheduling --------------------------
(***************************************************************************)
(* A small instance of MatchScheduling.                                    *)
(***************************************************************************)
EXTENDS MatchScheduling, TLC

CONSTANTS a, b, c

\* Every tournament allows two teams per group.
TwoTeams == [t \in StoredTournaments |-> 2]

\* No team, a whole group, and one more that another worker can slip in.
SomeBatches == {<<>>, <<a, b>>, <<c>>}
==============================================================================
