---------------------------- MODULE MCGroupService ----------------------------
(***************************************************************************)
(* Small instances of GroupService.                                        *)
(***************************************************************************)
EXTENDS GroupService, TLC

CONSTANTS t1, t2, a, b, c, d, e

\* Every stored tournament allows two teams per group.
TwoTeams == [t \in StoredTournaments |-> 2]

\* t1 allows two teams per group, every other tournament one.
OneForOthers == [t \in StoredTournaments |-> IF t = t1 THEN 2 ELSE 1]

\* The lists of teams of one request: the empty one, an unknown team (c), the
\* same team twice, and more than one group can take.
MixedBatches == {<<>>, <<a>>, <<a, b>>, <<b, c>>, <<a, a>>, <<a, b, c>>}

\* Lists that two workers can interleave, each of which fits by itself.
RacingBatches == {<<a, b>>, <<c, d>>, <<e>>}
===============================================================================
