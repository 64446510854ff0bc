------------------------------ MODULE MCFixtures ------------------------------
(***************************************************************************)
(* Groups of up to 16 teams, which is TournamentFormat's default limit;    *)
(* the empty list and the single team included.                            *)
(***************************************************************************)
EXTENDS Fixtures

UpToSixteen == 0 .. 16
JustTwo     == {2}
===============================================================================
