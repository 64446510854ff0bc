---------------------------- MODULE MCTeamService ----------------------------
(***************************************************************************)
(* Small instances of TeamService.                                         *)
(***************************************************************************)
EXTENDS TeamService, TLC

\* Workers differ only in name, and so do the ids and the names of teams.
Alike == Permutations(Workers) \cup Permutations(Ids) \cup Permutations(Names)
==============================================================================
