------------------------- MODULE MCTournamentService -------------------------
(***************************************************************************)
(* Small instances of TournamentService.                                   *)
(***************************************************************************)
EXTENDS TournamentService, TLC

\* Workers differ only in name, and so do the ids the database makes up.
WorkersAndIds == Permutations(Workers) \cup Permutations(Ids)
==============================================================================
