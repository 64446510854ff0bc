-------------------------- MODULE MCConnectionPool --------------------------
(***************************************************************************)
(* The pool as tournament_services/configuration.json sizes it: 4 workers, *)
(* 2 connections.  Both are sets of model values, given in the .cfg.       *)
(***************************************************************************)
EXTENDS ConnectionPool
=============================================================================
