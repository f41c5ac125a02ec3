---------------------------- MODULE MCTournament ----------------------------
(***************************************************************************)
(* A small event: four players, three to a table, one chip each,           *)
(* a schedule of three levels.                                             *)
(***************************************************************************)
EXTENDS TournamentDriver

MCPayout == <<6500, 3500>>
MCStructures == {<<2, 4, 8>>}
=============================================================================
