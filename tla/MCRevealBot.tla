---------------------------- MODULE MCRevealBot ----------------------------
(***************************************************************************)
(* Small instances of RevealBot: one game of any kind, the block  *)
(* window three blocks instead of 256, discovery one id back instead of 50. *)
(***************************************************************************)
EXTENDS RevealBot

CONSTANTS g1, other, theVault
=============================================================================
