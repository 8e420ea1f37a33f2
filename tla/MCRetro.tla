------------------------------- MODULE MCRetro -------------------------------
(* Retro for TLC.                                                           *)
EXTENDS RetroRefinement
==============================================================================
