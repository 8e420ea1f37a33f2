---------------------------- MODULE MCPortfolio ----------------------------
(* Values of the constants of Portfolio for TLC.                          *)
EXTENDS PortfolioRefinement, TLC

NoLegacy == {}
AllLegacy == Positions

(* Nothing tells two requests, two users or two prices apart when all the *)
(* positions are legacy or none is.                                       *)
Symmetry == Permutations(Requests) \cup Permutations(Users)
              \cup Permutations(Prices)
============================================================================
