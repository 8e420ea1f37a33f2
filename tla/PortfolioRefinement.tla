------------------------- MODULE PortfolioRefinement -------------------------
(***************************************************************************)
(* Portfolio implements HoldingsLedger: the quantity of the committed row  *)
(* is what is held, the net of the committed ledger is the ledger.         *)
(***************************************************************************)
EXTENDS Portfolio

Holdings == INSTANCE HoldingsLedger
                WITH held <- [p \in Positions |-> row[p].qty],
                     ledger <- net

(* The initial states and the steps of HoldingsLedger, for any set of       *)
(* requests that does not mix PUT with DELETE and does not backfill: every  *)
(* request takes effect at one instant, at its commit.                      *)
ImplementsHoldings == Holdings!Spec
==============================================================================
