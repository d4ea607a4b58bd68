--------------------------- MODULE MCFundingWorker ---------------------------
(* FundingWorker on small instances: two replicas over a row, one over two. *)
EXTENDS FundingWorker, TLC

Replicas == Permutations(Workers)
=============================================================================
