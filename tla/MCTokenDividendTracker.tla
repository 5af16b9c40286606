----------------------- MODULE MCTokenDividendTracker -----------------------
(***************************************************************************)
(* TokenDividendTracker for TLC.  Addresses are interchangeable in it: no  *)
(* constant names one of them.  The runs of safety properties use that;    *)
(* the liveness run does not.                                              *)
(***************************************************************************)
EXTENDS TokenDividendTracker, TLC

Symmetry == Permutations(Address)
=============================================================================
