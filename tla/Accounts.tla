------------------------------- MODULE Accounts -------------------------------
(***************************************************************************)
(* The addresses the contracts keep balances for.  Every Solidity mapping  *)
(* from addresses is a total function on this set.  An address has 20      *)
(* bytes, so there are finitely many.                                      *)
(***************************************************************************)
EXTENDS FiniteSets

CONSTANT Address

ASSUME AddressesAreFinite == IsFiniteSet(Address)
=============================================================================
