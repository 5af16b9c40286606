----------------------------- MODULE MCBIBToken -----------------------------
(***************************************************************************)
(* BIBToken for TLC.  The fees are fifths: with three tokens to swap, two  *)
(* go to liquidity in halves and one is swapped for rewards.  Accounts     *)
(* without a role are interchangeable.                                     *)
(***************************************************************************)
EXTENDS BIBToken, TLC

Fees(reward, blackhole, liquidity) ==
    [rewardFee |-> reward, blackholeFee |-> blackhole, liquidityFee |-> liquidity]

FullFees == Fees(1, 1, 2)

NoFeeChoices == {}

NoRewardFees == {Fees(0, 1, 0)}

Symmetry == Permutations(Address \ InitialExclusions)
=============================================================================
