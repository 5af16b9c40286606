------------------------- MODULE DividendPayingToken -------------------------
(***************************************************************************)
(* contracts/token/DividendPayingToken.sol: a share token whose holders    *)
(* earn a reward token in proportion to their shares.                      *)
(*                                                                         *)
(* The contract has no behaviour of its own (it is abstract, and every     *)
(* function that changes it is internal or is reached through              *)
(* TokenDividendTracker), so it is modelled as operators on a record s:    *)
(* the contract's storage, together with the part of the reward token's    *)
(* ledger that its calls change.  For a function F, FReverts is the        *)
(* condition under which the call reverts and F the storage it leaves when *)
(* it does not.  The fields of s it reads and writes are the variables of  *)
(* lines 38-54, balanceOf and totalSupply of the inherited ERC20, and      *)
(* reserve and received, the reward tokens it holds and has paid out.      *)
(*                                                                         *)
(* Words: a uint256 is a number up to MaxUint and an int256 lies between   *)
(* -MaxInt - 1 and MaxInt, with MaxInt = 2^255 - 1 in the contract.  All   *)
(* arithmetic is checked (SafeMath, SafeMathInt, Solidity 0.8), so leaving *)
(* the range reverts.                                                      *)
(***************************************************************************)
EXTENDS Accounts, Integers

CONSTANTS Magnitude,      \* the scaling of line 36, 2^128 in the contract
          MaxInt          \* the largest int256

ASSUME MagnitudeAssumption == Magnitude \in Nat \ {0}
ASSUME MaxIntAssumption == MaxInt \in Nat

MaxUint == 2 * MaxInt + 1

Int256 == -MaxInt - 1 .. MaxInt
Uint256 == 0 .. MaxUint

(* The numbers of lines 38-54, and those of the inherited ERC20, are words. *)
WordsFit(s) ==
    /\ s.magnifiedDividendPerShare \in Uint256
    /\ s.totalDividendsDistributed \in Uint256
    /\ s.totalSupply \in Uint256
    /\ s.balanceOf \in [Address -> Uint256]
    /\ s.withdrawnDividends \in [Address -> Uint256]
    /\ s.magnifiedDividendCorrections \in [Address -> Int256]

----------------------------------------------------------------------------
(* What an address has earned, before the division by magnitude.           *)
MagnifiedDividend(s, a) ==
    s.magnifiedDividendPerShare * s.balanceOf[a] + s.magnifiedDividendCorrections[a]

(* accumulativeDividendOf, lines 147-150, and withdrawableDividendOf,      *)
(* lines 130-132.  The conversions between uint256 and int256 revert on a  *)
(* value the other type does not have; so does the subtraction.            *)
accumulativeDividendOf(s, a) == MagnifiedDividend(s, a) \div Magnitude

(* Mutant: what was withdrawn before is not subtracted.                    *)
WithdrawableAgain(s, a) == accumulativeDividendOf(s, a)

withdrawableDividendOf(s, a) == accumulativeDividendOf(s, a) - s.withdrawnDividends[a]

withdrawableDividendOfReverts(s, a) ==
    \/ s.magnifiedDividendPerShare * s.balanceOf[a] > MaxInt
    \/ MagnifiedDividend(s, a) \notin 0 .. MaxInt
    \/ withdrawableDividendOf(s, a) < 0

----------------------------------------------------------------------------
(* _distributeDividends, lines 80-91.                                      *)
PerShare(s, amount) == (amount * Magnitude) \div s.totalSupply

DistributeReverts(s, amount) ==
    \/ s.totalSupply = 0
    \/ amount * Magnitude > MaxUint
    \/ s.magnifiedDividendPerShare + PerShare(s, amount) > MaxUint
    \/ s.totalDividendsDistributed + amount > MaxUint

(* Mutant: the division rounds up, so that more is credited than was sent. *)
DistributeRoundsUp(s, amount) ==
    [s EXCEPT !.magnifiedDividendPerShare =
                  @ + (amount * Magnitude + s.totalSupply - 1) \div s.totalSupply,
              !.totalDividendsDistributed = @ + amount]

Distribute(s, amount) ==
    [s EXCEPT !.magnifiedDividendPerShare = @ + PerShare(s, amount),
              !.totalDividendsDistributed = @ + amount]

----------------------------------------------------------------------------
(* _mint and _burn, lines 169-185: the correction moves against the change *)
(* of balance, so that what the address has already earned stays the same. *)
Correct(s, account, correction) ==
    [s EXCEPT !.magnifiedDividendCorrections[account] = @ + correction]

(* Mutant: minting forgets the correction.                                 *)
MintUncorrected(s, account, value) ==
    [s EXCEPT !.balanceOf[account] = @ + value, !.totalSupply = @ + value]

Mint(s, account, value) ==
    Correct([s EXCEPT !.balanceOf[account] = @ + value, !.totalSupply = @ + value],
            account, -(s.magnifiedDividendPerShare * value))

(* Mutant: burning forgets the correction.                                 *)
BurnUncorrected(s, account, value) ==
    [s EXCEPT !.balanceOf[account] = @ - value, !.totalSupply = @ - value]

Burn(s, account, value) ==
    Correct([s EXCEPT !.balanceOf[account] = @ - value, !.totalSupply = @ - value],
            account, s.magnifiedDividendPerShare * value)

(* _setBalance, lines 187-197.                                             *)
SetShares(s, account, newBalance) ==
    LET current == s.balanceOf[account]
    IN  IF newBalance > current THEN Mint(s, account, newBalance - current)
        ELSE IF newBalance < current THEN Burn(s, account, current - newBalance)
        ELSE s

(* Mutant: the correction is added without SafeMathInt.                    *)
SetSharesUnchecked(s, account, newBalance) ==
    LET change == newBalance - s.balanceOf[account]
    IN  \/ s.totalSupply + change \notin 0 .. MaxUint
        \/ s.magnifiedDividendPerShare * change \notin -MaxInt .. MaxInt

SetSharesReverts(s, account, newBalance) ==
    LET change == newBalance - s.balanceOf[account]
    IN  \/ s.totalSupply + change \notin 0 .. MaxUint
        \/ s.magnifiedDividendPerShare * change \notin -MaxInt .. MaxInt
        \/ s.magnifiedDividendCorrections[account]
              - s.magnifiedDividendPerShare * change \notin Int256

----------------------------------------------------------------------------
(* The call rewardToken.transfer(user, amount) of line 106: the token      *)
(* moves the amount, answers false, or reverts.                            *)
Results == {"moves", "answers false", "reverts"}

(* The results the reward token can give: it never moves more than the     *)
(* contract holds, and otherwise fails only in the ways listed.            *)

TransferResults(s, amount, failures) ==
    IF amount <= s.reserve THEN {"moves"} \union failures
    ELSE {"reverts"} \union failures

TransferTo(s, user, amount) ==
    [s EXCEPT !.reserve = @ - amount, !.received[user] = @ + amount]

(* Mutant: a transfer that answers false is still booked as withdrawn.     *)
WithdrawNoRollback(s, user, result) ==
    LET amount == withdrawableDividendOf(s, user)
        booked == [s EXCEPT !.withdrawnDividends[user] = @ + amount]
    IN  IF amount = 0 THEN s
        ELSE IF result = "moves" THEN TransferTo(booked, user, amount)
        ELSE booked

(* Mutant: the withdrawal is paid and never booked.                        *)
WithdrawUnbooked(s, user, result) ==
    LET amount == withdrawableDividendOf(s, user)
    IN  IF amount > 0 /\ result = "moves" THEN TransferTo(s, user, amount) ELSE s

(* _withdrawDividendOfUser, lines 101-117: book the amount, move it, and   *)
(* take the booking back when the reward token answers false.              *)
Withdraw(s, user, result) ==
    LET amount == withdrawableDividendOf(s, user)
        booked == [s EXCEPT !.withdrawnDividends[user] = @ + amount]
    IN  IF amount = 0 THEN s
        ELSE IF result = "moves" THEN TransferTo(booked, user, amount)
        ELSE [booked EXCEPT !.withdrawnDividends[user] = @ - amount]

WithdrawReverts(s, user, result) ==
    \/ withdrawableDividendOfReverts(s, user)
    \/ withdrawableDividendOf(s, user) > 0 /\ result = "reverts"

(* The amount _withdrawDividendOfUser returns.                             *)
Withdrawn(s, user, result) ==
    IF result = "moves" THEN withdrawableDividendOf(s, user) ELSE 0
=============================================================================
