--------------------------- MODULE TrackerContract ---------------------------
(***************************************************************************)
(* The storage of contracts/token/TokenDividendTracker.sol and what its    *)
(* functions do to it, as operators on a record s.  The state machines     *)
(* that run them are TokenDividendTracker, the contract on its own, and    *)
(* BIBToken, the token whose transfers call it.                            *)
(***************************************************************************)
EXTENDS DividendPayingToken, IterableMapping, Functions

CONSTANTS MinBalance,     \* minimumTokenBalanceForDividends, line 25
          MinClaimWait,   \* 3600, line 70
          MaxClaimWait    \* 86400, line 70

ASSUME ContractAssumptions ==
    /\ MinBalance \in Nat \ {0}
    /\ MinClaimWait \in Nat /\ MaxClaimWait \in Nat

(* The storage: lines 38-54 of DividendPayingToken.sol, the inherited      *)
(* ERC20, lines 15-24 of this contract, and the reward token's ledger.     *)
Storage ==
    [balanceOf                    : [Address -> Nat],
     totalSupply                  : Nat,
     magnifiedDividendPerShare    : Nat,
     magnifiedDividendCorrections : [Address -> Int],
     withdrawnDividends           : [Address -> Nat],
     totalDividendsDistributed    : Nat,
     tokenHoldersMap              : MapType,
     lastProcessedIndex           : Nat,
     cntr                         : {"none", "BIBToken"},
     excludedFromDividends        : [Address -> BOOLEAN],
     lastClaimTimes               : [Address -> Nat],
     claimWait                    : Nat,
     reserve                      : Nat,
     received                     : [Address -> Nat]]

(* The storage of a proxy just initialized (DividendPayingToken.sol:56-65).*)
(* The initial value of line 24 is assigned by the constructor of the      *)
(* implementation, in the implementation's storage: behind the proxy       *)
(* claimWait starts at zero.                                               *)
InitialStorage ==
    [balanceOf                    |-> [a \in Address |-> 0],
     totalSupply                  |-> 0,
     magnifiedDividendPerShare    |-> 0,
     magnifiedDividendCorrections |-> [a \in Address |-> 0],
     withdrawnDividends           |-> [a \in Address |-> 0],
     totalDividendsDistributed    |-> 0,
     tokenHoldersMap              |-> EmptyMap,
     lastProcessedIndex           |-> 0,
     cntr                         |-> "none",
     excludedFromDividends        |-> [a \in Address |-> FALSE],
     lastClaimTimes               |-> [a \in Address |-> 0],
     claimWait                    |-> 0,
     reserve                      |-> 0,
     received                     |-> [a \in Address |-> 0]]

Holders(s) == {a \in Address : s.tokenHoldersMap.inserted[a]}

Sent(s) == s.reserve + SumFunction(s.received)

----------------------------------------------------------------------------
(* excludeFromDividends, lines 59-67.                                      *)

Exclude(s, account) ==
    LET burned == SetShares([s EXCEPT !.excludedFromDividends[account] = TRUE],
                            account, 0)
    IN  [burned EXCEPT !.tokenHoldersMap = MapRemove(@, account)]

ExcludeReverts(s, account) ==
    s.excludedFromDividends[account] \/ SetSharesReverts(s, account, 0)

(* processAccount, lines 216-226, called by the controller at time now.    *)
ProcessAccount(s, account, result, now) ==
    LET after == Withdraw(s, account, result)
    IN  IF Withdrawn(s, account, result) > 0
        THEN [after EXCEPT !.lastClaimTimes[account] = now]
        ELSE after

ProcessAccountReverts(s, account, result) == WithdrawReverts(s, account, result)

(* setBalance, lines 152-167, in two parts: the shares and the list        *)
(* (157-164), then the payment of line 166.                                *)

(* Mutant: a balance at the threshold gives shares but no place in the list. *)
SharesFollowOffByOne(s, account, newBalance) ==
    LET shares == IF newBalance >= MinBalance THEN newBalance ELSE 0
        after  == SetShares(s, account, shares)
    IN  IF newBalance > MinBalance
        THEN [after EXCEPT !.tokenHoldersMap = MapSet(@, account, newBalance)]
        ELSE [after EXCEPT !.tokenHoldersMap = MapRemove(@, account)]

SharesFollow(s, account, newBalance) ==
    IF newBalance >= MinBalance
    THEN [SetShares(s, account, newBalance)
            EXCEPT !.tokenHoldersMap = MapSet(@, account, newBalance)]
    ELSE [SetShares(s, account, 0)
            EXCEPT !.tokenHoldersMap = MapRemove(@, account)]

SharesFollowReverts(s, account, newBalance) ==
    SetSharesReverts(s, account, IF newBalance >= MinBalance THEN newBalance ELSE 0)

SetBalance(s, account, newBalance, result, now) ==
    IF s.excludedFromDividends[account]
    THEN s
    ELSE ProcessAccount(SharesFollow(s, account, newBalance), account, result, now)

SetBalanceReverts(s, account, newBalance, result) ==
    /\ ~s.excludedFromDividends[account]
    /\ \/ SharesFollowReverts(s, account, newBalance)
       \/ ProcessAccountReverts(SharesFollow(s, account, newBalance), account, result)

----------------------------------------------------------------------------
(* canAutoClaim, lines 145-150.                                            *)
CanAutoClaim(s, account, now) ==
    /\ s.lastClaimTimes[account] <= now
    /\ now - s.lastClaimTimes[account] >= s.claimWait

(* The loop's cursor, lines 186-190.                                       *)

(* Mutant: the first slot is skipped when the cursor wraps.                *)
NextIndexSkipsFirst(cursor, size) ==
    IF cursor + 1 >= size THEN (IF size > 1 THEN 1 ELSE 0) ELSE cursor + 1

NextIndex(cursor, size) == IF cursor + 1 >= size THEN 0 ELSE cursor + 1

(* getAccount, lines 96-110: how many turns of the loop away an account is *)
(* said to be, and -1 when it is not listed.                               *)

(* Mutant: the account under the cursor counts as not yet passed.          *)
IterationsOffByOne(s, account) ==
    LET index  == GetIndexOfKey(s.tokenHoldersMap, account)
        size   == MapSize(s.tokenHoldersMap)
        cursor == s.lastProcessedIndex
    IN  IF index < 0 THEN -1
        ELSE IF index >= cursor THEN index - cursor
        ELSE index + (IF size > cursor THEN size - cursor ELSE 0)

IterationsUntilProcessed(s, account) ==
    LET index  == GetIndexOfKey(s.tokenHoldersMap, account)
        size   == MapSize(s.tokenHoldersMap)
        cursor == s.lastProcessedIndex
    IN  IF index < 0 THEN -1
        ELSE IF index > cursor THEN index - cursor
        ELSE index + (IF size > cursor THEN size - cursor ELSE 0)

----------------------------------------------------------------------------
(* updateClaimWait, lines 69-74.                                           *)
UpdateClaimWaitReverts(s, newClaimWait) ==
    \/ newClaimWait < MinClaimWait \/ newClaimWait > MaxClaimWait
    \/ newClaimWait = s.claimWait

----------------------------------------------------------------------------
(* What must hold of every storage.                                        *)

ListFollowsShares(s) ==
    /\ WellFormed(s.tokenHoldersMap)
    /\ \A a \in Address :
          /\ a \in Holders(s) => /\ s.balanceOf[a] >= MinBalance
                                 /\ s.tokenHoldersMap.values[a] = s.balanceOf[a]
                                 /\ ~s.excludedFromDividends[a]
          /\ a \notin Holders(s) => s.balanceOf[a] = 0

WithdrawnIsEarned(s) ==
    \A a \in Address : s.withdrawnDividends[a] <= accumulativeDividendOf(s, a)
=============================================================================
