------------------------ MODULE TokenDividendTracker ------------------------
(***************************************************************************)
(* contracts/token/TokenDividendTracker.sol: the list of dividend-earning  *)
(* holders of the BIB token, with shares that follow their BIB balances,   *)
(* and the loop that pays them.                                            *)
(*                                                                         *)
(* store is the contract's storage (with the reward token's ledger, see    *)
(* DividendPayingToken), clock is block.timestamp.  A transaction is one   *)
(* action, except process(): each turn of its loop is an action, and frame *)
(* is the call in progress, with the storage a revert goes back to.  The   *)
(* EVM runs one transaction at a time, so no other action is enabled while *)
(* a call of process() is in progress.                                     *)
(***************************************************************************)
EXTENDS TrackerContract

CONSTANTS
    StartTime,         \* block.timestamp when the proxy is initialized
    TransferFailures,  \* how a payable transfer of the reward token may fail
    GasRunsOut,        \* whether a call of process() may run out of gas
    \* bounds of the inputs, for TLC
    Balances,          \* the BIB balances the token reports
    Amounts,           \* the rewards the BIB token sends with a distribution
    OwnerAmounts,      \* the rewards the owner sends, or distributes, by hand
    ClaimWaits,        \* the arguments of updateClaimWait
    Callers,           \* who calls process()
    MaxReward,         \* the rewards ever sent, and ever distributed
    MaxTime            \* the last block.timestamp

ASSUME TrackerAssumptions ==
    /\ StartTime \in Nat /\ StartTime >= MaxClaimWait /\ MaxTime \in Nat
    /\ TransferFailures \subseteq {"answers false", "reverts"}
    /\ GasRunsOut \in BOOLEAN
    /\ Balances \subseteq Nat /\ Amounts \subseteq Nat /\ OwnerAmounts \subseteq Nat
    /\ ClaimWaits \subseteq Nat /\ MaxReward \in Nat
    /\ Callers \subseteq {"controller", "anyone"}

VARIABLES store, clock, frame

vars == << store, clock, frame >>

(* A call of process(): its caller, the turns its gas is good for, those   *)
(* still to run, its local cursor, and the storage at its start.           *)
Frames == [caller : {"none", "controller", "anyone"},
           budget : Nat, left : Nat, cursor : Nat, saved : Storage]

NoFrame == [caller |-> "none", budget |-> 0, left |-> 0, cursor |-> 0,
            saved |-> InitialStorage]

Init == /\ store = InitialStorage
        /\ clock = StartTime
        /\ frame = NoFrame

Idle == frame.caller = "none"

Controlled == store.cntr = "BIBToken"

----------------------------------------------------------------------------
(* What the reward token may answer when account is paid what it is owed.  *)
Payouts(s, account) ==
    TransferResults(s, withdrawableDividendOf(s, account), TransferFailures)

----------------------------------------------------------------------------
(* setController, lines 36-39: anyone, as long as no controller is set.    *)
SetController ==
    /\ Idle
    /\ store.cntr = "none"
    /\ store' = [store EXCEPT !.cntr = "BIBToken"]
    /\ UNCHANGED << clock, frame >>

(* updateClaimWait, lines 69-74, by the controller or the owner.           *)
UpdateClaimWait(newClaimWait) ==
    /\ Idle
    /\ ~UpdateClaimWaitReverts(store, newClaimWait)
    /\ store' = [store EXCEPT !.claimWait = newClaimWait]
    /\ UNCHANGED << clock, frame >>

(* excludeFromDividends, lines 59-67, by the controller or the owner.      *)
ExcludeFromDividends(account) ==
    /\ Idle
    /\ ~ExcludeReverts(store, account)
    /\ store' = Exclude(store, account)
    /\ UNCHANGED << clock, frame >>

(* BIBToken.swapAndSendDividends (BIBToken.sol:538-542), the controller's  *)
(* only call of distributeDividends: the rewards are transferred first.    *)
SendDividends(amount) ==
    /\ Idle /\ Controlled
    /\ Sent(store) + amount <= MaxReward
    /\ store.totalDividendsDistributed + amount <= MaxReward
    /\ ~DistributeReverts(store, amount)
    /\ store' = Distribute([store EXCEPT !.reserve = @ + amount], amount)
    /\ UNCHANGED << clock, frame >>

(* distributeDividends, lines 55-57, called by the owner: no reward token  *)
(* moves with the call.                                                    *)
DistributeByHand(amount) ==
    /\ Idle
    /\ store.totalDividendsDistributed + amount <= MaxReward
    /\ ~DistributeReverts(store, amount)
    /\ store' = Distribute(store, amount)
    /\ UNCHANGED << clock, frame >>

(* A plain transfer of reward tokens to the tracker (external: the reward  *)
(* token; the tracker is not called).                                      *)
RewardArrives(amount) ==
    /\ Idle
    /\ Sent(store) + amount <= MaxReward
    /\ store' = [store EXCEPT !.reserve = @ + amount]
    /\ UNCHANGED << clock, frame >>

(* setBalance, lines 152-167, called by BIBToken._transfer.                *)
ReportBalance(account, newBalance) ==
    /\ Idle /\ Controlled
    /\ \E result \in Payouts(SharesFollow(store, account, newBalance), account) :
          /\ ~SetBalanceReverts(store, account, newBalance, result)
          /\ store' = SetBalance(store, account, newBalance, result, clock)
    /\ UNCHANGED << clock, frame >>

(* withdrawDividend, DividendPayingToken.sol:95-97, called by the holder.  *)
WithdrawDividend(account) ==
    /\ Idle
    /\ \E result \in Payouts(store, account) :
          /\ ~WithdrawReverts(store, account, result)
          /\ store' = Withdraw(store, account, result)
    /\ UNCHANGED << clock, frame >>

(* processAccount, lines 216-226, through BIBToken.claim (BIBToken.sol:322).*)
Claim(account) ==
    /\ Idle /\ Controlled
    /\ \E result \in Payouts(store, account) :
          /\ ~ProcessAccountReverts(store, account, result)
          /\ store' = ProcessAccount(store, account, result, clock)
    /\ UNCHANGED << clock, frame >>

----------------------------------------------------------------------------
(* process, lines 169-183: the gas given is good for some number of turns, *)
(* at most one per holder (line 185), none at all when gas is zero.        *)
ProcessBegins(caller, turns) ==
    /\ Idle
    /\ caller = "controller" => Controlled
    /\ turns <= MapSize(store.tokenHoldersMap)
    /\ MapSize(store.tokenHoldersMap) > 0
    /\ frame' = [caller |-> caller, budget |-> turns, left |-> turns,
                 cursor |-> store.lastProcessedIndex, saved |-> store]
    /\ UNCHANGED << store, clock >>

NextAccount ==
    GetKeyAtIndex(store.tokenHoldersMap,
                  NextIndex(frame.cursor, MapSize(store.tokenHoldersMap)))

(* One turn of the loop, lines 185-209.  processAccount is onlyController: *)
(* called from the loop it still checks the caller of process().           *)

(* Mutant: the wait since the last claim is not looked at.                 *)
ProcessTurnAnyTime ==
    /\ ~Idle /\ frame.left > 0
    /\ frame.caller = "controller"
    /\ \E result \in Payouts(store, NextAccount) :
          /\ ~ProcessAccountReverts(store, NextAccount, result)
          /\ store' = ProcessAccount(store, NextAccount, result, clock)
    /\ frame' = [frame EXCEPT
                   !.left = @ - 1,
                   !.cursor = NextIndex(@, MapSize(store.tokenHoldersMap))]
    /\ UNCHANGED clock

ProcessTurn ==
    /\ ~Idle /\ frame.left > 0
    /\ IF CanAutoClaim(store, NextAccount, clock)
       THEN /\ frame.caller = "controller"
            /\ \E result \in Payouts(store, NextAccount) :
                  /\ ~ProcessAccountReverts(store, NextAccount, result)
                  /\ store' = ProcessAccount(store, NextAccount, result, clock)
       ELSE UNCHANGED store
    /\ frame' = [frame EXCEPT
                   !.left = @ - 1,
                   !.cursor = NextIndex(@, MapSize(store.tokenHoldersMap))]
    /\ UNCHANGED clock

(* Mutant: the cursor is not written back.                                 *)
ProcessReturnsNoCursor ==
    /\ ~Idle /\ frame.left = 0
    /\ frame' = NoFrame
    /\ UNCHANGED << store, clock >>

(* Lines 211-213.                                                          *)
ProcessReturns ==
    /\ ~Idle /\ frame.left = 0
    /\ store' = [store EXCEPT !.lastProcessedIndex = frame.cursor]
    /\ frame' = NoFrame
    /\ UNCHANGED clock

(* A revert in the loop, or a lack of gas, undoes the whole call.          *)
TurnReverts ==
    /\ frame.left > 0
    /\ CanAutoClaim(store, NextAccount, clock)
    /\ \/ frame.caller # "controller"
       \/ \E result \in Payouts(store, NextAccount) :
             ProcessAccountReverts(store, NextAccount, result)

(* Mutant: a revert keeps the payments made so far.                        *)
ProcessRevertsPartly ==
    /\ ~Idle
    /\ TurnReverts \/ GasRunsOut
    /\ store' = [store EXCEPT !.withdrawnDividends = frame.saved.withdrawnDividends]
    /\ frame' = NoFrame
    /\ UNCHANGED clock

ProcessReverts ==
    /\ ~Idle
    /\ TurnReverts \/ GasRunsOut
    /\ store' = frame.saved
    /\ frame' = NoFrame
    /\ UNCHANGED clock

(* block.timestamp of the next transaction.                                *)
Tick ==
    /\ Idle
    /\ clock < MaxTime
    /\ clock' = clock + 1
    /\ UNCHANGED << store, frame >>

Next ==
    \/ SetController
    \/ \E wait \in ClaimWaits : UpdateClaimWait(wait)
    \/ \E account \in Address :
          \/ ExcludeFromDividends(account)
          \/ WithdrawDividend(account)
          \/ Claim(account)
          \/ \E newBalance \in Balances : ReportBalance(account, newBalance)
    \/ \E amount \in Amounts : SendDividends(amount)
    \/ \E amount \in OwnerAmounts : DistributeByHand(amount) \/ RewardArrives(amount)
    \/ \E caller \in Callers, turns \in 0 .. MapSize(store.tokenHoldersMap) :
          ProcessBegins(caller, turns)
    \/ ProcessTurn
    \/ ProcessReturns
    \/ ProcessReverts
    \/ Tick

Spec == Init /\ [][Next]_vars

(* The token keeps being transferred, so the controller keeps calling      *)
(* process() with gas for at least one turn (BIBToken.sol:448-455) whenever *)
(* no other call of it is running; a call in progress runs to its end.     *)
Fairness ==
    /\ SF_vars(\E turns \in 1 .. MapSize(store.tokenHoldersMap) :
                  ProcessBegins("controller", turns))
    /\ WF_vars(ProcessTurn)
    /\ WF_vars(ProcessReturns)
    /\ WF_vars(ProcessReverts)

LiveSpec == Spec /\ Fairness

----------------------------------------------------------------------------
(* Every number of the dividend arithmetic stays in its uint256 or int256  *)
(* (DividendPayingToken.sol:38-54).  The code checks some results when it  *)
(* computes them: the conversions, the corrections (lines 169-184) and the *)
(* sums of a distribution.  It relies on others: no balance outgrows the   *)
(* supply, and nobody's withdrawals what is earned.                        *)
TypeOK == /\ store \in Storage /\ clock \in Nat /\ frame \in Frames
          /\ WordsFit(store)

(* The holder list is exactly the accounts with enough shares, lists each  *)
(* with its share balance, holds no excluded account, and everyone else    *)
(* has no shares at all: the two structures that setBalance and            *)
(* excludeFromDividends (lines 59-67, 152-164) update one after the other  *)
(* never disagree, in the middle of a call of process() either.            *)
HoldersAreTheShareholders == ListFollowsShares(store)

(* No withdrawal was ever larger than what the account had earned by then, *)
(* so withdrawableDividendOf (DividendPayingToken.sol:130-132), which every *)
(* call on the account goes through, never underflows whatever sequence of *)
(* mints, burns, distributions and payments came before.                   *)
NeverOverdrawn == WithdrawnIsEarned(store)

(* What the books say was withdrawn is what the reward token has moved, to *)
(* the unit and per account, through payments that answer false            *)
(* (DividendPayingToken.sol:108-111) and calls of process() that revert.   *)
BooksMatchPayments == store.received = store.withdrawnDividends

(* The shares add up, and all that was ever credited to anybody, fractions *)
(* included, stays within what was distributed: the rounding of            *)
(* DividendPayingToken.sol:85 and the corrections of lines 172-184 never   *)
(* create rewards, however balances move between distributions.            *)
CreditWithinDistributed ==
    /\ store.totalSupply = SumFunction(store.balanceOf)
    /\ SumFunction([a \in Address |-> MagnifiedDividend(store, a)])
          <= Magnitude * store.totalDividendsDistributed

(* As long as no more was distributed than was sent to the tracker, it     *)
(* holds enough to pay everyone at once.                                   *)
Solvent ==
    store.totalDividendsDistributed <= Sent(store) =>
        SumFunction([a \in Address |-> withdrawableDividendOf(store, a)]) <= store.reserve

(* A call of process() whose gas lasts for as many turns as there are      *)
(* holders has, when it is about to return, left no holder that was due at *)
(* its start unpaid: wherever the cursor stood, also past the end of a list *)
(* that has shrunk since (lines 186-190).                                  *)
FullPassPaysEveryone ==
    ~Idle /\ frame.left = 0 /\ frame.budget = MapSize(store.tokenHoldersMap)
        /\ "answers false" \notin TransferFailures =>
    \A a \in Holders(store) :
        CanAutoClaim(frame.saved, a, clock) => withdrawableDividendOf(store, a) = 0

(* iterationsUntilProcessed of getAccount (lines 98-110) is the number of  *)
(* turns after which the loop reaches the account.                         *)
TurnsToReach(s, account) ==
    LET size == MapSize(s.tokenHoldersMap)
        after[n \in 0 .. size] == IF n = 0 THEN s.lastProcessedIndex
                                  ELSE NextIndex(after[n - 1], size)
    IN  CHOOSE n \in 1 .. size :
            /\ after[n] = GetIndexOfKey(s.tokenHoldersMap, account)
            /\ \A m \in 1 .. n - 1 : after[m] # after[n]

IterationsPredicted ==
    \A a \in Holders(store) :
        IterationsUntilProcessed(store, a) = TurnsToReach(store, a)

(* It is right as long as the list has not shrunk below the cursor.        *)
IterationsPredictedInRange ==
    store.lastProcessedIndex < MapSize(store.tokenHoldersMap) => IterationsPredicted

(* What withdrawableDividendOf reports can be withdrawn, as its comment    *)
(* says (DividendPayingToken.sol:127-129): the tracker holds that much.    *)
WithdrawableIsHeld ==
    \A a \in Address : withdrawableDividendOf(store, a) <= store.reserve

----------------------------------------------------------------------------
(* What an account has earned never shrinks, and grows only in a           *)
(* distribution and only while it has shares: balance changes, exclusion,  *)
(* payments and reverted calls leave it alone to the last fraction         *)
(* (DividendPayingToken.sol:40-50).                                        *)
EarningsStep ==
    \A a \in Address :
        \/ MagnifiedDividend(store', a) = MagnifiedDividend(store, a)
        \/ /\ MagnifiedDividend(store', a) > MagnifiedDividend(store, a)
           /\ store'.totalDividendsDistributed > store.totalDividendsDistributed
           /\ a \in Holders(store)

EarnedOnlyByDistribution == [][EarningsStep]_vars

(* A payment settles the account: afterwards it has received all it has    *)
(* earned, also when setBalance changes its shares in the same call.       *)
PaymentStep ==
    \A a \in Address :
        store'.received[a] > store.received[a] =>
            store'.received[a] = accumulativeDividendOf(store', a)

PaymentsSettle == [][PaymentStep]_vars

(* The loop of process() pays an account only when claimWait has passed    *)
(* since it was last paid by the controller, and pays nobody twice in one  *)
(* call; a call that reverts has paid nobody (lines 145-150, 194).         *)
LoopStep ==
    \A a \in Address :
        /\ ~Idle /\ store'.received[a] > store.received[a] =>
              /\ clock - frame.saved.lastClaimTimes[a] >= store.claimWait
              /\ store.received[a] = frame.saved.received[a]
        /\ ~Idle /\ frame'.caller = "none" /\ store'.received[a] # frame.saved.received[a] =>
              frame.left = 0 /\ store'.lastProcessedIndex = frame.cursor

LoopPaysWhoIsDue == [][LoopStep]_vars

(* Once the list of holders and claimWait stay as they are, nobody stays   *)
(* due and owed for ever: only a payment can end that, and it comes,       *)
(* because the cursor each call writes back (line 211) makes calls with    *)
(* gas for a single turn share the work.                                   *)
DueAndOwed(a) == /\ a \in Holders(store)
                 /\ CanAutoClaim(store, a, clock)
                 /\ withdrawableDividendOf(store, a) > 0

ListStays == [][/\ store'.tokenHoldersMap.keys = store.tokenHoldersMap.keys
                /\ store'.claimWait = store.claimWait]_vars

EveryHolderIsPaid ==
    <>ListStays => \A a \in Address : DueAndOwed(a) ~> ~DueAndOwed(a)

----------------------------------------------------------------------------
(* The promise to each holder, as DividendLedger states it.  A call of     *)
(* process() counts when it returns: until then its payments can be undone. *)
Committed == IF Idle THEN store ELSE frame.saved

Promise == INSTANCE DividendLedger
              WITH earned <- [a \in Address |-> accumulativeDividendOf(Committed, a)],
                   paid   <- Committed.received

KeepsThePromise == Promise!Spec
=============================================================================
