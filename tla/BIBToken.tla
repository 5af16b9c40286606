------------------------------ MODULE BIBToken ------------------------------
(***************************************************************************)
(* contracts/token/BIBToken.sol, with contracts/token/FreezeToken.sol and  *)
(* the dividend tracker it calls: a token whose transfers take fees, swap  *)
(* the fees they have collected for rewards, report the new balances to    *)
(* the tracker and run a part of its payment loop.                         *)
(*                                                                         *)
(* bib is the token's storage (with the freeze contract's, and what the    *)
(* reward token holds for the token and answers each account), store the   *)
(* tracker's, clock is block.timestamp.  A transaction is one action: the  *)
(* only code outside the two contracts that it runs and that calls back is *)
(* the router, whose nested transfers are part of SwapBack.                *)
(*                                                                         *)
(* Operators take and give worlds, w = [bib |-> ..., store |-> ...]; as in *)
(* DividendPayingToken, FReverts says when the call F reverts.  how is     *)
(* what the caller and the outside decide about one transfer: how many of  *)
(* its three try statements have enough gas, the turns of process() its    *)
(* gas is good for, and the rewards a swap yields and whether the reward   *)
(* token moves them on to the tracker.                                     *)
(***************************************************************************)
EXTENDS TrackerContract

CONSTANTS
    Token, DeadAddress, Pair, Owner,   \* the addresses with a role
    InitialSupply,     \* line 49
    Hundred,           \* the denominator of the fees, lines 436-437
    MaxFee,            \* the sum of the fees allowed, line 284
    InitialFees,       \* lines 108-110
    InitialThreshold,  \* swapTokensAtAmount, line 111
    StartTime,         \* block.timestamp when the token is initialized
    Refusals,          \* how the reward token may refuse to pay an account
    GasRunsOut,        \* whether the try statements may run out of gas
    \* bounds of the inputs, for TLC
    Amounts,           \* of transfers
    Turns,             \* the turns of process() that a transfer pays for
    SwapRewards,       \* the rewards that a swap yields
    MaxReward,         \* the rewards ever swapped
    FeeChoices, Thresholds, ClaimWaits,   \* arguments of the owner's setters
    Freezable, FreezeAmounts, MaxFreeze,  \* whose tokens are frozen, and how many
    Switches,          \* what the owner sets its switches to, after the launch
    Listed,            \* the addresses the owner puts on and off the lists
    FeeListed,         \* those it puts on and off the fee white lists
    Refusable,         \* the accounts the reward token may refuse to pay
    MaxTime            \* the last block.timestamp

FeeRates == [rewardFee : Nat, blackholeFee : Nat, liquidityFee : Nat]

ASSUME BIBAssumptions ==
    /\ {Token, DeadAddress, Pair, Owner} \subseteq Address
    /\ Token \notin {DeadAddress, Pair, Owner} /\ DeadAddress \notin {Pair, Owner}
    /\ Pair # Owner
    /\ InitialSupply \in Nat /\ Hundred \in Nat \ {0} /\ MaxFee \in 0 .. Hundred
    /\ InitialFees \in FeeRates /\ FeeChoices \subseteq FeeRates
    /\ InitialFees.rewardFee + InitialFees.blackholeFee + InitialFees.liquidityFee <= MaxFee
    /\ InitialThreshold \in Nat /\ Thresholds \subseteq Nat
    /\ StartTime \in Nat /\ MaxTime \in Nat
    /\ Refusals \subseteq {"answers false", "reverts"} /\ GasRunsOut \in BOOLEAN
    /\ Amounts \subseteq Nat /\ Turns \subseteq Nat /\ SwapRewards \subseteq Nat
    /\ MaxReward \in Nat /\ ClaimWaits \subseteq Nat
    /\ Freezable \subseteq Address /\ FreezeAmounts \subseteq Nat /\ MaxFreeze \in Nat
    /\ Switches \subseteq BOOLEAN /\ Refusable \subseteq Address
    /\ Listed \subseteq Address /\ FeeListed \subseteq Address

VARIABLES bib, store, clock

vars == << bib, store, clock >>

(* Lines 18-62, the inherited ERC20 and pause, FreezeToken.sol:7, and the  *)
(* reward token: rewards is the token's balance in it, answers what it     *)
(* would answer a payout to each account.                                  *)
BIBStorage ==
    [balanceOf                 : [Address -> Nat],
     fees                      : FeeRates,
     swapTokensAtAmount        : Nat,
     paused                    : BOOLEAN,
     allowTransfer             : BOOLEAN,
     swapEnabled               : BOOLEAN,
     swapping                  : BOOLEAN,
     isFromWhiteList           : SUBSET Address,
     isToWhiteList             : SUBSET Address,
     noProcessList             : SUBSET Address,
     automatedMarketMakerPairs : SUBSET Address,
     freezeToken               : BOOLEAN,
     freezeMap                 : [Address -> Nat],
     rewards                   : Nat,
     answers                   : [Address -> Results]]

(* initialize, lines 95-143: the supply is the owner's, and nothing can be *)
(* transferred yet.  The tracker's own address, which is excluded as well, *)
(* is not modelled.                                                        *)
InitialExclusions == {Token, Owner, DeadAddress, Pair}

Init ==
    /\ bib = [balanceOf                 |-> [a \in Address |->
                                               IF a = Owner THEN InitialSupply ELSE 0],
              fees                      |-> InitialFees,
              swapTokensAtAmount        |-> InitialThreshold,
              paused                    |-> FALSE,
              allowTransfer             |-> FALSE,
              swapEnabled               |-> TRUE,
              swapping                  |-> FALSE,
              isFromWhiteList           |-> {Owner, Token},
              isToWhiteList             |-> {DeadAddress},
              noProcessList             |-> {},
              automatedMarketMakerPairs |-> {Pair},
              freezeToken               |-> FALSE,
              freezeMap                 |-> [a \in Address |-> 0],
              rewards                   |-> 0,
              answers                   |-> [a \in Address |-> "moves"]]
    /\ store = [InitialStorage EXCEPT
                  !.cntr = "BIBToken",
                  !.excludedFromDividends = [a \in Address |-> a \in InitialExclusions]]
    /\ clock = StartTime

World == [bib |-> bib, store |-> store]

Becomes(w) == bib' = w.bib /\ store' = w.store

----------------------------------------------------------------------------
(* The calls of the tracker that may revert without the transaction doing  *)
(* so.  A payout the tracker cannot cover reverts in the reward token.     *)
Answer(b, s, account) ==
    IF b.answers[account] = "moves" /\ withdrawableDividendOf(s, account) > s.reserve
    THEN "reverts"
    ELSE b.answers[account]

(* Lines 445 and 446.                                                      *)
Report(w, account, now) ==
    LET balance == w.bib.balanceOf[account]
        result  == Answer(w.bib, SharesFollow(w.store, account, balance), account)
    IN  IF SetBalanceReverts(w.store, account, balance, result) THEN w
        ELSE [w EXCEPT !.store = SetBalance(@, account, balance, result, now)]

(* Mutant: the recipient is forgotten.                                     *)
ReportSender(w, from, to, tries, now) ==
    IF tries >= 1 THEN Report(w, from, now) ELSE w

ReportBoth(w, from, to, tries, now) ==
    LET first == IF tries >= 1 THEN Report(w, from, now) ELSE w
    IN  IF tries >= 2 THEN Report(first, to, now) ELSE first

(* process(), TokenDividendTracker.sol:169-214, called by the token: what  *)
(* TokenDividendTracker does turn by turn, in one step.                    *)
Turn(b, call, now) ==
    LET cursor  == NextIndex(call.cursor, MapSize(call.store.tokenHoldersMap))
        account == GetKeyAtIndex(call.store.tokenHoldersMap, cursor)
        result  == Answer(b, call.store, account)
        reverts == ProcessAccountReverts(call.store, account, result)
    IN  IF call.reverted \/ ~CanAutoClaim(call.store, account, now)
        THEN [call EXCEPT !.cursor = cursor]
        ELSE [cursor   |-> cursor,
              store    |-> IF reverts THEN call.store
                           ELSE ProcessAccount(call.store, account, result, now),
              reverted |-> reverts]

ProcessCall(b, s, limit, now) ==
    LET size  == MapSize(s.tokenHoldersMap)
        turns == IF limit < size THEN limit ELSE size
        after[n \in 0 .. turns] ==
            IF n = 0
            THEN [cursor |-> s.lastProcessedIndex, store |-> s, reverted |-> FALSE]
            ELSE Turn(b, after[n - 1], now)
    IN  after[turns]

Process(w, turns, now) ==
    LET call == ProcessCall(w.bib, w.store, turns, now)
    IN  IF call.reverted THEN w
        ELSE [w EXCEPT !.store = [call.store EXCEPT !.lastProcessedIndex = call.cursor]]

----------------------------------------------------------------------------
(* _checkFreezeAmount, lines 387-393; an underflow of line 392 reverts.    *)

(* Mutant: the frozen amount must be there, and may be transferred.        *)
FreezeAllowsBalance(b, account, amount) ==
    b.freezeToken => /\ b.balanceOf[account] >= b.freezeMap[account]
                     /\ b.balanceOf[account] >= amount

FreezeAllows(b, account, amount) ==
    b.freezeToken => b.balanceOf[account] - b.freezeMap[account] >= amount

(* super._transfer: the balances are read one after the other.             *)

Move(b, from, to, amount) ==
    LET paid == [b.balanceOf EXCEPT ![from] = @ - amount]
    IN  [b EXCEPT !.balanceOf = [paid EXCEPT ![to] = @ + amount]]

(* Lines 428-443.                                                          *)

(* Mutant: only the white lists are looked at.                             *)
FeesDueNested(b, from, to) ==
    from \notin b.isFromWhiteList /\ to \notin b.isToWhiteList

FeesDue(b, from, to) ==
    ~b.swapping /\ from \notin b.isFromWhiteList /\ to \notin b.isToWhiteList

Pay(b, from, to, amount) ==
    LET fees   == (amount * (b.fees.liquidityFee + b.fees.rewardFee)) \div Hundred
        burned == (amount * b.fees.blackholeFee) \div Hundred
    IN  IF FeesDue(b, from, to)
        THEN Move(Move(Move(b, from, DeadAddress, burned), from, Token, fees),
                  from, to, amount - fees - burned)
        ELSE Move(b, from, to, amount)

(* Lines 428-455: what a transfer does, a nested one in particular, apart  *)
(* from swapping.                                                          *)

(* Mutant: a nested transfer runs the loop as well.                        *)
DeliverAndProcess(w, from, to, amount, how, now) ==
    LET paid == [w EXCEPT !.bib = Pay(@, from, to, amount)]
        told == ReportBoth(paid, from, to, how.tries, now)
    IN  IF how.tries = 3 /\ to \notin w.bib.noProcessList
        THEN Process(told, how.turns, now)
        ELSE told

Deliver(w, from, to, amount, how, now) ==
    LET paid == [w EXCEPT !.bib = Pay(@, from, to, amount)]
        told == ReportBoth(paid, from, to, how.tries, now)
    IN  IF how.tries = 3 /\ ~w.bib.swapping /\ to \notin w.bib.noProcessList
        THEN Process(told, how.turns, now)
        ELSE told

----------------------------------------------------------------------------
(* The swap, lines 411-426 with 458-525 and 536-545.                       *)
SwapDue(b, to) ==
    /\ b.swapEnabled /\ ~b.swapping /\ to \notin b.noProcessList
    /\ b.balanceOf[Token] >= b.swapTokensAtAmount

(* The three amounts the router takes from the token: the half of the      *)
(* liquidity share that is sold, the other half, and the rest, sold for    *)
(* rewards (lines 418, 423, 475, 476).                                     *)
Parts(b) ==
    LET liquid == (b.swapTokensAtAmount * b.fees.liquidityFee)
                      \div (b.fees.liquidityFee + b.fees.rewardFee)
    IN  << liquid \div 2, liquid - liquid \div 2, b.swapTokensAtAmount - liquid >>

(* The router refuses to swap or to add nothing (external), and each of    *)
(* its nested transfers checks what the token has frozen.                  *)
SwapReverts(w, how) ==
    \/ w.bib.fees.liquidityFee + w.bib.fees.rewardFee = 0
    \/ \E i \in 1 .. 3 : Parts(w.bib)[i] = 0
    \/ ~FreezeAllows(w.bib, Token, w.bib.swapTokensAtAmount)
    \/ how.success /\ DistributeReverts(w.store, w.bib.rewards + how.got)

(* The rewards a swap has yielded, sent on with any left from before and   *)
(* distributed, or kept when the reward token does not move them           *)
(* (lines 538-544).                                                        *)

(* Mutant: they are distributed whether they have moved or not.            *)
SendOnUnchecked(w, got, success) ==
    LET dividends == w.bib.rewards + got
        moved     == IF success THEN dividends ELSE 0
    IN  [w EXCEPT !.bib.rewards = dividends - moved,
                  !.store = IF @.totalSupply = 0 THEN @
                            ELSE Distribute([@ EXCEPT !.reserve = @ + moved], dividends)]

SendOn(w, got, success) ==
    LET dividends == w.bib.rewards + got
    IN  IF success
        THEN [w EXCEPT !.bib.rewards = 0,
                       !.store = Distribute([w.store EXCEPT !.reserve = @ + dividends],
                                            dividends)]
        ELSE [w EXCEPT !.bib.rewards = dividends]

(* Mutant: the flag is left up.                                            *)
SwapBackNoReset(w, how, now) ==
    LET sell(x, i) == Deliver(x, Token, Pair, Parts(w.bib)[i], how, now)
        sold == sell(sell(sell([w EXCEPT !.bib.swapping = TRUE], 1), 2), 3)
    IN  SendOn(sold, how.got, how.success)

SwapBack(w, how, now) ==
    LET sell(x, i) == Deliver(x, Token, Pair, Parts(w.bib)[i], how, now)
        sold == sell(sell(sell([w EXCEPT !.bib.swapping = TRUE], 1), 2), 3)
    IN  [SendOn(sold, how.got, how.success) EXCEPT !.bib.swapping = FALSE]

----------------------------------------------------------------------------
(* _transfer, lines 395-456.                                               *)
Swapped(w, to, how, now) ==
    IF SwapDue(w.bib, to) THEN SwapBack(w, how, now) ELSE w

TransferOf(w, from, to, amount, how, now) ==
    IF amount = 0 THEN w
    ELSE Deliver(Swapped(w, to, how, now), from, to, amount, how, now)

(* Mutant: a revert of setBalance is not caught.                           *)
TransferRevertsUncaught(w, from, to, amount, how, now) ==
    \/ ~w.bib.allowTransfer \/ w.bib.paused
    \/ ~FreezeAllows(w.bib, from, amount)
    \/ /\ amount > 0
       /\ \/ SwapDue(w.bib, to) /\ SwapReverts(w, how)
          \/ Swapped(w, to, how, now).bib.balanceOf[from] < amount
          \/ LET s == Swapped(w, to, how, now).store
             IN  WithdrawReverts(s, from, Answer(w.bib, s, from))

TransferReverts(w, from, to, amount, how, now) ==
    \/ ~w.bib.allowTransfer \/ w.bib.paused
    \/ ~FreezeAllows(w.bib, from, amount)
    \/ /\ amount > 0
       /\ \/ SwapDue(w.bib, to) /\ SwapReverts(w, how)
          \/ Swapped(w, to, how, now).bib.balanceOf[from] < amount

(* What may be decided about a transfer; nothing about a swap if none is   *)
(* due.                                                                    *)
Hows(to) ==
    LET swap == SwapDue(bib, to)
    IN  [tries   : IF GasRunsOut THEN 0 .. 3 ELSE {3},
         turns   : Turns,
         got     : IF swap THEN SwapRewards ELSE {0},
         success : IF swap THEN BOOLEAN ELSE {TRUE}]

(* transfer, and transferFrom with its allowance left out: nobody acts for *)
(* the token itself or for the dead address.                               *)
Transfer(from, to, amount, how) ==
    /\ from \notin {Token, DeadAddress}
    /\ ~TransferReverts(World, from, to, amount, how, clock)
    /\ LET after == TransferOf(World, from, to, amount, how, clock)
       IN  /\ Sent(after.store) + after.bib.rewards <= MaxReward
           /\ Becomes(after)
    /\ UNCHANGED clock

----------------------------------------------------------------------------
(* The owner's switches and rates: lines 145-151, 268-285, 379-385.  The   *)
(* gas for process() is in how.                                            *)
Pause(value) ==
    /\ bib.paused # value
    /\ bib' = [bib EXCEPT !.paused = value]
    /\ UNCHANGED << store, clock >>

SetAllowTransfer(value) ==
    /\ bib' = [bib EXCEPT !.allowTransfer = value]
    /\ UNCHANGED << store, clock >>

SetSwapEnabled(value) ==
    /\ bib' = [bib EXCEPT !.swapEnabled = value]
    /\ UNCHANGED << store, clock >>

SetSellFee(fees) ==
    /\ fees.rewardFee + fees.blackholeFee + fees.liquidityFee <= MaxFee
    /\ bib' = [bib EXCEPT !.fees = fees]
    /\ UNCHANGED << store, clock >>

UpdateSwapTokensAtAmount(newValue) ==
    /\ newValue # bib.swapTokensAtAmount
    /\ bib' = [bib EXCEPT !.swapTokensAtAmount = newValue]
    /\ UNCHANGED << store, clock >>

(* The owner's lists: lines 202-206 and 223-266.  Loops over several       *)
(* addresses are several calls here.                                       *)
Put(list, account, value) == IF value THEN list \union {account} ELSE list \ {account}

SetFeeWhiteList(account, excluded, isFrom) ==
    /\ IF isFrom
       THEN /\ (account \in bib.isFromWhiteList) # excluded
            /\ bib' = [bib EXCEPT !.isFromWhiteList = Put(@, account, excluded)]
       ELSE /\ (account \in bib.isToWhiteList) # excluded
            /\ bib' = [bib EXCEPT !.isToWhiteList = Put(@, account, excluded)]
    /\ UNCHANGED << store, clock >>

SetNoProcessList(account, noProcess) ==
    /\ (account \in bib.noProcessList) # noProcess
    /\ bib' = [bib EXCEPT !.noProcessList = Put(@, account, noProcess)]
    /\ UNCHANGED << store, clock >>

(* Mutant: the pair keeps its shares.                                      *)
SetPairOnly(pair, value) ==
    /\ pair # Pair
    /\ (pair \in bib.automatedMarketMakerPairs) # value
    /\ bib' = [bib EXCEPT !.automatedMarketMakerPairs = Put(@, pair, value)]
    /\ UNCHANGED << store, clock >>

SetAutomatedMarketMakerPair(pair, value) ==
    /\ pair # Pair
    /\ (pair \in bib.automatedMarketMakerPairs) # value
    /\ value => ~ExcludeReverts(store, pair)
    /\ bib' = [bib EXCEPT !.automatedMarketMakerPairs = Put(@, pair, value)]
    /\ store' = IF value THEN Exclude(store, pair) ELSE store
    /\ UNCHANGED clock

AddExcludeFromDividends(account) ==
    /\ ~ExcludeReverts(store, account)
    /\ store' = Exclude(store, account)
    /\ UNCHANGED << bib, clock >>

(* setFreezeTokenAddress, lines 374-377, and FreezeToken.sol:33-39.        *)
SetFreezeTokenAddress ==
    /\ bib' = [bib EXCEPT !.freezeToken = TRUE]
    /\ UNCHANGED << store, clock >>

AddFreezeToken(account, amount) ==
    /\ bib.freezeMap[account] + amount <= MaxFreeze
    /\ bib' = [bib EXCEPT !.freezeMap[account] = @ + amount]
    /\ UNCHANGED << store, clock >>

(* What goes straight to the tracker: lines 287-289 and 317-324, and       *)
(* withdrawDividend (DividendPayingToken.sol:95-97), called by the holder. *)
UpdateClaimWait(newClaimWait) ==
    /\ ~UpdateClaimWaitReverts(store, newClaimWait)
    /\ store' = [store EXCEPT !.claimWait = newClaimWait]
    /\ UNCHANGED << bib, clock >>

ProcessDividendTracker(turns) ==
    /\ ~ProcessCall(bib, store, turns, clock).reverted
    /\ Becomes(Process(World, turns, clock))
    /\ UNCHANGED clock

Claim(account) ==
    LET result == Answer(bib, store, account)
    IN  /\ ~ProcessAccountReverts(store, account, result)
        /\ store' = ProcessAccount(store, account, result, clock)
        /\ UNCHANGED << bib, clock >>

WithdrawDividend(account) ==
    LET result == Answer(bib, store, account)
    IN  /\ ~WithdrawReverts(store, account, result)
        /\ store' = Withdraw(store, account, result)
        /\ UNCHANGED << bib, clock >>

(* External: the reward token changes its mind about an account, and the   *)
(* next block has a later timestamp.                                       *)
RewardTokenAnswers(account, answer) ==
    /\ bib' = [bib EXCEPT !.answers[account] = answer]
    /\ UNCHANGED << store, clock >>

Tick == /\ clock < MaxTime
        /\ clock' = clock + 1
        /\ UNCHANGED << bib, store >>

Next ==
    \/ \E from, to \in Address, amount \in Amounts : \E how \in Hows(to) :
          Transfer(from, to, amount, how)
    \/ \E value \in BOOLEAN :
          \/ value \in {TRUE} \union Switches /\ SetAllowTransfer(value)
          \/ value \in Switches /\ (Pause(value) \/ SetSwapEnabled(value))
          \/ \E account \in FeeListed, isFrom \in BOOLEAN :
                SetFeeWhiteList(account, value, isFrom)
          \/ \E account \in Listed :
                \/ SetNoProcessList(account, value)
                \/ SetAutomatedMarketMakerPair(account, value)
    \/ \E fees \in FeeChoices : SetSellFee(fees)
    \/ \E newValue \in Thresholds : UpdateSwapTokensAtAmount(newValue)
    \/ \E newClaimWait \in ClaimWaits : UpdateClaimWait(newClaimWait)
    \/ \E account \in Listed : AddExcludeFromDividends(account)
    \/ Freezable # {} /\ SetFreezeTokenAddress
    \/ \E account \in Freezable, amount \in FreezeAmounts : AddFreezeToken(account, amount)
    \/ \E turns \in Turns : ProcessDividendTracker(turns)
    \/ \E account \in Address : Claim(account) \/ WithdrawDividend(account)
    \/ \E account \in Refusable, answer \in {"moves"} \union Refusals :
          RewardTokenAnswers(account, answer)
    \/ Tick

Spec == Init /\ [][Next]_vars

----------------------------------------------------------------------------
(* Every variable holds a value of its type; in particular no balance is   *)
(* ever negative, and between transactions no swap is in progress (lines   *)
(* 414 and 425), whatever nested transfers there were.                     *)
TypeOK ==
    /\ bib \in BIBStorage /\ ~bib.swapping
    /\ bib.fees.rewardFee + bib.fees.blackholeFee + bib.fees.liquidityFee <= MaxFee
    /\ store \in Storage /\ clock \in Nat

(* Whoever acts as a pair or has a role in the token, earns nothing: it is *)
(* excluded, has no shares and is in no list, also when it had been a      *)
(* holder before it became a pair (lines 131-134 and 257-264).             *)
PairsEarnNothing ==
    /\ ListFollowsShares(store)
    /\ \A a \in bib.automatedMarketMakerPairs \union InitialExclusions :
          store.excludedFromDividends[a]

(* The token only distributes rewards the tracker has received, also when  *)
(* an earlier swap's rewards could not be moved and are sent later (lines  *)
(* 538-544), so that the tracker can always pay everyone.                  *)
DividendsAreBacked ==
    /\ store.totalDividendsDistributed <= Sent(store)
    /\ SumFunction([a \in Address |-> withdrawableDividendOf(store, a)]) <= store.reserve

(* What the reward token would refuse to whom changes no transfer of BIB:  *)
(* it goes through, and leaves the same balances, exactly if it would with *)
(* a reward token that pays everybody (lines 445-455).                     *)
RefusalsChangeNoTransfer ==
    LET welcome == [World EXCEPT !.bib.answers = [a \in Address |-> "moves"]]
    IN  World # welcome =>
        \A from \in Address \ {Token, DeadAddress}, to \in Address, amount \in Amounts :
        \A how \in Hows(to) :
          LET refused == TransferReverts(World, from, to, amount, how, clock)
          IN  /\ refused <=> TransferReverts(welcome, from, to, amount, how, clock)
              /\ ~refused =>
                    TransferOf(World, from, to, amount, how, clock).bib.balanceOf =
                    TransferOf(welcome, from, to, amount, how, clock).bib.balanceOf

(* A transfer taxes its sender once or not at all, and with its swap sells *)
(* the pair the threshold or nothing, to the last token: whatever the      *)
(* lists and rates are set to, the nested transfers of the swap take no    *)
(* fee of their own (lines 411-443), and every balance changes by what the *)
(* one sale and the one tax come to, also when an account has two roles.   *)
Only(account, a, x) == IF a = account THEN x ELSE 0

Change(from, to, amount, a) ==
    LET taxed == from \notin bib.isFromWhiteList /\ to \notin bib.isToWhiteList
        share(rate) == IF taxed THEN (amount * rate) \div Hundred ELSE 0
        fees   == share(bib.fees.liquidityFee + bib.fees.rewardFee)
        burned == share(bib.fees.blackholeFee)
        sold   == IF amount > 0 /\ SwapDue(bib, to) THEN bib.swapTokensAtAmount ELSE 0
    IN  Only(to, a, amount - fees - burned) + Only(DeadAddress, a, burned)
            + Only(Pair, a, sold) + Only(Token, a, fees - sold) - Only(from, a, amount)

TaxedOnce ==
    \A from \in Address \ {Token, DeadAddress}, to \in Address, amount \in Amounts :
    \A how \in Hows(to) :
      ~TransferReverts(World, from, to, amount, how, clock) =>
        LET after == TransferOf(World, from, to, amount, how, clock)
        IN  \A a \in Address :
              after.bib.balanceOf[a] = bib.balanceOf[a] + Change(from, to, amount, a)

(* A transfer that swaps runs the payment loop once: apart from the        *)
(* accounts whose balances it reports, it pays no more holders than the    *)
(* turns it has gas for, whatever transfers are nested in it (lines        *)
(* 445-455).                                                               *)
ProcessedOnce ==
    \A from \in Address \ {Token, DeadAddress}, to \in Address, amount \in Amounts :
    SwapDue(bib, to) => \A how \in Hows(to) :
      ~TransferReverts(World, from, to, amount, how, clock) =>
        LET after == TransferOf(World, from, to, amount, how, clock).store
        IN  Cardinality({a \in Address \ {from, to} :
                            after.received[a] # store.received[a]}) <= how.turns

(* Whenever a transfer changes what an account holds, its shares follow,   *)
(* unless it is excluded or the reward token would not pay it (then the    *)
(* shares and the account's place in the list stay as they were, line 445).*)
SharesOf(balance) == IF balance >= MinBalance THEN balance ELSE 0

BalanceStep ==
    \A a \in Address :
        bib'.balanceOf[a] # bib.balanceOf[a] /\ ~store.excludedFromDividends[a] =>
            \/ store'.balanceOf[a] = SharesOf(bib'.balanceOf[a])
            \/ bib.answers[a] = "reverts" /\ store'.balanceOf[a] = store.balanceOf[a]

SharesFollowBalances == [][BalanceStep]_vars

(* No transfer takes an account below what it has frozen, fees and swaps   *)
(* included: tokens, once frozen and there, stay (lines 387-393, 403).     *)
FrozenStep ==
    \A a \in Address :
        bib.freezeToken /\ bib.balanceOf[a] >= bib.freezeMap[a] =>
            bib'.balanceOf[a] >= bib.freezeMap[a]

FrozenStaysFrozen == [][FrozenStep]_vars
=============================================================================
