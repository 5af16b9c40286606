---------------------- MODULE TokenDividendTrackerProofs ----------------------
(***************************************************************************)
(* What holds of TokenDividendTracker for every set of addresses, every    *)
(* scaling factor, every width of the words and every bound on the inputs. *)
(*                                                                         *)
(* The lemmas say what each operator does to a good storage; the inductive *)
(* invariant Inv says that the storage is good, that the storage a running *)
(* call of process() would fall back to is good, and how the two differ.   *)
(***************************************************************************)
EXTENDS TokenDividendTracker, TrackerContractTheorems

----------------------------------------------------------------------------
(* What a call of process() in progress has done so far: paid some         *)
(* accounts all they had earned, and stamped only those.                   *)
LoopOK ==
    ~Idle =>
      /\ store.tokenHoldersMap = frame.saved.tokenHoldersMap
      /\ store.claimWait = frame.saved.claimWait
      /\ MapSize(store.tokenHoldersMap) > 0
      /\ SameCredit(frame.saved, store)
      /\ \A a \in Address :
            \/ /\ store.received[a] = frame.saved.received[a]
               /\ store.lastClaimTimes[a] = frame.saved.lastClaimTimes[a]
            \/ store.received[a] = accumulativeDividendOf(frame.saved, a)

(* The inductive invariant.                                                *)
Inv == /\ StoreOK(store)
       /\ StoreOK(frame.saved)
       /\ clock \in Nat
       /\ frame \in Frames
       /\ LoopOK

(* The answers the tracker is modelled with are such.                      *)
LEMMA PayoutsAreCovered ==
  ASSUME NEW s \in Storage, NEW account \in Address, NEW result \in Payouts(s, account)
  PROVE  Covered(s, account, result)
<1>1. withdrawableDividendOf(s, account) \in Int /\ s.reserve \in Nat
  BY EarningsAreIntegers DEF withdrawableDividendOf, Storage
<1> QED  BY <1>1, TrackerAssumptions DEF Payouts, TransferResults, Covered

(* The steps outside of process(), by what they do to the storage.         *)
OutsideStep == /\ Idle
               /\ clock' \in Nat
               /\ UNCHANGED frame
               /\ StoreOK(store')
               /\ Earns(store, store') \/ Pays(store, store')

(* Every action but those of process() is such a step.                     *)
LEMMA OutsideActions ==
  ASSUME Inv, Next
  PROVE  \/ OutsideStep
         \/ \E caller \in Callers, turns \in 0 .. MapSize(store.tokenHoldersMap) :
               ProcessBegins(caller, turns)
         \/ ProcessTurn \/ ProcessReturns \/ ProcessReverts
<1> USE DEF Inv
<1>0. store \in Storage
  BY DEF StoreOK
<1>1. ASSUME NEW t \in Storage, SameBooks(store, t),
             Idle, store' = t, UNCHANGED frame, clock' \in Nat
      PROVE  OutsideStep
  <2>1. StoreOK(t) /\ Pays(store, t)
    BY <1>0, <1>1, SameBooksFacts
  <2> QED  BY <1>1, <2>1 DEF OutsideStep
<1>2. CASE SetController
  <2>1. [store EXCEPT !.cntr = "BIBToken"] \in Storage
    BY <1>0 DEF Storage
  <2>2. SameBooks(store, [store EXCEPT !.cntr = "BIBToken"])
    BY <1>0 DEF Storage, SameBooks
  <2> QED  BY <1>1, <1>2, <2>1, <2>2 DEF SetController
<1>3. ASSUME NEW wait \in ClaimWaits, UpdateClaimWait(wait)
      PROVE  OutsideStep
  <2>1. [store EXCEPT !.claimWait = wait] \in Storage
    BY <1>0, TrackerAssumptions DEF Storage
  <2>2. SameBooks(store, [store EXCEPT !.claimWait = wait])
    BY <1>0 DEF Storage, SameBooks
  <2> QED  BY <1>1, <1>3, <2>1, <2>2 DEF UpdateClaimWait
<1>4. ASSUME NEW amount \in OwnerAmounts, RewardArrives(amount)
      PROVE  OutsideStep
  <2>1. [store EXCEPT !.reserve = @ + amount] \in Storage
    BY <1>0, ReserveGrows, TrackerAssumptions
  <2>2. SameBooks(store, [store EXCEPT !.reserve = @ + amount])
    BY <1>0 DEF Storage, SameBooks
  <2> QED  BY <1>1, <1>4, <2>1, <2>2 DEF RewardArrives
<1>5. CASE Tick
  BY <1>0, <1>5 DEF Tick, OutsideStep, Pays, SameCredit
<1>6. ASSUME NEW account \in Address, ExcludeFromDividends(account)
      PROVE  OutsideStep
  <2>1. /\ Idle /\ UNCHANGED << clock, frame >>
        /\ ~ExcludeReverts(store, account)
        /\ store' = Exclude(store, account)
    BY <1>6 DEF ExcludeFromDividends
  <2>2. StoreOK(store') /\ SameCredit(store, store') /\ SamePayments(store, store')
    BY <2>1, ExcludeFacts
  <2> QED  BY <2>1, <2>2 DEF OutsideStep, Pays, SamePayments
<1>7. ASSUME NEW account \in Address, WithdrawDividend(account)
      PROVE  OutsideStep
  <2>1. PICK result \in Payouts(store, account) : store' = Withdraw(store, account, result)
    BY <1>7 DEF WithdrawDividend
  <2>2. StoreOK(store') /\ PaidOrNot(store, store', account)
    BY <1>0, <2>1, PayoutsAreCovered, WithdrawFacts
  <2>3. Pays(store, store')
    BY <1>0, <2>2, PaidOrNotPays
  <2> QED  BY <1>7, <2>2, <2>3 DEF WithdrawDividend, OutsideStep
<1>8. ASSUME NEW account \in Address, Claim(account)
      PROVE  OutsideStep
  <2>1. PICK result \in Payouts(store, account) :
           store' = ProcessAccount(store, account, result, clock)
    BY <1>8 DEF Claim
  <2>2. StoreOK(store') /\ PaidOrNot(store, store', account)
    BY <1>0, <2>1, PayoutsAreCovered, ProcessAccountFacts
  <2>3. Pays(store, store')
    BY <1>0, <2>2, PaidOrNotPays
  <2> QED  BY <1>8, <2>2, <2>3 DEF Claim, OutsideStep
<1>9. ASSUME NEW account \in Address, NEW newBalance \in Balances,
             ReportBalance(account, newBalance)
      PROVE  OutsideStep
  <2>1. PICK result \in Payouts(SharesFollow(store, account, newBalance), account) :
           /\ ~SetBalanceReverts(store, account, newBalance, result)
           /\ store' = SetBalance(store, account, newBalance, result, clock)
    BY <1>9 DEF ReportBalance
  <2>2. newBalance \in Nat
    BY TrackerAssumptions
  <2>3. StoreOK(store') /\ Pays(store, store')
    <3>1. ~store.excludedFromDividends[account] =>
             Covered(SharesFollow(store, account, newBalance), account, result)
      BY <2>1, <2>2, SharesFollowFacts, PayoutsAreCovered DEF SetBalanceReverts, StoreOK
    <3>2. clock \in Nat
      OBVIOUS
    <3> QED  BY <2>1, <2>2, <3>1, <3>2, SetBalanceFacts
  <2> QED  BY <1>9, <2>3 DEF ReportBalance, OutsideStep
<1>10. ASSUME NEW amount \in Amounts, SendDividends(amount)
       PROVE  OutsideStep
  <2> DEFINE funded == [store EXCEPT !.reserve = @ + amount]
  <2>1. /\ Idle /\ UNCHANGED << clock, frame >>
        /\ ~DistributeReverts(store, amount)
        /\ store' = Distribute(funded, amount)
    BY <1>10 DEF SendDividends
  <2>2. funded \in Storage /\ amount \in Nat
    BY <1>0, ReserveGrows, TrackerAssumptions
  <2>3. SameBooks(store, funded) /\ ~DistributeReverts(funded, amount)
    BY <1>0, <2>1 DEF Storage, SameBooks, DistributeReverts, PerShare
  <2>4. /\ funded.totalDividendsDistributed = store.totalDividendsDistributed
        /\ funded.received = store.received
        /\ \A a \in Address : MagnifiedDividend(funded, a) = MagnifiedDividend(store, a)
        /\ Holders(funded) = Holders(store)
    BY <1>0 DEF Storage, MagnifiedDividend, Holders
  <2> HIDE DEF funded
  <2>5. StoreOK(store') /\ Earns(funded, store')
    BY <1>0, <2>1, <2>2, <2>3, SameBooksFacts, DistributeFacts
  <2>6. Earns(store, store')
    BY <2>4, <2>5 DEF Earns
  <2> QED  BY <2>1, <2>5, <2>6 DEF OutsideStep
<1>11. ASSUME NEW amount \in OwnerAmounts, DistributeByHand(amount)
       PROVE  OutsideStep
  <2>1. amount \in Nat
    BY TrackerAssumptions
  <2>2. StoreOK(store') /\ Earns(store, store')
    BY <1>11, <2>1, DistributeFacts DEF DistributeByHand
  <2> QED  BY <1>11, <2>2 DEF DistributeByHand, OutsideStep
<1> QED
  BY <1>2, <1>3, <1>4, <1>5, <1>6, <1>7, <1>8, <1>9, <1>10, <1>11 DEF Next

(* The account under the cursor, which was due, is paid or owed nothing,   *)
(* unless the reward token answers false.                                  *)
PaidInTurn ==
    /\ CanAutoClaim(store, NextAccount, clock)
    /\ PaidOrNot(store, store', NextAccount)
    /\ "answers false" \notin TransferFailures =>
          withdrawableDividendOf(store', NextAccount) = 0
    /\ \A a \in Address : store'.received[a] = store.received[a] =>
                            store'.lastClaimTimes[a] = store.lastClaimTimes[a]

(* A turn of the loop (TokenDividendTracker.sol:185-209) leaves the storage *)
(* alone, or pays the account under the cursor.                            *)
LEMMA TurnFacts ==
  ASSUME Inv, ProcessTurn
  PROVE  /\ ~Idle /\ ~Idle' /\ UNCHANGED clock
         /\ frame' \in Frames /\ frame'.saved = frame.saved
         /\ NextAccount \in Address
         /\ StoreOK(store')
         /\ UNCHANGED store \/ PaidInTurn
         /\ CanAutoClaim(store, NextAccount, clock) => PaidInTurn
<1>1. ~Idle /\ UNCHANGED clock /\ frame.left > 0
  BY DEF ProcessTurn
<1>2. /\ frame \in Frames /\ clock \in Nat /\ StoreOK(store) /\ store \in Storage
      /\ MapSize(store.tokenHoldersMap) > 0
  BY <1>1 DEF Inv, LoopOK, StoreOK
<1> DEFINE size == MapSize(store.tokenHoldersMap)
           next == NextIndex(frame.cursor, size)
<1>3. size \in Nat /\ frame.cursor \in Nat /\ frame.left \in Nat
  <2>1. frame.cursor \in Nat /\ frame.left \in Nat
    BY <1>2 DEF Frames
  <2> QED  BY <1>2, <2>1, SizesAreNats
<1>4. next \in 0 .. size - 1
  BY <1>2, <1>3 DEF NextIndex
<1>5. NextAccount \in Address
  <2>1. store.tokenHoldersMap.keys \in Seq(Address)
    BY <1>2 DEF Storage, MapType
  <2>2. next + 1 \in 1 .. Len(store.tokenHoldersMap.keys)
    BY <1>3, <1>4 DEF MapSize
  <2> HIDE DEF next
  <2>3. store.tokenHoldersMap.keys[next + 1] \in Address
    BY <2>1, <2>2
  <2> QED  BY <2>3 DEF NextAccount, GetKeyAtIndex, next
<1>6. /\ frame' \in Frames
      /\ frame'.saved = frame.saved
      /\ frame'.caller = frame.caller
  <2>1. frame' = [frame EXCEPT !.left = frame.left - 1, !.cursor = next]
    BY <1>2 DEF ProcessTurn, Frames
  <2>2. frame.left - 1 \in Nat /\ next \in Nat
    BY <1>1, <1>3, <1>4
  <2> HIDE DEF next
  <2> QED  BY <1>2, <2>1, <2>2 DEF Frames
<1>7. CASE ~CanAutoClaim(store, NextAccount, clock)
  <2>1. UNCHANGED store
    BY <1>7 DEF ProcessTurn
  <2> QED  BY <1>1, <1>2, <1>5, <1>6, <1>7, <2>1 DEF Idle
<1>8. CASE CanAutoClaim(store, NextAccount, clock)
  <2>1. /\ CanAutoClaim(store, NextAccount, clock)
        /\ \E result \in Payouts(store, NextAccount) :
              /\ ~ProcessAccountReverts(store, NextAccount, result)
              /\ store' = ProcessAccount(store, NextAccount, result, clock)
    BY <1>8 DEF ProcessTurn
  <2>2. PICK result \in Payouts(store, NextAccount) :
           /\ ~ProcessAccountReverts(store, NextAccount, result)
           /\ store' = ProcessAccount(store, NextAccount, result, clock)
    BY <2>1
  <2> HIDE DEF NextAccount
  <2>3. /\ StoreOK(store')
        /\ PaidOrNot(store, store', NextAccount)
        /\ \A a \in Address : store'.received[a] = store.received[a] =>
                                store'.lastClaimTimes[a] = store.lastClaimTimes[a]
        /\ "answers false" \notin TransferFailures =>
              withdrawableDividendOf(store', NextAccount) = 0
    <3>1. Covered(store, NextAccount, result)
      BY <1>2, <1>5, <2>2, PayoutsAreCovered DEF StoreOK
    <3>2. ASSUME "answers false" \notin TransferFailures
          PROVE  result = "moves" \/ withdrawableDividendOf(store, NextAccount) = 0
      <4>1. result \in {"moves", "reverts"}
        BY <2>2, <3>2, TrackerAssumptions DEF Payouts, TransferResults
      <4>2. result = "reverts" => ~(withdrawableDividendOf(store, NextAccount) > 0)
        BY <2>2 DEF ProcessAccountReverts, WithdrawReverts
      <4>3. withdrawableDividendOf(store, NextAccount) \in Nat
        BY <1>2, <1>5, DueIsUnreceived
      <4> QED  BY <4>1, <4>2, <4>3
    <3>3. "answers false" \notin TransferFailures =>
              withdrawableDividendOf(store', NextAccount) = 0
      BY <1>2, <1>5, <2>2, <3>1, <3>2, PaymentSettles
    <3>4. /\ StoreOK(store')
          /\ PaidOrNot(store, store', NextAccount)
          /\ \A a \in Address : store'.received[a] = store.received[a] =>
                                  store'.lastClaimTimes[a] = store.lastClaimTimes[a]
      BY <1>2, <1>5, <2>2, <3>1, ProcessAccountFacts
    <3> QED  BY <3>3, <3>4
  <2> QED  BY <1>1, <1>5, <1>6, <2>1, <2>3 DEF Idle, PaidInTurn
<1> QED  BY <1>7, <1>8

(* The end of a call writes the cursor back and nothing else.              *)
LEMMA ReturnFacts ==
  ASSUME Inv, ProcessReturns
  PROVE  /\ ~Idle /\ Idle' /\ UNCHANGED clock /\ frame' = NoFrame
         /\ StoreOK(store') /\ SameBooks(store, store')
<1>1. ~Idle /\ UNCHANGED clock /\ frame' = NoFrame
  BY DEF ProcessReturns
<1>2. store \in Storage /\ frame.cursor \in Nat /\ StoreOK(store)
  BY DEF Inv, StoreOK, Frames
<1>3. store' = [store EXCEPT !.lastProcessedIndex = frame.cursor]
  BY DEF ProcessReturns
<1>4. store' \in Storage /\ SameBooks(store, store')
  BY <1>2, <1>3 DEF Storage, SameBooks
<1> QED  BY <1>1, <1>2, <1>4, SameBooksFacts DEF Idle, NoFrame

(* No frame is a frame.                                                    *)
LEMMA NoFrameIsAFrame == NoFrame \in Frames /\ StoreOK(NoFrame.saved)
<1>1. StoreOK(InitialStorage) /\ InitialStorage \in Storage
  BY InitialStorageOK DEF StoreOK
<1> QED  BY <1>1 DEF NoFrame, Frames

(* The invariant is inductive.                                             *)
LEMMA InvHoldsInitially == Init => Inv
<1> SUFFICES ASSUME Init PROVE Inv
  OBVIOUS
<1>1. store = InitialStorage /\ clock = StartTime /\ frame = NoFrame
  BY DEF Init
<1>2. Idle
  BY <1>1 DEF Idle, NoFrame
<1> QED  BY <1>1, <1>2, InitialStorageOK, NoFrameIsAFrame, TrackerAssumptions DEF Inv, LoopOK

(* Every step keeps the invariant.                                         *)
LEMMA InvIsPreserved == Inv /\ [Next]_vars => Inv'
<1> SUFFICES ASSUME Inv, [Next]_vars PROVE Inv'
  OBVIOUS
<1>1. CASE OutsideStep
  BY <1>1 DEF OutsideStep, Inv, LoopOK, Idle
<1>2. ASSUME NEW caller \in Callers, NEW turns \in 0 .. MapSize(store.tokenHoldersMap),
             ProcessBegins(caller, turns)
      PROVE  Inv'
  <2>1. UNCHANGED << store, clock >> /\ MapSize(store.tokenHoldersMap) > 0
    BY <1>2 DEF ProcessBegins
  <2>2. frame' = [caller |-> caller, budget |-> turns, left |-> turns,
                  cursor |-> store.lastProcessedIndex, saved |-> store]
    BY <1>2 DEF ProcessBegins
  <2>3. store \in Storage /\ store.lastProcessedIndex \in Nat
    BY DEF Inv, StoreOK, Storage
  <2>4. turns \in Nat /\ caller \in {"controller", "anyone"}
    <3>1. MapSize(store.tokenHoldersMap) \in Nat
      BY <2>3, SizesAreNats
    <3>2. turns \in Nat
      BY <3>1
    <3>3. caller \in {"controller", "anyone"}
      BY TrackerAssumptions
    <3> QED  BY <3>2, <3>3
  <2>5. frame' \in Frames /\ frame'.saved = store
    BY <2>2, <2>3, <2>4 DEF Frames
  <2>6. LoopOK'
    BY <2>1, <2>5 DEF LoopOK, SameCredit
  <2> QED  BY <2>1, <2>5, <2>6 DEF Inv
<1>3. CASE ProcessTurn
  <2>1. /\ ~Idle /\ ~Idle' /\ UNCHANGED clock
        /\ frame' \in Frames /\ frame'.saved = frame.saved
        /\ NextAccount \in Address
        /\ StoreOK(store')
        /\ UNCHANGED store \/ PaidInTurn
    BY <1>3, TurnFacts
  <2>2. LoopOK'
    <3>1. CASE UNCHANGED store
      BY <2>1, <3>1 DEF Inv, LoopOK
    <3>2. CASE PaidInTurn
      <4> DEFINE saved == frame.saved
      <4>1. /\ store.tokenHoldersMap = saved.tokenHoldersMap
            /\ store.claimWait = saved.claimWait
            /\ MapSize(store.tokenHoldersMap) > 0
            /\ SameCredit(saved, store)
            /\ \A a \in Address :
                  \/ /\ store.received[a] = saved.received[a]
                     /\ store.lastClaimTimes[a] = saved.lastClaimTimes[a]
                  \/ store.received[a] = accumulativeDividendOf(saved, a)
        BY <2>1 DEF Inv, LoopOK
      <4>2. /\ store'.tokenHoldersMap = store.tokenHoldersMap
            /\ store'.claimWait = store.claimWait
            /\ SameCredit(store, store')
        BY <3>2 DEF PaidInTurn, PaidOrNot
      <4>3. SameCredit(saved, store')
        BY <4>1, <4>2 DEF SameCredit
      <4>4. ASSUME NEW a \in Address
            PROVE  \/ /\ store'.received[a] = saved.received[a]
                      /\ store'.lastClaimTimes[a] = saved.lastClaimTimes[a]
                   \/ store'.received[a] = accumulativeDividendOf(saved, a)
        <5>1. accumulativeDividendOf(store, a) = accumulativeDividendOf(saved, a)
          BY <4>1 DEF SameCredit, accumulativeDividendOf
        <5>2. Pays(store, store')
          <6>1. store \in Storage
            BY DEF Inv, StoreOK
          <6> HIDE DEF NextAccount
          <6> QED  BY <2>1, <3>2, <6>1, PaidOrNotPays DEF PaidInTurn
        <5>3. CASE store'.received[a] = store.received[a]
          BY <3>2, <4>1, <5>3 DEF PaidInTurn
        <5>4. CASE store'.received[a] # store.received[a]
          BY <5>1, <5>2, <5>4 DEF Pays
        <5> QED  BY <5>3, <5>4
      <4> HIDE DEF saved
      <4>5. /\ store'.tokenHoldersMap = saved.tokenHoldersMap
            /\ store'.claimWait = saved.claimWait
            /\ MapSize(store'.tokenHoldersMap) > 0
        BY <4>1, <4>2
      <4> QED  BY <2>1, <4>3, <4>4, <4>5 DEF LoopOK, saved
    <3> QED  BY <2>1, <3>1, <3>2
  <2>3. StoreOK(frame'.saved) /\ clock' \in Nat
    BY <2>1 DEF Inv
  <2> QED  BY <2>1, <2>2, <2>3 DEF Inv
<1>4. CASE ProcessReturns
  BY <1>4, ReturnFacts, NoFrameIsAFrame DEF Inv, LoopOK
<1>5. CASE ProcessReverts
  <2>1. store' = frame.saved /\ frame' = NoFrame /\ UNCHANGED clock
    BY <1>5 DEF ProcessReverts
  <2>2. Idle'
    BY <2>1 DEF Idle, NoFrame
  <2> QED  BY <2>1, <2>2, NoFrameIsAFrame DEF Inv, LoopOK
<1>6. CASE UNCHANGED vars
  BY <1>6 DEF vars, Inv, LoopOK, Idle
<1> QED  BY <1>1, <1>2, <1>3, <1>4, <1>5, <1>6, OutsideActions

(* So it holds of every reachable state.                                   *)
LEMMA SpecKeepsInv == Spec => []Inv
  BY InvHoldsInitially, InvIsPreserved, PTL DEF Spec

----------------------------------------------------------------------------
(* The numbers of the storage, and of the storage a running call would     *)
(* fall back to, fit their words.                                          *)
NumbersOK == NumbersFit(store) /\ NumbersFit(frame.saved)

(* Every step keeps them: what a call writes it has checked, or is no more *)
(* than what it has read and checked.                                      *)
LEMMA NumbersStayWords == Inv /\ NumbersOK /\ [Next]_vars => NumbersOK'
<1> SUFFICES ASSUME Inv, NumbersOK, [Next]_vars PROVE NumbersOK'
  OBVIOUS
<1>1. /\ store \in Storage /\ StoreOK(store) /\ clock \in Nat
      /\ NumbersFit(store) /\ NumbersFit(frame.saved)
  BY DEF Inv, StoreOK, NumbersOK
<1>2. ASSUME SameNumbers(store, store'), frame'.saved = frame.saved
      PROVE  NumbersOK'
  BY <1>1, <1>2, SameNumbersFit DEF NumbersOK
<1>3. CASE SetController
  BY <1>1, <1>2, <1>3 DEF SetController, SameNumbers, Storage
<1>4. ASSUME NEW wait \in ClaimWaits, UpdateClaimWait(wait)
      PROVE  NumbersOK'
  BY <1>1, <1>2, <1>4 DEF UpdateClaimWait, SameNumbers, Storage
<1>5. ASSUME NEW amount \in OwnerAmounts, RewardArrives(amount)
      PROVE  NumbersOK'
  BY <1>1, <1>2, <1>5 DEF RewardArrives, SameNumbers, Storage
<1>6. CASE Tick
  BY <1>2, <1>6 DEF Tick, SameNumbers
<1>7. ASSUME NEW account \in Address, ExcludeFromDividends(account)
      PROVE  NumbersOK'
  BY <1>1, <1>7, ExcludeFit DEF ExcludeFromDividends, NumbersOK
<1>8. ASSUME NEW account \in Address, WithdrawDividend(account)
      PROVE  NumbersOK'
  <2>1. PICK result \in Payouts(store, account) :
           /\ ~WithdrawReverts(store, account, result)
           /\ store' = Withdraw(store, account, result)
    BY <1>8 DEF WithdrawDividend
  <2>2. NumbersFit(store')
    BY <1>1, <2>1, PayoutsAreCovered, WithdrawFits
  <2> QED  BY <1>1, <1>8, <2>2 DEF WithdrawDividend, NumbersOK
<1>9. ASSUME NEW account \in Address, NEW result \in Payouts(store, account),
             ~ProcessAccountReverts(store, account, result),
             store' = ProcessAccount(store, account, result, clock),
             frame'.saved = frame.saved
      PROVE  NumbersOK'
  <2>1. NumbersFit(store')
    BY <1>1, <1>9, PayoutsAreCovered, WithdrawFits DEF ProcessAccountReverts
  <2> QED  BY <1>1, <1>9, <2>1 DEF NumbersOK
<1>10. ASSUME NEW account \in Address, Claim(account)
       PROVE  NumbersOK'
  BY <1>9, <1>10 DEF Claim
<1>11. ASSUME NEW account \in Address, NEW newBalance \in Balances,
              ReportBalance(account, newBalance)
       PROVE  NumbersOK'
  <2>1. PICK result \in Payouts(SharesFollow(store, account, newBalance), account) :
           /\ ~SetBalanceReverts(store, account, newBalance, result)
           /\ store' = SetBalance(store, account, newBalance, result, clock)
    BY <1>11 DEF ReportBalance
  <2>2. newBalance \in Nat
    BY TrackerAssumptions
  <2>3. ~store.excludedFromDividends[account] =>
           Covered(SharesFollow(store, account, newBalance), account, result)
    BY <1>1, <2>1, <2>2, SharesFollowFacts, PayoutsAreCovered DEF SetBalanceReverts, StoreOK
  <2>4. NumbersFit(store')
    BY <1>1, <2>1, <2>2, <2>3, SetBalanceFits
  <2> QED  BY <1>1, <1>11, <2>4 DEF ReportBalance, NumbersOK
<1>12. ASSUME NEW amount \in Amounts, SendDividends(amount)
       PROVE  NumbersOK'
  <2> DEFINE funded == [store EXCEPT !.reserve = @ + amount]
  <2>1. /\ UNCHANGED frame
        /\ ~DistributeReverts(store, amount)
        /\ store' = Distribute(funded, amount)
    BY <1>12 DEF SendDividends
  <2>2. funded \in Storage /\ amount \in Nat
    BY <1>1, ReserveGrows, TrackerAssumptions
  <2>3. SameNumbers(store, funded) /\ ~DistributeReverts(funded, amount)
    BY <1>1, <2>1 DEF Storage, SameNumbers, DistributeReverts, PerShare
  <2> HIDE DEF funded
  <2>4. NumbersFit(store')
    BY <1>1, <2>1, <2>2, <2>3, SameNumbersFit, DistributionFits
  <2> QED  BY <1>1, <2>1, <2>4 DEF NumbersOK
<1>13. ASSUME NEW amount \in OwnerAmounts, DistributeByHand(amount)
       PROVE  NumbersOK'
  <2>1. amount \in Nat
    BY TrackerAssumptions
  <2>2. NumbersFit(store')
    BY <1>1, <1>13, <2>1, DistributionFits DEF DistributeByHand
  <2> QED  BY <1>1, <1>13, <2>2 DEF DistributeByHand, NumbersOK
<1>14. ASSUME NEW caller \in Callers, NEW turns \in 0 .. MapSize(store.tokenHoldersMap),
              ProcessBegins(caller, turns)
       PROVE  NumbersOK'
  <2>1. store' = store /\ frame'.saved = store
    BY <1>14 DEF ProcessBegins
  <2> QED  BY <1>1, <2>1 DEF NumbersOK
<1>15. CASE ProcessTurn
  <2>1. frame'.saved = frame.saved /\ NextAccount \in Address
    BY <1>15, TurnFacts
  <2>2. CASE CanAutoClaim(store, NextAccount, clock)
    <3>1. PICK result \in Payouts(store, NextAccount) :
             /\ ~ProcessAccountReverts(store, NextAccount, result)
             /\ store' = ProcessAccount(store, NextAccount, result, clock)
      BY <1>15, <2>2 DEF ProcessTurn
    <3> HIDE DEF NextAccount
    <3> QED  BY <1>9, <2>1, <3>1
  <2>3. CASE ~CanAutoClaim(store, NextAccount, clock)
    BY <1>2, <1>15, <2>1, <2>3 DEF ProcessTurn, SameNumbers
  <2> QED  BY <2>2, <2>3
<1>16. NumbersFit(NoFrame.saved)
  BY InitialNumbersFit DEF NoFrame
<1>17. CASE ProcessReturns
  <2>1. SameNumbers(store, store') /\ frame' = NoFrame
    BY <1>1, <1>17 DEF ProcessReturns, SameNumbers, Storage
  <2> QED  BY <1>1, <1>16, <2>1, SameNumbersFit DEF NumbersOK
<1>18. CASE ProcessReverts
  BY <1>1, <1>16, <1>18 DEF ProcessReverts, NumbersOK
<1>19. CASE UNCHANGED vars
  BY <1>1, <1>19 DEF vars, NumbersOK
<1> QED
  BY <1>3, <1>4, <1>5, <1>6, <1>7, <1>8, <1>10, <1>11, <1>12, <1>13, <1>14, <1>15,
     <1>17, <1>18, <1>19 DEF Next

(* Every number of the dividend arithmetic stays in its word, for every    *)
(* width of the words and whatever is distributed: no supply, correction   *)
(* or credit leaves it unchecked, no balance outgrows the supply, and no   *)
(* booked withdrawal what its account has earned                           *)
(* (DividendPayingToken.sol:38-54, TokenDividendTracker.sol:15-24).        *)
THEOREM TypeCorrect == Spec => []TypeOK
<1>1. Init => NumbersOK
  BY InitialNumbersFit DEF Init, NumbersOK, NoFrame
<1>2. Inv /\ NumbersOK => TypeOK
  <2>1. Inv => store \in Storage /\ clock \in Nat /\ frame \in Frames
    BY DEF Inv, StoreOK
  <2>2. Inv /\ NumbersOK => WordsFit(store)
    BY NumbersAreWords DEF Inv, NumbersOK
  <2> QED  BY <2>1, <2>2 DEF TypeOK
<1> QED  BY <1>1, <1>2, NumbersStayWords, SpecKeepsInv, PTL DEF Spec

(* The list and the shares never disagree, whatever the order of balance   *)
(* changes, exclusions and calls of process() that pay or revert           *)
(* (TokenDividendTracker.sol:59-67, 152-164).                              *)
THEOREM HoldersAreShareholders == Spec => []HoldersAreTheShareholders
<1>1. Inv => HoldersAreTheShareholders
  BY DEF Inv, StoreOK, HoldersAreTheShareholders
<1> QED  BY <1>1, SpecKeepsInv, PTL

(* Nobody has ever withdrawn more than was earned, so the subtraction of   *)
(* DividendPayingToken.sol:131 never underflows, for any magnitude.        *)
THEOREM NobodyOverdraws == Spec => []NeverOverdrawn
<1>1. Inv => NeverOverdrawn
  BY DEF Inv, StoreOK, NeverOverdrawn
<1> QED  BY <1>1, SpecKeepsInv, PTL

(* The books of DividendPayingToken.sol:52 are what the reward token moved, *)
(* through payments that fail and calls that revert.                       *)
THEOREM BooksAreExact == Spec => []BooksMatchPayments
<1>1. Inv => BooksMatchPayments
  BY DEF Inv, StoreOK, BooksMatchPayments
<1> QED  BY <1>1, SpecKeepsInv, PTL

----------------------------------------------------------------------------
(* How many turns the cursor is from a place in the list, less one.        *)
Ahead(cursor, index, size) ==
    LET next == NextIndex(cursor, size)
    IN  IF index >= next THEN index - next ELSE index - next + size

(* A call with gas for the whole list still has before it every holder     *)
(* that was due at its start and is owed something.                        *)
PassOK ==
    ~Idle /\ frame.budget = MapSize(store.tokenHoldersMap)
        /\ "answers false" \notin TransferFailures =>
    \A a \in Holders(store) :
        CanAutoClaim(frame.saved, a, clock) =>
            \/ withdrawableDividendOf(store, a) = 0
            \/ Ahead(frame.cursor, store.tokenHoldersMap.indexOf[a],
                     MapSize(store.tokenHoldersMap)) < frame.left

(* The cursor goes once around the list.                                   *)
LEMMA NextIndexAdvances ==
  ASSUME NEW size \in Nat, size > 0, NEW cursor \in Nat, NEW index \in Nat, index < size
  PROVE  LET next == NextIndex(cursor, size)
         IN  /\ next \in 0 .. size - 1
             /\ Ahead(cursor, index, size) \in 0 .. size - 1
             /\ ~(Ahead(cursor, index, size) < 0)
             /\ index # next => Ahead(next, index, size) = Ahead(cursor, index, size) - 1
  BY DEF Ahead, NextIndex

(* A holder is in the list, at its index.                                  *)
LEMMA HoldersAreListed ==
  ASSUME NEW s, StoreOK(s), NEW a \in Holders(s)
  PROVE  LET index == s.tokenHoldersMap.indexOf[a]
         IN  /\ a \in Address /\ index \in Nat /\ index < MapSize(s.tokenHoldersMap)
             /\ GetKeyAtIndex(s.tokenHoldersMap, index) = a
  BY DEF StoreOK, Storage, MapType, ListFollowsShares, WellFormed, IndexesHitTheirKeys,
         Holders, MapSize, GetKeyAtIndex

LEMMA PassBegins ==
  ASSUME Inv, NEW caller \in Callers, NEW turns \in 0 .. MapSize(store.tokenHoldersMap),
         ProcessBegins(caller, turns)
  PROVE  PassOK'
<1>1. /\ store' = store /\ frame'.cursor = store.lastProcessedIndex
      /\ frame'.budget = turns /\ frame'.left = turns
      /\ MapSize(store.tokenHoldersMap) > 0
  BY DEF ProcessBegins
<1>2. StoreOK(store) /\ store.lastProcessedIndex \in Nat
      /\ MapSize(store.tokenHoldersMap) \in Nat
  BY SizesAreNats DEF Inv, StoreOK, Storage
<1>3. ASSUME NEW a \in Holders(store)
      PROVE  Ahead(store.lastProcessedIndex, store.tokenHoldersMap.indexOf[a],
                   MapSize(store.tokenHoldersMap)) < MapSize(store.tokenHoldersMap)
  <2> DEFINE size  == MapSize(store.tokenHoldersMap)
             index == store.tokenHoldersMap.indexOf[a]
  <2>1. index \in Nat /\ index < size
    BY <1>2, HoldersAreListed
  <2>2. size \in Nat /\ size > 0
    BY <1>1, <1>2
  <2> HIDE DEF size, index
  <2>3. Ahead(store.lastProcessedIndex, index, size) \in 0 .. size - 1
    BY <1>2, <2>1, <2>2, NextIndexAdvances
  <2>4. Ahead(store.lastProcessedIndex, index, size) < size
    BY <2>2, <2>3
  <2> QED  BY <2>4 DEF size, index
<1>4. Holders(store') = Holders(store)
  BY <1>1
<1> QED  BY <1>1, <1>3, <1>4 DEF PassOK

LEMMA PassGoesOn ==
  ASSUME Inv, PassOK, ProcessTurn
  PROVE  PassOK'
<1> DEFINE map  == store.tokenHoldersMap
           size == MapSize(map)
           next == NextIndex(frame.cursor, size)
<1>1. /\ ~Idle /\ UNCHANGED clock /\ frame'.saved = frame.saved
      /\ NextAccount \in Address /\ StoreOK(store')
      /\ UNCHANGED store \/ PaidInTurn
      /\ CanAutoClaim(store, NextAccount, clock) => PaidInTurn
  BY TurnFacts
<1>2. /\ StoreOK(store) /\ frame \in Frames /\ frame.cursor \in Nat
      /\ frame.left \in Nat /\ size \in Nat /\ size > 0
  BY <1>1, SizesAreNats DEF Inv, StoreOK, Frames, LoopOK
<1>3. /\ frame'.left = frame.left - 1 /\ frame'.cursor = next
      /\ frame'.budget = frame.budget
  BY <1>2 DEF ProcessTurn, Frames
<1>4. /\ store'.tokenHoldersMap = map
      /\ Holders(store') = Holders(store)
  BY <1>1 DEF PaidInTurn, PaidOrNot, Holders
<1>5. SUFFICES ASSUME frame.budget = size, "answers false" \notin TransferFailures,
                      NEW a \in Holders(store), CanAutoClaim(frame.saved, a, clock)
               PROVE  \/ withdrawableDividendOf(store', a) = 0
                      \/ Ahead(next, map.indexOf[a], size) < frame.left - 1
  BY <1>1, <1>3, <1>4 DEF PassOK
<1> DEFINE index == map.indexOf[a]
<1>6. a \in Address /\ index \in Nat /\ index < size /\ GetKeyAtIndex(map, index) = a
  BY <1>2, HoldersAreListed
<1>7. \/ withdrawableDividendOf(store, a) = 0
      \/ Ahead(frame.cursor, index, size) < frame.left
  BY <1>1, <1>5 DEF PassOK
<1>8. CASE withdrawableDividendOf(store, a) = 0
  <2>1. CASE UNCHANGED store
    BY <1>8, <2>1
  <2>2. CASE PaidInTurn
    <3>1. PaidOrNot(store, store', NextAccount)
      BY <2>2 DEF PaidInTurn
    <3> HIDE DEF NextAccount
    <3> QED  BY <1>1, <1>2, <1>6, <1>8, <3>1, SettledStaysSettled
  <2> QED  BY <1>1, <2>1, <2>2
<1>9. CASE withdrawableDividendOf(store, a) # 0 /\ index # next
  <2>1. Ahead(frame.cursor, index, size) < frame.left
    BY <1>7, <1>9
  <2> HIDE DEF size, index
  <2>2. /\ Ahead(next, index, size) = Ahead(frame.cursor, index, size) - 1
        /\ Ahead(frame.cursor, index, size) \in Nat
    <3>1. /\ Ahead(frame.cursor, index, size) \in 0 .. size - 1
          /\ Ahead(next, index, size) = Ahead(frame.cursor, index, size) - 1
      BY <1>2, <1>6, <1>9, NextIndexAdvances
    <3> QED  BY <1>2, <3>1
  <2> HIDE DEF next
  <2>3. Ahead(next, index, size) < frame.left - 1
    BY <1>2, <2>1, <2>2
  <2> QED  BY <2>3 DEF size, index
<1>10. CASE withdrawableDividendOf(store, a) # 0 /\ index = next
  <2>1. NextAccount = a
    BY <1>6, <1>10 DEF NextAccount
  <2>2. CanAutoClaim(store, a, clock) \/ withdrawableDividendOf(store, a) = 0
    <3> DEFINE saved == frame.saved
    <3>1. /\ SameCredit(saved, store) /\ store.claimWait = saved.claimWait
          /\ \/ store.lastClaimTimes[a] = saved.lastClaimTimes[a]
             \/ store.received[a] = accumulativeDividendOf(saved, a)
      BY <1>1, <1>6 DEF Inv, LoopOK
    <3>2. accumulativeDividendOf(store, a) = accumulativeDividendOf(saved, a)
      BY <1>6, <3>1 DEF SameCredit, accumulativeDividendOf
    <3>3. CASE store.lastClaimTimes[a] = saved.lastClaimTimes[a]
      BY <1>5, <3>1, <3>3 DEF CanAutoClaim
    <3>4. CASE store.received[a] = accumulativeDividendOf(saved, a)
      BY <1>2, <1>6, <3>2, <3>4, DueIsUnreceived
    <3> QED  BY <3>1, <3>3, <3>4
  <2>3. PaidInTurn
    BY <1>1, <1>10, <2>1, <2>2
  <2> QED  BY <1>5, <2>1, <2>3 DEF PaidInTurn
<1> QED  BY <1>8, <1>9, <1>10

(* Outside of a call there is nothing to say.                              *)
LEMMA PassHolds == Spec => []PassOK
<1>1. Init => PassOK
  <2>1. Init => Idle
    BY DEF Init, Idle, NoFrame
  <2> QED  BY <2>1 DEF PassOK
<1>2. Inv /\ Inv' /\ PassOK /\ [Next]_vars => PassOK'
  <2> SUFFICES ASSUME Inv, PassOK, [Next]_vars PROVE PassOK'
    OBVIOUS
  <2>1. CASE OutsideStep
    BY <2>1 DEF OutsideStep, PassOK, Idle
  <2>2. CASE \E caller \in Callers, turns \in 0 .. MapSize(store.tokenHoldersMap) :
                ProcessBegins(caller, turns)
    BY <2>2, PassBegins
  <2>3. CASE ProcessTurn
    BY <2>3, PassGoesOn
  <2>4. CASE ProcessReturns
    BY <2>4, ReturnFacts DEF PassOK
  <2>5. CASE ProcessReverts
    BY <2>5 DEF ProcessReverts, PassOK, Idle, NoFrame
  <2>6. CASE UNCHANGED vars
    BY <2>6 DEF vars, PassOK, Idle, Holders
  <2> QED  BY <2>1, <2>2, <2>3, <2>4, <2>5, <2>6, OutsideActions
<1> QED  BY <1>1, <1>2, SpecKeepsInv, PTL DEF Spec

(* A call of process() with gas for the whole list pays every holder that  *)
(* was due, wherever the cursor stood (TokenDividendTracker.sol:185-211).  *)
THEOREM FullPassIsComplete == Spec => []FullPassPaysEveryone
<1>1. Inv /\ PassOK => FullPassPaysEveryone
  <2> SUFFICES ASSUME Inv, PassOK, ~Idle, frame.left = 0,
                      frame.budget = MapSize(store.tokenHoldersMap),
                      "answers false" \notin TransferFailures,
                      NEW a \in Holders(store), CanAutoClaim(frame.saved, a, clock)
               PROVE  withdrawableDividendOf(store, a) = 0
    BY DEF FullPassPaysEveryone
  <2> DEFINE size  == MapSize(store.tokenHoldersMap)
             index == store.tokenHoldersMap.indexOf[a]
  <2>1. StoreOK(store) /\ frame.cursor \in Nat /\ size \in Nat /\ size > 0
    BY SizesAreNats DEF Inv, StoreOK, Frames, LoopOK
  <2>2. ~(Ahead(frame.cursor, index, size) < 0)
    BY <2>1, HoldersAreListed, NextIndexAdvances
  <2>3. \/ withdrawableDividendOf(store, a) = 0
        \/ Ahead(frame.cursor, index, size) < frame.left
    BY DEF PassOK
  <2> HIDE DEF size, index
  <2> QED  BY <2>2, <2>3, Zenon
<1> QED  BY <1>1, SpecKeepsInv, PassHolds, PTL

----------------------------------------------------------------------------
(* Where the cursor is after n turns, by turns and by arithmetic.          *)
CursorRun(f, cursor, size) ==
    f = [n \in 0 .. size |-> IF n = 0 THEN cursor ELSE NextIndex(f[n - 1], size)]

Around(cursor, n, size) == IF cursor + n < size THEN cursor + n ELSE cursor + n - size

LEMMA AroundMoves ==
  ASSUME NEW size \in Nat, NEW cursor \in Nat, cursor < size, NEW n \in 0 .. size
  PROVE  /\ n # 0 => Around(cursor, n, size) = NextIndex(Around(cursor, n - 1, size), size)
         /\ Around(cursor, 0, size) = cursor
  BY DEF Around, NextIndex

(* The recursion has a solution, and only one.                             *)
LEMMA CursorGoesAround ==
  ASSUME NEW size \in Nat, NEW cursor \in Nat, cursor < size
  PROVE  /\ \E f : CursorRun(f, cursor, size)
         /\ \A f : CursorRun(f, cursor, size) =>
               \A n \in 0 .. size : f[n] = Around(cursor, n, size)
<1>1. \E f : CursorRun(f, cursor, size)
  <2> DEFINE f == [n \in 0 .. size |-> Around(cursor, n, size)]
  <2>1. ASSUME NEW n \in 0 .. size
        PROVE  f[n] = IF n = 0 THEN cursor ELSE NextIndex(f[n - 1], size)
    <3>1. n # 0 => n - 1 \in 0 .. size
      OBVIOUS
    <3>2. f[n] = Around(cursor, n, size) /\ (n # 0 => f[n - 1] = Around(cursor, n - 1, size))
      BY <3>1
    <3> HIDE DEF f
    <3> QED  BY <3>2, AroundMoves
  <2>2. f = [n \in 0 .. size |-> f[n]]
    OBVIOUS
  <2> HIDE DEF f
  <2>3. CursorRun(f, cursor, size)
    BY <2>1, <2>2 DEF CursorRun
  <2> QED  BY <2>3
<1>2. ASSUME NEW f, CursorRun(f, cursor, size)
      PROVE  \A n \in 0 .. size : f[n] = Around(cursor, n, size)
  <2> DEFINE bad == {n \in 0 .. size : f[n] # Around(cursor, n, size)}
  <2>1. SUFFICES ASSUME bad # {} PROVE FALSE
    OBVIOUS
  <2>2. PICK n \in bad : \A k \in bad : n <= k
    <3>1. bad \in SUBSET Nat
      OBVIOUS
    <3> HIDE DEF bad
    <3> QED  BY <2>1, <3>1, Least
  <2>3. n \in 0 .. size /\ f[n] # Around(cursor, n, size)
    OBVIOUS
  <2>4. f[n] = IF n = 0 THEN cursor ELSE NextIndex(f[n - 1], size)
    BY <1>2, <2>3 DEF CursorRun
  <2>5. CASE n = 0
    BY <2>3, <2>4, <2>5, AroundMoves
  <2>6. CASE n # 0
    <3>1. n - 1 \in 0 .. size /\ ~(n <= n - 1)
      BY <2>3, <2>6
    <3>2. f[n - 1] = Around(cursor, n - 1, size)
      BY <2>2, <3>1
    <3> HIDE DEF bad
    <3> QED  BY <2>3, <2>4, <2>6, <3>2, AroundMoves
  <2> QED  BY <2>5, <2>6
<1> QED  BY <1>1, <1>2

(* There is one turn in a round at which the cursor is at a place.         *)
LEMMA OneTurnAround ==
  ASSUME NEW size \in Nat, NEW cursor \in Nat, cursor < size,
         NEW index \in Nat, index < size
  PROVE  LET turns == IF index > cursor THEN index - cursor ELSE index + (size - cursor)
         IN  /\ turns \in 1 .. size
             /\ \A n \in 1 .. size : Around(cursor, n, size) = index <=> n = turns
  BY DEF Around

(* getAccount predicts the turn at which the loop reaches a holder, unless *)
(* the list has shrunk below the cursor (TokenDividendTracker.sol:98-110). *)
THEOREM PredictionsAreRight == Spec => []IterationsPredictedInRange
<1>1. Inv => IterationsPredictedInRange
  <2> SUFFICES ASSUME Inv, store.lastProcessedIndex < MapSize(store.tokenHoldersMap),
                      NEW a \in Holders(store)
               PROVE  IterationsUntilProcessed(store, a) = TurnsToReach(store, a)
    BY DEF IterationsPredictedInRange, IterationsPredicted
  <2> DEFINE size   == MapSize(store.tokenHoldersMap)
             cursor == store.lastProcessedIndex
             index  == store.tokenHoldersMap.indexOf[a]
             after  == CHOOSE f : f = [n \in 0 .. size |-> IF n = 0 THEN cursor
                                                           ELSE NextIndex(f[n - 1], size)]
             turns  == IF index > cursor THEN index - cursor ELSE index + (size - cursor)
             Hits(n) == /\ after[n] = index
                        /\ \A m \in 1 .. n - 1 : after[m] # after[n]
  <2>1. StoreOK(store) /\ cursor \in Nat /\ size \in Nat /\ cursor < size
    BY SizesAreNats DEF Inv, StoreOK, Storage
  <2>2. index \in Nat /\ index < size /\ a \in Address
    BY <2>1, HoldersAreListed
  <2>3. GetIndexOfKey(store.tokenHoldersMap, a) = index
    BY DEF GetIndexOfKey, Holders
  <2>4. IterationsUntilProcessed(store, a) = turns
    BY <2>1, <2>2, <2>3 DEF IterationsUntilProcessed
  <2>5. TurnsToReach(store, a) = CHOOSE n \in 1 .. size : Hits(n)
    BY <2>3 DEF TurnsToReach
  <2> HIDE DEF size, cursor, index
  <2>6. \A n \in 0 .. size : after[n] = Around(cursor, n, size)
    <3>1. \E f : CursorRun(f, cursor, size)
      BY <2>1, CursorGoesAround
    <3>2. CursorRun(after, cursor, size)
      BY <3>1 DEF CursorRun
    <3> QED  BY <2>1, <3>2, CursorGoesAround
  <2> HIDE DEF after
  <2>7. /\ turns \in 1 .. size
        /\ \A n \in 1 .. size : Around(cursor, n, size) = index <=> n = turns
    BY <2>1, <2>2, OneTurnAround
  <2> HIDE DEF turns
  <2>8. \A n \in 1 .. size : after[n] = index <=> n = turns
    BY <2>1, <2>6, <2>7
  <2>9. Hits(turns)
    <3>1. after[turns] = index
      BY <2>7, <2>8
    <3>2. ASSUME NEW m \in 1 .. turns - 1 PROVE after[m] # index
      <4>1. m \in 1 .. size /\ m # turns
        BY <2>1, <2>7
      <4> QED  BY <2>8, <4>1
    <3> QED  BY <3>1, <3>2
  <2>10. \A n \in 1 .. size : Hits(n) => n = turns
    BY <2>8
  <2> HIDE DEF Hits
  <2>11. (CHOOSE n \in 1 .. size : Hits(n)) = turns
    BY <2>7, <2>9, <2>10
  <2> QED  BY <2>4, <2>5, <2>11
<1> QED  BY <1>1, SpecKeepsInv, PTL

----------------------------------------------------------------------------
(* A call that reverts has moved nobody's payments up.                     *)
LEMMA RevertsPayNobody ==
  ASSUME Inv, ~Idle, NEW a \in Address
  PROVE  /\ MagnifiedDividend(frame.saved, a) = MagnifiedDividend(store, a)
         /\ frame.saved.received[a] <= store.received[a]
<1> DEFINE saved == frame.saved
<1>1. /\ SameCredit(saved, store)
      /\ \/ store.received[a] = saved.received[a]
         \/ store.received[a] = accumulativeDividendOf(saved, a)
  BY DEF Inv, LoopOK
<1>2. /\ saved.received[a] <= accumulativeDividendOf(saved, a)
      /\ saved.received[a] \in Nat
  BY DEF Inv, StoreOK, WithdrawnIsEarned, Storage
<1>3. MagnifiedDividend(saved, a) = MagnifiedDividend(store, a)
  BY <1>1 DEF SameCredit
<1> HIDE DEF saved
<1>4. saved.received[a] <= store.received[a]
  BY <1>1, <1>2
<1> QED  BY <1>3, <1>4 DEF saved

(* The shares add up to the supply, and no rounding of a distribution and  *)
(* no correction of a balance change ever credits more than was distributed *)
(* (DividendPayingToken.sol:80-91, 169-197).                               *)
THEOREM CreditIsBounded == Spec => []CreditWithinDistributed
<1>1. Inv => CreditWithinDistributed
  BY DEF Inv, StoreOK, AddsUp, Credited, CreditWithinDistributed
<1> QED  BY <1>1, SpecKeepsInv, PTL

(* While no more is distributed than was sent, the tracker can pay all its *)
(* debts at once, in any order (DividendPayingToken.sol:40-50, 101-117).   *)
THEOREM TrackerIsSolvent == Spec => []Solvent
<1>1. Inv => Solvent
  BY BackedIsSolvent DEF Inv, Backed, Solvent
<1> QED  BY <1>1, SpecKeepsInv, PTL

(* Balance changes, exclusions, payments, failures and reverts never touch *)
(* what anybody has earned (DividendPayingToken.sol:40-50), for every      *)
(* number of accounts and every sequence of calls.                         *)
THEOREM OnlyDistributionsAreEarned == Spec => EarnedOnlyByDistribution
<1>1. Inv /\ [Next]_vars => [EarningsStep]_vars
  <2> SUFFICES ASSUME Inv, Next PROVE EarningsStep
    OBVIOUS
  <2> SUFFICES ASSUME NEW a \in Address
               PROVE  \/ MagnifiedDividend(store', a) = MagnifiedDividend(store, a)
                      \/ /\ MagnifiedDividend(store', a) > MagnifiedDividend(store, a)
                         /\ store'.totalDividendsDistributed > store.totalDividendsDistributed
                         /\ a \in Holders(store)
    BY DEF EarningsStep
  <2>1. CASE OutsideStep
    BY <2>1 DEF OutsideStep, Earns, Pays, SameCredit
  <2>2. ASSUME NEW caller \in Callers, NEW turns \in 0 .. MapSize(store.tokenHoldersMap),
               ProcessBegins(caller, turns)
        PROVE  MagnifiedDividend(store', a) = MagnifiedDividend(store, a)
    BY <2>2 DEF ProcessBegins
  <2>3. CASE ProcessTurn
    BY <2>3, TurnFacts DEF PaidInTurn, PaidOrNot, SameCredit
  <2>4. CASE ProcessReturns
    BY <2>4, ReturnFacts DEF SameBooks, MagnifiedDividend
  <2>5. CASE ProcessReverts
    BY <2>5, RevertsPayNobody DEF ProcessReverts
  <2> QED  BY <2>1, <2>2, <2>3, <2>4, <2>5, OutsideActions
<1> QED  BY <1>1, SpecKeepsInv, PTL DEF Spec, EarnedOnlyByDistribution

(* Whenever an account receives anything, it then has received all it has  *)
(* earned: no payment is partial (DividendPayingToken.sol:101-117).        *)
THEOREM PaymentsAreComplete == Spec => PaymentsSettle
<1>1. Inv /\ [Next]_vars => [PaymentStep]_vars
  <2> SUFFICES ASSUME Inv, Next, NEW a \in Address,
                      store'.received[a] > store.received[a]
               PROVE  store'.received[a] = accumulativeDividendOf(store', a)
    BY DEF PaymentStep
  <2>1. store.received[a] \in Nat /\ store \in Storage
    BY DEF Inv, StoreOK, Storage
  <2>2. ASSUME Pays(store, store')
        PROVE  store'.received[a] = accumulativeDividendOf(store', a)
    <3>1. store'.received[a] = accumulativeDividendOf(store, a)
      BY <2>1, <2>2 DEF Pays
    <3> QED  BY <2>2, <3>1 DEF Pays, SameCredit, accumulativeDividendOf
  <2>3. CASE OutsideStep
    BY <2>1, <2>2, <2>3 DEF OutsideStep, Earns
  <2>4. ASSUME NEW caller \in Callers, NEW turns \in 0 .. MapSize(store.tokenHoldersMap),
               ProcessBegins(caller, turns)
        PROVE  FALSE
    BY <2>1, <2>4 DEF ProcessBegins
  <2>5. CASE ProcessTurn
    <3>1. NextAccount \in Address /\ (UNCHANGED store \/ PaidInTurn)
      BY <2>5, TurnFacts
    <3>2. PaidInTurn
      BY <2>1, <3>1
    <3> HIDE DEF NextAccount
    <3> QED  BY <2>1, <2>2, <3>1, <3>2, PaidOrNotPays DEF PaidInTurn
  <2>6. CASE ProcessReturns
    BY <2>1, <2>6, ReturnFacts DEF SameBooks
  <2>7. CASE ProcessReverts
    <3>1. store'.received[a] = frame.saved.received[a] /\ ~Idle
      BY <2>7 DEF ProcessReverts
    <3>2. frame.saved.received[a] <= store.received[a]
      BY <3>1, RevertsPayNobody
    <3>3. frame.saved.received[a] \in Nat
      BY DEF Inv, StoreOK, Storage
    <3> QED  BY <2>1, <3>1, <3>2, <3>3
  <2> QED  BY <2>3, <2>4, <2>5, <2>6, <2>7, OutsideActions
<1> QED  BY <1>1, SpecKeepsInv, PTL DEF Spec, PaymentsSettle

(* The loop of process() pays nobody before claimWait is over and nobody   *)
(* twice in one call, and pays for good only by returning                  *)
(* (TokenDividendTracker.sol:145-150, 185-211).                            *)
THEOREM LoopPaysOnlyWhoIsDue == Spec => LoopPaysWhoIsDue
<1>1. Inv /\ [Next]_vars => [LoopStep]_vars
  <2> SUFFICES ASSUME Inv, Next PROVE LoopStep
    OBVIOUS
  <2> SUFFICES ASSUME NEW a \in Address, ~Idle
               PROVE  /\ store'.received[a] > store.received[a] =>
                            /\ clock - frame.saved.lastClaimTimes[a] >= store.claimWait
                            /\ store.received[a] = frame.saved.received[a]
                      /\ frame'.caller = "none"
                            /\ store'.received[a] # frame.saved.received[a] =>
                         frame.left = 0 /\ store'.lastProcessedIndex = frame.cursor
    BY DEF LoopStep
  <2>1. store.received[a] \in Nat /\ store \in Storage
    BY DEF Inv, StoreOK, Storage
  <2>2. CASE ProcessTurn
    <3>1. /\ frame'.caller # "none"
          /\ NextAccount \in Address
          /\ UNCHANGED store \/ PaidInTurn
      BY <2>2, TurnFacts DEF Idle
    <3>2. ASSUME store'.received[a] > store.received[a]
          PROVE  /\ clock - frame.saved.lastClaimTimes[a] >= store.claimWait
                 /\ store.received[a] = frame.saved.received[a]
      <4>1. PaidInTurn /\ store'.received[a] # store.received[a]
        BY <2>1, <3>1, <3>2
      <4>2. /\ a = NextAccount
            /\ store'.received[a] = accumulativeDividendOf(store, a)
        <5> HIDE DEF NextAccount
        <5>1. PaidOrNot(store, store', NextAccount)
          BY <4>1 DEF PaidInTurn
        <5> QED  BY <2>1, <3>1, <4>1, <5>1 DEF PaidOrNot, Storage
      <4>3. accumulativeDividendOf(store, a) = accumulativeDividendOf(frame.saved, a)
        BY DEF Inv, LoopOK, SameCredit, accumulativeDividendOf
      <4>4. /\ store.received[a] = frame.saved.received[a]
            /\ store.lastClaimTimes[a] = frame.saved.lastClaimTimes[a]
        BY <4>1, <4>2, <4>3 DEF Inv, LoopOK
      <4>5. clock - store.lastClaimTimes[a] >= store.claimWait
        BY <4>1, <4>2 DEF PaidInTurn, CanAutoClaim
      <4> QED  BY <4>4, <4>5
    <3> QED  BY <3>1, <3>2
  <2>3. CASE ProcessReturns
    <3>1. /\ store'.received = store.received
          /\ frame.left = 0
          /\ store' = [store EXCEPT !.lastProcessedIndex = frame.cursor]
      BY <2>3, ReturnFacts DEF ProcessReturns, SameBooks
    <3> QED  BY <2>1, <3>1 DEF Storage
  <2>4. CASE ProcessReverts
    <3>1. store'.received[a] = frame.saved.received[a]
      BY <2>4 DEF ProcessReverts
    <3>2. frame.saved.received[a] <= store.received[a] /\ frame.saved.received[a] \in Nat
      BY RevertsPayNobody DEF Inv, StoreOK, Storage
    <3> QED  BY <2>1, <3>1, <3>2
  <2> QED  BY <2>2, <2>3, <2>4, OutsideActions DEF OutsideStep, ProcessBegins
<1> QED  BY <1>1, SpecKeepsInv, PTL DEF Spec, LoopPaysWhoIsDue

----------------------------------------------------------------------------
(* What the abstract ledger calls earned.                                  *)
Earned(s) == [a \in Address |-> accumulativeDividendOf(s, a)]

(* A storage that pays implements a settlement of the abstract ledger.     *)
LEMMA PaysSettles ==
  ASSUME NEW s \in Storage, NEW t \in Storage, Pays(s, t)
  PROVE  /\ Earned(t) = Earned(s)
         /\ \E accounts \in SUBSET Address :
               t.received = [a \in Address |->
                               IF a \in accounts THEN Earned(s)[a] ELSE s.received[a]]
<1>1. \A a \in Address : accumulativeDividendOf(t, a) = accumulativeDividendOf(s, a)
  BY DEF Pays, SameCredit, accumulativeDividendOf
<1> DEFINE accounts == {a \in Address : t.received[a] # s.received[a]}
<1>2. t.received = [a \in Address |->
                      IF a \in accounts THEN Earned(s)[a] ELSE s.received[a]]
  <2>1. t.received = [a \in Address |-> t.received[a]]
    BY DEF Storage
  <2>2. \A a \in Address :
           t.received[a] = IF a \in accounts THEN Earned(s)[a] ELSE s.received[a]
    BY DEF Pays, Earned
  <2> HIDE DEF accounts
  <2> QED  BY <2>1, <2>2
<1>3. accounts \in SUBSET Address
  OBVIOUS
<1> HIDE DEF accounts
<1>4. Earned(t) = Earned(s)
  BY <1>1 DEF Earned
<1> QED  BY <1>2, <1>3, <1>4

(* A storage in which more is earned implements a step of earnings.        *)
LEMMA EarnsEarns ==
  ASSUME NEW s \in Storage, NEW t \in Storage, Earns(s, t)
  PROVE  /\ Earned(t) \in [Address -> Int]
         /\ \A a \in Address : Earned(t)[a] >= Earned(s)[a]
         /\ t.received = s.received
<1>1. ASSUME NEW a \in Address
      PROVE  /\ accumulativeDividendOf(t, a) \in Int
             /\ accumulativeDividendOf(t, a) >= accumulativeDividendOf(s, a)
  <2>1. MagnifiedDividend(s, a) \in Int /\ MagnifiedDividend(t, a) \in Int
    BY EarningsAreIntegers
  <2>2. MagnifiedDividend(s, a) <= MagnifiedDividend(t, a)
    BY <2>1 DEF Earns
  <2>3. accumulativeDividendOf(s, a) <= accumulativeDividendOf(t, a)
    BY <2>1, <2>2, DivisionIsMonotonic DEF accumulativeDividendOf
  <2> QED  BY <2>3, EarningsAreIntegers
<1> QED  BY <1>1 DEF Earned, Earns

(* The contract keeps the promise that DividendLedger states: earnings     *)
(* only grow, only earnings are paid, a payment settles, and a call of     *)
(* process() pays all of its accounts at its end or none.                  *)
THEOREM TrackerKeepsThePromise == Spec => KeepsThePromise
<1> DEFINE earned == [a \in Address |-> accumulativeDividendOf(Committed, a)]
           paid == Committed.received
<1>1. Init => Promise!Init
  <2> SUFFICES ASSUME Init PROVE Promise!Init
    OBVIOUS
  <2>1. Committed = InitialStorage
    BY DEF Init, Committed, Idle, NoFrame
  <2>2. \A a \in Address : accumulativeDividendOf(InitialStorage, a) = 0
    <3>1. \A a \in Address : MagnifiedDividend(InitialStorage, a) = 0
      BY DEF MagnifiedDividend, InitialStorage
    <3>2. 0 \div Magnitude = 0
      BY MagnitudeAssumption
    <3> QED  BY <3>1, <3>2 DEF accumulativeDividendOf
  <2>3. InitialStorage.received = [a \in Address |-> 0]
    BY DEF InitialStorage
  <2> QED  BY <2>1, <2>2, <2>3 DEF Promise!Init
<1>2. Inv /\ [Next]_vars => [Promise!Next]_<< earned, paid >>
  <2> SUFFICES ASSUME Inv, [Next]_vars PROVE [Promise!Next]_<< earned, paid >>
    OBVIOUS
  <2>1. store \in Storage /\ frame.saved \in Storage
    BY DEF Inv, StoreOK
  <2>2. earned = Earned(Committed) /\ earned' = Earned(Committed')
    BY DEF Earned, accumulativeDividendOf, MagnifiedDividend
  <2>3. ASSUME Committed \in Storage, Committed' \in Storage, Pays(Committed, Committed')
        PROVE  Promise!Next
    <3>1. /\ earned' = earned
          /\ \E accounts \in SUBSET Address :
                paid' = [a \in Address |->
                           IF a \in accounts THEN earned[a] ELSE paid[a]]
      BY <2>2, <2>3, PaysSettles
    <3> QED  BY <3>1 DEF Promise!Next, Promise!Settle
  <2>4. ASSUME Committed \in Storage, Committed' \in Storage, Earns(Committed, Committed')
        PROVE  Promise!Next
    <3>1. /\ earned' \in [Address -> Int]
          /\ \A a \in Address : earned'[a] >= earned[a]
          /\ paid' = paid
      BY <2>2, <2>4, EarnsEarns
    <3> QED  BY <3>1 DEF Promise!Next, Promise!Earn
  <2>5. ASSUME Committed' = Committed
        PROVE  UNCHANGED << earned, paid >>
    BY <2>2, <2>5
  <2> HIDE DEF earned, paid
  <2>6. CASE OutsideStep
    <3>1. Committed = store /\ Committed' = store' /\ store' \in Storage
      BY <2>6 DEF OutsideStep, Committed, Idle, StoreOK
    <3> QED  BY <2>1, <2>3, <2>4, <2>6, <3>1 DEF OutsideStep
  <2>7. ASSUME NEW caller \in Callers, NEW turns \in 0 .. MapSize(store.tokenHoldersMap),
               ProcessBegins(caller, turns)
        PROVE  Committed' = Committed
    BY <2>7 DEF ProcessBegins, Committed, Idle
  <2>8. CASE ProcessTurn
    <3>1. Committed' = Committed
      BY <2>8, TurnFacts DEF Committed
    <3> QED  BY <2>5, <3>1
  <2>9. CASE ProcessReturns
    <3>1. /\ Committed = frame.saved /\ Committed' = store'
          /\ store' \in Storage
          /\ SameBooks(store, store')
          /\ ~Idle
      BY <2>9, ReturnFacts DEF Committed, StoreOK
    <3>2. SameCredit(store, store')
      BY <3>1 DEF SameBooks, SameCredit, MagnifiedDividend
    <3>3. Pays(frame.saved, store)
      BY <3>1 DEF Inv, LoopOK, Pays
    <3>4. Pays(frame.saved, store')
      BY <3>1, <3>2, <3>3 DEF Pays, SameCredit, SameBooks
    <3> QED  BY <2>1, <2>3, <3>1, <3>4
  <2>10. CASE ProcessReverts
    <3>1. Committed' = Committed
      BY <2>10 DEF ProcessReverts, Committed, Idle, NoFrame
    <3> QED  BY <2>5, <3>1
  <2>11. CASE UNCHANGED vars
    <3>1. Committed' = Committed
      BY <2>11 DEF vars, Committed, Idle
    <3> QED  BY <2>5, <3>1
  <2> QED  BY <2>5, <2>6, <2>7, <2>8, <2>9, <2>10, <2>11, OutsideActions
<1> QED
  BY <1>1, <1>2, SpecKeepsInv, PTL DEF Spec, KeepsThePromise, Promise!Spec
=============================================================================
