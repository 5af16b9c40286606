----------------------- MODULE TrackerContractTheorems -----------------------
(***************************************************************************)
(* What each operator on the tracker's storage does to a good storage, for *)
(* every set of addresses, scaling factor and width of the words.  The     *)
(* proofs about TokenDividendTracker and BIBToken rest on these lemmas.    *)
(***************************************************************************)
EXTENDS TrackerContract, IterableMappingTheorems, SumTheorems

(* All that was ever credited, fractions included.                         *)
Credited(s) == SumFunction([a \in Address |-> MagnifiedDividend(s, a)])

(* The shares add up to the supply, and no more was credited than was      *)
(* distributed.                                                            *)
AddsUp(s) ==
    /\ s.totalSupply = SumFunction(s.balanceOf)
    /\ Credited(s) <= Magnitude * s.totalDividendsDistributed

(* A storage in which list, shares, earnings and payments agree.           *)
StoreOK(s) == /\ s \in Storage
              /\ AddsUp(s)
              /\ ListFollowsShares(s)
              /\ WithdrawnIsEarned(s)
              /\ s.received = s.withdrawnDividends

(* Nobody's earnings differ between two storages, fractions included.      *)
SameCredit(s, t) ==
    \A a \in Address : MagnifiedDividend(t, a) = MagnifiedDividend(s, a)

(* As much was sent and distributed.                                       *)
SameTotals(s, t) ==
    /\ t.totalDividendsDistributed = s.totalDividendsDistributed
    /\ Sent(t) = Sent(s)

(* No more was distributed than was sent.                                  *)
Backed(s) == s.totalDividendsDistributed <= Sent(s)

(* The payments booked and made are the same in two storages.              *)
SamePayments(s, t) == /\ t.withdrawnDividends = s.withdrawnDividends
                      /\ t.received = s.received

----------------------------------------------------------------------------
(* The division by magnitude is an integer.                                *)
LEMMA DivisionIsInteger == \A x \in Int : x \div Magnitude \in Int
  BY MagnitudeAssumption

(* More earned before the division is no less earned after it.             *)
LEMMA DivisionIsMonotonic ==
  \A x, y \in Int : x <= y => x \div Magnitude <= y \div Magnitude
<1> SUFFICES ASSUME NEW x \in Int, NEW y \in Int, x <= y
             PROVE  x \div Magnitude <= y \div Magnitude
  OBVIOUS
<1> DEFINE p == x \div Magnitude
           q == y \div Magnitude
<1>1. /\ p \in Int /\ q \in Int
      /\ p * Magnitude <= x
      /\ y < q * Magnitude + Magnitude
  BY MagnitudeAssumption
<1>2. p * Magnitude < (q + 1) * Magnitude
  <2>1. p * Magnitude <= y
    BY <1>1, MagnitudeAssumption
  <2>2. (q + 1) * Magnitude = q * Magnitude + Magnitude
    BY <1>1, MagnitudeAssumption
  <2> QED  BY <2>1, <2>2, <1>1, MagnitudeAssumption
<1>3. p < q + 1
  <2> SUFFICES ASSUME q + 1 <= p PROVE FALSE
    BY <1>1
  <2>1. (q + 1) * Magnitude <= p * Magnitude
    BY <1>1, MagnitudeAssumption
  <2> QED  BY <2>1, <1>2, <1>1, MagnitudeAssumption
<1> QED  BY <1>1, <1>3

(* A product of numbers is a number.                                       *)
LEMMA ProductOfNats == \A m, n \in Nat : m * n \in Nat
  OBVIOUS

(* Smaller products have smaller factors.                                  *)
LEMMA Cancel ==
  ASSUME NEW x \in Int, NEW y \in Int, NEW d \in Nat \ {0}, d * x <= d * y
  PROVE  x <= y
<1>1. CASE x <= y
  BY <1>1
<1>2. CASE x >= y + 1
  <2>1. d * (x - y) >= d
    BY <1>2
  <2>2. d * x = d * y + d * (x - y)
    OBVIOUS
  <2> QED  BY <2>1, <2>2
<1> QED  BY <1>1, <1>2

(* The identity behind the corrections of DividendPayingToken.sol:169-185. *)
LEMMA CorrectionCancels ==
  \A m, x, y, c \in Int : m * x + (c - m * (x - y)) = m * y + c
  OBVIOUS

(* The same for a burn, whose amount is the difference the other way.      *)
LEMMA CorrectionOfABurn ==
  \A m, x, y, c \in Int : c + m * (x - y) = c - m * (y - x)
  OBVIOUS

----------------------------------------------------------------------------
(* What an account has earned is an integer.                               *)
LEMMA EarningsAreIntegers ==
  ASSUME NEW s \in Storage, NEW a \in Address
  PROVE  MagnifiedDividend(s, a) \in Int /\ accumulativeDividendOf(s, a) \in Int
<1>1. /\ s.magnifiedDividendPerShare \in Nat
      /\ s.balanceOf[a] \in Nat
      /\ s.magnifiedDividendCorrections[a] \in Int
  BY DEF Storage
<1>2. MagnifiedDividend(s, a) \in Int
  BY <1>1, ProductOfNats DEF MagnifiedDividend
<1> QED  BY <1>2, DivisionIsInteger DEF accumulativeDividendOf

(* A sum over all accounts.                                                *)
LEMMA SumOverAccounts ==
  ASSUME NEW f, DOMAIN f = Address
  PROVE  SumFunction(f) = SumFunctionOnSet(f, Address)
  BY DEF SumFunction

(* Nobody's credit has changed, so their sum has not.                      *)
LEMMA SameCreditSameSum ==
  ASSUME NEW s \in Storage, NEW t \in Storage, SameCredit(s, t)
  PROVE  Credited(t) = Credited(s)
<1> DEFINE f == [a \in Address |-> MagnifiedDividend(s, a)]
           h == [a \in Address |-> MagnifiedDividend(t, a)]
<1>1. f = h
  BY DEF SameCredit
<1> QED  BY <1>1 DEF Credited

(* Two functions that agree everywhere but on one account.                 *)
LEMMA SumOfTwo ==
  ASSUME NEW f, NEW h, NEW account \in Address,
         \A x \in Address : f[x] \in Int, \A x \in Address : h[x] \in Int,
         \A x \in Address \ {account} : h[x] = f[x]
  PROVE  /\ SumFunctionOnSet(h, Address)
              = SumFunctionOnSet(f, Address) - f[account] + h[account]
         /\ SumFunctionOnSet(f, Address) \in Int
<1>1. SumFunctionOnSet(f, Address) \in Int
  BY AddressesAreFinite, SumIsInt
<1>2. SumFunctionOnSet(h, Address)
         = SumFunctionOnSet(f, Address) - f[account] + h[account]
  BY AddressesAreFinite, SumOfChange
<1> QED  BY <1>1, <1>2

(* What a change of one account's entry does to the sum.                   *)
LEMMA SumOfOneChange ==
  ASSUME NEW f, f \in [Address -> Nat], NEW account \in Address, NEW new \in Nat,
         NEW h, h = [f EXCEPT ![account] = new]
  PROVE  /\ SumFunction(h) = SumFunction(f) + (new - f[account])
         /\ SumFunction(f) \in Int
<1>1. DOMAIN f = Address /\ DOMAIN h = Address
  OBVIOUS
<1>2. h \in [Address -> Nat] /\ h[account] = new
  OBVIOUS
<1>3. \A x \in Address \ {account} : h[x] = f[x]
  OBVIOUS
<1>4. \A n \in Nat : n \in Int
  OBVIOUS
<1>5. /\ \A x \in Address : f[x] \in Int
      /\ \A x \in Address : h[x] \in Int
  BY <1>2, <1>4
<1>6. /\ SumFunctionOnSet(h, Address)
           = SumFunctionOnSet(f, Address) - f[account] + h[account]
      /\ SumFunctionOnSet(f, Address) \in Int
  BY <1>5, <1>3, SumOfTwo
<1>7. SumFunction(h) = SumFunction(f) - f[account] + new /\ SumFunction(f) \in Int
  BY <1>1, <1>2, <1>6, SumOverAccounts
<1>8. f[account] \in Int /\ new \in Int
  BY <1>5
<1>9. SumFunction(f) - f[account] + new = SumFunction(f) + (new - f[account])
  BY <1>7, <1>8
<1> QED  BY <1>7, <1>9

(* What the books add up to when one account's shares change.              *)
LEMMA NewSharesAddUp ==
  ASSUME NEW s \in Storage, AddsUp(s), NEW t \in Storage, SameCredit(s, t),
         NEW account \in Address, NEW shares \in Nat,
         t.balanceOf = [s.balanceOf EXCEPT ![account] = shares],
         t.totalSupply = s.totalSupply + (shares - s.balanceOf[account]),
         t.totalDividendsDistributed = s.totalDividendsDistributed
  PROVE  AddsUp(t)
<1>1. s.balanceOf \in [Address -> Nat]
  BY DEF Storage
<1>2. SumFunction(t.balanceOf) = SumFunction(s.balanceOf) + (shares - s.balanceOf[account])
  BY <1>1, SumOfOneChange
<1>3. Credited(t) = Credited(s)
  BY SameCreditSameSum
<1> QED  BY <1>2, <1>3 DEF AddsUp

(* Nor do they change when no shares do.                                   *)
LEMMA SameSharesAddUp ==
  ASSUME NEW s \in Storage, AddsUp(s), NEW t \in Storage, SameCredit(s, t),
         t.balanceOf = s.balanceOf, t.totalSupply = s.totalSupply,
         t.totalDividendsDistributed = s.totalDividendsDistributed
  PROVE  AddsUp(t)
<1>1. Credited(t) = Credited(s)
  BY SameCreditSameSum
<1> QED  BY <1>1 DEF AddsUp

(* t is s with other shares and another correction for one account.        *)
CorrectedBy(s, t, account, shares, supply, correction) ==
    t = [s EXCEPT !.balanceOf[account] = shares,
                  !.totalSupply = supply,
                  !.magnifiedDividendCorrections[account] = correction]

(* _setBalance (DividendPayingToken.sol:187-197), minting, burning or doing *)
(* nothing, sets the shares and moves the correction against their change. *)
LEMMA SetSharesCorrects ==
  ASSUME NEW s \in Storage, NEW account \in Address, NEW newBalance \in Nat
  PROVE  LET m == s.magnifiedDividendPerShare
             current == s.balanceOf[account]
         IN  CorrectedBy(s, SetShares(s, account, newBalance), account, newBalance,
                         s.totalSupply + (newBalance - current),
                         s.magnifiedDividendCorrections[account]
                            - m * (newBalance - current))
<1> DEFINE t == SetShares(s, account, newBalance)
           m == s.magnifiedDividendPerShare
           current == s.balanceOf[account]
           c == s.magnifiedDividendCorrections[account]
           supply == s.totalSupply + (newBalance - current)
           correction == c - m * (newBalance - current)
<1> SUFFICES CorrectedBy(s, t, account, newBalance, supply, correction)
  OBVIOUS
<1>1. m \in Nat /\ current \in Nat /\ c \in Int /\ s.totalSupply \in Nat
  BY DEF Storage
<1>2. CASE newBalance > current
  <2>1. /\ t = Mint(s, account, newBalance - current)
        /\ current + (newBalance - current) = newBalance
        /\ c + -(m * (newBalance - current)) = correction
    BY <1>2, <1>1 DEF SetShares
  <2> HIDE DEF t, correction
  <2> QED  BY <2>1 DEF Mint, Correct, Storage, CorrectedBy
<1>3. CASE newBalance < current
  <2>1. t = Burn(s, account, current - newBalance)
    BY <1>3, <1>1 DEF SetShares
  <2>2. /\ current - (current - newBalance) = newBalance
        /\ s.totalSupply - (current - newBalance) = supply
    BY <1>1
  <2>3. c + m * (current - newBalance) = correction
    BY <1>1, CorrectionOfABurn
  <2> HIDE DEF t, supply, correction
  <2> QED  BY <2>1, <2>2, <2>3 DEF Burn, Correct, Storage, CorrectedBy
<1>4. CASE newBalance = current
  <2>1. t = s
    BY <1>4, <1>1 DEF SetShares
  <2>2. newBalance - current = 0
    BY <1>4, <1>1
  <2>3. s.totalSupply = supply
    BY <2>2, <1>1
  <2>4. c = correction
    <3>1. m * (newBalance - current) = 0
      BY <2>2, <1>1
    <3> QED  BY <3>1, <1>1
  <2> HIDE DEF t, supply, correction
  <2> QED  BY <2>1, <2>3, <2>4, <1>4 DEF Storage, CorrectedBy
<1>5. newBalance > current \/ newBalance < current \/ newBalance = current
  BY <1>1
<1> HIDE DEF t, supply, correction, current
<1> QED  BY <1>2, <1>3, <1>4, <1>5

(* _setBalance (DividendPayingToken.sol:187-197) sets the shares of one    *)
(* account and leaves everybody's earnings and payments alone.             *)
LEMMA SetSharesFacts ==
  ASSUME NEW s \in Storage, NEW account \in Address, NEW newBalance \in Nat,
         ~SetSharesReverts(s, account, newBalance)
  PROVE  LET t == SetShares(s, account, newBalance)
         IN  /\ t \in Storage
             /\ t.balanceOf = [s.balanceOf EXCEPT ![account] = newBalance]
             /\ AddsUp(s) => AddsUp(t)
             /\ t.reserve = s.reserve
             /\ t.tokenHoldersMap = s.tokenHoldersMap
             /\ t.excludedFromDividends = s.excludedFromDividends
             /\ t.totalDividendsDistributed = s.totalDividendsDistributed
             /\ SamePayments(s, t)
             /\ SameCredit(s, t)
<1> DEFINE t == SetShares(s, account, newBalance)
           m == s.magnifiedDividendPerShare
           current == s.balanceOf[account]
           c == s.magnifiedDividendCorrections[account]
<1>1. m \in Nat /\ current \in Nat /\ c \in Int /\ s.totalSupply \in Nat
  BY DEF Storage
<1> DEFINE supply == s.totalSupply + (newBalance - current)
           correction == c - m * (newBalance - current)
<1>2. supply \in Nat /\ correction \in Int
  BY <1>1, MaxIntAssumption DEF SetSharesReverts, MaxUint
<1>3. CorrectedBy(s, t, account, newBalance, supply, correction)
  BY SetSharesCorrects
<1> HIDE DEF t
<1>4. t \in Storage
  <2> HIDE DEF supply, correction
  <2> QED  BY <1>2, <1>3 DEF Storage, CorrectedBy
<1>5. SameCredit(s, t)
  <2> SUFFICES ASSUME NEW a \in Address
               PROVE  MagnifiedDividend(t, a) = MagnifiedDividend(s, a)
    BY DEF SameCredit
  <2>1. CASE a = account
    <3>1. MagnifiedDividend(t, a) = m * newBalance + correction
      BY <2>1, <1>3 DEF MagnifiedDividend, Storage, CorrectedBy
    <3>2. MagnifiedDividend(s, a) = m * current + c
      BY <2>1 DEF MagnifiedDividend
    <3> QED  BY <3>1, <3>2, <1>1, CorrectionCancels
  <2>2. CASE a # account
    BY <2>2, <1>3 DEF MagnifiedDividend, Storage, CorrectedBy
  <2> QED  BY <2>1, <2>2
<1>6. /\ t.balanceOf = [s.balanceOf EXCEPT ![account] = newBalance]
      /\ t.reserve = s.reserve
      /\ t.tokenHoldersMap = s.tokenHoldersMap
      /\ t.excludedFromDividends = s.excludedFromDividends
      /\ t.totalDividendsDistributed = s.totalDividendsDistributed
      /\ SamePayments(s, t)
  BY <1>3 DEF SamePayments, CorrectedBy
<1>7. AddsUp(s) => AddsUp(t)
  <2>1. t.totalSupply = s.totalSupply + (newBalance - s.balanceOf[account])
    <3> HIDE DEF correction
    <3> QED  BY <1>3 DEF CorrectedBy, Storage
  <2> QED  BY <2>1, <1>4, <1>5, <1>6, NewSharesAddUp
<1> QED  BY <1>4, <1>5, <1>6, <1>7 DEF t

(* When earnings and payments are the same, so is whether the books hold.  *)
LEMMA SameCreditSameBooks ==
  ASSUME NEW s, NEW t, SameCredit(s, t), SamePayments(s, t)
  PROVE  /\ WithdrawnIsEarned(s) => WithdrawnIsEarned(t)
         /\ \A a \in Address : accumulativeDividendOf(t, a) = accumulativeDividendOf(s, a)
  BY DEF SameCredit, SamePayments, WithdrawnIsEarned, accumulativeDividendOf

(* The shares and the list of setBalance (TokenDividendTracker.sol:157-164)*)
(* leave a good storage, and earnings and payments as they were.           *)
LEMMA SharesFollowFacts ==
  ASSUME NEW s, StoreOK(s), NEW account \in Address, NEW newBalance \in Nat,
         ~s.excludedFromDividends[account],
         ~SharesFollowReverts(s, account, newBalance)
  PROVE  LET t == SharesFollow(s, account, newBalance)
         IN  /\ StoreOK(t)
             /\ SameCredit(s, t)
             /\ SamePayments(s, t)
             /\ SameTotals(s, t)
             /\ t.excludedFromDividends = s.excludedFromDividends
<1> DEFINE listed == newBalance >= MinBalance
           shares == IF listed THEN newBalance ELSE 0
           u == SetShares(s, account, shares)
           list == IF listed THEN MapSet(s.tokenHoldersMap, account, newBalance)
                   ELSE MapRemove(s.tokenHoldersMap, account)
           t == SharesFollow(s, account, newBalance)
<1>1. s \in Storage /\ shares \in Nat
  BY DEF StoreOK
<1>2. /\ u \in Storage
      /\ u.balanceOf = [s.balanceOf EXCEPT ![account] = shares]
      /\ AddsUp(u)
      /\ u.reserve = s.reserve
      /\ u.tokenHoldersMap = s.tokenHoldersMap
      /\ u.excludedFromDividends = s.excludedFromDividends
      /\ u.totalDividendsDistributed = s.totalDividendsDistributed
      /\ SamePayments(s, u)
      /\ SameCredit(s, u)
  <2>1. ~SetSharesReverts(s, account, shares)
    BY DEF SharesFollowReverts
  <2> HIDE DEF shares
  <2> QED  BY <1>1, <2>1, SetSharesFacts DEF StoreOK
<1>3. GoodMap(s.tokenHoldersMap)
  BY <1>1 DEF StoreOK, ListFollowsShares, GoodMap, Storage
<1>4. /\ GoodMap(list)
      /\ listed => /\ list.inserted = [s.tokenHoldersMap.inserted EXCEPT ![account] = TRUE]
                   /\ list.values = [s.tokenHoldersMap.values EXCEPT ![account] = newBalance]
      /\ ~listed => /\ list.inserted = [s.tokenHoldersMap.inserted EXCEPT ![account] = FALSE]
                    /\ list.values = [s.tokenHoldersMap.values EXCEPT ![account] = 0]
  <2>1. CASE listed
    <3>1. list = MapSet(s.tokenHoldersMap, account, newBalance)
      BY <2>1
    <3> HIDE DEF list, listed
    <3> QED  BY <1>3, <2>1, <3>1, MapSetGood
  <2>2. CASE ~listed
    <3>1. list = MapRemove(s.tokenHoldersMap, account)
      BY <2>2
    <3> HIDE DEF list, listed
    <3> QED  BY <1>3, <2>2, <3>1, MapRemoveGood
  <2> QED  BY <2>1, <2>2
<1>5. t = [u EXCEPT !.tokenHoldersMap = list]
  <2>1. CASE listed
    BY <1>2, <2>1 DEF SharesFollow
  <2>2. CASE ~listed
    BY <1>2, <2>2 DEF SharesFollow
  <2> QED  BY <2>1, <2>2
<1> HIDE DEF t, u, list
<1>6. /\ t \in Storage
      /\ t.tokenHoldersMap = list
      /\ t.balanceOf = [s.balanceOf EXCEPT ![account] = shares]
      /\ t.excludedFromDividends = s.excludedFromDividends
      /\ t.totalDividendsDistributed = s.totalDividendsDistributed
      /\ t.totalSupply = u.totalSupply /\ t.balanceOf = u.balanceOf
      /\ t.reserve = s.reserve
  BY <1>2, <1>4, <1>5 DEF Storage, GoodMap
<1>7. /\ SamePayments(s, t) /\ SameCredit(s, t)
      /\ SameTotals(s, t) /\ AddsUp(t)
  <2>1. SamePayments(s, t) /\ SameCredit(u, t) /\ SameCredit(s, t)
    BY <1>2, <1>5 DEF SamePayments, SameCredit, MagnifiedDividend, Storage
  <2>2. AddsUp(t)
    BY <1>2, <1>6, <2>1, SameSharesAddUp
  <2> QED  BY <1>6, <2>1, <2>2 DEF SameTotals, Sent, SamePayments
<1>8. ListFollowsShares(t)
  <2>1. WellFormed(t.tokenHoldersMap)
    BY <1>4, <1>6 DEF GoodMap
  <2>2. ASSUME NEW a \in Address
        PROVE  /\ a \in Holders(t) => /\ t.balanceOf[a] >= MinBalance
                                      /\ t.tokenHoldersMap.values[a] = t.balanceOf[a]
                                      /\ ~t.excludedFromDividends[a]
               /\ a \notin Holders(t) => t.balanceOf[a] = 0
    <3>1. CASE a = account
      <4>1. t.balanceOf[a] = shares /\ ~t.excludedFromDividends[a]
        BY <3>1, <1>1, <1>6 DEF Storage
      <4>2. CASE listed
        <5>1. /\ list.inserted[a]
              /\ list.values[a] = newBalance
          BY <3>1, <4>2, <1>3, <1>4 DEF GoodMap, MapType
        <5> QED  BY <4>1, <4>2, <5>1, <1>6 DEF Holders
      <4>3. CASE ~listed
        <5>1. ~list.inserted[a]
          BY <3>1, <4>3, <1>3, <1>4 DEF GoodMap, MapType
        <5> QED  BY <4>1, <4>3, <5>1, <1>6 DEF Holders
      <4> QED  BY <4>2, <4>3
    <3>2. CASE a # account
      <4>1. /\ t.balanceOf[a] = s.balanceOf[a]
            /\ t.excludedFromDividends[a] = s.excludedFromDividends[a]
        BY <3>2, <1>1, <1>6 DEF Storage
      <4>2. /\ list.values[a] = s.tokenHoldersMap.values[a]
            /\ list.inserted[a] = s.tokenHoldersMap.inserted[a]
        BY <3>2, <1>3, <1>4 DEF GoodMap, MapType
      <4>3. a \in Holders(t) <=> a \in Holders(s)
        BY <4>2, <1>6 DEF Holders
      <4> QED  BY <4>1, <4>2, <4>3, <1>6 DEF StoreOK, ListFollowsShares
    <3> QED  BY <3>1, <3>2
  <2> QED  BY <2>1, <2>2 DEF ListFollowsShares
<1>9. WithdrawnIsEarned(t) /\ t.received = t.withdrawnDividends
  BY <1>7, SameCreditSameBooks DEF StoreOK, SamePayments
<1> QED  BY <1>6, <1>7, <1>8, <1>9 DEF StoreOK, t

(* The same for excludeFromDividends (TokenDividendTracker.sol:59-67).     *)
LEMMA ExcludeFacts ==
  ASSUME NEW s, StoreOK(s), NEW account \in Address, ~ExcludeReverts(s, account)
  PROVE  LET t == Exclude(s, account)
         IN  /\ StoreOK(t)
             /\ SameCredit(s, t)
             /\ SamePayments(s, t)
             /\ SameTotals(s, t)
             /\ t.excludedFromDividends =
                  [s.excludedFromDividends EXCEPT ![account] = TRUE]
<1> DEFINE v == [s EXCEPT !.excludedFromDividends[account] = TRUE]
           u == SetShares(v, account, 0)
           list == MapRemove(s.tokenHoldersMap, account)
           t == Exclude(s, account)
<1>1. /\ s \in Storage
      /\ v \in Storage
      /\ v.balanceOf = s.balanceOf /\ v.totalSupply = s.totalSupply
      /\ v.reserve = s.reserve /\ AddsUp(s)
      /\ v.tokenHoldersMap = s.tokenHoldersMap
      /\ v.excludedFromDividends = [s.excludedFromDividends EXCEPT ![account] = TRUE]
      /\ v.totalDividendsDistributed = s.totalDividendsDistributed
  BY DEF StoreOK, Storage
<1>2. SamePayments(s, v) /\ SameCredit(s, v) /\ AddsUp(v)
  <2>1. SamePayments(s, v) /\ SameCredit(s, v)
    BY <1>1 DEF SamePayments, SameCredit, MagnifiedDividend, Storage
  <2> HIDE DEF v
  <2> QED  BY <1>1, <2>1, SameSharesAddUp
<1>3. ~SetSharesReverts(v, account, 0)
  BY <1>1 DEF ExcludeReverts, SetSharesReverts, Storage
<1> HIDE DEF v
<1>4. /\ u \in Storage
      /\ u.balanceOf = [v.balanceOf EXCEPT ![account] = 0]
      /\ AddsUp(u)
      /\ u.reserve = v.reserve
      /\ u.tokenHoldersMap = v.tokenHoldersMap
      /\ u.excludedFromDividends = v.excludedFromDividends
      /\ u.totalDividendsDistributed = v.totalDividendsDistributed
      /\ SamePayments(v, u)
      /\ SameCredit(v, u)
  BY <1>1, <1>2, <1>3, SetSharesFacts
<1>5. GoodMap(s.tokenHoldersMap)
  BY <1>1 DEF StoreOK, ListFollowsShares, GoodMap, Storage
<1>6. /\ GoodMap(list)
      /\ list.inserted = [s.tokenHoldersMap.inserted EXCEPT ![account] = FALSE]
      /\ list.values = [s.tokenHoldersMap.values EXCEPT ![account] = 0]
  BY <1>5, MapRemoveGood
<1>7. t = [u EXCEPT !.tokenHoldersMap = list]
  BY <1>1, <1>4 DEF Exclude, v
<1> HIDE DEF t, u, list
<1>8. /\ t \in Storage
      /\ t.tokenHoldersMap = list
      /\ t.balanceOf = [s.balanceOf EXCEPT ![account] = 0]
      /\ t.excludedFromDividends = [s.excludedFromDividends EXCEPT ![account] = TRUE]
      /\ t.totalDividendsDistributed = s.totalDividendsDistributed
      /\ t.totalSupply = u.totalSupply /\ t.balanceOf = u.balanceOf
      /\ t.totalDividendsDistributed = u.totalDividendsDistributed
      /\ t.reserve = s.reserve
  BY <1>1, <1>4, <1>6, <1>7 DEF Storage, GoodMap
<1>9. /\ SamePayments(s, t) /\ SameCredit(s, t)
      /\ SameTotals(s, t) /\ AddsUp(t)
  <2>1. SamePayments(u, t) /\ SameCredit(u, t)
    BY <1>4, <1>7 DEF SamePayments, SameCredit, MagnifiedDividend, Storage
  <2>2. SamePayments(s, t) /\ SameCredit(s, t)
    BY <1>2, <1>4, <2>1 DEF SamePayments, SameCredit
  <2>3. AddsUp(t)
    BY <1>4, <1>8, <2>1, SameSharesAddUp
  <2> QED  BY <1>8, <2>2, <2>3 DEF SameTotals, Sent, SamePayments
<1>10. ListFollowsShares(t)
  <2>1. WellFormed(t.tokenHoldersMap)
    BY <1>6, <1>8 DEF GoodMap
  <2>2. ASSUME NEW a \in Address
        PROVE  /\ a \in Holders(t) => /\ t.balanceOf[a] >= MinBalance
                                      /\ t.tokenHoldersMap.values[a] = t.balanceOf[a]
                                      /\ ~t.excludedFromDividends[a]
               /\ a \notin Holders(t) => t.balanceOf[a] = 0
    <3>1. CASE a = account
      <4>1. ~list.inserted[a]
        BY <3>1, <1>5, <1>6 DEF GoodMap, MapType
      <4>2. t.balanceOf[a] = 0
        BY <3>1, <1>1, <1>8 DEF Storage
      <4> QED  BY <4>1, <4>2, <1>8 DEF Holders
    <3>2. CASE a # account
      <4>1. /\ t.balanceOf[a] = s.balanceOf[a]
            /\ t.excludedFromDividends[a] = s.excludedFromDividends[a]
        BY <3>2, <1>1, <1>8 DEF Storage
      <4>2. /\ list.values[a] = s.tokenHoldersMap.values[a]
            /\ list.inserted[a] = s.tokenHoldersMap.inserted[a]
        BY <3>2, <1>5, <1>6 DEF GoodMap, MapType
      <4>3. a \in Holders(t) <=> a \in Holders(s)
        BY <4>2, <1>8 DEF Holders
      <4> QED  BY <4>1, <4>2, <4>3, <1>8 DEF StoreOK, ListFollowsShares
    <3> QED  BY <3>1, <3>2
  <2> QED  BY <2>1, <2>2 DEF ListFollowsShares
<1>11. WithdrawnIsEarned(t) /\ t.received = t.withdrawnDividends
  BY <1>9, SameCreditSameBooks DEF StoreOK, SamePayments
<1> QED  BY <1>8, <1>9, <1>10, <1>11 DEF StoreOK, t

(* t is s after account was paid all it had earned, or after no payment:   *)
(* nothing else that the invariant reads has changed.                      *)
PaidOrNot(s, t, account) ==
    /\ t.balanceOf = s.balanceOf /\ t.totalSupply = s.totalSupply
    /\ t.reserve + t.received[account] = s.reserve + s.received[account]
    /\ t.tokenHoldersMap = s.tokenHoldersMap
    /\ t.totalDividendsDistributed = s.totalDividendsDistributed
    /\ t.claimWait = s.claimWait
    /\ t.excludedFromDividends = s.excludedFromDividends
    /\ SameCredit(s, t)
    /\ \/ t.received = s.received
       \/ t.received = [s.received EXCEPT ![account] = accumulativeDividendOf(s, account)]

(* The reward token moves no more than the contract holds.                 *)
Covered(s, account, result) ==
    result = "moves" => withdrawableDividendOf(s, account) <= s.reserve

(* _withdrawDividendOfUser (DividendPayingToken.sol:101-117).              *)
LEMMA WithdrawFacts ==
  ASSUME NEW s, StoreOK(s), NEW account \in Address,
         NEW result, Covered(s, account, result)
  PROVE  LET t == Withdraw(s, account, result)
         IN  /\ StoreOK(t)
             /\ PaidOrNot(s, t, account)
             /\ t.lastClaimTimes = s.lastClaimTimes
             /\ Withdrawn(s, account, result) > 0 =>
                   t.received[account] # s.received[account]
<1> DEFINE amount == withdrawableDividendOf(s, account)
           earned == accumulativeDividendOf(s, account)
           t == Withdraw(s, account, result)
<1>1. s \in Storage /\ earned \in Int
  BY EarningsAreIntegers DEF StoreOK
<1>2. s.withdrawnDividends[account] \in Nat
  BY <1>1 DEF Storage
<1>3. /\ amount \in Nat
      /\ s.withdrawnDividends[account] + amount = earned
      /\ amount = 0 => s.withdrawnDividends[account] = earned
      /\ s.withdrawnDividends[account] + amount - amount = s.withdrawnDividends[account]
  BY <1>1, <1>2 DEF StoreOK, WithdrawnIsEarned, withdrawableDividendOf
<1>4. result = "moves" => amount <= s.reserve
  BY DEF Covered
<1> HIDE DEF amount, earned
<1>5. CASE amount > 0 /\ result = "moves"
  <2> DEFINE rest == s.reserve - amount
  <2>1. /\ s.received[account] + amount = earned
        /\ s.withdrawnDividends[account] + amount = earned
        /\ earned \in Nat
        /\ rest \in Nat
        /\ rest + earned = s.reserve + s.received[account]
    <3>1. s.received = s.withdrawnDividends /\ s.reserve \in Nat
      BY <1>1 DEF StoreOK, Storage
    <3> QED  BY <3>1, <1>2, <1>3, <1>4, <1>5
  <2>2. t = [s EXCEPT !.withdrawnDividends[account] = earned,
                      !.reserve = rest,
                      !.received[account] = earned]
    <3> DEFINE booked == [s EXCEPT !.withdrawnDividends[account] = @ + amount]
    <3>1. t = TransferTo(booked, account, amount)
      BY <1>3, <1>5 DEF Withdraw, amount
    <3>2. booked = [s EXCEPT !.withdrawnDividends[account] = earned]
      BY <1>1, <2>1 DEF Storage
    <3> HIDE DEF t
    <3> QED  BY <1>1, <2>1, <3>1, <3>2 DEF TransferTo, Storage
  <2> HIDE DEF t, rest
  <2>3. /\ t \in Storage
        /\ t.withdrawnDividends = [s.withdrawnDividends EXCEPT ![account] = earned]
        /\ t.received = [s.received EXCEPT ![account] = earned]
        /\ t.tokenHoldersMap = s.tokenHoldersMap
        /\ t.balanceOf = s.balanceOf
        /\ t.totalSupply = s.totalSupply
        /\ t.reserve + t.received[account] = s.reserve + s.received[account]
        /\ t.excludedFromDividends = s.excludedFromDividends
        /\ t.totalDividendsDistributed = s.totalDividendsDistributed
        /\ t.claimWait = s.claimWait
        /\ t.lastClaimTimes = s.lastClaimTimes
    BY <1>1, <2>1, <2>2 DEF Storage
  <2>4. SameCredit(s, t) /\ AddsUp(t)
    <3>1. SameCredit(s, t)
      BY <1>1, <2>2 DEF SameCredit, MagnifiedDividend, Storage
    <3> QED  BY <1>1, <2>3, <3>1, SameSharesAddUp DEF StoreOK
  <2>5. ListFollowsShares(t)
    BY <2>3 DEF StoreOK, ListFollowsShares, Holders
  <2>6. WithdrawnIsEarned(t)
    <3> SUFFICES ASSUME NEW a \in Address
                 PROVE  t.withdrawnDividends[a] <= accumulativeDividendOf(t, a)
      BY DEF WithdrawnIsEarned
    <3>1. accumulativeDividendOf(t, a) = accumulativeDividendOf(s, a)
      BY <2>4 DEF SameCredit, accumulativeDividendOf
    <3>2. CASE a = account
      BY <3>1, <3>2, <2>3, <1>1 DEF earned, Storage
    <3>3. CASE a # account
      BY <3>1, <3>3, <2>3, <1>1 DEF StoreOK, WithdrawnIsEarned, Storage
    <3> QED  BY <3>2, <3>3
  <2>7. t.received[account] # s.received[account]
    <3>1. t.received[account] = earned /\ s.received[account] \in Nat
      BY <1>1, <2>3 DEF Storage
    <3> QED  BY <3>1, <2>1, <1>3, <1>5
  <2>8. t.received = t.withdrawnDividends
    BY <2>3 DEF StoreOK
  <2> QED  BY <2>3, <2>4, <2>5, <2>6, <2>7, <2>8 DEF StoreOK, PaidOrNot, earned, t
<1>6. CASE amount = 0 \/ result # "moves"
  <2>1. t = s
    <3>1. CASE amount = 0
      BY <3>1 DEF Withdraw, amount
    <3>2. CASE amount # 0
      <4> DEFINE booked == [s EXCEPT !.withdrawnDividends[account] = @ + amount]
      <4>1. t = [booked EXCEPT !.withdrawnDividends[account] = @ - amount]
        BY <1>6, <3>2 DEF Withdraw, amount
      <4>2. booked.withdrawnDividends[account] - amount = s.withdrawnDividends[account]
        BY <1>1, <1>3 DEF Storage
      <4>3. t = [s EXCEPT !.withdrawnDividends[account] = s.withdrawnDividends[account]]
        BY <1>1, <4>1, <4>2 DEF Storage
      <4> HIDE DEF t
      <4> QED  BY <1>1, <4>3 DEF Storage
    <3> QED  BY <3>1, <3>2
  <2>2. SameCredit(s, s)
    BY DEF SameCredit
  <2>3. ~(Withdrawn(s, account, result) > 0)
    BY <1>6 DEF Withdrawn, amount
  <2> QED  BY <2>1, <2>2, <2>3 DEF PaidOrNot
<1> QED  BY <1>3, <1>5, <1>6

(* processAccount (TokenDividendTracker.sol:216-226): the claim time moves *)
(* only with a payment.                                                    *)
LEMMA ProcessAccountFacts ==
  ASSUME NEW s, StoreOK(s), NEW account \in Address,
         NEW result, Covered(s, account, result), NEW now \in Nat
  PROVE  LET t == ProcessAccount(s, account, result, now)
         IN  /\ StoreOK(t)
             /\ PaidOrNot(s, t, account)
             /\ \A a \in Address : t.received[a] = s.received[a] =>
                                     t.lastClaimTimes[a] = s.lastClaimTimes[a]
<1> DEFINE after == Withdraw(s, account, result)
           t == ProcessAccount(s, account, result, now)
<1>1. /\ StoreOK(after)
      /\ PaidOrNot(s, after, account)
      /\ after.lastClaimTimes = s.lastClaimTimes
      /\ Withdrawn(s, account, result) > 0 => after.received[account] # s.received[account]
  BY WithdrawFacts
<1> HIDE DEF after
<1>2. CASE Withdrawn(s, account, result) > 0
  <2>1. t = [after EXCEPT !.lastClaimTimes[account] = now]
    BY <1>2 DEF ProcessAccount, after
  <2> HIDE DEF t
  <2>2. after \in Storage
    BY <1>1 DEF StoreOK
  <2>3. /\ t \in Storage
        /\ t.lastClaimTimes = [after.lastClaimTimes EXCEPT ![account] = now]
        /\ t.received = after.received
        /\ t.withdrawnDividends = after.withdrawnDividends
        /\ t.balanceOf = after.balanceOf
        /\ t.totalSupply = after.totalSupply
        /\ t.reserve = after.reserve
        /\ t.magnifiedDividendPerShare = after.magnifiedDividendPerShare
        /\ t.magnifiedDividendCorrections = after.magnifiedDividendCorrections
        /\ t.tokenHoldersMap = after.tokenHoldersMap
        /\ t.excludedFromDividends = after.excludedFromDividends
        /\ t.totalDividendsDistributed = after.totalDividendsDistributed
        /\ t.claimWait = after.claimWait
    BY <2>1, <2>2 DEF Storage
  <2>4. SameCredit(after, t) /\ SamePayments(after, t)
    BY <2>3 DEF SameCredit, SamePayments, MagnifiedDividend
  <2>5. StoreOK(t)
    <3>1. ListFollowsShares(t)
      BY <1>1, <2>3 DEF StoreOK, ListFollowsShares, Holders
    <3>2. WithdrawnIsEarned(t) /\ t.received = t.withdrawnDividends
      BY <1>1, <2>3, <2>4, SameCreditSameBooks DEF StoreOK
    <3>3. AddsUp(t)
      BY <1>1, <2>2, <2>3, <2>4, SameSharesAddUp DEF StoreOK
    <3> QED  BY <2>3, <3>1, <3>2, <3>3 DEF StoreOK
  <2>6. PaidOrNot(s, t, account)
    BY <1>1, <2>3, <2>4 DEF PaidOrNot, SameCredit
  <2>7. ASSUME NEW a \in Address, t.received[a] = s.received[a]
        PROVE  t.lastClaimTimes[a] = s.lastClaimTimes[a]
    <3>1. a # account
      BY <1>1, <1>2, <2>3, <2>7
    <3> QED  BY <3>1, <1>1, <2>2, <2>3 DEF Storage
  <2> QED  BY <2>5, <2>6, <2>7 DEF t
<1>3. CASE ~(Withdrawn(s, account, result) > 0)
  BY <1>1, <1>3 DEF ProcessAccount, after
<1> QED  BY <1>2, <1>3

(* What is left to withdraw, by what was received.                         *)
LEMMA DueIsUnreceived ==
  ASSUME NEW s, StoreOK(s), NEW a \in Address
  PROVE  /\ withdrawableDividendOf(s, a) = accumulativeDividendOf(s, a) - s.received[a]
         /\ withdrawableDividendOf(s, a) \in Nat
         /\ accumulativeDividendOf(s, a) \in Int /\ s.received[a] \in Nat
<1>1. /\ s.received[a] = s.withdrawnDividends[a] /\ s.received[a] \in Nat
      /\ s.withdrawnDividends[a] <= accumulativeDividendOf(s, a)
  BY DEF StoreOK, Storage, WithdrawnIsEarned
<1>2. accumulativeDividendOf(s, a) \in Int
  BY EarningsAreIntegers DEF StoreOK
<1> QED  BY <1>1, <1>2 DEF withdrawableDividendOf

(* Who is owed nothing is owed nothing after anybody's payment.            *)
LEMMA SettledStaysSettled ==
  ASSUME NEW s, StoreOK(s), NEW t, StoreOK(t), NEW account \in Address,
         PaidOrNot(s, t, account), NEW a \in Address, withdrawableDividendOf(s, a) = 0
  PROVE  withdrawableDividendOf(t, a) = 0
<1>1. /\ accumulativeDividendOf(t, a) = accumulativeDividendOf(s, a)
      /\ \/ t.received[a] = s.received[a]
         \/ t.received[a] = accumulativeDividendOf(s, a)
  BY DEF PaidOrNot, SameCredit, accumulativeDividendOf, StoreOK, Storage
<1>2. s.received[a] = accumulativeDividendOf(s, a)
  BY DueIsUnreceived
<1> QED  BY <1>1, <1>2, DueIsUnreceived

(* A payment that the reward token makes settles the account.              *)
LEMMA PaymentSettles ==
  ASSUME NEW s, StoreOK(s), NEW account \in Address, NEW result,
         Covered(s, account, result), NEW now \in Nat,
         result = "moves" \/ withdrawableDividendOf(s, account) = 0
  PROVE  withdrawableDividendOf(ProcessAccount(s, account, result, now), account) = 0
<1> DEFINE u == Withdraw(s, account, result)
           t == ProcessAccount(s, account, result, now)
<1>1. /\ StoreOK(u)
      /\ Withdrawn(s, account, result) > 0 => u.received[account] # s.received[account]
  BY WithdrawFacts
<1>2. StoreOK(t) /\ PaidOrNot(s, t, account)
  BY ProcessAccountFacts
<1>3. t.received = u.received
  <2>1. u \in Storage /\ (t = u \/ t = [u EXCEPT !.lastClaimTimes[account] = now])
    BY <1>1 DEF StoreOK, ProcessAccount
  <2> HIDE DEF u, t
  <2> QED  BY <2>1 DEF Storage
<1> HIDE DEF u, t
<1>4. CASE withdrawableDividendOf(s, account) = 0
  BY <1>2, <1>4, SettledStaysSettled DEF t
<1>5. CASE withdrawableDividendOf(s, account) # 0
  <2>1. Withdrawn(s, account, result) > 0
    BY <1>5, DueIsUnreceived DEF Withdrawn
  <2>2. t.received[account] = accumulativeDividendOf(s, account)
    BY <1>1, <1>2, <1>3, <2>1 DEF PaidOrNot, StoreOK, Storage
  <2>3. accumulativeDividendOf(t, account) = accumulativeDividendOf(s, account)
    BY <1>2 DEF PaidOrNot, SameCredit, accumulativeDividendOf
  <2>4. withdrawableDividendOf(t, account) = 0
    BY <1>2, <2>2, <2>3, DueIsUnreceived
  <2> QED  BY <2>4 DEF t
<1> QED  BY <1>4, <1>5

(* t is s after holders have earned something, and nobody was paid.        *)
Earns(s, t) ==
    /\ t.received = s.received
    /\ \A a \in Address :
          \/ MagnifiedDividend(t, a) = MagnifiedDividend(s, a)
          \/ /\ MagnifiedDividend(t, a) > MagnifiedDividend(s, a)
             /\ t.totalDividendsDistributed > s.totalDividendsDistributed
             /\ a \in Holders(s)

(* t is s after some accounts were paid all they had earned.               *)
Pays(s, t) ==
    /\ SameCredit(s, t)
    /\ \A a \in Address : \/ t.received[a] = s.received[a]
                          \/ t.received[a] = accumulativeDividendOf(s, a)

(* _distributeDividends (DividendPayingToken.sol:80-91) takes earnings away *)
(* from nobody, gives some only to accounts with shares, and pays nobody.  *)
LEMMA DistributeFacts ==
  ASSUME NEW s, StoreOK(s), NEW amount \in Nat, ~DistributeReverts(s, amount)
  PROVE  LET t == Distribute(s, amount)
         IN  /\ StoreOK(t) /\ Earns(s, t)
             /\ t.excludedFromDividends = s.excludedFromDividends
             /\ t.totalDividendsDistributed = s.totalDividendsDistributed + amount
             /\ Sent(t) = Sent(s)
<1> DEFINE share == PerShare(s, amount)
           t == Distribute(s, amount)
<1>1. /\ s \in Storage
      /\ s.totalSupply \in Nat /\ s.totalSupply # 0
      /\ s.totalDividendsDistributed \in Nat
      /\ s.magnifiedDividendPerShare \in Nat
  BY DEF StoreOK, DistributeReverts, Storage
<1>2. share \in Nat /\ share * s.totalSupply <= Magnitude * amount
  <2>1. amount * Magnitude \in Nat /\ amount * Magnitude = Magnitude * amount
    BY MagnitudeAssumption, ProductOfNats
  <2> DEFINE whole == amount * Magnitude
             parts == s.totalSupply
  <2>2. share = whole \div parts /\ whole \in Nat /\ parts \in Nat \ {0}
    BY <2>1, <1>1 DEF PerShare
  <2> HIDE DEF whole, parts, share
  <2>3. share \in Nat /\ share * parts <= whole
    BY <2>2
  <2> QED  BY <2>1, <2>3 DEF whole, parts
<1>3. amount = 0 => share = 0
  <2> SUFFICES ASSUME amount = 0 PROVE share = 0
    OBVIOUS
  <2>1. share = 0 \div s.totalSupply
    BY MagnitudeAssumption DEF PerShare
  <2>2. \A n \in Nat : n # 0 => 0 \div n = 0
    OBVIOUS
  <2> HIDE DEF share
  <2> QED  BY <2>1, <2>2, <1>1
<1> DEFINE perShare == s.magnifiedDividendPerShare + share
           total == s.totalDividendsDistributed + amount
<1>4. /\ t = [s EXCEPT !.magnifiedDividendPerShare = perShare,
                       !.totalDividendsDistributed = total]
      /\ perShare \in Nat
      /\ total \in Nat
  BY <1>1, <1>2 DEF Distribute
<1> HIDE DEF share, t, perShare, total
<1>5. /\ t \in Storage
      /\ t.magnifiedDividendPerShare = perShare
      /\ t.magnifiedDividendCorrections = s.magnifiedDividendCorrections
      /\ t.totalDividendsDistributed = total
      /\ t.received = s.received
      /\ t.withdrawnDividends = s.withdrawnDividends
      /\ t.balanceOf = s.balanceOf
      /\ t.totalSupply = s.totalSupply
      /\ t.reserve = s.reserve
      /\ t.tokenHoldersMap = s.tokenHoldersMap
      /\ t.excludedFromDividends = s.excludedFromDividends
  BY <1>1, <1>4 DEF Storage
<1>6. ASSUME NEW a \in Address
      PROVE  /\ MagnifiedDividend(t, a) = MagnifiedDividend(s, a) + share * s.balanceOf[a]
             /\ share * s.balanceOf[a] \in Nat
  <2>1. s.balanceOf[a] \in Nat /\ s.magnifiedDividendCorrections[a] \in Int
    BY <1>1 DEF Storage
  <2> QED  BY <1>1, <1>2, <1>5, <2>1, ProductOfNats DEF MagnifiedDividend, perShare
<1>7. ListFollowsShares(t)
  BY <1>5 DEF StoreOK, ListFollowsShares, Holders
<1>8. WithdrawnIsEarned(t)
  <2> SUFFICES ASSUME NEW a \in Address
               PROVE  t.withdrawnDividends[a] <= accumulativeDividendOf(t, a)
    BY DEF WithdrawnIsEarned
  <2>1. MagnifiedDividend(s, a) <= MagnifiedDividend(t, a)
    BY <1>1, <1>6, EarningsAreIntegers
  <2>2. accumulativeDividendOf(s, a) <= accumulativeDividendOf(t, a)
    BY <1>1, <1>5, <2>1, EarningsAreIntegers, DivisionIsMonotonic DEF accumulativeDividendOf
  <2>3. t.withdrawnDividends[a] \in Nat /\ s.withdrawnDividends[a] <= accumulativeDividendOf(s, a)
    BY <1>5 DEF Storage, StoreOK, WithdrawnIsEarned
  <2> QED  BY <1>1, <1>5, <2>2, <2>3, EarningsAreIntegers
<1>9. ASSUME NEW a \in Address
      PROVE  \/ MagnifiedDividend(t, a) = MagnifiedDividend(s, a)
             \/ /\ MagnifiedDividend(t, a) > MagnifiedDividend(s, a)
                /\ t.totalDividendsDistributed > s.totalDividendsDistributed
                /\ a \in Holders(s)
  <2>1. MagnifiedDividend(s, a) \in Int
    BY <1>1, EarningsAreIntegers
  <2>2. CASE share = 0 \/ s.balanceOf[a] = 0
    <3>1. share * s.balanceOf[a] = 0
      BY <2>2, <1>1, <1>2 DEF Storage
    <3> QED  BY <3>1, <2>1, <1>6
  <2>3. CASE share # 0 /\ s.balanceOf[a] # 0
    <3>1. share * s.balanceOf[a] > 0
      BY <2>3, <1>1, <1>2 DEF Storage
    <3>2. a \in Holders(s)
      BY <2>3 DEF StoreOK, ListFollowsShares
    <3>3. t.totalDividendsDistributed > s.totalDividendsDistributed
      BY <2>3, <1>1, <1>3, <1>5 DEF total
    <3> QED  BY <3>1, <3>2, <3>3, <2>1, <1>6
  <2> QED  BY <2>2, <2>3
<1>10. AddsUp(t)
  <2> DEFINE f == [a \in Address |-> MagnifiedDividend(s, a)]
             g == s.balanceOf
             h == [a \in Address |-> MagnifiedDividend(t, a)]
  <2>1. /\ \A a \in Address : f[a] \in Int /\ g[a] \in Int
        /\ \A a \in Address : h[a] = f[a] + share * g[a]
        /\ DOMAIN f = Address /\ DOMAIN g = Address /\ DOMAIN h = Address
    BY <1>1, <1>6, EarningsAreIntegers DEF Storage
  <2>2. Credited(s) = SumFunctionOnSet(f, Address) /\ Credited(t) = SumFunctionOnSet(h, Address)
    BY DEF Credited, SumFunction
  <2>3. s.totalSupply = SumFunctionOnSet(g, Address)
    BY <2>1, SumOverAccounts DEF StoreOK, AddsUp
  <2> HIDE DEF f, g, h
  <2>4. SumFunctionOnSet(h, Address)
           = SumFunctionOnSet(f, Address) + share * SumFunctionOnSet(g, Address)
    BY <1>2, <2>1, AddressesAreFinite, SumOfSums
  <2>5. SumFunctionOnSet(f, Address) \in Int
    BY <2>1, AddressesAreFinite, SumIsInt
  <2>6. /\ Credited(s) <= Magnitude * s.totalDividendsDistributed
        /\ t.totalSupply = SumFunction(t.balanceOf)
    BY <1>5 DEF StoreOK, AddsUp
  <2>7. Magnitude * total = Magnitude * s.totalDividendsDistributed + Magnitude * amount
    BY <1>1, MagnitudeAssumption DEF total
  <2>8. Credited(t) <= Magnitude * t.totalDividendsDistributed
    <3> DEFINE more == share * s.totalSupply
               old  == Magnitude * s.totalDividendsDistributed
               new  == Magnitude * amount
    <3>1. more \in Nat /\ old \in Nat /\ new \in Nat /\ more <= new
      BY <1>1, <1>2, MagnitudeAssumption, ProductOfNats
    <3>2. Credited(t) = Credited(s) + more /\ Credited(s) \in Int /\ Credited(s) <= old
      BY <2>2, <2>3, <2>4, <2>5, <2>6
    <3>3. Magnitude * t.totalDividendsDistributed = old + new
      BY <1>5, <2>7
    <3> HIDE DEF more, old, new
    <3> QED  BY <3>1, <3>2, <3>3
  <2> QED  BY <2>6, <2>8 DEF AddsUp
<1>11. StoreOK(t)
  BY <1>5, <1>7, <1>8, <1>10 DEF StoreOK
<1> QED  BY <1>5, <1>9, <1>11 DEF Earns, Sent, t, total

(* A payment to one account, or to none, is a payment to some accounts.    *)
LEMMA PaidOrNotPays ==
  ASSUME NEW s \in Storage, NEW t, NEW account \in Address, PaidOrNot(s, t, account)
  PROVE  Pays(s, t)
  BY DEF PaidOrNot, Pays, Storage

(* A payment moves rewards out of the reserve and creates none.            *)
LEMMA PaidOrNotTotals ==
  ASSUME NEW s \in Storage, NEW t \in Storage, NEW account \in Address,
         PaidOrNot(s, t, account)
  PROVE  SameTotals(s, t)
<1>1. s.received \in [Address -> Nat] /\ t.received \in [Address -> Nat]
      /\ s.reserve \in Nat /\ t.reserve \in Nat
  BY DEF Storage
<1>2. t.received = [s.received EXCEPT ![account] = t.received[account]]
  BY <1>1 DEF PaidOrNot
<1>3. /\ SumFunction(t.received)
            = SumFunction(s.received) + (t.received[account] - s.received[account])
      /\ SumFunction(s.received) \in Int
  BY <1>1, <1>2, SumOfOneChange
<1> QED  BY <1>1, <1>3 DEF SameTotals, Sent, PaidOrNot

(* t differs from s in nothing the invariant reads.                        *)
SameBooks(s, t) ==
    /\ t.balanceOf = s.balanceOf /\ t.totalSupply = s.totalSupply
    /\ t.totalDividendsDistributed = s.totalDividendsDistributed
    /\ t.magnifiedDividendPerShare = s.magnifiedDividendPerShare
    /\ t.magnifiedDividendCorrections = s.magnifiedDividendCorrections
    /\ t.withdrawnDividends = s.withdrawnDividends
    /\ t.received = s.received
    /\ t.tokenHoldersMap = s.tokenHoldersMap
    /\ t.excludedFromDividends = s.excludedFromDividends

(* Then t is as good as s.                                                 *)
LEMMA SameBooksFacts ==
  ASSUME NEW s, StoreOK(s), NEW t \in Storage, SameBooks(s, t)
  PROVE  StoreOK(t) /\ Pays(s, t)
<1>1. SameCredit(s, t) /\ SamePayments(s, t)
  BY DEF SameBooks, SameCredit, SamePayments, MagnifiedDividend
<1>2. ListFollowsShares(t)
  BY DEF StoreOK, SameBooks, ListFollowsShares, Holders
<1>3. WithdrawnIsEarned(t) /\ t.received = t.withdrawnDividends
  BY <1>1, SameCreditSameBooks DEF StoreOK, SamePayments
<1>4. AddsUp(t)
  BY <1>1, SameSharesAddUp DEF StoreOK, SameBooks
<1> QED  BY <1>1, <1>2, <1>3, <1>4 DEF StoreOK, Pays, SamePayments

(* setBalance (TokenDividendTracker.sol:152-167): the balance changes, then *)
(* the account is paid.                                                    *)
LEMMA SetBalanceFacts ==
  ASSUME NEW s, StoreOK(s), NEW account \in Address, NEW newBalance \in Nat,
         NEW result, NEW now \in Nat, ~SetBalanceReverts(s, account, newBalance, result),
         ~s.excludedFromDividends[account]
            => Covered(SharesFollow(s, account, newBalance), account, result)
  PROVE  LET t == SetBalance(s, account, newBalance, result, now)
         IN  /\ StoreOK(t) /\ Pays(s, t) /\ SameTotals(s, t)
             /\ t.excludedFromDividends = s.excludedFromDividends
<1> DEFINE u == SharesFollow(s, account, newBalance)
           t == SetBalance(s, account, newBalance, result, now)
<1>1. CASE s.excludedFromDividends[account]
  <2>1. t = s
    BY <1>1 DEF SetBalance
  <2> QED  BY <2>1 DEF Pays, SameCredit, SameTotals
<1>2. CASE ~s.excludedFromDividends[account]
  <2>1. t = ProcessAccount(u, account, result, now)
    BY <1>2 DEF SetBalance
  <2>2. /\ StoreOK(u) /\ SameCredit(s, u) /\ SamePayments(s, u) /\ SameTotals(s, u)
        /\ u.excludedFromDividends = s.excludedFromDividends
    BY <1>2, SharesFollowFacts DEF SetBalanceReverts
  <2> HIDE DEF u, t
  <2>3. StoreOK(t) /\ PaidOrNot(u, t, account)
    BY <1>2, <2>1, <2>2, ProcessAccountFacts DEF u
  <2>4. Pays(u, t)
    BY <2>2, <2>3, PaidOrNotPays DEF StoreOK
  <2>5. Pays(s, t)
    BY <2>2, <2>4, SameCreditSameBooks DEF Pays, SameCredit, SamePayments
  <2>6. SameTotals(u, t)
    BY <2>2, <2>3, PaidOrNotTotals DEF StoreOK
  <2> QED  BY <2>2, <2>3, <2>5, <2>6 DEF t, PaidOrNot, SameTotals
<1> QED  BY <1>1, <1>2

----------------------------------------------------------------------------
(* The storage of a proxy just initialized is good.                        *)
LEMMA InitialStorageOK == StoreOK(InitialStorage)
<1>1. InitialStorage \in Storage
  BY EmptyMapGood DEF InitialStorage, Storage, GoodMap
<1>2. ListFollowsShares(InitialStorage)
  BY EmptyMapGood DEF InitialStorage, ListFollowsShares, Holders, EmptyMap, GoodMap
<1>3. WithdrawnIsEarned(InitialStorage)
  <2> SUFFICES ASSUME NEW a \in Address
               PROVE  0 <= accumulativeDividendOf(InitialStorage, a)
    BY DEF WithdrawnIsEarned, InitialStorage
  <2>1. MagnifiedDividend(InitialStorage, a) = 0
    BY DEF MagnifiedDividend, InitialStorage
  <2>2. 0 \div Magnitude = 0
    BY MagnitudeAssumption
  <2> QED  BY <2>1, <2>2 DEF accumulativeDividendOf
<1>4. InitialStorage.received = InitialStorage.withdrawnDividends
  BY DEF InitialStorage
<1>5. AddsUp(InitialStorage)
  <2> DEFINE f == [a \in Address |-> 0]
             h == [a \in Address |-> MagnifiedDividend(InitialStorage, a)]
  <2>1. /\ InitialStorage.balanceOf = f /\ InitialStorage.totalSupply = 0
        /\ InitialStorage.totalDividendsDistributed = 0
        /\ \A a \in Address : h[a] = 0 /\ f[a] = 0
        /\ DOMAIN f = Address /\ DOMAIN h = Address
    BY DEF InitialStorage, MagnifiedDividend
  <2>2. Credited(InitialStorage) = SumFunctionOnSet(h, Address)
    BY DEF Credited, SumFunction
  <2> HIDE DEF f, h
  <2>3. SumFunctionOnSet(h, Address) = 0 /\ SumFunctionOnSet(f, Address) = 0
    BY <2>1, AddressesAreFinite, SumOfZeros
  <2> QED  BY <2>1, <2>2, <2>3, SumOverAccounts, MagnitudeAssumption DEF AddsUp
<1> QED  BY <1>1, <1>2, <1>3, <1>4, <1>5 DEF StoreOK

(* Reward tokens that arrive leave a storage of the right type.            *)
LEMMA ReserveGrows ==
  ASSUME NEW s \in Storage, NEW amount \in Nat
  PROVE  [s EXCEPT !.reserve = @ + amount] \in Storage
<1>1. s.reserve + amount \in Nat
  BY DEF Storage
<1> DEFINE sum == s.reserve + amount
<1> HIDE DEF sum
<1>2. [s EXCEPT !.reserve = sum] \in Storage
  BY <1>1 DEF Storage, sum
<1> QED  BY <1>2 DEF sum

(* The number of holders is a number.                                      *)
LEMMA SizesAreNats ==
  ASSUME NEW s \in Storage
  PROVE  MapSize(s.tokenHoldersMap) \in Nat
<1>1. s.tokenHoldersMap \in MapType
  BY DEF Storage
<1>2. s.tokenHoldersMap.keys \in Seq(Address)
  BY <1>1 DEF MapType
<1> QED  BY <1>2 DEF MapSize

(* What was sent is a number.                                              *)
LEMMA SentIsAnInteger ==
  ASSUME NEW s \in Storage
  PROVE  Sent(s) \in Int /\ SumFunction(s.received) \in Int
<1>1. s.reserve \in Nat /\ DOMAIN s.received = Address
      /\ \A a \in Address : s.received[a] \in Int
  BY DEF Storage
<1>2. SumFunctionOnSet(s.received, Address) \in Int
  BY <1>1, AddressesAreFinite, SumIsInt
<1>3. SumFunction(s.received) \in Int
  BY <1>1, <1>2, SumOverAccounts
<1> QED  BY <1>1, <1>3 DEF Sent

(* Nothing was sent to the tracker before its first day, or distributed.   *)
LEMMA NothingSentYet ==
  InitialStorage.totalDividendsDistributed = 0 /\ Sent(InitialStorage) = 0
<1> DEFINE none == [a \in Address |-> 0]
<1>1. /\ InitialStorage.totalDividendsDistributed = 0
      /\ InitialStorage.reserve = 0 /\ InitialStorage.received = none
      /\ DOMAIN none = Address /\ \A a \in Address : none[a] = 0
  BY DEF InitialStorage
<1> HIDE DEF none
<1>2. SumFunctionOnSet(none, Address) = 0
  BY <1>1, AddressesAreFinite, SumOfZeros
<1>3. SumFunction(none) = 0
  BY <1>1, <1>2, SumOverAccounts
<1> QED  BY <1>1, <1>3 DEF Sent

(* What all accounts have earned, fractions left out, was distributed.     *)
LEMMA EarningsWereDistributed ==
  ASSUME NEW s, StoreOK(s)
  PROVE  LET earned == SumFunctionOnSet([a \in Address |-> accumulativeDividendOf(s, a)],
                                        Address)
         IN  earned \in Int /\ earned <= s.totalDividendsDistributed
<1> DEFINE none   == [a \in Address |-> 0]
           credit == [a \in Address |-> MagnifiedDividend(s, a)]
           e      == [a \in Address |-> accumulativeDividendOf(s, a)]
           scaled == [a \in Address |-> Magnitude * e[a]]
           earned == SumFunctionOnSet(e, Address)
           total  == s.totalDividendsDistributed
<1>1. s \in Storage /\ total \in Nat /\ Magnitude \in Nat \ {0} /\ Magnitude \in Int
  BY MagnitudeAssumption DEF StoreOK, Storage
<1>2. \A a \in Address : credit[a] \in Int /\ e[a] \in Int /\ none[a] = 0 /\ none[a] \in Int
  BY <1>1, EarningsAreIntegers
<1>3. \A a \in Address : scaled[a] = none[a] + Magnitude * e[a]
  BY <1>1, <1>2
<1>4. \A a \in Address : scaled[a] \in Int /\ scaled[a] <= credit[a]
  <2> SUFFICES ASSUME NEW a \in Address
               PROVE  scaled[a] \in Int /\ scaled[a] <= credit[a]
    OBVIOUS
  <2>1. MagnifiedDividend(s, a) \in Int
    BY <1>1, EarningsAreIntegers
  <2>2. scaled[a] = Magnitude * (MagnifiedDividend(s, a) \div Magnitude)
    BY DEF accumulativeDividendOf
  <2>3. \A x \in Int : Magnitude * (x \div Magnitude) \in Int
                        /\ Magnitude * (x \div Magnitude) <= x
    BY <1>1
  <2> QED  BY <2>1, <2>2, <2>3
<1>5. Credited(s) = SumFunctionOnSet(credit, Address)
  BY DEF Credited, SumFunction
<1> HIDE DEF none, credit, e, scaled
<1>6. SumFunctionOnSet(none, Address) = 0
  BY <1>2, AddressesAreFinite, SumOfZeros
<1>7. earned \in Int
  BY <1>2, AddressesAreFinite, SumIsInt
<1>8. SumFunctionOnSet(scaled, Address)
         = SumFunctionOnSet(none, Address) + Magnitude * earned
  BY <1>1, <1>2, <1>3, AddressesAreFinite, SumOfSums
<1>9. SumFunctionOnSet(scaled, Address) <= SumFunctionOnSet(credit, Address)
  BY <1>2, <1>4, AddressesAreFinite, SumIsMonotonic
<1>10. SumFunctionOnSet(credit, Address) \in Int
  BY <1>2, AddressesAreFinite, SumIsInt
<1>11. Credited(s) <= Magnitude * total
  BY DEF StoreOK, AddsUp
<1> HIDE DEF earned
<1>12. Magnitude * earned <= Magnitude * total
  <2>1. Magnitude * earned \in Int /\ Magnitude * total \in Int
    BY <1>1, <1>7
  <2> QED  BY <2>1, <1>5, <1>6, <1>8, <1>9, <1>10, <1>11
<1>13. earned <= total
  BY <1>1, <1>7, <1>12, Cancel
<1> QED  BY <1>7, <1>13 DEF earned, e

(* If no more was distributed than was sent, the tracker can pay everyone. *)
LEMMA BackedIsSolvent ==
  ASSUME NEW s, StoreOK(s), Backed(s)
  PROVE  SumFunction([a \in Address |-> withdrawableDividendOf(s, a)]) <= s.reserve
<1> DEFINE e      == [a \in Address |-> accumulativeDividendOf(s, a)]
           due    == [a \in Address |-> withdrawableDividendOf(s, a)]
           r      == s.received
           earned == SumFunctionOnSet(e, Address)
           paid   == SumFunctionOnSet(r, Address)
<1>1. /\ s \in Storage /\ s.reserve \in Nat /\ s.totalDividendsDistributed \in Nat
      /\ s.received = s.withdrawnDividends
  BY DEF StoreOK, Storage
<1>2. \A a \in Address : e[a] \in Int /\ r[a] \in Int
  BY <1>1, EarningsAreIntegers DEF Storage
<1>3. \A a \in Address : due[a] = e[a] + (-1) * r[a]
  BY <1>1, <1>2 DEF withdrawableDividendOf
<1>4. DOMAIN r = Address /\ DOMAIN due = Address
  BY <1>1 DEF Storage
<1>5. earned \in Int /\ earned <= s.totalDividendsDistributed
  BY EarningsWereDistributed
<1> HIDE DEF e, due, r
<1>6. SumFunctionOnSet(due, Address) = earned + (-1) * paid
  <2>1. -1 \in Int
    OBVIOUS
  <2> QED  BY <2>1, <1>2, <1>3, AddressesAreFinite, SumOfSums
<1>7. paid \in Int
  BY <1>2, AddressesAreFinite, SumIsInt
<1>8. Sent(s) = s.reserve + paid
  BY <1>4, SumOverAccounts DEF Sent, r
<1>9. SumFunction(due) = SumFunctionOnSet(due, Address)
  BY <1>4, SumOverAccounts
<1> HIDE DEF earned, paid
<1>10. s.totalDividendsDistributed <= s.reserve + paid
  BY <1>8 DEF Backed
<1>11. earned + (-1) * paid <= s.reserve
  BY <1>1, <1>5, <1>7, <1>10
<1> QED  BY <1>6, <1>9, <1>11 DEF due

----------------------------------------------------------------------------
(* When the words are wide enough for a tracker that is sent no more than  *)
(* `most' and has no balance above `supply' reported to it.                *)

(* t differs from s in no shares and no earnings.                          *)
SameShares(s, t) ==
    /\ t.balanceOf = s.balanceOf
    /\ t.magnifiedDividendPerShare = s.magnifiedDividendPerShare
    /\ t.totalDividendsDistributed = s.totalDividendsDistributed

(* No share is above supply, and as every distribution was among at least  *)
(* MinBalance shares, none has earned more than its part of them.          *)
Modest(s, supply) ==
    /\ s.magnifiedDividendPerShare * MinBalance <= Magnitude * s.totalDividendsDistributed
    /\ \A a \in Address : s.balanceOf[a] <= supply

WideFor(supply, most) ==
    /\ Magnitude * most <= MaxInt
    /\ (Magnitude * most) * supply <= MaxInt * MinBalance
    /\ supply * Cardinality(Address) <= MaxUint

LEMMA SameSharesModest ==
  ASSUME NEW s, NEW t, SameShares(s, t), NEW supply, Modest(s, supply)
  PROVE  Modest(t, supply)
  BY DEF SameShares, Modest

(* Payments change no shares (DividendPayingToken.sol:101-117).            *)
LEMMA PaymentsKeepShares ==
  ASSUME NEW s, StoreOK(s), NEW account \in Address,
         NEW result, Covered(s, account, result), NEW now
  PROVE  /\ SameShares(s, Withdraw(s, account, result))
         /\ SameShares(s, ProcessAccount(s, account, result, now))
<1> DEFINE after == Withdraw(s, account, result)
<1>1. SameShares(s, after)
  BY DEF SameShares, Withdraw, TransferTo, StoreOK, Storage
<1>2. after \in Storage
  BY WithdrawFacts DEF StoreOK
<1> HIDE DEF after
<1>3. \/ ProcessAccount(s, account, result, now) = after
      \/ ProcessAccount(s, account, result, now)
            = [after EXCEPT !.lastClaimTimes[account] = now]
  BY DEF ProcessAccount, after
<1>4. SameShares(s, ProcessAccount(s, account, result, now))
  BY <1>1, <1>2, <1>3 DEF SameShares, Storage
<1> QED  BY <1>1, <1>4 DEF after

(* t is s with other shares of one account.                                *)
NewShares(s, t, account, shares) ==
    /\ t.balanceOf = [s.balanceOf EXCEPT ![account] = shares]
    /\ t.magnifiedDividendPerShare = s.magnifiedDividendPerShare
    /\ t.totalDividendsDistributed = s.totalDividendsDistributed

LEMMA NewSharesModest ==
  ASSUME NEW s \in Storage, NEW t, NEW account \in Address, NEW shares \in Nat,
         NewShares(s, t, account, shares),
         NEW supply, Modest(s, supply), shares <= supply
  PROVE  Modest(t, supply)
<1>1. DOMAIN s.balanceOf = Address
  BY DEF Storage
<1>2. ASSUME NEW a \in Address PROVE t.balanceOf[a] <= supply
  BY <1>1 DEF NewShares, Modest
<1> QED  BY <1>2 DEF NewShares, Modest

(* The shares of one account follow, nobody else's and no earnings do.     *)
LEMMA SharesFollowShares ==
  ASSUME NEW s \in Storage, NEW account \in Address, NEW newBalance \in Nat,
         ~SharesFollowReverts(s, account, newBalance)
  PROVE  NewShares(s, SharesFollow(s, account, newBalance), account,
                   IF newBalance >= MinBalance THEN newBalance ELSE 0)
<1> DEFINE shares == IF newBalance >= MinBalance THEN newBalance ELSE 0
           u == SetShares(s, account, shares)
           t == SharesFollow(s, account, newBalance)
<1>1. shares \in Nat /\ ~SetSharesReverts(s, account, shares)
  BY DEF SharesFollowReverts
<1> HIDE DEF shares
<1>2. /\ u \in Storage /\ u.balanceOf = [s.balanceOf EXCEPT ![account] = shares]
      /\ u.totalDividendsDistributed = s.totalDividendsDistributed
  BY <1>1, SetSharesFacts
<1>3. u.magnifiedDividendPerShare = s.magnifiedDividendPerShare
  BY DEF SetShares, Mint, Burn, Correct, Storage
<1> HIDE DEF u
<1>4. \E m : t = [u EXCEPT !.tokenHoldersMap = m]
  BY DEF SharesFollow, u, shares
<1> HIDE DEF t
<1>5. /\ t.balanceOf = u.balanceOf
      /\ t.magnifiedDividendPerShare = u.magnifiedDividendPerShare
      /\ t.totalDividendsDistributed = u.totalDividendsDistributed
  BY <1>2, <1>4 DEF Storage
<1>6. NewShares(s, t, account, shares)
  BY <1>2, <1>3, <1>5 DEF NewShares
<1> QED  BY <1>6 DEF t, shares

(* An account that is excluded loses its shares (lines 59-67).             *)
LEMMA ExcludeShares ==
  ASSUME NEW s \in Storage, NEW account \in Address, ~ExcludeReverts(s, account)
  PROVE  NewShares(s, Exclude(s, account), account, 0)
<1> DEFINE v == [s EXCEPT !.excludedFromDividends[account] = TRUE]
           u == SetShares(v, account, 0)
           t == Exclude(s, account)
<1>1. /\ v \in Storage /\ v.balanceOf = s.balanceOf
      /\ v.totalSupply = s.totalSupply
      /\ v.magnifiedDividendCorrections = s.magnifiedDividendCorrections
      /\ v.magnifiedDividendPerShare = s.magnifiedDividendPerShare
      /\ v.totalDividendsDistributed = s.totalDividendsDistributed
  BY DEF Storage
<1> HIDE DEF v
<1>2. ~SetSharesReverts(v, account, 0)
  BY <1>1 DEF ExcludeReverts, SetSharesReverts
<1>3. /\ u \in Storage /\ u.balanceOf = [v.balanceOf EXCEPT ![account] = 0]
      /\ u.totalDividendsDistributed = v.totalDividendsDistributed
  BY <1>1, <1>2, SetSharesFacts
<1>4. u.magnifiedDividendPerShare = v.magnifiedDividendPerShare
  BY <1>1 DEF SetShares, Mint, Burn, Correct, Storage
<1> HIDE DEF u
<1>5. \E m : t = [u EXCEPT !.tokenHoldersMap = m]
  BY DEF Exclude, u, v
<1> HIDE DEF t
<1>6. /\ t.balanceOf = u.balanceOf
      /\ t.magnifiedDividendPerShare = u.magnifiedDividendPerShare
      /\ t.totalDividendsDistributed = u.totalDividendsDistributed
  BY <1>3, <1>5 DEF Storage
<1>7. NewShares(s, t, account, 0)
  BY <1>1, <1>3, <1>4, <1>6 DEF NewShares
<1> QED  BY <1>7 DEF t

(* setBalance changes the shares, the payment after it does not.           *)
LEMMA SetBalanceShares ==
  ASSUME NEW s, StoreOK(s), NEW account \in Address, NEW newBalance \in Nat,
         NEW result, NEW now, ~SetBalanceReverts(s, account, newBalance, result),
         ~s.excludedFromDividends[account],
         Covered(SharesFollow(s, account, newBalance), account, result)
  PROVE  NewShares(s, SetBalance(s, account, newBalance, result, now), account,
                   IF newBalance >= MinBalance THEN newBalance ELSE 0)
<1> DEFINE u == SharesFollow(s, account, newBalance)
           t == SetBalance(s, account, newBalance, result, now)
           shares == IF newBalance >= MinBalance THEN newBalance ELSE 0
<1>1. ~SharesFollowReverts(s, account, newBalance)
  BY DEF SetBalanceReverts
<1>2. StoreOK(u)
  BY <1>1, SharesFollowFacts
<1>3. NewShares(s, u, account, shares)
  BY <1>1, SharesFollowShares DEF StoreOK
<1>4. t = ProcessAccount(u, account, result, now)
  BY DEF SetBalance
<1> HIDE DEF u, t, shares
<1>5. SameShares(u, t)
  BY <1>2, <1>4, PaymentsKeepShares DEF u
<1>6. NewShares(s, t, account, shares)
  BY <1>3, <1>5 DEF NewShares, SameShares
<1> QED  BY <1>6 DEF t, shares

(* As long as anyone has shares there are MinBalance of them.              *)
LEMMA SharesAreMany ==
  ASSUME NEW s, StoreOK(s), s.totalSupply # 0
  PROVE  s.totalSupply >= MinBalance
<1>1. /\ s \in Storage /\ s.balanceOf \in [Address -> Nat] /\ DOMAIN s.balanceOf = Address
      /\ s.totalSupply = SumFunction(s.balanceOf)
  BY DEF StoreOK, Storage, AddsUp
<1>2. s.totalSupply = SumFunctionOnSet(s.balanceOf, Address)
  BY <1>1, SumOverAccounts
<1>3. PICK a \in Address : s.balanceOf[a] # 0
  BY <1>2, AddressesAreFinite, SumOfZeros
<1>4. s.balanceOf[a] >= MinBalance
  BY <1>3 DEF StoreOK, ListFollowsShares
<1>5. s.balanceOf[a] <= SumFunctionOnSet(s.balanceOf, Address)
  BY <1>1, AddressesAreFinite, OneOfTheSum
<1>6. s.balanceOf[a] \in Nat /\ s.totalSupply \in Nat /\ MinBalance \in Nat
  BY <1>1, ContractAssumptions DEF Storage
<1> QED  BY <1>2, <1>4, <1>5, <1>6

(* x times what does not fit y times is below the whole (for a division).  *)
LEMMA DivFits ==
  \A x \in Nat, y \in Nat \ {0} : x \div y \in Nat /\ (x \div y) * y <= x
  OBVIOUS

LEMMA ProductIsMonotonic ==
  \A x, y, z \in Nat : x <= y => x * z <= y * z
  OBVIOUS

LEMMA DistributionKeepsShares ==
  ASSUME NEW s \in Storage, NEW amount
  PROVE  Distribute(s, amount).balanceOf = s.balanceOf
  BY DEF Distribute, Storage

(* A distribution leaves the earnings of a share within its part.          *)
LEMMA DistributionIsModest ==
  ASSUME NEW s, StoreOK(s), NEW amount \in Nat, ~DistributeReverts(s, amount),
         NEW supply, Modest(s, supply)
  PROVE  Modest(Distribute(s, amount), supply)
<1> DEFINE t == Distribute(s, amount)
           share == PerShare(s, amount)
           m == s.magnifiedDividendPerShare
           total == s.totalDividendsDistributed
<1>1. /\ m \in Nat /\ total \in Nat /\ s.totalSupply \in Nat \ {0} /\ s \in Storage
      /\ Magnitude \in Nat /\ MinBalance \in Nat /\ amount * Magnitude \in Nat
  BY MagnitudeAssumption, ContractAssumptions DEF StoreOK, Storage, DistributeReverts
<1>2. /\ t.balanceOf = s.balanceOf /\ t.magnifiedDividendPerShare = m + share
      /\ t.totalDividendsDistributed = total + amount
  BY <1>1 DEF Distribute, Storage
<1>3. share \in Nat /\ share * s.totalSupply <= amount * Magnitude
  BY <1>1, DivFits DEF PerShare
<1> HIDE DEF share, t
<1>4. share * MinBalance <= amount * Magnitude
  <2>1. MinBalance <= s.totalSupply
    BY <1>1, SharesAreMany
  <2>2. MinBalance * share <= s.totalSupply * share
    BY <1>1, <1>3, <2>1, ProductIsMonotonic
  <2>3. MinBalance * share = share * MinBalance /\ s.totalSupply * share = share * s.totalSupply
        /\ share * MinBalance \in Nat /\ share * s.totalSupply \in Nat
    BY <1>1, <1>3
  <2> QED  BY <1>1, <1>3, <2>2, <2>3
<1>5. m * MinBalance <= Magnitude * total
  BY DEF Modest
<1>6. (m + share) * MinBalance <= Magnitude * (total + amount)
  <2>1. /\ (m + share) * MinBalance = m * MinBalance + share * MinBalance
        /\ Magnitude * (total + amount) = Magnitude * total + amount * Magnitude
        /\ m * MinBalance \in Nat /\ share * MinBalance \in Nat /\ Magnitude * total \in Nat
    BY <1>1, <1>3
  <2> QED  BY <1>1, <1>4, <1>5, <2>1
<1> QED  BY <1>2, <1>6 DEF Modest, t

(* Nobody is credited more than was distributed.                           *)
LEMMA CreditIsPart ==
  ASSUME NEW s, StoreOK(s), NEW a \in Address
  PROVE  MagnifiedDividend(s, a) \in 0 .. Magnitude * s.totalDividendsDistributed
<1> DEFINE credit == [x \in Address |-> MagnifiedDividend(s, x)]
<1>1. s \in Storage /\ s.totalDividendsDistributed \in Nat
  BY DEF StoreOK, Storage
<1>2. ASSUME NEW x \in Address PROVE MagnifiedDividend(s, x) \in Nat
  <2>1. /\ MagnifiedDividend(s, x) \in Int /\ accumulativeDividendOf(s, x) \in Int
        /\ s.withdrawnDividends[x] \in Nat
        /\ s.withdrawnDividends[x] <= accumulativeDividendOf(s, x)
    BY <1>1, EarningsAreIntegers DEF StoreOK, WithdrawnIsEarned, Storage
  <2>2. MagnifiedDividend(s, x) \div Magnitude >= 0
    BY <2>1 DEF accumulativeDividendOf
  <2>3. \A y \in Int : y \div Magnitude >= 0 => y >= 0
    BY MagnitudeAssumption
  <2> QED  BY <2>1, <2>2, <2>3
<1>3. Credited(s) = SumFunctionOnSet(credit, Address) /\ Credited(s) <= Magnitude * s.totalDividendsDistributed
  BY DEF Credited, SumFunction, StoreOK, AddsUp
<1>4. \A x \in Address : credit[x] \in Nat
  BY <1>2
<1>5. credit[a] = MagnifiedDividend(s, a)
  OBVIOUS
<1> HIDE DEF credit
<1>6. credit[a] <= SumFunctionOnSet(credit, Address)
  BY <1>4, AddressesAreFinite, OneOfTheSum
<1>7. /\ SumFunctionOnSet(credit, Address) \in Int /\ credit[a] \in Nat
      /\ Magnitude * s.totalDividendsDistributed \in Int
  BY <1>1, <1>4, AddressesAreFinite, SumIsInt, MagnitudeAssumption
<1> QED  BY <1>3, <1>5, <1>6, <1>7

(* The product of shares and earnings fits.                                *)
LEMMA ProductFits ==
  ASSUME NEW m \in Nat, NEW total \in Nat, NEW most \in Nat, NEW supply \in Nat,
         NEW n \in Nat, n <= supply, total <= most, WideFor(supply, most),
         m * MinBalance <= Magnitude * total
  PROVE  m * n <= MaxInt /\ Magnitude * total <= MaxInt
<1> DEFINE d == MinBalance
           g == Magnitude
<1>1. d \in Nat \ {0} /\ g \in Nat /\ MaxInt \in Nat
  BY ContractAssumptions, MagnitudeAssumption, MaxIntAssumption
<1>2. g * total <= g * most /\ g * total \in Nat /\ g * most \in Nat
  <2>1. total * g <= most * g
    BY <1>1, ProductIsMonotonic
  <2>2. total * g = g * total /\ most * g = g * most /\ total * g \in Nat /\ most * g \in Nat
    BY <1>1
  <2> QED  BY <2>1, <2>2
<1>3. m * d <= g * most /\ m * d \in Nat
  BY <1>1, <1>2
<1>4. (m * d) * n <= (g * most) * n
  BY <1>2, <1>3, ProductIsMonotonic
<1>5. n * (g * most) <= supply * (g * most)
  BY <1>2, ProductIsMonotonic
<1>6. (g * most) * supply <= MaxInt * d /\ g * most <= MaxInt
  BY DEF WideFor
<1>7. /\ (m * d) * n = d * (m * n) /\ MaxInt * d = d * MaxInt
      /\ m * n \in Nat /\ d * (m * n) \in Nat /\ d * MaxInt \in Nat
  BY <1>1
<1>8. \A x \in Nat : n * x = x * n /\ supply * x = x * supply /\ x * n \in Nat /\ x * supply \in Nat
  OBVIOUS
<1>9. (g * most) * n <= (g * most) * supply
  BY <1>2, <1>5, <1>8
<1>10. d * (m * n) <= d * MaxInt
  <2>1. (g * most) * n \in Nat /\ (g * most) * supply \in Nat
    BY <1>2, <1>8
  <2> QED  BY <1>4, <1>6, <1>7, <1>9, <2>1
<1>11. m * n <= MaxInt
  BY <1>1, <1>7, <1>10, Cancel
<1> QED  BY <1>1, <1>2, <1>6, <1>11

(* Then no change of shares reverts (DividendPayingToken.sol:169-197).     *)
LEMMA WideWordsAreEnough ==
  ASSUME NEW s, StoreOK(s), NEW supply \in Nat, NEW most \in Nat, WideFor(supply, most),
         Modest(s, supply), s.totalDividendsDistributed <= most,
         NEW account \in Address, NEW newBalance \in Nat, newBalance <= supply
  PROVE  ~SharesFollowReverts(s, account, newBalance)
<1> DEFINE shares == IF newBalance >= MinBalance THEN newBalance ELSE 0
           m == s.magnifiedDividendPerShare
           current == s.balanceOf[account]
           c == s.magnifiedDividendCorrections[account]
           total == s.totalDividendsDistributed
           change == shares - current
<1>1. /\ m \in Nat /\ current \in Nat /\ c \in Int /\ total \in Nat /\ s \in Storage
      /\ shares \in Nat /\ shares <= supply /\ current <= supply
      /\ s.balanceOf \in [Address -> Nat] /\ DOMAIN s.balanceOf = Address
      /\ s.totalSupply = SumFunction(s.balanceOf)
  BY DEF StoreOK, Storage, Modest, AddsUp
<1>2. m * shares <= MaxInt /\ m * current <= MaxInt /\ Magnitude * total <= MaxInt
  BY <1>1, ProductFits DEF Modest
<1>3. MagnifiedDividend(s, account) \in 0 .. Magnitude * total
  BY CreditIsPart
<1>4. MagnifiedDividend(s, account) = m * current + c
  BY DEF MagnifiedDividend
<1>5. s.totalSupply + change \in 0 .. MaxUint
  <2> DEFINE h == [s.balanceOf EXCEPT ![account] = shares]
  <2>1. /\ SumFunction(h) = SumFunction(s.balanceOf) + (shares - s.balanceOf[account])
        /\ SumFunction(s.balanceOf) \in Int
    BY <1>1, SumOfOneChange
  <2>2. /\ DOMAIN h = Address
        /\ \A x \in Address : h[x] \in Nat /\ h[x] <= supply
    <3>1. \A x \in Address : s.balanceOf[x] <= supply
      BY DEF Modest
    <3> HIDE DEF shares
    <3> QED  BY <1>1, <3>1
  <2> HIDE DEF h, shares
  <2>3. SumFunctionOnSet(h, Address) <= supply * Cardinality(Address)
    BY <2>2, AddressesAreFinite, SumIsBounded
  <2>4. SumFunctionOnSet(h, Address) \in Int /\ 0 <= SumFunctionOnSet(h, Address)
    <3>1. h[account] <= SumFunctionOnSet(h, Address)
      BY <2>2, AddressesAreFinite, OneOfTheSum
    <3>2. SumFunctionOnSet(h, Address) \in Int
      BY <2>2, AddressesAreFinite, SumIsInt
    <3> QED  BY <2>2, <3>1, <3>2
  <2>5. SumFunction(h) = SumFunctionOnSet(h, Address)
    BY <2>2, SumOverAccounts
  <2>6. supply * Cardinality(Address) <= MaxUint /\ Cardinality(Address) \in Nat
    BY AddressesAreFinite, FS_CardinalityType DEF WideFor
  <2>7. MaxUint \in Int /\ supply * Cardinality(Address) \in Int
    BY <2>6, MaxIntAssumption DEF MaxUint
  <2> QED  BY <1>1, <2>1, <2>3, <2>4, <2>5, <2>6, <2>7
<1> HIDE DEF shares
<1>6. m * change = m * shares - m * current
  BY <1>1
<1>7. m * shares \in Nat /\ m * current \in Nat /\ MaxInt \in Nat
  BY <1>1, MaxIntAssumption
<1>8. m * change \in -MaxInt .. MaxInt
  <2>1. m * change \in Int
    BY <1>6, <1>7
  <2> QED  BY <1>2, <1>6, <1>7, <2>1
<1>9. c - m * change \in Int256
  <2>1. c - m * change = MagnifiedDividend(s, account) - m * shares
    <3> DEFINE p == m * change
               q == m * shares
               r == m * current
    <3>1. p = q - r /\ q \in Nat /\ r \in Nat /\ MagnifiedDividend(s, account) = r + c
      BY <1>4, <1>6, <1>7
    <3> HIDE DEF p, q, r
    <3>2. c - p = MagnifiedDividend(s, account) - q
      BY <1>1, <3>1
    <3> QED  BY <3>2 DEF p, q
  <2>2. MagnifiedDividend(s, account) \in Nat /\ MagnifiedDividend(s, account) <= MaxInt
    <3> DEFINE g == Magnitude * total
    <3>1. g \in Int /\ g <= MaxInt /\ MagnifiedDividend(s, account) \in 0 .. g
      BY <1>1, <1>2, <1>3, MagnitudeAssumption
    <3> HIDE DEF g
    <3> QED  BY <1>7, <3>1
  <2> QED  BY <1>2, <1>7, <2>1, <2>2 DEF Int256
<1>10. ~SetSharesReverts(s, account, shares)
  BY <1>5, <1>8, <1>9 DEF SetSharesReverts
<1> QED  BY <1>10 DEF SharesFollowReverts, shares

(* Nor does the reading of what is due (DividendPayingToken.sol:130-150).  *)
LEMMA WideReadings ==
  ASSUME NEW s, StoreOK(s), NEW supply \in Nat, NEW most \in Nat, WideFor(supply, most),
         Modest(s, supply), s.totalDividendsDistributed <= most, NEW a \in Address
  PROVE  ~withdrawableDividendOfReverts(s, a)
<1>1. /\ s.magnifiedDividendPerShare \in Nat /\ s.balanceOf[a] \in Nat
      /\ s.totalDividendsDistributed \in Nat /\ s \in Storage /\ s.balanceOf[a] <= supply
      /\ s.withdrawnDividends[a] \in Nat
      /\ s.withdrawnDividends[a] <= accumulativeDividendOf(s, a)
  BY DEF StoreOK, Storage, Modest, WithdrawnIsEarned
<1>2. /\ s.magnifiedDividendPerShare * s.balanceOf[a] <= MaxInt
      /\ Magnitude * s.totalDividendsDistributed <= MaxInt
  BY <1>1, ProductFits DEF Modest
<1>3. s.magnifiedDividendPerShare * s.balanceOf[a] \in Int
  BY <1>1
<1>4. MagnifiedDividend(s, a) \in 0 .. MaxInt
  <2>1. Magnitude * s.totalDividendsDistributed \in Int /\ MaxInt \in Int
    BY <1>1, MagnitudeAssumption, MaxIntAssumption
  <2> QED  BY <1>2, <2>1, CreditIsPart
<1>5. accumulativeDividendOf(s, a) \in Int
  BY <1>1, EarningsAreIntegers
<1>6. ~(withdrawableDividendOf(s, a) < 0)
  BY <1>1, <1>5 DEF withdrawableDividendOf
<1>7. MaxInt \in Int
  BY MaxIntAssumption
<1> QED  BY <1>2, <1>3, <1>4, <1>6, <1>7 DEF withdrawableDividendOfReverts

(* What one account is due is there.                                       *)
LEMMA OneIsCovered ==
  ASSUME NEW s, StoreOK(s), Backed(s), NEW a \in Address
  PROVE  withdrawableDividendOf(s, a) <= s.reserve
<1> DEFINE due == [x \in Address |-> withdrawableDividendOf(s, x)]
<1>1. s \in Storage /\ s.reserve \in Nat
  BY DEF StoreOK, Storage
<1>2. \A x \in Address : due[x] \in Nat
  <2> SUFFICES ASSUME NEW x \in Address PROVE withdrawableDividendOf(s, x) \in Nat
    OBVIOUS
  <2>1. /\ accumulativeDividendOf(s, x) \in Int /\ s.withdrawnDividends[x] \in Nat
        /\ s.withdrawnDividends[x] <= accumulativeDividendOf(s, x)
    BY <1>1, EarningsAreIntegers DEF StoreOK, WithdrawnIsEarned, Storage
  <2> QED  BY <2>1 DEF withdrawableDividendOf
<1>3. SumFunction(due) <= s.reserve
  BY BackedIsSolvent
<1>4. due[a] = withdrawableDividendOf(s, a) /\ DOMAIN due = Address
  OBVIOUS
<1> HIDE DEF due
<1>5. SumFunction(due) = SumFunctionOnSet(due, Address)
  BY <1>4, SumOverAccounts
<1>6. due[a] <= SumFunctionOnSet(due, Address) /\ SumFunctionOnSet(due, Address) \in Int
  <2>1. due[a] <= SumFunctionOnSet(due, Address)
    BY <1>2, AddressesAreFinite, OneOfTheSum
  <2>2. \A x \in Address : due[x] \in Int
    BY <1>2
  <2> QED  BY <2>1, <2>2, AddressesAreFinite, SumIsInt
<1> QED  BY <1>1, <1>2, <1>3, <1>4, <1>5, <1>6

----------------------------------------------------------------------------
(* The words that are checked when they are written.  The balances, which  *)
(* WordsFit also bounds, are bounded by the supply they add up to.         *)
NumbersFit(s) ==
    /\ s.magnifiedDividendPerShare <= MaxUint
    /\ s.totalDividendsDistributed <= MaxUint
    /\ s.totalSupply <= MaxUint
    /\ \A a \in Address : /\ s.withdrawnDividends[a] <= MaxUint
                          /\ s.magnifiedDividendCorrections[a] \in Int256

(* No balance outgrows the supply, so all words fit.                       *)
LEMMA NumbersAreWords ==
  ASSUME NEW s, StoreOK(s), NumbersFit(s)
  PROVE  WordsFit(s)
<1>1. /\ s \in Storage /\ s.balanceOf \in [Address -> Nat] /\ DOMAIN s.balanceOf = Address
      /\ s.totalSupply = SumFunction(s.balanceOf)
  BY DEF StoreOK, Storage, AddsUp
<1>2. s.totalSupply = SumFunctionOnSet(s.balanceOf, Address)
  BY <1>1, SumOverAccounts
<1>3. MaxUint \in Nat
  BY MaxIntAssumption DEF MaxUint
<1>4. ASSUME NEW a \in Address PROVE s.balanceOf[a] \in Uint256
  <2>1. s.balanceOf[a] <= SumFunctionOnSet(s.balanceOf, Address)
    BY <1>1, AddressesAreFinite, OneOfTheSum
  <2>2. s.balanceOf[a] \in Nat /\ s.totalSupply \in Nat /\ s.totalSupply <= MaxUint
    BY <1>1 DEF Storage, NumbersFit
  <2> QED  BY <1>2, <1>3, <2>1, <2>2 DEF Uint256
<1>5. ASSUME NEW a \in Address
      PROVE  /\ s.withdrawnDividends[a] \in Uint256
             /\ s.magnifiedDividendCorrections[a] \in Int256
  BY <1>1, <1>3 DEF Storage, NumbersFit, Uint256
<1>6. /\ s.magnifiedDividendPerShare \in Uint256
      /\ s.totalDividendsDistributed \in Uint256
      /\ s.totalSupply \in Uint256
  BY <1>1, <1>3 DEF Storage, NumbersFit, Uint256
<1>7. /\ s.balanceOf \in [Address -> Uint256]
      /\ s.withdrawnDividends \in [Address -> Uint256]
      /\ s.magnifiedDividendCorrections \in [Address -> Int256]
  BY <1>1, <1>4, <1>5 DEF Storage
<1> QED  BY <1>6, <1>7 DEF WordsFit

(* The initial storage fits.                                               *)
LEMMA InitialNumbersFit == NumbersFit(InitialStorage)
  BY MaxIntAssumption DEF NumbersFit, InitialStorage, MaxUint, Int256

(* Storages with the same numbers fit alike.                               *)
SameNumbers(s, t) ==
    /\ t.magnifiedDividendPerShare = s.magnifiedDividendPerShare
    /\ t.totalDividendsDistributed = s.totalDividendsDistributed
    /\ t.totalSupply = s.totalSupply
    /\ t.withdrawnDividends = s.withdrawnDividends
    /\ t.magnifiedDividendCorrections = s.magnifiedDividendCorrections

LEMMA SameNumbersFit ==
  ASSUME NEW s, NEW t, NumbersFit(s), SameNumbers(s, t)
  PROVE  NumbersFit(t)
  BY DEF NumbersFit, SameNumbers

(* _setBalance (DividendPayingToken.sol:169-197) writes no supply and no   *)
(* correction that it has not checked.                                     *)
LEMMA SetSharesFit ==
  ASSUME NEW s \in Storage, NEW account \in Address, NEW newBalance \in Nat,
         ~SetSharesReverts(s, account, newBalance), NumbersFit(s)
  PROVE  NumbersFit(SetShares(s, account, newBalance))
<1> DEFINE t == SetShares(s, account, newBalance)
           m == s.magnifiedDividendPerShare
           change == newBalance - s.balanceOf[account]
           supply == s.totalSupply + change
           correction == s.magnifiedDividendCorrections[account] - m * change
<1>1. CorrectedBy(s, t, account, newBalance, supply, correction)
  BY SetSharesCorrects
<1>2. supply \in 0 .. MaxUint /\ correction \in Int256
  BY DEF SetSharesReverts
<1>3. supply <= MaxUint
  BY <1>2, MaxIntAssumption DEF MaxUint
<1> HIDE DEF t, supply, correction
<1>4. /\ t.magnifiedDividendPerShare = s.magnifiedDividendPerShare
      /\ t.totalDividendsDistributed = s.totalDividendsDistributed
      /\ t.totalSupply = supply
      /\ t.withdrawnDividends = s.withdrawnDividends
      /\ t.magnifiedDividendCorrections
            = [s.magnifiedDividendCorrections EXCEPT ![account] = correction]
  BY <1>1 DEF CorrectedBy, Storage
<1>5. ASSUME NEW a \in Address PROVE t.magnifiedDividendCorrections[a] \in Int256
  <2>1. s.magnifiedDividendCorrections \in [Address -> Int]
    BY DEF Storage
  <2> QED  BY <1>2, <1>4, <2>1 DEF NumbersFit
<1> QED  BY <1>3, <1>4, <1>5 DEF NumbersFit, t

LEMMA SharesFollowFit ==
  ASSUME NEW s \in Storage, NEW account \in Address, NEW newBalance \in Nat,
         ~SharesFollowReverts(s, account, newBalance), NumbersFit(s)
  PROVE  NumbersFit(SharesFollow(s, account, newBalance))
<1> DEFINE shares == IF newBalance >= MinBalance THEN newBalance ELSE 0
           u == SetShares(s, account, shares)
           t == SharesFollow(s, account, newBalance)
<1>1. shares \in Nat /\ ~SetSharesReverts(s, account, shares)
  BY DEF SharesFollowReverts
<1>2. NumbersFit(u) /\ u \in Storage
  BY <1>1, SetSharesFit, SetSharesFacts
<1>3. t = [u EXCEPT !.tokenHoldersMap = IF newBalance >= MinBalance
                                        THEN MapSet(@, account, newBalance)
                                        ELSE MapRemove(@, account)]
  BY DEF SharesFollow
<1> HIDE DEF t, u
<1>4. SameNumbers(u, t)
  BY <1>2, <1>3 DEF Storage, SameNumbers
<1>5. NumbersFit(t)
  BY <1>2, <1>4, SameNumbersFit
<1> QED  BY <1>5 DEF t

LEMMA ExcludeFit ==
  ASSUME NEW s \in Storage, NEW account \in Address, ~ExcludeReverts(s, account),
         NumbersFit(s)
  PROVE  NumbersFit(Exclude(s, account))
<1> DEFINE v == [s EXCEPT !.excludedFromDividends[account] = TRUE]
           u == SetShares(v, account, 0)
           t == Exclude(s, account)
<1>1. /\ v \in Storage /\ SameNumbers(s, v)
      /\ v.balanceOf = s.balanceOf
  BY DEF Storage, SameNumbers
<1> HIDE DEF v
<1>2. ~SetSharesReverts(v, account, 0) /\ NumbersFit(v)
  BY <1>1, SameNumbersFit DEF ExcludeReverts, SetSharesReverts, SameNumbers
<1>3. NumbersFit(u) /\ u \in Storage
  BY <1>1, <1>2, SetSharesFit, SetSharesFacts
<1>4. t = [u EXCEPT !.tokenHoldersMap = MapRemove(@, account)]
  BY DEF Exclude, v
<1> HIDE DEF t, u
<1>5. SameNumbers(u, t)
  BY <1>3, <1>4 DEF Storage, SameNumbers
<1>6. NumbersFit(t)
  BY <1>3, <1>5, SameNumbersFit
<1> QED  BY <1>6 DEF t

(* What an account has earned fits when withdrawableDividendOf returns     *)
(* (DividendPayingToken.sol:130-150).                                      *)
LEMMA EarnedFits ==
  ASSUME NEW s \in Storage, NEW account \in Address,
         ~withdrawableDividendOfReverts(s, account)
  PROVE  accumulativeDividendOf(s, account) <= MaxUint
<1> DEFINE x == MagnifiedDividend(s, account)
           q == accumulativeDividendOf(s, account)
<1>1. x \in Nat /\ x <= MaxInt
  BY MaxIntAssumption DEF withdrawableDividendOfReverts
<1>2. q = x \div Magnitude
  BY DEF accumulativeDividendOf
<1> HIDE DEF x, q
<1>3. q \in Nat /\ q * Magnitude <= x
  BY <1>1, <1>2, DivFits, MagnitudeAssumption
<1>4. q <= q * Magnitude
  BY <1>3, MagnitudeAssumption
<1>5. q * Magnitude \in Int
  BY <1>3, MagnitudeAssumption
<1>6. q <= MaxUint
  <2> DEFINE whole == q * Magnitude
  <2>1. q <= whole /\ whole <= x /\ whole \in Int
    BY <1>3, <1>4, <1>5
  <2> HIDE DEF whole
  <2> QED  BY <1>1, <1>3, <2>1, MaxIntAssumption DEF MaxUint
<1> QED  BY <1>6 DEF q

(* A payment books no more than is earned (DividendPayingToken.sol:101-117). *)
LEMMA PaymentFits ==
  ASSUME NEW s, StoreOK(s), NEW t, StoreOK(t), NEW account \in Address,
         PaidOrNot(s, t, account), SameShares(s, t),
         ~withdrawableDividendOfReverts(s, account), NumbersFit(s)
  PROVE  NumbersFit(t)
<1>1. /\ s \in Storage /\ t \in Storage
      /\ s.received = s.withdrawnDividends /\ t.received = t.withdrawnDividends
  BY DEF StoreOK
<1>2. /\ t.magnifiedDividendPerShare <= MaxUint
      /\ t.totalDividendsDistributed <= MaxUint
      /\ t.totalSupply <= MaxUint
  BY DEF NumbersFit, SameShares, PaidOrNot
<1>3. ASSUME NEW a \in Address PROVE t.withdrawnDividends[a] <= MaxUint
  <2>1. accumulativeDividendOf(s, account) <= MaxUint
    BY <1>1, EarnedFits
  <2>2. DOMAIN s.received = Address
    BY <1>1 DEF Storage
  <2>3. t.received[a] = s.received[a] \/ t.received[a] = accumulativeDividendOf(s, account)
    BY <2>2 DEF PaidOrNot
  <2> QED  BY <1>1, <2>1, <2>3 DEF NumbersFit
<1>4. ASSUME NEW a \in Address
      PROVE  t.magnifiedDividendCorrections[a] \in Int256
  <2> DEFINE part == s.magnifiedDividendPerShare * s.balanceOf[a]
  <2>1. /\ MagnifiedDividend(s, a) = part + s.magnifiedDividendCorrections[a]
        /\ MagnifiedDividend(t, a) = part + t.magnifiedDividendCorrections[a]
        /\ MagnifiedDividend(t, a) = MagnifiedDividend(s, a)
    BY DEF MagnifiedDividend, SameShares, PaidOrNot, SameCredit
  <2>2. /\ part \in Int
        /\ s.magnifiedDividendCorrections[a] \in Int
        /\ t.magnifiedDividendCorrections[a] \in Int
    BY <1>1, ProductOfNats DEF Storage
  <2>3. part + t.magnifiedDividendCorrections[a] = part + s.magnifiedDividendCorrections[a]
    BY <2>1
  <2>4. \A p, x, y \in Int : p + x = p + y => x = y
    OBVIOUS
  <2> HIDE DEF part
  <2>5. t.magnifiedDividendCorrections[a] = s.magnifiedDividendCorrections[a]
    BY <2>2, <2>3, <2>4
  <2> QED  BY <2>5 DEF NumbersFit
<1> QED  BY <1>2, <1>3, <1>4 DEF NumbersFit

LEMMA WithdrawFits ==
  ASSUME NEW s, StoreOK(s), NEW account \in Address,
         NEW result, Covered(s, account, result), NEW now \in Nat,
         ~WithdrawReverts(s, account, result), NumbersFit(s)
  PROVE  /\ NumbersFit(Withdraw(s, account, result))
         /\ NumbersFit(ProcessAccount(s, account, result, now))
<1> DEFINE after == Withdraw(s, account, result)
           t == ProcessAccount(s, account, result, now)
<1>1. ~withdrawableDividendOfReverts(s, account)
  BY DEF WithdrawReverts
<1>2. /\ StoreOK(after) /\ PaidOrNot(s, after, account) /\ SameShares(s, after)
      /\ StoreOK(t) /\ PaidOrNot(s, t, account) /\ SameShares(s, t)
  BY WithdrawFacts, ProcessAccountFacts, PaymentsKeepShares
<1> HIDE DEF after, t
<1>3. NumbersFit(after) /\ NumbersFit(t)
  BY <1>1, <1>2, PaymentFits
<1> QED  BY <1>3 DEF after, t

(* setBalance (TokenDividendTracker.sol:152-167).                          *)
LEMMA SetBalanceFits ==
  ASSUME NEW s, StoreOK(s), NEW account \in Address, NEW newBalance \in Nat,
         NEW result, NEW now \in Nat, ~SetBalanceReverts(s, account, newBalance, result),
         ~s.excludedFromDividends[account]
            => Covered(SharesFollow(s, account, newBalance), account, result),
         NumbersFit(s)
  PROVE  NumbersFit(SetBalance(s, account, newBalance, result, now))
<1> DEFINE u == SharesFollow(s, account, newBalance)
<1>1. CASE s.excludedFromDividends[account]
  BY <1>1 DEF SetBalance
<1>2. CASE ~s.excludedFromDividends[account]
  <2>1. SetBalance(s, account, newBalance, result, now)
           = ProcessAccount(u, account, result, now)
    BY <1>2 DEF SetBalance
  <2>2. /\ ~SharesFollowReverts(s, account, newBalance)
        /\ ~WithdrawReverts(u, account, result)
    BY <1>2 DEF SetBalanceReverts, ProcessAccountReverts
  <2>3. StoreOK(u) /\ NumbersFit(u)
    BY <1>2, <2>2, SharesFollowFacts, SharesFollowFit DEF StoreOK
  <2> HIDE DEF u
  <2>4. Covered(u, account, result)
    BY <1>2 DEF u
  <2>5. NumbersFit(ProcessAccount(u, account, result, now))
    BY <2>2, <2>3, <2>4, WithdrawFits
  <2> QED  BY <2>1, <2>5
<1> QED  BY <1>1, <1>2

(* _distributeDividends (DividendPayingToken.sol:80-91) checks both sums.  *)
LEMMA DistributionFits ==
  ASSUME NEW s \in Storage, NEW amount \in Nat, ~DistributeReverts(s, amount), NumbersFit(s)
  PROVE  NumbersFit(Distribute(s, amount))
<1> DEFINE share == PerShare(s, amount)
           t == Distribute(s, amount)
<1>1. /\ t.magnifiedDividendPerShare = s.magnifiedDividendPerShare + share
      /\ t.totalDividendsDistributed = s.totalDividendsDistributed + amount
      /\ t.totalSupply = s.totalSupply
      /\ t.withdrawnDividends = s.withdrawnDividends
      /\ t.magnifiedDividendCorrections = s.magnifiedDividendCorrections
  BY DEF Distribute, Storage
<1>2. /\ ~(s.magnifiedDividendPerShare + share > MaxUint)
      /\ ~(s.totalDividendsDistributed + amount > MaxUint)
  BY DEF DistributeReverts
<1>3. share \in Nat
  <2>1. amount * Magnitude \in Nat
    BY MagnitudeAssumption, ProductOfNats
  <2>2. s.totalSupply \in Nat \ {0}
    BY DEF DistributeReverts, Storage
  <2> QED  BY <2>1, <2>2, DivFits DEF PerShare
<1> HIDE DEF share, t
<1>4. /\ t.magnifiedDividendPerShare <= MaxUint
      /\ t.totalDividendsDistributed <= MaxUint
  <2>1. s.magnifiedDividendPerShare \in Nat /\ s.totalDividendsDistributed \in Nat
    BY DEF Storage
  <2>2. MaxUint \in Nat
    BY MaxIntAssumption DEF MaxUint
  <2> QED  BY <1>1, <1>2, <1>3, <2>1, <2>2
<1>5. NumbersFit(t)
  BY <1>1, <1>4 DEF NumbersFit
<1> QED  BY <1>5 DEF t

=============================================================================
