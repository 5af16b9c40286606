--------------------------- MODULE BIBTokenProofs ---------------------------
(***************************************************************************)
(* The token and its tracker, for any accounts, supply, fees, thresholds,  *)
(* and whatever the callers, the router and the reward token decide.       *)
(* First what the token's half of the state needs nothing of the tracker   *)
(* for: frozen tokens stay, a transfer is taxed once, refused payouts      *)
(* change no transfer.  Then both: pairs never earn, dividends are backed. *)
(* Last the shares, which follow the balances while the words are wide     *)
(* enough.                                                                 *)
(***************************************************************************)
EXTENDS BIBToken, TrackerContractTheorems

(***************************************************************************)
(* The token's half of the inductive invariant.  Nothing of the tracker is *)
(* in it: a call of the tracker changes the tracker's storage only.        *)
(***************************************************************************)

BibOK(b) ==
    /\ b \in BIBStorage
    /\ b.fees.rewardFee + b.fees.blackholeFee + b.fees.liquidityFee <= MaxFee
    /\ SumFunction(b.balanceOf) = InitialSupply

Inv == BibOK(bib) /\ ~bib.swapping

IsWorld(w) == w = [bib |-> w.bib, store |-> w.store]

\* What no movement of tokens changes.
SameRules(b, c) ==
    /\ c.fees = b.fees /\ c.swapTokensAtAmount = b.swapTokensAtAmount
    /\ c.freezeToken = b.freezeToken /\ c.freezeMap = b.freezeMap
    /\ c.isFromWhiteList = b.isFromWhiteList /\ c.isToWhiteList = b.isToWhiteList
    /\ c.swapping = b.swapping

\* Nobody but `from` loses, and it no more than the amount.
OnlyPays(b, c, from, amount) ==
    /\ c.balanceOf[from] >= b.balanceOf[from] - amount
    /\ \A a \in Address : a # from => c.balanceOf[a] >= b.balanceOf[a]

(***************************************************************************)
(* Arithmetic.                                                             *)
(***************************************************************************)

LEMMA DivIsBelow ==
    ASSUME NEW x \in Nat, NEW d \in Nat \ {0}
    PROVE  x \div d \in Nat /\ d * (x \div d) <= x
OBVIOUS

\* Shares of an amount by rates that add up to no more than the whole.
LEMMA SharesFit ==
    ASSUME NEW amount \in Nat, NEW p \in Nat, NEW q \in Nat, NEW whole \in Nat \ {0},
           p + q <= whole
    PROVE  /\ (amount * p) \div whole \in Nat /\ (amount * q) \div whole \in Nat
           /\ (amount * p) \div whole + (amount * q) \div whole <= amount
<1> DEFINE x == (amount * p) \div whole
           y == (amount * q) \div whole
<1>1. amount * p \in Nat /\ amount * q \in Nat
  OBVIOUS
<1>2. x \in Nat /\ whole * x <= amount * p
  BY <1>1, DivIsBelow
<1>3. y \in Nat /\ whole * y <= amount * q
  BY <1>1, DivIsBelow
<1> HIDE DEF x, y
<1>4. whole * (x + y) <= amount * (p + q)
  <2>1. whole * (x + y) = whole * x + whole * y
    BY <1>2, <1>3
  <2>2. amount * (p + q) = amount * p + amount * q
    OBVIOUS
  <2>3. whole * x \in Int /\ whole * y \in Int
    BY <1>2, <1>3
  <2>4. QED
    BY <1>1, <1>2, <1>3, <2>1, <2>2, <2>3
<1>5. amount * (p + q) <= amount * whole
  <2>1. amount * (whole - (p + q)) >= 0
    OBVIOUS
  <2>2. amount * whole = amount * (p + q) + amount * (whole - (p + q))
    OBVIOUS
  <2>3. QED
    BY <2>1, <2>2
<1>6. whole * (x + y) <= whole * amount
  <2>1. amount * whole = whole * amount
    OBVIOUS
  <2>2. QED
    BY <1>2, <1>3, <1>4, <1>5, <2>1
<1>7. x + y <= amount
  BY <1>2, <1>3, <1>6, Cancel
<1>8. QED
  BY <1>2, <1>3, <1>7 DEF x, y

(***************************************************************************)
(* Movements of tokens.                                                    *)
(***************************************************************************)

\* What one account loses and another gains, the balances keep.
LEMMA MoveKeepsTheSum ==
    ASSUME NEW f \in [Address -> Nat], NEW from \in Address, NEW to \in Address,
           NEW amount \in Nat, amount <= f[from],
           NEW h, h = [[f EXCEPT ![from] = @ - amount] EXCEPT ![to] = @ + amount]
    PROVE  SumFunction(h) = SumFunction(f)
<1> DEFINE left  == f[from] - amount
           paid  == [f EXCEPT ![from] = left]
           right == paid[to] + amount
<1>1. left \in Nat /\ paid \in [Address -> Nat] /\ right \in Nat
  OBVIOUS
<1>2. h = [paid EXCEPT ![to] = right]
  OBVIOUS
<1>3. /\ SumFunction(paid) = SumFunction(f) + (left - f[from])
      /\ SumFunction(f) \in Int
  BY <1>1, SumOfOneChange
<1>4. left - f[from] = -amount
  OBVIOUS
<1>5. right - paid[to] = amount
  BY <1>1
<1> HIDE DEF left, paid, right
<1>6. /\ SumFunction(h) = SumFunction(paid) + (right - paid[to])
      /\ SumFunction(paid) \in Int
  BY <1>1, <1>2, SumOfOneChange
<1>7. QED
  BY <1>3, <1>4, <1>5, <1>6

LEMMA MoveKeeps ==
    ASSUME NEW b, BibOK(b), NEW from \in Address, NEW to \in Address,
           NEW amount \in Nat, amount <= b.balanceOf[from],
           NEW c, c = Move(b, from, to, amount)
    PROVE  BibOK(c) /\ SameRules(b, c) /\ OnlyPays(b, c, from, amount)
<1>1. b \in BIBStorage
  BY DEF BibOK
<1> DEFINE balances == [[b.balanceOf EXCEPT ![from] = @ - amount] EXCEPT ![to] = @ + amount]
<1>2. b.balanceOf \in [Address -> Nat]
  BY <1>1 DEF BIBStorage
<1>3. balances \in [Address -> Nat]
  BY <1>2
<1>4. /\ balances[from] >= b.balanceOf[from] - amount
      /\ \A a \in Address : a # from => balances[a] >= b.balanceOf[a]
  BY <1>2
<1>5. c = [b EXCEPT !.balanceOf = balances]
  BY DEF Move
<1>6. SumFunction(balances) = SumFunction(b.balanceOf)
  BY <1>2, MoveKeepsTheSum
<1> HIDE DEF balances
<1>7. c \in BIBStorage /\ c.balanceOf = balances /\ SameRules(b, c)
  BY <1>1, <1>3, <1>5 DEF BIBStorage, SameRules
<1>8. QED
  BY <1>4, <1>6, <1>7 DEF BibOK, SameRules, OnlyPays

\* Fees and burns are part of the amount.
LEMMA TaxFits ==
    ASSUME NEW b, BibOK(b), NEW amount \in Nat
    PROVE  LET fees   == (amount * (b.fees.liquidityFee + b.fees.rewardFee)) \div Hundred
               burned == (amount * b.fees.blackholeFee) \div Hundred
           IN  fees \in Nat /\ burned \in Nat /\ fees + burned <= amount
<1>1. /\ b.fees.rewardFee \in Nat /\ b.fees.blackholeFee \in Nat /\ b.fees.liquidityFee \in Nat
      /\ b.fees.rewardFee + b.fees.blackholeFee + b.fees.liquidityFee <= MaxFee
  BY DEF BibOK, BIBStorage, FeeRates
<1>2. Hundred \in Nat \ {0} /\ MaxFee \in 0 .. Hundred
  BY BIBAssumptions
<1> DEFINE p == b.fees.liquidityFee + b.fees.rewardFee
           q == b.fees.blackholeFee
<1>3. p \in Nat /\ q \in Nat /\ p + q <= Hundred
  BY <1>1, <1>2
<1> HIDE DEF p, q
<1>4. /\ (amount * p) \div Hundred \in Nat /\ (amount * q) \div Hundred \in Nat
      /\ (amount * p) \div Hundred + (amount * q) \div Hundred <= amount
  BY <1>2, <1>3, SharesFit
<1>5. QED
  BY <1>4 DEF p, q

\* With them, nobody but the sender loses anything.
LEMMA PayKeeps ==
    ASSUME NEW b, BibOK(b), NEW from \in Address, NEW to \in Address,
           NEW amount \in Nat, amount <= b.balanceOf[from],
           NEW c, c = Pay(b, from, to, amount)
    PROVE  BibOK(c) /\ SameRules(b, c) /\ OnlyPays(b, c, from, amount)
<1> DEFINE fees   == (amount * (b.fees.liquidityFee + b.fees.rewardFee)) \div Hundred
           burned == (amount * b.fees.blackholeFee) \div Hundred
<1>1. fees \in Nat /\ burned \in Nat /\ fees + burned <= amount
  BY TaxFits
<1> HIDE DEF fees, burned
<1>2. b.balanceOf \in [Address -> Nat] /\ {DeadAddress, Token} \subseteq Address
  BY BIBAssumptions DEF BibOK, BIBStorage
<1>3. CASE FeesDue(b, from, to)
  <2> DEFINE b1 == Move(b, from, DeadAddress, burned)
             b2 == Move(b1, from, Token, fees)
  <2>1. c = Move(b2, from, to, amount - fees - burned)
    BY <1>3 DEF Pay, fees, burned
  <2>2. BibOK(b1) /\ SameRules(b, b1) /\ OnlyPays(b, b1, from, burned)
    BY <1>1, <1>2, MoveKeeps
  <2>3. b1.balanceOf \in [Address -> Nat] /\ fees <= b1.balanceOf[from]
    <3>1. b1.balanceOf \in [Address -> Nat]
      BY <2>2 DEF BibOK, BIBStorage
    <3>2. b1.balanceOf[from] >= b.balanceOf[from] - burned
      BY <2>2 DEF OnlyPays
    <3> HIDE DEF b1
    <3>3. QED
      BY <1>1, <1>2, <3>1, <3>2
  <2> HIDE DEF b1
  <2>4. BibOK(b2) /\ SameRules(b1, b2) /\ OnlyPays(b1, b2, from, fees)
    BY <1>1, <1>2, <2>2, <2>3, MoveKeeps
  <2>5. b2.balanceOf \in [Address -> Nat]
    BY <2>4 DEF BibOK, BIBStorage
  <2> HIDE DEF b2
  <2>6. amount - fees - burned \in Nat /\ amount - fees - burned <= b2.balanceOf[from]
    BY <1>1, <1>2, <2>2, <2>3, <2>4, <2>5 DEF OnlyPays
  <2>7. /\ BibOK(c) /\ SameRules(b2, c)
        /\ OnlyPays(b2, c, from, amount - fees - burned)
    BY <2>1, <2>4, <2>6, MoveKeeps
  <2>8. c.balanceOf \in [Address -> Nat]
    BY <2>7 DEF BibOK, BIBStorage
  <2>9. OnlyPays(b, c, from, amount)
    <3>1. c.balanceOf[from] >= b.balanceOf[from] - amount
      BY <1>1, <1>2, <2>2, <2>3, <2>4, <2>5, <2>7, <2>8 DEF OnlyPays
    <3>2. \A a \in Address : a # from => c.balanceOf[a] >= b.balanceOf[a]
      BY <1>2, <2>2, <2>3, <2>4, <2>5, <2>7, <2>8 DEF OnlyPays
    <3>3. QED
      BY <3>1, <3>2 DEF OnlyPays
  <2>10. QED
    BY <2>2, <2>4, <2>7, <2>9 DEF SameRules
<1>4. CASE ~FeesDue(b, from, to)
  BY <1>4, MoveKeeps DEF Pay
<1>5. QED
  BY <1>3, <1>4

\* c is b with the amount moved; from and to may be the same account.
Moved(b, c, from, to, amount) ==
    \A a \in Address :
      c.balanceOf[a] = b.balanceOf[a] - Only(from, a, amount) + Only(to, a, amount)

LEMMA MoveMoves ==
    ASSUME NEW b, BibOK(b), NEW from \in Address, NEW to \in Address,
           NEW amount \in Nat,
           NEW c, c = Move(b, from, to, amount)
    PROVE  Moved(b, c, from, to, amount)
<1> DEFINE balances == [[b.balanceOf EXCEPT ![from] = @ - amount] EXCEPT ![to] = @ + amount]
<1>1. b \in BIBStorage /\ b.balanceOf \in [Address -> Nat]
  BY DEF BibOK, BIBStorage
<1>2. c.balanceOf = balances
  BY <1>1 DEF Move, BIBStorage
<1>3. ASSUME NEW a \in Address
      PROVE  balances[a] = b.balanceOf[a] - Only(from, a, amount) + Only(to, a, amount)
  BY <1>1 DEF Only
<1> HIDE DEF balances
<1>4. QED
  BY <1>2, <1>3 DEF Moved

\* What is left of the amount for the recipient, and where the rest goes.
Paid(b, c, from, to, amount, fees, burned) ==
    \A a \in Address :
      c.balanceOf[a] = b.balanceOf[a] + Only(to, a, amount - fees - burned)
                           + Only(DeadAddress, a, burned) + Only(Token, a, fees)
                           - Only(from, a, amount)

LEMMA PayTaxes ==
    ASSUME NEW b, BibOK(b), NEW from \in Address, NEW to \in Address,
           NEW amount \in Nat, amount <= b.balanceOf[from], FeesDue(b, from, to),
           NEW c, c = Pay(b, from, to, amount)
    PROVE  Paid(b, c, from, to, amount,
                (amount * (b.fees.liquidityFee + b.fees.rewardFee)) \div Hundred,
                (amount * b.fees.blackholeFee) \div Hundred)
<1> DEFINE fees   == (amount * (b.fees.liquidityFee + b.fees.rewardFee)) \div Hundred
           burned == (amount * b.fees.blackholeFee) \div Hundred
           b1 == Move(b, from, DeadAddress, burned)
           b2 == Move(b1, from, Token, fees)
<1>1. fees \in Nat /\ burned \in Nat /\ fees + burned <= amount
  BY TaxFits
<1>2. c = Move(b2, from, to, amount - fees - burned)
  BY DEF Pay
<1> SUFFICES Paid(b, c, from, to, amount, fees, burned)
  OBVIOUS
<1> HIDE DEF fees, burned
<1>3. b.balanceOf \in [Address -> Nat] /\ {DeadAddress, Token} \subseteq Address
  BY BIBAssumptions DEF BibOK, BIBStorage
<1>4. /\ BibOK(b1) /\ OnlyPays(b, b1, from, burned)
      /\ Moved(b, b1, from, DeadAddress, burned)
  BY <1>1, <1>3, MoveKeeps, MoveMoves
<1> HIDE DEF b1
<1>5. b1.balanceOf \in [Address -> Nat] /\ fees <= b1.balanceOf[from]
  <2>1. b1.balanceOf \in [Address -> Nat]
    BY <1>4 DEF BibOK, BIBStorage
  <2>2. QED
    BY <1>1, <1>3, <1>4, <2>1 DEF OnlyPays
<1>6. BibOK(b2) /\ Moved(b1, b2, from, Token, fees)
  BY <1>1, <1>3, <1>4, <1>5, MoveKeeps, MoveMoves
<1> HIDE DEF b2
<1>7. b2.balanceOf \in [Address -> Nat] /\ amount - fees - burned \in Nat
  BY <1>1, <1>6 DEF BibOK, BIBStorage
<1>8. Moved(b2, c, from, to, amount - fees - burned)
  BY <1>2, <1>6, <1>7, MoveMoves
<1>9. ASSUME NEW a \in Address
      PROVE  c.balanceOf[a] = b.balanceOf[a] + Only(to, a, amount - fees - burned)
                                 + Only(DeadAddress, a, burned) + Only(Token, a, fees)
                                 - Only(from, a, amount)
  <2>1. /\ b1.balanceOf[a] = b.balanceOf[a] - Only(from, a, burned)
                                 + Only(DeadAddress, a, burned)
        /\ b2.balanceOf[a] = b1.balanceOf[a] - Only(from, a, fees) + Only(Token, a, fees)
        /\ c.balanceOf[a] = b2.balanceOf[a] - Only(from, a, amount - fees - burned)
                                 + Only(to, a, amount - fees - burned)
    BY <1>4, <1>6, <1>8 DEF Moved
  <2>2. /\ b.balanceOf[a] \in Int /\ b1.balanceOf[a] \in Int /\ b2.balanceOf[a] \in Int
    BY <1>3, <1>5, <1>7
  <2>3. QED
    BY <1>1, <2>1, <2>2 DEF Only
<1>10. QED
  BY <1>9 DEF Paid

LEMMA PayUntaxed ==
    ASSUME NEW b, BibOK(b), NEW from \in Address, NEW to \in Address,
           NEW amount \in Nat, ~FeesDue(b, from, to),
           NEW c, c = Pay(b, from, to, amount)
    PROVE  Moved(b, c, from, to, amount)
BY MoveMoves DEF Pay

(***************************************************************************)
(* The calls of the tracker come back with the token as it was.            *)
(***************************************************************************)

LEMMA ReportKeepsBib ==
    ASSUME NEW w, IsWorld(w), NEW account, NEW now
    PROVE  IsWorld(Report(w, account, now)) /\ Report(w, account, now).bib = w.bib
BY DEF Report, IsWorld

LEMMA ProcessKeepsBib ==
    ASSUME NEW w, IsWorld(w), NEW turns, NEW now
    PROVE  IsWorld(Process(w, turns, now)) /\ Process(w, turns, now).bib = w.bib
<1> DEFINE call == ProcessCall(w.bib, w.store, turns, now)
           store2 == [call.store EXCEPT !.lastProcessedIndex = call.cursor]
<1>1. \/ Process(w, turns, now) = w
      \/ Process(w, turns, now) = [w EXCEPT !.store = store2]
  BY DEF Process
<1> HIDE DEF store2
<1>2. QED
  BY <1>1 DEF IsWorld

LEMMA DeliverPays ==
    ASSUME NEW w, IsWorld(w), NEW from, NEW to, NEW amount, NEW how, NEW now
    PROVE  /\ IsWorld(Deliver(w, from, to, amount, how, now))
           /\ Deliver(w, from, to, amount, how, now).bib = Pay(w.bib, from, to, amount)
<1> DEFINE paid == [w EXCEPT !.bib = Pay(@, from, to, amount)]
           told == ReportBoth(paid, from, to, how.tries, now)
<1>1. IsWorld(paid) /\ paid.bib = Pay(w.bib, from, to, amount)
  BY DEF IsWorld
<1> HIDE DEF paid
<1>2. IsWorld(told) /\ told.bib = paid.bib
  <2> DEFINE first == IF how.tries >= 1 THEN Report(paid, from, now) ELSE paid
  <2>1. IsWorld(first) /\ first.bib = paid.bib
    BY <1>1, ReportKeepsBib
  <2>2. told = IF how.tries >= 2 THEN Report(first, to, now) ELSE first
    BY DEF ReportBoth
  <2> HIDE DEF first, told
  <2>3. QED
    BY <2>1, <2>2, ReportKeepsBib
<1> HIDE DEF told
<1>3. \/ Deliver(w, from, to, amount, how, now) = told
      \/ Deliver(w, from, to, amount, how, now) = Process(told, how.turns, now)
  BY DEF Deliver, told, paid
<1>4. QED
  BY <1>1, <1>2, <1>3, ProcessKeepsBib

(***************************************************************************)
(* The swap.                                                               *)
(***************************************************************************)

\* What the router takes from the token adds up to the threshold.
LEMMA PartsFit ==
    ASSUME NEW b, BibOK(b), b.fees.liquidityFee + b.fees.rewardFee # 0
    PROVE  /\ \A i \in 1 .. 3 : Parts(b)[i] \in Nat
           /\ Parts(b)[1] + Parts(b)[2] + Parts(b)[3] = b.swapTokensAtAmount
<1> DEFINE whole  == b.fees.liquidityFee + b.fees.rewardFee
           liquid == (b.swapTokensAtAmount * b.fees.liquidityFee) \div whole
<1>1. /\ b.swapTokensAtAmount \in Nat /\ b.fees.liquidityFee \in Nat
      /\ b.fees.rewardFee \in Nat
  BY DEF BibOK, BIBStorage, FeeRates
<1>2. whole \in Nat \ {0} /\ b.fees.liquidityFee + 0 <= whole
  BY <1>1
<1>3. Parts(b) = << liquid \div 2, liquid - liquid \div 2, b.swapTokensAtAmount - liquid >>
  BY DEF Parts
<1>4. liquid \in Nat /\ liquid <= b.swapTokensAtAmount
  <2> HIDE DEF whole
  <2> DEFINE none == (b.swapTokensAtAmount * 0) \div whole
  <2>1. liquid \in Nat /\ none \in Nat /\ liquid + none <= b.swapTokensAtAmount
    BY <1>1, <1>2, SharesFit
  <2> HIDE DEF liquid, none
  <2>2. QED
    BY <1>1, <2>1
<1> HIDE DEF liquid, whole
<1>5. liquid \div 2 \in Nat /\ 2 * (liquid \div 2) <= liquid
  BY <1>4, DivIsBelow
<1> DEFINE half == liquid \div 2
<1>6. Parts(b) = << half, liquid - half, b.swapTokensAtAmount - liquid >>
  BY <1>3
<1> HIDE DEF half
<1>7. half \in Nat /\ 2 * half <= liquid
  BY <1>5 DEF half
<1>8. QED
  BY <1>1, <1>4, <1>6, <1>7

\* One nested transfer of the router: no fees, and the token pays.
LEMMA SellKeeps ==
    ASSUME NEW w, IsWorld(w), BibOK(w.bib), w.bib.swapping,
           NEW part \in Nat, part <= w.bib.balanceOf[Token], NEW how, NEW now,
           NEW x, x = Deliver(w, Token, Pair, part, how, now)
    PROVE  /\ IsWorld(x) /\ BibOK(x.bib) /\ SameRules(w.bib, x.bib)
           /\ OnlyPays(w.bib, x.bib, Token, part)
<1>1. Token \in Address /\ Pair \in Address
  BY BIBAssumptions
<1>2. IsWorld(x) /\ x.bib = Pay(w.bib, Token, Pair, part)
  BY DeliverPays
<1>3. QED
  BY <1>1, <1>2, PayKeeps

\* A nested transfer takes no fee: the flag is up.
LEMMA SellMoves ==
    ASSUME NEW w, IsWorld(w), BibOK(w.bib), w.bib.swapping,
           NEW part \in Nat, NEW how, NEW now,
           NEW x, x = Deliver(w, Token, Pair, part, how, now)
    PROVE  Moved(w.bib, x.bib, Token, Pair, part)
<1>1. Token \in Address /\ Pair \in Address
  BY BIBAssumptions
<1>2. x.bib = Pay(w.bib, Token, Pair, part)
  BY DeliverPays
<1>3. QED
  BY <1>1, <1>2, PayUntaxed DEF FeesDue

\* Of two payments together.
LEMMA PaysAdd ==
    ASSUME NEW b, BibOK(b), NEW c, BibOK(c), NEW d, BibOK(d), NEW from \in Address,
           NEW m \in Nat, NEW n \in Nat,
           OnlyPays(b, c, from, m), OnlyPays(c, d, from, n),
           SameRules(b, c), SameRules(c, d)
    PROVE  OnlyPays(b, d, from, m + n) /\ SameRules(b, d)
<1>1. /\ b.balanceOf \in [Address -> Nat] /\ c.balanceOf \in [Address -> Nat]
      /\ d.balanceOf \in [Address -> Nat]
  BY DEF BibOK, BIBStorage
<1>2. d.balanceOf[from] >= b.balanceOf[from] - (m + n)
  BY <1>1 DEF OnlyPays
<1>3. \A a \in Address : a # from => d.balanceOf[a] >= b.balanceOf[a]
  BY <1>1 DEF OnlyPays
<1>4. QED
  BY <1>2, <1>3 DEF OnlyPays, SameRules

\* Of two movements together.
LEMMA MovesAdd ==
    ASSUME NEW b, BibOK(b), NEW c, BibOK(c), NEW d, BibOK(d),
           NEW from \in Address, NEW to \in Address, NEW m \in Nat, NEW n \in Nat,
           Moved(b, c, from, to, m), Moved(c, d, from, to, n)
    PROVE  Moved(b, d, from, to, m + n)
<1>1. /\ b.balanceOf \in [Address -> Nat] /\ c.balanceOf \in [Address -> Nat]
      /\ d.balanceOf \in [Address -> Nat]
  BY DEF BibOK, BIBStorage
<1>2. QED
  BY <1>1 DEF Moved, Only

\* The rewards that are sent on are not in the token.
LEMMA SendOnKeeps ==
    ASSUME NEW w, IsWorld(w), BibOK(w.bib), NEW got \in Nat, NEW success,
           NEW x, x = SendOn(w, got, success)
    PROVE  /\ IsWorld(x) /\ BibOK(x.bib) /\ SameRules(w.bib, x.bib)
           /\ x.bib.balanceOf = w.bib.balanceOf
<1>1. w.bib \in BIBStorage /\ w.bib.rewards \in Nat
  BY DEF BibOK, BIBStorage
<1> DEFINE dividends == w.bib.rewards + got
           sent      == Distribute([w.store EXCEPT !.reserve = @ + dividends], dividends)
<1>2. \/ x = [w EXCEPT !.bib = [w.bib EXCEPT !.rewards = 0], !.store = sent]
      \/ x = [w EXCEPT !.bib = [w.bib EXCEPT !.rewards = dividends]]
  BY DEF SendOn
<1>3. IsWorld(x) /\ \E r \in Nat : x.bib = [w.bib EXCEPT !.rewards = r]
  <2>1. dividends \in Nat /\ 0 \in Nat
    BY <1>1
  <2> HIDE DEF sent, dividends
  <2>2. QED
    BY <2>1, <1>2 DEF IsWorld
<1>4. PICK r \in Nat : x.bib = [w.bib EXCEPT !.rewards = r]
  BY <1>3
<1>5. x.bib \in BIBStorage
  BY <1>1, <1>4 DEF BIBStorage
<1>6. SameRules(w.bib, x.bib) /\ x.bib.balanceOf = w.bib.balanceOf
  BY <1>1, <1>4 DEF BIBStorage, SameRules
<1>7. QED
  BY <1>3, <1>5, <1>6 DEF BibOK, SameRules

LEMMA SwapBackKeeps ==
    ASSUME NEW w, IsWorld(w), BibOK(w.bib), ~w.bib.swapping, NEW to, SwapDue(w.bib, to),
           NEW how, ~SwapReverts(w, how), how.got \in Nat, NEW now,
           NEW x, x = SwapBack(w, how, now)
    PROVE  /\ IsWorld(x) /\ BibOK(x.bib) /\ SameRules(w.bib, x.bib)
           /\ OnlyPays(w.bib, x.bib, Token, w.bib.swapTokensAtAmount)
           /\ Moved(w.bib, x.bib, Token, Pair, w.bib.swapTokensAtAmount)
<1> DEFINE b  == w.bib
           p1 == Parts(b)[1]
           p2 == Parts(b)[2]
           p3 == Parts(b)[3]
           up == [w EXCEPT !.bib.swapping = TRUE]
           x1 == Deliver(up, Token, Pair, p1, how, now)
           x2 == Deliver(x1, Token, Pair, p2, how, now)
           x3 == Deliver(x2, Token, Pair, p3, how, now)
           y  == SendOn(x3, how.got, how.success)
<1>1. x = [y EXCEPT !.bib.swapping = FALSE]
  BY DEF SwapBack
<1>2. /\ p1 \in Nat /\ p2 \in Nat /\ p3 \in Nat
      /\ p1 + p2 + p3 = b.swapTokensAtAmount
  BY PartsFit DEF SwapReverts, BibOK, BIBStorage, FeeRates
<1>3. /\ b \in BIBStorage /\ b.balanceOf \in [Address -> Nat]
      /\ b.swapTokensAtAmount <= b.balanceOf[Token]
      /\ Token \in Address /\ Pair \in Address
  BY BIBAssumptions DEF BibOK, BIBStorage, SwapDue
<1> HIDE DEF p1, p2, p3
<1>4. /\ IsWorld(up) /\ BibOK(up.bib) /\ up.bib.swapping
      /\ up.bib = [b EXCEPT !.swapping = TRUE]
  <2>1. up.bib = [b EXCEPT !.swapping = TRUE] /\ IsWorld(up)
    <3>1. up = [w EXCEPT !.bib = [b EXCEPT !.swapping = TRUE]]
      OBVIOUS
    <3> DEFINE raised == [b EXCEPT !.swapping = TRUE]
    <3> HIDE DEF raised
    <3>2. IsWorld([w EXCEPT !.bib = raised]) /\ [w EXCEPT !.bib = raised].bib = raised
      BY DEF IsWorld
    <3>3. QED
      BY <3>1, <3>2 DEF raised
  <2>2. [b EXCEPT !.swapping = TRUE] \in BIBStorage
    BY <1>3 DEF BIBStorage
  <2>3. up.bib.fees = b.fees /\ up.bib.swapping
    BY <2>1, <1>3 DEF BIBStorage
  <2>4. up.bib.balanceOf = b.balanceOf
    BY <2>1, <1>3 DEF BIBStorage
  <2> HIDE DEF up
  <2>5. QED
    BY <2>1, <2>2, <2>3, <2>4 DEF BibOK
<1>5. /\ up.bib.balanceOf = b.balanceOf
      /\ up.bib.fees = b.fees /\ up.bib.swapTokensAtAmount = b.swapTokensAtAmount
      /\ up.bib.freezeToken = b.freezeToken /\ up.bib.freezeMap = b.freezeMap
      /\ up.bib.isFromWhiteList = b.isFromWhiteList
      /\ up.bib.isToWhiteList = b.isToWhiteList
  BY <1>3, <1>4 DEF BIBStorage
<1> HIDE DEF up
<1>6. /\ IsWorld(x1) /\ BibOK(x1.bib) /\ SameRules(up.bib, x1.bib)
      /\ OnlyPays(up.bib, x1.bib, Token, p1) /\ Moved(up.bib, x1.bib, Token, Pair, p1)
  <2>1. p1 <= up.bib.balanceOf[Token]
    BY <1>2, <1>3, <1>5
  <2>2. QED
    BY <1>2, <1>4, <2>1, SellKeeps, SellMoves
<1> HIDE DEF x1
<1>7. x1.bib.balanceOf \in [Address -> Nat] /\ p2 + p3 <= x1.bib.balanceOf[Token]
  BY <1>2, <1>3, <1>5, <1>6 DEF OnlyPays, BibOK, BIBStorage
<1>8. /\ IsWorld(x2) /\ BibOK(x2.bib) /\ SameRules(x1.bib, x2.bib)
      /\ OnlyPays(x1.bib, x2.bib, Token, p2) /\ Moved(x1.bib, x2.bib, Token, Pair, p2)
  <2>1. p2 <= x1.bib.balanceOf[Token] /\ x1.bib.swapping
    BY <1>2, <1>3, <1>4, <1>6, <1>7 DEF SameRules
  <2>2. QED
    BY <1>2, <1>6, <2>1, SellKeeps, SellMoves
<1> HIDE DEF x2
<1>9. /\ OnlyPays(up.bib, x2.bib, Token, p1 + p2) /\ SameRules(up.bib, x2.bib)
      /\ Moved(up.bib, x2.bib, Token, Pair, p1 + p2)
  BY <1>2, <1>3, <1>4, <1>6, <1>8, PaysAdd, MovesAdd
<1>10. /\ IsWorld(x3) /\ BibOK(x3.bib) /\ SameRules(x2.bib, x3.bib)
       /\ OnlyPays(x2.bib, x3.bib, Token, p3) /\ Moved(x2.bib, x3.bib, Token, Pair, p3)
  <2>1. p3 <= x2.bib.balanceOf[Token] /\ x2.bib.swapping
    <3>1. x2.bib.balanceOf \in [Address -> Nat]
      BY <1>8 DEF BibOK, BIBStorage
    <3>2. QED
      BY <1>2, <1>3, <1>4, <1>7, <1>8, <1>9, <3>1 DEF OnlyPays, SameRules
  <2>2. QED
    BY <1>2, <1>8, <2>1, SellKeeps, SellMoves
<1> HIDE DEF x3
<1>11. /\ OnlyPays(up.bib, x3.bib, Token, p1 + p2 + p3) /\ SameRules(up.bib, x3.bib)
       /\ Moved(up.bib, x3.bib, Token, Pair, p1 + p2 + p3)
  <2>1. p1 + p2 \in Nat
    BY <1>2
  <2>2. QED
    BY <1>2, <1>3, <1>4, <1>8, <1>9, <1>10, <2>1, PaysAdd, MovesAdd
<1>12. /\ IsWorld(y) /\ BibOK(y.bib) /\ SameRules(x3.bib, y.bib)
       /\ y.bib.balanceOf = x3.bib.balanceOf
  BY <1>10, SendOnKeeps
<1> HIDE DEF y
<1>13. IsWorld(x) /\ x.bib = [y.bib EXCEPT !.swapping = FALSE]
  BY <1>1, <1>12 DEF IsWorld
<1>14. /\ x.bib \in BIBStorage /\ ~x.bib.swapping
       /\ x.bib.balanceOf = y.bib.balanceOf
       /\ x.bib.fees = y.bib.fees /\ x.bib.swapTokensAtAmount = y.bib.swapTokensAtAmount
       /\ x.bib.freezeToken = y.bib.freezeToken /\ x.bib.freezeMap = y.bib.freezeMap
       /\ x.bib.isFromWhiteList = y.bib.isFromWhiteList
       /\ x.bib.isToWhiteList = y.bib.isToWhiteList
  BY <1>12, <1>13 DEF BibOK, BIBStorage
<1>15. BibOK(x.bib)
  BY <1>12, <1>14 DEF BibOK
<1>16. SameRules(b, x.bib)
  <2>1. x.bib.swapping = b.swapping
    BY <1>3, <1>14 DEF BIBStorage
  <2>2. QED
    BY <2>1, <1>5, <1>11, <1>12, <1>14 DEF SameRules
<1>17. /\ OnlyPays(b, x.bib, Token, b.swapTokensAtAmount)
       /\ Moved(b, x.bib, Token, Pair, b.swapTokensAtAmount)
  BY <1>2, <1>5, <1>11, <1>12, <1>14 DEF OnlyPays, Moved
<1>18. QED
  BY <1>13, <1>15, <1>16, <1>17

(***************************************************************************)
(* Transfers.                                                              *)
(***************************************************************************)

LEMMA WorldIs == IsWorld(World) /\ World.bib = bib
BY DEF World, IsWorld

\* The swap leaves the token what it has frozen, and takes from nobody else.
LEMMA SwappedKeeps ==
    ASSUME Inv, NEW to, NEW how, how.got \in Nat, NEW now,
           SwapDue(bib, to) => ~SwapReverts(World, how),
           NEW x, x = Swapped(World, to, how, now)
    PROVE  /\ IsWorld(x) /\ BibOK(x.bib) /\ SameRules(bib, x.bib)
           /\ \A a \in Address : a # Token => x.bib.balanceOf[a] >= bib.balanceOf[a]
           /\ bib.freezeToken /\ bib.balanceOf[Token] >= bib.freezeMap[Token]
                 => x.bib.balanceOf[Token] >= bib.freezeMap[Token]
           /\ Moved(bib, x.bib, Token, Pair,
                    IF SwapDue(bib, to) THEN bib.swapTokensAtAmount ELSE 0)
<1>1. /\ bib.balanceOf \in [Address -> Nat] /\ bib.freezeMap \in [Address -> Nat]
      /\ bib.swapTokensAtAmount \in Nat /\ Token \in Address
  BY BIBAssumptions DEF Inv, BibOK, BIBStorage
<1>2. CASE SwapDue(bib, to)
  <2>1. x = SwapBack(World, how, now)
    BY <1>2, WorldIs DEF Swapped
  <2>2. /\ IsWorld(x) /\ BibOK(x.bib) /\ SameRules(bib, x.bib)
        /\ OnlyPays(bib, x.bib, Token, bib.swapTokensAtAmount)
        /\ Moved(bib, x.bib, Token, Pair, bib.swapTokensAtAmount)
    BY <1>2, <2>1, WorldIs, SwapBackKeeps DEF Inv
  <2>3. bib.freezeToken => bib.balanceOf[Token] - bib.freezeMap[Token] >= bib.swapTokensAtAmount
    BY <1>2, WorldIs DEF SwapReverts, FreezeAllows
  <2>4. x.bib.balanceOf \in [Address -> Nat]
    BY <2>2 DEF BibOK, BIBStorage
  <2>5. QED
    BY <1>1, <1>2, <2>2, <2>3, <2>4 DEF OnlyPays
<1>3. CASE ~SwapDue(bib, to)
  <2>1. x = World
    BY <1>3, WorldIs DEF Swapped
  <2>2. Moved(bib, bib, Token, Pair, 0)
    BY <1>1 DEF Moved, Only
  <2>3. QED
    BY <1>1, <1>3, <2>1, <2>2, WorldIs DEF Inv, SameRules
<1>4. QED
  BY <1>2, <1>3

LEMMA TransferKeeps ==
    ASSUME Inv, NEW from \in Address, NEW to \in Address, NEW amount \in Amounts,
           NEW how \in Hows(to), Transfer(from, to, amount, how)
    PROVE  Inv' /\ FrozenStep
<1>1. amount \in Nat /\ how.got \in Nat
  <2>1. how.got \in SwapRewards \/ how.got \in {0}
    BY DEF Hows
  <2>2. Amounts \subseteq Nat /\ SwapRewards \subseteq Nat
    BY BIBAssumptions
  <2>3. {0} \subseteq Nat
    OBVIOUS
  <2>4. QED
    BY <2>1, <2>2, <2>3
<1>2. /\ from # Token /\ ~TransferReverts(World, from, to, amount, how, clock)
      /\ bib' = TransferOf(World, from, to, amount, how, clock).bib
  BY DEF Transfer, Becomes
<1>3. CASE amount = 0
  <2>1. bib' = bib
    BY <1>2, <1>3, WorldIs DEF TransferOf
  <2>2. QED
    BY <2>1 DEF Inv, FrozenStep
<1>4. CASE amount # 0
  <2> DEFINE x == Swapped(World, to, how, clock)
  <2>1. /\ SwapDue(bib, to) => ~SwapReverts(World, how)
        /\ FreezeAllows(bib, from, amount)
        /\ x.bib.balanceOf[from] < amount => FALSE
    BY <1>1, <1>2, <1>4, WorldIs DEF TransferReverts
  <2>2. bib' = Deliver(x, from, to, amount, how, clock).bib
    BY <1>2, <1>4 DEF TransferOf
  <2>3. /\ IsWorld(x) /\ BibOK(x.bib) /\ SameRules(bib, x.bib)
        /\ \A a \in Address : a # Token => x.bib.balanceOf[a] >= bib.balanceOf[a]
        /\ bib.freezeToken /\ bib.balanceOf[Token] >= bib.freezeMap[Token]
              => x.bib.balanceOf[Token] >= bib.freezeMap[Token]
    BY <1>1, <2>1, SwappedKeeps
  <2> HIDE DEF x
  <2>4. bib' = Pay(x.bib, from, to, amount)
    BY <2>2, <2>3, DeliverPays
  <2>5. /\ x.bib.balanceOf \in [Address -> Nat] /\ bib.balanceOf \in [Address -> Nat]
        /\ bib.freezeMap \in [Address -> Nat]
    BY <2>3 DEF Inv, BibOK, BIBStorage
  <2>6. amount <= x.bib.balanceOf[from]
    BY <1>1, <2>1, <2>5
  <2>7. BibOK(bib') /\ SameRules(x.bib, bib') /\ OnlyPays(x.bib, bib', from, amount)
    BY <1>1, <2>3, <2>4, <2>6, PayKeeps
  <2>8. bib'.balanceOf \in [Address -> Nat]
    BY <2>7 DEF BibOK, BIBStorage
  <2>9. Inv'
    BY <2>3, <2>7 DEF Inv, SameRules, BibOK
  <2>10. FrozenStep
    <3> SUFFICES ASSUME NEW a \in Address, bib.freezeToken,
                        bib.balanceOf[a] >= bib.freezeMap[a]
                 PROVE  bib'.balanceOf[a] >= bib.freezeMap[a]
      BY DEF FrozenStep
    <3>1. CASE a = from
      BY <3>1, <1>1, <1>2, <2>1, <2>3, <2>5, <2>7, <2>8 DEF OnlyPays, FreezeAllows
    <3>2. CASE a # from
      <4>1. x.bib.balanceOf[a] >= bib.freezeMap[a]
        BY <2>3, <2>5
      <4>2. QED
        BY <3>2, <4>1, <2>5, <2>7, <2>8 DEF OnlyPays
    <3>3. QED
      BY <3>1, <3>2
  <2>11. QED
    BY <2>9, <2>10
<1>5. QED
  BY <1>3, <1>4

(***************************************************************************)
(* Everything else leaves the balances.                                    *)
(***************************************************************************)

LEMMA SameBalances ==
    ASSUME Inv, bib'.balanceOf = bib.balanceOf
    PROVE  FrozenStep
BY DEF FrozenStep

LEMMA SwitchKeeps ==
    ASSUME Inv, NEW value \in BOOLEAN,
           SetAllowTransfer(value) \/ Pause(value) \/ SetSwapEnabled(value)
    PROVE  Inv' /\ FrozenStep
<1>1. /\ bib' \in BIBStorage /\ bib'.fees = bib.fees /\ bib'.swapping = bib.swapping
      /\ bib'.balanceOf = bib.balanceOf
  BY DEF Inv, BibOK, BIBStorage, SetAllowTransfer, Pause, SetSwapEnabled
<1>2. QED
  BY <1>1, SameBalances DEF Inv, BibOK

LEMMA ListsKeep ==
    ASSUME Inv, NEW account \in Listed \union FeeListed,
           NEW value \in BOOLEAN, NEW isFrom \in BOOLEAN,
           \/ SetFeeWhiteList(account, value, isFrom) \/ SetNoProcessList(account, value)
           \/ SetAutomatedMarketMakerPair(account, value)
    PROVE  Inv' /\ FrozenStep
<1>1. account \in Address
  BY BIBAssumptions
<1>2. \A list \in SUBSET Address : Put(list, account, value) \in SUBSET Address
  BY <1>1 DEF Put
<1>3. /\ bib' \in BIBStorage /\ bib'.fees = bib.fees /\ bib'.swapping = bib.swapping
      /\ bib'.balanceOf = bib.balanceOf
  <2>1. CASE SetFeeWhiteList(account, value, isFrom)
    BY <2>1, <1>2 DEF Inv, BibOK, BIBStorage, SetFeeWhiteList
  <2>2. CASE SetNoProcessList(account, value)
    BY <2>2, <1>2 DEF Inv, BibOK, BIBStorage, SetNoProcessList
  <2>3. CASE SetAutomatedMarketMakerPair(account, value)
    BY <2>3, <1>2 DEF Inv, BibOK, BIBStorage, SetAutomatedMarketMakerPair
  <2>4. QED
    BY <2>1, <2>2, <2>3
<1>4. QED
  BY <1>3, SameBalances DEF Inv, BibOK

LEMMA FeesKeep ==
    ASSUME Inv, NEW fees \in FeeChoices, SetSellFee(fees)
    PROVE  Inv' /\ FrozenStep
<1>1. fees \in FeeRates
  BY BIBAssumptions
<1>2. /\ bib' \in BIBStorage /\ bib'.fees = fees /\ bib'.swapping = bib.swapping
      /\ bib'.balanceOf = bib.balanceOf
  BY <1>1 DEF Inv, BibOK, BIBStorage, SetSellFee
<1>3. QED
  BY <1>2, SameBalances DEF Inv, BibOK, SetSellFee

LEMMA ThresholdKeeps ==
    ASSUME Inv, NEW newValue \in Thresholds, UpdateSwapTokensAtAmount(newValue)
    PROVE  Inv' /\ FrozenStep
<1>1. newValue \in Nat
  BY BIBAssumptions
<1>2. /\ bib' \in BIBStorage /\ bib'.fees = bib.fees /\ bib'.swapping = bib.swapping
      /\ bib'.balanceOf = bib.balanceOf
  BY <1>1 DEF Inv, BibOK, BIBStorage, UpdateSwapTokensAtAmount
<1>3. QED
  BY <1>2, SameBalances DEF Inv, BibOK

LEMMA FreezingKeeps ==
    ASSUME Inv, NEW account \in Address, NEW amount \in Nat,
           SetFreezeTokenAddress \/ AddFreezeToken(account, amount)
    PROVE  Inv' /\ FrozenStep
<1>1. bib.freezeMap \in [Address -> Nat]
  BY DEF Inv, BibOK, BIBStorage
<1> DEFINE frozen == [bib.freezeMap EXCEPT ![account] = @ + amount]
<1>2. frozen \in [Address -> Nat]
  BY <1>1
<1>3. \/ bib' = [bib EXCEPT !.freezeToken = TRUE]
      \/ bib' = [bib EXCEPT !.freezeMap = frozen]
  BY DEF SetFreezeTokenAddress, AddFreezeToken
<1> HIDE DEF frozen
<1>4. /\ bib' \in BIBStorage /\ bib'.fees = bib.fees /\ bib'.swapping = bib.swapping
      /\ bib'.balanceOf = bib.balanceOf
  BY <1>2, <1>3 DEF Inv, BibOK, BIBStorage
<1>5. QED
  BY <1>4, SameBalances DEF Inv, BibOK

LEMMA AnswersKeep ==
    ASSUME Inv, NEW account \in Refusable, NEW answer \in {"moves"} \union Refusals,
           RewardTokenAnswers(account, answer)
    PROVE  Inv' /\ FrozenStep
<1>1. account \in Address /\ answer \in Results
  BY BIBAssumptions DEF Results
<1> DEFINE answers == [bib.answers EXCEPT ![account] = answer]
<1>2. answers \in [Address -> Results]
  BY <1>1 DEF Inv, BibOK, BIBStorage
<1>3. bib' = [bib EXCEPT !.answers = answers]
  BY DEF RewardTokenAnswers
<1> HIDE DEF answers
<1>4. /\ bib' \in BIBStorage /\ bib'.fees = bib.fees /\ bib'.swapping = bib.swapping
      /\ bib'.balanceOf = bib.balanceOf
  BY <1>2, <1>3 DEF Inv, BibOK, BIBStorage
<1>5. QED
  BY <1>4, SameBalances DEF Inv, BibOK

(***************************************************************************)
(* Frozen tokens.                                                          *)
(***************************************************************************)

LEMMA InitInv == Init => Inv
<1> SUFFICES ASSUME Init PROVE Inv
  OBVIOUS
<1>1. /\ InitialSupply \in Nat /\ InitialFees \in FeeRates /\ InitialThreshold \in Nat
      /\ {Token, DeadAddress, Pair, Owner} \subseteq Address
      /\ InitialFees.rewardFee + InitialFees.blackholeFee + InitialFees.liquidityFee <= MaxFee
  BY BIBAssumptions
<1>2. [a \in Address |-> IF a = Owner THEN InitialSupply ELSE 0] \in [Address -> Nat]
  BY <1>1
<1>3. [a \in Address |-> "moves"] \in [Address -> Results]
  BY DEF Results
<1>4. bib \in BIBStorage
  BY <1>1, <1>2, <1>3 DEF Init, BIBStorage
<1>5. SumFunction(bib.balanceOf) = InitialSupply
  <2> DEFINE none   == [a \in Address |-> 0]
             minted == [none EXCEPT ![Owner] = InitialSupply]
  <2>1. /\ none \in [Address -> Nat] /\ DOMAIN none = Address
        /\ none[Owner] = 0 /\ \A a \in Address : none[a] = 0
    BY <1>1
  <2>2. bib.balanceOf = minted
    BY DEF Init
  <2> HIDE DEF none
  <2>3. SumFunction(none) = 0
    BY <2>1, AddressesAreFinite, SumOfZeros, SumOverAccounts
  <2>4. SumFunction(minted) = SumFunction(none) + (InitialSupply - none[Owner])
    BY <1>1, <2>1, SumOfOneChange
  <2> HIDE DEF minted
  <2>5. QED
    BY <1>1, <2>1, <2>2, <2>3, <2>4
<1>6. QED
  BY <1>1, <1>4, <1>5 DEF Init, Inv, BibOK

LEMMA NextKeeps == Inv /\ [Next]_vars => Inv' /\ FrozenStep
<1> SUFFICES ASSUME Inv, [Next]_vars PROVE Inv' /\ FrozenStep
  OBVIOUS
<1>1. ASSUME NEW from \in Address, NEW to \in Address, NEW amount \in Amounts,
             NEW how \in Hows(to), Transfer(from, to, amount, how)
      PROVE  Inv' /\ FrozenStep
  BY <1>1, TransferKeeps
<1>2. ASSUME NEW value \in BOOLEAN,
             \/ SetAllowTransfer(value) \/ Pause(value) \/ SetSwapEnabled(value)
             \/ \E account \in FeeListed, isFrom \in BOOLEAN :
                   SetFeeWhiteList(account, value, isFrom)
             \/ \E account \in Listed :
                   \/ SetNoProcessList(account, value)
                   \/ SetAutomatedMarketMakerPair(account, value)
      PROVE  Inv' /\ FrozenStep
  BY <1>2, SwitchKeeps, ListsKeep
<1>3. ASSUME NEW fees \in FeeChoices, SetSellFee(fees) PROVE Inv' /\ FrozenStep
  BY <1>3, FeesKeep
<1>4. ASSUME NEW newValue \in Thresholds, UpdateSwapTokensAtAmount(newValue)
      PROVE  Inv' /\ FrozenStep
  BY <1>4, ThresholdKeeps
<1>5. ASSUME \/ SetFreezeTokenAddress
             \/ \E account \in Freezable, amount \in FreezeAmounts : AddFreezeToken(account, amount)
      PROVE  Inv' /\ FrozenStep
  <2>1. Freezable \subseteq Address /\ FreezeAmounts \subseteq Nat /\ Token \in Address
    BY BIBAssumptions
  <2>2. QED
    BY <1>5, <2>1, FreezingKeeps
<1>6. ASSUME NEW account \in Refusable, NEW answer \in {"moves"} \union Refusals,
             RewardTokenAnswers(account, answer)
      PROVE  Inv' /\ FrozenStep
  BY <1>6, AnswersKeep
<1>7. ASSUME bib' = bib PROVE Inv' /\ FrozenStep
  BY <1>7, SameBalances DEF Inv
<1>8. CASE \E newClaimWait \in ClaimWaits : UpdateClaimWait(newClaimWait)
  BY <1>7, <1>8 DEF UpdateClaimWait
<1>9. CASE \E account \in Listed : AddExcludeFromDividends(account)
  BY <1>7, <1>9 DEF AddExcludeFromDividends
<1>10. CASE \E turns \in Turns : ProcessDividendTracker(turns)
  BY <1>7, <1>10, WorldIs, ProcessKeepsBib DEF ProcessDividendTracker, Becomes
<1>11. CASE \E account \in Address : Claim(account) \/ WithdrawDividend(account)
  BY <1>7, <1>11 DEF Claim, WithdrawDividend
<1>12. CASE Tick \/ UNCHANGED vars
  BY <1>7, <1>12 DEF Tick, vars
<1>13. QED
  BY <1>1, <1>2, <1>3, <1>4, <1>5, <1>6, <1>8, <1>9, <1>10, <1>11, <1>12 DEF Next

\* Every balance stays a natural number, the rates stay within the limit, and
\* no swap is in progress between transactions.
LEMMA InvHolds == Spec => []Inv
BY InitInv, NextKeeps, PTL DEF Spec

\* Whatever fees are taken and swaps run inside a transfer, nobody, the token
\* included, falls below what it has frozen (BIBToken.sol:387-393, 403).
THEOREM FrozenTokensStay == Spec => FrozenStaysFrozen
<1>1. Inv /\ [Next]_vars => [FrozenStep]_vars
  BY NextKeeps
<1>2. QED
  BY <1>1, InvHolds, PTL DEF Spec, FrozenStaysFrozen

\* Swap, fees and burn of a transfer come to one sale and at most one tax, whatever
\* lists and rates the owner has set and whichever accounts coincide
\* (BIBToken.sol:411-443, 463-525).
THEOREM TransfersAreTaxedOnce == Spec => []TaxedOnce
<1>1. Inv => TaxedOnce
  <2> SUFFICES ASSUME Inv, NEW from \in Address, from # Token, NEW to \in Address,
                      NEW amount \in Amounts, NEW how \in Hows(to),
                      ~TransferReverts(World, from, to, amount, how, clock),
                      NEW a \in Address
               PROVE  TransferOf(World, from, to, amount, how, clock).bib.balanceOf[a] =
                          bib.balanceOf[a] + Change(from, to, amount, a)
    BY DEF TaxedOnce
  <2>1. amount \in Nat /\ how.got \in Nat
    <3>1. how.got \in SwapRewards \/ how.got \in {0}
      BY DEF Hows
    <3>2. Amounts \subseteq Nat /\ SwapRewards \subseteq Nat
      BY BIBAssumptions
    <3>3. {0} \subseteq Nat
      OBVIOUS
    <3>4. QED
      BY <3>1, <3>2, <3>3
  <2>2. /\ bib.balanceOf[a] \in Nat /\ bib.swapTokensAtAmount \in Nat
        /\ Token \in Address /\ DeadAddress \in Address /\ Pair \in Address
        /\ Hundred \in Nat \ {0}
        /\ bib.fees.liquidityFee \in Nat /\ bib.fees.rewardFee \in Nat
        /\ bib.fees.blackholeFee \in Nat
    BY BIBAssumptions DEF Inv, BibOK, BIBStorage, FeeRates
  <2> DEFINE fees   == (amount * (bib.fees.liquidityFee + bib.fees.rewardFee)) \div Hundred
             burned == (amount * bib.fees.blackholeFee) \div Hundred
             taxed  == from \notin bib.isFromWhiteList /\ to \notin bib.isToWhiteList
             due    == SwapDue(bib, to)
             sold   == IF due THEN bib.swapTokensAtAmount ELSE 0
  <2>3. fees \in Nat /\ burned \in Nat /\ sold \in Nat
    BY <2>1, <2>2, TaxFits DEF Inv
  <2>4. CASE amount = 0
    <3>1. TransferOf(World, from, to, amount, how, clock).bib = bib
      BY <2>4, WorldIs DEF TransferOf
    <3>2. 0 \div Hundred = 0
      BY <2>2
    <3>3. \A rate \in Nat : (amount * rate) \div Hundred = 0
      BY <2>4, <3>2
    <3>4. fees = 0 /\ burned = 0
      BY <2>2, <3>3
    <3>5. Change(from, to, amount, a) = 0
      BY <2>1, <2>4, <3>4 DEF Change, Only
    <3>6. QED
      BY <2>2, <3>1, <3>5
  <2>5. CASE amount # 0
    <3> DEFINE x == Swapped(World, to, how, clock)
               y == TransferOf(World, from, to, amount, how, clock)
    <3>1. /\ due => ~SwapReverts(World, how)
          /\ ~(x.bib.balanceOf[from] < amount)
      BY <2>1, <2>5, WorldIs DEF TransferReverts
    <3>2. y = Deliver(x, from, to, amount, how, clock)
      BY <2>5 DEF TransferOf
    <3>3. /\ IsWorld(x) /\ BibOK(x.bib) /\ SameRules(bib, x.bib)
          /\ Moved(bib, x.bib, Token, Pair, sold)
      BY <2>1, <3>1, SwappedKeeps
    <3>4. /\ x.bib.isFromWhiteList = bib.isFromWhiteList
          /\ x.bib.isToWhiteList = bib.isToWhiteList
      BY <3>3 DEF SameRules
    <3> SUFFICES y.bib.balanceOf[a] = bib.balanceOf[a] + Change(from, to, amount, a)
      OBVIOUS
    <3> HIDE DEF x, y
    <3>5. y.bib = Pay(x.bib, from, to, amount)
      BY <3>2, <3>3, DeliverPays
    <3>6. x.bib.balanceOf \in [Address -> Nat] /\ amount <= x.bib.balanceOf[from]
      BY <2>1, <3>1, <3>3 DEF BibOK, BIBStorage
    <3>7. FeesDue(x.bib, from, to) = taxed
      BY <3>3, <3>4 DEF Inv, SameRules, FeesDue
    <3>8. CASE taxed
      <4>1. Paid(x.bib, y.bib, from, to, amount, fees, burned)
        BY <2>1, <3>3, <3>5, <3>6, <3>7, <3>8, PayTaxes DEF SameRules
      <4>2. Change(from, to, amount, a) =
               Only(to, a, amount - fees - burned) + Only(DeadAddress, a, burned)
                  + Only(Pair, a, sold) + Only(Token, a, fees - sold) - Only(from, a, amount)
        BY <2>1, <2>5, <3>8 DEF Change
      <4> HIDE DEF fees, burned, sold
      <4>3. x.bib.balanceOf[a] = bib.balanceOf[a] - Only(Token, a, sold) + Only(Pair, a, sold)
        BY <3>3 DEF Moved
      <4>4. y.bib.balanceOf[a] =
               x.bib.balanceOf[a] + Only(to, a, amount - fees - burned)
                  + Only(DeadAddress, a, burned) + Only(Token, a, fees) - Only(from, a, amount)
        BY <4>1 DEF Paid
      <4>5. QED
        BY <2>1, <2>2, <2>3, <4>2, <4>3, <4>4 DEF Only
    <3>9. CASE ~taxed
      <4>1. Moved(x.bib, y.bib, from, to, amount)
        BY <2>1, <3>3, <3>5, <3>7, <3>9, PayUntaxed
      <4>2. Change(from, to, amount, a) =
               Only(to, a, amount - 0 - 0) + Only(DeadAddress, a, 0)
                  + Only(Pair, a, sold) + Only(Token, a, 0 - sold) - Only(from, a, amount)
        BY <2>1, <2>5, <3>9 DEF Change
      <4> HIDE DEF sold
      <4>3. x.bib.balanceOf[a] = bib.balanceOf[a] - Only(Token, a, sold) + Only(Pair, a, sold)
        BY <3>3 DEF Moved
      <4>4. y.bib.balanceOf[a] =
               x.bib.balanceOf[a] - Only(from, a, amount) + Only(to, a, amount)
        BY <4>1 DEF Moved
      <4>5. /\ Only(DeadAddress, a, 0) = 0
            /\ Only(to, a, amount - 0 - 0) = Only(to, a, amount)
            /\ Only(Token, a, 0 - sold) = -Only(Token, a, sold)
        BY <2>1, <2>3 DEF Only
      <4>6. /\ Only(to, a, amount) \in Int /\ Only(from, a, amount) \in Int
            /\ Only(Token, a, sold) \in Int /\ Only(Pair, a, sold) \in Int
        BY <2>1, <2>3 DEF Only
      <4>7. QED
        BY <2>2, <4>2, <4>3, <4>4, <4>5, <4>6
    <3>10. QED
      BY <3>8, <3>9
  <2>6. QED
    BY <2>4, <2>5
<1>2. QED
  BY <1>1, InvHolds, PTL

(***************************************************************************)
(* What the reward token would answer.                                     *)
(***************************************************************************)

Fields ==
    {"balanceOf", "fees", "swapTokensAtAmount", "paused", "allowTransfer", "swapEnabled",
     "swapping", "isFromWhiteList", "isToWhiteList", "noProcessList",
     "automatedMarketMakerPairs", "freezeToken", "freezeMap", "rewards", "answers"}

Shaped(b) == b = [f \in Fields |-> b[f]]

\* Two tokens that differ in the answers they expect of the reward token only.
Twins(b, c) ==
    /\ Shaped(b) /\ Shaped(c)
    /\ \A f \in Fields \ {"answers"} : c[f] = b[f]

TwinWorlds(w, v) == IsWorld(w) /\ IsWorld(v) /\ Twins(w.bib, v.bib)

LEMMA TwinsAgree ==
    ASSUME NEW b, NEW c, Twins(b, c)
    PROVE  /\ c.balanceOf = b.balanceOf /\ c.fees = b.fees
           /\ c.swapTokensAtAmount = b.swapTokensAtAmount
           /\ c.paused = b.paused /\ c.allowTransfer = b.allowTransfer
           /\ c.swapEnabled = b.swapEnabled /\ c.swapping = b.swapping
           /\ c.isFromWhiteList = b.isFromWhiteList /\ c.isToWhiteList = b.isToWhiteList
           /\ c.noProcessList = b.noProcessList
           /\ c.freezeToken = b.freezeToken /\ c.freezeMap = b.freezeMap
           /\ c.rewards = b.rewards
BY DEF Twins, Fields

LEMMA BalancesOfTwins ==
    ASSUME NEW b, NEW c, Twins(b, c), NEW f
    PROVE  Twins([b EXCEPT !.balanceOf = f], [c EXCEPT !.balanceOf = f])
BY DEF Twins, Shaped, Fields

LEMMA FlagsOfTwins ==
    ASSUME NEW b, NEW c, Twins(b, c), NEW v
    PROVE  /\ Twins([b EXCEPT !.swapping = v], [c EXCEPT !.swapping = v])
           /\ Twins([b EXCEPT !.rewards = v], [c EXCEPT !.rewards = v])
BY DEF Twins, Shaped, Fields

LEMMA MovesOfTwins ==
    ASSUME NEW b, NEW c, Twins(b, c), NEW from, NEW to, NEW amount
    PROVE  Twins(Move(b, from, to, amount), Move(c, from, to, amount))
BY BalancesOfTwins, TwinsAgree DEF Move

LEMMA PaymentsOfTwins ==
    ASSUME NEW b, NEW c, Twins(b, c), NEW from, NEW to, NEW amount
    PROVE  Twins(Pay(b, from, to, amount), Pay(c, from, to, amount))
<1> DEFINE fees(x)   == (amount * (x.fees.liquidityFee + x.fees.rewardFee)) \div Hundred
           burned(x) == (amount * x.fees.blackholeFee) \div Hundred
<1>1. fees(c) = fees(b) /\ burned(c) = burned(b) /\ FeesDue(c, from, to) = FeesDue(b, from, to)
  BY TwinsAgree DEF FeesDue
<1>2. CASE FeesDue(b, from, to)
  <2> DEFINE b1 == Move(b, from, DeadAddress, burned(b))
             c1 == Move(c, from, DeadAddress, burned(b))
             b2 == Move(b1, from, Token, fees(b))
             c2 == Move(c1, from, Token, fees(b))
  <2>1. /\ Pay(b, from, to, amount) = Move(b2, from, to, amount - fees(b) - burned(b))
        /\ Pay(c, from, to, amount) = Move(c2, from, to, amount - fees(b) - burned(b))
    BY <1>1, <1>2 DEF Pay
  <2> HIDE DEF fees, burned
  <2>2. Twins(b1, c1)
    BY MovesOfTwins
  <2> HIDE DEF b1, c1
  <2>3. Twins(b2, c2)
    BY <2>2, MovesOfTwins
  <2> HIDE DEF b2, c2
  <2>4. QED
    BY <2>1, <2>3, MovesOfTwins
<1>3. CASE ~FeesDue(b, from, to)
  BY <1>1, <1>3, MovesOfTwins DEF Pay
<1>4. QED
  BY <1>2, <1>3

LEMMA DeliveriesOfTwins ==
    ASSUME NEW w, NEW v, TwinWorlds(w, v), NEW from, NEW to, NEW amount, NEW how, NEW now
    PROVE  TwinWorlds(Deliver(w, from, to, amount, how, now),
                      Deliver(v, from, to, amount, how, now))
BY DeliverPays, PaymentsOfTwins DEF TwinWorlds

LEMMA SendingOfTwins ==
    ASSUME NEW w, NEW v, TwinWorlds(w, v), NEW got, NEW success
    PROVE  TwinWorlds(SendOn(w, got, success), SendOn(v, got, success))
<1> DEFINE kept == IF success THEN 0 ELSE w.bib.rewards + got
<1>1. \A x : IsWorld(x) =>
        /\ IsWorld(SendOn(x, got, success))
        /\ SendOn(x, got, success).bib =
              [x.bib EXCEPT !.rewards = IF success THEN 0 ELSE x.bib.rewards + got]
  <2> SUFFICES ASSUME NEW x, IsWorld(x)
               PROVE  /\ IsWorld(SendOn(x, got, success))
                      /\ SendOn(x, got, success).bib =
                           [x.bib EXCEPT !.rewards = IF success THEN 0 ELSE x.bib.rewards + got]
    OBVIOUS
  <2> DEFINE dividends == x.bib.rewards + got
             sent == Distribute([x.store EXCEPT !.reserve = @ + dividends], dividends)
             none == [x.bib EXCEPT !.rewards = 0]
             more == [x.bib EXCEPT !.rewards = dividends]
  <2>1. SendOn(x, got, success) = IF success THEN [x EXCEPT !.bib = none, !.store = sent]
                                  ELSE [x EXCEPT !.bib = more]
    BY DEF SendOn
  <2>2. [x.bib EXCEPT !.rewards = IF success THEN 0 ELSE x.bib.rewards + got] =
           IF success THEN none ELSE more
    OBVIOUS
  <2> HIDE DEF none, more, sent
  <2>3. QED
    BY <2>1, <2>2 DEF IsWorld
<1>2. v.bib.rewards = w.bib.rewards
  BY TwinsAgree DEF TwinWorlds
<1>3. /\ SendOn(w, got, success).bib = [w.bib EXCEPT !.rewards = kept]
      /\ SendOn(v, got, success).bib = [v.bib EXCEPT !.rewards = kept]
  BY <1>1, <1>2 DEF TwinWorlds
<1> HIDE DEF kept
<1>4. Twins([w.bib EXCEPT !.rewards = kept], [v.bib EXCEPT !.rewards = kept])
  BY FlagsOfTwins DEF TwinWorlds
<1>5. IsWorld(SendOn(w, got, success)) /\ IsWorld(SendOn(v, got, success))
  BY <1>1 DEF TwinWorlds
<1>6. QED
  BY <1>3, <1>4, <1>5 DEF TwinWorlds

LEMMA FlaggedTwins ==
    ASSUME NEW w, NEW v, TwinWorlds(w, v), NEW flag
    PROVE  TwinWorlds([w EXCEPT !.bib.swapping = flag], [v EXCEPT !.bib.swapping = flag])
<1> DEFINE b == [w.bib EXCEPT !.swapping = flag]
           c == [v.bib EXCEPT !.swapping = flag]
<1>1. /\ [w EXCEPT !.bib.swapping = flag] = [w EXCEPT !.bib = b]
      /\ [v EXCEPT !.bib.swapping = flag] = [v EXCEPT !.bib = c]
  OBVIOUS
<1>2. Twins(b, c)
  BY FlagsOfTwins DEF TwinWorlds
<1> HIDE DEF b, c
<1>3. QED
  BY <1>1, <1>2 DEF TwinWorlds, IsWorld

\* The swap goes the same way.
LEMMA SwapsOfTwins ==
    ASSUME NEW w, NEW v, TwinWorlds(w, v), NEW to, NEW how, NEW now
    PROVE  TwinWorlds(Swapped(w, to, how, now), Swapped(v, to, how, now))
<1>1. /\ SwapDue(v.bib, to) = SwapDue(w.bib, to)
      /\ \A i : Parts(v.bib)[i] = Parts(w.bib)[i]
  BY TwinsAgree DEF TwinWorlds, SwapDue, Parts
<1>2. CASE SwapDue(w.bib, to)
  <2> DEFINE p(i) == Parts(w.bib)[i]
             w0 == [w EXCEPT !.bib.swapping = TRUE]
             v0 == [v EXCEPT !.bib.swapping = TRUE]
             w1 == Deliver(w0, Token, Pair, p(1), how, now)
             v1 == Deliver(v0, Token, Pair, p(1), how, now)
             w2 == Deliver(w1, Token, Pair, p(2), how, now)
             v2 == Deliver(v1, Token, Pair, p(2), how, now)
             w3 == Deliver(w2, Token, Pair, p(3), how, now)
             v3 == Deliver(v2, Token, Pair, p(3), how, now)
             w4 == SendOn(w3, how.got, how.success)
             v4 == SendOn(v3, how.got, how.success)
  <2>1. /\ Swapped(w, to, how, now) = [w4 EXCEPT !.bib.swapping = FALSE]
        /\ Swapped(v, to, how, now) = [v4 EXCEPT !.bib.swapping = FALSE]
    BY <1>1, <1>2 DEF Swapped, SwapBack
  <2> HIDE DEF p
  <2>2. TwinWorlds(w0, v0)
    BY FlaggedTwins
  <2> HIDE DEF w0, v0
  <2>3. TwinWorlds(w1, v1)
    BY <2>2, DeliveriesOfTwins
  <2> HIDE DEF w1, v1
  <2>4. TwinWorlds(w2, v2)
    BY <2>3, DeliveriesOfTwins
  <2> HIDE DEF w2, v2
  <2>5. TwinWorlds(w3, v3)
    BY <2>4, DeliveriesOfTwins
  <2> HIDE DEF w3, v3
  <2>6. TwinWorlds(w4, v4)
    BY <2>5, SendingOfTwins
  <2> HIDE DEF w4, v4
  <2>7. TwinWorlds([w4 EXCEPT !.bib.swapping = FALSE], [v4 EXCEPT !.bib.swapping = FALSE])
    BY <2>6, FlaggedTwins
  <2>8. QED
    BY <2>1, <2>7
<1>3. CASE ~SwapDue(w.bib, to)
  BY <1>1, <1>3 DEF Swapped
<1>4. QED
  BY <1>2, <1>3

\* A transfer goes through, and moves the same tokens, whatever the reward token would
\* answer the payouts it causes (BIBToken.sol:445-455).
THEOREM RefusalsNeverMatter == Spec => []RefusalsChangeNoTransfer
<1>1. Inv => RefusalsChangeNoTransfer
  <2> DEFINE always  == [a \in Address |-> "moves"]
             welcome == [World EXCEPT !.bib.answers = always]
  <2> SUFFICES ASSUME Inv, NEW from \in Address, NEW to \in Address, NEW amount \in Amounts,
                      NEW how \in Hows(to)
               PROVE  /\ TransferReverts(World, from, to, amount, how, clock)
                           <=> TransferReverts(welcome, from, to, amount, how, clock)
                      /\ TransferOf(World, from, to, amount, how, clock).bib.balanceOf =
                         TransferOf(welcome, from, to, amount, how, clock).bib.balanceOf
    BY DEF RefusalsChangeNoTransfer
  <2>1. TwinWorlds(World, welcome) /\ welcome.store = World.store
    <3> DEFINE c == [bib EXCEPT !.answers = always]
    <3>1. welcome = [World EXCEPT !.bib = c]
      BY DEF World
    <3> HIDE DEF always
    <3>2. Twins(bib, c)
      BY DEF Inv, BibOK, BIBStorage, Twins, Shaped, Fields
    <3> HIDE DEF c, welcome
    <3>3. IsWorld(welcome) /\ welcome.bib = c /\ welcome.store = World.store
      BY <3>1 DEF World, IsWorld
    <3>4. QED
      BY <3>2, <3>3, WorldIs DEF TwinWorlds
  <2> HIDE DEF welcome
  <2> DEFINE swapped == Swapped(World, to, how, clock)
             other   == Swapped(welcome, to, how, clock)
  <2>2. TwinWorlds(swapped, other)
    BY <2>1, SwapsOfTwins
  <2>3. /\ SwapDue(welcome.bib, to) = SwapDue(World.bib, to)
        /\ SwapReverts(welcome, how) <=> SwapReverts(World, how)
        /\ FreezeAllows(welcome.bib, from, amount) = FreezeAllows(World.bib, from, amount)
        /\ welcome.bib.paused = World.bib.paused
        /\ welcome.bib.allowTransfer = World.bib.allowTransfer
    BY <2>1, TwinsAgree DEF TwinWorlds, SwapDue, SwapReverts, Parts, FreezeAllows
  <2>4. other.bib.balanceOf = swapped.bib.balanceOf
    BY <2>2, TwinsAgree DEF TwinWorlds
  <2>5. TransferReverts(World, from, to, amount, how, clock)
           <=> TransferReverts(welcome, from, to, amount, how, clock)
    BY <2>3, <2>4 DEF TransferReverts
  <2>6. TransferOf(World, from, to, amount, how, clock).bib.balanceOf =
        TransferOf(welcome, from, to, amount, how, clock).bib.balanceOf
    <3>1. CASE amount = 0
      <4>1. World.bib.balanceOf = welcome.bib.balanceOf
        BY <2>1, TwinsAgree DEF TwinWorlds
      <4>2. QED
        BY <3>1, <4>1 DEF TransferOf
    <3>2. CASE amount # 0
      <4> HIDE DEF swapped, other
      <4>1. TwinWorlds(Deliver(swapped, from, to, amount, how, clock),
                       Deliver(other, from, to, amount, how, clock))
        BY <2>2, DeliveriesOfTwins
      <4>2. QED
        BY <3>2, <4>1, TwinsAgree DEF TransferOf, TwinWorlds, swapped, other
    <3>3. QED
      BY <3>1, <3>2
  <2>7. QED
    BY <2>5, <2>6
<1>2. QED
  BY <1>1, InvHolds, PTL

(***************************************************************************)
(* The inductive invariant as a whole: the token's, and a tracker in good  *)
(* order, backed, that excludes whom the token must not pay.               *)
(***************************************************************************)

Unpaid(b) == b.automatedMarketMakerPairs \union InitialExclusions

Excludes(s, list) == \A a \in list : s.excludedFromDividends[a]

TrackerInv ==
    /\ Inv
    /\ StoreOK(store) /\ Excludes(store, Unpaid(bib)) /\ Backed(store)
    /\ Modest(store, InitialSupply) /\ store.totalDividendsDistributed <= MaxReward
    /\ clock \in Nat

\* t is as good as s, with the same accounts excluded.
Follows(s, t) == /\ StoreOK(t)
                 /\ t.excludedFromDividends = s.excludedFromDividends
                 /\ Backed(s) => Backed(t)
                 /\ Modest(s, InitialSupply) => Modest(t, InitialSupply)

\* As much was distributed.
AsMuch(s, t) == t.totalDividendsDistributed = s.totalDividendsDistributed

\* Nobody holds more than there is.
LEMMA BalancesFit ==
    ASSUME NEW b, BibOK(b), NEW a \in Address
    PROVE  b.balanceOf[a] \in Nat /\ b.balanceOf[a] <= InitialSupply
<1>1. /\ b.balanceOf \in [Address -> Nat] /\ DOMAIN b.balanceOf = Address
      /\ SumFunction(b.balanceOf) = InitialSupply
  BY DEF BibOK, BIBStorage
<1>2. SumFunction(b.balanceOf) = SumFunctionOnSet(b.balanceOf, Address)
  BY <1>1, SumOverAccounts
<1>3. b.balanceOf[a] <= SumFunctionOnSet(b.balanceOf, Address)
  BY <1>1, AddressesAreFinite, OneOfTheSum
<1>4. QED
  BY <1>1, <1>2, <1>3

(***************************************************************************)
(* Calls of the tracker.                                                   *)
(***************************************************************************)

\* The reward token never moves more than the tracker holds.
LEMMA AnswersAreCovered ==
    ASSUME NEW b, NEW s \in Storage, NEW account \in Address
    PROVE  Covered(s, account, Answer(b, s, account))
<1>1. s.reserve \in Nat /\ withdrawableDividendOf(s, account) \in Int
  BY EarningsAreIntegers DEF Storage, withdrawableDividendOf
<1>2. QED
  BY <1>1 DEF Answer, Covered

\* setBalance, tried: it is caught when it reverts, does nothing to the excluded and
\* changes nobody else's shares.
LEMMA ReportFollows ==
    ASSUME NEW w, IsWorld(w), StoreOK(w.store), BibOK(w.bib), NEW account \in Address,
           NEW now \in Nat, NEW x, x = Report(w, account, now)
    PROVE  /\ IsWorld(x) /\ x.bib = w.bib /\ Follows(w.store, x.store)
           /\ w.store.excludedFromDividends[account] => x = w
           /\ AsMuch(w.store, x.store)
           /\ \A a \in Address : a # account => x.store.balanceOf[a] = w.store.balanceOf[a]
<1> DEFINE s       == w.store
           balance == w.bib.balanceOf[account]
           result  == Answer(w.bib, SharesFollow(s, account, balance), account)
           t       == SetBalance(s, account, balance, result, now)
           shares  == IF balance >= MinBalance THEN balance ELSE 0
<1>0. balance \in Nat /\ balance <= InitialSupply /\ s \in Storage
  BY BalancesFit DEF StoreOK
<1>1. CASE SetBalanceReverts(s, account, balance, result)
  <2>1. x = w
    BY <1>1 DEF Report
  <2>2. QED
    BY <2>1 DEF Follows, AsMuch
<1>2. CASE ~SetBalanceReverts(s, account, balance, result)
  <2>1. x = [w EXCEPT !.store = t]
    BY <1>2 DEF Report
  <2>2. ~s.excludedFromDividends[account]
           => Covered(SharesFollow(s, account, balance), account, result)
    <3>1. ASSUME ~s.excludedFromDividends[account]
          PROVE  SharesFollow(s, account, balance) \in Storage
      <4>1. ~SharesFollowReverts(s, account, balance)
        BY <1>2, <3>1 DEF SetBalanceReverts
      <4>2. QED
        BY <1>0, <3>1, <4>1, SharesFollowFacts DEF StoreOK
    <3>2. QED
      BY <3>1, AnswersAreCovered
  <2> HIDE DEF result
  <2>3. StoreOK(t) /\ t.excludedFromDividends = s.excludedFromDividends /\ SameTotals(s, t)
    BY <1>0, <1>2, <2>2, SetBalanceFacts
  <2>4. s.excludedFromDividends[account] => t = s
    BY DEF SetBalance
  <2>5. t = s \/ NewShares(s, t, account, shares)
    BY <1>0, <1>2, <2>2, <2>4, SetBalanceShares
  <2> HIDE DEF t
  <2>6. /\ IsWorld(x) /\ x.bib = w.bib /\ x.store = t
    BY <2>1 DEF IsWorld
  <2>7. t = s => x = w
    BY <2>6 DEF IsWorld
  <2>8. Backed(s) => Backed(t)
    BY <2>3 DEF SameTotals, Backed
  <2>9. Modest(s, InitialSupply) => Modest(t, InitialSupply)
    <3>1. shares \in Nat /\ shares <= InitialSupply
      <4>1. InitialSupply \in Nat /\ MinBalance \in Nat
        BY BIBAssumptions, ContractAssumptions
      <4>2. QED
        BY <1>0, <4>1
    <3> HIDE DEF shares
    <3>2. QED
      BY <1>0, <2>5, <3>1, NewSharesModest
  <2> HIDE DEF shares
  <2>10. \A a \in Address : a # account => t.balanceOf[a] = s.balanceOf[a]
    <3>1. DOMAIN s.balanceOf = Address
      BY <1>0 DEF Storage
    <3>2. CASE NewShares(s, t, account, shares)
      <4>1. t.balanceOf = [s.balanceOf EXCEPT ![account] = shares]
        BY <3>2 DEF NewShares
      <4> HIDE DEF s
      <4>2. QED
        BY <3>1, <4>1
    <3>3. QED
      BY <2>5, <3>2
  <2>11. QED
    BY <2>3, <2>4, <2>6, <2>7, <2>8, <2>9, <2>10 DEF Follows, AsMuch, SameTotals
<1>3. QED
  BY <1>1, <1>2

(***************************************************************************)
(* The payment loop: induction over its turns.                             *)
(***************************************************************************)

\* Between two turns, of a loop over a list with as many holders.
CallOK(s, call) ==
    /\ call = [cursor |-> call.cursor, store |-> call.store, reverted |-> call.reverted]
    /\ call.cursor \in Nat
    /\ Follows(s, call.store) /\ SameShares(s, call.store)
    /\ call.store.tokenHoldersMap = s.tokenHoldersMap

LEMMA TurnKeeps ==
    ASSUME NEW b, NEW s, StoreOK(s), MapSize(s.tokenHoldersMap) # 0, NEW now \in Nat,
           NEW call, CallOK(s, call)
    PROVE  CallOK(s, Turn(b, call, now))
<1> DEFINE size    == MapSize(s.tokenHoldersMap)
           cursor  == NextIndex(call.cursor, size)
           account == GetKeyAtIndex(s.tokenHoldersMap, cursor)
           result  == Answer(b, call.store, account)
           reverts == ProcessAccountReverts(call.store, account, result)
           t       == ProcessAccount(call.store, account, result, now)
<1>1. /\ call.cursor \in Nat /\ StoreOK(call.store) /\ call.store \in Storage
      /\ call.store.tokenHoldersMap = s.tokenHoldersMap
      /\ call.store.excludedFromDividends = s.excludedFromDividends
      /\ s.tokenHoldersMap.keys \in Seq(Address)
  BY DEF CallOK, Follows, StoreOK, Storage, MapType
<1>2. size \in Nat
  BY SizesAreNats DEF StoreOK
<1>3. cursor \in 0 .. size - 1
  BY <1>1, <1>2 DEF NextIndex
<1>4. account \in Address
  <2>1. cursor + 1 \in 1 .. Len(s.tokenHoldersMap.keys)
    BY <1>2, <1>3 DEF MapSize
  <2> HIDE DEF cursor
  <2>2. QED
    BY <1>1, <2>1 DEF GetKeyAtIndex
<1>5. /\ StoreOK(t) /\ t.tokenHoldersMap = s.tokenHoldersMap
      /\ t.excludedFromDividends = s.excludedFromDividends
      /\ Backed(call.store) => Backed(t)
      /\ SameShares(call.store, t)
  <2>1. Covered(call.store, account, result)
    BY <1>1, <1>4, AnswersAreCovered
  <2> HIDE DEF account, result
  <2>2. /\ StoreOK(t) /\ PaidOrNot(call.store, t, account)
        /\ SameShares(call.store, t)
    BY <1>1, <1>4, <2>1, ProcessAccountFacts, PaymentsKeepShares
  <2>3. SameTotals(call.store, t)
    <3> HIDE DEF t
    <3>1. QED
      BY <1>1, <1>4, <2>2, PaidOrNotTotals DEF StoreOK
  <2>4. QED
    BY <1>1, <2>2, <2>3 DEF PaidOrNot, SameTotals, Backed
<1>6. \/ Turn(b, call, now) = [call EXCEPT !.cursor = cursor]
      \/ Turn(b, call, now) = [cursor   |-> cursor,
                               store    |-> IF reverts THEN call.store ELSE t,
                               reverted |-> reverts]
  BY <1>1 DEF Turn
<1> HIDE DEF cursor, account, result, reverts, t
<1>7. cursor \in Nat
  BY <1>2, <1>3
<1>8. CASE Turn(b, call, now) = [call EXCEPT !.cursor = cursor]
  BY <1>7, <1>8 DEF CallOK
<1>9. CASE Turn(b, call, now) = [cursor   |-> cursor,
                                 store    |-> IF reverts THEN call.store ELSE t,
                                 reverted |-> reverts]
  <2>1. /\ Modest(call.store, InitialSupply) => Modest(t, InitialSupply)
        /\ SameShares(s, call.store) => SameShares(s, t)
    BY <1>5, SameSharesModest DEF SameShares
  <2>2. QED
    BY <1>1, <1>5, <1>7, <1>9, <2>1 DEF CallOK, Follows
<1>10. QED
  BY <1>6, <1>8, <1>9

\* The turns of ProcessCall, one after the other.
IsRun(f, first, b, now, m) ==
    f = [n \in 0 .. m |-> IF n = 0 THEN first ELSE Turn(b, f[n - 1], now)]

\* The definition by recursion in ProcessCall defines something: the shortest run
\* that did not exist would be one turn longer than one that does.
LEMMA RunExists ==
    ASSUME NEW first, NEW b, NEW now, NEW m \in Nat
    PROVE  \E f : IsRun(f, first, b, now, m)
<1> DEFINE none == {k \in Nat : ~\E f : IsRun(f, first, b, now, k)}
<1>1. SUFFICES ASSUME none # {} PROVE FALSE
  OBVIOUS
<1>2. PICK k \in none : \A j \in none : k <= j
  BY <1>1, Least
<1>3. k \in Nat /\ ~\E f : IsRun(f, first, b, now, k)
  OBVIOUS
<1>4. CASE k = 0
  <2> DEFINE f == [n \in 0 .. 0 |-> first]
  <2>1. f = [n \in 0 .. 0 |-> IF n = 0 THEN first ELSE Turn(b, f[n - 1], now)]
    OBVIOUS
  <2> HIDE DEF f
  <2>2. QED
    BY <1>3, <1>4, <2>1 DEF IsRun
<1>5. CASE k # 0
  <2>1. k - 1 \in Nat /\ k - 1 \notin none
    BY <1>2, <1>3, <1>5
  <2>2. PICK g : IsRun(g, first, b, now, k - 1)
    BY <2>1
  <2>3. /\ \A n \in 0 .. k - 1 : g[n] = IF n = 0 THEN first ELSE Turn(b, g[n - 1], now)
    BY <2>2 DEF IsRun
  <2> DEFINE f == [n \in 0 .. k |-> IF n = k THEN Turn(b, g[k - 1], now) ELSE g[n]]
  <2>4. \A n \in 0 .. k : f[n] = IF n = 0 THEN first ELSE Turn(b, f[n - 1], now)
    <3> SUFFICES ASSUME NEW n \in 0 .. k
                 PROVE  f[n] = IF n = 0 THEN first ELSE Turn(b, f[n - 1], now)
      OBVIOUS
    <3>1. CASE n = k
      <4>1. f[n - 1] = g[n - 1]
        BY <1>3, <1>5, <3>1
      <4>2. f[n] = Turn(b, g[n - 1], now)
        BY <3>1
      <4>3. QED
        BY <4>1, <4>2, <3>1, <1>5
    <3>2. CASE n # k
      <4>1. n \in 0 .. k - 1 /\ f[n] = g[n]
        BY <1>3, <3>2
      <4>2. n # 0 => f[n - 1] = g[n - 1]
        BY <1>3, <3>2
      <4>3. QED
        BY <4>1, <4>2, <2>3
    <3>3. QED
      BY <3>1, <3>2
  <2>5. f = [n \in 0 .. k |-> IF n = 0 THEN first ELSE Turn(b, f[n - 1], now)]
    BY <2>4
  <2> HIDE DEF f
  <2>6. QED
    BY <1>3, <2>5 DEF IsRun
<1>6. QED
  BY <1>4, <1>5

\* ProcessCall is the end of such a run.
LEMMA CallIsRun ==
    ASSUME NEW b, NEW s, NEW limit, NEW now, NEW turns \in Nat,
           turns = IF limit < MapSize(s.tokenHoldersMap) THEN limit ELSE MapSize(s.tokenHoldersMap)
    PROVE  \E f : /\ IsRun(f, [cursor |-> s.lastProcessedIndex, store |-> s, reverted |-> FALSE],
                           b, now, turns)
                  /\ ProcessCall(b, s, limit, now) = f[turns]
<1> DEFINE first == [cursor |-> s.lastProcessedIndex, store |-> s, reverted |-> FALSE]
           f == CHOOSE g : g = [n \in 0 .. turns |-> IF n = 0 THEN first ELSE Turn(b, g[n - 1], now)]
<1>1. ProcessCall(b, s, limit, now) = f[turns]
  BY DEF ProcessCall
<1> HIDE DEF first
<1>2. \E g : IsRun(g, first, b, now, turns)
  BY RunExists
<1>3. IsRun(f, first, b, now, turns)
  BY <1>2 DEF IsRun
<1> HIDE DEF f
<1>4. QED
  BY <1>1, <1>3 DEF first

\* process() leaves a good storage: no turn is the first to spoil it.
LEMMA CallKeeps ==
    ASSUME NEW b, NEW s, StoreOK(s), NEW limit \in Nat, NEW now \in Nat
    PROVE  CallOK(s, ProcessCall(b, s, limit, now))
<1> DEFINE size  == MapSize(s.tokenHoldersMap)
           turns == IF limit < size THEN limit ELSE size
           first == [cursor |-> s.lastProcessedIndex, store |-> s, reverted |-> FALSE]
<1>1. size \in Nat /\ turns \in Nat /\ (size = 0 => turns = 0)
  BY SizesAreNats DEF StoreOK
<1>2. PICK f : IsRun(f, first, b, now, turns) /\ ProcessCall(b, s, limit, now) = f[turns]
  BY <1>1, CallIsRun
<1>3. CallOK(s, first)
  BY DEF CallOK, Follows, StoreOK, Storage, SameShares
<1> HIDE DEF first, turns, size
<1> DEFINE spoilt == {n \in 0 .. turns : ~CallOK(s, f[n])}
<1>4. spoilt = {}
  <2>1. SUFFICES ASSUME spoilt # {} PROVE FALSE
    OBVIOUS
  <2>2. spoilt \in SUBSET Nat
    BY <1>1
  <2>3. PICK n \in spoilt : \A k \in spoilt : n <= k
    BY <2>1, <2>2, Least
  <2>4. n \in 0 .. turns /\ n \in Nat /\ ~CallOK(s, f[n])
    BY <2>2
  <2>5. n # 0
    <3>1. f[0] = first
      BY <1>1, <1>2 DEF IsRun
    <3>2. QED
      BY <1>3, <2>4, <3>1
  <2>6. CallOK(s, f[n - 1])
    <3>1. n - 1 \in 0 .. turns /\ ~(n <= n - 1)
      BY <1>1, <2>4, <2>5
    <3>2. QED
      BY <2>3, <3>1
  <2>7. f[n] = Turn(b, f[n - 1], now)
    BY <1>2, <2>4, <2>5 DEF IsRun
  <2>8. MapSize(s.tokenHoldersMap) # 0
    BY <1>1, <2>4, <2>5 DEF size
  <2>9. QED
    BY <2>4, <2>6, <2>7, <2>8, TurnKeeps
<1>5. turns \in 0 .. turns
  BY <1>1
<1>6. QED
  BY <1>2, <1>4, <1>5

LEMMA ProcessFollows ==
    ASSUME NEW w, IsWorld(w), StoreOK(w.store), NEW turns \in Nat, NEW now \in Nat,
           NEW x, x = Process(w, turns, now)
    PROVE  /\ IsWorld(x) /\ x.bib = w.bib /\ Follows(w.store, x.store)
           /\ SameShares(w.store, x.store)
<1> DEFINE call == ProcessCall(w.bib, w.store, turns, now)
           t    == [call.store EXCEPT !.lastProcessedIndex = call.cursor]
<1>1. CallOK(w.store, call)
  BY CallKeeps
<1>2. x = w \/ x = [w EXCEPT !.store = t]
  BY DEF Process
<1> HIDE DEF call
<1>3. Follows(w.store, t) /\ SameShares(w.store, t)
  <2>1. /\ call.store \in Storage /\ StoreOK(call.store) /\ call.cursor \in Nat
        /\ call.store.excludedFromDividends = w.store.excludedFromDividends
        /\ Backed(w.store) => Backed(call.store)
        /\ SameShares(w.store, call.store)
    BY <1>1 DEF CallOK, Follows, StoreOK
  <2>2. t \in Storage /\ SameBooks(call.store, t) /\ t.reserve = call.store.reserve
    BY <2>1 DEF Storage, SameBooks
  <2>3. StoreOK(t)
    BY <2>1, <2>2, SameBooksFacts
  <2>4. SameShares(w.store, t)
    BY <2>1, <2>2 DEF SameBooks, SameShares
  <2>5. Modest(w.store, InitialSupply) => Modest(t, InitialSupply)
    BY <2>4, SameSharesModest
  <2>6. QED
    BY <2>1, <2>2, <2>3, <2>4, <2>5 DEF Follows, SameBooks, Backed, Sent
<1> HIDE DEF t
<1>4. Follows(w.store, w.store) /\ SameShares(w.store, w.store)
  BY DEF Follows, SameShares
<1>5. QED
  BY <1>2, <1>3, <1>4 DEF IsWorld

(***************************************************************************)
(* Transfers and swaps.                                                    *)
(***************************************************************************)

LEMMA FollowsAgain ==
    ASSUME NEW s, NEW t, NEW u, Follows(s, t), Follows(t, u)
    PROVE  Follows(s, u)
BY DEF Follows

\* A transfer reports to the tracker, which may revert, and pays holders.
LEMMA DeliverFollows ==
    ASSUME NEW w, IsWorld(w), StoreOK(w.store), NEW from \in Address, NEW to \in Address,
           NEW amount, NEW c, c = Pay(w.bib, from, to, amount), BibOK(c),
           NEW how, how.turns \in Nat, NEW now \in Nat,
           NEW x, x = Deliver(w, from, to, amount, how, now)
    PROVE  /\ IsWorld(x) /\ x.bib = c /\ Follows(w.store, x.store)
           /\ AsMuch(w.store, x.store)
           /\ /\ w.bib.swapping
              /\ w.store.excludedFromDividends[from] /\ w.store.excludedFromDividends[to]
              => x.store = w.store
<1> DEFINE paid  == [w EXCEPT !.bib = Pay(@, from, to, amount)]
           first == IF how.tries >= 1 THEN Report(paid, from, now) ELSE paid
           told  == IF how.tries >= 2 THEN Report(first, to, now) ELSE first
<1>1. IsWorld(paid) /\ paid.bib = c /\ paid.store = w.store
  BY DEF IsWorld
<1>2. \/ x = told
      \/ ~w.bib.swapping /\ x = Process(told, how.turns, now)
  BY DEF Deliver, ReportBoth
<1> HIDE DEF paid
<1>3. /\ IsWorld(first) /\ first.bib = c /\ Follows(w.store, first.store)
      /\ AsMuch(w.store, first.store)
      /\ w.store.excludedFromDividends[from] => first.store = w.store
  <2>1. Follows(w.store, paid.store) /\ AsMuch(w.store, paid.store)
    BY <1>1 DEF Follows, AsMuch
  <2>2. QED
    BY <1>1, <2>1, ReportFollows
<1> HIDE DEF first
<1>4. /\ IsWorld(told) /\ told.bib = c /\ Follows(w.store, told.store)
      /\ AsMuch(w.store, told.store)
      /\ /\ w.store.excludedFromDividends[from] /\ w.store.excludedFromDividends[to]
         => told.store = w.store
  <2>1. /\ StoreOK(first.store)
        /\ first.store.excludedFromDividends = w.store.excludedFromDividends
    BY <1>3 DEF Follows
  <2>2. QED
    BY <1>3, <2>1, ReportFollows, FollowsAgain DEF AsMuch
<1> HIDE DEF told
<1>5. CASE x = told
  BY <1>4, <1>5
<1>6. CASE ~w.bib.swapping /\ x = Process(told, how.turns, now)
  <2>1. StoreOK(told.store)
    BY <1>4 DEF Follows
  <2>2. /\ IsWorld(x) /\ x.bib = c /\ Follows(told.store, x.store)
        /\ AsMuch(told.store, x.store)
    BY <1>4, <1>6, <2>1, ProcessFollows DEF SameShares, AsMuch
  <2>3. QED
    BY <1>4, <1>6, <2>2, FollowsAgain DEF AsMuch
<1>7. QED
  BY <1>2, <1>5, <1>6

\* What neither tokens nor rewards on the move change.
SameRoles(b, c) == /\ c.automatedMarketMakerPairs = b.automatedMarketMakerPairs
                   /\ c.answers = b.answers

\* Only who is in S gains or loses.
Unmoved(b, c, S) == \A a \in Address \ S : c.balanceOf[a] = b.balanceOf[a]

LEMMA PayMovesTokensOnly ==
    ASSUME NEW b \in BIBStorage, NEW from, NEW to, NEW amount,
           NEW c, c = Pay(b, from, to, amount)
    PROVE  SameRoles(b, c) /\ c.rewards = b.rewards
<1> DEFINE OnlyBalances(d, e) == \E f : e = [d EXCEPT !.balanceOf = f]
<1>1. ASSUME NEW d, NEW x, NEW y, NEW n PROVE OnlyBalances(d, Move(d, x, y, n))
  BY DEF Move
<1>2. ASSUME NEW d, NEW e, OnlyBalances(b, d), OnlyBalances(d, e)
      PROVE  OnlyBalances(b, e)
  BY <1>2 DEF BIBStorage
<1>3. ASSUME OnlyBalances(b, c) PROVE SameRoles(b, c) /\ c.rewards = b.rewards
  BY <1>3 DEF BIBStorage, SameRoles
<1> HIDE DEF OnlyBalances
<1>4. CASE FeesDue(b, from, to)
  <2> DEFINE fees   == (amount * (b.fees.liquidityFee + b.fees.rewardFee)) \div Hundred
             burned == (amount * b.fees.blackholeFee) \div Hundred
             b1     == Move(b, from, DeadAddress, burned)
             b2     == Move(b1, from, Token, fees)
  <2>1. c = Move(b2, from, to, amount - fees - burned)
    BY <1>4 DEF Pay
  <2> HIDE DEF fees, burned
  <2>2. OnlyBalances(b, b1)
    BY <1>1
  <2>3. OnlyBalances(b1, b2)
    BY <1>1
  <2> HIDE DEF b2, b1
  <2>4. OnlyBalances(b2, c)
    BY <1>1, <2>1
  <2>5. QED
    BY <1>2, <1>3, <2>2, <2>3, <2>4
<1>5. CASE ~FeesDue(b, from, to)
  BY <1>1, <1>3, <1>5 DEF Pay
<1>6. QED
  BY <1>4, <1>5

\* Fees and burns only concern the two ends and the token's own addresses.
LEMMA PayReaches ==
    ASSUME NEW b \in BIBStorage, NEW from \in Address, NEW to \in Address, NEW amount,
           NEW c, c = Pay(b, from, to, amount)
    PROVE  Unmoved(b, c, {from, to, Token, DeadAddress})
<1> DEFINE Holds(d) == "balanceOf" \in DOMAIN d /\ DOMAIN d.balanceOf = Address
           ends     == {from, to, Token, DeadAddress}
<1>1. ASSUME NEW d, Holds(d), NEW x \in ends, NEW y \in ends, NEW n,
             NEW e, e = Move(d, x, y, n)
      PROVE  Holds(e) /\ Unmoved(d, e, ends)
  <2> DEFINE f == [[d.balanceOf EXCEPT ![x] = @ - n] EXCEPT ![y] = @ + n]
  <2>1. e = [d EXCEPT !.balanceOf = f]
    BY <1>1 DEF Move
  <2>2. DOMAIN f = Address /\ \A a \in Address \ ends : f[a] = d.balanceOf[a]
    BY <1>1
  <2> HIDE DEF f, ends
  <2>3. QED
    BY <1>1, <2>1, <2>2 DEF Unmoved
<1>2. ASSUME NEW d, NEW e, Unmoved(b, d, ends), Unmoved(d, e, ends)
      PROVE  Unmoved(b, e, ends)
  BY <1>2 DEF Unmoved
<1>3. Holds(b)
  BY DEF BIBStorage
<1>4. from \in ends /\ to \in ends /\ Token \in ends /\ DeadAddress \in ends
  OBVIOUS
<1> HIDE DEF Holds
<1>5. CASE FeesDue(b, from, to)
  <2> DEFINE fees   == (amount * (b.fees.liquidityFee + b.fees.rewardFee)) \div Hundred
             burned == (amount * b.fees.blackholeFee) \div Hundred
             b1     == Move(b, from, DeadAddress, burned)
             b2     == Move(b1, from, Token, fees)
  <2>1. c = Move(b2, from, to, amount - fees - burned)
    BY <1>5 DEF Pay
  <2> HIDE DEF fees, burned, ends
  <2>2. Holds(b1) /\ Unmoved(b, b1, ends)
    BY <1>1, <1>3, <1>4
  <2> HIDE DEF b1
  <2>3. Holds(b2) /\ Unmoved(b1, b2, ends)
    BY <1>1, <1>4, <2>2
  <2> HIDE DEF b2
  <2>4. Unmoved(b2, c, ends)
    BY <1>1, <1>4, <2>1, <2>3
  <2>5. Unmoved(b, c, ends)
    BY <1>2, <2>2, <2>3, <2>4
  <2>6. QED
    BY <2>5 DEF ends
<1>6. CASE ~FeesDue(b, from, to)
  <2>1. c = Move(b, from, to, amount)
    BY <1>6 DEF Pay
  <2>2. QED
    BY <1>1, <1>3, <1>4, <2>1
<1>7. QED
  BY <1>5, <1>6

\* One nested transfer of the router: both ends are excluded, so the tracker stays.
LEMMA SellFollows ==
    ASSUME NEW w, IsWorld(w), BibOK(w.bib), w.bib.swapping, StoreOK(w.store),
           Excludes(w.store, {Token, Pair}),
           NEW part \in Nat, part <= w.bib.balanceOf[Token],
           NEW how, how.turns \in Nat, NEW now \in Nat,
           NEW x, x = Deliver(w, Token, Pair, part, how, now)
    PROVE  /\ IsWorld(x) /\ BibOK(x.bib) /\ x.bib.swapping
           /\ OnlyPays(w.bib, x.bib, Token, part) /\ SameRoles(w.bib, x.bib)
           /\ x.bib.rewards = w.bib.rewards /\ x.store = w.store
           /\ Unmoved(w.bib, x.bib, {Token, Pair, DeadAddress})
<1>1. Token \in Address /\ Pair \in Address
  BY BIBAssumptions
<1>2. /\ IsWorld(x) /\ BibOK(x.bib) /\ SameRules(w.bib, x.bib)
      /\ OnlyPays(w.bib, x.bib, Token, part)
  BY SellKeeps
<1>3. x.bib = Pay(w.bib, Token, Pair, part)
  BY DeliverPays
<1>4. x.bib.balanceOf \in [Address -> Nat] /\ w.bib \in BIBStorage
  BY <1>2 DEF BibOK, BIBStorage
<1>5. x.store = w.store
  BY <1>1, <1>2, <1>3, DeliverFollows DEF Excludes
<1>6. SameRoles(w.bib, x.bib) /\ x.bib.rewards = w.bib.rewards
  BY <1>3, <1>4, PayMovesTokensOnly
<1>7. Unmoved(w.bib, x.bib, {Token, Pair, DeadAddress})
  BY <1>1, <1>3, <1>4, PayReaches DEF Unmoved
<1>8. QED
  BY <1>2, <1>5, <1>6, <1>7 DEF SameRules

\* The rewards are distributed as the guard of the swap saw them.
LEMMA SendOnFollows ==
    ASSUME NEW w, IsWorld(w), BibOK(w.bib), StoreOK(w.store),
           NEW got \in Nat, NEW success,
           success => ~DistributeReverts(w.store, w.bib.rewards + got),
           NEW x, x = SendOn(w, got, success)
    PROVE  /\ IsWorld(x) /\ SameRoles(w.bib, x.bib) /\ Follows(w.store, x.store)
           /\ x.store.balanceOf = w.store.balanceOf
<1> DEFINE dividends == w.bib.rewards + got
           received  == [w.store EXCEPT !.reserve = @ + dividends]
           sent      == Distribute(received, dividends)
<1>1. w.bib \in BIBStorage /\ dividends \in Nat
  BY DEF BibOK, BIBStorage
<1>2. CASE success
  <2>1. x = [w EXCEPT !.bib = [w.bib EXCEPT !.rewards = 0], !.store = sent]
    BY <1>2 DEF SendOn
  <2>2. w.store \in Storage /\ received \in Storage /\ SameBooks(w.store, received)
        /\ received.totalSupply = w.store.totalSupply
        /\ received.totalDividendsDistributed = w.store.totalDividendsDistributed
        /\ received.reserve = w.store.reserve + dividends
    <3>1. w.store \in Storage
      BY DEF StoreOK
    <3>2. received \in Storage
      BY <1>1, <3>1, ReserveGrows
    <3> HIDE DEF dividends
    <3>3. QED
      BY <3>1, <3>2 DEF SameBooks, Storage
  <2>3. StoreOK(received)
    BY <2>2, SameBooksFacts
  <2> HIDE DEF received
  <2>4. ~DistributeReverts(received, dividends)
    <3>1. ~DistributeReverts(w.store, dividends)
      BY <1>2
    <3> HIDE DEF dividends
    <3>2. QED
      BY <2>2, <3>1 DEF DistributeReverts, PerShare, SameBooks
  <2> HIDE DEF dividends
  <2>5. /\ StoreOK(sent) /\ sent.excludedFromDividends = received.excludedFromDividends
        /\ sent.totalDividendsDistributed = received.totalDividendsDistributed + dividends
        /\ Sent(sent) = Sent(received)
    BY <1>1, <2>3, <2>4, DistributeFacts
  <2> HIDE DEF sent
  <2>6. Sent(received) = Sent(w.store) + dividends
    <3>1. /\ SumFunction(w.store.received) \in Int /\ w.store.reserve \in Nat
          /\ received.received = w.store.received
      BY <2>2, SentIsAnInteger DEF Storage, SameBooks
    <3>2. QED
      BY <1>1, <2>2, <3>1 DEF Sent
  <2>7. Backed(w.store) => Backed(sent)
    <3>1. Sent(w.store) \in Int /\ w.store.totalDividendsDistributed \in Nat
      BY <2>2, SentIsAnInteger DEF Storage
    <3>2. QED
      BY <1>1, <2>2, <2>5, <2>6, <3>1 DEF Backed
  <2>8. Modest(w.store, InitialSupply) => Modest(sent, InitialSupply)
    <3>1. SameShares(w.store, received)
      BY <2>2 DEF SameBooks, SameShares
    <3>2. QED
      BY <1>1, <2>3, <2>4, <3>1, SameSharesModest, DistributionIsModest DEF sent
  <2>9. Follows(w.store, sent) /\ sent.balanceOf = w.store.balanceOf
    <3>1. received \in Storage /\ sent = Distribute(received, dividends)
      BY <2>2 DEF sent
    <3>2. sent.balanceOf = received.balanceOf
      BY <3>1, DistributionKeepsShares
    <3>3. QED
      BY <2>2, <2>5, <2>7, <2>8, <3>2 DEF Follows, SameBooks
  <2>10. IsWorld(x) /\ x.bib = [w.bib EXCEPT !.rewards = 0] /\ x.store = sent
    BY <2>1 DEF IsWorld
  <2>11. QED
    BY <1>1, <2>9, <2>10 DEF BIBStorage, SameRoles
<1>3. CASE ~success
  <2>1. x = [w EXCEPT !.bib = [w.bib EXCEPT !.rewards = dividends]]
    BY <1>3 DEF SendOn
  <2> HIDE DEF dividends
  <2>2. IsWorld(x) /\ x.bib = [w.bib EXCEPT !.rewards = dividends] /\ x.store = w.store
    BY <2>1 DEF IsWorld
  <2>3. QED
    BY <1>1, <2>2 DEF BIBStorage, SameRoles, Follows
<1>4. QED
  BY <1>2, <1>3

\* The three nested transfers, then the distribution.
LEMMA SwapBackFollows ==
    ASSUME NEW w, IsWorld(w), BibOK(w.bib), StoreOK(w.store), NEW to, SwapDue(w.bib, to),
           Excludes(w.store, {Token, Pair}),
           NEW how, ~SwapReverts(w, how), how.got \in Nat, how.turns \in Nat, NEW now \in Nat,
           NEW x, x = SwapBack(w, how, now)
    PROVE  /\ IsWorld(x) /\ SameRoles(w.bib, x.bib) /\ Follows(w.store, x.store)
           /\ Unmoved(w.bib, x.bib, {Token, Pair, DeadAddress})
           /\ x.store.balanceOf = w.store.balanceOf
<1> DEFINE b      == w.bib
           ends   == {Token, Pair, DeadAddress}
           p1     == Parts(b)[1]
           p2     == Parts(b)[2]
           p3     == Parts(b)[3]
           raised == [b EXCEPT !.swapping = TRUE]
           up     == [w EXCEPT !.bib.swapping = TRUE]
           x1     == Deliver(up, Token, Pair, p1, how, now)
           x2     == Deliver(x1, Token, Pair, p2, how, now)
           x3     == Deliver(x2, Token, Pair, p3, how, now)
           y      == SendOn(x3, how.got, how.success)
<1>1. x = [y EXCEPT !.bib.swapping = FALSE]
  BY DEF SwapBack
<1>2. /\ p1 \in Nat /\ p2 \in Nat /\ p3 \in Nat
      /\ p1 + p2 + p3 = b.swapTokensAtAmount
  BY PartsFit DEF SwapReverts, BibOK, BIBStorage, FeeRates
<1>3. /\ b \in BIBStorage /\ b.balanceOf[Token] \in Nat /\ b.swapTokensAtAmount \in Nat
      /\ b.swapTokensAtAmount <= b.balanceOf[Token] /\ Token \in Address
  BY BIBAssumptions DEF BibOK, BIBStorage, SwapDue
<1>4. IsWorld(up) /\ up.bib = raised /\ up.store = w.store
  <2>1. up = [w EXCEPT !.bib = raised]
    OBVIOUS
  <2> HIDE DEF raised, up
  <2>2. QED
    BY <2>1 DEF IsWorld
<1>5. /\ BibOK(raised) /\ raised.swapping /\ raised.balanceOf = b.balanceOf
      /\ raised.rewards = b.rewards /\ SameRoles(b, raised)
  <2>1. /\ raised \in BIBStorage /\ raised.fees = b.fees
        /\ raised.swapping /\ raised.balanceOf = b.balanceOf
        /\ raised.rewards = b.rewards /\ SameRoles(b, raised)
    BY <1>3 DEF BIBStorage, SameRoles
  <2> HIDE DEF raised
  <2>2. QED
    BY <2>1 DEF BibOK
<1> HIDE DEF raised, up, p1, p2, p3
<1>6. /\ IsWorld(x1) /\ BibOK(x1.bib) /\ x1.bib.swapping
      /\ OnlyPays(up.bib, x1.bib, Token, p1) /\ SameRoles(up.bib, x1.bib)
      /\ x1.bib.rewards = b.rewards /\ x1.store = w.store
      /\ Unmoved(up.bib, x1.bib, ends)
  <2>1. p1 <= up.bib.balanceOf[Token]
    BY <1>2, <1>3, <1>4, <1>5
  <2>2. QED
    BY <1>2, <1>4, <1>5, <2>1, SellFollows
<1> HIDE DEF x1
<1>7. x1.bib.balanceOf[Token] \in Nat /\ p2 + p3 <= x1.bib.balanceOf[Token]
  BY <1>2, <1>3, <1>4, <1>5, <1>6 DEF OnlyPays, BibOK, BIBStorage
<1>8. /\ IsWorld(x2) /\ BibOK(x2.bib) /\ x2.bib.swapping
      /\ OnlyPays(x1.bib, x2.bib, Token, p2) /\ SameRoles(x1.bib, x2.bib)
      /\ x2.bib.rewards = b.rewards /\ x2.store = w.store
      /\ Unmoved(x1.bib, x2.bib, ends)
  <2>1. p2 <= x1.bib.balanceOf[Token]
    BY <1>2, <1>7
  <2>2. QED
    BY <1>2, <1>6, <2>1, SellFollows
<1> HIDE DEF x2
<1>9. x2.bib.balanceOf[Token] \in Nat /\ p3 <= x2.bib.balanceOf[Token]
  BY <1>2, <1>3, <1>7, <1>8 DEF OnlyPays, BibOK, BIBStorage
<1>10. /\ IsWorld(x3) /\ BibOK(x3.bib) /\ SameRoles(x2.bib, x3.bib)
       /\ x3.bib.rewards = b.rewards /\ x3.store = w.store
       /\ Unmoved(x2.bib, x3.bib, ends)
  BY <1>2, <1>8, <1>9, SellFollows
<1> HIDE DEF x3
<1>11. how.success => ~DistributeReverts(x3.store, x3.bib.rewards + how.got)
  BY <1>10 DEF SwapReverts
<1>12. /\ IsWorld(y) /\ SameRoles(x3.bib, y.bib) /\ Follows(w.store, y.store)
       /\ y.store.balanceOf = w.store.balanceOf
  BY <1>10, <1>11, SendOnFollows
<1>13. BibOK(y.bib) /\ y.bib.balanceOf = x3.bib.balanceOf
  BY <1>10, SendOnKeeps
<1> HIDE DEF y
<1>14. IsWorld(x) /\ x.bib = [y.bib EXCEPT !.swapping = FALSE] /\ x.store = y.store
  BY <1>1, <1>12 DEF IsWorld
<1>15. SameRoles(y.bib, x.bib) /\ x.bib.balanceOf = y.bib.balanceOf
  BY <1>13, <1>14 DEF BibOK, BIBStorage, SameRoles
<1> HIDE DEF ends
<1>16. Unmoved(b, x.bib, ends)
  BY <1>4, <1>5, <1>6, <1>8, <1>10, <1>13, <1>15 DEF Unmoved
<1>17. QED
  BY <1>4, <1>5, <1>6, <1>8, <1>10, <1>12, <1>14, <1>15, <1>16 DEF SameRoles, ends

(***************************************************************************)
(* One lemma per kind of action.                                           *)
(***************************************************************************)

\* What the inductive invariant says of the roles.
LEMMA RolesAreExcluded ==
    ASSUME TrackerInv
    PROVE  /\ Excludes(store, {Token, Pair}) /\ Unpaid(bib) \subseteq Address
           /\ store \in Storage
<1>1. bib.automatedMarketMakerPairs \in SUBSET Address
  BY DEF TrackerInv, Inv, BibOK, BIBStorage
<1>2. QED
  BY <1>1, BIBAssumptions DEF TrackerInv, Excludes, Unpaid, InitialExclusions, StoreOK

\* A transfer of something is a swap, if one is due, and then the delivery.
LEMMA TransferParts ==
    ASSUME TrackerInv, NEW from \in Address, NEW to \in Address, NEW amount \in Amounts,
           NEW how \in Hows(to), Transfer(from, to, amount, how), amount # 0,
           NEW x, x = Swapped(World, to, how, clock)
    PROVE  /\ IsWorld(x) /\ BibOK(x.bib) /\ SameRoles(bib, x.bib) /\ ~x.bib.swapping
           /\ Unmoved(bib, x.bib, {Token, Pair, DeadAddress})
           /\ Follows(store, x.store) /\ x.store.balanceOf = store.balanceOf
           /\ how.turns \in Nat
           /\ bib' = Pay(x.bib, from, to, amount)
           /\ store' = Deliver(x, from, to, amount, how, clock).store
<1>1. Inv /\ StoreOK(store) /\ clock \in Nat /\ BibOK(bib)
      /\ Excludes(store, {Token, Pair})
  BY RolesAreExcluded DEF TrackerInv, Inv
<1>2. how.got \in Nat /\ how.turns \in Nat
  <2>1. (how.got \in SwapRewards \/ how.got \in {0}) /\ how.turns \in Turns
    BY DEF Hows
  <2>2. SwapRewards \subseteq Nat /\ Turns \subseteq Nat
    BY BIBAssumptions
  <2>3. {0} \subseteq Nat
    OBVIOUS
  <2>4. QED
    BY <2>1, <2>2, <2>3
<1>3. IsWorld(World) /\ World.bib = bib /\ World.store = store
  BY DEF World, IsWorld
<1>4. SwapDue(bib, to) => ~SwapReverts(World, how)
  <2>1. amount \in Nat /\ ~TransferReverts(World, from, to, amount, how, clock)
    BY BIBAssumptions DEF Transfer
  <2>2. QED
    BY <1>3, <2>1 DEF TransferReverts
<1>5. IsWorld(x) /\ BibOK(x.bib) /\ SameRules(bib, x.bib)
  BY <1>1, <1>2, <1>4, SwappedKeeps
<1>6. /\ SameRoles(bib, x.bib) /\ Unmoved(bib, x.bib, {Token, Pair, DeadAddress})
      /\ Follows(store, x.store) /\ x.store.balanceOf = store.balanceOf
  <2>1. CASE SwapDue(bib, to)
    <3>1. x = SwapBack(World, how, clock)
      BY <1>3, <2>1 DEF Swapped
    <3>2. /\ SameRoles(World.bib, x.bib) /\ Follows(World.store, x.store)
          /\ Unmoved(World.bib, x.bib, {Token, Pair, DeadAddress})
          /\ x.store.balanceOf = World.store.balanceOf
      BY <1>1, <1>2, <1>3, <1>4, <2>1, <3>1, SwapBackFollows
    <3>3. QED
      BY <1>3, <3>2
  <2>2. CASE ~SwapDue(bib, to)
    <3>1. x = World
      BY <1>3, <2>2 DEF Swapped
    <3>2. QED
      BY <1>1, <1>3, <3>1 DEF SameRoles, Unmoved, Follows
  <2>3. QED
    BY <2>1, <2>2
<1>7. /\ bib' = Deliver(x, from, to, amount, how, clock).bib
      /\ store' = Deliver(x, from, to, amount, how, clock).store
  BY DEF Transfer, Becomes, TransferOf
<1>8. bib' = Pay(x.bib, from, to, amount)
  BY <1>5, <1>7, DeliverPays
<1>9. ~x.bib.swapping
  BY <1>1, <1>5 DEF Inv, SameRules
<1>10. QED
  BY <1>2, <1>5, <1>6, <1>7, <1>8, <1>9

LEMMA TransferFollows ==
    ASSUME TrackerInv, NEW from \in Address, NEW to \in Address, NEW amount \in Amounts,
           NEW how \in Hows(to), Transfer(from, to, amount, how)
    PROVE  TrackerInv'
<1>1. Inv /\ Inv' /\ StoreOK(store) /\ clock \in Nat /\ clock' = clock
  BY TransferKeeps DEF TrackerInv, Transfer
<1>2. CASE amount = 0
  <2>1. bib' = bib /\ store' = store
    BY <1>2 DEF Transfer, TransferOf, Becomes, World
  <2>2. QED
    BY <1>1, <2>1 DEF TrackerInv
<1>3. CASE amount # 0
  <2> DEFINE x == Swapped(World, to, how, clock)
  <2>1. /\ IsWorld(x) /\ SameRoles(bib, x.bib) /\ Follows(store, x.store)
        /\ x.bib \in BIBStorage /\ how.turns \in Nat
        /\ bib' = Pay(x.bib, from, to, amount)
        /\ store' = Deliver(x, from, to, amount, how, clock).store
    BY <1>3, TransferParts DEF BibOK
  <2> HIDE DEF x
  <2>2. BibOK(bib') /\ StoreOK(x.store)
    BY <1>1, <2>1 DEF Inv, Follows
  <2>3. Follows(x.store, store')
    BY <1>1, <2>1, <2>2, DeliverFollows
  <2>4. SameRoles(x.bib, bib')
    BY <2>1, PayMovesTokensOnly
  <2>5. Unpaid(bib') = Unpaid(bib)
    BY <2>1, <2>4 DEF SameRoles, Unpaid
  <2>6. /\ StoreOK(store') /\ Excludes(store', Unpaid(bib')) /\ Backed(store')
        /\ Modest(store', InitialSupply)
    BY <2>1, <2>3, <2>5 DEF Follows, Excludes, TrackerInv
  <2>7. store'.totalDividendsDistributed <= MaxReward
    <3>1. Sent(store') + bib'.rewards <= MaxReward
      BY DEF Transfer, Becomes
    <3>2. /\ Sent(store') \in Int /\ bib'.rewards \in Nat
          /\ store'.totalDividendsDistributed \in Nat /\ MaxReward \in Nat
      BY <2>2, <2>6, SentIsAnInteger, BIBAssumptions DEF StoreOK, Storage, BibOK, BIBStorage
    <3>3. QED
      BY <2>6, <3>1, <3>2 DEF Backed
  <2>8. QED
    BY <1>1, <2>6, <2>7 DEF TrackerInv
<1>4. QED
  BY <1>2, <1>3

\* A call of the tracker that excludes nobody new and changes no role.
LEMMA CallsFollow ==
    ASSUME TrackerInv, Inv', Follows(store, store'), AsMuch(store, store'), clock' \in Nat,
           bib'.automatedMarketMakerPairs = bib.automatedMarketMakerPairs
    PROVE  TrackerInv'
BY DEF TrackerInv, Follows, AsMuch, Excludes, Unpaid

\* Excluding an account keeps the others excluded.
LEMMA ExclusionKeeps ==
    ASSUME TrackerInv, NEW account \in Address, ~ExcludeReverts(store, account),
           store' = Exclude(store, account)
    PROVE  /\ StoreOK(store') /\ Backed(store') /\ store'.excludedFromDividends[account]
           /\ Modest(store', InitialSupply) /\ AsMuch(store, store')
           /\ \A a \in Address : store.excludedFromDividends[a]
                                    => store'.excludedFromDividends[a]
<1>1. /\ StoreOK(store') /\ SameTotals(store, store')
      /\ store'.excludedFromDividends = [store.excludedFromDividends EXCEPT ![account] = TRUE]
  BY ExcludeFacts DEF TrackerInv
<1>2. store.excludedFromDividends \in [Address -> BOOLEAN]
  BY RolesAreExcluded DEF Storage
<1>3. Backed(store')
  BY <1>1 DEF TrackerInv, SameTotals, Backed
<1>4. Modest(store', InitialSupply)
  <2>1. store \in Storage /\ Modest(store, InitialSupply)
    BY RolesAreExcluded DEF TrackerInv
  <2>2. InitialSupply \in Nat
    BY BIBAssumptions
  <2>3. NewShares(store, store', account, 0)
    BY <2>1, ExcludeShares
  <2>4. 0 \in Nat /\ 0 <= InitialSupply
    BY <2>2
  <2>5. QED
    BY <2>1, <2>3, <2>4, NewSharesModest
<1>5. QED
  BY <1>1, <1>2, <1>3, <1>4 DEF SameTotals, AsMuch

LEMMA PairsFollow ==
    ASSUME TrackerInv, Inv', NEW pair \in Address, NEW value \in BOOLEAN,
           SetAutomatedMarketMakerPair(pair, value)
    PROVE  TrackerInv'
<1>1. /\ bib \in BIBStorage /\ clock' = clock /\ clock \in Nat /\ StoreOK(store)
      /\ bib' = [bib EXCEPT !.automatedMarketMakerPairs = Put(@, pair, value)]
  BY DEF TrackerInv, Inv, BibOK, SetAutomatedMarketMakerPair
<1>2. bib'.automatedMarketMakerPairs = Put(bib.automatedMarketMakerPairs, pair, value)
  BY <1>1 DEF BIBStorage
<1>3. CASE value
  <2>1. ~ExcludeReverts(store, pair) /\ store' = Exclude(store, pair)
    BY <1>3 DEF SetAutomatedMarketMakerPair
  <2>2. Unpaid(bib') = Unpaid(bib) \union {pair}
    BY <1>2, <1>3 DEF Put, Unpaid
  <2>3. QED
    BY <1>1, <2>1, <2>2, ExclusionKeeps, RolesAreExcluded DEF TrackerInv, Excludes, AsMuch
<1>4. CASE ~value
  <2>1. store' = store
    BY <1>4 DEF SetAutomatedMarketMakerPair
  <2>2. Unpaid(bib') \subseteq Unpaid(bib)
    BY <1>2, <1>4 DEF Put, Unpaid
  <2>3. QED
    BY <1>1, <2>1, <2>2 DEF TrackerInv, Excludes
<1>5. QED
  BY <1>3, <1>4

LEMMA ExcludeFollows ==
    ASSUME TrackerInv, Inv', NEW account \in Address, AddExcludeFromDividends(account)
    PROVE  TrackerInv'
<1>1. /\ ~ExcludeReverts(store, account) /\ store' = Exclude(store, account)
      /\ bib' = bib /\ clock' = clock
  BY DEF AddExcludeFromDividends
<1>2. QED
  BY <1>1, ExclusionKeeps, RolesAreExcluded DEF TrackerInv, Excludes, AsMuch

LEMMA ClaimWaitFollows ==
    ASSUME TrackerInv, Inv', NEW newClaimWait \in Nat, UpdateClaimWait(newClaimWait)
    PROVE  TrackerInv'
<1>1. store' = [store EXCEPT !.claimWait = newClaimWait] /\ bib' = bib /\ clock' = clock
  BY DEF UpdateClaimWait
<1>2. store \in Storage /\ StoreOK(store)
  BY DEF TrackerInv, StoreOK
<1>3. store' \in Storage /\ SameBooks(store, store') /\ store'.reserve = store.reserve
  BY <1>1, <1>2 DEF Storage, SameBooks
<1>4. SameShares(store, store')
  BY <1>3 DEF SameBooks, SameShares
<1>5. Follows(store, store') /\ AsMuch(store, store')
  BY <1>2, <1>3, <1>4, SameBooksFacts, SameSharesModest
     DEF Follows, SameBooks, Backed, Sent, SameShares, AsMuch
<1>6. QED
  BY <1>1, <1>5, CallsFollow DEF TrackerInv

LEMMA PaymentsFollow ==
    ASSUME TrackerInv, Inv', NEW account \in Address,
           Claim(account) \/ WithdrawDividend(account)
    PROVE  TrackerInv'
<1> DEFINE result == Answer(bib, store, account)
<1>1. StoreOK(store) /\ store \in Storage /\ clock \in Nat
  BY DEF TrackerInv, StoreOK
<1>2. Covered(store, account, result)
  BY <1>1, AnswersAreCovered
<1>3. /\ \/ store' = ProcessAccount(store, account, result, clock)
         \/ store' = Withdraw(store, account, result)
      /\ bib' = bib /\ clock' = clock
  BY DEF Claim, WithdrawDividend
<1> HIDE DEF result
<1>4. StoreOK(store') /\ PaidOrNot(store, store', account) /\ SameShares(store, store')
  BY <1>1, <1>2, <1>3, ProcessAccountFacts, WithdrawFacts, PaymentsKeepShares
<1>5. Follows(store, store') /\ AsMuch(store, store')
  <2>1. SameTotals(store, store')
    BY <1>1, <1>4, PaidOrNotTotals DEF StoreOK
  <2>2. Modest(store, InitialSupply) => Modest(store', InitialSupply)
    BY <1>4, SameSharesModest
  <2>3. QED
    BY <1>4, <2>1, <2>2 DEF Follows, PaidOrNot, SameTotals, Backed, AsMuch
<1>6. QED
  BY <1>1, <1>3, <1>5, CallsFollow

LEMMA ProcessingFollows ==
    ASSUME TrackerInv, Inv', NEW turns \in Nat, ProcessDividendTracker(turns)
    PROVE  TrackerInv'
<1>1. IsWorld(World) /\ World.bib = bib /\ World.store = store
  BY DEF World, IsWorld
<1>2. /\ bib' = Process(World, turns, clock).bib
      /\ store' = Process(World, turns, clock).store /\ clock' = clock
  BY DEF ProcessDividendTracker, Becomes
<1>3. bib' = bib /\ Follows(store, store') /\ AsMuch(store, store')
  BY <1>1, <1>2, ProcessFollows DEF TrackerInv, SameShares, AsMuch
<1>4. QED
  BY <1>2, <1>3, CallsFollow DEF TrackerInv

\* Setters of the token alone.
LEMMA SettersFollow ==
    ASSUME TrackerInv, Inv', store' = store, clock' \in Nat,
           bib'.automatedMarketMakerPairs = bib.automatedMarketMakerPairs
    PROVE  TrackerInv'
<1>1. Follows(store, store') /\ AsMuch(store, store')
  BY DEF TrackerInv, Follows, AsMuch
<1>2. QED
  BY <1>1, CallsFollow

(***************************************************************************)
(* The theorems.                                                           *)
(***************************************************************************)

LEMMA InitTrackerInv == Init => TrackerInv
<1> SUFFICES ASSUME Init PROVE TrackerInv
  OBVIOUS
<1> DEFINE excluded == [a \in Address |-> a \in InitialExclusions]
<1>1. /\ store = [InitialStorage EXCEPT !.cntr = "BIBToken", !.excludedFromDividends = excluded]
      /\ bib.automatedMarketMakerPairs = {Pair} /\ clock = StartTime
  BY DEF Init
<1>2. excluded \in [Address -> BOOLEAN]
  OBVIOUS
<1>3. InitialStorage \in Storage /\ StoreOK(InitialStorage)
  BY InitialStorageOK DEF StoreOK
<1> DEFINE named == [InitialStorage EXCEPT !.cntr = "BIBToken"]
<1>4. named \in Storage /\ SameBooks(InitialStorage, named)
      /\ named.reserve = InitialStorage.reserve
  BY <1>3 DEF Storage, SameBooks
<1>5. StoreOK(named)
  BY <1>3, <1>4, SameBooksFacts
<1>6. store = [named EXCEPT !.excludedFromDividends = excluded]
  BY <1>1
<1>7. named.tokenHoldersMap = EmptyMap
  BY DEF InitialStorage
<1> HIDE DEF named, excluded
<1>8. /\ store \in Storage /\ store.excludedFromDividends = excluded
      /\ store.balanceOf = named.balanceOf /\ store.tokenHoldersMap = named.tokenHoldersMap
      /\ store.magnifiedDividendPerShare = named.magnifiedDividendPerShare
      /\ store.magnifiedDividendCorrections = named.magnifiedDividendCorrections
      /\ store.withdrawnDividends = named.withdrawnDividends /\ store.received = named.received
      /\ store.totalSupply = named.totalSupply /\ store.reserve = named.reserve
      /\ store.totalDividendsDistributed = named.totalDividendsDistributed
  BY <1>2, <1>4, <1>6 DEF Storage
<1>9. Holders(store) = {}
  BY <1>7, <1>8 DEF Holders, EmptyMap
<1>10. ListFollowsShares(store)
  BY <1>5, <1>8, <1>9 DEF StoreOK, ListFollowsShares, Holders
<1>11. WithdrawnIsEarned(store)
  BY <1>5, <1>8 DEF StoreOK, WithdrawnIsEarned, accumulativeDividendOf, MagnifiedDividend
<1>12. StoreOK(store) /\ Backed(store)
  <2>1. SameCredit(named, store)
    BY <1>8 DEF SameCredit, MagnifiedDividend
  <2>2. AddsUp(store)
    BY <1>4, <1>5, <1>8, <2>1, SameSharesAddUp DEF StoreOK
  <2>3. store.totalDividendsDistributed = 0 /\ Sent(store) = 0
    BY <1>3, <1>4, <1>8, NothingSentYet DEF SameBooks, Sent
  <2>4. QED
    BY <1>5, <1>8, <1>10, <1>11, <2>2, <2>3 DEF StoreOK, Backed
<1>13. Unpaid(bib) = InitialExclusions /\ InitialExclusions \subseteq Address
  BY <1>1, BIBAssumptions DEF Unpaid, InitialExclusions
<1>14. Excludes(store, Unpaid(bib))
  BY <1>8, <1>13 DEF Excludes, excluded
<1>15. clock \in Nat /\ InitialSupply \in Nat /\ MaxReward \in Nat
  BY <1>1, BIBAssumptions
<1>16. Modest(store, InitialSupply) /\ store.totalDividendsDistributed <= MaxReward
  <2>1. /\ store.magnifiedDividendPerShare = 0 /\ store.totalDividendsDistributed = 0
        /\ \A a \in Address : store.balanceOf[a] = 0
    BY <1>4, <1>8 DEF SameBooks, InitialStorage
  <2>2. 0 * MinBalance <= Magnitude * 0
    BY ContractAssumptions, MagnitudeAssumption
  <2>3. QED
    BY <1>15, <2>1, <2>2 DEF Modest
<1>17. QED
  BY InitInv, <1>12, <1>14, <1>15, <1>16 DEF TrackerInv

LEMMA NextFollows == TrackerInv /\ [Next]_vars => TrackerInv'
<1> SUFFICES ASSUME TrackerInv, [Next]_vars PROVE TrackerInv'
  OBVIOUS
<1>1. Inv' /\ clock \in Nat /\ bib \in BIBStorage
  BY NextKeeps DEF TrackerInv, Inv, BibOK
<1>2. Listed \subseteq Address /\ ClaimWaits \subseteq Nat /\ Turns \subseteq Nat
  BY BIBAssumptions
<1>3. ASSUME NEW from \in Address, NEW to \in Address, NEW amount \in Amounts,
             NEW how \in Hows(to), Transfer(from, to, amount, how)
      PROVE  TrackerInv'
  BY <1>3, TransferFollows
<1>4. ASSUME NEW value \in BOOLEAN,
             \/ SetAllowTransfer(value) \/ Pause(value) \/ SetSwapEnabled(value)
      PROVE  TrackerInv'
  BY <1>1, <1>4, SettersFollow DEF SetAllowTransfer, Pause, SetSwapEnabled, BIBStorage
<1>5. ASSUME NEW account, NEW value, NEW isFrom,
             SetFeeWhiteList(account, value, isFrom) \/ SetNoProcessList(account, value)
      PROVE  TrackerInv'
  <2>1. /\ bib'.automatedMarketMakerPairs = bib.automatedMarketMakerPairs
        /\ store' = store /\ clock' = clock
    BY <1>1, <1>5 DEF SetFeeWhiteList, SetNoProcessList, BIBStorage
  <2>2. QED
    BY <1>1, <2>1, SettersFollow
<1>6. ASSUME NEW account \in Listed, NEW value \in BOOLEAN,
             SetAutomatedMarketMakerPair(account, value)
      PROVE  TrackerInv'
  BY <1>1, <1>2, <1>6, PairsFollow
<1>7. ASSUME NEW value \in BOOLEAN,
             \/ value \in {TRUE} \union Switches /\ SetAllowTransfer(value)
             \/ value \in Switches /\ (Pause(value) \/ SetSwapEnabled(value))
             \/ \E account \in FeeListed, isFrom \in BOOLEAN :
                   SetFeeWhiteList(account, value, isFrom)
             \/ \E account \in Listed :
                   \/ SetNoProcessList(account, value)
                   \/ SetAutomatedMarketMakerPair(account, value)
      PROVE  TrackerInv'
  BY <1>4, <1>5, <1>6, <1>7
<1>8. ASSUME NEW fees, SetSellFee(fees) PROVE TrackerInv'
  BY <1>1, <1>8, SettersFollow DEF SetSellFee, BIBStorage
<1>9. ASSUME NEW newValue, UpdateSwapTokensAtAmount(newValue) PROVE TrackerInv'
  BY <1>1, <1>9, SettersFollow DEF UpdateSwapTokensAtAmount, BIBStorage
<1>10. ASSUME NEW newClaimWait \in ClaimWaits, UpdateClaimWait(newClaimWait)
       PROVE  TrackerInv'
  BY <1>1, <1>2, <1>10, ClaimWaitFollows
<1>11. ASSUME NEW account \in Listed, AddExcludeFromDividends(account) PROVE TrackerInv'
  BY <1>1, <1>2, <1>11, ExcludeFollows
<1>12. ASSUME NEW account, NEW amount,
              SetFreezeTokenAddress \/ AddFreezeToken(account, amount)
       PROVE  TrackerInv'
  BY <1>1, <1>12, SettersFollow DEF SetFreezeTokenAddress, AddFreezeToken, BIBStorage
<1>13. ASSUME NEW turns \in Turns, ProcessDividendTracker(turns) PROVE TrackerInv'
  BY <1>1, <1>2, <1>13, ProcessingFollows
<1>14. ASSUME NEW account \in Address, Claim(account) \/ WithdrawDividend(account)
       PROVE  TrackerInv'
  BY <1>1, <1>14, PaymentsFollow
<1>15. ASSUME NEW account, NEW answer, RewardTokenAnswers(account, answer) PROVE TrackerInv'
  BY <1>1, <1>15, SettersFollow DEF RewardTokenAnswers, BIBStorage
<1>16. CASE Tick \/ UNCHANGED vars
  BY <1>1, <1>16, SettersFollow DEF Tick, vars
<1>17. QED
  BY <1>3, <1>7, <1>8, <1>9, <1>10, <1>11, <1>12, <1>13, <1>14, <1>15, <1>16 DEF Next

LEMMA TrackerInvHolds == Spec => []TrackerInv
BY InitTrackerInv, NextFollows, PTL DEF Spec

\* Both contracts' variables keep their types through any transfers, swaps and
\* payments: no balance is negative, no swap is left in progress, the rates stay
\* within the limit (BIBToken.sol:95-143, 284, 395-456).
THEOREM TypeCorrect == Spec => []TypeOK
<1>1. TrackerInv => TypeOK
  BY DEF TrackerInv, Inv, BibOK, StoreOK, TypeOK
<1>2. QED
  BY <1>1, TrackerInvHolds, PTL

\* Pairs and the token's own addresses are excluded from dividends and listed
\* nowhere, also when they had been holders before (BIBToken.sol:131-134, 257-264).
THEOREM PairsNeverEarn == Spec => []PairsEarnNothing
<1>1. TrackerInv => PairsEarnNothing
  BY DEF TrackerInv, StoreOK, Excludes, Unpaid, PairsEarnNothing
<1>2. QED
  BY <1>1, TrackerInvHolds, PTL

\* Every dividend the token has the tracker distribute was sent to it before, and
\* the tracker can pay everyone (BIBToken.sol:536-545, DividendPayingToken.sol:80-117).
THEOREM DividendsStayBacked == Spec => []DividendsAreBacked
<1>1. TrackerInv => DividendsAreBacked
  BY BackedIsSolvent DEF TrackerInv, Backed, DividendsAreBacked
<1>2. QED
  BY <1>1, TrackerInvHolds, PTL

(***************************************************************************)
(* The shares follow the balances, when no call runs out of gas and the    *)
(* words are wide enough for the supply and the rewards.                   *)
(***************************************************************************)

WordsAreWide == WideFor(InitialSupply, MaxReward)

\* From s to t the shares of a have followed its balance in b, or the reward token
\* would not pay it.
Told(b, s, t, a) ==
    \/ t.balanceOf[a] = SharesOf(b.balanceOf[a])
    \/ b.answers[a] = "reverts" /\ t.balanceOf[a] = s.balanceOf[a]

\* setBalance reverts only because of the reward token.
LEMMA ReportTells ==
    ASSUME WordsAreWide, NEW w, IsWorld(w), BibOK(w.bib), StoreOK(w.store), Backed(w.store),
           Modest(w.store, InitialSupply), w.store.totalDividendsDistributed <= MaxReward,
           NEW account \in Address, ~w.store.excludedFromDividends[account],
           NEW now \in Nat, NEW x, x = Report(w, account, now)
    PROVE  Told(w.bib, w.store, x.store, account)
<1> DEFINE b       == w.bib
           s       == w.store
           balance == b.balanceOf[account]
           u       == SharesFollow(s, account, balance)
           result  == Answer(b, u, account)
           t       == SetBalance(s, account, balance, result, now)
<1>1. /\ balance \in Nat /\ balance <= InitialSupply /\ s \in Storage
      /\ DOMAIN s.balanceOf = Address
  BY BalancesFit DEF StoreOK, Storage
<1>2. InitialSupply \in Nat /\ MaxReward \in Nat
  BY BIBAssumptions
<1>3. ~SharesFollowReverts(s, account, balance)
  BY <1>1, <1>2, WideWordsAreEnough DEF WordsAreWide
<1>4. /\ StoreOK(u) /\ SameTotals(s, u)
      /\ NewShares(s, u, account, IF balance >= MinBalance THEN balance ELSE 0)
  BY <1>1, <1>3, SharesFollowFacts, SharesFollowShares
<1> HIDE DEF u
<1>5. Modest(u, InitialSupply) /\ u.totalDividendsDistributed <= MaxReward /\ Backed(u)
  <2> DEFINE shares == IF balance >= MinBalance THEN balance ELSE 0
  <2>1. shares \in Nat /\ shares <= InitialSupply
    BY <1>1, <1>2, ContractAssumptions
  <2>2. NewShares(s, u, account, shares)
    BY <1>4
  <2> HIDE DEF shares
  <2>3. Modest(u, InitialSupply)
    BY <1>1, <2>1, <2>2, NewSharesModest
  <2>4. QED
    BY <1>4, <2>3 DEF SameTotals, Backed
<1>6. /\ ~withdrawableDividendOfReverts(u, account)
      /\ withdrawableDividendOf(u, account) <= u.reserve
  BY <1>2, <1>4, <1>5, WideReadings, OneIsCovered DEF WordsAreWide
<1>7. CASE SetBalanceReverts(s, account, balance, result)
  <2>1. x = w
    BY <1>7 DEF Report, u
  <2>2. result = "reverts"
    BY <1>3, <1>6, <1>7 DEF SetBalanceReverts, ProcessAccountReverts, WithdrawReverts, u
  <2>3. u.reserve \in Nat /\ withdrawableDividendOf(u, account) \in Int
    BY <1>4, EarningsAreIntegers DEF StoreOK, Storage, withdrawableDividendOf
  <2>4. b.answers[account] = "reverts"
    BY <1>6, <2>2, <2>3 DEF Answer
  <2>5. QED
    BY <2>1, <2>4 DEF Told
<1>8. CASE ~SetBalanceReverts(s, account, balance, result)
  <2>1. x = [w EXCEPT !.store = t]
    BY <1>8 DEF Report, u
  <2>2. Covered(u, account, result)
    BY <1>4, AnswersAreCovered DEF StoreOK
  <2> HIDE DEF result
  <2>3. NewShares(s, t, account, IF balance >= MinBalance THEN balance ELSE 0)
    BY <1>1, <1>8, <2>2, SetBalanceShares DEF u
  <2> HIDE DEF t
  <2>4. x.store = t
    BY <2>1 DEF IsWorld
  <2>5. t.balanceOf[account] = SharesOf(balance)
    BY <1>1, <2>3 DEF NewShares, SharesOf
  <2>6. QED
    BY <2>4, <2>5 DEF Told
<1>9. QED
  BY <1>7, <1>8

\* A delivery tells of both ends, of the one account twice if it is both.
LEMMA DeliverTells ==
    ASSUME WordsAreWide, NEW w, IsWorld(w), StoreOK(w.store), Backed(w.store),
           Modest(w.store, InitialSupply), w.store.totalDividendsDistributed <= MaxReward,
           NEW from \in Address, NEW to \in Address, NEW amount,
           NEW c, c = Pay(w.bib, from, to, amount), BibOK(c),
           NEW how, how.tries = 3, how.turns \in Nat, NEW now \in Nat,
           NEW x, x = Deliver(w, from, to, amount, how, now)
    PROVE  \A a \in {from, to} :
              ~w.store.excludedFromDividends[a] => Told(c, w.store, x.store, a)
<1> DEFINE paid  == [w EXCEPT !.bib = Pay(@, from, to, amount)]
           first == Report(paid, from, now)
           told  == Report(first, to, now)
           s     == w.store
<1>1. IsWorld(paid) /\ paid.bib = c /\ paid.store = s
  BY DEF IsWorld
<1>2. x = told \/ x = Process(told, how.turns, now)
  BY DEF Deliver, ReportBoth
<1> HIDE DEF paid
<1>3. /\ IsWorld(first) /\ first.bib = c /\ Follows(s, first.store)
      /\ AsMuch(s, first.store)
      /\ \A a \in Address : a # from => first.store.balanceOf[a] = s.balanceOf[a]
  BY <1>1, ReportFollows
<1>4. ~s.excludedFromDividends[from] => Told(c, s, first.store, from)
  BY <1>1, ReportTells
<1> HIDE DEF first
<1>5. /\ StoreOK(first.store) /\ Backed(first.store) /\ Modest(first.store, InitialSupply)
      /\ first.store.totalDividendsDistributed <= MaxReward
      /\ first.store.excludedFromDividends = s.excludedFromDividends
  BY <1>3 DEF Follows, AsMuch
<1>6. /\ IsWorld(told) /\ StoreOK(told.store)
      /\ \A a \in Address : a # to => told.store.balanceOf[a] = first.store.balanceOf[a]
  BY <1>3, <1>5, ReportFollows DEF Follows
<1>7. ~s.excludedFromDividends[to] => Told(c, first.store, told.store, to)
  BY <1>3, <1>5, ReportTells
<1> HIDE DEF told
<1>8. x.store.balanceOf = told.store.balanceOf
  BY <1>2, <1>6, ProcessFollows DEF SameShares
<1>9. \A a \in {from, to} : ~s.excludedFromDividends[a] => Told(c, s, told.store, a)
  <2>1. CASE from = to
    BY <2>1, <1>4, <1>7 DEF Told
  <2>2. CASE from # to
    <3>1. ~s.excludedFromDividends[from] => Told(c, s, told.store, from)
      BY <2>2, <1>4, <1>6 DEF Told
    <3>2. ~s.excludedFromDividends[to] => Told(c, s, told.store, to)
      BY <2>2, <1>3, <1>7 DEF Told
    <3>3. QED
      BY <3>1, <3>2
  <2>3. QED
    BY <2>1, <2>2
<1>10. QED
  BY <1>8, <1>9 DEF Told

\* Whoever else a transfer takes from or gives to is excluded.
LEMMA TransferTells ==
    ASSUME ~GasRunsOut, WordsAreWide, TrackerInv, NEW from \in Address, NEW to \in Address,
           NEW amount \in Amounts, NEW how \in Hows(to), Transfer(from, to, amount, how)
    PROVE  BalanceStep
<1>1. TrackerInv' /\ clock \in Nat
  BY TransferFollows DEF TrackerInv
<1>2. CASE amount = 0
  <2>1. bib' = bib
    BY <1>2 DEF Transfer, TransferOf, Becomes, World
  <2>2. QED
    BY <2>1 DEF BalanceStep
<1>3. CASE amount # 0
  <2> DEFINE x == Swapped(World, to, how, clock)
  <2>1. /\ IsWorld(x) /\ BibOK(x.bib) /\ SameRoles(bib, x.bib)
        /\ Unmoved(bib, x.bib, {Token, Pair, DeadAddress})
        /\ Follows(store, x.store) /\ x.store.balanceOf = store.balanceOf
        /\ how.turns \in Nat /\ bib' = Pay(x.bib, from, to, amount)
        /\ store' = Deliver(x, from, to, amount, how, clock).store
    BY <1>3, TransferParts
  <2> HIDE DEF x
  <2>2. how.tries = 3
    BY DEF Hows
  <2>3. BibOK(bib') /\ x.bib \in BIBStorage
    BY <1>1, <2>1 DEF TrackerInv, Inv, BibOK
  <2>4. /\ StoreOK(x.store) /\ Backed(x.store) /\ Modest(x.store, InitialSupply)
        /\ x.store.excludedFromDividends = store.excludedFromDividends
    BY <2>1 DEF Follows, TrackerInv
  <2>5. x.store.totalDividendsDistributed <= MaxReward
    <3>1. AsMuch(x.store, store')
      BY <1>1, <2>1, <2>3, <2>4, DeliverFollows
    <3>2. QED
      BY <1>1, <3>1 DEF TrackerInv, AsMuch
  <2>6. \A a \in {from, to} :
           ~store.excludedFromDividends[a] => Told(bib', x.store, store', a)
    BY <1>1, <2>1, <2>2, <2>3, <2>4, <2>5, DeliverTells
  <2>7. /\ Unmoved(x.bib, bib', {from, to, Token, DeadAddress})
        /\ bib'.answers = bib.answers
    BY <2>1, <2>3, PayReaches, PayMovesTokensOnly DEF SameRoles
  <2>8. \A a \in {Token, Pair, DeadAddress} : store.excludedFromDividends[a]
    BY DEF TrackerInv, Excludes, Unpaid, InitialExclusions
  <2>9. SUFFICES ASSUME NEW a \in Address, bib'.balanceOf[a] # bib.balanceOf[a],
                        ~store.excludedFromDividends[a]
                 PROVE  \/ store'.balanceOf[a] = SharesOf(bib'.balanceOf[a])
                        \/ bib.answers[a] = "reverts" /\ store'.balanceOf[a] = store.balanceOf[a]
    BY DEF BalanceStep
  <2>10. a \in {from, to}
    BY <2>1, <2>7, <2>8, <2>9 DEF Unmoved
  <2>11. QED
    BY <2>1, <2>6, <2>7, <2>9, <2>10 DEF Told
<1>4. QED
  BY <1>2, <1>3

\* No other action moves a token.
LEMMA NextTells ==
    ASSUME ~GasRunsOut, WordsAreWide, TrackerInv, [Next]_vars
    PROVE  BalanceStep
<1>1. bib \in BIBStorage
  BY DEF TrackerInv, Inv, BibOK
<1>2. ASSUME bib'.balanceOf = bib.balanceOf PROVE BalanceStep
  BY <1>2 DEF BalanceStep
<1>3. ASSUME NEW from \in Address, NEW to \in Address, NEW amount \in Amounts,
             NEW how \in Hows(to), Transfer(from, to, amount, how)
      PROVE  BalanceStep
  BY <1>3, TransferTells
<1>4. ASSUME NEW value,
             \/ SetAllowTransfer(value) \/ Pause(value) \/ SetSwapEnabled(value)
             \/ \E account \in FeeListed, isFrom \in BOOLEAN :
                   SetFeeWhiteList(account, value, isFrom)
             \/ \E account \in Listed :
                   \/ SetNoProcessList(account, value)
                   \/ SetAutomatedMarketMakerPair(account, value)
      PROVE  BalanceStep
  BY <1>1, <1>2, <1>4 DEF SetAllowTransfer, Pause, SetSwapEnabled, SetFeeWhiteList,
     SetNoProcessList, SetAutomatedMarketMakerPair, BIBStorage
<1>5. ASSUME NEW fees, SetSellFee(fees) PROVE BalanceStep
  BY <1>1, <1>2, <1>5 DEF SetSellFee, BIBStorage
<1>6. ASSUME NEW newValue, UpdateSwapTokensAtAmount(newValue) PROVE BalanceStep
  BY <1>1, <1>2, <1>6 DEF UpdateSwapTokensAtAmount, BIBStorage
<1>7. ASSUME NEW account, NEW amount,
             SetFreezeTokenAddress \/ AddFreezeToken(account, amount)
      PROVE  BalanceStep
  BY <1>1, <1>2, <1>7 DEF SetFreezeTokenAddress, AddFreezeToken, BIBStorage
<1>8. ASSUME NEW turns, ProcessDividendTracker(turns) PROVE BalanceStep
  <2>1. IsWorld(World) /\ World.bib = bib
    BY WorldIs
  <2>2. bib' = bib
    BY <1>8, <2>1, ProcessKeepsBib DEF ProcessDividendTracker, Becomes
  <2>3. QED
    BY <1>2, <2>2
<1>9. ASSUME NEW account, NEW answer, RewardTokenAnswers(account, answer)
      PROVE  BalanceStep
  BY <1>1, <1>2, <1>9 DEF RewardTokenAnswers, BIBStorage
<1>10. ASSUME NEW x, \/ UpdateClaimWait(x) \/ AddExcludeFromDividends(x)
                    \/ Claim(x) \/ WithdrawDividend(x)
       PROVE  BalanceStep
  BY <1>2, <1>10 DEF UpdateClaimWait, AddExcludeFromDividends, Claim, WithdrawDividend
<1>11. CASE Tick \/ UNCHANGED vars
  BY <1>2, <1>11 DEF Tick, vars
<1>12. QED
  BY <1>3, <1>4, <1>5, <1>6, <1>7, <1>8, <1>9, <1>10, <1>11 DEF Next

\* Unless the gas runs out or the numbers outgrow their words, whoever's balance a
\* transfer changes has the shares that the new balance gives, or is excluded, or
\* could not be paid, and then has the shares it had (BIBToken.sol:445-446,
\* TokenDividendTracker.sol:152-167).
THEOREM SharesAreInStep ==
    ~GasRunsOut /\ WordsAreWide => (Spec => SharesFollowBalances)
<1> SUFFICES ASSUME ~GasRunsOut, WordsAreWide PROVE Spec => SharesFollowBalances
  OBVIOUS
<1>1. TrackerInv /\ [Next]_vars => [BalanceStep]_vars
  BY NextTells
<1>2. QED
  BY <1>1, TrackerInvHolds, PTL DEF Spec, SharesFollowBalances
=============================================================================
