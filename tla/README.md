# BIB token: its dividend contracts, model-checked and proved

The repository holds the contracts of the BIB token, an ERC20 token whose
transfers take fees, swap the collected fees for a reward token and distribute
the rewards among the holders of BIB, and the scripts that deploy and maintain
them. This project models both, checks them with TLC on small instances, and
proves the main properties of the token, its dividend contracts, the deployment and
the maintenance tasks with TLAPS for every instance. All paths below are
relative to the repository; contract names stand for the files under
`contracts/token` and `contracts/library`.

## 1. Inventory

| component | state | operations | used by |
|---|---|---|---|
| `IterableMapping` | keys, values, indexOf, inserted | `set`, `remove`, views | the tracker's holder list |
| `DividendPayingToken` | shares, dividend per share, corrections, withdrawn and distributed totals | distribute, withdraw, mint, burn, set balance | inherited by the tracker |
| `TokenDividendTracker` | holder list, cursor, controller, exclusions, claim times, claimWait | `setBalance`, `process`, `processAccount`, `excludeFromDividends`, `distributeDividends`, `updateClaimWait`, `setController` | the token (controller), its owner, anyone (`process`, `setController`, `withdrawDividend`) |
| `BIBToken` | balances, fees, switches, white lists, pairs, threshold, the flag `swapping` | `transfer` and some twenty setters of the owner | holders, the router (nested transfers), the owner |
| `FreezeToken` | frozen amount per account (only grows) | `addFreezeToken`, `setController` | read by each transfer of BIB |
| `VestingToken`, `BEP20Token` | beneficiary; those of OpenZeppelin's contracts | two overrides that revert; none | deployment; tests |
| proxies (`contracts/deps`) | admin and implementation slots, initialized flag | `upgradeTo`, `changeAdmin`, `initialize`, fallback | every call of the token and the tracker |
| deployment tasks (`tasks/migrations`, `tasks/deployments`, `tasks/misc`) | the file `deployed-contracts.json`, the chain | four migrations, two deploy and two initialize tasks, verification | operators; may stop and be run again |
| maintenance tasks (`tasks/helpers`) | the chain; answers of the operator | change of administrators and owners, exclusion of an address, switching dividends on and off | operators; as above, next to other transactions of the same accounts |
| helpers and configuration (`helpers`, `hardhat.config.ts`) | parameters per network | contract creation, waiting, registration, verification with retries | the tasks |
| libraries, interfaces | none | arithmetic that reverts | the contracts |

How they interact. A transfer of BIB (`BIBToken.sol:395-456`) checks switches
and the frozen amount; if the token contract has collected enough fees it
raises `swapping` and sells them through the router, which calls `transferFrom`
on the token again; it sends the rewards to the tracker and calls
`distributeDividends`; it takes its fees and moves the amount; it reports both
new balances with `setBalance` and runs `process`, each in a `try` whose
failure is swallowed. `setBalance` changes shares and list and pays the account
at once; `process` walks the list from a stored cursor, as far as its gas
lasts, and pays who is due. Every payout calls the reward token, which may
answer false or revert.

What is hard here. Nothing runs concurrently: the EVM runs one transaction at a
time. The difficulties are the order of calls over a long history (earnings are
kept by corrections that must cancel exactly), integer division and the width
of words, the partial failures (`try`, answers of false, reverts that undo a
whole call, gas that ends anywhere), indices that are stale (the cursor in a
list that shrinks and is reordered), and the nested transfers of a swap. The
scripts are what really is interrupted: they stop between two transactions, are
run again over what they left on the chain and in their file, compute nonces
themselves, and read the chain before they change it. `PROJECT.json` lists each
hazard at its line with the properties aimed at it.

What makes each component correct:

* the list: keys and indices stay inverse, a removal moves no key but the last,
  and as a whole it is a partial function from addresses to numbers;
* the dividends: earnings change only by distributions, nobody withdraws more
  than was earned, the books equal the payments, and all credit together stays
  within what was distributed;
* the tracker: list, shares and exclusions agree; the loop pays only who is due,
  once per call, for good only if the call returns, and reaches everybody;
* the token: a transfer is taxed once, whatever is nested in it, and runs the loop once, frozen tokens stay, pairs never earn, what is
  distributed has been moved, shares follow balances, and the reward token's
  refusals never change a transfer;
* the deployment: a token and its tracker know each other whatever was run,
  killed and rerun; a token whose supply is handed out is complete and stays as
  it is; what reports success has been deployed; a rerun can succeed;
* the maintenance: what a task reports is true on the chain, no transaction is
  stuck behind a gap of nonces, tasks end.

## 2. Modules

```
Accounts            the set Address
 ├ IterableMapping       operators on the struct Map          (IterableMapping.sol)
 │   ├ HolderMap         the list alone, any calls            TLC: HolderMap.cfg
 │   │    └ AbstractMap  what it promises
 │   └ IterableMappingTheorems, HolderMapProofs               TLAPS
 └ DividendPayingToken   operators on the tracker's storage   (DividendPayingToken.sol)
     └ TrackerContract   operators, with the list             (TokenDividendTracker.sol)
         ├ SumTheorems, TrackerContractTheorems               TLAPS
         ├ TokenDividendTracker  state machine of the tracker TLC: Tracker*.cfg
         │    ├ DividendLedger   what it promises each account
         │    └ TokenDividendTrackerProofs                    TLAPS
         └ BIBToken      state machine of token and tracker   TLC: BIB*.cfg
              └ BIBTokenProofs                                TLAPS

UpgradeabilityProxy      operators on a proxy's slots         (contracts/deps)
 ├ DeployedContracts     the chain, and what transactions do to it
 │   └ Deployment        the deployment tasks                 TLC: Deployment.cfg
 │        ├ NetworkConfig     parameters of the networks      (helpers/constants.ts)
 │        ├ Pairing           what it promises
 │        └ DeploymentProofs                                  TLAPS
 └ Maintenance           the maintenance tasks                TLC: Maintenance.cfg
     └ MaintenanceProofs                                      TLAPS
```

`MCTokenDividendTracker`, `MCBIBToken`, `MCDeployment` and `MCMaintenance` add
symmetry and constant values.
`map` in `PROJECT.json` gives the source lines of every definition.

**Contracts as operators.** A function F of a contract is an operator from
storage to storage, and FReverts is the condition under which the call reverts.
So calls compose as in the code (`SetBalance` is `SharesFollow` followed by
`ProcessAccount`), a revert in the middle undoes everything before it because
the new storage is never used, and a `try` is a case distinction on FReverts.
The storage is one record; the fields `reserve` and `received` are the part of
the reward token's ledger that the calls change.

**TokenDividendTracker.** Variables `store`, `clock` (block.timestamp) and
`frame`. Every function is one action except `process`, which is one action per
turn of its loop, so that its gas can run out and its payouts can fail at each
turn; `frame` holds the call's cursor, the turns its gas is good for, and the
storage a revert returns to. No other action is enabled meanwhile. The loop's
calls of `processAccount` keep the caller of `process`: if it is not the
controller, the first account that is due makes the call revert. The actions
`SendDividends` and `ReportBalance` are the calls the token makes.

`claimWait` starts at zero: `TokenDividendTracker.sol:24` assigns one hour in the
constructor of the implementation, whose storage the proxy does not use, and
`initialize` does not set it. Until `updateClaimWait` is called, the loop pays
every holder on every pass.

**BIBToken.** Variables `bib`, `store`, `clock`. A whole transaction is one
action. `Transfer` is the body of `_transfer`: `SwapBack` with its three nested
transfers through `Deliver` (the part of `_transfer` a nested call reaches),
`SendOn`, the fees in `Pay`, `ReportBoth`, and `Process`, which runs
the loop of the tracker in one step with the same `NextIndex`, `CanAutoClaim`
and `ProcessAccount` as the tracker's own module. What the code does not decide
is the record `how`: how many of the three `try` statements have gas (the
callee gets 63/64 of it, so that running out there is caught), the turns of
`process`, the yield of the swap and whether its transfer succeeds.

**Deployment.** A task is the sequence of its awaited steps (`DeploymentTask`
and the others): look up the file, send, await, register, verify. The variable
`script` holds what is left of it, with the address of the contract made last
and the outcome of the transaction awaited; `db` is the file. One action per
kind of step takes the first one off; a failed check, a revert and a refused
call end the task. `pending` are the deployer's transactions in the order of
their nonces. The address of a contract is the nonce of its creation, which is
how ethers knows it before it is mined, and how a name in the file can come to
mean another contract after a transaction was lost. `DeployedContracts` has
the contracts as records and, for each transaction, Reverts and Apply: the
proxy's `initialize` with the call it delegates, and the parts of the token and
the tracker the deployment uses. `Kill` ends a task between two steps and leaves
its transactions; `Lose` drops the last one; `SetControllerByStranger` is the
one function of a new contract that is open to everybody and matters here.

A transaction without a gas limit is estimated on the latest state and not sent
if it reverts there; the calls of `initialize-BIBToken` come with one and are
mined and revert. The names a task reads are read at once: nothing changes them
between the reads and the uses.

**Maintenance.** The state after a deployment: two proxies with administrator
and owner, the lists and switches, and the transaction pool, now a set, since the
tasks give nonces of their own. A task is a program counter `pc` with its
position in a list of contracts or lists; each read of the chain, prompt,
transaction and wait is one step, the reads of the new owners before
`transfer-ownership` reports success (lines 174-178) included. `migrate-owner-and-admin` runs one job after
the other. `Console` is the owner or the administrator acting from elsewhere.
`report` is what a task has announced as successful. It is a ghost, as are `alone`, whether
nothing else was going on, and `takenOut`, the accounts that a transaction takes out of a list which was
pending when the task started or was sent since.

**External code**, modelled from its use: the reward token (a payout moves the
amount, answers false or reverts; it reverts when the payer has too little), the
router (takes the amounts it is given; refuses an amount of zero), the inherited
ERC20 and pause, the block's timestamp, the nodes and their transaction pool,
ethers, and the explorer that verifies sources (answers anything).

## 3. Runs

| run | what it explores | properties |
|---|---|---|
| `holder_map` | all sequences of `set` and `remove` on 4 addresses | TypeOK, MapIsWellFormed, OnlyTheLastKeyMoves, ImplementsAbstractMap |
| `tracker_accounting` | 2 accounts whose balances cross the threshold, 4 rewards, 4-bit words, payouts that answer false or revert, distributions by hand | TypeOK, HoldersAreTheShareholders, NeverOverdrawn, BooksMatchPayments, CreditWithinDistributed, Solvent, EarnedOnlyByDistribution, PaymentsSettle, KeepsThePromise |
| `tracker_process` | 3 holders who come and go between calls of `process` that stop after any number of turns, run out of gas or revert | FullPassPaysEveryone, IterationsPredictedInRange, LoopPaysWhoIsDue |
| `tracker_liveness` | 3 holders, calls with gas for as little as one turn, calls by strangers in between | EveryHolderIsPaid |
| `tracker_iterations` | as `tracker_process` | IterationsPredicted: violated |
| `tracker_unbacked` | as `tracker_accounting` | WithdrawableIsHeld: violated |
| `bib_dividends` | 2 holders, owner, pair; fees, swaps whose yield may stay with the token and be sent with the next, the token itself on and off the white lists, gas for one turn of `process` | TypeOK, DividendsAreBacked, TaxedOnce, ProcessedOnce |
| `bib_refusals` | a holder whom the reward token begins and ceases to refuse at any time; a changed threshold, a first claimWait, the clock | RefusalsChangeNoTransfer, SharesFollowBalances |
| `bib_lists` | the owner's switches and lists at any time around transfers of an account that swap and whose `try` statements may lack gas; tokens of the account and of the contract itself are frozen, and the fees change to nothing but the black hole's | PairsEarnNothing, FrozenStaysFrozen |
| `deployment` | up to 3 tasks, migrations and single ones, on 8 sets of parameters, killed anywhere, with lost transactions and a stranger | TypeOK, PairedWithItsToken, LiveTokensAreComplete, FinishedMeansDeployed, NoGasLostToVerification, LiveTokensStay, ImplementsPairing, MigrationsFinish |
| `maintenance` | up to 3 tasks with every answer, killed anywhere, and transactions of the same accounts from elsewhere | TypeOK, NothingIsStuck, TransferredIsTrue, AdminChangedIsTrue, ExcludedIsTrue, SwitchedWhenSettled, TasksEnd |
| `admin_rerun` | a change of administrators, killed anywhere and run again | OnlyAdministeredAreListed: violated |

**The bounds** and why they are enough. Two accounts are enough to move shares
between accounts around a distribution, and three to have a list whose last key
is moved into a gap with the cursor before, at and after it, and a wrap-around
with a middle. `MaxReward` of the tracker's runs allows two distributions, so that a balance can
change before, between and after them and a second payment can follow a first.
Amounts are chosen not to divide evenly (1 and 3 among 2, 3, 5; fees in fifths),
so that every rounding happens. `Magnitude` is 2 or 4, which makes the rounding
as coarse as it can be; `MaxInt` is 7 where overflow matters, and large enough
not to matter elsewhere. The swap threshold of `bib_dividends`, 4, is the least
whose parts the nested transfers would be taxed on, were they taxed. The three runs of
BIBToken transfer the few amounts their configurations name, which are what crosses the
threshold of the shares and that of the swap with the fees left out and taken; none is
zero, and what a transfer of nothing does is covered by the theorems only. The clock
moves in the runs about `process`, where claimWait is one tick, and in `bib_refusals`; in
the other runs of the contracts every payment happens at one time. Symmetry is used in runs without liveness, over the accounts that no
constant names. Deadlock is not checked: with all rewards and all time spent the
system may stop.

`deployment` explores up to three tasks (`MaxRuns`), and tasks, kills, losses and
strangers up to four together (`MaxEvents`). So a migration can be killed twice
and run a third time, be killed and lose a transaction before it is run again, or
a deploy and two initialize tasks be combined by hand. The parameters are those
of the repository for `bsc_test`, `bsc`, `hardhat` and `ganache`, and `bsc` as an
operator may fill it in: completely, without a key for the explorer, with a
wallet named twice, with the deployer as administrator, with no administrator.
`Tasks` leaves out those whose steps others contain: `deployment` and
`dev-deployment` (the checks differ, see `MCDeployment`) and
`deploy-TokenDividendTracker` (a migration killed at the right places).
`maintenance` allows three in all: two tasks and a
disturbance, a task and two, or three tasks. A network may be production or
not, the configured administrator's key right, wrong or missing, the file there
or not.

**Fairness.** `deployment` and `maintenance`: weak fairness of the running task's
next step (an awaited promise settles, the operator answers) and of mining. A
step of a task can only be waiting for a transaction that can be mined, which is
what MigrationsFinish and TasksEnd are about. Nothing obliges the operator to
start, kill or rerun a task, or a stranger to do anything.

`tracker_liveness`: strong fairness of "the controller calls
`process` with gas for at least one turn": each transfer of BIB makes such a call
(`BIBToken.sol:448-455`), so this says that BIB keeps being transferred; it is
strong because the call is not enabled while another one runs. Weak fairness of
the steps of a running call: the EVM finishes what it began. Nothing is assumed
of anyone else. EveryHolderIsPaid is stated for histories in which the list and
claimWait stay as they are from some time on, and for payouts that succeed: a
single holder whose payout always reverts undoes the cursor as well
(`TokenDividendTracker.sol:211`), and the loop stays before it for ever.

## 4. What the runs found

* `getAccount` counts one turn too few when the list has shrunk so that the
  cursor lies past its end (`TokenDividendTracker.sol:98-110`): the loop first
  wraps to index 0, the count does not (`tracker_iterations`). With the cursor
  inside the list it is exact (IterationsPredictedInRange).
* `distributeDividends` called by the owner credits rewards that nobody sent
  (`tracker_unbacked`), so that `withdrawableDividendOf` reports what cannot be
  withdrawn, against its comment. Without such calls the tracker is solvent
  (DividendsAreBacked, Solvent).
* The list of proxies to change is, by its comment, of those that the key
  administers (`transfer-ownership-and-change-admin.ts:218`); lines 219-226 list
  both (`admin_rerun`). A change that stopped after the first proxy is therefore not
  completed by running the task again: the first proxy, which has its new administrator, is listed
  again, refuses the change, and the task fails before the second.

Modelled behaviour worth knowing, contradicting no document: transfers are
refused while a swap is due and nobody has shares, or the swap's fees are both or
one of them zero; an account with more frozen than it holds cannot transfer; a
pair taken off and put on the list again is refused, as its exclusion is for ever.

Of the tasks:

* With the parameters of the repository a migration of `bsc` stops, as its reward
  token is the zero address, as does one of `hardhat`, in `initAddress`, for
  its wallets, and one of `ganache`, which has no chain id. Only `bsc_test` is
  complete.
* Until the last step of a deploy task the name of a contract in the file is that
  of its implementation. A migration killed there can be followed by initialize
  tasks that make the implementation's address a controller. The requirement in
  `BIBToken.initialize` keeps such a token from being initialized.
* A task killed between `setController` and `updateClaimWait` leaves a tracker that
  `initialize-BIBToken` accepts: claimWait then stays zero. A migration that reports success
  has set it (FinishedMeansDeployed); for single tasks LiveTokensAreComplete excuses it after a kill,
  a loss or a stranger.
* The second prompt of `transfer-ownership` on `bsc` asks for `I yes` and accepts
  `yes` (lines 129-132). With nothing left to transfer the task still reports success.
* `run-exclude` asks again only when the answer is empty: any other text that is not an
  address leaves the loop and fails at the first call (lines 22-36).
* `enable-dividend` awaits none of its transactions, and two runs of it one right
  after the other may decide on stale values; nothing is promised for those. SwitchedWhenSettled is stated for runs that begin
  with nothing pending.
* The single deploy tasks do not check the verification's environment first, as
  migrations do: with `--verify` they fail after the first contract.
* The vesting contract's start is zero (`constants.ts:25`), so that its four years are
  long over, and its `release()` without a token reverts.

## 5. Proofs

`IterableMappingTheorems` has the facts about the list: `MapSet` and `MapRemove`
keep it well-formed and do to the inserted keys what their names say.
`HolderMapProofs` concludes, for any number of addresses, `TypeCorrect`,
`AlwaysWellFormed`, `OtherKeysStay` (OnlyTheLastKeyMoves) and
`ListImplementsAbstractMap`.

`SumTheorems` has what the proofs need of sums over all accounts: the sum of
integers is an integer, changes with one account by as much as that account, is
additive and monotonic. `SumFunction` is a fold, so a fact about it for every
finite set would be shown by induction, and the library's induction theorems
cannot be used. Each such fact is shown by its least counterexample instead: if it failed for a set, it would fail
for a set of least size, and not for that set without one element. For this the set of accounts is
finite (`AddressesAreFinite`), as 160-bit addresses are.

`TrackerContractTheorems` is about the contracts' functions, one lemma per function
(`SetSharesFacts`, `SharesFollowFacts`, `ExcludeFacts`, `WithdrawFacts`,
`ProcessAccountFacts`, `DistributeFacts`, `SetBalanceFacts`). Each
says that the function keeps `StoreOK` and either pays accounts all they have earned
(`Pays`), or lets earnings grow (`Earns`). `StoreOK` says of one storage that it is
well-typed, list and shares agree, nobody has withdrawn more than earned,
payments equal bookings, and that all credit together, still multiplied by the
magnitude, is within what was distributed (`AddsUp`; after the division, which loses
remainders, it would not be inductive). A storage is `Backed` if no more was distributed
than sent; `BackedIsSolvent` concludes that it can pay everyone.

`TokenDividendTrackerProofs` proves of `TokenDividendTracker!Spec`, for every finite set of
addresses, magnitude, word width and bound: TypeOK, HoldersAreTheShareholders,
NeverOverdrawn, BooksMatchPayments, CreditWithinDistributed, Solvent,
EarnedOnlyByDistribution, PaymentsSettle, LoopPaysWhoIsDue, FullPassPaysEveryone,
IterationsPredictedInRange, and that the tracker implements DividendLedger
(KeepsThePromise). The assumptions are those the modules name: `Magnitude` and
`MinBalance` are positive, the rest are naturals, and the clock starts after the
longest wait.

TypeOK says, for every width of the words, that each number is within its
Solidity type (`WordsFit`): uint256 for the dividend per share, totals, shares and withdrawals,
int256 for the corrections. It rests on an invariant of its own, `NumbersOK`, which is proved on
top of the one below: the contract checks a number where it writes it (`SetSharesFit`, `DistributionFits`), a withdrawal
is at most what was earned, which was read as an int256 (`EarnedFits`, `PaymentFits`), and no balance
outgrows the supply, which is a word (`NumbersAreWords`). The addition that books a
withdrawal (line 104) has no revert in the model: the proof shows that it cannot overflow.

The argument for the others. StoreOK alone is not inductive because of
`process`: a revert installs the saved storage, and what a return commits is the
difference of the two. So `Inv` adds that the saved storage is StoreOK too, and
`LoopOK` that list and earnings are the saved ones and each account was either paid in full since, or
not at all. The action properties and the refinement follow from `Inv`:
a step outside `process` is a step of the ledger, a turn of the loop a stutter,
its return a `Settle` of those paid, its revert a stutter. For FullPassPaysEveryone `PassOK` adds
that the accounts still due are among those the turns that are left come to (`Ahead`), from wherever the
cursor stood (the property leaves out payouts that answer false, which the loop passes over); IterationsPredictedInRange needs the index after n turns in closed
form (`CursorRun`, `Around`).

`BIBTokenProofs` proves of `BIBToken!Spec`, for any accounts, supply, rates, thresholds
and lists, and whatever callers, router and reward token decide: TypeOK,
TaxedOnce, FrozenStaysFrozen, RefusalsChangeNoTransfer, PairsEarnNothing,
DividendsAreBacked and, under two hypotheses, SharesFollowBalances. The assumptions (`BIBAssumptions`): the token, the dead address, the
pair and the owner are different accounts, amounts and bounds are naturals, and the initial
rates add up to at most `MaxFee`, which is at most `Hundred`.

The argument has two halves. `Inv` is about the token alone: a call of the tracker changes
the tracker's storage only (`DeliverPays`), so the balances after a transfer are those of
`Pay` and, if a swap is due, of three nested payments of which each is covered. That fees and burns
fit in the amount needs the rates' bound (`SharesFit`), that the router's three parts fit in
the threshold needs how they are rounded (`PartsFit`). `OnlyPays` says that nobody but the payer loses, which with
the guard of the swap gives FrozenStaysFrozen; each movement keeps the sum
(`MoveKeepsTheSum`), also one to oneself, so that no balance exceeds the supply. TaxedOnce says of each balance exactly how a
transfer changes it. The three nested payments are shown to be plain movements, because the flag
is up (`SellMoves`), and those of one swap add up to the sale of the threshold (`MovesAdd`,
`SwappedKeeps`); the outer payment then moves the amount and its fees once (`PayTaxes`, `PayUntaxed`), under the white
lists and rates of the start, which no swap changes (`SameRules`). For RefusalsChangeNoTransfer two tokens that
expect different answers (`Twins`) are led through the same transfer.
`TrackerInv` adds the tracker: its storage is StoreOK and Backed, and whom the token must
not pay is excluded. The theorems about the contracts' functions are used again for each
call. Both ends of a nested sale are excluded, so the tracker is the same when the rewards
arrive as when the guard of the swap read it (`SellFollows`, `SendOnFollows`).
`process` is one step here: its turns are a sequence in which no turn is the first to
spoil the storage (`RunExists`, `CallKeeps`).

SharesFollowBalances (`SharesAreInStep`) needs that a caught `setBalance` reverts for no
reason but the reward token's. The hypotheses: no call runs out of gas (`~GasRunsOut`, otherwise it is
not called), and `WordsAreWide`. Its corrections are products of shares and `magnifiedDividendPerShare`, which
grows faster the fewer shares there are. `Modest`, part of `TrackerInv`, bounds it: whoever has shares has `MinBalance`, so
each distribution gives a share at most `Magnitude / MinBalance` of its amount (`DistributionIsModest`), and
nobody has more shares than there are tokens. Then the products, the corrections and the readings fit
(`WideWordsAreEnough`, `WideReadings`) if `Magnitude * MaxReward * InitialSupply` is at most `MaxInt *
MinBalance` and as many supplies as accounts fit in a word. The code's 10^29 units of supply and
least balance of 10^14 leave room for 1.7 * 10^23 units of rewards (170 000 tokens of 18 decimals) and more than 2^159 accounts; the
run satisfies both hypotheses. The first bound is sufficient, not necessary: it allows for all rewards
distributed among the least number of shares.

`DeploymentProofs` proves of `Deployment!Spec`, for every set of accounts, parameters and
tasks, any number of runs, kills, losses and strangers: TypeOK, PairedWithItsToken and
that the deployment implements Pairing. The assumptions are those the modules
name: contract addresses are not accounts, the deployer and the stranger are two
accounts, parameters are addresses or missing, tasks are tasks of the repository. The
argument. PairedWithItsToken is not inductive: a transaction that creates a
contract at the address of another would undo it, and so would one that links a
token twice. `Inv` adds what excludes both: contracts have used nonces as addresses (`DOMAIN chain`
within `1 .. nonce`); the i-th pending transaction, if it creates, creates at `nonce + i`
(`PendingOK`), through kills and losses; a token that has a tracker is an initialized proxy, which no call of
`initialize` accepts again, and its tracker has a controller, which `setController` does not
change (`TokenOK`). Each transaction is one lemma (`InitTokenKeeps` and its like), `ApplyKeeps` combines
them, and a step of a task only has to keep the steps it has left well-typed (`ScriptOK`). For the refinement the
same lemmas say that a transaction changes no pair but adds one of a new token and a
tracker that was nobody's (`InitToken`), or takes one paired token live (`Release`).

Four more facts stand on top of that. *NoGasLostToVerification* (`NoGasIsLost`): a migration
that cannot verify has nothing but checks before the step that stops it (`ChecksFirst`).
*LiveTokensStay* and *LiveTokensAreComplete* (`LiveTokensAreLeftAlone`, `LiveTokensComplete`) need a second
invariant, `LiveInv`. `Linked` says of the chain what each address relies on: an initialized proxy has the
configured administrator, a token its code and exclusions, a released one was allowed, and its wallets are eight
different ones that are excluded. `SentOK` and `AwaitedOK` say of the pending transactions what they carry and who waits
for them; `SetupOK` and `ControlOK` say what the step before `setController` and `updateClaimWait` left,
so that a tracker has its controller and not its claimWait only between these two
steps, or after a disturbance. Each transaction is again a lemma (`InitTokenPreserves` and its like),
which says that it takes nothing back (`Grows`) and leaves live tokens alone.
*FinishedMeansDeployed* (`FinishedMigrations`) says that when a migration of some forty steps ends, all
of them happened and nothing undid one. The third invariant, `StageInv`,
numbers the steps: a step that only reads or verifies leaves the stage as it is, every other one has its number and leads
to the next (`Leads`). `MigrationsLead` shows that the steps of each of the five migrations lead from stage 0 to 38.
`Facts` says what holds at a stage, `SentAt` what the awaited transaction is, and `Outcome` what it leaves; no transaction
of a task or a stranger takes a fact back (`FactsStay`), and a loss or failure ends the migration,
which then does not report success. For this there are seven vaults, as `initialize-BIBToken.ts:93-102` names them
(ConfigsAssumption).

*Maintenance* (`MaintenanceProofs.tla`), for any accounts, environments
and tasks, any number of runs, kills and calls from elsewhere. The assumptions: the owner
and the administrator are two different accounts (AccountAssumption), a key in the environment is an
account's (EnvsAssumption), what is sent from elsewhere can be encoded
(ConsoleAssumption), and the tasks are those of the repository (JobsAssumption). First TypeOK and NothingIsStuck.
NothingIsStuck alone is not inductive: `Inv` adds that the pool is
finite and holds each nonce of an account once, so that its size counts the
pending nonces, and that the nonce a task gives its next transaction (`txCount`) is never beyond
the next free one. The task reads `txCount` from the mined transactions only, so it may well be
behind; then the node refuses it, because that nonce is taken, and what is
left is exactly the next one (`FreeNonce`). `SubmitKeeps` and `MiningKeeps` say that using the next nonce
and mining the first leave no gap; the other steps only have to leave `txCount` behind.

Then what the tasks report. TransferredIsTrue and AdminChangedIsTrue rest on a second invariant, `MoveInv`. It
says where a task is in its list (`MovePlaceOK`), that each transaction it has sent is pending or
mined and did what it was sent for (`FateOK`), that what was looked at and not listed was moved before
(`UnlistedOK`), that nobody who could undo a move has something pending that does, and what the records say (`RecordsOK`).
A contract may have been moved by an earlier run, killed since, whose transaction is mined only now: therefore the invariant is about all
pending transactions, not only those of the task. TransferredIsTrue has one hypothesis,
`OwnershipIsLeftAlone`: from elsewhere nobody sends `transferOwnership` (a new owner could pass a contract
back to the deployer); the run makes the same choice. AdminChangedIsTrue needs none: a proxy refuses everybody but its
administrator, and what is pending of the new one, whose key may be that of the environment, names
the same account (`Undisturbed`). ExcludedIsTrue
and SwitchedWhenSettled rest on `TaskInv`. Its part for run-exclude holds whoever else sends what: the
lists dealt with have the account, since every pending transaction that takes an account out names one of
`takenOut`; and the transaction that is awaited is pending, or has reverted, which the task sees, or its list has the account
(`SentForItem`). So an addition that overtakes the task's own makes the task fail, not its report wrong, and only an address that
somebody takes out is excepted. The part for enable-dividend is about a run that nobody disturbs: each
switch dealt with is as wanted, or will be once what is pending is mined in the order it was sent.

**Only model-checked**: EveryHolderIsPaid, MigrationsFinish and TasksEnd, which are liveness, and
ProcessedOnce, which counts the accounts paid by a loop and needs an induction over its turns.
Every other property of the passing runs is a theorem.

## 6. Not modelled, and the plan

What is left, in this order:

1. `BIBToken`: allowances and the setters of single wallets (`setW0` to `setW7`,
   plain assignments), and `FreezeToken`'s controller.
2. `upgradeToAndCall`, which no task uses, and the layout of storage across upgrades.
3. A stranger who calls the `initialize` of a proxy before its deployer does: the deployment's stranger has
   `setController` only.
4. Transactions that are dropped or replaced while a maintenance task waits: they are lost in the
   deployment model only.

A call to an address without code is modelled as a call that reverts; no task can reach one that
would succeed. That a nested transfer does not swap again is part of the model's shape (`Deliver` is what
the guard of `BIBToken.sol:411` leaves of `_transfer` while the flag is up).

Not planned: the release of vested tokens (OpenZeppelin's), `BEP20Token` (a test
token), the libraries without state, the typed data of `contracts-helpers.ts:238-357`,
`vesting-helpers.ts`, `SmartContractProjectConfig`, `helper_scripts`,
`deploy/deploy_bibtoken.js` and `test-wallets.js` (no task uses them), `abi`,
`artifacts`, and the tests, which test other contracts.
`updateUniswapV2Router` requires an address without code and then calls it, so it
never succeeds; `canStopAntibotMeasures` and `admin` are never read; events,
names and views without effect are left out.
