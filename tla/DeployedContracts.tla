-------------------------- MODULE DeployedContracts --------------------------
(***************************************************************************)
(* What the chain keeps of the contracts that the deployment creates and   *)
(* initializes, and what the deployment's transactions do to it.  A chain  *)
(* is a function from addresses to contracts; Reverts says that a          *)
(* transaction fails, Apply gives the chain it leaves if it does not.      *)
(*                                                                         *)
(* The storage behind a proxy is in the proxy's own record.  A field is    *)
(* zero, empty or false until it is written; `owner` is set by the one     *)
(* call of initialize a contract accepts, so that an owner is also the     *)
(* sign of an initialized contract.                                        *)
(***************************************************************************)
EXTENDS Integers, Sequences, FiniteSets, UpgradeabilityProxy

CONSTANTS Account,      \* addresses that are not contracts of the deployment
          Dead,         \* deadAddress of BIBToken
          ClaimWait     \* an initial claimWait, one hour

ASSUME AccountAssumption == Account \cap Nat = {} /\ Dead \in Account
ASSUME ClaimWaitAssumption == ClaimWait \in Nat \ {0}

Addr == Nat \cup Account
Kind == {"BIBToken", "IterableMapping", "TokenDividendTracker", "Proxy", "VestingToken"}

\* A contract as its creation leaves it.  The constructor of the tracker
\* initializes claimWait, in the storage of the implementation only.
Fresh(kind, beneficiary) ==
    [kind        |-> kind,
     beneficiary |-> beneficiary,
     impl        |-> NOBODY, admin |-> NOBODY, owner |-> NOBODY,
     busd        |-> 0,                                  \* rewardToken
     cntr        |-> 0, excluded |-> {},                 \* of a tracker
     claimWait   |-> IF kind = "TokenDividendTracker" THEN ClaimWait ELSE 0,
     tracker     |-> 0, wallets |-> << >>,               \* of a token
     allow       |-> FALSE, reserve |-> 0]

IsContract(c, a) == a \in DOMAIN c

\* The kind of code that a call from outside reaches at an address.
Code(c, a) ==
    IF ~IsContract(c, a) THEN "none"
    ELSE IF c[a].kind # "Proxy" THEN c[a].kind
    ELSE IF ~IsContract(c, c[a].impl) THEN "none" ELSE c[c[a].impl].kind

\* A call of a function of this kind of contract reaches it.
Reaches(c, a, sender, kind) ==
    /\ Code(c, a) = kind
    /\ c[a].kind = "Proxy" => WillFallback(c[a], sender)

----------------------------------------------------------------------------
(* Transactions: records with the operation, the address it is sent to or  *)
(* creates, the sender, and the arguments.                                 *)

NoArgs == [kind |-> "Proxy", impl |-> 0, admin |-> 0, busd |-> 0, router |-> 0,
           tracker |-> 0, account |-> 0, wallets |-> << >>]

CreateReverts(tx) == tx.args.kind = "VestingToken" /\ tx.args.account = 0

Create(c, tx) ==
    [a \in DOMAIN c \cup {tx.to} |->
       IF a = tx.to THEN Fresh(tx.args.kind, tx.args.account) ELSE c[a]]

\* DividendPayingToken.initialize, by delegatecall from the proxy tx.to.
InitTrackerReverts(c, tx) ==
    \/ c[tx.args.impl].kind # "TokenDividendTracker"
    \/ c[tx.to].owner # NOBODY
    \/ tx.args.busd = 0

InitTracker(c, tx) ==
    [c EXCEPT ![tx.to] = [ProxyInitialize(@, tx.args.impl, tx.args.admin)
                          EXCEPT !.owner = tx.from, !.busd = tx.args.busd]]

\* BIBToken.initialize, by delegatecall from the proxy tx.to.  It calls the
\* tracker, the router's factory, and the tracker again as its controller.
FirstExcluded(tx) == {tx.args.tracker, tx.to, tx.from, Dead}

CanExclude(c, tracker, controller, accounts) ==
    /\ Reaches(c, tracker, controller, "TokenDividendTracker")
    /\ controller \in {c[tracker].cntr, c[tracker].owner}
    /\ accounts \cap c[tracker].excluded = {}

ControlledBy(c, tracker, token) ==
    /\ Reaches(c, tracker, token, "TokenDividendTracker")
    /\ c[tracker].cntr = token

\* A mutant: the tracker is taken as it is.
InitTokenRevertsUnpaired(c, tx) ==
    \/ c[tx.args.impl].kind # "BIBToken"
    \/ c[tx.to].owner # NOBODY
    \/ 0 \in {tx.args.busd, tx.args.tracker, tx.args.router}
    \/ Code(c, tx.args.tracker) # "TokenDividendTracker"

InitTokenReverts(c, tx) ==
    \/ c[tx.args.impl].kind # "BIBToken"
    \/ c[tx.to].owner # NOBODY
    \/ 0 \in {tx.args.busd, tx.args.tracker, tx.args.router}
    \/ ~ControlledBy(c, tx.args.tracker, tx.to)
    \/ ~CanExclude(c, tx.args.tracker, tx.to, FirstExcluded(tx))

InitToken(c, tx) ==
    [c EXCEPT ![tx.to] = [ProxyInitialize(@, tx.args.impl, tx.args.admin)
                          EXCEPT !.owner = tx.from, !.busd = tx.args.busd,
                                 !.tracker = tx.args.tracker, !.reserve = 100],
              ![tx.args.tracker].excluded = @ \cup FirstExcluded(tx)]

\* initialize(address,address,bytes) of the proxy.  No implementation has
\* such a function.
NotAFreshProxy(c, tx, refused) ==
    \/ ~IsContract(c, tx.to)
    \/ c[tx.to].kind # "Proxy"
    \/ ProxyInitializeReverts(c[tx.to], IsContract(c, tx.args.impl), refused)

\* A mutant: the controller can be set again.
SetControllerRevertsNever(c, tx) ==
    ~Reaches(c, tx.to, tx.from, "TokenDividendTracker")

SetControllerReverts(c, tx) ==
    \/ ~Reaches(c, tx.to, tx.from, "TokenDividendTracker")
    \/ c[tx.to].cntr # 0

SetController(c, tx) == [c EXCEPT ![tx.to].cntr = tx.args.account]

UpdateClaimWaitReverts(c, tx) ==
    \/ ~Reaches(c, tx.to, tx.from, "TokenDividendTracker")
    \/ tx.from \notin {c[tx.to].cntr, c[tx.to].owner}
    \/ c[tx.to].claimWait = ClaimWait

UpdateClaimWait(c, tx) == [c EXCEPT ![tx.to].claimWait = ClaimWait]

OnlyOwner(c, tx) ==
    Reaches(c, tx.to, tx.from, "BIBToken") /\ c[tx.to].owner = tx.from

\* A mutant: a wallet may have two parts.
InitAddressRevertsTwice(c, tx) ==
    LET w == tx.args.wallets
    IN  \/ ~OnlyOwner(c, tx)
        \/ \E i \in DOMAIN w : w[i] = 0
        \/ ~CanExclude(c, c[tx.to].tracker, tx.to, {w[i] : i \in DOMAIN w})

InitAddressReverts(c, tx) ==
    LET w == tx.args.wallets
    IN  \/ ~OnlyOwner(c, tx)
        \/ \E i \in DOMAIN w : w[i] = 0
        \/ \E i, j \in DOMAIN w : i # j /\ w[i] = w[j]
        \/ ~CanExclude(c, c[tx.to].tracker, tx.to, {w[i] : i \in DOMAIN w})

InitAddress(c, tx) ==
    LET w == tx.args.wallets
    IN  [c EXCEPT ![tx.to].wallets = w,
                  ![c[tx.to].tracker].excluded = @ \cup {w[i] : i \in DOMAIN w}]

SetAllowTransfer(c, tx) == [c EXCEPT ![tx.to].allow = TRUE]

\* The eight parts, in hundredths of the supply; a transfer to no address, or
\* of more than the owner has, reverts, and so does one not yet allowed.
Parts == 15 + 25 + 15 + 2 + 3 + 9 + 16 + 15

ReleaseReverts(c, tx) ==
    \/ ~OnlyOwner(c, tx)
    \/ ~c[tx.to].allow
    \/ c[tx.to].wallets = << >>
    \/ c[tx.to].reserve < Parts

Release(c, tx) == [c EXCEPT ![tx.to].reserve = @ - Parts]

Reverts(c, tx) ==
    CASE tx.op = "create"           -> CreateReverts(tx)
      [] tx.op = "initTracker"      -> NotAFreshProxy(c, tx, InitTrackerReverts(c, tx))
      [] tx.op = "initToken"        -> NotAFreshProxy(c, tx, InitTokenReverts(c, tx))
      [] tx.op = "setController"    -> SetControllerReverts(c, tx)
      [] tx.op = "updateClaimWait"  -> UpdateClaimWaitReverts(c, tx)
      [] tx.op = "initAddress"      -> InitAddressReverts(c, tx)
      [] tx.op = "setAllowTransfer" -> ~OnlyOwner(c, tx)
      [] tx.op = "release"          -> ReleaseReverts(c, tx)

Apply(c, tx) ==
    CASE tx.op = "create"           -> Create(c, tx)
      [] tx.op = "initTracker"      -> InitTracker(c, tx)
      [] tx.op = "initToken"        -> InitToken(c, tx)
      [] tx.op = "setController"    -> SetController(c, tx)
      [] tx.op = "updateClaimWait"  -> UpdateClaimWait(c, tx)
      [] tx.op = "initAddress"      -> InitAddress(c, tx)
      [] tx.op = "setAllowTransfer" -> SetAllowTransfer(c, tx)
      [] tx.op = "release"          -> Release(c, tx)
=============================================================================
