----------------------------- MODULE Deployment ------------------------------
(***************************************************************************)
(* The deployment tasks: tasks/migrations, tasks/deployments and the       *)
(* helpers they call.  One operator runs one task at a time; a task is the *)
(* sequence of its remaining steps, which are awaited one after the other. *)
(* It may be killed between any two of them, and started again.            *)
(*                                                                         *)
(* Transactions of the deployer wait in the order of their nonces until    *)
(* they are mined; those a killed task has sent are still mined.  The      *)
(* address of a contract is the nonce of the transaction that creates it,  *)
(* which is how the creator knows it before it exists.                     *)
(***************************************************************************)
EXTENDS DeployedContracts, NetworkConfig

CONSTANTS Deployer, Stranger,   \* accounts: the first signer, somebody else
          Configs,              \* the parameters a deployment may run with
          Tasks,                \* the tasks the operator starts
          MaxRuns, MaxEvents      \* bounds of exploration: tasks started, and
                                \* tasks started and disturbed together

ASSUME DeployerAssumption == Deployer \in Account /\ Stranger \in Account \ {Deployer}

\* Parameters are addresses; an administrator that is not configured is "".
\* There is one vault for each part but the team's (initialize-BIBToken.ts:93-102).
ASSUME ConfigsAssumption ==
    \A c \in Configs :
        /\ c.admin = "" \/ c.admin \in Addr
        /\ {c.busd, c.router, c.team} \subseteq Addr
        /\ c.vaults \in Seq(Addr) /\ Len(c.vaults) = 7

VARIABLES config,   \* parameters and environment; constant
          chain,    \* the contracts, by address
          nonce,    \* of the deployer's last mined transaction
          pending,  \* sent and not yet mined
          db,       \* deployed-contracts.json
          script,   \* the running task, or the last one
          spent     \* how often each bounded thing has happened

vars == << config, chain, nonce, pending, db, script, spent >>

eContractid == {"IterableMapping", "TeamVesting", "BIBToken", "BIBTokenImpl",
                "TokenDividendTracker", "TokenDividendTrackerImpl",
                "VestingToken", "VestingTokenImpl",
                "InitializableAdminUpgradeabilityProxy"}

ABSENT == 0     \* a name without an address

----------------------------------------------------------------------------
(* The tasks as sequences of steps.                                        *)

Do(op, arg) == << [op |-> op, arg |-> arg] >>

When(flag, steps) == IF flag THEN steps ELSE << >>

Transact(op) == Do("send", op) \o Do("await", "")

deployContract(kind, id) ==
    Do("create", kind) \o Do("await", "") \o Do("register", id)

verifyContract(verify) == When(verify, Do("verify", ""))

deployProxy(verify) ==
    deployContract("Proxy", "InitializableAdminUpgradeabilityProxy") \o verifyContract(verify)

deployBIBToken(verify) ==
    deployContract("BIBToken", "BIBToken") \o verifyContract(verify)

deployLibraries(verify) ==
    deployContract("IterableMapping", "IterableMapping") \o verifyContract(verify)

\* The implementation's address is written down before it is mined.
deployTokenDividendTracker(verify) ==
    deployLibraries(verify)
      \o Do("create", "TokenDividendTracker")
      \o Do("register", "TokenDividendTrackerImpl")
      \o Do("await", "") \o Do("register", "TokenDividendTracker")
      \o verifyContract(verify)

\* Until its last step, the name of a contract is that of its implementation.
DeployBIBTokenTask(verify) ==
    Do("chainId", "")
      \o deployBIBToken(verify) \o Do("register", "BIBTokenImpl")
      \o deployProxy(verify) \o Do("register", "BIBToken")

DeployTrackerTask(verify) ==
    Do("chainId", "")
      \o deployTokenDividendTracker(verify) \o Do("register", "TokenDividendTrackerImpl")
      \o deployProxy(verify) \o Do("register", "TokenDividendTracker")

InitializeTrackerTask ==
    Do("chainId", "") \o Do("read", "TokenDividendTracker")
      \o Transact("initTracker") \o Transact("setController") \o Transact("updateClaimWait")

InitializeBIBTokenTask ==
    Do("chainId", "") \o Do("read", "BIBToken")
      \o Transact("initToken")
      \o deployContract("VestingToken", "VestingToken") \o Do("register", "TeamVesting")
      \o Transact("initAddress") \o Transact("setAllowTransfer") \o Transact("release")

checkVerification(verify) == When(verify, Do("checkVerification", ""))

\* Mutants: the verification's environment is not checked first; the token is
\* initialized before its tracker.
DeploymentTaskUnchecked(verify) ==
    Do("admin", "")
      \o DeployBIBTokenTask(verify) \o DeployTrackerTask(verify)
      \o InitializeTrackerTask \o InitializeBIBTokenTask

DeploymentTaskSwapped(verify) ==
    Do("admin", "") \o checkVerification(verify)
      \o DeployBIBTokenTask(verify) \o DeployTrackerTask(verify)
      \o InitializeBIBTokenTask \o InitializeTrackerTask

DeploymentTask(verify) ==
    Do("admin", "") \o checkVerification(verify)
      \o DeployBIBTokenTask(verify) \o DeployTrackerTask(verify)
      \o InitializeTrackerTask \o InitializeBIBTokenTask

BscDeploymentTask(verify) == Do("admin", "") \o DeploymentTask(verify)

BscTestDeploymentTask(verify) ==
    Do("admin", "") \o checkVerification(verify) \o DeploymentTask(verify)

DevDeploymentTask(verify) ==
    Do("admin", "") \o checkVerification(verify) \o DeploymentTask(verify)

VerifyScTask == Do("checkVerification", "") \o Do("verify", "")

Migrations == {"deployment", "bsc-deployment", "bsc-test-deployment", "dev-deployment"}

Steps(task, verify) ==
    CASE task = "deployment"                      -> DeploymentTask(verify)
      [] task = "bsc-deployment"                  -> BscDeploymentTask(verify)
      [] task = "bsc-test-deployment"             -> BscTestDeploymentTask(verify)
      [] task = "dev-deployment"                  -> DevDeploymentTask(verify)
      [] task = "deploy-BIBToken"                 -> DeployBIBTokenTask(verify)
      [] task = "deploy-TokenDividendTracker"     -> DeployTrackerTask(verify)
      [] task = "initialize-TokenDividendTracker" -> InitializeTrackerTask
      [] task = "initialize-BIBToken"             -> InitializeBIBTokenTask
      [] task = "verify-sc"                       -> VerifyScTask

----------------------------------------------------------------------------
(* A running task: what is left to do, the address of the contract it made *)
(* last, the outcome of the transaction it waits for, the attempts left to *)
(* verify a contract.  Ghosts: whether it has sent a transaction, and      *)
(* whether it was disturbed from outside.                                  *)

NoScript == [task |-> "", verify |-> FALSE, status |-> "idle", todo |-> << >>, made |-> 0,
             receipt |-> "none", tries |-> 0, hasSent |-> FALSE, disturbed |-> FALSE]

Running == script.status = "running"

At(op) == Running /\ script.todo # << >> /\ Head(script.todo).op = op

Arg == Head(script.todo).arg

Proceed == script' = [script EXCEPT !.todo = Tail(@), !.tries = 0]

Stop(status) == script' = [script EXCEPT !.status = status, !.todo = << >>]

ProceedIf(ok) == IF ok THEN Proceed ELSE Stop("failed")

Init ==
    /\ config \in Configs
    /\ chain = << >> /\ nonce = 0 /\ pending = << >>
    /\ db = [id \in eContractid |-> ABSENT]
    /\ script = NoScript
    /\ spent = [runs |-> 0, kills |-> 0, lost |-> 0, stranger |-> 0]

DeployTasks == {"deploy-BIBToken", "deploy-TokenDividendTracker"}

AllTasks == Migrations \cup DeployTasks
              \cup {"initialize-TokenDividendTracker", "initialize-BIBToken", "verify-sc"}

HasVerifyFlag == Migrations \cup DeployTasks

ASSUME TasksAssumption == Tasks \subseteq AllTasks

Start(task, verify) ==
    /\ ~Running /\ spent.runs < MaxRuns
    /\ spent.runs + spent.kills + spent.lost + spent.stranger < MaxEvents
    /\ verify => task \in HasVerifyFlag
    /\ script' = [NoScript EXCEPT !.task = task, !.verify = verify, !.status = "running",
                                  !.todo = Steps(task, verify)]
    /\ spent' = [spent EXCEPT !.runs = @ + 1]
    /\ UNCHANGED << config, chain, nonce, pending, db >>

CheckChainId ==
    /\ At("chainId")
    /\ ProceedIf(chainId[config.network] # NO_CHAINID)
    /\ UNCHANGED << config, chain, nonce, pending, db, spent >>

CheckAdmin ==
    /\ At("admin")
    /\ ProceedIf(config.admin # "")
    /\ UNCHANGED << config, chain, nonce, pending, db, spent >>

CanVerify == config.key /\ config.network \in SUPPORTED_ETHERSCAN_NETWORKS

\* The process exits.
CheckVerification ==
    /\ At("checkVerification")
    /\ IF CanVerify THEN Proceed ELSE Stop("exited")
    /\ UNCHANGED << config, chain, nonce, pending, db, spent >>

\* The names a task reads.  They do not change before it uses them.
Names(task) == IF task = "BIBToken"
               THEN {"BIBToken", "BIBTokenImpl", "TokenDividendTracker"}
               ELSE {"BIBToken", "TokenDividendTracker", "TokenDividendTrackerImpl"}

ReadDb ==
    /\ At("read")
    /\ ProceedIf(\A id \in Names(Arg) : db[id] # ABSENT)
    /\ UNCHANGED << config, chain, nonce, pending, db, spent >>

registerContractInJsonDb ==
    /\ At("register")
    /\ db' = [db EXCEPT ![Arg] = script.made]
    /\ Proceed
    /\ UNCHANGED << config, chain, nonce, pending, spent >>

\* Sending: what has no gas limit is tried on the latest state first.
NextNonceMined == nonce + 1   \* a mutant: what is still pending is forgotten

NextNonce == nonce + Len(pending) + 1

Send(tx, estimated) ==
    IF estimated /\ Reverts(chain, tx)
    THEN Stop("failed") /\ UNCHANGED pending
    ELSE /\ pending' = Append(pending, tx)
         /\ script' = [script EXCEPT !.todo = Tail(@), !.receipt = "none", !.hasSent = TRUE,
                         !.made = IF tx.op = "create" THEN tx.to ELSE @]

Tx(op, to, args) == [op |-> op, from |-> Deployer, to |-> to, args |-> args, awaited |-> TRUE]

CreateContract ==
    /\ At("create")
    /\ Send(Tx("create", NextNonce, [NoArgs EXCEPT !.kind = Arg, !.account = config.team]), TRUE)
    /\ UNCHANGED << config, chain, nonce, db, spent >>

CallOf(op) ==
    CASE op = "initTracker" ->
           Tx(op, db["TokenDividendTracker"],
              [NoArgs EXCEPT !.impl = db["TokenDividendTrackerImpl"], !.admin = config.admin,
                             !.busd = config.busd])
      [] op = "setController" ->
           Tx(op, db["TokenDividendTracker"], [NoArgs EXCEPT !.account = db["BIBToken"]])
      [] op = "updateClaimWait" -> Tx(op, db["TokenDividendTracker"], NoArgs)
      [] op = "initToken" ->
           Tx(op, db["BIBToken"],
              [NoArgs EXCEPT !.impl = db["BIBTokenImpl"], !.admin = config.admin,
                             !.busd = config.busd, !.router = config.router,
                             !.tracker = db["TokenDividendTracker"]])
      [] op = "initAddress" ->
           Tx(op, db["BIBToken"], [NoArgs EXCEPT !.wallets = << script.made >> \o config.vaults])
      [] op \in {"setAllowTransfer", "release"} -> Tx(op, db["BIBToken"], NoArgs)

\* The calls of initialize-BIBToken come with a gas limit.  No call can be
\* encoded with an empty string for an address.
SendCall ==
    /\ At("send")
    /\ IF Arg \in {"initTracker", "initToken"} /\ config.admin = ""
       THEN Stop("failed") /\ UNCHANGED pending
       ELSE Send(CallOf(Arg), Arg \in {"initTracker", "setController", "updateClaimWait"})
    /\ UNCHANGED << config, chain, nonce, db, spent >>

\* A mutant: a reverted transaction goes unnoticed.
waitForTxAnyReceipt ==
    /\ At("await")
    /\ script.receipt # "none"
    /\ Proceed
    /\ UNCHANGED << config, chain, nonce, pending, db, spent >>

waitForTx ==
    /\ At("await")
    /\ script.receipt # "none"
    /\ ProceedIf(script.receipt = "ok")
    /\ UNCHANGED << config, chain, nonce, pending, db, spent >>

\* verifyContract throws if the environment is wrong.  What the explorer
\* answers goes no further: it is tried again until the attempts are used up.
times == 1

VerifyThrows ==
    /\ At("verify") /\ ~CanVerify
    /\ Stop("failed")
    /\ UNCHANGED << config, chain, nonce, pending, db, spent >>

runTaskWithRetry ==
    /\ At("verify") /\ CanVerify
    /\ \/ Proceed       \* verified, already verified, a fatal error, or out of attempts
       \/ script.tries < times /\ script' = [script EXCEPT !.tries = @ + 1]
    /\ UNCHANGED << config, chain, nonce, pending, db, spent >>

Finish ==
    /\ Running /\ script.todo = << >>
    /\ script' = [script EXCEPT !.status = "done"]
    /\ UNCHANGED << config, chain, nonce, pending, db, spent >>

ScriptStep ==
    \/ CheckChainId \/ CheckAdmin \/ CheckVerification \/ ReadDb
    \/ registerContractInJsonDb \/ CreateContract \/ SendCall \/ waitForTx
    \/ VerifyThrows \/ runTaskWithRetry \/ Finish

----------------------------------------------------------------------------
(* The chain, the operator's interruptions, and others.                    *)

Mine ==
    /\ pending # << >>
    /\ LET tx == Head(pending)
           failed == Reverts(chain, tx)
       IN  /\ chain' = IF failed THEN chain ELSE Apply(chain, tx)
           /\ script' = IF tx.awaited
                        THEN [script EXCEPT !.receipt = IF failed THEN "reverted" ELSE "ok"]
                        ELSE script
    /\ nonce' = nonce + 1
    /\ pending' = Tail(pending)
    /\ UNCHANGED << config, db, spent >>

MayDisturb == spent.runs + spent.kills + spent.lost + spent.stranger < MaxEvents

\* The task ends between two steps; nobody awaits its transactions any more.
Kill ==
    /\ Running /\ MayDisturb
    /\ script' = [script EXCEPT !.status = "killed", !.todo = << >>]
    /\ pending' = [i \in DOMAIN pending |-> [pending[i] EXCEPT !.awaited = FALSE]]
    /\ spent' = [spent EXCEPT !.kills = @ + 1]
    /\ UNCHANGED << config, chain, nonce, db >>

\* The network forgets the last transaction, and its nonce is used again.
Lose ==
    /\ pending # << >> /\ MayDisturb
    /\ pending' = SubSeq(pending, 1, Len(pending) - 1)
    /\ script' = IF Running THEN [script EXCEPT !.disturbed = TRUE] ELSE script
    /\ spent' = [spent EXCEPT !.lost = @ + 1]
    /\ UNCHANGED << config, chain, nonce, db >>

\* setController is open to anyone.
SetControllerByStranger(tracker, account) ==
    /\ MayDisturb
    /\ LET tx == [Tx("setController", tracker, [NoArgs EXCEPT !.account = account])
                  EXCEPT !.from = Stranger]
       IN  ~Reverts(chain, tx) /\ chain' = Apply(chain, tx)
    /\ script' = IF Running THEN [script EXCEPT !.disturbed = TRUE] ELSE script
    /\ spent' = [spent EXCEPT !.stranger = @ + 1]
    /\ UNCHANGED << config, nonce, pending, db >>

Next ==
    \/ \E task \in Tasks, verify \in BOOLEAN : Start(task, verify)
    \/ ScriptStep \/ Mine \/ Kill \/ Lose
    \/ \E tracker \in DOMAIN chain :
         \E account \in {Stranger, db["BIBToken"]} : SetControllerByStranger(tracker, account)

Spec == Init /\ [][Next]_vars

\* A task that runs goes on, and what is sent is mined.
FairSpec == Spec /\ WF_vars(ScriptStep) /\ WF_vars(Mine)
----------------------------------------------------------------------------
(* Properties.                                                             *)

TokensOf(c) == {t \in DOMAIN c : c[t].tracker # 0}

Live(c, t) == c[t].wallets # << >> /\ c[t].reserve = 0

ContractType ==
    [kind : Kind, beneficiary : Addr, impl : Nat, admin : Addr, owner : Addr, busd : Addr,
     cntr : Addr, excluded : SUBSET Addr, claimWait : {0, ClaimWait}, tracker : Nat,
     wallets : Seq(Addr), allow : BOOLEAN, reserve : {0, 100}]

\* Types, and where addresses come from: a contract's address is a nonce that
\* has been used, and a pending creation will have the nonce of its place.
TypeOK ==
    /\ chain \in [DOMAIN chain -> ContractType] /\ DOMAIN chain \subseteq 1 .. nonce
    /\ nonce \in Nat
    /\ \A i \in DOMAIN pending :
          /\ pending[i].to \in Nat /\ pending[i].from = Deployer
          /\ pending[i].op = "create" => pending[i].to = nonce + i
    /\ db \in [eContractid -> Nat]
    /\ script.status \in {"idle", "running", "done", "failed", "exited", "killed"}

\* A token and its tracker know each other; so no tracker serves two tokens.
\* BIBToken.initialize requires it (BIBToken.sol:119), whatever the names in
\* the file have come to mean and whoever called setController before.
PairedWithItsToken ==
    \A t \in TokensOf(chain) :
        chain[t].tracker \in DOMAIN chain /\ chain[chain[t].tracker].cntr = t

\* A token whose supply is handed out is complete, in whichever order and
\* after however many interruptions the tasks were run: the eight wallets
\* are there, distinct, and earn no dividends; token and tracker pay in the
\* same reward token and are administered by the configured administrator,
\* who does not own them (initialize-BIBToken.ts:92-111).  The tracker can
\* only be one that was never initialized, an implementation whose address was
\* left under the tracker's name, if somebody else has made the token its
\* controller; and claimWait can only be left at zero by a task that stopped
\* between setController and updateClaimWait
\* (initialize-TokenDividendTracker.ts:55-66), as initialize-BIBToken does
\* without it.
LiveTokensAreComplete ==
    \A t \in TokensOf(chain) : Live(chain, t) =>
        LET k == chain[t].tracker
            w == chain[t].wallets
            initialized == chain[k].kind = "Proxy"
        IN  /\ initialized \/ spent.stranger > 0
            /\ Len(w) = 8 /\ \A i, j \in DOMAIN w : w[i] # 0 /\ (i # j => w[i] # w[j])
            /\ {w[i] : i \in DOMAIN w} \cup {t, k, chain[t].owner, Dead}
                  \subseteq chain[k].excluded
            /\ chain[t].busd # 0 /\ (initialized => chain[k].busd = chain[t].busd)
            /\ chain[k].claimWait = ClaimWait \/ spent.kills + spent.lost + spent.stranger > 0
            /\ \A a \in {t} \cup (IF initialized THEN {k} ELSE {}) :
                  chain[a].admin = config.admin /\ chain[a].admin # chain[a].owner

\* A migration that reports success has deployed and initialized everything,
\* under the names in the file, whatever was in the file before: the proxies
\* run the implementations named next to them, token and tracker belong
\* together, claimWait is set, the supply is handed out, the team's part to
\* the vesting contract (deployment.ts:31-44).
FinishedMeansDeployed ==
    (script.status = "done" /\ script.task \in Migrations) =>
        LET t == db["BIBToken"]
            k == db["TokenDividendTracker"]
            v == db["TeamVesting"]
        IN  /\ {t, k, v} \subseteq DOMAIN chain
            /\ Code(chain, t) = "BIBToken" /\ chain[t].impl = db["BIBTokenImpl"]
            /\ Code(chain, k) = "TokenDividendTracker"
            /\ chain[k].impl = db["TokenDividendTrackerImpl"]
            /\ chain[t].tracker = k /\ chain[k].cntr = t /\ chain[k].claimWait = ClaimWait
            /\ Live(chain, t) /\ chain[t].allow
            /\ chain[t].wallets = << v >> \o config.vaults
            /\ chain[v].kind = "VestingToken" /\ chain[v].beneficiary = config.team

\* With --verify, a migration that cannot verify contracts stops before it
\* spends anything: deployment.ts:26 checks the environment "to prevent loss
\* of gas in failed deployments".
NoGasLostToVerification ==
    (script.task \in Migrations /\ script.verify /\ ~CanVerify) => ~script.hasSent

\* What later runs, late transactions of killed runs and strangers do leaves a
\* live token and its tracker as they are.
LiveTokensStay ==
    [][\A t \in TokensOf(chain) : Live(chain, t) =>
          chain'[t] = chain[t] /\ chain'[chain[t].tracker] = chain[chain[t].tracker]]_vars

\* The deployment implements Pairing.
PairsOf(c) == {<< t, c[t].tracker >> : t \in TokensOf(c)}

P == INSTANCE Pairing WITH pairs <- PairsOf(chain),
                           live <- {t \in TokensOf(chain) : Live(chain, t)}

ImplementsPairing == P!Spec

\* Parameters with which a migration can succeed.
Complete ==
    LET w == << config.team >> \o config.vaults
    IN  /\ chainId[config.network] # NO_CHAINID
        /\ config.admin \notin {"", Deployer}
        /\ config.busd # 0 /\ config.router # 0
        /\ \A i \in DOMAIN w : w[i] \notin {0, Deployer, Dead}
        /\ \A i, j \in DOMAIN config.vaults : i # j => config.vaults[i] # config.vaults[j]

\* Recovery: whatever earlier runs left behind, a migration with complete
\* parameters comes to its end, unless it is killed, a transaction of its own
\* is lost, or a stranger gets in between.
MigrationsFinish ==
    (Running /\ script.task \in Migrations /\ Complete /\ (script.verify => CanVerify))
        ~> (script.status \in {"done", "killed"} \/ script.disturbed)
=============================================================================
