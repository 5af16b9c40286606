-------------------------- MODULE DeploymentProofs ---------------------------
(***************************************************************************)
(* What the deployment promises, proved for any parameters, any tasks and  *)
(* any number of runs and disturbances: types, that a token and its        *)
(* tracker know each other, that the deployment implements Pairing, that   *)
(* no gas is lost to the verification, that live tokens are complete and   *)
(* left alone, and that a finished migration has deployed everything.      *)
(***************************************************************************)
EXTENDS Deployment, SequenceTheorems, TLAPS

(***************************************************************************)
(* The inductive invariant.                                                *)
(***************************************************************************)

ArgsType == [kind : Kind, impl : Nat, admin : Addr, busd : Addr, router : Addr,
             tracker : Nat, account : Addr, wallets : Seq(Addr)]

CallOps == {"initTracker", "setController", "updateClaimWait", "initToken",
            "initAddress", "setAllowTransfer", "release"}

TxType == [op : CallOps \cup {"create"}, from : Account, to : Nat, args : ArgsType,
           awaited : BOOLEAN]

\* A transaction as a task sends it.
TxOK(tx) == tx \in TxType /\ (tx.op = "initAddress" => tx.args.wallets # << >>)

OtherOps == {"chainId", "admin", "checkVerification", "read", "register", "await", "verify"}

StepType == [op : {"create"}, arg : Kind] \cup [op : {"send"}, arg : CallOps]
              \cup [op : OtherOps, arg : eContractid \cup {""}]

ChainType(c) == c \in [DOMAIN c -> ContractType] /\ DOMAIN c \subseteq Nat \ {0}

\* A token is linked to its tracker once and for all: it is a proxy that has
\* been initialized, and the tracker's controller.  Before that it has no
\* wallets, and with them it gets its supply to hand out.
TokenOK(c, t) ==
    /\ c[t].tracker # 0 =>
         /\ c[t].kind = "Proxy" /\ c[t].impl # NOBODY
         /\ c[t].tracker \in DOMAIN c /\ c[c[t].tracker].cntr = t
    /\ c[t].tracker = 0 => c[t].wallets = << >>
    /\ (c[t].tracker # 0 /\ c[t].wallets = << >>) => c[t].reserve = 100

ChainOK(c) == ChainType(c) /\ \A t \in DOMAIN c : TokenOK(c, t)

PendingOK ==
    /\ pending \in Seq(TxType)
    /\ \A i \in 1 .. Len(pending) :
          /\ TxOK(pending[i]) /\ pending[i].from = Deployer
          /\ pending[i].op = "create" => pending[i].to = nonce + i

ScriptOK ==
    /\ script = [task |-> script.task, verify |-> script.verify, status |-> script.status,
                 todo |-> script.todo, made |-> script.made, receipt |-> script.receipt,
                 tries |-> script.tries, hasSent |-> script.hasSent,
                 disturbed |-> script.disturbed]
    /\ script.status \in {"idle", "running", "done", "failed", "exited", "killed"}
    /\ script.todo \in Seq(StepType)
    /\ script.made \in Nat

Inv == /\ config \in Configs
       /\ nonce \in Nat
       /\ DOMAIN chain \subseteq 1 .. nonce
       /\ ChainOK(chain)
       /\ PendingOK
       /\ db \in [eContractid -> Nat]
       /\ ScriptOK

(***************************************************************************)
(* The steps of the tasks.                                                 *)
(***************************************************************************)

LEMMA DoIsASequence ==
    ASSUME NEW op, NEW arg, [op |-> op, arg |-> arg] \in StepType
    PROVE  Do(op, arg) \in Seq(StepType)
BY DEF Do

LEMMA WhenIsASequence ==
    ASSUME NEW flag \in BOOLEAN, NEW steps \in Seq(StepType)
    PROVE  When(flag, steps) \in Seq(StepType)
BY DEF When

LEMMA OtherSteps ==
    ASSUME NEW op \in OtherOps, NEW arg \in eContractid \cup {""}
    PROVE  Do(op, arg) \in Seq(StepType)
BY DoIsASequence DEF StepType

LEMMA TransactSteps ==
    ASSUME NEW op \in CallOps
    PROVE  Transact(op) \in Seq(StepType)
<1>1. Do("send", op) \in Seq(StepType)
  BY DoIsASequence DEF StepType
<1>2. Do("await", "") \in Seq(StepType)
  BY OtherSteps DEF OtherOps
<1>3. QED
  BY <1>1, <1>2, ConcatProperties DEF Transact

LEMMA DeployContractSteps ==
    ASSUME NEW kind \in Kind, NEW id \in eContractid
    PROVE  deployContract(kind, id) \in Seq(StepType)
<1>1. Do("create", kind) \in Seq(StepType)
  BY DoIsASequence DEF StepType
<1>2. Do("await", "") \in Seq(StepType) /\ Do("register", id) \in Seq(StepType)
  BY OtherSteps DEF OtherOps
<1>3. QED
  BY <1>1, <1>2, ConcatProperties DEF deployContract

LEMMA DeployTaskSteps ==
    ASSUME NEW verify \in BOOLEAN
    PROVE  /\ DeployBIBTokenTask(verify) \in Seq(StepType)
           /\ DeployTrackerTask(verify) \in Seq(StepType)
<1>1. Do("chainId", "") \in Seq(StepType) /\ Do("await", "") \in Seq(StepType)
  BY OtherSteps DEF OtherOps
<1>2. \A id \in eContractid : Do("register", id) \in Seq(StepType)
  BY OtherSteps DEF OtherOps
<1>3. verifyContract(verify) \in Seq(StepType)
  <2>1. Do("verify", "") \in Seq(StepType)
    BY OtherSteps DEF OtherOps
  <2>2. QED
    BY <2>1, WhenIsASequence DEF verifyContract
<1>4. \A kind \in Kind, id \in eContractid : deployContract(kind, id) \in Seq(StepType)
  BY DeployContractSteps
<1>5. \A kind \in Kind : Do("create", kind) \in Seq(StepType)
  BY DoIsASequence DEF StepType
<1>6. deployProxy(verify) \in Seq(StepType)
  BY <1>3, <1>4, ConcatProperties DEF deployProxy, Kind, eContractid
<1>7. deployBIBToken(verify) \in Seq(StepType)
  BY <1>3, <1>4, ConcatProperties DEF deployBIBToken, Kind, eContractid
<1>8. deployLibraries(verify) \in Seq(StepType)
  BY <1>3, <1>4, ConcatProperties DEF deployLibraries, Kind, eContractid
<1>9. deployTokenDividendTracker(verify) \in Seq(StepType)
  BY <1>1, <1>2, <1>3, <1>5, <1>8, ConcatProperties
     DEF deployTokenDividendTracker, Kind, eContractid
<1>10. DeployBIBTokenTask(verify) \in Seq(StepType)
  BY <1>1, <1>2, <1>6, <1>7, ConcatProperties DEF DeployBIBTokenTask, eContractid
<1>11. DeployTrackerTask(verify) \in Seq(StepType)
  BY <1>1, <1>2, <1>6, <1>9, ConcatProperties DEF DeployTrackerTask, eContractid
<1>12. QED
  BY <1>10, <1>11

LEMMA InitializeTaskSteps ==
    InitializeTrackerTask \in Seq(StepType) /\ InitializeBIBTokenTask \in Seq(StepType)
<1>1. /\ Do("chainId", "") \in Seq(StepType)
      /\ Do("read", "TokenDividendTracker") \in Seq(StepType)
      /\ Do("read", "BIBToken") \in Seq(StepType)
      /\ Do("register", "TeamVesting") \in Seq(StepType)
  BY OtherSteps DEF OtherOps, eContractid
<1>2. \A op \in CallOps : Transact(op) \in Seq(StepType)
  BY TransactSteps
<1>3. deployContract("VestingToken", "VestingToken") \in Seq(StepType)
  BY DeployContractSteps DEF Kind, eContractid
<1>4. QED
  BY <1>1, <1>2, <1>3, ConcatProperties
     DEF InitializeTrackerTask, InitializeBIBTokenTask, CallOps

\* Every task is a sequence of well-formed steps.
LEMMA TaskSteps ==
    ASSUME NEW task \in AllTasks, NEW verify \in BOOLEAN
    PROVE  Steps(task, verify) \in Seq(StepType)
<1>1. /\ Do("admin", "") \in Seq(StepType) /\ Do("checkVerification", "") \in Seq(StepType)
      /\ Do("verify", "") \in Seq(StepType)
  BY OtherSteps DEF OtherOps
<1>2. checkVerification(verify) \in Seq(StepType)
  BY <1>1, WhenIsASequence DEF checkVerification
<1>3. DeploymentTask(verify) \in Seq(StepType)
  BY <1>1, <1>2, DeployTaskSteps, InitializeTaskSteps, ConcatProperties DEF DeploymentTask
<1>4. /\ BscDeploymentTask(verify) \in Seq(StepType)
      /\ BscTestDeploymentTask(verify) \in Seq(StepType)
      /\ DevDeploymentTask(verify) \in Seq(StepType)
      /\ VerifyScTask \in Seq(StepType)
  BY <1>1, <1>2, <1>3, ConcatProperties
     DEF BscDeploymentTask, BscTestDeploymentTask, DevDeploymentTask, VerifyScTask
<1>5. QED
  BY <1>3, <1>4, DeployTaskSteps, InitializeTaskSteps
     DEF Steps, AllTasks, Migrations, DeployTasks

(***************************************************************************)
(* The contracts.  A transaction that does not revert keeps ChainOK and    *)
(* makes a step of Pairing, or none.                                       *)
(***************************************************************************)

LiveOf(c) == {t \in TokensOf(c) : Live(c, t)}

\* From c to d a pair is made.
NewPair(c, d) ==
    /\ \E t, k \in Nat : /\ \A p \in PairsOf(c) : p[1] # t /\ p[2] # k
                         /\ PairsOf(d) = PairsOf(c) \cup {<< t, k >>}
    /\ LiveOf(d) = LiveOf(c)

\* From c to d a token of a pair goes live.
NewLive(c, d) ==
    /\ \E p \in PairsOf(c) : p[1] \notin LiveOf(c) /\ LiveOf(d) = LiveOf(c) \cup {p[1]}
    /\ PairsOf(d) = PairsOf(c)

SamePairs(c, d) == PairsOf(d) = PairsOf(c) /\ LiveOf(d) = LiveOf(c)

\* What a transaction may do to the chain.
Keeps(c, d) ==
    /\ ChainOK(d)
    /\ SamePairs(c, d) \/ NewPair(c, d) \/ NewLive(c, d)

\* If no token's tracker, wallets or reserve changes, pairs stay.
LEMMA SameTokens ==
    ASSUME NEW c, NEW d, DOMAIN d = DOMAIN c,
           \A t \in DOMAIN c : /\ d[t].tracker = c[t].tracker
                               /\ d[t].wallets = c[t].wallets
                               /\ d[t].reserve = c[t].reserve
    PROVE  SamePairs(c, d)
<1>1. TokensOf(d) = TokensOf(c)
  BY DEF TokensOf
<1>2. PairsOf(d) = PairsOf(c)
  BY <1>1 DEF PairsOf, TokensOf
<1>3. \A t \in TokensOf(c) : Live(d, t) <=> Live(c, t)
  BY DEF Live, TokensOf
<1>4. QED
  BY <1>1, <1>2, <1>3 DEF SamePairs, LiveOf

LEMMA CreateKeeps ==
    ASSUME NEW c, ChainOK(c), NEW tx, TxOK(tx), tx.op = "create",
           tx.to \in Nat \ {0}, tx.to \notin DOMAIN c
    PROVE  Keeps(c, Create(c, tx)) /\ DOMAIN Create(c, tx) = DOMAIN c \cup {tx.to}
<1> DEFINE d == Create(c, tx)
           new == Fresh(tx.args.kind, tx.args.account)
<1>1. new \in ContractType
  BY ClaimWaitAssumption DEF TxOK, TxType, ArgsType, Fresh, ContractType, NOBODY, Addr, Kind
<1>2. DOMAIN d = DOMAIN c \cup {tx.to}
  BY DEF Create
<1>3. \A a \in DOMAIN d : d[a] = IF a = tx.to THEN new ELSE c[a]
  BY DEF Create
<1>4. ChainType(d)
  BY <1>1, <1>2, <1>3 DEF ChainType, ChainOK, Create
<1>5. new.tracker = 0 /\ new.wallets = << >>
  BY DEF Fresh
<1>6. \A t \in DOMAIN d : TokenOK(d, t)
  BY <1>2, <1>3, <1>5 DEF ChainOK, TokenOK
<1>7. TokensOf(d) = TokensOf(c)
  BY <1>2, <1>3, <1>5 DEF TokensOf
<1>8. PairsOf(d) = PairsOf(c)
  BY <1>2, <1>3, <1>7 DEF PairsOf, TokensOf
<1>9. LiveOf(d) = LiveOf(c)
  BY <1>2, <1>3, <1>7 DEF LiveOf, Live, TokensOf
<1>10. QED
  BY <1>2, <1>4, <1>6, <1>8, <1>9 DEF Keeps, ChainOK, SamePairs

\* A changed chain is a chain if the changed contract is a contract.
LEMMA ChangedChain ==
    ASSUME NEW c, ChainType(c), NEW a, NEW r, a \in DOMAIN c => r \in ContractType,
           NEW d, d = [c EXCEPT ![a] = r]
    PROVE  ChainType(d)
BY DEF ChainType

\* The updates of the calls keep a contract a contract.
LEMMA UpdatedContracts ==
    ASSUME NEW r \in ContractType
    PROVE  /\ \A impl \in Nat, admin \in Addr, owner \in Addr, busd \in Addr :
                [[r EXCEPT !.impl = impl, !.admin = admin]
                   EXCEPT !.owner = owner, !.busd = busd] \in ContractType
           /\ \A a \in Addr : [r EXCEPT !.cntr = a] \in ContractType
           /\ \A accounts \in SUBSET Addr :
                [r EXCEPT !.excluded = @ \cup accounts] \in ContractType
           /\ \A w \in Seq(Addr) : [r EXCEPT !.wallets = w] \in ContractType
           /\ [r EXCEPT !.claimWait = ClaimWait] \in ContractType
           /\ [r EXCEPT !.allow = TRUE] \in ContractType
           /\ [r EXCEPT !.reserve = 0] \in ContractType
<1>1. \A impl \in Nat, admin \in Addr, owner \in Addr, busd \in Addr :
        [[r EXCEPT !.impl = impl, !.admin = admin]
           EXCEPT !.owner = owner, !.busd = busd] \in ContractType
  BY Zenon DEF ContractType
<1>2. \A a \in Addr : [r EXCEPT !.cntr = a] \in ContractType
  BY Zenon DEF ContractType
<1>3. \A accounts \in SUBSET Addr : [r EXCEPT !.excluded = @ \cup accounts] \in ContractType
  BY DEF ContractType
<1>4. \A w \in Seq(Addr) : [r EXCEPT !.wallets = w] \in ContractType
  BY Zenon DEF ContractType
<1>5. /\ [r EXCEPT !.claimWait = ClaimWait] \in ContractType
      /\ [r EXCEPT !.allow = TRUE] \in ContractType
      /\ [r EXCEPT !.reserve = 0] \in ContractType
  BY Zenon DEF ContractType
<1>6. QED
  BY <1>1, <1>2, <1>3, <1>4, <1>5

LEMMA InitTrackerKeeps ==
    ASSUME NEW c, ChainOK(c), NEW tx, TxOK(tx), tx.op = "initTracker",
           ~NotAFreshProxy(c, tx, InitTrackerReverts(c, tx))
    PROVE  Keeps(c, InitTracker(c, tx)) /\ DOMAIN InitTracker(c, tx) = DOMAIN c
<1> DEFINE d == InitTracker(c, tx)
<1>1. /\ tx.to \in DOMAIN c /\ c[tx.to].kind = "Proxy" /\ c[tx.to].impl = NOBODY
      /\ tx.args.impl \in DOMAIN c
  BY DEF NotAFreshProxy, IsContract, ProxyInitializeReverts
<1>2. tx.args.impl \in Nat /\ tx.args.admin \in Addr /\ tx.args.busd \in Addr /\ tx.from \in Addr
  BY DEF TxOK, TxType, ArgsType, Addr
<1>3. c \in [DOMAIN c -> ContractType] /\ DOMAIN c \subseteq Nat \ {0}
  BY DEF ChainOK, ChainType
<1> DEFINE r == [[c[tx.to] EXCEPT !.impl = tx.args.impl, !.admin = tx.args.admin]
                   EXCEPT !.owner = tx.from, !.busd = tx.args.busd]
<1>4. d = [c EXCEPT ![tx.to] = r]
  BY DEF InitTracker, ProxyInitialize
<1>5. r \in ContractType
  BY <1>1, <1>2, <1>3, UpdatedContracts
<1> HIDE DEF d
<1>6. DOMAIN d = DOMAIN c /\ \A a \in DOMAIN c : a # tx.to => d[a] = c[a]
  BY <1>4
<1>7. \A a \in DOMAIN c : /\ d[a].kind = c[a].kind /\ d[a].cntr = c[a].cntr
                          /\ d[a].tracker = c[a].tracker /\ d[a].wallets = c[a].wallets
                          /\ d[a].reserve = c[a].reserve
  BY <1>1, <1>3, <1>4 DEF ContractType
<1>8. ChainType(d)
  BY <1>4, <1>5, ChangedChain DEF ChainOK
<1>9. \A t \in DOMAIN d : TokenOK(d, t)
  <2> SUFFICES ASSUME NEW t \in DOMAIN c PROVE TokenOK(d, t)
    BY <1>6
  <2>1. TokenOK(c, t)
    BY DEF ChainOK
  <2>2. c[t].tracker # 0 => t # tx.to
    BY <1>1, <2>1 DEF TokenOK
  <2>3. QED
    BY <1>6, <1>7, <2>1, <2>2 DEF TokenOK
<1>10. Keeps(c, d)
  BY <1>6, <1>7, <1>8, <1>9, SameTokens DEF Keeps, ChainOK
<1>11. QED
  BY <1>6, <1>10 DEF d

LEMMA SetControllerKeeps ==
    ASSUME NEW c, ChainOK(c), NEW tx, TxOK(tx), ~SetControllerReverts(c, tx)
    PROVE  Keeps(c, SetController(c, tx)) /\ DOMAIN SetController(c, tx) = DOMAIN c
<1> DEFINE d == SetController(c, tx)
<1>1. tx.to \in DOMAIN c /\ c[tx.to].cntr = 0
  BY DEF SetControllerReverts, Reaches, Code, IsContract
<1>2. tx.args.account \in Addr
  BY DEF TxOK, TxType, ArgsType
<1>3. c \in [DOMAIN c -> ContractType] /\ DOMAIN c \subseteq Nat \ {0}
  BY DEF ChainOK, ChainType
<1>4. d = [c EXCEPT ![tx.to] = [c[tx.to] EXCEPT !.cntr = tx.args.account]]
  BY DEF SetController
<1>5. [c[tx.to] EXCEPT !.cntr = tx.args.account] \in ContractType
  BY <1>1, <1>2, <1>3, UpdatedContracts
<1> HIDE DEF d
<1>6. DOMAIN d = DOMAIN c /\ \A a \in DOMAIN c : a # tx.to => d[a] = c[a]
  BY <1>4
<1>7. \A a \in DOMAIN c : /\ d[a].kind = c[a].kind /\ d[a].impl = c[a].impl
                          /\ d[a].tracker = c[a].tracker /\ d[a].wallets = c[a].wallets
                          /\ d[a].reserve = c[a].reserve
  BY <1>1, <1>3, <1>4 DEF ContractType
<1>8. ChainType(d)
  BY <1>4, <1>5, ChangedChain DEF ChainOK
<1>9. \A t \in DOMAIN d : TokenOK(d, t)
  <2> SUFFICES ASSUME NEW t \in DOMAIN c PROVE TokenOK(d, t)
    BY <1>6
  <2>1. TokenOK(c, t)
    BY DEF ChainOK
  <2>2. c[t].tracker # 0 => c[t].tracker # tx.to
    BY <1>1, <1>3, <2>1 DEF TokenOK
  <2>3. QED
    BY <1>6, <1>7, <2>1, <2>2 DEF TokenOK
<1>10. Keeps(c, d)
  BY <1>6, <1>7, <1>8, <1>9, SameTokens DEF Keeps, ChainOK
<1>11. QED
  BY <1>6, <1>10 DEF d

LEMMA UpdateClaimWaitKeeps ==
    ASSUME NEW c, ChainOK(c), NEW tx
    PROVE  Keeps(c, UpdateClaimWait(c, tx)) /\ DOMAIN UpdateClaimWait(c, tx) = DOMAIN c
<1> DEFINE d == UpdateClaimWait(c, tx)
<1>1. c \in [DOMAIN c -> ContractType] /\ DOMAIN c \subseteq Nat \ {0}
  BY DEF ChainOK, ChainType
<1>2. d = [c EXCEPT ![tx.to] = [c[tx.to] EXCEPT !.claimWait = ClaimWait]]
  BY DEF UpdateClaimWait
<1> HIDE DEF d
<1>3. DOMAIN d = DOMAIN c
  BY <1>2
<1>4. \A a \in DOMAIN c : /\ d[a].kind = c[a].kind /\ d[a].impl = c[a].impl
                          /\ d[a].cntr = c[a].cntr
                          /\ d[a].tracker = c[a].tracker /\ d[a].wallets = c[a].wallets
                          /\ d[a].reserve = c[a].reserve
  BY <1>1, <1>2 DEF ContractType
<1>5. ChainType(d)
  <2>1. tx.to \in DOMAIN c => [c[tx.to] EXCEPT !.claimWait = ClaimWait] \in ContractType
    BY <1>1, UpdatedContracts
  <2>2. QED
    BY <1>2, <2>1, ChangedChain DEF ChainOK
<1>6. \A t \in DOMAIN d : TokenOK(d, t)
  BY <1>1, <1>3, <1>4 DEF TokenOK, ChainOK
<1>7. Keeps(c, d)
  BY <1>3, <1>4, <1>5, <1>6, SameTokens DEF Keeps, ChainOK
<1>8. QED
  BY <1>3, <1>7 DEF d

LEMMA SetAllowTransferKeeps ==
    ASSUME NEW c, ChainOK(c), NEW tx
    PROVE  Keeps(c, SetAllowTransfer(c, tx)) /\ DOMAIN SetAllowTransfer(c, tx) = DOMAIN c
<1> DEFINE d == SetAllowTransfer(c, tx)
<1>1. c \in [DOMAIN c -> ContractType] /\ DOMAIN c \subseteq Nat \ {0}
  BY DEF ChainOK, ChainType
<1>2. d = [c EXCEPT ![tx.to] = [c[tx.to] EXCEPT !.allow = TRUE]]
  BY DEF SetAllowTransfer
<1> HIDE DEF d
<1>3. DOMAIN d = DOMAIN c
  BY <1>2
<1>4. \A a \in DOMAIN c : /\ d[a].kind = c[a].kind /\ d[a].impl = c[a].impl
                          /\ d[a].cntr = c[a].cntr
                          /\ d[a].tracker = c[a].tracker /\ d[a].wallets = c[a].wallets
                          /\ d[a].reserve = c[a].reserve
  BY <1>1, <1>2 DEF ContractType
<1>5. ChainType(d)
  <2>1. tx.to \in DOMAIN c => [c[tx.to] EXCEPT !.allow = TRUE] \in ContractType
    BY <1>1, UpdatedContracts
  <2>2. QED
    BY <1>2, <2>1, ChangedChain DEF ChainOK
<1>6. \A t \in DOMAIN d : TokenOK(d, t)
  BY <1>1, <1>3, <1>4 DEF TokenOK, ChainOK
<1>7. Keeps(c, d)
  BY <1>3, <1>4, <1>5, <1>6, SameTokens DEF Keeps, ChainOK
<1>8. QED
  BY <1>3, <1>7 DEF d

\* initialize of a token links it to the tracker whose controller it is.
LEMMA InitTokenKeeps ==
    ASSUME NEW c, ChainOK(c), NEW tx, TxOK(tx), tx.op = "initToken",
           ~NotAFreshProxy(c, tx, InitTokenReverts(c, tx))
    PROVE  Keeps(c, InitToken(c, tx)) /\ DOMAIN InitToken(c, tx) = DOMAIN c
<1> DEFINE d == InitToken(c, tx)
           t == tx.to
           k == tx.args.tracker
<1>1. /\ t \in DOMAIN c /\ c[t].kind = "Proxy" /\ c[t].impl = NOBODY
      /\ tx.args.impl \in DOMAIN c
  BY DEF NotAFreshProxy, IsContract, ProxyInitializeReverts
<1>2. /\ tx.args.impl \in Nat /\ tx.args.admin \in Addr /\ tx.args.busd \in Addr
      /\ tx.from \in Addr /\ k \in Nat /\ FirstExcluded(tx) \in SUBSET Addr
  BY AccountAssumption DEF TxOK, TxType, ArgsType, Addr, FirstExcluded
<1>3. c \in [DOMAIN c -> ContractType] /\ DOMAIN c \subseteq Nat \ {0}
  BY DEF ChainOK, ChainType
<1>4. k \in DOMAIN c /\ c[k].cntr = t /\ k # t
  <2>1. ControlledBy(c, k, t)
    BY DEF NotAFreshProxy, ProxyInitializeReverts, InitTokenReverts
  <2>2. Code(c, k) = "TokenDividendTracker" /\ c[k].cntr = t
    BY <2>1 DEF ControlledBy, Reaches
  <2>3. Code(c, t) = "none"
    BY <1>1, <1>3 DEF Code, IsContract, NOBODY
  <2>4. QED
    BY <2>2, <2>3 DEF Code, IsContract
<1> DEFINE r == [[c[t] EXCEPT !.impl = tx.args.impl, !.admin = tx.args.admin]
                   EXCEPT !.owner = tx.from, !.busd = tx.args.busd,
                          !.tracker = k, !.reserve = 100]
           e == [c EXCEPT ![t] = r]
           q == [c[k] EXCEPT !.excluded = @ \cup FirstExcluded(tx)]
<1>5. e[k] = c[k] /\ e[t] = r /\ DOMAIN e = DOMAIN c
  BY <1>1, <1>3, <1>4
<1>6. d = [e EXCEPT ![k] = q]
  <2>1. d = [e EXCEPT ![k] = [e[k] EXCEPT !.excluded = @ \cup FirstExcluded(tx)]]
    BY DEF InitToken, ProxyInitialize
  <2>2. QED
    BY <1>5, <2>1
<1>7. r \in ContractType /\ q \in ContractType
  <2>1. c[t] \in ContractType /\ c[k] \in ContractType
    BY <1>1, <1>3, <1>4
  <2>2. r \in ContractType
    BY <1>2, <2>1, Zenon DEF ContractType
  <2>3. q \in ContractType
    BY <1>2, <2>1, UpdatedContracts
  <2>4. QED
    BY <2>2, <2>3
<1>8. /\ r.kind = c[t].kind /\ r.impl = tx.args.impl /\ r.cntr = c[t].cntr
      /\ r.tracker = k /\ r.wallets = c[t].wallets /\ r.reserve = 100
  <2>1. c[t] \in ContractType
    BY <1>1, <1>3
  <2>2. QED
    BY <2>1 DEF ContractType
<1>9. /\ q.kind = c[k].kind /\ q.impl = c[k].impl /\ q.cntr = c[k].cntr
      /\ q.tracker = c[k].tracker /\ q.wallets = c[k].wallets /\ q.reserve = c[k].reserve
  BY <1>3, <1>4 DEF ContractType
<1>10. ChainType(d)
  <2> HIDE DEF d, r, q
  <2>1. ChainType(e)
    BY <1>7, ChangedChain DEF ChainOK
  <2> HIDE DEF e
  <2>2. QED
    BY <1>6, <1>7, <2>1, ChangedChain
<1>11. /\ DOMAIN d = DOMAIN c /\ d[t] = r /\ d[k] = q
       /\ \A a \in DOMAIN c \ {t, k} : d[a] = c[a]
  BY <1>1, <1>3, <1>4, <1>5, <1>6
<1> HIDE DEF d, r, e, q
<1>12. \A a \in DOMAIN c \ {t} :
         /\ d[a].kind = c[a].kind /\ d[a].impl = c[a].impl /\ d[a].cntr = c[a].cntr
         /\ d[a].tracker = c[a].tracker /\ d[a].wallets = c[a].wallets
         /\ d[a].reserve = c[a].reserve
  BY <1>9, <1>11
<1>13. TokenOK(c, t) /\ c[t].tracker = 0 /\ c[t].wallets = << >>
  BY <1>1 DEF ChainOK, TokenOK
<1>14. \A a \in DOMAIN d : TokenOK(d, a)
  <2> SUFFICES ASSUME NEW a \in DOMAIN c PROVE TokenOK(d, a)
    BY <1>11
  <2>1. \A b \in DOMAIN c : d[b].cntr = c[b].cntr
    BY <1>8, <1>11, <1>12
  <2>2. CASE a = t
    BY <1>1, <1>3, <1>4, <1>8, <1>11, <1>13, <2>1, <2>2 DEF TokenOK, NOBODY
  <2>3. CASE a # t
    BY <1>11, <1>12, <2>1, <2>3 DEF TokenOK, ChainOK
  <2>4. QED
    BY <2>2, <2>3
<1>15. k # 0
  BY <1>3, <1>4
<1>16. TokensOf(d) = TokensOf(c) \cup {t} /\ t \notin TokensOf(c)
  BY <1>1, <1>8, <1>11, <1>12, <1>13, <1>15 DEF TokensOf
<1>17. PairsOf(d) = PairsOf(c) \cup {<< t, k >>}
  <2>1. d[t].tracker = k /\ \A a \in TokensOf(c) : d[a].tracker = c[a].tracker
    BY <1>8, <1>11, <1>12, <1>16 DEF TokensOf
  <2>2. QED
    BY <1>16, <2>1 DEF PairsOf
<1>18. \A p \in PairsOf(c) : p[1] # t /\ p[2] # k
  <2>1. \A a \in TokensOf(c) : a # t /\ c[a].tracker # k
    BY <1>4, <1>16 DEF TokensOf, ChainOK, TokenOK
  <2>2. QED
    BY <2>1 DEF PairsOf
<1>19. LiveOf(d) = LiveOf(c)
  <2>1. ~Live(d, t)
    BY <1>8, <1>11, <1>13 DEF Live
  <2>2. \A a \in TokensOf(c) : Live(d, a) <=> Live(c, a)
    BY <1>12, <1>16 DEF Live, TokensOf
  <2>3. QED
    BY <1>16, <2>1, <2>2 DEF LiveOf
<1>20. NewPair(c, d)
  BY <1>1, <1>2, <1>3, <1>17, <1>18, <1>19 DEF NewPair
<1>21. Keeps(c, d)
  BY <1>10, <1>14, <1>20 DEF Keeps, ChainOK
<1>22. QED
  BY <1>11, <1>21 DEF d

\* initAddress gives a token wallets, which it needs before release.
LEMMA InitAddressKeeps ==
    ASSUME NEW c, ChainOK(c), NEW tx, TxOK(tx), tx.op = "initAddress",
           ~InitAddressReverts(c, tx)
    PROVE  Keeps(c, InitAddress(c, tx)) /\ DOMAIN InitAddress(c, tx) = DOMAIN c
<1> DEFINE d == InitAddress(c, tx)
           t == tx.to
           k == c[t].tracker
           w == tx.args.wallets
           accounts == {w[i] : i \in DOMAIN w}
<1>1. t \in DOMAIN c
  BY DEF InitAddressReverts, OnlyOwner, Reaches, Code, IsContract
<1>2. w \in Seq(Addr) /\ w # << >> /\ accounts \in SUBSET Addr
  BY DEF TxOK, TxType, ArgsType
<1>3. c \in [DOMAIN c -> ContractType] /\ DOMAIN c \subseteq Nat \ {0}
  BY DEF ChainOK, ChainType
<1>4. k \in DOMAIN c /\ k # 0
  <2>1. Code(c, k) = "TokenDividendTracker"
    BY DEF InitAddressReverts, CanExclude, Reaches
  <2>2. QED
    BY <1>3, <2>1 DEF Code, IsContract
<1> DEFINE r == [c[t] EXCEPT !.wallets = w]
           e == [c EXCEPT ![t] = r]
           q == [e[k] EXCEPT !.excluded = @ \cup accounts]
<1>5. d = [e EXCEPT ![k] = q]
  BY DEF InitAddress
<1>6. r \in ContractType
  BY <1>1, <1>2, <1>3, UpdatedContracts
<1>7. ChainType(e) /\ DOMAIN e = DOMAIN c /\ e[t] = r /\ \A a \in DOMAIN c \ {t} : e[a] = c[a]
  <2>1. DOMAIN e = DOMAIN c /\ e[t] = r /\ \A a \in DOMAIN c \ {t} : e[a] = c[a]
    BY <1>1, <1>3
  <2> HIDE DEF r
  <2>2. ChainType(e)
    BY <1>6, ChangedChain DEF ChainOK
  <2>3. QED
    BY <2>1, <2>2
<1> HIDE DEF e
<1>8. e[k] \in ContractType
  BY <1>4, <1>7 DEF ChainType
<1>9. q \in ContractType
  BY <1>2, <1>8, UpdatedContracts
<1>10. /\ q.kind = e[k].kind /\ q.impl = e[k].impl /\ q.cntr = e[k].cntr
       /\ q.tracker = e[k].tracker /\ q.wallets = e[k].wallets /\ q.reserve = e[k].reserve
  BY <1>8 DEF ContractType
<1>11. /\ r.kind = c[t].kind /\ r.impl = c[t].impl /\ r.cntr = c[t].cntr
       /\ r.tracker = c[t].tracker /\ r.wallets = w /\ r.reserve = c[t].reserve
  BY <1>1, <1>3 DEF ContractType
<1> HIDE DEF q, r, d
<1>12. ChainType(d)
  BY <1>5, <1>7, <1>9, ChangedChain
<1>13. DOMAIN d = DOMAIN c /\ d[k] = q /\ \A a \in DOMAIN c \ {k} : d[a] = e[a]
  BY <1>4, <1>5, <1>7 DEF ChainType
<1>14. \A a \in DOMAIN c :
         /\ d[a].kind = c[a].kind /\ d[a].impl = c[a].impl /\ d[a].cntr = c[a].cntr
         /\ d[a].tracker = c[a].tracker /\ d[a].reserve = c[a].reserve
         /\ d[a].wallets = IF a = t THEN w ELSE c[a].wallets
  BY <1>7, <1>10, <1>11, <1>13
<1>15. TokenOK(c, t)
  BY <1>1 DEF ChainOK
<1>16. \A a \in DOMAIN d : TokenOK(d, a)
  <2> SUFFICES ASSUME NEW a \in DOMAIN c PROVE TokenOK(d, a)
    BY <1>13
  <2>1. TokenOK(c, a)
    BY DEF ChainOK
  <2>2. a = t => c[a].tracker # 0
    BY <1>4
  <2>3. QED
    BY <1>2, <1>13, <1>14, <2>1, <2>2 DEF TokenOK
<1>17. TokensOf(d) = TokensOf(c)
  BY <1>13, <1>14 DEF TokensOf
<1>18. PairsOf(d) = PairsOf(c)
  BY <1>14, <1>17 DEF PairsOf, TokensOf
<1>19. \A a \in TokensOf(c) : Live(d, a) <=> Live(c, a)
  <2> SUFFICES ASSUME NEW a \in TokensOf(c) PROVE Live(d, a) <=> Live(c, a)
    OBVIOUS
  <2>1. CASE a # t
    BY <1>14, <2>1 DEF Live, TokensOf
  <2>2. CASE a = t
    BY <1>2, <1>4, <1>14, <1>15, <2>2 DEF Live, TokensOf, TokenOK
  <2>3. QED
    BY <2>1, <2>2
<1>20. LiveOf(d) = LiveOf(c)
  BY <1>17, <1>19 DEF LiveOf
<1>21. Keeps(c, d)
  BY <1>12, <1>16, <1>18, <1>20 DEF Keeps, ChainOK, SamePairs
<1>22. QED
  BY <1>13, <1>21 DEF d

\* release lets a token go live.
LEMMA ReleaseKeeps ==
    ASSUME NEW c, ChainOK(c), NEW tx, ~ReleaseReverts(c, tx)
    PROVE  Keeps(c, Release(c, tx)) /\ DOMAIN Release(c, tx) = DOMAIN c
<1> DEFINE d == Release(c, tx)
           t == tx.to
<1>1. t \in DOMAIN c
  BY DEF ReleaseReverts, OnlyOwner, Reaches, Code, IsContract
<1>2. c \in [DOMAIN c -> ContractType] /\ DOMAIN c \subseteq Nat \ {0}
  BY DEF ChainOK, ChainType
<1>3. c[t].reserve = 100 /\ c[t].wallets # << >>
  <2>1. c[t].reserve \in {0, 100}
    BY <1>1, <1>2 DEF ContractType
  <2>2. QED
    BY <2>1 DEF ReleaseReverts, Parts
<1> DEFINE r == [c[t] EXCEPT !.reserve = 0]
<1>4. d = [c EXCEPT ![t] = r]
  BY <1>3 DEF Release, Parts
<1>5. r \in ContractType
  BY <1>1, <1>2, UpdatedContracts
<1>6. /\ r.kind = c[t].kind /\ r.impl = c[t].impl /\ r.cntr = c[t].cntr
      /\ r.tracker = c[t].tracker /\ r.wallets = c[t].wallets /\ r.reserve = 0
  BY <1>1, <1>2 DEF ContractType
<1> HIDE DEF r, d
<1>7. ChainType(d)
  BY <1>4, <1>5, ChangedChain DEF ChainOK
<1>8. DOMAIN d = DOMAIN c /\ d[t] = r /\ \A a \in DOMAIN c \ {t} : d[a] = c[a]
  BY <1>1, <1>2, <1>4
<1>9. \A a \in DOMAIN c :
         /\ d[a].kind = c[a].kind /\ d[a].impl = c[a].impl /\ d[a].cntr = c[a].cntr
         /\ d[a].tracker = c[a].tracker /\ d[a].wallets = c[a].wallets
  BY <1>6, <1>8
<1>10. \A a \in DOMAIN d : TokenOK(d, a)
  BY <1>3, <1>8, <1>9 DEF ChainOK, TokenOK
<1>11. TokensOf(d) = TokensOf(c) /\ t \in TokensOf(c)
  BY <1>1, <1>3, <1>8, <1>9 DEF TokensOf, ChainOK, TokenOK
<1>12. PairsOf(d) = PairsOf(c)
  BY <1>9, <1>11 DEF PairsOf, TokensOf
<1>13. LiveOf(d) = LiveOf(c) \cup {t} /\ t \notin LiveOf(c)
  <2>1. Live(d, t) /\ ~Live(c, t)
    BY <1>1, <1>3, <1>6, <1>8, <1>9 DEF Live
  <2>2. \A a \in TokensOf(c) \ {t} : Live(d, a) <=> Live(c, a)
    BY <1>8 DEF Live, TokensOf
  <2>3. QED
    BY <1>11, <2>1, <2>2 DEF LiveOf
<1>14. NewLive(c, d)
  <2>1. << t, c[t].tracker >> \in PairsOf(c)
    BY <1>11 DEF PairsOf
  <2>2. QED
    BY <1>12, <1>13, <2>1 DEF NewLive
<1>15. Keeps(c, d)
  BY <1>7, <1>10, <1>14 DEF Keeps, ChainOK
<1>16. QED
  BY <1>8, <1>15 DEF d

\* A transaction that is mined and does not revert.
LEMMA ApplyKeeps ==
    ASSUME NEW c, ChainOK(c), NEW tx, TxOK(tx), ~Reverts(c, tx),
           tx.op = "create" => tx.to \in Nat \ {0} /\ tx.to \notin DOMAIN c
    PROVE  /\ Keeps(c, Apply(c, tx))
           /\ DOMAIN Apply(c, tx) = DOMAIN c \cup (IF tx.op = "create" THEN {tx.to} ELSE {})
<1> tx.op \in CallOps \cup {"create"}
  BY DEF TxOK, TxType
<1>1. CASE tx.op = "create"
  BY <1>1, CreateKeeps DEF Apply
<1>2. CASE tx.op = "initTracker"
  BY <1>2, InitTrackerKeeps DEF Apply, Reverts
<1>3. CASE tx.op = "initToken"
  BY <1>3, InitTokenKeeps DEF Apply, Reverts
<1>4. CASE tx.op = "setController"
  BY <1>4, SetControllerKeeps DEF Apply, Reverts
<1>5. CASE tx.op = "updateClaimWait"
  BY <1>5, UpdateClaimWaitKeeps DEF Apply
<1>6. CASE tx.op = "initAddress"
  BY <1>6, InitAddressKeeps DEF Apply, Reverts
<1>7. CASE tx.op = "setAllowTransfer"
  BY <1>7, SetAllowTransferKeeps DEF Apply
<1>8. CASE tx.op = "release"
  BY <1>8, ReleaseKeeps DEF Apply, Reverts
<1>9. QED
  BY <1>1, <1>2, <1>3, <1>4, <1>5, <1>6, <1>7, <1>8 DEF CallOps

(***************************************************************************)
(* The scripts and what they send.                                         *)
(***************************************************************************)

LEMMA ConfigType ==
    ASSUME NEW c \in Configs
    PROVE  /\ c.admin = "" \/ c.admin \in Addr
           /\ c.busd \in Addr /\ c.router \in Addr /\ c.team \in Addr
           /\ c.vaults \in Seq(Addr)
BY ConfigsAssumption

\* A script that goes on, stops or sends is a script again.
LEMMA GoingOn ==
    ASSUME ScriptOK, Running, script.todo # << >>, Proceed \/ (\E ok : ProceedIf(ok))
    PROVE  ScriptOK'
<1>1. Tail(script.todo) \in Seq(StepType)
  BY HeadTailProperties DEF ScriptOK
<1>2. << >> \in Seq(StepType)
  OBVIOUS
<1>3. CASE Proceed
  BY <1>1, <1>3 DEF ScriptOK, Proceed
<1>4. CASE script' = [script EXCEPT !.status = "failed", !.todo = << >>]
  BY <1>2, <1>4 DEF ScriptOK
<1>5. QED
  BY <1>3, <1>4 DEF ProceedIf, Stop

LEMMA Stopping ==
    ASSUME ScriptOK, NEW status \in {"failed", "exited"}, Stop(status)
    PROVE  ScriptOK'
<1>1. << >> \in Seq(StepType)
  OBVIOUS
<1>2. script' = [script EXCEPT !.status = status, !.todo = << >>]
  BY DEF Stop
<1>3. QED
  BY <1>1, <1>2 DEF ScriptOK

LEMMA TheStep ==
    ASSUME ScriptOK, NEW op, At(op)
    PROVE  /\ Running /\ script.todo # << >>
           /\ [op |-> op, arg |-> Arg] \in StepType
<1>1. Head(script.todo) \in StepType
  BY HeadTailProperties DEF ScriptOK, At
<1>2. Head(script.todo) = [op |-> op, arg |-> Arg]
  BY <1>1 DEF At, Arg, StepType
<1>3. QED
  BY <1>1, <1>2 DEF At

\* Sending puts the transaction behind the pending ones.
LEMMA Sending ==
    ASSUME Inv, script.todo # << >>, NEW tx, TxOK(tx), tx.from = Deployer,
           tx.op = "create" => tx.to = NextNonce,
           NEW estimated, Send(tx, estimated), UNCHANGED nonce
    PROVE  ScriptOK' /\ PendingOK'
<1>1. CASE Stop("failed") /\ UNCHANGED pending
  BY <1>1, Stopping DEF Inv, PendingOK
<1>2. CASE /\ pending' = Append(pending, tx)
           /\ script' = [script EXCEPT !.todo = Tail(@), !.receipt = "none", !.hasSent = TRUE,
                           !.made = IF tx.op = "create" THEN tx.to ELSE @]
  <2>1. Tail(script.todo) \in Seq(StepType)
    BY HeadTailProperties DEF ScriptOK, Inv
  <2>2. tx.to \in Nat
    BY DEF TxOK, TxType
  <2>3. ScriptOK'
    BY <1>2, <2>1, <2>2 DEF ScriptOK, Inv
  <2>4. /\ pending \in Seq(TxType) /\ tx \in TxType /\ nonce \in Nat
        /\ \A i \in 1 .. Len(pending) :
              /\ TxOK(pending[i]) /\ pending[i].from = Deployer
              /\ pending[i].op = "create" => pending[i].to = nonce + i
    BY DEF Inv, PendingOK, TxOK
  <2>5. /\ pending' \in Seq(TxType) /\ Len(pending') = Len(pending) + 1
        /\ \A i \in 1 .. Len(pending) : pending'[i] = pending[i]
        /\ pending'[Len(pending) + 1] = tx
    BY <1>2, <2>4, AppendProperties
  <2>6. NextNonce = nonce + (Len(pending) + 1)
    BY <2>4, LenProperties DEF NextNonce
  <2>7. ASSUME NEW i \in 1 .. Len(pending')
        PROVE  /\ TxOK(pending'[i]) /\ pending'[i].from = Deployer
               /\ pending'[i].op = "create" => pending'[i].to = nonce + i
    <3>1. CASE i \in 1 .. Len(pending)
      BY <2>4, <2>5, <3>1
    <3>2. CASE i = Len(pending) + 1
      BY <2>5, <2>6, <3>2
    <3>3. QED
      BY <2>4, <2>5, <3>1, <3>2, LenProperties
  <2>8. PendingOK'
    BY <2>5, <2>7 DEF PendingOK, TxOK
  <2>9. QED
    BY <2>3, <2>8
<1>3. QED
  BY <1>1, <1>2 DEF Send

(***************************************************************************)
(* The invariant is inductive.                                             *)
(***************************************************************************)

LEMMA ArgsAreTyped ==
    /\ NoArgs \in ArgsType
    /\ \A kind \in Kind, a \in Addr :
         [NoArgs EXCEPT !.kind = kind, !.account = a] \in ArgsType
    /\ \A impl \in Nat, admin \in Addr, busd \in Addr :
         [NoArgs EXCEPT !.impl = impl, !.admin = admin, !.busd = busd] \in ArgsType
    /\ \A impl \in Nat, admin \in Addr, busd \in Addr, router \in Addr, tracker \in Nat :
         [NoArgs EXCEPT !.impl = impl, !.admin = admin, !.busd = busd, !.router = router,
                        !.tracker = tracker] \in ArgsType
    /\ \A a \in Addr : [NoArgs EXCEPT !.account = a] \in ArgsType
    /\ \A w \in Seq(Addr) :
         /\ [NoArgs EXCEPT !.wallets = w] \in ArgsType
         /\ [NoArgs EXCEPT !.wallets = w].wallets = w
<1>1. NoArgs \in ArgsType
  BY DEF NoArgs, ArgsType, Kind, Addr
<1>2. \A kind \in Kind, a \in Addr :
        [NoArgs EXCEPT !.kind = kind, !.account = a] \in ArgsType
  BY <1>1, Zenon DEF ArgsType
<1>3. \A impl \in Nat, admin \in Addr, busd \in Addr :
        [NoArgs EXCEPT !.impl = impl, !.admin = admin, !.busd = busd] \in ArgsType
  BY <1>1, Zenon DEF ArgsType
<1>4. \A impl \in Nat, admin \in Addr, busd \in Addr, router \in Addr, tracker \in Nat :
        [NoArgs EXCEPT !.impl = impl, !.admin = admin, !.busd = busd, !.router = router,
                       !.tracker = tracker] \in ArgsType
  BY <1>1, Zenon DEF ArgsType
<1>5. \A a \in Addr : [NoArgs EXCEPT !.account = a] \in ArgsType
  BY <1>1, Zenon DEF ArgsType
<1>6. \A w \in Seq(Addr) : /\ [NoArgs EXCEPT !.wallets = w] \in ArgsType
                           /\ [NoArgs EXCEPT !.wallets = w].wallets = w
  BY <1>1 DEF ArgsType
<1>7. QED
  BY <1>1, <1>2, <1>3, <1>4, <1>5, <1>6

LEMMA InitInv == Init => Inv
<1> SUFFICES ASSUME Init PROVE Inv
  OBVIOUS
<1>1. chain = << >> /\ DOMAIN chain = {} /\ pending = << >> /\ Len(pending) = 0
  BY DEF Init
<1>2. ChainOK(chain)
  BY <1>1 DEF ChainOK, ChainType
<1>3. PendingOK
  BY <1>1 DEF PendingOK
<1>4. ScriptOK
  <2>1. << >> \in Seq(StepType)
    OBVIOUS
  <2>2. QED
    BY <2>1 DEF Init, ScriptOK, NoScript
<1>5. db \in [eContractid -> Nat]
  BY DEF Init, ABSENT
<1>6. QED
  BY <1>1, <1>2, <1>3, <1>4, <1>5 DEF Init, Inv

\* Steps that only go on with the script, or stop it.
LEMMA QuietStep ==
    ASSUME Inv, ScriptOK', UNCHANGED << config, chain, nonce, pending, db >>
    PROVE  Inv'
BY DEF Inv, PendingOK

LEMMA CreateContractStep ==
    ASSUME Inv, CreateContract
    PROVE  Inv'
<1> DEFINE tx == Tx("create", NextNonce, [NoArgs EXCEPT !.kind = Arg, !.account = config.team])
<1>1. script.todo # << >> /\ [op |-> "create", arg |-> Arg] \in StepType
  BY TheStep DEF CreateContract, Inv
<1>2. Arg \in Kind
  BY <1>1 DEF StepType, OtherOps
<1>3. NextNonce \in Nat
  BY LenProperties DEF NextNonce, Inv, PendingOK
<1>4. [NoArgs EXCEPT !.kind = Arg, !.account = config.team] \in ArgsType
  BY <1>2, ArgsAreTyped, ConfigType DEF Inv
<1>5. TxOK(tx) /\ tx.from = Deployer /\ tx.op = "create" /\ tx.to = NextNonce
  BY <1>3, <1>4, DeployerAssumption DEF TxOK, TxType, Tx
<1>6. Send(tx, TRUE) /\ UNCHANGED << config, chain, nonce, db >>
  BY DEF CreateContract
<1> HIDE DEF tx
<1>7. ScriptOK' /\ PendingOK'
  BY <1>1, <1>5, <1>6, Sending
<1>8. QED
  BY <1>6, <1>7 DEF Inv

LEMMA TransactionsAreTyped ==
    ASSUME NEW op \in CallOps, NEW to \in Nat, NEW args \in ArgsType,
           op = "initAddress" => args.wallets # << >>
    PROVE  TxOK(Tx(op, to, args)) /\ Tx(op, to, args).from = Deployer /\ Tx(op, to, args).op = op
BY DeployerAssumption DEF TxOK, TxType, Tx

LEMMA OneMore ==
    ASSUME NEW S, NEW x \in S, NEW s \in Seq(S)
    PROVE  << x >> \o s \in Seq(S) /\ << x >> \o s # << >>
<1>1. << x >> \in Seq(S) /\ Len(<< x >>) = 1
  OBVIOUS
<1>2. << x >> \o s \in Seq(S) /\ Len(<< x >> \o s) = 1 + Len(s) /\ Len(s) \in Nat
  BY <1>1, ConcatProperties, LenProperties
<1>3. << x >> \o s # << >>
  <2> SUFFICES ASSUME NEW w, w = << >>, Len(w) = 1 + Len(s), Len(s) \in Nat PROVE FALSE
    BY <1>2, Zenon
  <2>1. Len(w) = 0
    OBVIOUS
  <2>2. QED
    BY <2>1
<1>4. QED
  BY <1>2, <1>3

LEMMA CallsAreTyped ==
    ASSUME Inv, NEW op \in CallOps, op \in {"initTracker", "initToken"} => config.admin # ""
    PROVE  TxOK(CallOf(op)) /\ CallOf(op).from = Deployer /\ CallOf(op).op = op
<1>1. /\ db["BIBToken"] \in Nat /\ db["BIBTokenImpl"] \in Nat
      /\ db["TokenDividendTracker"] \in Nat /\ db["TokenDividendTrackerImpl"] \in Nat
  BY DEF Inv, eContractid
<1>2. /\ config.busd \in Addr /\ config.router \in Addr /\ config.vaults \in Seq(Addr)
      /\ config.admin # "" => config.admin \in Addr
  BY ConfigType DEF Inv
<1>3. CASE op = "initTracker"
  <2> DEFINE args == [NoArgs EXCEPT !.impl = db["TokenDividendTrackerImpl"],
                                    !.admin = config.admin, !.busd = config.busd]
  <2>1. config.admin \in Addr
    BY <1>2, <1>3
  <2>2. args \in ArgsType
    BY <1>1, <1>2, <2>1, ArgsAreTyped
  <2>3. CallOf(op) = Tx(op, db["TokenDividendTracker"], args)
    BY <1>3 DEF CallOf
  <2> HIDE DEF args
  <2>4. op # "initAddress"
    BY <1>3
  <2>5. TxOK(Tx(op, db["TokenDividendTracker"], args)) /\ Tx(op, db["TokenDividendTracker"], args).from = Deployer
           /\ Tx(op, db["TokenDividendTracker"], args).op = op
    BY <1>1, <2>2, <2>4, TransactionsAreTyped
  <2>6. QED
    BY <2>3, <2>5
<1>4. CASE op = "setController"
  <2> DEFINE args == [NoArgs EXCEPT !.account = db["BIBToken"]]
  <2>1. args \in ArgsType
    BY <1>1, ArgsAreTyped DEF Addr
  <2>2. CallOf(op) = Tx(op, db["TokenDividendTracker"], args)
    BY <1>4 DEF CallOf
  <2> HIDE DEF args
  <2>3. QED
    BY <1>1, <1>4, <2>1, <2>2, TransactionsAreTyped
<1>5. CASE op = "updateClaimWait"
  <2>1. CallOf(op) = Tx(op, db["TokenDividendTracker"], NoArgs)
    BY <1>5 DEF CallOf
  <2>2. op # "initAddress"
    BY <1>5
  <2>3. TxOK(Tx(op, db["TokenDividendTracker"], NoArgs)) /\ Tx(op, db["TokenDividendTracker"], NoArgs).from = Deployer
           /\ Tx(op, db["TokenDividendTracker"], NoArgs).op = op
    BY <1>1, ArgsAreTyped, <2>2, TransactionsAreTyped
  <2>4. QED
    BY <2>1, <2>3
<1>6. CASE op = "initToken"
  <2> DEFINE args == [NoArgs EXCEPT !.impl = db["BIBTokenImpl"], !.admin = config.admin,
                                    !.busd = config.busd, !.router = config.router,
                                    !.tracker = db["TokenDividendTracker"]]
  <2>1. config.admin \in Addr
    BY <1>2, <1>6
  <2>2. args \in ArgsType
    BY <1>1, <1>2, <2>1, ArgsAreTyped
  <2>3. CallOf(op) = Tx(op, db["BIBToken"], args)
    BY <1>6 DEF CallOf
  <2> HIDE DEF args
  <2>4. op # "initAddress"
    BY <1>6
  <2>5. TxOK(Tx(op, db["BIBToken"], args)) /\ Tx(op, db["BIBToken"], args).from = Deployer
           /\ Tx(op, db["BIBToken"], args).op = op
    BY <1>1, <2>2, <2>4, TransactionsAreTyped
  <2>6. QED
    BY <2>3, <2>5
<1>7. CASE op = "initAddress"
  <2> DEFINE w == << script.made >> \o config.vaults
             args == [NoArgs EXCEPT !.wallets = w]
  <2>1. script.made \in Addr
    BY DEF Inv, ScriptOK, Addr
  <2>2. w \in Seq(Addr) /\ w # << >>
    BY <1>2, <2>1, OneMore
  <2>3. CallOf(op) = Tx(op, db["BIBToken"], args)
    BY <1>7 DEF CallOf
  <2> HIDE DEF w
  <2>4. args \in ArgsType /\ args.wallets = w
    BY <2>2, ArgsAreTyped
  <2> HIDE DEF args
  <2>5. QED
    BY <1>1, <1>7, <2>2, <2>3, <2>4, TransactionsAreTyped
<1>8. CASE op \in {"setAllowTransfer", "release"}
  <2>1. CallOf(op) = Tx(op, db["BIBToken"], NoArgs)
    BY <1>8 DEF CallOf
  <2>2. op # "initAddress"
    BY <1>8
  <2>3. TxOK(Tx(op, db["BIBToken"], NoArgs)) /\ Tx(op, db["BIBToken"], NoArgs).from = Deployer
           /\ Tx(op, db["BIBToken"], NoArgs).op = op
    BY <1>1, ArgsAreTyped, <2>2, TransactionsAreTyped
  <2>4. QED
    BY <2>1, <2>3
<1>9. QED
  BY <1>3, <1>4, <1>5, <1>6, <1>7, <1>8 DEF CallOps

LEMMA SendCallStep ==
    ASSUME Inv, SendCall
    PROVE  Inv'
<1>1. script.todo # << >> /\ Arg \in CallOps
  <2>1. script.todo # << >> /\ [op |-> "send", arg |-> Arg] \in StepType
    BY TheStep DEF SendCall, Inv
  <2>2. QED
    BY <2>1 DEF StepType, OtherOps
<1>2. UNCHANGED << config, chain, nonce, db >>
  BY DEF SendCall
<1>3. CASE Stop("failed") /\ UNCHANGED pending
  BY <1>2, <1>3, Stopping, QuietStep DEF Inv
<1>4. CASE /\ Arg \in {"initTracker", "initToken"} => config.admin # ""
           /\ Send(CallOf(Arg), Arg \in {"initTracker", "setController", "updateClaimWait"})
  <2>1. TxOK(CallOf(Arg)) /\ CallOf(Arg).from = Deployer /\ CallOf(Arg).op # "create"
    BY <1>1, <1>4, CallsAreTyped DEF CallOps
  <2>2. ScriptOK' /\ PendingOK'
    BY <1>1, <1>2, <1>4, <2>1, Sending
  <2>3. QED
    BY <1>2, <2>2 DEF Inv
<1>5. QED
  BY <1>3, <1>4 DEF SendCall

\* What is mined is the first of the pending transactions.
LEMMA MineStep ==
    ASSUME Inv, Mine
    PROVE  Inv' /\ (UNCHANGED chain \/ Keeps(chain, chain'))
<1> DEFINE tx == Head(pending)
<1>1. /\ pending \in Seq(TxType) /\ pending # << >>
      /\ \A i \in 1 .. Len(pending) :
            /\ TxOK(pending[i]) /\ pending[i].from = Deployer
            /\ pending[i].op = "create" => pending[i].to = nonce + i
  BY DEF Inv, PendingOK, Mine
<1>2. /\ tx = pending[1] /\ Len(pending) \in Nat \ {0}
      /\ Tail(pending) \in Seq(TxType) /\ Len(Tail(pending)) = Len(pending) - 1
      /\ \A i \in 1 .. Len(Tail(pending)) : Tail(pending)[i] = pending[i + 1]
  BY <1>1
<1>3. nonce \in Nat /\ nonce' = nonce + 1 /\ pending' = Tail(pending)
  BY DEF Inv, Mine
<1>4. TxOK(tx) /\ (tx.op = "create" => tx.to = nonce + 1)
  BY <1>1, <1>2
<1>5. DOMAIN chain \subseteq 1 .. nonce /\ ChainOK(chain)
  BY DEF Inv
<1>6. PendingOK'
  <2>1. ASSUME NEW i \in 1 .. Len(pending')
        PROVE  /\ TxOK(pending'[i]) /\ pending'[i].from = Deployer
               /\ pending'[i].op = "create" => pending'[i].to = nonce' + i
    <3>1. i \in Nat /\ i + 1 \in 1 .. Len(pending) /\ pending'[i] = pending[i + 1]
      BY <1>2, <1>3
    <3>2. nonce + (i + 1) = nonce' + i
      BY <1>3, <3>1
    <3>3. QED
      BY <1>1, <3>1, <3>2
  <2>2. QED
    BY <1>2, <1>3, <2>1 DEF PendingOK, TxOK
<1>7. ScriptOK'
  BY DEF Inv, ScriptOK, Mine
<1>8. CASE Reverts(chain, tx)
  <2>1. chain' = chain
    BY <1>8 DEF Mine
  <2>2. DOMAIN chain' \subseteq 1 .. nonce'
    BY <1>3, <1>5, <2>1
  <2>3. QED
    BY <1>3, <1>5, <1>6, <1>7, <2>1, <2>2 DEF Inv, Mine
<1>9. CASE ~Reverts(chain, tx)
  <2>1. chain' = Apply(chain, tx)
    BY <1>9 DEF Mine
  <2>2. tx.op = "create" => tx.to \in Nat \ {0} /\ tx.to \notin DOMAIN chain
    BY <1>3, <1>4, <1>5
  <2> HIDE DEF tx
  <2>3. /\ Keeps(chain, chain')
        /\ DOMAIN chain' = DOMAIN chain \cup (IF tx.op = "create" THEN {tx.to} ELSE {})
    BY <1>4, <1>5, <1>9, <2>1, <2>2, ApplyKeeps
  <2>4. DOMAIN chain' \subseteq 1 .. nonce'
    BY <1>3, <1>4, <1>5, <2>3
  <2>5. ChainOK(chain')
    BY <2>3 DEF Keeps
  <2>6. QED
    BY <1>3, <1>6, <1>7, <2>3, <2>4, <2>5 DEF Inv, Mine
<1>10. QED
  BY <1>8, <1>9

LEMMA StrangerStep ==
    ASSUME Inv, NEW tracker \in DOMAIN chain, NEW account \in {Stranger, db["BIBToken"]},
           SetControllerByStranger(tracker, account)
    PROVE  Inv' /\ Keeps(chain, chain')
<1> DEFINE args == [NoArgs EXCEPT !.account = account]
           tx == [Tx("setController", tracker, args) EXCEPT !.from = Stranger]
<1>1. account \in Addr
  <2>1. db["BIBToken"] \in Nat
    BY DEF Inv, eContractid
  <2>2. QED
    BY <2>1, DeployerAssumption DEF Addr
<1>2. args \in ArgsType
  BY <1>1, ArgsAreTyped
<1>3. tracker \in Nat
  BY DEF Inv
<1>4. TxOK(tx) /\ tx.op = "setController"
  <2> HIDE DEF args
  <2>1. QED
    BY <1>2, <1>3, DeployerAssumption DEF TxOK, TxType, Tx, CallOps
<1>5. ~Reverts(chain, tx) /\ chain' = Apply(chain, tx)
  BY DEF SetControllerByStranger
<1> HIDE DEF tx
<1>6. Keeps(chain, chain') /\ DOMAIN chain' = DOMAIN chain
  <2>1. ChainOK(chain)
    BY DEF Inv
  <2>2. QED
    BY <1>4, <1>5, <2>1, ApplyKeeps
<1>7. ScriptOK' /\ UNCHANGED << config, nonce, pending, db >>
  BY DEF Inv, ScriptOK, SetControllerByStranger
<1>8. QED
  BY <1>6, <1>7 DEF Inv, Keeps, PendingOK

LEMMA KillStep ==
    ASSUME Inv, Kill
    PROVE  Inv'
<1>1. ScriptOK'
  <2>1. << >> \in Seq(StepType)
    OBVIOUS
  <2>2. script' = [script EXCEPT !.status = "killed", !.todo = << >>]
    BY DEF Kill
  <2>3. QED
    BY <2>1, <2>2 DEF Inv, ScriptOK
<1>2. /\ pending \in Seq(TxType) /\ Len(pending) \in Nat /\ DOMAIN pending = 1 .. Len(pending)
      /\ \A i \in 1 .. Len(pending) :
            /\ TxOK(pending[i]) /\ pending[i].from = Deployer
            /\ pending[i].op = "create" => pending[i].to = nonce + i
  BY LenProperties DEF Inv, PendingOK
<1>3. ASSUME NEW tx, TxOK(tx)
      PROVE  LET u == [tx EXCEPT !.awaited = FALSE]
             IN  TxOK(u) /\ u.from = tx.from /\ u.op = tx.op /\ u.to = tx.to
  BY <1>3 DEF TxOK, TxType
<1>4. pending' = [i \in 1 .. Len(pending) |-> [pending[i] EXCEPT !.awaited = FALSE]]
  BY <1>2 DEF Kill
<1>5. \A i \in 1 .. Len(pending) :
        /\ TxOK(pending'[i]) /\ pending'[i].from = Deployer
        /\ pending'[i].op = "create" => pending'[i].to = nonce + i
  BY <1>2, <1>3, <1>4
<1>6. pending' \in Seq(TxType) /\ Len(pending') = Len(pending)
  BY <1>2, <1>4, <1>5 DEF TxOK
<1>7. UNCHANGED << config, chain, nonce, db >>
  BY DEF Kill
<1>8. PendingOK'
  BY <1>5, <1>6, <1>7 DEF PendingOK, TxOK
<1>9. QED
  BY <1>1, <1>7, <1>8 DEF Inv

LEMMA LoseStep ==
    ASSUME Inv, Lose
    PROVE  Inv'
<1>1. ScriptOK' /\ UNCHANGED << config, chain, nonce, db >>
  BY DEF Inv, ScriptOK, Lose
<1>2. /\ pending \in Seq(TxType) /\ Len(pending) \in Nat \ {0}
      /\ pending' = SubSeq(pending, 1, Len(pending) - 1)
  BY DEF Inv, PendingOK, Lose
<1>3. /\ pending' \in Seq(TxType) /\ Len(pending') = Len(pending) - 1
      /\ \A i \in 1 .. Len(pending') : i \in 1 .. Len(pending) /\ pending'[i] = pending[i]
  <2> DEFINE n == Len(pending) - 1
  <2>1. n \in 0 .. Len(pending)
    BY <1>2
  <2> HIDE DEF n
  <2>2. /\ SubSeq(pending, 1, n) \in Seq(TxType) /\ Len(SubSeq(pending, 1, n)) = n
        /\ \A i \in 1 .. n : SubSeq(pending, 1, n)[i] = pending[i]
    BY <1>2, <2>1, SubSeqProperties
  <2>3. QED
    BY <1>2, <2>1, <2>2 DEF n
<1>4. PendingOK'
  BY <1>1, <1>3 DEF Inv, PendingOK, TxOK
<1>5. QED
  BY <1>1, <1>4 DEF Inv

\* Every step keeps the invariant, and changes the chain as Keeps says, if at
\* all.
LEMMA NextKeeps ==
    ASSUME Inv, [Next]_vars
    PROVE  Inv' /\ (UNCHANGED chain \/ Keeps(chain, chain'))
<1>1. ASSUME NEW task \in Tasks, NEW verify \in BOOLEAN, Start(task, verify)
      PROVE  Inv' /\ UNCHANGED chain
  <2>1. Steps(task, verify) \in Seq(StepType)
    BY TaskSteps, TasksAssumption
  <2>2. ScriptOK'
    BY <1>1, <2>1 DEF Start, ScriptOK, NoScript
  <2>3. QED
    BY <1>1, <2>2, QuietStep DEF Start
<1>2. CASE CheckChainId \/ CheckAdmin \/ ReadDb \/ waitForTx
  <2>1. Running /\ script.todo # << >> /\ \E ok : ProceedIf(ok)
    BY <1>2 DEF CheckChainId, CheckAdmin, ReadDb, waitForTx, At
  <2>2. UNCHANGED << config, chain, nonce, pending, db >>
    BY <1>2 DEF CheckChainId, CheckAdmin, ReadDb, waitForTx
  <2>3. QED
    BY <2>1, <2>2, GoingOn, QuietStep DEF Inv
<1>3. CASE CheckVerification
  <2>1. ScriptOK'
    BY <1>3, GoingOn, Stopping DEF CheckVerification, At, Inv
  <2>2. QED
    BY <1>3, <2>1, QuietStep DEF CheckVerification
<1>4. CASE registerContractInJsonDb
  <2>1. ScriptOK'
    BY <1>4, GoingOn DEF registerContractInJsonDb, At, Inv
  <2>2. db' \in [eContractid -> Nat]
    BY <1>4 DEF registerContractInJsonDb, Inv, ScriptOK
  <2>3. QED
    BY <1>4, <2>1, <2>2 DEF registerContractInJsonDb, Inv, PendingOK
<1>5. CASE CreateContract
  BY <1>5, CreateContractStep DEF CreateContract
<1>6. CASE SendCall
  BY <1>6, SendCallStep DEF SendCall
<1>7. CASE VerifyThrows
  BY <1>7, Stopping, QuietStep DEF VerifyThrows, Inv
<1>8. CASE runTaskWithRetry
  <2>1. ScriptOK'
    <3>1. CASE Proceed
      BY <1>8, <3>1, GoingOn DEF runTaskWithRetry, At, Inv
    <3>2. CASE script' = [script EXCEPT !.tries = @ + 1]
      BY <3>2 DEF ScriptOK, Inv
    <3>3. QED
      BY <1>8, <3>1, <3>2 DEF runTaskWithRetry
  <2>2. QED
    BY <1>8, <2>1, QuietStep DEF runTaskWithRetry
<1>9. CASE Finish
  <2>1. ScriptOK'
    BY <1>9 DEF Finish, ScriptOK, Inv
  <2>2. QED
    BY <1>9, <2>1, QuietStep DEF Finish
<1>10. CASE Mine
  BY <1>10, MineStep
<1>11. CASE Kill
  BY <1>11, KillStep DEF Kill
<1>12. CASE Lose
  BY <1>12, LoseStep DEF Lose
<1>13. ASSUME NEW tracker \in DOMAIN chain, NEW account \in {Stranger, db["BIBToken"]},
              SetControllerByStranger(tracker, account)
       PROVE  Inv' /\ Keeps(chain, chain')
  BY <1>13, StrangerStep
<1>14. CASE UNCHANGED vars
  BY <1>14 DEF vars, Inv, PendingOK, ScriptOK
<1>15. QED
  BY <1>1, <1>2, <1>3, <1>4, <1>5, <1>6, <1>7, <1>8, <1>9, <1>10, <1>11, <1>12, <1>13, <1>14
     DEF Next, ScriptStep

(***************************************************************************)
(* The theorems.                                                           *)
(***************************************************************************)

LEMMA InvHolds == Spec => []Inv
<1>1. Inv /\ [Next]_vars => Inv'
  BY NextKeeps
<1>2. QED
  BY InitInv, <1>1, PTL DEF Spec

\* Types are kept, and a pending creation has the nonce of its place whatever
\* killed tasks have sent (contracts-helpers.ts:78-88).
THEOREM TypeCorrect == Spec => []TypeOK
<1>1. Inv => TypeOK
  BY LenProperties DEF Inv, TypeOK, ChainOK, ChainType, PendingOK, TxOK, TxType, ScriptOK
<1>2. QED
  BY InvHolds, <1>1, PTL

\* Every token reports to a tracker whose controller it is, so that no two
\* tokens share one: for any parameters, any number of runs of any of the
\* tasks, killed anywhere, lost transactions, and strangers who call
\* setController (BIBToken.sol:119, TokenDividendTracker.sol:36-39).
THEOREM TokensArePaired == Spec => []PairedWithItsToken
<1>1. Inv => PairedWithItsToken
  BY DEF Inv, PairedWithItsToken, ChainOK, TokenOK, TokensOf
<1>2. QED
  BY InvHolds, <1>1, PTL

\* The deployment implements Pairing: a token is paired once, with a tracker
\* no other token has, and goes live once, after that
\* (BIBToken.sol:95-143, 153-200).
THEOREM DeploymentImplementsPairing == Spec => ImplementsPairing
<1> DEFINE live == {t \in TokensOf(chain) : Live(chain, t)}
<1>1. Init => P!Init
  BY DEF Init, P!Init, PairsOf, TokensOf
<1>2. Inv /\ [Next]_vars => [P!Next]_P!vars
  <2> SUFFICES ASSUME Inv, [Next]_vars PROVE [P!Next]_P!vars
    OBVIOUS
  <2>1. UNCHANGED chain \/ Keeps(chain, chain')
    BY NextKeeps
  <2>2. LiveOf(chain) = live /\ LiveOf(chain') = live'
    BY DEF LiveOf
  <2>3. CASE UNCHANGED chain \/ SamePairs(chain, chain')
    BY <2>2, <2>3 DEF P!vars, SamePairs
  <2>4. CASE NewPair(chain, chain')
    <3>1. PICK t \in Nat, k \in Nat :
            /\ \A p \in PairsOf(chain) : p[1] # t /\ p[2] # k
            /\ PairsOf(chain') = PairsOf(chain) \cup {<< t, k >>}
      BY <2>4 DEF NewPair
    <3>2. live' = live
      BY <2>2, <2>4 DEF NewPair
    <3>3. P!Pair
      BY <3>1, <3>2 DEF P!Pair
    <3>4. QED
      BY <3>3 DEF P!Next
  <2>5. CASE NewLive(chain, chain')
    <3>1. P!GoLive
      BY <2>2, <2>5 DEF P!GoLive, NewLive
    <3>2. QED
      BY <3>1 DEF P!Next
  <2>6. QED
    BY <2>1, <2>3, <2>4, <2>5 DEF Keeps
<1>3. QED
  BY InvHolds, <1>1, <1>2, PTL DEF Spec, ImplementsPairing, P!Spec

(***************************************************************************)
(* No gas is lost to the verification.  A migration that cannot verify has *)
(* nothing but checks before the one that stops it.                        *)
(***************************************************************************)

ChecksFirst(s) ==
    \E j \in 1 .. Len(s) :
       s[j].op = "checkVerification" /\ \A i \in 1 .. j - 1 : s[i].op = "admin"

MustStop == script.task \in Migrations /\ script.verify /\ ~CanVerify

GasInv == MustStop => ~script.hasSent /\ (Running => ChecksFirst(script.todo))

LEMMA OneStep ==
    ASSUME NEW S, NEW x \in S
    PROVE  << x >> \in Seq(S) /\ Len(<< x >>) = 1 /\ << x >>[1] = x
OBVIOUS

\* With --verify, every migration begins with its checks.
LEMMA MigrationsCheckFirst ==
    ASSUME NEW task \in Migrations
    PROVE  ChecksFirst(Steps(task, TRUE))
<1> DEFINE a == [op |-> "admin", arg |-> ""]
           v == [op |-> "checkVerification", arg |-> ""]
           R == DeployBIBTokenTask(TRUE) \o DeployTrackerTask(TRUE)
                  \o InitializeTrackerTask \o InitializeBIBTokenTask
<1>1. /\ a \in StepType /\ v \in StepType
      /\ a.op = "admin" /\ v.op = "checkVerification"
  BY DEF StepType, OtherOps
<1>8. Do("admin", "") = << a >> /\ checkVerification(TRUE) = << v >>
  BY DEF Do, checkVerification, When
<1> HIDE DEF a, v
<1>2. /\ DeployBIBTokenTask(TRUE) \in Seq(StepType) /\ DeployTrackerTask(TRUE) \in Seq(StepType)
      /\ InitializeTrackerTask \in Seq(StepType) /\ InitializeBIBTokenTask \in Seq(StepType)
  BY DeployTaskSteps, InitializeTaskSteps
<1>3. R \in Seq(StepType)
  BY <1>2, ConcatProperties
<1>4. ASSUME NEW s \in Seq(StepType), ChecksFirst(s), NEW r \in Seq(StepType)
      PROVE  ChecksFirst(s \o r)
  <2>1. PICK j \in 1 .. Len(s) :
           s[j].op = "checkVerification" /\ \A i \in 1 .. j - 1 : s[i].op = "admin"
    BY <1>4 DEF ChecksFirst
  <2>2. /\ Len(s) \in Nat /\ Len(r) \in Nat /\ Len(s \o r) = Len(s) + Len(r)
        /\ \A i \in 1 .. Len(s) : (s \o r)[i] = s[i]
    BY LenProperties, ConcatProperties
  <2>3. j \in 1 .. Len(s \o r) /\ \A i \in 1 .. j : (s \o r)[i] = s[i]
    BY <2>1, <2>2
  <2>4. QED
    BY <2>1, <2>3 DEF ChecksFirst
<1>5. ASSUME NEW s \in Seq(StepType), ChecksFirst(s)
      PROVE  ChecksFirst(<< a >> \o s)
  <2>1. PICK j \in 1 .. Len(s) :
           s[j].op = "checkVerification" /\ \A i \in 1 .. j - 1 : s[i].op = "admin"
    BY <1>5 DEF ChecksFirst
  <2>2. << a >> \in Seq(StepType) /\ Len(<< a >>) = 1 /\ << a >>[1] = a
    BY <1>1, OneStep
  <2> DEFINE u == << a >> \o s
  <2>3. /\ Len(s) \in Nat /\ Len(u) = Len(s) + 1 /\ u[1] = a
        /\ \A i \in 1 .. Len(s) : u[i + 1] = s[i]
    <3>1. /\ Len(s) \in Nat /\ Len(u) = Len(<< a >>) + Len(s)
          /\ \A i \in 1 .. Len(u) :
                u[i] = IF i <= Len(<< a >>) THEN << a >>[i] ELSE s[i - Len(<< a >>)]
      BY <2>2, LenProperties, ConcatProperties
    <3> HIDE DEF u
    <3>2. QED
      BY <2>2, <3>1
  <2> HIDE DEF u
  <2>4. j + 1 \in 1 .. Len(u) /\ u[j + 1].op = "checkVerification"
    BY <2>1, <2>3
  <2>5. ASSUME NEW i \in 1 .. (j + 1) - 1
        PROVE  u[i].op = "admin"
    <3>1. CASE i = 1
      BY <1>1, <2>3, <3>1
    <3>2. CASE i # 1
      <4>1. i - 1 \in 1 .. Len(s) /\ i - 1 \in 1 .. j - 1 /\ (i - 1) + 1 = i
        BY <2>1, <2>3, <3>2
      <4>2. QED
        BY <2>1, <2>3, <4>1
    <3>3. QED
      BY <3>1, <3>2
  <2>6. QED
    BY <2>4, <2>5 DEF ChecksFirst, u
<1>6. << v >> \in Seq(StepType) /\ ChecksFirst(<< v >>)
  <2>1. << v >> \in Seq(StepType) /\ Len(<< v >>) = 1 /\ << v >>[1] = v
    BY <1>1, OneStep
  <2>2. QED
    BY <1>1, <2>1 DEF ChecksFirst
<1>7. << a >> \in Seq(StepType)
  BY <1>1, OneStep
<1> DEFINE av == << a >> \o << v >>
<1>9. av \in Seq(StepType) /\ ChecksFirst(av)
  BY <1>5, <1>6, <1>7, ConcatProperties
<1>10. DeploymentTask(TRUE) \in Seq(StepType) /\ ChecksFirst(DeploymentTask(TRUE))
  <2> DEFINE x1 == av \o DeployBIBTokenTask(TRUE)
             x2 == x1 \o DeployTrackerTask(TRUE)
             x3 == x2 \o InitializeTrackerTask
             x4 == x3 \o InitializeBIBTokenTask
  <2>1. DeploymentTask(TRUE) = x4
    BY <1>8 DEF DeploymentTask
  <2> HIDE DEF av
  <2>2. x1 \in Seq(StepType) /\ ChecksFirst(x1)
    BY <1>2, <1>4, <1>9, ConcatProperties
  <2> HIDE DEF x1
  <2>3. x2 \in Seq(StepType) /\ ChecksFirst(x2)
    BY <1>2, <1>4, <2>2, ConcatProperties
  <2> HIDE DEF x2
  <2>4. x3 \in Seq(StepType) /\ ChecksFirst(x3)
    BY <1>2, <1>4, <2>3, ConcatProperties
  <2> HIDE DEF x3
  <2>5. x4 \in Seq(StepType) /\ ChecksFirst(x4)
    BY <1>2, <1>4, <2>4, ConcatProperties
  <2>6. QED
    BY <2>1, <2>5
<1>11. ChecksFirst(BscDeploymentTask(TRUE))
  BY <1>5, <1>8, <1>10 DEF BscDeploymentTask
<1>12. ChecksFirst(BscTestDeploymentTask(TRUE)) /\ ChecksFirst(DevDeploymentTask(TRUE))
  <2>1. ChecksFirst(av \o DeploymentTask(TRUE))
    BY <1>4, <1>9, <1>10
  <2>2. QED
    BY <1>8, <2>1 DEF BscTestDeploymentTask, DevDeploymentTask
<1>13. QED
  BY <1>10, <1>11, <1>12 DEF Steps, Migrations

LEMMA GasStep ==
    ASSUME Inv, GasInv, [Next]_vars
    PROVE  GasInv'
<1> USE DEF MustStop
<1>1. CanVerify' = CanVerify
  <2>1. config' = config
    BY DEF Next, vars, ScriptStep, Start, CheckChainId, CheckAdmin, CheckVerification, ReadDb,
           registerContractInJsonDb, CreateContract, SendCall, waitForTx, VerifyThrows,
           runTaskWithRetry, Finish, Mine, Kill, Lose, SetControllerByStranger
  <2>2. QED
    BY <2>1 DEF CanVerify
<1>2. script.todo \in Seq(StepType) /\ ScriptOK
  BY DEF Inv, ScriptOK
<1>3. CASE UNCHANGED << script >>
  BY <1>1, <1>3 DEF GasInv, Running
<1>4. ASSUME NEW task \in Tasks, NEW verify \in BOOLEAN, Start(task, verify)
      PROVE  GasInv'
  <2>1. /\ script'.task = task /\ script'.verify = verify /\ script'.hasSent = FALSE
        /\ script'.todo = Steps(task, verify)
    BY <1>4 DEF Start, NoScript
  <2>2. task \in Migrations /\ verify => ChecksFirst(Steps(task, verify))
    BY MigrationsCheckFirst
  <2>3. QED
    BY <2>1, <2>2 DEF GasInv
<1>5. CASE \/ UNCHANGED << script.task, script.verify, script.hasSent >> /\ ~Running'
  BY <1>1, <1>5 DEF GasInv
<1>6. ASSUME MustStop, Running
      PROVE  /\ script.todo # << >>
             /\ script.todo[1].op \in {"admin", "checkVerification"}
             /\ script.todo[1].op = "admin" => ChecksFirst(Tail(script.todo))
  <2>1. PICK j \in 1 .. Len(script.todo) :
           /\ script.todo[j].op = "checkVerification"
           /\ \A i \in 1 .. j - 1 : script.todo[i].op = "admin"
    BY <1>6 DEF GasInv, ChecksFirst
  <2>2. Len(script.todo) \in Nat \ {0}
    BY <1>2, <2>1, LenProperties
  <2>3. script.todo # << >>
    BY <2>2, <1>2, EmptySeq
  <2>4. /\ Len(Tail(script.todo)) = Len(script.todo) - 1
        /\ \A i \in 1 .. Len(Tail(script.todo)) : Tail(script.todo)[i] = script.todo[i + 1]
    BY <1>2, <2>2, <2>3, HeadTailProperties
  <2>5. script.todo[1].op = "admin" => j # 1
    BY <2>1
  <2>6. script.todo[1].op = "admin" =>
          /\ j - 1 \in 1 .. Len(Tail(script.todo))
          /\ Tail(script.todo)[j - 1].op = "checkVerification"
          /\ \A i \in 1 .. (j - 1) - 1 : Tail(script.todo)[i].op = "admin"
    BY <2>1, <2>2, <2>4, <2>5
  <2>7. script.todo[1].op \in {"admin", "checkVerification"}
    BY <2>1, <2>2
  <2>8. QED
    BY <2>3, <2>6, <2>7 DEF ChecksFirst
<1>7. Head(script.todo) = script.todo[1]
  BY <1>2
<1>8. CASE CheckAdmin
  <2>1. CASE Proceed
    <3>1. /\ UNCHANGED << script.task, script.verify, script.hasSent, script.status >>
          /\ script'.todo = Tail(script.todo)
      BY <1>2, <2>1 DEF Proceed, ScriptOK
    <3>2. MustStop /\ Running => ChecksFirst(Tail(script.todo))
      BY <1>6, <1>7, <1>8 DEF CheckAdmin, At
    <3>3. QED
      BY <1>1, <3>1, <3>2 DEF GasInv, Running
  <2>2. CASE Stop("failed")
    <3>1. UNCHANGED << script.task, script.verify, script.hasSent >> /\ ~Running'
      BY <1>2, <2>2 DEF Stop, ScriptOK, Running
    <3>2. QED
      BY <1>5, <3>1
  <2>3. QED
    BY <1>8, <2>1, <2>2 DEF CheckAdmin, ProceedIf
<1>9. CASE CheckVerification
  <2>1. CASE CanVerify
    BY <1>1, <2>1 DEF GasInv
  <2>2. CASE ~CanVerify
    <3>1. Stop("exited")
      BY <1>9, <2>2 DEF CheckVerification
    <3>2. UNCHANGED << script.task, script.verify, script.hasSent >> /\ ~Running'
      BY <1>2, <3>1 DEF Stop, ScriptOK, Running
    <3>3. QED
      BY <1>5, <3>2
  <2>3. QED
    BY <2>1, <2>2
<1>10. ASSUME NEW op \in {"chainId", "read", "register", "create", "send", "await", "verify"},
              At(op), UNCHANGED << script.task, script.verify >>
       PROVE  GasInv'
  <2>1. ~MustStop
    BY <1>6, <1>7, <1>10 DEF At
  <2>2. QED
    BY <1>1, <1>10, <2>1 DEF GasInv
<1>11. ASSUME NEW ok, ProceedIf(ok) \/ Proceed
       PROVE  UNCHANGED << script.task, script.verify >>
  BY <1>2, <1>11 DEF ProceedIf, Proceed, Stop, ScriptOK
<1>12. CASE CheckChainId \/ ReadDb \/ waitForTx \/ registerContractInJsonDb
  BY <1>10, <1>11, <1>12 DEF CheckChainId, ReadDb, waitForTx, registerContractInJsonDb
<1>13. ASSUME NEW tx, NEW estimated, Send(tx, estimated)
       PROVE  UNCHANGED << script.task, script.verify >>
  BY <1>2, <1>13 DEF Send, Stop, ScriptOK
<1>14. CASE CreateContract
  BY <1>10, <1>13, <1>14 DEF CreateContract
<1>15. CASE SendCall
  <2>1. UNCHANGED << script.task, script.verify >>
    BY <1>2, <1>13, <1>15 DEF SendCall, Stop, ScriptOK
  <2>2. QED
    BY <1>10, <1>15, <2>1 DEF SendCall
<1>16. CASE VerifyThrows \/ runTaskWithRetry
  <2>1. UNCHANGED << script.task, script.verify >>
    BY <1>2, <1>11, <1>16 DEF VerifyThrows, runTaskWithRetry, Stop, Proceed, ScriptOK
  <2>2. QED
    BY <1>10, <1>16, <2>1 DEF VerifyThrows, runTaskWithRetry
<1>17. CASE Finish \/ Kill
  <2>1. UNCHANGED << script.task, script.verify, script.hasSent >> /\ ~Running'
    BY <1>2, <1>17 DEF Finish, Kill, ScriptOK, Running
  <2>2. QED
    BY <1>5, <2>1
<1>18. CASE Mine \/ Lose
  <2>1. /\ UNCHANGED << script.task, script.verify, script.hasSent, script.status >>
        /\ script'.todo = script.todo
    BY <1>2, <1>18 DEF Mine, Lose, ScriptOK
  <2>2. QED
    BY <1>1, <2>1 DEF GasInv, Running
<1>19. ASSUME NEW tracker, NEW account, SetControllerByStranger(tracker, account)
       PROVE  GasInv'
  <2>1. /\ UNCHANGED << script.task, script.verify, script.hasSent, script.status >>
        /\ script'.todo = script.todo
    BY <1>2, <1>19 DEF SetControllerByStranger, ScriptOK
  <2>2. QED
    BY <1>1, <2>1 DEF GasInv, Running
<1>20. QED
  BY <1>3, <1>4, <1>8, <1>9, <1>12, <1>14, <1>15, <1>16, <1>17, <1>18, <1>19
     DEF Next, ScriptStep, vars

\* With --verify, a migration that cannot verify contracts sends no
\* transaction, whatever its parameters and whatever ran before
\* (deployment.ts:26, "to prevent loss of gas in failed deployments").
THEOREM NoGasIsLost == Spec => []NoGasLostToVerification
<1>1. Init => GasInv
  <2> SUFFICES ASSUME Init PROVE GasInv
    OBVIOUS
  <2>1. script = NoScript
    BY DEF Init
  <2>2. script.hasSent = FALSE /\ script.status = "idle"
    BY <2>1 DEF NoScript
  <2>3. QED
    BY <2>2 DEF GasInv, Running
<1>2. Inv /\ GasInv /\ [Next]_vars => GasInv'
  BY GasStep
<1>3. GasInv => NoGasLostToVerification
  BY DEF GasInv, MustStop, NoGasLostToVerification
<1>4. QED
  BY InvHolds, <1>1, <1>2, <1>3, PTL DEF Spec

(***************************************************************************)
(* What a live token relies on.  Here g is the configuration.              *)
(***************************************************************************)

\* A proxy is initialized with the configured administrator and reward token.
\* A token's address runs the token's code, a tracker with a controller the
\* tracker's.  The accounts that earn no dividends are excluded together with
\* the step that needs it, and what has been released had been allowed.
LinkOK(c, g, a) ==
    /\ c[a].impl # NOBODY =>
         /\ c[a].kind = "Proxy" /\ c[a].impl \in DOMAIN c
         /\ c[a].admin = g.admin /\ c[a].busd = g.busd /\ c[a].busd # 0
         /\ c[a].owner = Deployer
    /\ c[a].tracker # 0 =>
         /\ Code(c, a) = "BIBToken"
         /\ {a, c[a].tracker, Deployer, Dead} \subseteq c[c[a].tracker].excluded
         /\ c[a].reserve = 0 => c[a].allow
    /\ c[a].cntr # 0 => Code(c, a) = "TokenDividendTracker"
    /\ c[a].wallets # << >> =>
         /\ c[a].admin # Deployer
         /\ Len(c[a].wallets) = 8 /\ Tail(c[a].wallets) = g.vaults
         /\ \A i, j \in DOMAIN c[a].wallets :
               c[a].wallets[i] # 0 /\ (i # j => c[a].wallets[i] # c[a].wallets[j])
         /\ {c[a].wallets[i] : i \in DOMAIN c[a].wallets} \subseteq c[c[a].tracker].excluded

Linked(c, g) == \A a \in DOMAIN c : LinkOK(c, g, a)

\* A transaction with the arguments the tasks take from the configuration.
TxLinked(tx, g) ==
    /\ tx.from = Deployer \/ tx.op = "setController"
    /\ tx.op \in {"initTracker", "initToken"} => tx.args.admin = g.admin /\ tx.args.busd = g.busd
    /\ tx.op = "initAddress" => Len(tx.args.wallets) = 8 /\ Tail(tx.args.wallets) = g.vaults

\* What no transaction takes back.
Grows(c, d) ==
    /\ DOMAIN c \subseteq DOMAIN d
    /\ \A a \in DOMAIN c :
          /\ d[a].kind = c[a].kind
          /\ c[a].impl # NOBODY => d[a].impl = c[a].impl
          /\ c[a].excluded \subseteq d[a].excluded
          /\ c[a].claimWait = ClaimWait => d[a].claimWait = ClaimWait
          /\ d[a].beneficiary = c[a].beneficiary
          /\ c[a].cntr # 0 => d[a].cntr = c[a].cntr
          /\ c[a].tracker # 0 => d[a].tracker = c[a].tracker
          /\ c[a].wallets # << >> => d[a].wallets = c[a].wallets
          /\ c[a].allow => d[a].allow
          /\ (c[a].tracker # 0 /\ c[a].reserve = 0) => d[a].reserve = 0

LiveStays(c, d) ==
    \A t \in TokensOf(c) : Live(c, t) => d[t] = c[t] /\ d[c[t].tracker] = c[c[t].tracker]

\* Controllers come from setController only.
ControlledFrom(c, d, tx) ==
    \A a \in DOMAIN d : d[a].cntr # 0 =>
        \/ a \in DOMAIN c /\ d[a].cntr = c[a].cntr
        \/ tx.op = "setController" /\ a = tx.to

Preserves(c, d, g, tx) ==
    Grows(c, d) /\ Linked(d, g) /\ LiveStays(c, d) /\ ControlledFrom(c, d, tx)

NoTokenOf(c, k) == \A t \in DOMAIN c : c[t].tracker # k

LEMMA CodeStays ==
    ASSUME NEW c, NEW d, ChainType(c), Grows(c, d), NEW a, Code(c, a) # "none"
    PROVE  a \in DOMAIN c /\ Code(d, a) = Code(c, a)
BY DEF Code, IsContract, Grows, ChainType, NOBODY

\* A contract whose own fields stay, remains linked.
LEMMA LinkStays ==
    ASSUME NEW c, NEW d, NEW g, ChainType(c), Grows(c, d), NEW a \in DOMAIN c,
           TokenOK(c, a), LinkOK(c, g, a),
           d[a].impl = c[a].impl, d[a].admin = c[a].admin, d[a].busd = c[a].busd,
           d[a].owner = c[a].owner, d[a].tracker = c[a].tracker,
           d[a].reserve = c[a].reserve, d[a].cntr = c[a].cntr, d[a].wallets = c[a].wallets,
           c[a].allow => d[a].allow
    PROVE  LinkOK(d, g, a)
<1>1. /\ Code(c, a) = "BIBToken" => Code(d, a) = "BIBToken"
      /\ Code(c, a) = "TokenDividendTracker" => Code(d, a) = "TokenDividendTracker"
  BY CodeStays
<1>2. c[a].tracker # 0 => c[c[a].tracker].excluded \subseteq d[c[a].tracker].excluded
  BY DEF TokenOK, Grows
<1>3. c[a].wallets # << >> => c[a].tracker # 0
  BY DEF TokenOK
<1>4. d[a].kind = c[a].kind /\ DOMAIN c \subseteq DOMAIN d
  BY DEF Grows
<1>5. d[a].impl # NOBODY =>
         /\ d[a].kind = "Proxy" /\ d[a].impl \in DOMAIN d
         /\ d[a].admin = g.admin /\ d[a].busd = g.busd /\ d[a].busd # 0
         /\ d[a].owner = Deployer
  BY <1>4 DEF LinkOK
<1>6. d[a].tracker # 0 =>
         /\ Code(d, a) = "BIBToken"
         /\ {a, d[a].tracker, Deployer, Dead} \subseteq d[d[a].tracker].excluded
         /\ d[a].reserve = 0 => d[a].allow
  <2>1. c[a].tracker # 0 =>
         /\ Code(c, a) = "BIBToken"
         /\ {a, c[a].tracker, Deployer, Dead} \subseteq c[c[a].tracker].excluded
         /\ c[a].reserve = 0 => c[a].allow
    BY DEF LinkOK
  <2>2. QED
    BY <1>1, <1>2, <2>1
<1>7. d[a].cntr # 0 => Code(d, a) = "TokenDividendTracker"
  BY <1>1 DEF LinkOK
<1>8. d[a].wallets # << >> =>
         /\ d[a].admin # Deployer
         /\ Len(d[a].wallets) = 8 /\ Tail(d[a].wallets) = g.vaults
         /\ \A i, j \in DOMAIN d[a].wallets :
               d[a].wallets[i] # 0 /\ (i # j => d[a].wallets[i] # d[a].wallets[j])
         /\ {d[a].wallets[i] : i \in DOMAIN d[a].wallets} \subseteq d[d[a].tracker].excluded
  BY <1>2, <1>3 DEF LinkOK
<1>9. QED
  BY <1>5, <1>6, <1>7, <1>8 DEF LinkOK

\* A live token and its tracker: what they have can be said at once.
LEMMA LiveFacts ==
    ASSUME NEW c, ChainOK(c), NEW g, Linked(c, g), NEW t \in TokensOf(c)
    PROVE  /\ t \in DOMAIN c /\ c[t].tracker \in DOMAIN c /\ c[t].tracker # 0
           /\ c[c[t].tracker].cntr = t /\ t # 0
           /\ Code(c, t) = "BIBToken" /\ Code(c, c[t].tracker) = "TokenDividendTracker"
           /\ c[t].impl # NOBODY /\ c[t].kind = "Proxy"
           /\ c[c[t].tracker].kind = "Proxy" => c[c[t].tracker].impl # NOBODY
<1>1. t \in DOMAIN c /\ c[t].tracker # 0 /\ TokenOK(c, t) /\ LinkOK(c, g, t)
  BY DEF TokensOf, ChainOK, Linked
<1>2. /\ c[t].tracker \in DOMAIN c /\ c[c[t].tracker].cntr = t /\ t # 0
      /\ c[t].impl # NOBODY /\ c[t].kind = "Proxy"
  BY <1>1 DEF TokenOK, ChainOK, ChainType
<1>3. LinkOK(c, g, c[t].tracker)
  BY <1>2 DEF Linked
<1>4. Code(c, t) = "BIBToken" /\ Code(c, c[t].tracker) = "TokenDividendTracker"
  BY <1>1, <1>2, <1>3 DEF LinkOK
<1>5. c[c[t].tracker].kind = "Proxy" => c[c[t].tracker].impl # NOBODY
  BY <1>4 DEF Code, IsContract, ChainOK, ChainType, NOBODY
<1>6. QED
  BY <1>1, <1>2, <1>4, <1>5

\* Where a proxy is not initialized, nothing else has happened.
LEMMA FreshProxy ==
    ASSUME NEW c, ChainOK(c), NEW g, Linked(c, g), NEW a \in DOMAIN c,
           c[a].kind = "Proxy", c[a].impl = NOBODY
    PROVE  /\ Code(c, a) = "none" /\ c[a].cntr = 0 /\ c[a].tracker = 0
           /\ c[a].wallets = << >>
           /\ \A t \in TokensOf(c) : t # a /\ c[t].tracker # a
<1>1. Code(c, a) = "none"
  BY DEF Code, IsContract, ChainOK, ChainType, NOBODY
<1>2. TokenOK(c, a) /\ LinkOK(c, g, a)
  BY DEF ChainOK, Linked
<1>3. c[a].cntr = 0 /\ c[a].tracker = 0 /\ c[a].wallets = << >>
  BY <1>1, <1>2 DEF TokenOK, LinkOK
<1>4. \A t \in TokensOf(c) : t # a /\ c[t].tracker # a
  BY <1>1, LiveFacts
<1>5. QED
  BY <1>1, <1>3, <1>4

LEMMA CreatePreserves ==
    ASSUME NEW c, ChainOK(c), NEW g, Linked(c, g), NEW tx, tx.to \notin DOMAIN c
    PROVE  Preserves(c, Create(c, tx), g, tx)
<1> DEFINE d == Create(c, tx)
           new == Fresh(tx.args.kind, tx.args.account)
<1>1. DOMAIN d = DOMAIN c \cup {tx.to} /\ \A a \in DOMAIN c : d[a] = c[a]
  BY DEF Create
<1>2. d[tx.to] = new
  BY DEF Create
<1>3. new.impl = NOBODY /\ new.tracker = 0 /\ new.cntr = 0 /\ new.wallets = << >>
  BY DEF Fresh
<1> HIDE DEF d, new
<1>4. Grows(c, d)
  BY <1>1 DEF Grows
<1>5. Linked(d, g)
  <2>1. LinkOK(d, g, tx.to)
    BY <1>2, <1>3 DEF LinkOK
  <2>2. \A a \in DOMAIN c : LinkOK(d, g, a)
    BY <1>1, <1>4, LinkStays DEF ChainOK, Linked
  <2>3. QED
    BY <1>1, <2>1, <2>2 DEF Linked
<1>6. LiveStays(c, d)
  BY <1>1, LiveFacts DEF LiveStays
<1>7. ControlledFrom(c, d, tx)
  BY <1>1, <1>2, <1>3 DEF ControlledFrom
<1>8. QED
  BY <1>4, <1>5, <1>6, <1>7 DEF Preserves, d

LEMMA InitTrackerPreserves ==
    ASSUME NEW c, ChainOK(c), NEW g, Linked(c, g), NEW tx, TxOK(tx), TxLinked(tx, g),
           tx.op = "initTracker", ~NotAFreshProxy(c, tx, InitTrackerReverts(c, tx))
    PROVE  Preserves(c, InitTracker(c, tx), g, tx)
<1> DEFINE d == InitTracker(c, tx)
           r == [[c[tx.to] EXCEPT !.impl = tx.args.impl, !.admin = tx.args.admin]
                   EXCEPT !.owner = tx.from, !.busd = tx.args.busd]
<1>1. /\ tx.to \in DOMAIN c /\ c[tx.to].kind = "Proxy" /\ c[tx.to].impl = NOBODY
      /\ tx.args.impl \in DOMAIN c /\ tx.args.busd # 0
  BY DEF NotAFreshProxy, IsContract, ProxyInitializeReverts, InitTrackerReverts
<1>2. tx.args.admin = g.admin /\ tx.args.busd = g.busd /\ tx.from = Deployer
  BY DEF TxLinked
<1>3. c \in [DOMAIN c -> ContractType]
  BY DEF ChainOK, ChainType
<1>4. d = [c EXCEPT ![tx.to] = r]
  BY DEF InitTracker, ProxyInitialize
<1>5. /\ r.kind = c[tx.to].kind /\ r.impl = tx.args.impl /\ r.admin = tx.args.admin
      /\ r.busd = tx.args.busd /\ r.owner = tx.from /\ r.tracker = c[tx.to].tracker
      /\ r.cntr = c[tx.to].cntr /\ r.wallets = c[tx.to].wallets
      /\ r.excluded = c[tx.to].excluded /\ r.claimWait = c[tx.to].claimWait
      /\ r.beneficiary = c[tx.to].beneficiary /\ r.allow = c[tx.to].allow
      /\ r.reserve = c[tx.to].reserve
  BY <1>1, <1>3 DEF ContractType
<1> HIDE DEF r
<1>6. /\ DOMAIN d = DOMAIN c /\ d[tx.to] = r
      /\ \A a \in DOMAIN c \ {tx.to} : d[a] = c[a]
  BY <1>1, <1>3, <1>4
<1> HIDE DEF d
<1>7. Grows(c, d)
  BY <1>1, <1>5, <1>6 DEF Grows
<1>8. Linked(d, g)
  <2>1. LinkOK(d, g, tx.to)
    <3>1. c[tx.to].tracker = 0 /\ c[tx.to].cntr = 0 /\ c[tx.to].wallets = << >>
      BY <1>1, FreshProxy
    <3>2. QED
      BY <1>1, <1>2, <1>5, <1>6, <3>1 DEF LinkOK
  <2>2. \A a \in DOMAIN c \ {tx.to} : LinkOK(d, g, a)
    BY <1>6, <1>7, LinkStays DEF ChainOK, Linked
  <2>3. QED
    BY <1>6, <2>1, <2>2 DEF Linked
<1>9. LiveStays(c, d)
  BY <1>1, <1>6, FreshProxy, LiveFacts DEF LiveStays
<1>10. ControlledFrom(c, d, tx)
  BY <1>5, <1>6 DEF ControlledFrom
<1>11. QED
  BY <1>7, <1>8, <1>9, <1>10 DEF Preserves, d

LEMMA InitTokenPreserves ==
    ASSUME NEW c, ChainOK(c), NEW g, Linked(c, g), NEW tx, TxOK(tx), TxLinked(tx, g),
           tx.op = "initToken", ~NotAFreshProxy(c, tx, InitTokenReverts(c, tx))
    PROVE  Preserves(c, InitToken(c, tx), g, tx)
<1> DEFINE d == InitToken(c, tx)
           t == tx.to
           k == tx.args.tracker
           r == [[c[t] EXCEPT !.impl = tx.args.impl, !.admin = tx.args.admin]
                   EXCEPT !.owner = tx.from, !.busd = tx.args.busd,
                          !.tracker = k, !.reserve = 100]
           e == [c EXCEPT ![t] = r]
           q == [c[k] EXCEPT !.excluded = @ \cup FirstExcluded(tx)]
<1>1. /\ t \in DOMAIN c /\ c[t].kind = "Proxy" /\ c[t].impl = NOBODY
      /\ tx.args.impl \in DOMAIN c /\ tx.args.busd # 0
      /\ c[tx.args.impl].kind = "BIBToken"
      /\ Code(c, k) = "TokenDividendTracker" /\ c[k].cntr = t
  BY DEF NotAFreshProxy, IsContract, ProxyInitializeReverts, InitTokenReverts, ControlledBy,
         Reaches
<1>2. tx.args.admin = g.admin /\ tx.args.busd = g.busd /\ tx.from = Deployer
  BY DEF TxLinked
<1>3. c \in [DOMAIN c -> ContractType] /\ DOMAIN c \subseteq Nat \ {0}
  BY DEF ChainOK, ChainType
<1>4. Code(c, t) = "none" /\ c[t].cntr = 0 /\ c[t].wallets = << >> /\ c[t].tracker = 0
      /\ \A a \in TokensOf(c) : a # t /\ c[a].tracker # t
  BY <1>1, FreshProxy
<1>5. k \in DOMAIN c /\ k # t /\ k # 0
  BY <1>1, <1>3, <1>4 DEF Code, IsContract
<1>6. \A a \in TokensOf(c) : c[a].tracker # k /\ a # k
  <2>1. \A a \in TokensOf(c) : c[c[a].tracker].cntr = a /\ Code(c, a) = "BIBToken"
    BY LiveFacts
  <2>2. QED
    BY <1>1, <1>4, <2>1
<1>7. e[k] = c[k] /\ e[t] = r /\ DOMAIN e = DOMAIN c
  BY <1>1, <1>3, <1>5
<1>8. d = [e EXCEPT ![k] = q]
  <2>1. d = [e EXCEPT ![k] = [e[k] EXCEPT !.excluded = @ \cup FirstExcluded(tx)]]
    BY DEF InitToken, ProxyInitialize
  <2>2. QED
    BY <1>7, <2>1
<1>9. /\ r.kind = c[t].kind /\ r.impl = tx.args.impl /\ r.admin = tx.args.admin
      /\ r.busd = tx.args.busd /\ r.owner = tx.from /\ r.tracker = k
      /\ r.cntr = c[t].cntr /\ r.wallets = c[t].wallets /\ r.reserve = 100
      /\ r.excluded = c[t].excluded /\ r.claimWait = c[t].claimWait
      /\ r.beneficiary = c[t].beneficiary /\ r.allow = c[t].allow
  <2>1. c[t] \in ContractType
    BY <1>1, <1>3
  <2>2. QED
    BY <2>1 DEF ContractType
<1>10. /\ q.kind = c[k].kind /\ q.impl = c[k].impl /\ q.admin = c[k].admin
       /\ q.busd = c[k].busd /\ q.owner = c[k].owner /\ q.tracker = c[k].tracker
       /\ q.cntr = c[k].cntr /\ q.wallets = c[k].wallets /\ q.reserve = c[k].reserve
       /\ q.allow = c[k].allow /\ q.claimWait = c[k].claimWait
       /\ q.beneficiary = c[k].beneficiary
       /\ q.excluded = c[k].excluded \cup FirstExcluded(tx)
  BY <1>3, <1>5 DEF ContractType
<1>11. /\ DOMAIN d = DOMAIN c /\ d[t] = r /\ d[k] = q
       /\ \A a \in DOMAIN c \ {t, k} : d[a] = c[a]
  BY <1>1, <1>3, <1>5, <1>7, <1>8
<1> HIDE DEF d, r, e, q
<1>12. Grows(c, d)
  BY <1>1, <1>4, <1>9, <1>10, <1>11 DEF Grows
<1>13. Linked(d, g)
  <2>1. LinkOK(d, g, t)
    <3>1. Code(d, t) = "BIBToken"
      <4>1. d[tx.args.impl].kind = "BIBToken" /\ tx.args.impl \in DOMAIN d
        BY <1>1, <1>12 DEF Grows
      <4>2. QED
        BY <1>1, <1>9, <1>11, <4>1 DEF Code, IsContract
    <3>2. {t, k, Deployer, Dead} \subseteq d[k].excluded
      BY <1>2, <1>10, <1>11 DEF FirstExcluded
    <3>3. QED
      BY <1>1, <1>2, <1>4, <1>9, <1>11, <3>1, <3>2 DEF LinkOK
  <2>2. \A a \in DOMAIN c \ {t} : LinkOK(d, g, a)
    <3> SUFFICES ASSUME NEW a \in DOMAIN c \ {t} PROVE LinkOK(d, g, a)
      OBVIOUS
    <3>1. /\ d[a].impl = c[a].impl /\ d[a].admin = c[a].admin /\ d[a].busd = c[a].busd
          /\ d[a].owner = c[a].owner /\ d[a].tracker = c[a].tracker
          /\ d[a].reserve = c[a].reserve /\ d[a].cntr = c[a].cntr
          /\ d[a].wallets = c[a].wallets /\ d[a].allow = c[a].allow
      BY <1>10, <1>11
    <3>2. TokenOK(c, a) /\ LinkOK(c, g, a) /\ ChainType(c)
      BY DEF ChainOK, Linked
    <3>3. QED
      BY <1>12, <3>1, <3>2, LinkStays
  <2>3. QED
    BY <1>11, <2>1, <2>2 DEF Linked
<1>14. LiveStays(c, d)
  BY <1>4, <1>6, <1>11, LiveFacts DEF LiveStays
<1>15. ControlledFrom(c, d, tx)
  BY <1>9, <1>10, <1>11 DEF ControlledFrom
<1>16. QED
  BY <1>12, <1>13, <1>14, <1>15 DEF Preserves, d

LEMMA SetControllerPreserves ==
    ASSUME NEW c, ChainOK(c), NEW g, Linked(c, g), NEW tx, tx.op = "setController",
           ~SetControllerReverts(c, tx)
    PROVE  /\ Preserves(c, SetController(c, tx), g, tx)
           /\ \A a \in DOMAIN c : a # tx.to => SetController(c, tx)[a] = c[a]
           /\ \A k : NoTokenOf(c, k) => NoTokenOf(SetController(c, tx), k)
<1> DEFINE d == SetController(c, tx)
           r == [c[tx.to] EXCEPT !.cntr = tx.args.account]
<1>1. /\ tx.to \in DOMAIN c /\ c[tx.to].cntr = 0
      /\ Code(c, tx.to) = "TokenDividendTracker"
  BY DEF SetControllerReverts, Reaches, Code, IsContract
<1>2. c \in [DOMAIN c -> ContractType]
  BY DEF ChainOK, ChainType
<1>3. d = [c EXCEPT ![tx.to] = r]
  BY DEF SetController
<1>4. /\ r.kind = c[tx.to].kind /\ r.impl = c[tx.to].impl /\ r.admin = c[tx.to].admin
      /\ r.busd = c[tx.to].busd /\ r.owner = c[tx.to].owner
      /\ r.tracker = c[tx.to].tracker /\ r.wallets = c[tx.to].wallets
      /\ r.reserve = c[tx.to].reserve /\ r.allow = c[tx.to].allow
      /\ r.excluded = c[tx.to].excluded /\ r.claimWait = c[tx.to].claimWait
      /\ r.beneficiary = c[tx.to].beneficiary
  BY <1>1, <1>2 DEF ContractType
<1> HIDE DEF r
<1>5. /\ DOMAIN d = DOMAIN c /\ d[tx.to] = r
      /\ \A a \in DOMAIN c \ {tx.to} : d[a] = c[a]
  BY <1>1, <1>2, <1>3
<1> HIDE DEF d
<1>6. Grows(c, d)
  BY <1>1, <1>4, <1>5 DEF Grows
<1>7. Code(d, tx.to) = "TokenDividendTracker"
  BY <1>1, <1>6, CodeStays DEF ChainOK
<1>8. Linked(d, g)
  <2>1. LinkOK(d, g, tx.to)
    <3>1. LinkOK(c, g, tx.to) /\ TokenOK(c, tx.to)
      BY <1>1 DEF Linked, ChainOK
    <3>2. c[tx.to].tracker = 0 /\ c[tx.to].wallets = << >>
      BY <1>1, <3>1 DEF LinkOK, TokenOK
    <3>3. QED
      BY <1>4, <1>5, <1>7, <3>1, <3>2 DEF LinkOK
  <2>2. \A a \in DOMAIN c \ {tx.to} : LinkOK(d, g, a)
    BY <1>5, <1>6, LinkStays DEF ChainOK, Linked
  <2>3. QED
    BY <1>5, <2>1, <2>2 DEF Linked
<1>9. LiveStays(c, d)
  <2>1. \A t \in TokensOf(c) : t # tx.to /\ c[t].tracker # tx.to
    BY <1>1, LiveFacts
  <2>2. QED
    BY <1>5, <2>1, LiveFacts DEF LiveStays
<1>10. ControlledFrom(c, d, tx)
  BY <1>5 DEF ControlledFrom
<1>11. \A k : NoTokenOf(c, k) => NoTokenOf(d, k)
  BY <1>1, <1>4, <1>5 DEF NoTokenOf
<1>12. QED
  BY <1>5, <1>6, <1>8, <1>9, <1>10, <1>11 DEF Preserves, d

\* The transaction of initialize-TokenDividendTracker that a live tracker
\* would not refuse, comes before the tracker has a token.
LEMMA UpdateClaimWaitPreserves ==
    ASSUME NEW c, ChainOK(c), NEW g, Linked(c, g), NEW tx, ~UpdateClaimWaitReverts(c, tx),
           NoTokenOf(c, tx.to)
    PROVE  Preserves(c, UpdateClaimWait(c, tx), g, tx)
<1> DEFINE d == UpdateClaimWait(c, tx)
           r == [c[tx.to] EXCEPT !.claimWait = ClaimWait]
<1>1. tx.to \in DOMAIN c /\ Code(c, tx.to) = "TokenDividendTracker"
  BY DEF UpdateClaimWaitReverts, Reaches, Code, IsContract
<1>2. c \in [DOMAIN c -> ContractType]
  BY DEF ChainOK, ChainType
<1>3. d = [c EXCEPT ![tx.to] = r]
  BY DEF UpdateClaimWait
<1>4. /\ r.kind = c[tx.to].kind /\ r.impl = c[tx.to].impl /\ r.admin = c[tx.to].admin
      /\ r.busd = c[tx.to].busd /\ r.owner = c[tx.to].owner /\ r.cntr = c[tx.to].cntr
      /\ r.tracker = c[tx.to].tracker /\ r.wallets = c[tx.to].wallets
      /\ r.reserve = c[tx.to].reserve /\ r.allow = c[tx.to].allow
      /\ r.excluded = c[tx.to].excluded /\ r.claimWait = ClaimWait
      /\ r.beneficiary = c[tx.to].beneficiary
  BY <1>1, <1>2 DEF ContractType
<1> HIDE DEF r
<1>5. /\ DOMAIN d = DOMAIN c /\ d[tx.to] = r
      /\ \A a \in DOMAIN c \ {tx.to} : d[a] = c[a]
  BY <1>1, <1>2, <1>3
<1> HIDE DEF d
<1>6. Grows(c, d)
  BY <1>4, <1>5 DEF Grows
<1>7. Linked(d, g)
  <2>1. \A a \in DOMAIN c : LinkOK(d, g, a)
    <3> SUFFICES ASSUME NEW a \in DOMAIN c PROVE LinkOK(d, g, a)
      OBVIOUS
    <3>1. /\ d[a].impl = c[a].impl /\ d[a].admin = c[a].admin /\ d[a].busd = c[a].busd
          /\ d[a].owner = c[a].owner /\ d[a].tracker = c[a].tracker
          /\ d[a].reserve = c[a].reserve /\ d[a].cntr = c[a].cntr
          /\ d[a].wallets = c[a].wallets /\ d[a].allow = c[a].allow
      BY <1>4, <1>5
    <3>2. TokenOK(c, a) /\ LinkOK(c, g, a) /\ ChainType(c)
      BY DEF ChainOK, Linked
    <3>3. QED
      BY <1>6, <3>1, <3>2, LinkStays
  <2>2. QED
    BY <1>5, <2>1 DEF Linked
<1>8. LiveStays(c, d)
  <2>1. \A t \in TokensOf(c) : t # tx.to /\ c[t].tracker # tx.to
    BY <1>1, LiveFacts DEF NoTokenOf
  <2>2. QED
    BY <1>5, <2>1, LiveFacts DEF LiveStays
<1>9. ControlledFrom(c, d, tx)
  BY <1>4, <1>5 DEF ControlledFrom
<1>10. QED
  BY <1>6, <1>7, <1>8, <1>9 DEF Preserves, d

\* initAddress works once: the wallets of the configuration are excluded by
\* then.
LEMMA InitAddressPreserves ==
    ASSUME NEW c, ChainOK(c), NEW g, Len(g.vaults) = 7, Linked(c, g), NEW tx, TxOK(tx),
           TxLinked(tx, g), tx.op = "initAddress", ~InitAddressReverts(c, tx)
    PROVE  Preserves(c, InitAddress(c, tx), g, tx)
<1> DEFINE d == InitAddress(c, tx)
           t == tx.to
           k == c[t].tracker
           w == tx.args.wallets
           accounts == {w[i] : i \in DOMAIN w}
           r == [c[t] EXCEPT !.wallets = w]
           e == [c EXCEPT ![t] = r]
           q == [c[k] EXCEPT !.excluded = @ \cup accounts]
<1>1. /\ t \in DOMAIN c /\ Code(c, t) = "BIBToken" /\ Code(c, k) = "TokenDividendTracker"
      /\ accounts \cap c[k].excluded = {}
      /\ \A i, j \in DOMAIN w : w[i] # 0 /\ (i # j => w[i] # w[j])
      /\ c[t].kind = "Proxy" => tx.from # c[t].admin
  BY DEF InitAddressReverts, OnlyOwner, Reaches, Code, IsContract, CanExclude, WillFallback,
         ifAdmin
<1>2. /\ w \in Seq(Addr) /\ Len(w) = 8 /\ Tail(w) = g.vaults /\ tx.from = Deployer
  BY DEF TxOK, TxType, ArgsType, TxLinked
<1>3. c \in [DOMAIN c -> ContractType] /\ DOMAIN c \subseteq Nat \ {0}
  BY DEF ChainOK, ChainType
<1>4. k \in DOMAIN c /\ k # 0 /\ k # t
  BY <1>1, <1>3 DEF Code, IsContract
<1>5. TokenOK(c, t) /\ LinkOK(c, g, t) /\ c[t].kind = "Proxy" /\ c[k].cntr = t
  BY <1>1, <1>4 DEF ChainOK, Linked, TokenOK
<1>6. c[t].wallets = << >>
  <2> SUFFICES ASSUME c[t].wallets # << >> PROVE FALSE
    OBVIOUS
  <2> DEFINE v == c[t].wallets
  <2>1. /\ Len(v) = 8 /\ Tail(v) = g.vaults
        /\ {v[i] : i \in DOMAIN v} \subseteq c[k].excluded
    BY <1>5 DEF LinkOK
  <2>2. v \in Seq(Addr)
    BY <1>1, <1>3 DEF ContractType
  <2> HIDE DEF v, w
  <2>3. Tail(v)[1] = v[2] /\ Tail(w)[1] = w[2]
    <3>1. ASSUME NEW s \in Seq(Addr), Len(s) = 8
          PROVE  Tail(s)[1] = s[2]
      <4>1. s # << >>
        <5>1. s = << >> => Len(s) = 0
          OBVIOUS
        <5>2. QED
          BY <3>1, <5>1
      <4>2. /\ Len(Tail(s)) = 7
            /\ \A i \in 1 .. Len(Tail(s)) : Tail(s)[i] = s[i + 1]
        BY <3>1, <4>1, HeadTailProperties
      <4>3. QED
        BY <4>2
    <3>2. QED
      BY <1>2, <2>1, <2>2, <3>1
  <2>4. v[2] = w[2] /\ 2 \in DOMAIN v /\ 2 \in DOMAIN w
    <3>1. DOMAIN v = 1 .. 8 /\ DOMAIN w = 1 .. 8
      BY <1>2, <2>1, <2>2, LenProperties
    <3>2. Tail(v) = Tail(w)
      BY <1>2, <2>1
    <3>3. v[2] = w[2]
      BY <2>3, <3>2
    <3>4. QED
      BY <3>1, <3>3
  <2>5. QED
    BY <1>1, <2>1, <2>4
<1>7. e[k] = c[k] /\ e[t] = r /\ DOMAIN e = DOMAIN c
  BY <1>1, <1>3, <1>4
<1>8. d = [e EXCEPT ![k] = q]
  <2>1. d = [e EXCEPT ![k] = [e[k] EXCEPT !.excluded = @ \cup accounts]]
    BY DEF InitAddress
  <2>2. QED
    BY <1>7, <2>1
<1> HIDE DEF w
<1>9. /\ r.kind = c[t].kind /\ r.impl = c[t].impl /\ r.admin = c[t].admin
      /\ r.busd = c[t].busd /\ r.owner = c[t].owner /\ r.tracker = k
      /\ r.cntr = c[t].cntr /\ r.wallets = w /\ r.reserve = c[t].reserve
      /\ r.allow = c[t].allow
      /\ r.excluded = c[t].excluded /\ r.claimWait = c[t].claimWait
      /\ r.beneficiary = c[t].beneficiary
  <2>1. c[t] \in ContractType
    BY <1>1, <1>3
  <2>2. QED
    BY <2>1 DEF ContractType
<1>10. /\ q.kind = c[k].kind /\ q.impl = c[k].impl /\ q.admin = c[k].admin
       /\ q.busd = c[k].busd /\ q.owner = c[k].owner /\ q.tracker = c[k].tracker
       /\ q.cntr = c[k].cntr /\ q.wallets = c[k].wallets /\ q.reserve = c[k].reserve
       /\ q.allow = c[k].allow /\ q.claimWait = c[k].claimWait
       /\ q.beneficiary = c[k].beneficiary
       /\ q.excluded = c[k].excluded \cup accounts
  BY <1>3, <1>4 DEF ContractType
<1>11. /\ DOMAIN d = DOMAIN c /\ d[t] = r /\ d[k] = q
       /\ \A a \in DOMAIN c \ {t, k} : d[a] = c[a]
  BY <1>1, <1>3, <1>4, <1>7, <1>8
<1> HIDE DEF d, r, e, q
<1>12. Grows(c, d)
  BY <1>1, <1>6, <1>9, <1>10, <1>11 DEF Grows
<1>13. Linked(d, g)
  <2>1. LinkOK(d, g, t)
    <3>1. Code(d, t) = "BIBToken"
      BY <1>1, <1>12, CodeStays DEF ChainOK
    <3>2. d[k].excluded = c[k].excluded \cup accounts
      BY <1>10, <1>11
    <3>3. d[t].impl # NOBODY =>
            /\ d[t].kind = "Proxy" /\ d[t].impl \in DOMAIN d
            /\ d[t].admin = g.admin /\ d[t].busd = g.busd /\ d[t].busd # 0
            /\ d[t].owner = Deployer
      BY <1>5, <1>9, <1>11 DEF LinkOK
    <3>4. /\ {t, d[t].tracker, Deployer, Dead} \subseteq d[d[t].tracker].excluded
          /\ d[t].reserve = 0 => d[t].allow
          /\ d[t].cntr = c[t].cntr /\ c[t].cntr = 0
      BY <1>1, <1>4, <1>5, <1>9, <1>11, <3>2 DEF LinkOK
    <3>5. /\ d[t].wallets = w /\ d[t].admin # Deployer
          /\ {w[i] : i \in DOMAIN w} \subseteq d[d[t].tracker].excluded
      BY <1>1, <1>2, <1>5, <1>9, <1>11, <3>2
    <3>6. QED
      BY <1>1, <1>2, <3>1, <3>3, <3>4, <3>5 DEF LinkOK
  <2>2. \A a \in DOMAIN c \ {t} : LinkOK(d, g, a)
    <3> SUFFICES ASSUME NEW a \in DOMAIN c \ {t} PROVE LinkOK(d, g, a)
      OBVIOUS
    <3>1. /\ d[a].impl = c[a].impl /\ d[a].admin = c[a].admin /\ d[a].busd = c[a].busd
          /\ d[a].owner = c[a].owner /\ d[a].tracker = c[a].tracker
          /\ d[a].reserve = c[a].reserve /\ d[a].cntr = c[a].cntr
          /\ d[a].wallets = c[a].wallets /\ d[a].allow = c[a].allow
      BY <1>10, <1>11
    <3>2. TokenOK(c, a) /\ LinkOK(c, g, a) /\ ChainType(c)
      BY DEF ChainOK, Linked
    <3>3. QED
      BY <1>12, <3>1, <3>2, LinkStays
  <2>3. QED
    BY <1>11, <2>1, <2>2 DEF Linked
<1>14. LiveStays(c, d)
  <2> SUFFICES ASSUME NEW a \in TokensOf(c), Live(c, a)
               PROVE  d[a] = c[a] /\ d[c[a].tracker] = c[c[a].tracker]
    BY DEF LiveStays
  <2>1. a \in DOMAIN c /\ c[a].wallets # << >> /\ c[a].tracker \in DOMAIN c
        /\ c[c[a].tracker].cntr = a /\ Code(c, a) = "BIBToken"
        /\ Code(c, c[a].tracker) = "TokenDividendTracker"
    BY LiveFacts DEF Live
  <2>2. a # t /\ a # k /\ c[a].tracker # k /\ c[a].tracker # t
    BY <1>1, <1>5, <1>6, <2>1
  <2>3. QED
    BY <1>11, <2>1, <2>2
<1>15. ControlledFrom(c, d, tx)
  BY <1>9, <1>10, <1>11 DEF ControlledFrom
<1>16. QED
  BY <1>12, <1>13, <1>14, <1>15 DEF Preserves, d

LEMMA SetAllowTransferPreserves ==
    ASSUME NEW c, ChainOK(c), NEW g, Linked(c, g), NEW tx, OnlyOwner(c, tx)
    PROVE  Preserves(c, SetAllowTransfer(c, tx), g, tx)
<1> DEFINE d == SetAllowTransfer(c, tx)
           r == [c[tx.to] EXCEPT !.allow = TRUE]
<1>1. tx.to \in DOMAIN c /\ Code(c, tx.to) = "BIBToken"
  BY DEF OnlyOwner, Reaches, Code, IsContract
<1>2. c \in [DOMAIN c -> ContractType]
  BY DEF ChainOK, ChainType
<1>3. d = [c EXCEPT ![tx.to] = r]
  BY DEF SetAllowTransfer
<1>4. /\ r.kind = c[tx.to].kind /\ r.impl = c[tx.to].impl /\ r.admin = c[tx.to].admin
      /\ r.busd = c[tx.to].busd /\ r.owner = c[tx.to].owner /\ r.cntr = c[tx.to].cntr
      /\ r.tracker = c[tx.to].tracker /\ r.wallets = c[tx.to].wallets
      /\ r.reserve = c[tx.to].reserve /\ r.allow
      /\ r.excluded = c[tx.to].excluded /\ r.claimWait = c[tx.to].claimWait
      /\ r.beneficiary = c[tx.to].beneficiary
  BY <1>1, <1>2 DEF ContractType
<1>5. c[tx.to].allow => r = c[tx.to]
  BY <1>1, <1>2 DEF ContractType
<1> HIDE DEF r
<1>6. /\ DOMAIN d = DOMAIN c /\ d[tx.to] = r
      /\ \A a \in DOMAIN c \ {tx.to} : d[a] = c[a]
  BY <1>1, <1>2, <1>3
<1> HIDE DEF d
<1>7. Grows(c, d)
  BY <1>4, <1>6 DEF Grows
<1>8. Linked(d, g)
  <2>1. \A a \in DOMAIN c : LinkOK(d, g, a)
    <3> SUFFICES ASSUME NEW a \in DOMAIN c PROVE LinkOK(d, g, a)
      OBVIOUS
    <3>1. /\ d[a].impl = c[a].impl /\ d[a].admin = c[a].admin /\ d[a].busd = c[a].busd
          /\ d[a].owner = c[a].owner /\ d[a].tracker = c[a].tracker
          /\ d[a].reserve = c[a].reserve /\ d[a].cntr = c[a].cntr
          /\ d[a].wallets = c[a].wallets /\ (c[a].allow => d[a].allow)
      BY <1>4, <1>6
    <3>2. TokenOK(c, a) /\ LinkOK(c, g, a) /\ ChainType(c)
      BY DEF ChainOK, Linked
    <3>3. QED
      BY <1>7, <3>1, <3>2, LinkStays
  <2>2. QED
    BY <1>6, <2>1 DEF Linked
<1>9. LiveStays(c, d)
  <2> SUFFICES ASSUME NEW a \in TokensOf(c), Live(c, a)
               PROVE  d[a] = c[a] /\ d[c[a].tracker] = c[c[a].tracker]
    BY DEF LiveStays
  <2>1. a \in DOMAIN c /\ c[a].tracker \in DOMAIN c /\ c[a].tracker # tx.to
    BY <1>1, LiveFacts
  <2>2. c[a].allow
    BY <2>1 DEF Live, TokensOf, Linked, LinkOK
  <2>3. QED
    BY <1>5, <1>6, <2>1, <2>2
<1>10. ControlledFrom(c, d, tx)
  BY <1>4, <1>6 DEF ControlledFrom
<1>11. QED
  BY <1>7, <1>8, <1>9, <1>10 DEF Preserves, d

LEMMA ReleasePreserves ==
    ASSUME NEW c, ChainOK(c), NEW g, Linked(c, g), NEW tx, ~ReleaseReverts(c, tx)
    PROVE  Preserves(c, Release(c, tx), g, tx)
<1> DEFINE d == Release(c, tx)
           r == [c[tx.to] EXCEPT !.reserve = 0]
<1>1. /\ tx.to \in DOMAIN c /\ Code(c, tx.to) = "BIBToken"
      /\ c[tx.to].allow /\ ~(c[tx.to].reserve < Parts)
  BY DEF ReleaseReverts, OnlyOwner, Reaches, Code, IsContract
<1>2. c \in [DOMAIN c -> ContractType]
  BY DEF ChainOK, ChainType
<1>3. c[tx.to].reserve = 100
  <2>1. c[tx.to].reserve \in {0, 100}
    BY <1>1, <1>2 DEF ContractType
  <2>2. QED
    BY <1>1, <2>1 DEF Parts
<1>4. d = [c EXCEPT ![tx.to] = r]
  BY <1>3 DEF Release, Parts
<1>5. /\ r.kind = c[tx.to].kind /\ r.impl = c[tx.to].impl /\ r.admin = c[tx.to].admin
      /\ r.busd = c[tx.to].busd /\ r.owner = c[tx.to].owner /\ r.cntr = c[tx.to].cntr
      /\ r.tracker = c[tx.to].tracker /\ r.wallets = c[tx.to].wallets
      /\ r.allow = c[tx.to].allow /\ r.reserve = 0
      /\ r.excluded = c[tx.to].excluded /\ r.claimWait = c[tx.to].claimWait
      /\ r.beneficiary = c[tx.to].beneficiary
  <2>1. c[tx.to] \in ContractType
    BY <1>1, <1>2
  <2>2. QED
    BY <2>1 DEF ContractType
<1> HIDE DEF r
<1>6. /\ DOMAIN d = DOMAIN c /\ d[tx.to] = r
      /\ \A a \in DOMAIN c \ {tx.to} : d[a] = c[a]
  BY <1>1, <1>2, <1>4
<1> HIDE DEF d
<1>7. Grows(c, d)
  BY <1>1, <1>5, <1>6 DEF Grows
<1>8. Linked(d, g)
  <2>1. LinkOK(d, g, tx.to)
    <3>1. LinkOK(c, g, tx.to) /\ TokenOK(c, tx.to)
      BY <1>1 DEF Linked, ChainOK
    <3>2. Code(d, tx.to) = "BIBToken"
      BY <1>1, <1>7, CodeStays DEF ChainOK
    <3>3. DOMAIN d = DOMAIN c /\ c[tx.to].cntr = 0
      BY <1>1, <1>6, <3>1 DEF LinkOK
    <3>4. \A a \in DOMAIN c : d[a].excluded = c[a].excluded
      BY <1>5, <1>6
    <3>5. c[tx.to].tracker # 0 => c[tx.to].tracker \in DOMAIN c
      BY <3>1 DEF TokenOK
    <3>6. c[tx.to].wallets # << >> => c[tx.to].tracker # 0
      BY <3>1 DEF TokenOK
    <3>7. d[tx.to].allow /\ d[tx.to].cntr = 0
      BY <1>1, <1>5, <1>6, <3>3
    <3>8. QED
      BY <1>5, <1>6, <3>1, <3>2, <3>4, <3>5, <3>6, <3>7 DEF LinkOK
  <2>2. \A a \in DOMAIN c \ {tx.to} : LinkOK(d, g, a)
    BY <1>6, <1>7, LinkStays DEF ChainOK, Linked
  <2>3. QED
    BY <1>6, <2>1, <2>2 DEF Linked
<1>9. LiveStays(c, d)
  <2> SUFFICES ASSUME NEW a \in TokensOf(c), Live(c, a)
               PROVE  d[a] = c[a] /\ d[c[a].tracker] = c[c[a].tracker]
    BY DEF LiveStays
  <2>1. a \in DOMAIN c /\ c[a].tracker \in DOMAIN c /\ c[a].tracker # tx.to
    BY <1>1, LiveFacts
  <2>2. a # tx.to
    BY <1>3 DEF Live
  <2>3. QED
    BY <1>6, <2>1, <2>2
<1>10. ControlledFrom(c, d, tx)
  BY <1>5, <1>6 DEF ControlledFrom
<1>11. QED
  BY <1>7, <1>8, <1>9, <1>10 DEF Preserves, d

\* What a transaction that does not revert leaves of a chain.
LEMMA ApplyPreserves ==
    ASSUME NEW c, ChainOK(c), NEW g, Len(g.vaults) = 7, Linked(c, g),
           NEW tx, TxOK(tx), TxLinked(tx, g), ~Reverts(c, tx),
           tx.op = "create" => tx.to \notin DOMAIN c,
           tx.op = "updateClaimWait" => NoTokenOf(c, tx.to)
    PROVE  Preserves(c, Apply(c, tx), g, tx)
<1> tx.op \in CallOps \cup {"create"}
  BY DEF TxOK, TxType
<1>1. CASE tx.op = "create"
  BY <1>1, CreatePreserves DEF Apply
<1>2. CASE tx.op = "initTracker"
  BY <1>2, InitTrackerPreserves DEF Apply, Reverts
<1>3. CASE tx.op = "initToken"
  BY <1>3, InitTokenPreserves DEF Apply, Reverts
<1>4. CASE tx.op = "setController"
  BY <1>4, SetControllerPreserves DEF Apply, Reverts
<1>5. CASE tx.op = "updateClaimWait"
  BY <1>5, UpdateClaimWaitPreserves DEF Apply, Reverts
<1>6. CASE tx.op = "initAddress"
  BY <1>6, InitAddressPreserves DEF Apply, Reverts
<1>7. CASE tx.op = "setAllowTransfer"
  BY <1>7, SetAllowTransferPreserves DEF Apply, Reverts
<1>8. CASE tx.op = "release"
  BY <1>8, ReleasePreserves DEF Apply, Reverts
<1>9. QED
  BY <1>1, <1>2, <1>3, <1>4, <1>5, <1>6, <1>7, <1>8 DEF CallOps

(***************************************************************************)
(* The order of the steps.  What is sent is awaited before anything else   *)
(* is sent, and updateClaimWait comes right after setController, which     *)
(* comes right after initialize.                                           *)
(***************************************************************************)

IsSend(step, op) == step.op = "send" /\ step.arg = op

\* The first step awaits what was sent last; the address of a contract may be
\* written down before.
NextAwaits(s) ==
    \/ Len(s) >= 1 /\ s[1].op = "await"
    \/ Len(s) >= 2 /\ s[1].op = "register" /\ s[2].op = "await"

\* Steps i - 2 and i - 1, if they are still there, send op and await it.
After(s, i, op) ==
    /\ i >= 2 => s[i - 1].op = "await"
    /\ i >= 3 => IsSend(s[i - 2], op)

StepInOrder(s, i) ==
    /\ s[i].op \in {"create", "send"} =>
         \/ i < Len(s) /\ s[i + 1].op = "await"
         \/ i + 1 < Len(s) /\ s[i + 1].op = "register" /\ s[i + 2].op = "await"
    /\ IsSend(s[i], "setController") =>
         /\ After(s, i, "initTracker")
         /\ i + 2 <= Len(s) /\ s[i + 1].op = "await" /\ IsSend(s[i + 2], "updateClaimWait")
    /\ IsSend(s[i], "updateClaimWait") =>
         /\ After(s, i, "setController")
         /\ i + 1 <= Len(s) /\ s[i + 1].op = "await"

InOrder(s) == \A i \in 1 .. Len(s) : StepInOrder(s, i)

\* A sequence that does not begin in the middle of it.
Whole(s) ==
    /\ InOrder(s)
    /\ \A i \in 1 .. Len(s) :
          IsSend(s[i], "setController") \/ IsSend(s[i], "updateClaimWait") => i >= 3

LEMMA TailInOrder ==
    ASSUME NEW s \in Seq(StepType), s # << >>, InOrder(s)
    PROVE  InOrder(Tail(s))
<1>1. /\ Tail(s) \in Seq(StepType) /\ Len(Tail(s)) = Len(s) - 1 /\ Len(s) \in Nat \ {0}
      /\ \A i \in 1 .. Len(Tail(s)) : Tail(s)[i] = s[i + 1]
  BY HeadTailProperties, EmptySeq
<1> DEFINE r == Tail(s)
           n == Len(r)
<1> SUFFICES ASSUME NEW i \in 1 .. n PROVE StepInOrder(r, i)
  BY DEF InOrder
<1>2. StepInOrder(s, i + 1) /\ i + 1 \in 1 .. Len(s)
  BY <1>1 DEF InOrder
<1>3. /\ n \in Nat /\ Len(s) = n + 1 /\ r[i] = s[i + 1]
      /\ i + 1 <= n => r[i + 1] = s[i + 2]
      /\ i + 2 <= n => r[i + 2] = s[i + 3]
      /\ i >= 2 => r[i - 1] = s[i]
      /\ i >= 3 => r[i - 2] = s[i - 1]
  BY <1>1
<1> HIDE DEF r, n
<1>4. QED
  BY <1>2, <1>3 DEF StepInOrder, After, n

LEMMA ConcatElements ==
    ASSUME NEW S, NEW s \in Seq(S), NEW r \in Seq(S)
    PROVE  /\ s \o r \in Seq(S) /\ Len(s) \in Nat /\ Len(r) \in Nat
           /\ Len(s \o r) = Len(s) + Len(r)
           /\ \A i \in 1 .. Len(s) : (s \o r)[i] = s[i]
           /\ \A i \in 1 .. Len(r) : (s \o r)[Len(s) + i] = r[i]
<1>1. /\ s \o r \in Seq(S) /\ Len(s) \in Nat /\ Len(r) \in Nat
      /\ Len(s \o r) = Len(s) + Len(r)
      /\ \A i \in 1 .. Len(s \o r) :
            (s \o r)[i] = IF i <= Len(s) THEN s[i] ELSE r[i - Len(s)]
  BY ConcatProperties, LenProperties
<1>2. \A i \in 1 .. Len(s) : i \in 1 .. Len(s) + Len(r) /\ i <= Len(s)
  BY <1>1
<1>3. \A i \in 1 .. Len(r) :
        /\ Len(s) + i \in 1 .. Len(s) + Len(r)
        /\ ~(Len(s) + i <= Len(s)) /\ (Len(s) + i) - Len(s) = i
  BY <1>1
<1>4. QED
  BY <1>1, <1>2, <1>3

LEMMA ConcatWhole ==
    ASSUME NEW s \in Seq(StepType), Whole(s), NEW r \in Seq(StepType), Whole(r)
    PROVE  Whole(s \o r) /\ s \o r \in Seq(StepType)
<1> DEFINE u == s \o r
           m == Len(s)
           n == Len(r)
<1>1. /\ m \in Nat /\ n \in Nat /\ u \in Seq(StepType) /\ Len(u) = m + n
      /\ \A i \in 1 .. m : u[i] = s[i]
      /\ \A i \in 1 .. n : u[m + i] = r[i]
  BY ConcatElements
<1> HIDE DEF u
<1>2. ASSUME NEW i \in 1 .. m
      PROVE  StepInOrder(u, i) /\ (IsSend(u[i], "setController") \/ IsSend(u[i], "updateClaimWait") => i >= 3)
  <2>1. /\ u[i] = s[i] /\ (i + 1 <= m => u[i + 1] = s[i + 1]) /\ (i + 2 <= m => u[i + 2] = s[i + 2])
        /\ (i >= 2 => u[i - 1] = s[i - 1]) /\ (i >= 3 => u[i - 2] = s[i - 2])
    <3>1. /\ i + 1 <= m => i + 1 \in 1 .. m
          /\ i + 2 <= m => i + 2 \in 1 .. m
          /\ i >= 2 => i - 1 \in 1 .. m
          /\ i >= 3 => i - 2 \in 1 .. m
      BY <1>1
    <3>2. QED
      BY <1>1, <3>1
  <2>2. /\ StepInOrder(s, i)
        /\ IsSend(s[i], "setController") \/ IsSend(s[i], "updateClaimWait") => i >= 3
    BY DEF Whole, InOrder
  <2> HIDE DEF n
  <2>3. QED
    BY <1>1, <2>1, <2>2 DEF StepInOrder, After
<1>3. ASSUME NEW i \in 1 .. n
      PROVE  /\ StepInOrder(u, m + i)
             /\ IsSend(u[m + i], "setController") \/ IsSend(u[m + i], "updateClaimWait") => m + i >= 3
  <2> DEFINE l == m + i
  <2>1. /\ u[l] = r[i] /\ (i + 1 <= n => u[l + 1] = r[i + 1]) /\ (i + 2 <= n => u[l + 2] = r[i + 2])
        /\ (i >= 2 => u[l - 1] = r[i - 1]) /\ (i >= 3 => u[l - 2] = r[i - 2])
    <3>1. /\ (m + i) + 1 = m + (i + 1) /\ (m + i) + 2 = m + (i + 2)
          /\ (m + i) - 1 = m + (i - 1) /\ (m + i) - 2 = m + (i - 2)
          /\ i + 1 <= n => i + 1 \in 1 .. n
          /\ i + 2 <= n => i + 2 \in 1 .. n
          /\ i >= 2 => i - 1 \in 1 .. n
          /\ i >= 3 => i - 2 \in 1 .. n
      BY <1>1
    <3> HIDE DEF m, n
    <3>2. /\ u[m + i] = r[i]
          /\ i + 1 <= n => u[m + (i + 1)] = r[i + 1]
          /\ i + 2 <= n => u[m + (i + 2)] = r[i + 2]
          /\ i >= 2 => u[m + (i - 1)] = r[i - 1]
          /\ i >= 3 => u[m + (i - 2)] = r[i - 2]
      BY <1>1, <3>1
    <3>3. QED
      BY <3>1, <3>2
  <2>2. /\ StepInOrder(r, i)
        /\ IsSend(r[i], "setController") \/ IsSend(r[i], "updateClaimWait") => i >= 3
    BY DEF Whole, InOrder
  <2>3. /\ l \in Nat /\ Len(u) = m + n /\ m \in Nat /\ n \in Nat /\ i \in Nat /\ l = m + i
    BY <1>1
  <2>4. n = Len(r)
    OBVIOUS
  <2> HIDE DEF l, m, n
  <2>5. /\ i < n => l < m + n
        /\ i + 1 < n => l + 1 < m + n
        /\ i + 2 <= n => l + 2 <= m + n
        /\ i + 1 <= n => l + 1 <= m + n
        /\ i >= 3 => l >= 3 /\ i >= 2
    BY <2>3
  <2>6. u[l].op \in {"create", "send"} =>
          \/ l < Len(u) /\ u[l + 1].op = "await"
          \/ l + 1 < Len(u) /\ u[l + 1].op = "register" /\ u[l + 2].op = "await"
    <3>1. i < n => i + 1 <= n
      BY <2>3
    <3>2. i + 1 < n => i + 2 <= n /\ i + 1 <= n
      BY <2>3
    <3>3. QED
      BY <2>1, <2>2, <2>3, <2>4, <2>5, <3>1, <3>2 DEF StepInOrder
  <2>7. IsSend(u[l], "setController") =>
          /\ l >= 3
          /\ u[l - 1].op = "await" /\ IsSend(u[l - 2], "initTracker")
          /\ l + 2 <= Len(u) /\ u[l + 1].op = "await" /\ IsSend(u[l + 2], "updateClaimWait")
    <3> SUFFICES ASSUME IsSend(r[i], "setController")
                 PROVE  /\ l >= 3
                        /\ u[l - 1].op = "await" /\ IsSend(u[l - 2], "initTracker")
                        /\ l + 2 <= Len(u) /\ u[l + 1].op = "await"
                        /\ IsSend(u[l + 2], "updateClaimWait")
      BY <2>1
    <3>1. /\ i >= 3 /\ i >= 2 /\ l >= 3 /\ r[i - 1].op = "await" /\ IsSend(r[i - 2], "initTracker")
          /\ i + 2 <= n /\ r[i + 1].op = "await" /\ IsSend(r[i + 2], "updateClaimWait")
      BY <2>2, <2>4, <2>5 DEF StepInOrder, After
    <3>2. i + 1 <= n
      BY <2>3, <3>1
    <3>3. QED
      BY <2>1, <2>3, <2>5, <3>1, <3>2
  <2>8. IsSend(u[l], "updateClaimWait") =>
          /\ l >= 3
          /\ u[l - 1].op = "await" /\ IsSend(u[l - 2], "setController")
          /\ l + 1 <= Len(u) /\ u[l + 1].op = "await"
    <3> SUFFICES ASSUME IsSend(r[i], "updateClaimWait")
                 PROVE  /\ l >= 3
                        /\ u[l - 1].op = "await" /\ IsSend(u[l - 2], "setController")
                        /\ l + 1 <= Len(u) /\ u[l + 1].op = "await"
      BY <2>1
    <3>1. /\ i >= 3 /\ i >= 2 /\ l >= 3 /\ r[i - 1].op = "await" /\ IsSend(r[i - 2], "setController")
          /\ i + 1 <= n /\ r[i + 1].op = "await"
      BY <2>2, <2>4, <2>5 DEF StepInOrder, After
    <3>2. QED
      BY <2>1, <2>3, <2>5, <3>1
  <2>9. StepInOrder(u, l)
    BY <2>6, <2>7, <2>8 DEF StepInOrder, After
  <2>10. QED
    BY <2>7, <2>8, <2>9 DEF l
<1>4. ASSUME NEW i \in 1 .. Len(u)
      PROVE  i \in 1 .. m \/ \E j \in 1 .. n : i = m + j
  <2>1. i \notin 1 .. m => i - m \in 1 .. n /\ i = m + (i - m)
    BY <1>1
  <2>2. QED
    BY <2>1
<1>5. Whole(u)
  BY <1>2, <1>3, <1>4 DEF Whole, InOrder
<1>6. QED
  BY <1>1, <1>5 DEF u

\* Where nothing is sent, nothing is out of order.
LEMMA PlainWhole ==
    ASSUME NEW s \in Seq(StepType), \A i \in 1 .. Len(s) : s[i].op \notin {"create", "send"}
    PROVE  Whole(s)
BY DEF Whole, InOrder, StepInOrder, IsSend

LEMMA PlainStep ==
    ASSUME NEW x \in StepType, x.op \notin {"create", "send"}
    PROVE  Whole(<< x >>) /\ << x >> \in Seq(StepType)
<1> DEFINE s == << x >>
<1>1. s \in Seq(StepType) /\ Len(s) = 1 /\ s[1] = x
  BY OneStep
<1> HIDE DEF s
<1>2. \A i \in 1 .. Len(s) : s[i].op \notin {"create", "send"}
  BY <1>1
<1>3. Whole(s)
  BY <1>1, <1>2, PlainWhole
<1>4. QED
  BY <1>1, <1>3 DEF s

LEMMA OtherWhole ==
    ASSUME NEW op \in OtherOps, NEW arg \in eContractid \cup {""}
    PROVE  Whole(Do(op, arg)) /\ Do(op, arg) \in Seq(StepType)
<1> DEFINE x == [op |-> op, arg |-> arg]
<1>1. x \in StepType /\ x.op \notin {"create", "send"}
  BY DEF StepType, OtherOps
<1> HIDE DEF x
<1>2. Whole(<< x >>) /\ << x >> \in Seq(StepType)
  BY <1>1, PlainStep
<1>3. QED
  BY <1>2 DEF Do, x

LEMMA WhenWhole ==
    ASSUME NEW flag \in BOOLEAN, NEW steps \in Seq(StepType), Whole(steps)
    PROVE  Whole(When(flag, steps)) /\ When(flag, steps) \in Seq(StepType)
<1>1. << >> \in Seq(StepType) /\ Len(<< >>) = 0
  OBVIOUS
<1>2. Whole(<< >>)
  <2> DEFINE s == << >>
  <2>1. s \in Seq(StepType) /\ Len(s) = 0
    BY <1>1
  <2> HIDE DEF s
  <2>2. Whole(s)
    <3>1. 1 .. Len(s) = {}
      BY <2>1
    <3>2. QED
      BY <2>1, <3>1 DEF Whole, InOrder
  <2>3. QED
    BY <2>2 DEF s
<1>3. QED
  BY <1>1, <1>2 DEF When

LEMMA TwoSteps ==
    ASSUME NEW S, NEW x \in S, NEW y \in S
    PROVE  /\ << x >> \o << y >> \in Seq(S) /\ Len(<< x >> \o << y >>) = 2
           /\ (<< x >> \o << y >>)[1] = x /\ (<< x >> \o << y >>)[2] = y
<1>1. /\ << x >> \in Seq(S) /\ Len(<< x >>) = 1 /\ << x >>[1] = x
      /\ << y >> \in Seq(S) /\ Len(<< y >>) = 1 /\ << y >>[1] = y
  BY OneStep
<1> DEFINE s == << x >>
           r == << y >>
<1> HIDE DEF s, r
<1>2. /\ s \in Seq(S) /\ Len(s) = 1 /\ s[1] = x
      /\ r \in Seq(S) /\ Len(r) = 1 /\ r[1] = y
  BY <1>1 DEF s, r
<1>3. QED
  BY <1>2, ConcatProperties DEF s, r

\* One or two steps after two or four.
LEMMA TwoMore ==
    ASSUME NEW S, NEW s \in Seq(S), NEW r \in Seq(S)
    PROVE  LET u == s \o r
           IN  /\ u \in Seq(S)
               /\ Len(s) = 2 => u[1] = s[1] /\ u[2] = s[2]
               /\ Len(s) = 4 => u[1] = s[1] /\ u[2] = s[2] /\ u[3] = s[3] /\ u[4] = s[4]
               /\ (Len(s) = 2 /\ Len(r) = 1) => Len(u) = 3 /\ u[3] = r[1]
               /\ (Len(s) = 2 /\ Len(r) = 2) => Len(u) = 4 /\ u[3] = r[1] /\ u[4] = r[2]
               /\ (Len(s) = 4 /\ Len(r) = 2) => Len(u) = 6 /\ u[5] = r[1] /\ u[6] = r[2]
<1> DEFINE u == s \o r
           m == Len(s)
           n == Len(r)
<1>1. /\ u \in Seq(S) /\ Len(u) = m + n
      /\ \A i \in 1 .. m : u[i] = s[i]
      /\ \A i \in 1 .. n : u[m + i] = r[i]
  BY ConcatElements
<1> HIDE DEF u, m, n
<1>2. n = 1 => u[m + 1] = r[1]
  BY <1>1
<1>3. n = 2 => u[m + 1] = r[1] /\ u[m + 2] = r[2]
  BY <1>1
<1>4. m = 2 => u[1] = s[1] /\ u[2] = s[2]
  BY <1>1
<1>5. m = 4 => u[1] = s[1] /\ u[2] = s[2] /\ u[3] = s[3] /\ u[4] = s[4]
  BY <1>1
<1>6. QED
  BY <1>1, <1>2, <1>3, <1>4, <1>5 DEF u, m, n

LEMMA ThreeSteps ==
    ASSUME NEW S, NEW x \in S, NEW y \in S, NEW z \in S
    PROVE  LET u == << x >> \o << y >> \o << z >>
           IN  u \in Seq(S) /\ Len(u) = 3 /\ u[1] = x /\ u[2] = y /\ u[3] = z
<1> DEFINE s == << x >> \o << y >>
           r == << z >>
<1>1. /\ s \in Seq(S) /\ Len(s) = 2 /\ s[1] = x /\ s[2] = y
      /\ r \in Seq(S) /\ Len(r) = 1 /\ r[1] = z
  BY OneStep, TwoSteps
<1> HIDE DEF s, r
<1>2. s \o r \in Seq(S) /\ Len(s \o r) = 3 /\ (s \o r)[1] = x /\ (s \o r)[2] = y /\ (s \o r)[3] = z
  BY <1>1, TwoMore
<1>3. QED
  BY <1>2 DEF s, r

LEMMA TransactTwo ==
    ASSUME NEW op \in CallOps
    PROVE  LET s == Transact(op)
           IN  s \in Seq(StepType) /\ Len(s) = 2 /\ IsSend(s[1], op) /\ s[2].op = "await"
<1> DEFINE x == [op |-> "send", arg |-> op]
           y == [op |-> "await", arg |-> ""]
<1>1. x \in StepType /\ y \in StepType /\ IsSend(x, op) /\ y.op = "await"
  BY DEF StepType, OtherOps, IsSend
<1>2. Transact(op) = << x >> \o << y >>
  BY DEF Transact, Do
<1> HIDE DEF x, y
<1>3. QED
  BY <1>1, <1>2, TwoSteps

LEMMA TransactWhole ==
    ASSUME NEW op \in CallOps \ {"setController", "updateClaimWait"}
    PROVE  Whole(Transact(op)) /\ Transact(op) \in Seq(StepType)
<1> DEFINE s == Transact(op)
<1>1. s \in Seq(StepType) /\ Len(s) = 2 /\ IsSend(s[1], op) /\ s[2].op = "await"
  BY TransactTwo
<1> HIDE DEF s
<1>2. Whole(s)
  BY <1>1 DEF Whole, InOrder, StepInOrder, IsSend
<1>3. QED
  BY <1>1, <1>2 DEF s

LEMMA DeployContractWhole ==
    ASSUME NEW kind \in Kind, NEW id \in eContractid
    PROVE  Whole(deployContract(kind, id)) /\ deployContract(kind, id) \in Seq(StepType)
<1> DEFINE x == [op |-> "create", arg |-> kind]
           y == [op |-> "await", arg |-> ""]
           z == [op |-> "register", arg |-> id]
           s == << x >> \o << y >> \o << z >>
<1>1. /\ x \in StepType /\ y \in StepType /\ z \in StepType
      /\ x.op = "create" /\ y.op = "await" /\ z.op = "register"
  BY DEF StepType, OtherOps
<1>2. deployContract(kind, id) = s
  BY DEF deployContract, Do
<1> HIDE DEF x, y, z
<1>3. s \in Seq(StepType) /\ Len(s) = 3 /\ s[1] = x /\ s[2] = y /\ s[3] = z
  BY <1>1, ThreeSteps
<1> HIDE DEF s
<1>4. Whole(s)
  BY <1>1, <1>3 DEF Whole, InOrder, StepInOrder, IsSend
<1>5. QED
  BY <1>2, <1>3, <1>4

LEMMA EarlyRegisterWhole ==
    LET s == Do("create", "TokenDividendTracker") \o Do("register", "TokenDividendTrackerImpl")
               \o Do("await", "")
    IN  Whole(s) /\ s \in Seq(StepType)
<1> DEFINE x == [op |-> "create", arg |-> "TokenDividendTracker"]
           y == [op |-> "register", arg |-> "TokenDividendTrackerImpl"]
           z == [op |-> "await", arg |-> ""]
           s == << x >> \o << y >> \o << z >>
<1>1. /\ x \in StepType /\ y \in StepType /\ z \in StepType
      /\ x.op = "create" /\ y.op = "register" /\ z.op = "await"
  BY DEF StepType, OtherOps, Kind, eContractid
<1>2. Do("create", "TokenDividendTracker") \o Do("register", "TokenDividendTrackerImpl")
               \o Do("await", "") = s
  BY DEF Do
<1> HIDE DEF x, y, z
<1>3. s \in Seq(StepType) /\ Len(s) = 3 /\ s[1] = x /\ s[2] = y /\ s[3] = z
  BY <1>1, ThreeSteps
<1> HIDE DEF s
<1>4. Whole(s)
  BY <1>1, <1>3 DEF Whole, InOrder, StepInOrder, IsSend
<1>5. QED
  BY <1>2, <1>3, <1>4

\* The three transactions that set a tracker up.
LEMMA SetupWhole ==
    LET s == Transact("initTracker") \o Transact("setController") \o Transact("updateClaimWait")
    IN  Whole(s) /\ s \in Seq(StepType)
<1> DEFINE a == Transact("initTracker")
           b == Transact("setController")
           c == Transact("updateClaimWait")
           s == a \o b \o c
<1>1. /\ a \in Seq(StepType) /\ Len(a) = 2 /\ IsSend(a[1], "initTracker") /\ a[2].op = "await"
      /\ b \in Seq(StepType) /\ Len(b) = 2 /\ IsSend(b[1], "setController") /\ b[2].op = "await"
      /\ c \in Seq(StepType) /\ Len(c) = 2 /\ IsSend(c[1], "updateClaimWait") /\ c[2].op = "await"
  BY TransactTwo DEF CallOps
<1> HIDE DEF a, b, c
<1>2. /\ a \o b \in Seq(StepType) /\ Len(a \o b) = 4
      /\ (a \o b)[1] = a[1] /\ (a \o b)[2] = a[2] /\ (a \o b)[3] = b[1] /\ (a \o b)[4] = b[2]
  BY <1>1, TwoMore
<1> DEFINE ab == a \o b
<1> HIDE DEF ab
<1>3. /\ ab \in Seq(StepType) /\ Len(ab) = 4
      /\ ab[1] = a[1] /\ ab[2] = a[2] /\ ab[3] = b[1] /\ ab[4] = b[2]
  BY <1>2 DEF ab
<1>4. s = ab \o c
  BY DEF ab
<1> HIDE DEF s
<1>5. /\ s \in Seq(StepType) /\ Len(s) = 6
      /\ s[1] = a[1] /\ s[2] = a[2] /\ s[3] = b[1] /\ s[4] = b[2] /\ s[5] = c[1] /\ s[6] = c[2]
  BY <1>1, <1>3, <1>4, TwoMore
<1>6. /\ s \in Seq(StepType) /\ Len(s) = 6
      /\ IsSend(s[1], "initTracker") /\ s[2].op = "await"
      /\ IsSend(s[3], "setController") /\ s[4].op = "await"
      /\ IsSend(s[5], "updateClaimWait") /\ s[6].op = "await"
  BY <1>1, <1>5
<1>7. ASSUME NEW i \in 1 .. 6
      PROVE  /\ StepInOrder(s, i)
             /\ IsSend(s[i], "setController") \/ IsSend(s[i], "updateClaimWait") => i >= 3
  BY <1>6 DEF StepInOrder, IsSend, After
<1>8. Whole(s)
  BY <1>6, <1>7 DEF Whole, InOrder
<1>9. QED
  BY <1>6, <1>8 DEF s, a, b, c

LEMMA DeployTasksWhole ==
    ASSUME NEW verify \in BOOLEAN
    PROVE  /\ Whole(DeployBIBTokenTask(verify)) /\ DeployBIBTokenTask(verify) \in Seq(StepType)
           /\ Whole(DeployTrackerTask(verify)) /\ DeployTrackerTask(verify) \in Seq(StepType)
<1> DEFINE W(s) == Whole(s) /\ s \in Seq(StepType)
<1>0. \A s, r : W(s) /\ W(r) => W(s \o r)
  BY ConcatWhole
<1>1. W(Do("chainId", "")) /\ W(Do("await", ""))
  BY OtherWhole DEF OtherOps
<1>2. \A id \in eContractid : W(Do("register", id))
  BY OtherWhole DEF OtherOps
<1>3. W(verifyContract(verify))
  <2>1. W(Do("verify", ""))
    BY OtherWhole DEF OtherOps
  <2>2. QED
    BY <2>1, WhenWhole DEF verifyContract
<1>4. \A kind \in Kind, id \in eContractid : W(deployContract(kind, id))
  BY DeployContractWhole
<1>5. W(Do("create", "TokenDividendTracker") \o Do("register", "TokenDividendTrackerImpl")
               \o Do("await", ""))
  BY EarlyRegisterWhole
<1>6. {"BIBToken", "IterableMapping", "Proxy"} \subseteq Kind
      /\ {"InitializableAdminUpgradeabilityProxy", "BIBToken", "BIBTokenImpl", "IterableMapping",
          "TokenDividendTracker", "TokenDividendTrackerImpl"} \subseteq eContractid
  BY DEF Kind, eContractid
<1>7. W(deployProxy(verify)) /\ W(deployBIBToken(verify)) /\ W(deployLibraries(verify))
  <2> HIDE DEF W
  <2>1. QED
    BY <1>0, <1>3, <1>4, <1>6 DEF deployProxy, deployBIBToken, deployLibraries
<1>8. W(deployTokenDividendTracker(verify))
  <2> DEFINE lib == deployLibraries(verify)
             x == Do("create", "TokenDividendTracker")
             y == Do("register", "TokenDividendTrackerImpl")
             z == Do("await", "")
  <2>1. lib \o x \o y \o z = lib \o (x \o y \o z)
    <3>1. lib \in Seq(StepType) /\ y \in Seq(StepType) /\ z \in Seq(StepType)
      BY <1>1, <1>2, <1>6, <1>7
    <3>2. x \in Seq(StepType)
      BY DoIsASequence DEF StepType, Kind
    <3> HIDE DEF lib, x, y, z
    <3>3. lib \o x \o y = lib \o (x \o y) /\ x \o y \in Seq(StepType)
      BY <3>1, <3>2, ConcatAssociative, ConcatProperties
    <3>4. lib \o (x \o y) \o z = lib \o (x \o y \o z)
      <4> DEFINE xy == x \o y
      <4>1. xy \in Seq(StepType)
        BY <3>3
      <4> HIDE DEF xy
      <4>2. lib \o xy \o z = lib \o (xy \o z)
        BY <3>1, <4>1, ConcatAssociative
      <4>3. QED
        BY <4>2 DEF xy
    <3>5. QED
      BY <3>3, <3>4
  <2>2. W(lib \o (x \o y \o z))
    BY <1>0, <1>5, <1>7
  <2>3. deployTokenDividendTracker(verify)
          = lib \o x \o y \o z \o Do("register", "TokenDividendTracker") \o verifyContract(verify)
    BY DEF deployTokenDividendTracker
  <2> DEFINE head == lib \o x \o y \o z
  <2>4. W(head)
    BY <2>1, <2>2
  <2> HIDE DEF head, W, lib, x, y, z
  <2>5. QED
    BY <1>0, <1>2, <1>3, <1>6, <2>3, <2>4 DEF head
<1>9. W(DeployBIBTokenTask(verify)) /\ W(DeployTrackerTask(verify))
  <2> HIDE DEF W
  <2>1. QED
    BY <1>0, <1>1, <1>2, <1>6, <1>7, <1>8 DEF DeployBIBTokenTask, DeployTrackerTask
<1>10. QED
  BY <1>9

LEMMA InitializeTasksWhole ==
    /\ Whole(InitializeTrackerTask) /\ InitializeTrackerTask \in Seq(StepType)
    /\ Whole(InitializeBIBTokenTask) /\ InitializeBIBTokenTask \in Seq(StepType)
<1> DEFINE W(s) == Whole(s) /\ s \in Seq(StepType)
<1>0. \A s, r : W(s) /\ W(r) => W(s \o r)
  BY ConcatWhole
<1>1. W(Do("chainId", "")) /\ W(Do("read", "TokenDividendTracker")) /\ W(Do("read", "BIBToken"))
      /\ W(Do("register", "TeamVesting"))
  BY OtherWhole DEF OtherOps, eContractid
<1>2. /\ W(Transact("initToken")) /\ W(Transact("initAddress"))
      /\ W(Transact("setAllowTransfer")) /\ W(Transact("release"))
  BY TransactWhole DEF CallOps
<1>3. W(deployContract("VestingToken", "VestingToken"))
  BY DeployContractWhole DEF Kind, eContractid
<1>4. W(InitializeBIBTokenTask)
  <2> HIDE DEF W
  <2>1. QED
    BY <1>0, <1>1, <1>2, <1>3 DEF InitializeBIBTokenTask
<1>5. W(InitializeTrackerTask)
  <2> DEFINE p == Do("chainId", "") \o Do("read", "TokenDividendTracker")
             a == Transact("initTracker")
             b == Transact("setController")
             c == Transact("updateClaimWait")
  <2>1. W(p) /\ W(a \o b \o c)
    BY <1>0, <1>1, SetupWhole
  <2>2. p \in Seq(StepType) /\ a \in Seq(StepType) /\ b \in Seq(StepType) /\ c \in Seq(StepType)
    BY <2>1, TransactSteps DEF CallOps
  <2>3. InitializeTrackerTask = p \o a \o b \o c
    BY DEF InitializeTrackerTask
  <2> HIDE DEF p, a, b, c, W
  <2>4. p \o a \o b = p \o (a \o b) /\ a \o b \in Seq(StepType)
    BY <2>2, ConcatAssociative, ConcatProperties
  <2>5. p \o (a \o b) \o c = p \o (a \o b \o c)
    <3> DEFINE ab == a \o b
    <3>1. ab \in Seq(StepType)
      BY <2>4
    <3> HIDE DEF ab
    <3>2. p \in Seq(StepType) /\ c \in Seq(StepType)
      BY <2>2
    <3>3. p \o ab \o c = p \o (ab \o c)
      BY <3>1, <3>2, ConcatAssociative
    <3>4. QED
      BY <3>3 DEF ab
  <2>6. W(p \o (a \o b \o c))
    BY <1>0, <2>1
  <2>7. InitializeTrackerTask = p \o (a \o b \o c)
    BY <2>3, <2>4, <2>5
  <2>8. QED
    BY <2>6, <2>7
<1>6. QED
  BY <1>4, <1>5

\* The steps of every task are in order.
LEMMA TasksInOrder ==
    ASSUME NEW task \in AllTasks, NEW verify \in BOOLEAN
    PROVE  Whole(Steps(task, verify))
<1> DEFINE W(s) == Whole(s) /\ s \in Seq(StepType)
<1>0. \A s, r : W(s) /\ W(r) => W(s \o r)
  BY ConcatWhole
<1>1. W(Do("admin", "")) /\ W(Do("checkVerification", "")) /\ W(Do("verify", ""))
  BY OtherWhole DEF OtherOps
<1>2. W(checkVerification(verify))
  BY <1>1, WhenWhole DEF checkVerification
<1>3. /\ W(DeployBIBTokenTask(verify)) /\ W(DeployTrackerTask(verify))
      /\ W(InitializeTrackerTask) /\ W(InitializeBIBTokenTask)
  BY DeployTasksWhole, InitializeTasksWhole
<1>4. W(DeploymentTask(verify))
  <2> HIDE DEF W
  <2>1. QED
    BY <1>0, <1>1, <1>2, <1>3 DEF DeploymentTask
<1>5. /\ W(BscDeploymentTask(verify)) /\ W(BscTestDeploymentTask(verify))
      /\ W(DevDeploymentTask(verify)) /\ W(VerifyScTask)
  <2> HIDE DEF W
  <2>1. QED
    BY <1>0, <1>1, <1>2, <1>4
       DEF BscDeploymentTask, BscTestDeploymentTask, DevDeploymentTask, VerifyScTask
<1>6. QED
  BY <1>3, <1>4, <1>5 DEF Steps, AllTasks, Migrations, DeployTasks

(***************************************************************************)
(* What the tasks add to it: the second invariant.                         *)
(***************************************************************************)

Tracker == db["TokenDividendTracker"]

IsProxy(c, k) == k \in DOMAIN c /\ c[k].kind = "Proxy"

\* A tracker that updateClaimWait reaches, before it has a token.
SetUp(c, k) ==
    /\ IsProxy(c, k) /\ Code(c, k) = "TokenDividendTracker"
    /\ c[k].admin # Deployer /\ c[k].owner = Deployer /\ NoTokenOf(c, k)

\* A task sets the controller of a proxy, and claimWait when nothing else is
\* pending.
SentOK ==
    \A i \in 1 .. Len(pending) :
        /\ TxLinked(pending[i], config)
        /\ pending[i].op = "setController" => IsProxy(chain, pending[i].to)
        /\ pending[i].op = "updateClaimWait" => i = 1 /\ SetUp(chain, pending[i].to)

\* What is awaited was sent last, by the task that runs and waits for it.
AwaitedOK ==
    \A i \in 1 .. Len(pending) :
        /\ pending[i].awaited =>
             /\ i = Len(pending) /\ Running /\ script.receipt = "none"
             /\ NextAwaits(script.todo)
             /\ pending[i].op = "setController" =>
                  /\ pending[i].to = Tracker
                  /\ Len(script.todo) >= 2 /\ IsSend(script.todo[2], "updateClaimWait")
        /\ ~pending[i].awaited => spent.kills > 0

OrderOK ==
    /\ InOrder(script.todo)
    /\ ~Running => script.todo = << >>
    /\ (Running /\ script.receipt # "none") => pending = << >>

Awaits(op) ==
    \A i \in 1 .. Len(pending) :
        pending[i].awaited => pending[i].op = op /\ pending[i].to = Tracker

NowSends(i, op) == Len(script.todo) >= i /\ IsSend(script.todo[i], op)

\* What the step before has left when setController or updateClaimWait is next.
SetupOK ==
    /\ NowSends(1, "setController") => script.receipt = "ok" /\ IsProxy(chain, Tracker)
    /\ NowSends(2, "setController") =>
         Awaits("initTracker") /\ (script.receipt = "ok" => IsProxy(chain, Tracker))
    /\ NowSends(1, "updateClaimWait") => script.receipt = "ok" /\ SetUp(chain, Tracker)
    /\ NowSends(2, "updateClaimWait") =>
         Awaits("setController") /\ (script.receipt = "ok" => SetUp(chain, Tracker))

Undisturbed == spent.kills = 0 /\ spent.lost = 0 /\ spent.stranger = 0

\* The task that has set the controller is about to set claimWait.
AboutToSet(k) ==
    \/ /\ k = Tracker
       /\ \/ NowSends(1, "updateClaimWait")
          \/ NowSends(2, "updateClaimWait") /\ script.receipt = "ok"
    \/ \E i \in 1 .. Len(pending) : pending[i].op = "updateClaimWait" /\ pending[i].to = k

\* A tracker with a controller is a proxy and has its claimWait, unless the
\* tasks were disturbed.
ControlOK ==
    \A k \in DOMAIN chain : chain[k].cntr # 0 =>
        /\ chain[k].kind # "Proxy" => spent.stranger > 0
        /\ Undisturbed => chain[k].claimWait = ClaimWait \/ AboutToSet(k)

SpentOK == /\ spent = [runs |-> spent.runs, kills |-> spent.kills, lost |-> spent.lost,
                       stranger |-> spent.stranger]
           /\ spent.kills \in Nat /\ spent.lost \in Nat /\ spent.stranger \in Nat

LiveInv == /\ Linked(chain, config)
           /\ SentOK /\ AwaitedOK /\ OrderOK /\ SetupOK /\ ControlOK /\ SpentOK

LEMMA LiveInit == Init => LiveInv
<1> SUFFICES ASSUME Init PROVE LiveInv
  OBVIOUS
<1>1. chain = << >> /\ pending = << >> /\ script = NoScript
  BY DEF Init
<1>2. script.todo = << >> /\ script.status = "idle"
  BY <1>1 DEF NoScript
<1>3. Len(pending) = 0 /\ Len(script.todo) = 0 /\ DOMAIN chain = {}
  BY <1>1, <1>2
<1>4. SpentOK
  BY DEF Init, SpentOK
<1>5. Linked(chain, config) /\ ControlOK
  BY <1>3 DEF Linked, ControlOK
<1>6. SentOK /\ AwaitedOK /\ OrderOK /\ SetupOK
  BY <1>1, <1>2, <1>3 DEF SentOK, AwaitedOK, OrderOK, InOrder, Running, SetupOK, NowSends
<1>7. QED
  BY <1>4, <1>5, <1>6 DEF LiveInv

\* The steps that are left when one has been taken.
LEMMA TheRest ==
    ASSUME ScriptOK, script.todo # << >>, script'.todo = Tail(script.todo)
    PROVE  /\ Len(script.todo) \in Nat \ {0} /\ Len(script'.todo) = Len(script.todo) - 1
           /\ Head(script.todo) = script.todo[1]
           /\ \A i \in 1 .. 2 : i <= Len(script'.todo) => script'.todo[i] = script.todo[i + 1]
           /\ InOrder(script.todo) => InOrder(script'.todo)
<1>1. /\ Len(script.todo) \in Nat \ {0} /\ Len(script'.todo) = Len(script.todo) - 1
      /\ \A i \in 1 .. Len(script'.todo) : script'.todo[i] = script.todo[i + 1]
      /\ Head(script.todo) = script.todo[1]
  BY HeadTailProperties, EmptySeq DEF ScriptOK
<1>2. \A i \in 1 .. 2 : i <= Len(script'.todo) => i \in 1 .. Len(script'.todo)
  BY <1>1
<1>3. InOrder(script.todo) => InOrder(script'.todo)
  BY TailInOrder DEF ScriptOK
<1>4. QED
  BY <1>1, <1>2, <1>3

\* What comes before a step that sends setController or updateClaimWait.
LEMMA Before ==
    ASSUME ScriptOK, OrderOK, script.todo # << >>
    PROVE  /\ NowSends(2, "setController") => script.todo[1].op = "await"
           /\ NowSends(3, "setController") => IsSend(script.todo[1], "initTracker")
           /\ NowSends(2, "updateClaimWait") => script.todo[1].op = "await"
           /\ NowSends(3, "updateClaimWait") => IsSend(script.todo[1], "setController")
           /\ NowSends(1, "setController") => NowSends(3, "updateClaimWait")
<1>1. /\ \A i \in 1 .. Len(script.todo) : StepInOrder(script.todo, i)
      /\ Len(script.todo) \in Nat
  BY LenProperties DEF OrderOK, InOrder, ScriptOK
<1> DEFINE s == script.todo
<1>2. /\ NowSends(2, "setController") \/ NowSends(2, "updateClaimWait") => 2 \in 1 .. Len(s)
      /\ NowSends(3, "setController") \/ NowSends(3, "updateClaimWait") => 3 \in 1 .. Len(s)
      /\ NowSends(1, "setController") => 1 \in 1 .. Len(s)
  BY <1>1 DEF NowSends
<1>3. /\ NowSends(2, "setController") => s[1].op = "await"
      /\ NowSends(2, "updateClaimWait") => s[1].op = "await"
  BY <1>1, <1>2 DEF NowSends, StepInOrder, After
<1>4. /\ NowSends(3, "setController") => IsSend(s[1], "initTracker")
      /\ NowSends(3, "updateClaimWait") => IsSend(s[1], "setController")
  BY <1>1, <1>2 DEF NowSends, StepInOrder, After
<1>5. NowSends(1, "setController") => NowSends(3, "updateClaimWait")
  BY <1>1, <1>2 DEF NowSends, StepInOrder
<1>6. QED
  BY <1>3, <1>4, <1>5

\* Where the next step is not to wait, nothing is awaited.
LEMMA NothingAwaited ==
    ASSUME AwaitedOK, ~NextAwaits(script.todo) \/ script.receipt # "none" \/ ~Running
    PROVE  \A i \in 1 .. Len(pending) : ~pending[i].awaited
BY DEF AwaitedOK

LEMMA NoWait ==
    ASSUME ScriptOK, script.todo # << >>, Head(script.todo).op \notin {"await", "register"}
    PROVE  ~NextAwaits(script.todo)
BY DEF NextAwaits, ScriptOK

LEMMA StartLive ==
    ASSUME Inv, LiveInv, NEW task \in Tasks, NEW verify \in BOOLEAN, Start(task, verify)
    PROVE  LiveInv'
<1>1. /\ ~Running /\ script.todo = << >>
      /\ UNCHANGED << config, chain, nonce, pending, db >>
      /\ script' = [NoScript EXCEPT !.task = task, !.verify = verify, !.status = "running",
                                    !.todo = Steps(task, verify)]
      /\ spent' = [spent EXCEPT !.runs = @ + 1]
  BY DEF Start, LiveInv, OrderOK
<1>2. script'.todo = Steps(task, verify) /\ script'.receipt = "none" /\ script'.status = "running"
  BY <1>1 DEF NoScript
<1>3. Whole(script'.todo)
  BY <1>2, TasksInOrder, TasksAssumption
<1>4. \A i \in 1 .. Len(pending) : ~pending[i].awaited
  BY <1>1, NothingAwaited DEF LiveInv
<1>5. SpentOK' /\ spent'.kills = spent.kills /\ spent'.lost = spent.lost
      /\ spent'.stranger = spent.stranger
  BY <1>1 DEF LiveInv, SpentOK
<1>6. Linked(chain, config)' /\ SentOK'
  BY <1>1 DEF LiveInv, SentOK, Linked
<1>7. AwaitedOK' /\ OrderOK'
  BY <1>1, <1>2, <1>3, <1>4, <1>5 DEF LiveInv, AwaitedOK, OrderOK, Whole, Running
<1>8. SetupOK' /\ ~NowSends(1, "updateClaimWait")' /\ ~NowSends(2, "updateClaimWait")'
  <2>1. Len(script'.todo) \in Nat
    BY <1>2, TaskSteps, TasksAssumption, LenProperties
  <2>2. /\ ~NowSends(1, "setController")' /\ ~NowSends(2, "setController")'
        /\ ~NowSends(1, "updateClaimWait")' /\ ~NowSends(2, "updateClaimWait")'
    BY <1>3, <2>1 DEF NowSends, Whole
  <2>3. QED
    BY <2>2 DEF SetupOK
<1>9. ControlOK'
  <2>1. ~NowSends(1, "updateClaimWait") /\ ~NowSends(2, "updateClaimWait")
    <3>1. Len(script.todo) = 0
      BY <1>1
    <3>2. QED
      BY <3>1 DEF NowSends
  <2>2. QED
    BY <1>1, <1>5, <2>1 DEF LiveInv, ControlOK, AboutToSet, Undisturbed
<1>10. QED
  BY <1>5, <1>6, <1>7, <1>8, <1>9 DEF LiveInv

\* A step that sends nothing is taken.
LEMMA ProceedLive ==
    ASSUME Inv, LiveInv, Running, script.todo # << >>, Proceed,
           Head(script.todo).op \notin {"create", "send"},
           Head(script.todo).op = "await" => script.receipt = "ok",
           UNCHANGED << config, chain, nonce, pending, spent >>,
           UNCHANGED db \/ Head(script.todo).op = "register"
    PROVE  LiveInv'
<1>1. /\ script'.todo = Tail(script.todo) /\ script'.receipt = script.receipt
      /\ script'.status = script.status
  BY DEF Proceed, Inv, ScriptOK
<1> DEFINE s == script.todo
           r == script'.todo
<1>2. /\ Len(s) \in Nat \ {0} /\ Len(r) = Len(s) - 1 /\ Head(s) = s[1]
      /\ \A i \in 1 .. 2 : i <= Len(r) => r[i] = s[i + 1]
      /\ InOrder(r)
  BY <1>1, TheRest DEF Inv, LiveInv, OrderOK
<1>3. /\ s[1].op \notin {"create", "send"}
      /\ s[1].op = "await" => script.receipt = "ok"
      /\ UNCHANGED db \/ s[1].op = "register"
      /\ script.receipt # "none" => pending = << >>
  BY <1>2 DEF LiveInv, OrderOK
<1>4. /\ r # << >> => Len(r) >= 1 /\ r[1] = s[2]
      /\ \A op : NowSends(1, op)' => NowSends(2, op)
      /\ \A op : NowSends(2, op)' => NowSends(3, op)
  <2>1. 1 \in 1 .. 2 /\ 2 \in 1 .. 2 /\ 1 + 1 = 2 /\ 2 + 1 = 3
    OBVIOUS
  <2>2. /\ Len(r) >= 1 => r[1] = s[2] /\ Len(s) >= 2
        /\ Len(r) >= 2 => r[2] = s[3] /\ Len(s) >= 3
    BY <1>2, <2>1
  <2>3. r # << >> => Len(r) >= 1
    BY <1>1, HeadTailProperties, EmptySeq DEF Inv, ScriptOK
  <2>4. \A op : (Len(r) >= 1 /\ IsSend(r[1], op)) => (Len(s) >= 2 /\ IsSend(s[2], op))
    BY <2>2
  <2>5. \A op : (Len(r) >= 2 /\ IsSend(r[2], op)) => (Len(s) >= 3 /\ IsSend(s[3], op))
    BY <2>2
  <2>6. QED
    BY <2>2, <2>3, <2>4, <2>5 DEF NowSends
<1>5. /\ ~NowSends(3, "setController") /\ ~NowSends(3, "updateClaimWait")
      /\ NowSends(2, "setController") \/ NowSends(2, "updateClaimWait") =>
           s[1].op = "await" /\ UNCHANGED db /\ script.receipt = "ok" /\ pending = << >>
  <2>1. /\ NowSends(3, "setController") => IsSend(s[1], "initTracker")
        /\ NowSends(3, "updateClaimWait") => IsSend(s[1], "setController")
        /\ NowSends(2, "setController") \/ NowSends(2, "updateClaimWait") => s[1].op = "await"
    BY Before DEF Inv, LiveInv
  <2>2. QED
    BY <1>3, <2>1 DEF IsSend
<1>6. ~NowSends(1, "setController") /\ ~NowSends(1, "updateClaimWait")
  BY <1>3 DEF NowSends, IsSend
<1>7. ~NowSends(2, "setController")' /\ ~NowSends(2, "updateClaimWait")'
  BY <1>4, <1>5
<1>8. /\ NowSends(1, "setController")' => NowSends(2, "setController")
      /\ NowSends(1, "updateClaimWait")' => NowSends(2, "updateClaimWait")
  BY <1>4
<1>9. Linked(chain, config)' /\ SentOK' /\ SpentOK'
  BY DEF LiveInv, SentOK, Linked, SpentOK
<1>10. AwaitedOK'
  <2> SUFFICES ASSUME NEW i \in 1 .. Len(pending), pending[i].awaited
               PROVE  /\ i = Len(pending) /\ script.receipt = "none" /\ NextAwaits(r)
                      /\ pending[i].op # "setController"
    BY <1>1 DEF LiveInv, AwaitedOK, Running
  <2>1. /\ i = Len(pending) /\ script.receipt = "none" /\ NextAwaits(s)
        /\ pending[i].op = "setController" => NowSends(2, "updateClaimWait")
    BY DEF LiveInv, AwaitedOK, NowSends
  <2>2. pending[i].op # "setController"
    BY <1>5, <2>1
  <2>3. Len(s) >= 2 /\ s[1].op = "register" /\ s[2].op = "await"
    BY <1>3, <2>1 DEF NextAwaits
  <2>4. Len(r) >= 1 /\ r[1] = s[2]
    <3>1. 1 \in 1 .. 2 /\ 1 + 1 = 2
      OBVIOUS
    <3>2. QED
      BY <1>2, <2>3, <3>1
  <2>5. NextAwaits(r)
    BY <2>3, <2>4 DEF NextAwaits
  <2>6. QED
    BY <2>1, <2>2, <2>5
<1>11. OrderOK'
  BY <1>1, <1>2 DEF LiveInv, OrderOK, Running
<1>12. SetupOK'
  <2>1. NowSends(2, "setController") => IsProxy(chain, Tracker)
    BY <1>5 DEF LiveInv, SetupOK
  <2>2. NowSends(2, "updateClaimWait") => SetUp(chain, Tracker)
    BY <1>5 DEF LiveInv, SetupOK
  <2>3. UNCHANGED db => IsProxy(chain, Tracker)' = IsProxy(chain, Tracker)
                        /\ SetUp(chain, Tracker)' = SetUp(chain, Tracker)
    BY DEF IsProxy, SetUp, Tracker, NoTokenOf, Code, IsContract
  <2>4. QED
    BY <1>1, <1>5, <1>7, <1>8, <2>1, <2>2, <2>3 DEF SetupOK
<1>13. ControlOK'
  <2>1. ASSUME NEW k, AboutToSet(k)
        PROVE  AboutToSet(k)'
    <3>1. CASE k = Tracker /\ NowSends(2, "updateClaimWait")
      <4>1. NowSends(1, "updateClaimWait")'
        <5>1. Len(s) >= 2 /\ IsSend(s[2], "updateClaimWait")
          BY <3>1 DEF NowSends
        <5>2. Len(r) >= 1
          BY <1>2, <5>1
        <5>3. r[1] = s[2]
          BY <1>2, <5>2
        <5>4. QED
          BY <5>1, <5>2, <5>3 DEF NowSends
      <4>2. UNCHANGED db
        BY <1>5, <3>1
      <4>3. QED
        BY <3>1, <4>1, <4>2 DEF AboutToSet, Tracker
    <3>2. QED
      BY <1>6, <2>1, <3>1 DEF AboutToSet
  <2>2. QED
    BY <2>1 DEF LiveInv, ControlOK, Undisturbed
<1>14. QED
  BY <1>9, <1>10, <1>11, <1>12, <1>13 DEF LiveInv

\* A task that ends itself waits for nothing.
LEMMA StopLive ==
    ASSUME Inv, LiveInv, Running,
           script' = [script EXCEPT !.status = script'.status, !.todo = << >>],
           script'.status # "running",
           ~NextAwaits(script.todo) \/ script.receipt # "none",
           NowSends(1, "updateClaimWait") => chain[Tracker].claimWait = ClaimWait,
           NowSends(2, "updateClaimWait") => script.receipt # "ok",
           UNCHANGED << config, chain, nonce, pending, db, spent >>
    PROVE  LiveInv'
<1>1. script'.todo = << >> /\ script'.receipt = script.receipt
  BY DEF Inv, ScriptOK
<1>2. \A i \in 1 .. Len(pending) : ~pending[i].awaited
  BY NothingAwaited DEF LiveInv
<1>3. Len(script'.todo) = 0
  BY <1>1
<1>5. Linked(chain, config)' /\ SentOK' /\ SpentOK'
  BY DEF LiveInv, SentOK, Linked, SpentOK
<1>6. AwaitedOK' /\ OrderOK'
  BY <1>1, <1>2, <1>3 DEF LiveInv, AwaitedOK, OrderOK, InOrder, Running
<1>7. SetupOK'
  BY <1>3 DEF SetupOK, NowSends
<1>8. ControlOK'
  <2>1. ASSUME NEW k \in DOMAIN chain, AboutToSet(k)
        PROVE  chain[k].claimWait = ClaimWait \/ AboutToSet(k)'
    BY <2>1 DEF AboutToSet
  <2>2. QED
    BY <2>1 DEF LiveInv, ControlOK, Undisturbed
<1>9. QED
  BY <1>5, <1>6, <1>7, <1>8 DEF LiveInv

\* One transaction more.
LEMMA OneMoreSent ==
    ASSUME PendingOK, NEW tx \in TxType
    PROVE  /\ Len(Append(pending, tx)) = Len(pending) + 1 /\ Len(pending) \in Nat
           /\ Append(pending, tx)[Len(pending) + 1] = tx
           /\ \A i \in 1 .. Len(pending) + 1 :
                 \/ i = Len(pending) + 1
                 \/ i \in 1 .. Len(pending) /\ Append(pending, tx)[i] = pending[i]
<1> DEFINE p == Append(pending, tx)
           n == Len(pending)
<1>1. /\ Len(p) = n + 1 /\ n \in Nat
      /\ \A i \in 1 .. n : p[i] = pending[i]
      /\ p[n + 1] = tx
  BY AppendProperties, LenProperties DEF PendingOK
<1> HIDE DEF p, n
<1>2. \A i \in 1 .. n + 1 : i = n + 1 \/ i \in 1 .. n
  BY <1>1
<1>3. QED
  BY <1>1, <1>2 DEF p, n

\* A transaction is sent, with nothing awaited before it.
LEMMA SentLive ==
    ASSUME Inv, LiveInv, Running, script.todo # << >>,
           Head(script.todo).op \in {"create", "send"},
           NEW tx, TxOK(tx), tx.awaited, TxLinked(tx, config),
           tx.op = IF Head(script.todo).op = "create" THEN "create" ELSE Arg,
           tx.op \in {"initTracker", "setController", "updateClaimWait"} => tx.to = Tracker,
           pending' = Append(pending, tx),
           script'.todo = Tail(script.todo), script'.receipt = "none",
           script'.status = script.status,
           UNCHANGED << config, chain, nonce, db, spent >>
    PROVE  LiveInv'
<1> DEFINE s == script.todo
           r == script'.todo
           n == Len(pending)
<1>1. /\ Len(s) \in Nat \ {0} /\ Len(r) = Len(s) - 1 /\ Head(s) = s[1]
      /\ Len(r) >= 1 => r[1] = s[2]
      /\ Len(r) >= 2 => r[2] = s[3]
      /\ InOrder(r)
  <2>1. /\ Len(s) \in Nat \ {0} /\ Len(r) = Len(s) - 1 /\ Head(s) = s[1]
        /\ \A i \in 1 .. 2 : i <= Len(r) => r[i] = s[i + 1]
        /\ InOrder(r)
    BY TheRest DEF Inv, LiveInv, OrderOK
  <2>2. 1 \in 1 .. 2 /\ 2 \in 1 .. 2 /\ 1 + 1 = 2 /\ 2 + 1 = 3
    OBVIOUS
  <2>3. QED
    BY <2>1, <2>2
<1>2. /\ Len(pending') = n + 1 /\ n \in Nat /\ pending'[n + 1] = tx
      /\ \A i \in 1 .. n + 1 :
            i = n + 1 \/ (i \in 1 .. n /\ pending'[i] = pending[i])
  BY OneMoreSent DEF Inv, TxOK
<1> HIDE DEF n
<1>3. \A i \in 1 .. n : ~pending[i].awaited
  BY NoWait, NothingAwaited DEF Inv, LiveInv, n
<1>4. /\ \A op : IsSend(s[1], op) => tx.op = op
      /\ s[1].op \in {"create", "send"} /\ s[1].op # "await"
  BY <1>1 DEF IsSend, Arg
<1>5. /\ tx.op = "setController" => NowSends(1, "setController")
      /\ tx.op = "updateClaimWait" => NowSends(1, "updateClaimWait")
  BY <1>1 DEF NowSends, IsSend, Arg
<1>6. /\ NowSends(3, "setController") => tx.op = "initTracker" /\ tx.to = Tracker
      /\ NowSends(3, "updateClaimWait") => tx.op = "setController" /\ tx.to = Tracker
      /\ ~NowSends(2, "setController") /\ ~NowSends(2, "updateClaimWait")
      /\ NowSends(1, "setController") => NowSends(3, "updateClaimWait")
  BY <1>4, Before DEF Inv, LiveInv
<1>7. /\ \A op : NowSends(1, op)' => NowSends(2, op)
      /\ \A op : NowSends(2, op)' => NowSends(3, op)
      /\ \A op : NowSends(3, op) => NowSends(2, op)'
  <2>1. /\ Len(r) >= 1 => r[1] = s[2] /\ Len(s) >= 2
        /\ Len(r) >= 2 => r[2] = s[3] /\ Len(s) >= 3
        /\ Len(s) >= 3 => Len(r) >= 2
    BY <1>1
  <2>2. \A op : (Len(r) >= 1 /\ IsSend(r[1], op)) => (Len(s) >= 2 /\ IsSend(s[2], op))
    BY <2>1
  <2>3. \A op : (Len(r) >= 2 /\ IsSend(r[2], op)) <=> (Len(s) >= 3 /\ IsSend(s[3], op))
    BY <2>1
  <2>4. QED
    BY <2>2, <2>3 DEF NowSends
<1>8. Linked(chain, config)' /\ SpentOK'
  BY DEF LiveInv, Linked, SpentOK
<1>9. SentOK'
  <2>1. tx.op = "setController" => IsProxy(chain, tx.to)
    BY <1>5 DEF LiveInv, SetupOK
  <2>2. tx.op = "updateClaimWait" => n + 1 = 1 /\ SetUp(chain, tx.to)
    <3>1. tx.op = "updateClaimWait" => script.receipt = "ok" /\ SetUp(chain, tx.to)
      BY <1>5 DEF LiveInv, SetupOK
    <3>2. script.receipt = "ok" => pending = << >>
      BY DEF LiveInv, OrderOK
    <3>3. pending = << >> => n = 0
      BY DEF n
    <3>4. QED
      BY <3>1, <3>2, <3>3
  <2>3. ASSUME NEW i \in 1 .. n + 1
        PROVE  /\ TxLinked(pending'[i], config)
               /\ pending'[i].op = "setController" => IsProxy(chain, pending'[i].to)
               /\ pending'[i].op = "updateClaimWait" => i = 1 /\ SetUp(chain, pending'[i].to)
    <3>1. CASE i = n + 1
      BY <1>2, <2>1, <2>2, <3>1
    <3>2. CASE i \in 1 .. n /\ pending'[i] = pending[i]
      BY <3>2 DEF LiveInv, SentOK, n
    <3>3. QED
      BY <1>2, <3>1, <3>2
  <2>4. QED
    BY <1>2, <2>3 DEF SentOK, IsProxy, SetUp, NoTokenOf, Code, IsContract
<1>10. AwaitedOK'
  <2>1. NextAwaits(r)
    <3>1. StepInOrder(s, 1)
      BY <1>1 DEF LiveInv, OrderOK, InOrder
    <3>2. \/ Len(s) > 1 /\ s[2].op = "await"
          \/ Len(s) > 2 /\ s[2].op = "register" /\ s[3].op = "await"
      BY <1>4, <3>1 DEF StepInOrder
    <3>3. QED
      BY <1>1, <3>2 DEF NextAwaits
  <2>2. tx.op = "setController" =>
          tx.to = Tracker /\ Len(r) >= 2 /\ IsSend(r[2], "updateClaimWait")
    <3>1. tx.op = "setController" => NowSends(2, "updateClaimWait")'
      BY <1>5, <1>6, <1>7
    <3>2. QED
      BY <3>1 DEF NowSends
  <2>3. Running'
    BY DEF Running
  <2>4. ASSUME NEW i \in 1 .. n + 1
        PROVE  /\ pending'[i].awaited =>
                    /\ i = n + 1 /\ NextAwaits(r)
                    /\ pending'[i].op = "setController" =>
                         /\ pending'[i].to = Tracker
                         /\ Len(r) >= 2 /\ IsSend(r[2], "updateClaimWait")
               /\ ~pending'[i].awaited => spent.kills > 0
    <3>1. CASE i = n + 1
      BY <1>2, <2>1, <2>2, <3>1
    <3>2. CASE i \in 1 .. n /\ pending'[i] = pending[i]
      BY <1>3, <3>2 DEF LiveInv, AwaitedOK, n
    <3>3. QED
      BY <1>2, <3>1, <3>2
  <2>5. QED
    BY <1>2, <2>3, <2>4 DEF AwaitedOK, Tracker
<1>11. OrderOK'
  BY <1>1 DEF LiveInv, OrderOK, Running
<1>12. SetupOK'
  <2>1. /\ ~NowSends(1, "setController")' /\ ~NowSends(1, "updateClaimWait")'
        /\ NowSends(2, "setController")' => tx.op = "initTracker" /\ tx.to = Tracker
        /\ NowSends(2, "updateClaimWait")' => tx.op = "setController" /\ tx.to = Tracker
    BY <1>6, <1>7
  <2>2. \A i \in 1 .. n + 1 : pending'[i].awaited => pending'[i] = tx
    BY <1>2, <1>3
  <2>3. /\ NowSends(2, "setController")' => Awaits("initTracker")'
        /\ NowSends(2, "updateClaimWait")' => Awaits("setController")'
    BY <1>2, <2>1, <2>2 DEF Awaits, Tracker
  <2>4. QED
    BY <2>1, <2>3 DEF SetupOK
<1>13. ControlOK'
  <2>1. ASSUME NEW k, AboutToSet(k)
        PROVE  AboutToSet(k)'
    <3>1. CASE k = Tracker /\ NowSends(1, "updateClaimWait")
      <4>1. tx.op = "updateClaimWait" /\ tx.to = k
        BY <1>4, <3>1 DEF NowSends
      <4>2. n + 1 \in 1 .. Len(pending')
        BY <1>2
      <4>3. QED
        BY <1>2, <4>1, <4>2 DEF AboutToSet
    <3>2. ASSUME NEW i \in 1 .. n, pending[i].op = "updateClaimWait", pending[i].to = k
          PROVE  AboutToSet(k)'
      <4>1. i \in 1 .. Len(pending') /\ pending'[i] = pending[i]
        BY <1>2
      <4>2. QED
        BY <3>2, <4>1 DEF AboutToSet
    <3>3. QED
      BY <1>6, <2>1, <3>1, <3>2 DEF AboutToSet, n
  <2>2. QED
    BY <2>1 DEF LiveInv, ControlOK, Undisturbed
<1>14. QED
  BY <1>8, <1>9, <1>10, <1>11, <1>12, <1>13 DEF LiveInv

LEMMA TailOfOneMore ==
    ASSUME NEW S, NEW x \in S, NEW s \in Seq(S)
    PROVE  Tail(<< x >> \o s) = s /\ Len(<< x >> \o s) = Len(s) + 1
<1> DEFINE o == << x >>
           u == o \o s
<1>1. o \in Seq(S) /\ Len(o) = 1
  OBVIOUS
<1> HIDE DEF o
<1>2. /\ u \in Seq(S) /\ Len(s) \in Nat /\ Len(u) = Len(s) + 1
      /\ \A i \in 1 .. Len(s) : u[1 + i] = s[i]
  BY <1>1, ConcatElements
<1> HIDE DEF u
<1>3. u # << >>
  <2>1. u = << >> => Len(u) = 0
    OBVIOUS
  <2>2. QED
    BY <1>2, <2>1
<1>4. /\ Tail(u) \in Seq(S) /\ Len(Tail(u)) = Len(s)
      /\ \A i \in 1 .. Len(Tail(u)) : Tail(u)[i] = u[i + 1]
  BY <1>2, <1>3, HeadTailProperties
<1>5. \A i \in 1 .. Len(s) : Tail(u)[i] = s[i]
  BY <1>2, <1>4
<1>6. Tail(u) = s
  BY <1>2, <1>4, <1>5, SeqEqual
<1>7. QED
  BY <1>2, <1>6 DEF u, o

\* What the calls of the tasks say.
LEMMA CallsLinked ==
    ASSUME Inv, NEW op \in CallOps
    PROVE  /\ TxLinked(CallOf(op), config) /\ CallOf(op).awaited
           /\ op \in {"initTracker", "setController", "updateClaimWait"} =>
                CallOf(op).to = Tracker
<1>1. CASE op \in {"setController", "updateClaimWait", "setAllowTransfer", "release"}
  BY <1>1 DEF CallOf, Tx, TxLinked, Tracker
<1>2. CASE op = "initTracker"
  BY <1>2 DEF CallOf, Tx, TxLinked, Tracker, NoArgs
<1>3. CASE op = "initToken"
  BY <1>3 DEF CallOf, Tx, TxLinked, Tracker, NoArgs
<1>4. CASE op = "initAddress"
  <2> DEFINE w == << script.made >> \o config.vaults
  <2>1. script.made \in Addr /\ config.vaults \in Seq(Addr) /\ Len(config.vaults) = 7
    BY ConfigsAssumption DEF Inv, ScriptOK, Addr
  <2>2. Tail(w) = config.vaults /\ Len(w) = 8 /\ w \in Seq(Addr)
    <3>1. Tail(w) = config.vaults /\ Len(w) = Len(config.vaults) + 1
      BY <2>1, TailOfOneMore, Zenon
    <3>2. Len(w) = 8
      BY <2>1, <3>1
    <3>3. QED
      BY <2>1, <3>1, <3>2, OneMore, Zenon
  <2>3. CallOf(op) = Tx(op, db["BIBToken"], [NoArgs EXCEPT !.wallets = w])
    BY <1>4 DEF CallOf
  <2> HIDE DEF w
  <2> DEFINE args == [NoArgs EXCEPT !.wallets = w]
  <2>4. args.wallets = w
    BY <2>2, ArgsAreTyped
  <2>5. CallOf(op) = Tx(op, db["BIBToken"], args)
    BY <2>3
  <2> HIDE DEF args
  <2>6. /\ CallOf(op).op = "initAddress" /\ CallOf(op).args = args
        /\ CallOf(op).from = Deployer /\ CallOf(op).awaited
    BY <1>4, <2>5 DEF Tx
  <2>7. TxLinked(CallOf(op), config)
    BY <2>2, <2>4, <2>6 DEF TxLinked
  <2>8. QED
    BY <1>4, <2>6, <2>7
<1>5. QED
  BY <1>1, <1>2, <1>3, <1>4 DEF CallOps

\* updateClaimWait is refused only where claimWait is set already.
LEMMA RefusedWhenSet ==
    ASSUME Inv, LiveInv, script.todo # << >>, NowSends(1, "updateClaimWait"),
           Reverts(chain, CallOf("updateClaimWait"))
    PROVE  chain[Tracker].claimWait = ClaimWait
<1> DEFINE tx == CallOf("updateClaimWait")
<1>1. tx.op = "updateClaimWait" /\ tx.to = Tracker /\ tx.from = Deployer
  BY DEF CallOf, Tx, Tracker
<1> HIDE DEF tx
<1>2. UpdateClaimWaitReverts(chain, tx)
  BY <1>1 DEF Reverts, tx
<1>3. SetUp(chain, Tracker)
  BY DEF LiveInv, SetupOK
<1>4. Reaches(chain, tx.to, tx.from, "TokenDividendTracker") /\ chain[tx.to].owner = Deployer
  BY <1>1, <1>3 DEF SetUp, Reaches, WillFallback, ifAdmin
<1>5. QED
  BY <1>1, <1>2, <1>4 DEF UpdateClaimWaitReverts

\* Sending: the transaction is pending, or the task has failed.
LEMMA SendLive ==
    ASSUME Inv, LiveInv, Running, script.todo # << >>,
           Head(script.todo).op \in {"create", "send"},
           NEW tx, TxOK(tx), tx.awaited, TxLinked(tx, config),
           tx.op = IF Head(script.todo).op = "create" THEN "create" ELSE Arg,
           tx.op \in {"initTracker", "setController", "updateClaimWait"} => tx.to = Tracker,
           tx.op = "updateClaimWait" => tx = CallOf("updateClaimWait"),
           NEW estimated, Send(tx, estimated),
           UNCHANGED << config, chain, nonce, db, spent >>
    PROVE  LiveInv'
<1>1. CASE Reverts(chain, tx) /\ Stop("failed") /\ UNCHANGED pending
  <2>1. /\ script' = [script EXCEPT !.status = "failed", !.todo = << >>]
        /\ script'.status = "failed"
    BY <1>1 DEF Stop, Inv, ScriptOK
  <2>2. ~NextAwaits(script.todo)
    BY NoWait DEF Inv
  <2>3. Head(script.todo) = script.todo[1]
    BY HeadTailProperties DEF Inv, ScriptOK
  <2>4. NowSends(1, "updateClaimWait") => chain[Tracker].claimWait = ClaimWait
    <3>1. NowSends(1, "updateClaimWait") => tx = CallOf("updateClaimWait")
      BY <2>3 DEF NowSends, IsSend, Arg
    <3>2. QED
      BY <1>1, <3>1, RefusedWhenSet
  <2>5. ~NowSends(2, "updateClaimWait")
    BY <2>3, Before DEF Inv, LiveInv
  <2>6. script' = [script EXCEPT !.status = script'.status, !.todo = << >>]
    BY <2>1
  <2>7. QED
    BY <1>1, <2>1, <2>2, <2>4, <2>5, <2>6, StopLive
<1>2. CASE /\ pending' = Append(pending, tx)
           /\ script' = [script EXCEPT !.todo = Tail(@), !.receipt = "none", !.hasSent = TRUE,
                           !.made = IF tx.op = "create" THEN tx.to ELSE @]
  <2>1. /\ script'.todo = Tail(script.todo) /\ script'.receipt = "none"
        /\ script'.status = script.status
    BY <1>2 DEF Inv, ScriptOK
  <2>2. QED
    BY <1>2, <2>1, SentLive
<1>3. QED
  BY <1>1, <1>2 DEF Send

LEMMA CreateContractLive ==
    ASSUME Inv, LiveInv, CreateContract
    PROVE  LiveInv'
<1> DEFINE tx == Tx("create", NextNonce, [NoArgs EXCEPT !.kind = Arg, !.account = config.team])
<1>1. /\ script.todo # << >> /\ [op |-> "create", arg |-> Arg] \in StepType
      /\ Running /\ Head(script.todo).op = "create"
  BY TheStep DEF CreateContract, At, Inv
<1>2. Arg \in Kind
  BY <1>1 DEF StepType, OtherOps
<1>3. NextNonce \in Nat
  BY LenProperties DEF NextNonce, Inv, PendingOK
<1>4. [NoArgs EXCEPT !.kind = Arg, !.account = config.team] \in ArgsType
  BY <1>2, ArgsAreTyped, ConfigType DEF Inv
<1>5. TxOK(tx) /\ tx.op = "create" /\ tx.awaited /\ TxLinked(tx, config)
  BY <1>3, <1>4, DeployerAssumption DEF TxOK, TxType, Tx, TxLinked
<1>6. Send(tx, TRUE) /\ UNCHANGED << config, chain, nonce, db, spent >>
  BY DEF CreateContract
<1> HIDE DEF tx
<1>7. QED
  BY <1>1, <1>5, <1>6, SendLive

LEMMA SendCallLive ==
    ASSUME Inv, LiveInv, SendCall
    PROVE  LiveInv'
<1>1. /\ script.todo # << >> /\ [op |-> "send", arg |-> Arg] \in StepType
      /\ Running /\ Head(script.todo).op = "send"
  BY TheStep DEF SendCall, At, Inv
<1>2. Arg \in CallOps
  BY <1>1 DEF StepType, OtherOps
<1>3. UNCHANGED << config, chain, nonce, db, spent >>
  BY DEF SendCall
<1>4. CASE Arg \in {"initTracker", "initToken"} /\ Stop("failed") /\ UNCHANGED pending
  <2>1. /\ script' = [script EXCEPT !.status = "failed", !.todo = << >>]
        /\ script'.status = "failed"
    BY <1>4 DEF Stop, Inv, ScriptOK
  <2>2. ~NextAwaits(script.todo)
    BY <1>1, NoWait DEF Inv
  <2>3. Head(script.todo) = script.todo[1]
    BY <1>1, HeadTailProperties DEF Inv, ScriptOK
  <2>4. ~NowSends(1, "updateClaimWait")
    BY <1>4, <2>3 DEF NowSends, IsSend, Arg
  <2>5. ~NowSends(2, "updateClaimWait")
    BY <1>1, <2>3, Before DEF Inv, LiveInv
  <2>6. script' = [script EXCEPT !.status = script'.status, !.todo = << >>]
    BY <2>1
  <2>7. QED
    BY <1>1, <1>3, <1>4, <2>1, <2>2, <2>4, <2>5, <2>6, StopLive
<1>5. CASE /\ Arg \in {"initTracker", "initToken"} => config.admin # ""
           /\ Send(CallOf(Arg), Arg \in {"initTracker", "setController", "updateClaimWait"})
  <2> DEFINE tx == CallOf(Arg)
             estimated == Arg \in {"initTracker", "setController", "updateClaimWait"}
  <2>1. /\ TxOK(tx) /\ tx.op = Arg /\ tx.awaited /\ TxLinked(tx, config)
        /\ Arg \in {"initTracker", "setController", "updateClaimWait"} => tx.to = Tracker
    BY <1>2, <1>5, CallsAreTyped, CallsLinked
  <2>2. tx.op = "updateClaimWait" => tx = CallOf("updateClaimWait")
    BY <2>1
  <2>3. Send(tx, estimated)
    BY <1>5
  <2>4. tx.op = IF Head(script.todo).op = "create" THEN "create" ELSE Arg
    BY <1>1, <2>1
  <2>5. tx.op \in {"initTracker", "setController", "updateClaimWait"} => tx.to = Tracker
    BY <2>1
  <2> HIDE DEF tx, estimated
  <2>6. QED
    BY <1>1, <1>3, <2>1, <2>2, <2>3, <2>4, <2>5, SendLive
<1>6. QED
  BY <1>4, <1>5 DEF SendCall

\* setController changes the controller, and nothing else.
LEMMA OnlyTheController ==
    ASSUME NEW c, ChainOK(c), NEW tx, ~SetControllerReverts(c, tx)
    PROVE  /\ tx.to \in DOMAIN c /\ c[tx.to].cntr = 0
           /\ DOMAIN SetController(c, tx) = DOMAIN c
           /\ \A a \in DOMAIN c :
                 /\ SetController(c, tx)[a].kind = c[a].kind
                 /\ SetController(c, tx)[a].impl = c[a].impl
                 /\ SetController(c, tx)[a].admin = c[a].admin
                 /\ SetController(c, tx)[a].owner = c[a].owner
                 /\ SetController(c, tx)[a].tracker = c[a].tracker
                 /\ SetController(c, tx)[a].claimWait = c[a].claimWait
<1> DEFINE d == SetController(c, tx)
           r == [c[tx.to] EXCEPT !.cntr = tx.args.account]
<1>1. tx.to \in DOMAIN c /\ c[tx.to].cntr = 0
  BY DEF SetControllerReverts, Reaches, Code, IsContract
<1>2. c \in [DOMAIN c -> ContractType]
  BY DEF ChainOK, ChainType
<1>3. d = [c EXCEPT ![tx.to] = r]
  BY DEF SetController
<1>4. c[tx.to] \in ContractType
  BY <1>1, <1>2
<1>5. /\ r.kind = c[tx.to].kind /\ r.impl = c[tx.to].impl /\ r.admin = c[tx.to].admin
      /\ r.owner = c[tx.to].owner /\ r.tracker = c[tx.to].tracker
      /\ r.claimWait = c[tx.to].claimWait
  BY <1>4 DEF ContractType
<1> HIDE DEF r
<1>6. /\ DOMAIN d = DOMAIN c /\ d[tx.to] = r
      /\ \A a \in DOMAIN c \ {tx.to} : d[a] = c[a]
  BY <1>1, <1>2, <1>3
<1> HIDE DEF d
<1>7. QED
  BY <1>1, <1>5, <1>6 DEF d

LEMMA SetUpStays ==
    ASSUME NEW c, NEW d, DOMAIN d = DOMAIN c,
           \A a \in DOMAIN c :
              /\ d[a].kind = c[a].kind /\ d[a].impl = c[a].impl /\ d[a].admin = c[a].admin
              /\ d[a].owner = c[a].owner /\ d[a].tracker = c[a].tracker,
           NEW k
    PROVE  /\ IsProxy(c, k) => IsProxy(d, k)
           /\ SetUp(c, k) => SetUp(d, k)
BY DEF IsProxy, SetUp, Code, IsContract, NoTokenOf

\* The deployer sets the controller of a proxy: no token has had it before.
LEMMA ControllerMined ==
    ASSUME NEW c, ChainOK(c), NEW g, Linked(c, g), NEW tx, tx.op = "setController",
           tx.from = Deployer, ~Reverts(c, tx), IsProxy(c, tx.to)
    PROVE  SetUp(Apply(c, tx), tx.to)
<1> DEFINE k == tx.to
<1>1. ~SetControllerReverts(c, tx) /\ Apply(c, tx) = SetController(c, tx)
  BY DEF Reverts, Apply
<1>2. /\ k \in DOMAIN c /\ c[k].kind = "Proxy" /\ c[k].cntr = 0
      /\ Code(c, k) = "TokenDividendTracker" /\ c[k].admin # Deployer
  BY <1>1 DEF IsProxy, SetControllerReverts, Reaches, WillFallback, ifAdmin
<1>3. c[k].impl # NOBODY
  BY <1>2 DEF Code, IsContract, ChainOK, ChainType, NOBODY
<1>4. c[k].owner = Deployer
  BY <1>2, <1>3 DEF Linked, LinkOK
<1>5. NoTokenOf(c, k)
  <2> SUFFICES ASSUME NEW t \in DOMAIN c, c[t].tracker = k PROVE FALSE
    BY DEF NoTokenOf
  <2>1. TokenOK(c, t) /\ k # 0 /\ t # 0
    BY <1>2 DEF ChainOK, ChainType
  <2>2. QED
    BY <1>2, <2>1 DEF TokenOK
<1>6. SetUp(c, k)
  BY <1>2, <1>4, <1>5 DEF SetUp, IsProxy
<1>7. SetUp(SetController(c, tx), k)
  BY <1>1, <1>6, OnlyTheController, SetUpStays
<1>8. QED
  BY <1>1, <1>7

LEMMA ClaimWaitMined ==
    ASSUME NEW c, ChainOK(c), NEW tx, tx.op = "updateClaimWait", tx.from = Deployer,
           SetUp(c, tx.to)
    PROVE  IF Reverts(c, tx) THEN c[tx.to].claimWait = ClaimWait
                             ELSE Apply(c, tx)[tx.to].claimWait = ClaimWait
<1>1. /\ tx.to \in DOMAIN c /\ c \in [DOMAIN c -> ContractType] /\ c[tx.to] \in ContractType
  BY DEF SetUp, IsProxy, ChainOK, ChainType
<1>2. Reverts(c, tx) = UpdateClaimWaitReverts(c, tx) /\ Apply(c, tx) = UpdateClaimWait(c, tx)
  BY DEF Reverts, Apply
<1>3. Reaches(c, tx.to, tx.from, "TokenDividendTracker") /\ c[tx.to].owner = Deployer
  BY DEF SetUp, Reaches, WillFallback, ifAdmin
<1>4. Reverts(c, tx) => c[tx.to].claimWait = ClaimWait
  BY <1>2, <1>3 DEF UpdateClaimWaitReverts
<1>5. UpdateClaimWait(c, tx)[tx.to].claimWait = ClaimWait
  BY <1>1 DEF UpdateClaimWait, ContractType
<1>6. QED
  BY <1>2, <1>4, <1>5

LEMMA TrackerMined ==
    ASSUME NEW c, NEW tx, tx.op = "initTracker", ~Reverts(c, tx)
    PROVE  IsProxy(c, tx.to)
BY DEF Reverts, NotAFreshProxy, IsContract, IsProxy

LEMMA ProxyStays ==
    ASSUME NEW c, NEW d, Grows(c, d), NEW k, IsProxy(c, k)
    PROVE  IsProxy(d, k)
BY DEF Grows, IsProxy

LEMMA NothingChanges ==
    ASSUME NEW c, NEW g, Linked(c, g)
    PROVE  Grows(c, c) /\ LiveStays(c, c)
BY DEF Grows, LiveStays

\* What mining leaves of the chain, whether the transaction fails or not.
LEMMA MinePreserves ==
    ASSUME Inv, LiveInv, Mine
    PROVE  /\ IF Reverts(chain, pending[1]) THEN UNCHANGED chain
              ELSE /\ chain' = Apply(chain, pending[1])
                   /\ ControlledFrom(chain, chain', pending[1])
           /\ Grows(chain, chain') /\ Linked(chain', config) /\ LiveStays(chain, chain')
           /\ TxOK(pending[1]) /\ pending[1].from = Deployer /\ 1 \in 1 .. Len(pending)
<1> DEFINE tx == pending[1]
<1>1. /\ Head(pending) = tx /\ 1 \in 1 .. Len(pending)
      /\ pending # << >> /\ Len(pending) \in Nat \ {0}
  BY HeadTailProperties, EmptySeq DEF Inv, PendingOK, Mine
<1>2. TxOK(tx) /\ tx.from = Deployer /\ (tx.op = "create" => tx.to = nonce + 1)
  BY <1>1 DEF Inv, PendingOK
<1>3. TxLinked(tx, config) /\ (tx.op = "updateClaimWait" => NoTokenOf(chain, tx.to))
  BY <1>1 DEF LiveInv, SentOK, SetUp
<1>4. tx.op = "create" => tx.to \notin DOMAIN chain
  BY <1>2 DEF Inv
<1>5. Len(config.vaults) = 7 /\ ChainOK(chain) /\ Linked(chain, config)
  BY ConfigsAssumption DEF Inv, LiveInv
<1>6. IF Reverts(chain, tx) THEN UNCHANGED chain ELSE chain' = Apply(chain, tx)
  BY <1>1 DEF Mine
<1> HIDE DEF tx
<1>7. ~Reverts(chain, tx) => Preserves(chain, chain', config, tx)
  BY <1>2, <1>3, <1>4, <1>5, <1>6, ApplyPreserves
<1>8. QED
  BY <1>1, <1>2, <1>5, <1>6, <1>7, NothingChanges DEF Preserves, tx

LEMMA MineLive ==
    ASSUME Inv, LiveInv, Mine
    PROVE  LiveInv' /\ LiveStays(chain, chain')
<1> DEFINE tx == pending[1]
           n == Len(pending)
           failed == Reverts(chain, tx)
<1>1. /\ IF failed THEN UNCHANGED chain
         ELSE chain' = Apply(chain, tx) /\ ControlledFrom(chain, chain', tx)
      /\ Grows(chain, chain') /\ Linked(chain', config) /\ LiveStays(chain, chain')
      /\ TxOK(tx) /\ tx.from = Deployer /\ 1 \in 1 .. n
  BY MinePreserves
<1>2. /\ Head(pending) = tx /\ n \in Nat \ {0}
      /\ Len(pending') = n - 1
      /\ \A i \in 1 .. Len(pending') : pending'[i] = pending[i + 1]
      /\ n = 1 => pending' = << >>
  <2>1. /\ pending \in Seq(TxType) /\ pending # << >> /\ pending' = Tail(pending)
        /\ Head(pending) = pending[1] /\ Len(pending) \in Nat \ {0}
        /\ pending' \in Seq(TxType) /\ Len(pending') = Len(pending) - 1
        /\ \A i \in 1 .. Len(pending') : pending'[i] = pending[i + 1]
    BY HeadTailProperties, EmptySeq DEF Inv, PendingOK, Mine
  <2>2. Len(pending') = 0 => pending' = << >>
    BY <2>1, EmptySeq
  <2>3. QED
    BY <2>1, <2>2
<1>3. /\ script'.todo = script.todo /\ script'.status = script.status
      /\ script'.receipt = IF tx.awaited THEN (IF failed THEN "reverted" ELSE "ok")
                           ELSE script.receipt
      /\ UNCHANGED << config, db, spent >>
  BY <1>2 DEF Mine, Inv, ScriptOK
<1>4. tx.awaited => n = 1 /\ Running /\ script.receipt = "none"
  BY <1>1 DEF LiveInv, AwaitedOK
<1>5. /\ Running => script.receipt = "none"
      /\ ~NowSends(1, "setController") /\ ~NowSends(1, "updateClaimWait")
  <2>1. pending # << >>
    BY DEF Mine
  <2>2. Running => script.receipt = "none"
    BY <2>1 DEF LiveInv, OrderOK
  <2>3. ~Running => Len(script.todo) = 0
    BY DEF LiveInv, OrderOK
  <2>4. QED
    BY <2>2, <2>3 DEF LiveInv, SetupOK, NowSends
<1>6. \A i, op : NowSends(i, op)' = NowSends(i, op)
  BY <1>3 DEF NowSends
<1>7. \A i \in 1 .. Len(pending') : i + 1 \in 1 .. n /\ i + 1 # 1
  BY <1>2
<1>8. Running' = Running /\ SpentOK'
  BY <1>3 DEF LiveInv, Running, SpentOK
<1>9. SentOK'
  <2>1. ASSUME NEW i \in 1 .. Len(pending')
        PROVE  /\ TxLinked(pending'[i], config')
               /\ pending'[i].op = "setController" => IsProxy(chain', pending'[i].to)
               /\ pending'[i].op # "updateClaimWait"
    <3>1. /\ TxLinked(pending[i + 1], config)
          /\ pending[i + 1].op = "setController" => IsProxy(chain, pending[i + 1].to)
          /\ pending[i + 1].op # "updateClaimWait"
      BY <1>7 DEF LiveInv, SentOK
    <3>2. QED
      BY <1>1, <1>2, <1>3, <3>1, ProxyStays
  <2>2. QED
    BY <2>1 DEF SentOK
<1>10. AwaitedOK'
  <2> SUFFICES ASSUME NEW i \in 1 .. Len(pending')
               PROVE  /\ pending'[i].awaited =>
                           /\ i = Len(pending') /\ Running' /\ script'.receipt = "none"
                           /\ NextAwaits(script'.todo)
                           /\ pending'[i].op = "setController" =>
                                /\ pending'[i].to = Tracker'
                                /\ Len(script'.todo) >= 2
                                /\ IsSend(script'.todo[2], "updateClaimWait")
                      /\ ~pending'[i].awaited => spent'.kills > 0
    BY DEF AwaitedOK
  <2>1. /\ pending'[i] = pending[i + 1] /\ i + 1 \in 1 .. n
        /\ ~tx.awaited
        /\ i + 1 = n => i = Len(pending')
    BY <1>2, <1>4, <1>7
  <2>2. /\ pending[i + 1].awaited =>
             /\ i + 1 = n /\ Running /\ script.receipt = "none"
             /\ NextAwaits(script.todo)
             /\ pending[i + 1].op = "setController" =>
                  /\ pending[i + 1].to = Tracker
                  /\ Len(script.todo) >= 2 /\ IsSend(script.todo[2], "updateClaimWait")
        /\ ~pending[i + 1].awaited => spent.kills > 0
    BY <2>1 DEF LiveInv, AwaitedOK
  <2>3. QED
    BY <1>3, <1>8, <2>1, <2>2 DEF Tracker
<1>11. OrderOK'
  <2>1. Running /\ script'.receipt # "none" => pending' = << >>
    BY <1>2, <1>3, <1>4, <1>5
  <2>2. QED
    BY <1>3, <1>8, <2>1 DEF LiveInv, OrderOK
<1>12. script'.receipt = "ok" /\ Running => tx.awaited /\ ~failed
  BY <1>3, <1>5
<1>13. ASSUME NowSends(2, "updateClaimWait"), tx.awaited, ~failed
       PROVE  tx.op = "setController" /\ tx.to = Tracker /\ SetUp(chain', Tracker)
  <2>1. tx.op = "setController" /\ tx.to = Tracker
    BY <1>1, <1>13 DEF LiveInv, SetupOK, Awaits
  <2>2. IsProxy(chain, tx.to)
    BY <1>1, <2>1 DEF LiveInv, SentOK
  <2>3. ChainOK(chain) /\ Linked(chain, config)
    BY DEF Inv, LiveInv
  <2> HIDE DEF tx
  <2>4. SetUp(chain', tx.to)
    BY <1>1, <1>13, <2>1, <2>2, <2>3, ControllerMined
  <2>5. QED
    BY <2>1, <2>4
<1>14. SetupOK'
  <2>1. NowSends(2, "setController") \/ NowSends(2, "updateClaimWait") => Running
    <3>1. ~Running => Len(script.todo) = 0
      BY DEF LiveInv, OrderOK
    <3>2. QED
      BY <3>1 DEF NowSends
  <2>2. /\ NowSends(2, "setController") => Awaits("initTracker")'
        /\ NowSends(2, "updateClaimWait") => Awaits("setController")'
    BY <1>2, <1>3, <1>7 DEF LiveInv, SetupOK, Awaits, Tracker
  <2>3. ASSUME NowSends(2, "setController"), tx.awaited, ~failed
        PROVE  IsProxy(chain', Tracker)
    <3>1. tx.op = "initTracker" /\ tx.to = Tracker
      BY <1>1, <2>3 DEF LiveInv, SetupOK, Awaits
    <3> HIDE DEF tx
    <3>2. IsProxy(chain, tx.to)
      BY <2>3, <3>1, TrackerMined
    <3>3. QED
      BY <1>1, <3>1, <3>2, ProxyStays
  <2>4. IsProxy(chain, Tracker)' = IsProxy(chain', Tracker)
        /\ SetUp(chain, Tracker)' = SetUp(chain', Tracker)
    BY <1>3 DEF IsProxy, SetUp, Tracker, NoTokenOf, Code, IsContract
  <2>5. /\ NowSends(2, "setController") =>
             (script'.receipt = "ok" => IsProxy(chain, Tracker)')
        /\ NowSends(2, "updateClaimWait") =>
             (script'.receipt = "ok" => SetUp(chain, Tracker)')
    BY <1>12, <1>13, <2>1, <2>3, <2>4
  <2>6. QED
    BY <1>5, <1>6, <2>2, <2>5 DEF SetupOK
<1>15. ControlOK'
  <2> SUFFICES ASSUME NEW k \in DOMAIN chain', chain'[k].cntr # 0
               PROVE  /\ chain'[k].kind # "Proxy" => spent'.stranger > 0
                      /\ Undisturbed' => chain'[k].claimWait = ClaimWait \/ AboutToSet(k)'
    BY DEF ControlOK
  <2>1. \/ k \in DOMAIN chain /\ chain[k].cntr # 0
        \/ ~failed /\ tx.op = "setController" /\ k = tx.to
    BY <1>1 DEF ControlledFrom
  <2>2. Undisturbed' => tx.awaited /\ n = 1
    <3>1. ~tx.awaited => spent.kills > 0
      BY <1>1 DEF LiveInv, AwaitedOK
    <3>2. QED
      BY <1>3, <1>4, <3>1 DEF Undisturbed
  <2>3. CASE k \in DOMAIN chain /\ chain[k].cntr # 0
    <3>1. /\ chain[k].kind # "Proxy" => spent.stranger > 0
          /\ Undisturbed => chain[k].claimWait = ClaimWait \/ AboutToSet(k)
      BY <2>3 DEF LiveInv, ControlOK
    <3>2. /\ chain'[k].kind = chain[k].kind
          /\ chain[k].claimWait = ClaimWait => chain'[k].claimWait = ClaimWait
      BY <1>1, <2>3 DEF Grows
    <3>3. ASSUME Undisturbed, AboutToSet(k)
          PROVE  chain'[k].claimWait = ClaimWait
      <4>1. ~(NowSends(2, "updateClaimWait") /\ script.receipt = "ok")
        <5>1. NowSends(2, "updateClaimWait") => Running
          <6>1. ~Running => Len(script.todo) = 0
            BY DEF LiveInv, OrderOK
          <6>2. QED
            BY <6>1 DEF NowSends
        <5>2. QED
          BY <1>5, <5>1
      <4>2. PICK i \in 1 .. n : pending[i].op = "updateClaimWait" /\ pending[i].to = k
        BY <1>5, <3>3, <4>1 DEF AboutToSet
      <4>3. i = 1 /\ SetUp(chain, k) /\ tx.op = "updateClaimWait" /\ tx.to = k
        BY <4>2 DEF LiveInv, SentOK
      <4>4. ChainOK(chain)
        BY DEF Inv
      <4> HIDE DEF tx
      <4>5. IF failed THEN chain[k].claimWait = ClaimWait
                      ELSE Apply(chain, tx)[k].claimWait = ClaimWait
        BY <1>1, <4>3, <4>4, ClaimWaitMined
      <4>6. QED
        BY <1>1, <3>2, <4>5
    <3>4. Undisturbed' = Undisturbed
      BY <1>3 DEF Undisturbed
    <3>5. QED
      BY <1>3, <3>1, <3>2, <3>3, <3>4
  <2>4. CASE ~failed /\ tx.op = "setController" /\ k = tx.to
    <3>1. IsProxy(chain, k)
      BY <1>1, <2>4 DEF LiveInv, SentOK
    <3>2. chain'[k].kind = "Proxy"
      BY <1>1, <3>1 DEF IsProxy, Grows
    <3>3. ASSUME Undisturbed'
          PROVE  AboutToSet(k)'
      <4>1. /\ tx.awaited /\ k = Tracker /\ NowSends(2, "updateClaimWait")
        BY <1>1, <2>2, <2>4, <3>3 DEF LiveInv, AwaitedOK, NowSends
      <4>2. script'.receipt = "ok" /\ NowSends(2, "updateClaimWait")' /\ k = Tracker'
        BY <1>3, <1>6, <2>4, <4>1 DEF Tracker
      <4>3. QED
        BY <4>2 DEF AboutToSet
    <3>4. QED
      BY <3>2, <3>3
  <2>5. QED
    BY <2>1, <2>3, <2>4
<1>16. Linked(chain, config)'
  BY <1>1, <1>3 DEF Linked
<1>17. QED
  BY <1>1, <1>8, <1>9, <1>10, <1>11, <1>14, <1>15, <1>16 DEF LiveInv

LEMMA KillLive ==
    ASSUME Inv, LiveInv, Kill
    PROVE  LiveInv'
<1>1. /\ script'.todo = << >> /\ script'.receipt = script.receipt
      /\ script'.status = "killed"
  BY DEF Kill, Inv, ScriptOK
<1>2. /\ Len(pending') = Len(pending)
      /\ \A i \in 1 .. Len(pending) :
            /\ ~pending'[i].awaited /\ pending'[i].op = pending[i].op
            /\ pending'[i].to = pending[i].to /\ pending'[i].from = pending[i].from
            /\ pending'[i].args = pending[i].args
  <2>1. /\ pending \in Seq(TxType) /\ Len(pending) \in Nat /\ DOMAIN pending = 1 .. Len(pending)
    BY LenProperties DEF Inv, PendingOK
  <2>2. ASSUME NEW tx \in TxType
        PROVE  LET u == [tx EXCEPT !.awaited = FALSE]
               IN  /\ u \in TxType /\ ~u.awaited /\ u.op = tx.op /\ u.to = tx.to
                   /\ u.from = tx.from /\ u.args = tx.args
    BY DEF TxType
  <2>3. pending' = [i \in 1 .. Len(pending) |-> [pending[i] EXCEPT !.awaited = FALSE]]
    BY <2>1 DEF Kill
  <2>4. \A i \in 1 .. Len(pending) : pending[i] \in TxType
    BY <2>1, ElementOfSeq
  <2>5. \A i \in 1 .. Len(pending) :
            /\ pending'[i] \in TxType
            /\ ~pending'[i].awaited /\ pending'[i].op = pending[i].op
            /\ pending'[i].to = pending[i].to /\ pending'[i].from = pending[i].from
            /\ pending'[i].args = pending[i].args
    BY <2>2, <2>3, <2>4
  <2>6. Len(pending') = Len(pending)
    BY <2>1, <2>3, <2>5
  <2>7. QED
    BY <2>5, <2>6
<1>3. UNCHANGED << config, chain, db >> /\ spent' = [spent EXCEPT !.kills = @ + 1]
  BY DEF Kill
<1>4. SpentOK' /\ spent'.kills > 0 /\ spent'.stranger = spent.stranger
  BY <1>3 DEF LiveInv, SpentOK
<1>5. Len(script'.todo) = 0 /\ ~Running'
  BY <1>1 DEF Running
<1>6. Linked(chain, config)'
  BY <1>3 DEF LiveInv, Linked
<1>7. SentOK'
  <2>1. \A i \in 1 .. Len(pending) : TxLinked(pending'[i], config) = TxLinked(pending[i], config)
    BY <1>2 DEF TxLinked
  <2>2. QED
    BY <1>2, <1>3, <2>1 DEF LiveInv, SentOK
<1>8. AwaitedOK'
  BY <1>2, <1>4 DEF AwaitedOK
<1>9. OrderOK' /\ SetupOK'
  BY <1>1, <1>5 DEF OrderOK, InOrder, SetupOK, NowSends
<1>10. ControlOK'
  BY <1>3, <1>4 DEF LiveInv, ControlOK, Undisturbed, SpentOK
<1>11. QED
  BY <1>4, <1>6, <1>7, <1>8, <1>9, <1>10 DEF LiveInv

LEMMA LoseLive ==
    ASSUME Inv, LiveInv, Lose
    PROVE  LiveInv'
<1>1. /\ script'.todo = script.todo /\ script'.receipt = script.receipt
      /\ script'.status = script.status
      /\ UNCHANGED << config, chain, db >> /\ spent' = [spent EXCEPT !.lost = @ + 1]
  BY DEF Lose, Inv, ScriptOK
<1>2. /\ pending \in Seq(TxType) /\ Len(pending) \in Nat \ {0} /\ pending # << >>
      /\ Len(pending') = Len(pending) - 1
      /\ \A i \in 1 .. Len(pending') : i \in 1 .. Len(pending) /\ pending'[i] = pending[i]
  <2>1. /\ pending \in Seq(TxType) /\ Len(pending) \in Nat \ {0} /\ pending # << >>
        /\ pending' = SubSeq(pending, 1, Len(pending) - 1)
    BY EmptySeq DEF Inv, PendingOK, Lose
  <2> DEFINE n == Len(pending) - 1
  <2>2. n \in 0 .. Len(pending)
    BY <2>1
  <2> HIDE DEF n
  <2>3. /\ Len(SubSeq(pending, 1, n)) = n
        /\ \A i \in 1 .. n : SubSeq(pending, 1, n)[i] = pending[i]
    BY <2>1, <2>2, SubSeqProperties
  <2>4. QED
    BY <2>1, <2>2, <2>3 DEF n
<1>3. SpentOK' /\ spent'.lost > 0 /\ spent'.stranger = spent.stranger /\ spent'.kills = spent.kills
  BY <1>1 DEF LiveInv, SpentOK
<1>4. \A i \in 1 .. Len(pending') : ~pending'[i].awaited
  BY <1>2 DEF LiveInv, AwaitedOK
<1>5. Linked(chain, config)'
  BY <1>1 DEF LiveInv, Linked
<1>6. SentOK'
  <2>1. ASSUME NEW i \in 1 .. Len(pending')
        PROVE  /\ TxLinked(pending'[i], config)
               /\ pending'[i].op = "setController" => IsProxy(chain, pending'[i].to)
               /\ pending'[i].op = "updateClaimWait" => i = 1 /\ SetUp(chain, pending'[i].to)
    BY <1>2 DEF LiveInv, SentOK
  <2>2. QED
    BY <1>1, <2>1 DEF SentOK
<1>7. AwaitedOK'
  BY <1>2, <1>3, <1>4 DEF LiveInv, AwaitedOK
<1>8. OrderOK'
  BY <1>1, <1>2 DEF LiveInv, OrderOK, Running
<1>9. SetupOK'
  <2>1. \A op : Awaits(op)'
    BY <1>4 DEF Awaits
  <2>2. \A i, op : NowSends(i, op)' = NowSends(i, op)
    BY <1>1 DEF NowSends
  <2>3. IsProxy(chain, Tracker)' = IsProxy(chain, Tracker)
        /\ SetUp(chain, Tracker)' = SetUp(chain, Tracker)
    BY <1>1 DEF IsProxy, SetUp, Tracker, NoTokenOf, Code, IsContract
  <2>4. QED
    BY <1>1, <2>1, <2>2, <2>3 DEF LiveInv, SetupOK
<1>10. ControlOK'
  BY <1>1, <1>3 DEF LiveInv, ControlOK, Undisturbed, SpentOK
<1>11. QED
  BY <1>3, <1>5, <1>6, <1>7, <1>8, <1>9, <1>10 DEF LiveInv

\* A stranger can only change who controls a tracker that has no controller.
LEMMA StrangerLive ==
    ASSUME Inv, LiveInv, NEW tracker \in DOMAIN chain,
           NEW account \in {Stranger, db["BIBToken"]},
           SetControllerByStranger(tracker, account)
    PROVE  LiveInv' /\ LiveStays(chain, chain')
<1> DEFINE args == [NoArgs EXCEPT !.account = account]
           tx == [Tx("setController", tracker, args) EXCEPT !.from = Stranger]
<1>1. tx.op = "setController" /\ tx.to = tracker
  BY DEF Tx
<1>2. /\ ~Reverts(chain, tx) /\ chain' = Apply(chain, tx)
      /\ spent' = [spent EXCEPT !.stranger = @ + 1]
      /\ UNCHANGED << config, nonce, pending, db >>
      /\ script'.todo = script.todo /\ script'.receipt = script.receipt
      /\ script'.status = script.status
  BY DEF SetControllerByStranger, Inv, ScriptOK
<1>3. ChainOK(chain) /\ Linked(chain, config)
  BY DEF Inv, LiveInv
<1> HIDE DEF tx
<1>4. ~SetControllerReverts(chain, tx) /\ chain' = SetController(chain, tx)
  BY <1>1, <1>2 DEF Reverts, Apply
<1>5. /\ Preserves(chain, chain', config, tx) /\ DOMAIN chain' = DOMAIN chain
      /\ \A a \in DOMAIN chain :
            /\ chain'[a].kind = chain[a].kind /\ chain'[a].impl = chain[a].impl
            /\ chain'[a].admin = chain[a].admin /\ chain'[a].owner = chain[a].owner
            /\ chain'[a].tracker = chain[a].tracker
  BY <1>1, <1>3, <1>4, SetControllerPreserves, OnlyTheController
<1>6. \A k : /\ IsProxy(chain, k) => IsProxy(chain', k)
             /\ SetUp(chain, k) => SetUp(chain', k)
  BY <1>5, SetUpStays
<1>7. SpentOK' /\ spent'.stranger > 0 /\ spent'.kills = spent.kills
  BY <1>2 DEF LiveInv, SpentOK
<1>8. Linked(chain, config)'
  BY <1>2, <1>5 DEF Preserves, Linked
<1>9. SentOK'
  <2>1. ASSUME NEW i \in 1 .. Len(pending)
        PROVE  /\ TxLinked(pending[i], config)
               /\ pending[i].op = "setController" => IsProxy(chain', pending[i].to)
               /\ pending[i].op = "updateClaimWait" => i = 1 /\ SetUp(chain', pending[i].to)
    BY <1>6 DEF LiveInv, SentOK
  <2>2. QED
    BY <1>2, <2>1 DEF SentOK
<1>10. AwaitedOK' /\ OrderOK'
  BY <1>2, <1>7 DEF LiveInv, AwaitedOK, OrderOK, Running, Tracker
<1>11. SetupOK'
  <2>1. \A op : Awaits(op)' = Awaits(op)
    BY <1>2 DEF Awaits, Tracker
  <2>2. \A i, op : NowSends(i, op)' = NowSends(i, op)
    BY <1>2 DEF NowSends
  <2>3. /\ IsProxy(chain, Tracker) => IsProxy(chain, Tracker)'
        /\ SetUp(chain, Tracker) => SetUp(chain, Tracker)'
    <3>1. Tracker' = Tracker
      BY <1>2 DEF Tracker
    <3>2. IsProxy(chain, Tracker)' = IsProxy(chain', Tracker')
          /\ SetUp(chain, Tracker)' = SetUp(chain', Tracker')
      BY DEF IsProxy, SetUp, NoTokenOf, Code, IsContract
    <3>3. QED
      BY <1>6, <3>1, <3>2
  <2>4. QED
    BY <1>2, <2>1, <2>2, <2>3 DEF LiveInv, SetupOK
<1>12. ControlOK'
  BY <1>7 DEF ControlOK, Undisturbed, SpentOK
<1>13. QED
  BY <1>5, <1>7, <1>8, <1>9, <1>10, <1>11, <1>12 DEF LiveInv, Preserves

\* The script alone changes, and not in what it does next.
LEMMA SameScript ==
    ASSUME LiveInv, script'.todo = script.todo, script'.receipt = script.receipt,
           Running' = Running, UNCHANGED << config, chain, nonce, pending, db, spent >>
    PROVE  LiveInv'
<1>1. /\ \A op : Awaits(op)' = Awaits(op)
      /\ \A i, op : NowSends(i, op)' = NowSends(i, op)
      /\ IsProxy(chain, Tracker)' = IsProxy(chain, Tracker)
      /\ SetUp(chain, Tracker)' = SetUp(chain, Tracker)
  BY DEF Awaits, NowSends, IsProxy, SetUp, Tracker, NoTokenOf, Code, IsContract
<1>2. Linked(chain, config)' /\ SentOK' /\ SpentOK'
  BY DEF LiveInv, Linked, SentOK, SpentOK
<1>3. AwaitedOK' /\ OrderOK'
  BY DEF LiveInv, AwaitedOK, OrderOK, Tracker
<1>4. SetupOK'
  BY <1>1 DEF LiveInv, SetupOK
<1>5. \A k : AboutToSet(k)' = AboutToSet(k)
  BY <1>1 DEF AboutToSet, Tracker
<1>6. ControlOK'
  BY <1>5 DEF LiveInv, ControlOK, Undisturbed
<1>7. QED
  BY <1>2, <1>3, <1>4, <1>6 DEF LiveInv

\* Every step keeps the second invariant, and leaves live tokens as they are.
LEMMA NextLive ==
    ASSUME Inv, LiveInv, [Next]_vars
    PROVE  LiveInv' /\ LiveStays(chain, chain')
<1> USE DEF At
<1> UNCHANGED chain => LiveStays(chain, chain')
  BY DEF LiveStays
<1>1. ASSUME NEW task \in Tasks, NEW verify \in BOOLEAN, Start(task, verify)
      PROVE  LiveInv' /\ UNCHANGED chain
  BY <1>1, StartLive DEF Start
<1>2. CASE CheckChainId \/ CheckAdmin \/ ReadDb \/ CheckVerification \/ VerifyThrows
  <2>1. /\ Running /\ script.todo # << >>
        /\ Head(script.todo).op \in {"chainId", "admin", "read", "checkVerification", "verify"}
        /\ Proceed \/ Stop("failed") \/ Stop("exited")
        /\ UNCHANGED << config, chain, nonce, pending, db, spent >>
    BY <1>2 DEF CheckChainId, CheckAdmin, ReadDb, CheckVerification, VerifyThrows, ProceedIf
  <2>2. CASE Proceed
    BY <2>1, <2>2, ProceedLive
  <2>3. CASE Stop("failed") \/ Stop("exited")
    <3>1. /\ script' = [script EXCEPT !.status = script'.status, !.todo = << >>]
          /\ script'.status # "running"
      BY <2>3 DEF Stop, Inv, ScriptOK
    <3>2. ~NextAwaits(script.todo)
      BY <2>1, NoWait DEF Inv
    <3>3. Head(script.todo) = script.todo[1]
      BY <2>1, HeadTailProperties DEF Inv, ScriptOK
    <3>4. ~NowSends(1, "updateClaimWait") /\ ~NowSends(2, "updateClaimWait")
      <4>1. ~NowSends(1, "updateClaimWait")
        BY <2>1, <3>3 DEF NowSends, IsSend
      <4>2. ~NowSends(2, "updateClaimWait")
        BY <2>1, <3>3, Before DEF Inv, LiveInv
      <4>3. QED
        BY <4>1, <4>2
    <3>5. QED
      BY <2>1, <3>1, <3>2, <3>4, StopLive
  <2>4. QED
    BY <2>1, <2>2, <2>3
<1>3. CASE registerContractInJsonDb
  <2>1. /\ Running /\ script.todo # << >> /\ Head(script.todo).op = "register" /\ Proceed
        /\ UNCHANGED << config, chain, nonce, pending, spent >>
    BY <1>3 DEF registerContractInJsonDb
  <2>2. QED
    BY <2>1, ProceedLive
<1>4. CASE CreateContract
  BY <1>4, CreateContractLive DEF CreateContract
<1>5. CASE SendCall
  BY <1>5, SendCallLive DEF SendCall
<1>6. CASE waitForTx
  <2>1. /\ Running /\ script.todo # << >> /\ Head(script.todo).op = "await"
        /\ script.receipt # "none" /\ ProceedIf(script.receipt = "ok")
        /\ UNCHANGED << config, chain, nonce, pending, db, spent >>
    BY <1>6 DEF waitForTx
  <2>2. CASE script.receipt = "ok" /\ Proceed
    BY <2>1, <2>2, ProceedLive
  <2>3. CASE script.receipt # "ok" /\ Stop("failed")
    <3>1. /\ script' = [script EXCEPT !.status = script'.status, !.todo = << >>]
          /\ script'.status # "running"
      BY <2>3 DEF Stop, Inv, ScriptOK
    <3>2. Head(script.todo) = script.todo[1]
      BY <2>1, HeadTailProperties DEF Inv, ScriptOK
    <3>3. ~NowSends(1, "updateClaimWait")
      BY <2>1, <3>2 DEF NowSends, IsSend
    <3>4. QED
      BY <2>1, <2>3, <3>1, <3>3, StopLive
  <2>4. QED
    BY <2>1, <2>2, <2>3 DEF ProceedIf
<1>7. CASE runTaskWithRetry
  <2>1. /\ Running /\ script.todo # << >> /\ Head(script.todo).op = "verify"
        /\ UNCHANGED << config, chain, nonce, pending, db, spent >>
    BY <1>7 DEF runTaskWithRetry
  <2>2. CASE Proceed
    BY <2>1, <2>2, ProceedLive
  <2>3. CASE script' = [script EXCEPT !.tries = @ + 1]
    <3>1. /\ script'.todo = script.todo /\ script'.receipt = script.receipt
          /\ Running' = Running
      BY <2>3 DEF Inv, ScriptOK, Running
    <3>2. QED
      BY <2>1, <3>1, SameScript
  <2>4. QED
    BY <1>7, <2>1, <2>2, <2>3 DEF runTaskWithRetry
<1>8. CASE Finish
  <2>1. /\ Running /\ script.todo = << >>
        /\ UNCHANGED << config, chain, nonce, pending, db, spent >>
        /\ script'.todo = << >> /\ script'.status = "done"
        /\ script' = [script EXCEPT !.status = "done", !.todo = << >>]
    BY <1>8 DEF Finish, Inv, ScriptOK
  <2>2. Len(script.todo) = 0
    BY <2>1
  <2>3. ~NextAwaits(script.todo) /\ ~NowSends(1, "updateClaimWait") /\ ~NowSends(2, "updateClaimWait")
    BY <2>2 DEF NextAwaits, NowSends
  <2>4. QED
    BY <2>1, <2>3, StopLive
<1>9. CASE Mine
  BY <1>9, MineLive
<1>10. CASE Kill
  BY <1>10, KillLive DEF Kill
<1>11. CASE Lose
  BY <1>11, LoseLive DEF Lose
<1>12. ASSUME NEW tracker \in DOMAIN chain, NEW account \in {Stranger, db["BIBToken"]},
              SetControllerByStranger(tracker, account)
       PROVE  LiveInv' /\ LiveStays(chain, chain')
  BY <1>12, StrangerLive
<1>13. CASE UNCHANGED vars
  <2>1. UNCHANGED << config, chain, nonce, pending, db, script, spent >>
    BY <1>13 DEF vars
  <2>2. Running' = Running
    BY <2>1 DEF Running
  <2>3. QED
    BY <2>1, <2>2, SameScript
<1>14. QED
  BY <1>1, <1>2, <1>3, <1>4, <1>5, <1>6, <1>7, <1>8, <1>9, <1>10, <1>11, <1>12, <1>13
     DEF Next, ScriptStep

LEMMA LiveInvHolds == Spec => [](Inv /\ LiveInv)
<1>1. Inv /\ LiveInv /\ [Next]_vars => LiveInv'
  BY NextLive
<1>2. QED
  BY InvHolds, LiveInit, <1>1, PTL DEF Spec

\* Whatever else is run, killed, mined late, lost or sent by strangers, a live
\* token and its tracker stay as they are (BIBToken.sol:95-143, 153-200;
\* TokenDividendTracker.sol:36-39, 60-65).
THEOREM LiveTokensAreLeftAlone == Spec => LiveTokensStay
<1>1. Inv /\ LiveInv /\ [Next]_vars =>
        [\A t \in TokensOf(chain) : Live(chain, t) =>
            chain'[t] = chain[t] /\ chain'[chain[t].tracker] = chain[chain[t].tracker]]_vars
  BY NextLive DEF LiveStays
<1>2. QED
  BY LiveInvHolds, <1>1, PTL DEF Spec, LiveTokensStay

\* A live token is complete, in whichever order the tasks were run and wherever
\* they were interrupted (initialize-BIBToken.ts:92-111,
\* initialize-TokenDividendTracker.ts:55-66).
THEOREM LiveTokensComplete == Spec => []LiveTokensAreComplete
<1>1. Inv /\ LiveInv => LiveTokensAreComplete
  <2> SUFFICES ASSUME Inv, LiveInv, NEW t \in TokensOf(chain), Live(chain, t)
               PROVE  LET k == chain[t].tracker
                          w == chain[t].wallets
                          initialized == chain[k].kind = "Proxy"
                      IN  /\ initialized \/ spent.stranger > 0
                          /\ Len(w) = 8
                          /\ \A i, j \in DOMAIN w : w[i] # 0 /\ (i # j => w[i] # w[j])
                          /\ {w[i] : i \in DOMAIN w} \cup {t, k, chain[t].owner, Dead}
                                \subseteq chain[k].excluded
                          /\ chain[t].busd # 0
                          /\ initialized => chain[k].busd = chain[t].busd
                          /\ chain[k].claimWait = ClaimWait
                             \/ spent.kills + spent.lost + spent.stranger > 0
                          /\ \A a \in {t} \cup (IF initialized THEN {k} ELSE {}) :
                                chain[a].admin = config.admin /\ chain[a].admin # chain[a].owner
    BY DEF LiveTokensAreComplete
  <2> DEFINE k == chain[t].tracker
             w == chain[t].wallets
             initialized == chain[k].kind = "Proxy"
  <2>1. /\ t \in DOMAIN chain /\ k \in DOMAIN chain /\ k # 0 /\ chain[k].cntr = t /\ t # 0
        /\ chain[t].impl # NOBODY /\ (initialized => chain[k].impl # NOBODY)
    BY LiveFacts DEF Inv, LiveInv
  <2>2. LinkOK(chain, config, t) /\ LinkOK(chain, config, k) /\ w # << >>
    BY <2>1 DEF LiveInv, Linked, Live
  <2>3. /\ Len(w) = 8 /\ \A i, j \in DOMAIN w : w[i] # 0 /\ (i # j => w[i] # w[j])
        /\ {w[i] : i \in DOMAIN w} \subseteq chain[k].excluded
        /\ chain[t].admin # Deployer
    BY <2>2 DEF LinkOK
  <2>4. /\ chain[t].admin = config.admin /\ chain[t].owner = Deployer
        /\ chain[t].busd = config.busd /\ chain[t].busd # 0
        /\ {t, k, Deployer, Dead} \subseteq chain[k].excluded
    BY <2>1, <2>2 DEF LinkOK
  <2>5. initialized => /\ chain[k].admin = config.admin /\ chain[k].owner = Deployer
                       /\ chain[k].busd = config.busd
    BY <2>1, <2>2 DEF LinkOK
  <2>6. initialized \/ spent.stranger > 0
    BY <2>1 DEF LiveInv, ControlOK
  <2>7. chain[k].claimWait = ClaimWait \/ spent.kills + spent.lost + spent.stranger > 0
    <3>1. SUFFICES ASSUME Undisturbed PROVE chain[k].claimWait = ClaimWait
      BY DEF Undisturbed, LiveInv, SpentOK
    <3>2. chain[k].claimWait = ClaimWait \/ AboutToSet(k)
      BY <2>1, <3>1 DEF LiveInv, ControlOK
    <3>3. ~AboutToSet(k)
      <4>1. ~NoTokenOf(chain, k)
        BY <2>1 DEF NoTokenOf
      <4>2. \A i \in 1 .. Len(pending) : pending[i].op = "updateClaimWait" => pending[i].to # k
        BY <4>1 DEF LiveInv, SentOK, SetUp
      <4>3. NowSends(1, "updateClaimWait") => k # Tracker
        BY <4>1 DEF LiveInv, SetupOK, SetUp
      <4>4. NowSends(2, "updateClaimWait") /\ script.receipt = "ok" => k # Tracker
        BY <4>1 DEF LiveInv, SetupOK, SetUp
      <4>5. QED
        BY <4>2, <4>3, <4>4 DEF AboutToSet
    <3>4. QED
      BY <3>2, <3>3
  <2> HIDE DEF k, w
  <2>8. QED
    BY <2>3, <2>4, <2>5, <2>6, <2>7 DEF k, w
<1>2. QED
  BY LiveInvHolds, <1>1, PTL

(***************************************************************************)
(* How far a migration has come: the stage of a step is the number of      *)
(* steps before it, those not counted that write nothing.                  *)
(***************************************************************************)

WritesNothing(step) == step.op \in {"chainId", "admin", "checkVerification", "read", "verify"}

StepIs(step, n) ==
    \/ step.op = "await" /\ n \in {1, 5, 9, 13, 17, 21, 23, 25, 27, 29, 33, 35, 37}
    \/ /\ step.op = "create"
       /\ \/ step.arg = "BIBToken" /\ n = 0
          \/ step.arg = "Proxy" /\ n \in {4, 16}
          \/ step.arg = "IterableMapping" /\ n = 8
          \/ step.arg = "TokenDividendTracker" /\ n = 11
          \/ step.arg = "VestingToken" /\ n = 28
    \/ /\ step.op = "register"
       /\ \/ step.arg = "BIBToken" /\ n \in {2, 7}
          \/ step.arg = "BIBTokenImpl" /\ n = 3
          \/ step.arg = "InitializableAdminUpgradeabilityProxy" /\ n \in {6, 18}
          \/ step.arg = "IterableMapping" /\ n = 10
          \/ step.arg = "TokenDividendTrackerImpl" /\ n \in {12, 15}
          \/ step.arg = "TokenDividendTracker" /\ n \in {14, 19}
          \/ step.arg = "VestingToken" /\ n = 30
          \/ step.arg = "TeamVesting" /\ n = 31
    \/ /\ step.op = "send"
       /\ \/ step.arg = "initTracker" /\ n = 20
          \/ step.arg = "setController" /\ n = 22
          \/ step.arg = "updateClaimWait" /\ n = 24
          \/ step.arg = "initToken" /\ n = 26
          \/ step.arg = "initAddress" /\ n = 32
          \/ step.arg = "setAllowTransfer" /\ n = 34
          \/ step.arg = "release" /\ n = 36

\* A step takes a migration from stage a to stage b.
Advances(step, a, b) ==
    IF WritesNothing(step) THEN b = a ELSE StepIs(step, a) /\ b = a + 1

\* The steps s take it from stage a to stage b; f gives the stages between.
Leads(s, a, b) ==
    \E f \in [1 .. Len(s) + 1 -> Nat] :
        /\ f[1] = a /\ f[Len(s) + 1] = b
        /\ \A i \in 1 .. Len(s) : Advances(s[i], f[i], f[i + 1])

LEMMA ConcatLeads ==
    ASSUME NEW s \in Seq(StepType), NEW r \in Seq(StepType), NEW a, NEW b, NEW c,
           Leads(s, a, b), Leads(r, b, c)
    PROVE  s \o r \in Seq(StepType) /\ Leads(s \o r, a, c)
<1> DEFINE u == s \o r
           m == Len(s)
           n == Len(r)
<1>1. /\ m \in Nat /\ n \in Nat /\ u \in Seq(StepType) /\ Len(u) = m + n
      /\ \A i \in 1 .. m : u[i] = s[i]
      /\ \A i \in 1 .. n : u[m + i] = r[i]
  BY ConcatElements
<1>2. PICK f \in [1 .. m + 1 -> Nat] :
        f[1] = a /\ f[m + 1] = b /\ \A i \in 1 .. m : Advances(s[i], f[i], f[i + 1])
  BY DEF Leads
<1>3. PICK g \in [1 .. n + 1 -> Nat] :
        g[1] = b /\ g[n + 1] = c /\ \A i \in 1 .. n : Advances(r[i], g[i], g[i + 1])
  BY DEF Leads
<1> HIDE DEF u, m, n
<1> DEFINE h == [i \in 1 .. (m + n) + 1 |-> IF i <= m THEN f[i] ELSE g[i - m]]
<1>4. h \in [1 .. (m + n) + 1 -> Nat]
  <2>1. \A i \in 1 .. (m + n) + 1 : IF i <= m THEN i \in 1 .. m + 1 ELSE i - m \in 1 .. n + 1
    BY <1>1
  <2>2. QED
    BY <2>1
<1>5. \A i \in 1 .. m + 1 : h[i] = f[i]
  <2> SUFFICES ASSUME NEW i \in 1 .. m + 1 PROVE h[i] = f[i]
    OBVIOUS
  <2>1. i \in 1 .. (m + n) + 1 /\ (i <= m \/ (~(i <= m) /\ i = m + 1 /\ i - m = 1))
    BY <1>1
  <2>2. QED
    BY <1>2, <1>3, <2>1
<1>6. \A i \in 1 .. n + 1 : h[m + i] = g[i]
  <2> SUFFICES ASSUME NEW i \in 1 .. n + 1 PROVE h[m + i] = g[i]
    OBVIOUS
  <2>1. m + i \in 1 .. (m + n) + 1 /\ ~(m + i <= m) /\ (m + i) - m = i
    BY <1>1
  <2>2. QED
    BY <2>1
<1> HIDE DEF h
<1>7. h[1] = a /\ h[(m + n) + 1] = c
  <2>1. 1 \in 1 .. m + 1 /\ n + 1 \in 1 .. n + 1 /\ m + (n + 1) = (m + n) + 1
    BY <1>1
  <2>2. h[1] = f[1] /\ h[m + (n + 1)] = g[n + 1]
    BY <1>5, <1>6, <2>1
  <2>3. QED
    BY <1>2, <1>3, <2>1, <2>2
<1>8. ASSUME NEW i \in 1 .. m
      PROVE  Advances(u[i], h[i], h[i + 1])
  <2>1. i \in 1 .. m + 1 /\ i + 1 \in 1 .. m + 1
    BY <1>1
  <2>2. h[i] = f[i] /\ h[i + 1] = f[i + 1] /\ u[i] = s[i]
    BY <1>1, <1>5, <2>1
  <2>3. QED
    BY <1>2, <2>2
<1>9. ASSUME NEW i \in 1 .. n
      PROVE  Advances(u[m + i], h[m + i], h[(m + i) + 1])
  <2>1. i \in 1 .. n + 1 /\ i + 1 \in 1 .. n + 1 /\ (m + i) + 1 = m + (i + 1)
    BY <1>1
  <2>2. h[m + i] = g[i] /\ h[m + (i + 1)] = g[i + 1] /\ u[m + i] = r[i]
    BY <1>1, <1>6, <2>1
  <2>3. QED
    BY <1>3, <2>1, <2>2
<1>10. ASSUME NEW i \in 1 .. m + n
       PROVE  Advances(u[i], h[i], h[i + 1])
  <2>1. CASE i \in 1 .. m
    BY <1>8, <2>1
  <2>2. CASE i \notin 1 .. m
    <3>1. i - m \in 1 .. n /\ m + (i - m) = i
      BY <1>1, <2>2
    <3>2. Advances(u[m + (i - m)], h[m + (i - m)], h[(m + (i - m)) + 1])
      BY <1>9, <3>1
    <3>3. QED
      BY <3>1, <3>2
  <2>3. QED
    BY <2>1, <2>2
<1>11. Leads(u, a, c)
  BY <1>1, <1>4, <1>7, <1>10 DEF Leads
<1>12. QED
  BY <1>1, <1>11 DEF u

LEMMA StepLeads ==
    ASSUME NEW x \in StepType, NEW a \in Nat, NEW b \in Nat, Advances(x, a, b)
    PROVE  << x >> \in Seq(StepType) /\ Leads(<< x >>, a, b)
<1> DEFINE s == << x >>
           f == [i \in 1 .. 2 |-> IF i = 1 THEN a ELSE b]
<1>1. s \in Seq(StepType) /\ Len(s) = 1 /\ s[1] = x
  BY OneStep
<1>2. f \in [1 .. 2 -> Nat] /\ f[1] = a /\ f[2] = b
  OBVIOUS
<1> HIDE DEF s, f
<1>3. Len(s) + 1 = 2 /\ \A i \in 1 .. Len(s) : i = 1 /\ i + 1 = 2
  BY <1>1
<1>4. \A i \in 1 .. Len(s) : Advances(s[i], f[i], f[i + 1])
  BY <1>1, <1>2, <1>3
<1>5. Leads(s, a, b)
  BY <1>2, <1>3, <1>4 DEF Leads
<1>6. QED
  BY <1>1, <1>5 DEF s

LEMMA EmptyLeads ==
    /\ \A a \in Nat : Leads(<< >>, a, a)
    /\ \A a, b : Leads(<< >>, a, b) => a = b
<1> DEFINE s == << >>
<1>1. Len(s) = 0
  OBVIOUS
<1> HIDE DEF s
<1>2. ASSUME NEW a \in Nat
      PROVE  Leads(s, a, a)
  <2> DEFINE f == [i \in 1 .. Len(s) + 1 |-> a]
  <2>1. f \in [1 .. Len(s) + 1 -> Nat] /\ f[1] = a /\ f[Len(s) + 1] = a
    BY <1>1
  <2> HIDE DEF f
  <2>2. \A i \in 1 .. Len(s) : Advances(s[i], f[i], f[i + 1])
    BY <1>1
  <2>3. QED
    BY <2>1, <2>2 DEF Leads
<1>3. \A a, b : Leads(s, a, b) => a = b
  BY <1>1 DEF Leads
<1>4. QED
  BY <1>2, <1>3 DEF s

\* When the first step has been taken, the rest leads on from there.
LEMMA TailLeads ==
    ASSUME NEW s \in Seq(StepType), s # << >>, NEW a, NEW b, Leads(s, a, b)
    PROVE  \E c \in Nat : a \in Nat /\ Advances(Head(s), a, c) /\ Leads(Tail(s), c, b)
<1> DEFINE r == Tail(s)
           n == Len(r)
<1>1. /\ r \in Seq(StepType) /\ n \in Nat /\ Len(s) = n + 1 /\ Head(s) = s[1]
      /\ \A i \in 1 .. n : r[i] = s[i + 1]
  BY HeadTailProperties, EmptySeq
<1>2. PICK f \in [1 .. Len(s) + 1 -> Nat] :
        /\ f[1] = a /\ f[Len(s) + 1] = b
        /\ \A i \in 1 .. Len(s) : Advances(s[i], f[i], f[i + 1])
  BY DEF Leads
<1> HIDE DEF r, n
<1> DEFINE g == [i \in 1 .. n + 1 |-> f[i + 1]]
<1>3. \A i \in 1 .. n + 1 : i + 1 \in 1 .. Len(s) + 1
  BY <1>1
<1>4. g \in [1 .. n + 1 -> Nat] /\ \A i \in 1 .. n + 1 : g[i] = f[i + 1]
  BY <1>2, <1>3
<1> HIDE DEF g
<1>5. g[1] = f[2] /\ g[n + 1] = b
  <2>1. 1 \in 1 .. n + 1 /\ n + 1 \in 1 .. n + 1 /\ 1 + 1 = 2 /\ (n + 1) + 1 = Len(s) + 1
    BY <1>1
  <2>2. g[1] = f[1 + 1] /\ g[n + 1] = f[(n + 1) + 1]
    BY <1>4, <2>1
  <2>3. QED
    BY <1>2, <2>1, <2>2
<1>6. ASSUME NEW i \in 1 .. n
      PROVE  Advances(r[i], g[i], g[i + 1])
  <2>1. i \in 1 .. n + 1 /\ i + 1 \in 1 .. n + 1 /\ i + 1 \in 1 .. Len(s)
    BY <1>1
  <2>2. g[i] = f[i + 1] /\ g[i + 1] = f[(i + 1) + 1] /\ r[i] = s[i + 1]
    BY <1>1, <1>4, <2>1
  <2>3. Advances(s[i + 1], f[i + 1], f[(i + 1) + 1])
    BY <1>2, <2>1
  <2>4. QED
    BY <2>2, <2>3
<1>7. Leads(r, f[2], b)
  BY <1>4, <1>5, <1>6 DEF Leads, n
<1>8. 1 \in 1 .. Len(s) /\ 1 \in 1 .. Len(s) + 1 /\ 2 \in 1 .. Len(s) + 1 /\ 1 + 1 = 2
  BY <1>1
<1>9. Advances(Head(s), a, f[2]) /\ f[2] \in Nat /\ a \in Nat
  <2>1. Advances(s[1], f[1], f[1 + 1])
    BY <1>2, <1>8
  <2>2. QED
    BY <1>1, <1>2, <1>8, <2>1
<1>10. QED
  BY <1>7, <1>9 DEF r

LEMMA NextStages ==
    /\ \A a \in Nat : a + 1 \in Nat
    /\ 13 + 1 = 14
    /\ \A a \in Nat : (a + 1) + 1 = a + 2 /\ (a + 2) + 1 = a + 3
OBVIOUS

LEMMA DoLeads ==
    ASSUME NEW op, NEW arg, [op |-> op, arg |-> arg] \in StepType,
           NEW a \in Nat, NEW b \in Nat, Advances([op |-> op, arg |-> arg], a, b)
    PROVE  Do(op, arg) \in Seq(StepType) /\ Leads(Do(op, arg), a, b)
BY StepLeads DEF Do

LEMMA FreeLeads ==
    ASSUME NEW op \in {"chainId", "admin", "checkVerification", "read", "verify"},
           NEW arg \in eContractid \cup {""}, NEW a \in Nat
    PROVE  Do(op, arg) \in Seq(StepType) /\ Leads(Do(op, arg), a, a)
<1> DEFINE x == [op |-> op, arg |-> arg]
<1>1. x \in StepType
  BY DEF StepType, OtherOps
<1>2. Advances(x, a, a)
  BY DEF Advances, WritesNothing
<1>3. QED
  BY <1>1, <1>2, DoLeads

LEMMA OtherLeads ==
    ASSUME NEW op \in {"register", "await"}, NEW arg \in eContractid \cup {""},
           NEW a \in Nat, StepIs([op |-> op, arg |-> arg], a)
    PROVE  Do(op, arg) \in Seq(StepType) /\ Leads(Do(op, arg), a, a + 1)
<1> DEFINE x == [op |-> op, arg |-> arg]
<1>1. x \in StepType
  BY DEF StepType, OtherOps
<1>2. ~WritesNothing(x)
  BY DEF WritesNothing
<1>3. Advances(x, a, a + 1)
  BY <1>2 DEF Advances
<1>4. a + 1 \in Nat
  BY NextStages
<1>5. QED
  BY <1>1, <1>3, <1>4, DoLeads

LEMMA SendingLeads ==
    ASSUME NEW op \in {"create", "send"}, NEW arg, [op |-> op, arg |-> arg] \in StepType,
           NEW a \in Nat, StepIs([op |-> op, arg |-> arg], a)
    PROVE  Do(op, arg) \in Seq(StepType) /\ Leads(Do(op, arg), a, a + 1)
<1>1. Advances([op |-> op, arg |-> arg], a, a + 1)
  BY DEF Advances, WritesNothing
<1>2. a + 1 \in Nat
  OBVIOUS
<1>3. QED
  BY <1>1, <1>2, DoLeads

LEMMA WhenLeads ==
    ASSUME NEW flag \in BOOLEAN, NEW s \in Seq(StepType), NEW a \in Nat, Leads(s, a, a)
    PROVE  When(flag, s) \in Seq(StepType) /\ Leads(When(flag, s), a, a)
<1>1. << >> \in Seq(StepType)
  OBVIOUS
<1>2. QED
  BY <1>1, EmptyLeads DEF When

LEMMA AwaitLeads ==
    ASSUME NEW a \in {1, 5, 9, 13, 17, 21, 23, 25, 27, 29, 33, 35, 37}
    PROVE  Do("await", "") \in Seq(StepType) /\ Leads(Do("await", ""), a, a + 1)
<1>1. StepIs([op |-> "await", arg |-> ""], a)
  BY DEF StepIs
<1>2. QED
  BY <1>1, OtherLeads

LEMMA TransactLeads ==
    ASSUME NEW op \in CallOps, NEW a \in {20, 22, 24, 26, 32, 34, 36},
           StepIs([op |-> "send", arg |-> op], a)
    PROVE  Transact(op) \in Seq(StepType) /\ Leads(Transact(op), a, a + 2)
<1>1. [op |-> "send", arg |-> op] \in StepType
  BY DEF StepType
<1>2. Do("send", op) \in Seq(StepType) /\ Leads(Do("send", op), a, a + 1)
  BY <1>1, SendingLeads
<1>3. Do("await", "") \in Seq(StepType) /\ Leads(Do("await", ""), a + 1, a + 2)
  <2>1. a + 1 \in {1, 5, 9, 13, 17, 21, 23, 25, 27, 29, 33, 35, 37} /\ (a + 1) + 1 = a + 2
    OBVIOUS
  <2>2. Do("await", "") \in Seq(StepType) /\ Leads(Do("await", ""), a + 1, (a + 1) + 1)
    BY <2>1, AwaitLeads
  <2>3. QED
    BY <2>1, <2>2
<1>4. QED
  BY <1>2, <1>3, ConcatLeads DEF Transact

LEMMA DeployContractLeads ==
    ASSUME NEW kind \in Kind, NEW id \in eContractid, NEW a \in {0, 4, 8, 16, 28},
           StepIs([op |-> "create", arg |-> kind], a),
           StepIs([op |-> "register", arg |-> id], a + 2)
    PROVE  /\ deployContract(kind, id) \in Seq(StepType)
           /\ Leads(deployContract(kind, id), a, a + 3)
<1>1. [op |-> "create", arg |-> kind] \in StepType
  BY DEF StepType
<1>2. Do("create", kind) \in Seq(StepType) /\ Leads(Do("create", kind), a, a + 1)
  BY <1>1, SendingLeads
<1>0. /\ a + 1 \in {1, 5, 9, 13, 17, 21, 23, 25, 27, 29, 33, 35, 37} /\ (a + 1) + 1 = a + 2
      /\ a + 2 \in Nat /\ (a + 2) + 1 = a + 3
  OBVIOUS
<1>3. Do("await", "") \in Seq(StepType) /\ Leads(Do("await", ""), a + 1, a + 2)
  <2>1. Do("await", "") \in Seq(StepType) /\ Leads(Do("await", ""), a + 1, (a + 1) + 1)
    BY <1>0, AwaitLeads
  <2>2. QED
    BY <1>0, <2>1
<1>4. Do("register", id) \in Seq(StepType) /\ Leads(Do("register", id), a + 2, a + 3)
  <2>1. /\ Do("register", id) \in Seq(StepType)
        /\ Leads(Do("register", id), a + 2, (a + 2) + 1)
    BY <1>0, OtherLeads
  <2>2. QED
    BY <1>0, <2>1
<1> DEFINE x == Do("create", kind)
           y == Do("await", "")
           z == Do("register", id)
<1>5. deployContract(kind, id) = x \o y \o z
  BY DEF deployContract
<1> HIDE DEF x, y, z
<1>6. x \o y \in Seq(StepType) /\ Leads(x \o y, a, a + 2)
  BY <1>2, <1>3, ConcatLeads DEF x, y
<1>7. x \o y \o z \in Seq(StepType) /\ Leads(x \o y \o z, a, a + 3)
  BY <1>4, <1>6, ConcatLeads DEF z
<1>8. QED
  BY <1>5, <1>7

LEMMA DeployTasksLead ==
    ASSUME NEW verify \in BOOLEAN
    PROVE  /\ DeployBIBTokenTask(verify) \in Seq(StepType) /\ Leads(DeployBIBTokenTask(verify), 0, 8)
           /\ DeployTrackerTask(verify) \in Seq(StepType) /\ Leads(DeployTrackerTask(verify), 8, 20)
<1> DEFINE L(s, a, b) == s \in Seq(StepType) /\ Leads(s, a, b)
<1>0. \A s, r, a, b, c : L(s, a, b) /\ L(r, b, c) => L(s \o r, a, c)
  BY ConcatLeads
<1>1. \A a \in Nat : L(Do("chainId", ""), a, a) /\ L(verifyContract(verify), a, a)
  <2>1. \A a \in Nat : L(Do("chainId", ""), a, a) /\ L(Do("verify", ""), a, a)
    BY FreeLeads
  <2>2. QED
    BY <2>1, WhenLeads DEF verifyContract
<1>2. /\ L(Do("register", "BIBTokenImpl"), 3, 4) /\ L(Do("register", "BIBToken"), 7, 8)
      /\ L(Do("register", "TokenDividendTrackerImpl"), 12, 13)
      /\ L(Do("register", "TokenDividendTracker"), 14, 15)
      /\ L(Do("register", "TokenDividendTrackerImpl"), 15, 16)
      /\ L(Do("register", "TokenDividendTracker"), 19, 20)
  <2>1. ASSUME NEW id \in eContractid, NEW a \in Nat, StepIs([op |-> "register", arg |-> id], a)
        PROVE  L(Do("register", id), a, a + 1)
    BY <2>1, OtherLeads
  <2>2. /\ StepIs([op |-> "register", arg |-> "BIBTokenImpl"], 3)
        /\ StepIs([op |-> "register", arg |-> "BIBToken"], 7)
        /\ StepIs([op |-> "register", arg |-> "TokenDividendTrackerImpl"], 12)
        /\ StepIs([op |-> "register", arg |-> "TokenDividendTracker"], 14)
        /\ StepIs([op |-> "register", arg |-> "TokenDividendTrackerImpl"], 15)
        /\ StepIs([op |-> "register", arg |-> "TokenDividendTracker"], 19)
    BY DEF StepIs
  <2>3. {"BIBTokenImpl", "BIBToken", "TokenDividendTrackerImpl", "TokenDividendTracker"}
          \subseteq eContractid
    BY DEF eContractid
  <2> HIDE DEF L
  <2>4. /\ L(Do("register", "BIBTokenImpl"), 3, 3 + 1)
        /\ L(Do("register", "BIBToken"), 7, 7 + 1)
        /\ L(Do("register", "TokenDividendTrackerImpl"), 12, 12 + 1)
        /\ L(Do("register", "TokenDividendTracker"), 14, 14 + 1)
        /\ L(Do("register", "TokenDividendTrackerImpl"), 15, 15 + 1)
        /\ L(Do("register", "TokenDividendTracker"), 19, 19 + 1)
    BY <2>1, <2>2, <2>3
  <2>5. QED
    BY <2>4
<1>3. /\ L(deployContract("BIBToken", "BIBToken"), 0, 3)
      /\ L(deployContract("IterableMapping", "IterableMapping"), 8, 11)
      /\ L(deployContract("Proxy", "InitializableAdminUpgradeabilityProxy"), 4, 7)
      /\ L(deployContract("Proxy", "InitializableAdminUpgradeabilityProxy"), 16, 19)
  <2>1. ASSUME NEW kind \in Kind, NEW id \in eContractid, NEW a \in {0, 4, 8, 16},
               StepIs([op |-> "create", arg |-> kind], a),
               StepIs([op |-> "register", arg |-> id], a + 2)
        PROVE  L(deployContract(kind, id), a, a + 3)
    BY <2>1, DeployContractLeads
  <2>2. /\ StepIs([op |-> "create", arg |-> "BIBToken"], 0)
        /\ StepIs([op |-> "register", arg |-> "BIBToken"], 0 + 2)
        /\ StepIs([op |-> "create", arg |-> "Proxy"], 4)
        /\ StepIs([op |-> "register", arg |-> "InitializableAdminUpgradeabilityProxy"], 4 + 2)
        /\ StepIs([op |-> "create", arg |-> "IterableMapping"], 8)
        /\ StepIs([op |-> "register", arg |-> "IterableMapping"], 8 + 2)
        /\ StepIs([op |-> "create", arg |-> "Proxy"], 16)
        /\ StepIs([op |-> "register", arg |-> "InitializableAdminUpgradeabilityProxy"], 16 + 2)
    BY DEF StepIs
  <2>3. {"BIBToken", "IterableMapping", "Proxy"} \subseteq Kind
        /\ {"InitializableAdminUpgradeabilityProxy", "BIBToken", "IterableMapping"} \subseteq eContractid
    BY DEF Kind, eContractid
  <2> HIDE DEF L
  <2>4. /\ L(deployContract("BIBToken", "BIBToken"), 0, 0 + 3)
        /\ L(deployContract("IterableMapping", "IterableMapping"), 8, 8 + 3)
        /\ L(deployContract("Proxy", "InitializableAdminUpgradeabilityProxy"), 4, 4 + 3)
        /\ L(deployContract("Proxy", "InitializableAdminUpgradeabilityProxy"), 16, 16 + 3)
    BY <2>1, <2>2, <2>3
  <2>5. QED
    BY <2>4
<1>4. L(Do("create", "TokenDividendTracker"), 11, 12)
  <2>1. [op |-> "create", arg |-> "TokenDividendTracker"] \in StepType
    BY DEF StepType, Kind
  <2>2. StepIs([op |-> "create", arg |-> "TokenDividendTracker"], 11)
    BY DEF StepIs
  <2>3. L(Do("create", "TokenDividendTracker"), 11, 11 + 1)
    BY <2>1, <2>2, SendingLeads
  <2>4. QED
    BY <2>3
<1>5. L(Do("await", ""), 13, 14)
  <2>1. L(Do("await", ""), 13, 13 + 1)
    BY AwaitLeads
  <2> HIDE DEF L
  <2>2. 13 + 1 = 14
    BY NextStages
  <2>3. QED
    BY <2>1, <2>2, Zenon
<1> HIDE DEF L
<1>6. /\ L(deployBIBToken(verify), 0, 3) /\ L(deployLibraries(verify), 8, 11)
      /\ L(deployProxy(verify), 4, 7) /\ L(deployProxy(verify), 16, 19)
  BY <1>0, <1>1, <1>3 DEF deployBIBToken, deployLibraries, deployProxy
<1>7. L(DeployBIBTokenTask(verify), 0, 8)
  <2>1. L(Do("chainId", "") \o deployBIBToken(verify), 0, 3)
    BY <1>0, <1>1, <1>6
  <2>2. L(Do("chainId", "") \o deployBIBToken(verify) \o Do("register", "BIBTokenImpl"), 0, 4)
    BY <1>0, <1>2, <2>1
  <2>3. L(Do("chainId", "") \o deployBIBToken(verify) \o Do("register", "BIBTokenImpl")
            \o deployProxy(verify), 0, 7)
    BY <1>0, <1>6, <2>2
  <2>4. QED
    BY <1>0, <1>2, <2>3 DEF DeployBIBTokenTask
<1>8. L(deployTokenDividendTracker(verify), 8, 15)
  <2>1. L(deployLibraries(verify) \o Do("create", "TokenDividendTracker"), 8, 12)
    BY <1>0, <1>4, <1>6
  <2>2. L(deployLibraries(verify) \o Do("create", "TokenDividendTracker")
            \o Do("register", "TokenDividendTrackerImpl"), 8, 13)
    BY <1>0, <1>2, <2>1
  <2>3. L(deployLibraries(verify) \o Do("create", "TokenDividendTracker")
            \o Do("register", "TokenDividendTrackerImpl") \o Do("await", ""), 8, 14)
    BY <1>0, <1>5, <2>2
  <2>4. L(deployLibraries(verify) \o Do("create", "TokenDividendTracker")
            \o Do("register", "TokenDividendTrackerImpl") \o Do("await", "")
            \o Do("register", "TokenDividendTracker"), 8, 15)
    BY <1>0, <1>2, <2>3
  <2>5. QED
    BY <1>0, <1>1, <2>4 DEF deployTokenDividendTracker
<1>9. L(DeployTrackerTask(verify), 8, 20)
  <2>1. L(Do("chainId", "") \o deployTokenDividendTracker(verify), 8, 15)
    BY <1>0, <1>1, <1>8
  <2>2. L(Do("chainId", "") \o deployTokenDividendTracker(verify)
            \o Do("register", "TokenDividendTrackerImpl"), 8, 16)
    BY <1>0, <1>2, <2>1
  <2>3. L(Do("chainId", "") \o deployTokenDividendTracker(verify)
            \o Do("register", "TokenDividendTrackerImpl") \o deployProxy(verify), 8, 19)
    BY <1>0, <1>6, <2>2
  <2>4. QED
    BY <1>0, <1>2, <2>3 DEF DeployTrackerTask
<1>10. QED
  BY <1>7, <1>9 DEF L

LEMMA InitializeTasksLead ==
    /\ InitializeTrackerTask \in Seq(StepType) /\ Leads(InitializeTrackerTask, 20, 26)
    /\ InitializeBIBTokenTask \in Seq(StepType) /\ Leads(InitializeBIBTokenTask, 26, 38)
<1> DEFINE L(s, a, b) == s \in Seq(StepType) /\ Leads(s, a, b)
<1>0. \A s, r, a, b, c : L(s, a, b) /\ L(r, b, c) => L(s \o r, a, c)
  BY ConcatLeads
<1>1. /\ \A a \in Nat : L(Do("chainId", ""), a, a)
      /\ \A a \in Nat, id \in eContractid : L(Do("read", id), a, a)
  BY FreeLeads
<1>2. L(Do("register", "TeamVesting"), 31, 32)
  <2>1. StepIs([op |-> "register", arg |-> "TeamVesting"], 31) /\ "TeamVesting" \in eContractid
    BY DEF StepIs, eContractid
  <2>2. L(Do("register", "TeamVesting"), 31, 31 + 1)
    BY <2>1, OtherLeads
  <2>3. QED
    BY <2>2
<1>3. L(deployContract("VestingToken", "VestingToken"), 28, 31)
  <2>1. /\ StepIs([op |-> "create", arg |-> "VestingToken"], 28)
        /\ StepIs([op |-> "register", arg |-> "VestingToken"], 28 + 2)
        /\ "VestingToken" \in eContractid /\ "VestingToken" \in Kind
    BY DEF StepIs, eContractid, Kind
  <2>2. L(deployContract("VestingToken", "VestingToken"), 28, 28 + 3)
    BY <2>1, DeployContractLeads
  <2>3. QED
    BY <2>2
<1>4. /\ L(Transact("initTracker"), 20, 22) /\ L(Transact("setController"), 22, 24)
      /\ L(Transact("updateClaimWait"), 24, 26) /\ L(Transact("initToken"), 26, 28)
      /\ L(Transact("initAddress"), 32, 34) /\ L(Transact("setAllowTransfer"), 34, 36)
      /\ L(Transact("release"), 36, 38)
  <2>1. ASSUME NEW op \in CallOps, NEW a \in {20, 22, 24, 26, 32, 34, 36},
               StepIs([op |-> "send", arg |-> op], a)
        PROVE  L(Transact(op), a, a + 2)
    BY <2>1, TransactLeads
  <2>2. /\ StepIs([op |-> "send", arg |-> "initTracker"], 20)
        /\ StepIs([op |-> "send", arg |-> "setController"], 22)
        /\ StepIs([op |-> "send", arg |-> "updateClaimWait"], 24)
        /\ StepIs([op |-> "send", arg |-> "initToken"], 26)
        /\ StepIs([op |-> "send", arg |-> "initAddress"], 32)
        /\ StepIs([op |-> "send", arg |-> "setAllowTransfer"], 34)
        /\ StepIs([op |-> "send", arg |-> "release"], 36)
    BY DEF StepIs
  <2>3. {"initTracker", "setController", "updateClaimWait", "initToken", "initAddress",
         "setAllowTransfer", "release"} \subseteq CallOps
    BY DEF CallOps
  <2> HIDE DEF L
  <2>4. /\ L(Transact("initTracker"), 20, 20 + 2) /\ L(Transact("setController"), 22, 22 + 2)
        /\ L(Transact("updateClaimWait"), 24, 24 + 2) /\ L(Transact("initToken"), 26, 26 + 2)
        /\ L(Transact("initAddress"), 32, 32 + 2) /\ L(Transact("setAllowTransfer"), 34, 34 + 2)
        /\ L(Transact("release"), 36, 36 + 2)
    BY <2>1, <2>2, <2>3
  <2>5. QED
    BY <2>4
<1>5. "TokenDividendTracker" \in eContractid /\ "BIBToken" \in eContractid
  BY DEF eContractid
<1> HIDE DEF L
<1>6. L(InitializeTrackerTask, 20, 26)
  <2>1. L(Do("chainId", "") \o Do("read", "TokenDividendTracker"), 20, 20)
    BY <1>0, <1>1, <1>5
  <2>2. L(Do("chainId", "") \o Do("read", "TokenDividendTracker")
            \o Transact("initTracker"), 20, 22)
    BY <1>0, <1>4, <2>1
  <2>3. L(Do("chainId", "") \o Do("read", "TokenDividendTracker")
            \o Transact("initTracker") \o Transact("setController"), 20, 24)
    BY <1>0, <1>4, <2>2
  <2>4. QED
    BY <1>0, <1>4, <2>3 DEF InitializeTrackerTask
<1>7. L(InitializeBIBTokenTask, 26, 38)
  <2>1. L(Do("chainId", "") \o Do("read", "BIBToken"), 26, 26)
    BY <1>0, <1>1, <1>5
  <2>2. L(Do("chainId", "") \o Do("read", "BIBToken") \o Transact("initToken"), 26, 28)
    BY <1>0, <1>4, <2>1
  <2>3. L(Do("chainId", "") \o Do("read", "BIBToken") \o Transact("initToken")
            \o deployContract("VestingToken", "VestingToken"), 26, 31)
    BY <1>0, <1>3, <2>2
  <2>4. L(Do("chainId", "") \o Do("read", "BIBToken") \o Transact("initToken")
            \o deployContract("VestingToken", "VestingToken")
            \o Do("register", "TeamVesting"), 26, 32)
    BY <1>0, <1>2, <2>3
  <2>5. L(Do("chainId", "") \o Do("read", "BIBToken") \o Transact("initToken")
            \o deployContract("VestingToken", "VestingToken")
            \o Do("register", "TeamVesting") \o Transact("initAddress"), 26, 34)
    BY <1>0, <1>4, <2>4
  <2>6. L(Do("chainId", "") \o Do("read", "BIBToken") \o Transact("initToken")
            \o deployContract("VestingToken", "VestingToken")
            \o Do("register", "TeamVesting") \o Transact("initAddress")
            \o Transact("setAllowTransfer"), 26, 36)
    BY <1>0, <1>4, <2>5
  <2>7. QED
    BY <1>0, <1>4, <2>6 DEF InitializeBIBTokenTask
<1>8. QED
  BY <1>6, <1>7 DEF L

LEMMA MigrationsLead ==
    ASSUME NEW task \in Migrations, NEW verify \in BOOLEAN
    PROVE  Leads(Steps(task, verify), 0, 38)
<1> DEFINE L(s, a, b) == s \in Seq(StepType) /\ Leads(s, a, b)
           admin == Do("admin", "")
           check == checkVerification(verify)
<1>0. \A s, r, a, b, c : L(s, a, b) /\ L(r, b, c) => L(s \o r, a, c)
  BY ConcatLeads
<1>1. L(admin, 0, 0) /\ L(check, 0, 0)
  <2>1. L(admin, 0, 0) /\ L(Do("checkVerification", ""), 0, 0)
    BY FreeLeads
  <2>2. QED
    BY <2>1, WhenLeads DEF checkVerification
<1>2. /\ L(DeployBIBTokenTask(verify), 0, 8) /\ L(DeployTrackerTask(verify), 8, 20)
      /\ L(InitializeTrackerTask, 20, 26) /\ L(InitializeBIBTokenTask, 26, 38)
  BY DeployTasksLead, InitializeTasksLead
<1> HIDE DEF L
<1>3. L(DeploymentTask(verify), 0, 38)
  <2>1. L(admin \o check, 0, 0)
    BY <1>0, <1>1
  <2>2. L(admin \o check \o DeployBIBTokenTask(verify), 0, 8)
    BY <1>0, <1>2, <2>1
  <2>3. L(admin \o check \o DeployBIBTokenTask(verify) \o DeployTrackerTask(verify), 0, 20)
    BY <1>0, <1>2, <2>2
  <2>4. L(admin \o check \o DeployBIBTokenTask(verify) \o DeployTrackerTask(verify)
            \o InitializeTrackerTask, 0, 26)
    BY <1>0, <1>2, <2>3
  <2>5. QED
    BY <1>0, <1>2, <2>4 DEF DeploymentTask
<1>4. L(BscDeploymentTask(verify), 0, 38)
  BY <1>0, <1>1, <1>3 DEF BscDeploymentTask
<1>5. L(admin \o check, 0, 0)
  BY <1>0, <1>1
<1>6. L(BscTestDeploymentTask(verify), 0, 38) /\ L(DevDeploymentTask(verify), 0, 38)
  BY <1>0, <1>3, <1>5 DEF BscTestDeploymentTask, DevDeploymentTask
<1>7. L(Steps(task, verify), 0, 38)
  BY <1>3, <1>4, <1>6 DEF Steps, Migrations
<1>8. QED
  BY <1>7 DEF L

(***************************************************************************)
(* What a migration has achieved at each stage: the third invariant.  The  *)
(* operators take the chain c, the names d, the parameters g and the       *)
(* contract m that the task has made last.                                 *)
(***************************************************************************)

KindIs(c, a, kind) == a \in DOMAIN c /\ c[a].kind = kind

PaysTheTeam(c, a, g) == KindIs(c, a, "VestingToken") /\ c[a].beneficiary = g.team

Facts(n, c, d, g, m) ==
    LET t == d["BIBToken"]
        k == d["TokenDividendTracker"]
    IN  /\ n \in {2, 3} => KindIs(c, m, "BIBToken")
        /\ n >= 4 => KindIs(c, d["BIBTokenImpl"], "BIBToken")
        /\ n \in {6, 7} => KindIs(c, m, "Proxy")
        /\ n >= 8 => KindIs(c, t, "Proxy")
        /\ n \in {14, 15} => KindIs(c, m, "TokenDividendTracker")
        /\ n >= 16 => KindIs(c, d["TokenDividendTrackerImpl"], "TokenDividendTracker")
        /\ n \in {18, 19} => KindIs(c, m, "Proxy")
        /\ n >= 20 => KindIs(c, k, "Proxy")
        /\ n >= 22 => c[k].impl = d["TokenDividendTrackerImpl"]
        /\ n >= 24 => c[k].cntr = t
        /\ n >= 26 => c[k].claimWait = ClaimWait
        /\ n >= 28 => c[t].tracker = k /\ c[t].impl = d["BIBTokenImpl"]
        /\ n \in {30, 31} => PaysTheTeam(c, m, g)
        /\ n >= 32 => PaysTheTeam(c, d["TeamVesting"], g) /\ m = d["TeamVesting"]
        /\ n >= 34 => c[t].wallets = << d["TeamVesting"] >> \o g.vaults
        /\ n >= 36 => c[t].allow
        /\ n >= 38 => c[t].reserve = 0

\* The transaction that is awaited at stage n.
SentAt(n, tx, d, g, m) ==
    LET t == d["BIBToken"]
        k == d["TokenDividendTracker"]
    IN  /\ n \in {1, 5, 12, 13, 17, 29} => tx.op = "create" /\ tx.to = m
        /\ n = 1 => tx.args.kind = "BIBToken"
        /\ n \in {5, 17} => tx.args.kind = "Proxy"
        /\ n \in {12, 13} => tx.args.kind = "TokenDividendTracker"
        /\ n = 29 => tx.args.kind = "VestingToken" /\ tx.args.account = g.team
        /\ n = 21 => /\ tx.op = "initTracker" /\ tx.to = k
                     /\ tx.args.impl = d["TokenDividendTrackerImpl"]
        /\ n = 23 => tx.op = "setController" /\ tx.to = k /\ tx.args.account = t
        /\ n = 25 => tx.op = "updateClaimWait" /\ tx.to = k
        /\ n = 27 => /\ tx.op = "initToken" /\ tx.to = t
                     /\ tx.args.impl = d["BIBTokenImpl"] /\ tx.args.tracker = k
        /\ n = 33 => /\ tx.op = "initAddress" /\ tx.to = t
                     /\ tx.args.wallets = << m >> \o g.vaults
        /\ n = 35 => tx.op = "setAllowTransfer" /\ tx.to = t
        /\ n = 37 => tx.op = "release" /\ tx.to = t

\* What it leaves when it does not fail.
Outcome(n, c, d, g, m) ==
    LET t == d["BIBToken"]
        k == d["TokenDividendTracker"]
    IN  /\ n = 1 => KindIs(c, m, "BIBToken")
        /\ n \in {5, 17} => KindIs(c, m, "Proxy")
        /\ n \in {12, 13} => KindIs(c, m, "TokenDividendTracker")
        /\ n = 29 => PaysTheTeam(c, m, g)
        /\ n = 21 => c[k].impl = d["TokenDividendTrackerImpl"]
        /\ n = 23 => c[k].cntr = t
        /\ n = 25 => c[k].claimWait = ClaimWait
        /\ n = 27 => c[t].tracker = k /\ c[t].impl = d["BIBTokenImpl"]
        /\ n = 33 => c[t].wallets = << m >> \o g.vaults
        /\ n = 35 => c[t].allow
        /\ n = 37 => c[t].reserve = 0

Stage(n) ==
    /\ Leads(script.todo, n, 38)
    /\ Facts(n, chain, db, config, script.made)
    /\ \A i \in 1 .. Len(pending) :
          pending[i].awaited => SentAt(n, pending[i], db, config, script.made)
    /\ script.receipt = "ok" => Outcome(n, chain, db, config, script.made)

Migrating == script.task \in Migrations /\ script.status \in {"running", "done"}

StageInv == Migrating => \E n \in Nat : Stage(n)

LEMMA SomeWallets ==
    ASSUME NEW g \in Configs, NEW v \in Nat
    PROVE  << v >> \o g.vaults # << >>
<1> DEFINE w == << v >> \o g.vaults
<1>1. g.vaults \in Seq(Addr) /\ v \in Addr /\ Len(g.vaults) \in Nat
  BY ConfigsAssumption, LenProperties DEF Addr
<1>2. Len(w) = Len(g.vaults) + 1
  BY <1>1, TailOfOneMore, Zenon
<1> HIDE DEF w
<1>3. Len(w) # 0
  BY <1>1, <1>2
<1>4. w # << >>
  BY <1>3
<1>5. QED
  BY <1>4 DEF w

\* What has been achieved stays, whatever is mined.
LEMMA FactsStay ==
    ASSUME NEW c, ChainType(c), NEW e, Grows(c, e), NEW d \in [eContractid -> Nat],
           NEW g \in Configs, NEW m \in Nat, NEW n \in Nat, Facts(n, c, d, g, m)
    PROVE  /\ Facts(n, e, d, g, m)
           /\ Outcome(n, c, d, g, m) => Outcome(n, e, d, g, m)
<1> DEFINE t == d["BIBToken"]
           k == d["TokenDividendTracker"]
           v == d["TeamVesting"]
<1>1. /\ \A a, kind : KindIs(c, a, kind) => KindIs(e, a, kind)
      /\ \A a : PaysTheTeam(c, a, g) => PaysTheTeam(e, a, g)
  BY DEF KindIs, PaysTheTeam, Grows
<1>2. 0 \notin DOMAIN c
  BY DEF ChainType
<1>3. /\ n >= 4 => d["BIBTokenImpl"] \in DOMAIN c
      /\ n >= 8 => t \in DOMAIN c
      /\ n >= 16 => d["TokenDividendTrackerImpl"] \in DOMAIN c
      /\ n >= 20 => k \in DOMAIN c
  BY DEF Facts, KindIs
<1>4. \A a \in Nat : << a >> \o g.vaults # << >>
  BY SomeWallets
<1>5. ASSUME n >= 20, c[k].impl = d["TokenDividendTrackerImpl"]
      PROVE  e[k].impl = d["TokenDividendTrackerImpl"]
  BY <1>2, <1>3, <1>5 DEF Grows, NOBODY
<1>6. ASSUME n >= 20, c[k].cntr = t
      PROVE  e[k].cntr = t
  BY <1>2, <1>3, <1>6 DEF Grows
<1>7. ASSUME n >= 20, c[k].claimWait = ClaimWait
      PROVE  e[k].claimWait = ClaimWait
  BY <1>3, <1>7 DEF Grows
<1>8. ASSUME n >= 20, c[t].tracker = k /\ c[t].impl = d["BIBTokenImpl"]
      PROVE  e[t].tracker = k /\ e[t].impl = d["BIBTokenImpl"]
  BY <1>2, <1>3, <1>8 DEF Grows, NOBODY
<1>9. ASSUME n >= 20, NEW a \in Nat, c[t].wallets = << a >> \o g.vaults
      PROVE  e[t].wallets = << a >> \o g.vaults
  <2> DEFINE w == << a >> \o g.vaults
  <2>1. c[t].wallets = w /\ w # << >>
    BY <1>4, <1>9
  <2> HIDE DEF w
  <2>2. e[t].wallets = w
    BY <1>3, <1>9, <2>1 DEF Grows
  <2>3. QED
    BY <2>2 DEF w
<1>10. ASSUME n >= 20, c[t].allow
       PROVE  e[t].allow
  BY <1>3, <1>10 DEF Grows
<1>11. ASSUME n >= 28, c[t].reserve = 0
       PROVE  e[t].reserve = 0
  <2>1. c[t].tracker = k /\ k # 0
    BY <1>2, <1>3, <1>11 DEF Facts
  <2>2. QED
    BY <1>3, <1>11, <2>1 DEF Grows
<1>12. v \in Nat
  BY DEF eContractid
<1> HIDE DEF t, k, v
<1>13. Facts(n, e, d, g, m)
  <2>1. /\ n \in {2, 3} => KindIs(c, m, "BIBToken")
        /\ n >= 4 => KindIs(c, d["BIBTokenImpl"], "BIBToken")
        /\ n \in {6, 7} => KindIs(c, m, "Proxy")
        /\ n >= 8 => KindIs(c, t, "Proxy")
        /\ n \in {14, 15} => KindIs(c, m, "TokenDividendTracker")
        /\ n >= 16 => KindIs(c, d["TokenDividendTrackerImpl"], "TokenDividendTracker")
        /\ n \in {18, 19} => KindIs(c, m, "Proxy")
        /\ n >= 20 => KindIs(c, k, "Proxy")
        /\ n >= 22 => c[k].impl = d["TokenDividendTrackerImpl"]
        /\ n >= 24 => c[k].cntr = t
        /\ n >= 26 => c[k].claimWait = ClaimWait
        /\ n >= 28 => c[t].tracker = k /\ c[t].impl = d["BIBTokenImpl"]
        /\ n \in {30, 31} => PaysTheTeam(c, m, g)
        /\ n >= 32 => PaysTheTeam(c, v, g) /\ m = v
        /\ n >= 34 => c[t].wallets = << v >> \o g.vaults
        /\ n >= 36 => c[t].allow
        /\ n >= 38 => c[t].reserve = 0
    BY DEF Facts, t, k, v
  <2>2. /\ n >= 22 => e[k].impl = d["TokenDividendTrackerImpl"]
        /\ n >= 24 => e[k].cntr = t
        /\ n >= 26 => e[k].claimWait = ClaimWait
    BY <2>1, <1>5, <1>6, <1>7
  <2>3. n >= 28 => e[t].tracker = k /\ e[t].impl = d["BIBTokenImpl"]
    BY <2>1, <1>8
  <2>4. ASSUME n >= 34
        PROVE  e[t].wallets = << v >> \o g.vaults
    <3>1. n >= 20 /\ c[t].wallets = << v >> \o g.vaults
      BY <2>1, <2>4
    <3>2. QED
      BY <1>9, <1>12, <3>1, Zenon
  <2>5. /\ n >= 36 => e[t].allow
        /\ n >= 38 => e[t].reserve = 0
    BY <2>1, <1>10, <1>11
  <2>6. QED
    BY <1>1, <2>1, <2>2, <2>3, <2>4, <2>5 DEF Facts, t, k, v
<1>14. ASSUME Outcome(n, c, d, g, m)
       PROVE  Outcome(n, e, d, g, m)
  <2>1. /\ n = 1 => KindIs(c, m, "BIBToken")
        /\ n \in {5, 17} => KindIs(c, m, "Proxy")
        /\ n \in {12, 13} => KindIs(c, m, "TokenDividendTracker")
        /\ n = 29 => PaysTheTeam(c, m, g)
        /\ n = 21 => c[k].impl = d["TokenDividendTrackerImpl"]
        /\ n = 23 => c[k].cntr = t
        /\ n = 25 => c[k].claimWait = ClaimWait
        /\ n = 27 => c[t].tracker = k /\ c[t].impl = d["BIBTokenImpl"]
        /\ n = 33 => c[t].wallets = << m >> \o g.vaults
        /\ n = 35 => c[t].allow
        /\ n = 37 => c[t].reserve = 0
    BY <1>14 DEF Outcome, t, k
  <2>2. /\ n = 21 => e[k].impl = d["TokenDividendTrackerImpl"]
        /\ n = 23 => e[k].cntr = t
        /\ n = 25 => e[k].claimWait = ClaimWait
    BY <2>1, <1>5, <1>6, <1>7
  <2>3. n = 27 => e[t].tracker = k /\ e[t].impl = d["BIBTokenImpl"]
    BY <2>1, <1>8
  <2>4. n = 33 => e[t].wallets = << m >> \o g.vaults
    BY <2>1, <1>9
  <2>5. /\ n = 35 => e[t].allow
        /\ n = 37 => e[t].reserve = 0
    BY <2>1, <1>10, <1>11
  <2>6. QED
    BY <1>1, <2>1, <2>2, <2>3, <2>4, <2>5 DEF Outcome, t, k
<1>15. QED
  BY <1>13, <1>14

\* The receipt lets the task go on to the next stage.
LEMMA OutcomeAdvances ==
    ASSUME NEW c, NEW d, NEW g, NEW m,
           NEW n \in {1, 5, 9, 13, 17, 21, 23, 25, 27, 29, 33, 35, 37},
           Facts(n, c, d, g, m), Outcome(n, c, d, g, m)
    PROVE  Facts(n + 1, c, d, g, m)
BY DEF Facts, Outcome

(***************************************************************************)
(* What the transactions leave.                                            *)
(***************************************************************************)

LEMMA TransactionsDo ==
    ASSUME NEW c, ChainType(c), NEW tx, tx.to \in DOMAIN c
    PROVE  /\ InitTracker(c, tx)[tx.to].impl = tx.args.impl
           /\ SetController(c, tx)[tx.to].cntr = tx.args.account
           /\ UpdateClaimWait(c, tx)[tx.to].claimWait = ClaimWait
           /\ tx.args.tracker \in DOMAIN c =>
                 /\ InitToken(c, tx)[tx.to].tracker = tx.args.tracker
                 /\ InitToken(c, tx)[tx.to].impl = tx.args.impl
           /\ c[tx.to].tracker \in DOMAIN c =>
                 InitAddress(c, tx)[tx.to].wallets = tx.args.wallets
           /\ SetAllowTransfer(c, tx)[tx.to].allow
           /\ Release(c, tx)[tx.to].reserve = c[tx.to].reserve - Parts
<1> DEFINE t == tx.to
           args == tx.args
<1>0. t \in DOMAIN c /\ c \in [DOMAIN c -> ContractType] /\ c[t] \in ContractType
  BY DEF ChainType
<1> HIDE DEF t, args
<1>1. InitTracker(c, tx)[t].impl = args.impl
  <2> DEFINE r == [[c[t] EXCEPT !.impl = args.impl, !.admin = args.admin]
                     EXCEPT !.owner = tx.from, !.busd = args.busd]
  <2>1. InitTracker(c, tx) = [c EXCEPT ![t] = r]
    BY DEF InitTracker, ProxyInitialize, t, args
  <2>2. r.impl = args.impl
    BY <1>0 DEF ContractType
  <2> HIDE DEF r
  <2>3. QED
    BY <1>0, <2>1, <2>2
<1>2. SetController(c, tx)[t].cntr = args.account
  <2> DEFINE r == [c[t] EXCEPT !.cntr = args.account]
  <2>1. SetController(c, tx) = [c EXCEPT ![t] = r]
    BY DEF SetController, t, args
  <2>2. r.cntr = args.account
    BY <1>0 DEF ContractType
  <2> HIDE DEF r
  <2>3. QED
    BY <1>0, <2>1, <2>2
<1>3. UpdateClaimWait(c, tx)[t].claimWait = ClaimWait
  <2> DEFINE r == [c[t] EXCEPT !.claimWait = ClaimWait]
  <2>1. UpdateClaimWait(c, tx) = [c EXCEPT ![t] = r]
    BY DEF UpdateClaimWait, t
  <2>2. r.claimWait = ClaimWait
    BY <1>0 DEF ContractType
  <2> HIDE DEF r
  <2>3. QED
    BY <1>0, <2>1, <2>2
<1>4. ASSUME args.tracker \in DOMAIN c
      PROVE  /\ InitToken(c, tx)[t].tracker = args.tracker
             /\ InitToken(c, tx)[t].impl = args.impl
  <2> DEFINE k == args.tracker
             r == [[c[t] EXCEPT !.impl = args.impl, !.admin = args.admin]
                     EXCEPT !.owner = tx.from, !.busd = args.busd,
                            !.tracker = k, !.reserve = 100]
             e == [c EXCEPT ![t] = r]
             q == [e[k] EXCEPT !.excluded = @ \cup FirstExcluded(tx)]
  <2>1. InitToken(c, tx) = [e EXCEPT ![k] = q]
    BY <1>0, <1>4 DEF InitToken, ProxyInitialize, t, args
  <2>2. r.tracker = k /\ r.impl = args.impl
    BY <1>0 DEF ContractType
  <2>3. DOMAIN r = DOMAIN c[t]
    BY <1>0
  <2> HIDE DEF r
  <2>4. e[t] = r /\ DOMAIN e = DOMAIN c
    BY <1>0
  <2>5. k = t => q.tracker = r.tracker /\ q.impl = r.impl
    BY <1>0, <2>3, <2>4 DEF ContractType
  <2> HIDE DEF e, q
  <2>6. InitToken(c, tx)[t] = IF k = t THEN q ELSE r
    BY <1>0, <1>4, <2>1, <2>4 DEF k
  <2>7. QED
    BY <2>2, <2>5, <2>6
<1>5. ASSUME c[t].tracker \in DOMAIN c
      PROVE  InitAddress(c, tx)[t].wallets = args.wallets
  <2> DEFINE k == c[t].tracker
             w == args.wallets
             r == [c[t] EXCEPT !.wallets = w]
             e == [c EXCEPT ![t] = r]
             q == [e[k] EXCEPT !.excluded = @ \cup {w[i] : i \in DOMAIN w}]
  <2>1. InitAddress(c, tx) = [e EXCEPT ![k] = q]
    BY <1>0, <1>5 DEF InitAddress, t, args
  <2>2. r.wallets = w
    BY <1>0 DEF ContractType
  <2>3. DOMAIN r = DOMAIN c[t]
    BY <1>0
  <2> HIDE DEF r
  <2>4. e[t] = r /\ DOMAIN e = DOMAIN c
    BY <1>0
  <2>5. k = t => q.wallets = r.wallets
    BY <1>0, <2>3, <2>4 DEF ContractType
  <2> HIDE DEF e, q
  <2>6. InitAddress(c, tx)[t] = IF k = t THEN q ELSE r
    BY <1>0, <1>5, <2>1, <2>4 DEF k
  <2>7. QED
    BY <2>2, <2>5, <2>6
<1>6. SetAllowTransfer(c, tx)[t].allow
  <2> DEFINE r == [c[t] EXCEPT !.allow = TRUE]
  <2>1. SetAllowTransfer(c, tx) = [c EXCEPT ![t] = r]
    BY DEF SetAllowTransfer, t
  <2>2. r.allow
    BY <1>0 DEF ContractType
  <2> HIDE DEF r
  <2>3. QED
    BY <1>0, <2>1, <2>2
<1>7. Release(c, tx)[t].reserve = c[t].reserve - Parts
  <2> DEFINE r == [c[t] EXCEPT !.reserve = @ - Parts]
  <2>1. Release(c, tx) = [c EXCEPT ![t] = r]
    BY DEF Release, t
  <2>2. r.reserve = c[t].reserve - Parts
    BY <1>0 DEF ContractType
  <2> HIDE DEF r
  <2>3. QED
    BY <1>0, <2>1, <2>2
<1>8. QED
  BY <1>1, <1>2, <1>3, <1>4, <1>5, <1>6, <1>7 DEF t, args

\* A transaction that is awaited and does not fail has the outcome it is sent for.
LEMMA OutcomeMined ==
    ASSUME NEW c, ChainType(c), NEW d, NEW g, NEW m \in Nat, NEW n \in Nat, NEW tx,
           Facts(n, c, d, g, m), SentAt(n, tx, d, g, m), ~Reverts(c, tx)
    PROVE  Outcome(n, Apply(c, tx), d, g, m)
<1> DEFINE t == d["BIBToken"]
           k == d["TokenDividendTracker"]
           e == Apply(c, tx)
<1>1. ASSUME n \in {1, 5, 12, 13, 17, 29}
      PROVE  m \in DOMAIN e /\ e[m].kind = tx.args.kind /\ e[m].beneficiary = tx.args.account
  <2>1. tx.op = "create" /\ tx.to = m
    BY <1>1 DEF SentAt
  <2>2. e = Create(c, tx)
    BY <2>1 DEF Apply
  <2>3. m \in DOMAIN e /\ e[m] = Fresh(tx.args.kind, tx.args.account)
    BY <2>1, <2>2 DEF Create
  <2>4. QED
    BY <2>3 DEF Fresh
<1>2. /\ n >= 20 => t \in DOMAIN c /\ k \in DOMAIN c
      /\ n >= 28 => c[t].tracker = k
  BY DEF Facts, KindIs
<1>3. ASSUME n = 21
      PROVE  e[k].impl = d["TokenDividendTrackerImpl"]
  <2>1. tx.op = "initTracker" /\ tx.to = k /\ tx.args.impl = d["TokenDividendTrackerImpl"]
    BY <1>3 DEF SentAt
  <2>2. k \in DOMAIN c /\ e = InitTracker(c, tx)
    BY <1>2, <1>3, <2>1 DEF Apply
  <2>3. QED
    BY <2>1, <2>2, TransactionsDo
<1>4. ASSUME n = 23
      PROVE  e[k].cntr = t
  <2>1. tx.op = "setController" /\ tx.to = k /\ tx.args.account = t
    BY <1>4 DEF SentAt
  <2>2. k \in DOMAIN c /\ e = SetController(c, tx)
    BY <1>2, <1>4, <2>1 DEF Apply
  <2>3. QED
    BY <2>1, <2>2, TransactionsDo
<1>5. ASSUME n = 25
      PROVE  e[k].claimWait = ClaimWait
  <2>1. tx.op = "updateClaimWait" /\ tx.to = k
    BY <1>5 DEF SentAt
  <2>2. k \in DOMAIN c /\ e = UpdateClaimWait(c, tx)
    BY <1>2, <1>5, <2>1 DEF Apply
  <2>3. QED
    BY <2>1, <2>2, TransactionsDo
<1>6. ASSUME n = 27
      PROVE  e[t].tracker = k /\ e[t].impl = d["BIBTokenImpl"]
  <2>1. /\ tx.op = "initToken" /\ tx.to = t
        /\ tx.args.impl = d["BIBTokenImpl"] /\ tx.args.tracker = k
    BY <1>6 DEF SentAt
  <2>2. t \in DOMAIN c /\ k \in DOMAIN c /\ e = InitToken(c, tx)
    BY <1>2, <1>6, <2>1 DEF Apply
  <2>3. QED
    BY <2>1, <2>2, TransactionsDo
<1>7. ASSUME n = 33
      PROVE  e[t].wallets = << m >> \o g.vaults
  <2> DEFINE w == << m >> \o g.vaults
  <2>1. tx.op = "initAddress" /\ tx.to = t /\ tx.args.wallets = w
    BY <1>7 DEF SentAt
  <2> HIDE DEF w
  <2>2. n >= 20 /\ n >= 28
    BY <1>7
  <2>3. t \in DOMAIN c /\ c[t].tracker \in DOMAIN c /\ e = InitAddress(c, tx)
    BY <1>2, <2>1, <2>2 DEF Apply
  <2>4. e[t].wallets = w
    BY <2>1, <2>3, TransactionsDo
  <2>5. QED
    BY <2>4 DEF w
<1>8. ASSUME n = 35
      PROVE  e[t].allow
  <2>1. tx.op = "setAllowTransfer" /\ tx.to = t
    BY <1>8 DEF SentAt
  <2>2. t \in DOMAIN c /\ e = SetAllowTransfer(c, tx)
    BY <1>2, <1>8, <2>1 DEF Apply
  <2>3. QED
    BY <2>1, <2>2, TransactionsDo
<1>9. ASSUME n = 37
      PROVE  e[t].reserve = 0
  <2>1. tx.op = "release" /\ tx.to = t
    BY <1>9 DEF SentAt
  <2>2. t \in DOMAIN c /\ e = Release(c, tx) /\ ~ReleaseReverts(c, tx)
    BY <1>2, <1>9, <2>1 DEF Apply, Reverts
  <2>3. c[t] \in ContractType
    BY <2>2 DEF ChainType
  <2>4. c[t].reserve \in {0, 100} /\ ~(c[t].reserve < 100) /\ Parts = 100
    BY <2>1, <2>2, <2>3 DEF ReleaseReverts, Parts, ContractType
  <2>5. e[t].reserve = c[t].reserve - Parts
    BY <2>1, <2>2, TransactionsDo
  <2>6. QED
    BY <2>4, <2>5
<1> HIDE DEF e
<1>10. /\ n = 1 => KindIs(e, m, "BIBToken")
       /\ n \in {5, 17} => KindIs(e, m, "Proxy")
       /\ n \in {12, 13} => KindIs(e, m, "TokenDividendTracker")
       /\ n = 29 => PaysTheTeam(e, m, g)
  BY <1>1 DEF SentAt, KindIs, PaysTheTeam
<1>11. QED
  BY <1>3, <1>4, <1>5, <1>6, <1>7, <1>8, <1>9, <1>10 DEF Outcome, e

(***************************************************************************)
(* What the steps make of the stage.                                       *)
(***************************************************************************)

LEMMA StagePrimed ==
    ASSUME NEW n
    PROVE  Stage(n)' = /\ Leads(script'.todo, n, 38)
                       /\ Facts(n, chain', db', config', script'.made)
                       /\ \A i \in 1 .. Len(pending') :
                             pending'[i].awaited =>
                               SentAt(n, pending'[i], db', config', script'.made)
                       /\ script'.receipt = "ok" =>
                            Outcome(n, chain', db', config', script'.made)
<1>1. Leads(script.todo, n, 38)' = Leads(script'.todo, n, 38)
  BY DEF Leads, Advances, StepIs, WritesNothing
<1>2. Facts(n, chain, db, config, script.made)' = Facts(n, chain', db', config', script'.made)
  BY DEF Facts, KindIs, PaysTheTeam
<1>3. Outcome(n, chain, db, config, script.made)'
        = Outcome(n, chain', db', config', script'.made)
  BY DEF Outcome, KindIs, PaysTheTeam
<1>4. (\A i \in 1 .. Len(pending) :
          pending[i].awaited => SentAt(n, pending[i], db, config, script.made))'
        = \A i \in 1 .. Len(pending') :
             pending'[i].awaited => SentAt(n, pending'[i], db', config', script'.made)
  BY DEF SentAt
<1>5. QED
  BY <1>1, <1>2, <1>3, <1>4 DEF Stage

\* The steps left, the names and the last contract stay; the chain may grow.
LEMMA StageStays ==
    ASSUME Inv, NEW n \in Nat, Stage(n), Grows(chain, chain'), UNCHANGED << config, db >>,
           script'.made = script.made, script'.todo = script.todo,
           \A i \in 1 .. Len(pending') : pending'[i].awaited =>
              \E j \in 1 .. Len(pending) : pending'[i] = pending[j],
           script'.receipt = "ok" =>
              \/ script.receipt = "ok"
              \/ Outcome(n, chain', db, config, script.made)
    PROVE  Stage(n)'
<1>1. ChainType(chain) /\ db \in [eContractid -> Nat] /\ config \in Configs /\ script.made \in Nat
  BY DEF Inv, ChainOK, ScriptOK
<1>2. Facts(n, chain, db, config, script.made)
  BY DEF Stage
<1>3. /\ Facts(n, chain', db, config, script.made)
      /\ Outcome(n, chain, db, config, script.made)
           => Outcome(n, chain', db, config, script.made)
  BY <1>1, <1>2, FactsStay
<1>4. /\ Leads(script.todo, n, 38)
      /\ \A j \in 1 .. Len(pending) : pending[j].awaited =>
            SentAt(n, pending[j], db, config, script.made)
      /\ script.receipt = "ok" => Outcome(n, chain, db, config, script.made)
  BY DEF Stage
<1>5. \A i \in 1 .. Len(pending') :
         pending'[i].awaited => SentAt(n, pending'[i], db, config, script.made)
  BY <1>4
<1>6. QED
  BY <1>3, <1>4, <1>5, StagePrimed

LEMMA NoWaitAfterAwait ==
    ASSUME NEW n \in Nat, NEW c, NEW d, NEW g, NEW m,
           n \notin {1, 5, 12, 13, 17, 21, 23, 25, 27, 29, 33, 35, 37}
    PROVE  /\ \A tx : SentAt(n, tx, d, g, m)
           /\ Outcome(n, c, d, g, m)
BY DEF SentAt, Outcome

LEMMA RegisterAdvances ==
    ASSUME NEW c, NEW d \in [eContractid -> Nat], NEW g, NEW m, NEW n \in Nat,
           NEW id \in eContractid, StepIs([op |-> "register", arg |-> id], n),
           Facts(n, c, d, g, m)
    PROVE  LET e == [d EXCEPT ![id] = m]
           IN  /\ Facts(n + 1, c, e, g, m)
               /\ \A tx : SentAt(n, tx, d, g, m) => SentAt(n + 1, tx, e, g, m)
               /\ Outcome(n, c, d, g, m) => Outcome(n + 1, c, e, g, m)
<1> DEFINE e == [d EXCEPT ![id] = m]
<1>1. e[id] = m /\ \A x \in eContractid \ {id} : e[x] = d[x]
  OBVIOUS
<1>2. \/ id = "BIBToken" /\ n \in {2, 7}
      \/ id = "BIBTokenImpl" /\ n = 3
      \/ id = "InitializableAdminUpgradeabilityProxy" /\ n \in {6, 18}
      \/ id = "IterableMapping" /\ n = 10
      \/ id = "TokenDividendTrackerImpl" /\ n \in {12, 15}
      \/ id = "TokenDividendTracker" /\ n \in {14, 19}
      \/ id = "VestingToken" /\ n = 30
      \/ id = "TeamVesting" /\ n = 31
  BY DEF StepIs
<1> HIDE DEF e
<1>3. /\ id # "BIBToken" => e["BIBToken"] = d["BIBToken"]
      /\ id # "BIBTokenImpl" => e["BIBTokenImpl"] = d["BIBTokenImpl"]
      /\ id # "TokenDividendTracker" => e["TokenDividendTracker"] = d["TokenDividendTracker"]
      /\ id # "TokenDividendTrackerImpl" =>
           e["TokenDividendTrackerImpl"] = d["TokenDividendTrackerImpl"]
      /\ id # "TeamVesting" => e["TeamVesting"] = d["TeamVesting"]
  BY <1>1 DEF eContractid
<1>4. Facts(n + 1, c, e, g, m)
  <2>1. CASE id = "BIBToken" /\ n \in {2, 7}
    BY <1>1, <1>3, <2>1 DEF Facts
  <2>2. CASE id = "BIBTokenImpl" /\ n = 3
    BY <1>1, <1>3, <2>2 DEF Facts
  <2>3. CASE id = "InitializableAdminUpgradeabilityProxy" /\ n \in {6, 18}
    BY <1>1, <1>3, <2>3 DEF Facts
  <2>4. CASE id = "IterableMapping" /\ n = 10
    BY <1>1, <1>3, <2>4 DEF Facts
  <2>5. CASE id = "TokenDividendTrackerImpl" /\ n \in {12, 15}
    BY <1>1, <1>3, <2>5 DEF Facts
  <2>6. CASE id = "TokenDividendTracker" /\ n \in {14, 19}
    BY <1>1, <1>3, <2>6 DEF Facts
  <2>7. CASE id = "VestingToken" /\ n = 30
    BY <1>1, <1>3, <2>7 DEF Facts
  <2>8. CASE id = "TeamVesting" /\ n = 31
    BY <1>1, <1>3, <2>8 DEF Facts
  <2>9. QED
    BY <1>2, <2>1, <2>2, <2>3, <2>4, <2>5, <2>6, <2>7, <2>8
<1>5. /\ \A tx : SentAt(n, tx, d, g, m) => SentAt(n + 1, tx, e, g, m)
      /\ Outcome(n, c, d, g, m) => Outcome(n + 1, c, e, g, m)
  <2>1. CASE n = 12
    BY <2>1 DEF SentAt, Outcome
  <2>2. CASE n \in {2, 3, 6, 7, 10, 14, 15, 18, 19, 30, 31}
    <3>1. n + 1 \in Nat
          /\ n + 1 \notin {1, 5, 12, 13, 17, 21, 23, 25, 27, 29, 33, 35, 37}
      BY <2>2
    <3>2. QED
      BY <3>1, NoWaitAfterAwait
  <2>3. QED
    BY <1>2, <2>1, <2>2
<1>6. QED
  BY <1>4, <1>5 DEF e

\* Going on without sending: what writes nothing leaves the stage, what does
\* takes the task to the next.
LEMMA StageProceeds ==
    ASSUME Inv, Running, script.todo # << >>, Proceed,
           Head(script.todo).op \notin {"create", "send"},
           Head(script.todo).op = "await" => script.receipt = "ok",
           UNCHANGED << config, chain, pending >>,
           db' = IF Head(script.todo).op = "register" THEN [db EXCEPT ![Arg] = script.made]
                 ELSE db,
           NEW n \in Nat, Stage(n)
    PROVE  \E k \in Nat : Stage(k)'
<1> DEFINE step == Head(script.todo)
           m == script.made
<1>1. /\ script'.todo = Tail(script.todo) /\ script'.receipt = script.receipt
      /\ script'.made = m
  BY DEF Proceed, Inv, ScriptOK
<1>2. /\ Leads(script.todo, n, 38) /\ Facts(n, chain, db, config, m)
      /\ \A i \in 1 .. Len(pending) :
            pending[i].awaited => SentAt(n, pending[i], db, config, m)
      /\ script.receipt = "ok" => Outcome(n, chain, db, config, m)
  BY DEF Stage
<1>3. script.todo \in Seq(StepType) /\ db \in [eContractid -> Nat]
  BY DEF Inv, ScriptOK
<1>4. PICK k \in Nat : Advances(step, n, k) /\ Leads(script'.todo, k, 38)
  BY <1>1, <1>2, <1>3, TailLeads
<1>5. SUFFICES ASSUME TRUE
               PROVE  /\ Facts(k, chain, db', config, m)
                      /\ \A i \in 1 .. Len(pending) :
                            pending[i].awaited => SentAt(k, pending[i], db', config, m)
                      /\ script.receipt = "ok" => Outcome(k, chain, db', config, m)
  <2>1. Stage(k)'
    BY <1>1, <1>4, <1>5, StagePrimed
  <2>2. QED
    BY <2>1
<1>6. CASE WritesNothing(step)
  <2>1. k = n /\ db' = db
    BY <1>4, <1>6 DEF Advances, WritesNothing
  <2>2. QED
    BY <1>2, <2>1
<1>7. CASE ~WritesNothing(step)
  <2>1. StepIs(step, n) /\ k = n + 1
    BY <1>4, <1>7 DEF Advances
  <2>2. CASE step.op = "await"
    <3>1. n \in {1, 5, 9, 13, 17, 21, 23, 25, 27, 29, 33, 35, 37} /\ db' = db
      BY <2>1, <2>2 DEF StepIs
    <3>2. Facts(k, chain, db, config, m)
      BY <1>2, <2>1, <2>2, <3>1, OutcomeAdvances
    <3>3. k \notin {1, 5, 12, 13, 17, 21, 23, 25, 27, 29, 33, 35, 37}
      BY <2>1, <3>1
    <3>4. QED
      BY <3>1, <3>2, <3>3, NoWaitAfterAwait
  <2>3. CASE step.op = "register"
    <3>1. step = [op |-> "register", arg |-> Arg] /\ Arg \in eContractid
      <4>1. step \in StepType
        BY <1>3, HeadTailProperties
      <4>2. step = [op |-> "register", arg |-> Arg]
        BY <2>3, <4>1 DEF StepType, Arg
      <4>3. Arg \in eContractid
        BY <2>1, <2>3 DEF StepIs, eContractid, Arg
      <4>4. QED
        BY <4>2, <4>3
    <3>2. StepIs([op |-> "register", arg |-> Arg], n) /\ db' = [db EXCEPT ![Arg] = m]
      BY <2>1, <2>3, <3>1
    <3> HIDE DEF step, m
    <3>3. /\ Facts(n + 1, chain, db', config, m)
          /\ \A tx : SentAt(n, tx, db, config, m) => SentAt(n + 1, tx, db', config, m)
          /\ Outcome(n, chain, db, config, m) => Outcome(n + 1, chain, db', config, m)
      <4> DEFINE id == Arg
                 e == [db EXCEPT ![id] = m]
      <4>1. id \in eContractid /\ StepIs([op |-> "register", arg |-> id], n) /\ db' = e
        BY <3>1, <3>2
      <4> HIDE DEF id
      <4>2. /\ Facts(n + 1, chain, e, config, m)
            /\ \A tx : SentAt(n, tx, db, config, m) => SentAt(n + 1, tx, e, config, m)
            /\ Outcome(n, chain, db, config, m) => Outcome(n + 1, chain, e, config, m)
        BY <1>2, <1>3, <4>1, RegisterAdvances, Zenon
      <4> HIDE DEF e
      <4>3. QED
        BY <4>1, <4>2
    <3>4. QED
      BY <1>2, <2>1, <3>3
  <2>4. QED
    BY <2>1, <2>2, <2>3 DEF StepIs
<1>8. QED
  BY <1>6, <1>7

LEMMA SendingAdvances ==
    ASSUME NEW c, NEW d, NEW g, NEW m, NEW p, NEW n \in Nat,
           NEW step, step.op \in {"create", "send"}, StepIs(step, n),
           step.op = "send" => p = m, Facts(n, c, d, g, m)
    PROVE  Facts(n + 1, c, d, g, p)
<1>1. \/ n \in {0, 4, 8, 11, 16, 28} /\ step.op = "create"
      \/ n \in {20, 22, 24, 26, 32, 34, 36} /\ p = m
  BY DEF StepIs
<1>2. CASE n \in {0, 4, 8, 11, 16, 28}
  BY <1>2 DEF Facts
<1>3. CASE n \in {20, 22, 24, 26, 32, 34, 36} /\ p = m
  BY <1>3 DEF Facts
<1>4. QED
  BY <1>1, <1>2, <1>3

\* What a task sends at its stage.
LEMMA CreationSentAt ==
    ASSUME NEW n \in Nat, NEW kind, NEW step, step.op = "create", step.arg = kind,
           StepIs(step, n), NEW tx, tx.op = "create", tx.args.kind = kind,
           NEW g, tx.args.account = g.team, NEW d
    PROVE  SentAt(n + 1, tx, d, g, tx.to)
BY DEF StepIs, SentAt

LEMMA CallSentAt ==
    ASSUME Inv, NEW op \in CallOps, NEW step, step.op = "send", step.arg = op,
           NEW n \in Nat, StepIs(step, n), Facts(n, chain, db, config, script.made)
    PROVE  SentAt(n + 1, CallOf(op), db, config, script.made)
<1> DEFINE tx == CallOf(op)
           t == db["BIBToken"]
           k == db["TokenDividendTracker"]
           w == << script.made >> \o config.vaults
<1>1. /\ op = "initTracker" =>
           tx.op = op /\ tx.to = k /\ tx.args.impl = db["TokenDividendTrackerImpl"]
      /\ op = "setController" => tx.op = op /\ tx.to = k /\ tx.args.account = t
      /\ op = "updateClaimWait" => tx.op = op /\ tx.to = k
      /\ op = "initToken" =>
           /\ tx.op = op /\ tx.to = t
           /\ tx.args.impl = db["BIBTokenImpl"] /\ tx.args.tracker = k
      /\ op \in {"setAllowTransfer", "release"} => tx.op = op /\ tx.to = t
  BY DEF CallOf, Tx, NoArgs
<1>2. op = "initAddress" => tx.op = op /\ tx.to = t /\ tx.args.wallets = w
  <2> HIDE DEF w
  <2>1. op = "initAddress" => tx = Tx(op, t, [NoArgs EXCEPT !.wallets = w])
    BY DEF CallOf, w
  <2>2. QED
    BY <2>1 DEF Tx, NoArgs
<1>3. /\ n = 20 => op = "initTracker"
      /\ n = 22 => op = "setController"
      /\ n = 24 => op = "updateClaimWait"
      /\ n = 26 => op = "initToken"
      /\ n = 32 => op = "initAddress"
      /\ n = 34 => op = "setAllowTransfer"
      /\ n = 36 => op = "release"
      /\ n \in {20, 22, 24, 26, 32, 34, 36}
  BY DEF StepIs
<1> HIDE DEF tx, w, t, k
<1>4. QED
  BY <1>1, <1>2, <1>3 DEF SentAt, tx, t, k, w

LEMMA StageSends ==
    ASSUME Inv, LiveInv, Running, script.todo # << >>,
           NEW n \in Nat, Stage(n), Head(script.todo).op \in {"create", "send"},
           NEW tx, TxOK(tx), NEW estimated, Send(tx, estimated),
           tx.op = "create" <=> Head(script.todo).op = "create",
           StepIs(Head(script.todo), n) =>
             SentAt(n + 1, tx, db, config, IF tx.op = "create" THEN tx.to ELSE script.made),
           UNCHANGED << config, chain, db >>
    PROVE  script'.status = "failed" \/ \E k \in Nat : Stage(k)'
<1> DEFINE step == Head(script.todo)
           m == script.made
           p == IF tx.op = "create" THEN tx.to ELSE m
<1>1. CASE Stop("failed")
  BY <1>1 DEF Stop, Inv, ScriptOK
<1>2. CASE /\ pending' = Append(pending, tx)
           /\ script' = [script EXCEPT !.todo = Tail(@), !.receipt = "none", !.hasSent = TRUE,
                           !.made = IF tx.op = "create" THEN tx.to ELSE @]
  <2>1. /\ script'.todo = Tail(script.todo) /\ script'.receipt = "none" /\ script'.made = p
    BY <1>2 DEF Inv, ScriptOK
  <2>2. script.todo \in Seq(StepType) /\ Leads(script.todo, n, 38)
        /\ Facts(n, chain, db, config, m)
    BY DEF Inv, ScriptOK, Stage
  <2>3. PICK k \in Nat : Advances(step, n, k) /\ Leads(script'.todo, k, 38)
    BY <2>1, <2>2, TailLeads
  <2>4. StepIs(step, n) /\ k = n + 1
    BY <2>3 DEF Advances, WritesNothing
  <2>5. \A i \in 1 .. Len(pending) : ~pending[i].awaited
    <3>1. ~NextAwaits(script.todo)
      BY NoWait DEF Inv
    <3>2. QED
      BY <3>1, NothingAwaited DEF LiveInv
  <2>6. /\ Len(pending') = Len(pending) + 1 /\ Len(pending) \in Nat
        /\ \A i \in 1 .. Len(pending) + 1 :
              \/ pending'[i] = tx
              \/ i \in 1 .. Len(pending) /\ pending'[i] = pending[i]
    <3>1. PendingOK /\ tx \in TxType
      BY DEF Inv, TxOK
    <3>2. QED
      BY <1>2, <3>1, OneMoreSent
  <2>7. \A i \in 1 .. Len(pending') : pending'[i].awaited => pending'[i] = tx
    BY <2>5, <2>6
  <2> HIDE DEF p, step
  <2>8. SentAt(n + 1, tx, db, config, p)
    BY <2>4 DEF p, step
  <2>9. Facts(n + 1, chain, db, config, p)
    <3>1. step.op \in {"create", "send"} /\ (step.op = "send" => p = m)
      BY DEF step, p
    <3>2. QED
      BY <2>2, <2>4, <3>1, SendingAdvances
  <2>10. /\ Facts(k, chain', db', config', script'.made)
         /\ \A i \in 1 .. Len(pending') :
               pending'[i].awaited => SentAt(k, pending'[i], db', config', script'.made)
    BY <2>1, <2>4, <2>7, <2>8, <2>9
  <2>11. Stage(k)'
    BY <2>1, <2>3, <2>10, StagePrimed
  <2>12. QED
    BY <2>11
<1>3. QED
  BY <1>1, <1>2 DEF Send

LEMMA StageStarts ==
    ASSUME Inv, LiveInv, NEW task \in Migrations, NEW verify \in BOOLEAN, Start(task, verify)
    PROVE  Stage(0)'
<1>1. /\ ~Running /\ UNCHANGED << config, chain, pending, db >>
      /\ script'.todo = Steps(task, verify) /\ script'.receipt = "none"
  BY DEF Start, NoScript
<1>2. \A i \in 1 .. Len(pending) : ~pending[i].awaited
  BY <1>1, NothingAwaited DEF LiveInv
<1>3. Leads(script'.todo, 0, 38)
  BY <1>1, MigrationsLead
<1>4. Facts(0, chain', db', config', script'.made)
  BY DEF Facts
<1>5. QED
  BY <1>1, <1>2, <1>3, <1>4, StagePrimed

LEMMA StageMines ==
    ASSUME Inv, LiveInv, Mine, NEW n \in Nat, Stage(n)
    PROVE  Stage(n)'
<1> DEFINE tx == pending[1]
           failed == Reverts(chain, tx)
           m == script.made
<1>1. /\ IF failed THEN UNCHANGED chain ELSE chain' = Apply(chain, tx)
      /\ Grows(chain, chain') /\ 1 \in 1 .. Len(pending)
  BY MinePreserves
<1>2. /\ Head(pending) = tx
      /\ \A i \in 1 .. Len(pending') : \E j \in 1 .. Len(pending) : pending'[i] = pending[j]
  <2>1. /\ pending \in Seq(TxType) /\ pending # << >> /\ pending' = Tail(pending)
    BY DEF Inv, PendingOK, Mine
  <2>2. /\ Head(pending) = pending[1] /\ Len(pending) \in Nat \ {0}
        /\ Len(pending') = Len(pending) - 1
        /\ \A i \in 1 .. Len(pending') : pending'[i] = pending[i + 1]
    BY <2>1, HeadTailProperties, EmptySeq
  <2>3. \A i \in 1 .. Len(pending') : i + 1 \in 1 .. Len(pending)
    BY <2>2
  <2>4. QED
    BY <2>2, <2>3
<1>3. /\ script'.todo = script.todo /\ script'.made = m
      /\ script'.receipt = IF tx.awaited THEN (IF failed THEN "reverted" ELSE "ok")
                           ELSE script.receipt
      /\ UNCHANGED << config, db >>
  BY <1>2 DEF Mine, Inv, ScriptOK
<1>4. ASSUME tx.awaited, ~failed
      PROVE  Outcome(n, chain', db, config, m)
  <2>1. SentAt(n, tx, db, config, m) /\ Facts(n, chain, db, config, m)
    BY <1>1, <1>4 DEF Stage
  <2>2. ChainType(chain) /\ m \in Nat
    BY DEF Inv, ChainOK, ScriptOK
  <2>3. chain' = Apply(chain, tx) /\ ~Reverts(chain, tx)
    BY <1>1, <1>4
  <2> HIDE DEF tx, m
  <2>4. Outcome(n, Apply(chain, tx), db, config, m)
    BY <2>1, <2>2, <2>3, OutcomeMined
  <2>5. QED
    BY <2>3, <2>4
<1>5. script'.receipt = "ok" =>
        script.receipt = "ok" \/ Outcome(n, chain', db, config, script.made)
  BY <1>3, <1>4
<1>6. QED
  BY <1>1, <1>2, <1>3, <1>5, StageStays

LEMMA StageLoses ==
    ASSUME Inv, LiveInv, Lose, NEW n \in Nat, Stage(n)
    PROVE  Stage(n)'
<1>1. /\ script'.todo = script.todo /\ script'.receipt = script.receipt
      /\ script'.made = script.made /\ UNCHANGED << config, db >>
  BY DEF Lose, Inv, ScriptOK
<1>2. Grows(chain, chain')
  BY NothingChanges DEF Lose, LiveInv
<1>3. \A i \in 1 .. Len(pending') : \E j \in 1 .. Len(pending) : pending'[i] = pending[j]
  <2>1. /\ pending \in Seq(TxType) /\ Len(pending) \in Nat \ {0}
        /\ pending' = SubSeq(pending, 1, Len(pending) - 1)
    BY EmptySeq DEF Inv, PendingOK, Lose
  <2> DEFINE l == Len(pending) - 1
  <2>2. l \in 0 .. Len(pending)
    BY <2>1
  <2> HIDE DEF l
  <2>3. /\ Len(SubSeq(pending, 1, l)) = l
        /\ \A i \in 1 .. l : SubSeq(pending, 1, l)[i] = pending[i]
    BY <2>1, <2>2, SubSeqProperties
  <2>4. \A i \in 1 .. l : i \in 1 .. Len(pending)
    BY <2>1, <2>2
  <2>5. pending' = SubSeq(pending, 1, l)
    BY <2>1 DEF l
  <2>6. QED
    BY <2>3, <2>4, <2>5
<1>4. QED
  BY <1>1, <1>2, <1>3, StageStays

LEMMA StageOfStranger ==
    ASSUME Inv, LiveInv, NEW tracker \in DOMAIN chain,
           NEW account \in {Stranger, db["BIBToken"]},
           SetControllerByStranger(tracker, account), NEW n \in Nat, Stage(n)
    PROVE  Stage(n)'
<1> DEFINE args == [NoArgs EXCEPT !.account = account]
           tx == [Tx("setController", tracker, args) EXCEPT !.from = Stranger]
<1>1. tx.op = "setController"
  BY DEF Tx
<1>2. /\ ~Reverts(chain, tx) /\ chain' = Apply(chain, tx)
      /\ UNCHANGED << config, pending, db >>
      /\ script'.todo = script.todo /\ script'.receipt = script.receipt
      /\ script'.made = script.made
  BY DEF SetControllerByStranger, Inv, ScriptOK
<1>3. ChainOK(chain) /\ Linked(chain, config)
  BY DEF Inv, LiveInv
<1> HIDE DEF tx
<1>4. ~SetControllerReverts(chain, tx) /\ chain' = SetController(chain, tx)
  BY <1>1, <1>2 DEF Reverts, Apply
<1>5. Grows(chain, chain')
  BY <1>1, <1>3, <1>4, SetControllerPreserves DEF Preserves
<1>6. QED
  BY <1>2, <1>5, StageStays

LEMMA StageCreates ==
    ASSUME Inv, LiveInv, CreateContract, NEW n \in Nat, Stage(n)
    PROVE  script'.status = "failed" \/ \E k \in Nat : Stage(k)'
<1> DEFINE args == [NoArgs EXCEPT !.kind = Arg, !.account = config.team]
           tx == Tx("create", NextNonce, args)
           step == Head(script.todo)
<1>1. /\ script.todo # << >> /\ [op |-> "create", arg |-> Arg] \in StepType
      /\ Running /\ step.op = "create"
  BY TheStep DEF CreateContract, At, Inv
<1>2. Arg \in Kind
  BY <1>1 DEF StepType, OtherOps
<1>3. NextNonce \in Nat
  BY LenProperties DEF NextNonce, Inv, PendingOK
<1>4. args \in ArgsType /\ args.kind = Arg /\ args.account = config.team
  <2>1. args \in ArgsType
    BY <1>2, ArgsAreTyped, ConfigType DEF Inv
  <2>2. args.kind = Arg /\ args.account = config.team
    BY DEF NoArgs
  <2>3. QED
    BY <2>1, <2>2
<1> HIDE DEF args
<1>5. /\ TxOK(tx) /\ tx.op = "create" /\ tx.args.kind = step.arg
      /\ tx.args.account = config.team
  BY <1>3, <1>4, DeployerAssumption DEF TxOK, TxType, Tx, Arg
<1>6. Send(tx, TRUE) /\ UNCHANGED << config, chain, db >>
  BY DEF CreateContract, args
<1> HIDE DEF tx, step
<1>7. StepIs(step, n) => SentAt(n + 1, tx, db, config, tx.to)
  BY <1>1, <1>5, CreationSentAt
<1>8. QED
  BY <1>1, <1>5, <1>6, <1>7, StageSends DEF step

LEMMA StageCalls ==
    ASSUME Inv, LiveInv, SendCall, NEW n \in Nat, Stage(n)
    PROVE  script'.status = "failed" \/ \E k \in Nat : Stage(k)'
<1> DEFINE step == Head(script.todo)
           tx == CallOf(Arg)
           estimated == Arg \in {"initTracker", "setController", "updateClaimWait"}
<1>1. /\ script.todo # << >> /\ [op |-> "send", arg |-> Arg] \in StepType
      /\ Running /\ step.op = "send" /\ step.arg = Arg
  BY TheStep DEF SendCall, At, Inv, Arg
<1>2. Arg \in CallOps
  BY <1>1 DEF StepType, OtherOps
<1>3. CASE Stop("failed")
  BY <1>3 DEF Stop, Inv, ScriptOK
<1>4. CASE (Arg \in {"initTracker", "initToken"} => config.admin # "") /\ Send(tx, estimated)
  <2>1. TxOK(tx) /\ tx.op = Arg /\ Arg # "create"
    BY <1>2, <1>4, CallsAreTyped DEF CallOps
  <2>2. StepIs(step, n) => SentAt(n + 1, tx, db, config, script.made)
    BY <1>1, <1>2, CallSentAt DEF Stage
  <2>3. UNCHANGED << config, chain, db >> /\ Send(tx, estimated)
    BY <1>4 DEF SendCall
  <2> HIDE DEF tx, estimated, step
  <2>4. QED
    BY <1>1, <2>1, <2>2, <2>3, StageSends DEF step
<1>5. QED
  BY <1>3, <1>4 DEF SendCall

\* Every step keeps the third invariant.
LEMMA NextStage ==
    ASSUME Inv, LiveInv, StageInv, [Next]_vars
    PROVE  StageInv'
<1>1. ASSUME NEW task \in Tasks, NEW verify \in BOOLEAN, Start(task, verify)
      PROVE  StageInv'
  <2>1. script'.task = task
    BY <1>1 DEF Start, NoScript
  <2>2. task \in Migrations => Stage(0)'
    BY <1>1, StageStarts
  <2>3. QED
    BY <2>1, <2>2 DEF StageInv, Migrating
<1>2. ASSUME script'.task = script.task,
             script'.status \in {"running", "done"} => script.status \in {"running", "done"},
             ASSUME NEW n \in Nat, Stage(n)
             PROVE  script'.status \notin {"running", "done"} \/ \E k \in Nat : Stage(k)'
      PROVE  StageInv'
  <2>1. Migrating' => Migrating
    BY <1>2 DEF Migrating
  <2>2. ASSUME Migrating'
        PROVE  \E k \in Nat : Stage(k)'
    <3>1. PICK n \in Nat : Stage(n)
      BY <2>1, <2>2 DEF StageInv
    <3>2. QED
      BY <1>2, <2>2, <3>1 DEF Migrating
  <2>3. QED
    BY <2>2 DEF StageInv
<1>3. Grows(chain, chain)
  BY NothingChanges DEF LiveInv
<1>4. ASSUME Running, script.todo # << >>, Proceed \/ Stop("failed") \/ Stop("exited"),
             Head(script.todo).op \notin {"create", "send"},
             (Head(script.todo).op = "await" /\ Proceed) => script.receipt = "ok",
             UNCHANGED << config, chain, pending >>,
             db' = IF Head(script.todo).op = "register" THEN [db EXCEPT ![Arg] = script.made]
                   ELSE db
      PROVE  StageInv'
  <2>1. script'.task = script.task /\ script.status = "running"
        /\ (~Proceed => script'.status \notin {"running", "done"})
    BY <1>4 DEF Proceed, Stop, Running, Inv, ScriptOK
  <2>2. ASSUME NEW n \in Nat, Stage(n)
        PROVE  script'.status \notin {"running", "done"} \/ \E k \in Nat : Stage(k)'
    <3>1. CASE Proceed
      BY <1>4, <2>2, <3>1, StageProceeds
    <3>2. CASE ~Proceed
      BY <2>1, <3>2
    <3>3. QED
      BY <3>1, <3>2
  <2>3. QED
    BY <1>2, <2>1, <2>2
<1>5. CASE CheckChainId \/ CheckAdmin \/ ReadDb \/ CheckVerification \/ VerifyThrows
  BY <1>4, <1>5 DEF CheckChainId, CheckAdmin, ReadDb, CheckVerification, VerifyThrows,
                    ProceedIf, At
<1>6. CASE registerContractInJsonDb
  BY <1>4, <1>6 DEF registerContractInJsonDb, At
<1>7. CASE waitForTx
  <2>1. Stop("failed") => script'.status = "failed"
    BY DEF Stop, Inv, ScriptOK
  <2>2. /\ Running /\ script.todo # << >> /\ Head(script.todo).op = "await"
        /\ \/ script.receipt = "ok" /\ Proceed
           \/ script.receipt # "ok" /\ Stop("failed")
        /\ UNCHANGED << config, chain, pending, db >>
    BY <1>7 DEF waitForTx, ProceedIf, At
  <2>3. script.receipt # "ok" => ~Proceed
    <3>1. Proceed => script'.status = script.status
      BY DEF Proceed, Inv, ScriptOK
    <3>2. QED
      BY <2>1, <2>2, <3>1 DEF Running
  <2>4. QED
    BY <1>4, <2>2, <2>3
<1>8. ASSUME script'.task = script.task, script'.todo = script.todo,
             script'.made = script.made, script'.receipt = script.receipt,
             script'.status \in {"running", "done"} => script.status \in {"running", "done"},
             UNCHANGED << config, chain, pending, db >>
      PROVE  StageInv'
  <2>1. ASSUME NEW n \in Nat, Stage(n)
        PROVE  Stage(n)'
    BY <1>3, <1>8, <2>1, StageStays
  <2>2. QED
    BY <1>2, <1>8, <2>1
<1>9. CASE runTaskWithRetry
  <2>1. CASE Proceed
    BY <1>4, <1>9, <2>1 DEF runTaskWithRetry, At
  <2>2. CASE script' = [script EXCEPT !.tries = @ + 1]
    BY <1>8, <1>9, <2>2 DEF runTaskWithRetry, Inv, ScriptOK
  <2>3. QED
    BY <1>9, <2>1, <2>2 DEF runTaskWithRetry
<1>10. CASE Finish
  BY <1>8, <1>10 DEF Finish, Running, Inv, ScriptOK
<1>11. CASE CreateContract
  <2>1. script'.task = script.task /\ script.status = "running"
    BY <1>11 DEF CreateContract, At, Running, Send, Stop, Inv, ScriptOK
  <2>2. ASSUME NEW n \in Nat, Stage(n)
        PROVE  script'.status \notin {"running", "done"} \/ \E k \in Nat : Stage(k)'
    BY <1>11, <2>2, StageCreates
  <2>3. QED
    BY <1>2, <2>1, <2>2
<1>12. CASE SendCall
  <2>1. script'.task = script.task /\ script.status = "running"
    BY <1>12 DEF SendCall, At, Running, Send, Stop, Inv, ScriptOK
  <2>2. ASSUME NEW n \in Nat, Stage(n)
        PROVE  script'.status \notin {"running", "done"} \/ \E k \in Nat : Stage(k)'
    BY <1>12, <2>2, StageCalls
  <2>3. QED
    BY <1>2, <2>1, <2>2
<1>13. CASE Mine
  <2>1. script'.task = script.task /\ script'.status = script.status
    BY <1>13 DEF Mine, Inv, ScriptOK
  <2>2. ASSUME NEW n \in Nat, Stage(n)
        PROVE  Stage(n)'
    BY <1>13, <2>2, StageMines
  <2>3. QED
    BY <1>2, <2>1, <2>2
<1>14. CASE Kill
  <2>1. script'.status = "killed"
    BY <1>14 DEF Kill, Inv, ScriptOK
  <2>2. QED
    BY <2>1 DEF StageInv, Migrating
<1>15. CASE Lose
  <2>1. script'.task = script.task /\ script'.status = script.status
    BY <1>15 DEF Lose, Inv, ScriptOK
  <2>2. ASSUME NEW n \in Nat, Stage(n)
        PROVE  Stage(n)'
    BY <1>15, <2>2, StageLoses
  <2>3. QED
    BY <1>2, <2>1, <2>2
<1>16. ASSUME NEW tracker \in DOMAIN chain, NEW account \in {Stranger, db["BIBToken"]},
              SetControllerByStranger(tracker, account)
       PROVE  StageInv'
  <2>1. script'.task = script.task /\ script'.status = script.status
    BY <1>16 DEF SetControllerByStranger, Inv, ScriptOK
  <2>2. ASSUME NEW n \in Nat, Stage(n)
        PROVE  Stage(n)'
    BY <1>16, <2>2, StageOfStranger
  <2>3. QED
    BY <1>2, <2>1, <2>2
<1>17. CASE UNCHANGED vars
  BY <1>8, <1>17 DEF vars
<1>18. QED
  BY <1>1, <1>5, <1>6, <1>7, <1>9, <1>10, <1>11, <1>12, <1>13, <1>14, <1>15, <1>16, <1>17
     DEF Next, ScriptStep

LEMMA StageInvHolds == Spec => [](Inv /\ LiveInv /\ StageInv)
<1>1. Init => StageInv
  <2>1. NoScript.status = "idle" /\ (Init => script = NoScript)
    BY DEF Init, NoScript
  <2>2. QED
    BY <2>1 DEF StageInv, Migrating
<1>2. Inv /\ LiveInv /\ StageInv /\ [Next]_vars => StageInv'
  BY NextStage
<1>3. QED
  BY LiveInvHolds, <1>1, <1>2, PTL DEF Spec

\* A migration that reports success has deployed and initialized everything
\* under the names in the file, whatever earlier runs left in it and on the
\* chain (deployment.ts:31-44).
THEOREM FinishedMigrations == Spec => []FinishedMeansDeployed
<1>1. Inv /\ LiveInv /\ StageInv => FinishedMeansDeployed
  <2> SUFFICES ASSUME Inv, LiveInv, StageInv,
                      script.status = "done", script.task \in Migrations
               PROVE  LET t == db["BIBToken"]
                          k == db["TokenDividendTracker"]
                          v == db["TeamVesting"]
                      IN  /\ {t, k, v} \subseteq DOMAIN chain
                          /\ Code(chain, t) = "BIBToken" /\ chain[t].impl = db["BIBTokenImpl"]
                          /\ Code(chain, k) = "TokenDividendTracker"
                          /\ chain[k].impl = db["TokenDividendTrackerImpl"]
                          /\ chain[t].tracker = k /\ chain[k].cntr = t
                          /\ chain[k].claimWait = ClaimWait
                          /\ Live(chain, t) /\ chain[t].allow
                          /\ chain[t].wallets = << v >> \o config.vaults
                          /\ chain[v].kind = "VestingToken"
                          /\ chain[v].beneficiary = config.team
    BY DEF FinishedMeansDeployed
  <2> DEFINE t == db["BIBToken"]
             k == db["TokenDividendTracker"]
             v == db["TeamVesting"]
             w == << v >> \o config.vaults
  <2>1. PICK n \in Nat : Stage(n)
    BY DEF StageInv, Migrating
  <2>2. n = 38
    <3>1. script.todo = << >>
      BY DEF LiveInv, OrderOK, Running
    <3>2. QED
      BY <2>1, <3>1, EmptyLeads DEF Stage
  <2>3. Facts(38, chain, db, config, script.made)
    BY <2>1, <2>2 DEF Stage
  <2>4. /\ KindIs(chain, db["BIBTokenImpl"], "BIBToken") /\ KindIs(chain, t, "Proxy")
        /\ KindIs(chain, db["TokenDividendTrackerImpl"], "TokenDividendTracker")
        /\ KindIs(chain, k, "Proxy") /\ PaysTheTeam(chain, v, config)
        /\ chain[k].impl = db["TokenDividendTrackerImpl"] /\ chain[k].cntr = t
        /\ chain[k].claimWait = ClaimWait
        /\ chain[t].tracker = k /\ chain[t].impl = db["BIBTokenImpl"]
        /\ chain[t].wallets = w /\ chain[t].allow /\ chain[t].reserve = 0
    BY <2>3 DEF Facts
  <2>5. w # << >>
    <3>1. config \in Configs /\ v \in Nat
      BY DEF Inv, eContractid
    <3>2. QED
      BY <3>1, SomeWallets
  <2> HIDE DEF w
  <2>6. Live(chain, t)
    BY <2>4, <2>5 DEF Live
  <2>7. Code(chain, t) = "BIBToken" /\ Code(chain, k) = "TokenDividendTracker"
    BY <2>4 DEF Code, IsContract, KindIs
  <2>8. QED
    BY <2>4, <2>6, <2>7 DEF KindIs, PaysTheTeam, w
<1>2. QED
  BY StageInvHolds, <1>1, PTL
=============================================================================
