----------------------------- MODULE Maintenance -----------------------------
(***************************************************************************)
(* The maintenance tasks of tasks/helpers, on a deployed token and tracker: *)
(* migrate-owner-and-admin, run-exclude and enable-dividend.  They read    *)
(* the chain, ask the operator, and send transactions for what is not yet  *)
(* as it should be; between any two of these steps a task may be killed,   *)
(* transactions are mined, and the owner or the administrator may act from *)
(* elsewhere.                                                              *)
(***************************************************************************)
EXTENDS Integers, Sequences, FiniteSets, UpgradeabilityProxy

CONSTANTS Deployer,     \* the first signer, at first the owner of both contracts
          Admin,        \* at first the administrator of both proxies
          Account,      \* accounts an operator may name
          Envs,         \* where a task runs: network, ADMIN, the file of names
          JobLists,     \* the tasks that are started, as sequences of jobs
          ConsoleCalls, \* what is sent from elsewhere
          MaxRuns, MaxEvents    \* bounds: tasks, tasks and disturbances together

ASSUME AccountAssumption == {Deployer, Admin} \subseteq Account /\ Deployer # Admin

\* The key in the environment, if there is one, is that of an account.
ASSUME EnvsAssumption == \A e \in Envs : e.adminKey \in Account \cup {""}

VARIABLES env,      \* constant
          proxy,    \* the two proxies, each with the owner of the contract behind it
          flags,    \* the lists, and the two switches of the token
          mempool,  \* transactions sent and not yet mined
          mined,    \* how many transactions of an account are mined
          reverted, \* those of them that reverted
          script,   \* the running task, or the last one
          spent     \* how many tasks, and how many disturbances

vars == << env, proxy, flags, mempool, mined, reverted, script, spent >>

listOfContracts == << "BIBToken", "TokenDividendTracker" >>
Contracts == {"BIBToken", "TokenDividendTracker"}

Lists == << "isFromWhiteList", "isToWhiteList", "excludedFromDividends", "noProcessList" >>
Switches == << "swapEnabled", "gasForProcessing" >>    \* the gas is zero or not

----------------------------------------------------------------------------
(* Transactions: a call of `op`, the name of a function or of the list or  *)
(* switch it sets, on a contract.                                          *)

Ops == {"changeAdmin", "upgradeTo", "transferOwnership"}
         \cup {Lists[i] : i \in 1 .. 4} \cup {Switches[i] : i \in 1 .. 2}

\* A call that can be encoded: what is about an account names one.
IsCall(call) ==
    /\ call.op \in Ops /\ call.to \in Contracts
    /\ call.op \in {"changeAdmin", "transferOwnership"} \cup {Lists[i] : i \in 1 .. 4}
         => call.arg \in Account

ASSUME ConsoleAssumption == \A call \in ConsoleCalls : IsCall(call)

Call(op, to, arg, value) == [op |-> op, to |-> to, arg |-> arg, value |-> value]

Setter(item, arg, value) ==
    Call(item, IF item = "excludedFromDividends" THEN "TokenDividendTracker" ELSE "BIBToken",
         arg, value)

\* Whether a list has the account, or a switch is on.
Value(item, arg) ==
    IF item \in {Switches[i] : i \in 1 .. 2} THEN flags[item] ELSE arg \in flags[item]

CanRead(name, sender) == WillFallback(proxy[name], sender)

\* Lists and gas refuse the value they have; an exclusion is never taken back.
SetterReverts(call) == call.op # "swapEnabled" /\ Value(call.op, call.arg) = call.value

\* A call that takes an account out of a list.
TakesOut(call) == call.op \in {Lists[i] : i \in 1 .. 4} /\ ~call.value

CallReverts(sender, call) ==
    CASE call.op = "changeAdmin" -> ChangeAdminReverts(proxy[call.to], sender, call.arg)
      [] call.op = "upgradeTo"   -> UpgradeToReverts(proxy[call.to], sender, TRUE)
      [] OTHER -> \/ ~WillFallback(proxy[call.to], sender)
                  \/ proxy[call.to].owner # sender
                  \/ call.op # "transferOwnership" /\ SetterReverts(call)

ProxyAfter(call) ==
    CASE call.op = "changeAdmin" ->
           [proxy EXCEPT ![call.to] = ChangeAdmin(@, call.arg)]
      [] call.op = "upgradeTo" -> [proxy EXCEPT ![call.to] = UpgradeTo(@, "new")]
      [] call.op = "transferOwnership" -> [proxy EXCEPT ![call.to].owner = call.arg]
      [] OTHER -> proxy

FlagsAfter(call) ==
    IF call.op \notin DOMAIN flags THEN flags
    ELSE [flags EXCEPT ![call.op] =
            IF call.op \in {Switches[i] : i \in 1 .. 2} THEN call.value
            ELSE IF call.value THEN @ \cup {call.arg} ELSE @ \ {call.arg}]

\* The nonce of a transaction sent without one.
PendingCount(sender) == mined[sender] + Cardinality({tx \in mempool : tx.from = sender})

\* The node takes no transaction whose nonce is used, or pending.
NonceTaken(sender, nonce) ==
    nonce < mined[sender] \/ \E tx \in mempool : tx.from = sender /\ tx.nonce = nonce

Submit(sender, nonce, call) ==
    mempool' = mempool \cup {[from |-> sender, nonce |-> nonce, call |-> call]}

Mine(tx) ==
    /\ tx.nonce = mined[tx.from]
    /\ IF CallReverts(tx.from, tx.call)
       THEN reverted' = reverted \cup {<< tx.from, tx.nonce >>} /\ UNCHANGED << proxy, flags >>
       ELSE /\ proxy' = ProxyAfter(tx.call) /\ flags' = FlagsAfter(tx.call)
            /\ UNCHANGED reverted
    /\ mempool' = mempool \ {tx}
    /\ mined' = [mined EXCEPT ![tx.from] = @ + 1]
    /\ UNCHANGED << env, script, spent >>

----------------------------------------------------------------------------
(* Tasks.  migrate-owner-and-admin is up to two jobs, the others are one.  *)
(* Ghosts: what was reported as a success; whether anything else was going *)
(* on; and the accounts that a transaction takes out of a list which was   *)
(* pending when the task started, or was sent since.                       *)

Moving    == {"change-admin-address", "transfer-ownership"}
Excluding == {"run-exclude"}
Switching == {"enable", "disable"}      \* enable-dividend with and without its flag

\* The tasks there are: migrate-owner-and-admin runs both of its jobs in this
\* order, or skips one.
ASSUME JobsAssumption ==
    JobLists \subseteq {<< "change-admin-address", "transfer-ownership" >>}
                         \cup {<< job >> : job \in Moving \cup Excluding \cup Switching}

\* A mutant: only the swap is switched.
ItemsWithoutGas(job) == IF job \in Excluding THEN Lists ELSE << "swapEnabled" >>

Items(job) == IF job \in Excluding THEN Lists ELSE Switches

Wanted(job) == job # "disable"

NoScript == [jobs |-> << >>, job |-> "", pc |-> "", status |-> "idle", i |-> 1, input |-> "",
             list |-> << >>, sent |-> << >>, txCount |-> 0,
             report |-> {}, alone |-> TRUE, takenOut |-> {}]

Running == script.status = "running"

At(jobs, pc) == Running /\ script.job \in jobs /\ script.pc = pc

Goto(pc) == script' = [script EXCEPT !.pc = pc, !.i = 1]

Stop(status) == script' = [script EXCEPT !.status = status]

\* The file, the names in it and the prompts come first.
FirstPc(job) == IF job \in Switching THEN "check" ELSE "ask"

EndJob(reports) ==
    script' = [script EXCEPT !.report = @ \cup reports,
                 !.status = IF script.jobs = << >> THEN "done" ELSE "running",
                 !.jobs = IF @ = << >> THEN @ ELSE Tail(@),
                 !.job = IF script.jobs = << >> THEN @ ELSE Head(script.jobs),
                 !.pc = "ask", !.i = 1, !.list = << >>, !.sent = << >>]

Init ==
    /\ env \in Envs
    /\ proxy = [name \in Contracts |-> [impl |-> "old", admin |-> Admin, owner |-> Deployer]]
    /\ flags = [isFromWhiteList |-> {}, isToWhiteList |-> {}, excludedFromDividends |-> {},
                noProcessList |-> {}, swapEnabled |-> TRUE, gasForProcessing |-> TRUE]
    /\ mempool = {} /\ mined = [a \in Account |-> 0] /\ reverted = {}
    /\ script = NoScript
    /\ spent = [runs |-> 0, disturbances |-> 0]

MayHappen == spent.runs + spent.disturbances < MaxEvents

PendingRemovals == {tx.call.arg : tx \in {t \in mempool : TakesOut(t.call)}}

Start(jobs) ==
    /\ ~Running /\ spent.runs < MaxRuns /\ MayHappen
    /\ script' = [NoScript EXCEPT !.jobs = Tail(jobs), !.job = Head(jobs), !.pc = FirstPc(Head(jobs)),
                    !.status = IF Head(jobs) \notin Moving /\ ~env.chainId
                               THEN "failed" ELSE "running",
                    !.alone = mempool = {}, !.takenOut = PendingRemovals]
    /\ spent' = [spent EXCEPT !.runs = @ + 1]
    /\ UNCHANGED << env, proxy, flags, mempool, mined, reverted >>

----------------------------------------------------------------------------
(* migrate-owner-and-admin.                                                *)

Sender == IF script.job = "change-admin-address" THEN env.adminKey ELSE Deployer

\* The process exits without an answer, a file of names or a key.
AskNew(input) ==
    /\ At(Moving, "ask")
    /\ IF input = "" \/ ~env.file \/ Sender = ""
       THEN Stop("exited")
       ELSE script' = [script EXCEPT !.pc = "list", !.i = 1, !.input = input]
    /\ UNCHANGED << env, proxy, flags, mempool, mined, reverted, spent >>

\* One contract after the other is looked up.  Ownership is only transferred
\* of those the deployer owns; all proxies are to get the new administrator.
Listed(job, name) ==
    job = "transfer-ownership" => proxy[name].owner = Deployer

ListNext ==
    /\ At(Moving, "list")
    /\ LET name == listOfContracts[script.i]
       IN  IF script.job = "transfer-ownership" /\ ~CanRead(name, Deployer)
           THEN Stop("failed")
           ELSE script' = [script EXCEPT
                             !.list = IF Listed(script.job, name) THEN Append(@, name) ELSE @,
                             !.i = @ + 1,
                             !.pc = IF script.i = 2 THEN "confirm" ELSE @]
    /\ UNCHANGED << env, proxy, flags, mempool, mined, reverted, spent >>

\* On bsc the operator is asked (once more); what counts is "yes", also where
\* the prompt asks for "I yes".  A job that is cancelled just returns.
Confirmed(job, answers) ==
    /\ job = "transfer-ownership" => answers[1] = "yes"
    /\ env.network = "bsc" => answers[2] = "yes"

Confirm(answers) ==
    /\ At(Moving, "confirm")
    /\ IF Confirmed(script.job, answers) THEN Goto("nonce") ELSE EndJob({})
    /\ UNCHANGED << env, proxy, flags, mempool, mined, reverted, spent >>

\* A mutant: the count of the transaction after the next.
GetNonceOffByOne ==
    /\ At(Moving, "nonce")
    /\ script' = [script EXCEPT !.pc = IF script.list = << >> THEN "wait" ELSE "send", !.i = 1,
                                !.txCount = mined[Sender] + 1]
    /\ UNCHANGED << env, proxy, flags, mempool, mined, reverted, spent >>

\* getTransactionCount counts what is mined.
GetNonce ==
    /\ At(Moving, "nonce")
    /\ script' = [script EXCEPT !.pc = IF script.list = << >> THEN "wait" ELSE "send", !.i = 1,
                                !.txCount = mined[Sender]]
    /\ UNCHANGED << env, proxy, flags, mempool, mined, reverted, spent >>

MoveCall(name) ==
    Call(IF script.job = "change-admin-address" THEN "changeAdmin" ELSE "transferOwnership",
         name, script.input, TRUE)

\* All are sent, then all are awaited.  Sending fails if the call would
\* revert now, or if its nonce is not free any more.
SendNext ==
    /\ At(Moving, "send")
    /\ LET call == MoveCall(script.list[script.i])
           last == script.i = Len(script.list)
       IN  IF \/ script.input \notin Account
              \/ CallReverts(Sender, call) \/ NonceTaken(Sender, script.txCount)
           THEN Stop("failed") /\ UNCHANGED mempool
           ELSE /\ Submit(Sender, script.txCount, call)
                /\ script' = [script EXCEPT !.sent = Append(@, script.txCount),
                                !.txCount = @ + 1, !.i = IF last THEN 1 ELSE @ + 1,
                                !.pc = IF last THEN "wait" ELSE @]
    /\ UNCHANGED << env, proxy, flags, mined, reverted, spent >>

Success == EndJob({[job |-> script.job, input |-> script.input,
                    moved |-> {script.list[n] : n \in DOMAIN script.list}]})

\* A mutant: success is reported without a look at the receipts.
WaitNextForNothing ==
    /\ At(Moving, "wait")
    /\ Success
    /\ UNCHANGED << env, proxy, flags, mempool, mined, reverted, spent >>

WaitNext ==
    /\ At(Moving, "wait")
    /\ IF script.i > Len(script.sent)
       THEN IF script.job = "transfer-ownership" THEN Goto("owners") ELSE Success
       ELSE /\ mined[Sender] > script.sent[script.i]
            /\ IF << Sender, script.sent[script.i] >> \in reverted
               THEN Stop("failed")
               ELSE script' = [script EXCEPT !.i = @ + 1]
    /\ UNCHANGED << env, proxy, flags, mempool, mined, reverted, spent >>

\* The new owners are read, and printed, before the success is; an
\* administrator cannot read them.
ReadOwnerNext ==
    /\ At({"transfer-ownership"}, "owners")
    /\ IF script.i > Len(script.list) THEN Success
       ELSE IF CanRead(script.list[script.i], Deployer)
            THEN script' = [script EXCEPT !.i = @ + 1] ELSE Stop("failed")
    /\ UNCHANGED << env, proxy, flags, mempool, mined, reverted, spent >>

----------------------------------------------------------------------------
(* run-exclude and enable-dividend: for each list or switch, look whether  *)
(* it is as wanted, and set it if not.  run-exclude awaits each of its     *)
(* transactions, enable-dividend none.                                     *)

\* An empty answer is asked again; any other leaves the loop, and an invalid
\* address fails when it is first used.
AskAddress(input) ==
    /\ At(Excluding, "ask")
    /\ script' = IF input = "" THEN script
                 ELSE [script EXCEPT !.pc = "check", !.i = 1, !.input = input]
    /\ UNCHANGED << env, proxy, flags, mempool, mined, reverted, spent >>

Item == Items(script.job)[script.i]

ItemCall == Setter(Item, script.input, Wanted(script.job))

NextItem(s) ==
    IF s.i = Len(Items(s.job))
    THEN [s EXCEPT !.status = "done", !.report = {[job |-> s.job, input |-> s.input, moved |-> {}]}]
    ELSE [s EXCEPT !.pc = "check", !.i = @ + 1]

\* A mutant: the answer is not looked at.
CheckUnvalidated ==
    /\ At(Excluding \cup Switching, "check")
    /\ IF ~env.file \/ ~CanRead(ItemCall.to, Deployer)
       THEN Stop("failed")
       ELSE script' = IF Value(Item, script.input) = Wanted(script.job)
                      THEN NextItem(script) ELSE [script EXCEPT !.pc = "set"]
    /\ UNCHANGED << env, proxy, flags, mempool, mined, reverted, spent >>

Check ==
    /\ At(Excluding \cup Switching, "check")
    /\ IF ~env.file \/ ~CanRead(ItemCall.to, Deployer)
            \/ (script.job \in Excluding /\ script.input \notin Account)
       THEN Stop("failed")
       ELSE script' = IF Value(Item, script.input) = Wanted(script.job)
                      THEN NextItem(script) ELSE [script EXCEPT !.pc = "set"]
    /\ UNCHANGED << env, proxy, flags, mempool, mined, reverted, spent >>

Set ==
    /\ At(Excluding \cup Switching, "set")
    /\ IF CallReverts(Deployer, ItemCall)
       THEN Stop("failed") /\ UNCHANGED mempool
       ELSE /\ Submit(Deployer, PendingCount(Deployer), ItemCall)
            /\ script' = IF script.job \in Excluding
                         THEN [script EXCEPT !.pc = "await", !.sent = << PendingCount(Deployer) >>]
                         ELSE NextItem(script)
    /\ UNCHANGED << env, proxy, flags, mined, reverted, spent >>

\* A mutant: whether the transaction has reverted is not looked at.
AwaitUnchecked ==
    /\ At(Excluding, "await")
    /\ mined[Deployer] > script.sent[1]
    /\ script' = NextItem(script)
    /\ UNCHANGED << env, proxy, flags, mempool, mined, reverted, spent >>

Await ==
    /\ At(Excluding, "await")
    /\ mined[Deployer] > script.sent[1]
    /\ IF << Deployer, script.sent[1] >> \in reverted
       THEN Stop("failed") ELSE script' = NextItem(script)
    /\ UNCHANGED << env, proxy, flags, mempool, mined, reverted, spent >>

----------------------------------------------------------------------------

Kill ==
    /\ Running /\ MayHappen
    /\ Stop("killed")
    /\ spent' = [spent EXCEPT !.disturbances = @ + 1]
    /\ UNCHANGED << env, proxy, flags, mempool, mined, reverted >>

\* The owner or the administrator sends a transaction from elsewhere.
Console(sender, call) ==
    /\ MayHappen
    /\ ~CallReverts(sender, call)
    /\ Submit(sender, PendingCount(sender), call)
    /\ script' = [script EXCEPT !.alone = FALSE,
                    !.takenOut = IF TakesOut(call) THEN @ \cup {call.arg} ELSE @]
    /\ spent' = [spent EXCEPT !.disturbances = @ + 1]
    /\ UNCHANGED << env, proxy, flags, mined, reverted >>

Inputs == Account \cup {"", "invalid"}

Answers == [1 .. 2 -> {"yes", "I yes"}]

ScriptStep ==
    \/ \E input \in Inputs : AskNew(input) \/ AskAddress(input)
    \/ \E answers \in Answers : Confirm(answers)
    \/ ListNext \/ GetNonce \/ SendNext \/ WaitNext \/ ReadOwnerNext
    \/ Check \/ Set \/ Await

Next ==
    \/ \E jobs \in JobLists : Start(jobs)
    \/ ScriptStep
    \/ \E tx \in mempool : Mine(tx)
    \/ Kill
    \/ \E sender \in {Deployer, Admin} : \E call \in ConsoleCalls : Console(sender, call)

\* A task goes on, its operator answers, and what can be mined is mined.
Spec == /\ Init /\ [][Next]_vars
        /\ WF_vars(ScriptStep)
        /\ WF_vars(\E tx \in mempool : Mine(tx))

----------------------------------------------------------------------------
(* Properties.                                                             *)

TypeOK ==
    /\ \A name \in Contracts : proxy[name].admin \in Account /\ proxy[name].owner \in Account
    /\ \A i \in 1 .. 4 : flags[Lists[i]] \subseteq Account
    /\ \A tx \in mempool : tx.from \in Account /\ tx.nonce \in Nat
    /\ mined \in [Account -> Nat]
    /\ script.status \in {"idle", "running", "done", "failed", "exited", "killed"}

\* The nonces of an account's pending transactions are those that come next,
\* each once: whatever scripts with nonces of their own, killed scripts and
\* consoles send, nothing is stuck behind a gap
\* (transfer-ownership-and-change-admin.ts:141-155).
NothingIsStuck ==
    \A a \in Account :
        {tx.nonce : tx \in {t \in mempool : t.from = a}}
          = mined[a] .. PendingCount(a) - 1

\* When a transfer of ownership is reported successful, the contracts it
\* listed have the new owner, and none is left with the deployer, also if
\* earlier runs were killed in the middle
\* (transfer-ownership-and-change-admin.ts:99-180).
TransferredIsTrue ==
    \A r \in script.report : r.job = "transfer-ownership" =>
        /\ \A name \in r.moved : proxy[name].owner = r.input
        /\ r.input # Deployer => \A name \in Contracts : proxy[name].owner # Deployer

\* When a change of administrators is reported successful, both proxies have
\* the new one, whatever the old one did from elsewhere meanwhile
\* (transfer-ownership-and-change-admin.ts:257-285).  A new administrator who
\* acts from elsewhere may have passed them on already.
AdminChangedIsTrue ==
    \A r \in script.report :
        (r.job = "change-admin-address" /\ r.input \notin {Deployer, Admin}) =>
            \A name \in Contracts : proxy[name].admin = r.input

\* When run-exclude is done, its address is in all four lists, whatever else
\* was pending when it started or was sent between its look at a list and its
\* own transaction: additions by somebody else or by an earlier run, changes of
\* owner or administrator.  Excepted is an address that a transaction takes out
\* of a list which was pending at the start or was sent since
\* (exclude-addresses.ts:36-69).
ExcludedIsTrue ==
    script.status = "done" =>
        \A r \in script.report :
            r.job \in Excluding /\ r.input \notin script.takenOut =>
                \A i \in 1 .. 4 : r.input \in flags[Lists[i]]

\* enable-dividend does not wait for its transactions.  Once they are mined
\* both switches are as it was told, if nothing was pending when it started
\* and nothing else was sent (enable-dividend.ts:26-59).
SwitchedWhenSettled ==
    (script.alone /\ script.status = "done" /\ mempool = {}) =>
        \A r \in script.report : r.job \in Switching =>
            \A i \in 1 .. 2 : flags[Switches[i]] = Wanted(r.job)

\* Listed for a change of administrators is only what the key in the environment
\* administers, so that a change that stopped after the first proxy is completed
\* by running the task again: the comment at
\* transfer-ownership-and-change-admin.ts:218.
ListingStep ==
    \A name \in Contracts :
        /\ At({"change-admin-address"}, "list")
        /\ script'.list = Append(script.list, name)
        => proxy[name].admin = env.adminKey

OnlyAdministeredAreListed == [][ListingStep]_vars

\* Every task comes to an end: no awaited transaction stays unmined.
TasksEnd == Running ~> ~Running
=============================================================================
