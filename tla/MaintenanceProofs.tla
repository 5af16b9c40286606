-------------------------- MODULE MaintenanceProofs ---------------------------
(***************************************************************************)
(* The maintenance tasks, for any accounts, environments, tasks and calls  *)
(* from elsewhere, and any number of kills and reruns: types, that no      *)
(* transaction is stuck behind a gap of nonces, and that what a task       *)
(* reports as done is done.                                                *)
(***************************************************************************)
EXTENDS Maintenance, FiniteSetTheorems, SequenceTheorems, TLAPS

(***************************************************************************)
(* The inductive invariant.                                                *)
(***************************************************************************)

ListNames == {"isFromWhiteList", "isToWhiteList", "excludedFromDividends", "noProcessList"}

FlagsOK(f) ==
    /\ DOMAIN f = ListNames \cup {"swapEnabled", "gasForProcessing"}
    /\ \A l \in ListNames : f[l] \in SUBSET Account

ProxyOK(p) ==
    p \in [Contracts -> [impl : {"old", "new"}, admin : Account, owner : Account]]

\* The transactions of an account have the nonces that come next, each once.
Of(pool, a) == {t \in pool : t.from = a}

TxOK(tx) == tx.from \in Account /\ tx.nonce \in Nat /\ IsCall(tx.call)

PoolOK(pool, done) ==
    /\ IsFiniteSet(pool)
    /\ \A tx \in pool : TxOK(tx)
    /\ \A s, t \in pool : s.from = t.from /\ s.nonce = t.nonce => s = t
    /\ \A a \in Account :
          {t.nonce : t \in Of(pool, a)} = done[a] .. done[a] + Cardinality(Of(pool, a)) - 1

\* Where a task is, and what it may send there.  The count it gives its next
\* transaction is never beyond the next nonce that is free.
PlaceOK ==
    /\ script.job \in Moving /\ script.pc \in {"list", "confirm", "nonce", "send", "wait", "owners"}
         => Sender \in Account
    /\ script.job \in Moving /\ script.pc = "list" => script.i \in 1 .. 2
    /\ script.job \in Moving /\ script.pc = "send" =>
         /\ script.i \in 1 .. Len(script.list)
         /\ script.txCount \in Nat /\ script.txCount <= PendingCount(Sender)
    /\ script.job \in Excluding \cup Switching /\ script.pc \in {"check", "set", "await"}
         => script.i \in 1 .. Len(Items(script.job))
    /\ script.job \in Excluding /\ script.pc = "set" => script.input \in Account

ScriptType ==
    /\ script = [jobs |-> script.jobs, job |-> script.job, pc |-> script.pc,
                 status |-> script.status, i |-> script.i, input |-> script.input,
                 list |-> script.list, sent |-> script.sent, txCount |-> script.txCount,
                 report |-> script.report, alone |-> script.alone,
                 takenOut |-> script.takenOut]
    /\ script.status \in {"idle", "running", "done", "failed", "exited", "killed"}
    /\ script.list \in Seq(Contracts)

ScriptOK == ScriptType /\ (Running => PlaceOK)

Inv == /\ env \in Envs
       /\ ProxyOK(proxy)
       /\ FlagsOK(flags)
       /\ mined \in [Account -> Nat]
       /\ PoolOK(mempool, mined)
       /\ ScriptOK

(***************************************************************************)
(* The transaction pool.                                                   *)
(***************************************************************************)

LEMMA OfIsFinite ==
    ASSUME NEW pool, IsFiniteSet(pool), NEW a
    PROVE  IsFiniteSet(Of(pool, a)) /\ Cardinality(Of(pool, a)) \in Nat
<1>1. Of(pool, a) \subseteq pool
  BY DEF Of
<1>2. QED
  BY <1>1, FS_Subset, FS_CardinalityType

\* The next free nonce is in no pending transaction, and using it leaves no gap.
LEMMA SendingKeeps ==
    ASSUME NEW pool, NEW done \in [Account -> Nat], PoolOK(pool, done),
           NEW tx, TxOK(tx), tx.nonce = done[tx.from] + Cardinality(Of(pool, tx.from)),
           NEW more, more = pool \cup {tx}
    PROVE  /\ PoolOK(more, done)
           /\ \A a \in Account : Cardinality(Of(pool, a)) <= Cardinality(Of(more, a))
           /\ Cardinality(Of(more, tx.from)) = Cardinality(Of(pool, tx.from)) + 1
<1> DEFINE a == tx.from
           n == Cardinality(Of(pool, a))
<1>1. a \in Account /\ tx.nonce \in Nat /\ done[a] \in Nat
  BY DEF TxOK
<1>2. \A b \in Account : IsFiniteSet(Of(pool, b)) /\ Cardinality(Of(pool, b)) \in Nat
  BY OfIsFinite DEF PoolOK
<1>3. {t.nonce : t \in Of(pool, a)} = done[a] .. done[a] + n - 1
  BY <1>1 DEF PoolOK
<1>4. \A t \in Of(pool, a) : t.nonce # tx.nonce
  <2>1. tx.nonce \notin done[a] .. done[a] + n - 1
    BY <1>1, <1>2
  <2>2. QED
    BY <2>1, <1>3
<1>5. tx \notin pool
  BY <1>4 DEF Of
<1>6. Of(more, a) = Of(pool, a) \cup {tx}
  BY DEF Of
<1>7. \A b \in Account : b # a => Of(more, b) = Of(pool, b)
  BY DEF Of
<1>8. Cardinality(Of(more, a)) = n + 1
  <2>1. tx \notin Of(pool, a)
    BY <1>5 DEF Of
  <2>2. QED
    BY <1>1, <1>2, <1>6, <2>1, FS_AddElement
<1>9. IsFiniteSet(more)
  BY FS_AddElement DEF PoolOK
<1>10. \A t \in more : TxOK(t)
  BY DEF PoolOK
<1>11. \A s, t \in more : s.from = t.from /\ s.nonce = t.nonce => s = t
  <2>1. \A s \in pool : s.from = a => s.nonce # tx.nonce
    BY <1>4 DEF Of
  <2>2. QED
    BY <2>1 DEF PoolOK
<1>12. \A b \in Account :
         {t.nonce : t \in Of(more, b)} = done[b] .. done[b] + Cardinality(Of(more, b)) - 1
  <2> SUFFICES ASSUME NEW b \in Account
               PROVE  {t.nonce : t \in Of(more, b)}
                        = done[b] .. done[b] + Cardinality(Of(more, b)) - 1
    OBVIOUS
  <2>1. CASE b # a
    BY <2>1, <1>7 DEF PoolOK
  <2>2. CASE b = a
    <3>1. {t.nonce : t \in Of(more, a)} = {t.nonce : t \in Of(pool, a)} \cup {tx.nonce}
      BY <1>6
    <3>2. done[a] .. done[a] + (n + 1) - 1 = (done[a] .. done[a] + n - 1) \cup {done[a] + n}
      BY <1>1, <1>2
    <3>3. QED
      BY <2>2, <3>1, <3>2, <1>3, <1>8
  <2>3. QED
    BY <2>1, <2>2
<1>13. \A b \in Account : Cardinality(Of(pool, b)) <= Cardinality(Of(more, b))
  BY <1>1, <1>2, <1>7, <1>8
<1>14. QED
  BY <1>8, <1>9, <1>10, <1>11, <1>12, <1>13 DEF PoolOK

\* The transaction with the lowest nonce goes, and the count moves on with it.
LEMMA MiningKeeps ==
    ASSUME NEW pool, NEW done \in [Account -> Nat], PoolOK(pool, done),
           NEW tx \in pool, tx.nonce = done[tx.from],
           NEW rest, rest = pool \ {tx},
           NEW next \in [Account -> Nat], next[tx.from] = done[tx.from] + 1,
           \A b \in Account : b # tx.from => next[b] = done[b]
    PROVE  /\ PoolOK(rest, next)
           /\ \A a \in Account : next[a] + Cardinality(Of(rest, a))
                                   = done[a] + Cardinality(Of(pool, a))
<1> DEFINE a == tx.from
           n == Cardinality(Of(pool, a))
<1>1. a \in Account /\ TxOK(tx)
  BY DEF PoolOK, TxOK
<1>2. next \in [Account -> Nat] /\ next[a] = done[a] + 1
      /\ \A b \in Account : b # a => next[b] = done[b]
  BY <1>1
<1>3. \A b \in Account : IsFiniteSet(Of(pool, b)) /\ Cardinality(Of(pool, b)) \in Nat
  BY OfIsFinite DEF PoolOK
<1>4. Of(rest, a) = Of(pool, a) \ {tx} /\ tx \in Of(pool, a)
  BY DEF Of
<1>5. \A b \in Account : b # a => Of(rest, b) = Of(pool, b)
  BY DEF Of
<1>6. Cardinality(Of(rest, a)) = n - 1
  BY <1>1, <1>3, <1>4, FS_RemoveElement
<1>7. IsFiniteSet(rest)
  BY FS_RemoveElement DEF PoolOK
<1>8. /\ \A t \in rest : TxOK(t)
      /\ \A s, t \in rest : s.from = t.from /\ s.nonce = t.nonce => s = t
  BY DEF PoolOK
<1>9. \A b \in Account :
        {t.nonce : t \in Of(rest, b)} = next[b] .. next[b] + Cardinality(Of(rest, b)) - 1
  <2> SUFFICES ASSUME NEW b \in Account
               PROVE  {t.nonce : t \in Of(rest, b)}
                        = next[b] .. next[b] + Cardinality(Of(rest, b)) - 1
    OBVIOUS
  <2>1. CASE b # a
    BY <2>1, <1>2, <1>5 DEF PoolOK
  <2>2. CASE b = a
    <3>1. {t.nonce : t \in Of(pool, a)} = done[a] .. done[a] + n - 1
      BY <1>1 DEF PoolOK
    <3>2. \A t \in Of(pool, a) : t # tx => t.nonce # tx.nonce
      BY DEF PoolOK, Of
    <3>3. {t.nonce : t \in Of(rest, a)} = {t.nonce : t \in Of(pool, a)} \ {done[a]}
      BY <3>2, <1>4
    <3>4. (done[a] .. done[a] + n - 1) \ {done[a]} = done[a] + 1 .. done[a] + 1 + (n - 1) - 1
      BY <1>1, <1>3
    <3>5. QED
      BY <2>2, <3>1, <3>3, <3>4, <1>2, <1>6
  <2>3. QED
    BY <2>1, <2>2
<1>10. \A b \in Account : next[b] + Cardinality(Of(rest, b)) = done[b] + Cardinality(Of(pool, b))
  <2>1. next[a] + Cardinality(Of(rest, a)) = done[a] + n
    <3>1. n \in Nat /\ done[a] \in Nat
      BY <1>1, <1>3
    <3>2. (done[a] + 1) + (n - 1) = done[a] + n
      BY <3>1
    <3>3. QED
      BY <3>2, <1>2, <1>6
  <2>2. \A b \in Account : b # a =>
          next[b] + Cardinality(Of(rest, b)) = done[b] + Cardinality(Of(pool, b))
    BY <1>2, <1>5
  <2>3. QED
    BY <2>1, <2>2
<1>11. PoolOK(rest, next)
  BY <1>7, <1>8, <1>9 DEF PoolOK
<1>12. QED
  BY <1>2, <1>10, <1>11

LEMMA PendingCountIs == \A a : PendingCount(a) = mined[a] + Cardinality(Of(mempool, a))
BY DEF PendingCount, Of

(***************************************************************************)
(* What a mined transaction does.                                          *)
(***************************************************************************)

LEMMA Names ==
    /\ {Lists[i] : i \in 1 .. 4} = ListNames
    /\ {Switches[i] : i \in 1 .. 2} = {"swapEnabled", "gasForProcessing"}
    /\ Len(Lists) = 4 /\ Len(Switches) = 2
    /\ \A i \in 1 .. 2 : listOfContracts[i] \in Contracts
<1>1. \A i \in 1 .. 4 : i = 1 \/ i = 2 \/ i = 3 \/ i = 4
  OBVIOUS
<1>2. \A i \in 1 .. 2 : i = 1 \/ i = 2
  OBVIOUS
<1>3. /\ Lists[1] = "isFromWhiteList" /\ Lists[2] = "isToWhiteList"
      /\ Lists[3] = "excludedFromDividends" /\ Lists[4] = "noProcessList"
      /\ Len(Lists) = 4
  BY DEF Lists
<1>4. Switches[1] = "swapEnabled" /\ Switches[2] = "gasForProcessing" /\ Len(Switches) = 2
  BY DEF Switches
<1>5. {Lists[i] : i \in 1 .. 4} = ListNames
  BY <1>1, <1>3 DEF ListNames
<1>6. {Switches[i] : i \in 1 .. 2} = {"swapEnabled", "gasForProcessing"}
  BY <1>2, <1>4
<1>7. \A i \in 1 .. 2 : listOfContracts[i] \in Contracts
  BY <1>2 DEF listOfContracts, Contracts
<1>8. QED
  BY <1>3, <1>4, <1>5, <1>6, <1>7

LEMMA ProxyStays ==
    ASSUME ProxyOK(proxy), NEW call, IsCall(call)
    PROVE  ProxyOK(ProxyAfter(call))
<1>1. proxy[call.to] \in [impl : {"old", "new"}, admin : Account, owner : Account]
  BY DEF ProxyOK, IsCall
<1>2. CASE call.op = "changeAdmin"
  <2>1. ProxyAfter(call) = [proxy EXCEPT ![call.to] = [proxy[call.to] EXCEPT !.admin = call.arg]]
    BY <1>2 DEF ProxyAfter, ChangeAdmin
  <2>2. [proxy[call.to] EXCEPT !.admin = call.arg]
          \in [impl : {"old", "new"}, admin : Account, owner : Account]
    BY <1>1, <1>2 DEF IsCall
  <2>3. QED
    BY <2>1, <2>2 DEF ProxyOK
<1>3. CASE call.op = "upgradeTo"
  <2>1. ProxyAfter(call) = [proxy EXCEPT ![call.to] = [proxy[call.to] EXCEPT !.impl = "new"]]
    BY <1>3 DEF ProxyAfter, UpgradeTo
  <2>2. [proxy[call.to] EXCEPT !.impl = "new"]
          \in [impl : {"old", "new"}, admin : Account, owner : Account]
    BY <1>1
  <2>3. QED
    BY <2>1, <2>2 DEF ProxyOK
<1>4. CASE call.op = "transferOwnership"
  <2>1. ProxyAfter(call) = [proxy EXCEPT ![call.to] = [proxy[call.to] EXCEPT !.owner = call.arg]]
    BY <1>4 DEF ProxyAfter
  <2>2. [proxy[call.to] EXCEPT !.owner = call.arg]
          \in [impl : {"old", "new"}, admin : Account, owner : Account]
    BY <1>1, <1>4 DEF IsCall
  <2>3. QED
    BY <2>1, <2>2 DEF ProxyOK
<1>5. CASE call.op \notin {"changeAdmin", "upgradeTo", "transferOwnership"}
  BY <1>5 DEF ProxyAfter
<1>6. QED
  BY <1>2, <1>3, <1>4, <1>5

LEMMA FlagsStay ==
    ASSUME FlagsOK(flags), NEW call, IsCall(call)
    PROVE  FlagsOK(FlagsAfter(call))
<1>1. CASE call.op \in ListNames
  <2>1. call.op \in DOMAIN flags /\ call.arg \in Account
    BY <1>1, Names DEF FlagsOK, IsCall
  <2>2. PICK v \in SUBSET Account : FlagsAfter(call) = [flags EXCEPT ![call.op] = v]
    <3>1. call.op \notin {Switches[i] : i \in 1 .. 2}
      BY <1>1, Names DEF ListNames
    <3>2. CASE call.value
      BY <1>1, <2>1, <3>1, <3>2 DEF FlagsAfter, FlagsOK
    <3>3. CASE ~call.value
      BY <1>1, <2>1, <3>1, <3>3 DEF FlagsAfter, FlagsOK
    <3>4. QED
      BY <3>2, <3>3
  <2>3. QED
    BY <2>1, <2>2 DEF FlagsOK
<1>2. CASE call.op \in {"swapEnabled", "gasForProcessing"}
  <2>1. FlagsAfter(call) = [flags EXCEPT ![call.op] = call.value]
    BY <1>2, Names DEF FlagsAfter, FlagsOK
  <2>2. call.op \notin ListNames
    BY <1>2 DEF ListNames
  <2>3. QED
    BY <2>1, <2>2 DEF FlagsOK
<1>3. CASE call.op \notin ListNames \cup {"swapEnabled", "gasForProcessing"}
  BY <1>3 DEF FlagsAfter, FlagsOK
<1>4. QED
  BY <1>1, <1>2, <1>3

(***************************************************************************)
(* The task.                                                               *)
(***************************************************************************)

LEMMA ItemsAre ==
    /\ \A job : Len(Items(job)) \in {2, 4}
    /\ \A job \in Excluding \cup Switching : \A i \in 1 .. Len(Items(job)) :
          Items(job)[i] \in ListNames \cup {"swapEnabled", "gasForProcessing"}
    /\ \A job \in Switching : \A i \in 1 .. Len(Items(job)) : Items(job)[i] \notin ListNames
<1>1. \A job : Items(job) = IF job \in Excluding THEN Lists ELSE Switches
  BY DEF Items
<1>2. \A job \in Switching : job \notin Excluding
  BY DEF Switching, Excluding
<1>3. /\ \A i \in 1 .. 4 : Lists[i] \in ListNames
      /\ \A i \in 1 .. 2 : Switches[i] \in {"swapEnabled", "gasForProcessing"}
  BY Names
<1>4. \A x \in {"swapEnabled", "gasForProcessing"} : x \notin ListNames
  BY DEF ListNames
<1>5. QED
  BY <1>1, <1>2, <1>3, <1>4, Names

LEMMA StopKeeps ==
    ASSUME ScriptType, NEW status \in {"done", "failed", "exited", "killed"}, Stop(status)
    PROVE  ScriptOK'
BY DEF ScriptType, ScriptOK, Stop, Running

LEMMA EndJobKeeps ==
    ASSUME ScriptType, NEW reports, EndJob(reports)
    PROVE  ScriptOK'
<1>1. ScriptType' /\ script'.pc = "ask"
  <2> DEFINE status == IF script.jobs = << >> THEN "done" ELSE "running"
             jobs == IF script.jobs = << >> THEN script.jobs ELSE Tail(script.jobs)
             job == IF script.jobs = << >> THEN script.job ELSE Head(script.jobs)
             report == script.report \cup reports
  <2>1. script' = [script EXCEPT !.report = report, !.status = status, !.jobs = jobs,
                     !.job = job, !.pc = "ask", !.i = 1, !.list = << >>, !.sent = << >>]
    BY DEF EndJob
  <2>2. status \in {"done", "running"}
    OBVIOUS
  <2>3. << >> \in Seq(Contracts)
    OBVIOUS
  <2> HIDE DEF status, jobs, job, report
  <2>4. QED
    BY <2>1, <2>2, <2>3 DEF ScriptType
<1>2. QED
  BY <1>1 DEF ScriptOK, PlaceOK

LEMMA NextItemKeeps ==
    ASSUME ScriptType, script.job \in Excluding \cup Switching,
           script.i \in 1 .. Len(Items(script.job)), script' = NextItem(script)
    PROVE  ScriptOK'
<1>1. Len(Items(script.job)) \in Nat
  BY ItemsAre
<1>2. script.job \notin Moving
  BY DEF Moving, Excluding, Switching
<1>3. CASE script.i = Len(Items(script.job))
  BY <1>3 DEF NextItem, ScriptType, ScriptOK, Running
<1>4. CASE script.i # Len(Items(script.job))
  <2>1. script' = [script EXCEPT !.pc = "check", !.i = script.i + 1]
    BY <1>4 DEF NextItem
  <2>2. /\ ScriptType' /\ script'.pc = "check" /\ script'.i = script.i + 1
        /\ script'.job = script.job
    BY <2>1 DEF ScriptType
  <2>3. script.i + 1 \in 1 .. Len(Items(script.job))
    BY <1>1, <1>4
  <2>4. QED
    BY <2>2, <2>3, <1>2 DEF ScriptOK, PlaceOK
<1>5. QED
  BY <1>3, <1>4

SamePlace ==
    /\ script'.pc = script.pc /\ script'.job = script.job /\ script'.i = script.i
    /\ script'.list = script.list /\ script'.txCount = script.txCount
    /\ script'.input = script.input /\ script'.status = script.status

\* Sending keeps the place of the task: counts of pending transactions grow.
LEMMA PlaceStays ==
    ASSUME ScriptOK, env' = env, Inv,
           \A a \in Account : PendingCount(a)' \in Nat /\ PendingCount(a) <= PendingCount(a)',
           ScriptType', SamePlace
    PROVE  ScriptOK'
<1>1. /\ ScriptType' /\ script'.pc = script.pc /\ script'.job = script.job
      /\ script'.i = script.i /\ script'.list = script.list /\ script'.txCount = script.txCount
      /\ script'.input = script.input /\ script'.status = script.status
  BY DEF SamePlace
<1>2. Sender' = Sender
  BY <1>1 DEF Sender
<1>3. \A a \in Account : PendingCount(a) \in Nat
  BY PendingCountIs, OfIsFinite DEF Inv, PoolOK
<1>4. ASSUME Running'
      PROVE  PlaceOK'
  <2>1. PlaceOK
    BY <1>1, <1>4 DEF ScriptOK, Running
  <2>2. ASSUME script.job \in Moving, script.pc = "send"
        PROVE  script.txCount \in Nat /\ script.txCount <= PendingCount(Sender)'
    <3>1. Sender \in Account /\ script.txCount \in Nat /\ script.txCount <= PendingCount(Sender)
      BY <2>1, <2>2 DEF PlaceOK
    <3>2. PendingCount(Sender)' \in Nat /\ PendingCount(Sender) \in Nat
          /\ PendingCount(Sender) <= PendingCount(Sender)'
      BY <3>1, <1>2, <1>3
    <3>3. QED
      BY <3>1, <3>2
  <2>3. QED
    BY <2>1, <2>2, <1>1, <1>2 DEF PlaceOK
<1>5. QED
  BY <1>1, <1>4 DEF ScriptOK

\* A step of a task that only changes the task.
LEMMA OnlyTheScript ==
    ASSUME Inv, ScriptOK', UNCHANGED << env, proxy, flags, mempool, mined >>
    PROVE  Inv'
BY DEF Inv

LEMMA StartKeeps == ASSUME Inv, NEW jobs \in JobLists, Start(jobs) PROVE Inv'
<1> DEFINE job == Head(jobs)
           status == IF job \notin Moving /\ ~env.chainId THEN "failed" ELSE "running"
           rest == Tail(jobs)
           pc == FirstPc(job)
           alone == mempool = {}
           out == PendingRemovals
<1>1. script' = [NoScript EXCEPT !.jobs = rest, !.job = job, !.pc = pc, !.status = status,
                   !.alone = alone, !.takenOut = out]
  BY DEF Start
<1>2. status \in {"failed", "running"}
  OBVIOUS
<1>3. pc \in {"check", "ask"} /\ (pc = "check" => job \notin Moving)
  BY DEF FirstPc, Switching, Moving
<1> HIDE DEF job, status, rest, pc, alone, out
<1>4. ScriptType' /\ script'.pc = pc /\ script'.job = job /\ script'.i = 1
  <2>1. script' = [jobs |-> rest, job |-> job, pc |-> pc, status |-> status, i |-> 1,
                   input |-> "", list |-> << >>, sent |-> << >>, txCount |-> 0,
                   report |-> {}, alone |-> alone, takenOut |-> out]
    BY <1>1 DEF NoScript
  <2>2. << >> \in Seq(Contracts)
    OBVIOUS
  <2>3. QED
    BY <1>2, <2>1, <2>2 DEF ScriptType
<1>5. 1 \in 1 .. Len(Items(job))
  BY ItemsAre
<1>6. ScriptOK'
  BY <1>3, <1>4, <1>5 DEF ScriptOK, PlaceOK
<1>7. QED
  BY <1>6, OnlyTheScript DEF Start

LEMMA AskNewKeeps == ASSUME Inv, NEW input, AskNew(input) PROVE Inv'
<1>1. ScriptType
  BY DEF Inv, ScriptOK
<1>2. CASE input = "" \/ ~env.file \/ Sender = ""
  BY <1>1, <1>2, StopKeeps, OnlyTheScript DEF AskNew
<1>3. CASE ~(input = "" \/ ~env.file \/ Sender = "")
  <2>1. Sender \in Account
    BY <1>3, AccountAssumption, EnvsAssumption DEF Inv, Sender
  <2>2. script' = [script EXCEPT !.pc = "list", !.i = 1, !.input = input]
    BY <1>3 DEF AskNew
  <2>3. ScriptType' /\ script'.pc = "list" /\ script'.job = script.job /\ script'.i = 1
    BY <1>1, <2>2 DEF ScriptType
  <2>4. Sender' = Sender
    BY <2>3 DEF Sender, AskNew
  <2>5. ScriptOK'
    BY <2>1, <2>3, <2>4 DEF ScriptOK, PlaceOK
  <2>6. QED
    BY <2>5, OnlyTheScript DEF AskNew
<1>4. QED
  BY <1>2, <1>3

LEMMA ListNextKeeps == ASSUME Inv, ListNext PROVE Inv'
<1> DEFINE name == listOfContracts[script.i]
<1>1. /\ ScriptType /\ script.i \in 1 .. 2 /\ Sender \in Account
      /\ script.job \in Moving /\ script.pc = "list"
  BY DEF Inv, ScriptOK, PlaceOK, ListNext, At
<1>2. CASE script.job = "transfer-ownership" /\ ~CanRead(name, Deployer)
  BY <1>1, <1>2, StopKeeps, OnlyTheScript DEF ListNext
<1>3. CASE ~(script.job = "transfer-ownership" /\ ~CanRead(name, Deployer))
  <2> DEFINE list == IF Listed(script.job, name) THEN Append(script.list, name) ELSE script.list
             pc == IF script.i = 2 THEN "confirm" ELSE script.pc
  <2>1. script' = [script EXCEPT !.list = list, !.i = script.i + 1, !.pc = pc]
    BY <1>3 DEF ListNext
  <2>2. list \in Seq(Contracts)
    BY <1>1, Names DEF ScriptType
  <2>3. pc \in {"list", "confirm"} /\ (pc = "list" => script.i + 1 \in 1 .. 2)
    BY <1>1
  <2> HIDE DEF list, pc
  <2>4. /\ ScriptType' /\ script'.pc = pc /\ script'.job = script.job
        /\ script'.i = script.i + 1
    BY <1>1, <2>1, <2>2 DEF ScriptType
  <2>5. Sender' = Sender
    BY <2>4 DEF Sender, ListNext
  <2>6. script.job \notin Excluding \cup Switching
    BY <1>1 DEF Moving, Excluding, Switching
  <2>7. ScriptOK'
    BY <1>1, <2>3, <2>4, <2>5, <2>6 DEF ScriptOK, PlaceOK
  <2>8. QED
    BY <2>7, OnlyTheScript DEF ListNext
<1>4. QED
  BY <1>2, <1>3

LEMMA ConfirmKeeps == ASSUME Inv, NEW answers, Confirm(answers) PROVE Inv'
<1>1. /\ ScriptType /\ Sender \in Account
      /\ script.job \in Moving /\ script.pc = "confirm"
  BY DEF Inv, ScriptOK, PlaceOK, Confirm, At
<1>2. CASE ~Confirmed(script.job, answers)
  BY <1>1, <1>2, EndJobKeeps, OnlyTheScript DEF Confirm
<1>3. CASE Confirmed(script.job, answers)
  <2>1. script' = [script EXCEPT !.pc = "nonce", !.i = 1]
    BY <1>3 DEF Confirm, Goto
  <2>2. ScriptType' /\ script'.pc = "nonce" /\ script'.job = script.job
    BY <1>1, <2>1 DEF ScriptType
  <2>3. Sender' = Sender
    BY <2>2 DEF Sender, Confirm
  <2>4. ScriptOK'
    BY <1>1, <2>2, <2>3 DEF ScriptOK, PlaceOK
  <2>5. QED
    BY <2>4, OnlyTheScript DEF Confirm
<1>4. QED
  BY <1>2, <1>3

LEMMA GetNonceKeeps == ASSUME Inv, GetNonce PROVE Inv'
<1> DEFINE pc == IF script.list = << >> THEN "wait" ELSE "send"
<1>1. /\ ScriptType /\ Sender \in Account
      /\ script.job \in Moving /\ script.pc = "nonce"
  BY DEF Inv, ScriptOK, PlaceOK, GetNonce, At
<1>2. script' = [script EXCEPT !.pc = pc, !.i = 1, !.txCount = mined[Sender]]
  BY DEF GetNonce
<1>3. pc \in {"wait", "send"} /\ (pc = "send" => 1 \in 1 .. Len(script.list))
  BY <1>1, EmptySeq, LenProperties DEF ScriptType
<1> HIDE DEF pc
<1>4. /\ ScriptType' /\ script'.pc = pc /\ script'.job = script.job /\ script'.i = 1
      /\ script'.list = script.list /\ script'.txCount = mined[Sender]
  BY <1>1, <1>2 DEF ScriptType
<1>5. Sender' = Sender /\ PendingCount(Sender)' = PendingCount(Sender)
  BY <1>4 DEF Sender, PendingCount, GetNonce
<1>6. mined[Sender] \in Nat /\ mined[Sender] <= PendingCount(Sender)
  BY <1>1, PendingCountIs, OfIsFinite DEF Inv, PoolOK
<1>7. script.job \notin Excluding \cup Switching
  BY <1>1 DEF Moving, Excluding, Switching
<1>8. ScriptOK'
  BY <1>1, <1>3, <1>4, <1>5, <1>6, <1>7 DEF ScriptOK, PlaceOK
<1>9. QED
  BY <1>8, OnlyTheScript DEF GetNonce

\* A nonce that is free and not beyond the next one is the next one.
LEMMA FreeNonce ==
    ASSUME Inv, NEW a \in Account, NEW nonce \in Nat, nonce <= PendingCount(a),
           ~NonceTaken(a, nonce)
    PROVE  nonce = mined[a] + Cardinality(Of(mempool, a))
<1>1. mined[a] \in Nat /\ Cardinality(Of(mempool, a)) \in Nat
  BY OfIsFinite DEF Inv, PoolOK
<1>2. PendingCount(a) = mined[a] + Cardinality(Of(mempool, a))
  BY PendingCountIs
<1>3. ~(nonce < mined[a]) /\ nonce \notin {t.nonce : t \in Of(mempool, a)}
  BY DEF NonceTaken, Of
<1>4. {t.nonce : t \in Of(mempool, a)}
        = mined[a] .. mined[a] + Cardinality(Of(mempool, a)) - 1
  BY DEF Inv, PoolOK
<1>5. nonce \notin mined[a] .. mined[a] + Cardinality(Of(mempool, a)) - 1
  BY <1>3, <1>4
<1>6. ~(mined[a] <= nonce /\ nonce <= mined[a] + Cardinality(Of(mempool, a)) - 1)
  BY <1>1, <1>5
<1>7. QED
  BY <1>1, <1>2, <1>3, <1>6

\* What sending the next nonce does to pool and counts.
LEMMA SubmitKeeps ==
    ASSUME Inv, NEW a \in Account, NEW call, IsCall(call), UNCHANGED mined,
           NEW nonce, nonce = mined[a] + Cardinality(Of(mempool, a)), Submit(a, nonce, call)
    PROVE  /\ PoolOK(mempool, mined)'
           /\ \A b \in Account : PendingCount(b)' \in Nat /\ PendingCount(b) <= PendingCount(b)'
           /\ PendingCount(a) = nonce /\ PendingCount(a)' = nonce + 1
<1> DEFINE tx == [from |-> a, nonce |-> nonce, call |-> call]
<1>1. mempool' = mempool \cup {tx}
  BY DEF Submit
<1>2. \A b \in Account : mined[b] \in Nat /\ Cardinality(Of(mempool, b)) \in Nat
  BY OfIsFinite DEF Inv, PoolOK
<1>3. TxOK(tx) /\ tx.from = a /\ tx.nonce = nonce
  BY <1>2 DEF TxOK
<1> HIDE DEF tx
<1>4. /\ PoolOK(mempool', mined)
      /\ \A b \in Account : Cardinality(Of(mempool, b)) <= Cardinality(Of(mempool', b))
      /\ Cardinality(Of(mempool', a)) = Cardinality(Of(mempool, a)) + 1
  <2>1. PoolOK(mempool, mined) /\ mined \in [Account -> Nat]
    BY DEF Inv
  <2>2. QED
    BY <2>1, <1>1, <1>3, SendingKeeps
<1>5. \A b : PendingCount(b)' = mined[b] + Cardinality(Of(mempool', b))
  BY DEF PendingCount, Of
<1>6. \A b \in Account : Cardinality(Of(mempool', b)) \in Nat
  BY <1>4, OfIsFinite DEF PoolOK
<1>7. \A b \in Account : PendingCount(b)' \in Nat /\ PendingCount(b) <= PendingCount(b)'
  BY <1>2, <1>4, <1>5, <1>6, PendingCountIs
<1>8. PendingCount(a) = nonce /\ PendingCount(a)' = nonce + 1
  BY <1>2, <1>4, <1>5, PendingCountIs
<1>9. QED
  BY <1>4, <1>7, <1>8

LEMMA SendNextKeeps == ASSUME Inv, SendNext PROVE Inv'
<1> DEFINE call == MoveCall(script.list[script.i])
           last == script.i = Len(script.list)
<1>1. /\ ScriptType /\ Sender \in Account
      /\ script.job \in Moving /\ script.pc = "send"
      /\ script.i \in 1 .. Len(script.list)
      /\ script.txCount \in Nat /\ script.txCount <= PendingCount(Sender)
  BY DEF Inv, ScriptOK, PlaceOK, SendNext, At
<1>2. CASE Stop("failed") /\ UNCHANGED mempool
  BY <1>1, <1>2, StopKeeps, OnlyTheScript DEF SendNext
<1>3. CASE ~(Stop("failed") /\ UNCHANGED mempool)
  <2>1. /\ script.input \in Account /\ ~NonceTaken(Sender, script.txCount)
        /\ Submit(Sender, script.txCount, call)
    BY <1>3 DEF SendNext
  <2>2. IsCall(call)
    <3>1. script.list[script.i] \in Contracts
      BY <1>1 DEF ScriptType
    <3>2. call.op \in {"changeAdmin", "transferOwnership"} /\ call.to = script.list[script.i]
          /\ call.arg = script.input
      BY DEF MoveCall, Call
    <3>3. QED
      BY <2>1, <3>1, <3>2 DEF IsCall, Ops
  <2> HIDE DEF call
  <2>3. script.txCount = mined[Sender] + Cardinality(Of(mempool, Sender))
    BY <1>1, <2>1, FreeNonce
  <2>4. UNCHANGED mined
    BY DEF SendNext
  <2>5. /\ PoolOK(mempool, mined)'
        /\ \A b \in Account : PendingCount(b)' \in Nat
    BY <1>1, <2>1, <2>2, <2>3, <2>4, SubmitKeeps
  <2>6. \E a \in Account : a = Sender /\ PendingCount(a)' = script.txCount + 1
    BY <1>1, <2>1, <2>2, <2>3, <2>4, SubmitKeeps
  <2> DEFINE sent == Append(script.sent, script.txCount)
             i == IF last THEN 1 ELSE script.i + 1
             pc == IF last THEN "wait" ELSE script.pc
  <2>7. script' = [script EXCEPT !.sent = sent, !.txCount = script.txCount + 1, !.i = i, !.pc = pc]
    BY <1>3 DEF SendNext
  <2>8. pc \in {"send", "wait"} /\ (pc = "send" => i \in 1 .. Len(script.list))
    <3>1. Len(script.list) \in Nat
      BY <1>1 DEF ScriptType
    <3>2. QED
      BY <1>1, <3>1
  <2> HIDE DEF sent, i, pc
  <2>9. /\ ScriptType' /\ script'.pc = pc /\ script'.job = script.job /\ script'.i = i
        /\ script'.list = script.list /\ script'.txCount = script.txCount + 1
    BY <1>1, <2>7 DEF ScriptType
  <2>10. Sender' = Sender
    BY <2>9 DEF Sender, SendNext
  <2>11. script'.txCount \in Nat /\ script'.txCount <= PendingCount(Sender)'
    BY <1>1, <2>6, <2>9, <2>10
  <2>12. script.job \notin Excluding \cup Switching
    BY <1>1 DEF Moving, Excluding, Switching
  <2>13. ScriptOK'
    BY <1>1, <2>8, <2>9, <2>10, <2>11, <2>12 DEF ScriptOK, PlaceOK
  <2>14. QED
    BY <2>5, <2>13 DEF Inv, SendNext
<1>4. QED
  BY <1>2, <1>3

LEMMA WaitNextKeeps == ASSUME Inv, WaitNext PROVE Inv'
<1>1. /\ ScriptType /\ Sender \in Account
      /\ script.job \in Moving /\ script.pc = "wait"
  BY DEF Inv, ScriptOK, PlaceOK, WaitNext, At
<1>2. CASE Success
  BY <1>1, <1>2, EndJobKeeps, OnlyTheScript DEF WaitNext, Success
<1>3. CASE ~(script.i > Len(script.sent)) /\ Stop("failed")
  BY <1>1, <1>3, StopKeeps, OnlyTheScript DEF WaitNext
<1>4. CASE Goto("owners")
  <2>1. script' = [script EXCEPT !.pc = "owners", !.i = 1]
    BY <1>4 DEF Goto
  <2>2. ScriptType' /\ script'.pc = "owners" /\ script'.job = script.job
    BY <1>1, <2>1 DEF ScriptType
  <2>3. Sender' = Sender
    BY <2>2 DEF Sender, WaitNext
  <2>4. ScriptOK'
    BY <1>1, <2>2, <2>3 DEF ScriptOK, PlaceOK
  <2>5. QED
    BY <2>4, OnlyTheScript DEF WaitNext
<1>5. CASE script' = [script EXCEPT !.i = @ + 1]
  <2>1. ScriptType' /\ script'.pc = "wait" /\ script'.job = script.job
    BY <1>1, <1>5 DEF ScriptType
  <2>2. Sender' = Sender
    BY <2>1 DEF Sender, WaitNext
  <2>3. script.job \notin Excluding \cup Switching
    BY <1>1 DEF Moving, Excluding, Switching
  <2>4. ScriptOK'
    BY <1>1, <2>1, <2>2, <2>3 DEF ScriptOK, PlaceOK
  <2>5. QED
    BY <2>4, OnlyTheScript DEF WaitNext
<1>6. QED
  BY <1>2, <1>3, <1>5, <1>4 DEF WaitNext

LEMMA ReadOwnerNextKeeps == ASSUME Inv, ReadOwnerNext PROVE Inv'
<1>1. /\ ScriptType /\ Sender \in Account
      /\ script.job \in Moving /\ script.pc = "owners"
  BY DEF Inv, ScriptOK, PlaceOK, ReadOwnerNext, At, Moving
<1>2. CASE Success
  BY <1>1, <1>2, EndJobKeeps, OnlyTheScript DEF ReadOwnerNext, Success
<1>3. CASE Stop("failed")
  BY <1>1, <1>3, StopKeeps, OnlyTheScript DEF ReadOwnerNext
<1>4. CASE script' = [script EXCEPT !.i = @ + 1]
  <2>1. ScriptType' /\ script'.pc = "owners" /\ script'.job = script.job
    BY <1>1, <1>4 DEF ScriptType
  <2>2. Sender' = Sender
    BY <2>1 DEF Sender, ReadOwnerNext
  <2>3. ScriptOK'
    BY <1>1, <2>1, <2>2 DEF ScriptOK, PlaceOK
  <2>4. QED
    BY <2>3, OnlyTheScript DEF ReadOwnerNext
<1>5. QED
  BY <1>2, <1>3, <1>4 DEF ReadOwnerNext

LEMMA AskAddressKeeps == ASSUME Inv, NEW input, AskAddress(input) PROVE Inv'
<1>1. ScriptType /\ script.job \in Excluding
  BY DEF Inv, ScriptOK, AskAddress, At
<1>2. CASE input = ""
  <2>1. script' = script /\ env' = env
    BY <1>2 DEF AskAddress
  <2>2. Running /\ script.pc = "ask"
    BY DEF AskAddress, At
  <2>3. ScriptOK'
    BY <1>1, <2>1, <2>2 DEF ScriptOK, ScriptType, PlaceOK
  <2>4. QED
    BY <2>3, OnlyTheScript DEF AskAddress
<1>3. CASE input # ""
  <2>1. script' = [script EXCEPT !.pc = "check", !.i = 1, !.input = input]
    BY <1>3 DEF AskAddress
  <2>2. ScriptType' /\ script'.pc = "check" /\ script'.job = script.job /\ script'.i = 1
    BY <1>1, <2>1 DEF ScriptType
  <2>3. 1 \in 1 .. Len(Items(script.job))
    BY ItemsAre
  <2>4. script.job \notin Moving
    BY <1>1 DEF Moving, Excluding
  <2>5. ScriptOK'
    BY <2>2, <2>3, <2>4 DEF ScriptOK, PlaceOK
  <2>6. QED
    BY <2>5, OnlyTheScript DEF AskAddress
<1>4. QED
  BY <1>2, <1>3

LEMMA CheckKeeps == ASSUME Inv, Check PROVE Inv'
<1>1. /\ ScriptType /\ script.job \in Excluding \cup Switching
      /\ script.i \in 1 .. Len(Items(script.job))
  BY DEF Inv, ScriptOK, PlaceOK, Check, At
<1>2. CASE Stop("failed")
  BY <1>1, <1>2, StopKeeps, OnlyTheScript DEF Check
<1>3. CASE script' = NextItem(script)
  BY <1>1, <1>3, NextItemKeeps, OnlyTheScript DEF Check
<1>4. CASE /\ script.job \in Excluding => script.input \in Account
           /\ script' = [script EXCEPT !.pc = "set"]
  <2>1. /\ ScriptType' /\ script'.pc = "set" /\ script'.job = script.job
        /\ script'.i = script.i /\ script'.input = script.input
    BY <1>1, <1>4 DEF ScriptType
  <2>2. script.job \notin Moving
    BY <1>1 DEF Moving, Excluding, Switching
  <2>3. ScriptOK'
    BY <1>1, <1>4, <2>1, <2>2 DEF ScriptOK, PlaceOK
  <2>4. QED
    BY <2>3, OnlyTheScript DEF Check
<1>5. QED
  BY <1>2, <1>3, <1>4 DEF Check

LEMMA SetKeeps == ASSUME Inv, Set PROVE Inv'
<1>1. /\ ScriptType /\ script.job \in Excluding \cup Switching
      /\ script.i \in 1 .. Len(Items(script.job))
      /\ script.job \in Excluding => script.input \in Account
  BY DEF Inv, ScriptOK, PlaceOK, Set, At
<1>2. CASE Stop("failed") /\ UNCHANGED mempool
  BY <1>1, <1>2, StopKeeps, OnlyTheScript DEF Set
<1>3. CASE ~(Stop("failed") /\ UNCHANGED mempool)
  <2>1. Submit(Deployer, PendingCount(Deployer), ItemCall) /\ UNCHANGED mined
    BY <1>3 DEF Set
  <2>2. IsCall(ItemCall)
    <3>1. ItemCall.op = Item /\ ItemCall.arg = script.input /\ ItemCall.to \in Contracts
      BY DEF ItemCall, Setter, Call, Contracts
    <3>2. Item \in ListNames \cup {"swapEnabled", "gasForProcessing"}
      BY <1>1, ItemsAre DEF Item
    <3>3. Item \in ListNames => script.input \in Account
      BY <1>1, ItemsAre DEF Item
    <3>4. Item \notin {"changeAdmin", "transferOwnership"}
      BY <3>2 DEF ListNames
    <3>5. QED
      BY <3>1, <3>2, <3>3, <3>4, Names DEF IsCall, Ops
  <2>3. PendingCount(Deployer) = mined[Deployer] + Cardinality(Of(mempool, Deployer))
    BY PendingCountIs
  <2>4. PoolOK(mempool, mined)'
    BY <2>1, <2>2, <2>3, SubmitKeeps, AccountAssumption
  <2>5. ScriptOK'
    <3>1. CASE script.job \in Excluding
      <4> DEFINE sent == << PendingCount(Deployer) >>
      <4>1. script' = [script EXCEPT !.pc = "await", !.sent = sent]
        BY <1>3, <3>1 DEF Set
      <4> HIDE DEF sent
      <4>2. /\ ScriptType' /\ script'.pc = "await" /\ script'.job = script.job
            /\ script'.i = script.i
        BY <1>1, <4>1 DEF ScriptType
      <4>3. script.job \notin Moving
        BY <1>1 DEF Moving, Excluding, Switching
      <4>4. QED
        BY <1>1, <4>2, <4>3 DEF ScriptOK, PlaceOK
    <3>2. CASE script.job \notin Excluding
      <4>1. script' = NextItem(script)
        BY <1>3, <3>2 DEF Set
      <4>2. QED
        BY <1>1, <4>1, NextItemKeeps
    <3>3. QED
      BY <3>1, <3>2
  <2>6. QED
    BY <2>4, <2>5 DEF Inv, Set
<1>4. QED
  BY <1>2, <1>3

LEMMA AwaitKeeps == ASSUME Inv, Await PROVE Inv'
<1>1. /\ ScriptType /\ script.job \in Excluding \cup Switching
      /\ script.i \in 1 .. Len(Items(script.job))
  BY DEF Inv, ScriptOK, PlaceOK, Await, At
<1>2. CASE Stop("failed")
  BY <1>1, <1>2, StopKeeps, OnlyTheScript DEF Await
<1>3. CASE script' = NextItem(script)
  BY <1>1, <1>3, NextItemKeeps, OnlyTheScript DEF Await
<1>4. QED
  BY <1>2, <1>3 DEF Await

(***************************************************************************)
(* The chain and the console.                                              *)
(***************************************************************************)

LEMMA MinedPool ==
    ASSUME NEW tx \in mempool, mempool' = mempool \ {tx},
           PoolOK(mempool, mined), mined \in [Account -> Nat], tx.nonce = mined[tx.from],
           mined' \in [Account -> Nat], mined'[tx.from] = mined[tx.from] + 1,
           \A b \in Account : b # tx.from => mined'[b] = mined[b]
    PROVE  PoolOK(mempool', mined')
BY MiningKeeps

LEMMA MineKeeps == ASSUME Inv, NEW tx \in mempool, Mine(tx) PROVE Inv'
<1>1. IsCall(tx.call) /\ tx.nonce = mined[tx.from]
  BY DEF Inv, PoolOK, TxOK, Mine
<1>2. ProxyOK(proxy') /\ FlagsOK(flags')
  <2>1. CASE UNCHANGED << proxy, flags >>
    BY <2>1 DEF Inv
  <2>2. CASE proxy' = ProxyAfter(tx.call) /\ flags' = FlagsAfter(tx.call)
    BY <1>1, <2>2, ProxyStays, FlagsStay DEF Inv
  <2>3. QED
    BY <2>1, <2>2 DEF Mine
<1>3. /\ PoolOK(mempool', mined') /\ mined' \in [Account -> Nat]
      /\ \A a \in Account : mined'[a] + Cardinality(Of(mempool', a))
                             = mined[a] + Cardinality(Of(mempool, a))
  <2>1. PoolOK(mempool, mined) /\ mined \in [Account -> Nat] /\ tx.from \in Account
    BY DEF Inv, PoolOK, TxOK
  <2>2. mempool' = mempool \ {tx} /\ mined' = [mined EXCEPT ![tx.from] = @ + 1]
    BY DEF Mine
  <2>3. /\ mined' \in [Account -> Nat] /\ mined'[tx.from] = mined[tx.from] + 1
        /\ \A b \in Account : b # tx.from => mined'[b] = mined[b]
    BY <2>1, <2>2
  <2>4. mempool' = mempool \ {tx} /\ tx.nonce = mined[tx.from]
    BY <1>1, <2>2
  <2>5. PoolOK(mempool', mined')
    BY <2>1, <2>3, <2>4, MinedPool
  <2>6. \A a \in Account : mined'[a] + Cardinality(Of(mempool', a))
                           = mined[a] + Cardinality(Of(mempool, a))
    BY <2>1, <2>3, <2>4, MiningKeeps
  <2>7. QED
    BY <2>3, <2>5, <2>6
<1>4. \A a \in Account : PendingCount(a)' \in Nat /\ PendingCount(a) <= PendingCount(a)'
  <2>1. \A a : PendingCount(a)' = mined'[a] + Cardinality(Of(mempool', a))
    BY DEF PendingCount, Of
  <2>2. \A a \in Account : mined'[a] \in Nat /\ Cardinality(Of(mempool', a)) \in Nat
    BY <1>3, OfIsFinite DEF PoolOK
  <2>3. QED
    BY <1>3, <2>1, <2>2, PendingCountIs
<1>5. script' = script /\ env' = env
  BY DEF Mine
<1>6. ScriptType' /\ SamePlace
  BY <1>5 DEF SamePlace, Inv, ScriptOK, ScriptType
<1>7. ScriptOK'
  BY <1>4, <1>5, <1>6, PlaceStays DEF Inv
<1>8. QED
  BY <1>2, <1>3, <1>5, <1>7 DEF Inv

LEMMA ConsoleKeeps ==
    ASSUME Inv, NEW sender \in {Deployer, Admin}, NEW call \in ConsoleCalls,
           Console(sender, call)
    PROVE  Inv'
<1> DEFINE out == IF TakesOut(call) THEN script.takenOut \cup {call.arg} ELSE script.takenOut
<1>1. /\ Submit(sender, PendingCount(sender), call) /\ UNCHANGED << env, proxy, flags, mined >>
      /\ script' = [script EXCEPT !.alone = FALSE, !.takenOut = out]
  BY DEF Console
<1> HIDE DEF out
<1>2. ScriptType' /\ SamePlace
  BY <1>1 DEF SamePlace, Inv, ScriptOK, ScriptType
<1>3. sender \in Account /\ IsCall(call)
  BY AccountAssumption, ConsoleAssumption
<1>4. PendingCount(sender) = mined[sender] + Cardinality(Of(mempool, sender))
  BY PendingCountIs
<1>5. /\ PoolOK(mempool, mined)'
      /\ \A b \in Account : PendingCount(b)' \in Nat /\ PendingCount(b) <= PendingCount(b)'
  BY <1>1, <1>3, <1>4, SubmitKeeps
<1>6. ScriptOK'
  BY <1>1, <1>5, <1>2, PlaceStays DEF Inv
<1>7. QED
  BY <1>1, <1>5, <1>6 DEF Inv

LEMMA KillKeeps == ASSUME Inv, Kill PROVE Inv'
<1>1. ScriptType
  BY DEF Inv, ScriptOK
<1>2. QED
  BY <1>1, StopKeeps, OnlyTheScript DEF Kill

(***************************************************************************)
(* The theorems.                                                           *)
(***************************************************************************)

LEMMA InitInv == Init => Inv
<1> SUFFICES ASSUME Init PROVE Inv
  OBVIOUS
<1>1. ProxyOK(proxy)
  BY AccountAssumption DEF Init, ProxyOK
<1>2. FlagsOK(flags)
  BY DEF Init, FlagsOK, ListNames
<1>3. mined \in [Account -> Nat] /\ \A a \in Account : mined[a] = 0
  BY DEF Init
<1>4. PoolOK(mempool, mined)
  <2>1. mempool = {} /\ IsFiniteSet({}) /\ Cardinality({}) = 0
    BY FS_EmptySet DEF Init
  <2>2. \A a : Of(mempool, a) = {}
    BY <2>1 DEF Of
  <2>3. \A a \in Account :
          {t.nonce : t \in Of(mempool, a)} = mined[a] .. mined[a] + Cardinality(Of(mempool, a)) - 1
    BY <1>3, <2>1, <2>2
  <2>4. QED
    BY <2>1, <2>3 DEF PoolOK
<1>5. ScriptOK
  <2>1. << >> \in Seq(Contracts)
    OBVIOUS
  <2>2. QED
    BY <2>1 DEF Init, ScriptOK, ScriptType, Running, NoScript
<1>6. QED
  BY <1>1, <1>2, <1>3, <1>4, <1>5 DEF Inv, Init

LEMMA NextKeeps == Inv /\ [Next]_vars => Inv'
<1> SUFFICES ASSUME Inv, [Next]_vars PROVE Inv'
  OBVIOUS
<1>1. ASSUME NEW jobs \in JobLists, Start(jobs) PROVE Inv'
  BY <1>1, StartKeeps
<1>2. ASSUME ScriptStep PROVE Inv'
  <2>1. ASSUME NEW input \in Inputs, AskNew(input) \/ AskAddress(input) PROVE Inv'
    BY <2>1, AskNewKeeps, AskAddressKeeps
  <2>2. ASSUME NEW answers \in Answers, Confirm(answers) PROVE Inv'
    BY <2>2, ConfirmKeeps
  <2>3. QED
    BY <1>2, <2>1, <2>2, ListNextKeeps, GetNonceKeeps, SendNextKeeps, WaitNextKeeps,
       ReadOwnerNextKeeps, CheckKeeps, SetKeeps, AwaitKeeps DEF ScriptStep
<1>3. ASSUME NEW tx \in mempool, Mine(tx) PROVE Inv'
  BY <1>3, MineKeeps
<1>4. ASSUME NEW sender \in {Deployer, Admin}, NEW call \in ConsoleCalls, Console(sender, call)
      PROVE  Inv'
  BY <1>4, ConsoleKeeps
<1>5. CASE UNCHANGED vars
  <2>1. UNCHANGED << env, proxy, flags, mempool, mined, script >>
    BY <1>5 DEF vars
  <2>2. ScriptOK'
    BY <2>1 DEF Inv, ScriptOK, ScriptType, PlaceOK, Running, Sender, PendingCount
  <2>3. QED
    BY <2>1, <2>2, OnlyTheScript
<1>6. QED
  BY <1>1, <1>2, <1>3, <1>4, <1>5, KillKeeps DEF Next

LEMMA InvHolds == Spec => []Inv
BY InitInv, NextKeeps, PTL DEF Spec

\* No list, owner or administrator is ever anything but an account.
THEOREM TypeCorrect == Spec => []TypeOK
<1>1. Inv => TypeOK
  <2> SUFFICES ASSUME Inv PROVE TypeOK
    OBVIOUS
  <2>1. \A name \in Contracts : proxy[name].admin \in Account /\ proxy[name].owner \in Account
    BY DEF Inv, ProxyOK
  <2>2. \A i \in 1 .. 4 : flags[Lists[i]] \subseteq Account
    BY Names DEF Inv, FlagsOK
  <2>3. QED
    BY <2>1, <2>2 DEF Inv, PoolOK, TxOK, ScriptOK, ScriptType, TypeOK
<1>2. QED
  BY <1>1, InvHolds, PTL

\* Tasks with nonces of their own, kills, reruns and consoles together never
\* leave a gap of nonces (transfer-ownership-and-change-admin.ts:141-155).
THEOREM NeverStuck == Spec => []NothingIsStuck
<1>1. Inv => NothingIsStuck
  <2> SUFFICES ASSUME Inv, NEW a \in Account
               PROVE  {t.nonce : t \in {s \in mempool : s.from = a}}
                        = mined[a] .. PendingCount(a) - 1
    BY DEF NothingIsStuck
  <2> DEFINE stated  == {t.nonce : t \in {s \in mempool : s.from = a}}
             pending == {t.nonce : t \in Of(mempool, a)}
             next    == mined[a] .. mined[a] + Cardinality(Of(mempool, a)) - 1
  <2>1. pending = next
    BY DEF Inv, PoolOK
  <2>2. PendingCount(a) = mined[a] + Cardinality(Of(mempool, a))
    BY PendingCountIs
  <2>3. stated = pending
    BY DEF Of
  <2>4. mined[a] .. PendingCount(a) - 1 = next
    <3>1. mined[a] \in Nat /\ Cardinality(Of(mempool, a)) \in Nat
      BY OfIsFinite DEF Inv, PoolOK
    <3>2. QED
      BY <2>2, <3>1
  <2> HIDE DEF stated, pending, next
  <2>5. stated = mined[a] .. PendingCount(a) - 1
    BY <2>1, <2>3, <2>4
  <2>6. QED
    BY <2>5 DEF stated
<1>2. QED
  BY <1>1, InvHolds, PTL

(***************************************************************************)
(* What the tasks report.  The second inductive invariant holds on top of  *)
(* the first: where a task is in its lists, and the fate of what it sent.  *)
(***************************************************************************)

\* Ownership is transferred by the task only.
OwnershipIsLeftAlone == \A call \in ConsoleCalls : call.op # "transferOwnership"

\* Which jobs follow each other, and which jobs the records are of.
JobsOK ==
    /\ script.job \in Moving \cup Excluding \cup Switching \cup {""}
    /\ script.jobs \in {<< >>, << "transfer-ownership" >>}
    /\ script.jobs # << >> => script.job = "change-admin-address"
    /\ script.job \in Moving => \A r \in script.report : r.job \in Moving
    /\ script.job \notin Moving => \A r \in script.report :
          script.status = "done" /\ r.job = script.job /\ r.input = script.input
    /\ Running /\ script.job = "change-admin-address" => script.report = {}
    /\ Running /\ script.job = "transfer-ownership" =>
          \A r \in script.report : r.job = "change-admin-address"

\* Who sends what: the tasks act for the deployer and the key they are given.
SendersOK ==
    \A tx \in mempool :
        /\ tx.from \in {Deployer, Admin, env.adminKey}
        /\ OwnershipIsLeftAlone /\ tx.call.op = "transferOwnership" => tx.from = Deployer

\* The lists of a moving job.  All proxies are listed for a new administrator,
\* and at its first transaction a job starts from a count that was mined.
MovePlaceOK ==
    Running /\ script.job \in Moving =>
       /\ script.sent \in Seq(Nat)
       /\ script.pc \in {"ask", "list", "confirm", "nonce", "send", "wait", "owners"}
       /\ script.pc = "ask" => script.list = << >>
       /\ script.pc \in {"ask", "list", "confirm", "nonce"} => script.sent = << >>
       /\ script.pc = "list" /\ script.i = 1 => script.list = << >>
       /\ script.job = "change-admin-address" =>
             /\ script.pc = "list" /\ script.i = 2 => script.list = << "BIBToken" >>
             /\ script.pc \in {"confirm", "nonce", "send", "wait"} => script.list = listOfContracts
       /\ script.pc = "send" => /\ Len(script.sent) = script.i - 1
                                /\ script.i = 1 => script.txCount <= mined[Sender]
       /\ script.pc = "wait" => /\ Len(script.sent) = Len(script.list)
                                /\ script.i \in 1 .. Len(script.sent) + 1
       /\ script.pc = "owners" => /\ Len(script.sent) = Len(script.list)
                                  /\ script.job = "transfer-ownership"

\* Nobody else is to undo what a moving job does.
Concerned(job, input) ==
    IF job = "change-admin-address" THEN input \notin {Deployer, Admin} ELSE OwnershipIsLeftAlone

\* Those who could undo it have nothing pending that does.
Undisturbed(job, input, pool) ==
    \A tx \in pool :
        IF job = "change-admin-address"
        THEN tx.from = input /\ tx.call.op = "changeAdmin" => tx.call.arg = input
        ELSE tx.call.op = "transferOwnership" => tx.call.arg = input

Moved(job, input, name) ==
    IF job = "change-admin-address" THEN proxy[name].admin = input ELSE proxy[name].owner = input

\* What was sent for the k-th contract is pending, has reverted, or was done.
Fate(k) ==
    \/ [from |-> Sender, nonce |-> script.sent[k], call |-> MoveCall(script.list[k])] \in mempool
    \/ << Sender, script.sent[k] >> \in reverted
    \/ Moved(script.job, script.input, script.list[k])

\* How many of the transactions are known to have done it.
Awaited == IF script.pc = "wait" THEN script.i - 1
           ELSE IF script.pc = "owners" THEN Len(script.sent) ELSE 0

FateOK ==
    Running /\ script.job \in Moving /\ Concerned(script.job, script.input) =>
       /\ script.sent # << >> => Undisturbed(script.job, script.input, mempool)
       /\ \A k \in 1 .. Len(script.sent) : Fate(k)
       /\ \A k \in 1 .. Awaited : Moved(script.job, script.input, script.list[k])

\* The contracts that a transfer of ownership has looked at and not listed.
LookedAt ==
    IF script.pc \in {"confirm", "nonce", "send", "wait", "owners"} THEN Contracts
    ELSE IF script.pc = "list" THEN {listOfContracts[k] : k \in 1 .. script.i - 1} ELSE {}

UnlistedOK ==
    Running /\ script.job = "transfer-ownership" /\ OwnershipIsLeftAlone =>
       \A name \in LookedAt :
          proxy[name].owner = Deployer => \E k \in DOMAIN script.list : script.list[k] = name

AdminRecordOK(r) ==
    /\ \A name \in Contracts : proxy[name].admin = r.input
    /\ Undisturbed("change-admin-address", r.input, mempool)

OwnerRecordOK(r) ==
    /\ \A name \in r.moved : proxy[name].owner = r.input
    /\ r.moved # {} => Undisturbed("transfer-ownership", r.input, mempool)
    /\ r.moved \subseteq Contracts
    /\ r.input # Deployer => \A name \in Contracts : proxy[name].owner # Deployer

RecordsOK ==
    \A r \in script.report :
       /\ r.job = "change-admin-address" /\ Concerned(r.job, r.input) => AdminRecordOK(r)
       /\ r.job = "transfer-ownership" /\ Concerned(r.job, r.input) => OwnerRecordOK(r)

MoveInv == JobsOK /\ SendersOK /\ MovePlaceOK /\ FateOK /\ UnlistedOK /\ RecordsOK

\* How many lists or switches are dealt with.
DealtWith == IF script.status = "done" THEN Len(Items(script.job)) ELSE script.i - 1

Alone(jobs) ==
    script.alone /\ script.job \in jobs /\ script.status \in {"running", "done"}

\* What run-exclude sent for the list it is at is pending, has reverted, or was
\* done.
SentForItem ==
    \/ [from |-> Deployer, nonce |-> script.sent[1], call |-> ItemCall] \in mempool
    \/ << Deployer, script.sent[1] >> \in reverted
    \/ script.input \in flags[Item]

\* The lists that run-exclude is done with keep their account, which nothing
\* that is pending takes out of any.
ExcludeOK ==
    script.job \in Excluding /\ script.status \in {"running", "done"} =>
       /\ script.pc \in {"ask", "check", "set", "await"}
       /\ script.pc = "ask" => script.i = 1
       /\ \A tx \in mempool : TakesOut(tx.call) => tx.call.arg \in script.takenOut
       /\ script.input \notin script.takenOut =>
             /\ \A k \in 1 .. DealtWith : script.input \in flags[Lists[k]]
             /\ script.pc = "await" /\ Running => SentForItem

SwitchCall(k) == Setter(Switches[k], script.input, Wanted(script.job))

\* Nothing is pending but what enable-dividend has sent, and none of that is
\* going to revert.
SwitchOK ==
    Alone(Switching) =>
       /\ script.pc \in {"check", "set"}
       /\ \A tx \in mempool : tx.from = Deployer /\ \E k \in 1 .. DealtWith : tx.call = SwitchCall(k)
       /\ \A s, t \in mempool : s.call = t.call => s = t
       /\ \A k \in 1 .. DealtWith :
             flags[Switches[k]] = Wanted(script.job) \/ \E tx \in mempool : tx.call = SwitchCall(k)
       /\ \A tx \in mempool :
             /\ tx.call.op = "gasForProcessing" => flags["gasForProcessing"] # Wanted(script.job)
             /\ proxy["BIBToken"].owner = Deployer /\ proxy["BIBToken"].admin # Deployer

TaskInv == ExcludeOK /\ SwitchOK

(***************************************************************************)
(* What mining changes, and what it leaves.                                *)
(***************************************************************************)

LEMMA PendingIsNotMined ==
    ASSUME Inv, NEW tx \in mempool
    PROVE  tx.from \in Account /\ tx.nonce \in Nat /\ mined[tx.from] \in Nat
           /\ mined[tx.from] <= tx.nonce
<1>1. tx.from \in Account /\ tx.nonce \in Nat /\ mined[tx.from] \in Nat
  BY DEF Inv, PoolOK, TxOK
<1>2. tx.nonce \in {t.nonce : t \in Of(mempool, tx.from)}
  BY DEF Of
<1>3. tx.nonce \in mined[tx.from] .. mined[tx.from] + Cardinality(Of(mempool, tx.from)) - 1
  BY <1>1, <1>2 DEF Inv, PoolOK
<1>4. Cardinality(Of(mempool, tx.from)) \in Nat
  BY OfIsFinite DEF Inv, PoolOK
<1>5. QED
  BY <1>1, <1>3, <1>4

\* An administrator or owner is only replaced by a transaction of theirs that
\* says by whom; and a transaction reverts, or does what it says.
LEMMA MineEffect ==
    ASSUME Inv, NEW tx \in mempool, Mine(tx)
    PROVE  /\ UNCHANGED << env, script >> /\ mempool' = mempool \ {tx}
           /\ reverted \subseteq reverted'
           /\ \A name \in Contracts : proxy'[name].admin # proxy[name].admin =>
                 /\ tx.call.op = "changeAdmin" /\ tx.call.to = name
                 /\ tx.from = proxy[name].admin /\ proxy'[name].admin = tx.call.arg
           /\ \A name \in Contracts : proxy'[name].owner # proxy[name].owner =>
                 /\ tx.call.op = "transferOwnership" /\ tx.call.to = name
                 /\ tx.from = proxy[name].owner /\ proxy'[name].owner = tx.call.arg
           /\ \/ << tx.from, tx.nonce >> \in reverted'
              \/ /\ tx.call.op = "changeAdmin" => proxy'[tx.call.to].admin = tx.call.arg
                 /\ tx.call.op = "transferOwnership" => proxy'[tx.call.to].owner = tx.call.arg
                 /\ proxy' = ProxyAfter(tx.call) /\ flags' = FlagsAfter(tx.call)
<1>1. tx.call.to \in Contracts /\ ProxyOK(proxy)
  BY DEF Inv, PoolOK, TxOK, IsCall
<1>2. UNCHANGED << env, script >> /\ mempool' = mempool \ {tx}
  BY DEF Mine
<1>3. CASE CallReverts(tx.from, tx.call)
  BY <1>2, <1>3 DEF Mine
<1>4. CASE ~CallReverts(tx.from, tx.call)
  <2>1. /\ proxy' = ProxyAfter(tx.call) /\ flags' = FlagsAfter(tx.call) /\ reverted' = reverted
    BY <1>4 DEF Mine
  <2>2. CASE tx.call.op = "changeAdmin"
    <3>1. proxy' = [proxy EXCEPT ![tx.call.to] = [proxy[tx.call.to] EXCEPT !.admin = tx.call.arg]]
      BY <2>1, <2>2 DEF ProxyAfter, ChangeAdmin
    <3>2. tx.from = proxy[tx.call.to].admin
      BY <1>4, <2>2 DEF CallReverts, ChangeAdminReverts, ifAdmin
    <3>3. QED
      BY <1>1, <1>2, <2>1, <2>2, <3>1, <3>2 DEF ProxyOK
  <2>3. CASE tx.call.op = "upgradeTo"
    <3>1. proxy' = [proxy EXCEPT ![tx.call.to] = [proxy[tx.call.to] EXCEPT !.impl = "new"]]
      BY <2>1, <2>3 DEF ProxyAfter, UpgradeTo
    <3>2. QED
      BY <1>1, <1>2, <2>1, <2>3, <3>1 DEF ProxyOK
  <2>4. CASE tx.call.op = "transferOwnership"
    <3>1. proxy' = [proxy EXCEPT ![tx.call.to] = [proxy[tx.call.to] EXCEPT !.owner = tx.call.arg]]
      BY <2>1, <2>4 DEF ProxyAfter
    <3>2. tx.from = proxy[tx.call.to].owner
      BY <1>4, <2>4 DEF CallReverts
    <3>3. QED
      BY <1>1, <1>2, <2>1, <2>4, <3>1, <3>2 DEF ProxyOK
  <2>5. CASE tx.call.op \notin {"changeAdmin", "upgradeTo", "transferOwnership"}
    <3>1. proxy' = proxy
      BY <2>1, <2>5 DEF ProxyAfter
    <3>2. QED
      BY <1>2, <2>1, <2>5, <3>1
  <2>6. QED
    BY <2>2, <2>3, <2>4, <2>5
<1>5. QED
  BY <1>3, <1>4

(***************************************************************************)
(* Steps of a task that leave the chain alone.                             *)
(***************************************************************************)

ChainStays == UNCHANGED << env, proxy, flags, mempool, mined, reverted >>

\* The task goes on with the same job and the same records.
SameJob ==
    /\ script'.job = script.job /\ script'.jobs = script.jobs
    /\ script'.report = script.report

LEMMA JobsStay ==
    ASSUME JobsOK, SameJob,
           Running \/ (script'.status = script.status /\ script'.input = script.input),
           Running' => Running
    PROVE  JobsOK'
BY DEF JobsOK, SameJob, Running, Moving

LEMMA SendersStay ==
    ASSUME SendersOK, env' = env, mempool' \subseteq mempool
    PROVE  SendersOK'
BY DEF SendersOK, OwnershipIsLeftAlone

LEMMA RecordsStay ==
    ASSUME RecordsOK, ChainStays, script'.report \subseteq script.report
    PROVE  RecordsOK'
<1> SUFFICES ASSUME NEW r \in script'.report,
                    Concerned(r.job, r.input)
             PROVE  /\ r.job = "change-admin-address" => AdminRecordOK(r)'
                    /\ r.job = "transfer-ownership" => OwnerRecordOK(r)'
  BY DEF RecordsOK, Concerned, OwnershipIsLeftAlone
<1>1. /\ r.job = "change-admin-address" => AdminRecordOK(r)
      /\ r.job = "transfer-ownership" => OwnerRecordOK(r)
  BY DEF RecordsOK
<1>2. QED
  BY <1>1 DEF AdminRecordOK, OwnerRecordOK, Undisturbed, ChainStays

\* What is said of a running job that moves is said of no other.
LEMMA NotMoving ==
    ASSUME JobsOK', SendersOK', RecordsOK', ~(Running' /\ script'.job \in Moving)
    PROVE  MoveInv'
<1>1. MovePlaceOK' /\ FateOK' /\ UnlistedOK'
  BY DEF MovePlaceOK, FateOK, UnlistedOK, Moving, Running
<1>2. QED
  BY <1>1 DEF MoveInv

LEMMA StopMoves ==
    ASSUME MoveInv, ChainStays, Running, SameJob, ~Running'
    PROVE  MoveInv'
<1>1. JobsOK' /\ SendersOK' /\ RecordsOK'
  BY JobsStay, SendersStay, RecordsStay DEF MoveInv, ChainStays, SameJob
<1>2. QED
  BY <1>1, NotMoving

\* The Stop of the model is such a step.
LEMMA StopIsStop ==
    ASSUME ScriptType, NEW status, status # "running", Stop(status)
    PROVE  SameJob /\ ~Running'
BY DEF ScriptType, Stop, SameJob, Running

\* A job that is over leaves its record to the next.
LEMMA EndJobMoves ==
    ASSUME MoveInv, ScriptType, ChainStays, Running, script.job \in Moving,
           NEW reports, EndJob(reports),
           \A r \in reports :
              /\ r.job = script.job
              /\ r.job = "change-admin-address" /\ Concerned(r.job, r.input) => AdminRecordOK(r)
              /\ r.job = "transfer-ownership" /\ Concerned(r.job, r.input) => OwnerRecordOK(r)
    PROVE  MoveInv'
<1> DEFINE status == IF script.jobs = << >> THEN "done" ELSE "running"
           jobs == IF script.jobs = << >> THEN script.jobs ELSE Tail(script.jobs)
           job == IF script.jobs = << >> THEN script.job ELSE Head(script.jobs)
<1>1. script' = [script EXCEPT !.report = script.report \cup reports, !.status = status,
                   !.jobs = jobs, !.job = job, !.pc = "ask", !.i = 1, !.list = << >>, !.sent = << >>]
  BY DEF EndJob
<1> HIDE DEF status, jobs, job
<1>2. /\ script'.report = script.report \cup reports /\ script'.status = status
      /\ script'.jobs = jobs /\ script'.job = job /\ script'.pc = "ask"
      /\ script'.list = << >> /\ script'.sent = << >>
  BY <1>1 DEF ScriptType
<1>3. \/ /\ status = "done" /\ jobs = << >> /\ job = script.job
      \/ /\ status = "running" /\ jobs = << >> /\ job = "transfer-ownership"
         /\ script.job = "change-admin-address"
  <2>1. Tail(<< "transfer-ownership" >>) = << >> /\ Head(<< "transfer-ownership" >>) = "transfer-ownership"
    OBVIOUS
  <2>2. QED
    BY <2>1 DEF status, jobs, job, MoveInv, JobsOK
<1>4. job \in Moving /\ \A r \in script'.report : r.job \in Moving
  BY <1>2, <1>3 DEF MoveInv, JobsOK, Moving
<1>5. JobsOK'
  BY <1>2, <1>3, <1>4 DEF MoveInv, JobsOK, Running, Moving
<1>6. SendersOK'
  BY SendersStay DEF MoveInv, ChainStays
<1>7. RecordsOK'
  <2> SUFFICES ASSUME NEW r \in script.report \cup reports, Concerned(r.job, r.input)
               PROVE  /\ r.job = "change-admin-address" => AdminRecordOK(r)'
                      /\ r.job = "transfer-ownership" => OwnerRecordOK(r)'
    BY <1>2 DEF RecordsOK, Concerned, OwnershipIsLeftAlone
  <2>1. /\ r.job = "change-admin-address" => AdminRecordOK(r)
        /\ r.job = "transfer-ownership" => OwnerRecordOK(r)
    BY DEF MoveInv, RecordsOK
  <2>2. QED
    BY <2>1 DEF AdminRecordOK, OwnerRecordOK, Undisturbed, ChainStays
<1>8. MovePlaceOK'
  BY <1>2 DEF MovePlaceOK
<1>9. FateOK'
  <2>1. Len(<< >>) = 0
    OBVIOUS
  <2>2. QED
    BY <1>2, <2>1 DEF FateOK, Awaited
<1>10. UnlistedOK'
  BY <1>2 DEF UnlistedOK, LookedAt
<1>11. QED
  BY <1>5, <1>6, <1>7, <1>8, <1>9, <1>10 DEF MoveInv

(***************************************************************************)
(* The moving jobs, step by step.                                          *)
(***************************************************************************)

LEMMA StartMoves == ASSUME Inv, MoveInv, NEW jobs \in JobLists, Start(jobs) PROVE MoveInv'
<1> DEFINE job == Head(jobs)
           status == IF job \notin Moving /\ ~env.chainId THEN "failed" ELSE "running"
           rest == Tail(jobs)
           pc == FirstPc(job)
           alone == mempool = {}
           out == PendingRemovals
<1>1. script' = [NoScript EXCEPT !.jobs = rest, !.job = job, !.pc = pc, !.status = status,
                   !.alone = alone, !.takenOut = out]
  BY DEF Start
<1>2. /\ job \in Moving \cup Excluding \cup Switching
      /\ rest \in {<< >>, << "transfer-ownership" >>}
      /\ rest # << >> => job = "change-admin-address"
  <2>1. CASE jobs = << "change-admin-address", "transfer-ownership" >>
    BY <2>1 DEF Moving
  <2>2. ASSUME NEW j \in Moving \cup Excluding \cup Switching, jobs = << j >>
        PROVE  job = j /\ rest = << >>
    BY <2>2
  <2>3. QED
    BY <2>1, <2>2, JobsAssumption
<1>3. job \in Moving => pc = "ask"
  BY DEF FirstPc, Moving, Switching
<1> HIDE DEF job, status, rest, pc, alone, out
<1>4. /\ script'.jobs = rest /\ script'.job = job /\ script'.pc = pc /\ script'.report = {}
      /\ script'.list = << >> /\ script'.sent = << >>
  BY <1>1 DEF NoScript
<1>5. ChainStays
  BY DEF Start, ChainStays
<1>6. JobsOK'
  BY <1>2, <1>4 DEF JobsOK
<1>7. SendersOK' /\ RecordsOK'
  BY <1>4, <1>5, SendersStay DEF MoveInv, ChainStays, RecordsOK
<1>8. CASE job \notin Moving
  BY <1>4, <1>6, <1>7, <1>8, NotMoving
<1>9. CASE job \in Moving
  <2>1. MovePlaceOK'
    BY <1>3, <1>4, <1>9 DEF MovePlaceOK
  <2>2. FateOK' /\ UnlistedOK'
    BY <1>3, <1>4, <1>9 DEF FateOK, Awaited, UnlistedOK, LookedAt
  <2>3. QED
    BY <1>6, <1>7, <2>1, <2>2 DEF MoveInv
<1>10. QED
  BY <1>8, <1>9

LEMMA AskNewMoves == ASSUME Inv, MoveInv, NEW input, AskNew(input) PROVE MoveInv'
<1>1. /\ ScriptType /\ ChainStays /\ Running
      /\ script.job \in Moving /\ script.pc = "ask"
  BY DEF Inv, ScriptOK, AskNew, At, ChainStays
<1>2. CASE Stop("exited")
  BY <1>1, <1>2, StopIsStop, StopMoves
<1>3. CASE script' = [script EXCEPT !.pc = "list", !.i = 1, !.input = input]
  <2>1. /\ SameJob /\ script'.pc = "list" /\ script'.i = 1 /\ script'.list = script.list
        /\ script'.sent = script.sent
    BY <1>1, <1>3 DEF ScriptType, SameJob
  <2>2. script.list = << >> /\ script.sent = << >>
    BY <1>1 DEF MoveInv, MovePlaceOK
  <2>3. JobsOK' /\ SendersOK' /\ RecordsOK'
    BY <1>1, <2>1, JobsStay, SendersStay, RecordsStay DEF MoveInv, ChainStays, SameJob
  <2>4. MovePlaceOK' /\ FateOK' /\ UnlistedOK'
    BY <2>1, <2>2 DEF MovePlaceOK, FateOK, Awaited, UnlistedOK, LookedAt
  <2>5. QED
    BY <2>3, <2>4 DEF MoveInv
<1>4. QED
  BY <1>2, <1>3 DEF AskNew

LEMMA AppendToOne ==
    ASSUME NEW S, NEW x \in S, NEW y \in S
    PROVE  Append(<< x >>, y) = << x, y >>
<1>1. << x >> \in Seq(S) /\ << x, y >> \in Seq(S)
  OBVIOUS
<1>2. /\ Len(Append(<< x >>, y)) = 2 /\ Append(<< x >>, y) \in Seq(S)
      /\ Append(<< x >>, y)[1] = x /\ Append(<< x >>, y)[2] = y
  BY <1>1, AppendProperties
<1>3. \A i \in 1 .. 2 : i = 1 \/ i = 2
  OBVIOUS
<1>4. Len(<< x, y >>) = 2 /\ << x, y >>[1] = x /\ << x, y >>[2] = y
  OBVIOUS
<1>5. \A i \in 1 .. Len(<< x, y >>) : << x, y >>[i] = Append(<< x >>, y)[i]
  BY <1>2, <1>3, <1>4
<1>6. QED
  BY <1>1, <1>2, <1>4, <1>5, SeqEqual

LEMMA ListNextMoves == ASSUME Inv, MoveInv, ListNext PROVE MoveInv'
<1> DEFINE name == listOfContracts[script.i]
<1>1. /\ ScriptType /\ ChainStays /\ Running /\ script.i \in 1 .. 2
      /\ script.job \in Moving /\ script.pc = "list"
  BY DEF Inv, ScriptOK, PlaceOK, ListNext, At, ChainStays
<1>2. CASE Stop("failed")
  BY <1>1, <1>2, StopIsStop, StopMoves
<1>3. CASE ~Stop("failed")
  <2> DEFINE list == IF Listed(script.job, name) THEN Append(script.list, name) ELSE script.list
             pc == IF script.i = 2 THEN "confirm" ELSE script.pc
  <2>1. script' = [script EXCEPT !.list = list, !.i = script.i + 1, !.pc = pc]
    BY <1>3 DEF ListNext
  <2>2. /\ script.sent = << >>
        /\ script.i = 1 => script.list = << >>
        /\ script.job = "change-admin-address" /\ script.i = 2 => script.list = << "BIBToken" >>
    BY <1>1 DEF MoveInv, MovePlaceOK
  <2>3. script.job = "change-admin-address" =>
          list = IF script.i = 1 THEN << "BIBToken" >> ELSE listOfContracts
    <3>1. Append(<< >>, "BIBToken") = << "BIBToken" >>
      OBVIOUS
    <3>2. Append(<< "BIBToken" >>, "TokenDividendTracker") = listOfContracts
      <4>1. "BIBToken" \in Contracts /\ "TokenDividendTracker" \in Contracts
        BY DEF Contracts
      <4>2. QED
        BY <4>1, AppendToOne, Zenon DEF listOfContracts
    <3>3. listOfContracts[1] = "BIBToken" /\ listOfContracts[2] = "TokenDividendTracker"
      BY DEF listOfContracts
    <3>4. script.job = "change-admin-address" => list = Append(script.list, name)
      BY DEF Listed
    <3>5. CASE script.i = 1
      BY <2>2, <3>1, <3>3, <3>4, <3>5
    <3>6. CASE script.i = 2
      <4>1. script.job = "change-admin-address" => list = Append(<< "BIBToken" >>, "TokenDividendTracker")
        BY <2>2, <3>3, <3>4, <3>6, Zenon
      <4>2. script.i # 1
        BY <3>6
      <4>3. QED
        BY <3>2, <4>1, <4>2, Zenon
    <3>7. QED
      BY <1>1, <3>5, <3>6
  <2>4. pc = IF script.i = 2 THEN "confirm" ELSE "list"
    BY <1>1
  <2>5. script.job = "transfer-ownership" =>
          /\ proxy[name].owner = Deployer => \E k \in DOMAIN list : list[k] = name
          /\ \A k \in DOMAIN script.list : k \in DOMAIN list /\ list[k] = script.list[k]
    <3>1. /\ name \in Contracts /\ script.list \in Seq(Contracts)
          /\ Len(script.list) \in Nat /\ DOMAIN script.list = 1 .. Len(script.list)
      BY <1>1, Names DEF ScriptType
    <3>2. CASE Listed(script.job, name)
      <4>1. list = Append(script.list, name)
        BY <3>2
      <4>2. /\ Len(list) = Len(script.list) + 1 /\ DOMAIN list = 1 .. Len(script.list) + 1
            /\ list[Len(script.list) + 1] = name
            /\ \A k \in 1 .. Len(script.list) : list[k] = script.list[k]
        BY <3>1, <4>1
      <4>3. QED
        BY <3>1, <4>2
    <3>3. CASE ~Listed(script.job, name)
      BY <3>3 DEF Listed
    <3>4. QED
      BY <3>2, <3>3
  <2>6. name \in Contracts /\ (script.i = 2 => Contracts = {listOfContracts[1], name})
        /\ (script.i = 1 => name = listOfContracts[1])
    BY <1>1 DEF Contracts, listOfContracts
  <2> HIDE DEF list, pc, name
  <2>7. /\ SameJob /\ script'.pc = pc /\ script'.list = list /\ script'.i = script.i + 1
        /\ script'.sent = script.sent
    BY <1>1, <2>1 DEF ScriptType, SameJob
  <2>8. JobsOK' /\ SendersOK' /\ RecordsOK'
    BY <1>1, <2>7, JobsStay, SendersStay, RecordsStay DEF MoveInv, ChainStays, SameJob
  <2>9. MovePlaceOK'
    BY <1>1, <2>2, <2>3, <2>4, <2>7 DEF MovePlaceOK, SameJob
  <2>10. FateOK'
    BY <2>2, <2>4, <2>7 DEF FateOK, Awaited
  <2>11. UnlistedOK'
    <3> SUFFICES ASSUME script.job = "transfer-ownership", OwnershipIsLeftAlone,
                        NEW n \in LookedAt', proxy[n].owner = Deployer
                 PROVE  \E k \in DOMAIN list : list[k] = n
      BY <1>1, <2>7 DEF UnlistedOK, SameJob, OwnershipIsLeftAlone, ChainStays
    <3>1. n = name \/ (n \in LookedAt /\ n # name)
      <4>1. CASE script.i = 1
        <5>1. LookedAt' = {listOfContracts[k] : k \in 1 .. 1}
          BY <2>4, <2>7, <4>1 DEF LookedAt
        <5>2. QED
          BY <2>6, <4>1, <5>1
      <4>2. CASE script.i = 2
        <5>1. LookedAt' = Contracts
          BY <2>4, <2>7, <4>2 DEF LookedAt
        <5>2. LookedAt = {listOfContracts[k] : k \in 1 .. 1}
          BY <1>1, <4>2 DEF LookedAt
        <5>3. QED
          BY <2>6, <4>2, <5>1, <5>2
      <4>3. QED
        BY <1>1, <4>1, <4>2
    <3>2. CASE n = name
      BY <2>5, <3>2
    <3>3. CASE n \in LookedAt
      <4>1. PICK k \in DOMAIN script.list : script.list[k] = n
        BY <1>1, <3>3 DEF MoveInv, UnlistedOK
      <4>2. QED
        BY <2>5, <4>1
    <3>4. QED
      BY <3>1, <3>2, <3>3
  <2>12. QED
    BY <2>8, <2>9, <2>10, <2>11 DEF MoveInv
<1>4. QED
  BY <1>2, <1>3

LEMMA ConfirmMoves == ASSUME Inv, MoveInv, NEW answers, Confirm(answers) PROVE MoveInv'
<1>1. /\ ScriptType /\ ChainStays /\ Running
      /\ script.job \in Moving /\ script.pc = "confirm"
  BY DEF Inv, ScriptOK, Confirm, At, ChainStays
<1>2. CASE EndJob({})
  BY <1>1, <1>2, EndJobMoves
<1>3. CASE Goto("nonce")
  <2>1. script' = [script EXCEPT !.pc = "nonce", !.i = 1]
    BY <1>3 DEF Goto
  <2>2. /\ SameJob /\ script'.pc = "nonce" /\ script'.list = script.list
        /\ script'.sent = script.sent
    BY <1>1, <2>1 DEF ScriptType, SameJob
  <2>3. /\ script.sent = << >>
        /\ script.job = "change-admin-address" => script.list = listOfContracts
    BY <1>1 DEF MoveInv, MovePlaceOK
  <2>4. JobsOK' /\ SendersOK' /\ RecordsOK'
    BY <1>1, <2>2, JobsStay, SendersStay, RecordsStay DEF MoveInv, ChainStays, SameJob
  <2>5. MovePlaceOK' /\ FateOK'
    BY <2>2, <2>3 DEF MovePlaceOK, FateOK, Awaited, SameJob
  <2>6. UnlistedOK'
    BY <1>1, <2>2 DEF MoveInv, UnlistedOK, LookedAt, SameJob, OwnershipIsLeftAlone, ChainStays
  <2>7. QED
    BY <2>4, <2>5, <2>6 DEF MoveInv
<1>4. QED
  BY <1>2, <1>3 DEF Confirm

LEMMA GetNonceMoves == ASSUME Inv, MoveInv, GetNonce PROVE MoveInv'
<1> DEFINE pc == IF script.list = << >> THEN "wait" ELSE "send"
<1>1. /\ ScriptType /\ ChainStays /\ Running /\ Sender \in Account
      /\ script.job \in Moving /\ script.pc = "nonce"
  BY DEF Inv, ScriptOK, PlaceOK, GetNonce, At, ChainStays
<1>2. script' = [script EXCEPT !.pc = pc, !.i = 1, !.txCount = mined[Sender]]
  BY DEF GetNonce
<1>3. pc \in {"wait", "send"} /\ (pc = "wait" => script.list = << >>)
  OBVIOUS
<1> HIDE DEF pc
<1>4. /\ SameJob /\ script'.pc = pc /\ script'.i = 1 /\ script'.list = script.list
      /\ script'.sent = script.sent /\ script'.txCount = mined[Sender]
  BY <1>1, <1>2 DEF ScriptType, SameJob
<1>5. /\ script.sent = << >>
      /\ script.job = "change-admin-address" => script.list = listOfContracts
  BY <1>1 DEF MoveInv, MovePlaceOK
<1>6. JobsOK' /\ SendersOK' /\ RecordsOK'
  BY <1>1, <1>4, JobsStay, SendersStay, RecordsStay DEF MoveInv, ChainStays, SameJob
<1>7. Sender' = Sender /\ mined[Sender] \in Nat /\ mined' = mined
  BY <1>1, <1>4 DEF Sender, SameJob, ChainStays, Inv
<1>8. MovePlaceOK'
  BY <1>3, <1>4, <1>5, <1>7 DEF MovePlaceOK, SameJob
<1>9. FateOK'
  BY <1>3, <1>4, <1>5 DEF FateOK, Awaited
<1>10. UnlistedOK'
  BY <1>1, <1>3, <1>4 DEF MoveInv, UnlistedOK, LookedAt, SameJob, OwnershipIsLeftAlone, ChainStays
<1>11. QED
  BY <1>6, <1>8, <1>9, <1>10 DEF MoveInv

\* At its first transaction a moving job finds nothing of its sender pending.
LEMMA FirstOfSender ==
    ASSUME Inv, Sender \in Account, script.txCount \in Nat, script.txCount <= mined[Sender],
           ~NonceTaken(Sender, script.txCount), NEW tx \in mempool
    PROVE  tx.from # Sender
<1>1. mined[Sender] \in Nat /\ Cardinality(Of(mempool, Sender)) \in Nat
      /\ IsFiniteSet(Of(mempool, Sender))
  BY OfIsFinite DEF Inv, PoolOK
<1>2. script.txCount <= PendingCount(Sender)
  BY <1>1, PendingCountIs
<1>3. script.txCount = mined[Sender] + Cardinality(Of(mempool, Sender))
  BY <1>2, FreeNonce
<1>4. Cardinality(Of(mempool, Sender)) = 0
  BY <1>1, <1>3
<1>5. Of(mempool, Sender) = {}
  BY <1>1, <1>4, FS_EmptySet
<1>6. QED
  BY <1>5 DEF Of

LEMMA SendNextMoves == ASSUME Inv, MoveInv, SendNext PROVE MoveInv'
<1> DEFINE call == MoveCall(script.list[script.i])
           last == script.i = Len(script.list)
           tx == [from |-> Sender, nonce |-> script.txCount, call |-> call]
<1>1. /\ ScriptType /\ Running /\ Sender \in Account
      /\ script.job \in Moving /\ script.pc = "send"
      /\ script.i \in 1 .. Len(script.list) /\ Len(script.list) \in Nat
      /\ script.txCount \in Nat
      /\ UNCHANGED << env, proxy, flags, mined, reverted >>
  BY DEF Inv, ScriptOK, ScriptType, PlaceOK, SendNext, At
<1>2. /\ script.sent \in Seq(Nat) /\ Len(script.sent) = script.i - 1
      /\ script.i = 1 => script.txCount <= mined[Sender]
      /\ script.job = "change-admin-address" => script.list = listOfContracts
  BY <1>1 DEF MoveInv, MovePlaceOK
<1>3. CASE Stop("failed") /\ UNCHANGED mempool
  BY <1>1, <1>3, StopIsStop, StopMoves DEF ChainStays
<1>4. CASE ~(Stop("failed") /\ UNCHANGED mempool)
  <2> DEFINE sent == Append(script.sent, script.txCount)
             i == IF last THEN 1 ELSE script.i + 1
             pc == IF last THEN "wait" ELSE script.pc
  <2>1. /\ ~NonceTaken(Sender, script.txCount) /\ mempool' = mempool \cup {tx}
        /\ script' = [script EXCEPT !.sent = sent, !.txCount = script.txCount + 1,
                        !.i = i, !.pc = pc]
    BY <1>4 DEF SendNext, Submit
  <2>2. /\ sent \in Seq(Nat) /\ Len(sent) = script.i
        /\ \A k \in 1 .. script.i - 1 : sent[k] = script.sent[k]
        /\ sent[script.i] = script.txCount
    BY <1>1, <1>2, AppendProperties
  <2>3. \/ pc = "wait" /\ i = 1 /\ script.i = Len(script.list)
        \/ pc = "send" /\ i = script.i + 1
    BY <1>1
  <2>4. /\ call.op = IF script.job = "change-admin-address" THEN "changeAdmin" ELSE "transferOwnership"
        /\ call.arg = script.input
    BY DEF MoveCall, Call
  <2> HIDE DEF sent, i, pc, call, last
  <2>5. /\ SameJob /\ script'.pc = pc /\ script'.i = i /\ script'.list = script.list
        /\ script'.sent = sent /\ script'.input = script.input /\ script'.status = script.status
    BY <1>1, <2>1 DEF ScriptType, SameJob
  <2>6. Sender' = Sender /\ \A name : MoveCall(name)' = MoveCall(name)
    BY <1>1, <2>5 DEF Sender, SameJob, MoveCall
  <2>7. JobsOK'
    BY <1>1, <2>5, JobsStay DEF MoveInv
  <2>8. tx.from = Sender /\ tx.call = call /\ Sender \in {Deployer, env.adminKey}
        /\ (script.job = "transfer-ownership" => Sender = Deployer)
    BY DEF Sender
  <2>9. SendersOK'
    <3>1. \A t \in mempool' : t = tx \/ t \in mempool
      BY <2>1
    <3>2. tx.call.op = "transferOwnership" => tx.from = Deployer
      BY <1>1, <2>4, <2>8 DEF Moving
    <3>3. QED
      BY <1>1, <2>8, <3>1, <3>2 DEF MoveInv, SendersOK, OwnershipIsLeftAlone
  <2>10. MovePlaceOK'
    BY <1>1, <1>2, <2>2, <2>3, <2>5 DEF MovePlaceOK, SameJob
  <2>11. UnlistedOK'
    BY <1>1, <2>3, <2>5 DEF MoveInv, UnlistedOK, LookedAt, SameJob, OwnershipIsLeftAlone
  <2>12. FateOK'
    <3> SUFFICES ASSUME Concerned(script.job, script.input)
                 PROVE  /\ Undisturbed(script.job, script.input, mempool')
                        /\ \A k \in 1 .. Len(sent) : Fate(k)'
      BY <2>3, <2>5 DEF FateOK, Awaited, SameJob, Concerned, OwnershipIsLeftAlone
    <3>1. Undisturbed(script.job, script.input, mempool)
      <4>1. CASE script.i = 1
        <5> SUFFICES ASSUME NEW t \in mempool
                     PROVE  IF script.job = "change-admin-address"
                            THEN t.from = script.input /\ t.call.op = "changeAdmin"
                                   => t.call.arg = script.input
                            ELSE t.call.op = "transferOwnership" => t.call.arg = script.input
          BY DEF Undisturbed
        <5>1. t.from # Sender
          BY <1>1, <1>2, <2>1, <4>1, FirstOfSender
        <5>2. t.from \in {Deployer, Admin, env.adminKey}
          BY DEF MoveInv, SendersOK
        <5>3. CASE script.job = "change-admin-address"
          BY <5>1, <5>2, <5>3 DEF Concerned, Sender
        <5>4. CASE script.job = "transfer-ownership"
          BY <2>8, <5>1, <5>4 DEF Concerned, MoveInv, SendersOK
        <5>5. QED
          BY <1>1, <5>3, <5>4 DEF Moving
      <4>2. CASE script.i # 1
        <5>1. script.sent # << >>
          <6>1. Len(<< >>) = 0
            OBVIOUS
          <6>2. QED
            BY <1>1, <1>2, <4>2, <6>1
        <5>2. QED
          BY <1>1, <5>1 DEF MoveInv, FateOK
      <4>3. QED
        BY <4>1, <4>2
    <3>2. Undisturbed(script.job, script.input, mempool')
      BY <2>1, <2>4, <2>8, <3>1 DEF Undisturbed
    <3>3. ASSUME NEW k \in 1 .. script.i - 1 PROVE Fate(k)'
      <4>1. Fate(k) /\ sent[k] = script.sent[k]
        BY <1>1, <1>2, <2>2, <3>3 DEF MoveInv, FateOK
      <4>2. QED
        BY <1>1, <2>1, <2>5, <2>6, <4>1 DEF Fate, Moved, SameJob
    <3>4. ASSUME NEW k, k = script.i PROVE Fate(k)'
      BY <2>1, <2>2, <2>5, <2>6, <3>4 DEF Fate, call
    <3>5. \A k \in 1 .. Len(sent) : k = script.i \/ k \in 1 .. script.i - 1
      BY <1>1, <2>2
    <3>6. QED
      BY <3>2, <3>3, <3>4, <3>5
  <2>13. RecordsOK'
    <3> SUFFICES ASSUME NEW r \in script.report, Concerned(r.job, r.input)
                 PROVE  r.job = "change-admin-address" /\ AdminRecordOK(r)'
      BY <2>5 DEF RecordsOK, SameJob, Concerned, OwnershipIsLeftAlone
    <3>1. script.job = "transfer-ownership" /\ r.job = "change-admin-address"
      BY <1>1 DEF MoveInv, JobsOK, Moving
    <3>2. AdminRecordOK(r)
      BY <3>1 DEF MoveInv, RecordsOK
    <3>3. tx.call.op # "changeAdmin"
      BY <2>4, <2>8, <3>1
    <3>4. Undisturbed("change-admin-address", r.input, mempool')
      BY <2>1, <3>2, <3>3 DEF AdminRecordOK, Undisturbed
    <3>5. QED
      BY <1>1, <3>1, <3>2, <3>4 DEF AdminRecordOK
  <2>14. QED
    BY <2>7, <2>9, <2>10, <2>11, <2>12, <2>13 DEF MoveInv
<1>5. QED
  BY <1>3, <1>4

LEMMA WaitNextMoves == ASSUME Inv, MoveInv, WaitNext PROVE MoveInv'
<1> DEFINE r == [job |-> script.job, input |-> script.input,
                 moved |-> {script.list[n] : n \in DOMAIN script.list}]
<1>1. /\ ScriptType /\ Running /\ ChainStays /\ Sender \in Account
      /\ script.job \in Moving /\ script.pc = "wait"
  BY DEF Inv, ScriptOK, PlaceOK, WaitNext, At, ChainStays
<1>2. /\ script.sent \in Seq(Nat) /\ Len(script.sent) \in Nat
      /\ Len(script.sent) = Len(script.list)
      /\ script.i \in 1 .. Len(script.sent) + 1
      /\ script.job = "change-admin-address" => script.list = listOfContracts
  BY <1>1 DEF MoveInv, MovePlaceOK
<1>3. Concerned(script.job, script.input) =>
        /\ script.sent # << >> => Undisturbed(script.job, script.input, mempool)
        /\ \A k \in 1 .. script.i - 1 : Moved(script.job, script.input, script.list[k])
  BY <1>1 DEF MoveInv, FateOK, Awaited
<1>4. CASE EndJob({r}) /\ script.i > Len(script.sent) /\ script.job = "change-admin-address"
  <2>1. script.i - 1 = Len(script.sent)
    BY <1>2, <1>4
  <2>2. Concerned(r.job, r.input) => AdminRecordOK(r)
    <3> SUFFICES ASSUME Concerned(script.job, script.input)
                 PROVE  /\ \A name \in Contracts : proxy[name].admin = script.input
                        /\ Undisturbed("change-admin-address", script.input, mempool)
      BY DEF AdminRecordOK
    <3>1. /\ Len(listOfContracts) = 2 /\ listOfContracts[1] = "BIBToken"
          /\ listOfContracts[2] = "TokenDividendTracker"
      BY DEF listOfContracts
    <3>2. Len(script.sent) = 2
      BY <1>2, <1>4, <3>1
    <3>3. script.sent # << >>
      <4>1. script.sent = << >> => Len(script.sent) = 0
        OBVIOUS
      <4>2. QED
        BY <3>2, <4>1
    <3>4. /\ Moved(script.job, script.input, script.list[1])
          /\ Moved(script.job, script.input, script.list[2])
      BY <1>3, <2>1, <3>2
    <3>5. script.list[1] = "BIBToken" /\ script.list[2] = "TokenDividendTracker"
      BY <1>2, <1>4, <3>1
    <3>6. /\ proxy["BIBToken"].admin = script.input
          /\ proxy["TokenDividendTracker"].admin = script.input
      BY <1>4, <3>4, <3>5 DEF Moved
    <3>7. Undisturbed("change-admin-address", script.input, mempool)
      BY <1>3, <1>4, <3>3
    <3>8. QED
      BY <3>6, <3>7 DEF Contracts
  <2>3. r.job = script.job
    OBVIOUS
  <2> HIDE DEF r
  <2>4. QED
    BY <1>1, <1>4, <2>2, <2>3, EndJobMoves
<1>5. CASE /\ Goto("owners") /\ script.i > Len(script.sent)
           /\ script.job = "transfer-ownership"
  <2>1. script' = [script EXCEPT !.pc = "owners", !.i = 1]
    BY <1>5 DEF Goto
  <2>2. /\ SameJob /\ script'.pc = "owners" /\ script'.list = script.list
        /\ script'.sent = script.sent /\ script'.input = script.input
        /\ script'.status = script.status
    BY <1>1, <2>1 DEF ScriptType, SameJob
  <2>3. script.i - 1 = Len(script.sent)
    BY <1>2, <1>5
  <2>4. JobsOK' /\ SendersOK' /\ RecordsOK'
    BY <1>1, <2>2, JobsStay, SendersStay, RecordsStay DEF MoveInv, ChainStays, SameJob
  <2>5. MovePlaceOK'
    BY <1>2, <1>5, <2>2 DEF MovePlaceOK, SameJob
  <2>6. UnlistedOK'
    BY <1>1, <2>2 DEF MoveInv, UnlistedOK, LookedAt, SameJob, OwnershipIsLeftAlone, ChainStays
  <2>7. \A k : Fate(k) => Fate(k)'
    <3>1. Sender' = Sender /\ \A name : MoveCall(name)' = MoveCall(name)
      BY <1>1, <2>2 DEF Sender, SameJob, MoveCall, ChainStays
    <3>2. QED
      BY <1>1, <2>2, <3>1 DEF Fate, Moved, SameJob, ChainStays
  <2>8. FateOK'
    <3>1. Awaited' = Len(script.sent)
      BY <2>2 DEF Awaited
    <3>2. QED
      BY <1>1, <1>3, <2>2, <2>3, <2>7, <3>1 DEF MoveInv, FateOK, Undisturbed, Concerned, Moved,
         OwnershipIsLeftAlone, SameJob, ChainStays
  <2>9. QED
    BY <2>4, <2>5, <2>6, <2>8 DEF MoveInv
<1>6. CASE Stop("failed")
  BY <1>1, <1>6, StopIsStop, StopMoves
<1>7. CASE /\ ~(script.i > Len(script.sent))
           /\ mined[Sender] > script.sent[script.i]
           /\ << Sender, script.sent[script.i] >> \notin reverted
           /\ script' = [script EXCEPT !.i = @ + 1]
  <2>1. /\ SameJob /\ script'.pc = "wait" /\ script'.i = script.i + 1
        /\ script'.list = script.list /\ script'.sent = script.sent
        /\ script'.input = script.input /\ script'.status = script.status
    BY <1>1, <1>7 DEF ScriptType, SameJob
  <2>2. script.i \in 1 .. Len(script.sent) /\ script.sent[script.i] \in Nat
    BY <1>2, <1>7
  <2>3. Concerned(script.job, script.input) =>
          Moved(script.job, script.input, script.list[script.i])
    <3> SUFFICES ASSUME Concerned(script.job, script.input)
                 PROVE  Moved(script.job, script.input, script.list[script.i])
      OBVIOUS
    <3> DEFINE tx == [from |-> Sender, nonce |-> script.sent[script.i],
                      call |-> MoveCall(script.list[script.i])]
    <3>1. Fate(script.i)
      BY <1>1, <2>2 DEF MoveInv, FateOK
    <3>2. tx \notin mempool
      <4>1. tx.from = Sender /\ tx.nonce = script.sent[script.i]
        OBVIOUS
      <4> HIDE DEF tx
      <4>2. tx \in mempool => mined[Sender] \in Nat /\ mined[Sender] <= script.sent[script.i]
        BY <4>1, PendingIsNotMined
      <4>3. QED
        BY <1>7, <2>2, <4>2
    <3>3. QED
      BY <1>7, <3>1, <3>2 DEF Fate
  <2>4. JobsOK' /\ SendersOK' /\ RecordsOK'
    BY <1>1, <2>1, JobsStay, SendersStay, RecordsStay DEF MoveInv, ChainStays, SameJob
  <2>5. MovePlaceOK'
    BY <1>1, <1>2, <2>1, <2>2 DEF MovePlaceOK, SameJob
  <2>6. UnlistedOK'
    BY <1>1, <2>1 DEF MoveInv, UnlistedOK, LookedAt, SameJob, OwnershipIsLeftAlone, ChainStays
  <2>7. FateOK'
    <3> SUFFICES ASSUME Concerned(script.job, script.input)
                 PROVE  /\ script.sent # << >> => Undisturbed(script.job, script.input, mempool)
                        /\ \A k \in 1 .. Len(script.sent) : Fate(k)'
                        /\ \A k \in 1 .. script.i : Moved(script.job, script.input, script.list[k])'
      BY <1>1, <1>2, <2>1, <2>2 DEF FateOK, Awaited, SameJob, Concerned, OwnershipIsLeftAlone, ChainStays
    <3>1. ASSUME NEW k \in 1 .. Len(script.sent) PROVE Fate(k)'
      <4>1. Fate(k)
        BY <1>1 DEF MoveInv, FateOK
      <4>2. Sender' = Sender /\ \A name : MoveCall(name)' = MoveCall(name)
        BY <1>1, <2>1 DEF Sender, SameJob, MoveCall, ChainStays
      <4>3. QED
        BY <1>1, <2>1, <4>1, <4>2 DEF Fate, Moved, SameJob, ChainStays
    <3>2. ASSUME NEW k \in 1 .. script.i PROVE Moved(script.job, script.input, script.list[k])'
      <4>1. k = script.i \/ k \in 1 .. script.i - 1
        BY <1>2
      <4>2. Moved(script.job, script.input, script.list[k])
        BY <1>3, <2>3, <4>1
      <4>3. QED
        BY <1>1, <2>1, <4>2 DEF Moved, SameJob, ChainStays
    <3>3. QED
      BY <1>3, <3>1, <3>2
  <2>8. QED
    BY <2>4, <2>5, <2>6, <2>7 DEF MoveInv
<1>8. QED
  BY <1>1, <1>4, <1>6, <1>7, <1>5 DEF WaitNext, Success, Moving

LEMMA ReadOwnerNextMoves == ASSUME Inv, MoveInv, ReadOwnerNext PROVE MoveInv'
<1> DEFINE r == [job |-> script.job, input |-> script.input,
                 moved |-> {script.list[n] : n \in DOMAIN script.list}]
<1>1. /\ ScriptType /\ Running /\ ChainStays
      /\ script.job = "transfer-ownership" /\ script.job \in Moving /\ script.pc = "owners"
  BY DEF Inv, ScriptOK, ReadOwnerNext, At, ChainStays, Moving
<1>2. /\ script.sent \in Seq(Nat) /\ Len(script.sent) \in Nat
      /\ Len(script.sent) = Len(script.list) /\ Awaited = Len(script.sent)
      /\ script.list \in Seq(Contracts) /\ DOMAIN script.list = 1 .. Len(script.sent)
  BY <1>1 DEF MoveInv, MovePlaceOK, ScriptType, Awaited
<1>3. OwnershipIsLeftAlone =>
        /\ script.sent # << >> => Undisturbed(script.job, script.input, mempool)
        /\ \A k \in 1 .. Len(script.sent) : Moved(script.job, script.input, script.list[k])
  BY <1>1, <1>2 DEF MoveInv, FateOK, Concerned
<1>4. CASE EndJob({r})
  <2>1. Concerned(r.job, r.input) => OwnerRecordOK(r)
    <3> SUFFICES ASSUME OwnershipIsLeftAlone
                 PROVE  OwnerRecordOK(r)
      BY <1>1 DEF Concerned
    <3>1. \A k \in DOMAIN script.list :
            script.list[k] \in Contracts /\ proxy[script.list[k]].owner = script.input
      BY <1>1, <1>2, <1>3 DEF Moved
    <3>2. r.moved # {} => script.sent # << >>
      <4>1. Len(<< >>) = 0
        OBVIOUS
      <4>2. QED
        BY <1>2, <4>1
    <3>3. \A name \in Contracts :
            proxy[name].owner = Deployer => proxy[name].owner = script.input
      <4>1. LookedAt = Contracts
        BY <1>1 DEF LookedAt
      <4>2. QED
        BY <1>1, <3>1, <4>1 DEF MoveInv, UnlistedOK
    <3>4. QED
      BY <1>1, <1>3, <3>1, <3>2, <3>3 DEF OwnerRecordOK
  <2>2. r.job = script.job
    OBVIOUS
  <2> HIDE DEF r
  <2>3. QED
    BY <1>1, <1>4, <2>1, <2>2, EndJobMoves
<1>5. CASE Stop("failed")
  BY <1>1, <1>5, StopIsStop, StopMoves
<1>6. CASE script' = [script EXCEPT !.i = @ + 1]
  <2>1. /\ SameJob /\ script'.pc = "owners" /\ script'.list = script.list
        /\ script'.sent = script.sent /\ script'.input = script.input
        /\ script'.status = script.status
    BY <1>1, <1>6 DEF ScriptType, SameJob
  <2>2. JobsOK' /\ SendersOK' /\ RecordsOK'
    BY <1>1, <2>1, JobsStay, SendersStay, RecordsStay DEF MoveInv, ChainStays, SameJob
  <2>3. MovePlaceOK'
    BY <1>1, <1>2, <2>1 DEF MovePlaceOK, SameJob
  <2>4. UnlistedOK'
    BY <1>1, <2>1 DEF MoveInv, UnlistedOK, LookedAt, SameJob, OwnershipIsLeftAlone, ChainStays
  <2>5. FateOK'
    <3>1. Sender' = Sender /\ \A name : MoveCall(name)' = MoveCall(name)
      BY <1>1, <2>1 DEF Sender, SameJob, MoveCall, ChainStays
    <3>2. \A k : Fate(k) => Fate(k)'
      BY <1>1, <2>1, <3>1 DEF Fate, Moved, SameJob, ChainStays
    <3>3. Awaited' = Awaited
      BY <1>1, <2>1 DEF Awaited
    <3>4. QED
      BY <1>1, <2>1, <3>2, <3>3 DEF MoveInv, FateOK, Undisturbed, Concerned, Moved,
         OwnershipIsLeftAlone, SameJob, ChainStays
  <2>6. QED
    BY <2>2, <2>3, <2>4, <2>5 DEF MoveInv
<1>7. QED
  BY <1>4, <1>5, <1>6 DEF ReadOwnerNext, Success

(***************************************************************************)
(* The other jobs, the chain and the console.                              *)
(***************************************************************************)

\* What the other jobs do to their own state.
LEMMA OthersMove ==
    ASSUME MoveInv, Running, script.job \in Excluding \cup Switching, ScriptType,
           SendersOK', UNCHANGED << env, proxy, reverted >>,
           \/ SameJob
           \/ script' = NextItem(script)
    PROVE  MoveInv'
<1>1. script.job \notin Moving /\ script.report = {}
  BY DEF MoveInv, JobsOK, Running, Moving, Excluding, Switching
<1>2. CASE SameJob
  <2>1. JobsOK'
    BY <1>1, <1>2 DEF MoveInv, JobsOK, SameJob, Running, Moving
  <2>2. RecordsOK'
    BY <1>1, <1>2 DEF RecordsOK, SameJob
  <2>3. QED
    BY <1>1, <1>2, <2>1, <2>2, NotMoving DEF SameJob
<1>3. CASE script' = NextItem(script) /\ ~SameJob
  <2>1. script.i = Len(Items(script.job))
    BY <1>3 DEF NextItem, ScriptType, SameJob
  <2>2. /\ script'.job = script.job /\ script'.jobs = script.jobs /\ script'.status = "done"
        /\ script'.input = script.input
        /\ script'.report = {[job |-> script.job, input |-> script.input, moved |-> {}]}
    <3> DEFINE report == {[job |-> script.job, input |-> script.input, moved |-> {}]}
    <3>1. script' = [script EXCEPT !.status = "done", !.report = report]
      BY <1>3, <2>1 DEF NextItem
    <3> HIDE DEF report
    <3>2. /\ script'.job = script.job /\ script'.jobs = script.jobs /\ script'.status = "done"
          /\ script'.input = script.input /\ script'.report = report
      BY <3>1 DEF ScriptType
    <3>3. QED
      BY <3>2 DEF report
  <2>3. JobsOK'
    <3>1. \A r \in script'.report : r.job = script.job /\ r.input = script.input
      BY <2>2
    <3>2. ~Running' /\ script.jobs = << >>
      BY <1>1, <2>2 DEF Running, MoveInv, JobsOK, Moving
    <3>3. QED
      BY <1>1, <2>2, <3>1, <3>2 DEF MoveInv, JobsOK
  <2>4. RecordsOK'
    BY <1>1, <2>2 DEF RecordsOK, Moving
  <2>5. QED
    BY <1>1, <2>2, <2>3, <2>4, NotMoving
<1>4. QED
  BY <1>2, <1>3

LEMMA OtherStepsMove ==
    ASSUME Inv, MoveInv, (\E input : AskAddress(input)) \/ Check \/ Set \/ Await
    PROVE  MoveInv'
<1>1. /\ ScriptType /\ Running /\ script.job \in Excluding \cup Switching
      /\ UNCHANGED << env, proxy, reverted >>
  BY DEF Inv, ScriptOK, At, AskAddress, Check, Set, Await
<1>2. SendersOK'
  <2>1. CASE mempool' = mempool
    BY <1>1, <2>1, SendersStay DEF MoveInv
  <2>2. CASE Set /\ Submit(Deployer, PendingCount(Deployer), ItemCall)
    <3>1. ItemCall.op = Item
      BY DEF ItemCall, Setter, Call
    <3>2. script.i \in 1 .. Len(Items(script.job))
      BY <2>2 DEF Inv, ScriptOK, PlaceOK, Set, At
    <3>3. ItemCall.op # "transferOwnership"
      BY <1>1, <3>1, <3>2, ItemsAre DEF Item, ListNames
    <3> DEFINE tx == [from |-> Deployer, nonce |-> PendingCount(Deployer), call |-> ItemCall]
    <3>4. mempool' = mempool \cup {tx}
      BY <2>2 DEF Submit
    <3>5. tx.from = Deployer /\ tx.call.op # "transferOwnership"
      BY <3>3
    <3> HIDE DEF tx
    <3>6. QED
      BY <1>1, <3>4, <3>5 DEF MoveInv, SendersOK, OwnershipIsLeftAlone
  <2>3. QED
    BY <2>1, <2>2 DEF AskAddress, Check, Set, Await
<1>3. SameJob \/ script' = NextItem(script)
  BY <1>1 DEF AskAddress, Check, Set, Await, Stop, SameJob, ScriptType
<1>4. QED
  BY <1>1, <1>2, <1>3, OthersMove

LEMMA KillMoves == ASSUME Inv, MoveInv, Kill PROVE MoveInv'
BY StopIsStop, StopMoves DEF Inv, ScriptOK, Kill, ChainStays

\* What has been moved is only undone by those who have nothing pending for it.
LEMMA MovedStays ==
    ASSUME Inv, SendersOK, NEW tx \in mempool, Mine(tx), NEW job \in Moving, NEW input,
           Undisturbed(job, input, mempool), NEW name \in Contracts,
           Moved(job, input, name)
    PROVE  Moved(job, input, name)'
BY MineEffect DEF Moved, Undisturbed, Moving

\* A contract that the deployer gave away does not come back.
LEMMA GivenAwayStays ==
    ASSUME Inv, SendersOK, OwnershipIsLeftAlone, NEW tx \in mempool, Mine(tx),
           NEW name \in Contracts, proxy'[name].owner = Deployer
    PROVE  proxy[name].owner = Deployer
<1>1. tx.call.op = "transferOwnership" => tx.from = Deployer
  BY DEF SendersOK
<1>2. proxy'[name].owner # proxy[name].owner =>
        tx.call.op = "transferOwnership" /\ tx.from = proxy[name].owner
  BY MineEffect
<1>3. QED
  BY <1>1, <1>2

LEMMA MineMoves == ASSUME Inv, MoveInv, NEW tx \in mempool, Mine(tx) PROVE MoveInv'
<1>1. /\ env' = env /\ script' = script /\ mempool' = mempool \ {tx} /\ mempool' \subseteq mempool
      /\ reverted \subseteq reverted'
  BY MineEffect
<1>2. JobsOK'
  BY <1>1 DEF MoveInv, JobsOK, Running
<1>3. SendersOK'
  BY <1>1, SendersStay DEF MoveInv
<1>4. Sender' = Sender
  BY <1>1 DEF Sender
<1>5. MovePlaceOK'
  <2> SUFFICES ASSUME Running, script.job \in Moving, script.pc = "send", script.i = 1
               PROVE  script.txCount <= mined'[Sender]
    BY <1>1, <1>4 DEF MoveInv, MovePlaceOK, Running
  <2>1. script.txCount \in Nat /\ Sender \in Account /\ script.txCount <= mined[Sender]
    BY DEF Inv, ScriptOK, PlaceOK, MoveInv, MovePlaceOK
  <2>2. mined'[Sender] \in Nat /\ mined[Sender] \in Nat /\ mined[Sender] <= mined'[Sender]
    BY <2>1 DEF Mine, Inv
  <2>3. QED
    BY <2>1, <2>2
<1>6. \A job, input : Undisturbed(job, input, mempool) => Undisturbed(job, input, mempool')
  BY <1>1 DEF Undisturbed
<1>7. FateOK'
  <2> SUFFICES ASSUME Running, script.job \in Moving, Concerned(script.job, script.input)
               PROVE  /\ script.sent # << >> => Undisturbed(script.job, script.input, mempool')
                      /\ \A k \in 1 .. Len(script.sent) : Fate(k)'
                      /\ \A k \in 1 .. Awaited : Moved(script.job, script.input, script.list[k])'
    BY <1>1 DEF FateOK, Awaited, Concerned, OwnershipIsLeftAlone, Running
  <2>1. /\ script.sent # << >> => Undisturbed(script.job, script.input, mempool)
        /\ \A k \in 1 .. Len(script.sent) : Fate(k)
        /\ \A k \in 1 .. Awaited : Moved(script.job, script.input, script.list[k])
    BY DEF MoveInv, FateOK
  <2>2. /\ script.sent \in Seq(Nat) /\ Len(script.sent) \in Nat
        /\ script.list \in Seq(Contracts) /\ DOMAIN script.list = 1 .. Len(script.list)
        /\ script.pc \in {"send", "wait", "owners"} => Len(script.sent) <= Len(script.list)
        /\ script.pc \notin {"send", "wait", "owners"} => script.sent = << >>
        /\ Awaited \in Int /\ Awaited <= Len(script.sent)
    <3>1. Len(script.list) \in Nat /\ script.list \in Seq(Contracts)
      BY DEF Inv, ScriptOK, ScriptType
    <3>2. script.pc = "send" => script.i \in 1 .. Len(script.list)
      BY DEF Inv, ScriptOK, PlaceOK
    <3>3. QED
      BY <3>1, <3>2 DEF MoveInv, MovePlaceOK, Awaited
  <2>3. ASSUME NEW k \in 1 .. Len(script.sent),
               Moved(script.job, script.input, script.list[k])
        PROVE  Moved(script.job, script.input, script.list[k])'
    <3>1. script.sent # << >> /\ Len(script.sent) <= Len(script.list)
      <4>1. Len(<< >>) = 0
        OBVIOUS
      <4>2. script.sent # << >>
        BY <2>2, <4>1
      <4>3. QED
        BY <2>2, <4>2
    <3>2. script.list[k] \in Contracts
      BY <2>2, <3>1
    <3>3. PICK name \in Contracts, job \in Moving, input \in {script.input} :
            name = script.list[k] /\ input = script.input /\ job = script.job
      BY <3>2
    <3>4. Moved(job, input, name)'
      BY <2>1, <2>3, <3>1, <3>3, MovedStays DEF MoveInv
    <3>5. QED
      BY <1>1, <3>3, <3>4 DEF Moved
  <2>4. ASSUME NEW k \in 1 .. Len(script.sent) PROVE Fate(k)'
    <3> DEFINE t == [from |-> Sender, nonce |-> script.sent[k], call |-> MoveCall(script.list[k])]
    <3>1. \A name : MoveCall(name)' = MoveCall(name)
      BY <1>1 DEF MoveCall
    <3>2. CASE t \in mempool /\ t # tx
      BY <1>1, <1>4, <3>1, <3>2 DEF Fate
    <3>3. CASE t = tx
      <4>1. /\ tx.from = Sender /\ tx.nonce = script.sent[k] /\ tx.call.to = script.list[k]
            /\ tx.call.arg = script.input
            /\ tx.call.op = IF script.job = "change-admin-address" THEN "changeAdmin"
                            ELSE "transferOwnership"
        BY <3>3 DEF MoveCall, Call
      <4>2. \/ << tx.from, tx.nonce >> \in reverted'
            \/ /\ tx.call.op = "changeAdmin" => proxy'[tx.call.to].admin = tx.call.arg
               /\ tx.call.op = "transferOwnership" => proxy'[tx.call.to].owner = tx.call.arg
        BY MineEffect
      <4> HIDE DEF t
      <4>3. QED
        BY <1>1, <1>4, <4>1, <4>2 DEF Fate, Moved, Moving
    <3>4. CASE << Sender, script.sent[k] >> \in reverted
      BY <1>1, <1>4, <3>4 DEF Fate
    <3>5. CASE Moved(script.job, script.input, script.list[k])
      BY <2>3, <3>5 DEF Fate
    <3>6. QED
      BY <2>1, <3>2, <3>3, <3>4, <3>5 DEF Fate
  <2>5. \A k \in 1 .. Awaited : Moved(script.job, script.input, script.list[k])'
    <3> SUFFICES ASSUME NEW k \in 1 .. Awaited
                 PROVE  Moved(script.job, script.input, script.list[k])'
      OBVIOUS
    <3>1. k \in 1 .. Len(script.sent)
      BY <2>2
    <3>2. QED
      BY <2>1, <2>3, <3>1
  <2>6. QED
    BY <1>6, <2>1, <2>4, <2>5
<1>8. UnlistedOK'
  <2>1. LookedAt' = LookedAt /\ LookedAt \subseteq Contracts \cup LookedAt
    BY <1>1 DEF LookedAt
  <2>2. Running /\ script.job = "transfer-ownership" => LookedAt \subseteq Contracts
    <3>1. script.pc = "list" /\ Running /\ script.job \in Moving => script.i \in 1 .. 2
      BY DEF Inv, ScriptOK, PlaceOK
    <3>2. QED
      BY <3>1, Names DEF LookedAt, Moving
  <2>3. QED
    BY <1>1, <2>1, <2>2, GivenAwayStays DEF MoveInv, UnlistedOK, OwnershipIsLeftAlone, Running
<1>9. RecordsOK'
  <2> SUFFICES ASSUME NEW r \in script.report, Concerned(r.job, r.input)
               PROVE  /\ r.job = "change-admin-address" => AdminRecordOK(r)'
                      /\ r.job = "transfer-ownership" => OwnerRecordOK(r)'
    BY <1>1 DEF RecordsOK, Concerned, OwnershipIsLeftAlone
  <2>1. /\ r.job = "change-admin-address" => AdminRecordOK(r)
        /\ r.job = "transfer-ownership" => OwnerRecordOK(r)
    BY DEF MoveInv, RecordsOK
  <2>2. ASSUME r.job = "change-admin-address" PROVE AdminRecordOK(r)'
    <3>1. "change-admin-address" \in Moving
      BY DEF Moving
    <3>2. \A name \in Contracts : Moved("change-admin-address", r.input, name)'
      BY <2>1, <2>2, <3>1, MovedStays DEF AdminRecordOK, Moved, MoveInv
    <3>3. QED
      BY <1>6, <2>1, <2>2, <3>2 DEF AdminRecordOK, Moved
  <2>3. ASSUME r.job = "transfer-ownership" PROVE OwnerRecordOK(r)'
    <3>1. "transfer-ownership" \in Moving
      BY DEF Moving
    <3>2. \A name \in r.moved : Moved("transfer-ownership", r.input, name)'
      <4>1. ASSUME NEW name \in r.moved PROVE Moved("transfer-ownership", r.input, name)'
        <5>1. /\ name \in Contracts /\ Moved("transfer-ownership", r.input, name)
              /\ Undisturbed("transfer-ownership", r.input, mempool)
          BY <2>1, <2>3 DEF OwnerRecordOK, Moved
        <5>2. QED
          BY <3>1, <5>1, MovedStays DEF MoveInv
      <4>2. QED
        BY <4>1
    <3>3. r.input # Deployer => \A name \in Contracts : proxy'[name].owner # Deployer
      BY <2>1, <2>3, GivenAwayStays DEF OwnerRecordOK, MoveInv, Concerned
    <3>4. QED
      BY <1>6, <2>1, <2>3, <3>2, <3>3 DEF OwnerRecordOK, Moved
  <2>4. QED
    BY <2>2, <2>3
<1>10. QED
  BY <1>2, <1>3, <1>5, <1>7, <1>8, <1>9 DEF MoveInv

LEMMA ConsoleMoves ==
    ASSUME Inv, MoveInv, NEW sender \in {Deployer, Admin}, NEW call \in ConsoleCalls,
           Console(sender, call)
    PROVE  MoveInv'
<1> DEFINE tx == [from |-> sender, nonce |-> PendingCount(sender), call |-> call]
<1>1. /\ mempool' = mempool \cup {tx} /\ UNCHANGED << env, proxy, flags, mined, reverted >>
      /\ \E out : script' = [script EXCEPT !.alone = FALSE, !.takenOut = out]
  BY DEF Console, Submit
<1>2. tx.from = sender /\ tx.call = call
  OBVIOUS
<1> HIDE DEF tx
<1>3. /\ SameJob /\ script'.pc = script.pc /\ script'.i = script.i /\ script'.list = script.list
      /\ script'.sent = script.sent /\ script'.input = script.input
      /\ script'.status = script.status /\ script'.txCount = script.txCount
  BY <1>1 DEF Inv, ScriptOK, ScriptType, SameJob
<1>4. Sender' = Sender /\ \A name : MoveCall(name)' = MoveCall(name)
  BY <1>1, <1>3 DEF Sender, SameJob, MoveCall
<1>5. JobsOK'
  BY <1>3, JobsStay DEF MoveInv, Running
<1>6. SendersOK'
  BY <1>1, <1>2 DEF MoveInv, SendersOK, OwnershipIsLeftAlone
<1>7. MovePlaceOK'
  BY <1>1, <1>3, <1>4 DEF MoveInv, MovePlaceOK, SameJob, Running
<1>8. \A job \in Moving : \A input :
        Concerned(job, input) /\ Undisturbed(job, input, mempool) => Undisturbed(job, input, mempool')
  BY <1>1, <1>2 DEF Concerned, Undisturbed, OwnershipIsLeftAlone
<1>9. FateOK'
  <2> SUFFICES ASSUME Running, script.job \in Moving, Concerned(script.job, script.input)
               PROVE  /\ script.sent # << >> => Undisturbed(script.job, script.input, mempool')
                      /\ \A k \in 1 .. Len(script.sent) : Fate(k)'
                      /\ \A k \in 1 .. Awaited : Moved(script.job, script.input, script.list[k])'
    BY <1>3 DEF FateOK, Awaited, Concerned, OwnershipIsLeftAlone, Running, SameJob
  <2>1. /\ script.sent # << >> => Undisturbed(script.job, script.input, mempool)
        /\ \A k \in 1 .. Len(script.sent) : Fate(k)
        /\ \A k \in 1 .. Awaited : Moved(script.job, script.input, script.list[k])
    BY DEF MoveInv, FateOK
  <2>2. \A k \in 1 .. Len(script.sent) : Fate(k)'
    BY <1>1, <1>3, <1>4, <2>1 DEF Fate, Moved, SameJob
  <2>3. QED
    BY <1>1, <1>3, <1>8, <2>1, <2>2 DEF Moved, SameJob
<1>10. UnlistedOK'
  BY <1>1, <1>3 DEF MoveInv, UnlistedOK, LookedAt, SameJob, OwnershipIsLeftAlone, Running
<1>11. RecordsOK'
  <2> SUFFICES ASSUME NEW r \in script.report, Concerned(r.job, r.input)
               PROVE  /\ r.job = "change-admin-address" => AdminRecordOK(r)'
                      /\ r.job = "transfer-ownership" => OwnerRecordOK(r)'
    BY <1>3 DEF RecordsOK, Concerned, OwnershipIsLeftAlone, SameJob
  <2>1. /\ r.job = "change-admin-address" => AdminRecordOK(r)
        /\ r.job = "transfer-ownership" => OwnerRecordOK(r)
    BY DEF MoveInv, RecordsOK
  <2>2. "change-admin-address" \in Moving /\ "transfer-ownership" \in Moving
    BY DEF Moving
  <2>3. QED
    BY <1>1, <1>8, <2>1, <2>2 DEF AdminRecordOK, OwnerRecordOK
<1>12. QED
  BY <1>5, <1>6, <1>7, <1>9, <1>10, <1>11 DEF MoveInv

LEMMA MoveInvHolds == Spec => []MoveInv
<1>1. Init => MoveInv
  <2> SUFFICES ASSUME Init PROVE MoveInv
    OBVIOUS
  <2>1. /\ script.job = "" /\ script.jobs = << >> /\ script.report = {} /\ ~Running
        /\ mempool = {}
    BY DEF Init, NoScript, Running
  <2>2. script.job \notin Moving
    BY <2>1 DEF Moving
  <2>3. JobsOK /\ SendersOK /\ RecordsOK
    BY <2>1 DEF JobsOK, SendersOK, RecordsOK
  <2>4. MovePlaceOK /\ FateOK /\ UnlistedOK
    BY <2>1, <2>2 DEF MovePlaceOK, FateOK, UnlistedOK
  <2>5. QED
    BY <2>3, <2>4 DEF MoveInv
<1>2. Inv /\ MoveInv /\ [Next]_vars => MoveInv'
  <2> SUFFICES ASSUME Inv, MoveInv, [Next]_vars PROVE MoveInv'
    OBVIOUS
  <2>1. ASSUME NEW jobs \in JobLists, Start(jobs) PROVE MoveInv'
    BY <2>1, StartMoves
  <2>2. ASSUME ScriptStep PROVE MoveInv'
    <3>1. ASSUME NEW input \in Inputs, AskNew(input) \/ AskAddress(input) PROVE MoveInv'
      BY <3>1, AskNewMoves, OtherStepsMove
    <3>2. ASSUME NEW answers \in Answers, Confirm(answers) PROVE MoveInv'
      BY <3>2, ConfirmMoves
    <3>3. QED
      BY <2>2, <3>1, <3>2, ListNextMoves, GetNonceMoves, SendNextMoves, WaitNextMoves,
         ReadOwnerNextMoves, OtherStepsMove DEF ScriptStep
  <2>3. ASSUME NEW tx \in mempool, Mine(tx) PROVE MoveInv'
    BY <2>3, MineMoves
  <2>4. ASSUME NEW sender \in {Deployer, Admin}, NEW call \in ConsoleCalls, Console(sender, call)
        PROVE  MoveInv'
    BY <2>4, ConsoleMoves
  <2>5. CASE UNCHANGED vars
    <3>1. ChainStays /\ script' = script
      BY <2>5 DEF vars, ChainStays
    <3>2. JobsOK' /\ SendersOK' /\ RecordsOK'
      BY <3>1, SendersStay, RecordsStay DEF MoveInv, JobsOK, Running, ChainStays
    <3>3. Sender' = Sender /\ \A name : MoveCall(name)' = MoveCall(name)
      BY <3>1 DEF Sender, MoveCall, ChainStays
    <3>4. MovePlaceOK' /\ UnlistedOK'
      BY <3>1, <3>3 DEF MoveInv, MovePlaceOK, UnlistedOK, LookedAt, OwnershipIsLeftAlone,
         Running, ChainStays
    <3>5. FateOK'
      BY <3>1, <3>3 DEF MoveInv, FateOK, Awaited, Fate, Moved, Undisturbed, Concerned,
         OwnershipIsLeftAlone, Running, ChainStays
    <3>6. QED
      BY <3>2, <3>4, <3>5 DEF MoveInv
  <2>6. QED
    BY <2>1, <2>2, <2>3, <2>4, <2>5, KillMoves DEF Next
<1>3. QED
  BY <1>1, <1>2, InvHolds, PTL DEF Spec

\* When a change of administrators is reported, both proxies have the new one
\* and nothing pending takes it away, for any number of kills and reruns and
\* whatever is sent from elsewhere
\* (transfer-ownership-and-change-admin.ts:257-285).
THEOREM AdminChangesAreTrue == Spec => []AdminChangedIsTrue
<1>1. MoveInv => AdminChangedIsTrue
  BY DEF MoveInv, RecordsOK, Concerned, AdminRecordOK, AdminChangedIsTrue
<1>2. QED
  BY <1>1, MoveInvHolds, PTL

\* When a transfer of ownership is reported, the contracts it listed have the
\* new owner, and none is left with the deployer, for any number of kills and
\* reruns, if ownership is transferred by the task only
\* (transfer-ownership-and-change-admin.ts:99-180).
THEOREM TransfersAreTrue ==
    ASSUME OwnershipIsLeftAlone
    PROVE  Spec => []TransferredIsTrue
<1>1. MoveInv => TransferredIsTrue
  BY DEF MoveInv, RecordsOK, Concerned, OwnerRecordOK, TransferredIsTrue
<1>2. QED
  BY <1>1, MoveInvHolds, PTL

(***************************************************************************)
(* run-exclude and enable-dividend.                                        *)
(***************************************************************************)

SwitchNames == {"swapEnabled", "gasForProcessing"}

LEMMA FlagsAfterIs ==
    ASSUME FlagsOK(flags), NEW call, call.op \in ListNames \cup SwitchNames
    PROVE  /\ \A l \in ListNames \cup SwitchNames :
                 l # call.op => FlagsAfter(call)[l] = flags[l]
           /\ call.op \in ListNames /\ call.value =>
                 FlagsAfter(call)[call.op] = flags[call.op] \cup {call.arg}
           /\ call.op \in ListNames /\ ~call.value =>
                 FlagsAfter(call)[call.op] = flags[call.op] \ {call.arg}
           /\ call.op \in SwitchNames => FlagsAfter(call)[call.op] = call.value
<1>1. {Switches[i] : i \in 1 .. 2} = SwitchNames
  BY Names DEF SwitchNames
<1>2. DOMAIN flags = ListNames \cup SwitchNames
  BY DEF FlagsOK, SwitchNames
<1>3. \A x \in SwitchNames : x \notin ListNames
  BY DEF SwitchNames, ListNames
<1>4. CASE call.op \in SwitchNames
  <2>1. FlagsAfter(call) = [flags EXCEPT ![call.op] = call.value]
    BY <1>1, <1>2, <1>4 DEF FlagsAfter
  <2>2. QED
    BY <1>2, <1>3, <1>4, <2>1
<1>5. CASE call.op \in ListNames
  <2>1. call.op \notin SwitchNames
    BY <1>3, <1>5
  <2>2. CASE call.value
    <3>1. FlagsAfter(call) = [flags EXCEPT ![call.op] = flags[call.op] \cup {call.arg}]
      BY <1>1, <1>2, <1>5, <2>1, <2>2 DEF FlagsAfter
    <3>2. /\ \A l \in ListNames \cup SwitchNames :
                l # call.op => FlagsAfter(call)[l] = flags[l]
          /\ FlagsAfter(call)[call.op] = flags[call.op] \cup {call.arg}
      BY <1>2, <1>5, <3>1
    <3>3. QED
      BY <2>1, <2>2, <3>2, Zenon
  <2>3. CASE ~call.value
    <3>1. FlagsAfter(call) = [flags EXCEPT ![call.op] = flags[call.op] \ {call.arg}]
      BY <1>1, <1>2, <1>5, <2>1, <2>3 DEF FlagsAfter
    <3>2. QED
      BY <1>2, <1>5, <2>1, <2>3, <3>1
  <2>4. QED
    BY <2>2, <2>3
<1>6. QED
  BY <1>4, <1>5

\* An account only leaves a list by a transaction that takes it out.
LEMMA KeptIn ==
    ASSUME Inv, NEW tx \in mempool, Mine(tx), NEW l \in ListNames, NEW a \in flags[l],
           ~(TakesOut(tx.call) /\ tx.call.arg = a)
    PROVE  a \in flags'[l]
<1>1. FlagsOK(flags) /\ DOMAIN flags = ListNames \cup SwitchNames
  BY DEF Inv, FlagsOK, SwitchNames
<1>2. flags' = flags \/ flags' = FlagsAfter(tx.call)
  BY DEF Mine
<1>3. CASE tx.call.op \notin ListNames \cup SwitchNames
  BY <1>1, <1>2, <1>3 DEF FlagsAfter
<1>4. CASE tx.call.op \in ListNames \cup SwitchNames
  <2>1. TakesOut(tx.call) <=> tx.call.op \in ListNames /\ ~tx.call.value
    BY Names DEF TakesOut
  <2>2. CASE l # tx.call.op
    BY <1>1, <1>2, <1>4, <2>2, FlagsAfterIs
  <2>3. CASE l = tx.call.op /\ tx.call.value
    BY <1>1, <1>2, <1>4, <2>3, FlagsAfterIs
  <2>4. CASE l = tx.call.op /\ ~tx.call.value
    BY <1>1, <1>2, <1>4, <2>1, <2>4, FlagsAfterIs
  <2>5. QED
    BY <2>2, <2>3, <2>4
<1>5. QED
  BY <1>3, <1>4

LEMMA ItemIs ==
    ASSUME Inv, Running, script.job \in Excluding \cup Switching,
           script.pc \in {"check", "set", "await"}
    PROVE  /\ script.i \in 1 .. Len(Items(script.job)) /\ script.i \in Nat
           /\ ItemCall.op = Item /\ ItemCall.arg = script.input
           /\ ItemCall.value = Wanted(script.job)
           /\ script.job \in Excluding =>
                 /\ Item = Lists[script.i] /\ Item \in ListNames /\ Wanted(script.job)
                 /\ Len(Items(script.job)) = 4
           /\ script.job \in Switching =>
                 /\ Item = Switches[script.i] /\ Item \in SwitchNames
                 /\ ItemCall = SwitchCall(script.i) /\ ItemCall.to = "BIBToken"
                 /\ Len(Items(script.job)) = 2
<1>1. script.i \in 1 .. Len(Items(script.job)) /\ Len(Items(script.job)) \in Nat
  BY ItemsAre DEF Inv, ScriptOK, PlaceOK
<1>2. /\ ItemCall.op = Item /\ ItemCall.arg = script.input
      /\ ItemCall.value = Wanted(script.job)
      /\ ItemCall.to = IF Item = "excludedFromDividends" THEN "TokenDividendTracker" ELSE "BIBToken"
  BY DEF ItemCall, Setter, Call
<1>3. ASSUME script.job \in Excluding
      PROVE  /\ Item = Lists[script.i] /\ Item \in ListNames /\ Wanted(script.job)
             /\ Len(Items(script.job)) = 4
  BY <1>1, <1>3, Names DEF Item, Items, Wanted, Excluding
<1>4. ASSUME script.job \in Switching
      PROVE  /\ Item = Switches[script.i] /\ Item \in SwitchNames
             /\ ItemCall = SwitchCall(script.i) /\ ItemCall.to = "BIBToken"
             /\ Len(Items(script.job)) = 2
  <2>1. Items(script.job) = Switches
    BY <1>4 DEF Items, Switching, Excluding
  <2>2. Item = Switches[script.i] /\ Item \in SwitchNames /\ Len(Items(script.job)) = 2
    BY <1>1, <2>1, Names DEF Item, SwitchNames
  <2>3. Item # "excludedFromDividends"
    BY <2>2 DEF SwitchNames
  <2>4. QED
    BY <1>2, <2>2, <2>3 DEF ItemCall, SwitchCall
<1>5. QED
  BY <1>1, <1>2, <1>3, <1>4

\* One more list or switch is dealt with.
LEMMA NextItemDeals ==
    ASSUME Inv, Running, script.job \in Excluding \cup Switching,
           script.pc \in {"check", "set", "await"}, script' = NextItem(script)
    PROVE  /\ script'.job = script.job /\ script'.input = script.input
           /\ script'.alone = script.alone /\ script'.takenOut = script.takenOut
           /\ DealtWith' = script.i /\ DealtWith = script.i - 1
           /\ \/ script'.status = "done" /\ script'.pc = script.pc
              \/ Running' /\ script'.pc = "check"
<1>1. ScriptType /\ script.i \in Nat /\ script.status = "running"
  BY ItemIs DEF Inv, ScriptOK, Running
<1>2. DealtWith = script.i - 1
  BY <1>1 DEF DealtWith
<1>3. CASE script.i = Len(Items(script.job))
  <2> DEFINE report == {[job |-> script.job, input |-> script.input, moved |-> {}]}
  <2>1. script' = [script EXCEPT !.status = "done", !.report = report]
    BY <1>3 DEF NextItem
  <2> HIDE DEF report
  <2>2. /\ script'.job = script.job /\ script'.status = "done" /\ script'.input = script.input
        /\ script'.pc = script.pc /\ script'.alone = script.alone
        /\ script'.takenOut = script.takenOut
    BY <1>1, <2>1 DEF ScriptType
  <2>3. QED
    BY <1>2, <1>3, <2>2 DEF DealtWith
<1>4. CASE script.i # Len(Items(script.job))
  <2>1. script' = [script EXCEPT !.pc = "check", !.i = script.i + 1]
    BY <1>4 DEF NextItem
  <2>2. /\ script'.job = script.job /\ script'.status = "running" /\ script'.input = script.input
        /\ script'.pc = "check" /\ script'.alone = script.alone /\ script'.i = script.i + 1
        /\ script'.takenOut = script.takenOut
    BY <1>1, <2>1 DEF ScriptType
  <2>3. QED
    BY <1>1, <1>2, <2>2 DEF DealtWith, Running
<1>5. QED
  BY <1>3, <1>4

\* Nothing is said of a task that stopped, or moves.
LEMMA NotTold ==
    ASSUME script'.status \notin {"running", "done"} \/ script'.job \in Moving
    PROVE  TaskInv'
BY DEF TaskInv, ExcludeOK, SwitchOK, Alone, Moving, Excluding, Switching

LEMMA JobsAreDifferent ==
    \A job : /\ job \in Excluding => job \notin Switching
             /\ job \in Moving => job \notin Excluding \cup Switching
BY DEF Excluding, Switching, Moving

LEMMA StartTasks == ASSUME Inv, MoveInv, TaskInv, NEW jobs \in JobLists, Start(jobs) PROVE TaskInv'
<1> DEFINE job == Head(jobs)
           status == IF job \notin Moving /\ ~env.chainId THEN "failed" ELSE "running"
           rest == Tail(jobs)
           pc == FirstPc(job)
           alone == mempool = {}
           out == PendingRemovals
<1>1. script' = [NoScript EXCEPT !.jobs = rest, !.job = job, !.pc = pc, !.status = status,
                   !.alone = alone, !.takenOut = out]
  BY DEF Start
<1>2. /\ status \in {"failed", "running"}
      /\ job \in Switching => pc = "check"
      /\ job \in Excluding => pc = "ask"
  BY DEF FirstPc, Switching, Excluding
<1>3. alone => mempool = {}
  OBVIOUS
<1> HIDE DEF job, status, rest, pc, alone, out
<1>4. /\ script'.job = job /\ script'.pc = pc /\ script'.i = 1 /\ script'.status = status
      /\ script'.alone = alone /\ script'.takenOut = out
  BY <1>1 DEF NoScript
<1>5. CASE status = "failed"
  BY <1>4, <1>5, NotTold
<1>6. CASE status = "running"
  <2>1. DealtWith' = 0 /\ mempool' = mempool
    BY <1>4, <1>6 DEF DealtWith, Start
  <2>2. 1 .. DealtWith' = {}
    BY <2>1
  <2>3. ExcludeOK'
    <3>1. \A tx \in mempool : TakesOut(tx.call) => tx.call.arg \in out
      BY DEF PendingRemovals, out
    <3>2. job \in Excluding => pc = "ask"
      BY <1>2
    <3>3. QED
      BY <1>4, <2>1, <2>2, <3>1, <3>2 DEF ExcludeOK, TakesOut
  <2>4. SwitchOK'
    BY <1>2, <1>3, <1>4, <2>1, <2>2 DEF SwitchOK, Alone
  <2>5. QED
    BY <2>3, <2>4 DEF TaskInv
<1>7. QED
  BY <1>2, <1>5, <1>6

LEMMA MovingTasks ==
    ASSUME Inv, MoveInv,
           \/ \E input : AskNew(input)
           \/ \E answers : Confirm(answers)
           \/ ListNext \/ GetNonce \/ SendNext \/ WaitNext \/ ReadOwnerNext
    PROVE  TaskInv'
<1>1. ScriptType /\ script.job \in Moving
  BY DEF Inv, ScriptOK, At, AskNew, Confirm, ListNext, GetNonce, SendNext, WaitNext,
     ReadOwnerNext, Moving
<1>2. ASSUME NEW reports, EndJob(reports) PROVE script'.job \in Moving
  <2>1. script'.job = IF script.jobs = << >> THEN script.job ELSE Head(script.jobs)
    BY <1>1, <1>2 DEF EndJob, ScriptType
  <2>2. Head(<< "transfer-ownership" >>) = "transfer-ownership"
    OBVIOUS
  <2>3. QED
    BY <1>1, <2>1, <2>2 DEF MoveInv, JobsOK, Moving
<1>3. ASSUME NEW status, Stop(status) PROVE script'.job = script.job
  BY <1>1, <1>3 DEF Stop, ScriptType
<1>4. script'.job \in Moving
  <2>1. ASSUME NEW input, AskNew(input) PROVE script'.job = script.job
    BY <1>1, <1>3, <2>1 DEF AskNew, ScriptType
  <2>2. ASSUME NEW answers, Confirm(answers) PROVE script'.job \in Moving
    BY <1>1, <1>2, <2>2 DEF Confirm, Goto, ScriptType
  <2>3. ListNext \/ GetNonce \/ SendNext => script'.job = script.job
    BY <1>1, <1>3 DEF ListNext, GetNonce, SendNext, ScriptType
  <2>4. WaitNext => script'.job \in Moving
    BY <1>1, <1>2, <1>3 DEF WaitNext, Success, Goto, ScriptType
  <2>5. ReadOwnerNext => script'.job \in Moving
    BY <1>1, <1>2, <1>3 DEF ReadOwnerNext, Success, ScriptType
  <2>6. QED
    BY <1>1, <2>1, <2>2, <2>3, <2>4, <2>5
<1>5. QED
  BY <1>4, NotTold

LEMMA AskAddressTasks ==
    ASSUME Inv, TaskInv, NEW input, AskAddress(input) PROVE TaskInv'
<1>1. /\ ScriptType /\ Running /\ script.job \in Excluding /\ script.pc = "ask"
      /\ UNCHANGED << proxy, flags, mempool, reverted >>
  BY DEF Inv, ScriptOK, At, AskAddress
<1>2. CASE script' = script
  BY <1>1, <1>2, JobsAreDifferent DEF TaskInv, ExcludeOK, SwitchOK, Alone, DealtWith, Running,
     TakesOut
<1>3. CASE script' = [script EXCEPT !.pc = "check", !.i = 1, !.input = input]
  <2>1. /\ script'.job = script.job /\ script'.pc = "check" /\ script'.i = 1
        /\ script'.status = "running" /\ script'.alone = script.alone
        /\ script'.takenOut = script.takenOut
    BY <1>1, <1>3 DEF ScriptType, Running
  <2>2. DealtWith' = 0
    BY <2>1 DEF DealtWith
  <2>3. ExcludeOK'
    BY <1>1, <2>1, <2>2 DEF TaskInv, ExcludeOK, TakesOut, Running
  <2>4. SwitchOK'
    BY <1>1, <2>1, JobsAreDifferent DEF SwitchOK, Alone
  <2>5. QED
    BY <2>3, <2>4 DEF TaskInv
<1>4. QED
  BY <1>2, <1>3 DEF AskAddress

LEMMA CheckTasks == ASSUME Inv, TaskInv, Check PROVE TaskInv'
<1>1. /\ ScriptType /\ Running /\ script.job \in Excluding \cup Switching /\ script.pc = "check"
      /\ ChainStays
  BY DEF Inv, ScriptOK, At, Check, ChainStays
<1>2. CASE Stop("failed")
  <2>1. script'.status = "failed"
    BY <1>1, <1>2 DEF Stop, ScriptType
  <2>2. QED
    BY <2>1, NotTold
<1>3. CASE Value(Item, script.input) = Wanted(script.job) /\ script' = NextItem(script)
  <2>1. /\ script'.job = script.job /\ script'.input = script.input
        /\ script'.alone = script.alone /\ script'.takenOut = script.takenOut
        /\ DealtWith' = script.i /\ DealtWith = script.i - 1 /\ script.i \in Nat
        /\ script'.status = "done" \/ Running'
        /\ script'.pc = "check"
    BY <1>1, <1>3, NextItemDeals, ItemIs
  <2>2. \A k \in 1 .. DealtWith' : k \in 1 .. DealtWith \/ k = script.i
    BY <2>1
  <2>3. ExcludeOK'
    <3> SUFFICES ASSUME script.job \in Excluding, script.input \notin script.takenOut
                 PROVE  \A k \in 1 .. DealtWith' : script.input \in flags[Lists[k]]
      BY <1>1, <2>1 DEF TaskInv, ExcludeOK, ChainStays, TakesOut, Running
    <3>1. \A k \in 1 .. DealtWith : script.input \in flags[Lists[k]]
      BY <1>1 DEF TaskInv, ExcludeOK, Running
    <3>2. script.input \in flags[Item] /\ Item = Lists[script.i]
      <4>1. Item = Lists[script.i] /\ Item \in ListNames /\ Wanted(script.job)
        BY <1>1, ItemIs
      <4>2. Item \notin {Switches[i] : i \in 1 .. 2}
        BY <4>1, Names DEF ListNames
      <4>3. Value(Item, script.input) = (script.input \in flags[Item])
        BY <4>2 DEF Value
      <4>4. QED
        BY <1>3, <4>1, <4>3 DEF Wanted
    <3>3. QED
      BY <2>2, <3>1, <3>2
  <2>4. SwitchOK'
    <3> SUFFICES ASSUME Alone(Switching)' PROVE SwitchOK'
      BY DEF SwitchOK
    <3>1. Alone(Switching)
      BY <1>1, <2>1 DEF Alone, Running
    <3>2. flags[Switches[script.i]] = Wanted(script.job)
      <4>1. Item = Switches[script.i] /\ Item \in SwitchNames
        BY <1>1, <3>1, ItemIs DEF Alone
      <4>2. Item \in {Switches[i] : i \in 1 .. 2}
        BY <4>1, Names DEF SwitchNames
      <4>3. QED
        BY <1>3, <4>1, <4>2 DEF Value
    <3>3. \A k : SwitchCall(k)' = SwitchCall(k)
      BY <2>1 DEF SwitchCall
    <3>4. \A k \in 1 .. DealtWith : k \in 1 .. DealtWith'
      BY <2>1
    <3>5. QED
      BY <1>1, <2>1, <2>2, <3>1, <3>2, <3>3, <3>4 DEF TaskInv, SwitchOK, ChainStays
  <2>5. QED
    BY <2>3, <2>4 DEF TaskInv
<1>4. CASE script' = [script EXCEPT !.pc = "set"]
  <2>1. /\ script'.job = script.job /\ script'.pc = "set" /\ script'.i = script.i
        /\ script'.status = script.status /\ script'.alone = script.alone
        /\ script'.input = script.input /\ script'.takenOut = script.takenOut
    BY <1>1, <1>4 DEF ScriptType
  <2>2. DealtWith' = DealtWith /\ \A k : SwitchCall(k)' = SwitchCall(k)
    BY <2>1 DEF DealtWith, SwitchCall
  <2>3. ExcludeOK'
    BY <1>1, <2>1, <2>2 DEF TaskInv, ExcludeOK, TakesOut, ChainStays
  <2>4. SwitchOK'
    BY <1>1, <2>1, <2>2 DEF TaskInv, SwitchOK, Alone, ChainStays
  <2>5. QED
    BY <2>3, <2>4 DEF TaskInv
<1>5. QED
  BY <1>2, <1>3, <1>4 DEF Check

LEMMA SetTasks == ASSUME Inv, TaskInv, Set PROVE TaskInv'
<1> DEFINE tx == [from |-> Deployer, nonce |-> PendingCount(Deployer), call |-> ItemCall]
           sent == << PendingCount(Deployer) >>
<1>1. /\ ScriptType /\ Running /\ script.job \in Excluding \cup Switching /\ script.pc = "set"
      /\ UNCHANGED << env, proxy, flags, mined, reverted >>
  BY DEF Inv, ScriptOK, At, Set
<1>2. CASE Stop("failed") /\ UNCHANGED mempool
  <2>1. script'.status = "failed"
    BY <1>1, <1>2 DEF Stop, ScriptType
  <2>2. QED
    BY <2>1, NotTold
<1>3. CASE /\ script.job \in Excluding /\ mempool' = mempool \cup {tx}
           /\ script' = [script EXCEPT !.pc = "await", !.sent = sent]
  <2>1. sent[1] = PendingCount(Deployer)
    OBVIOUS
  <2> HIDE DEF sent
  <2>2. /\ script'.job = script.job /\ script'.pc = "await" /\ script'.i = script.i
        /\ script'.status = script.status /\ script'.alone = script.alone
        /\ script'.input = script.input /\ script'.sent = sent
        /\ script'.takenOut = script.takenOut
    BY <1>1, <1>3 DEF ScriptType
  <2>3. DealtWith' = DealtWith /\ ItemCall' = ItemCall
    BY <2>2 DEF DealtWith, ItemCall, Item
  <2>4. tx = [from |-> Deployer, nonce |-> script'.sent[1], call |-> ItemCall']
    BY <2>1, <2>2, <2>3
  <2>5. ExcludeOK'
    <3>1. tx.call = ItemCall
      OBVIOUS
    <3> HIDE DEF tx
    <3>2. ~TakesOut(tx.call)
      BY <1>1, <1>3, <3>1, ItemIs DEF TakesOut
    <3>3. SentForItem'
      BY <1>3, <2>4 DEF SentForItem
    <3>4. \A t \in mempool' : t \in mempool \/ t = tx
      BY <1>3
    <3>5. \A t \in mempool' : TakesOut(t.call) => t.call.arg \in script.takenOut
      BY <1>1, <1>3, <3>2, <3>4 DEF TaskInv, ExcludeOK, Running
    <3>6. QED
      BY <1>1, <1>3, <2>2, <2>3, <3>3, <3>5 DEF TaskInv, ExcludeOK, TakesOut, Running
  <2>6. SwitchOK'
    BY <1>3, <2>2, JobsAreDifferent DEF SwitchOK, Alone
  <2>7. QED
    BY <2>5, <2>6 DEF TaskInv
<1>4. CASE /\ script.job \in Switching /\ mempool' = mempool \cup {tx}
           /\ ~CallReverts(Deployer, ItemCall) /\ script' = NextItem(script)
  <2>1. /\ script'.job = script.job /\ script'.input = script.input
        /\ script'.alone = script.alone /\ script'.takenOut = script.takenOut
        /\ DealtWith' = script.i /\ DealtWith = script.i - 1 /\ script.i \in Nat
        /\ script'.pc \in {"check", "set"}
    BY <1>1, <1>4, NextItemDeals, ItemIs
  <2>2. ExcludeOK'
    BY <1>4, <2>1, JobsAreDifferent DEF ExcludeOK
  <2>3. SwitchOK'
    <3> SUFFICES ASSUME Alone(Switching)' PROVE SwitchOK'
      BY DEF SwitchOK
    <3>1. Alone(Switching)
      BY <1>1, <2>1 DEF Alone, Running
    <3>2. \A k : SwitchCall(k)' = SwitchCall(k)
      BY <2>1 DEF SwitchCall
    <3>3. /\ ItemCall.op = Switches[script.i] /\ Item = Switches[script.i] /\ Item \in SwitchNames
          /\ ItemCall.value = Wanted(script.job) /\ ItemCall.to = "BIBToken"
          /\ ItemCall.op = Item /\ ItemCall = SwitchCall(script.i)
          /\ script.i \in 1 .. 2
      BY <1>1, <1>4, ItemIs
    <3>4. \A k : SwitchCall(k).op = Switches[k]
      BY DEF SwitchCall, Setter, Call
    <3>5. Switches[1] = "swapEnabled" /\ Switches[2] = "gasForProcessing"
      BY DEF Switches
    <3>6. \A t \in mempool : t.call # ItemCall
      <4> SUFFICES ASSUME NEW t \in mempool PROVE t.call # ItemCall
        OBVIOUS
      <4>1. PICK k \in 1 .. DealtWith : t.call = SwitchCall(k)
        BY <3>1 DEF TaskInv, SwitchOK
      <4>2. k = 1 /\ script.i = 2
        BY <2>1, <3>3
      <4>3. QED
        BY <3>3, <3>4, <3>5, <4>1, <4>2
    <3>7. /\ proxy["BIBToken"].owner = Deployer /\ proxy["BIBToken"].admin # Deployer
          /\ ItemCall.op = "gasForProcessing" => flags["gasForProcessing"] # Wanted(script.job)
      <4>1. ItemCall.op \notin {"changeAdmin", "upgradeTo", "transferOwnership"}
        BY <3>3 DEF SwitchNames
      <4>2. /\ WillFallback(proxy["BIBToken"], Deployer) /\ proxy["BIBToken"].owner = Deployer
            /\ ~SetterReverts(ItemCall)
        BY <1>4, <3>3, <4>1 DEF CallReverts
      <4>3. ItemCall.op = "gasForProcessing" => flags["gasForProcessing"] # Wanted(script.job)
        <5>1. ItemCall.op = "gasForProcessing" =>
                Value("gasForProcessing", ItemCall.arg) # Wanted(script.job)
          BY <3>3, <4>2 DEF SetterReverts
        <5>2. Value("gasForProcessing", ItemCall.arg) = flags["gasForProcessing"]
          BY Names DEF Value
        <5>3. QED
          BY <5>1, <5>2
      <4>4. QED
        BY <4>2, <4>3 DEF WillFallback, ifAdmin
    <3>8. tx.from = Deployer /\ tx.call = ItemCall /\ tx \in mempool'
      BY <1>4
    <3>9. \A t \in mempool' : t \in mempool \/ t = tx
      BY <1>4
    <3>10. mempool \subseteq mempool'
      BY <1>4
    <3> HIDE DEF tx
    <3>11. \A k \in 1 .. DealtWith' : k \in 1 .. DealtWith \/ k = script.i
      BY <2>1
    <3>12. /\ script.i \in 1 .. DealtWith'
           /\ \A k \in 1 .. DealtWith : k \in 1 .. DealtWith'
      BY <2>1, <3>3
    <3>13. \A t \in mempool' :
             t.from = Deployer /\ \E k \in 1 .. DealtWith' : t.call = SwitchCall(k)
      BY <3>1, <3>3, <3>8, <3>9, <3>12 DEF TaskInv, SwitchOK
    <3>14. \A s, t \in mempool' : s.call = t.call => s = t
      BY <3>1, <3>6, <3>8, <3>9 DEF TaskInv, SwitchOK
    <3>15. \A k \in 1 .. DealtWith' :
             flags[Switches[k]] = Wanted(script.job) \/ \E t \in mempool' : t.call = SwitchCall(k)
      <4> SUFFICES ASSUME NEW k \in 1 .. DealtWith'
                   PROVE  flags[Switches[k]] = Wanted(script.job)
                            \/ \E t \in mempool' : t.call = SwitchCall(k)
        OBVIOUS
      <4>1. CASE k = script.i
        BY <3>3, <3>8, <4>1
      <4>2. CASE k \in 1 .. DealtWith
        BY <3>1, <3>10, <4>2 DEF TaskInv, SwitchOK
      <4>3. QED
        BY <3>11, <4>1, <4>2
    <3>16. \A t \in mempool' :
             t.call.op = "gasForProcessing" => flags["gasForProcessing"] # Wanted(script.job)
      BY <3>1, <3>7, <3>8, <3>9 DEF TaskInv, SwitchOK
    <3>17. QED
      BY <1>1, <2>1, <3>2, <3>7, <3>13, <3>14, <3>15, <3>16 DEF SwitchOK
  <2>4. QED
    BY <2>2, <2>3 DEF TaskInv
<1>5. QED
  BY <1>1, <1>2, <1>3, <1>4 DEF Set, Submit

LEMMA AwaitTasks == ASSUME Inv, TaskInv, Await PROVE TaskInv'
<1>1. /\ ScriptType /\ Running /\ script.job \in Excluding /\ script.pc = "await" /\ ChainStays
      /\ mined[Deployer] > script.sent[1]
  BY DEF Inv, ScriptOK, At, Await, ChainStays
<1>2. CASE Stop("failed")
  <2>1. script'.status = "failed"
    BY <1>1, <1>2 DEF Stop, ScriptType
  <2>2. QED
    BY <2>1, NotTold
<1>3. CASE << Deployer, script.sent[1] >> \notin reverted /\ script' = NextItem(script)
  <2>1. /\ script'.job = script.job /\ script'.input = script.input
        /\ script'.alone = script.alone /\ script'.takenOut = script.takenOut
        /\ DealtWith' = script.i /\ DealtWith = script.i - 1 /\ script.i \in Nat
        /\ \/ script'.status = "done" /\ script'.pc = "await"
           \/ Running' /\ script'.pc = "check"
    BY <1>1, <1>3, NextItemDeals, ItemIs
  <2>2. SwitchOK'
    BY <1>1, <2>1, JobsAreDifferent DEF SwitchOK, Alone
  <2>3. ExcludeOK'
    <3> SUFFICES ASSUME script.input \notin script.takenOut
                 PROVE  \A k \in 1 .. DealtWith' : script.input \in flags[Lists[k]]
      BY <1>1, <2>1 DEF TaskInv, ExcludeOK, ChainStays, TakesOut, Running
    <3> DEFINE tx == [from |-> Deployer, nonce |-> script.sent[1], call |-> ItemCall]
    <3>1. tx.from = Deployer /\ tx.nonce = script.sent[1]
      OBVIOUS
    <3>2. SentForItem => \/ tx \in mempool
                         \/ << Deployer, script.sent[1] >> \in reverted
                         \/ script.input \in flags[Item]
      BY DEF SentForItem
    <3> HIDE DEF tx
    <3>3. tx \notin mempool
      <4>1. tx \in mempool =>
              mined[Deployer] \in Nat /\ tx.nonce \in Nat /\ mined[Deployer] <= tx.nonce
        BY <3>1, PendingIsNotMined
      <4>2. QED
        BY <1>1, <3>1, <4>1
    <3>4. script.input \in flags[Item] /\ Item = Lists[script.i]
      BY <1>1, <1>3, <3>2, <3>3, ItemIs DEF TaskInv, ExcludeOK, Running
    <3>5. \A k \in 1 .. DealtWith : script.input \in flags[Lists[k]]
      BY <1>1 DEF TaskInv, ExcludeOK, Running
    <3>6. \A k \in 1 .. DealtWith' : k \in 1 .. DealtWith \/ k = script.i
      BY <2>1
    <3>7. QED
      BY <3>4, <3>5, <3>6
  <2>4. QED
    BY <2>2, <2>3 DEF TaskInv
<1>4. QED
  BY <1>2, <1>3 DEF Await

LEMMA MineTasks == ASSUME Inv, TaskInv, NEW tx \in mempool, Mine(tx) PROVE TaskInv'
<1>1. /\ script' = script /\ mempool' = mempool \ {tx} /\ reverted \subseteq reverted'
      /\ \/ << tx.from, tx.nonce >> \in reverted' /\ UNCHANGED << proxy, flags >>
         \/ proxy' = ProxyAfter(tx.call) /\ flags' = FlagsAfter(tx.call)
  BY DEF Mine
<1>2. DealtWith' = DealtWith /\ ItemCall' = ItemCall /\ Item' = Item
      /\ \A k : SwitchCall(k)' = SwitchCall(k)
  BY <1>1 DEF DealtWith, ItemCall, Item, SwitchCall
<1>3. FlagsOK(flags)
  BY DEF Inv
<1>4. ExcludeOK'
  <2> SUFFICES ASSUME script.job \in Excluding, script.status \in {"running", "done"},
                      script.input \notin script.takenOut
               PROVE  /\ \A k \in 1 .. DealtWith : script.input \in flags'[Lists[k]]
                      /\ script.pc = "await" /\ Running => SentForItem'
    BY <1>1, <1>2 DEF TaskInv, ExcludeOK, TakesOut, Running
  <2>1. \A l \in ListNames : script.input \in flags[l] => script.input \in flags'[l]
    BY KeptIn DEF TaskInv, ExcludeOK
  <2>2. \A k \in 1 .. DealtWith : Lists[k] \in ListNames
    <3>1. script.status = "done" => DealtWith = 4
      BY Names DEF DealtWith, Items
    <3>2. Running => DealtWith = script.i - 1 /\ (script.pc = "ask" => script.i = 1)
      BY DEF DealtWith, Running, TaskInv, ExcludeOK
    <3>3. Running /\ script.pc # "ask" => script.i \in 1 .. 4
      BY ItemIs DEF TaskInv, ExcludeOK
    <3>4. QED
      BY <3>1, <3>2, <3>3, Names DEF Running
  <2>3. \A k \in 1 .. DealtWith : script.input \in flags'[Lists[k]]
    BY <2>1, <2>2 DEF TaskInv, ExcludeOK
  <2>4. ASSUME script.pc = "await", Running PROVE SentForItem'
    <3> DEFINE own == [from |-> Deployer, nonce |-> script.sent[1], call |-> ItemCall]
    <3>1. own.from = Deployer /\ own.nonce = script.sent[1] /\ own.call = ItemCall
      OBVIOUS
    <3>2. \/ own \in mempool
          \/ << Deployer, script.sent[1] >> \in reverted
          \/ script.input \in flags[Item]
      BY <2>4 DEF TaskInv, ExcludeOK, SentForItem
    <3>3. \/ own \in mempool'
          \/ << Deployer, script.sent[1] >> \in reverted'
          \/ script.input \in flags'[Item]
          => SentForItem'
      BY <1>1, <1>2 DEF SentForItem
    <3> HIDE DEF own
    <3>4. /\ Item \in ListNames /\ ItemCall.op = Item
          /\ ItemCall.arg = script.input /\ ItemCall.value
      BY <2>4, ItemIs
    <3>5. own = tx => \/ << Deployer, script.sent[1] >> \in reverted'
                      \/ script.input \in flags'[Item]
      <4>1. FlagsAfter(ItemCall)[Item] = flags[Item] \cup {script.input}
        BY <1>3, <3>4, FlagsAfterIs
      <4>2. QED
        BY <1>1, <3>1, <4>1
    <3>6. QED
      BY <1>1, <2>1, <3>2, <3>3, <3>4, <3>5
  <2>5. QED
    BY <2>3, <2>4
<1>5. SwitchOK'
  <2> SUFFICES ASSUME Alone(Switching) PROVE SwitchOK'
    BY <1>1 DEF SwitchOK, Alone
  <2>1. SwitchOK
    BY DEF TaskInv
  <2>2. PICK k \in 1 .. DealtWith : tx.call = SwitchCall(k)
    BY <2>1 DEF SwitchOK
  <2>3. DealtWith \in 0 .. 2 /\ k \in 1 .. 2
    <3>1. script.status = "done" => DealtWith = 2
      BY Names DEF DealtWith, Alone, Items, Switching, Excluding
    <3>2. Running /\ script.pc \in {"check", "set"} /\ script.status # "done"
            => DealtWith = script.i - 1 /\ script.i \in 1 .. 2
      BY ItemIs DEF DealtWith, Alone
    <3>3. QED
      BY <2>1, <3>1, <3>2 DEF SwitchOK, Alone, Running
  <2>4. /\ \A n : /\ SwitchCall(n).op = Switches[n] /\ SwitchCall(n).value = Wanted(script.job)
                  /\ SwitchCall(n).to = IF Switches[n] = "excludedFromDividends"
                                        THEN "TokenDividendTracker" ELSE "BIBToken"
        /\ Switches[1] = "swapEnabled" /\ Switches[2] = "gasForProcessing"
    BY DEF SwitchCall, Setter, Call, Switches
  <2>5. /\ tx.call.op = Switches[k] /\ tx.call.op \in SwitchNames /\ tx.call.to = "BIBToken"
        /\ tx.call.value = Wanted(script.job) /\ tx.from = Deployer
    BY <2>1, <2>2, <2>3, <2>4 DEF SwitchNames, SwitchOK
  <2>6. ~CallReverts(tx.from, tx.call)
    <3>1. tx.call.op \notin {"changeAdmin", "upgradeTo", "transferOwnership"}
      BY <2>5 DEF SwitchNames
    <3>2. WillFallback(proxy["BIBToken"], Deployer) /\ proxy["BIBToken"].owner = Deployer
      BY <2>1 DEF SwitchOK, WillFallback, ifAdmin
    <3>3. ~SetterReverts(tx.call)
      <4>1. Value("gasForProcessing", tx.call.arg) = flags["gasForProcessing"]
        BY Names DEF Value
      <4>2. tx.call.op = "gasForProcessing" => flags["gasForProcessing"] # Wanted(script.job)
        BY <2>1 DEF SwitchOK
      <4>3. QED
        BY <2>5, <4>1, <4>2 DEF SetterReverts, SwitchNames
    <3>4. QED
      BY <2>5, <3>1, <3>2, <3>3 DEF CallReverts
  <2>7. flags' = FlagsAfter(tx.call) /\ proxy' = proxy
    <3>1. proxy' = ProxyAfter(tx.call) /\ flags' = FlagsAfter(tx.call)
      BY <2>6 DEF Mine
    <3>2. ProxyAfter(tx.call) = proxy
      BY <2>5 DEF ProxyAfter, SwitchNames
    <3>3. QED
      BY <3>1, <3>2
  <2>8. /\ flags'[Switches[k]] = Wanted(script.job)
        /\ \A x \in SwitchNames : x # Switches[k] => flags'[x] = flags[x]
    BY <1>3, <2>5, <2>7, FlagsAfterIs
  <2>9. \A n \in 1 .. DealtWith :
          flags'[Switches[n]] = Wanted(script.job) \/ \E t \in mempool' : t.call = SwitchCall(n)
    <3> SUFFICES ASSUME NEW n \in 1 .. DealtWith
                 PROVE  flags'[Switches[n]] = Wanted(script.job)
                          \/ \E t \in mempool' : t.call = SwitchCall(n)
      OBVIOUS
    <3>1. CASE n = k
      BY <2>8, <3>1
    <3>2. CASE n # k
      <4>1. Switches[n] \in SwitchNames /\ Switches[n] # Switches[k]
        BY <2>3, <2>4, <3>2 DEF SwitchNames
      <4>2. SwitchCall(n) # tx.call
        BY <2>4, <2>5, <4>1
      <4>3. flags[Switches[n]] = Wanted(script.job) \/ \E t \in mempool : t.call = SwitchCall(n)
        BY <2>1 DEF SwitchOK
      <4>4. QED
        BY <1>1, <2>8, <4>1, <4>2, <4>3
    <3>3. QED
      BY <3>1, <3>2
  <2>10. \A t \in mempool' :
           t.call.op = "gasForProcessing" => flags'["gasForProcessing"] # Wanted(script.job)
    <3> SUFFICES ASSUME NEW t \in mempool', t.call.op = "gasForProcessing"
                 PROVE  flags'["gasForProcessing"] # Wanted(script.job)
      OBVIOUS
    <3>1. t \in mempool /\ t # tx
      BY <1>1
    <3>2. PICK n \in 1 .. DealtWith : t.call = SwitchCall(n)
      BY <2>1, <3>1 DEF SwitchOK
    <3>3. n = 2 /\ t.call # tx.call
      BY <2>1, <2>3, <2>4, <3>1, <3>2 DEF SwitchOK
    <3>4. k = 1
      BY <2>2, <2>3, <3>2, <3>3
    <3>5. QED
      BY <2>1, <2>4, <2>8, <3>1, <3>4 DEF SwitchOK, SwitchNames
  <2>11. QED
    BY <1>1, <1>2, <2>1, <2>7, <2>9, <2>10 DEF SwitchOK
<1>6. QED
  BY <1>4, <1>5 DEF TaskInv

LEMMA ConsoleTasks ==
    ASSUME Inv, TaskInv, NEW sender, NEW call, Console(sender, call)
    PROVE  TaskInv'
<1> DEFINE tx == [from |-> sender, nonce |-> PendingCount(sender), call |-> call]
           out == IF TakesOut(call) THEN script.takenOut \cup {call.arg} ELSE script.takenOut
<1>1. /\ mempool' = mempool \cup {tx} /\ UNCHANGED << flags, reverted >>
      /\ script' = [script EXCEPT !.alone = FALSE, !.takenOut = out]
  BY DEF Console, Submit
<1>2. /\ tx.call = call /\ script.takenOut \subseteq out
      /\ TakesOut(call) => call.arg \in out
  OBVIOUS
<1> HIDE DEF tx, out
<1>3. /\ script'.job = script.job /\ script'.pc = script.pc /\ script'.status = script.status
      /\ script'.i = script.i /\ script'.input = script.input /\ script'.sent = script.sent
      /\ script'.alone = FALSE /\ script'.takenOut = out
  BY <1>1 DEF Inv, ScriptOK, ScriptType
<1>4. DealtWith' = DealtWith /\ ItemCall' = ItemCall /\ Item' = Item /\ (Running' <=> Running)
  BY <1>3 DEF DealtWith, ItemCall, Item, Running
<1>5. SwitchOK'
  BY <1>3 DEF SwitchOK, Alone
<1>6. SentForItem => SentForItem'
  BY <1>1, <1>3, <1>4 DEF SentForItem
<1>7. ExcludeOK'
  <2> SUFFICES ASSUME script.job \in Excluding, script.status \in {"running", "done"}
               PROVE  ExcludeOK'
    BY <1>3 DEF ExcludeOK
  <2>1. \A t \in mempool' : TakesOut(t.call) => t.call.arg \in out
    <3>1. \A t \in mempool : TakesOut(t.call) => t.call.arg \in out
      BY <1>2 DEF TaskInv, ExcludeOK
    <3>2. \A t \in mempool' : t \in mempool \/ t = tx
      BY <1>1
    <3>3. QED
      BY <1>2, <3>1, <3>2
  <2>2. script.input \notin out => script.input \notin script.takenOut
    BY <1>2
  <2>3. QED
    BY <1>1, <1>3, <1>4, <1>6, <2>1, <2>2 DEF TaskInv, ExcludeOK, TakesOut
<1>8. QED
  BY <1>5, <1>7 DEF TaskInv

LEMMA TaskInvHolds == Spec => []TaskInv
<1>1. Init => TaskInv
  <2> SUFFICES ASSUME Init PROVE TaskInv
    OBVIOUS
  <2>1. script = NoScript
    BY DEF Init
  <2>2. script.status = "idle"
    BY <2>1 DEF NoScript
  <2>3. QED
    BY <2>2 DEF TaskInv, ExcludeOK, SwitchOK, Alone
<1>2. Inv /\ MoveInv /\ TaskInv /\ [Next]_vars => TaskInv'
  <2> SUFFICES ASSUME Inv, MoveInv, TaskInv, [Next]_vars PROVE TaskInv'
    OBVIOUS
  <2>1. ASSUME NEW jobs \in JobLists, Start(jobs) PROVE TaskInv'
    BY <2>1, StartTasks
  <2>2. CASE ScriptStep
    BY <2>2, MovingTasks, AskAddressTasks, CheckTasks, SetTasks, AwaitTasks DEF ScriptStep
  <2>3. ASSUME NEW tx \in mempool, Mine(tx) PROVE TaskInv'
    BY <2>3, MineTasks
  <2>4. CASE Kill
    <3>1. script'.status = "killed"
      BY <2>4 DEF Kill, Stop, Inv, ScriptOK, ScriptType
    <3>2. QED
      BY <3>1, NotTold
  <2>5. CASE UNCHANGED vars
    <3>1. ChainStays /\ script' = script
      BY <2>5 DEF vars, ChainStays
    <3>2. DealtWith' = DealtWith /\ ItemCall' = ItemCall /\ Item' = Item
          /\ \A k : SwitchCall(k)' = SwitchCall(k)
      BY <3>1 DEF DealtWith, ItemCall, Item, SwitchCall
    <3>3. ExcludeOK' /\ SwitchOK'
      BY <3>1, <3>2 DEF TaskInv, ExcludeOK, SentForItem, TakesOut, SwitchOK, Alone, Running,
         ChainStays
    <3>4. QED
      BY <3>3 DEF TaskInv
  <2>6. QED
    BY <2>1, <2>2, <2>3, <2>4, <2>5, ConsoleTasks DEF Next
<1>3. QED
  BY <1>1, <1>2, InvHolds, MoveInvHolds, PTL DEF Spec

\* When run-exclude is done, its address is in all four lists, whatever was
\* pending when it started and whatever was sent or mined between its look at a
\* list and its own transaction, unless a transaction that takes that address
\* out of a list was pending at the start or was sent since
\* (exclude-addresses.ts:36-69).
THEOREM ExclusionsAreTrue == Spec => []ExcludedIsTrue
<1>1. MoveInv /\ TaskInv => ExcludedIsTrue
  <2> SUFFICES ASSUME MoveInv, TaskInv, script.status = "done",
                      NEW r \in script.report, r.job \in Excluding,
                      r.input \notin script.takenOut, NEW i \in 1 .. 4
               PROVE  r.input \in flags[Lists[i]]
    BY DEF ExcludedIsTrue
  <2>1. script.job \in Excluding /\ r.input = script.input
    BY JobsAreDifferent DEF MoveInv, JobsOK
  <2>2. DealtWith = 4
    BY <2>1, Names DEF DealtWith, Items
  <2>3. QED
    BY <2>1, <2>2 DEF TaskInv, ExcludeOK
<1>2. QED
  BY <1>1, MoveInvHolds, TaskInvHolds, PTL

\* When what enable-dividend sent is mined, both switches are as it was told,
\* unless somebody else sent something (enable-dividend.ts:26-59).
THEOREM SwitchesSettle == Spec => []SwitchedWhenSettled
<1>1. MoveInv /\ TaskInv => SwitchedWhenSettled
  <2> SUFFICES ASSUME MoveInv, TaskInv, script.alone, script.status = "done", mempool = {},
                      NEW r \in script.report, r.job \in Switching, NEW i \in 1 .. 2
               PROVE  flags[Switches[i]] = Wanted(r.job)
    BY DEF SwitchedWhenSettled
  <2>1. script.job \in Switching /\ r.job = script.job
    BY JobsAreDifferent DEF MoveInv, JobsOK
  <2>2. DealtWith = 2
    BY <2>1, JobsAreDifferent, Names DEF DealtWith, Items
  <2>3. QED
    BY <2>1, <2>2 DEF TaskInv, SwitchOK, Alone
<1>2. QED
  BY <1>1, MoveInvHolds, TaskInvHolds, PTL
=============================================================================
