---------------------------- MODULE MCDeployment -----------------------------
(***************************************************************************)
(* Deployment for TLC: the parameters as the repository has them, and as   *)
(* the operator may have filled them in.                                   *)
(***************************************************************************)
EXTENDS Deployment, TLC

CONSTANTS team, v1, v2, v3, v4, v5, v6, v7

TestVaultsByName ==
    [team |-> team, ecosystem |-> v1, privateSell |-> v2, publicSell |-> v3,
     liquidity |-> v4, marketing |-> v5, incentive |-> v6, cooperation |-> v7]

WithKey(params) == params @@ [key |-> TRUE]

\* What is missing on a network is taken from the test network.
FilledIn(network) ==
    [Committed("bsc_test") EXCEPT !.network = network, !.admin = getBIBAdminPerNetwork(network)]

AllConfigs ==
    {WithKey(Committed(network)) : network \in {"bsc_test", "bsc", "hardhat", "ganache"}}
      \cup {FilledIn("bsc") @@ [key |-> FALSE],
            WithKey([FilledIn("bsc") EXCEPT !.vaults[7] = v1]),
            WithKey([FilledIn("bsc") EXCEPT !.admin = Deployer]),
            WithKey([FilledIn("bsc") EXCEPT !.admin = ""])}

\* dev-deployment is bsc-test-deployment under another name, deployment the
\* common rest of all migrations, and deploy-TokenDividendTracker leaves what a
\* killed migration may leave.
SomeTasks == {"bsc-deployment", "bsc-test-deployment", "verify-sc", "deploy-BIBToken",
              "initialize-TokenDividendTracker", "initialize-BIBToken"}
=============================================================================
