---------------------------- MODULE MCMaintenance ----------------------------
(***************************************************************************)
(* Maintenance for TLC: the two networks the prompts tell apart, a task    *)
(* started with each of its flags, and one kind of call from elsewhere for *)
(* each thing a task reads before it acts.                                 *)
(***************************************************************************)
EXTENDS Maintenance

CONSTANTS new

Env(network, key, file, id) ==
    [network |-> network, adminKey |-> key, file |-> file, chainId |-> id]

AllEnvs == {Env("bsc", Admin, TRUE, TRUE), Env("bsc_test", Deployer, TRUE, TRUE),
            Env("ganache", "", TRUE, FALSE), Env("bsc_test", Admin, FALSE, TRUE)}

AllJobLists == {<< "change-admin-address", "transfer-ownership" >>, << "transfer-ownership" >>,
                << "change-admin-address" >>, << "run-exclude" >>, << "enable" >>, << "disable" >>}

AllConsoleCalls == {Setter("isFromWhiteList", new, TRUE), Setter("isToWhiteList", new, FALSE),
                    Setter("noProcessList", new, FALSE), Setter("swapEnabled", "", FALSE),
                    Call("changeAdmin", "TokenDividendTracker", new, TRUE),
                    Call("upgradeTo", "BIBToken", new, TRUE)}

\* A change of administrators, with the right key and nobody else acting, that
\* may be killed and run again.
RightKey == {Env("bsc_test", Admin, TRUE, TRUE)}
ChangesOnly == {<< "change-admin-address" >>}
NobodyElse == {}
=============================================================================
