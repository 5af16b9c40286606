--------------------------- MODULE NetworkConfig ----------------------------
(***************************************************************************)
(* The networks the tasks run on (hardhat.config.ts) and the parameters    *)
(* they take for each of them (helpers/constants.ts).  An address of a     *)
(* parameter is a constant; the zero address stands where the repository   *)
(* leaves a parameter for the operator to fill in.                         *)
(***************************************************************************)
EXTENDS Integers, Sequences

CONSTANTS Governance, Safe,     \* administrators of the proxies
          BUSD,                 \* the reward token of the test network
          TestRouter, Router,   \* the swap routers
          TestVaults            \* the eight wallets of the test network, by name

ZERO_ADDRESS == 0

BUIDLEREVM_CHAINID == 31337
COVERAGE_CHAINID   == 1337
CLAIM_WAIT         == 3600

NO_CHAINID == 0     \* the configuration has none

eEthereumNetwork == {"coverage", "hardhat", "bsc_test", "bsc"}

chainId == [kovan |-> 42, bsc_test |-> 97, bsc |-> 56,
            hardhat |-> BUIDLEREVM_CHAINID, buidlerevm_docker |-> BUIDLEREVM_CHAINID,
            ganache |-> NO_CHAINID, coverage |-> COVERAGE_CHAINID]

Network == DOMAIN chainId

SUPPORTED_ETHERSCAN_NETWORKS == {"main", "ropsten", "kovan", "bsc", "bsc_test"}

\* A network without parameters of its own takes those of the test network.
getParamPerNetwork(param, network) ==
    param[IF network \in eEthereumNetwork THEN network ELSE "bsc_test"]

getBIBAdminPerNetwork(network) ==
    getParamPerNetwork([coverage |-> Governance, hardhat |-> Governance,
                        bsc_test |-> Governance, bsc |-> Safe], network)

getBUSDTokenPerNetwork(network) ==
    getParamPerNetwork([coverage |-> ZERO_ADDRESS, hardhat |-> BUSD,
                        bsc_test |-> BUSD, bsc |-> ZERO_ADDRESS], network)

getSwapRoterPerNetwork(network) ==
    getParamPerNetwork([coverage |-> ZERO_ADDRESS, hardhat |-> TestRouter,
                        bsc_test |-> TestRouter, bsc |-> Router], network)

\* The wallets are known on the test network only.
Vault(name, network) ==
    getParamPerNetwork([coverage |-> ZERO_ADDRESS, hardhat |-> ZERO_ADDRESS,
                        bsc_test |-> TestVaults[name], bsc |-> ZERO_ADDRESS], network)

getEosystemVaultPartPerNetwork(network) == Vault("ecosystem", network)
getProjectTeamPartPerNetwork(network)   == Vault("team", network)
getPrivateSellPartPerNetwork(network)   == Vault("privateSell", network)
getPulicSellPartPerNetwork(network)     == Vault("publicSell", network)
getLiquidtyPartPerNetwork(network)      == Vault("liquidity", network)
getMarkettingPartPerNetwork(network)    == Vault("marketing", network)
getIncentivePartPerNetwork(network)     == Vault("incentive", network)
getCoperationPartPerNetwork(network)    == Vault("cooperation", network)

\* All parameters of a deployment, as the repository has them.
Committed(network) ==
    [network |-> network,
     admin   |-> getBIBAdminPerNetwork(network),
     busd    |-> getBUSDTokenPerNetwork(network),
     router  |-> getSwapRoterPerNetwork(network),
     team    |-> getProjectTeamPartPerNetwork(network),
     vaults  |-> << getEosystemVaultPartPerNetwork(network),
                    getPrivateSellPartPerNetwork(network),
                    getPulicSellPartPerNetwork(network),
                    getLiquidtyPartPerNetwork(network),
                    getMarkettingPartPerNetwork(network),
                    getIncentivePartPerNetwork(network),
                    getCoperationPartPerNetwork(network) >>]
=============================================================================
