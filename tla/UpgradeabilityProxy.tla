------------------------- MODULE UpgradeabilityProxy -------------------------
(***************************************************************************)
(* The proxies of contracts/deps.  A proxy is a record with the fields     *)
(* impl and admin, the two slots of EIP-1967, next to the storage of the   *)
(* contract it stands for.  F is what a call leaves, FReverts when it      *)
(* reverts.  Code at an address is passed in as a Boolean.                 *)
(***************************************************************************)
EXTENDS Integers

NOBODY == 0     \* an empty slot

\* initialize(address,address,bytes), once; `refused` says whether the
\* implementation refuses the encoded call.
ProxyInitializeReverts(proxy, logicIsContract, refused) ==
    \/ proxy.impl # NOBODY
    \/ ~logicIsContract
    \/ refused

ProxyInitialize(proxy, logic, admin) ==
    [proxy EXCEPT !.impl = logic, !.admin = admin]

\* Who administers a proxy reaches its own functions and nothing else, and
\* everybody else reaches the implementation and nothing else.
ifAdmin(proxy, sender) == sender = proxy.admin

WillFallback(proxy, sender) == ~ifAdmin(proxy, sender)

\* Called by anyone else, changeAdmin and upgradeTo fall through to an
\* implementation that has no such function.
ChangeAdminReverts(proxy, sender, newAdmin) ==
    ~ifAdmin(proxy, sender) \/ newAdmin = NOBODY

ChangeAdmin(proxy, newAdmin) == [proxy EXCEPT !.admin = newAdmin]

UpgradeToReverts(proxy, sender, logicIsContract) ==
    ~ifAdmin(proxy, sender) \/ ~logicIsContract

UpgradeTo(proxy, logic) == [proxy EXCEPT !.impl = logic]
=============================================================================
