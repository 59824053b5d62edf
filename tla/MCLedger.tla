------------------------------ MODULE MCLedger ------------------------------
(* Instances of EvmCall: a validator that produces blocks, a staker, the    *)
(* admin, and the bridge authority.                                        *)
EXTENDS EvmCall

CONSTANTS val, usr, adm, auth

FourAccounts == {val, usr, adm, auth}
BlockProducers == {val, Nobody}
RewardFactors == {10000}
BlockTimes == {1, 3, 5}

Account(balance, zerenya, staked) ==
    [balance |-> balance, zerenya |-> zerenya, staked |-> staked, pendingStake |-> 0,
     activatesAt |-> 0, unbonding |-> 0, unlocksAt |-> 0, debt |-> 0, registered |-> FALSE,
     status |-> "none", snapshot |-> 0, jailedUntil |-> 0, bondedUntil |-> 0, nonce |-> 0,
     allow |-> [a \in Addrs |-> 0]]

Validator(balance, zerenya, staked) ==
    [Account(balance, zerenya, staked) EXCEPT !.registered = TRUE, !.status = "active"]

World ==
    [acct |-> [a \in Addrs |->
                  CASE a = val -> Validator(3000, 400, 2000)
                    [] a = usr -> Account(5000, 600, 1000)
                    [] OTHER -> Account(500, 0, 0)],
     pool |-> [zagros |-> 40000, zerenya |-> 10000], treasury |-> 0, totalStaked |-> 3000,
     acc |-> 0, backed |-> 10000,
     volume |-> [start |-> 0, current |-> [d \in Directions |-> 0],
                 previous |-> [d \in Directions |-> 0]],
     usedProofs |-> {}, slashes |-> <<>>, burns |-> <<>>, nextBurn |-> 0, transfers |-> {},
     daily |-> <<>>, processed |-> {}]

Tx(type, from, to, amt, min, fee) ==
    [type |-> type, from |-> from, to |-> to, amt |-> amt, min |-> min, fee |-> fee,
     skew |-> 0, ref |-> Nobody]

Evidence == [validator |-> val, until |-> 4]
Deposit(s, auto) ==
    [source |-> s, to |-> usr, amt |-> 300, auto |-> auto, min |-> 0, signed |-> TRUE]

Money ==
    {Tx("transfer", usr, val, 700, 0, 8), Tx("transfer", val, val, 700, 0, 8),
     Tx("buy", usr, usr, 500, 0, 16), Tx("buy", val, val, 300, 0, 16),
     Tx("sell", usr, usr, 2000, 0, 16), Tx("sell", val, val, 1500, 355, 16),
     Tx("stake", usr, usr, 900, 0, 16),
     Tx("unstake", usr, usr, 1000, 0, 16),
     Tx("unstake", val, val, 1500, 0, 16), Tx("unstake", val, val, 0, 0, 16),
     [Tx("unstake", usr, usr, 0, 0, 16) EXCEPT !.skew = 1],
     Tx("claim", usr, usr, 0, 0, 16),
     Tx("slash", adm, val, 0, 0, 80),
     [Tx("report", usr, val, 0, 0, 80) EXCEPT !.ref = Evidence],
     Tx("unregister", val, val, 0, 0, 16),
     [Tx("mint", auth, usr, 300, 0, 16) EXCEPT !.ref = Deposit(0, FALSE)],
     [Tx("mint_and_swap", auth, usr, 300, 0, 16) EXCEPT !.ref = Deposit(0, TRUE)],
     Tx("burn", usr, usr, 500, 0, 16),
     Tx("swap_and_burn", usr, usr, 1200, 0, 16)}


EvmTx(type, from, to, amt, fee, used, creates) ==
    [type |-> type, from |-> from, to |-> to, amt |-> amt, min |-> 0, fee |-> fee, skew |-> 0,
     used |-> used, creates |-> creates, deploy |-> FALSE, ref |-> Nobody]

EvmTxs ==
    {EvmTx("call", val, adm, 100, 60, 30, 1), EvmTx("call", usr, adm, 0, 20, 10, 0),
     [EvmTx("call", usr, auth, 0, 40, 15, 1) EXCEPT !.deploy = TRUE],
     EvmTx("call", val, adm, 2930, 60, 30, 1), EvmTx("evm_buy", usr, adm, 580, 20, 20, 0),
     EvmTx("evm_sell", val, adm, 1800, 20, 20, 0), EvmTx("evm_buy", usr, adm, 400, 20, 20, 0)}

Router == {adm}
Moved == {200}
CallPayees == {usr, adm}

=============================================================================
