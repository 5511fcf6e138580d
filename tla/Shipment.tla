------------------------------ MODULE Shipment ------------------------------
(* The Ethereum contract of src/dapp_src/new_logistics.sol, any number of   *)
(* deployed instances of it, and the wallets of the people who call it. The *)
(* chain executes one transaction at a time, and a call whose require fails *)
(* reverts every effect, so one successful call is one action and a failed  *)
(* one is no step.                                                          *)
(*                                                                          *)
(* Left out: handler and name, which the contract stores and never reads,   *)
(* the events, and the gas the callers pay.                                 *)
EXTENDS Integers

CONSTANTS Contracts,      \* the addresses a shipment may be deployed at
          Accounts,       \* the addresses that send transactions
          Unpayable,      \* those of them whose code rejects plain ether
          NoAccount,      \* the sender of a contract not yet deployed
          Prices,         \* the prices the sender may ask for
          PriceModulus,   \* 2^64: the width of shipmentGivenPrice
          Funds           \* what every account holds at first

ASSUME ShipmentAssumption ==
    /\ Unpayable \subseteq Accounts
    /\ NoAccount \notin Accounts
    /\ Prices \subseteq Nat
    /\ PriceModulus \in Nat \ {0}
    /\ Funds \in Nat

VARIABLES status,         \* "None" before deployment, then the contract's enum
          sender,         \* the account that deployed it
          receiver,       \* the account that accepts or refuses the goods
          value,          \* what the receiver has to pay
          pending,        \* pendingWithdrawals, per contract and account
          balance,        \* the ether the contract holds
          wallet          \* the ether each account holds

vars == <<status, sender, receiver, value, pending, balance, wallet>>

Parties == Accounts \cup {NoAccount}

TypeOK ==
    /\ status \in [Contracts -> {"None", "Shipped", "Completed", "Refused"}]
    /\ sender \in [Contracts -> Parties]
    /\ receiver \in [Contracts -> Parties]
    /\ value \in [Contracts -> 0 .. PriceModulus - 1]
    /\ pending \in [Contracts -> [Accounts -> Nat]]
    /\ balance \in [Contracts -> Nat]
    /\ wallet \in [Accounts -> Nat]

Init ==
    /\ status = [c \in Contracts |-> "None"]
    /\ sender = [c \in Contracts |-> NoAccount]
    /\ receiver = [c \in Contracts |-> NoAccount]
    /\ value = [c \in Contracts |-> 0]
    /\ pending = [c \in Contracts |-> [a \in Accounts |-> 0]]
    /\ balance = [c \in Contracts |-> 0]
    /\ wallet = [a \in Accounts |-> Funds]

\* Mutant of Deploy: a constructor that takes the price unreduced.
DeployUnreduced(c, a, r, price) ==
    /\ status[c] = "None"
    /\ status' = [status EXCEPT ![c] = "Shipped"]
    /\ sender' = [sender EXCEPT ![c] = a]
    /\ receiver' = [receiver EXCEPT ![c] = r]
    /\ value' = [value EXCEPT ![c] = price]
    /\ UNCHANGED <<pending, balance, wallet>>

\* The constructor. Its price parameter is 64 bits wide, so a larger price
\* arrives reduced. Nothing keeps the sender from naming itself receiver.
Deploy(c, a, r, price) ==
    /\ status[c] = "None"
    /\ status' = [status EXCEPT ![c] = "Shipped"]
    /\ sender' = [sender EXCEPT ![c] = a]
    /\ receiver' = [receiver EXCEPT ![c] = r]
    /\ value' = [value EXCEPT ![c] = price % PriceModulus]
    /\ UNCHANGED <<pending, balance, wallet>>

\* Mutants of the modifiers: one forgotten at a time.
AnyStatus(c) == status[c] # "None"
AnyAmount(c, paid) == TRUE

onlyIfActive(c) == status[c] = "Shipped"
onlyIfUser(a, user) == a = user
onlyIfPaid(c, paid) == paid = value[c]

\* setStatusCompleted, called by a with the ether paid attached.
SetStatusCompleted(c, a, paid) ==
    /\ onlyIfActive(c)
    /\ onlyIfPaid(c, paid)
    /\ onlyIfUser(a, receiver[c])
    /\ wallet[a] >= paid
    /\ status' = [status EXCEPT ![c] = "Completed"]
    /\ pending' = [pending EXCEPT ![c][sender[c]] = @ + paid]
    /\ balance' = [balance EXCEPT ![c] = @ + paid]
    /\ wallet' = [wallet EXCEPT ![a] = @ - paid]
    /\ UNCHANGED <<sender, receiver, value>>

\* Mutant of SetStatusRefused: onlyIfActive is missing.
RefuseAnytime(c, a) ==
    /\ status[c] # "None"
    /\ onlyIfUser(a, receiver[c])
    /\ status' = [status EXCEPT ![c] = "Refused"]
    /\ UNCHANGED <<sender, receiver, value, pending, balance, wallet>>

\* setStatusRefused: not payable, so no ether moves.
SetStatusRefused(c, a) ==
    /\ onlyIfActive(c)
    /\ onlyIfUser(a, receiver[c])
    /\ status' = [status EXCEPT ![c] = "Refused"]
    /\ UNCHANGED <<sender, receiver, value, pending, balance, wallet>>

\* Mutant of Withdraw: the entry is not zeroed.
WithdrawKeepingClaim(c, a) ==
    /\ status[c] # "None"
    /\ a \notin Unpayable
    /\ balance[c] >= pending[c][a]
    /\ balance' = [balance EXCEPT ![c] = @ - pending[c][a]]
    /\ wallet' = [wallet EXCEPT ![a] = @ + pending[c][a]]
    /\ UNCHANGED <<status, sender, receiver, value, pending>>

\* Mutant of Withdraw: send, its result ignored, instead of transfer.
WithdrawBySend(c, a) ==
    /\ status[c] # "None"
    /\ pending' = [pending EXCEPT ![c][a] = 0]
    /\ IF a \in Unpayable
       THEN UNCHANGED <<balance, wallet>>
       ELSE /\ balance' = [balance EXCEPT ![c] = @ - pending[c][a]]
            /\ wallet' = [wallet EXCEPT ![a] = @ + pending[c][a]]
    /\ UNCHANGED <<status, sender, receiver, value>>

\* Anyone may call withdraw at any time; the entry is zeroed before the
\* transfer, and a transfer that fails takes the zeroing back with it.
Withdraw(c, a) ==
    /\ status[c] # "None"
    /\ a \notin Unpayable
    /\ balance[c] >= pending[c][a]
    /\ pending' = [pending EXCEPT ![c][a] = 0]
    /\ balance' = [balance EXCEPT ![c] = @ - pending[c][a]]
    /\ wallet' = [wallet EXCEPT ![a] = @ + pending[c][a]]
    /\ UNCHANGED <<status, sender, receiver, value>>

Next ==
    \E c \in Contracts, a \in Accounts :
        \/ \E r \in Accounts, price \in Prices : Deploy(c, a, r, price)
        \/ \E paid \in 0 .. PriceModulus - 1 : SetStatusCompleted(c, a, paid)
        \/ SetStatusRefused(c, a)
        \/ Withdraw(c, a)

Spec == Init /\ [][Next]_vars

-----------------------------------------------------------------------------
\* What the contract must never get wrong.

\* The sender's uncollected money.
Owed(c) == IF status[c] = "None" THEN 0 ELSE pending[c][sender[c]]

\* A contract holds exactly what its ledger says it owes, it owes only its
\* sender, and it owes something only between completion and withdrawal, and
\* then exactly the price: no path through complete, refuse and withdraw
\* leaves money stranded in a refused shipment or a claim nothing backs.
Backed ==
    \A c \in Contracts :
        /\ balance[c] = Owed(c)
        /\ \A a \in Accounts \ {sender[c]} : pending[c][a] = 0
        /\ balance[c] # 0 => status[c] = "Completed" /\ balance[c] = value[c]

\* Every deployed contract has two real parties; an address where nothing is
\* deployed has none and holds no claim.
PartiesKnown ==
    \A c \in Contracts :
        IF status[c] = "None"
        THEN sender[c] = NoAccount /\ receiver[c] = NoAccount
        ELSE sender[c] \in Accounts /\ receiver[c] \in Accounts

\* Once deployed the parties and the price stand, and once completed or
\* refused the verdict stands.
VerdictKept ==
    \A c \in Contracts :
        /\ status[c] # "None" => UNCHANGED <<sender[c], receiver[c], value[c]>>
        /\ status[c] \in {"Completed", "Refused"} => UNCHANGED status[c]

\* An account loses ether only as the receiver of an open shipment, in the
\* very step that completes it, and loses exactly its price.
PaysForCompletion ==
    \A a \in Accounts : wallet'[a] < wallet[a] =>
        \E c \in Contracts :
            /\ a = receiver[c]
            /\ status[c] = "Shipped" /\ status'[c] = "Completed"
            /\ wallet[a] - wallet'[a] = value[c]

\* An account gains ether only as the sender of a completed shipment, exactly
\* its price, in a step that empties the contract.
CollectsTheDebt ==
    \A a \in Accounts : wallet'[a] > wallet[a] =>
        \E c \in Contracts :
            /\ a = sender[c]
            /\ status[c] = "Completed"
            /\ wallet'[a] - wallet[a] = value[c]
            /\ balance[c] = value[c] /\ balance'[c] = 0

\* No step reopens, reprices or reverses a shipment: of two tabs of the
\* receiver, one accepting and one refusing, only one has its way.
VerdictFinal == [][VerdictKept]_vars

\* No step charges anyone but a receiver accepting the goods.
PaysOnlyOnCompletion == [][PaysForCompletion]_vars

\* No step pays anyone but a sender owed the price, and none pays twice.
GainsOnlyTheDebt == [][CollectsTheDebt]_vars

\* The contract's states as the escrow's phases.
PhaseOf == [None      |-> "absent",
            Shipped   |-> "open",
            Completed |-> "settled",
            Refused   |-> "cancelled"]

E == INSTANCE Escrow
        WITH Asked  <- 0 .. PriceModulus - 1,
             phase  <- [c \in Contracts |-> PhaseOf[status[c]]],
             seller <- sender,
             buyer  <- receiver,
             price  <- value,
             owed   <- [c \in Contracts |-> Owed(c)],
             purse  <- wallet

\* The contract implements the escrow it stands for: every call that succeeds
\* is a step of the escrow or none, with the mapping from accounts to claims
\* collapsed to one debt to the sender.
ImplementsEscrow == E!ESpec

=============================================================================
