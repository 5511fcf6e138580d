------------------------------- MODULE Escrow -------------------------------
(* What the shipment contract promises its two parties, with no ledger in   *)
(* sight: a shipment is opened by a seller for a buyer at a price, and ends *)
(* either settled, the buyer having paid the price once, or cancelled, with *)
(* no money moved. A settled shipment owes the price to the seller, and to  *)
(* nobody else, until it is paid out once. Shipment.tla implements this.    *)
EXTENDS Integers

CONSTANTS Contracts,   \* the addresses a shipment may be deployed at
          Accounts,    \* the people who hold ether
          Asked        \* the prices a seller may ask for

VARIABLES phase,       \* [Contracts -> {"absent", "open", "settled", "cancelled"}]
          seller,      \* who is to be paid
          buyer,       \* who decides and pays
          price,       \* what is to be paid
          owed,        \* what the shipment still owes its seller
          purse        \* the ether each account holds

evars == <<phase, seller, buyer, price, owed, purse>>

EInit ==
    /\ phase = [c \in Contracts |-> "absent"]
    /\ owed = [c \in Contracts |-> 0]

Open(c) ==
    /\ phase[c] = "absent"
    /\ phase' = [phase EXCEPT ![c] = "open"]
    /\ \E s, b \in Accounts, v \in Asked :
          /\ seller' = [seller EXCEPT ![c] = s]
          /\ buyer' = [buyer EXCEPT ![c] = b]
          /\ price' = [price EXCEPT ![c] = v]
    /\ UNCHANGED <<owed, purse>>

\* The buyer accepts: the price leaves the buyer's purse and is owed.
Settle(c) ==
    /\ phase[c] = "open"
    /\ purse[buyer[c]] >= price[c]
    /\ phase' = [phase EXCEPT ![c] = "settled"]
    /\ owed' = [owed EXCEPT ![c] = price[c]]
    /\ purse' = [purse EXCEPT ![buyer[c]] = @ - price[c]]
    /\ UNCHANGED <<seller, buyer, price>>

Cancel(c) ==
    /\ phase[c] = "open"
    /\ phase' = [phase EXCEPT ![c] = "cancelled"]
    /\ UNCHANGED <<seller, buyer, price, owed, purse>>

\* The seller collects the whole debt, once.
PayOut(c) ==
    /\ owed[c] > 0
    /\ owed' = [owed EXCEPT ![c] = 0]
    /\ purse' = [purse EXCEPT ![seller[c]] = @ + owed[c]]
    /\ UNCHANGED <<phase, seller, buyer, price>>

ENext == \E c \in Contracts : Open(c) \/ Settle(c) \/ Cancel(c) \/ PayOut(c)

ESpec == EInit /\ [][ENext]_evars

=============================================================================
