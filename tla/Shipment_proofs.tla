--------------------------- MODULE Shipment_proofs --------------------------
(* Proofs about the shipment contract, for any number of contracts and      *)
(* accounts, any prices and any width of the price. The inductive invariant *)
(* is the type invariant, the parties being known, and the contract's ether *)
(* being exactly the debt to its sender.                                    *)
EXTENDS Shipment, TLAPS

IInv == TypeOK /\ PartiesKnown /\ Backed

\* Nothing is deployed, owed or held at first.
LEMMA InitIInv == Init => IInv
  BY ShipmentAssumption DEF Init, IInv, TypeOK, PartiesKnown, Backed, Owed, Parties

\* A price reduced to the width of the constructor's parameter is one the
\* contract can ask for.
LEMMA ReducedPrice ==
    ASSUME NEW price \in Prices
    PROVE  price % PriceModulus \in 0 .. PriceModulus - 1
  BY ShipmentAssumption

\* In a deployed contract the sender's claim is what the contract holds, and
\* an open or refused shipment holds nothing.
LEMMA HeldIsOwed ==
    ASSUME IInv, NEW c \in Contracts, status[c] # "None"
    PROVE  /\ sender[c] \in Accounts
           /\ receiver[c] \in Accounts
           /\ balance[c] = pending[c][sender[c]]
           /\ status[c] # "Completed" => balance[c] = 0
  BY DEF IInv, TypeOK, PartiesKnown, Backed, Owed

\* The constructor keeps the invariant: a fresh contract owes nothing.
LEMMA DeployIInv ==
    ASSUME IInv, NEW c \in Contracts, NEW a \in Accounts, NEW r \in Accounts,
           NEW p \in Prices, Deploy(c, a, r, p)
    PROVE  IInv'
<1>1. TypeOK'
  BY ReducedPrice DEF IInv, TypeOK, Parties, Deploy
<1>2. PartiesKnown'
  BY DEF IInv, TypeOK, PartiesKnown, Deploy
<1>3. Backed'
  BY ShipmentAssumption DEF IInv, TypeOK, Backed, Owed, PartiesKnown, Deploy
<1>4. QED
  BY <1>1, <1>2, <1>3 DEF IInv

\* Completing keeps it: the price paid becomes the debt to the sender.
LEMMA CompleteIInv ==
    ASSUME IInv, NEW c \in Contracts, NEW a \in Accounts,
           NEW paid \in 0 .. PriceModulus - 1, SetStatusCompleted(c, a, paid)
    PROVE  IInv'
<1> USE DEF SetStatusCompleted, onlyIfActive, onlyIfPaid, onlyIfUser
<1>1. /\ sender[c] \in Accounts
      /\ balance[c] = 0 /\ pending[c][sender[c]] = 0
      /\ status[c] = "Shipped" /\ paid = value[c] /\ wallet[a] >= paid
  BY HeldIsOwed
<1>2. TypeOK'
  <2>1. wallet[a] - paid \in Nat /\ balance[c] + paid \in Nat
    BY <1>1 DEF IInv, TypeOK
  <2>2. pending[c][sender[c]] + paid \in Nat
    BY <1>1
  <2>3. QED
    BY <1>1, <2>1, <2>2 DEF IInv, TypeOK
<1>3. PartiesKnown'
  BY DEF IInv, TypeOK, PartiesKnown
<1>4. Backed'
  BY <1>1 DEF IInv, TypeOK, Backed, Owed
<1>5. QED
  BY <1>2, <1>3, <1>4 DEF IInv

\* Refusing keeps it: an open shipment held nothing to strand.
LEMMA RefuseIInv ==
    ASSUME IInv, NEW c \in Contracts, NEW a \in Accounts, SetStatusRefused(c, a)
    PROVE  IInv'
<1> USE DEF SetStatusRefused, onlyIfActive, onlyIfUser
<1>1. TypeOK'
  BY DEF IInv, TypeOK
<1>2. PartiesKnown'
  BY DEF IInv, TypeOK, PartiesKnown
<1>3. Backed'
  BY DEF IInv, TypeOK, Backed, Owed
<1>4. QED
  BY <1>1, <1>2, <1>3 DEF IInv

\* Withdrawing keeps it: only the sender has something to withdraw, and takes
\* all the contract holds.
LEMMA WithdrawIInv ==
    ASSUME IInv, NEW c \in Contracts, NEW a \in Accounts, Withdraw(c, a)
    PROVE  IInv'
<1> USE DEF Withdraw
<1>1. /\ status[c] # "None" /\ balance[c] = pending[c][sender[c]]
      /\ sender[c] \in Accounts
  BY HeldIsOwed
<1>2. a # sender[c] => pending[c][a] = 0
  BY DEF IInv, Backed
<1>3. TypeOK'
  <2>1. balance[c] - pending[c][a] \in Nat /\ wallet[a] + pending[c][a] \in Nat
    BY DEF IInv, TypeOK
  <2>2. QED
    BY <2>1 DEF IInv, TypeOK
<1>4. PartiesKnown'
  BY DEF IInv, TypeOK, PartiesKnown
<1>5. Backed'
  BY <1>1, <1>2 DEF IInv, TypeOK, Backed, Owed
<1>6. QED
  BY <1>3, <1>4, <1>5 DEF IInv

LEMMA NextIInv == IInv /\ [Next]_vars => IInv'
<1> SUFFICES ASSUME IInv, [Next]_vars PROVE IInv'
  OBVIOUS
<1>1. ASSUME NEW c \in Contracts, NEW a \in Accounts,
             NEW r \in Accounts, NEW p \in Prices, Deploy(c, a, r, p)
      PROVE  IInv'
  BY <1>1, DeployIInv
<1>2. ASSUME NEW c \in Contracts, NEW a \in Accounts,
             NEW paid \in 0 .. PriceModulus - 1, SetStatusCompleted(c, a, paid)
      PROVE  IInv'
  BY <1>2, CompleteIInv
<1>3. ASSUME NEW c \in Contracts, NEW a \in Accounts, SetStatusRefused(c, a)
      PROVE  IInv'
  BY <1>3, RefuseIInv
<1>4. ASSUME NEW c \in Contracts, NEW a \in Accounts, Withdraw(c, a)
      PROVE  IInv'
  BY <1>4, WithdrawIInv
<1>5. CASE UNCHANGED vars
  BY <1>5 DEF vars, IInv, TypeOK, PartiesKnown, Backed, Owed
<1>6. QED
  BY <1>1, <1>2, <1>3, <1>4, <1>5 DEF Next

\* Every reachable state of the contracts satisfies the inductive invariant.
THEOREM Invariance == Spec => []IInv
  BY InitIInv, NextIInv, PTL DEF Spec

-----------------------------------------------------------------------------

\* Balances, claims and wallets are never negative (new_logistics.sol keeps
\* them unsigned), and a status is always one of the enum's.
THEOREM TypeCorrect == Spec => []TypeOK
<1>1. IInv => TypeOK
  BY DEF IInv
<1>2. QED
  BY <1>1, Invariance, PTL

\* Whatever the interleaving of calls, a contract holds exactly what it owes
\* its sender, and holds it only after completion.
THEOREM AlwaysBacked == Spec => []Backed
<1>1. IInv => Backed
  BY DEF IInv
<1>2. QED
  BY <1>1, Invariance, PTL

-----------------------------------------------------------------------------

LEMMA StepVerdict == IInv /\ [Next]_vars => [VerdictKept]_vars
<1> SUFFICES ASSUME IInv, Next PROVE VerdictKept
  OBVIOUS
<1> USE DEF VerdictKept, IInv, TypeOK
<1>1. ASSUME NEW c \in Contracts, NEW a \in Accounts,
             NEW r \in Accounts, NEW p \in Prices, Deploy(c, a, r, p)
      PROVE  VerdictKept
  BY <1>1 DEF Deploy
<1>2. ASSUME NEW c \in Contracts, NEW a \in Accounts,
             NEW paid \in 0 .. PriceModulus - 1, SetStatusCompleted(c, a, paid)
      PROVE  VerdictKept
  BY <1>2 DEF SetStatusCompleted, onlyIfActive
<1>3. ASSUME NEW c \in Contracts, NEW a \in Accounts, SetStatusRefused(c, a)
      PROVE  VerdictKept
  BY <1>3 DEF SetStatusRefused, onlyIfActive
<1>4. ASSUME NEW c \in Contracts, NEW a \in Accounts, Withdraw(c, a)
      PROVE  VerdictKept
  BY <1>4 DEF Withdraw
<1>5. QED
  BY <1>1, <1>2, <1>3, <1>4 DEF Next

\* Completion and refusal exclude each other for good, and the terms of a
\* deployed shipment never change.
THEOREM VerdictIsFinal == Spec => VerdictFinal
  BY Invariance, StepVerdict, PTL DEF Spec, VerdictFinal

LEMMA StepPays == IInv /\ [Next]_vars => [PaysForCompletion]_vars
<1> SUFFICES ASSUME IInv, Next PROVE PaysForCompletion
  OBVIOUS
<1>1. ASSUME NEW c \in Contracts, NEW a \in Accounts,
             NEW r \in Accounts, NEW p \in Prices, Deploy(c, a, r, p)
      PROVE  PaysForCompletion
  BY <1>1 DEF Deploy, PaysForCompletion, IInv, TypeOK
<1>2. ASSUME NEW c \in Contracts, NEW a \in Accounts,
             NEW paid \in 0 .. PriceModulus - 1, SetStatusCompleted(c, a, paid)
      PROVE  PaysForCompletion
  BY <1>2 DEF SetStatusCompleted, onlyIfActive, onlyIfPaid, onlyIfUser,
              PaysForCompletion, IInv, TypeOK
<1>3. ASSUME NEW c \in Contracts, NEW a \in Accounts, SetStatusRefused(c, a)
      PROVE  PaysForCompletion
  BY <1>3 DEF SetStatusRefused, PaysForCompletion, IInv, TypeOK
<1>4. ASSUME NEW c \in Contracts, NEW a \in Accounts, Withdraw(c, a)
      PROVE  PaysForCompletion
  BY <1>4 DEF Withdraw, PaysForCompletion, IInv, TypeOK
<1>5. QED
  BY <1>1, <1>2, <1>3, <1>4 DEF Next

\* Nobody is charged except a receiver accepting the goods, and then the price.
THEOREM ChargedOnlyOnCompletion == Spec => PaysOnlyOnCompletion
  BY Invariance, StepPays, PTL DEF Spec, PaysOnlyOnCompletion

LEMMA StepCollects == IInv /\ [Next]_vars => [CollectsTheDebt]_vars
<1> SUFFICES ASSUME IInv, Next PROVE CollectsTheDebt
  OBVIOUS
<1>1. ASSUME NEW c \in Contracts, NEW a \in Accounts,
             NEW r \in Accounts, NEW p \in Prices, Deploy(c, a, r, p)
      PROVE  CollectsTheDebt
  BY <1>1 DEF Deploy, CollectsTheDebt, IInv, TypeOK
<1>2. ASSUME NEW c \in Contracts, NEW a \in Accounts,
             NEW paid \in 0 .. PriceModulus - 1, SetStatusCompleted(c, a, paid)
      PROVE  CollectsTheDebt
  BY <1>2 DEF SetStatusCompleted, CollectsTheDebt, IInv, TypeOK
<1>3. ASSUME NEW c \in Contracts, NEW a \in Accounts, SetStatusRefused(c, a)
      PROVE  CollectsTheDebt
  BY <1>3 DEF SetStatusRefused, CollectsTheDebt, IInv, TypeOK
<1>4. ASSUME NEW c \in Contracts, NEW a \in Accounts, Withdraw(c, a)
      PROVE  CollectsTheDebt
  <2> SUFFICES ASSUME NEW b \in Accounts, wallet'[b] > wallet[b]
               PROVE  /\ b = sender[c] /\ status[c] = "Completed"
                      /\ wallet'[b] - wallet[b] = value[c]
                      /\ balance[c] = value[c] /\ balance'[c] = 0
    BY DEF CollectsTheDebt
  <2>1. b = a /\ pending[c][a] > 0 /\ wallet'[b] - wallet[b] = pending[c][a]
    BY <1>4 DEF Withdraw, IInv, TypeOK
  <2>2. a = sender[c] /\ status[c] # "None"
    BY <1>4, <2>1 DEF Withdraw, IInv, Backed
  <2>3. balance[c] = pending[c][a]
    BY <2>2 DEF IInv, Backed, Owed
  <2>4. status[c] = "Completed" /\ balance[c] = value[c]
    BY <2>1, <2>3 DEF IInv, TypeOK, Backed
  <2>5. balance'[c] = 0
    BY <1>4, <2>3 DEF Withdraw, IInv, TypeOK
  <2>6. QED
    BY <2>1, <2>2, <2>3, <2>4, <2>5
<1>5. QED
  BY <1>1, <1>2, <1>3, <1>4 DEF Next

\* Nobody is paid except a sender whose shipment completed, and then the price.
THEOREM PaidOnlyTheDebt == Spec => GainsOnlyTheDebt
  BY Invariance, StepCollects, PTL DEF Spec, GainsOnlyTheDebt

-----------------------------------------------------------------------------
(* The contract implements the escrow.                                      *)

LEMMA InitEscrow == Init => E!EInit
  BY DEF Init, E!EInit, PhaseOf, Owed

\* Deploying opens.
LEMMA DeployOpens ==
    ASSUME IInv, NEW c \in Contracts, NEW a \in Accounts, NEW r \in Accounts,
           NEW p \in Prices, Deploy(c, a, r, p)
    PROVE  E!Open(c)
<1>1. p % PriceModulus \in 0 .. PriceModulus - 1
  BY ReducedPrice
<1>2. [d \in Contracts |-> PhaseOf[status[d]]]'
        = [[d \in Contracts |-> PhaseOf[status[d]]] EXCEPT ![c] = "open"]
  BY DEF Deploy, PhaseOf, IInv, TypeOK
<1>3. \A d \in Contracts : Owed(d)' = Owed(d)
  BY ShipmentAssumption DEF Deploy, Owed, IInv, TypeOK, PartiesKnown, Backed
<1>4. UNCHANGED <<[d \in Contracts |-> Owed(d)], wallet>>
  BY <1>3 DEF Deploy
<1>5. [d \in Contracts |-> PhaseOf[status[d]]][c] = "absent"
  BY DEF Deploy, PhaseOf
<1>6. \E s, b \in Accounts, v \in 0 .. PriceModulus - 1 :
         /\ sender' = [sender EXCEPT ![c] = s]
         /\ receiver' = [receiver EXCEPT ![c] = b]
         /\ value' = [value EXCEPT ![c] = v]
  BY <1>1 DEF Deploy
<1>7. QED
  BY <1>2, <1>4, <1>5, <1>6 DEF E!Open

\* Completing settles.
LEMMA CompleteSettles ==
    ASSUME IInv, NEW c \in Contracts, NEW a \in Accounts,
           NEW paid \in 0 .. PriceModulus - 1, SetStatusCompleted(c, a, paid)
    PROVE  E!Settle(c)
<1> USE DEF SetStatusCompleted, onlyIfActive, onlyIfPaid, onlyIfUser
<1>1. sender[c] \in Accounts /\ pending[c][sender[c]] = 0
  BY HeldIsOwed
<1>2. [d \in Contracts |-> PhaseOf[status[d]]]'
        = [[d \in Contracts |-> PhaseOf[status[d]]] EXCEPT ![c] = "settled"]
  BY DEF PhaseOf, IInv, TypeOK
<1>3. [d \in Contracts |-> Owed(d)]'
        = [[d \in Contracts |-> Owed(d)] EXCEPT ![c] = value[c]]
  <2>1. Owed(c)' = value[c]
    BY <1>1 DEF Owed, IInv, TypeOK
  <2>2. \A d \in Contracts \ {c} : Owed(d)' = Owed(d)
    BY DEF Owed, IInv, TypeOK
  <2>3. QED
    BY <2>1, <2>2
<1>4. QED
  BY <1>2, <1>3 DEF E!Settle, PhaseOf, IInv, TypeOK

\* Refusing cancels.
LEMMA RefuseCancels ==
    ASSUME IInv, NEW c \in Contracts, NEW a \in Accounts, SetStatusRefused(c, a)
    PROVE  E!Cancel(c)
<1> USE DEF SetStatusRefused, onlyIfActive
<1>1. [d \in Contracts |-> PhaseOf[status[d]]]'
        = [[d \in Contracts |-> PhaseOf[status[d]]] EXCEPT ![c] = "cancelled"]
  BY DEF PhaseOf, IInv, TypeOK
<1>2. [d \in Contracts |-> Owed(d)]' = [d \in Contracts |-> Owed(d)]
  BY DEF Owed, IInv, TypeOK
<1>3. QED
  BY <1>1, <1>2 DEF E!Cancel, PhaseOf

\* Withdrawing pays out when the sender is owed something, and is no step of
\* the escrow otherwise.
LEMMA WithdrawPaysOut ==
    ASSUME IInv, NEW c \in Contracts, NEW a \in Accounts, Withdraw(c, a)
    PROVE  E!PayOut(c) \/ UNCHANGED E!evars
<1> USE DEF Withdraw
<1>1. /\ status[c] # "None" /\ sender[c] \in Accounts
      /\ Owed(c) = pending[c][sender[c]]
  BY HeldIsOwed DEF Owed
<1>2. UNCHANGED [d \in Contracts |-> PhaseOf[status[d]]]
  OBVIOUS
<1>3. CASE pending[c][a] = 0
  <2>1. UNCHANGED <<pending, wallet>>
    BY <1>3 DEF IInv, TypeOK
  <2>2. UNCHANGED [d \in Contracts |-> Owed(d)]
    BY <2>1 DEF Owed
  <2>3. QED
    BY <1>2, <2>1, <2>2 DEF E!evars
<1>4. CASE pending[c][a] # 0
  <2>1. a = sender[c]
    BY <1>4 DEF IInv, Backed
  <2>2. Owed(c) > 0 /\ Owed(c) = pending[c][a]
    BY <1>1, <1>4, <2>1 DEF IInv, TypeOK
  <2>3. [d \in Contracts |-> Owed(d)]'
          = [[d \in Contracts |-> Owed(d)] EXCEPT ![c] = 0]
    BY <1>1, <2>1 DEF Owed, IInv, TypeOK
  <2>4. wallet' = [wallet EXCEPT ![sender[c]] = @ + Owed(c)]
    BY <2>1, <2>2
  <2>5. E!PayOut(c)
    BY <1>2, <2>2, <2>3, <2>4 DEF E!PayOut
  <2>6. QED
    BY <2>5
<1>5. QED
  BY <1>3, <1>4

LEMMA StepEscrow == IInv /\ [Next]_vars => [E!ENext]_(E!evars)
<1> SUFFICES ASSUME IInv, [Next]_vars PROVE E!ENext \/ UNCHANGED E!evars
  OBVIOUS
<1>1. ASSUME NEW c \in Contracts, NEW a \in Accounts,
             NEW r \in Accounts, NEW p \in Prices, Deploy(c, a, r, p)
      PROVE  E!ENext
  BY <1>1, DeployOpens DEF E!ENext
<1>2. ASSUME NEW c \in Contracts, NEW a \in Accounts,
             NEW paid \in 0 .. PriceModulus - 1, SetStatusCompleted(c, a, paid)
      PROVE  E!ENext
  BY <1>2, CompleteSettles DEF E!ENext
<1>3. ASSUME NEW c \in Contracts, NEW a \in Accounts, SetStatusRefused(c, a)
      PROVE  E!ENext
  BY <1>3, RefuseCancels DEF E!ENext
<1>4. ASSUME NEW c \in Contracts, NEW a \in Accounts, Withdraw(c, a)
      PROVE  E!ENext \/ UNCHANGED E!evars
  BY <1>4, WithdrawPaysOut DEF E!ENext
<1>5. CASE UNCHANGED vars
  BY <1>5 DEF vars, E!evars, Owed
<1>6. QED
  BY <1>1, <1>2, <1>3, <1>4, <1>5 DEF Next

\* The Solidity contract implements the escrow, for any number of contracts and
\* accounts: initial states map to initial states, steps to steps or stutters.
THEOREM Refinement == Spec => ImplementsEscrow
  BY Invariance, InitEscrow, StepEscrow, PTL DEF Spec, ImplementsEscrow, E!ESpec

=============================================================================
