------------------------------- MODULE Ledger -------------------------------
(* What the table of contracts promises of the shipments deployed from the   *)
(* bot's pages, with pages, nonces and requests out of sight. The chain has  *)
(* a shipment first, if it ever has it. After that it is recorded, between   *)
(* the parties the chain knows, or turned away; either once and for good,    *)
(* and what is recorded stays as it is. ContractTracking.tla implements this.*)

CONSTANTS Contracts,   \* the addresses a shipment may be deployed at
          Accounts     \* those who may be its parties

VARIABLES parties,     \* [Contracts -> its sender and receiver on the chain, in a set]
          fate,        \* [Contracts -> {"open", "recorded", "turned away"}]
          recorded     \* the table

dvars == <<parties, fate, recorded>>

DInit ==
    /\ parties = [c \in Contracts |-> {}]
    /\ fate = [c \in Contracts |-> "open"]
    /\ recorded = {}

Undecided(c) == fate[c] = "open" /\ parties[c] # {}

Appear(c) ==
    /\ fate[c] = "open" /\ parties[c] = {}
    /\ \E s, r \in Accounts :
          parties' = [parties EXCEPT ![c] = {[sender |-> s, receiver |-> r]}]
    /\ UNCHANGED <<fate, recorded>>

RowsOf(c) == {[cAddr |-> c, sAddr |-> p.sender, rAddr |-> p.receiver] : p \in parties[c]}

\* A shipment is recorded, or turned away, or each of those that were waiting
\* when the bot stopped is one or the other.
Decide ==
    /\ \E kept, away \in SUBSET {c \in Contracts : Undecided(c)} :
          /\ kept \cap away = {}
          /\ fate' = [c \in Contracts |-> IF c \in kept THEN "recorded"
                                         ELSE IF c \in away THEN "turned away" ELSE fate[c]]
          /\ recorded' = recorded \cup UNION {RowsOf(c) : c \in kept}
    /\ UNCHANGED parties

DNext == Decide \/ \E c \in Contracts : Appear(c)

DSpec == DInit /\ [][DNext]_dvars

=============================================================================
