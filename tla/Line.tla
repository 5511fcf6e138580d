-------------------------------- MODULE Line --------------------------------
(* What the line to the service promises those who ask over it and wait. A    *)
(* promise may be made whether the line is up or not. It is settled by an     *)
(* answer, which comes only while the line is up, or when the line falls, and *)
(* then with every other; a line may fall twice, and the second fall rejects  *)
(* what was asked since the first. Nothing is told twice, nor while the line  *)
(* is down. EthSubscription.tla implements this.                              *)
EXTENDS Integers

CONSTANT Updates     \* what there is to be told

VARIABLES up,        \* whether the line is up
          made,      \* how many promises were made
          waiting,   \* those of 1 .. made that are not settled
          told       \* [Updates -> how often each was told]

lvars == <<up, made, waiting, told>>

LInit ==
    /\ up = FALSE
    /\ made = 0 /\ waiting = {}
    /\ told = [u \in Updates |-> 0]

\* More promises, or none; of those made before only the ones of left wait on.
Promise(left) ==
    /\ made' \in Nat /\ made' >= made
    /\ waiting' = left \cup (made + 1 .. made')

Ask == Promise(waiting) /\ UNCHANGED <<up, told>>

\* Whoever is answered may ask on.
Answer(i) ==
    /\ up
    /\ i \in waiting
    /\ Promise(waiting \ {i})
    /\ UNCHANGED <<up, told>>

Rise ==
    /\ ~up /\ up' = TRUE
    /\ Promise(waiting)
    /\ UNCHANGED told

Fall ==
    /\ up' = FALSE
    /\ waiting' = {}
    /\ UNCHANGED <<made, told>>

Tell(u) ==
    /\ up
    /\ told[u] = 0
    /\ told' = [told EXCEPT ![u] = 1]
    /\ UNCHANGED <<up, made, waiting>>

LNext ==
    \/ Ask \/ Rise \/ Fall
    \/ \E i \in waiting : Answer(i)
    \/ \E u \in Updates : Tell(u)

LSpec == LInit /\ [][LNext]_lvars

=============================================================================
