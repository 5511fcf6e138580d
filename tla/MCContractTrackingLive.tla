----------------------- MODULE MCContractTrackingLive -----------------------
(* The instance of MCContractTracking with a record of the faults that leave *)
(* a nonce behind, so that its removal can be promised where there are none. *)
EXTENDS MCContractTracking

VARIABLE spoilt   \* history: a DELETE failed, or the process ended

LiveInit == Init /\ spoilt = FALSE

LiveNext ==
    /\ Next
    /\ spoilt' = (spoilt \/ Restart \/ \E d \in deletes : N!DeleteFails(d))

\* The event loop and the database, for the DELETEs nobody awaits too.
LiveSpec ==
    /\ LiveInit /\ [][LiveNext]_<<vars, spoilt>>
    /\ \A c \in Contracts :
          /\ WF_vars(Post(c))
          /\ WF_vars(Check(c) \/ ChatFound(c) \/ Admitted(c) \/ Record(c))
    /\ \A d \in N!Deletion : WF_vars(Deleted(d))

\* A nonce that was honoured is soon out of the table, whoever else stores and
\* presents nonces meanwhile, unless its DELETE was lost.
HonouredThenGone ==
    \A n \in N!Nonces :
        n \in honoured ~> spoilt \/ \A x \in rows : x.nonce # n

=============================================================================
