------------------------- MODULE MCContractTracking -------------------------
(* Two tabs of one household behind one ip. The first belongs to e1; in the *)
(* second either e1 or e2 may be logged in.                                 *)
EXTENDS ContractTracking, TLC

CONSTANTS t1, t2, e1, e2, i1, a1, a2

MCUsersOf  == t1 :> {e1} @@ t2 :> {e1, e2}
MCOneUser  == t1 :> {e1} @@ t2 :> {e1}
MCIpOf     == t1 :> i1 @@ t2 :> i1
MCWalletOf == t1 :> a1 @@ t2 :> a1
MCLifeOf   == [contract |-> 0, profile |-> 0]
MCSymmetry == Permutations(Contracts)

=============================================================================
