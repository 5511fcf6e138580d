----------------------------- MODULE MCShipment -----------------------------
(* Two shipments among three accounts, one of them unable to receive ether. *)
EXTENDS Shipment, TLC

CONSTANTS c1, c2, a1, a2, a3

MCContracts == {c1, c2}
MCAccounts  == {a1, a2, a3}

=============================================================================
