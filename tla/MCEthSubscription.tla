------------------------- MODULE MCEthSubscription -------------------------
(* The bot's use: one address, its payment address.                         *)
EXTENDS EthSubscription

=============================================================================
