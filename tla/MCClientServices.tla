-------------------------- MODULE MCClientServices --------------------------
(* Either store, two moments being written at one time.                     *)
EXTENDS ClientServices

=============================================================================
