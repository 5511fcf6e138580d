---------------------------- MODULE MCNonceStore ----------------------------
(* Two requests at a time, over two users and two clients. Requests are      *)
(* interchangeable, and every formula the safety run checks treats them so.  *)
EXTENDS NonceStore, TLC

MCSymmetry == Permutations(Requests)

=============================================================================
