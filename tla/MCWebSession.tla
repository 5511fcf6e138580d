---------------------------- MODULE MCWebSession ----------------------------
(* Two users behind one address. One browser is used by both; the other by   *)
(* the second alone, and links got elsewhere are opened in it.               *)
EXTENDS WebSession, TLC

CONSTANTS t1, t2, b1, b2, e1, e2, i1, f1, f2

MCBrowserOf == t1 :> b1 @@ t2 :> b2
MCIpOf == b1 :> i1 @@ b2 :> i1
MCKnownIn == b1 :> {e1, e2} @@ b2 :> {e2}
MCSymmetry == Permutations(Followers)

=============================================================================
