----------------------------- MODULE MCWebPages -----------------------------
(* Two users behind one address, each with a browser of one tab.             *)
EXTENDS WebPages, TLC

CONSTANTS t1, t2, b1, b2, e1, e2, i1

MCBrowserOf == t1 :> b1 @@ t2 :> b2
MCIpOf == b1 :> i1 @@ b2 :> i1
MCKnownIn == b1 :> {e1} @@ b2 :> {e2}

=============================================================================
