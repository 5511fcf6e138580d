--------------------------- MODULE NonceLifecycle ---------------------------
(* What the nonces table promises the pages that rely on it. A nonce is     *)
(* stored once, for one owner. It is honoured only while it is live, and it *)
(* dies in one of two ways: its owner is given a newer one, or somebody     *)
(* presented it. A dead nonce is never honoured again. Whether it is        *)
(* honoured more than once before it dies is left open, and so is whether   *)
(* its death follows its use at all. NonceStore.tla implements this.        *)
EXTENDS Naturals

CONSTANTS Nonces,      \* the strings the server draws
          Owners,      \* the e-mail addresses nonces are stored for
          Nobody       \* the owner of a nonce stored without an e-mail

VARIABLES life,        \* [Nonces -> {"unborn", "live", "dead"}]
          owner,       \* whom each nonce was stored for
          honoured     \* the nonces presented with success

lvars == <<life, owner, honoured>>

LInit ==
    /\ life = [n \in Nonces |-> "unborn"]
    /\ owner = [n \in Nonces |-> Nobody]
    /\ honoured = {}

\* The older nonces of the same owner, which a newer one replaces.
Replaced(o) == {m \in Nonces : life[m] = "live" /\ owner[m] = o /\ o # Nobody}

Store(n, o) ==
    /\ life[n] = "unborn"
    /\ life' = [m \in Nonces |-> IF m = n THEN "live"
                                 ELSE IF m \in Replaced(o) THEN "dead"
                                 ELSE life[m]]
    /\ owner' = [owner EXCEPT ![n] = o]
    /\ UNCHANGED honoured

Honour(n) ==
    /\ life[n] = "live"
    /\ honoured' = honoured \cup {n}
    /\ UNCHANGED <<life, owner>>

Retire(n) ==
    /\ life[n] = "live"
    /\ n \in honoured
    /\ life' = [life EXCEPT ![n] = "dead"]
    /\ UNCHANGED <<owner, honoured>>

LNext ==
    \E n \in Nonces :
        \/ \E o \in Owners \cup {Nobody} : Store(n, o)
        \/ Honour(n)
        \/ Retire(n)

LSpec == LInit /\ [][LNext]_lvars

=============================================================================
