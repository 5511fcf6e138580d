----------------------------- MODULE NonceStore -----------------------------
(* The nonces table of the bot's database and the two functions of bot.js   *)
(* that every page goes through to use it: maybeSetNonce, which stores a    *)
(* nonce for an e-mail address and the address of the client, and           *)
(* checkNonce, which honours a nonce presented back and removes it.         *)
(*                                                                          *)
(* Requests run in one event loop and interleave at every await. The        *)
(* statements they send go to a pool of connections, so two statements sent *)
(* by different requests, or by one request without awaiting the first, run *)
(* in either order. Each statement is atomic in the database.               *)
(*                                                                          *)
(* Left out: the rows of chat users (address and toshi_id, with no e-mail   *)
(* and no ip), which these two columns' indexes never see.                  *)
EXTENDS Integers

CONSTANTS Requests,    \* the requests being served at one time
          Emails,      \* the e-mail addresses of the users
          NoEmail,     \* NULL in the e-mail column
          Ips,         \* the addresses clients connect from
          NoIp,        \* checkNonce called without an ip
          Lifetimes,   \* the validities asked for, in whole clock ticks
          MaxNonce,    \* bound: how many nonces the server draws
          MaxTime,     \* bound: how far the clock ticks
          Faults       \* whether connections fail and the process restarts

ASSUME NonceAssumption ==
    /\ NoEmail \notin Emails
    /\ NoIp \notin Ips
    /\ Lifetimes \subseteq Nat
    /\ MaxNonce \in Nat
    /\ MaxTime \in Nat
    /\ Faults \in BOOLEAN

VARIABLES rows,        \* the table
          now,         \* the clock
          drawn,       \* how many nonces were drawn so far
          req,         \* [Requests -> what the request is doing]
          found,       \* [Requests -> the row its SELECT returned, in a set]
          deletes,     \* the DELETEs sent and not yet executed
          log,         \* history: every row ever stored
          honoured     \* history: the nonces some SELECT returned

vars == <<rows, now, drawn, req, found, deletes, log, honoured>>
history == <<log, honoured>>

Nonces == 1 .. MaxNonce
Times == Nat

Row == [nonce : Nonces, email : Emails \cup {NoEmail}, ip : Ips, validity : Times]

\* nonce, email, ip and time are the arguments of the statement in flight; time
\* is the validity to store, or the instant to compare validity with.
Request == [pc : {"idle", "insert", "select", "found"}, nonce : Nonces \cup {0},
            email : Emails \cup {NoEmail}, ip : Ips \cup {NoIp}, time : Times]

Idle == [pc |-> "idle", nonce |-> 0, email |-> NoEmail, ip |-> NoIp, time |-> 0]

TypeOK ==
    /\ rows \subseteq Row /\ log \subseteq Row
    /\ now \in Times
    /\ drawn \in 0 .. MaxNonce
    /\ req \in [Requests -> Request]
    /\ found \in [Requests -> SUBSET Row]
    /\ deletes \subseteq [nonce : Nonces, ip : Ips \cup {NoIp}]
    /\ honoured \subseteq Nonces

Init ==
    /\ rows = {} /\ log = {} /\ honoured = {} /\ deletes = {}
    /\ now = 0 /\ drawn = 0
    /\ req = [r \in Requests |-> Idle]
    /\ found = [r \in Requests |-> {}]

-----------------------------------------------------------------------------
\* maybeSetNonce

\* A request asks for a nonce. Both the nonce and its validity are fixed before
\* the statement is sent.
CallSetNonce(r, e, i, h) ==
    /\ req[r].pc = "idle"
    /\ drawn < MaxNonce
    /\ drawn' = drawn + 1
    /\ req' = [req EXCEPT ![r] = [pc |-> "insert", nonce |-> drawn + 1,
                                  email |-> e, ip |-> i, time |-> now + h]]
    /\ UNCHANGED <<rows, now, found, deletes, history>>

\* Mutant of Holder: no ON CONFLICT clause and no index on the e-mail.
NoHolder(e) == {}

\* The row ON CONFLICT (email) would update: none for a NULL e-mail.
Holder(e) == {x \in rows : x.email = e /\ e # NoEmail}

\* Mutant of IpTaken: an index that looks only at rows still valid.
IpTakenInTime(e, i) == \E x \in rows \ Holder(e) : x.ip = i /\ x.validity >= now

\* Another row already has the ip; its unique index does not look at validity.
IpTaken(e, i) == \E x \in rows \ Holder(e) : x.ip = i

\* Mutant of NewRow: the client's ip is not among the columns stored.
RowWithoutIp(r) == [nonce |-> req[r].nonce, email |-> req[r].email,
                    ip |-> NoIp, validity |-> req[r].time]

NewRow(r) == [nonce |-> req[r].nonce, email |-> req[r].email,
              ip |-> req[r].ip, validity |-> req[r].time]

\* Mutant of ExecInsert: DO UPDATE SET leaves ip and validity as they were.
ExecInsertNonceOnly(r) ==
    /\ req[r].pc = "insert"
    /\ IF IpTaken(req[r].email, req[r].ip)
       THEN UNCHANGED <<rows, log>>
       ELSE /\ rows' = IF Holder(req[r].email) = {}
                       THEN rows \cup {NewRow(r)}
                       ELSE (rows \ Holder(req[r].email)) \cup
                            {[x EXCEPT !.nonce = req[r].nonce] : x \in Holder(req[r].email)}
            /\ log' = log \cup {NewRow(r)}
    /\ req' = [req EXCEPT ![r] = Idle]
    /\ UNCHANGED <<now, drawn, found, deletes, honoured>>

\* INSERT ... ON CONFLICT (email) DO UPDATE: every column of the row changes.
ExecInsert(r) ==
    /\ req[r].pc = "insert"
    /\ IF IpTaken(req[r].email, req[r].ip)
       THEN UNCHANGED <<rows, log>>
       ELSE /\ rows' = (rows \ Holder(req[r].email)) \cup {NewRow(r)}
            /\ log' = log \cup {NewRow(r)}
    /\ req' = [req EXCEPT ![r] = Idle]
    /\ UNCHANGED <<now, drawn, found, deletes, honoured>>

-----------------------------------------------------------------------------
\* checkNonce

\* A request presents a nonce it was given, perhaps one given to another
\* client, perhaps long ago, perhaps one whose INSERT failed, or 0: none at all.
CallCheckNonce(r, n, i) ==
    /\ req[r].pc = "idle"
    /\ n <= drawn
    /\ req' = [req EXCEPT ![r] = [pc |-> "select", nonce |-> n,
                                  email |-> NoEmail, ip |-> i, time |-> now]]
    /\ UNCHANGED <<rows, now, drawn, found, deletes, history>>

\* Mutant of Matching: validity > $2.
MatchingStrict(r) == {x \in rows : /\ x.nonce = req[r].nonce
                                   /\ x.validity > req[r].time
                                   /\ req[r].ip \in {NoIp, x.ip}}

\* WHERE nonce = $1 AND validity >= $2, and AND ip = $3 when an ip was given.
Matching(r) == {x \in rows : /\ x.nonce = req[r].nonce
                             /\ x.validity >= req[r].time
                             /\ req[r].ip \in {NoIp, x.ip}}

ExecSelect(r) ==
    /\ req[r].pc = "select"
    /\ found' = [found EXCEPT ![r] = Matching(r)]
    /\ IF Matching(r) = {}
       THEN req' = [req EXCEPT ![r] = Idle] /\ UNCHANGED honoured
       ELSE /\ req' = [req EXCEPT ![r].pc = "found"]
            /\ honoured' = honoured \cup {req[r].nonce}
    /\ UNCHANGED <<rows, now, drawn, deletes, log>>

\* Mutant of Resume: no DELETE is sent.
ResumeKeepingRow(r) ==
    /\ req[r].pc = "found"
    /\ req' = [req EXCEPT ![r] = Idle]
    /\ found' = [found EXCEPT ![r] = {}]
    /\ UNCHANGED <<rows, now, drawn, deletes, history>>

\* The continuation sends the DELETE, does not await it, and answers yes.
Resume(r) ==
    /\ req[r].pc = "found"
    /\ deletes' = deletes \cup {[nonce |-> req[r].nonce, ip |-> req[r].ip]}
    /\ req' = [req EXCEPT ![r] = Idle]
    /\ found' = [found EXCEPT ![r] = {}]
    /\ UNCHANGED <<rows, now, drawn, history>>

\* Mutant of ExecDelete: WHERE asks for the ip alone.
ExecDeleteByIp(d) ==
    /\ d \in deletes
    /\ deletes' = deletes \ {d}
    /\ rows' = {x \in rows : d.ip \notin {NoIp, x.ip}}
    /\ UNCHANGED <<now, drawn, req, found, history>>

\* Two equal DELETEs in flight are one: the second changes nothing.
ExecDelete(d) ==
    /\ d \in deletes
    /\ deletes' = deletes \ {d}
    /\ rows' = {x \in rows : ~(x.nonce = d.nonce /\ d.ip \in {NoIp, x.ip})}
    /\ UNCHANGED <<now, drawn, req, found, history>>

-----------------------------------------------------------------------------
\* The world around them

\* The statement a request awaits fails: the error is logged, and the request
\* goes on as if no nonce had been stored, or found.
StatementFails(r) ==
    /\ Faults
    /\ req[r].pc \in {"insert", "select"}
    /\ req' = [req EXCEPT ![r] = Idle]
    /\ UNCHANGED <<rows, now, drawn, found, deletes, history>>

\* A DELETE fails; the error is logged and nothing else is done.
DeleteFails(d) ==
    /\ Faults
    /\ d \in deletes
    /\ deletes' = deletes \ {d}
    /\ UNCHANGED <<rows, now, drawn, req, found, history>>

\* The process restarts: what it was doing is forgotten, the table is not.
Restart ==
    /\ Faults
    /\ req' = [r \in Requests |-> Idle]
    /\ found' = [r \in Requests |-> {}]
    /\ deletes' = {}
    /\ UNCHANGED <<rows, now, drawn, history>>

Tick ==
    /\ now < MaxTime
    /\ now' = now + 1
    /\ UNCHANGED <<rows, drawn, req, found, deletes, history>>

Deletion == [nonce : Nonces, ip : Ips \cup {NoIp}]

Next ==
    \/ \E r \in Requests :
          \/ \E e \in Emails \cup {NoEmail}, i \in Ips, h \in Lifetimes :
                CallSetNonce(r, e, i, h)
          \/ ExecInsert(r)
          \/ \E n \in Nonces \cup {0}, i \in Ips \cup {NoIp} : CallCheckNonce(r, n, i)
          \/ ExecSelect(r)
          \/ Resume(r)
          \/ StatementFails(r)
    \/ \E d \in Deletion : ExecDelete(d) \/ DeleteFails(d)
    \/ Restart
    \/ Tick

Spec == Init /\ [][Next]_vars

-----------------------------------------------------------------------------
\* What the table must never get wrong.

\* A request that goes ahead on a nonce goes ahead in the name of the e-mail
\* and the client the nonce was stored for, though the row it lives in was
\* rewritten for other nonces before and may be again by now; the nonce was in
\* time when it was presented, and from the same client where that is asked.
HonouredAsStored ==
    \A r \in Requests : req[r].pc = "found" =>
        \E x \in log :
            /\ found[r] = {x}
            /\ x.nonce = req[r].nonce
            /\ x.validity >= req[r].time
            /\ req[r].ip \in {NoIp, x.ip}

\* Whoever asks for a second nonce loses the first: one per e-mail, one per
\* client, and no row under a nonce that was not stored in it.
OneEach ==
    /\ rows \subseteq log
    /\ \A x, y \in rows : x # y =>
          /\ x.ip # y.ip
          /\ x.nonce # y.nonce
          /\ x.email # y.email \/ x.email = NoEmail
    /\ \A x, y \in log : x # y => x.nonce # y.nonce

\* A delayed DELETE never takes away the nonce its owner was given since: only
\* a nonce that was presented, or replaced by its owner's next, leaves.
SparesTheNew ==
    [][\A x \in rows \ rows' :
          \/ x.nonce \in honoured
          \/ \E y \in rows' \ rows : y.email = x.email /\ x.email # NoEmail]_vars

\* A nonce once honoured is on its way out: the request that found it has still
\* to send the DELETE, or has sent one that will find the row. Nothing but a
\* restart or a DELETE that fails leaves such a row behind, whatever else is
\* stored, presented and removed meanwhile.
Leaving(x) ==
    \/ \E r \in Requests : /\ req[r].pc = "found" /\ req[r].nonce = x.nonce
                          /\ req[r].ip \in {NoIp, x.ip}
    \/ \E d \in deletes : d.nonce = x.nonce /\ d.ip \in {NoIp, x.ip}
Stuck == {x \in rows : x.nonce \in honoured /\ ~Leaving(x)}
SpentLeaves ==
    [][Stuck' \subseteq Stuck \/ Restart \/ \E d \in deletes : DeleteFails(d)]_vars

\* The table implements the life of a nonce.
StoredNonces == {x.nonce : x \in log}
LiveNonces == {x.nonce : x \in rows}
EmailOf(n) == IF n \in StoredNonces
              THEN (CHOOSE x \in log : x.nonce = n).email ELSE NoEmail

PhaseOf(n) == IF n \in LiveNonces THEN "live"
              ELSE IF n \in StoredNonces THEN "dead" ELSE "unborn"

L == INSTANCE NonceLifecycle
        WITH Owners <- Emails,
             Nobody <- NoEmail,
             life   <- [n \in Nonces |-> PhaseOf(n)],
             owner  <- [n \in Nonces |-> EmailOf(n)]

\* No nonce is honoured before it is stored or after it is removed or replaced,
\* in spite of SELECTs and DELETEs of several requests interleaving.
ImplementsLifecycle == L!LSpec

=============================================================================
