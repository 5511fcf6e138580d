-------------------------- MODULE ContractTracking --------------------------
(* How a shipment gets into the bot's database. A logged-in user opens      *)
(* /new-contract, which stores a fresh nonce and writes it into the page.   *)
(* The page deploys the contract from the user's wallet, waits for the      *)
(* chain to mine it, and only then posts address, parties and nonce back.   *)
(* The server honours the nonce and inserts the row. Meanwhile other tabs   *)
(* of the same and of other users open pages, each storing a nonce of its   *)
(* own, and the parties already use the contract.                           *)
(*                                                                          *)
(* The page may have been opened by the chat's button, whose link has a     *)
(* nonce of the chat user in its query. The page posts to its own address,  *)
(* query included, where that nonce goes before the one in the body.        *)
(*                                                                          *)
(* Composes NonceStore (the nonces table and its requests) with Shipment    *)
(* (the chain). A GET of a tab is the request named by the tab, the POST    *)
(* about a contract the request named by the contract.                      *)
EXTENDS Integers

CONSTANTS Tabs,          \* browser tabs
          UsersOf,       \* who may be logged in where a tab is
          IpOf,          \* the client address a tab connects from
          WalletOf,      \* the account its wallet signs with
          FromChat,      \* bound: the tabs in which the chat's button opens pages
          Receivers,     \* the accounts a page may name as receiver
          LifeOf,        \* validity of a page's nonce, by kind of page
          Contracts, Accounts, Unpayable, NoAccount, Prices, PriceModulus, Funds,
          Emails, NoEmail, Ips, NoIp, MaxNonce, MaxTime, Faults

Kinds == {"contract", "profile"}

ASSUME TrackingAssumption ==
    /\ UsersOf \in [Tabs -> SUBSET Emails]
    /\ IpOf \in [Tabs -> Ips]
    /\ WalletOf \in [Tabs -> Accounts]
    /\ Receivers \subseteq Accounts /\ FromChat \subseteq Tabs
    /\ LifeOf \in [Kinds -> Nat]
    /\ Tabs \cap Contracts = {}

\* What Shipment and NonceStore assume of the constants.
ASSUME ComposedAssumption ==
    /\ Unpayable \subseteq Accounts /\ NoAccount \notin Accounts
    /\ Prices \subseteq Nat /\ PriceModulus \in Nat \ {0} /\ Funds \in Nat
    /\ NoEmail \notin Emails /\ NoIp \notin Ips
    /\ MaxNonce \in Nat /\ MaxTime \in Nat /\ Faults \in BOOLEAN

VARIABLES
    status, sender, receiver, value, pending, balance, wallet,      \* Shipment
    rows, now, drawn, req, found, deletes, log, honoured,           \* NonceStore
    view,        \* [Tabs -> the page shown: its kind, the nonce drawn for it,
                 \*          and whether the chat's button opened it]
    stage,       \* [Contracts -> how far the page got with the contract]
    page,        \* [Contracts -> tab, nonce and opener of the page that deployed it]
    form,        \* [Contracts -> the receiver typed into that page]
    contracts    \* the table: the rows inserted

chain == <<status, sender, receiver, value, pending, balance, wallet>>
store == <<rows, now, drawn, req, found, deletes, log, honoured>>
browser == <<view, stage, page, form>>
vars == <<chain, store, browser, contracts>>

S == INSTANCE Shipment
N == INSTANCE NonceStore
        WITH Requests <- Tabs \cup Contracts,
             Lifetimes <- {LifeOf[k] : k \in Kinds}

NoPage == [kind |-> "none", nonce |-> 0, chat |-> FALSE]
NoOrigin == [tab |-> NoIp, nonce |-> 0, chat |-> FALSE]

Stages == {"absent", "sent", "failed", "mined", "posting", "recording",
           "tracked", "unheard", "refused", "cut"}

TypeOK ==
    /\ S!TypeOK /\ N!TypeOK
    /\ view \in [Tabs -> [kind : Kinds \cup {"none"}, nonce : 0 .. MaxNonce,
                          chat : BOOLEAN]]
    /\ stage \in [Contracts -> Stages]
    /\ page \in [Contracts -> [tab : Tabs, nonce : 1 .. MaxNonce, chat : BOOLEAN]
                               \cup {NoOrigin}]
    /\ form \in [Contracts -> Accounts \cup {NoAccount}]
    /\ contracts \subseteq [cAddr : Contracts, sAddr : Accounts, rAddr : Accounts]

Init ==
    /\ S!Init /\ N!Init
    /\ view = [t \in Tabs |-> NoPage]
    /\ stage = [c \in Contracts |-> "absent"]
    /\ page = [c \in Contracts |-> NoOrigin]
    /\ form = [c \in Contracts |-> NoAccount]
    /\ contracts = {}

-----------------------------------------------------------------------------
\* Pages

\* GET /new-contract or GET /profile: the server asks for a nonce for the user
\* and the client, for 24 hours or for one, whatever the query says. The chat
\* has a button for new contracts only.
Visit(t, kind, chat) ==
    /\ chat => kind = "contract" /\ t \in FromChat
    /\ \E e \in UsersOf[t] : N!CallSetNonce(t, e, IpOf[t], LifeOf[kind])
    /\ view' = [view EXCEPT ![t] = [kind |-> kind, nonce |-> drawn + 1, chat |-> chat]]
    /\ UNCHANGED <<chain, stage, page, form, contracts>>

\* The page is rendered with the nonce, or with "false" when none was stored.
Rendered(t) ==
    /\ N!ExecInsert(t) \/ N!StatementFails(t)
    /\ UNCHANGED <<chain, browser, contracts>>

Leave(t) ==
    /\ view[t] # NoPage
    /\ view' = [view EXCEPT ![t] = NoPage]
    /\ UNCHANGED <<chain, store, stage, page, form, contracts>>

\* The page that deployed c is still the one its tab shows.
Stayed(c) == page[c] # NoOrigin /\ view[page[c].tab].nonce = page[c].nonce

\* submitNewContract. Nothing stops the user from submitting again.
Submit(t, c, r) ==
    /\ view[t].kind = "contract"
    /\ req[t].pc = "idle"
    /\ stage[c] = "absent"
    /\ stage' = [stage EXCEPT ![c] = "sent"]
    /\ page' = [page EXCEPT ![c] = [tab |-> t, nonce |-> view[t].nonce,
                                    chat |-> view[t].chat]]
    /\ form' = [form EXCEPT ![c] = r]
    /\ UNCHANGED <<chain, store, view, contracts>>

\* The chain mines the deployment, or rejects it, whoever still looks.
Mined(c) ==
    /\ stage[c] = "sent"
    /\ \E price \in Prices : S!Deploy(c, WalletOf[page[c].tab], form[c], price)
    /\ stage' = [stage EXCEPT ![c] = "mined"]
    /\ UNCHANGED <<store, view, page, form, contracts>>

Rejected(c) ==
    /\ stage[c] = "sent"
    /\ stage' = [stage EXCEPT ![c] = "failed"]
    /\ UNCHANGED <<chain, store, view, page, form, contracts>>

\* The nonce maybeRetrieveNoncedData finds: the query's if there is one, else
\* the body's. That of a chat user, 0 here, is in no row with an e-mail.
Presented(c) == IF page[c].chat THEN 0 ELSE page[c].nonce

\* Mutant of Post: sent at the constructor's first callback, without address.
PostEarly(c) ==
    /\ stage[c] \in {"sent", "mined"}
    /\ Stayed(c)
    /\ N!CallCheckNonce(c, Presented(c), NoIp)
    /\ stage' = [stage EXCEPT ![c] = "posting"]
    /\ UNCHANGED <<chain, view, page, form, contracts>>

\* The constructor's callback with an address: POST /new-contract, to the page's
\* own address, with its nonce in the body. A page that was left runs no callback.
Post(c) ==
    /\ stage[c] = "mined"
    /\ Stayed(c)
    /\ N!CallCheckNonce(c, Presented(c), NoIp)
    /\ stage' = [stage EXCEPT ![c] = "posting"]
    /\ UNCHANGED <<chain, view, page, form, contracts>>

-----------------------------------------------------------------------------
\* The server's side of POST /new-contract

\* Mutant of Check: /new-contract without its nonce_validity permission.
CheckNothing(c) ==
    /\ req[c].pc = "select"
    /\ stage' = [stage EXCEPT ![c] = "recording"]
    /\ req' = [req EXCEPT ![c] = N!Idle]
    /\ UNCHANGED <<rows, now, drawn, found, deletes, log, honoured>>
    /\ UNCHANGED <<chain, view, page, form, contracts>>

\* Permission nonce_validity. A refused request is not even answered.
Check(c) ==
    /\ N!ExecSelect(c)
    /\ stage' = [stage EXCEPT ![c] = IF N!Matching(c) = {} THEN "refused" ELSE @]
    /\ UNCHANGED <<chain, view, page, form, contracts>>

\* The chat's nonce is in the table, in a row without e-mail, and is taken away.
\* No user is found for it and the handler fails on his id, unless it was the
\* lookup that failed: its answer is false, and false.user_id fails nobody.
ChatFound(c) ==
    /\ page[c].chat
    /\ N!ExecSelect(c)
    /\ \/ stage' = [stage EXCEPT ![c] = "cut"]
       \/ Faults /\ stage' = [stage EXCEPT ![c] = "recording"]
    /\ UNCHANGED <<chain, view, page, form, contracts>>

\* Mutant of Admitted: the continuation never calls the handler.
AdmittedSilently(c) ==
    /\ N!Resume(c)
    /\ UNCHANGED <<chain, browser, contracts>>

Admitted(c) ==
    /\ N!Resume(c)
    /\ stage' = [stage EXCEPT ![c] = "recording"]
    /\ UNCHANGED <<chain, view, page, form, contracts>>

\* The row the page's fields make.
Posted(c) == [cAddr |-> c, sAddr |-> WalletOf[page[c].tab], rAddr |-> form[c]]

\* INSERT INTO contracts. The INSERT INTO addresses sent with it names a
\* conflict target no index backs, so it fails and changes nothing.
Record(c) ==
    /\ stage[c] = "recording"
    /\ contracts' = contracts \cup {Posted(c)}
    /\ stage' = [stage EXCEPT ![c] = "tracked"]
    /\ UNCHANGED <<chain, store, view, page, form>>

\* A statement of the POST fails: the page is refused by a nonce that could not
\* be looked up, or told that its contract was not recorded. It may have been:
\* the connection was lost before the INSERT's answer came.
Failed(c) ==
    /\ \/ /\ \/ N!StatementFails(c)
             \/ Faults /\ stage[c] = "recording" /\ UNCHANGED store
          /\ stage' = [stage EXCEPT ![c] = "cut"]
          /\ UNCHANGED contracts
       \/ /\ Faults /\ stage[c] = "recording" /\ UNCHANGED store
          /\ stage' = [stage EXCEPT ![c] = "unheard"]
          /\ contracts' = contracts \cup {Posted(c)}
    /\ UNCHANGED <<chain, view, page, form>>

-----------------------------------------------------------------------------
\* The rest of the world

\* Accounts use deployed contracts at will.
UseContract(c, a) ==
    /\ \/ \E paid \in 0 .. PriceModulus - 1 : S!SetStatusCompleted(c, a, paid)
       \/ S!SetStatusRefused(c, a)
       \/ S!Withdraw(c, a)
    /\ UNCHANGED <<store, browser, contracts>>

Deleted(d) ==
    /\ N!ExecDelete(d) \/ N!DeleteFails(d)
    /\ UNCHANGED <<chain, browser, contracts>>

\* The process restarts: a page waiting for its answer gets an error, though
\* its INSERT may have executed, and a tab waiting for a page gets none.
Restart ==
    /\ N!Restart
    /\ view' = [t \in Tabs |-> IF req[t].pc = "idle" THEN view[t] ELSE NoPage]
    /\ \E done \in SUBSET {c \in Contracts : stage[c] = "recording"} :
          /\ stage' = [c \in Contracts |->
                IF c \in done THEN "unheard"
                ELSE IF stage[c] \in {"posting", "recording"} THEN "cut" ELSE stage[c]]
          /\ contracts' = contracts \cup {Posted(c) : c \in done}
    /\ UNCHANGED <<chain, page, form>>

Tick ==
    /\ N!Tick
    /\ UNCHANGED <<chain, browser, contracts>>

Next ==
    \/ \E t \in Tabs :
          \/ \E k \in Kinds, chat \in BOOLEAN : Visit(t, k, chat)
          \/ Rendered(t)
          \/ Leave(t)
          \/ \E c \in Contracts, r \in Receivers : Submit(t, c, r)
    \/ \E c \in Contracts :
          \/ Mined(c) \/ Rejected(c) \/ Post(c)
          \/ Check(c) \/ ChatFound(c) \/ Admitted(c) \/ Record(c) \/ Failed(c)
          \/ \E a \in Accounts : UseContract(c, a)
    \/ \E d \in N!Deletion : Deleted(d)
    \/ Restart
    \/ Tick

Spec == Init /\ [][Next]_vars

\* The page's callbacks, the event loop and the database run on their own.
FairSpec ==
    /\ Spec
    /\ \A c \in Contracts :
          /\ WF_vars(Post(c))
          /\ WF_vars(Check(c) \/ ChatFound(c) \/ Admitted(c) \/ Record(c))

-----------------------------------------------------------------------------
\* What the tracking must never get wrong.

\* Every row is about a contract that exists, between the parties the chain
\* knows, and there is one row for each: no page that reloads, submits twice
\* or loses the race for its nonce records a shipment that is not there.
TrackedIsReal ==
    /\ \A x \in contracts : /\ status[x.cAddr] # "None"
                            /\ sender[x.cAddr] = x.sAddr
                            /\ receiver[x.cAddr] = x.rAddr
    /\ \A x, y \in contracts : x.cAddr = y.cAddr => x = y

\* How the server's word about a contract looks from the table.
FateOf(s) == IF s \in {"tracked", "unheard"} THEN "recorded"
             ELSE IF s \in {"refused", "cut"} THEN "turned away" ELSE "open"

D == INSTANCE Ledger
        WITH parties  <- [c \in Contracts |->
                             IF status[c] = "None" THEN {}
                             ELSE {[sender |-> sender[c], receiver |-> receiver[c]]}],
             fate     <- [c \in Contracts |-> FateOf(stage[c])],
             recorded <- contracts

\* Whatever becomes of pages, nonces and requests, and however often the bot
\* restarts: nothing is recorded before the chain has it or in other words than
\* the chain's, nothing recorded is turned away, turned away and recorded later,
\* or changed.
ImplementsLedger == D!DSpec

\* A contract is recorded on a nonce stored for a user of the very tab that
\* deployed it, and on the nonce of that page, or from a page that the chat's
\* button opened, and then only because a statement failed.
TrackedByItsPage ==
    \A x \in contracts :
        \/ page[x.cAddr].chat /\ Faults
        \/ \E y \in log : /\ y.nonce = page[x.cAddr].nonce
                          /\ y.nonce \in honoured
                          /\ y.email \in UsersOf[page[x.cAddr].tab]

\* The reasons a page that waited for its contract can be turned away: the
\* chat's nonce in its address went before its own, or its own was never
\* stored, because another user's row holds the ip or the INSERT failed, or was
\* replaced when the user opened another page, or ran out, or was spent on
\* another contract deployed from the same page.
RefusedForAReason ==
    \A c \in Contracts : stage[c] = "refused" =>
        LET n == page[c].nonce IN
        \/ page[c].chat
        \/ n \notin N!StoredNonces
        \/ n \notin N!LiveNonces \cup honoured
        \/ \E y \in log : y.nonce = n /\ y.validity < now
        \/ \E d \in Contracts \ {c} :
              page[d] = page[c]
              /\ stage[d] \in {"posting", "recording", "tracked", "unheard", "cut"}

\* A page that stays open until its contract is mined posts it, and the server
\* settles the matter one way or the other: no wait that never ends.
Settled(c) == stage[c] \in {"tracked", "unheard", "refused", "cut"}
MinedThenSettled ==
    \A c \in Contracts : stage[c] = "mined" /\ Stayed(c) ~> Settled(c) \/ ~Stayed(c)

\* What the page tells the user: stay until the contract is deployed, otherwise
\* we won't be able to track it (new-contract.html:88).
StayingTracks == \A c \in Contracts : stage[c] = "refused" => ~Stayed(c)

=============================================================================
