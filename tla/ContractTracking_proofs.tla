----------------------- MODULE ContractTracking_proofs -----------------------
(* Proofs about how a shipment gets into the database, for any number of    *)
(* tabs, users, contracts and nonces. First, that the composition takes only *)
(* steps its parts allow, so that what is proved of the nonces table and of  *)
(* the contract holds in it; then what relates pages, chain, nonces and rows.*)
EXTENDS ContractTracking, TLAPS

NP == INSTANCE NonceStore_proofs
        WITH Requests <- Tabs \cup Contracts,
             Lifetimes <- {LifeOf[k] : k \in Kinds}
SP == INSTANCE Shipment_proofs

\* The assumptions of the parts follow from those made here.
LEMMA PartsAssume == NP!NonceAssumption /\ SP!ShipmentAssumption
  BY TrackingAssumption, ComposedAssumption
     DEF Kinds, NP!NonceAssumption, SP!ShipmentAssumption

-----------------------------------------------------------------------------
\* The browser: what its pages, stages and rows are

Deployed == {"mined", "posting", "recording", "tracked", "unheard", "refused", "cut"}

Origin == [tab : Tabs, nonce : 1 .. MaxNonce, chat : BOOLEAN]

BrowserTyped ==
    /\ view \in [Tabs -> [kind : Kinds \cup {"none"}, nonce : 0 .. MaxNonce,
                          chat : BOOLEAN]]
    /\ stage \in [Contracts -> Stages]
    /\ page \in [Contracts -> Origin \cup {NoOrigin}]
    /\ form \in [Contracts -> Accounts \cup {NoAccount}]
    /\ contracts \subseteq [cAddr : Contracts, sAddr : Accounts, rAddr : Accounts]

\* Every page shown has a nonce, and so has the page a contract came from.
PagesKnown ==
    /\ \A t \in Tabs : view[t].kind # "none" => view[t].nonce # 0
    /\ \A c \in Contracts : stage[c] # "absent" => page[c] \in Origin /\ form[c] \in Accounts

\* A request of a contract is a POST of the nonce its page presents.
Posting ==
    \A c \in Contracts : req[c].pc # "idle" =>
        /\ stage[c] = "posting" /\ req[c].pc \in {"select", "found"}
        /\ req[c].nonce = Presented(c) /\ req[c].ip = NoIp
        /\ req[c].time <= now

BrowserInv == BrowserTyped /\ PagesKnown /\ Posting

Inv == NP!IInv /\ SP!IInv /\ BrowserInv

LEMMA ReqTyped ==
    ASSUME Inv
    PROVE  /\ req \in [Tabs \cup Contracts -> N!Request]
           /\ drawn \in 0 .. MaxNonce /\ now \in Nat
  BY DEF Inv, NP!IInv, NP!TypeOK, NP!Request, N!Request, NP!Nonces, N!Nonces,
     NP!Times, N!Times

LEMMA InitParts == Init => NP!Init /\ SP!Init
  BY DEF Init, N!Init, NP!Init, N!Idle, NP!Idle, S!Init, SP!Init

LEMMA InitInv == Init => Inv
<1> SUFFICES ASSUME Init PROVE Inv
  OBVIOUS
<1>1. NP!IInv
  BY InitParts, PartsAssume, NP!InitIInv
<1>2. SP!IInv
  BY InitParts, PartsAssume, SP!InitIInv
<1>3. BrowserInv
  BY ComposedAssumption DEF Init, N!Init, N!Idle, BrowserInv, BrowserTyped,
     PagesKnown, Posting, NoPage, NoOrigin, Stages
<1>4. QED
  BY <1>1, <1>2, <1>3 DEF Inv

-----------------------------------------------------------------------------
\* Each step of the composition is a step of the nonces table, or none

LEMMA StayedPage ==
    ASSUME Inv, NEW c \in Contracts, stage[c] # "absent"
    PROVE  page[c].tab \in Tabs /\ page[c].nonce \in 1 .. MaxNonce /\ form[c] \in Accounts
  BY DEF Inv, BrowserInv, PagesKnown, Origin

LEMMA StoreSteps == Inv /\ [Next]_vars => [NP!Next]_(NP!vars)
<1> SUFFICES ASSUME Inv, [Next]_vars PROVE [NP!Next]_(NP!vars)
  OBVIOUS
<1>1. ASSUME NEW t \in Tabs, NEW k \in Kinds, NEW chat \in BOOLEAN, Visit(t, k, chat)
      PROVE  NP!Next
  <2>1. PICK e \in UsersOf[t] : N!CallSetNonce(t, e, IpOf[t], LifeOf[k])
    BY <1>1 DEF Visit
  <2>2. e \in Emails /\ IpOf[t] \in Ips /\ LifeOf[k] \in {LifeOf[x] : x \in Kinds}
    BY <2>1, TrackingAssumption
  <2>3. NP!CallSetNonce(t, e, IpOf[t], LifeOf[k])
    BY <2>1 DEF N!CallSetNonce, NP!CallSetNonce, N!history, NP!history
  <2>4. QED
    BY <2>2, <2>3 DEF NP!Next
<1>2. ASSUME NEW r \in Tabs \cup Contracts, N!ExecInsert(r) PROVE NP!Next
  <2>1. NP!ExecInsert(r)
    BY <1>2 DEF N!ExecInsert, NP!ExecInsert, N!IpTaken, NP!IpTaken, N!Holder,
       NP!Holder, N!NewRow, NP!NewRow, N!Idle, NP!Idle
  <2>2. QED
    BY <2>1 DEF NP!Next
<1>3. ASSUME NEW r \in Tabs \cup Contracts, N!StatementFails(r) PROVE NP!Next
  BY <1>3 DEF N!StatementFails, NP!StatementFails, N!Idle, NP!Idle, N!history,
     NP!history, NP!Next
<1>4. ASSUME NEW c \in Contracts, Post(c) PROVE NP!Next
  <2>1. Presented(c) \in NP!Nonces \cup {0}
    BY <1>4, StayedPage DEF Post, Presented, NP!Nonces
  <2>2. NP!CallCheckNonce(c, Presented(c), NoIp)
    BY <1>4 DEF Post, N!CallCheckNonce, NP!CallCheckNonce, N!history, NP!history
  <2>3. QED
    BY <2>1, <2>2 DEF NP!Next
<1>5. ASSUME NEW c \in Contracts, Check(c) \/ ChatFound(c) PROVE NP!Next
  <2>1. NP!ExecSelect(c)
    BY <1>5 DEF Check, ChatFound, N!ExecSelect, NP!ExecSelect, N!Matching, NP!Matching,
       N!Idle, NP!Idle
  <2>2. QED
    BY <2>1 DEF NP!Next
<1>6. ASSUME NEW c \in Contracts, Admitted(c) PROVE NP!Next
  BY <1>6 DEF Admitted, N!Resume, NP!Resume, N!Idle, NP!Idle, N!history,
     NP!history, NP!Next
<1>7. ASSUME NEW d \in N!Deletion, Deleted(d) PROVE NP!Next
  <2>1. NP!ExecDelete(d) \/ NP!DeleteFails(d)
    BY <1>7 DEF Deleted, N!ExecDelete, NP!ExecDelete, N!DeleteFails,
       NP!DeleteFails, N!history, NP!history
  <2>2. d \in NP!Deletion
    BY DEF N!Deletion, NP!Deletion, N!Nonces, NP!Nonces
  <2>3. QED
    BY <2>1, <2>2 DEF NP!Next
<1>8. CASE Restart
  BY <1>8 DEF Restart, N!Restart, NP!Restart, N!Idle, NP!Idle, N!history,
     NP!history, NP!Next
<1>9. CASE Tick
  BY <1>9 DEF Tick, N!Tick, NP!Tick, N!history, NP!history, NP!Next
<1>10. CASE UNCHANGED store
  BY <1>10 DEF store, NP!vars
<1>11. QED
  BY <1>1, <1>2, <1>3, <1>4, <1>5, <1>6, <1>7, <1>8, <1>9, <1>10
     DEF Next, vars, Rendered, Leave, Submit, Mined, Rejected, Record, Failed, UseContract

LEMMA ChainSteps == Inv /\ [Next]_vars => [SP!Next]_(SP!vars)
<1> SUFFICES ASSUME Inv, [Next]_vars PROVE [SP!Next]_(SP!vars)
  OBVIOUS
<1>1. ASSUME NEW c \in Contracts, Mined(c) PROVE SP!Next
  <2>1. PICK price \in Prices : S!Deploy(c, WalletOf[page[c].tab], form[c], price)
    BY <1>1 DEF Mined
  <2>2. WalletOf[page[c].tab] \in Accounts /\ form[c] \in Accounts
    BY <1>1, StayedPage, TrackingAssumption DEF Mined
  <2>3. SP!Deploy(c, WalletOf[page[c].tab], form[c], price)
    BY <2>1 DEF S!Deploy, SP!Deploy
  <2>4. QED
    BY <2>2, <2>3 DEF SP!Next
<1>2. ASSUME NEW c \in Contracts, NEW a \in Accounts, UseContract(c, a) PROVE SP!Next
  <2>1. \/ \E paid \in 0 .. PriceModulus - 1 : SP!SetStatusCompleted(c, a, paid)
        \/ SP!SetStatusRefused(c, a)
        \/ SP!Withdraw(c, a)
    BY <1>2 DEF UseContract, S!SetStatusCompleted, SP!SetStatusCompleted,
       S!SetStatusRefused, SP!SetStatusRefused, S!Withdraw, SP!Withdraw,
       S!onlyIfActive, SP!onlyIfActive, S!onlyIfPaid, SP!onlyIfPaid,
       S!onlyIfUser, SP!onlyIfUser
  <2>2. QED
    BY <2>1 DEF SP!Next
<1>3. CASE UNCHANGED chain
  BY <1>3 DEF chain, SP!vars
<1>4. QED
  BY <1>1, <1>2, <1>3 DEF Next, vars, Visit, Rendered, Leave, Submit, Rejected,
     Post, Check, ChatFound, Admitted, Record, Failed, Deleted, Restart, Tick

-----------------------------------------------------------------------------
\* The browser's invariant is kept

\* A request is freed: the contract whose request it was may be at any stage.
LEMMA FreedPosting ==
    ASSUME Inv, NEW r \in Tabs \cup Contracts, req' = [req EXCEPT ![r] = N!Idle],
           UNCHANGED page, now' = now,
           \A c \in Contracts : c # r => stage'[c] = stage[c]
    PROVE  Posting'
<1>1. \A q \in Tabs \cup Contracts : req'[q] = IF q = r THEN N!Idle ELSE req[q]
  BY ReqTyped
<1>2. N!Idle.pc = "idle"
  BY DEF N!Idle
<1>3. QED
  BY <1>1, <1>2 DEF Inv, BrowserInv, Posting, Presented

LEMMA VisitBrowser ==
    ASSUME Inv, NEW t \in Tabs, NEW k \in Kinds, NEW chat \in BOOLEAN, Visit(t, k, chat)
    PROVE  BrowserInv'
<1>1. PICK e \in UsersOf[t] : N!CallSetNonce(t, e, IpOf[t], LifeOf[k])
  BY DEF Visit
<1>2. drawn + 1 \in 1 .. MaxNonce /\ now' = now
  BY <1>1, ReqTyped, ComposedAssumption DEF N!CallSetNonce
<1>3. BrowserTyped' /\ PagesKnown'
  BY <1>2 DEF Visit, Inv, BrowserInv, BrowserTyped, PagesKnown
<1>4. \A c \in Contracts : req'[c] = req[c]
  BY <1>1, ReqTyped, TrackingAssumption DEF N!CallSetNonce
<1>5. Posting'
  BY <1>2, <1>4 DEF Visit, Inv, BrowserInv, Posting, Presented
<1>6. QED
  BY <1>3, <1>5 DEF BrowserInv

LEMMA RenderedBrowser == ASSUME Inv, NEW t \in Tabs, Rendered(t) PROVE BrowserInv'
<1>1. req' = [req EXCEPT ![t] = N!Idle] /\ now' = now
  BY DEF Rendered, N!ExecInsert, N!StatementFails
<1>2. UNCHANGED <<view, stage, page, form, contracts>>
  BY DEF Rendered, browser
<1>3. Posting'
  BY <1>1, <1>2, FreedPosting
<1>4. QED
  BY <1>2, <1>3 DEF Inv, BrowserInv, BrowserTyped, PagesKnown

LEMMA SubmitBrowser ==
    ASSUME Inv, NEW t \in Tabs, NEW c \in Contracts, NEW r \in Receivers, Submit(t, c, r)
    PROVE  BrowserInv'
<1>1. /\ [tab |-> t, nonce |-> view[t].nonce, chat |-> view[t].chat] \in Origin
      /\ r \in Accounts
  BY TrackingAssumption, ComposedAssumption
     DEF Submit, Inv, BrowserInv, BrowserTyped, PagesKnown, Origin, Kinds
<1>2. BrowserTyped'
  BY <1>1 DEF Submit, Inv, BrowserInv, BrowserTyped, Stages
<1>3. PagesKnown'
  BY <1>1 DEF Submit, Inv, BrowserInv, BrowserTyped, PagesKnown
<1>4. req[c].pc = "idle" /\ req' = req /\ now' = now
  BY DEF Submit, Inv, BrowserInv, Posting, store
<1>5. Posting'
  BY <1>4 DEF Submit, Inv, BrowserInv, BrowserTyped, Posting, Presented
<1>6. QED
  BY <1>2, <1>3, <1>5 DEF BrowserInv

\* A contract's stage moves on, its page and receiver stay.
LEMMA StageBrowser ==
    ASSUME Inv, NEW c \in Contracts, stage[c] # "absent", NEW s \in Deployed \cup {"failed"},
           stage' = [stage EXCEPT ![c] = s], UNCHANGED <<view, page, form, contracts>>
    PROVE  BrowserTyped' /\ PagesKnown' /\ \A d \in Contracts : d # c => stage'[d] = stage[d]
  BY DEF Inv, BrowserInv, BrowserTyped, PagesKnown, Stages, Deployed

LEMMA PostBrowser == ASSUME Inv, NEW c \in Contracts, Post(c) PROVE BrowserInv'
<1>1. BrowserTyped' /\ PagesKnown' /\ \A d \in Contracts : d # c => stage'[d] = stage[d]
  BY StageBrowser DEF Post, Deployed
<1>2. stage'[c] = "posting"
  BY DEF Post, Inv, BrowserInv, BrowserTyped
<1>3. /\ req' = [req EXCEPT ![c] = [pc |-> "select", nonce |-> Presented(c),
                              email |-> NoEmail, ip |-> NoIp, time |-> now]]
      /\ now' = now /\ page' = page
  BY DEF Post, N!CallCheckNonce
<1>4. \A d \in Contracts : req'[d] = IF d = c
          THEN [pc |-> "select", nonce |-> Presented(c),
                email |-> NoEmail, ip |-> NoIp, time |-> now]
          ELSE req[d]
  BY <1>3, ReqTyped
<1>5. Posting'
  BY <1>1, <1>2, <1>3, <1>4, ReqTyped DEF Inv, BrowserInv, Posting, Presented
<1>6. QED
  BY <1>1, <1>5 DEF BrowserInv

LEMMA CheckBrowser == ASSUME Inv, NEW c \in Contracts, Check(c) PROVE BrowserInv'
<1>1. req[c].pc = "select" /\ stage[c] = "posting"
  BY DEF Check, N!ExecSelect, Inv, BrowserInv, Posting
<1>2. CASE N!Matching(c) = {}
  <2>1. stage' = [stage EXCEPT ![c] = "refused"] /\ req' = [req EXCEPT ![c] = N!Idle]
    BY <1>2 DEF Check, N!ExecSelect
  <2>2. BrowserTyped' /\ PagesKnown' /\ \A d \in Contracts : d # c => stage'[d] = stage[d]
    BY <1>1, <2>1, StageBrowser DEF Check, Deployed
  <2>3. Posting'
    BY <2>1, <2>2, FreedPosting DEF Check, N!ExecSelect
  <2>4. QED
    BY <2>2, <2>3 DEF BrowserInv
<1>3. CASE N!Matching(c) # {}
  <2>1. UNCHANGED <<view, stage, page, form, contracts, now>>
    BY <1>3 DEF Check, N!ExecSelect, Inv, BrowserInv, BrowserTyped
  <2>2. req' = [req EXCEPT ![c].pc = "found"]
    BY <1>3 DEF Check, N!ExecSelect
  <2>3. \A d \in Contracts : /\ d # c => req'[d] = req[d]
                             /\ req'[c].pc = "found" /\ req'[c].nonce = req[c].nonce
                             /\ req'[c].ip = req[c].ip /\ req'[c].time = req[c].time
    BY <2>2, ReqTyped DEF N!Request
  <2>4. Posting'
    BY <1>1, <2>1, <2>3 DEF Inv, BrowserInv, Posting, Presented
  <2>5. QED
    BY <2>1, <2>4 DEF Inv, BrowserInv, BrowserTyped, PagesKnown
<1>4. QED
  BY <1>2, <1>3

\* No row of the nonces table has the nonce a page of the chat presents.
LEMMA ChatSelect ==
    ASSUME Inv, NEW c \in Contracts, ChatFound(c)
    PROVE  /\ req[c].pc = "select" /\ stage[c] = "posting" /\ page[c].chat
           /\ req' = [req EXCEPT ![c] = N!Idle]
           /\ UNCHANGED <<honoured, log, rows, now, drawn, view, page, form, contracts>>
           /\ \E s \in {"cut", "recording"} : stage' = [stage EXCEPT ![c] = s]
<1>1. req[c].pc = "select" /\ stage[c] = "posting" /\ req[c].nonce = 0
  BY DEF ChatFound, N!ExecSelect, Inv, BrowserInv, Posting, Presented
<1>2. \A x \in rows : x.nonce # 0
  BY DEF Inv, NP!IInv, NP!TypeOK, NP!Row, NP!Nonces
<1>3. N!Matching(c) = {}
  BY <1>1, <1>2 DEF N!Matching
<1>4. QED
  BY <1>1, <1>3 DEF ChatFound, N!ExecSelect

LEMMA ChatBrowser == ASSUME Inv, NEW c \in Contracts, ChatFound(c) PROVE BrowserInv'
<1>1. BrowserTyped' /\ PagesKnown' /\ \A d \in Contracts : d # c => stage'[d] = stage[d]
  BY ChatSelect, StageBrowser DEF Deployed
<1>2. Posting'
  BY <1>1, ChatSelect, FreedPosting
<1>3. QED
  BY <1>1, <1>2 DEF BrowserInv

LEMMA AdmittedBrowser == ASSUME Inv, NEW c \in Contracts, Admitted(c) PROVE BrowserInv'
<1>1. stage[c] = "posting" /\ req' = [req EXCEPT ![c] = N!Idle] /\ now' = now
  BY DEF Admitted, N!Resume, Inv, BrowserInv, Posting
<1>2. BrowserTyped' /\ PagesKnown' /\ \A d \in Contracts : d # c => stage'[d] = stage[d]
  BY <1>1, StageBrowser DEF Admitted, Deployed
<1>3. Posting'
  BY <1>1, <1>2, FreedPosting DEF Admitted
<1>4. QED
  BY <1>2, <1>3 DEF BrowserInv

LEMMA RecordBrowser == ASSUME Inv, NEW c \in Contracts, Record(c) PROVE BrowserInv'
<1>1. Posted(c) \in [cAddr : Contracts, sAddr : Accounts, rAddr : Accounts]
  BY StayedPage, TrackingAssumption DEF Record, Posted
<1>2. BrowserTyped' /\ PagesKnown' /\ \A d \in Contracts : d # c => stage'[d] = stage[d]
  BY <1>1 DEF Record, Inv, BrowserInv, BrowserTyped, PagesKnown, Stages
<1>3. req[c].pc = "idle" /\ UNCHANGED <<req, now, page>>
  BY DEF Record, Inv, BrowserInv, Posting, store
<1>4. Posting'
  BY <1>2, <1>3 DEF Inv, BrowserInv, Posting, Presented
<1>5. QED
  BY <1>2, <1>4 DEF BrowserInv

\* A statement fails and nothing is inserted, or the INSERT executed and its
\* answer is lost.
Fails(c) ==
    /\ stage[c] \in {"posting", "recording"} /\ stage' = [stage EXCEPT ![c] = "cut"]
    /\ UNCHANGED <<chain, view, page, form, contracts, rows, now, drawn, log, honoured>>
    /\ \A r \in Tabs \cup Contracts : r # c => req'[r] = req[r]
    /\ req'[c].pc = "idle"

Loses(c) ==
    /\ stage[c] = "recording" /\ stage' = [stage EXCEPT ![c] = "unheard"]
    /\ contracts' = contracts \cup {Posted(c)}
    /\ UNCHANGED <<chain, view, page, form, store>>

LEMMA FailedCases == ASSUME Inv, NEW c \in Contracts, Failed(c) PROVE Fails(c) \/ Loses(c)
<1>1. CASE N!StatementFails(c)
  <2>1. stage[c] = "posting"
    BY <1>1 DEF N!StatementFails, Inv, BrowserInv, Posting
  <2>2. stage' = [stage EXCEPT ![c] = "cut"]
    BY <1>1, <2>1 DEF Failed
  <2>3. req' = [req EXCEPT ![c] = N!Idle] /\ UNCHANGED contracts
    BY <1>1, <2>1 DEF N!StatementFails, Failed
  <2>4. req'[c].pc = "idle" /\ \A r \in Tabs \cup Contracts : r # c => req'[r] = req[r]
    BY <2>3, ReqTyped DEF N!Idle
  <2>5. QED
    BY <1>1, <2>1, <2>2, <2>3, <2>4 DEF Fails, Failed, N!StatementFails, N!history
<1>2. CASE ~N!StatementFails(c)
  <2>1. stage[c] = "recording" /\ UNCHANGED store
    BY <1>2 DEF Failed
  <2>2. req[c].pc = "idle"
    BY <2>1 DEF Inv, BrowserInv, Posting
  <2>3. QED
    BY <1>2, <2>1, <2>2 DEF Failed, Fails, Loses, store
<1>3. QED
  BY <1>1, <1>2

LEMMA FailedBrowser == ASSUME Inv, NEW c \in Contracts, Failed(c) PROVE BrowserInv'
<1>1. CASE Fails(c)
  <2>1. BrowserTyped' /\ PagesKnown' /\ \A d \in Contracts : d # c => stage'[d] = stage[d]
    BY <1>1, StageBrowser DEF Fails, Deployed
  <2>2. Posting'
    BY <1>1, <2>1 DEF Fails, Inv, BrowserInv, Posting, Presented
  <2>3. QED
    BY <2>1, <2>2 DEF BrowserInv
<1>2. CASE Loses(c)
  <2>1. Posted(c) \in [cAddr : Contracts, sAddr : Accounts, rAddr : Accounts]
    BY <1>2, StayedPage, TrackingAssumption DEF Loses, Posted
  <2>2. BrowserTyped' /\ PagesKnown' /\ \A d \in Contracts : d # c => stage'[d] = stage[d]
    BY <1>2, <2>1 DEF Loses, Inv, BrowserInv, BrowserTyped, PagesKnown, Stages
  <2>3. req[c].pc = "idle" /\ UNCHANGED <<req, now, page>>
    BY <1>2 DEF Loses, Inv, BrowserInv, Posting, store
  <2>4. Posting'
    BY <2>2, <2>3 DEF Inv, BrowserInv, Posting, Presented
  <2>5. QED
    BY <2>2, <2>4 DEF BrowserInv
<1>3. QED
  BY <1>1, <1>2, FailedCases

LEMMA MinedBrowser ==
    ASSUME Inv, NEW c \in Contracts, Mined(c) \/ Rejected(c) PROVE BrowserInv'
<1>1. stage[c] = "sent" /\ \E s \in {"mined", "failed"} : stage' = [stage EXCEPT ![c] = s]
  BY DEF Mined, Rejected
<1>2. UNCHANGED <<view, page, form, contracts, req, now>>
  BY DEF Mined, Rejected, store
<1>3. BrowserTyped' /\ PagesKnown' /\ \A d \in Contracts : d # c => stage'[d] = stage[d]
  BY <1>1, <1>2, StageBrowser DEF Deployed
<1>4. Posting'
  BY <1>1, <1>2, <1>3 DEF Inv, BrowserInv, Posting, Presented
<1>5. QED
  BY <1>3, <1>4 DEF BrowserInv

\* What a restart leaves of the contracts that waited for the server: those in
\* done were inserted.
Interrupted(done) ==
    /\ \A c \in Contracts :
          stage'[c] = IF c \in done THEN "unheard"
                      ELSE IF stage[c] \in {"posting", "recording"} THEN "cut" ELSE stage[c]
    /\ contracts' = contracts \cup {Posted(c) : c \in done}
    /\ UNCHANGED <<chain, page, form, log, rows, honoured, now, drawn>>
    /\ \A r \in Tabs \cup Contracts : req'[r].pc = "idle"
    /\ \A t \in Tabs : view'[t] \in {view[t], NoPage}

LEMMA RestartCases ==
    ASSUME Inv, Restart
    PROVE  /\ stage' = [c \in Contracts |-> stage'[c]] /\ view' = [t \in Tabs |-> view'[t]]
           /\ \E done \in SUBSET {c \in Contracts : stage[c] = "recording"} : Interrupted(done)
  BY DEF Restart, N!Restart, N!Idle, N!history, Interrupted

LEMMA RestartBrowser == ASSUME Inv, Restart PROVE BrowserInv'
<1>1. PICK done \in SUBSET {c \in Contracts : stage[c] = "recording"} : Interrupted(done)
  BY RestartCases
<1>2. Posting'
  BY <1>1 DEF Posting, Interrupted
<1>3. \A c \in done : Posted(c) \in [cAddr : Contracts, sAddr : Accounts, rAddr : Accounts]
  BY StayedPage, TrackingAssumption DEF Posted
<1>4. /\ \A c \in Contracts : stage'[c] \in Stages
      /\ \A c \in Contracts : stage'[c] # "absent" => stage[c] # "absent"
  BY <1>1 DEF Interrupted, Inv, BrowserInv, BrowserTyped, Stages
<1>5. NoPage \in [kind : Kinds \cup {"none"}, nonce : 0 .. MaxNonce, chat : BOOLEAN]
  BY ComposedAssumption DEF NoPage
<1>6. BrowserTyped'
  BY <1>1, <1>3, <1>4, <1>5, RestartCases DEF Interrupted, Inv, BrowserInv, BrowserTyped
<1>7. PagesKnown'
  BY <1>1, <1>4 DEF Interrupted, Inv, BrowserInv, PagesKnown, NoPage
<1>8. QED
  BY <1>2, <1>6, <1>7 DEF BrowserInv

LEMMA LeaveBrowser == ASSUME Inv, NEW t \in Tabs, Leave(t) PROVE BrowserInv'
  BY ComposedAssumption DEF Leave, Inv, BrowserInv, BrowserTyped, PagesKnown, Posting,
     Presented, NoPage, store

\* The rest leaves pages and requests alone.
LEMMA BesideBrowser ==
    ASSUME Inv, UNCHANGED <<req, browser, contracts>>, now' \in Nat, now' >= now
    PROVE  BrowserInv'
<1>1. Posting'
  <2>1. SUFFICES ASSUME NEW c \in Contracts, req[c].pc # "idle" PROVE req[c].time <= now'
    BY DEF Inv, BrowserInv, Posting, Presented, browser
  <2>2. req[c].time \in Nat /\ req[c].time <= now /\ now \in Nat
    BY <2>1, ReqTyped DEF Inv, BrowserInv, Posting, N!Request, N!Times
  <2>3. QED
    BY <2>2
<1>2. QED
  BY <1>1 DEF Inv, BrowserInv, BrowserTyped, PagesKnown, browser

LEMMA StepBrowser == Inv /\ [Next]_vars => BrowserInv'
<1> SUFFICES ASSUME Inv, [Next]_vars PROVE BrowserInv'
  OBVIOUS
<1>1. ASSUME NEW t \in Tabs,
             \/ \E k \in Kinds, chat \in BOOLEAN : Visit(t, k, chat)
             \/ Rendered(t) \/ Leave(t)
             \/ \E c \in Contracts, r \in Receivers : Submit(t, c, r)
      PROVE  BrowserInv'
  BY <1>1, VisitBrowser, RenderedBrowser, LeaveBrowser, SubmitBrowser
<1>2. ASSUME NEW c \in Contracts,
             Mined(c) \/ Rejected(c) \/ Post(c) \/ Check(c) \/ ChatFound(c)
                \/ Admitted(c) \/ Record(c) \/ Failed(c)
      PROVE  BrowserInv'
  BY <1>2, MinedBrowser, PostBrowser, CheckBrowser, ChatBrowser, AdmittedBrowser,
     RecordBrowser, FailedBrowser
<1>3. ASSUME \/ \E c \in Contracts, a \in Accounts : UseContract(c, a)
             \/ \E d \in N!Deletion : Deleted(d)
             \/ Tick \/ UNCHANGED vars
      PROVE  BrowserInv'
  <2>1. UNCHANGED <<req, browser, contracts>> /\ now' \in {now, now + 1}
    BY <1>3 DEF UseContract, Deleted, N!ExecDelete, N!DeleteFails, Tick, N!Tick,
       vars, store
  <2>2. QED
    BY <2>1, ReqTyped, BesideBrowser
<1>4. CASE Restart
  BY <1>4, RestartBrowser
<1>5. QED
  BY <1>1, <1>2, <1>3, <1>4 DEF Next

LEMMA StepInv == Inv /\ [Next]_vars => Inv'
<1> SUFFICES ASSUME Inv, [Next]_vars PROVE Inv'
  OBVIOUS
<1>1. NP!IInv'
  BY StoreSteps, PartsAssume, NP!NextIInv DEF Inv
<1>2. SP!IInv'
  BY ChainSteps, PartsAssume, SP!NextIInv DEF Inv
<1>3. QED
  BY <1>1, <1>2, StepBrowser DEF Inv

LEMMA Invariance == Spec => []Inv
  BY InitInv, StepInv, PTL DEF Spec

\* In the composition the table does nothing that NonceStore has not, and the
\* contracts nothing that Shipment has not: whatever is proved of either alone
\* holds here.
THEOREM PartsBehave == Spec => NP!Spec /\ SP!Spec
  BY InitParts, Invariance, StoreSteps, ChainSteps, PTL DEF Spec, NP!Spec, SP!Spec

\* So the nonces of pages whose contracts are being mined live and die as nonces
\* do, no page's DELETE takes another's nonce, and none that was honoured is left
\* behind but by a fault.
THEOREM NoncesKeepTheirWord ==
    Spec => /\ NP!ImplementsLifecycle /\ NP!SparesTheNew /\ NP!SpentLeaves
            /\ []NP!HonouredAsStored /\ []NP!OneEach
  BY PartsBehave, PartsAssume, NP!Refinement, NP!DelayedDeleteSpares, NP!SpentOnesLeave,
     NP!GoesAheadAsStored, NP!RowsAreSingle, PTL

\* And the contracts, deployed from pages that come and go and never waited for
\* by whoever accepts them, are escrows that create and lose no money.
THEOREM ContractsKeepTheirWord ==
    Spec => /\ SP!ImplementsEscrow /\ SP!VerdictFinal /\ SP!PaysOnlyOnCompletion
            /\ SP!GainsOnlyTheDebt /\ []SP!Backed
  BY PartsBehave, PartsAssume, SP!Refinement, SP!VerdictIsFinal,
     SP!ChargedOnlyOnCompletion, SP!PaidOnlyTheDebt, SP!AlwaysBacked, PTL

\* What the requests leave of pages and chain, step by step: all the theorems
\* below rest on these facts and on Inv.
LEMMA StageFacts ==
    ASSUME Inv, NEW c \in Contracts
    PROVE  /\ stage \in [Contracts -> Stages]
           /\ Check(c) => /\ stage[c] = "posting" /\ stage'[c] \in {"posting", "refused"}
           /\ Admitted(c) => stage[c] = "posting" /\ stage'[c] = "recording"
           /\ Fails(c) => stage[c] \in {"posting", "recording"} /\ stage'[c] = "cut"
           /\ Loses(c) => stage[c] = "recording" /\ stage'[c] = "unheard"
           /\ ChatFound(c) => stage[c] = "posting" /\ stage'[c] \in {"cut", "recording"}
<1>1. ChatFound(c) => stage[c] = "posting" /\ stage'[c] \in {"cut", "recording"}
  BY ChatSelect DEF Inv, BrowserInv, BrowserTyped
<1>2. QED
  BY <1>1 DEF Check, N!ExecSelect, Admitted, N!Resume, Fails, Loses,
     Inv, BrowserInv, BrowserTyped, Posting

\* Every variable keeps its type, the chain's and the table's included.
THEOREM TypeCorrect == Spec => []TypeOK
<1>1. Inv => TypeOK
  <2> SUFFICES ASSUME Inv PROVE TypeOK
    OBVIOUS
  <2>1. N!TypeOK
    BY DEF Inv, NP!IInv, NP!TypeOK, N!TypeOK, NP!Row, N!Row, NP!Request, N!Request,
       NP!Nonces, N!Nonces, NP!Times, N!Times
  <2>2. S!TypeOK
    BY DEF Inv, SP!IInv, SP!TypeOK, S!TypeOK, SP!Parties, S!Parties
  <2>3. QED
    BY <2>1, <2>2 DEF TypeOK, Inv, BrowserInv, BrowserTyped, Origin
<1>2. QED
  BY Invariance, <1>1, PTL

-----------------------------------------------------------------------------
\* The rows are about contracts that exist

\* A row was inserted, and the page told so or not.
Kept == {"tracked", "unheard"}

\* A contract mined is on the chain between the parties of its page, and a row
\* is about a contract it was inserted for.
ChainKnown ==
    \A c \in Contracts : stage[c] \in Deployed =>
        /\ status[c] # "None"
        /\ sender[c] = WalletOf[page[c].tab] /\ receiver[c] = form[c]

RowsKnown ==
    \A x \in contracts : stage[x.cAddr] \in Kept /\ x = Posted(x.cAddr)

RealInv == ChainKnown /\ RowsKnown

LEMMA InitReal == Init => RealInv
  BY DEF Init, RealInv, ChainKnown, RowsKnown, Deployed, Kept

\* Nobody changes the parties of a contract or takes it off the chain.
LEMMA UsedReal ==
    ASSUME Inv, RealInv, NEW c \in Contracts, NEW a \in Accounts, UseContract(c, a)
    PROVE  RealInv'
<1>1. /\ UNCHANGED <<sender, receiver, stage, page, form, contracts>>
      /\ \A d \in Contracts : status[d] # "None" => status'[d] # "None"
  BY DEF UseContract, S!SetStatusCompleted, S!SetStatusRefused, S!Withdraw, browser,
     Inv, SP!IInv, SP!TypeOK
<1>2. QED
  BY <1>1 DEF RealInv, ChainKnown, RowsKnown, Posted

LEMMA MinedReal == ASSUME Inv, RealInv, NEW c \in Contracts, Mined(c) PROVE RealInv'
<1>1. /\ status' = [status EXCEPT ![c] = "Shipped"]
      /\ sender' = [sender EXCEPT ![c] = WalletOf[page[c].tab]]
      /\ receiver' = [receiver EXCEPT ![c] = form[c]]
  BY DEF Mined, S!Deploy
<1>2. \A d \in Contracts : /\ d # c => /\ status'[d] = status[d] /\ sender'[d] = sender[d]
                                       /\ receiver'[d] = receiver[d] /\ stage'[d] = stage[d]
                           /\ status'[c] = "Shipped" /\ receiver'[c] = form[c]
                           /\ sender'[c] = WalletOf[page[c].tab]
  BY <1>1 DEF Mined, Inv, SP!IInv, SP!TypeOK, BrowserInv, BrowserTyped
<1>3. stage[c] = "sent" /\ UNCHANGED <<page, form, contracts>>
  BY DEF Mined
<1>4. ChainKnown'
  BY <1>2, <1>3 DEF RealInv, ChainKnown
<1>5. RowsKnown'
  BY <1>2, <1>3 DEF RealInv, RowsKnown, Posted, Kept, Inv, BrowserInv, BrowserTyped
<1>6. QED
  BY <1>4, <1>5 DEF RealInv

LEMMA SubmitReal ==
    ASSUME Inv, RealInv, NEW t \in Tabs, NEW c \in Contracts, NEW r \in Receivers,
           Submit(t, c, r)
    PROVE  RealInv'
<1>1. \A d \in Contracts : /\ d # c => /\ stage'[d] = stage[d] /\ page'[d] = page[d]
                                       /\ form'[d] = form[d]
                           /\ stage[c] = "absent" /\ stage'[c] = "sent"
  BY DEF Submit, Inv, BrowserInv, BrowserTyped
<1>2. UNCHANGED <<status, sender, receiver, contracts>>
  BY DEF Submit, chain
<1>3. QED
  BY <1>1, <1>2 DEF RealInv, ChainKnown, RowsKnown, Posted, Deployed, Kept, Inv, BrowserInv,
     BrowserTyped

\* A contract's stage moves on, from one deployed to another, and not after
\* its row is inserted.
LEMMA MovedReal ==
    ASSUME Inv, RealInv, NEW c \in Contracts,
           stage[c] \in Deployed \ Kept \/ stage'[c] \notin Deployed,
           stage[c] \notin Kept,
           \A d \in Contracts : d # c => stage'[d] = stage[d],
           UNCHANGED <<status, sender, receiver, page, form>>,
           \/ UNCHANGED contracts
           \/ stage'[c] \in Kept /\ contracts' = contracts \cup {Posted(c)}
    PROVE  RealInv'
<1>1. ChainKnown'
  BY DEF RealInv, ChainKnown
<1>2. Posted(c).cAddr = c /\ \A d \in Contracts : Posted(d)' = Posted(d)
  BY DEF Posted
<1>3. RowsKnown'
  BY <1>2 DEF RealInv, RowsKnown, Inv, BrowserInv, BrowserTyped
<1>4. QED
  BY <1>1, <1>3 DEF RealInv

LEMMA StepReal == Inv /\ RealInv /\ [Next]_vars => RealInv'
<1> SUFFICES ASSUME Inv, RealInv, [Next]_vars PROVE RealInv'
  OBVIOUS
<1>1. ASSUME NEW c \in Contracts,
             Rejected(c) \/ Post(c) \/ Check(c) \/ ChatFound(c) \/ Admitted(c)
                \/ Record(c) \/ Fails(c) \/ Loses(c)
      PROVE  RealInv'
  <2>1. /\ stage[c] \in Deployed \ Kept \/ stage'[c] \notin Deployed
        /\ stage[c] \notin Kept
    BY <1>1, StageFacts DEF Rejected, Post, Record, Deployed, Kept
  <2>2. \A d \in Contracts : d # c => stage'[d] = stage[d]
    BY <1>1, StageFacts DEF Rejected, Post, Check, ChatFound, Admitted, Record, Fails, Loses
  <2>3. UNCHANGED <<status, sender, receiver, page, form>>
    BY <1>1 DEF Rejected, Post, Check, ChatFound, Admitted, Record, Fails, Loses, chain
  <2>4. \/ UNCHANGED contracts
        \/ stage'[c] \in Kept /\ contracts' = contracts \cup {Posted(c)}
    BY <1>1, StageFacts DEF Rejected, Post, Check, ChatFound, Admitted, Record, Fails, Loses,
       Kept
  <2>5. QED
    BY <2>1, <2>2, <2>3, <2>4, MovedReal
<1>2. ASSUME NEW c \in Contracts,
             Mined(c) \/ \E a \in Accounts : UseContract(c, a)
      PROVE  RealInv'
  BY <1>2, MinedReal, UsedReal
<1>3. ASSUME NEW t \in Tabs, NEW c \in Contracts, NEW r \in Receivers, Submit(t, c, r)
      PROVE  RealInv'
  BY <1>3, SubmitReal
<1>4. CASE Restart
  <2>1. PICK done \in SUBSET {c \in Contracts : stage[c] = "recording"} : Interrupted(done)
    BY <1>4, RestartCases
  <2>2. \A c \in Contracts : /\ stage[c] \in Deployed <=> stage'[c] \in Deployed
                             /\ stage[c] \in Kept => stage'[c] \in Kept
                             /\ c \in done => stage'[c] \in Kept
    BY <2>1 DEF Interrupted, Deployed, Kept
  <2>3. UNCHANGED <<status, sender, receiver, page, form>>
    BY <2>1 DEF Interrupted, chain
  <2>4. ChainKnown'
    BY <2>2, <2>3 DEF RealInv, ChainKnown
  <2>5. \A c \in Contracts : Posted(c)' = Posted(c) /\ Posted(c).cAddr = c
    BY <2>3 DEF Posted
  <2>6. RowsKnown'
    BY <2>1, <2>2, <2>5 DEF Interrupted, RealInv, RowsKnown, Inv, BrowserInv, BrowserTyped
  <2>7. QED
    BY <2>4, <2>6 DEF RealInv
<1>5. CASE UNCHANGED <<chain, stage, page, form, contracts>>
  BY <1>5 DEF RealInv, ChainKnown, RowsKnown, Posted, chain
<1>6. QED
  BY <1>1, <1>2, <1>3, <1>4, <1>5, FailedCases
     DEF Next, vars, Visit, Rendered, Leave, Deleted, Tick, browser

\* Every row is about a contract that is on the chain between the parties
\* recorded, and there is one row for each.
THEOREM TracksTheReal == Spec => []TrackedIsReal
<1>1. Inv /\ RealInv => TrackedIsReal
  <2> SUFFICES ASSUME Inv, RealInv PROVE TrackedIsReal
    OBVIOUS
  <2>1. \A x \in contracts : /\ x.cAddr \in Contracts /\ x = Posted(x.cAddr)
                             /\ stage[x.cAddr] \in Deployed
    BY DEF Kept, Deployed, Inv, BrowserInv, BrowserTyped, RealInv, RowsKnown
  <2>2. \A c \in Contracts : /\ Posted(c).sAddr = WalletOf[page[c].tab]
                             /\ Posted(c).rAddr = form[c]
    BY DEF Posted
  <2>3. QED
    BY <2>1, <2>2 DEF TrackedIsReal, RealInv, ChainKnown, Deployed
<1>2. QED
  BY Invariance, InitReal, StepReal, <1>1, PTL DEF Spec

-----------------------------------------------------------------------------
\* The table is a ledger of what the chain has

LEMMA InitLedger == Init => D!DInit
  BY DEF Init, S!Init, D!DInit, FateOf

\* The mapping looks at these variables alone, and of the chain at the parties.
LEMMA SameLedger ==
    ASSUME UNCHANGED <<stage, contracts, sender, receiver>>,
           \A c \in Contracts : status[c] = "None" <=> status'[c] = "None"
    PROVE  UNCHANGED D!dvars
  BY DEF D!dvars, FateOf

\* The chain mines what was sent; nothing is said of it yet.
LEMMA MinedLedger == ASSUME Inv, NEW c \in Contracts, Mined(c) PROVE D!Appear(c)
<1>1. /\ stage[c] = "sent" /\ status[c] = "None" /\ contracts' = contracts
      /\ stage' = [stage EXCEPT ![c] = "mined"]
      /\ status' = [status EXCEPT ![c] = "Shipped"]
      /\ sender' = [sender EXCEPT ![c] = WalletOf[page[c].tab]]
      /\ receiver' = [receiver EXCEPT ![c] = form[c]]
  BY DEF Mined, S!Deploy
<1>2. WalletOf[page[c].tab] \in Accounts /\ form[c] \in Accounts
  BY <1>1, StayedPage, TrackingAssumption
<1>3. \A d \in Contracts :
          /\ FateOf(stage'[d]) = FateOf(stage[d])
          /\ d # c => /\ status'[d] = status[d] /\ sender'[d] = sender[d]
                      /\ receiver'[d] = receiver[d]
          /\ status'[c] = "Shipped"
          /\ sender'[c] = WalletOf[page[c].tab] /\ receiver'[c] = form[c]
  BY <1>1 DEF FateOf, Inv, SP!IInv, SP!TypeOK, BrowserInv, BrowserTyped
<1> DEFINE parties == [d \in Contracts |->
                         IF status[d] = "None" THEN {}
                         ELSE {[sender |-> sender[d], receiver |-> receiver[d]]}]
           both == [sender |-> WalletOf[page[c].tab], receiver |-> form[c]]
<1>4. parties' = [parties EXCEPT ![c] = {both}] /\ parties[c] = {}
  <2>1. \A d \in Contracts : d # c => parties'[d] = parties[d]
    BY <1>3
  <2>2. parties'[c] = {both} /\ parties[c] = {}
    BY <1>1, <1>3
  <2>3. parties' = [d \in Contracts |-> parties'[d]]
    OBVIOUS
  <2>4. parties = [d \in Contracts |-> parties[d]]
    OBVIOUS
  <2> HIDE DEF parties
  <2>5. QED
    BY <2>1, <2>2, <2>3, <2>4
<1>5. \E s, r \in Accounts :
          parties' = [parties EXCEPT ![c] = {[sender |-> s, receiver |-> r]}]
  BY <1>2, <1>4
<1>6. /\ FateOf(stage[c]) = "open"
      /\ UNCHANGED <<[d \in Contracts |-> FateOf(stage[d])], contracts>>
  BY <1>1, <1>3 DEF FateOf
<1> HIDE DEF both
<1>7. QED
  BY <1>4, <1>5, <1>6 DEF D!Appear

\* What the pages of done posted is what the chain knows, and is inserted; other
\* contracts on the chain end refused or cut, or go on.
LEMMA DecidedLedger ==
    ASSUME Inv, RealInv, UNCHANGED <<status, sender, receiver>>,
           NEW done \in SUBSET {c \in Contracts : stage[c] = "recording"},
           contracts' = contracts \cup {Posted(c) : c \in done},
           \A c \in done : stage'[c] \in Kept,
           \A c \in Contracts \ done :
               \/ FateOf(stage'[c]) = FateOf(stage[c])
               \/ /\ stage[c] \in {"mined", "posting", "recording"}
                  /\ stage'[c] \in {"refused", "cut"}
    PROVE  D!Decide
<1> DEFINE away == {c \in Contracts \ done : FateOf(stage'[c]) # FateOf(stage[c])}
           parties == [d \in Contracts |->
                         IF status[d] = "None" THEN {}
                         ELSE {[sender |-> sender[d], receiver |-> receiver[d]]}]
<1>1. \A c \in away : /\ FateOf(stage[c]) = "open" /\ FateOf(stage'[c]) = "turned away"
                      /\ status[c] # "None"
  BY DEF FateOf, RealInv, ChainKnown, Deployed
<1>2. \A c \in done : /\ FateOf(stage[c]) = "open" /\ FateOf(stage'[c]) = "recorded"
                      /\ status[c] # "None"
                      /\ Posted(c) = [cAddr |-> c, sAddr |-> sender[c], rAddr |-> receiver[c]]
  BY DEF FateOf, Kept, RealInv, ChainKnown, Deployed, Posted
<1>3. \A c \in done : D!RowsOf(c) = {Posted(c)}
  <2>1. ASSUME NEW c \in done PROVE D!RowsOf(c) = {Posted(c)}
    <3>1. parties[c] = {[sender |-> sender[c], receiver |-> receiver[c]]}
      BY <1>2
    <3>2. D!RowsOf(c) =
              {[cAddr |-> c, sAddr |-> p.sender, rAddr |-> p.receiver] : p \in parties[c]}
      BY DEF D!RowsOf
    <3> HIDE DEF parties
    <3>3. D!RowsOf(c) = {[cAddr |-> c, sAddr |-> sender[c], rAddr |-> receiver[c]]}
      BY <3>1, <3>2
    <3>4. QED
      BY <3>3, <1>2
  <2>2. QED
    BY <2>1
<1>4. UNION {D!RowsOf(c) : c \in done} = {Posted(c) : c \in done}
  BY <1>3
<1>5. done \in SUBSET {c \in Contracts : D!Undecided(c)}
  BY <1>2 DEF D!Undecided
<1>6. away \in SUBSET {c \in Contracts : D!Undecided(c)}
  BY <1>1 DEF D!Undecided
<1>7. \A c \in Contracts : FateOf(stage'[c]) =
          IF c \in done THEN "recorded" ELSE IF c \in away THEN "turned away"
          ELSE FateOf(stage[c])
  BY <1>1, <1>2
<1>8. done \cap away = {}
  OBVIOUS
<1>9. parties' = parties
  OBVIOUS
<1> HIDE DEF away
<1>10. [c \in Contracts |-> FateOf(stage[c])]' =
          [c \in Contracts |-> IF c \in done THEN "recorded"
                               ELSE IF c \in away THEN "turned away"
                               ELSE [d \in Contracts |-> FateOf(stage[d])][c]]
  BY <1>7
<1>11. QED
  BY <1>4, <1>5, <1>6, <1>8, <1>9, <1>10 DEF D!Decide

\* Nothing is inserted: stages of contracts on the chain end refused or cut, or
\* go on.
LEMMA TurnedLedger ==
    ASSUME Inv, RealInv, UNCHANGED <<status, sender, receiver, contracts>>,
           \A c \in Contracts :
               \/ FateOf(stage'[c]) = FateOf(stage[c])
               \/ /\ stage[c] \in {"mined", "posting", "recording"}
                  /\ stage'[c] \in {"refused", "cut"}
    PROVE  D!DNext
<1>1. contracts' = contracts \cup {Posted(c) : c \in {}}
  OBVIOUS
<1>2. {} \in SUBSET {c \in Contracts : stage[c] = "recording"}
  OBVIOUS
<1>3. QED
  BY <1>1, <1>2, DecidedLedger DEF D!DNext

LEMMA StepLedger == Inv /\ RealInv /\ [Next]_vars => [D!DNext]_(D!dvars)
<1> SUFFICES ASSUME Inv, RealInv, [Next]_vars PROVE [D!DNext]_(D!dvars)
  OBVIOUS
<1>1. ASSUME NEW c \in Contracts, Mined(c) PROVE D!DNext
  BY <1>1, MinedLedger DEF D!DNext
<1>2. ASSUME NEW c \in Contracts, Record(c) \/ Loses(c) PROVE D!DNext
  <2>1. /\ stage[c] = "recording" /\ stage'[c] \in Kept
        /\ contracts' = contracts \cup {Posted(d) : d \in {c}}
        /\ UNCHANGED <<status, sender, receiver>>
    BY <1>2, StageFacts DEF Record, Loses, Kept, chain
  <2>2. \A d \in Contracts : d # c => stage'[d] = stage[d]
    BY <1>2, StageFacts DEF Record, Loses
  <2>3. {c} \in SUBSET {d \in Contracts : stage[d] = "recording"}
    BY <2>1
  <2>4. QED
    BY <2>1, <2>2, <2>3, DecidedLedger DEF D!DNext
<1>3. ASSUME NEW c \in Contracts,
             Rejected(c) \/ Post(c) \/ Check(c) \/ ChatFound(c) \/ Admitted(c) \/ Fails(c)
      PROVE  D!DNext
  <2>1. \A d \in Contracts : d # c => stage'[d] = stage[d]
    BY <1>3, StageFacts DEF Rejected, Post, Check, ChatFound, Admitted, Fails
  <2>2. \/ stage[c] = "sent" /\ stage'[c] = "failed"
        \/ stage[c] = "mined" /\ stage'[c] = "posting"
        \/ stage[c] = "posting" /\ stage'[c] \in {"posting", "refused", "recording"}
        \/ stage[c] \in {"posting", "recording"} /\ stage'[c] = "cut"
    BY <1>3, StageFacts DEF Rejected, Post
  <2>3. UNCHANGED <<status, sender, receiver, contracts>>
    BY <1>3 DEF Rejected, Post, Check, ChatFound, Admitted, Fails, chain
  <2>4. QED
    BY <2>1, <2>2, <2>3, TurnedLedger DEF FateOf
<1>4. ASSUME NEW t \in Tabs, NEW c \in Contracts, NEW r \in Receivers, Submit(t, c, r)
      PROVE  D!DNext
  <2>1. \A d \in Contracts : FateOf(stage'[d]) = FateOf(stage[d])
    BY <1>4 DEF Submit, FateOf, Inv, BrowserInv, BrowserTyped
  <2>2. UNCHANGED <<status, sender, receiver, contracts>>
    BY <1>4 DEF Submit, chain
  <2>3. QED
    BY <2>1, <2>2, TurnedLedger
<1>5. CASE Restart
  <2>1. PICK done \in SUBSET {c \in Contracts : stage[c] = "recording"} : Interrupted(done)
    BY <1>5, RestartCases
  <2>2. QED
    BY <2>1, DecidedLedger DEF Interrupted, Kept, chain, D!DNext
<1>6. ASSUME NEW c \in Contracts, NEW a \in Accounts, UseContract(c, a)
      PROVE  UNCHANGED D!dvars
  <2>1. /\ UNCHANGED <<stage, contracts, sender, receiver>>
        /\ \A d \in Contracts : status[d] = "None" <=> status'[d] = "None"
    BY <1>6 DEF UseContract, S!SetStatusCompleted, S!SetStatusRefused, S!Withdraw,
       S!onlyIfActive, browser, Inv, SP!IInv, SP!TypeOK
  <2>2. QED
    BY <2>1, SameLedger
<1>7. CASE UNCHANGED <<chain, stage, contracts>>
  BY <1>7, SameLedger DEF chain
<1>8. QED
  BY <1>1, <1>2, <1>3, <1>4, <1>5, <1>6, <1>7, FailedCases
     DEF Next, vars, Visit, Rendered, Leave, Deleted, Tick, browser

\* The table of contracts, with all that goes on before a row is inserted,
\* implements the ledger.
THEOREM Refinement == Spec => ImplementsLedger
  BY InitLedger, Invariance, InitReal, StepReal, StepLedger, PTL
     DEF Spec, ImplementsLedger, D!DSpec

-----------------------------------------------------------------------------
\* Whose nonce it is

\* The nonce of a page a tab shows, or that one of its contracts came from.
Holds(t, n) ==
    \/ view[t].nonce = n
    \/ \E c \in Contracts : page[c].tab = t /\ page[c].nonce = n

\* A nonce is one tab's, it is stored for a user of that tab only, and never
\* after its page deployed something.
Owned ==
    /\ \A t \in Tabs, n \in 1 .. MaxNonce : Holds(t, n) => n <= drawn
    /\ \A t, u \in Tabs, n \in 1 .. MaxNonce : Holds(t, n) /\ Holds(u, n) => t = u
    /\ \A t \in Tabs : req[t].pc = "insert" =>
          /\ req[t].email \in UsersOf[t]
          /\ \A u \in Tabs : Holds(u, req[t].nonce) => u = t
          /\ \A c \in Contracts : page[c].nonce # req[t].nonce
    /\ \A t \in Tabs, x \in log : Holds(t, x.nonce) => x.email \in UsersOf[t]

\* What NonceStore_proofs knows of the table, of use here.
LEMMA TableFacts ==
    ASSUME Inv
    PROVE  /\ rows \subseteq log /\ log \subseteq N!Row
           /\ \A x \in log : x.nonce <= drawn
           /\ \A r \in Tabs \cup Contracts : req[r].pc = "insert" => req[r].nonce \in 1 .. drawn
  BY DEF Inv, NP!IInv, NP!OneEach, NP!LogDrawn, NP!InsertsFresh, NP!TypeOK, NP!Row,
     N!Row, NP!Nonces, N!Nonces, NP!Times, N!Times

LEMMA InitOwned == Init => Owned
  BY ComposedAssumption DEF Init, N!Init, N!Idle, Owned, Holds, NoPage, NoOrigin

LEMMA VisitOwned ==
    ASSUME Inv, Owned, NEW t \in Tabs, NEW k \in Kinds, NEW chat \in BOOLEAN,
           Visit(t, k, chat)
    PROVE  Owned'
<1>1. PICK e \in UsersOf[t] : N!CallSetNonce(t, e, IpOf[t], LifeOf[k])
  BY DEF Visit
<1>2. /\ drawn \in Nat /\ drawn' = drawn + 1 /\ drawn' \in 1 .. MaxNonce
      /\ log' = log /\ page' = page
  BY <1>1, ReqTyped, ComposedAssumption DEF N!CallSetNonce, N!history, Visit
<1>3. /\ view'[t].nonce = drawn'
      /\ \A u \in Tabs : u # t => view'[u] = view[u]
  BY <1>2 DEF Visit, Inv, BrowserInv, BrowserTyped
<1>4. /\ req'[t].pc = "insert" /\ req'[t].nonce = drawn' /\ req'[t].email = e
      /\ \A u \in Tabs : u # t => req'[u] = req[u]
  BY <1>1, <1>2, ReqTyped DEF N!CallSetNonce
<1>5. \A u \in Tabs, n \in 1 .. MaxNonce :
          Holds(u, n)' => Holds(u, n) \/ (u = t /\ n = drawn')
  BY <1>2, <1>3 DEF Holds
<1>6. \A u \in Tabs : ~Holds(u, drawn')
  BY <1>2 DEF Owned
<1>7. \A c \in Contracts : page[c].nonce # drawn'
  <2>1. ASSUME NEW c \in Contracts, page[c].nonce = drawn' PROVE FALSE
    <3>1. page[c] \in Origin
      BY <2>1, <1>2 DEF Inv, BrowserInv, BrowserTyped, NoOrigin
    <3>2. Holds(page[c].tab, drawn')
      BY <2>1 DEF Holds
    <3>3. QED
      BY <3>1, <3>2, <1>6 DEF Origin
  <2>2. QED
    BY <2>1
<1>8. \A u \in Tabs, n \in 1 .. MaxNonce : Holds(u, n)' => n <= drawn'
  BY <1>2, <1>5 DEF Owned
<1>9. \A u, v \in Tabs, n \in 1 .. MaxNonce : Holds(u, n)' /\ Holds(v, n)' => u = v
  BY <1>5, <1>6 DEF Owned
<1>10. \A x \in log, u \in Tabs : Holds(u, x.nonce)' => x.email \in UsersOf[u]
  <2>1. \A x \in log : x.nonce \in 1 .. MaxNonce /\ x.nonce # drawn'
    BY <1>2, TableFacts DEF N!Row, N!Nonces
  <2>2. QED
    BY <2>1, <1>5 DEF Owned
<1>11. ASSUME NEW u \in Tabs, req'[u].pc = "insert"
       PROVE  /\ req'[u].email \in UsersOf[u]
              /\ \A v \in Tabs : Holds(v, req[u].nonce)' => v = u
              /\ \A c \in Contracts : page'[c].nonce # req'[u].nonce
  <2>1. CASE u = t
    BY <2>1, <1>2, <1>4, <1>5, <1>6, <1>7
  <2>2. CASE u # t
    <3>1. req[u].nonce \in 1 .. MaxNonce /\ req[u].nonce # drawn' /\ req'[u] = req[u]
      BY <2>2, <1>2, <1>4, <1>11, TableFacts, ComposedAssumption
    <3>2. QED
      BY <3>1, <1>11, <1>2, <1>5 DEF Owned
  <2>3. QED
    BY <2>1, <2>2
<1>12. QED
  BY <1>2, <1>8, <1>9, <1>10, <1>11 DEF Owned, Holds

\* Pages are left, requests end, and what is stored is a tab's own.
LEMMA KeptOwned ==
    ASSUME Inv, Owned, drawn' = drawn,
           \A u \in Tabs, n \in 1 .. MaxNonce : Holds(u, n)' => Holds(u, n),
           \A u \in Tabs : req'[u] = req[u] \/ req'[u].pc = "idle",
           \A u \in Tabs, c \in Contracts :
               req'[u].pc = "insert" => page'[c].nonce # req'[u].nonce,
           \A x \in log' \ log : \E t \in Tabs :
               req[t].pc = "insert" /\ x.nonce = req[t].nonce /\ x.email = req[t].email
    PROVE  Owned'
<1>1. \A u \in Tabs : req[u].pc = "insert" => req[u].nonce \in 1 .. MaxNonce
  BY TableFacts, ReqTyped, ComposedAssumption
<1>2. ASSUME NEW u \in Tabs, NEW x \in log', Holds(u, x.nonce)' PROVE x.email \in UsersOf[u]
  <2>1. CASE x \in log
    BY <2>1, <1>2, TableFacts DEF Owned, N!Row, N!Nonces
  <2>2. CASE x \notin log
    BY <2>2, <1>1, <1>2 DEF Owned
  <2>3. QED
    BY <2>1, <2>2
<1>3. ASSUME NEW u \in Tabs, req'[u].pc = "insert"
      PROVE  /\ req'[u].email \in UsersOf[u]
             /\ \A v \in Tabs : Holds(v, req[u].nonce)' => v = u
  BY <1>1, <1>3 DEF Owned
<1>4. QED
  BY <1>2, <1>3 DEF Owned, Holds

LEMMA StepOwned == Inv /\ Owned /\ [Next]_vars => Owned'
<1> SUFFICES ASSUME Inv, Owned, [Next]_vars PROVE Owned'
  OBVIOUS
<1>1. ASSUME NEW t \in Tabs, NEW k \in Kinds, NEW chat \in BOOLEAN, Visit(t, k, chat)
      PROVE  Owned'
  BY <1>1, VisitOwned
<1>2. ASSUME NEW t \in Tabs, Rendered(t) PROVE Owned'
  <2>1. UNCHANGED <<view, page, drawn>> /\ req' = [req EXCEPT ![t] = N!Idle]
    BY <1>2 DEF Rendered, browser, N!ExecInsert, N!StatementFails
  <2>2. \A u \in Tabs : req'[u] = req[u] \/ req'[u].pc = "idle"
    BY <2>1, ReqTyped DEF N!Idle
  <2>3. \A x \in log' \ log : req[t].pc = "insert" /\ x = N!NewRow(t)
    BY <1>2 DEF Rendered, N!ExecInsert, N!StatementFails, N!history
  <2>4. \A x \in log' \ log :
            req[t].pc = "insert" /\ x.nonce = req[t].nonce /\ x.email = req[t].email
    BY <2>3 DEF N!NewRow
  <2>5. \A u \in Tabs, c \in Contracts :
            req'[u].pc = "insert" => page'[c].nonce # req'[u].nonce
    BY <2>1, <2>2 DEF Owned
  <2>6. \A u \in Tabs, n \in 1 .. MaxNonce : Holds(u, n)' => Holds(u, n)
    BY <2>1 DEF Holds
  <2>7. QED
    BY <2>1, <2>2, <2>4, <2>5, <2>6, KeptOwned
<1>3. ASSUME NEW t \in Tabs, NEW c \in Contracts, NEW r \in Receivers, Submit(t, c, r)
      PROVE  Owned'
  <2>1. /\ UNCHANGED <<view, drawn, req, log>> /\ req[t].pc = "idle"
        /\ page' = [page EXCEPT ![c] = [tab |-> t, nonce |-> view[t].nonce,
                                        chat |-> view[t].chat]]
    BY <1>3 DEF Submit, store
  <2>2. \A d \in Contracts :
            page'[d] = IF d = c THEN [tab |-> t, nonce |-> view[t].nonce, chat |-> view[t].chat]
                                ELSE page[d]
    BY <2>1 DEF Inv, BrowserInv, BrowserTyped
  <2>3. \A u \in Tabs, n \in 1 .. MaxNonce : Holds(u, n)' => Holds(u, n)
    BY <2>1, <2>2 DEF Holds
  <2>4. \A u \in Tabs : req[u].pc = "insert" => view[t].nonce # req[u].nonce
    BY <2>1 DEF Owned, Holds
  <2>5. \A u \in Tabs, d \in Contracts :
            req'[u].pc = "insert" => page'[d].nonce # req'[u].nonce
    BY <2>1, <2>2, <2>4 DEF Owned
  <2>6. QED
    BY <2>1, <2>3, <2>5, KeptOwned
<1>4. ASSUME UNCHANGED <<page, drawn, log>>,
             \A t \in Tabs : view'[t] \in {view[t], NoPage},
             \A t \in Tabs : req'[t] = req[t] \/ req'[t].pc = "idle"
      PROVE  Owned'
  <2>1. \A u \in Tabs, n \in 1 .. MaxNonce : Holds(u, n)' => Holds(u, n)
    BY <1>4 DEF Holds, NoPage
  <2>2. \A u \in Tabs, d \in Contracts :
            req'[u].pc = "insert" => page'[d].nonce # req'[u].nonce
    BY <1>4 DEF Owned
  <2>3. QED
    BY <1>4, <2>1, <2>2, KeptOwned
<1>5. ASSUME NEW c \in Contracts,
             Post(c) \/ Check(c) \/ ChatFound(c) \/ Admitted(c) \/ Fails(c) \/ Loses(c)
      PROVE  Owned'
  <2>1. UNCHANGED <<page, view, drawn, log>>
    BY <1>5 DEF Post, N!CallCheckNonce, Check, ChatFound, N!ExecSelect, Admitted, N!Resume,
       Fails, Loses, N!history, store
  <2>2. \A t \in Tabs : req'[t] = req[t]
    BY <1>5, ReqTyped, TrackingAssumption DEF Post, N!CallCheckNonce, Check, ChatFound,
       N!ExecSelect, Admitted, N!Resume, Fails, Loses, store
  <2>3. QED
    BY <2>1, <2>2, <1>4
<1>6. CASE Restart
  BY <1>6, RestartCases, <1>4 DEF Interrupted
<1>7. ASSUME NEW t \in Tabs, Leave(t) PROVE Owned'
  <2>1. \A u \in Tabs : view'[u] \in {view[u], NoPage}
    BY <1>7 DEF Leave, Inv, BrowserInv, BrowserTyped
  <2>2. QED
    BY <1>7, <2>1, <1>4 DEF Leave, store
<1>8. CASE UNCHANGED <<page, view, drawn, log, req>>
  BY <1>8, <1>4
<1>9. QED
  BY <1>1, <1>2, <1>3, <1>5, <1>6, <1>7, <1>8, FailedCases
     DEF Next, vars, store, browser, Mined, Rejected, Record, UseContract, Deleted,
         N!ExecDelete, N!DeleteFails, N!history, Tick, N!Tick

-----------------------------------------------------------------------------
\* A contract is tracked on the nonce of its page

\* The server has accepted the nonce presented for c, and never refuses c then.
Accepted(c) == req[c].pc = "found" \/ stage[c] \in {"recording", "tracked", "unheard", "cut"}

\* The server goes ahead with c, or has.
Ahead(c) == req[c].pc = "found" \/ stage[c] \in {"recording", "tracked", "unheard"}

\* Who goes on to be recorded presented a nonce that was stored and is honoured
\* now, or the chat's, and each nonce honoured was presented for some contract
\* accepted.
HonouredInv ==
    /\ \A c \in Contracts : Ahead(c) =>
          \/ page[c].chat /\ Faults
          \/ page[c].nonce \in honoured /\ \E y \in log : y.nonce = page[c].nonce
    /\ \A n \in honoured : \E c \in Contracts :
          ~page[c].chat /\ page[c].nonce = n /\ Accepted(c)

LEMMA InitHonoured == Init => HonouredInv
  BY DEF Init, N!Init, N!Idle, HonouredInv, Ahead

LEMMA KeptHonoured ==
    ASSUME HonouredInv, honoured' = honoured, log \subseteq log',
           \A c \in Contracts :
               /\ Accepted(c) => Accepted(c)' /\ page'[c] = page[c]
               /\ Ahead(c)' => Ahead(c) \/ (page'[c].chat /\ Faults)
    PROVE  HonouredInv'
<1>1. \A c \in Contracts : Ahead(c) => page'[c] = page[c]
  BY DEF Ahead, Accepted
<1>2. \A c \in Contracts : Ahead(c)' =>
          \/ page'[c].chat /\ Faults
          \/ page'[c].nonce \in honoured' /\ \E y \in log' : y.nonce = page'[c].nonce
  BY <1>1 DEF HonouredInv
<1>3. \A n \in honoured' : \E c \in Contracts :
          ~page'[c].chat /\ page'[c].nonce = n /\ Accepted(c)'
  BY DEF HonouredInv
<1>4. QED
  BY <1>2, <1>3 DEF HonouredInv

LEMMA CheckHonoured ==
    ASSUME Inv, HonouredInv, NEW c \in Contracts, Check(c) PROVE HonouredInv'
<1>1. /\ req[c].pc = "select" /\ stage[c] = "posting" /\ req[c].nonce = Presented(c)
      /\ UNCHANGED <<log, page>>
  BY DEF Check, N!ExecSelect, Inv, BrowserInv, Posting
<1>2. \A d \in Contracts : d # c => req'[d] = req[d] /\ stage'[d] = stage[d]
  BY ReqTyped, StageFacts DEF Check, N!ExecSelect
<1>3. CASE N!Matching(c) = {}
  <2>1. req'[c].pc = "idle" /\ stage'[c] = "refused" /\ honoured' = honoured
    BY <1>3, ReqTyped, StageFacts DEF Check, N!ExecSelect, N!Idle
  <2>2. QED
    BY <1>1, <1>2, <2>1, KeptHonoured DEF Accepted, Ahead
<1>4. CASE N!Matching(c) # {}
  <2>1. PICK y \in rows : y.nonce = Presented(c)
    BY <1>1, <1>4 DEF N!Matching
  <2>2. y \in log /\ y.nonce # 0
    BY <2>1, TableFacts DEF N!Row, N!Nonces
  <2>3. ~page[c].chat /\ Presented(c) = page[c].nonce
    BY <2>1, <2>2 DEF Presented
  <2>4. req'[c].pc = "found" /\ honoured' = honoured \cup {page[c].nonce}
    BY <1>1, <1>4, <2>3, ReqTyped DEF Check, N!ExecSelect, N!Request
  <2>5. \A d \in Contracts : Accepted(d) => Accepted(d)'
    BY <1>1, <1>2, <2>4 DEF Accepted
  <2>6. \A n \in honoured' : \E d \in Contracts :
            ~page'[d].chat /\ page'[d].nonce = n /\ Accepted(d)'
    BY <1>1, <2>3, <2>4, <2>5 DEF HonouredInv, Accepted
  <2>7. ASSUME NEW d \in Contracts, Ahead(d)'
        PROVE  \/ page'[d].chat /\ Faults
               \/ page'[d].nonce \in honoured' /\ \E z \in log' : z.nonce = page'[d].nonce
    <3>1. CASE d = c
      BY <3>1, <1>1, <2>1, <2>2, <2>3, <2>4
    <3>2. CASE d # c
      BY <3>2, <1>1, <1>2, <2>4, <2>7 DEF HonouredInv, Ahead
    <3>3. QED
      BY <3>1, <3>2
  <2>8. QED
    BY <2>6, <2>7 DEF HonouredInv
<1>5. QED
  BY <1>3, <1>4

LEMMA ChatHonoured ==
    ASSUME Inv, HonouredInv, NEW c \in Contracts, ChatFound(c) PROVE HonouredInv'
<1>1. /\ UNCHANGED <<page, honoured, log>> /\ page[c].chat
      /\ req[c].pc = "select" /\ stage[c] = "posting"
  BY ChatSelect
<1>2. \A d \in Contracts : d # c => req'[d] = req[d] /\ stage'[d] = stage[d]
  BY ChatSelect, ReqTyped, StageFacts
<1>3. req'[c].pc = "idle" /\ (stage'[c] = "recording" => Faults)
  BY ChatSelect, ReqTyped, StageFacts DEF N!Idle, ChatFound
<1>4. stage'[c] \in {"cut", "recording"}
  BY StageFacts
<1>5. QED
  BY <1>1, <1>2, <1>3, <1>4, KeptHonoured DEF Accepted, Ahead

LEMMA StepHonoured == Inv /\ HonouredInv /\ [Next]_vars => HonouredInv'
<1> SUFFICES ASSUME Inv, HonouredInv, [Next]_vars PROVE HonouredInv'
  OBVIOUS
<1>1. ASSUME NEW c \in Contracts, Check(c) \/ ChatFound(c) PROVE HonouredInv'
  BY <1>1, CheckHonoured, ChatHonoured
<1>2. ASSUME NEW t \in Tabs,
             Rendered(t) \/ \E k \in Kinds, chat \in BOOLEAN : Visit(t, k, chat)
      PROVE  HonouredInv'
  <2>1. UNCHANGED <<stage, page, honoured>> /\ log \subseteq log'
    BY <1>2 DEF Rendered, Visit, browser, N!CallSetNonce, N!ExecInsert,
       N!StatementFails, N!history
  <2>2. \A c \in Contracts : req'[c] = req[c]
    BY <1>2, ReqTyped, TrackingAssumption DEF Rendered, Visit, N!CallSetNonce,
       N!ExecInsert, N!StatementFails
  <2>3. QED
    BY <2>1, <2>2, KeptHonoured DEF Accepted, Ahead
<1>3. ASSUME NEW t \in Tabs, NEW c \in Contracts, NEW r \in Receivers, Submit(t, c, r)
      PROVE  HonouredInv'
  <2>1. UNCHANGED <<req, honoured, log>> /\ stage[c] = "absent" /\ stage'[c] = "sent"
    BY <1>3 DEF Submit, store, Inv, BrowserInv, BrowserTyped
  <2>2. req[c].pc = "idle"
    BY <2>1 DEF Inv, BrowserInv, Posting
  <2>3. \A d \in Contracts : d # c => stage'[d] = stage[d] /\ page'[d] = page[d]
    BY <1>3 DEF Submit, Inv, BrowserInv, BrowserTyped
  <2>4. QED
    BY <2>1, <2>2, <2>3, KeptHonoured DEF Accepted, Ahead
<1>4. ASSUME NEW c \in Contracts, Post(c) \/ Admitted(c) \/ Fails(c) PROVE HonouredInv'
  <2>1. UNCHANGED <<page, honoured, log>>
    BY <1>4 DEF Post, N!CallCheckNonce, Admitted, N!Resume, Fails, N!history
  <2>2. \A d \in Contracts : d # c => req'[d] = req[d] /\ stage'[d] = stage[d]
    BY <1>4, ReqTyped DEF Post, N!CallCheckNonce, Admitted, N!Resume, Fails,
       Inv, BrowserInv, BrowserTyped
  <2>3. \/ req[c].pc = "found" /\ stage'[c] = "recording" /\ req'[c].pc = "idle"
        \/ stage'[c] = "cut" /\ req'[c].pc = "idle"
        \/ stage[c] = "mined" /\ req[c].pc = "idle"
              /\ stage'[c] = "posting" /\ req'[c].pc = "select"
    BY <1>4, ReqTyped DEF Post, N!CallCheckNonce, Admitted, N!Resume, Fails,
       N!Idle, Inv, BrowserInv, BrowserTyped, Posting
  <2>4. QED
    BY <2>1, <2>2, <2>3, KeptHonoured DEF Accepted, Ahead
<1>5. ASSUME NEW c \in Contracts, Mined(c) \/ Rejected(c) \/ Record(c) \/ Loses(c)
      PROVE  HonouredInv'
  <2>1. UNCHANGED <<req, page, honoured, log>>
    BY <1>5 DEF Mined, Rejected, Record, Loses, store
  <2>2. \A d \in Contracts : d # c => stage'[d] = stage[d]
    BY <1>5 DEF Mined, Rejected, Record, Loses, Inv, BrowserInv, BrowserTyped
  <2>3. \/ stage[c] = "sent" /\ stage'[c] \in {"mined", "failed"}
        \/ stage[c] = "recording" /\ stage'[c] \in {"tracked", "unheard"}
    BY <1>5 DEF Mined, Rejected, Record, Loses, Inv, BrowserInv, BrowserTyped
  <2>4. QED
    BY <2>1, <2>2, <2>3, KeptHonoured DEF Accepted, Ahead
<1>6. CASE Restart
  <2>1. PICK done \in SUBSET {c \in Contracts : stage[c] = "recording"} : Interrupted(done)
    BY <1>6, RestartCases
  <2>2. \A c \in Contracts : req[c].pc = "found" => stage[c] = "posting"
    BY DEF Inv, BrowserInv, Posting
  <2>3. QED
    BY <2>1, <2>2, KeptHonoured DEF Interrupted, Accepted, Ahead
<1>7. CASE UNCHANGED <<req, stage, page, honoured, log>>
  BY <1>7, KeptHonoured DEF Accepted, Ahead
<1>8. QED
  BY <1>1, <1>2, <1>3, <1>4, <1>5, <1>6, <1>7, FailedCases
     DEF Next, vars, store, browser, Leave, UseContract, Deleted, N!ExecDelete,
         N!DeleteFails, N!history, Tick, N!Tick

\* A contract is recorded on the nonce of the page that deployed it, which was
\* stored for a user of that page's tab, or from a page of the chat by a fault.
THEOREM TracksByItsPage == Spec => []TrackedByItsPage
<1>1. Inv /\ RealInv /\ Owned /\ HonouredInv => TrackedByItsPage
  <2> SUFFICES ASSUME Inv, RealInv, Owned, HonouredInv, NEW x \in contracts,
                      ~(page[x.cAddr].chat /\ Faults)
               PROVE  \E y \in log : /\ y.nonce = page[x.cAddr].nonce
                                     /\ y.nonce \in honoured
                                     /\ y.email \in UsersOf[page[x.cAddr].tab]
    BY DEF TrackedByItsPage
  <2>1. x.cAddr \in Contracts /\ stage[x.cAddr] \in {"tracked", "unheard"}
    BY DEF Inv, BrowserInv, BrowserTyped, RealInv, RowsKnown, Kept
  <2>2. PICK y \in log : y.nonce = page[x.cAddr].nonce /\ y.nonce \in honoured
    BY <2>1 DEF HonouredInv, Ahead
  <2>3. page[x.cAddr].tab \in Tabs /\ Holds(page[x.cAddr].tab, y.nonce)
    BY <2>1, <2>2, StayedPage DEF Holds
  <2>4. QED
    BY <2>2, <2>3 DEF Owned
<1>2. QED
  BY Invariance, InitReal, StepReal, InitOwned, StepOwned, InitHonoured, StepHonoured,
     <1>1, PTL DEF Spec

-----------------------------------------------------------------------------
\* Why a page is refused

\* A refusal has one of these reasons, and keeps it.
Reasons(n) ==
    \/ n \notin N!StoredNonces
    \/ n \notin N!LiveNonces
    \/ n \in honoured
    \/ \E y \in log : y.nonce = n /\ y.validity < now

RefusedInv ==
    \A c \in Contracts : stage[c] = "refused" => page[c].chat \/ Reasons(page[c].nonce)

LEMMA InitRefused == Init => RefusedInv
  BY DEF Init, RefusedInv

\* Nothing is stored under a nonce whose page deployed something, so what is
\* missing stays away; what ran out does so for good.
LEMMA KeptReasons ==
    ASSUME Inv, NEW n, Reasons(n), honoured \subseteq honoured', log \subseteq log',
           now' \in Nat, now' >= now,
           \A x \in (log' \ log) \cup (rows' \ rows) : x.nonce # n
    PROVE  Reasons(n)'
<1>1. CASE n \notin N!StoredNonces
  BY <1>1 DEF Reasons, N!StoredNonces
<1>2. CASE n \notin N!LiveNonces
  BY <1>2 DEF Reasons, N!LiveNonces
<1>3. CASE n \in honoured
  BY <1>3 DEF Reasons
<1>4. CASE \E y \in log : y.nonce = n /\ y.validity < now
  <2>1. PICK y \in log : y.nonce = n /\ y.validity < now
    BY <1>4
  <2>2. y.validity \in Nat /\ now \in Nat
    BY TableFacts, ReqTyped DEF N!Row, N!Times
  <2>3. y.validity < now'
    BY <2>1, <2>2
  <2>4. QED
    BY <2>1, <2>3 DEF Reasons
<1>5. QED
  BY <1>1, <1>2, <1>3, <1>4 DEF Reasons

LEMMA KeptRefused ==
    ASSUME Inv, Owned, RefusedInv, honoured \subseteq honoured', log \subseteq log',
           now' \in {now, now + 1},
           \A x \in (log' \ log) \cup (rows' \ rows) :
               \E t \in Tabs : req[t].pc = "insert" /\ x.nonce = req[t].nonce,
           \A c \in Contracts : stage'[c] = "refused" =>
               stage[c] = "refused" /\ page'[c] = page[c]
    PROVE  RefusedInv'
<1>1. now' \in Nat /\ now' >= now
  BY ReqTyped
<1>2. ASSUME NEW c \in Contracts, stage'[c] = "refused", ~page[c].chat
      PROVE  Reasons(page[c].nonce)'
  <2>1. Reasons(page[c].nonce)
    BY <1>2 DEF RefusedInv
  <2>2. \A x \in (log' \ log) \cup (rows' \ rows) : x.nonce # page[c].nonce
    BY DEF Owned
  <2>3. ASSUME NEW n, n = page[c].nonce PROVE Reasons(n)'
    BY <1>1, <2>1, <2>2, <2>3, KeptReasons
  <2>4. page'[c] = page[c]
    BY <1>2
  <2>5. QED
    BY <2>3, <2>4
<1>3. \A c \in Contracts : stage'[c] = "refused" => page'[c] = page[c]
  OBVIOUS
<1>4. QED
  BY <1>2, <1>3 DEF RefusedInv

\* The SELECT finds nothing: no row has the nonce, or its time is over.
LEMMA CheckRefused ==
    ASSUME Inv, RefusedInv, Owned, NEW c \in Contracts, Check(c) PROVE RefusedInv'
<1>1. /\ req[c].pc = "select" /\ stage[c] = "posting" /\ req[c].nonce = Presented(c)
      /\ req[c].ip = NoIp /\ req[c].time <= now
      /\ UNCHANGED <<log, rows, now, page>> /\ honoured \subseteq honoured'
  BY DEF Check, N!ExecSelect, Inv, BrowserInv, Posting
<1>2. \A d \in Contracts : d # c => stage'[d] = stage[d]
  BY StageFacts DEF Check
<1>3. CASE N!Matching(c) = {}
  <2>1. ~page[c].chat => \A x \in rows : x.nonce = page[c].nonce => x.validity < now
    <3>1. ASSUME ~page[c].chat, NEW x \in rows, x.nonce = page[c].nonce
          PROVE  x.validity < now
      <4>1. ~(x.validity >= req[c].time)
        BY <1>1, <1>3, <3>1 DEF N!Matching, Presented
      <4>2. x.validity \in Nat /\ req[c].time \in Nat /\ now \in Nat
        BY TableFacts, ReqTyped DEF N!Row, N!Times, N!Request
      <4>3. QED
        BY <1>1, <4>1, <4>2
    <3>2. QED
      BY <3>1
  <2>2. page[c].chat \/ Reasons(page[c].nonce)
    BY <2>1, TableFacts DEF Reasons, N!LiveNonces
  <2>3. honoured' = honoured
    BY <1>3 DEF Check, N!ExecSelect
  <2>4. \A d \in Contracts : Reasons(page[d].nonce)' <=> Reasons(page[d].nonce)
    BY <1>1, <2>3 DEF Reasons, N!StoredNonces, N!LiveNonces
  <2>5. QED
    BY <1>1, <1>2, <2>2, <2>4 DEF RefusedInv
<1>4. CASE N!Matching(c) # {}
  <2>1. stage'[c] = "posting"
    BY <1>1, <1>4, StageFacts DEF Check
  <2>2. QED
    BY <1>1, <1>2, <2>1, KeptRefused
<1>5. QED
  BY <1>3, <1>4

LEMMA StepRefused == Inv /\ Owned /\ RefusedInv /\ [Next]_vars => RefusedInv'
<1> SUFFICES ASSUME Inv, Owned, RefusedInv, [Next]_vars PROVE RefusedInv'
  OBVIOUS
<1>1. ASSUME NEW c \in Contracts, Check(c) PROVE RefusedInv'
  BY <1>1, CheckRefused
<1>2. ASSUME NEW t \in Tabs, Rendered(t) PROVE RefusedInv'
  <2>1. UNCHANGED <<stage, page, honoured, now>> /\ log \subseteq log'
    BY <1>2 DEF Rendered, browser, N!ExecInsert, N!StatementFails, N!history
  <2>2. \A x \in (log' \ log) \cup (rows' \ rows) : req[t].pc = "insert" /\ x = N!NewRow(t)
    BY <1>2 DEF Rendered, N!ExecInsert, N!StatementFails, N!history
  <2>3. N!NewRow(t).nonce = req[t].nonce
    BY DEF N!NewRow
  <2>4. QED
    BY <2>1, <2>2, <2>3, KeptRefused
<1>3. ASSUME NEW t \in Tabs, NEW c \in Contracts, NEW r \in Receivers, Submit(t, c, r)
      PROVE  RefusedInv'
  <2>1. UNCHANGED <<rows, log, honoured, now>>
    BY <1>3 DEF Submit, store
  <2>2. \A d \in Contracts : stage'[d] = "refused" => stage[d] = "refused" /\ page'[d] = page[d]
    BY <1>3 DEF Submit, Inv, BrowserInv, BrowserTyped
  <2>3. QED
    BY <2>1, <2>2, KeptRefused
<1>4. ASSUME NEW c \in Contracts,
             Mined(c) \/ Rejected(c) \/ Post(c) \/ ChatFound(c) \/ Admitted(c)
                \/ Record(c) \/ Fails(c) \/ Loses(c)
      PROVE  RefusedInv'
  <2>1. UNCHANGED <<page, rows, log, honoured, now>>
    BY <1>4, ChatSelect DEF Mined, Rejected, Post, N!CallCheckNonce, Admitted, N!Resume, Record,
       Fails, Loses, N!history, store
  <2>2. \A d \in Contracts : stage'[d] = "refused" => stage[d] = "refused"
    BY <1>4, ChatSelect DEF Mined, Rejected, Post, Admitted, Record, Fails, Loses,
       Inv, BrowserInv, BrowserTyped
  <2>3. QED
    BY <2>1, <2>2, KeptRefused
<1>5. ASSUME UNCHANGED <<page, log, honoured>>, rows' \subseteq rows, now' \in {now, now + 1},
             \A c \in Contracts : stage'[c] \in {stage[c], "cut", "unheard"}
      PROVE  RefusedInv'
  BY <1>5, KeptRefused
<1>6. CASE Restart
  BY <1>6, <1>5, RestartCases DEF Interrupted
<1>7. CASE \/ \E t \in Tabs : Leave(t) \/ \E k \in Kinds, chat \in BOOLEAN : Visit(t, k, chat)
           \/ \E c \in Contracts, a \in Accounts : UseContract(c, a)
           \/ \E d \in N!Deletion : Deleted(d)
           \/ Tick \/ UNCHANGED vars
  <2>1. UNCHANGED <<stage, page, log, honoured>> /\ rows' \subseteq rows
    BY <1>7 DEF Leave, Visit, N!CallSetNonce, UseContract, Deleted, N!ExecDelete,
       N!DeleteFails, Tick, N!Tick, N!history, vars, store, browser
  <2>2. now' \in {now, now + 1}
    BY <1>7 DEF Leave, Visit, N!CallSetNonce, UseContract, Deleted, N!ExecDelete,
       N!DeleteFails, Tick, N!Tick, N!history, vars, store, browser
  <2>3. QED
    BY <2>1, <2>2, <1>5
<1>8. QED
  BY <1>1, <1>2, <1>3, <1>4, <1>6, <1>7, FailedCases DEF Next

\* Nothing but the reasons listed turns away a page that waited for its
\* contract.
THEOREM RefusesForAReason == Spec => []RefusedForAReason
<1>1. Inv /\ Owned /\ HonouredInv /\ RefusedInv => RefusedForAReason
  <2> SUFFICES ASSUME Inv, Owned, HonouredInv, RefusedInv, NEW c \in Contracts,
                      stage[c] = "refused", ~page[c].chat,
                      page[c].nonce \in N!LiveNonces \cup honoured,
                      page[c].nonce \in N!StoredNonces,
                      ~ \E y \in log : y.nonce = page[c].nonce /\ y.validity < now
               PROVE  \E d \in Contracts \ {c} :
                         page[d] = page[c]
                         /\ stage[d] \in {"posting", "recording", "tracked", "unheard", "cut"}
    BY DEF RefusedForAReason
  <2>1. page[c].nonce \in honoured
    BY DEF RefusedInv, Reasons
  <2>2. PICK d \in Contracts :
            ~page[d].chat /\ page[d].nonce = page[c].nonce /\ Accepted(d)
    BY <2>1 DEF HonouredInv
  <2>3. stage[d] \in {"posting", "recording", "tracked", "unheard", "cut"}
    BY <2>2 DEF Accepted, Inv, BrowserInv, Posting
  <2>4. page[c] \in Origin /\ page[d] \in Origin
    BY <2>3 DEF Inv, BrowserInv, PagesKnown
  <2>5. page[d].tab = page[c].tab
    BY <2>2, <2>4 DEF Owned, Holds, Origin
  <2>6. page[d] = page[c]
    BY <2>2, <2>4, <2>5 DEF Origin
  <2>7. QED
    BY <2>3, <2>6
<1>2. QED
  BY Invariance, InitOwned, StepOwned, InitHonoured, StepHonoured, InitRefused,
     StepRefused, <1>1, PTL DEF Spec

=============================================================================
