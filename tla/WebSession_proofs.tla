--------------------------- MODULE WebSession_proofs ---------------------------
(* Proofs about accounts and web sessions, for any number of browsers, tabs,  *)
(* users and logins going on: the types, and that a session speaks only for a *)
(* user its browser is entitled to speak for. The lemmas are stated of one    *)
(* action each, as the module of the pages takes the same actions.            *)
EXTENDS WebSession, TLAPS

NP == INSTANCE NonceStore_proofs
        WITH Requests <- Tabs \cup Followers,
             Lifetimes <- {PageLife, LinkLife}

LEMMA StoreAssume == NP!NonceAssumption
  BY SessionAssumption DEF NP!NonceAssumption

-----------------------------------------------------------------------------
\* What is to be kept

\* The types of what the nonces table does not have.
AccountsTyped ==
    /\ users \subseteq [email : Emails, verified : BOOLEAN]
    /\ session \in [Browsers -> Session]
    /\ purpose \in [Tabs -> Purpose]
    /\ \A t \in Tabs : purpose[t].kind = "register" => purpose[t].email \in Emails
    /\ token \in [Tabs -> 0 .. MaxNonce]
    /\ leaving \in [Tabs -> SUBSET Session]
    /\ login \in [Followers -> SUBSET Login]
    /\ mails \subseteq [email : Emails, nonce : 0 .. MaxNonce]
    /\ typed \in [Browsers -> SUBSET Emails]
    /\ carried \in [Browsers -> SUBSET Emails]
    /\ turnedAway \subseteq mails

\* What a nonce for this e-mail may do in a browser: nothing, or speak for him.
Speaks(b, e) == e = NoEmail \/ Entitled(b, e)

\* A nonce some browser presents: if it was stored, then for nobody or for a user
\* the browser is entitled to speak for, and it is not about to be stored.
HandedTo(n, b) ==
    /\ n \in 1 .. drawn
    /\ \A x \in log : x.nonce = n => Speaks(b, x.email)
    /\ \A q \in Tabs \cup Followers : req[q].pc = "insert" => req[q].nonce # n

\* Nonces are stored for those whose password was typed somewhere, or for nobody.
Somewhere(e, words) == e = NoEmail \/ \E c \in Browsers : e \in words[c]

Logged == \A x \in log : Somewhere(x.email, typed)

\* A nonce being stored for a login is stored for a user of the browser; the one
\* a page has was handed to it; and so was the one a login going on presents,
\* which is found for one the browser may speak for or not at all.
Asked == \A t \in Tabs : req[t].pc = "insert" =>
             /\ Somewhere(req[t].email, typed)
             /\ purpose[t].kind = "login" => req[t].email \in typed[BrowserOf[t]]

AnsweredAt(t) == token[t] # 0 => HandedTo(token[t], BrowserOf[t])

Answered == \A t \in Tabs : AnsweredAt(t)

EnteringAt(f) ==
    \A l \in login[f] :
        /\ req[f].pc \in {"select", "found"} => HandedTo(req[f].nonce, l.browser)
        /\ \A e \in l.for : Speaks(l.browser, e)

Entering == \A f \in Followers : EnteringAt(f)

Earned == Asked /\ Logged /\ Answered /\ Entering /\ SessionIsEarned

Inv == NP!IInv /\ AccountsTyped /\ Earned

LEMMA StoreTyped ==
    ASSUME NP!IInv
    PROVE  /\ N!TypeOK
           /\ req \in [Tabs \cup Followers -> N!Request]
           /\ drawn \in 0 .. MaxNonce /\ drawn \in Nat /\ now \in Nat
           /\ \A f \in Tabs \cup Followers : \A x \in found[f] : x.email \in Emails \cup {NoEmail}
  BY SessionAssumption DEF NP!IInv, NP!TypeOK, NP!Request, NP!Row, NP!Nonces,
     NP!Times, N!TypeOK, N!Request, N!Row, N!Nonces, N!Times

\* Nothing is asked for, handed out or entered at first, as is seen here of any
\* sessions that are earned already.
LEMMA QuietEarned ==
    ASSUME \A q \in Tabs \cup Followers : req[q].pc = "idle",
           \A t \in Tabs : token[t] = 0,
           \A f \in Followers : login[f] = {}, SessionIsEarned, log = {}
    PROVE  Earned
  BY DEF Earned, Asked, Logged, Answered, AnsweredAt, Entering, EnteringAt

LEMMA InitStore == N!Init => NP!IInv
<1>1. N!Init => NP!Init
  BY DEF N!Init, NP!Init, N!Idle, NP!Idle
<1>2. QED
  BY <1>1, StoreAssume, NP!InitIInv

LEMMA InitInv == Init => Inv
<1> SUFFICES ASSUME Init PROVE Inv
  OBVIOUS
<1>1. NP!IInv
  BY InitStore DEF Init
<1>2. AccountsTyped
  <2>1. users \subseteq [email : Emails, verified : BOOLEAN]
    <3>1. [email : Emails, verified : {FALSE}] \subseteq [email : Emails, verified : BOOLEAN]
      OBVIOUS
    <3>2. QED
      BY <3>1 DEF Init
  <2>2. QED
    BY <2>1, SessionAssumption
       DEF Init, AccountsTyped, Session, Anonymous, Purpose, NoPurpose, NoLogin
<1>3. Earned
  BY QuietEarned DEF Init, N!Init, N!Idle, NoLogin, SessionIsEarned, Anonymous
<1>4. QED
  BY <1>1, <1>2, <1>3 DEF Inv

-----------------------------------------------------------------------------
\* The store's steps are those of the nonces table, but that a link followed
\* may take rows away.

LEMMA CallSetSteps ==
    ASSUME NEW t \in Tabs, NEW e \in Emails \cup {NoEmail},
           NEW life \in {PageLife, LinkLife}, N!CallSetNonce(t, e, Address(t), life)
    PROVE  NP!Next
<1>1. Address(t) \in Ips
  BY SessionAssumption DEF Address
<1>2. NP!CallSetNonce(t, e, Address(t), life)
  BY DEF N!CallSetNonce, NP!CallSetNonce, N!history, NP!history
<1>3. QED
  BY <1>1, <1>2 DEF NP!Next

LEMMA CallCheckSteps ==
    ASSUME NEW q \in Tabs \cup Followers, NEW n \in 0 .. MaxNonce,
           NEW i \in Ips \cup {NoIp}, N!CallCheckNonce(q, n, i)
    PROVE  NP!Next
<1>1. NP!CallCheckNonce(q, n, i)
  BY DEF N!CallCheckNonce, NP!CallCheckNonce, N!history, NP!history
<1>2. n \in NP!Nonces \cup {0}
  BY SessionAssumption DEF NP!Nonces
<1>3. QED
  BY <1>1, <1>2 DEF NP!Next

LEMMA RequestSteps ==
    ASSUME NEW q \in Tabs \cup Followers,
           N!ExecInsert(q) \/ N!ExecSelect(q) \/ N!Resume(q) \/ N!StatementFails(q)
    PROVE  NP!Next
<1>1. CASE N!ExecInsert(q)
  <2>1. NP!ExecInsert(q)
    BY <1>1 DEF N!ExecInsert, NP!ExecInsert, N!IpTaken, NP!IpTaken, N!Holder,
       NP!Holder, N!NewRow, NP!NewRow, N!Idle, NP!Idle
  <2>2. QED
    BY <2>1 DEF NP!Next
<1>2. CASE N!ExecSelect(q)
  <2>1. NP!ExecSelect(q)
    BY <1>2 DEF N!ExecSelect, NP!ExecSelect, N!Matching, NP!Matching, N!Idle, NP!Idle
  <2>2. QED
    BY <2>1 DEF NP!Next
<1>3. CASE N!Resume(q) \/ N!StatementFails(q)
  BY <1>3 DEF N!Resume, NP!Resume, N!StatementFails, NP!StatementFails, N!Idle,
     NP!Idle, N!history, NP!history, NP!Next
<1>4. QED
  BY <1>1, <1>2, <1>3

LEMMA DeletedSteps == ASSUME NEW d \in N!Deletion, Deleted(d) PROVE NP!Next
<1>1. NP!ExecDelete(d) \/ NP!DeleteFails(d)
  BY DEF Deleted, N!ExecDelete, NP!ExecDelete, N!DeleteFails, NP!DeleteFails,
     N!history, NP!history
<1>2. d \in NP!Deletion
  BY DEF N!Deletion, NP!Deletion, N!Nonces, NP!Nonces
<1>3. QED
  BY <1>1, <1>2 DEF NP!Next

LEMMA RestartSteps == ASSUME Restart PROVE NP!Next
  BY DEF Restart, N!Restart, NP!Restart, N!Idle, NP!Idle, N!history, NP!history, NP!Next

LEMMA TickSteps == ASSUME Tick PROVE NP!Next
  BY DEF Tick, N!Tick, NP!Tick, N!history, NP!history, NP!Next

LEMMA StepStore == ASSUME NP!IInv, NP!Next PROVE NP!IInv'
  BY StoreAssume, NP!NextIInv

LEMMA ShrunkStore ==
    ASSUME NP!IInv, rows' \subseteq rows,
           UNCHANGED <<now, drawn, req, found, deletes, log, honoured>>
    PROVE  NP!IInv'
<1>1. now' \in NP!Times
  BY StoreTyped DEF NP!Times
<1>2. QED
  BY <1>1, StoreAssume, NP!ShrunkIInv

LEMMA SameStore == ASSUME NP!IInv, UNCHANGED store PROVE NP!IInv'
  BY ShrunkStore DEF store

-----------------------------------------------------------------------------
\* How what was handed out stays so

\* What any step does to the log and to the nonces on their way into it.
Draws ==
    /\ drawn' \in Nat /\ drawn <= drawn' /\ log \subseteq log'
    /\ \A x \in log' \ log : \E q \in Tabs \cup Followers :
          req[q].pc = "insert" /\ req[q].nonce = x.nonce
    /\ \A q \in Tabs \cup Followers : req'[q].pc = "insert" =>
          \/ req[q].pc = "insert" /\ req'[q].nonce = req[q].nonce
          \/ req'[q].nonce > drawn

\* What was typed and carried is not forgotten, nor what it entitles to.
TypedGrows == \A b \in Browsers : typed[b] \subseteq typed'[b] /\ carried[b] \subseteq carried'[b]

LEMMA SpeaksStays ==
    ASSUME TypedGrows, NEW b \in Browsers, NEW e
    PROVE  /\ Entitled(b, e) => Entitled(b, e)'
           /\ Speaks(b, e) => Speaks(b, e)'
           /\ Somewhere(e, typed) => Somewhere(e, typed')
  BY DEF TypedGrows, Entitled, Speaks, Somewhere

LEMMA HandedStays ==
    ASSUME Inv, Draws, TypedGrows, NEW n, NEW b \in Browsers, HandedTo(n, b)
    PROVE  HandedTo(n, b)'
<1>1. \A x \in log : x.nonce = n => Speaks(b, x.email)'
  BY SpeaksStays DEF HandedTo
<1>2. \A x \in log' \ log : x.nonce # n
  BY DEF Draws, HandedTo
<1>3. n \in 1 .. drawn'
  BY StoreTyped DEF Inv, Draws, HandedTo
<1>4. \A q \in Tabs \cup Followers : req'[q].pc = "insert" => req'[q].nonce # n
  BY StoreTyped DEF Inv, Draws, HandedTo
<1>5. QED
  BY <1>1, <1>2, <1>3, <1>4 DEF HandedTo

\* The nonce to be stored is new and drawn, and nobody else is storing it.
LEMMA InsertsNew ==
    ASSUME Inv, NEW q \in Tabs \cup Followers, req[q].pc = "insert"
    PROVE  /\ req[q].nonce \in 1 .. drawn
           /\ \A x \in log : x.nonce # req[q].nonce
           /\ \A p \in (Tabs \cup Followers) \ {q} :
                 req[p].pc = "insert" => req[p].nonce # req[q].nonce
  BY DEF Inv, NP!IInv, NP!InsertsFresh

\* A request is freed, having stored its nonce or done nothing of the kind.
LEMMA FreedDraws ==
    ASSUME Inv, NEW q \in Tabs \cup Followers, req' = [req EXCEPT ![q] = N!Idle],
           drawn' = drawn, log' = log \/ (req[q].pc = "insert" /\ log' = log \cup {N!NewRow(q)})
    PROVE  Draws
<1>1. \A p \in Tabs \cup Followers : req'[p] = IF p = q THEN N!Idle ELSE req[p]
  BY StoreTyped DEF Inv
<1>2. N!Idle.pc = "idle" /\ N!NewRow(q).nonce = req[q].nonce
  BY DEF N!Idle, N!NewRow
<1>3. QED
  BY <1>1, <1>2, StoreTyped DEF Inv, Draws

LEMMA SameDraws == ASSUME Inv, UNCHANGED <<drawn, log, req>> PROVE Draws
  BY StoreTyped DEF Inv, Draws

\* Every step of the nonces table is such.
LEMMA StepDraws == ASSUME Inv, NP!Next PROVE Draws
<1>1. ASSUME NEW q \in Tabs \cup Followers, NEW e, NEW i, NEW h, NP!CallSetNonce(q, e, i, h)
      PROVE  Draws
  <2>1. /\ drawn' = drawn + 1 /\ log' = log
        /\ \A p \in Tabs \cup Followers : p # q => req'[p] = req[p]
        /\ req'[q].nonce = drawn + 1
    BY <1>1, StoreTyped DEF NP!CallSetNonce, NP!history, Inv
  <2>2. QED
    BY <2>1, StoreTyped DEF Draws, Inv
<1>2. ASSUME NEW q \in Tabs \cup Followers, NP!ExecInsert(q) PROVE Draws
  <2>1. /\ drawn' = drawn /\ req[q].pc = "insert"
        /\ log' = log \/ log' = log \cup {N!NewRow(q)}
        /\ req' = [req EXCEPT ![q] = N!Idle]
    BY <1>2 DEF NP!ExecInsert, NP!NewRow, N!NewRow, NP!Idle, N!Idle
  <2>2. QED
    BY <2>1, FreedDraws
<1>3. ASSUME NEW q \in Tabs \cup Followers, NEW n, NEW i, NP!CallCheckNonce(q, n, i)
      PROVE  Draws
  <2>1. /\ drawn' = drawn /\ log' = log
        /\ \A p \in Tabs \cup Followers : p # q => req'[p] = req[p]
        /\ req'[q].pc = "select"
    BY <1>3, StoreTyped DEF NP!CallCheckNonce, NP!history, Inv
  <2>2. QED
    BY <2>1, StoreTyped DEF Draws, Inv
<1>4. ASSUME NEW q \in Tabs \cup Followers, NP!ExecSelect(q) PROVE Draws
  <2>1. /\ drawn' = drawn /\ log' = log
        /\ \A p \in Tabs \cup Followers : p # q => req'[p] = req[p]
        /\ req'[q].pc \in {"idle", "found"}
    BY <1>4, StoreTyped DEF NP!ExecSelect, NP!Idle, N!Request, Inv
  <2>2. QED
    BY <2>1, StoreTyped DEF Draws, Inv
<1>5. ASSUME NEW q \in Tabs \cup Followers, NP!Resume(q) \/ NP!StatementFails(q)
      PROVE  Draws
  <2>1. drawn' = drawn /\ log' = log /\ req' = [req EXCEPT ![q] = N!Idle]
    BY <1>5 DEF NP!Resume, NP!StatementFails, NP!history, NP!Idle, N!Idle
  <2>2. QED
    BY <2>1, FreedDraws
<1>6. CASE NP!Restart
  <2>1. /\ drawn' = drawn /\ log' = log
        /\ \A q \in Tabs \cup Followers : req'[q].pc = "idle"
    BY <1>6 DEF NP!Restart, NP!history, NP!Idle
  <2>2. QED
    BY <2>1, StoreTyped DEF Draws, Inv
<1>7. CASE NP!Tick \/ \E d \in NP!Deletion : NP!ExecDelete(d) \/ NP!DeleteFails(d)
  BY <1>7, SameDraws DEF NP!Tick, NP!ExecDelete, NP!DeleteFails, NP!history
<1>8. QED
  BY <1>1, <1>2, <1>3, <1>4, <1>5, <1>6, <1>7 DEF NP!Next

LEMMA TabTyped ==
    ASSUME Inv, NEW t \in Tabs
    PROVE  /\ BrowserOf[t] \in Browsers
           /\ Here(t).authenticated \in BOOLEAN
           /\ Here(t).email \in Emails \cup {NoEmail}
           /\ Here(t).authenticated => Entitled(BrowserOf[t], Here(t).email)
           /\ token[t] \in 0 .. MaxNonce
  BY SessionAssumption DEF Inv, AccountsTyped, Session, Here, Earned, SessionIsEarned

LEMMA AskedStays ==
    ASSUME Inv, TypedGrows,
           \A t \in Tabs : req'[t].pc = "insert" =>
               \/ /\ req[t].pc = "insert" /\ req'[t].email = req[t].email
                  /\ purpose'[t].kind \in {purpose[t].kind, "none"}
               \/ /\ Somewhere(req'[t].email, typed')
                  /\ purpose'[t].kind = "login" => req'[t].email \in typed'[BrowserOf[t]]
    PROVE  Asked'
<1> SUFFICES ASSUME NEW t \in Tabs, req'[t].pc = "insert"
             PROVE  /\ Somewhere(req'[t].email, typed')
                    /\ purpose'[t].kind = "login" => req'[t].email \in typed'[BrowserOf[t]]
  BY DEF Asked
<1>1. CASE /\ req[t].pc = "insert" /\ req'[t].email = req[t].email
           /\ purpose'[t].kind \in {purpose[t].kind, "none"}
  <2>1. Somewhere(req[t].email, typed) /\ (purpose[t].kind = "login" => req[t].email \in typed[BrowserOf[t]])
    BY <1>1 DEF Inv, Earned, Asked
  <2>2. BrowserOf[t] \in Browsers
    BY TabTyped
  <2>3. Somewhere(req[t].email, typed')
    BY <2>1, <2>2, SpeaksStays
  <2>4. QED
    BY <1>1, <2>1, <2>2, <2>3 DEF TypedGrows, Somewhere
<1>2. QED
  BY <1>1

\* The log is as it was, and so is what it says.
LEMMA LoggedStays == ASSUME Inv, TypedGrows, log' = log PROVE Logged'
  BY SpeaksStays DEF Inv, Earned, Logged, Somewhere, TypedGrows

LEMMA AnsweredStays ==
    ASSUME Inv, Draws, TypedGrows, NEW t \in Tabs, token'[t] \in {0, token[t]}
    PROVE  AnsweredAt(t)'
<1> SUFFICES ASSUME token'[t] # 0 PROVE HandedTo(token[t], BrowserOf[t])'
  BY DEF AnsweredAt
<1>1. token'[t] = token[t] /\ HandedTo(token[t], BrowserOf[t])
  BY DEF Inv, Earned, Answered, AnsweredAt
<1>2. QED
  BY <1>1, TabTyped, HandedStays

LEMMA EnteringStays ==
    ASSUME Inv, Draws, TypedGrows, NEW f \in Followers, login'[f] \subseteq login[f],
           req'[f].pc \in {"select", "found"} =>
               req[f].pc \in {"select", "found"} /\ req'[f].nonce = req[f].nonce
    PROVE  EnteringAt(f)'
<1> SUFFICES ASSUME NEW l \in login[f]
             PROVE  /\ req'[f].pc \in {"select", "found"} => HandedTo(req[f].nonce, l.browser)'
                    /\ \A e \in l.for : Speaks(l.browser, e)'
  BY DEF EnteringAt
<1>1. l.browser \in Browsers
  BY DEF Inv, AccountsTyped, Login
<1>2. EnteringAt(f)
  BY DEF Inv, Earned, Entering
<1>3. \A e \in l.for : Speaks(l.browser, e)'
  BY <1>1, <1>2, SpeaksStays DEF EnteringAt
<1>4. ASSUME req'[f].pc \in {"select", "found"} PROVE HandedTo(req[f].nonce, l.browser)'
  <2>1. req'[f].nonce = req[f].nonce /\ HandedTo(req[f].nonce, l.browser)
    BY <1>2, <1>4 DEF EnteringAt
  <2>2. QED
    BY <1>1, <2>1, HandedStays
<1>5. QED
  BY <1>3, <1>4
-----------------------------------------------------------------------------
\* Each action keeps the invariant

LEMMA CallSetInv ==
    ASSUME Inv, NEW t \in Tabs, NEW e \in Emails \cup {NoEmail},
           NEW life \in {PageLife, LinkLife}, NEW kind \in {"login", "register", "page"},
           NEW for \in Emails \cup {NoEmail},
           N!CallSetNonce(t, e, Address(t), life), Asks(t, kind, for),
           users' \subseteq [email : Emails, verified : BOOLEAN],
           typed' \in [Browsers -> SUBSET Emails], TypedGrows, Somewhere(e, typed'),
           kind = "login" => e \in typed'[BrowserOf[t]],
           kind = "register" => for \in Emails
    PROVE  Inv'
<1>1. NP!IInv'
  BY CallSetSteps, StepStore DEF Inv
<1>2. AccountsTyped'
  <2>1. [kind |-> kind, email |-> for] \in Purpose
    BY DEF Purpose
  <2>2. purpose' \in [Tabs -> Purpose]
    BY <2>1 DEF Asks, Inv, AccountsTyped
  <2>3. QED
    BY <2>2 DEF Asks, Inv, AccountsTyped
<1>3. /\ drawn' = drawn + 1 /\ log' = log
      /\ \A q \in Tabs \cup Followers : q # t => req'[q] = req[q]
      /\ req'[t].pc = "insert" /\ req'[t].nonce = drawn + 1 /\ req'[t].email = e
  BY StoreTyped DEF N!CallSetNonce, N!history, Inv
<1>4. Draws
  BY <1>3, StoreTyped DEF Draws, Inv
<1>5. \A s \in Tabs : s # t => purpose'[s] = purpose[s]
  BY DEF Asks, Inv, AccountsTyped
<1>6. purpose'[t].kind = kind
  BY DEF Asks, Inv, AccountsTyped
<1>7. Asked'
  BY <1>3, <1>5, <1>6, AskedStays
<1>8. Answered'
  BY <1>4, AnsweredStays DEF Asks, Answered
<1>9. ASSUME NEW f \in Followers PROVE EnteringAt(f)'
  <2>1. f # t
    BY SessionAssumption
  <2>2. QED
    BY <1>3, <1>4, <2>1, EnteringStays DEF Asks
<1>10. SessionIsEarned'
  BY SpeaksStays DEF Inv, Earned, SessionIsEarned, Asks
<1>11. Logged'
  BY <1>3, LoggedStays
<1>12. QED
  BY <1>1, <1>2, <1>7, <1>8, <1>9, <1>10, <1>11 DEF Inv, Earned, Entering

LEMMA RegisterInv ==
    ASSUME Inv, NEW t \in Tabs, NEW e \in Emails, Register(t, e) PROVE Inv'
<1>1. Asks(t, "register", e) /\ N!CallSetNonce(t, NoEmail, Address(t), LinkLife)
  BY DEF Register
<1>2. typed' = typed /\ typed' \in [Browsers -> SUBSET Emails] /\ TypedGrows
  BY DEF Register, Asks, Inv, AccountsTyped, TypedGrows
<1>3. users' \subseteq [email : Emails, verified : BOOLEAN]
  <2>1. users \subseteq [email : Emails, verified : BOOLEAN]
    BY DEF Inv, AccountsTyped
  <2>2. [email |-> e, verified |-> FALSE] \in [email : Emails, verified : BOOLEAN]
    OBVIOUS
  <2>3. users' = users \/ users' = users \cup {[email |-> e, verified |-> FALSE]}
    BY DEF Register
  <2>4. QED
    BY <2>1, <2>2, <2>3
<1>4. Somewhere(NoEmail, typed')
  BY DEF Somewhere
<1>5. QED
  BY <1>1, <1>2, <1>3, <1>4, CallSetInv

LEMMA PostLoginInv ==
    ASSUME Inv, NEW t \in Tabs, NEW e \in Emails, PostLogin(t, e) PROVE Inv'
<1>1. Asks(t, "login", e) /\ N!CallSetNonce(t, e, Address(t), LinkLife)
  BY DEF PostLogin
<1>2. typed' \in [Browsers -> SUBSET Emails] /\ TypedGrows /\ e \in typed'[BrowserOf[t]]
  BY TabTyped DEF PostLogin, Asks, Inv, AccountsTyped, TypedGrows
<1>3. users' \subseteq [email : Emails, verified : BOOLEAN]
  BY DEF PostLogin, Inv, AccountsTyped
<1>4. Somewhere(e, typed')
  BY <1>2, TabTyped DEF Somewhere
<1>5. QED
  BY <1>1, <1>2, <1>3, <1>4, CallSetInv

LEMMA OpenPageInv ==
    ASSUME Inv, NEW t \in Tabs, NEW life \in {PageLife, LinkLife}, OpenPage(t, life)
    PROVE  Inv'
<1>1. /\ Asks(t, "page", Here(t).email) /\ N!CallSetNonce(t, Here(t).email, Address(t), life)
      /\ Here(t).email \in Emails \cup {NoEmail}
  BY TabTyped DEF OpenPage
<1>2. typed' \in [Browsers -> SUBSET Emails] /\ TypedGrows
  BY DEF OpenPage, Asks, Inv, AccountsTyped, TypedGrows
<1>3. users' \subseteq [email : Emails, verified : BOOLEAN]
  BY DEF OpenPage, Inv, AccountsTyped
<1>4. Somewhere(Here(t).email, typed')
  BY TabTyped DEF OpenPage, Entitled, Somewhere
<1>5. QED
  BY <1>1, <1>2, <1>3, <1>4, CallSetInv

\* The nonce a login page is answered with was stored for it just now.
LEMMA StoredInv == ASSUME Inv, NEW t \in Tabs, Stored(t) PROVE Inv'
<1> DEFINE r == req[t]
           n == IF N!IpTaken(r.email, r.ip) THEN 0 ELSE r.nonce
<1>1. NP!IInv'
  BY RequestSteps, StepStore DEF Stored, Inv
<1>2. req' = [req EXCEPT ![t] = N!Idle] /\ drawn' = drawn /\ typed' = typed /\ carried' = carried
  BY DEF Stored, N!ExecInsert, N!StatementFails
<1>3. log' = log \/ (r.pc = "insert" /\ log' = log \cup {N!NewRow(t)})
  <2>1. CASE N!ExecInsert(t)
    BY <2>1 DEF N!ExecInsert
  <2>2. CASE N!StatementFails(t)
    BY <2>2 DEF N!StatementFails, N!history
  <2>3. QED
    BY <2>1, <2>2 DEF Stored
<1>4. Draws
  BY <1>2, <1>3, FreedDraws
<1>5. TypedGrows
  BY <1>2 DEF TypedGrows
<1>6. n \in 0 .. MaxNonce
  BY StoreTyped, SessionAssumption DEF Inv, N!Request, N!Nonces
<1>7. PICK m \in {0, n} :
          /\ token' = [token EXCEPT ![t] = IF purpose[t].kind = "login" THEN m ELSE 0]
          /\ mails' = IF purpose[t].kind = "register"
                      THEN mails \cup {[email |-> purpose[t].email, nonce |-> m]}
                      ELSE mails
          /\ m # 0 => N!ExecInsert(t) /\ ~N!IpTaken(r.email, r.ip)
  BY DEF Stored
<1>8. AccountsTyped'
  <2>1. token' \in [Tabs -> 0 .. MaxNonce]
    BY <1>6, <1>7, SessionAssumption DEF Inv, AccountsTyped
  <2>2. mails \subseteq mails' /\ mails' \subseteq [email : Emails, nonce : 0 .. MaxNonce]
    BY <1>6, <1>7, SessionAssumption DEF Inv, AccountsTyped
  <2>3. /\ purpose' \in [Tabs -> Purpose]
        /\ \A s \in Tabs : purpose'[s] = IF s = t THEN NoPurpose ELSE purpose[s]
    BY DEF Stored, Inv, AccountsTyped, Purpose, NoPurpose
  <2>4. QED
    BY <1>2, <2>1, <2>2, <2>3 DEF Stored, Inv, AccountsTyped, NoPurpose
<1>9. \A q \in Tabs \cup Followers : req'[q] = IF q = t THEN N!Idle ELSE req[q]
  BY <1>2, StoreTyped DEF Inv
<1>10. Asked'
  BY <1>5, <1>9, AskedStays DEF N!Idle, Stored, Inv, AccountsTyped
<1>11. AnsweredAt(t)'
  <2> SUFFICES ASSUME token'[t] # 0 PROVE HandedTo(token[t], BrowserOf[t])'
    BY DEF AnsweredAt
  <2>1. /\ token'[t] = r.nonce /\ purpose[t].kind = "login" /\ r.pc = "insert"
        /\ log' = log \cup {N!NewRow(t)}
    BY <1>7 DEF Inv, AccountsTyped, N!ExecInsert
  <2>2. \A e : e = r.email => Speaks(BrowserOf[t], e)'
    BY <1>2, <2>1 DEF Inv, Earned, Asked, Speaks, Entitled
  <2>3. \A x \in log' : x.nonce = r.nonce => x.email = r.email
    BY <2>1, InsertsNew DEF N!NewRow
  <2>4. \A q \in Tabs \cup Followers : req'[q].pc = "insert" => req'[q].nonce # r.nonce
    BY <1>9, <2>1, InsertsNew DEF N!Idle
  <2>5. r.nonce \in 1 .. drawn'
    BY <1>2, <2>1, InsertsNew
  <2>6. QED
    BY <2>1, <2>2, <2>3, <2>4, <2>5 DEF HandedTo
<1>12. ASSUME NEW s \in Tabs, s # t PROVE AnsweredAt(s)'
  BY <1>4, <1>5, <1>7, <1>12, AnsweredStays DEF Inv, AccountsTyped
<1>13. ASSUME NEW f \in Followers PROVE EnteringAt(f)'
  <2>1. f # t /\ login'[f] = login[f]
    BY SessionAssumption DEF Stored
  <2>2. QED
    BY <1>4, <1>5, <1>9, <2>1, EnteringStays
<1>14. SessionIsEarned'
  BY <1>5, SpeaksStays DEF Inv, Earned, SessionIsEarned, Stored
<1>15. Logged'
  <2>1. CASE log' = log
    BY <1>5, <2>1, LoggedStays
  <2>2. CASE r.pc = "insert" /\ log' = log \cup {N!NewRow(t)}
    <3>1. Somewhere(r.email, typed) /\ N!NewRow(t).email = r.email
      BY <2>2 DEF Inv, Earned, Asked, N!NewRow
    <3>2. Logged /\ typed' = typed
      BY <1>2 DEF Inv, Earned
    <3>3. QED
      BY <2>2, <3>1, <3>2 DEF Logged
  <2>3. QED
    BY <1>3, <2>1, <2>2
<1>16. QED
  BY <1>1, <1>8, <1>10, <1>11, <1>12, <1>13, <1>14, <1>15 DEF Inv, Earned, Answered, Entering

\* The nonce followed: the tab's own, or one of a row, which its browser may now
\* present since it is remembered to have been carried there.
LEMMA FollowedTyped ==
    ASSUME Inv, NEW n \in N!LiveNonces
    PROVE  /\ n \in 1 .. drawn /\ n \in 0 .. MaxNonce
           /\ \E x \in log : x.nonce = n /\ N!EmailOf(n) = x.email
           /\ N!EmailOf(n) \in Emails \cup {NoEmail}
           /\ \A x \in log : x.nonce = n => x.email = N!EmailOf(n)
<1>1. PICK x \in log : x.nonce = n
  BY DEF N!LiveNonces, Inv, NP!IInv, NP!OneEach
<1>2. \A y \in log : y.nonce = n => y = x
  BY <1>1 DEF Inv, NP!IInv, NP!OneEach
<1>3. N!EmailOf(n) = x.email
  <2>1. n \in N!StoredNonces
    BY <1>1 DEF N!StoredNonces
  <2>2. QED
    BY <1>1, <1>2, <2>1 DEF N!EmailOf
<1>4. x \in N!Row /\ x.nonce <= drawn
  BY StoreTyped DEF Inv, NP!IInv, NP!LogDrawn, N!TypeOK
<1>5. n \in 1 .. MaxNonce /\ x.email \in Emails \cup {NoEmail}
  BY <1>1, <1>4 DEF N!Row, N!Nonces
<1>6. QED
  BY <1>1, <1>2, <1>3, <1>4, <1>5, StoreTyped, SessionAssumption DEF Inv

LEMMA FollowTyped ==
    ASSUME Inv, NEW t \in Tabs, NEW f \in Followers, NEW n \in N!LiveNonces, Follow(t, f, n)
    PROVE  /\ typed' = typed /\ carried' \in [Browsers -> SUBSET Emails]
           /\ TypedGrows /\ Draws
           /\ drawn' = drawn /\ log' = log
           /\ \A q \in Tabs \cup Followers : q # f => req'[q] = req[q]
           /\ req'[f].pc = "select" /\ req'[f].nonce = n
<1>1. /\ drawn' = drawn /\ log' = log
      /\ \A q \in Tabs \cup Followers : q # f => req'[q] = req[q]
      /\ req'[f].pc = "select" /\ req'[f].nonce = n
  BY StoreTyped DEF Follow, N!CallCheckNonce, N!history, Inv
<1>2. Draws
  BY <1>1, StoreTyped DEF Draws, Inv
<1>3. typed' = typed
  BY DEF Follow
<1>4. /\ carried \in [Browsers -> SUBSET Emails]
      /\ N!EmailOf(n) \in Emails \cup {NoEmail}
  BY FollowedTyped DEF Inv, AccountsTyped
<1>5. /\ carried' \in [Browsers -> SUBSET Emails]
      /\ \A b \in Browsers : carried[b] \subseteq carried'[b]
  BY <1>4 DEF Follow
<1>6. QED
  BY <1>1, <1>2, <1>3, <1>5 DEF TypedGrows

LEMMA FollowInv ==
    ASSUME Inv, NEW t \in Tabs, NEW f \in Followers, NEW n \in N!LiveNonces, Follow(t, f, n)
    PROVE  Inv'
<1>1. BrowserOf[t] \in Browsers /\ n \in 0 .. MaxNonce
  BY TabTyped, FollowedTyped
<1>2. NP!IInv'
  BY <1>1, CallCheckSteps, StepStore DEF Follow, Inv
<1>3. AccountsTyped'
  <2>1. {[browser |-> BrowserOf[t], for |-> {}]} \subseteq Login
    BY <1>1 DEF Login
  <2>2. token' \in [Tabs -> 0 .. MaxNonce] /\ login' \in [Followers -> SUBSET Login]
    BY <2>1, SessionAssumption DEF Follow, Inv, AccountsTyped
  <2>3. carried' \in [Browsers -> SUBSET Emails] /\ typed' = typed
    BY FollowTyped
  <2>4. QED
    BY <2>2, <2>3 DEF Follow, Inv, AccountsTyped
<1>4. /\ drawn' = drawn /\ log' = log
      /\ \A q \in Tabs \cup Followers : q # f => req'[q] = req[q]
      /\ req'[f].pc = "select" /\ req'[f].nonce = n
  BY FollowTyped
<1>5. Draws /\ TypedGrows
  BY FollowTyped
<1>6. typed' = typed
  BY DEF Follow
<1>7. Asked'
  <2>1. \A s \in Tabs : s # f
    BY SessionAssumption
  <2>2. QED
    BY <1>4, <1>5, <2>1, AskedStays DEF Follow
<1>8. Answered'
  BY <1>5, AnsweredStays DEF Follow, Answered, Inv, AccountsTyped
<1>9. HandedTo(n, BrowserOf[t])'
  <2>1. CASE n = token[t]
    <3>1. HandedTo(n, BrowserOf[t])
      BY <2>1, FollowedTyped DEF Inv, Earned, Answered, AnsweredAt
    <3>2. QED
      BY <1>1, <1>5, <3>1, HandedStays
  <2>2. CASE n # token[t]
    <3>1. ASSUME NEW e, e = N!EmailOf(n) PROVE Speaks(BrowserOf[t], e)'
      <4> SUFFICES ASSUME N!EmailOf(n) # NoEmail
                   PROVE  /\ N!EmailOf(n) \in carried'[BrowserOf[t]]
                          /\ \E c \in Browsers : N!EmailOf(n) \in typed'[c]
        BY <3>1 DEF Speaks, Entitled
      <4>1. N!EmailOf(n) \in carried'[BrowserOf[t]]
        BY <1>1, <2>2 DEF Follow, Inv, AccountsTyped
      <4>2. Somewhere(N!EmailOf(n), typed)
        BY FollowedTyped DEF Inv, Earned, Logged
      <4>3. QED
        BY <1>6, <4>1, <4>2 DEF Somewhere
    <3>2. \A x \in log' : x.nonce = n => Speaks(BrowserOf[t], x.email)'
      BY <1>4, <3>1, FollowedTyped
    <3>3. \A q \in Tabs \cup Followers : req'[q].pc = "insert" => req'[q].nonce # n
      BY <1>4, FollowedTyped, InsertsNew
    <3>4. QED
      BY <1>4, <3>2, <3>3, FollowedTyped DEF HandedTo
  <2>3. QED
    BY <2>1, <2>2
<1>10. EnteringAt(f)'
  <2>1. login'[f] = {[browser |-> BrowserOf[t], for |-> {}]}
    BY DEF Follow, Inv, AccountsTyped
  <2>2. QED
    BY <1>4, <1>9, <2>1 DEF EnteringAt
<1>11. ASSUME NEW g \in Followers, g # f PROVE EnteringAt(g)'
  BY <1>4, <1>5, <1>11, EnteringStays DEF Follow, Inv, AccountsTyped
<1>12. SessionIsEarned'
  BY <1>5, SpeaksStays DEF Inv, Earned, SessionIsEarned, Follow
<1>13. Logged'
  BY <1>4, <1>5, LoggedStays
<1>14. QED
  BY <1>2, <1>3, <1>7, <1>8, <1>10, <1>11, <1>12, <1>13 DEF Inv, Earned, Entering

\* What a step of one login going on leaves alone.
LEMMA BesideLogin ==
    ASSUME Inv, NEW f \in Followers, Draws, NP!IInv',
           log' = log, \A q \in Tabs \cup Followers : q # f => req'[q] = req[q],
           \A g \in Followers : g # f => login'[g] = login[g],
           login' \in [Followers -> SUBSET Login], session' \in [Browsers -> Session],
           UNCHANGED <<users, purpose, token, leaving, past>>,
           EnteringAt(f)', SessionIsEarned'
    PROVE  Inv'
<1>1. AccountsTyped' /\ TypedGrows
  BY DEF Inv, AccountsTyped, TypedGrows, past
<1>2. \A t \in Tabs : req'[t] = req[t]
  BY SessionAssumption
<1>3. Asked'
  BY <1>1, <1>2, AskedStays
<1>4. Answered'
  BY <1>1, AnsweredStays DEF Answered
<1>5. ASSUME NEW g \in Followers, g # f PROVE EnteringAt(g)'
  BY <1>1, <1>5, EnteringStays
<1>6. Logged'
  BY <1>1, LoggedStays
<1>7. QED
  BY <1>1, <1>3, <1>4, <1>5, <1>6 DEF Inv, Earned, Entering

LEMMA LookedInv == ASSUME Inv, NEW f \in Followers, Looked(f) PROVE Inv'
<1>1. NP!IInv'
  BY RequestSteps, StepStore DEF Looked, Inv
<1>2. /\ drawn' = drawn /\ log' = log
      /\ req' = [req EXCEPT ![f] = N!Idle] \/ req' = [req EXCEPT ![f].pc = "found"]
      /\ req[f].pc \in {"insert", "select"}
  BY DEF Looked, N!ExecSelect, N!StatementFails, N!history
<1>3. /\ \A q \in Tabs \cup Followers : q # f => req'[q] = req[q]
      /\ req'[f].pc \in {"idle", "found"}
      /\ req'[f].pc = "found" => req[f].pc = "select" /\ req'[f].nonce = req[f].nonce
  BY StoreTyped DEF Looked, N!ExecSelect, N!StatementFails, N!Idle, N!Request, Inv
<1>4. Draws
  BY <1>2, <1>3, StoreTyped DEF Draws, Inv
<1>5. /\ login' \in [Followers -> SUBSET Login] /\ login'[f] \subseteq login[f]
      /\ \A g \in Followers : g # f => login'[g] = login[g]
  BY DEF Looked, NoLogin, Inv, AccountsTyped
<1>6. EnteringAt(f)'
  BY <1>3, <1>4, <1>5, EnteringStays DEF Looked, past, TypedGrows
<1>7. SessionIsEarned' /\ session' \in [Browsers -> Session]
  BY DEF Looked, past, Inv, Earned, SessionIsEarned, Entitled, AccountsTyped
<1>8. QED
  BY <1>1, <1>2, <1>3, <1>4, <1>5, <1>6, <1>7, BesideLogin DEF Looked

\* The row honoured is of one the browser may speak for, or of nobody.
LEMMA HonouredInv == ASSUME Inv, NEW f \in Followers, Honoured(f) PROVE Inv'
<1>1. NP!IInv'
  BY RequestSteps, StepStore DEF Honoured, Inv
<1>2. /\ drawn' = drawn /\ log' = log /\ req' = [req EXCEPT ![f] = N!Idle]
      /\ req[f].pc = "found"
  BY DEF Honoured, N!Resume, N!history
<1>3. \A q \in Tabs \cup Followers : req'[q] = IF q = f THEN N!Idle ELSE req[q]
  BY <1>2, StoreTyped DEF Inv
<1>4. Draws
  BY <1>2, FreedDraws
<1>5. login'[f] = {[l EXCEPT !.for = {x.email : x \in found[f]}] : l \in login[f]}
  BY DEF Honoured, Inv, AccountsTyped
<1>6. ASSUME NEW l \in login[f]
      PROVE  \A x \in found[f] : Speaks(l.browser, x.email)
  <2>1. PICK x \in log : found[f] = {x} /\ x.nonce = req[f].nonce
    BY <1>2 DEF Inv, NP!IInv, NP!HonouredAsStored
  <2>2. HandedTo(req[f].nonce, l.browser)
    BY <1>2, <1>6 DEF Inv, Earned, Entering, EnteringAt
  <2>3. QED
    BY <2>1, <2>2 DEF HandedTo
<1>7. ASSUME NEW k \in login'[f]
      PROVE  k \in Login /\ \A e \in k.for : Speaks(k.browser, e)
  <2>1. PICK l \in login[f] : k = [l EXCEPT !.for = {x.email : x \in found[f]}]
    BY <1>5
  <2>2. l \in Login
    BY DEF Inv, AccountsTyped
  <2>3. k.browser = l.browser /\ k.for = {x.email : x \in found[f]}
    BY <2>1, <2>2 DEF Login
  <2>4. {x.email : x \in found[f]} \in SUBSET (Emails \cup {NoEmail})
    BY StoreTyped DEF Inv
  <2>5. k \in Login
    BY <2>1, <2>2, <2>4 DEF Login
  <2>6. QED
    BY <1>6, <2>3, <2>5
<1>8. /\ login' \in [Followers -> SUBSET Login]
      /\ \A g \in Followers : g # f => login'[g] = login[g]
  <2>1. login'[f] \subseteq Login
    BY <1>7
  <2>2. QED
    BY <1>5, <2>1 DEF Honoured, Inv, AccountsTyped
<1>9. EnteringAt(f)'
  BY <1>3, <1>7 DEF EnteringAt, N!Idle, Honoured, past, Speaks, Entitled
<1>10. SessionIsEarned' /\ session' \in [Browsers -> Session]
  BY DEF Honoured, past, Inv, Earned, SessionIsEarned, Entitled, AccountsTyped
<1>11. QED
  BY <1>1, <1>2, <1>3, <1>4, <1>8, <1>9, <1>10, BesideLogin DEF Honoured

LEMMA EnteredInv == ASSUME Inv, NEW f \in Followers, Entered(f) PROVE Inv'
<1>1. PICK l \in login[f] : \E e \in l.for :
          session' = IF e = NoEmail THEN session ELSE [session EXCEPT ![l.browser] = As(e)]
  BY DEF Entered
<1>2. PICK e \in l.for :
          session' = IF e = NoEmail THEN session ELSE [session EXCEPT ![l.browser] = As(e)]
  BY <1>1
<1>3. /\ l.browser \in Browsers /\ Speaks(l.browser, e) /\ e \in Emails \cup {NoEmail}
      /\ session \in [Browsers -> Session]
  BY DEF Inv, AccountsTyped, Login, Earned, Entering, EnteringAt
<1>4. As(e) \in Session /\ As(e).email = e
  BY <1>3 DEF As, Session
<1>5. session' \in [Browsers -> Session] /\ SessionIsEarned'
  <2>1. session' \in [Browsers -> Session]
    BY <1>2, <1>3, <1>4
  <2>2. ASSUME NEW b \in Browsers, session'[b].authenticated
        PROVE  Entitled(b, session'[b].email)
    <3>1. CASE session'[b] = session[b]
      BY <2>2, <3>1 DEF Inv, Earned, SessionIsEarned
    <3>2. CASE session'[b] # session[b]
      <4>1. b = l.browser /\ e # NoEmail /\ session'[b] = As(e)
        BY <1>2, <1>3, <3>2
      <4>2. QED
        BY <1>3, <1>4, <4>1 DEF Speaks
    <3>3. QED
      BY <3>1, <3>2
  <2>3. QED
    BY <2>1, <2>2 DEF SessionIsEarned, Entitled, Entered, past
<1>6. NP!IInv' /\ Draws /\ req' = req /\ log' = log
  BY SameStore, SameDraws DEF Entered, store, Inv
<1>7. /\ login' \in [Followers -> SUBSET Login] /\ login'[f] = {}
      /\ \A g \in Followers : g # f => login'[g] = login[g]
  BY DEF Entered, NoLogin, Inv, AccountsTyped
<1>8. EnteringAt(f)'
  BY <1>7 DEF EnteringAt
<1>9. QED
  BY <1>5, <1>6, <1>7, <1>8, BesideLogin DEF Entered

\* A step that neither stores, nor answers, nor enters: what it does to users,
\* sessions and mails is well typed, and makes no session speak for anybody.
LEMMA AsideInv ==
    ASSUME Inv, NP!IInv', Draws,
           \A t \in Tabs : req'[t].pc = "insert" => req'[t] = req[t],
           \A f \in Followers : req'[f] \in {req[f], N!Idle},
           purpose' \in {purpose, [t \in Tabs |-> NoPurpose]},
           \A f \in Followers : login'[f] \subseteq login[f],
           login' \in [Followers -> SUBSET Login],
           users' \subseteq [email : Emails, verified : BOOLEAN],
           session' \in [Browsers -> Session],
           \A b \in Browsers : session'[b].authenticated => session'[b] = session[b],
           leaving' \in [Tabs -> SUBSET Session], turnedAway' \subseteq mails,
           UNCHANGED <<log, token, mails, typed, carried>>
    PROVE  Inv'
<1>1. AccountsTyped' /\ TypedGrows
  BY DEF Inv, AccountsTyped, TypedGrows, NoPurpose, Purpose
<1>2. N!Idle.pc = "idle" /\ NoPurpose.kind = "none"
  BY DEF N!Idle, NoPurpose
<1>3. Asked'
  BY <1>1, <1>2, AskedStays
<1>4. Answered'
  BY <1>1, AnsweredStays DEF Answered
<1>5. Entering'
  BY <1>1, <1>2, EnteringStays DEF Entering
<1>6. SessionIsEarned'
  BY DEF Inv, Earned, SessionIsEarned, Entitled
<1>7. Logged'
  BY <1>1, LoggedStays
<1>8. QED
  BY <1>1, <1>3, <1>4, <1>5, <1>6, <1>7 DEF Inv, Earned

\* What stays as it is, is as AsideInv asks.
LEMMA Still ==
    ASSUME Inv
    PROVE  /\ users \subseteq [email : Emails, verified : BOOLEAN]
           /\ session \in [Browsers -> Session]
           /\ leaving \in [Tabs -> SUBSET Session]
           /\ login \in [Followers -> SUBSET Login]
           /\ turnedAway \subseteq mails
  BY DEF Inv, AccountsTyped

LEMMA LeaveInv == ASSUME Inv, NEW t \in Tabs, Leave(t) PROVE Inv'
<1>1. NP!IInv' /\ Draws /\ req' = req
  BY SameStore, SameDraws DEF Leave, store, Inv
<1>2. leaving' \in [Tabs -> SUBSET Session]
  BY SessionAssumption DEF Leave, Here, Inv, AccountsTyped
<1>3. QED
  BY <1>1, <1>2, Still, AsideInv DEF Leave, past, store

LEMMA LeftInv == ASSUME Inv, NEW t \in Tabs, Left(t) PROVE Inv'
<1>1. NP!IInv' /\ Draws /\ req' = req
  BY SameStore, SameDraws DEF Left, store, Inv
<1>2. PICK s \in leaving[t] :
          session' = [session EXCEPT ![BrowserOf[t]] = [s EXCEPT !.authenticated = FALSE]]
  BY DEF Left
<1>3. /\ [s EXCEPT !.authenticated = FALSE] \in Session
      /\ [s EXCEPT !.authenticated = FALSE].authenticated = FALSE
  <2>1. s \in Session
    BY DEF Inv, AccountsTyped
  <2>2. QED
    BY <2>1 DEF Session
<1>4. /\ session' \in [Browsers -> Session]
      /\ \A b \in Browsers : session'[b].authenticated => session'[b] = session[b]
  BY <1>2, <1>3, TabTyped DEF Inv, AccountsTyped
<1>5. leaving' \in [Tabs -> SUBSET Session]
  BY DEF Left, Inv, AccountsTyped
<1>6. QED
  BY <1>1, <1>4, <1>5, Still, AsideInv DEF Left, past, store

LEMMA VerifyInv == ASSUME Inv, NEW t \in Tabs, NEW m \in mails, Verify(t, m) PROVE Inv'
<1>1. rows' \subseteq rows /\ UNCHANGED <<now, drawn, req, found, deletes, log, honoured>>
  BY DEF Verify
<1>2. NP!IInv' /\ Draws
  BY <1>1, ShrunkStore, SameDraws DEF Inv
<1>3. users' \subseteq [email : Emails, verified : BOOLEAN]
  <2>1. \A u \in users : [u EXCEPT !.verified = @ \/ u.email = m.email]
                            \in [email : Emails, verified : BOOLEAN]
    BY DEF Inv, AccountsTyped
  <2>2. \/ users' = users
        \/ users' = {[u EXCEPT !.verified = @ \/ u.email = m.email] : u \in users}
    BY DEF Verify
  <2>3. QED
    BY <2>1, <2>2, Still
<1>4. turnedAway' \subseteq mails
  BY Still DEF Verify
<1>5. QED
  BY <1>1, <1>2, <1>3, <1>4, Still, AsideInv DEF Verify, pages

LEMMA ReportVerifyInv == ASSUME Inv, NEW m \in mails, ReportVerify(m) PROVE Inv'
<1>1. rows' \subseteq rows /\ UNCHANGED <<now, drawn, req, found, deletes, log, honoured>>
  BY DEF ReportVerify
<1>2. NP!IInv' /\ Draws
  BY <1>1, ShrunkStore, SameDraws DEF Inv
<1>3. users' \subseteq [email : Emails, verified : BOOLEAN]
  BY Still DEF ReportVerify
<1>4. QED
  BY <1>1, <1>2, <1>3, Still, AsideInv DEF ReportVerify, pages, past

LEMMA DeletedInv == ASSUME Inv, NEW d \in N!Deletion, Deleted(d) PROVE Inv'
<1>1. NP!IInv'
  BY DeletedSteps, StepStore DEF Inv
<1>2. UNCHANGED <<drawn, log, req>>
  BY DEF Deleted, N!ExecDelete, N!DeleteFails, N!history
<1>3. Draws
  BY <1>2, SameDraws
<1>4. QED
  BY <1>1, <1>2, <1>3, Still, AsideInv DEF Deleted, pages, past

LEMMA RestartInv == ASSUME Inv, Restart PROVE Inv'
<1>1. NP!IInv'
  BY RestartSteps, StepStore DEF Inv
<1>2. /\ UNCHANGED <<drawn, log>> /\ N!Idle.pc = "idle"
      /\ req' = [q \in Tabs \cup Followers |-> N!Idle]
  BY DEF Restart, N!Restart, N!history, N!Idle
<1>3. Draws
  BY <1>2, StoreTyped DEF Draws, N!Idle, Inv
<1>4. /\ leaving' \in [Tabs -> SUBSET Session]
      /\ login' \in [Followers -> SUBSET Login]
      /\ \A f \in Followers : login'[f] = {}
  BY DEF Restart, NoLogin
<1>5. QED
  BY <1>1, <1>2, <1>3, <1>4, Still, AsideInv DEF Restart, past

LEMMA TickInv == ASSUME Inv, Tick PROVE Inv'
<1>1. NP!IInv'
  BY TickSteps, StepStore DEF Inv
<1>2. UNCHANGED <<drawn, log, req>>
  BY DEF Tick, N!Tick, N!history
<1>3. Draws
  BY <1>2, SameDraws
<1>4. QED
  BY <1>1, <1>2, <1>3, Still, AsideInv DEF Tick, pages, past

LEMMA StutterInv == ASSUME Inv, UNCHANGED vars PROVE Inv'
<1>1. NP!IInv' /\ Draws /\ req' = req
  BY SameStore, SameDraws DEF vars, store, Inv
<1>2. QED
  BY <1>1, Still, AsideInv DEF vars, pages, past, store

LEMMA NextInv == Inv /\ [Next]_vars => Inv'
  BY RegisterInv, PostLoginInv, OpenPageInv, StoredInv, FollowInv, LookedInv,
     HonouredInv, EnteredInv, LeaveInv, LeftInv, VerifyInv, ReportVerifyInv,
     DeletedInv, RestartInv, TickInv, StutterInv
     DEF Next

-----------------------------------------------------------------------------
THEOREM Invariance == Spec => []Inv
  BY InitInv, NextInv, PTL DEF Spec

\* Whatever interleaving, fault or restart, every variable keeps its type, for
\* any number of browsers, tabs and logins going on.
THEOREM TypeCorrect == Spec => []TypeOK
<1>1. Inv => TypeOK
  BY StoreTyped DEF Inv, AccountsTyped, TypeOK
<1>2. QED
  BY <1>1, Invariance, PTL

\* However logins that go on, logouts and other pages' nonces interleave, the
\* session of a browser speaks only for a user whose password was typed there, or
\* whose link was carried there; in how many browsers links are opened does not
\* matter.
THEOREM SessionsAreEarned == Spec => []SessionIsEarned
<1>1. Inv => SessionIsEarned
  BY DEF Inv, Earned
<1>2. QED
  BY <1>1, Invariance, PTL

-----------------------------------------------------------------------------
\* The links mailed

\* The nonce of a link is stored for no e-mail, and no other will be under it.
MailedFor(m) ==
    /\ m.nonce <= drawn
    /\ \A x \in log : x.nonce = m.nonce => x.email = NoEmail
    /\ \A q \in Tabs \cup Followers : req[q].pc = "insert" => req[q].nonce # m.nonce

Mailed ==
    /\ \A t \in Tabs : req[t].pc = "insert" /\ purpose[t].kind = "register"
                         => req[t].email = NoEmail
    /\ \A m \in mails : MailedFor(m)

LEMMA MailTyped == ASSUME Inv, NEW m \in mails PROVE m.nonce \in Nat /\ m.email \in Emails
  BY SessionAssumption DEF Inv, AccountsTyped

\* Links mailed stay as they are through any step of the store.
LEMMA MailedStays ==
    ASSUME Inv, Draws, NEW m \in mails, MailedFor(m) PROVE MailedFor(m)'
  BY MailTyped, StoreTyped DEF Inv, Draws, MailedFor

\* The link of a registration has the nonce stored for nobody, or none.
LEMMA StoredMailed ==
    ASSUME Inv, Mailed, NEW t \in Tabs, Stored(t), Draws PROVE Mailed'
<1> DEFINE r == req[t]
           n == IF N!IpTaken(r.email, r.ip) THEN 0 ELSE r.nonce
<1>1. /\ req' = [req EXCEPT ![t] = N!Idle] /\ drawn' = drawn
      /\ purpose' = [purpose EXCEPT ![t] = NoPurpose]
  BY DEF Stored, N!ExecInsert, N!StatementFails
<1>2. \A q \in Tabs \cup Followers : req'[q] = IF q = t THEN N!Idle ELSE req[q]
  BY <1>1, StoreTyped DEF Inv
<1>3. \A s \in Tabs : s # t => purpose'[s] = purpose[s]
  BY <1>1 DEF Inv, AccountsTyped
<1>4. \A s \in Tabs : req'[s].pc = "insert" /\ purpose'[s].kind = "register"
                          => req'[s].email = NoEmail
  BY <1>2, <1>3 DEF Mailed, N!Idle
<1>5. ASSUME NEW m \in mails', m \notin mails PROVE MailedFor(m)'
  <2>1. PICK k \in {0, n} :
            /\ m = [email |-> purpose[t].email, nonce |-> k]
            /\ purpose[t].kind = "register"
            /\ k # 0 => N!ExecInsert(t) /\ ~N!IpTaken(r.email, r.ip)
    BY <1>5 DEF Stored
  <2>2. m.nonce = k
    BY <2>1
  <2>3. CASE k = 0
    <3>1. \A x \in log' : x.nonce # 0
      <4>1. NP!IInv'
        BY RequestSteps, StepStore DEF Stored, Inv
      <4>2. QED
        BY <4>1 DEF NP!IInv, NP!TypeOK, NP!Row, NP!Nonces
    <3>2. \A q \in Tabs \cup Followers : req'[q].pc = "insert" => req'[q].nonce # 0
      BY <1>2, InsertsNew DEF N!Idle
    <3>3. QED
      BY <1>1, <2>2, <2>3, <3>1, <3>2, StoreTyped DEF MailedFor, Inv
  <2>4. CASE k # 0
    <3>1. /\ k = r.nonce /\ r.pc = "insert" /\ log' = log \cup {N!NewRow(t)}
          /\ r.email = NoEmail
      BY <2>1, <2>4 DEF N!ExecInsert, Mailed
    <3>2. \A x \in log' : x.nonce = k => x.email = NoEmail
      BY <3>1, InsertsNew DEF N!NewRow
    <3>3. \A q \in Tabs \cup Followers : req'[q].pc = "insert" => req'[q].nonce # k
      BY <1>2, <3>1, InsertsNew DEF N!Idle
    <3>4. k <= drawn'
      BY <1>1, <3>1, InsertsNew, StoreTyped DEF Inv
    <3>5. QED
      BY <2>2, <3>2, <3>3, <3>4 DEF MailedFor
  <2>5. QED
    BY <2>3, <2>4
<1>6. \A m \in mails : MailedFor(m)'
  BY MailedStays DEF Mailed
<1>7. QED
  BY <1>4, <1>5, <1>6 DEF Mailed

\* Asking for a nonce: a registration asks for nobody's.
LEMMA AskedMailed ==
    ASSUME Inv, Mailed, Draws, NEW t \in Tabs, NEW e \in Emails \cup {NoEmail},
           NEW life \in {PageLife, LinkLife}, NEW kind \in {"login", "register", "page"},
           NEW for, N!CallSetNonce(t, e, Address(t), life), Asks(t, kind, for),
           kind = "register" => e = NoEmail
    PROVE  Mailed'
<1>1. /\ \A q \in Tabs \cup Followers : q # t => req'[q] = req[q]
      /\ req'[t].email = e /\ mails' = mails
  BY StoreTyped DEF N!CallSetNonce, Asks, Inv
<1>2. /\ \A s \in Tabs : s # t => purpose'[s] = purpose[s]
      /\ purpose'[t].kind = kind
  BY DEF Asks, Inv, AccountsTyped
<1>3. QED
  BY <1>1, <1>2, MailedStays DEF Mailed

\* What neither registers nor mails.
LEMMA OtherMailed ==
    ASSUME Inv, Mailed, Draws, mails' = mails,
           \A t \in Tabs : req'[t].pc = "insert" /\ purpose'[t].kind = "register"
                                => req'[t] = req[t] /\ purpose'[t] = purpose[t]
    PROVE  Mailed'
  BY MailedStays DEF Mailed

LEMMA StepMailed == ASSUME Inv, Mailed, [Next]_vars PROVE Mailed' /\ Draws
<1>1. ASSUME NEW t \in Tabs, NEW e \in Emails, Register(t, e) PROVE Mailed' /\ Draws
  <2>1. Asks(t, "register", e) /\ N!CallSetNonce(t, NoEmail, Address(t), LinkLife)
    BY <1>1 DEF Register
  <2>2. Draws
    BY <2>1, CallSetSteps, StepDraws
  <2>3. QED
    BY <2>1, <2>2, AskedMailed
<1>2. ASSUME NEW t \in Tabs, NEW e \in Emails, PostLogin(t, e) PROVE Mailed' /\ Draws
  <2>1. Asks(t, "login", e) /\ N!CallSetNonce(t, e, Address(t), LinkLife)
    BY <1>2 DEF PostLogin
  <2>2. Draws
    BY <2>1, CallSetSteps, StepDraws
  <2>3. QED
    BY <2>1, <2>2, AskedMailed
<1>3. ASSUME NEW t \in Tabs, NEW life \in {PageLife, LinkLife}, OpenPage(t, life)
      PROVE  Mailed' /\ Draws
  <2>1. /\ Asks(t, "page", Here(t).email) /\ N!CallSetNonce(t, Here(t).email, Address(t), life)
        /\ Here(t).email \in Emails \cup {NoEmail}
    BY <1>3, TabTyped DEF OpenPage
  <2>2. Draws
    BY <2>1, CallSetSteps, StepDraws
  <2>3. QED
    BY <2>1, <2>2, AskedMailed
<1>4. ASSUME NEW t \in Tabs, Stored(t) PROVE Mailed' /\ Draws
  BY <1>4, RequestSteps, StepDraws, StoredMailed DEF Stored
<1>5. ASSUME NEW t \in Tabs, NEW f \in Followers, NEW n \in N!LiveNonces, Follow(t, f, n)
      PROVE  Mailed' /\ Draws
  <2>1. f \notin Tabs
    BY SessionAssumption
  <2>2. Draws
    BY <1>5, FollowTyped
  <2>3. \A s \in Tabs : req'[s] = req[s]
    BY <1>5, <2>1, FollowTyped
  <2>4. QED
    BY <1>5, <2>2, <2>3, OtherMailed DEF Follow, past
<1>6. ASSUME NEW f \in Followers, Looked(f) \/ Honoured(f) PROVE Mailed' /\ Draws
  <2>1. Draws
    BY <1>6, RequestSteps, StepDraws DEF Looked, Honoured
  <2>2. \A s \in Tabs : req'[s] = req[s]
    BY <1>6, SessionAssumption, StoreTyped
       DEF Looked, Honoured, N!ExecSelect, N!StatementFails, N!Resume, Inv
  <2>3. QED
    BY <1>6, <2>1, <2>2, OtherMailed DEF Looked, Honoured, past
<1>7. ASSUME UNCHANGED <<drawn, log, req, purpose, mails>> PROVE Mailed' /\ Draws
  BY <1>7, SameDraws, OtherMailed
<1>8. CASE Restart
  <2>1. Draws
    BY <1>8, RestartSteps, StepDraws
  <2>2. \A s \in Tabs : req'[s].pc = "idle"
    BY <1>8 DEF Restart, N!Restart, N!Idle
  <2>3. QED
    BY <1>8, <2>1, <2>2, OtherMailed DEF Restart, past
<1>9. ASSUME NEW d \in N!Deletion, Deleted(d) PROVE Mailed' /\ Draws
  BY <1>7, <1>9 DEF Deleted, N!ExecDelete, N!DeleteFails, N!history, pages, past
<1>10. QED
  BY <1>1, <1>2, <1>3, <1>4, <1>5, <1>6, <1>7, <1>8, <1>9
  DEF Next, vars, store, pages, past, Entered, Leave, Left, Verify, ReportVerify,
      Tick, N!Tick, N!history

LEMMA InitMailed == Init => Mailed
  BY DEF Init, N!Init, N!Idle, Mailed

LEMMA MailedUnlinked == ASSUME Inv, Mailed PROVE LinksFindNobody
<1> SUFFICES ASSUME NEW m \in mails, NEW x \in Linked(m) PROVE FALSE
  BY DEF LinksFindNobody
<1>1. x \in log /\ x.nonce = m.nonce /\ x.email = m.email
  BY DEF Linked, Inv, NP!IInv, NP!OneEach
<1>2. x.email = NoEmail /\ m.email \in Emails
  BY <1>1, MailTyped DEF Mailed, MailedFor
<1>3. QED
  BY <1>1, <1>2, SessionAssumption

\* No link that was mailed, to whomever and whenever opened, finds a row. This is
\* why Verify and ReportVerify may do in one step what they would do to a user.
THEOREM NoLinkFinds == Spec => []LinksFindNobody
  BY InitMailed, Invariance, StepMailed, MailedUnlinked, PTL DEF Spec

\* So nobody is ever verified, and no report removes a user.
THEOREM NobodyIsVerified == Spec => []NobodyVerified
<1>1. Init => NobodyVerified
  <2>1. \A u \in [email : Emails, verified : {FALSE}] : ~u.verified
    OBVIOUS
  <2>2. QED
    BY <2>1 DEF Init, NobodyVerified
<1>2. Inv /\ Mailed /\ NobodyVerified /\ [Next]_vars => NobodyVerified'
  <2> SUFFICES ASSUME Inv, Mailed, NobodyVerified, [Next]_vars PROVE NobodyVerified'
    OBVIOUS
  <2>1. LinksFindNobody
    BY MailedUnlinked
  <2>2. ASSUME NEW t \in Tabs, NEW m \in mails, Verify(t, m) PROVE users' = users
    BY <2>1, <2>2 DEF Verify, LinksFindNobody
  <2>3. ASSUME users' \subseteq users PROVE NobodyVerified'
    BY <2>3 DEF NobodyVerified
  <2>4. ASSUME NEW t \in Tabs, NEW e \in Emails, Register(t, e) PROVE NobodyVerified'
    <3>1. users' \subseteq users \cup {[email |-> e, verified |-> FALSE]}
      BY <2>4 DEF Register
    <3>2. QED
      BY <3>1 DEF NobodyVerified
  <2>5. ASSUME NEW m \in mails, ReportVerify(m) PROVE users' \subseteq users
    BY <2>5 DEF ReportVerify
  <2>6. QED
    BY <2>2, <2>3, <2>4, <2>5
    DEF Next, vars, PostLogin, OpenPage, Stored, Follow, Looked, Honoured, Entered,
        Leave, Left, Deleted, Restart, Tick
<1>3. QED
  BY InitMailed, Invariance, StepMailed, <1>1, <1>2, PTL DEF Spec

-----------------------------------------------------------------------------
\* The store does nothing that the nonces table of module NonceStore has not.
LEMMA StoreSteps == ASSUME Inv, Mailed, [Next]_vars PROVE NP!Next \/ UNCHANGED NP!vars
<1>1. ASSUME NEW t \in Tabs, Stored(t) PROVE NP!Next
  BY <1>1, RequestSteps DEF Stored
<1>2. ASSUME NEW f \in Followers, Looked(f) \/ Honoured(f) PROVE NP!Next
  BY <1>2, RequestSteps DEF Looked, Honoured
<1>3. ASSUME NEW t \in Tabs, NEW e \in Emails, Register(t, e) \/ PostLogin(t, e) PROVE NP!Next
  <2>1. PICK by \in {e, NoEmail} : N!CallSetNonce(t, by, Address(t), LinkLife)
    BY <1>3 DEF Register, PostLogin
  <2>2. QED
    BY <2>1, CallSetSteps
<1>4. ASSUME NEW t \in Tabs, NEW life \in {PageLife, LinkLife}, OpenPage(t, life) PROVE NP!Next
  BY <1>4, TabTyped, CallSetSteps DEF OpenPage
<1>5. ASSUME NEW t \in Tabs, NEW f \in Followers, NEW n \in N!LiveNonces, Follow(t, f, n)
      PROVE  NP!Next
  BY <1>5, FollowedTyped, CallCheckSteps DEF Follow
<1>6. ASSUME NEW m \in mails, ReportVerify(m) \/ \E t \in Tabs : Verify(t, m)
      PROVE  UNCHANGED NP!vars
  <2>1. Linked(m) = {}
    BY MailedUnlinked DEF LinksFindNobody
  <2>2. rows' = rows
    BY <1>6, <2>1 DEF ReportVerify, Verify
  <2>3. QED
    BY <1>6, <2>2 DEF ReportVerify, Verify, NP!vars
<1>7. ASSUME UNCHANGED store PROVE UNCHANGED NP!vars
  BY <1>7 DEF store, NP!vars
<1>8. QED
  BY <1>1, <1>2, <1>3, <1>4, <1>5, <1>6, <1>7, DeletedSteps, RestartSteps, TickSteps
  DEF Next, vars, Entered, Leave, Left

\* Whatever logins, logouts and links do beside it, the table behaves as when its
\* two functions are all there is: its theorems hold of the pages' nonces too.
THEOREM NoncesKeepTheirWord ==
    Spec => /\ NP!Spec /\ NP!ImplementsLifecycle /\ NP!SparesTheNew /\ NP!SpentLeaves
<1>1. Init => NP!Init
  BY DEF Init, N!Init, NP!Init, N!Idle, NP!Idle
<1>2. Spec => NP!Spec
  BY <1>1, InitMailed, Invariance, StepMailed, StoreSteps, PTL DEF Spec, NP!Spec
<1>3. QED
  BY <1>2, StoreAssume, NP!Refinement, NP!DelayedDeleteSpares, NP!SpentOnesLeave, PTL

=============================================================================
