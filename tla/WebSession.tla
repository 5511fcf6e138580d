------------------------------ MODULE WebSession ------------------------------
(* Accounts of the web pages: registration, the link mailed to verify it,     *)
(* login, logout, and the session of a browser in redis.                      *)
(*                                                                            *)
(* A login is two requests. POST /login tests the password and answers with a *)
(* nonce; the page then opens /?action=login with that nonce, and the server  *)
(* renders it without waiting for maybeSetSession, which goes on by itself:   *)
(* it honours the nonce, fetches the user, and saves the copy of the session  *)
(* the request began with. Other requests of the same browser come and go     *)
(* meanwhile, and each saves its own copy if it changed it. The nonce may be  *)
(* any: whoever has the link of another login, or makes one of the nonce of   *)
(* a page, may open it wherever he is.                                        *)
(*                                                                            *)
(* Uses NonceStore: a tab's request is named by the tab, a login going on by  *)
(* itself by one of Followers. Redis runs commands in the order sent. Left    *)
(* out: names and avatars, and users without a row, as nothing reachable      *)
(* removes one.                                                               *)
EXTENDS Integers

CONSTANTS Tabs, Followers, Browsers,
          BrowserOf,     \* the browser, and so the session, of a tab
          IpOf,          \* the address a browser connects from
          KnownIn,       \* the users whose password is typed in a browser
          CarriedTo,     \* bound: where links that were got elsewhere are opened
          PageLife,      \* validity of a profile page's nonce
          LinkLife,      \* validity of the nonce of anything else
          Emails, NoEmail, Ips, NoIp, MaxNonce, MaxTime, Faults

ASSUME SessionAssumption ==
    /\ Tabs \cap Followers = {}
    /\ BrowserOf \in [Tabs -> Browsers]
    /\ IpOf \in [Browsers -> Ips]
    /\ KnownIn \in [Browsers -> SUBSET Emails]
    /\ CarriedTo \subseteq Browsers
    /\ PageLife \in Nat /\ LinkLife \in Nat
    /\ NoEmail \notin Emails /\ NoIp \notin Ips
    /\ MaxNonce \in Nat /\ MaxTime \in Nat /\ Faults \in BOOLEAN

VARIABLES
    rows, now, drawn, req, found, deletes, log, honoured,           \* NonceStore
    users,       \* table users: [e-mail, verified]
    session,     \* [Browsers -> the session in redis]
    purpose,     \* [Tabs -> what the nonce being stored is for, and for whom]
    token,       \* [Tabs -> the nonce POST /login answered with, 0 for none]
    leaving,     \* [Tabs -> the session GET /logout began with, in a set]
    login,       \* [Followers -> the browser whose login goes on, and for whom]
    mails,       \* the links mailed
    typed,       \* history: [Browsers -> the users whose password was typed]
    carried,     \* history: [Browsers -> whose nonces, got elsewhere, were opened]
    turnedAway   \* history: links refused in time, and opened at the right address

store == <<rows, now, drawn, req, found, deletes, log, honoured>>
pages == <<purpose, token, leaving, login>>
past == <<mails, typed, carried, turnedAway>>
vars == <<store, users, session, pages, past>>

N == INSTANCE NonceStore WITH Requests <- Tabs \cup Followers,
                              Lifetimes <- {PageLife, LinkLife}

\* No session ever gets an address: nothing in the code sets one.
Session == [authenticated : BOOLEAN, email : Emails \cup {NoEmail}]
Anonymous == [authenticated |-> FALSE, email |-> NoEmail]
As(e) == [authenticated |-> TRUE, email |-> e]

Purpose == [kind : {"none", "login", "register", "page"}, email : Emails \cup {NoEmail}]
NoPurpose == [kind |-> "none", email |-> NoEmail]

\* A login that goes on: for: the e-mail of the nonce, once honoured, in a set.
Login == [browser : Browsers, for : SUBSET (Emails \cup {NoEmail})]
NoLogin == {}

TypeOK ==
    /\ N!TypeOK
    /\ users \subseteq [email : Emails, verified : BOOLEAN]
    /\ session \in [Browsers -> Session]
    /\ purpose \in [Tabs -> Purpose]
    /\ token \in [Tabs -> 0 .. MaxNonce]
    /\ leaving \in [Tabs -> SUBSET Session]
    /\ login \in [Followers -> SUBSET Login]
    /\ mails \subseteq [email : Emails, nonce : 0 .. MaxNonce]
    /\ typed \in [Browsers -> SUBSET Emails]
    /\ carried \in [Browsers -> SUBSET Emails]
    /\ turnedAway \subseteq mails

\* Bound: everybody registered before, elsewhere, or nobody.
Init ==
    /\ N!Init
    /\ users \in {{}, [email : Emails, verified : {FALSE}]}
    /\ session = [b \in Browsers |-> Anonymous]
    /\ purpose = [t \in Tabs |-> NoPurpose]
    /\ token = [t \in Tabs |-> 0]
    /\ leaving = [t \in Tabs |-> {}]
    /\ login = [f \in Followers |-> NoLogin]
    /\ mails = {} /\ turnedAway = {}
    /\ typed = [b \in Browsers |-> {}]
    /\ carried = [b \in Browsers |-> {}]

Here(t) == session[BrowserOf[t]]
Address(t) == IpOf[BrowserOf[t]]
Registered == {u.email : u \in users}
Waits(t) == purpose[t] # NoPurpose \/ leaving[t] # {}

-----------------------------------------------------------------------------
\* Requests that store a nonce

Asks(t, kind, e) ==
    /\ ~Waits(t)
    /\ purpose' = [purpose EXCEPT ![t] = [kind |-> kind, email |-> e]]
    /\ UNCHANGED <<session, token, leaving, login, mails, carried, turnedAway>>

\* POST /register. The nonce is stored under req.body.email, which the form does
\* not send, whether or not the INSERT of the user succeeds.
Register(t, e) ==
    /\ Asks(t, "register", e)
    /\ e \in KnownIn[BrowserOf[t]]
    /\ N!CallSetNonce(t, NoEmail, Address(t), LinkLife)
    /\ \/ e \notin Registered
          /\ users' = users \cup {[email |-> e, verified |-> FALSE]}
       \/ (e \in Registered \/ Faults) /\ UNCHANGED users
    /\ UNCHANGED typed

\* POST /login with a right password. A wrong one changes nothing.
PostLogin(t, e) ==
    /\ Asks(t, "login", e)
    /\ e \in KnownIn[BrowserOf[t]] \cap Registered
    /\ N!CallSetNonce(t, e, Address(t), LinkLife)
    /\ typed' = [typed EXCEPT ![BrowserOf[t]] = @ \cup {e}]
    /\ UNCHANGED users

\* GET /profile, whose nonce is valid for an hour, or /new-contract, for a day.
OpenPage(t, life) ==
    /\ Here(t).authenticated
    /\ Asks(t, "page", Here(t).email)
    /\ N!CallSetNonce(t, Here(t).email, Address(t), life)
    /\ UNCHANGED <<users, typed>>

\* The nonce is stored, or not; the login page keeps it, or it is mailed even
\* if it is none.
Stored(t) ==
    LET n == IF N!IpTaken(req[t].email, req[t].ip) THEN 0 ELSE req[t].nonce
        given(m) == [token EXCEPT ![t] = IF purpose[t].kind = "login" THEN m ELSE 0]
        mailed(m) == IF purpose[t].kind = "register"
                     THEN mails \cup {[email |-> purpose[t].email, nonce |-> m]}
                     ELSE mails
    IN  /\ \/ N!ExecInsert(t) /\ token' = given(n) /\ mails' = mailed(n)
           \/ N!StatementFails(t) /\ token' = given(0) /\ mails' = mailed(0)
        /\ purpose' = [purpose EXCEPT ![t] = NoPurpose]
        /\ UNCHANGED <<users, session, leaving, login, typed, carried, turnedAway>>

-----------------------------------------------------------------------------
\* /?action=login

\* maybeSetSession is called and not awaited. The nonce is any in the address,
\* whoever got it and for whatever; one of no row, now, will find none. That the
\* client's address be compared is meant, but what it is added to thrown away.
Follow(t, f, n) ==
    /\ ~Waits(t)
    /\ n = token[t] \/ BrowserOf[t] \in CarriedTo
    /\ login[f] = NoLogin
    /\ N!CallCheckNonce(f, n, NoIp)
    /\ login' = [login EXCEPT ![f] = {[browser |-> BrowserOf[t], for |-> {}]}]
    /\ token' = [token EXCEPT ![t] = 0]
    /\ carried' = IF n = token[t] THEN carried
                  ELSE [carried EXCEPT ![BrowserOf[t]] =
                           @ \cup ({N!EmailOf(n)} \ {NoEmail})]
    /\ UNCHANGED <<users, session, purpose, leaving, mails, typed, turnedAway>>

\* The SELECT's answer: nothing is done about a nonce not found.
Looked(f) ==
    /\ \/ N!ExecSelect(f)
          /\ login' = [login EXCEPT ![f] = IF N!Matching(f) = {} THEN NoLogin ELSE @]
       \/ N!StatementFails(f) /\ login' = [login EXCEPT ![f] = NoLogin]
    /\ UNCHANGED <<users, session, purpose, token, leaving, past>>

\* checkNonce returns the row, whose user is fetched if it has an e-mail.
Honoured(f) ==
    /\ N!Resume(f)
    /\ login' = [login EXCEPT ![f] =
                    {[l EXCEPT !.for = {x.email : x \in found[f]}] : l \in @}]
    /\ UNCHANGED <<users, session, purpose, token, leaving, past>>

\* Mutant of Entered: the e-mail a session already has is kept.
EnteredKeeping(f) ==
    \E l \in login[f] : \E e \in l.for :
        /\ session' = [session EXCEPT ![l.browser].authenticated = TRUE]
        /\ login' = [login EXCEPT ![f] = NoLogin]
        /\ UNCHANGED <<store, users, purpose, token, leaving, past>>

\* The user arrived: the copy becomes his session and is saved. All of it that
\* matters is overwritten, so the copy the request began with does not show.
Entered(f) ==
    \E l \in login[f] : \E e \in l.for :
        /\ session' = IF e = NoEmail THEN session
                      ELSE [session EXCEPT ![l.browser] = As(e)]
        /\ login' = [login EXCEPT ![f] = NoLogin]
        /\ UNCHANGED <<store, users, purpose, token, leaving, past>>

-----------------------------------------------------------------------------
\* GET /logout: delete the flag from the copy, save the copy.

Leave(t) ==
    /\ ~Waits(t)
    /\ Here(t).authenticated
    /\ leaving' = [leaving EXCEPT ![t] = {Here(t)}]
    /\ UNCHANGED <<store, users, session, purpose, token, login, past>>

Left(t) ==
    \E s \in leaving[t] :
        /\ session' = [session EXCEPT ![BrowserOf[t]] =
                          [s EXCEPT !.authenticated = FALSE]]
        /\ leaving' = [leaving EXCEPT ![t] = {}]
        /\ UNCHANGED <<store, users, purpose, token, login, past>>

-----------------------------------------------------------------------------
\* The links mailed. What they do to a user is done in one step, as a row never
\* has both their nonce and their e-mail.

Linked(m) == {x \in rows : x.nonce = m.nonce /\ x.email = m.email}

\* GET /verify, in a browser not logged in.
Verify(t, m) ==
    LET proved == {x \in Linked(m) : x.ip = Address(t) /\ x.validity >= now}
        due == \E x \in rows : /\ x.nonce = m.nonce
                               /\ x.ip = Address(t) /\ x.validity >= now
    IN  /\ m \in mails /\ ~Here(t).authenticated
        /\ users' = IF proved = {} THEN users
                    ELSE {[u EXCEPT !.verified = @ \/ u.email = m.email] : u \in users}
        /\ rows' = rows \ proved
        /\ turnedAway' = IF proved = {} /\ due THEN turnedAway \cup {m} ELSE turnedAway
        /\ UNCHANGED <<now, drawn, req, found, deletes, log, honoured>>
        /\ UNCHANGED <<session, pages, mails, typed, carried>>

\* GET /report-verify, anywhere: the user is removed.
ReportVerify(m) ==
    /\ m \in mails
    /\ users' = {u \in users : Linked(m) = {} \/ u.email # m.email}
    /\ rows' = rows \ Linked(m)
    /\ UNCHANGED <<now, drawn, req, found, deletes, log, honoured>>
    /\ UNCHANGED <<session, pages, past>>

-----------------------------------------------------------------------------
Deleted(d) ==
    /\ N!ExecDelete(d) \/ N!DeleteFails(d)
    /\ UNCHANGED <<users, session, pages, past>>

\* Sessions outlive the process; what it was doing does not.
Restart ==
    /\ N!Restart
    /\ purpose' = [t \in Tabs |-> NoPurpose]
    /\ leaving' = [t \in Tabs |-> {}]
    /\ login' = [f \in Followers |-> NoLogin]
    /\ UNCHANGED <<users, session, token, past>>

Tick ==
    /\ N!Tick
    /\ UNCHANGED <<users, session, pages, past>>

Next ==
    \/ \E t \in Tabs :
          \/ \E e \in Emails : Register(t, e) \/ PostLogin(t, e)
          \/ \E life \in {PageLife, LinkLife} : OpenPage(t, life)
          \/ Stored(t)
          \/ \E f \in Followers : \E n \in N!LiveNonces : Follow(t, f, n)
          \/ Leave(t) \/ Left(t)
          \/ \E m \in mails : Verify(t, m)
    \/ \E f \in Followers : Looked(f) \/ Honoured(f) \/ Entered(f)
    \/ \E m \in mails : ReportVerify(m)
    \/ \E d \in N!Deletion : Deleted(d)
    \/ Restart
    \/ Tick

Spec == Init /\ [][Next]_vars

-----------------------------------------------------------------------------
\* What accounts must never get wrong.

\* A browser may speak for a user whose password was typed in it, or was typed in
\* another and a nonce stored for him opened in this one.
Entitled(b, e) ==
    \/ e \in typed[b]
    \/ e \in carried[b] /\ \E c \in Browsers : e \in typed[c]

\* A session speaks for a user whose password was typed in that very browser, or
\* whose link was carried there, which nothing in the code prevents (bot.js:501,
\* 651). No login that goes on late, no row written over for another user, and
\* no logout's stale copy makes it speak for anybody else.
SessionIsEarned ==
    \A b \in Browsers : session[b].authenticated => Entitled(b, session[b].email)

\* What /verify tells those it turns away: the address is to be verified from
\* the client it was registered from (bot.js:1010). So who did is not among them.
VerifiesFromSameIp == turnedAway = {}

\* And a link that was mailed finds no row at all, so that nobody is verified.
LinksFindNobody == \A m \in mails : Linked(m) = {}
NobodyVerified == \A u \in users : ~u.verified

=============================================================================
