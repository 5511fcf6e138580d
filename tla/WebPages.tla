------------------------------ MODULE WebPages ------------------------------
(* The pages themselves, over the accounts and sessions of WebSession: how    *)
(* they are made, what they show, and the upload of an avatar from one.       *)
(*                                                                            *)
(* A page is rendered from a dictionary of options. Some handlers copy        *)
(* COMMON_OPTS, the others take it itself, one object for all requests: what  *)
(* they put into it before an await, another request may have replaced when   *)
(* they render. /profile, /verify and /report-verify do so; the login and the *)
(* registration page take it too, but render at once.                         *)
(*                                                                            *)
(* A menu is named by whether it is made for somebody logged in. A user       *)
(* follows any link or types any address. Left out: the contract at hand and  *)
(* exchange rates, titles and layout; registration and the links mailed,      *)
(* which WebSession has: what they do to the options GetForm does; and the    *)
(* role pages, to which nobody is admitted (Permissions).                     *)
EXTENDS WebSession, Permissions

VARIABLES
    common,    \* COMMON_OPTS: its menu and its nonce
    making,    \* [Tabs -> the page being made for it, in a set]
    shown,     \* [Tabs -> the page it shows, in a set]
    sending,   \* [Tabs -> the upload under way: for whom, once known, in a set]
    avatar     \* [Emails -> the browser whose file the avatar is, in a set]

site == <<common, making, shown, sending, avatar>>
allvars == <<vars, site>>

\* of: the session of the request.
Draft == [page : {"home", "new-contract", "profile"}, of : Session]
Page == [page : {"home", "new-contract", "profile"}, of : Session,
         menu : BOOLEAN, nonce : 0 .. MaxNonce]

PagesTypeOK ==
    /\ TypeOK
    /\ common \in [menu : BOOLEAN, nonce : 0 .. MaxNonce]
    /\ making \in [Tabs -> SUBSET Draft]
    /\ shown \in [Tabs -> SUBSET Page]
    /\ sending \in [Tabs -> SUBSET SUBSET (Emails \cup {NoEmail})]
    /\ avatar \in [Emails -> SUBSET Browsers]

Empty == [t \in Tabs |-> {}]
NoOptions == [menu |-> FALSE, nonce |-> 0]

\* Bound: every user is registered, and each browser logged in, before.
PagesInit ==
    /\ N!Init
    /\ users = [email : Emails, verified : {FALSE}]
    /\ session \in [Browsers -> Session]
    /\ typed = [b \in Browsers |-> {session[b].email}]
    /\ carried = [b \in Browsers |-> {}]
    /\ \A b \in Browsers : \E e \in KnownIn[b] : session[b] = As(e)
    /\ purpose = [t \in Tabs |-> NoPurpose]
    /\ token = [t \in Tabs |-> 0]
    /\ login = [f \in Followers |-> NoLogin]
    /\ mails = {} /\ turnedAway = {}
    /\ common = NoOptions
    /\ leaving = Empty /\ making = Empty /\ shown = Empty /\ sending = Empty
    /\ avatar = [e \in Emails |-> {}]

\* A tab has one request at a time.
Free(t) == ~Waits(t) /\ making[t] = {} /\ sending[t] = {}

-----------------------------------------------------------------------------
\* Pages

\* The page shown is gone when the next is asked for.
Begins(t, page) ==
    /\ Free(t)
    /\ making' = [making EXCEPT ![t] = {[page |-> page, of |-> Here(t)]}]
    /\ shown' = [shown EXCEPT ![t] = {}]
    /\ UNCHANGED <<sending, avatar>>

\* The menu is put where everybody's is.
PutMenu(t) == common' = [common EXCEPT !.menu = Here(t).authenticated]

\* GET /profile: the menu is made, then the nonce awaited.
GetProfile(t) == OpenPage(t, PageLife) /\ Begins(t, "profile") /\ PutMenu(t)

\* GET /new-contract, the same on a copy of the options.
GetNew(t) == OpenPage(t, LinkLife) /\ Begins(t, "new-contract") /\ UNCHANGED common

\* GET /, on a copy too; rates and the contract are awaited.
GetHome(t) == Begins(t, "home") /\ UNCHANGED <<vars, common>>

\* /?action=login is GET / with a login begun beside it.
FollowHome(t, f, n) == Follow(t, f, n) /\ Begins(t, "home") /\ UNCHANGED common

Shows(t, page, of, menu, nonce) ==
    shown' = [shown EXCEPT ![t] =
                 {[page |-> page, of |-> of, menu |-> menu, nonce |-> nonce]}]

\* GET /login, /register, or /verify when logged in: menu and page at once, so
\* that the page needs no look.
GetForm(t) ==
    /\ Free(t)
    /\ PutMenu(t)
    /\ shown' = [shown EXCEPT ![t] = {}]
    /\ UNCHANGED <<vars, making, sending, avatar>>

\* Mutant of MenuOf: /new-contract takes the common options as /profile does.
MenuOfCommon(d) == IF d.page = "home" THEN d.of.authenticated ELSE common.menu

MenuOf(d) == IF d.page = "profile" THEN common.menu ELSE d.of.authenticated

HomeRendered(t) ==
    \E d \in making[t] :
        /\ d.page = "home"
        /\ Shows(t, d.page, d.of, MenuOf(d), 0)
        /\ making' = [making EXCEPT ![t] = {}]
        /\ UNCHANGED <<vars, common, sending, avatar>>

\* The nonce maybeSetNonce answers with, 0 for false. It stored it, or did not.
Given(t) == IF log' = log THEN 0 ELSE req[t].nonce

\* Mutant of NonceOf: the options' nonce is taken as it was before the last await.
NonceOfBefore(t, d) == IF d.page = "profile" THEN common.nonce ELSE Given(t)

NonceOf(t, d) == IF d.page = "profile" THEN common'.nonce ELSE Given(t)

\* The answer is put into the options and the page rendered at once.
PageRendered(t) ==
    \E d \in making[t] :
        /\ Stored(t)
        /\ common' = IF d.page = "profile" THEN [common EXCEPT !.nonce = Given(t)]
                     ELSE common
        /\ Shows(t, d.page, d.of, MenuOf(d), NonceOf(t, d))
        /\ making' = [making EXCEPT ![t] = {}]
        /\ UNCHANGED <<sending, avatar>>

-----------------------------------------------------------------------------
\* POST /upload. Its answer replaces the page, and going back brings it again.

Send(t) ==
    /\ Free(t)
    /\ \E p \in shown[t] : p.page = "profile" /\ N!CallCheckNonce(t, p.nonce, Address(t))
    /\ sending' = [sending EXCEPT ![t] = {{}}]
    /\ UNCHANGED <<users, session, pages, past, common, making, shown, avatar>>

\* A nonce not found, or a SELECT that fails, is answered like a success.
SendLooked(t) ==
    /\ sending[t] # {}
    /\ \/ N!ExecSelect(t)
          /\ sending' = [sending EXCEPT ![t] = IF N!Matching(t) = {} THEN {} ELSE @]
       \/ N!StatementFails(t) /\ sending' = [sending EXCEPT ![t] = {}]
    /\ UNCHANGED <<users, session, pages, past, common, making, shown, avatar>>

SendHonoured(t) ==
    /\ sending[t] # {}
    /\ N!Resume(t)
    /\ sending' = [sending EXCEPT ![t] = {{x.email : x \in found[t]}}]
    /\ UNCHANGED <<users, session, pages, past, common, making, shown, avatar>>

\* UPDATE users SET avatar, by the e-mail of the nonce, or its failure.
SetAvatar(t) ==
    /\ sending[t] # {} /\ req[t].pc = "idle"
    /\ \E e \in UNION sending[t] :
          \/ avatar' = [avatar EXCEPT ![e] = IF e \in Registered
                                             THEN {BrowserOf[t]} ELSE @]
          \/ Faults /\ UNCHANGED avatar
    /\ sending' = [sending EXCEPT ![t] = {}]
    /\ UNCHANGED <<vars, common, making, shown>>

-----------------------------------------------------------------------------
\* What WebSession has, on pages

\* The login form's script, whose request leaves it as it is, and GET /logout,
\* which leads to GET /.
InPage(t) ==
    /\ making[t] = {} /\ sending[t] = {} /\ shown[t] = {}
    /\ (\E e \in Emails : PostLogin(t, e)) \/ Stored(t) \/ Left(t)
    /\ UNCHANGED site

Logout(t) ==
    /\ Leave(t)
    /\ making[t] = {} /\ sending[t] = {}
    /\ shown' = [shown EXCEPT ![t] = {}]
    /\ UNCHANGED <<common, making, sending, avatar>>

\* The pages shown stay in their browsers.
RestartSite ==
    /\ Restart
    /\ common' = NoOptions
    /\ making' = Empty /\ sending' = Empty
    /\ UNCHANGED <<shown, avatar>>

\* Bound: no time passes; a nonce that ran out is like one replaced.
Beside ==
    /\ \/ \E f \in Followers : Looked(f) \/ Honoured(f) \/ Entered(f)
       \/ \E d \in N!Deletion : Deleted(d)
    /\ UNCHANGED site

PagesNext ==
    \/ \E t \in Tabs :
          \/ GetProfile(t) \/ GetNew(t) \/ GetHome(t) \/ GetForm(t)
          \/ \E f \in Followers : \E n \in N!LiveNonces : FollowHome(t, f, n)
          \/ HomeRendered(t) \/ PageRendered(t)
          \/ Send(t) \/ SendLooked(t) \/ SendHonoured(t) \/ SetAvatar(t)
          \/ InPage(t) \/ Logout(t)
    \/ RestartSite
    \/ Beside

PagesSpec == PagesInit /\ [][PagesNext]_allvars

-----------------------------------------------------------------------------
\* What pages must never get wrong.

\* The nonce in a page was stored for the user and the client the page was made
\* for, although /profile hands it over in the options all requests share.
NonceIsOwn ==
    \A t \in Tabs : \A p \in shown[t] :
        p.nonce # 0 => \E x \in log : /\ x.nonce = p.nonce
                                      /\ x.email = p.of.email /\ x.ip = Address(t)

\* Whoever gets an avatar gets it from a browser entitled to speak for him: one
\* in which his password was typed, or a link with his nonce was opened. No
\* nonce that the shared options bring to another browser's page comes between.
AvatarIsEarned ==
    \A e \in Emails : \A b \in avatar[e] : Entitled(b, e)

\* A page links only to what its visitor is admitted to, whatever his role and
\* the contract's status, as he was when he asked for it. /profile promises no
\* such thing: its menu may be that of the next request.
LinksAreOpen ==
    \A t \in Tabs : \A p \in shown[t] :
        p.page # "profile" => LinksOpen[p.menu][p.of.authenticated]

=============================================================================
