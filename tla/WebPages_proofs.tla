---------------------------- MODULE WebPages_proofs ----------------------------
(* Proofs about the pages, for any number of tabs, browsers, users and        *)
(* requests: whose nonce a page holds, whose avatar an upload changes, and    *)
(* where a page links to. What accounts and sessions keep, they keep here     *)
(* too: the pages' actions are theirs, and two more on the nonces table.      *)
EXTENDS WebPages, WebSession_proofs

\* The types of the pages' own variables.
SiteTyped ==
    /\ common \in [menu : BOOLEAN, nonce : 0 .. MaxNonce]
    /\ making \in [Tabs -> SUBSET Draft]
    /\ shown \in [Tabs -> SUBSET Page]
    /\ sending \in [Tabs -> SUBSET SUBSET (Emails \cup {NoEmail})]
    /\ avatar \in [Emails -> SUBSET Browsers]

\* Who stores a nonce has a purpose; a page that has a nonce waits for it to be
\* stored for the very session it is made for, and the start page for none.
MakingAt(t) ==
    /\ req[t].pc = "insert" => purpose[t] # NoPurpose
    /\ \A d \in making[t] :
          IF d.page = "home" THEN purpose[t] = NoPurpose
          ELSE req[t].pc = "insert" => /\ req[t].email = d.of.email
                                       /\ req[t].ip = Address(t)
                                       /\ Entitled(BrowserOf[t], d.of.email)

\* The nonce a page shows was handed to its browser, and stored as its own.
ShownAt(t) ==
    \A p \in shown[t] :
        /\ p.nonce # 0 =>
              /\ HandedTo(p.nonce, BrowserOf[t])
              /\ \E x \in log : /\ x.nonce = p.nonce
                                /\ x.email = p.of.email /\ x.ip = Address(t)
        /\ p.page # "profile" => p.menu = p.of.authenticated

\* An upload presents such a nonce, or none, and is honoured for a user whom the
\* browser may speak for.
SendingAt(t) ==
    /\ sending[t] # {} /\ req[t].pc \in {"select", "found"} =>
          req[t].nonce = 0 \/ HandedTo(req[t].nonce, BrowserOf[t])
    /\ \A s \in sending[t] : \A e \in s : Speaks(BrowserOf[t], e)

\* Nothing is made for a tab that uploads; only such a tab looks a nonce up.
AloneAt(t) ==
    /\ req[t].pc \in {"select", "found"} => sending[t] # {}
    /\ making[t] # {} => sending[t] = {}

TabInv(t) == MakingAt(t) /\ ShownAt(t) /\ SendingAt(t) /\ AloneAt(t)

PInv == Inv /\ SiteTyped /\ (\A t \in Tabs : TabInv(t)) /\ AvatarIsEarned

-----------------------------------------------------------------------------
LEMMA InitPages == PagesInit => PInv
<1> SUFFICES ASSUME PagesInit PROVE PInv
  OBVIOUS
<1> USE DEF PagesInit
<1>1. NP!IInv
  BY InitStore
<1>2. AccountsTyped
  <2>1. users \subseteq [email : Emails, verified : BOOLEAN]
    OBVIOUS
  <2>2. typed \in [Browsers -> SUBSET Emails] /\ carried \in [Browsers -> SUBSET Emails]
    BY SessionAssumption DEF As
  <2>3. /\ purpose \in [Tabs -> Purpose]
        /\ \A t \in Tabs : purpose[t].kind # "register"
    BY DEF Purpose, NoPurpose
  <2>4. /\ token \in [Tabs -> 0 .. MaxNonce]
        /\ leaving \in [Tabs -> SUBSET Session]
        /\ login \in [Followers -> SUBSET Login]
    BY SessionAssumption DEF NoLogin, Empty
  <2>5. QED
    BY <2>1, <2>2, <2>3, <2>4 DEF AccountsTyped
<1>3. SessionIsEarned
  <2> SUFFICES ASSUME NEW b \in Browsers, session[b].authenticated
               PROVE  session[b].email \in typed[b]
    BY DEF SessionIsEarned, Entitled
  <2>1. QED
    OBVIOUS
<1>4. Earned
  BY <1>3, QuietEarned DEF N!Init, N!Idle, NoLogin
<1>5. SiteTyped
  BY SessionAssumption DEF SiteTyped, NoOptions, Empty
<1>6. ASSUME NEW t \in Tabs PROVE TabInv(t)
  BY DEF TabInv, MakingAt, ShownAt, SendingAt, AloneAt, N!Init, N!Idle, Empty
<1>7. AvatarIsEarned
  BY DEF AvatarIsEarned
<1>8. QED
  BY <1>1, <1>2, <1>4, <1>5, <1>6, <1>7 DEF Inv, PInv

-----------------------------------------------------------------------------
\* What is kept from step to step

LEMMA SiteOf ==
    ASSUME PInv, NEW t \in Tabs
    PROVE  /\ BrowserOf[t] \in Browsers
           /\ \A p \in shown[t] : p \in Page
           /\ \A d \in making[t] : d \in Draft
           /\ TabInv(t)
  BY SessionAssumption DEF PInv, SiteTyped

LEMMA ShownStays ==
    ASSUME PInv, Draws, TypedGrows, NEW t \in Tabs, shown'[t] \subseteq shown[t]
    PROVE  ShownAt(t)'
<1> SUFFICES ASSUME NEW p \in shown[t]
             PROVE  /\ p.nonce # 0 =>
                          /\ HandedTo(p.nonce, BrowserOf[t])'
                          /\ \E x \in log' : /\ x.nonce = p.nonce
                                             /\ x.email = p.of.email /\ x.ip = Address(t)
                    /\ p.page # "profile" => p.menu = p.of.authenticated
  BY DEF ShownAt, Address
<1>1. BrowserOf[t] \in Browsers /\ ShownAt(t)
  BY SiteOf DEF TabInv
<1>2. ASSUME p.nonce # 0 PROVE HandedTo(p.nonce, BrowserOf[t])'
  BY <1>1, <1>2, HandedStays DEF ShownAt, PInv
<1>3. QED
  BY <1>1, <1>2 DEF ShownAt, Draws

LEMMA SendingStays ==
    ASSUME PInv, Draws, TypedGrows, NEW t \in Tabs, sending'[t] \subseteq sending[t],
           req'[t].pc \in {"select", "found"} =>
               req[t].pc \in {"select", "found"} /\ req'[t].nonce = req[t].nonce
    PROVE  SendingAt(t)'
<1>1. BrowserOf[t] \in Browsers /\ SendingAt(t)
  BY SiteOf DEF TabInv
<1>2. ASSUME sending'[t] # {}, req'[t].pc \in {"select", "found"}, req'[t].nonce # 0
      PROVE  HandedTo(req[t].nonce, BrowserOf[t])'
  <2>1. req'[t].nonce = req[t].nonce /\ HandedTo(req[t].nonce, BrowserOf[t])
    BY <1>1, <1>2 DEF SendingAt
  <2>2. QED
    BY <1>1, <2>1, HandedStays DEF PInv
<1>3. \A s \in sending[t] : \A e \in s : Speaks(BrowserOf[t], e)'
  BY <1>1, SpeaksStays DEF SendingAt
<1>4. QED
  BY <1>2, <1>3 DEF SendingAt

LEMMA MakingStays ==
    ASSUME PInv, TypedGrows, NEW t \in Tabs, making'[t] \subseteq making[t],
           req'[t].pc = "insert" => req'[t] = req[t], purpose'[t] = purpose[t]
    PROVE  MakingAt(t)'
<1>1. BrowserOf[t] \in Browsers /\ MakingAt(t)
  BY SiteOf DEF TabInv
<1>2. \A d \in making[t] :
          Entitled(BrowserOf[t], d.of.email) => Entitled(BrowserOf[t], d.of.email)'
  BY <1>1, SpeaksStays
<1>3. QED
  BY <1>1, <1>2 DEF MakingAt, Address

\* A tab of whose doings nothing changes.
LEMMA TabStays ==
    ASSUME PInv, Draws, TypedGrows, NEW t \in Tabs, req'[t] = req[t],
           purpose'[t] = purpose[t], making'[t] = making[t], shown'[t] = shown[t],
           sending'[t] = sending[t]
    PROVE  TabInv(t)'
  BY MakingStays, ShownStays, SendingStays, SiteOf DEF TabInv, AloneAt

LEMMA AvatarStays ==
    ASSUME PInv, TypedGrows, UNCHANGED avatar PROVE AvatarIsEarned'
<1> SUFFICES ASSUME NEW e \in Emails, NEW b \in avatar[e] PROVE Entitled(b, e)'
  BY DEF AvatarIsEarned
<1>1. b \in Browsers /\ Entitled(b, e)
  BY DEF PInv, SiteTyped, AvatarIsEarned
<1>2. QED
  BY <1>1, SpeaksStays

-----------------------------------------------------------------------------
\* What a step of the accounts does to a tab's requests

LEMMA TypedOf ==
    ASSUME Inv, UNCHANGED <<typed, carried>> PROVE TypedGrows
  BY DEF TypedGrows

\* A step of nobody's tab.
LEMMA BesidePages ==
    ASSUME PInv, Inv', Draws, \A t \in Tabs : req'[t] = req[t],
           UNCHANGED <<purpose, typed, carried, site>>
    PROVE  PInv'
<1>1. TypedGrows
  BY TypedOf DEF PInv
<1>2. \A t \in Tabs : TabInv(t)'
  BY <1>1, TabStays DEF site
<1>3. AvatarIsEarned' /\ SiteTyped'
  BY <1>1, AvatarStays DEF site, PInv, SiteTyped
<1>4. QED
  BY <1>2, <1>3 DEF PInv

\* A step of one tab, of which all others know nothing.
LEMMA ByTab ==
    ASSUME PInv, Inv', Draws, TypedGrows, NEW t \in Tabs, TabInv(t)', SiteTyped',
           AvatarIsEarned',
           \A s \in Tabs : s # t => /\ req'[s] = req[s] /\ purpose'[s] = purpose[s]
                                   /\ making'[s] = making[s] /\ shown'[s] = shown[s]
                                   /\ sending'[s] = sending[s]
    PROVE  PInv'
  BY TabStays DEF PInv

\* Requests of a follower leave the tabs' alone.
LEMMA FollowerReq ==
    ASSUME Inv, NEW f \in Followers,
           N!ExecSelect(f) \/ N!StatementFails(f) \/ N!Resume(f)
    PROVE  \A t \in Tabs : req'[t] = req[t]
<1>1. \A t \in Tabs : t # f
  BY SessionAssumption
<1>2. QED
  BY <1>1, StoreTyped DEF N!ExecSelect, N!StatementFails, N!Resume, Inv

LEMMA BesideInv == ASSUME PInv, Beside PROVE PInv'
<1>1. ASSUME NEW f \in Followers, Looked(f) PROVE PInv'
  <2>1. Inv' /\ Draws
    BY <1>1, LookedInv, RequestSteps, StepDraws DEF PInv, Looked
  <2>2. \A t \in Tabs : req'[t] = req[t]
    BY <1>1, FollowerReq DEF PInv, Looked
  <2>3. QED
    BY <1>1, <2>1, <2>2, BesidePages DEF Beside, Looked, past
<1>2. ASSUME NEW f \in Followers, Honoured(f) PROVE PInv'
  <2>1. Inv' /\ Draws
    BY <1>2, HonouredInv, RequestSteps, StepDraws DEF PInv, Honoured
  <2>2. \A t \in Tabs : req'[t] = req[t]
    BY <1>2, FollowerReq DEF PInv, Honoured
  <2>3. QED
    BY <1>2, <2>1, <2>2, BesidePages DEF Beside, Honoured, past
<1>3. ASSUME NEW f \in Followers, Entered(f) PROVE PInv'
  <2>1. Inv' /\ Draws
    BY <1>3, EnteredInv, SameDraws DEF PInv, Entered, store
  <2>2. QED
    BY <1>3, <2>1, BesidePages DEF Beside, Entered, past, store
<1>4. ASSUME NEW d \in N!Deletion, Deleted(d) PROVE PInv'
  <2>1. Inv' /\ Draws
    BY <1>4, DeletedInv, DeletedSteps, StepDraws DEF PInv
  <2>2. req' = req
    BY <1>4 DEF Deleted, N!ExecDelete, N!DeleteFails, N!history
  <2>3. QED
    BY <1>4, <2>1, <2>2, BesidePages DEF Beside, Deleted, past, pages
<1>5. QED
  BY <1>1, <1>2, <1>3, <1>4 DEF Beside

\* A step of the pages that is none of the accounts.
LEMMA SamePages ==
    ASSUME PInv, UNCHANGED vars
    PROVE  Inv' /\ Draws /\ TypedGrows /\ req' = req /\ purpose' = purpose
  BY StutterInv, SameDraws DEF PInv, vars, store, pages, past, TypedGrows

LEMMA GetHomeInv == ASSUME PInv, NEW t \in Tabs, GetHome(t) PROVE PInv'
<1>1. UNCHANGED vars /\ purpose[t] = NoPurpose
  BY DEF GetHome, Begins, Free, Waits
<1>2. [page |-> "home", of |-> Here(t)] \in Draft
  BY SessionAssumption DEF Draft, Here, PInv, Inv, AccountsTyped
<1>3. /\ making'[t] = {[page |-> "home", of |-> Here(t)]} /\ shown'[t] = {}
      /\ \A s \in Tabs : s # t => making'[s] = making[s] /\ shown'[s] = shown[s]
      /\ sending' = sending /\ avatar' = avatar /\ common' = common
  BY DEF GetHome, Begins, PInv, SiteTyped
<1>4. SiteTyped'
  BY <1>2, <1>3 DEF GetHome, Begins, PInv, SiteTyped
<1>5. MakingAt(t)' /\ AloneAt(t)'
  BY <1>1, <1>3, SamePages, SiteOf DEF GetHome, Begins, Free, MakingAt, AloneAt, TabInv
<1>6. TabInv(t)'
  BY <1>1, <1>3, <1>5, SamePages, ShownStays, SendingStays DEF TabInv
<1>7. QED
  BY <1>1, <1>3, <1>4, <1>6, SamePages, AvatarStays, ByTab

\* GET /profile and GET /new-contract: the page being made has the nonce asked for.
LEMMA OpenInv ==
    ASSUME PInv, NEW t \in Tabs, NEW life \in {PageLife, LinkLife},
           NEW page \in {"profile", "new-contract"},
           OpenPage(t, life), Begins(t, page), PutMenu(t) \/ UNCHANGED common
    PROVE  PInv'
<1>1. /\ N!CallSetNonce(t, Here(t).email, Address(t), life)
      /\ Here(t) \in Session /\ Entitled(BrowserOf[t], Here(t).email)
      /\ Here(t).email \in Emails \cup {NoEmail}
  BY TabTyped, SessionAssumption DEF OpenPage, PInv, Here, Inv, AccountsTyped
<1>2. Inv' /\ Draws /\ TypedGrows
  BY <1>1, OpenPageInv, CallSetSteps, StepDraws DEF PInv, OpenPage, Asks, TypedGrows
<1>3. /\ \A q \in Tabs : q # t => req'[q] = req[q]
      /\ req'[t].pc = "insert" /\ req'[t].email = Here(t).email /\ req'[t].ip = Address(t)
  BY <1>1, StoreTyped DEF N!CallSetNonce, PInv, Inv
<1>4. /\ \A s \in Tabs : s # t => purpose'[s] = purpose[s]
      /\ purpose'[t] # NoPurpose /\ typed' = typed
  BY DEF OpenPage, Asks, NoPurpose, PInv, Inv, AccountsTyped
<1>5. /\ making'[t] = {[page |-> page, of |-> Here(t)]} /\ shown'[t] = {}
      /\ \A s \in Tabs : s # t => making'[s] = making[s] /\ shown'[s] = shown[s]
      /\ sending' = sending /\ avatar' = avatar
  BY DEF Begins, PInv, SiteTyped
<1>6. SiteTyped'
  <2>1. [page |-> page, of |-> Here(t)] \in Draft
    BY <1>1 DEF Draft
  <2>2. common' \in [menu : BOOLEAN, nonce : 0 .. MaxNonce]
    BY <1>1 DEF PutMenu, Session, PInv, SiteTyped
  <2>3. QED
    BY <2>1, <2>2 DEF Begins, PInv, SiteTyped
<1>7. MakingAt(t)' /\ AloneAt(t)'
  <2>1. \A e : e = Here(t).email => Entitled(BrowserOf[t], e)'
    BY <1>1, <1>2, SiteOf, SpeaksStays
  <2>2. QED
    BY <1>1, <1>3, <1>4, <1>5, <2>1 DEF Begins, Free, MakingAt, AloneAt, Address
<1>8. TabInv(t)'
  BY <1>2, <1>3, <1>5, <1>7, ShownStays, SendingStays DEF TabInv
<1>9. QED
  BY <1>2, <1>3, <1>4, <1>5, <1>6, <1>8, AvatarStays, ByTab

LEMMA GetFormInv == ASSUME PInv, NEW t \in Tabs, GetForm(t) PROVE PInv'
<1>1. /\ UNCHANGED vars /\ making' = making /\ shown'[t] = {}
      /\ \A s \in Tabs : s # t => shown'[s] = shown[s]
      /\ sending' = sending /\ avatar' = avatar
  BY DEF GetForm, PInv, SiteTyped
<1>2. SiteTyped'
  BY TabTyped DEF GetForm, PutMenu, PInv, SiteTyped
<1>3. TabInv(t)'
  BY <1>1, SamePages, MakingStays, ShownStays, SendingStays, SiteOf DEF TabInv, AloneAt
<1>4. QED
  BY <1>1, <1>2, <1>3, SamePages, AvatarStays, ByTab

\* The start page asked for with a login's nonce.
LEMMA FollowHomeInv ==
    ASSUME PInv, NEW t \in Tabs, NEW f \in Followers, NEW n \in N!LiveNonces,
           FollowHome(t, f, n) PROVE PInv'
<1>1. Follow(t, f, n)
  BY DEF FollowHome
<1>2. Inv' /\ Draws /\ TypedGrows
  BY <1>1, FollowInv, FollowTyped DEF PInv
<1>3. \A q \in Tabs : req'[q] = req[q]
  <2>1. \A q \in Tabs : q # f
    BY SessionAssumption
  <2>2. QED
    BY <1>1, <2>1, FollowTyped DEF PInv
<1>4. purpose' = purpose /\ purpose[t] = NoPurpose
  BY DEF FollowHome, Follow, Waits
<1>5. /\ making'[t] = {[page |-> "home", of |-> Here(t)]} /\ shown'[t] = {}
      /\ \A s \in Tabs : s # t => making'[s] = making[s] /\ shown'[s] = shown[s]
      /\ sending' = sending /\ avatar' = avatar
  BY DEF FollowHome, Begins, PInv, SiteTyped
<1>6. SiteTyped'
  <2>1. [page |-> "home", of |-> Here(t)] \in Draft
    BY SessionAssumption DEF Draft, Here, PInv, Inv, AccountsTyped
  <2>2. QED
    BY <2>1 DEF FollowHome, Begins, PInv, SiteTyped
<1>7. MakingAt(t)' /\ AloneAt(t)'
  BY <1>3, <1>4, <1>5, SiteOf DEF FollowHome, Begins, Free, MakingAt, AloneAt, TabInv
<1>8. TabInv(t)'
  BY <1>2, <1>3, <1>5, <1>7, ShownStays, SendingStays DEF TabInv
<1>9. QED
  BY <1>2, <1>3, <1>4, <1>5, <1>6, <1>8, AvatarStays, ByTab

\* What is shown is typed as it was made.
LEMMA ShownTyped ==
    ASSUME PInv, NEW t \in Tabs, NEW d \in making[t], NEW n \in 0 .. MaxNonce,
           Shows(t, d.page, d.of, MenuOf(d), n)
    PROVE  /\ shown' \in [Tabs -> SUBSET Page]
           /\ \A s \in Tabs : s # t => shown'[s] = shown[s]
           /\ shown'[t] = {[page |-> d.page, of |-> d.of, menu |-> MenuOf(d), nonce |-> n]}
<1>1. d \in Draft /\ common.menu \in BOOLEAN
  BY SiteOf DEF PInv, SiteTyped
<1>2. [page |-> d.page, of |-> d.of, menu |-> MenuOf(d), nonce |-> n] \in Page
  BY <1>1 DEF Draft, Page, Session, MenuOf
<1>3. QED
  BY <1>2 DEF Shows, PInv, SiteTyped

LEMMA HomeRenderedInv == ASSUME PInv, NEW t \in Tabs, HomeRendered(t) PROVE PInv'
<1>1. PICK d \in making[t] : d.page = "home" /\ Shows(t, d.page, d.of, MenuOf(d), 0)
  BY DEF HomeRendered
<1>2. /\ UNCHANGED <<vars, common, sending, avatar>> /\ making'[t] = {}
      /\ making' \in [Tabs -> SUBSET Draft]
      /\ \A s \in Tabs : s # t => making'[s] = making[s]
  BY DEF HomeRendered, PInv, SiteTyped
<1>3. 0 \in 0 .. MaxNonce
  BY SessionAssumption
<1>4. /\ shown' \in [Tabs -> SUBSET Page]
      /\ \A s \in Tabs : s # t => shown'[s] = shown[s]
      /\ shown'[t] = {[page |-> d.page, of |-> d.of, menu |-> d.of.authenticated, nonce |-> 0]}
  BY <1>1, <1>3, ShownTyped DEF MenuOf
<1>5. SiteTyped'
  BY <1>2, <1>4 DEF PInv, SiteTyped
<1>6. ShownAt(t)'
  BY <1>4 DEF ShownAt
<1>7. TabInv(t)'
  BY <1>2, <1>6, SamePages, MakingStays, SendingStays, SiteOf DEF TabInv, AloneAt
<1>8. QED
  BY <1>2, <1>4, <1>5, <1>7, SamePages, AvatarStays, ByTab

\* The nonce in the page was stored just now, or there is none.
LEMMA PageRenderedInv == ASSUME PInv, NEW t \in Tabs, PageRendered(t) PROVE PInv'
<1>1. PICK d \in making[t] :
          /\ Stored(t)
          /\ common' = IF d.page = "profile" THEN [common EXCEPT !.nonce = Given(t)]
                       ELSE common
          /\ Shows(t, d.page, d.of, MenuOf(d), NonceOf(t, d))
          /\ making' = [making EXCEPT ![t] = {}]
          /\ UNCHANGED <<sending, avatar>>
  BY DEF PageRendered
<1>2. /\ Inv' /\ Draws /\ TypedGrows
  BY <1>1, StoredInv, RequestSteps, StepDraws DEF Stored, TypedGrows, PInv
<1>3. /\ req' = [req EXCEPT ![t] = N!Idle]
      /\ log' # log => /\ N!ExecInsert(t) /\ log' = log \cup {N!NewRow(t)}
  BY <1>1 DEF Stored, N!ExecInsert, N!StatementFails, N!history
<1>4. req[t].pc = "insert"
  <2>1. req[t].pc \in {"insert", "select"}
    BY <1>1 DEF Stored, N!ExecInsert, N!StatementFails
  <2>2. QED
    BY <2>1, SiteOf DEF TabInv, AloneAt
<1>5. d.page \in {"profile", "new-contract"} /\ d \in Draft
  <2>1. d.page # "home"
    BY <1>4, SiteOf DEF TabInv, MakingAt
  <2>2. QED
    BY <2>1, SiteOf DEF Draft
<1>6. req[t].email = d.of.email /\ req[t].ip = Address(t) /\ Entitled(BrowserOf[t], d.of.email)
  BY <1>4, <1>5, SiteOf DEF TabInv, MakingAt
<1>7. Given(t) \in 0 .. MaxNonce
  BY <1>3, StoreTyped, SessionAssumption DEF Given, PInv, Inv, N!Request, N!Nonces
<1>8. NonceOf(t, d) = Given(t) /\ common' \in [menu : BOOLEAN, nonce : 0 .. MaxNonce]
  BY <1>1, <1>7 DEF NonceOf, PInv, SiteTyped
<1>9. /\ shown' \in [Tabs -> SUBSET Page]
      /\ \A s \in Tabs : s # t => shown'[s] = shown[s]
      /\ shown'[t] = {[page |-> d.page, of |-> d.of, menu |-> MenuOf(d), nonce |-> Given(t)]}
  BY <1>1, <1>7, <1>8, ShownTyped
<1>10. /\ making' \in [Tabs -> SUBSET Draft] /\ making'[t] = {}
       /\ \A s \in Tabs : s # t => making'[s] = making[s]
       /\ sending' = sending /\ avatar' = avatar
  BY <1>1 DEF PInv, SiteTyped
<1>11. SiteTyped'
  BY <1>8, <1>9, <1>10 DEF PInv, SiteTyped
<1>12. \A q \in Tabs \cup Followers : req'[q] = IF q = t THEN N!Idle ELSE req[q]
  BY <1>3, StoreTyped DEF PInv, Inv
<1>13. \A s \in Tabs : s # t => purpose'[s] = purpose[s]
  BY <1>1 DEF Stored, PInv, Inv, AccountsTyped
<1>14. ShownAt(t)'
  <2> SUFFICES ASSUME NEW p \in shown'[t]
               PROVE  /\ p.nonce # 0 =>
                            /\ HandedTo(p.nonce, BrowserOf[t])'
                            /\ \E x \in log' : /\ x.nonce = p.nonce
                                               /\ x.email = p.of.email /\ x.ip = Address(t)
                      /\ p.page # "profile" => p.menu = p.of.authenticated
    BY DEF ShownAt, Address
  <2>1. p.page = d.page /\ p.of = d.of /\ p.menu = MenuOf(d) /\ p.nonce = Given(t)
    BY <1>9
  <2>2. ASSUME p.nonce # 0
        PROVE  /\ HandedTo(p.nonce, BrowserOf[t])'
               /\ N!NewRow(t) \in log' /\ N!NewRow(t).nonce = p.nonce
    <3>1. p.nonce = req[t].nonce /\ log' = log \cup {N!NewRow(t)}
      BY <1>3, <2>1, <2>2 DEF Given
    <3>2. \A x \in log' : x.nonce = p.nonce => x.email = d.of.email
      BY <1>4, <1>6, <3>1, InsertsNew DEF N!NewRow, PInv
    <3>3. \A q \in Tabs \cup Followers : req'[q].pc = "insert" => req'[q].nonce # p.nonce
      BY <1>4, <1>12, <3>1, InsertsNew DEF N!Idle, PInv
    <3>4. p.nonce \in 1 .. drawn'
      <4>1. p.nonce \in 1 .. drawn
        BY <1>4, <3>1, InsertsNew DEF PInv
      <4>2. QED
        BY <4>1, <1>2, StoreTyped DEF Draws, PInv, Inv
    <3>5. Speaks(BrowserOf[t], d.of.email)'
      BY <1>2, <1>6, SiteOf, SpeaksStays DEF Speaks
    <3>6. HandedTo(p.nonce, BrowserOf[t])'
      BY <3>2, <3>3, <3>4, <3>5 DEF HandedTo
    <3>7. QED
      BY <3>1, <3>6 DEF N!NewRow
  <2>3. QED
    BY <1>5, <1>6, <2>1, <2>2 DEF MenuOf, N!NewRow
<1>15. MakingAt(t)' /\ AloneAt(t)'
  BY <1>10, <1>12 DEF MakingAt, AloneAt, N!Idle
<1>16. TabInv(t)'
  BY <1>2, <1>10, <1>12, <1>14, <1>15, SendingStays DEF TabInv, N!Idle
<1>17. QED
  BY <1>2, <1>9, <1>10, <1>11, <1>12, <1>13, <1>16, AvatarStays, ByTab

\* An upload's own steps on the nonces table change nothing of the accounts.
LEMMA UploadInv ==
    ASSUME PInv, NP!IInv', Draws, log' = log, NEW t \in Tabs,
           \A q \in Tabs \cup Followers : q # t => req'[q] = req[q],
           req'[t].pc # "insert", UNCHANGED <<users, session, pages, past>>
    PROVE  Inv' /\ TypedGrows
<1>1. \A f \in Followers : req'[f] = req[f]
  BY SessionAssumption
<1>2. Inv'
  BY <1>1, Still, AsideInv DEF PInv, pages, past
<1>3. QED
  BY <1>2 DEF past, TypedGrows

LEMMA SendInv == ASSUME PInv, NEW t \in Tabs, Send(t) PROVE PInv'
<1>1. PICK p \in shown[t] : N!CallCheckNonce(t, p.nonce, Address(t))
  BY DEF Send
<1>2. p.nonce \in 0 .. MaxNonce /\ Address(t) \in Ips \cup {NoIp}
  BY SiteOf, SessionAssumption DEF Page, Address
<1>3. /\ \A q \in Tabs \cup Followers : q # t => req'[q] = req[q]
      /\ req'[t].pc = "select" /\ req'[t].nonce = p.nonce
  BY <1>1, StoreTyped DEF N!CallCheckNonce, PInv, Inv
<1>4. NP!IInv' /\ Draws
  BY <1>1, <1>2, CallCheckSteps, StepStore, StepDraws DEF PInv, Inv
<1>5. Inv' /\ TypedGrows
  BY <1>1, <1>3, <1>4, UploadInv DEF Send, N!CallCheckNonce, N!history
<1>6. /\ sending' \in [Tabs -> SUBSET SUBSET (Emails \cup {NoEmail})]
      /\ sending'[t] = {{}}
      /\ \A s \in Tabs : s # t => sending'[s] = sending[s]
      /\ making' = making /\ shown' = shown /\ avatar' = avatar /\ common' = common
      /\ purpose' = purpose
  BY DEF Send, pages, PInv, SiteTyped
<1>7. SiteTyped'
  BY <1>6 DEF PInv, SiteTyped
<1>8. SendingAt(t)'
  <2>1. ASSUME p.nonce # 0 PROVE HandedTo(p.nonce, BrowserOf[t])'
    <3>1. HandedTo(p.nonce, BrowserOf[t])
      BY <2>1, SiteOf DEF TabInv, ShownAt
    <3>2. BrowserOf[t] \in Browsers
      BY SiteOf
    <3>3. QED
      BY <1>4, <1>5, <3>1, <3>2, HandedStays DEF PInv
  <2>2. QED
    BY <1>3, <1>6, <2>1 DEF SendingAt
<1>9. AloneAt(t)' /\ MakingAt(t)'
  BY <1>3, <1>5, <1>6, MakingStays DEF Send, Free, AloneAt
<1>10. TabInv(t)'
  BY <1>4, <1>5, <1>6, <1>8, <1>9, ShownStays DEF TabInv
<1>11. QED
  BY <1>3, <1>4, <1>5, <1>6, <1>7, <1>10, AvatarStays, ByTab

LEMMA SendLookedInv == ASSUME PInv, NEW t \in Tabs, SendLooked(t) PROVE PInv'
<1>1. NP!IInv' /\ Draws
  BY RequestSteps, StepStore, StepDraws DEF SendLooked, PInv, Inv
<1>2. /\ \A q \in Tabs \cup Followers : q # t => req'[q] = req[q]
      /\ req'[t].pc \in {"idle", "found"}
      /\ req'[t].pc = "found" => /\ req[t].pc = "select" /\ req'[t].nonce = req[t].nonce
                                 /\ sending'[t] = sending[t]
  BY StoreTyped DEF SendLooked, N!ExecSelect, N!StatementFails, N!Idle, N!Request,
     PInv, Inv, SiteTyped
<1>3. Inv' /\ TypedGrows
  BY <1>1, <1>2, UploadInv DEF SendLooked, N!ExecSelect, N!StatementFails, N!history
<1>4. /\ sending' \in [Tabs -> SUBSET SUBSET (Emails \cup {NoEmail})]
      /\ sending'[t] \subseteq sending[t]
      /\ \A s \in Tabs : s # t => sending'[s] = sending[s]
      /\ making' = making /\ shown' = shown /\ avatar' = avatar /\ common' = common
      /\ purpose' = purpose
  BY DEF SendLooked, pages, PInv, SiteTyped
<1>5. SiteTyped'
  BY <1>4 DEF PInv, SiteTyped
<1>6. AloneAt(t)' /\ MakingAt(t)'
  BY <1>2, <1>3, <1>4, MakingStays, SiteOf DEF SendLooked, AloneAt, TabInv
<1>7. TabInv(t)'
  BY <1>1, <1>2, <1>3, <1>4, <1>6, ShownStays, SendingStays DEF TabInv
<1>8. QED
  BY <1>1, <1>2, <1>3, <1>4, <1>5, <1>7, AvatarStays, ByTab

\* The nonce of an upload is honoured for the user its page was made for.
LEMMA SendHonouredInv == ASSUME PInv, NEW t \in Tabs, SendHonoured(t) PROVE PInv'
<1>1. NP!IInv' /\ Draws
  BY RequestSteps, StepStore, StepDraws DEF SendHonoured, PInv, Inv
<1>2. req[t].pc = "found" /\ req' = [req EXCEPT ![t] = N!Idle]
  BY DEF SendHonoured, N!Resume
<1>3. \A q \in Tabs \cup Followers : req'[q] = IF q = t THEN N!Idle ELSE req[q]
  BY <1>2, StoreTyped DEF PInv, Inv
<1>4. req'[t].pc = "idle"
  BY <1>3 DEF N!Idle
<1>5. Inv' /\ TypedGrows
  BY <1>1, <1>3, <1>4, UploadInv DEF SendHonoured, N!Resume, N!history
<1>6. {x.email : x \in found[t]} \in SUBSET (Emails \cup {NoEmail})
  BY StoreTyped DEF PInv, Inv
<1>7. /\ sending' \in [Tabs -> SUBSET SUBSET (Emails \cup {NoEmail})]
      /\ sending'[t] = {{x.email : x \in found[t]}}
      /\ \A s \in Tabs : s # t => sending'[s] = sending[s]
      /\ making' = making /\ shown' = shown /\ avatar' = avatar /\ common' = common
      /\ purpose' = purpose
  BY <1>6 DEF SendHonoured, pages, past, PInv, SiteTyped
<1>8. SiteTyped'
  BY <1>7 DEF PInv, SiteTyped
<1>9. \A x \in found[t] : Speaks(BrowserOf[t], x.email)
  <2>1. PICK x \in log : found[t] = {x} /\ x.nonce = req[t].nonce /\ x.nonce # 0
    BY <1>2, SessionAssumption DEF PInv, Inv, NP!IInv, NP!HonouredAsStored, NP!TypeOK, NP!Row, NP!Nonces
  <2>2. HandedTo(req[t].nonce, BrowserOf[t])
    BY <1>2, <2>1, SiteOf DEF SendHonoured, TabInv, SendingAt
  <2>3. QED
    BY <2>1, <2>2 DEF HandedTo
<1>10. SendingAt(t)'
  <2>1. ASSUME NEW e \in {x.email : x \in found[t]} PROVE Speaks(BrowserOf[t], e)'
    BY <1>5, <1>9, SiteOf, SpeaksStays
  <2>2. QED
    BY <1>4, <1>7, <2>1 DEF SendingAt
<1>11. AloneAt(t)' /\ MakingAt(t)'
  BY <1>4, <1>5, <1>7, MakingStays, SiteOf DEF SendHonoured, AloneAt, TabInv
<1>12. TabInv(t)'
  BY <1>1, <1>5, <1>7, <1>10, <1>11, ShownStays DEF TabInv
<1>13. QED
  BY <1>1, <1>3, <1>5, <1>7, <1>8, <1>12, AvatarStays, ByTab

LEMMA SetAvatarInv == ASSUME PInv, NEW t \in Tabs, SetAvatar(t) PROVE PInv'
<1>1. /\ UNCHANGED <<vars, common, making, shown>> /\ sending'[t] = {}
      /\ sending' \in [Tabs -> SUBSET SUBSET (Emails \cup {NoEmail})]
      /\ \A s \in Tabs : s # t => sending'[s] = sending[s]
      /\ req[t].pc = "idle"
  BY DEF SetAvatar, PInv, SiteTyped
<1>2. PICK e \in UNION sending[t] :
          \/ avatar' = [avatar EXCEPT ![e] = IF e \in Registered THEN {BrowserOf[t]} ELSE @]
          \/ avatar' = avatar
  BY DEF SetAvatar
<1>3. Speaks(BrowserOf[t], e) /\ BrowserOf[t] \in Browsers
  BY SiteOf DEF TabInv, SendingAt
<1>4. avatar' \in [Emails -> SUBSET Browsers] /\ AvatarIsEarned'
  <2>1. avatar \in [Emails -> SUBSET Browsers] /\ NoEmail \notin Emails
    BY SessionAssumption DEF PInv, SiteTyped
  <2>2. avatar' \in [Emails -> SUBSET Browsers]
    BY <1>2, <1>3, <2>1
  <2>3. ASSUME NEW k \in Emails, NEW b \in avatar'[k] PROVE Entitled(b, k)
    <3>1. CASE b \in avatar[k]
      BY <3>1 DEF PInv, AvatarIsEarned
    <3>2. CASE b \notin avatar[k]
      <4>1. k = e /\ b = BrowserOf[t]
        BY <1>2, <2>1, <2>3, <3>2
      <4>2. QED
        BY <1>3, <2>1, <4>1 DEF Speaks
    <3>3. QED
      BY <3>1, <3>2
  <2>4. QED
    BY <1>1, <2>2, <2>3 DEF AvatarIsEarned, Entitled, vars, past
<1>5. SiteTyped'
  BY <1>1, <1>4 DEF PInv, SiteTyped
<1>6. TabInv(t)'
  BY <1>1, SamePages, MakingStays, ShownStays, SendingStays, SiteOf DEF TabInv, AloneAt
<1>7. QED
  BY <1>1, <1>4, <1>5, <1>6, SamePages, ByTab

\* A request of a tab for which no page is made, and that uploads nothing.
LEMMA InPageInv == ASSUME PInv, NEW t \in Tabs, InPage(t) PROVE PInv'
<1>1. ASSUME Inv', Draws, TypedGrows, \A s \in Tabs : s # t => req'[s] = req[s],
             \A s \in Tabs : s # t => purpose'[s] = purpose[s],
             req'[t].pc = "insert" => purpose'[t] # NoPurpose,
             req'[t].pc \in {"select", "found"} => req'[t] = req[t]
      PROVE  PInv'
  <2>1. MakingAt(t)' /\ AloneAt(t)'
    BY <1>1, SiteOf DEF InPage, site, MakingAt, AloneAt, TabInv
  <2>2. TabInv(t)'
    BY <1>1, <2>1, ShownStays, SendingStays DEF TabInv, InPage, site
  <2>3. SiteTyped' /\ AvatarIsEarned'
    BY <1>1, AvatarStays DEF InPage, site, PInv, SiteTyped
  <2>4. QED
    BY <1>1, <2>2, <2>3, ByTab DEF InPage, site
<1>2. ASSUME NEW e \in Emails, PostLogin(t, e) PROVE PInv'
  <2>1. N!CallSetNonce(t, e, Address(t), LinkLife)
    BY <1>2 DEF PostLogin
  <2>2. Inv' /\ Draws
    BY <1>2, <2>1, PostLoginInv, CallSetSteps, StepDraws DEF PInv
  <2>3. TypedGrows /\ purpose'[t] # NoPurpose
        /\ \A s \in Tabs : s # t => purpose'[s] = purpose[s]
    BY <1>2, SessionAssumption DEF PostLogin, Asks, NoPurpose, TypedGrows, PInv, Inv, AccountsTyped
  <2>4. /\ \A s \in Tabs : s # t => req'[s] = req[s]
        /\ req'[t].pc = "insert"
    BY <2>1, StoreTyped DEF N!CallSetNonce, PInv, Inv
  <2>5. QED
    BY <1>1, <2>2, <2>3, <2>4
<1>3. CASE Stored(t)
  <2>1. Inv' /\ Draws /\ TypedGrows
    BY <1>3, StoredInv, RequestSteps, StepDraws DEF Stored, TypedGrows, PInv
  <2>2. req' = [req EXCEPT ![t] = N!Idle]
    BY <1>3 DEF Stored, N!ExecInsert, N!StatementFails
  <2>3. \A s \in Tabs : req'[s] = IF s = t THEN N!Idle ELSE req[s]
    BY <2>2, StoreTyped DEF PInv, Inv
  <2>4. \A s \in Tabs : s # t => purpose'[s] = purpose[s]
    BY <1>3 DEF Stored, PInv, Inv, AccountsTyped
  <2>5. QED
    BY <1>1, <2>1, <2>3, <2>4 DEF N!Idle
<1>4. CASE Left(t)
  <2>1. Inv'
    BY <1>4, LeftInv DEF PInv
  <2>2. UNCHANGED <<store, purpose, typed, carried>>
    BY <1>4 DEF Left, past
  <2>3. Draws /\ TypedGrows /\ req' = req
    BY <2>2, SameDraws DEF PInv, store, TypedGrows
  <2>4. QED
    BY <1>1, <2>1, <2>2, <2>3, SiteOf DEF TabInv, MakingAt
<1>5. QED
  BY <1>2, <1>3, <1>4 DEF InPage

\* The page is left for the logout.
LEMMA LogoutInv == ASSUME PInv, NEW t \in Tabs, Logout(t) PROVE PInv'
<1>1. Inv' /\ UNCHANGED <<store, purpose, typed, carried>>
  BY LeaveInv DEF Logout, Leave, past, PInv
<1>2. Draws /\ TypedGrows /\ req' = req
  BY <1>1, SameDraws DEF PInv, store, TypedGrows
<1>3. /\ making' = making /\ sending' = sending /\ avatar' = avatar /\ common' = common
      /\ shown'[t] = {} /\ \A s \in Tabs : s # t => shown'[s] = shown[s]
  BY DEF Logout, PInv, SiteTyped
<1>4. SiteTyped'
  BY DEF Logout, PInv, SiteTyped
<1>5. TabInv(t)'
  BY <1>1, <1>2, <1>3, MakingStays, ShownStays, SendingStays, SiteOf DEF TabInv, AloneAt
<1>6. QED
  BY <1>1, <1>2, <1>3, <1>4, <1>5, AvatarStays, ByTab

LEMMA RestartSiteInv == ASSUME PInv, RestartSite PROVE PInv'
<1>1. Inv' /\ Draws /\ TypedGrows
  BY RestartInv, RestartSteps, StepDraws DEF PInv, RestartSite, Restart, past, TypedGrows
<1>2. \A q \in Tabs \cup Followers : req'[q].pc = "idle"
  BY DEF RestartSite, Restart, N!Restart, N!Idle
<1>3. SiteTyped' /\ AvatarIsEarned'
  BY <1>1, AvatarStays, SessionAssumption
     DEF RestartSite, Empty, NoOptions, PInv, SiteTyped
<1>4. ASSUME NEW t \in Tabs PROVE TabInv(t)'
  BY <1>1, <1>2, ShownStays, SendingStays
     DEF TabInv, MakingAt, AloneAt, RestartSite, Empty
<1>5. QED
  BY <1>1, <1>3, <1>4 DEF PInv

LEMMA StutterSite == ASSUME PInv, UNCHANGED allvars PROVE PInv'
<1>1. UNCHANGED <<vars, site>>
  BY DEF allvars
<1>2. QED
  BY <1>1, SamePages, BesidePages DEF vars, past

LEMMA NextPInv == PInv /\ [PagesNext]_allvars => PInv'
<1> SUFFICES ASSUME PInv, [PagesNext]_allvars PROVE PInv'
  OBVIOUS
<1>1. ASSUME NEW t \in Tabs, GetProfile(t) \/ GetNew(t) PROVE PInv'
  BY <1>1, OpenInv DEF GetProfile, GetNew
<1>2. QED
  BY <1>1, GetHomeInv, GetFormInv, FollowHomeInv, HomeRenderedInv, PageRenderedInv,
     SendInv, SendLookedInv, SendHonouredInv, SetAvatarInv, InPageInv, LogoutInv,
     RestartSiteInv, BesideInv, StutterSite
     DEF PagesNext

-----------------------------------------------------------------------------
THEOREM PagesInvariance == PagesSpec => []PInv
  BY InitPages, NextPInv, PTL DEF PagesSpec

\* Pages, uploads and the options they share keep their types, whatever the
\* interleaving and however many there are.
THEOREM PagesTypeCorrect == PagesSpec => []PagesTypeOK
<1>1. PInv => PagesTypeOK
  BY StoreTyped DEF PInv, SiteTyped, Inv, AccountsTyped, TypeOK, PagesTypeOK
<1>2. QED
  BY <1>1, PagesInvariance, PTL

\* Whatever requests share the options between a menu and a nonce, the nonce of
\* a page was stored for the user and the client it was made for.
THEOREM NoncesAreOwn == PagesSpec => []NonceIsOwn
<1>1. PInv => NonceIsOwn
  BY DEF PInv, TabInv, ShownAt, NonceIsOwn
<1>2. QED
  BY <1>1, PagesInvariance, PTL

\* However late an upload is honoured, and whoever logged out or in meanwhile,
\* the avatar it sets is of a user whose password was typed in its browser or
\* whose link was carried there.
THEOREM AvatarsAreEarned == PagesSpec => []AvatarIsEarned
<1>1. PInv => AvatarIsEarned
  BY DEF PInv
<1>2. QED
  BY <1>1, PagesInvariance, PTL

-----------------------------------------------------------------------------
(* The menu and the table of endpoints agree for whomever both are read for. *)

Hrefs == {e.href : e \in submenus}

\* The links of the menu, and what each asks of its visitor.
LEMMA HrefsKnown ==
    Hrefs = {"/", "/new-contract", "/set-completed-contract", "/set-refused-contract",
             "/withdrawal", "/login", "/profile", "/logout", "/register"}
  BY DEF Hrefs, submenus, Entry

LEMMA PermissionsOf ==
    /\ permissions["/"] = Endpoint({}, Anyone, Anyone)
    /\ \A p \in {"/login", "/register"} :
          permissions[p] = Endpoint(OnlyNonAuthenticated, Anyone, Anyone)
    /\ \A p \in {"/profile", "/logout", "/new-contract"} :
          permissions[p] = Endpoint(OnlyAuthenticated, Anyone, Anyone)
    /\ permissions["/withdrawal"] = Endpoint(RestrictedGui, {"sender"}, {"completed"})
    /\ \A p \in {"/set-completed-contract", "/set-refused-contract"} :
          permissions[p] = Endpoint(RestrictedGui, {"receiver"}, {"pending"})
<1>1. \A p \in Hrefs : permissions[p] =
        CASE p = "/" -> Endpoint({}, Anyone, Anyone)
          [] p \in {"/login", "/register"} -> Endpoint(OnlyNonAuthenticated, Anyone, Anyone)
          [] p \in {"/profile", "/logout", "/new-contract"} ->
                Endpoint(OnlyAuthenticated, Anyone, Anyone)
          [] p = "/withdrawal" -> Endpoint(RestrictedGui, {"sender"}, {"completed"})
          [] OTHER -> Endpoint(RestrictedGui, {"receiver"}, {"pending"})
  BY DEF permissions, Hrefs
<1>2. QED
  BY <1>1, HrefsKnown

\* What a menu offers a visitor, the endpoints admit him to.
LEMMA MenuIsOpen == \A b \in BOOLEAN : LinksOpen[b][b]
<1> SUFFICES ASSUME NEW b \in BOOLEAN,
                    NEW roles \in {Anyone} \cup (SUBSET Parties \ {{}}), NEW status \in Statuses,
                    NEW p \in Offered(b, roles, status)
             PROVE  Admitted(p, b, roles, status)
  BY Zenon DEF LinksOpen
<1>1. PICK e \in submenus : /\ p = e.href
                            /\ e.roles = Anyone \/ e.roles \cap roles # {}
                            /\ e.logins = Anyone \/ (IF b THEN "logged" ELSE "non-logged") \in e.logins
                            /\ e.statuses = Anyone \/ status \in e.statuses
  BY DEF Offered
<1>2. CASE e = Entry("/", Anyone, Anyone, Anyone)
  BY <1>1, <1>2, PermissionsOf DEF Entry, Endpoint, Admitted
<1>3. Anyone # {"logged"} /\ Anyone # {"non-logged"} /\ \A x \in Parties : Anyone # {x}
  BY DEF Anyone, Parties
<1>4. CASE e \in {Entry(h, Anyone, Anyone, {"logged"}) : h \in {"/new-contract", "/profile", "/logout"}}
  <2>1. e.logins = {"logged"} /\ p \in {"/new-contract", "/profile", "/logout"}
    BY <1>1, <1>4 DEF Entry
  <2>2. b
    BY <1>1, <1>3, <2>1
  <2>3. permissions[p].conditions = OnlyAuthenticated
    BY <2>1, PermissionsOf DEF Endpoint
  <2>4. QED
    BY <2>2, <2>3 DEF Admitted, OnlyAuthenticated
<1>5. CASE e \in {Entry(h, Anyone, Anyone, {"non-logged"}) : h \in {"/login", "/register"}}
  <2>1. e.logins = {"non-logged"} /\ p \in {"/login", "/register"}
    BY <1>1, <1>5 DEF Entry
  <2>2. ~b
    BY <1>1, <1>3, <2>1
  <2>3. permissions[p].conditions = OnlyNonAuthenticated
    BY <2>1, PermissionsOf DEF Endpoint
  <2>4. QED
    BY <2>2, <2>3 DEF Admitted, OnlyNonAuthenticated
<1>6. ASSUME NEW r \in Parties, NEW s \in Statuses, e.logins = {"logged"},
             e.roles = {r}, e.statuses = {s},
             permissions[p] = Endpoint(RestrictedGui, {r}, {s})
      PROVE  Admitted(p, b, roles, status)
  <2>1. b
    BY <1>1, <1>3, <1>6
  <2>2. {r} \cap roles # {}
    BY <1>1, <1>3, <1>6
  <2>3. {s} = Anyone \/ status \in {s}
    BY <1>1, <1>6
  <2>4. /\ permissions[p].conditions = RestrictedGui
        /\ permissions[p].roles = {r} /\ permissions[p].statuses = {s}
    BY <1>6 DEF Endpoint
  <2>5. QED
    BY <2>1, <2>2, <2>3, <2>4 DEF Admitted, RestrictedGui
<1>7. CASE e \in {Entry(h, {"receiver"}, {"pending"}, {"logged"}) :
                     h \in {"/set-completed-contract", "/set-refused-contract"}}
  BY <1>1, <1>6, <1>7, PermissionsOf DEF Entry, Parties, Statuses
<1>8. CASE e = Entry("/withdrawal", {"sender"}, {"completed"}, {"logged"})
  BY <1>1, <1>6, <1>8, PermissionsOf DEF Entry, Parties, Statuses
<1>9. QED
  BY <1>2, <1>4, <1>5, <1>7, <1>8 DEF submenus

\* A page made on a copy of the options links only where its visitor is admitted,
\* whatever his roles, the contract's status and the requests beside it.
THEOREM MenusAreOpen == PagesSpec => []LinksAreOpen
<1>1. PInv => LinksAreOpen
  <2> SUFFICES ASSUME PInv, NEW t \in Tabs, NEW p \in shown[t], p.page # "profile"
               PROVE  LinksOpen[p.menu][p.of.authenticated]
    BY DEF LinksAreOpen
  <2>1. p.menu = p.of.authenticated /\ p \in Page
    BY SiteOf DEF TabInv, ShownAt
  <2>2. p.of.authenticated \in BOOLEAN
    BY <2>1 DEF Page, Session
  <2>3. QED
    BY <2>1, <2>2, MenuIsOpen
<1>2. QED
  BY <1>1, PagesInvariance, PTL

-----------------------------------------------------------------------------
\* The store beside the pages

\* Each step of a tab is one of the nonces table's, or none of the store.
LEMMA TabStoreSteps ==
    ASSUME PInv, NEW t \in Tabs,
           \/ GetProfile(t) \/ GetNew(t) \/ GetHome(t) \/ GetForm(t)
           \/ \E f \in Followers : \E n \in N!LiveNonces : FollowHome(t, f, n)
           \/ HomeRendered(t) \/ PageRendered(t)
           \/ Send(t) \/ SendLooked(t) \/ SendHonoured(t) \/ SetAvatar(t)
           \/ InPage(t) \/ Logout(t)
    PROVE  NP!Next \/ UNCHANGED NP!vars
<1>1. Inv
  BY DEF PInv
<1>2. ASSUME NEW life \in {PageLife, LinkLife}, OpenPage(t, life) PROVE NP!Next
  BY <1>1, <1>2, TabTyped, CallSetSteps DEF OpenPage
<1>3. ASSUME NEW f \in Followers, NEW n \in N!LiveNonces, Follow(t, f, n) PROVE NP!Next
  BY <1>1, <1>3, FollowedTyped, CallCheckSteps DEF Follow
<1>4. ASSUME NEW e \in Emails, PostLogin(t, e) PROVE NP!Next
  BY <1>4, CallSetSteps DEF PostLogin
<1>5. CASE Stored(t) \/ SendLooked(t) \/ SendHonoured(t)
  BY <1>5, RequestSteps DEF Stored, SendLooked, SendHonoured
<1>6. CASE Send(t)
  <2>1. PICK p \in shown[t] : N!CallCheckNonce(t, p.nonce, Address(t))
    BY <1>6 DEF Send
  <2>2. p.nonce \in 0 .. MaxNonce
    BY DEF PInv, SiteTyped, Page
  <2>3. Address(t) \in Ips
    BY SessionAssumption DEF Address
  <2>4. QED
    BY <2>1, <2>2, <2>3, CallCheckSteps
<1>7. ASSUME UNCHANGED store PROVE UNCHANGED NP!vars
  BY <1>7 DEF store, NP!vars
<1>8. QED
  BY <1>2, <1>3, <1>4, <1>5, <1>6, <1>7
  DEF GetProfile, GetNew, GetHome, GetForm, FollowHome, HomeRendered, PageRendered,
      SetAvatar, InPage, Logout, Leave, Left, vars

LEMMA PagesStoreSteps ==
    ASSUME PInv, [PagesNext]_allvars PROVE NP!Next \/ UNCHANGED NP!vars
<1>1. CASE RestartSite
  BY <1>1, RestartSteps DEF RestartSite
<1>2. CASE Beside
  <2>1. ASSUME NEW f \in Followers, Looked(f) \/ Honoured(f) PROVE NP!Next
    BY <2>1, RequestSteps DEF Looked, Honoured
  <2>2. ASSUME NEW f \in Followers, Entered(f) PROVE UNCHANGED NP!vars
    BY <2>2 DEF Entered, store, NP!vars
  <2>3. QED
    BY <1>2, <2>1, <2>2, DeletedSteps DEF Beside
<1>3. CASE UNCHANGED allvars
  BY <1>3 DEF allvars, vars, store, NP!vars
<1>4. QED
  BY <1>1, <1>2, <1>3, TabStoreSteps DEF PagesNext

\* Pages, uploads and the options they share do nothing to the table that its two
\* functions do not: no upload takes a nonce its owner was given since, and what
\* an upload honoured leaves.
THEOREM PageNoncesKeepTheirWord ==
    PagesSpec => /\ NP!Spec /\ NP!ImplementsLifecycle /\ NP!SparesTheNew /\ NP!SpentLeaves
<1>1. PagesInit => NP!Init
  BY DEF PagesInit, N!Init, NP!Init, N!Idle, NP!Idle
<1>2. PagesSpec => NP!Spec
  BY <1>1, PagesInvariance, PagesStoreSteps, PTL DEF PagesSpec, NP!Spec
<1>3. QED
  BY <1>2, StoreAssume, NP!Refinement, NP!DelayedDeleteSpares, NP!SpentOnesLeave, PTL

\* And with pages and uploads beside the logins a session is earned all the same.
THEOREM SessionsStayEarned == PagesSpec => []SessionIsEarned
<1>1. PInv => SessionIsEarned
  BY DEF PInv, Inv, Earned
<1>2. QED
  BY PagesInvariance, <1>1, PTL

=============================================================================
