# Verification of the logistics bot

TLA+ models of the logistics bot in `src/`, checked with TLC on small instances
and proved with TLAPS for every instance: every invariant, action
property and refinement the passing runs check is a theorem; liveness is
model-checked.

The program lets people ship goods against payment. Each shipment is a contract
on Ethereum (`dapp_src/new_logistics.sol`). One Node.js process (`src/bot.js`
with the library `src/lib/`) serves web pages that deploy and use such
contracts from the user's own wallet, and chats with users of a messenger. It
keeps what it knows in PostgreSQL and web sessions in redis. All file names
below are relative to `src/`.

## Inventory

| Component | State | Operations | Talks to | Hard because | Correct when |
|---|---|---|---|---|---|
| Shipment contract (`dapp_src/new_logistics.sol`) | parties, price, status, pending withdrawals, balance | constructor, `setStatusCompleted`, `setStatusRefused`, `withdraw` | wallets of the parties | calls of several accounts in any order; transfers that fail; a price of 64 bits | money is neither stranded nor spent twice, verdicts are final |
| Nonces (`bot.js` 384-508, table `nonces`) | one row per e-mail, per client address, ... with nonce and validity | `maybeSetNonce`, `checkNonce` | every page, login, verification | statements of concurrent requests interleave; the DELETE is not awaited; expired rows stay | a nonce is honoured only as stored, and nobody loses one to somebody else |
| New contracts (`bot.js` 1076-1136, `public/templates/new-contract.html`, `index.html`) | table `contracts`, the page open in a tab | GET and POST `/new-contract`, the page's deployment callbacks | nonces, chain, database | minutes pass between page, mining and POST; other tabs, reloads, restarts | every row is about a real contract and its real parties |
| Accounts and web sessions (`bot.js` 346-382, 640-728, 787-1047) | table `users`, session in redis, a copy of it per request | login, logout, registration, verification | nonces, mail, redis | un-awaited login; sessions written last-writer-wins | a session speaks for a user who gave the password there, or whose link was opened there |
| Pages (`bot.js` 167-275, 731-862, 1048-1136) | options shared by all requests (`COMMON_OPTS`), pages open in browsers, avatars | render home, profile, `/new-contract`; upload | nonces, sessions | one object is filled by several requests, with awaits between filling and rendering | a page shows its own visitor's nonce, an upload changes the avatar of nobody the browser is not entitled to |
| Permissions and role pages (`bot.js` 167-183, 515-634, 640-728, 1137-1246) | two constant tables; contract's status in the database | menus, admission; withdrawal, accept, refuse | chain, sessions | two tables in different words; chain and database are two copies | what is offered is open |
| Chat dialogue (`bot.js` 1278-1770, `lib/Client.js`, `lib/Session.js`, `lib/Storage.js`) | one row of `bot_sessions` per user, a copy of it per message | menus, prompts, messages held for an Init | messenger through redis, nonces, database | every change writes the whole copy, without waiting | the dialogue is never in a place the menus do not have, unless an Init put it there |
| Ethereum service (`lib/EthService.js`, `lib/WebSocketConnection.js`) | socket, requests in flight, subscriptions | connect, reconnect, request, subscribe | service over one web socket | error and close of one socket; timers; answers that come late | one connection, every request settles, subscriptions survive |
| Client start and remote calls (`lib/Client.js`, `lib/Session.js` 93-176) | calls in progress, moment of the last payment | ping until ready, `rpc`, start of services | headless client through redis, key store, Ethereum service | answers to several pings, of several processes; losses; restarts | services start once, when the headless client is ready; answers meet their calls |
| Database access (`lib/Storage.js`, `PsqlStore.js`) | table `key_value_store`, pool of connections | `setKey`, `getKey`; bulk statements | PostgreSQL or SQLite | two statements for one write; statements in any order; errors half way | a key behaves as one register |
| Identity service (`lib/IdService.js`), threads, units, rates, wallet, configuration, logging, mail, pages, build | caches at most | | | | |

`PROJECT.json` has the list of components with what is and what is not
modelled, and the hazards of the code, each at its line and with the properties
that watch it.

## Modules

| Module | Models | Extends or instantiates |
|---|---|---|
| `Shipment` | the contract, several of them, and the ether of the accounts | |
| `Escrow` | what a shipment promises: one payment, one debt, one collection | implemented by `Shipment` |
| `NonceStore` | table `nonces`, `maybeSetNonce`, `checkNonce` | |
| `NonceLifecycle` | what a nonce is: unborn, live, dead, honoured only while live | implemented by `NonceStore` |
| `ContractTracking` | `/new-contract` from page to row | `Shipment` and `NonceStore` composed |
| `Ledger` | what the table of contracts promises: a shipment the chain has is recorded or turned away, for good | implemented by `ContractTracking` |
| `EthSubscription` | `WebSocketConnection.js` and `EthService.js` | |
| `Line` | what the connection promises its callers: answers while it is up, a rejection when it falls, updates told once | implemented by `EthSubscription` |
| `BotDialogue` | chat sessions, menus and prompts | |
| `WebSession` | users, login, logout, registration, verification, sessions in redis | `NonceStore` composed |
| `Permissions` | the menu's table and the endpoints' table | |
| `WebPages` | pages made from shared or copied options, uploads | `WebSession` and `Permissions` |
| `Register` | what a stored key promises: atomic writes, reads that may come back empty | implemented by `KeyStore` |
| `KeyStore` | one key in either variant of the store | |
| `ClientServices` | pings, calls, answers, start of the services, the stored moment | `KeyStore` composed |
| `MCContractTrackingLive` | `ContractTracking` with a record of lost DELETEs, for liveness | `MCContractTracking` |
| other `MC*` | the instances TLC checks | the module of that name |
| `*_proofs` | theorems and proofs | the module of that name; those of composed modules also the proofs of their parts |

### Shipment

One action for each function; its guard is the conjunction of the function's
modifiers, as a call whose `require` fails changes nothing. `Withdraw` clears
the claim and transfers in one step, as a failed `transfer` reverts it all:
accounts in `Unpayable` accept no ether, so theirs never succeeds. Gas is not
modelled, and a call that changes nothing (a reading function, a withdrawal of
nothing) is a stutter. The constructor's price is a `uint64`; `PriceModulus`
stands for 2^64. Deploying is an action of any account with any receiver, as
nothing in the constructor checks either.

*Backed* ties the balance of a contract to the claims in it, *VerdictFinal*,
*PaysOnlyOnCompletion* and *GainsOnlyTheDebt* say what no step may do, and
*ImplementsEscrow* that the code's mapping from accounts to claims is one debt
to the seller, gone when collected.

### NonceStore

A request is idle, has an INSERT or a SELECT under way, or has the answer of
its SELECT and not yet run the continuation (`bot.js` 407). The arguments of a
statement are fixed when the request makes the call, and so is the instant the
SELECT compares validities with. DELETEs in flight are a set, executed at any
time, in any order, since the code does not wait for them and the pool has
several connections. A row holds nonce, e-mail, client address and validity.
`Holder` is the row that ON CONFLICT (email) replaces and `IpTaken` the case in
which the other unique index refuses the statement. Nonces are drawn at random
from 62^64 strings; the model draws each number once. Rows of chat users are
left out: they have neither an e-mail nor a client address, and the unique
indexes on those two columns never see them. A request may present 0, which
stands for no nonce at all: it matches no row. An INSERT that fails is one that
was not executed; that one executes and its answer is lost is modelled for the
recording of contracts alone, where a row is what counts. A nonce stored and
never answered is in nobody's hands, and keeps its row until it is replaced.

*Stuck* are the rows whose nonce was honoured and whose DELETE is neither in
flight nor about to be sent. *SpentLeaves* says that a row gets stuck in two ways
only, a restart and a DELETE that fails: what a nonce being usable a second time
may be put down to.

### ContractTracking

The chain's variables and the store's are those of `Shipment` and `NonceStore`,
and its actions call theirs. A GET is a request named after its tab, a POST one
named after its contract. The page shown in a tab has its nonce; `Submit` is
`submitNewContract`, `Mined` the chain, `Post` the constructor's second
callback, which runs only in a page that is still open, `Check`, `Admitted` and
`Record` are the server's three steps for the POST. The row of the web user
whose nonce is looked up is taken to exist. An INSERT into `contracts` may
execute while the page is told that it failed, or nothing, by a process that
restarts: stage "unheard".

A page may have been opened by the chat's button *New Shipment*, whose link has
a nonce of the chat user in its query (`bot.js` 1291, 1439). The page posts to
`window.location.href`, query included, and `maybeRetrieveNoncedData` prefers
the query's nonce to the body's (`bot.js` 481-492); `Presented` is that choice.
The chat's nonce is in no row with an e-mail, so either it is not found and the
page is refused, or it is found, no user is, and the handler fails on
`res.locals.user.user_id` (`ChatFound`). Either way the page's contract is not
recorded, with one exception that the model has too: if the SELECT of the user
fails, its answer is `false`, whose `user_id` is undefined, and the handler goes
on.

The repository's own word to the user is in the page: "Please, stay in this
page until the contract is deployed!" (`new-contract.html` 88) "Otherwise we
won't be able to track it..." (89). Run `contract_tracking_stay`, without faults,
restarts, chat or other users, shows that staying is not enough. The user
opens the page in one tab and deploys; he opens the same page, or his profile,
in another tab; `maybeSetNonce` finds his e-mail in the table and replaces the
nonce; the first tab posts a nonce that is not there, and its contract is
deployed and never recorded.

*RefusedForAReason* lists what a page can be refused for: it was opened by the
chat's button; its nonce was never stored, because another user's row holds the
client's address or because the INSERT failed; it was replaced; it ran out; it
was spent on another contract of the same page. A page whose SELECT fails is
"cut", not refused. *TrackedByItsPage* says on whose nonce rows are recorded,
the exception above apart.

`Ledger` is what remains when pages, nonces and requests are hidden. A shipment
appears on the chain; then it is recorded in the chain's words, or turned away, and
nothing changes or undoes either. *ImplementsLedger* maps the ten stages of a
contract to three fates. It says more than that the rows are true (*TrackedIsReal*,
which follows, and is proved too): that a page refused or cut off by a restart is
not recorded later, and one recorded is never turned away. A contract recorded
while its page heard otherwise counts as recorded: the table has it.

`MCContractTrackingLive` adds to it a variable that remembers whether a DELETE
was lost, so that it can be said that otherwise every honoured nonce is soon out
of the table (*HonouredThenGone*), whoever stores and presents nonces meanwhile.

### EthSubscription

`ws` is the socket the object has (0 for none), `timers` the `setTimeout`s that
will connect again, `requests` all requests ever made, `outgoing` those whose
promise is not settled, `polling` those that wait in `_sendRequest` for the
connection. `Errors`, `Closes` and `Opens` are the socket's events; the first
two run `onClose`, both for one socket when it breaks. The service is external:
it answers each request, and pushes an update once to every socket that asked
for its address. Two assumptions are built in and not proved: the timer for
the next connection (200 ms at least) does not fire between a socket's error
and its close, which the library emits one after the other; and the service
accepts what it is asked.

*NothingForgotten* is what has to hold between two drops for nobody to wait for
ever: each unsettled promise has its request or its answer on the object's own
socket, or is polled for; each address to be watched is, or is being subscribed
on that socket, or will be when the next one opens. `Line` is what callers see of
it, with sockets, timers and messages hidden: promises are settled by an answer
while the line is up, or all at once by its fall, and an update is told once.
*ImplementsLine* maps `connected`, the number of requests, `outgoing` and `heard`
to it. That a line falls twice is in `Line` because the code's does: `onClose` runs
for a socket's error and for its close, and rejects at the second what was asked
after the first.

### BotDialogue

The messages of one user. Each has an object with a copy of the row (`Load`),
on which the handler works. `Data` is what the dialogue depends on: whether the
payment address is known, the message held for an Init, submenu, prompt phase
and the contract picked at the list of shipments. A handler is one step that
takes the copy through a *trail* of contents, and sends a write of each
(`setSessionVar` and `maybeRetrieveSessionVar` both write); help goes on after
its query as a step of its own, on the same copy, whatever that is by then.
Writes land in any order, or fail, and a restart loses those not landed. A
SELECT that fails is, in `Storage.js`, a user never seen before.

`HandleInit` copies the content of an Init into the session key by key, whatever
the keys are (`Client.js` 70-72), each with a write of its own, and releases the
message held whether or not a `paymentAddress` was among them (73-82). `Contents`
are the contents that come: the address asked for, an empty one, none, and keys
under which the bot keeps its place, with a submenu that is none of its menus
("elsewhere"). An Init may put the dialogue anywhere, and the code has no guard
against it. So the history `own` follows each copy and each write: it is lost
when an Init brings a key that the menus read and the bot did not ask for.

*EverySound* says that whatever lands last, the row is a place the menus have:
the assertions in `help` and `onCommandOrMessage` hold, a prompt is never
undefined, nobody is past the list without a pick, as long as it is `own`. It holds although the writes
are unordered because each single content of every trail is sound by itself,
which is why it is stated of copies and pending writes too. *OfferedAsPicked*
says that the buttons for accepting and refusing carry an answer to the list of
shipments, although they are made from the session as it is after their nonces
were stored, and other messages, lists and Inits moved it meanwhile; again of
sessions that are `own`. Without that condition TLC refutes both with one Init.

### WebSession

A tab is a browser's page and has one request at a time; the browser has the
session. Users may be registered before, as a registration takes the row of
its client address with an e-mail of NULL, which nothing removes: no nonce is
stored from that address afterwards, and nobody logs in from it. POST `/login` with the right password answers with a nonce (`token`),
and the page goes to `/?action=login` with it. `checkPermissions` tests the
promise of `maybeSetSession`, not its result (`bot.js` 652), so the rest of the
login is a *follower* that goes on by itself while the browser does other
things: `Follow`, `Looked`, `Honoured`, `Entered` are its steps. The nonce is
whichever the address has: `checkIP` is meant to compare the client's address,
but the result of `concat` is thrown away (`bot.js` 501). So `Follow` takes any
nonce in the table, of a login, a page or a registration, in any browser of
`CarriedTo`, a bound that names where links got elsewhere are opened. The session is
written whole by whoever ends last, a login or a logout. A mail is the e-mail
and the nonce in its links.

*SessionIsEarned* says for whom a session may speak (*Entitled*): for a user
whose password was typed in that browser, or for one whose password was typed in
some browser and a nonce of whom was opened, as a link, in this one. `typed` and
`carried` are history for it. The second half is what the code admits by not
comparing the address: without it TLC refutes the property with one link carried
to another browser. What is left to hold is that nothing else brings a session
its user: no login that ends late or after another, no row written over between
SELECT and continuation, no stale copy of a logout.

Run `web_session_tip`: the answer of `/verify` to a link it does not find says
"Tip: You must verify your email address from the same IP used for
registration..." (`bot.js` 1010). The counterexample is a user who does. POST
`/register` stores the nonce under `req.body.email` (`bot.js` 903), which the
form does not send, and `/verify` looks for a row with the e-mail. So in the
model, as in the code, `Verify` never succeeds and `ReportVerify` never finds
anybody; what they would do to a user is in the model and not reached.
*LinksFindNobody* and *NobodyVerified* say so, and are proved for every instance
rather than checked.

### Permissions and WebPages

`Permissions` has no variables: *submenus* is the menu's table, *permissions*
the endpoints' one, *Offered* and *Admitted* the functions that read them, and
*LinksOpen* compares the two for every role and status. Roles are looked up for
an address the session never gets, so today everybody has the role `any` alone.
A lookup of roles that fails answers the string "any" instead of a list
(`bot.js` 600), on which `reduce` throws (232, 697) unless the entry is open to
all: that page is then an error. `Permissions` does not have that case.

`WebPages` takes `WebSession`'s actions and says what the browser is shown.
`common` is `COMMON_OPTS`, the one object `/profile` fills and renders from;
the home page and `/new-contract` copy it. `making` is a page between the
request's first step and its last await: the menu of `/profile` may be the next
visitor's by then, and its nonce may not, because it is put in and rendered in
one step after the await. *NonceIsOwn* says so of every page. *LinksAreOpen* is
stated of pages made on a copy; of `/profile` it would be false, and nothing in
the repository promises it. An upload (`Send` to `SetAvatar`) acts for whomever
the nonce in the page was stored for, whatever the browser's session is by then;
*AvatarIsEarned* says that it is somebody the browser is entitled to speak for,
in the sense of `WebSession`: `FollowHome` is a login by any link there is.

### KeyStore and ClientServices

`KeyStore` is one key of `key_value_store`. The PostgreSQL variant writes with
one statement, the SQLite variant looks first and then inserts or updates;
statements of several writes interleave. *ImplementsRegister* says that both are
one atomic register: a write that loses the race between its look and its INSERT
is refused, not half done. A failed SELECT answers like a missing key, and the
register allows it.

`ClientServices` has a process that may restart (`life`), calls numbered anew
by each, and a headless client behind redis, which delivers only to whoever
listens. `Answered` looks a call up by number alone, `Called` is the callback
once the session is loaded, `Configured` the start of the Ethereum service from
the moment stored, `Heard` the moment stored, unawaited, at each payment. The
model shows an answer to a process before taken for one's own call, and
*AnsweredAsAsked* states that this is the only confusion, and that no call is
answered twice; *StartedOnce* that the
services do not start too early, that late answers to other pings do not start
them again, and that one that began to start either waits for the stored moment
or hears of payments; *AsksFromHeard* that the moment asked
from is one at which something was heard, whatever order the writes took.

## Runs

| Run | Bounds, and why they are enough | Shows |
|---|---|---|
| `shipment` | 2 contracts, 3 accounts of which 1 unpayable, prices around the modulus | a second contract and a third account are what it takes to confuse debts; every function interleaves with every other |
| `nonce_store` | 2 requests, 2 nonces, 2 users and no user, 2 client addresses, 1 tick, faults | two requests give every interleaving of SELECT, DELETE and INSERT of different callers; one nonce is presented while the other replaces it |
| `contract_tracking` | 2 tabs of 2 users behind one address, one of them also opened by the chat's button, 2 contracts, 2 nonces, 1 tick, faults; 1.5 million states | a page, its reload, a second submission, another user and the chat, all together |
| `contract_tracking_live` | the same with 1 contract, the chat's button in the other tab | liveness of the server's side, of the POST and of the DELETE nobody awaits |
| `contract_tracking_stay` | 2 tabs of 1 user, 1 contract, 2 nonces, no ticks, no faults, no chat | a counterexample, see above: nothing but the second page is there to explain it |
| `eth_subscription` | 2 drops, 2 calls, 1 address, 1 update | a drop during the reconnection that follows a drop |
| `eth_subscription_live` | the same without updates | liveness of requests and subscriptions |
| `bot_dialogue` | 3 messages of 6 kinds, 3 texts, 4 contents of Inits, from a new or a known user, faults; 0.8 million states | one message to enter a submenu, one to answer, one that interferes; or one that is held, an Init, and one more |
| `web_session` | 2 browsers of 1 tab behind one address, one used by 2 users, the other opening links got elsewhere, 2 logins going on, 2 nonces, 1 tick, faults; 1.4 million states | a login going on while another user logs in, or the first logs out, in the same browser, and a link carried to a client with the same address; the general case, links carried anywhere, is proved |
| `web_session_tip` | the same | a counterexample, see above |
| `web_pages` | 2 users behind one address, each with a browser of 1 tab and logged in at first, links opened in one of them, 1 login going on, 2 nonces, no ticks, faults; 3 million states | two pages of two users in the making at one time, an upload beside a logout or a login; a third request could only put a third menu into the same place |
| `client_services` | both stores, 2 writes at a time, 2 calls a life, 2 lives, 3 moments, failing statements | two lives make an answer meet a call of the next process, two writes and three moments store an older one last, two calls lose one ping and answer another |

Deadlock is checked except in `eth_subscription`, `eth_subscription_live` and
`client_services`, which stop when drops, calls, lives and moments are used up,
`bot_dialogue`, which stops when all messages are handled, and
`contract_tracking_stay`, which stops when nonces are used up.

`MaxNonce`, `MaxTime`, `MaxCalls`, `MaxLives` and `MaxDrops` are bounds of the
model alone and named so where they are declared; so are `FromChat` and
`CarriedTo`, which say where the chat's button and links are opened. Symmetry is used where tabs,
logins, requests, contracts or session objects are interchangeable, and in no
run with a liveness property.

**Fairness.** `MCContractTrackingLive!LiveSpec`: the event loop runs every
continuation of the POST of each contract, the database executes the statements
or fails them, the DELETEs nobody awaits too, and an open page runs its
callback. Users and the chain owe nothing. `EthSubscription!FairSpec`: timers
fire, a socket that is connecting opens or fails, the service answers on an
open socket; drops are limited, which says that the network comes back some
day. `ClientServices!FairSpec`: the interval fires, the event loop runs what has
come, the database executes what it is sent, the headless client answers what
it has; that it is up is the premise of *StartsWhenReady*, not an assumption.
Nothing else is assumed fair; a run with faults never assumes that they happen
or stop.

## Proofs

`Shipment_proofs` (assumptions: those of the constants in `Shipment`). The
inductive invariant adds *PartiesKnown* to *TypeOK* and *Backed*: that a debt
is to the sender is only kept by a step when a contract's sender is an account,
fixed since deployment. The action properties and the refinement follow from
the invariant for each step.

`NonceStore_proofs`. That the rows are single (*OneEach*) follows from the
statement, provided the nonce to insert is not in the log yet (*InsertsFresh*,
*LogDrawn*: drawn numbers in flight are distinct and not stored). What is
honoured was stored (*HonouredAsStored*): the SELECT's row is in the log when it
is found, and the log only grows, whatever happens to the row later. A DELETE
spares the new because the nonce of one in flight was honoured (*Presented*).
*SpentLeaves* goes through the steps: a row spent by an answer has its request
waiting to send the DELETE, one that is sent stays under way until it runs, and a
row replaced holds a nonce nobody presented. *NoneStuck* is its corollary where
nothing fails.
*ImplementsLifecycle*: each of `Next`'s steps changes the phase of one nonce as
the life cycle allows, or of none; replacing a row is a birth and a death.

`EthSubscription_proofs`. *OneConnection* needs that a socket closing after its
error was given up (*ClosingGivenUp*). That no update is heard twice rests on it:
of one connection one socket can watch, so an update is under way to one socket
at most (*PushedOnce*). *NothingForgotten* is inductive beside these (*FInv*): a
drop empties `outgoing` and leaves the addresses to the next open, whose
resubscriptions are one for each (lemma *ListedSet*), and in between only the
service and the answer's own callback take a message away. *ImplementsLine* maps
each step to one of `Line` or to a stutter; `Notified` needs *PushedOnce* for it,
and that an open socket is the object's. Types need that whatever is under way is about a request made
(*Promised*), and that the callbacks are finitely many, or there would be no
sequence of them to subscribe again (*Served*).

`ContractTracking_proofs` (assumptions: `TrackingAssumption`, and
`ComposedAssumption`, which are those of the parts). *PartsBehave* shows that
every behaviour of the composition is, for the variables of a part, one of that
part, so the theorems of `NonceStore_proofs` and `Shipment_proofs` hold in it
without a second proof; *NoncesKeepTheirWord* and *ContractsKeepTheirWord* list
them. On this rest *TrackedIsReal* (*RealInv*: what a page
posts is what it deployed), *ImplementsLedger* (the same invariant: whatever is
recorded or turned away, the chain has, and what is recorded is what it has), *TrackedByItsPage* (*Owned*: whose nonce it is that a
page holds; *HonouredInv*: in whose name a POST goes on, unless the chat's button
opened its page and a statement failed) and *RefusedForAReason*
(*RefusedInv*: each reason, once there, stays). The invariants of the parts are
kept although the chat's nonce is in a row the model leaves out, as `ChatFound`
only ends a SELECT that found none of the web users' rows.

`WebSession_proofs` (assumption: `SessionAssumption`). *SessionIsEarned* needs
that the nonce a login asks for is of a user whose password was typed there
(*Asked*), that a browser is entitled to whomever the nonce it was handed was stored
for (*Answered*) and a login goes on for (*Entering*), and that every nonce in the
log is of somebody whose password was typed in some browser, or of nobody
(*Logged*): that entitles whoever opens a link with it (lemma *FollowInv*). Numbers
are drawn once, so nobody else is handed the same. *NoLinkFinds* needs that a nonce mailed was stored without an e-mail, which
is in the log when it is stored (*Mailed*), that a link has an e-mail, and that
rows keep theirs; *NobodyIsVerified* follows. `NonceStore`'s invariant is kept because the steps on the table are its
own, and those of `/verify` and `/report-verify`, which only remove rows, keep it
too (*ShrunkStore*). As nothing is found there, these steps remove none, so every
behaviour of `WebSession` is one of `NonceStore` for the table's variables, and
its action properties and its refinement hold in it (*NoncesKeepTheirWord*).

`WebPages_proofs`. The same invariant, whose lemmas are stated for one action
each and used again, with one for each tab: what is being made for it
(*MakingAt*), what it shows (*ShownAt*), what it uploads (*SendingAt*), and never
both at once (*AloneAt*). Pages and uploads present nonces like any request, so
what is proved of the table and of sessions in `WebSession` is proved of them too
(*PageNoncesKeepTheirWord*, *SessionsStayEarned*). *LinksAreOpen* needs no roles to be known: the two
tables agree for each of them.

`ClientServices_proofs` (assumption: `ClientAssumption`). *StartedOnce*:
a result comes only from a headless client that is ready (*ResultsWhenReady*).
*AnsweredAsAsked*: in one life a number is given once, so a new call has neither the
number of one awaited nor of one whose answer is being loaded (*NumbersOnce*).
*ImplementsRegister*: each step of `KeyStore` is one of `Register` or none.
*AsksFromHeard*: every moment stored, under way or read was heard of
(*HeardMoments*).

`BotDialogue_proofs` (assumption: `DialogueAssumption`). Every content a handler
writes back, and not the last alone, is a place the menus have and has a choice
out of those picked (*Trail*, *Good*), if the content it began with was. An Init's keys keep the
place sound or take `own` away, key by key. That
the buttons carry a choice at all needs that nothing takes a choice away: the
lemmas are stated for any set of choices, and applied once to those picked or
none, and once, for an Init that shows buttons and then releases the message it
held, to those picked alone.

Only model-checked: all liveness (*MinedThenSettled*, *HonouredThenGone*,
*EverySettles*, *KeepsWatching*, *SetsSettle*, *StartsWhenReady*), which is out of
the prover's reach, and the two counterexamples. Of three of them the safety part
is proved: what is still under way for each promise and address
(*NothingForgotten*, for *EverySettles* and *KeepsWatching*) and for each nonce
spent (*SpentLeaves*, for *HonouredThenGone*); that fairness then moves it on is
TLC's.

## Not modelled

The components listed as such in `PROJECT.json`, with reasons. In the modelled
ones:

- **Role pages and status.** No session gets an address, so every request for
  `/withdrawal`, `/set-completed-contract` and `/set-refused-contract`, and
  every POST that copies the status from chain to database, is refused, or
  answered with an error where the contract is not in the table. A model of what
  follows admission would have no reachable state; `Permissions` has the
  decision itself.
- **`/verify`, `/report-verify` after their SELECT.** In `WebSession` as one
  step, because no link finds a row (`bot.js` 903).
- **`PsqlStore.js`, bulk statements.** Nothing calls them. `MySQLStore` and the
  SQLite variant's sessions, likewise, are not what the bot runs on; of
  `Storage.js` the keys of both variants and the sessions of PostgreSQL are
  modelled.
- **`IdService.js`.** The test of its cache is inverted, so each lookup is a
  request of its own; `BotDialogue` has a profile arriving at some time.
- **`unit.js`, `Fiat.js`.** Every caller converts ether to wei, a multiplication
  of digits without state; the branches that are not plain (negative amounts,
  other units) have no caller. Rates are cached for five minutes, and every
  reader is satisfied with what it finds.
- **Chat users' nonces (`bot.js` 287-344).** Rows with neither e-mail nor
  address, presented at the role pages, which refuse everybody, and by pages of
  `/new-contract` that the chat's button opened: `ContractTracking` has what
  becomes of those, found or not, and leaves the rows themselves out.
- **Pages and chat served before the database is connected (`bot.js` 100-160).**
  A request in that window fails on an undefined store; no property is about it.
- **Threads, wallet, configuration, logging, console, mail, build, examples and
  vendored code.** Not used by the bot, or no state after start.
