--------------------------- MODULE ClientServices ---------------------------
(* How the bot starts and what it calls: Client pings the headless client,   *)
(* which signs and sends for it, through redis every second until the first  *)
(* answer with a result comes; then it starts the Ethereum service from the  *)
(* moment stored when it last heard of a payment. redis hands a message to   *)
(* those connected at that moment and to nobody else, so a call or an answer *)
(* is lost when the other side is not there; calls are matched to answers by *)
(* a number that each process counts from 0.                                 *)
(*                                                                           *)
(* Drops of the Ethereum service's connection are EthSubscription's, what    *)
(* the dialogue does with a payment is BotDialogue's. Left out: the profile  *)
(* and the row each answer's Session loads, of which neither can fail it.    *)
EXTENDS Integers

CONSTANTS Writers, Kinds, StoreFails,   \* KeyStore
          MaxCalls,    \* bound: the calls of one process
          MaxLives,    \* bound: how often the process starts
          MaxTime      \* bound: how far the clock ticks

ASSUME ClientAssumption ==
    /\ Kinds \subseteq {"psql", "sqlite"} /\ StoreFails \in BOOLEAN
    /\ MaxCalls \in Nat /\ MaxLives \in Nat \ {0}
    /\ MaxTime \in Nat \ {0}

VARIABLES
    kind, stored, set, get, got,   \* KeyStore: lastTransactionTimestamp
    life,       \* the number of the process
    nextRpcId,
    rpcCalls,   \* the calls whose answer is awaited
    loading,    \* answers that came, while their Session is loaded
    starts,     \* how often this process started its services
    watching,   \* whether EthService.subscribe was called
    since,      \* the moment it was asked to list payments from
    headless,   \* external: the headless client
    published,  \* external: calls the headless client has, not yet answered
    now,        \* the clock
    heardAt     \* history: the moments payments were heard of

store == <<kind, stored, set, get, got>>
process == <<life, nextRpcId, rpcCalls, loading, starts, watching>>
outside == <<headless, published, now>>
past == <<since, heardAt>>
vars == <<store, process, outside, past>>

Moments == 1 .. MaxTime
NoMoment == 0

K == INSTANCE KeyStore WITH Values <- Moments, NoValue <- NoMoment

\* A call: the life it was made in, its number and what it is for.
Rpc == [life : 1 .. MaxLives, id : 0 .. MaxCalls - 1, kind : {"ping", "send"}]
\* An answer come for a call: to a call of its number, a result or an error.
Answer == [call : Rpc, to : Rpc, result : BOOLEAN]

TypeOK ==
    /\ K!KTypeOK
    /\ life \in 1 .. MaxLives
    /\ nextRpcId \in 0 .. MaxCalls
    /\ rpcCalls \subseteq Rpc
    /\ loading \subseteq Answer
    /\ starts \in Nat /\ watching \in BOOLEAN
    /\ since \in Moments \cup {NoMoment}
    /\ headless \in {"down", "starting", "ready"}
    /\ published \subseteq Rpc
    /\ now \in Moments /\ heardAt \subseteq Moments

Init ==
    /\ K!KInit
    /\ life = 1 /\ nextRpcId = 0 /\ rpcCalls = {} /\ loading = {}
    /\ starts = 0 /\ watching = FALSE /\ since = NoMoment
    /\ headless \in {"down", "ready"}
    /\ published = {}
    /\ now = 1 /\ heardAt = {}

-----------------------------------------------------------------------------
\* rpc

\* Bound: a number is kept for a ping when the headless client is ready.
Room(spare) == nextRpcId + spare < MaxCalls

\* Mutant of getRpcId: the number is not counted up.
getRpcIdSame == UNCHANGED nextRpcId
getRpcId == nextRpcId' = nextRpcId + 1

\* The call is entered under its number and published, to whoever is there.
rpc(what) ==
    LET call == [life |-> life, id |-> nextRpcId, kind |-> what]
    IN  /\ getRpcId
        /\ rpcCalls' = {c \in rpcCalls : c.id # call.id} \cup {call}
        /\ published' = IF headless = "down" THEN published ELSE published \cup {call}
        /\ UNCHANGED <<store, life, loading, starts, watching,
                       headless, now, past>>

\* Mutant of Ping: the interval is cleared by the first call already.
PingOnce ==
    /\ starts = 0 /\ nextRpcId = 0
    /\ rpc("ping")

\* The interval, each second until it is cleared.
Ping ==
    /\ starts = 0
    /\ Room(IF headless = "ready" THEN 0 ELSE 1)
    /\ rpc("ping")

\* Session.sendEth, called by a message's handler.
Send ==
    /\ Room(IF starts = 0 THEN 1 ELSE 0)
    /\ rpc("send")

\* The calls in the table under a number: one, or none.
Awaited(id) == {c \in rpcCalls : c.id = id}

\* The headless client answers a call, in any order, with a result if it is
\* ready. The message reaches whichever process listens now, which looks the call
\* up by number and takes it out; one not there throws, and the error is logged.
Answered(c) ==
    /\ c \in published
    /\ published' = published \ {c}
    /\ rpcCalls' = rpcCalls \ Awaited(c.id)
    /\ loading' = loading \cup
          {[call |-> d, to |-> c, result |-> headless = "ready"] : d \in Awaited(c.id)}
    /\ UNCHANGED <<store, life, nextRpcId, starts, watching,
                   headless, now, past>>

-----------------------------------------------------------------------------
\* Start of the services

\* Mutant of Ready: each answer starts the services.
ReadyAgain(l) == l.call.kind = "ping" /\ l.result

\* The ping's callback: if (result && !started).
Ready(l) == l.call.kind = "ping" /\ l.result /\ starts = 0

\* The Session is loaded and the callback runs. A send's replies to the user.
Called(l) ==
    /\ l \in loading
    /\ loading' = loading \ {l}
    /\ IF Ready(l) THEN K!getKey /\ starts' = starts + 1
       ELSE UNCHANGED <<store, starts>>
    /\ UNCHANGED <<life, nextRpcId, rpcCalls, watching, outside, past>>

\* Mutant of Configured: with no moment stored, payments are listed from now on.
ConfiguredFromNow ==
    /\ K!Gets
    /\ watching' = TRUE
    /\ since' = IF got' = NoMoment THEN now ELSE got'
    /\ UNCHANGED <<life, nextRpcId, rpcCalls, loading, starts, outside, heardAt>>

\* configureServices, when getKey answers.
Configured ==
    /\ K!Gets
    /\ watching' = TRUE
    /\ since' = IF got' = NoMoment THEN since ELSE got'
    /\ UNCHANGED <<life, nextRpcId, rpcCalls, loading, starts, outside, heardAt>>

\* Mutant of Heard: the moment is asked for before EthService has noted it.
HeardUnnoted(w) ==
    /\ watching /\ now \notin heardAt
    /\ K!setKey(w, NoMoment)
    /\ heardAt' = heardAt \cup {now}
    /\ UNCHANGED <<process, outside, since>>

\* The callback of subscribe, told of a payment: the moment is stored, and
\* nobody waits for it. Bound: one payment a moment, as all store the same.
Heard(w) ==
    /\ watching /\ now \notin heardAt
    /\ K!setKey(w, now)
    /\ heardAt' = heardAt \cup {now}
    /\ UNCHANGED <<process, outside, since>>

Stores(w) ==
    /\ K!Statement(w)
    /\ UNCHANGED <<process, outside, past>>

StoringFails(w) ==
    /\ K!SetFails(w)
    /\ UNCHANGED <<process, outside, past>>

\* Mutant of Restart: the services are taken to be running still.
RestartStarted ==
    /\ life < MaxLives /\ life' = life + 1
    /\ K!Forget
    /\ nextRpcId' = 0 /\ rpcCalls' = {} /\ loading' = {}
    /\ watching' = FALSE
    /\ UNCHANGED <<starts, outside, past>>

\* The process starts anew; what the headless client has been asked, it has.
Restart ==
    /\ life < MaxLives /\ life' = life + 1
    /\ K!Forget
    /\ nextRpcId' = 0 /\ rpcCalls' = {} /\ loading' = {}
    /\ starts' = 0 /\ watching' = FALSE
    /\ UNCHANGED <<headless, published, now, since, heardAt>>

-----------------------------------------------------------------------------
\* External: the headless client, and the clock

\* It comes up, at first unable to do what it is asked, and gets ready.
HeadlessUp ==
    /\ \/ headless = "down" /\ headless' = "starting"
       \/ headless # "ready" /\ headless' = "ready"
    /\ UNCHANGED <<store, process, published, now, past>>

Tick ==
    /\ now < MaxTime
    /\ now' = now + 1
    /\ UNCHANGED <<store, process, headless, published, past>>

-----------------------------------------------------------------------------
Next ==
    \/ Ping \/ Send
    \/ \E l \in loading : Called(l)
    \/ Configured
    \/ \E w \in Writers : Heard(w) \/ Stores(w) \/ StoringFails(w)
    \/ \E c \in published : Answered(c)
    \/ HeadlessUp
    \/ Restart \/ Tick

Spec == Init /\ [][Next]_vars

\* Timers fire, the event loop runs what has come, the database executes what it
\* is sent, and the headless client answers what it has.
FairSpec ==
    /\ Spec
    /\ WF_vars(Ping)
    /\ WF_vars(\E l \in loading : Called(l))
    /\ WF_vars(Configured)
    /\ \A w \in Writers : WF_vars(Stores(w))
    /\ WF_vars(\E c \in published : Answered(c))

-----------------------------------------------------------------------------
\* What starting and calling must never get wrong.

\* Pings go on until an answer comes, so several come, and some of them are the
\* errors of a client still starting or were meant for the process before
\* (Client.js:131). They start the services once: a process that has begun to
\* either waits for the stored moment or hears of payments, one that has not
\* does neither, and the headless client was ready by then.
StartedOnce ==
    /\ starts = IF get \/ watching THEN 1 ELSE 0
    /\ ~(get /\ watching)
    /\ starts > 0 => headless = "ready"

\* A callback gets the answer of its own call, unless a process before counted
\* to the same number: the numbers start again, the headless client does not. And
\* it gets one: while its answer is on its way to it no other finds the call.
AnsweredAsAsked ==
    \A l \in loading :
       /\ l.to = l.call \/ l.to.life < l.call.life
       /\ l.call \notin rpcCalls
       /\ \A k \in loading : k.call = l.call => k = l

\* Payments are asked for from a moment at which one was heard of, by whichever
\* process, though the moments are stored in any order and some are lost.
AsksFromHeard == since # NoMoment => since \in heardAt

\* Each write of the moment is one write of a register.
ImplementsRegister == K!R!RSpec

\* Whoever sets a key gets to know how it ended.
SetsSettle == \A w \in Writers : ~K!Idle(w) ~> K!Idle(w)

\* Once the headless client is up for good the services start and hear of
\* payments, whatever was lost before.
StartsWhenReady == <>[](headless = "ready") => <>[]watching

=============================================================================
