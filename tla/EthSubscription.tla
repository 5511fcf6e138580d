--------------------------- MODULE EthSubscription ---------------------------
(* How the bot keeps hearing of payments: WebSocketConnection, one object    *)
(* that keeps one socket to a service and opens another when it drops, and   *)
(* EthService, which asks over it for the updates of an address and asks     *)
(* again after each reconnection. Timers, socket events and answers each run *)
(* as one step of the event loop.                                            *)
(*                                                                           *)
(* Left out: disconnect, readRequest and sendResponse, which nothing in the  *)
(* repository calls; the delays of timers, of which only one ordering counts *)
(* (Reconnect); and list_payment_updates' answer, which no caller reads.     *)
EXTENDS Integers, Sequences, SequencesExt

CONSTANTS Addresses,   \* the addresses payments are watched at
          Updates,     \* the payment updates the service has to tell
          MaxCalls,    \* bound: calls of EthService's functions
          MaxDrops     \* bound: how often the network drops the socket

ASSUME SubscriptionAssumption == MaxCalls \in Nat /\ MaxDrops \in Nat

VARIABLES socket,        \* [Sockets -> its state]
          ws,            \* the object's socket, 0 for null
          timers,        \* how many timers will call connect
          connected, wasConnected,
          requests,      \* every request made, in the order of its id
          outgoing,      \* the ids whose promise is not settled
          polling,       \* the ids _sendRequest waits to send
          net,           \* requests and answers under way
          watched,       \* the keys of subscriptionCallbacks
          serving,       \* external: [Sockets -> addresses the service watches for it]
          pushed,        \* external: [update, socket] under way
          heard,         \* [Updates -> how often the callbacks got it]
          calls, drops   \* counted against the bounds

conn == <<socket, ws, timers, connected, wasConnected, drops>>
rpcs == <<requests, outgoing, polling>>
vars == <<conn, rpcs, net, watched, serving, pushed, heard, calls>>

Sockets == 1 .. MaxDrops + 1
States == {"new", "connecting", "open", "closing", "closed"}
Ids == 1 .. Len(requests)

\* followed: whether a resolved promise goes on to list_payment_updates.
Request == [method : {"subscribe", "list_payment_updates", "get_balance"},
            followed : BOOLEAN, address : Addresses]

Subscribes(i, a) == requests[i].method = "subscribe" /\ requests[i].address = a

Envelope == [socket : Sockets, id : Nat, kind : {"request", "answer"}]

TypeOK ==
    /\ socket \in [Sockets -> States]
    /\ ws \in Sockets \cup {0}
    /\ timers \in Nat /\ calls \in Nat /\ drops \in 0 .. MaxDrops
    /\ connected \in BOOLEAN /\ wasConnected \in BOOLEAN
    /\ requests \in Seq(Request)
    /\ outgoing \subseteq Ids /\ polling \subseteq Ids
    /\ net \subseteq Envelope
    /\ watched \subseteq Addresses
    /\ serving \in [Sockets -> SUBSET Addresses]
    /\ pushed \subseteq (Updates \X Sockets)
    /\ heard \in [Updates -> Nat]

\* initialize connects at once; nobody has subscribed.
Init ==
    /\ socket = [k \in Sockets |-> IF k = 1 THEN "connecting" ELSE "new"]
    /\ ws = 1 /\ timers = 0
    /\ connected = FALSE /\ wasConnected = FALSE
    /\ requests = <<>> /\ outgoing = {} /\ polling = {}
    /\ net = {} /\ watched = {}
    /\ serving = [k \in Sockets |-> {}]
    /\ pushed = {}
    /\ heard = [u \in Updates |-> 0]
    /\ calls = 0 /\ drops = 0

Live(k) == socket[k] \in {"connecting", "open"}

-----------------------------------------------------------------------------
\* WebSocketConnection

Sent(ids, k) == [socket : {k}, id : ids, kind : {"request"}]

\* Mutant of NewIds: the id before the increment is used for the promise.
NewIdsEarly(rs) == Len(requests) .. Len(requests) + Len(rs) - 1

\* jsonrpcId++ for each request.
NewIds(rs) == Len(requests) + 1 .. Len(requests) + Len(rs)

\* sendRequest for each of rs: a promise each, sent at once when the connection
\* is up and polled for when it is not. Whoever calls says what is unsettled.
sendRequests(rs, unsettled, up) ==
    /\ requests' = requests \o rs
    /\ outgoing' = unsettled \cup NewIds(rs)
    /\ IF up
       THEN net' = net \cup Sent(NewIds(rs), ws) /\ UNCHANGED polling
       ELSE polling' = polling \cup NewIds(rs) /\ UNCHANGED net

\* _sendRequest's timer, when it finds the connection up. It does not ask
\* whether the promise was rejected meanwhile.
Poll(i) ==
    /\ i \in polling
    /\ ws # 0 /\ connected
    /\ polling' = polling \ {i}
    /\ net' = net \cup Sent({i}, ws)
    /\ UNCHANGED <<conn, requests, outgoing, watched, serving, pushed, heard, calls>>

\* connect, called by a timer. The socket dropped last has had its close event:
\* it comes within a step or two of the error, the timer after 200 ms.
Reconnect ==
    /\ timers > 0
    /\ \A k \in Sockets : socket[k] # "closing"
    /\ \E k \in Sockets :
          /\ socket[k] = "new"
          /\ \A j \in Sockets : j < k => socket[j] # "new"
          /\ socket' = [socket EXCEPT ![k] = "connecting"]
          /\ ws' = k
    /\ timers' = timers - 1
    /\ UNCHANGED <<connected, wasConnected, drops, rpcs, net, watched, serving,
                   pushed, heard, calls>>

Subscription(a, followed) ==
    [method |-> "subscribe", followed |-> followed, address |-> a]

\* Mutant of Resubscriptions: EthService registers no callback.
NoResubscriptions == <<>>

\* EthService's reconnect callback: _resubscribe for every address.
Resubscriptions ==
    LET as == SetToSeq(watched) IN [n \in DOMAIN as |-> Subscription(as[n], TRUE)]

\* onOpen: the first connection asks for nothing, each later one resubscribes.
Opens(k) ==
    /\ socket[k] = "connecting"
    /\ socket' = [socket EXCEPT ![k] = "open"]
    /\ connected' = TRUE
    /\ wasConnected' = TRUE
    /\ sendRequests(IF wasConnected THEN Resubscriptions ELSE <<>>, outgoing, ws # 0)
    /\ UNCHANGED <<ws, timers, drops, watched, serving, pushed, heard, calls>>

\* Mutants of onClose: a timer whether or not the socket was given up already;
\* the socket not forgotten; promises left as they are.
onCloseAlways ==
    /\ connected' = FALSE
    /\ outgoing' = {}
    /\ ws' = 0 /\ timers' = timers + 1
onCloseKeeping ==
    /\ connected' = FALSE
    /\ outgoing' = {}
    /\ IF ws # 0 THEN timers' = timers + 1 /\ UNCHANGED ws ELSE UNCHANGED <<ws, timers>>
onCloseSilently ==
    /\ connected' = FALSE
    /\ UNCHANGED outgoing
    /\ IF ws # 0 THEN ws' = 0 /\ timers' = timers + 1 ELSE UNCHANGED <<ws, timers>>

\* Every promise is rejected, and unless the socket was given up already a
\* timer is set to connect again.
onClose ==
    /\ connected' = FALSE
    /\ outgoing' = {}
    /\ IF ws # 0 THEN ws' = 0 /\ timers' = timers + 1 ELSE UNCHANGED <<ws, timers>>

\* onError, for a socket that will report its close next.
Errors(k) ==
    /\ Live(k)
    /\ drops < MaxDrops
    /\ drops' = drops + 1
    /\ socket' = [socket EXCEPT ![k] = "closing"]
    /\ IF ws # 0 THEN onClose ELSE UNCHANGED <<ws, timers, connected, outgoing>>
    /\ UNCHANGED <<wasConnected, requests, polling, net, watched, serving,
                   pushed, heard, calls>>

Closes(k) ==
    /\ \/ Live(k) /\ drops < MaxDrops /\ drops' = drops + 1
       \/ socket[k] = "closing" /\ UNCHANGED drops
    /\ socket' = [socket EXCEPT ![k] = "closed"]
    /\ onClose
    /\ UNCHANGED <<wasConnected, requests, polling, net, watched, serving,
                   pushed, heard, calls>>

\* onMessage with an id. Only a promise still there is settled and followed.
Answered(m) ==
    /\ m \in net /\ m.kind = "answer" /\ socket[m.socket] = "open"
    /\ IF m.id \in outgoing /\ requests[m.id].followed
       THEN LET list == [method |-> "list_payment_updates", followed |-> FALSE,
                         address |-> requests[m.id].address]
            IN  /\ requests' = Append(requests, list)
                /\ outgoing' = (outgoing \ {m.id}) \cup {Len(requests) + 1}
                /\ IF ws # 0 /\ connected
                   THEN /\ net' = (net \ {m}) \cup Sent({Len(requests) + 1}, ws)
                        /\ UNCHANGED polling
                   ELSE /\ net' = net \ {m}
                        /\ polling' = polling \cup {Len(requests) + 1}
       ELSE /\ net' = net \ {m}
            /\ outgoing' = outgoing \ {m.id}
            /\ UNCHANGED <<requests, polling>>
    /\ UNCHANGED <<conn, watched, serving, pushed, heard, calls>>

\* onMessage with a method: the listener runs the callbacks of the address.
Notified(u, k) ==
    /\ <<u, k>> \in pushed /\ socket[k] = "open"
    /\ pushed' = pushed \ {<<u, k>>}
    /\ heard' = [heard EXCEPT ![u] = @ + 1]
    /\ UNCHANGED <<conn, rpcs, net, watched, serving, calls>>

-----------------------------------------------------------------------------
\* EthService, as its callers use it

Call(rs) ==
    /\ calls < MaxCalls
    /\ calls' = calls + 1
    /\ sendRequests(rs, outgoing, ws # 0 /\ connected)
    /\ UNCHANGED <<conn, serving, pushed, heard>>

\* subscribe, from the moment lastMessageTimestamp if there was one (since).
Subscribe(a, since) ==
    LET list == [method |-> "list_payment_updates", followed |-> FALSE, address |-> a]
    IN  /\ Call((IF a \in watched THEN <<>> ELSE <<Subscription(a, FALSE)>>)
                \o (IF since THEN <<list>> ELSE <<>>))
        /\ watched' = watched \cup {a}

\* getBalance, and getTransaction like it.
Ask(a) ==
    /\ Call(<<[method |-> "get_balance", followed |-> FALSE, address |-> a]>>)
    /\ UNCHANGED watched

-----------------------------------------------------------------------------
\* External: the service, which accepts what it is asked and pushes each update
\* once to each socket that watches its address. One socket's messages may be
\* lost when it drops.

Serves(m) ==
    /\ m \in net /\ m.kind = "request" /\ socket[m.socket] = "open"
    /\ net' = (net \ {m}) \cup {[m EXCEPT !.kind = "answer"]}
    /\ serving' = IF requests[m.id].method = "subscribe"
                  THEN [serving EXCEPT ![m.socket] = @ \cup {requests[m.id].address}]
                  ELSE serving
    /\ UNCHANGED <<conn, rpcs, watched, pushed, heard, calls>>

Watchers(a) == {k \in Sockets : socket[k] = "open" /\ a \in serving[k]}

\* The update happens at a; heard[u] tells whether it already did.
Pushes(u, a) ==
    /\ heard[u] = 0 /\ \A k \in Sockets : <<u, k>> \notin pushed
    /\ Watchers(a) # {}
    /\ pushed' = pushed \cup ({u} \X Watchers(a))
    /\ UNCHANGED <<conn, rpcs, net, watched, serving, heard, calls>>

-----------------------------------------------------------------------------
Next ==
    \/ Reconnect
    \/ \E k \in Sockets : \/ Opens(k) \/ Errors(k) \/ Closes(k)
                          \/ \E u \in Updates : Notified(u, k)
    \/ \E i \in Ids : Poll(i)
    \/ \E m \in net : Answered(m) \/ Serves(m)
    \/ \E a \in Addresses : \/ \E since \in BOOLEAN : Subscribe(a, since)
                            \/ Ask(a)
                            \/ \E u \in Updates : Pushes(u, a)

Spec == Init /\ [][Next]_vars

\* Timers fire, sockets open or fail, and while a socket is up the service
\* answers. MaxDrops says the network comes back some day.
FairSpec ==
    /\ Spec
    /\ WF_vars(Reconnect)
    /\ \A k \in Sockets : WF_vars(Opens(k) \/ Errors(k) \/ Closes(k))
    /\ WF_vars(\E i \in Ids : Poll(i))
    /\ WF_vars(\E m \in net : Answered(m))
    /\ WF_vars(\E m \in net : Serves(m))

-----------------------------------------------------------------------------
\* What the connection must never get wrong.

\* Whatever comes of errors, closes and timers, the object tends one connection:
\* it has a socket and no timer, or one timer and no socket; a socket it has
\* given up is never left open behind it, and it thinks itself connected only
\* when that socket is open.
OneConnection ==
    /\ timers = IF ws = 0 THEN 1 ELSE 0
    /\ \A k \in Sockets : Live(k) <=> k = ws
    /\ connected <=> \E k \in Sockets : socket[k] = "open"

\* No payment update reaches the bot's callbacks twice.
HeardOnce == \A u \in Updates : heard[u] <= 1

Sought(a) ==
    \/ \E i \in polling : Subscribes(i, a)
    \/ /\ wasConnected
       /\ connected => \/ a \in serving[ws]
                       \/ \E m \in net : /\ m.kind = "request" /\ m.socket = ws
                                         /\ Subscribes(m.id, a)

\* Nothing is left to itself between two drops: a promise that is not settled
\* has its request or its answer under way on the object's socket, or is to be
\* sent yet; and an address that should be watched is, or its subscription is
\* on its way there or to be sent yet, or the next open asks for it.
NothingForgotten ==
    /\ \A i \in outgoing : i \in polling \/ \E m \in net : m.id = i /\ m.socket = ws
    /\ \A a \in watched : Sought(a)

\* Over all its drops, resubscriptions and promises the connection is the line
\* of module Line: a promise is settled by its answer or by the line's fall, and
\* an update is told once, while the line is up.
L == INSTANCE Line WITH up <- connected, made <- Len(requests),
                        waiting <- outgoing, told <- heard
ImplementsLine == L!LSpec

\* Every promise sendRequest returned is settled.
EverySettles == \A i \in 1 .. 2 * (MaxCalls + MaxDrops) : i \in outgoing ~> i \notin outgoing

\* An address once subscribed to is being watched, again after each drop, though
\* the drop came before the first answer or during the resubscription.
KeepsWatching ==
    \A a \in Addresses :
        a \in watched ~> ws # 0 /\ socket[ws] = "open" /\ a \in serving[ws]

=============================================================================
