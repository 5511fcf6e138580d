----------------------- MODULE EthSubscription_proofs -----------------------
(* Proofs that WebSocketConnection tends one connection and that no update  *)
(* is heard twice, for any number of drops and calls. The first invariant   *)
(* adds what makes the second of two close events harmless: a socket still  *)
(* closing has already been given up. The second rests on the first.        *)
EXTENDS EthSubscription, FiniteSetTheorems, TLAPS

ConnTyped ==
    /\ socket \in [Sockets -> States]
    /\ ws \in Sockets \cup {0}
    /\ connected \in BOOLEAN

ClosingGivenUp == \A k \in Sockets : socket[k] = "closing" => ws = 0

IInv == ConnTyped /\ ClosingGivenUp /\ OneConnection

LEMMA ZeroIsNull == 0 \notin Sockets /\ 1 \in Sockets
  BY SubscriptionAssumption DEF Sockets

\* One socket is connecting at first, and it is the object's.
LEMMA InitIInv == Init => IInv
  BY ZeroIsNull
  DEF Init, IInv, ConnTyped, ClosingGivenUp, OneConnection, Live, States

\* connect keeps it: the timer was the only one, and no socket was left.
LEMMA ReconnectIInv == ASSUME IInv, Reconnect PROVE IInv'
<1>1. ws = 0 /\ timers = 1 /\ timers' = 0
  BY DEF Reconnect, IInv, OneConnection
<1>2. PICK k \in Sockets : /\ socket[k] = "new" /\ ws' = k
                           /\ socket' = [socket EXCEPT ![k] = "connecting"]
  BY DEF Reconnect
<1>3. UNCHANGED connected /\ \A j \in Sockets : socket[j] # "closing"
  BY DEF Reconnect
<1>4. ConnTyped' /\ ClosingGivenUp'
  BY <1>2, <1>3 DEF IInv, ConnTyped, ClosingGivenUp, States
<1>5. \A j \in Sockets : j # k => socket'[j] = socket[j]
  BY <1>2 DEF IInv, ConnTyped
<1>6. socket'[k] = "connecting"
  BY <1>2 DEF IInv, ConnTyped
<1>7. OneConnection'
  BY <1>1, <1>2, <1>3, <1>5, <1>6, ZeroIsNull DEF IInv, OneConnection, Live
<1>8. QED
  BY <1>4, <1>7 DEF IInv

\* open keeps it: the socket that opens is the object's, the only one alive.
LEMMA OpensIInv == ASSUME IInv, NEW k \in Sockets, Opens(k) PROVE IInv'
<1>1. /\ socket[k] = "connecting" /\ connected' = TRUE
      /\ socket' = [socket EXCEPT ![k] = "open"] /\ UNCHANGED <<ws, timers>>
  BY DEF Opens
<1>2. socket'[k] = "open" /\ \A j \in Sockets : j # k => socket'[j] = socket[j]
  BY <1>1 DEF IInv, ConnTyped
<1>3. ConnTyped' /\ ClosingGivenUp'
  BY <1>1, <1>2 DEF IInv, ConnTyped, ClosingGivenUp, States
<1>4. OneConnection'
  BY <1>1, <1>2 DEF IInv, OneConnection, Live
<1>5. QED
  BY <1>3, <1>4 DEF IInv

\* A socket that is alive is the object's, and onClose gives it up for a timer.
LEMMA DroppedIInv ==
    ASSUME IInv, NEW k \in Sockets, Live(k), NEW s \in {"closing", "closed"},
           socket' = [socket EXCEPT ![k] = s], onClose
    PROVE  IInv'
<1>1. ws = k /\ timers = 0 /\ ws # 0
  BY ZeroIsNull DEF IInv, OneConnection
<1>2. ws' = 0 /\ timers' = 1 /\ connected' = FALSE
  BY <1>1 DEF onClose
<1>3. socket'[k] = s /\ \A j \in Sockets : j # k => socket'[j] = socket[j]
  BY DEF IInv, ConnTyped
<1>4. ConnTyped' /\ ClosingGivenUp'
  BY <1>2 DEF IInv, ConnTyped, ClosingGivenUp, States
<1>5. OneConnection'
  <2>1. \A j \in Sockets : ~Live(j)'
    BY <1>1, <1>3 DEF IInv, OneConnection, Live
  <2>2. QED
    BY <1>2, <2>1, ZeroIsNull DEF OneConnection, Live
<1>6. QED
  BY <1>4, <1>5 DEF IInv

\* The close event that follows an error keeps it: nothing is left to give up.
LEMMA LateCloseIInv ==
    ASSUME IInv, NEW k \in Sockets, socket[k] = "closing", Closes(k)
    PROVE  IInv'
<1>1. ws = 0 /\ timers = 1
  BY DEF IInv, ClosingGivenUp, OneConnection
<1>2. /\ UNCHANGED <<ws, timers>> /\ connected' = FALSE
      /\ socket' = [socket EXCEPT ![k] = "closed"]
  BY <1>1 DEF Closes, onClose
<1>3. socket'[k] = "closed" /\ \A j \in Sockets : j # k => socket'[j] = socket[j]
  BY <1>2 DEF IInv, ConnTyped
<1>4. ConnTyped' /\ ClosingGivenUp'
  BY <1>1, <1>2 DEF IInv, ConnTyped, ClosingGivenUp, States
<1>5. OneConnection'
  <2>1. \A j \in Sockets : ~Live(j)'
    BY <1>1, <1>3, ZeroIsNull DEF IInv, OneConnection, Live
  <2>2. QED
    BY <1>1, <1>2, <2>1, ZeroIsNull DEF OneConnection, Live
<1>6. QED
  BY <1>4, <1>5 DEF IInv

LEMMA NextIInv == IInv /\ [Next]_vars => IInv'
<1> SUFFICES ASSUME IInv, [Next]_vars PROVE IInv'
  OBVIOUS
<1>1. ASSUME Reconnect PROVE IInv'
  BY <1>1, ReconnectIInv
<1>2. ASSUME NEW k \in Sockets, Opens(k) PROVE IInv'
  BY <1>2, OpensIInv
<1>3. ASSUME NEW k \in Sockets, Errors(k) PROVE IInv'
  <2>1. Live(k) /\ socket' = [socket EXCEPT ![k] = "closing"]
    BY <1>3 DEF Errors
  <2>2. onClose
    BY <1>3, <2>1, ZeroIsNull DEF Errors, IInv, OneConnection
  <2>3. QED
    BY <2>1, <2>2, DroppedIInv
<1>4. ASSUME NEW k \in Sockets, Closes(k) PROVE IInv'
  <2>1. CASE Live(k)
    BY <1>4, <2>1, DroppedIInv DEF Closes
  <2>2. CASE socket[k] = "closing"
    BY <1>4, <2>2, LateCloseIInv
  <2>3. QED
    BY <1>4, <2>1, <2>2 DEF Closes
<1>5. ASSUME UNCHANGED conn PROVE IInv'
  BY <1>5 DEF conn, IInv, ConnTyped, ClosingGivenUp, OneConnection, Live
<1>6. QED
  BY <1>1, <1>2, <1>3, <1>4, <1>5
  DEF Next, vars, Notified, Poll, Answered, Serves, Subscribe, Ask, Call, Pushes

\* Through any number of drops, errors followed by closes and reconnections,
\* the object tends exactly one connection.
THEOREM TendsOne == Spec => []OneConnection
<1>1. IInv => OneConnection
  BY DEF IInv
<1>2. QED
  BY InitIInv, NextIInv, <1>1, PTL DEF Spec

-----------------------------------------------------------------------------
\* An update is under way to one socket at most, and once heard to none.
PushedOnce ==
    /\ heard \in [Updates -> {0, 1}]
    /\ \A u \in Updates, k \in Sockets : <<u, k>> \in pushed => heard[u] = 0
    /\ \A u \in Updates, j, k \in Sockets :
          <<u, j>> \in pushed /\ <<u, k>> \in pushed => j = k

\* The service tells those who watch, and of one connection one can.
LEMMA PushesOnce ==
    ASSUME IInv, PushedOnce, NEW u \in Updates, NEW a \in Addresses, Pushes(u, a)
    PROVE  PushedOnce'
<1>1. heard' = heard /\ heard[u] = 0 /\ \A k \in Sockets : <<u, k>> \notin pushed
  BY DEF Pushes
<1>2. \A v \in Updates, k \in Sockets :
          <<v, k>> \in pushed' => <<v, k>> \in pushed \/ (v = u /\ k \in Watchers(a))
  BY DEF Pushes, Watchers
<1>3. \A j, k \in Watchers(a) : j = k
  BY DEF Watchers, IInv, OneConnection, Live
<1>4. QED
  BY <1>1, <1>2, <1>3 DEF PushedOnce

LEMMA NotifiedOnce ==
    ASSUME PushedOnce, NEW u \in Updates, NEW k \in Sockets, Notified(u, k)
    PROVE  PushedOnce'
<1>1. /\ <<u, k>> \in pushed /\ pushed' = pushed \ {<<u, k>>}
      /\ heard' = [heard EXCEPT ![u] = heard[u] + 1] /\ heard[u] = 0
  BY DEF Notified, PushedOnce
<1>2. \A j \in Sockets : <<u, j>> \notin pushed'
  BY <1>1 DEF PushedOnce
<1>3. /\ heard' \in [Updates -> {0, 1}]
      /\ \A v \in Updates : v # u => heard'[v] = heard[v]
  BY <1>1 DEF PushedOnce
<1>4. \A v \in Updates, j \in Sockets :
          <<v, j>> \in pushed' => v # u /\ <<v, j>> \in pushed
  BY <1>1, <1>2
<1>5. QED
  BY <1>3, <1>4 DEF PushedOnce

LEMMA NextPushedOnce == IInv /\ PushedOnce /\ [Next]_vars => PushedOnce'
<1> SUFFICES ASSUME IInv, PushedOnce, [Next]_vars PROVE PushedOnce'
  OBVIOUS
<1>1. CASE \E u \in Updates, a \in Addresses : Pushes(u, a)
  BY <1>1, PushesOnce
<1>2. CASE \E u \in Updates, k \in Sockets : Notified(u, k)
  BY <1>2, NotifiedOnce
<1>3. CASE UNCHANGED <<heard, pushed>>
  BY <1>3 DEF PushedOnce
<1>4. QED
  BY <1>1, <1>2, <1>3
  DEF Next, vars, Reconnect, Opens, Errors, Closes, Poll, Answered, Serves,
      Subscribe, Ask, Call

\* No payment update reaches the bot's callbacks twice, however the connection
\* was dropped and the address subscribed again in between.
THEOREM HearsOnce == Spec => []HeardOnce
<1>1. Init => PushedOnce
  BY DEF Init, PushedOnce
<1>2. PushedOnce => HeardOnce
  BY DEF PushedOnce, HeardOnce
<1>3. QED
  BY InitIInv, NextIInv, NextPushedOnce, <1>1, <1>2, PTL DEF Spec

-----------------------------------------------------------------------------
\* Types. What is under way is about a request that was made, and as callbacks
\* are entered one by one, those to subscribe again can be listed.

\* What goes with the promises of the requests made.
Promised ==
    /\ requests \in Seq(Request)
    /\ outgoing \subseteq Ids /\ polling \subseteq Ids
    /\ net \subseteq Envelope /\ \A m \in net : m.id \in Ids

Served ==
    /\ watched \subseteq Addresses /\ IsFiniteSet(watched)
    /\ serving \in [Sockets -> SUBSET Addresses]
    /\ pushed \subseteq (Updates \X Sockets)
    /\ heard \in [Updates -> Nat]

Counted ==
    /\ wasConnected \in BOOLEAN /\ calls \in Nat /\ drops \in 0 .. MaxDrops

TInv == IInv /\ Promised /\ Served /\ Counted

\* SetToSeq lists a finite set, and leaves nobody out.
LEMMA ListedSet ==
    ASSUME NEW S, IsFiniteSet(S)
    PROVE  /\ SetToSeq(S) \in Seq(S)
           /\ \A x \in S : \E n \in DOMAIN SetToSeq(S) : SetToSeq(S)[n] = x
<1> DEFINE c == Cardinality(S)
<1>1. c \in Nat /\ ExistsBijection(1 .. c, S)
  BY FS_CardinalityType
<1>2. \E f \in [1 .. c -> S] : IsInjective(f)
  BY <1>1, Zenon DEF ExistsBijection, Bijection, Injection
<1>3. SetToSeq(S) \in [1 .. c -> S] /\ IsInjective(SetToSeq(S))
  BY <1>2, Zenon DEF SetToSeq
<1>4. SetToSeq(S) \in Injection(1 .. c, S)
  BY <1>3, Zenon DEF Injection
<1>5. Cardinality(1 .. c) = c
  BY <1>1, FS_Interval
<1>6. SetToSeq(S) \in Surjection(1 .. c, S)
  BY <1>4, <1>5, FS_Injection
<1>7. DOMAIN SetToSeq(S) = 1 .. c
  BY <1>3
<1>8. \A x \in S : \E n \in DOMAIN SetToSeq(S) : SetToSeq(S)[n] = x
  BY <1>6, <1>7, Zenon DEF Surjection
<1> HIDE DEF c
<1>9. SetToSeq(S) \in Seq(S)
  BY <1>1, <1>3
<1>10. QED
  BY <1>8, <1>9

LEMMA SubscriptionsOf ==
    ASSUME NEW s \in Seq(Addresses)
    PROVE  [n \in DOMAIN s |-> Subscription(s[n], TRUE)] \in Seq(Request)
<1> DEFINE k == Len(s)
           rs == [n \in DOMAIN s |-> Subscription(s[n], TRUE)]
<1>1. k \in Nat /\ DOMAIN s = 1 .. k
  OBVIOUS
<1>2. \A n \in DOMAIN s : Subscription(s[n], TRUE) \in Request
  BY DEF Subscription, Request
<1>3. rs \in [1 .. k -> Request]
  BY <1>1, <1>2
<1> HIDE DEF k, rs
<1>4. rs \in Seq(Request)
  BY <1>1, <1>3
<1>5. QED
  BY <1>4 DEF rs

LEMMA ResubscriptionsTyped ==
    ASSUME Served PROVE Resubscriptions \in Seq(Request)
<1>1. SetToSeq(watched) \in Seq(Addresses)
  BY ListedSet DEF Served
<1>2. QED
  BY <1>1, SubscriptionsOf DEF Resubscriptions

LEMMA RequestOf ==
    ASSUME Promised, NEW i \in Ids
    PROVE  requests[i].address \in Addresses
<1>1. requests[i] \in Request
  BY DEF Promised, Ids
<1>2. QED
  BY <1>1 DEF Request

LEMMA SentTyped ==
    ASSUME NEW ids \in SUBSET Nat, NEW k \in Sockets
    PROVE  Sent(ids, k) \subseteq Envelope /\ \A m \in Sent(ids, k) : m.id \in ids
  BY DEF Sent, Envelope

LEMMA RequestsSent ==
    ASSUME Promised, NEW rs \in Seq(Request), NEW up \in BOOLEAN, up => ws \in Sockets,
           sendRequests(rs, outgoing, up)
    PROVE  Promised'
<1>1. /\ requests' = requests \o rs
      /\ outgoing' = outgoing \cup NewIds(rs)
      /\ IF up THEN net' = net \cup Sent(NewIds(rs), ws) /\ polling' = polling
         ELSE polling' = polling \cup NewIds(rs) /\ net' = net
  BY DEF sendRequests
<1>2. requests' \in Seq(Request) /\ Len(requests') = Len(requests) + Len(rs)
  BY <1>1 DEF Promised
<1>3. Ids \subseteq Ids' /\ NewIds(rs) \subseteq Ids' /\ NewIds(rs) \subseteq Nat
  BY <1>2 DEF Ids, NewIds, Promised
<1>4. CASE up
  <2>1. /\ Sent(NewIds(rs), ws) \subseteq Envelope
        /\ \A m \in Sent(NewIds(rs), ws) : m.id \in NewIds(rs)
    BY <1>3, <1>4, SentTyped
  <2>2. QED
    BY <1>1, <1>2, <1>3, <1>4, <2>1 DEF Promised
<1>5. CASE ~up
  BY <1>1, <1>2, <1>3, <1>5 DEF Promised
<1>6. QED
  BY <1>4, <1>5

\* Nothing new is under way, and no request is made.
LEMMA FewerPromised ==
    ASSUME Promised, requests' = requests, outgoing' \subseteq outgoing,
           polling' \subseteq polling, net' \subseteq net
    PROVE  Promised'
  BY DEF Promised, Ids

LEMMA PollPromised ==
    ASSUME TInv, NEW i \in Ids, Poll(i)
    PROVE  Promised'
<1>1. i \in Nat /\ ws \in Sockets
  BY DEF Poll, Ids, TInv, IInv, ConnTyped, Promised
<1>2. Sent({i}, ws) \subseteq Envelope /\ \A m \in Sent({i}, ws) : m.id \in {i}
  BY <1>1, SentTyped
<1>3. QED
  BY <1>2 DEF Poll, TInv, Promised, Ids

LEMMA AnsweredPromised ==
    ASSUME TInv, NEW m \in net, Answered(m)
    PROVE  Promised'
<1>1. CASE ~(m.id \in outgoing /\ requests[m.id].followed)
  BY <1>1, FewerPromised DEF Answered, TInv
<1>2. CASE m.id \in outgoing /\ requests[m.id].followed
  <2> DEFINE list == [method |-> "list_payment_updates", followed |-> FALSE,
                      address |-> requests[m.id].address]
             n == Len(requests) + 1
  <2>1. list \in Request
    <3>1. m.id \in Ids
      BY <1>2 DEF TInv, Promised
    <3>2. requests[m.id].address \in Addresses
      BY <3>1, RequestOf DEF TInv
    <3>3. QED
      BY <3>2 DEF Request
  <2>2. /\ requests' = Append(requests, list)
        /\ outgoing' \subseteq outgoing \cup {n}
        /\ polling' \subseteq polling \cup {n}
        /\ net' \subseteq net \cup (IF ws # 0 THEN Sent({n}, ws) ELSE {})
    BY <1>2 DEF Answered
  <2> HIDE DEF list
  <2>3. requests' \in Seq(Request) /\ Len(requests') = n
    BY <2>1, <2>2 DEF TInv, Promised
  <2>4. n \in Nat /\ n \in Ids' /\ Ids \subseteq Ids'
    BY <2>3 DEF Ids, TInv, Promised
  <2> HIDE DEF n
  <2>5. ws # 0 => Sent({n}, ws) \subseteq Envelope /\ \A x \in Sent({n}, ws) : x.id \in {n}
    BY <2>4, SentTyped DEF TInv, IInv, ConnTyped
  <2>6. net' \subseteq Envelope /\ \A x \in net' : x.id \in Ids'
    BY <2>2, <2>4, <2>5 DEF TInv, Promised
  <2>7. QED
    BY <2>2, <2>3, <2>4, <2>6 DEF TInv, Promised
<1>3. QED
  BY <1>1, <1>2

LEMMA ServesTyped ==
    ASSUME TInv, NEW m \in net, Serves(m)
    PROVE  Promised' /\ Served'
<1>1. m \in Envelope /\ m.id \in Ids
  BY DEF TInv, Promised
<1>2. [m EXCEPT !.kind = "answer"] \in Envelope /\ [m EXCEPT !.kind = "answer"].id = m.id
  BY <1>1 DEF Envelope
<1>3. Promised'
  BY <1>1, <1>2 DEF Serves, TInv, Promised, rpcs, Ids
<1>4. requests[m.id].address \in Addresses /\ m.socket \in Sockets
  BY <1>1, RequestOf DEF TInv, Envelope
<1>5. Served'
  BY <1>4 DEF Serves, TInv, Served
<1>6. QED
  BY <1>3, <1>5

LEMMA OpensTyped ==
    ASSUME TInv, NEW k \in Sockets, Opens(k)
    PROVE  Promised' /\ Served' /\ Counted'
<1> DEFINE rs == IF wasConnected THEN Resubscriptions ELSE <<>>
<1>1. rs \in Seq(Request)
  BY ResubscriptionsTyped DEF TInv
<1>2. (ws # 0) => ws \in Sockets
  BY DEF TInv, IInv, ConnTyped
<1>3. sendRequests(rs, outgoing, ws # 0)
  BY DEF Opens
<1> HIDE DEF rs
<1>4. Promised'
  BY <1>1, <1>2, <1>3, RequestsSent DEF TInv
<1>5. QED
  BY <1>4 DEF Opens, TInv, Served, Counted

LEMMA CallTyped ==
    ASSUME TInv, NEW rs \in Seq(Request), Call(rs),
           watched' \subseteq Addresses, IsFiniteSet(watched')
    PROVE  Promised' /\ Served' /\ Counted'
<1>1. (ws # 0 /\ connected) => ws \in Sockets
  BY DEF TInv, IInv, ConnTyped
<1>2. sendRequests(rs, outgoing, ws # 0 /\ connected)
  BY DEF Call
<1>3. Promised'
  BY <1>1, <1>2, RequestsSent DEF TInv
<1>4. QED
  BY <1>3 DEF Call, conn, TInv, Served, Counted

LEMMA SubscribeTyped ==
    ASSUME TInv, NEW a \in Addresses, NEW since \in BOOLEAN, Subscribe(a, since)
    PROVE  Promised' /\ Served' /\ Counted'
<1> DEFINE list == [method |-> "list_payment_updates", followed |-> FALSE, address |-> a]
           first == IF a \in watched THEN <<>> ELSE <<Subscription(a, FALSE)>>
           second == IF since THEN <<list>> ELSE <<>>
<1>1. Subscription(a, FALSE) \in Request /\ list \in Request
  BY DEF Subscription, Request
<1>2. first \in Seq(Request) /\ second \in Seq(Request)
  <2> DEFINE s == Subscription(a, FALSE)
  <2>1. s \in Request /\ list \in Request
    BY <1>1
  <2> HIDE DEF s, list
  <2>2. <<s>> \in Seq(Request) /\ <<list>> \in Seq(Request) /\ <<>> \in Seq(Request)
    BY <2>1
  <2>3. QED
    BY <2>2 DEF s
<1>3. Call(first \o second) /\ watched' = watched \cup {a}
  BY DEF Subscribe
<1> HIDE DEF first, second
<1>4. first \o second \in Seq(Request)
  BY <1>2
<1>5. watched' \subseteq Addresses /\ IsFiniteSet(watched')
  BY <1>3, FS_AddElement DEF TInv, Served
<1>6. QED
  BY <1>3, <1>4, <1>5, CallTyped

LEMMA AskTyped ==
    ASSUME TInv, NEW a \in Addresses, Ask(a)
    PROVE  Promised' /\ Served' /\ Counted'
<1> DEFINE rs == <<[method |-> "get_balance", followed |-> FALSE, address |-> a]>>
<1>1. rs \in Seq(Request)
  BY DEF Request
<1>2. Call(rs) /\ watched' = watched
  BY DEF Ask
<1> HIDE DEF rs
<1>3. QED
  BY <1>1, <1>2, CallTyped DEF TInv, Served

LEMMA StepTyped ==
    ASSUME TInv, [Next]_vars
    PROVE  Promised' /\ Served' /\ Counted'
<1>1. CASE Reconnect \/ UNCHANGED vars
  BY <1>1 DEF Reconnect, vars, conn, rpcs, TInv, Promised, Served, Counted, Ids
<1>2. ASSUME NEW k \in Sockets, Opens(k) PROVE Promised' /\ Served' /\ Counted'
  BY <1>2, OpensTyped
<1>3. ASSUME NEW k \in Sockets, Errors(k) \/ Closes(k)
      PROVE  Promised' /\ Served' /\ Counted'
  <2>1. /\ requests' = requests /\ outgoing' \subseteq outgoing
        /\ polling' = polling /\ net' = net
    BY <1>3 DEF Errors, Closes, onClose
  <2>2. drops' \in 0 .. MaxDrops
    BY <1>3, SubscriptionAssumption DEF Errors, Closes, TInv, Counted
  <2>3. UNCHANGED <<wasConnected, watched, serving, pushed, heard, calls>>
    BY <1>3 DEF Errors, Closes
  <2>4. QED
    BY <2>1, <2>2, <2>3, FewerPromised DEF TInv, Served, Counted
<1>4. ASSUME NEW k \in Sockets, NEW u \in Updates, Notified(u, k)
      PROVE  Promised' /\ Served' /\ Counted'
  BY <1>4 DEF Notified, conn, rpcs, TInv, Promised, Served, Counted, Ids
<1>5. ASSUME NEW i \in Ids, Poll(i) PROVE Promised' /\ Served' /\ Counted'
  BY <1>5, PollPromised DEF Poll, conn, TInv, Served, Counted
<1>6. ASSUME NEW m \in net, Answered(m) PROVE Promised' /\ Served' /\ Counted'
  BY <1>6, AnsweredPromised DEF Answered, conn, TInv, Served, Counted
<1>7. ASSUME NEW m \in net, Serves(m) PROVE Promised' /\ Served' /\ Counted'
  BY <1>7, ServesTyped DEF Serves, conn, TInv, Counted
<1>8. ASSUME NEW a \in Addresses, NEW since \in BOOLEAN, Subscribe(a, since)
      PROVE  Promised' /\ Served' /\ Counted'
  BY <1>8, SubscribeTyped
<1>9. ASSUME NEW a \in Addresses, Ask(a) PROVE Promised' /\ Served' /\ Counted'
  BY <1>9, AskTyped
<1>10. ASSUME NEW a \in Addresses, NEW u \in Updates, Pushes(u, a)
       PROVE  Promised' /\ Served' /\ Counted'
  BY <1>10 DEF Pushes, Watchers, conn, rpcs, TInv, Promised, Served, Counted, Ids
<1>11. QED
  BY <1>1, <1>2, <1>3, <1>4, <1>5, <1>6, <1>7, <1>8, <1>9, <1>10 DEF Next

LEMMA InitTInv == Init => TInv
<1> SUFFICES ASSUME Init PROVE TInv
  OBVIOUS
<1>1. Promised /\ Counted
  <2>1. requests \in Seq(Request) /\ outgoing = {} /\ polling = {} /\ net = {}
    BY DEF Init
  <2>2. drops = 0 /\ calls = 0 /\ wasConnected = FALSE
    BY DEF Init
  <2>3. 0 \in 0 .. MaxDrops
    BY SubscriptionAssumption
  <2>4. QED
    BY <2>1, <2>2, <2>3 DEF Promised, Counted
<1>2. Served
  BY FS_EmptySet DEF Init, Served
<1>3. QED
  BY <1>1, <1>2, InitIInv DEF TInv

LEMMA NextTInv == TInv /\ [Next]_vars => TInv'
  BY StepTyped, NextIInv DEF TInv

\* The variables keep their types: nothing is under way about a request that was
\* not made, and no timer is left beside the one that connects again.
THEOREM TypeCorrect == Spec => []TypeOK
<1>1. TInv => TypeOK
  BY DEF TInv, IInv, ConnTyped, OneConnection, Promised, Served, Counted, TypeOK
<1>2. QED
  BY InitTInv, NextTInv, <1>1, PTL DEF Spec

-----------------------------------------------------------------------------
\* Nothing is forgotten. A connection that is up was up before, and what is
\* under way is on the object's socket, the only one that can be answered on.

FInv == NothingForgotten /\ (connected => wasConnected)

\* What an open socket is: the object's.
LEMMA OpenIsOwn ==
    ASSUME IInv, NEW k \in Sockets, socket[k] = "open"
    PROVE  k = ws /\ connected /\ ws # 0
  BY ZeroIsNull DEF IInv, OneConnection, Live

LEMMA ConnectedHas == ASSUME IInv, connected PROVE ws \in Sockets /\ socket[ws] = "open"
  BY DEF IInv, ConnTyped, OneConnection, Live

\* A request stays what it is whatever is made after it.
LEMMA LaterRequests ==
    ASSUME NEW q \in Seq(Request), NEW rs \in Seq(Request)
    PROVE  /\ \A i \in 1 .. Len(q) : (q \o rs)[i] = q[i]
           /\ \A n \in DOMAIN rs : /\ (q \o rs)[Len(q) + n] = rs[n]
                                 /\ Len(q) + n \in Len(q) + 1 .. Len(q) + Len(rs)
  OBVIOUS

\* Whoever is sought stays sought while requests and messages only come in.
LEMMA StaysSought ==
    ASSUME NEW a, Sought(a), polling \subseteq Ids, \A m \in net : m.id \in Ids,
           \A i \in Ids : requests'[i] = requests[i],
           polling \subseteq polling', net \subseteq net',
           UNCHANGED <<ws, connected, wasConnected, serving>>
    PROVE  Sought(a)'
  BY DEF Sought, Subscribes

\* What is sent is on its way, at once or when the poll finds the line up.
LEMMA SentIsUnderWay ==
    ASSUME TInv, FInv, NEW rs \in Seq(Request), NEW up \in BOOLEAN,
           sendRequests(rs, outgoing, up), ws' = ws
    PROVE  /\ \A i \in Ids : requests'[i] = requests[i]
           /\ polling \subseteq polling' /\ net \subseteq net'
           /\ \A i \in outgoing' : \/ i \in polling'
                                  \/ \E m \in net' : m.id = i /\ m.socket = ws'
           /\ \A n \in DOMAIN rs :
                 /\ requests'[Len(requests) + n] = rs[n]
                 /\ \/ ~up /\ Len(requests) + n \in polling'
                    \/ up /\ \E m \in net' : /\ m.id = Len(requests) + n
                                           /\ m.kind = "request" /\ m.socket = ws
<1>1. /\ requests' = requests \o rs
      /\ outgoing' = outgoing \cup NewIds(rs)
      /\ IF up THEN net' = net \cup Sent(NewIds(rs), ws) /\ polling' = polling
         ELSE polling' = polling \cup NewIds(rs) /\ net' = net
  BY DEF sendRequests
<1>2. requests \in Seq(Request)
  BY DEF TInv, Promised
<1>3. /\ \A i \in Ids : requests'[i] = requests[i]
      /\ \A n \in DOMAIN rs : /\ requests'[Len(requests) + n] = rs[n]
                            /\ Len(requests) + n \in NewIds(rs)
  BY <1>1, <1>2, LaterRequests DEF Ids, NewIds
<1>4. \A i \in NewIds(rs) :
          \/ ~up /\ i \in polling'
          \/ up /\ \E m \in net' : m.id = i /\ m.kind = "request" /\ m.socket = ws
  <2> SUFFICES ASSUME NEW i \in NewIds(rs), up
               PROVE  \E m \in net' : m.id = i /\ m.kind = "request" /\ m.socket = ws
    BY <1>1
  <2> DEFINE m == [socket |-> ws, id |-> i, kind |-> "request"]
  <2>1. m \in Sent(NewIds(rs), ws)
    BY DEF Sent
  <2>2. m \in net'
    BY <1>1, <2>1
  <2>3. m.id = i /\ m.kind = "request" /\ m.socket = ws
    OBVIOUS
  <2>4. QED
    BY <2>2, <2>3
<1>5. \A i \in outgoing' : i \in polling' \/ \E m \in net' : m.id = i /\ m.socket = ws'
  BY <1>1, <1>4 DEF FInv, NothingForgotten
<1>6. QED
  BY <1>1, <1>3, <1>4, <1>5

LEMMA OpensForgetsNothing ==
    ASSUME TInv, FInv, NEW k \in Sockets, Opens(k)
    PROVE  FInv'
<1> DEFINE rs == IF wasConnected THEN Resubscriptions ELSE <<>>
<1>1. /\ connected' = TRUE /\ wasConnected' = TRUE /\ ws = k
      /\ UNCHANGED <<ws, watched, serving>>
      /\ sendRequests(rs, outgoing, ws # 0)
  BY DEF Opens, TInv, IInv, OneConnection, Live
<1>2. rs \in Seq(Request)
  BY ResubscriptionsTyped DEF TInv
<1>3. \A a \in watched : wasConnected => \E n \in DOMAIN rs : rs[n] = Subscription(a, TRUE)
  <2> SUFFICES ASSUME NEW a \in watched, wasConnected
               PROVE  \E n \in DOMAIN rs : rs[n] = Subscription(a, TRUE)
    OBVIOUS
  <2>1. PICK n \in DOMAIN SetToSeq(watched) : SetToSeq(watched)[n] = a
    BY ListedSet DEF TInv, Served
  <2>2. DOMAIN rs = DOMAIN SetToSeq(watched) /\ rs[n] = Subscription(a, TRUE)
    BY <2>1 DEF Resubscriptions
  <2>3. QED
    BY <2>2
<1> HIDE DEF rs
<1>4. ws # 0
  BY <1>1, ZeroIsNull
<1>5. /\ \A i \in Ids : requests'[i] = requests[i]
      /\ polling \subseteq polling'
      /\ \A i \in outgoing' : i \in polling' \/ \E m \in net' : m.id = i /\ m.socket = ws'
      /\ \A n \in DOMAIN rs :
            /\ requests'[Len(requests) + n] = rs[n]
            /\ \E m \in net' : /\ m.id = Len(requests) + n
                              /\ m.kind = "request" /\ m.socket = ws
  BY <1>1, <1>2, <1>4, SentIsUnderWay
<1>6. ASSUME NEW a \in watched' PROVE Sought(a)'
  <2>1. CASE \E i \in polling : Subscribes(i, a)
    BY <2>1, <1>5 DEF Sought, Subscribes, TInv, Promised
  <2>2. CASE wasConnected
    <3>1. PICK n \in DOMAIN rs : rs[n] = Subscription(a, TRUE)
      BY <1>1, <1>3, <2>2
    <3>2. PICK i \in Nat : i = Len(requests) + n
      BY <1>2 DEF TInv, Promised
    <3>3. Subscribes(i, a)'
      BY <1>5, <3>1, <3>2 DEF Subscribes, Subscription
    <3>4. QED
      BY <1>1, <1>5, <3>2, <3>3 DEF Sought
  <2>3. QED
    BY <1>1, <2>1, <2>2 DEF FInv, NothingForgotten, Sought
<1>7. QED
  BY <1>1, <1>5, <1>6 DEF FInv, NothingForgotten

\* A drop rejects every promise, and what was watched is asked for again.
LEMMA DropForgetsNothing ==
    ASSUME TInv, FInv, onClose, UNCHANGED <<wasConnected, requests, polling, watched>>
    PROVE  FInv'
<1>1. outgoing' = {} /\ connected' = FALSE
  BY DEF onClose
<1>2. \A a \in watched : Sought(a)'
  BY <1>1 DEF FInv, NothingForgotten, Sought, Subscribes
<1>3. QED
  BY <1>1, <1>2 DEF FInv, NothingForgotten

LEMMA PollForgetsNothing ==
    ASSUME TInv, FInv, NEW i \in Ids, Poll(i)
    PROVE  FInv'
<1>1. /\ polling' = polling \ {i} /\ net' = net \cup Sent({i}, ws) /\ connected
      /\ UNCHANGED <<ws, connected, wasConnected, requests, outgoing, watched, serving>>
  BY DEF Poll, conn
<1> DEFINE m == [socket |-> ws, id |-> i, kind |-> "request"]
<1>2. m \in net' /\ m.id = i /\ m.kind = "request" /\ m.socket = ws
  BY <1>1 DEF Sent
<1>3. \A j \in outgoing' : j \in polling' \/ \E x \in net' : x.id = j /\ x.socket = ws'
  BY <1>1, <1>2 DEF FInv, NothingForgotten
<1>4. ASSUME NEW a \in watched' PROVE Sought(a)'
  <2>1. CASE \E j \in polling : j # i /\ Subscribes(j, a)
    BY <1>1, <2>1 DEF Sought, Subscribes
  <2>2. CASE Subscribes(i, a)
    BY <1>1, <1>2, <2>2 DEF Sought, Subscribes, FInv
  <2>3. CASE Sought(a) /\ ~\E j \in polling : Subscribes(j, a)
    BY <1>1, <2>3 DEF Sought, Subscribes
  <2>4. QED
    BY <1>1, <2>1, <2>2, <2>3 DEF FInv, NothingForgotten
<1>5. QED
  BY <1>1, <1>3, <1>4 DEF FInv, NothingForgotten

LEMMA AnsweredForgetsNothing ==
    ASSUME TInv, FInv, NEW m \in net, Answered(m)
    PROVE  FInv'
<1>1. /\ connected /\ ws # 0 /\ m.kind = "answer"
      /\ UNCHANGED <<ws, connected, wasConnected, watched, serving>>
  BY OpenIsOwn DEF Answered, conn, TInv, Promised, Envelope
<1>2. ASSUME NEW i \in outgoing, i # m.id
      PROVE  i \in polling \/ \E x \in net \ {m} : x.id = i /\ x.socket = ws
  BY <1>2 DEF FInv, NothingForgotten
<1>3. polling' = polling /\ net \ {m} \subseteq net'
  BY <1>1 DEF Answered
<1>4. \A i \in Ids : requests'[i] = requests[i]
  BY DEF Answered, TInv, Promised, Ids
<1>5. ASSUME NEW i \in outgoing'
      PROVE  i \in polling' \/ \E x \in net' : x.id = i /\ x.socket = ws'
  <2> DEFINE n == Len(requests) + 1
             x == [socket |-> ws, id |-> n, kind |-> "request"]
  <2>1. CASE i \in outgoing /\ i # m.id
    BY <1>1, <1>2, <1>3, <2>1
  <2>2. CASE i = n /\ m.id \in outgoing /\ requests[m.id].followed
    <3>1. x \in net'
      BY <1>1, <2>2 DEF Answered, Sent
    <3>2. x.id = i /\ x.socket = ws'
      BY <1>1, <2>2
    <3>3. QED
      BY <3>1, <3>2
  <2>3. QED
    BY <2>1, <2>2 DEF Answered
<1>6. ASSUME NEW a \in watched' PROVE Sought(a)'
  BY <1>1, <1>3, <1>4 DEF FInv, NothingForgotten, Sought, Subscribes, TInv, Promised
<1>7. QED
  BY <1>1, <1>5, <1>6 DEF FInv, NothingForgotten

LEMMA ServesForgetsNothing ==
    ASSUME TInv, FInv, NEW m \in net, Serves(m)
    PROVE  FInv'
<1> DEFINE x == [m EXCEPT !.kind = "answer"]
<1>1. /\ m.socket = ws /\ ws \in Sockets /\ net' = (net \ {m}) \cup {x} /\ m.id \in Ids
      /\ UNCHANGED <<ws, connected, wasConnected, requests, outgoing, polling, watched>>
  BY OpenIsOwn DEF Serves, conn, rpcs, TInv, Promised, Envelope
<1>2. x.id = m.id /\ x.socket = m.socket
  BY DEF TInv, Promised, Envelope
<1>3. \A i \in outgoing' : i \in polling' \/ \E y \in net' : y.id = i /\ y.socket = ws'
  BY <1>1, <1>2 DEF FInv, NothingForgotten
<1>4. \A k \in Sockets : serving[k] \subseteq serving'[k]
  BY DEF Serves, TInv, Served
<1>5. \A a : Subscribes(m.id, a) => a \in serving'[ws]
  BY <1>1 DEF Serves, Subscribes, TInv, Served
<1>6. ASSUME NEW a \in watched' PROVE Sought(a)'
  BY <1>1, <1>4, <1>5 DEF FInv, NothingForgotten, Sought, Subscribes
<1>7. QED
  BY <1>1, <1>3, <1>6 DEF FInv, NothingForgotten

\* What a call asks for is on its way, and so is the address it comes to watch.
LEMMA CallForgetsNothing ==
    ASSUME TInv, FInv, NEW rs \in Seq(Request), Call(rs),
           \A a \in watched' : a \in watched \/ \E n \in DOMAIN rs : rs[n] = Subscription(a, FALSE)
    PROVE  FInv'
<1> DEFINE up == ws # 0 /\ connected
<1>1. /\ sendRequests(rs, outgoing, up)
      /\ UNCHANGED <<ws, connected, wasConnected, serving>>
  BY DEF Call, conn
<1>2. up \in BOOLEAN
  OBVIOUS
<1>3. up => connected
  OBVIOUS
<1> HIDE DEF up
<1>4. /\ \A i \in Ids : requests'[i] = requests[i]
      /\ polling \subseteq polling' /\ net \subseteq net'
      /\ \A i \in outgoing' : i \in polling' \/ \E m \in net' : m.id = i /\ m.socket = ws'
      /\ \A n \in DOMAIN rs :
            /\ requests'[Len(requests) + n] = rs[n]
            /\ \/ ~up /\ Len(requests) + n \in polling'
               \/ up /\ \E m \in net' : /\ m.id = Len(requests) + n
                                      /\ m.kind = "request" /\ m.socket = ws
  BY <1>1, <1>2, SentIsUnderWay
<1>5. ASSUME NEW a \in watched' PROVE Sought(a)'
  <2>1. CASE a \in watched
    BY <1>1, <1>4, <2>1, StaysSought DEF FInv, NothingForgotten, TInv, Promised
  <2>2. CASE \E n \in DOMAIN rs : rs[n] = Subscription(a, FALSE)
    <3>1. PICK n \in DOMAIN rs : rs[n] = Subscription(a, FALSE)
      BY <2>2
    <3>2. PICK i \in Nat : i = Len(requests) + n
      BY DEF TInv, Promised
    <3>3. Subscribes(i, a)'
      BY <1>4, <3>1, <3>2 DEF Subscribes, Subscription
    <3>4. QED
      BY <1>1, <1>3, <1>4, <3>2, <3>3 DEF Sought, FInv
  <2>3. QED
    BY <2>1, <2>2
<1>6. QED
  BY <1>1, <1>4, <1>5 DEF FInv, NothingForgotten

LEMMA SubscribeForgetsNothing ==
    ASSUME TInv, FInv, NEW a \in Addresses, NEW since \in BOOLEAN, Subscribe(a, since)
    PROVE  FInv'
<1> DEFINE list == [method |-> "list_payment_updates", followed |-> FALSE, address |-> a]
           s == Subscription(a, FALSE)
           first == IF a \in watched THEN <<>> ELSE <<s>>
           second == IF since THEN <<list>> ELSE <<>>
<1>1. s \in Request /\ list \in Request
  BY DEF Subscription, Request
<1>2. Call(first \o second) /\ watched' = watched \cup {a}
  BY DEF Subscribe
<1> HIDE DEF s, list
<1>3. first \in Seq(Request) /\ second \in Seq(Request)
  <2>1. <<s>> \in Seq(Request) /\ <<list>> \in Seq(Request) /\ <<>> \in Seq(Request)
    BY <1>1
  <2>2. QED
    BY <2>1
<1>4. a \notin watched => first = <<s>>
  OBVIOUS
<1> HIDE DEF first, second
<1>5. first \o second \in Seq(Request)
  BY <1>3
<1>6. a \notin watched => 1 \in DOMAIN (first \o second) /\ (first \o second)[1] = s
  <2>1. CASE a \notin watched
    <3>1. Len(first) = 1 /\ first[1] = s /\ Len(first \o second) >= 1
      BY <1>3, <1>4, <2>1
    <3>2. \A i \in 1 .. Len(first) : (first \o second)[i] = first[i]
      BY <1>3, LaterRequests
    <3>3. QED
      BY <1>5, <3>1, <3>2
  <2>2. QED
    BY <2>1
<1>7. \A b \in watched' : \/ b \in watched
                         \/ \E n \in DOMAIN (first \o second) :
                               (first \o second)[n] = Subscription(b, FALSE)
  BY <1>2, <1>6 DEF s
<1>8. QED
  BY <1>2, <1>5, <1>7, CallForgetsNothing

LEMMA AskForgetsNothing ==
    ASSUME TInv, FInv, NEW a \in Addresses, Ask(a)
    PROVE  FInv'
<1> DEFINE rs == <<[method |-> "get_balance", followed |-> FALSE, address |-> a]>>
<1>1. rs \in Seq(Request) /\ Call(rs) /\ watched' = watched
  BY DEF Request, Ask
<1> HIDE DEF rs
<1>2. QED
  BY <1>1, CallForgetsNothing

\* connect, called when there is no socket: what is unsettled is yet to be sent.
LEMMA ReconnectForgetsNothing ==
    ASSUME TInv, FInv, Reconnect
    PROVE  FInv'
<1>1. /\ ws = 0 /\ connected = FALSE
      /\ UNCHANGED <<connected, wasConnected, requests, outgoing, polling, net, watched>>
  BY ConnectedHas, ZeroIsNull DEF Reconnect, rpcs, TInv, IInv, OneConnection, ConnTyped
<1>2. \A i \in outgoing : i \in polling
  BY <1>1, ZeroIsNull DEF FInv, NothingForgotten, TInv, Promised, Envelope
<1>3. \A a \in watched : Sought(a)'
  BY <1>1 DEF FInv, NothingForgotten, Sought, Subscribes
<1>4. QED
  BY <1>1, <1>2, <1>3 DEF FInv, NothingForgotten

LEMMA StepForgetsNothing == ASSUME TInv, FInv, [Next]_vars PROVE FInv'
<1>1. CASE Reconnect
  BY <1>1, ReconnectForgetsNothing
<1>2. ASSUME NEW k \in Sockets, Opens(k) PROVE FInv'
  BY <1>2, OpensForgetsNothing
<1>3. ASSUME NEW k \in Sockets, Errors(k) \/ Closes(k) PROVE FInv'
  <2>1. Errors(k) => ws # 0
    BY ZeroIsNull DEF Errors, TInv, IInv, OneConnection
  <2>2. QED
    BY <1>3, <2>1, DropForgetsNothing DEF Errors, Closes
<1>4. ASSUME NEW i \in Ids, Poll(i) PROVE FInv'
  BY <1>4, PollForgetsNothing
<1>5. ASSUME NEW m \in net, Answered(m) PROVE FInv'
  BY <1>5, AnsweredForgetsNothing
<1>6. ASSUME NEW m \in net, Serves(m) PROVE FInv'
  BY <1>6, ServesForgetsNothing
<1>7. ASSUME NEW a \in Addresses, NEW since \in BOOLEAN, Subscribe(a, since) PROVE FInv'
  BY <1>7, SubscribeForgetsNothing
<1>8. ASSUME NEW a \in Addresses, Ask(a) PROVE FInv'
  BY <1>8, AskForgetsNothing
<1>9. CASE UNCHANGED <<conn, rpcs, net, watched, serving>>
  BY <1>9 DEF conn, rpcs, FInv, NothingForgotten, Sought, Subscribes
<1>10. QED
  BY <1>1, <1>2, <1>3, <1>4, <1>5, <1>6, <1>7, <1>8, <1>9
  DEF Next, vars, Notified, Pushes

\* Whatever drops, and in the midst of whatever, every unsettled promise has its
\* request or answer under way or to come, and every address is sought again.
THEOREM ForgetsNothing == Spec => []NothingForgotten
<1>1. Init => FInv
  BY DEF Init, FInv, NothingForgotten
<1>2. FInv => NothingForgotten
  BY DEF FInv
<1>3. QED
  BY InitTInv, NextTInv, StepForgetsNothing, <1>1, <1>2, PTL DEF Spec

-----------------------------------------------------------------------------
\* The connection is a line: a step of any socket is a rise, a fall or an answer.

LEMMA SendsPromise ==
    ASSUME TInv, NEW rs \in Seq(Request), NEW left, NEW up, sendRequests(rs, left, up),
           left = outgoing
    PROVE  L!Promise(left)
<1>1. requests' = requests \o rs /\ outgoing' = left \cup NewIds(rs)
  BY DEF sendRequests
<1>2. requests \in Seq(Request)
  BY DEF TInv, Promised
<1>3. Len(requests') = Len(requests) + Len(rs) /\ Len(requests) \in Nat /\ Len(rs) \in Nat
  BY <1>1, <1>2
<1>4. QED
  BY <1>1, <1>3 DEF L!Promise, NewIds

LEMMA TInvIInv == TInv => IInv
  BY DEF TInv

LEMMA NextLine == ASSUME TInv, PushedOnce, [Next]_vars PROVE [L!LNext]_(L!lvars)
<1>1. CASE Reconnect \/ (\E i \in Ids : Poll(i)) \/ (\E m \in net : Serves(m))
           \/ (\E u \in Updates, a \in Addresses : Pushes(u, a)) \/ UNCHANGED vars
  BY <1>1 DEF Reconnect, Poll, Serves, Pushes, vars, conn, rpcs, L!lvars
<1>2. ASSUME NEW k \in Sockets, Opens(k) PROVE L!Rise
  <2>1. ~connected /\ connected' = TRUE /\ heard' = heard
    BY <1>2 DEF Opens, TInv, IInv, OneConnection, Live, ConnTyped
  <2> DEFINE rs == IF wasConnected THEN Resubscriptions ELSE <<>>
  <2>2. rs \in Seq(Request)
    BY ResubscriptionsTyped DEF TInv
  <2>3. sendRequests(rs, outgoing, ws # 0)
    BY <1>2 DEF Opens
  <2> HIDE DEF rs
  <2>4. QED
    BY <2>1, <2>2, <2>3, SendsPromise DEF L!Rise
<1>3. ASSUME NEW k \in Sockets, Errors(k) \/ Closes(k) PROVE L!Fall
  <2>1. Errors(k) => ws # 0
    BY ZeroIsNull DEF Errors, TInv, IInv, OneConnection
  <2>2. QED
    BY <1>3, <2>1 DEF Errors, Closes, onClose, L!Fall
<1>4. ASSUME NEW u \in Updates, NEW k \in Sockets, Notified(u, k) PROVE L!Tell(u)
  <2>1. connected
    BY <1>4, OpenIsOwn DEF Notified, TInv
  <2>2. heard[u] = 0
    BY <1>4 DEF Notified, PushedOnce
  <2>3. heard' = [heard EXCEPT ![u] = 1]
    BY <1>4, <2>2 DEF Notified, PushedOnce
  <2>4. QED
    BY <1>4, <2>1, <2>2, <2>3 DEF Notified, conn, rpcs, L!Tell
<1>5. ASSUME NEW m \in net, Answered(m)
      PROVE  (m.id \in outgoing /\ L!Answer(m.id)) \/ UNCHANGED L!lvars
  <2>1. connected /\ UNCHANGED <<connected, heard>> /\ Len(requests) \in Nat
    BY <1>5, OpenIsOwn DEF Answered, conn, TInv, Promised, Envelope
  <2>2. CASE m.id \notin outgoing
    BY <1>5, <2>1, <2>2 DEF Answered, L!lvars
  <2>3. CASE m.id \in outgoing /\ ~requests[m.id].followed
    BY <1>5, <2>1, <2>3 DEF Answered, L!Answer, L!Promise
  <2>4. CASE m.id \in outgoing /\ requests[m.id].followed
    <3>1. Len(requests') = Len(requests) + 1
      BY <1>5, <2>4 DEF Answered, TInv, Promised
    <3>2. outgoing' = (outgoing \ {m.id}) \cup (Len(requests) + 1 .. Len(requests'))
      BY <1>5, <2>1, <2>4, <3>1 DEF Answered
    <3>3. QED
      BY <2>1, <2>4, <3>1, <3>2 DEF L!Answer, L!Promise
  <2>5. QED
    BY <2>2, <2>3, <2>4
<1>6. ASSUME NEW rs \in Seq(Request), Call(rs) PROVE L!Ask
  BY <1>6, SendsPromise DEF Call, conn, L!Ask
<1>7. ASSUME NEW a \in Addresses, NEW since \in BOOLEAN, Subscribe(a, since) PROVE L!Ask
  <2> DEFINE list == [method |-> "list_payment_updates", followed |-> FALSE, address |-> a]
             s == Subscription(a, FALSE)
             first == IF a \in watched THEN <<>> ELSE <<s>>
             second == IF since THEN <<list>> ELSE <<>>
  <2>1. s \in Request /\ list \in Request /\ Call(first \o second)
    BY <1>7 DEF Subscription, Request, Subscribe
  <2> HIDE DEF s, list
  <2>2. first \o second \in Seq(Request)
    BY <2>1
  <2>3. QED
    BY <2>1, <2>2, <1>6
<1>8. ASSUME NEW a \in Addresses, Ask(a) PROVE L!Ask
  <2> DEFINE rs == <<[method |-> "get_balance", followed |-> FALSE, address |-> a]>>
  <2>1. rs \in Seq(Request) /\ Call(rs)
    BY <1>8 DEF Request, Ask
  <2> HIDE DEF rs
  <2>2. QED
    BY <2>1, <1>6
<1>9. QED
  BY <1>1, <1>2, <1>3, <1>4, <1>5, <1>7, <1>8 DEF Next, L!LNext

\* Over any number of drops and calls the connection implements the line: every
\* promise is settled by its answer or by a fall, every update told once.
THEOREM Refinement == Spec => ImplementsLine
<1>1. Init => PushedOnce /\ L!LInit
  BY DEF Init, PushedOnce, L!LInit
<1>2. QED
  BY InitTInv, NextTInv, NextPushedOnce, NextLine, TInvIInv, <1>1, PTL DEF Spec, ImplementsLine, L!LSpec

=============================================================================
