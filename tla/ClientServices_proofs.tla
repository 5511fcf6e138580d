----------------------- MODULE ClientServices_proofs -----------------------
(* Proofs about the start of the services and the calls, for any number of  *)
(* calls, lives and moments and either store.                               *)
EXTENDS ClientServices, TLAPS

-----------------------------------------------------------------------------
\* The start: pings and their answers

\* A result can only come from a headless client that is ready, and stays so.
ResultsWhenReady ==
    \A l \in loading : l.result => headless = "ready"

StartInv == StartedOnce /\ ResultsWhenReady

LEMMA InitStart == Init => StartInv
  BY DEF Init, K!KInit, StartInv, StartedOnce, ResultsWhenReady

\* A step that leaves the start alone.
LEMMA SameStart ==
    ASSUME StartInv, UNCHANGED <<starts, get, watching, headless>>, loading' \subseteq loading
    PROVE  StartInv'
  BY DEF StartInv, StartedOnce, ResultsWhenReady

LEMMA CalledStart == ASSUME StartInv, NEW l \in loading, Called(l) PROVE StartInv'
<1>1. loading' \subseteq loading /\ UNCHANGED <<headless, watching>>
  BY DEF Called, outside
<1>2. CASE Ready(l)
  <2>1. starts = 0 /\ starts' = 1 /\ headless = "ready" /\ get' = TRUE
    BY <1>2 DEF Called, Ready, K!getKey, StartInv, ResultsWhenReady
  <2>2. QED
    BY <1>1, <2>1 DEF StartInv, StartedOnce, ResultsWhenReady
<1>3. CASE ~Ready(l)
  <2>1. UNCHANGED <<starts, get>>
    BY <1>3 DEF Called, store
  <2>2. QED
    BY <1>1, <2>1, SameStart
<1>4. QED
  BY <1>2, <1>3

\* The store's answer is what the process waited for.
LEMMA ConfiguredStart == ASSUME StartInv, Configured PROVE StartInv'
<1>1. get /\ get' = FALSE /\ watching' = TRUE /\ UNCHANGED <<starts, loading, headless>>
  BY DEF Configured, K!Gets, outside
<1>2. QED
  BY <1>1 DEF StartInv, StartedOnce, ResultsWhenReady

LEMMA AnsweredStart ==
    ASSUME StartInv, NEW c \in published, Answered(c) PROVE StartInv'
<1>1. UNCHANGED <<starts, headless, get, watching>>
  BY DEF Answered, past, store
<1>2. ASSUME NEW l \in loading' PROVE l.result => headless = "ready"
  <2>1. CASE l \in loading
    BY <2>1 DEF StartInv, ResultsWhenReady
  <2>2. CASE \E d \in Awaited(c.id) :
                l = [call |-> d, to |-> c, result |-> headless = "ready"]
    <3>1. l.result = (headless = "ready")
      BY <2>2
    <3>2. QED
      BY <3>1, Zenon
  <2>3. QED
    BY <1>2, <2>1, <2>2 DEF Answered
<1>3. QED
  BY <1>1, <1>2 DEF StartInv, StartedOnce, ResultsWhenReady

\* The headless client never leaves the state the start relies on.
LEMMA HeadlessUpStart == ASSUME StartInv, HeadlessUp PROVE StartInv'
  BY DEF HeadlessUp, StartInv, StartedOnce, ResultsWhenReady,
         process, store

\* Writes of the moment: none is the SELECT the start waits for.
LEMMA StoringStart ==
    ASSUME StartInv, NEW w \in Writers, Heard(w) \/ Stores(w) \/ StoringFails(w)
    PROVE  StartInv'
<1>1. UNCHANGED <<starts, watching, loading, headless>>
  BY DEF Heard, Stores, StoringFails, process, outside
<1>2. UNCHANGED get
  BY DEF Heard, Stores, StoringFails, K!setKey, K!SetFails, K!Statement,
         K!Upserts, K!LooksUp, K!Updates, K!Inserts
<1>3. QED
  BY <1>1, <1>2, SameStart

LEMMA StepStart == StartInv /\ [Next]_vars => StartInv'
<1> SUFFICES ASSUME StartInv, [Next]_vars PROVE StartInv'
  OBVIOUS
<1>1. CASE Ping \/ Send
  BY <1>1, SameStart DEF Ping, Send, rpc, store
<1>2. CASE \E l \in loading : Called(l)
  BY <1>2, CalledStart
<1>3. CASE \E c \in published : Answered(c)
  BY <1>3, AnsweredStart
<1>4. CASE Configured
  BY <1>4, ConfiguredStart
<1>5. CASE \E w \in Writers : Heard(w) \/ Stores(w) \/ StoringFails(w)
  BY <1>5, StoringStart
<1>6. CASE HeadlessUp
  BY <1>6, HeadlessUpStart
<1>7. CASE Restart
  BY <1>7 DEF Restart, K!Forget, StartInv, StartedOnce, ResultsWhenReady
<1>8. CASE Tick \/ UNCHANGED vars
  BY <1>8, SameStart DEF Tick, vars, process, outside, store
<1>9. QED
  BY <1>1, <1>2, <1>3, <1>4, <1>5, <1>6, <1>7, <1>8 DEF Next

LEMMA StartInvariance == Spec => []StartInv
  BY InitStart, StepStart, PTL DEF Spec

\* However many pings are answered, with errors or for the process before, each
\* process starts its services once, and no sooner than the headless client is
\* ready; it has begun to exactly while it waits for the moment or hears of payments.
THEOREM StartsOnce == Spec => []StartedOnce
<1>1. StartInv => StartedOnce
  BY DEF StartInv
<1>2. QED
  BY StartInvariance, <1>1, PTL

-----------------------------------------------------------------------------
\* The calls: their numbers

\* A number is given once in a life, so a call of this life that is published
\* and one that is awaited under the same number are one.
NumbersOnce ==
    /\ life \in Nat /\ nextRpcId \in Nat
    /\ \A c \in rpcCalls : c.life = life /\ c.id \in Nat /\ c.id < nextRpcId
    /\ \A c \in published : /\ c.life \in Nat /\ c.life <= life
                            /\ c.life = life => c.id \in Nat /\ c.id < nextRpcId
    /\ \A c \in published, d \in rpcCalls : c.life = life /\ c.id = d.id => c = d
    /\ \A l \in loading : l.call.id \in Nat /\ l.call.id < nextRpcId

CallInv == NumbersOnce /\ AnsweredAsAsked

LEMMA InitCalls == Init => CallInv
  BY DEF Init, CallInv, NumbersOnce, AnsweredAsAsked

LEMMA RpcCalls == ASSUME CallInv, NEW what, rpc(what) PROVE CallInv'
<1> DEFINE call == [life |-> life, id |-> nextRpcId, kind |-> what]
<1>1. /\ nextRpcId' = nextRpcId + 1 /\ life' = life /\ loading' = loading
      /\ rpcCalls' = {c \in rpcCalls : c.id # call.id} \cup {call}
      /\ published' \subseteq published \cup {call}
  BY DEF rpc, getRpcId
<1>2. call.life = life /\ call.id = nextRpcId
  OBVIOUS
<1> HIDE DEF call
<1>3. \A c \in rpcCalls' : c.life = life /\ c.id \in Nat /\ c.id < nextRpcId'
  BY <1>1, <1>2 DEF CallInv, NumbersOnce
<1>4. \A c \in published' : /\ c.life \in Nat /\ c.life <= life
                            /\ c.life = life => c.id \in Nat /\ c.id < nextRpcId'
  BY <1>1, <1>2 DEF CallInv, NumbersOnce
<1>5. \A c \in published', d \in rpcCalls' : c.life = life /\ c.id = d.id => c = d
  BY <1>1, <1>2 DEF CallInv, NumbersOnce
<1>6. \A l \in loading : l.call \notin rpcCalls' /\ l.call.id < nextRpcId'
  BY <1>1, <1>2 DEF CallInv, NumbersOnce, AnsweredAsAsked
<1>7. NumbersOnce'
  BY <1>1, <1>3, <1>4, <1>5, <1>6 DEF CallInv, NumbersOnce
<1>8. AnsweredAsAsked'
  BY <1>1, <1>6 DEF CallInv, AnsweredAsAsked
<1>9. QED
  BY <1>7, <1>8 DEF CallInv

\* Whoever is awaited under the answer's number made the call that is answered,
\* unless that one is of a life before.
LEMMA AnsweredCalls ==
    ASSUME CallInv, NEW c \in published, Answered(c) PROVE CallInv'
<1>1. /\ published' \subseteq published /\ rpcCalls' = rpcCalls \ Awaited(c.id)
      /\ nextRpcId' = nextRpcId /\ life' = life
  BY DEF Answered
<1>2. \A l \in loading' : \/ l \in loading
                          \/ /\ l.to = c /\ l.call \in Awaited(c.id)
                             /\ l = [call |-> l.call, to |-> c, result |-> headless = "ready"]
  BY DEF Answered
<1>3. ASSUME NEW d \in Awaited(c.id)
      PROVE  /\ d \in rpcCalls /\ d.life = life /\ d.id \in Nat /\ d.id < nextRpcId
             /\ c = d \/ c.life < d.life
             /\ \A l \in loading : l.call # d
  <2>1. d \in rpcCalls /\ d.id = c.id
    BY DEF Awaited
  <2>2. d.life = life /\ d.id \in Nat /\ d.id < nextRpcId
    BY <2>1 DEF CallInv, NumbersOnce
  <2>3. c = d \/ c.life < d.life
    BY <2>1, <2>2 DEF CallInv, NumbersOnce
  <2>4. QED
    BY <2>1, <2>2, <2>3 DEF CallInv, AnsweredAsAsked
<1>4. ASSUME NEW l \in loading'
      PROVE  /\ l.call.id \in Nat /\ l.call.id < nextRpcId
             /\ l.to = l.call \/ l.to.life < l.call.life
             /\ l.call \notin rpcCalls'
  BY <1>1, <1>2, <1>3 DEF CallInv, NumbersOnce, AnsweredAsAsked
<1>5. ASSUME NEW k \in loading', NEW l \in loading', k.call = l.call PROVE k = l
  <2>1. CASE k \in loading /\ l \in loading
    BY <1>5, <2>1 DEF CallInv, AnsweredAsAsked
  <2>2. CASE k \in loading /\ l \notin loading
    BY <1>2, <1>3, <1>5, <2>2
  <2>3. CASE k \notin loading /\ l \in loading
    BY <1>2, <1>3, <1>5, <2>3
  <2>4. CASE k \notin loading /\ l \notin loading
    BY <1>2, <1>5, <2>4
  <2>5. QED
    BY <2>1, <2>2, <2>3, <2>4
<1>6. NumbersOnce'
  BY <1>1, <1>4 DEF CallInv, NumbersOnce
<1>7. AnsweredAsAsked'
  BY <1>4, <1>5 DEF AnsweredAsAsked
<1>8. QED
  BY <1>6, <1>7 DEF CallInv

\* A new life counts anew: what it inherits is of lives before.
LEMMA RestartCalls == ASSUME CallInv, Restart PROVE CallInv'
  BY DEF Restart, CallInv, NumbersOnce, AnsweredAsAsked

LEMMA StepCalls == CallInv /\ [Next]_vars => CallInv'
<1> SUFFICES ASSUME CallInv, [Next]_vars PROVE CallInv'
  OBVIOUS
<1>1. CASE Ping \/ Send
  BY <1>1, RpcCalls DEF Ping, Send
<1>2. CASE \E c \in published : Answered(c)
  BY <1>2, AnsweredCalls
<1>3. CASE Restart
  BY <1>3, RestartCalls
<1>4. CASE \/ \E l \in loading : Called(l)
           \/ Configured \/ HeadlessUp \/ Tick \/ UNCHANGED vars
           \/ \E w \in Writers : Heard(w) \/ Stores(w) \/ StoringFails(w)
  <2>1. /\ loading' \subseteq loading
        /\ UNCHANGED <<life, nextRpcId, rpcCalls, published>>
    BY <1>4 DEF Called, Configured, HeadlessUp, Tick, vars, Heard, Stores,
       StoringFails, process, outside
  <2>2. QED
    BY <2>1 DEF CallInv, NumbersOnce, AnsweredAsAsked
<1>5. QED
  BY <1>1, <1>2, <1>3, <1>4 DEF Next

\* No callback gets the answer to another call of its own process, or two answers.
THEOREM AnswersTheirCalls == Spec => []AnsweredAsAsked
<1>1. CallInv => AnsweredAsAsked
  BY DEF CallInv
<1>2. QED
  BY InitCalls, StepCalls, <1>1, PTL DEF Spec

-----------------------------------------------------------------------------
\* The stored moment: what the steps of Client are to KeyStore

\* A step of KeyStore, for some call of it, or none.
KeyStep ==
    \/ \E w \in Writers :
          \/ \E v \in Moments : K!setKey(w, v)
          \/ K!Statement(w) \/ K!SetFails(w)
    \/ K!getKey \/ K!Gets \/ K!Forget \/ UNCHANGED store

KeyInv == K!KTypeOK /\ now \in Moments

LEMMA NoCallTypes ==
    K!NoCall \in K!Call /\ K!NoCall.value \notin Moments /\ K!NoCall.pc \notin K!InFlight
  BY DEF K!NoCall, K!Call, K!InFlight, Moments, NoMoment

LEMMA InitKey == Init => KeyInv
<1> SUFFICES ASSUME Init PROVE KeyInv
  OBVIOUS
<1>1. now \in Moments
  BY ClientAssumption DEF Init, Moments
<1>2. K!KTypeOK
  BY NoCallTypes DEF Init, K!KInit, K!KTypeOK
<1>3. QED
  BY <1>1, <1>2 DEF KeyInv

LEMMA StepsOfKey == ASSUME KeyInv, [Next]_vars PROVE KeyStep /\ now' \in Moments
<1>1. CASE Ping \/ Send
  BY <1>1 DEF Ping, Send, rpc, KeyStep, KeyInv
<1>2. CASE \E l \in loading : Called(l)
  BY <1>2 DEF Called, KeyStep, KeyInv, store, outside
<1>3. CASE Configured
  BY <1>3 DEF Configured, KeyStep, KeyInv, outside
<1>4. CASE \E w \in Writers : Heard(w) \/ Stores(w) \/ StoringFails(w)
  BY <1>4 DEF Heard, Stores, StoringFails, KeyStep, KeyInv, outside
<1>5. CASE \E c \in published : Answered(c)
  BY <1>5 DEF Answered, KeyStep, KeyInv
<1>6. CASE HeadlessUp \/ UNCHANGED vars
  BY <1>6 DEF HeadlessUp, vars, outside, KeyStep, KeyInv
<1>7. CASE Restart
  BY <1>7 DEF Restart, KeyStep, KeyInv
<1>8. CASE Tick
  BY <1>8, ClientAssumption DEF Tick, KeyStep, KeyInv, Moments
<1>9. QED
  BY <1>1, <1>2, <1>3, <1>4, <1>5, <1>6, <1>7, <1>8 DEF Next

LEMMA SettledCalls ==
    ASSUME K!KTypeOK, NEW w \in Writers, NEW how \in {"fulfilled", "rejected"},
           set' = K!Settled(w, how)
    PROVE  /\ set' \in [Writers -> K!Call]
           /\ \A x \in Writers : set'[x].value \in Moments <=> set'[x].pc \in K!InFlight
  BY DEF K!KTypeOK, K!Settled, K!Call, K!InFlight, Moments, NoMoment

LEMMA KeyStepTypes == ASSUME K!KTypeOK, KeyStep PROVE K!KTypeOK'
<1>1. ASSUME NEW w \in Writers, NEW v \in Moments, K!setKey(w, v) PROVE K!KTypeOK'
  BY <1>1 DEF K!setKey, K!KTypeOK, K!Call, K!InFlight
<1>2. ASSUME NEW w \in Writers, K!LooksUp(w) PROVE K!KTypeOK'
  BY <1>2 DEF K!LooksUp, K!KTypeOK, K!Call, K!InFlight
<1>3. ASSUME NEW w \in Writers, K!Upserts(w) \/ K!Updates(w) PROVE K!KTypeOK'
  <2>1. stored' \in Moments
    BY <1>3 DEF K!Upserts, K!Updates, K!KTypeOK, K!InFlight
  <2>2. QED
    BY <1>3, <2>1, SettledCalls DEF K!Upserts, K!Updates, K!KTypeOK
<1>4. ASSUME NEW w \in Writers, K!Inserts(w) PROVE K!KTypeOK'
  <2>1. set[w].value \in Moments
    BY <1>4 DEF K!Inserts, K!KTypeOK, K!InFlight
  <2>2. QED
    BY <1>4, <2>1, SettledCalls DEF K!Inserts, K!KTypeOK
<1>5. ASSUME NEW w \in Writers, K!SetFails(w) PROVE K!KTypeOK'
  BY <1>5, SettledCalls DEF K!SetFails, K!KTypeOK
<1>6. CASE K!getKey \/ K!Gets \/ UNCHANGED store
  BY <1>6 DEF K!getKey, K!Gets, K!KTypeOK, store
<1>7. CASE K!Forget
  BY <1>7, NoCallTypes DEF K!Forget, K!KTypeOK
<1>8. QED
  BY <1>1, <1>2, <1>3, <1>4, <1>5, <1>6, <1>7 DEF KeyStep, K!Statement

LEMMA KeyInvariance == Spec => []KeyInv
<1>1. KeyInv /\ [Next]_vars => KeyInv'
  BY StepsOfKey, KeyStepTypes DEF KeyInv
<1>2. QED
  BY InitKey, <1>1, PTL DEF Spec

-----------------------------------------------------------------------------
\* The stored moment is a register

LEMMA InitRegister == Init => K!R!RInit
  BY DEF Init, K!KInit, K!R!RInit, K!Idle, K!NoCall, K!InFlight

\* What is under way maps to the register's write, what has ended to its end.
LEMMA KeyStepRegister == ASSUME K!KTypeOK, KeyStep PROVE [K!R!RNext]_(K!R!rvars)
<1> DEFINE Writing == [x \in Writers |-> IF K!Idle(x) THEN {} ELSE {set[x].value}]
           Written == [x \in Writers |-> IF K!Idle(x) THEN set[x].pc ELSE "none"]
<1>1. ASSUME NEW w \in Writers, NEW v \in Moments, K!setKey(w, v)
      PROVE  K!R!Write(w)
  BY <1>1 DEF K!setKey, K!R!Write, K!KTypeOK, K!Call, K!InFlight, K!Idle
<1>2. ASSUME NEW w \in Writers, K!LooksUp(w) PROVE UNCHANGED K!R!rvars
  BY <1>2 DEF K!LooksUp, K!R!rvars, K!KTypeOK, K!Call, K!InFlight, K!Idle
<1>3. ASSUME NEW w \in Writers, K!Upserts(w) \/ K!Updates(w) \/ K!Inserts(w),
             set' = K!Settled(w, "fulfilled"), stored' = set[w].value
      PROVE  K!R!Takes(w)
  <2>1. ~K!Idle(w) /\ set[w] \in K!Call
    BY <1>3 DEF K!Upserts, K!Updates, K!Inserts, K!KTypeOK, K!Idle, K!InFlight
  <2>2. stored' \in Writing[w]
    BY <1>3, <2>1
  <2>3. UNCHANGED <<get, got>>
    BY <1>3 DEF K!Upserts, K!Updates, K!Inserts
  <2>4. Writing' = [Writing EXCEPT ![w] = {}]
    BY <1>3 DEF K!Settled, K!KTypeOK, K!Idle, K!InFlight
  <2>5. Written' = [Written EXCEPT ![w] = "fulfilled"]
    BY <1>3 DEF K!Settled, K!KTypeOK, K!Idle, K!InFlight
  <2>6. QED
    BY <2>2, <2>3, <2>4, <2>5 DEF K!R!Takes
<1>4. ASSUME NEW w \in Writers, K!Inserts(w), set' = K!Settled(w, "rejected"),
             UNCHANGED stored
      PROVE  K!R!Refused(w)
  BY <1>4 DEF K!Inserts, K!R!Refused, K!Settled, K!KTypeOK, K!Call, K!InFlight, K!Idle
<1>5. ASSUME NEW w \in Writers, K!SetFails(w) PROVE K!R!Refused(w)
  BY <1>5 DEF K!SetFails, K!R!Refused, K!Settled, K!KTypeOK, K!Call,
     K!InFlight, K!Idle
<1>6. CASE K!getKey
  BY <1>6 DEF K!getKey, K!R!Read, K!R!RNext, K!Idle
<1>7. CASE K!Gets
  BY <1>7 DEF K!Gets, K!R!Answers, K!R!RNext, K!Idle
<1>8. CASE K!Forget
  BY <1>8 DEF K!Forget, K!R!CutOff, K!R!RNext, K!Idle, K!NoCall, K!InFlight
<1>9. CASE UNCHANGED store
  BY <1>9 DEF store, K!R!rvars, K!Idle
<1>10. QED
  BY <1>1, <1>2, <1>3, <1>4, <1>5, <1>6, <1>7, <1>8, <1>9
     DEF KeyStep, K!Statement, K!R!RNext, K!Upserts, K!Updates, K!Inserts

\* Either store, with its writes interleaved as they come, is a register.
THEOREM StoreIsRegister == Spec => ImplementsRegister
<1>1. KeyInv /\ [Next]_vars => [K!R!RNext]_(K!R!rvars)
  BY StepsOfKey, KeyStepRegister DEF KeyInv
<1>2. QED
  BY InitRegister, KeyInvariance, <1>1, PTL DEF Spec, ImplementsRegister, K!R!RSpec

-----------------------------------------------------------------------------
\* The moment payments are listed from

\* Every moment that is stored, under way to the table or read from it is one
\* at which a payment was heard of.
HeardMoments ==
    /\ {stored, got, since} \subseteq heardAt \cup {NoMoment}
    /\ \A w \in Writers : set[w].value \in heardAt \cup {NoMoment}

MomentInv == KeyInv /\ HeardMoments

LEMMA InitMoments == Init => HeardMoments
  BY DEF Init, HeardMoments, K!KInit, K!NoCall

\* What the statements of the store do to the moments in it.
LEMMA KeepsMoments ==
    ASSUME K!KTypeOK, HeardMoments, UNCHANGED <<since, heardAt>>,
           \/ \E w \in Writers : K!Statement(w) \/ K!SetFails(w)
           \/ K!getKey \/ K!Gets \/ K!Forget \/ UNCHANGED store
    PROVE  HeardMoments'
<1>1. ASSUME NEW w \in Writers, K!Statement(w) \/ K!SetFails(w) PROVE HeardMoments'
  <2>1. /\ stored' \in {stored, set[w].value} /\ got' = got
        /\ \A x \in Writers : set'[x].value \in {set[x].value, NoMoment}
    BY <1>1 DEF K!Statement, K!Upserts, K!LooksUp, K!Updates, K!Inserts,
       K!SetFails, K!Settled, K!KTypeOK, K!Call
  <2>2. QED
    BY <2>1 DEF HeardMoments
<1>2. CASE K!getKey \/ K!Gets \/ UNCHANGED store
  <2>1. stored' = stored /\ set' = set /\ got' \in {got, stored, NoMoment}
    BY <1>2 DEF K!getKey, K!Gets, store
  <2>2. QED
    BY <2>1 DEF HeardMoments
<1>3. CASE K!Forget
  BY <1>3 DEF K!Forget, K!NoCall, HeardMoments
<1>4. QED
  BY <1>1, <1>2, <1>3

LEMMA HeardKeepsMoments ==
    ASSUME MomentInv, NEW w \in Writers, Heard(w) PROVE HeardMoments'
<1>1. /\ stored' = stored /\ got' = got /\ since' = since
      /\ heardAt' = heardAt \cup {now}
      /\ \A x \in Writers : set'[x].value \in {set[x].value, now}
  BY DEF Heard, K!setKey, MomentInv, KeyInv, K!KTypeOK, K!Call
<1>2. QED
  BY <1>1 DEF MomentInv, HeardMoments

LEMMA ConfiguredKeepsMoments == ASSUME MomentInv, Configured PROVE HeardMoments'
<1>1. /\ stored' = stored /\ set' = set /\ heardAt' = heardAt
      /\ got' \in {stored, NoMoment} /\ since' \in {since, got'}
  BY DEF Configured, K!Gets
<1>2. QED
  BY <1>1 DEF MomentInv, HeardMoments

LEMMA StepMoments == ASSUME MomentInv, [Next]_vars PROVE HeardMoments'
<1>1. CASE \E w \in Writers : Heard(w)
  BY <1>1, HeardKeepsMoments
<1>2. CASE Configured
  BY <1>2, ConfiguredKeepsMoments
<1>3. CASE \/ Ping \/ Send \/ \E l \in loading : Called(l)
           \/ \E c \in published : Answered(c)
           \/ \E w \in Writers : Stores(w) \/ StoringFails(w)
           \/ HeadlessUp \/ Restart \/ Tick \/ UNCHANGED vars
  <2>1. /\ UNCHANGED <<since, heardAt>>
        /\ \/ \E w \in Writers : K!Statement(w) \/ K!SetFails(w)
           \/ K!getKey \/ K!Forget \/ UNCHANGED store
    BY <1>3 DEF Ping, Send, rpc, Called, Answered, Stores, StoringFails,
       HeadlessUp, Restart, Tick, vars, past, store
  <2>2. QED
    BY <2>1, KeepsMoments DEF MomentInv, KeyInv
<1>4. QED
  BY <1>1, <1>2, <1>3 DEF Next

\* Payments are never asked for from a moment at which none was heard of,
\* whatever order the writes of the moment took and whichever were lost.
THEOREM AsksFromMomentHeard == Spec => []AsksFromHeard
<1>1. Init => MomentInv
  BY InitKey, InitMoments DEF MomentInv
<1>2. MomentInv /\ [Next]_vars => MomentInv'
  BY StepMoments, StepsOfKey, KeyStepTypes DEF MomentInv, KeyInv
<1>3. MomentInv => AsksFromHeard
  BY DEF MomentInv, HeardMoments, AsksFromHeard
<1>4. QED
  BY <1>1, <1>2, <1>3, PTL DEF Spec

-----------------------------------------------------------------------------
\* Types

TypeInv == KeyInv /\ TypeOK

LEMMA RpcTypes ==
    ASSUME TypeInv, K!KTypeOK', NEW what \in {"ping", "send"},
           nextRpcId < MaxCalls, rpc(what)
    PROVE  TypeOK'
<1> DEFINE call == [life |-> life, id |-> nextRpcId, kind |-> what]
<1>1. call \in Rpc
  BY ClientAssumption DEF TypeInv, TypeOK, Rpc
<1>2. /\ nextRpcId' = nextRpcId + 1
      /\ rpcCalls' \subseteq rpcCalls \cup {call}
      /\ published' \subseteq published \cup {call}
      /\ UNCHANGED <<life, loading, starts, watching, headless, now, since, heardAt>>
  BY DEF rpc, getRpcId, past
<1>3. nextRpcId' \in 0 .. MaxCalls
  BY <1>2, ClientAssumption DEF TypeInv, TypeOK
<1>4. QED
  BY <1>1, <1>2, <1>3 DEF TypeInv, TypeOK

LEMMA AnsweredTypes ==
    ASSUME TypeInv, K!KTypeOK', NEW c \in published, Answered(c)
    PROVE  TypeOK'
<1>1. \A d \in Awaited(c.id) :
          [call |-> d, to |-> c, result |-> headless = "ready"] \in Answer
  BY DEF Awaited, TypeInv, TypeOK, Answer
<1>2. loading' \subseteq Answer
  BY <1>1 DEF Answered, TypeInv, TypeOK
<1>3. /\ published' \subseteq published /\ rpcCalls' \subseteq rpcCalls
      /\ UNCHANGED <<life, nextRpcId, starts, watching, headless, now, since, heardAt>>
  BY DEF Answered, past
<1>4. QED
  BY <1>2, <1>3 DEF TypeInv, TypeOK

LEMMA StepTypes ==
    ASSUME TypeInv, [Next]_vars, K!KTypeOK', now' \in Moments
    PROVE  TypeOK'
<1>1. CASE Ping \/ Send
  <2>1. nextRpcId < MaxCalls
    BY <1>1, ClientAssumption DEF Ping, Send, Room, TypeInv, TypeOK
  <2>2. QED
    BY <1>1, <2>1, RpcTypes DEF Ping, Send
<1>2. CASE \E c \in published : Answered(c)
  BY <1>2, AnsweredTypes
<1>3. CASE \E l \in loading : Called(l)
  BY <1>3 DEF Called, TypeInv, TypeOK, outside, past
<1>4. CASE Configured
  <2>1. got' \in Moments \cup {NoMoment}
    BY DEF K!KTypeOK
  <2>2. QED
    BY <1>4, <2>1 DEF Configured, TypeInv, TypeOK, outside
<1>5. CASE \E w \in Writers : Heard(w) \/ Stores(w) \/ StoringFails(w)
  BY <1>5 DEF Heard, Stores, StoringFails, TypeInv, TypeOK, process, outside, past
<1>6. CASE HeadlessUp \/ Tick \/ UNCHANGED vars
  BY <1>6 DEF HeadlessUp, Tick, TypeInv, TypeOK, process, outside, past, vars
<1>7. CASE Restart
  <2>1. /\ life' \in 1 .. MaxLives /\ nextRpcId' \in 0 .. MaxCalls /\ starts' \in Nat
        /\ rpcCalls' = {} /\ loading' = {} /\ watching' = FALSE
    BY <1>7, ClientAssumption DEF Restart, TypeInv, TypeOK
  <2>2. UNCHANGED <<headless, published, now, since, heardAt>>
    BY <1>7 DEF Restart
  <2>3. QED
    BY <2>1, <2>2 DEF TypeInv, TypeOK
<1>8. QED
  BY <1>1, <1>2, <1>3, <1>4, <1>5, <1>6, <1>7 DEF Next

\* The variables keep their types, those of the key store included.
THEOREM TypeCorrect == Spec => []TypeOK
<1>1. Init => TypeInv
  <2> SUFFICES ASSUME Init PROVE TypeInv
    OBVIOUS
  <2>1. KeyInv
    BY InitKey
  <2>2. TypeOK
    <3>1. K!KTypeOK /\ now \in Moments
      BY <2>1 DEF KeyInv
    <3>2. life \in 1 .. MaxLives /\ nextRpcId \in 0 .. MaxCalls /\ starts \in Nat
      BY ClientAssumption DEF Init
    <3>3. /\ rpcCalls = {} /\ loading = {} /\ published = {} /\ heardAt = {}
          /\ watching = FALSE /\ since = NoMoment /\ headless \in {"down", "ready"}
      BY DEF Init
    <3>4. QED
      BY <3>1, <3>2, <3>3 DEF TypeOK
  <2>3. QED
    BY <2>1, <2>2 DEF TypeInv
<1>2. TypeInv /\ [Next]_vars => TypeInv'
  BY StepsOfKey, KeyStepTypes, StepTypes DEF TypeInv, KeyInv
<1>3. TypeInv => TypeOK
  BY DEF TypeInv
<1>4. QED
  BY <1>1, <1>2, <1>3, PTL DEF Spec

=============================================================================
