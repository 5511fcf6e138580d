-------------------------- MODULE NonceStore_proofs --------------------------
(* Proofs about the nonces table, for any number of concurrent requests,    *)
(* users, clients and nonces, with faults and without. OneEach is not       *)
(* inductive alone: a nonce still on its way to the table must be known to  *)
(* be in no row yet, and a DELETE on its way to name a nonce presented.     *)
EXTENDS NonceStore, TLAPS

\* The nonce of an INSERT in flight was drawn, was never stored, and is in no
\* other INSERT in flight.
InsertsFresh ==
    \A r \in Requests : req[r].pc = "insert" =>
        /\ req[r].nonce \in 1 .. drawn
        /\ req[r].ip \in Ips
        /\ \A x \in log : x.nonce # req[r].nonce
        /\ \A q \in Requests \ {r} :
              req[q].pc = "insert" => req[q].nonce # req[r].nonce

LogDrawn == \A x \in log : x.nonce <= drawn

\* What was found, and what is to be deleted, was honoured.
Presented ==
    /\ \A r \in Requests : req[r].pc = "found" => req[r].nonce \in honoured
    /\ \A d \in deletes : d.nonce \in honoured

IInv == /\ TypeOK /\ InsertsFresh /\ LogDrawn /\ Presented
        /\ OneEach /\ HonouredAsStored

\* Nothing is stored, in flight or honoured at first.
LEMMA InitIInv == Init => IInv
  BY NonceAssumption
  DEF Init, IInv, TypeOK, InsertsFresh, LogDrawn, Presented, OneEach,
      HonouredAsStored, Request, Idle, Times

\* The rows an UPDATE or a SELECT touches: at most one each, by OneEach.
LEMMA HolderUnique ==
    ASSUME OneEach, NEW e \in Emails \cup {NoEmail},
           NEW x \in Holder(e), NEW y \in Holder(e)
    PROVE  x = y
  BY DEF OneEach, Holder

LEMMA MatchingUnique ==
    ASSUME OneEach, NEW r \in Requests, Matching(r) # {}
    PROVE  \E x \in log : /\ Matching(r) = {x} /\ x.nonce = req[r].nonce
                          /\ x.validity >= req[r].time
                          /\ req[r].ip \in {NoIp, x.ip}
<1>1. PICK x : x \in Matching(r)
  OBVIOUS
<1>2. \A y \in Matching(r) : y = x
  BY <1>1 DEF OneEach, Matching
<1>3. QED
  BY <1>1, <1>2 DEF OneEach, Matching

\* The row of an INSERT is a row, under a nonce no row ever had.
LEMMA NewRowFresh ==
    ASSUME IInv, NEW r \in Requests, req[r].pc = "insert"
    PROVE  /\ NewRow(r) \in Row
           /\ \A x \in log : x.nonce # NewRow(r).nonce
           /\ NewRow(r).nonce = req[r].nonce
           /\ NewRow(r).nonce <= drawn
           /\ NewRow(r).email = req[r].email
           /\ NewRow(r).ip = req[r].ip
<1>1. req[r] \in Request /\ drawn \in 0 .. MaxNonce /\ MaxNonce \in Nat
  BY NonceAssumption DEF IInv, TypeOK
<1>2. req[r].nonce \in Nonces /\ req[r].ip \in Ips
  BY <1>1 DEF IInv, InsertsFresh, Nonces
<1>3. NewRow(r) \in Row
  BY <1>1, <1>2 DEF NewRow, Row, Request
<1>4. QED
  BY <1>1, <1>2, <1>3 DEF IInv, InsertsFresh, NewRow

-----------------------------------------------------------------------------
\* Asking for a nonce keeps the invariant: the nonce is a new one.
LEMMA CallSetNonceIInv ==
    ASSUME IInv, NEW r \in Requests, NEW e \in Emails \cup {NoEmail},
           NEW i \in Ips, NEW h \in Lifetimes, CallSetNonce(r, e, i, h)
    PROVE  IInv'
<1> USE DEF CallSetNonce, history
<1>1. /\ MaxNonce \in Nat /\ drawn \in 0 .. MaxNonce /\ drawn < MaxNonce
      /\ now \in Nat /\ h \in Nat
  BY NonceAssumption DEF IInv, TypeOK, Times
<1>2. /\ drawn + 1 \in Nonces /\ drawn + 1 \in 0 .. MaxNonce /\ now + h \in Nat
      /\ drawn + 1 \in 1 .. (drawn + 1)
      /\ \A n \in Nat : n <= drawn => n <= drawn + 1 /\ n # drawn + 1
  BY <1>1 DEF Nonces
<1>3. TypeOK'
  <2>1. req' \in [Requests -> Request]
    BY <1>2 DEF IInv, TypeOK, Request, Times
  <2>2. QED
    BY <1>2, <2>1 DEF IInv, TypeOK
<1>4. \A x \in log : x.nonce \in Nat /\ x.nonce <= drawn
  BY <1>1 DEF IInv, TypeOK, LogDrawn, Row, Nonces
<1>5. \A q \in Requests : q # r => req'[q] = req[q]
  BY DEF IInv, TypeOK
<1>6. req'[r] = [pc |-> "insert", nonce |-> drawn + 1, email |-> e, ip |-> i, time |-> now + h]
  BY DEF IInv, TypeOK
<1>7. InsertsFresh'
  <2>1. \A q \in Requests : q # r /\ req[q].pc = "insert" =>
            req[q].nonce \in 1 .. drawn' /\ req[q].nonce # drawn + 1
    BY <1>1 DEF IInv, InsertsFresh
  <2>2. QED
    BY <1>1, <1>2, <1>4, <1>5, <1>6, <2>1 DEF IInv, InsertsFresh
<1>8. LogDrawn'
  BY <1>1, <1>2, <1>4 DEF LogDrawn
<1>9. Presented'
  BY <1>5, <1>6 DEF IInv, Presented
<1>10. OneEach'
  BY DEF IInv, OneEach
<1>11. HonouredAsStored'
  BY <1>5, <1>6 DEF IInv, HonouredAsStored
<1>12. QED
  BY <1>3, <1>7, <1>8, <1>9, <1>10, <1>11 DEF IInv

\* A step that leaves one request idle, and the history alone, disturbs only
\* what is said of rows.
LEMMA IdledIInv ==
    ASSUME IInv, NEW r \in Requests, req' = [req EXCEPT ![r] = Idle],
           found' \in [Requests -> SUBSET Row],
           \A q \in Requests : q # r => found'[q] = found[q],
           drawn' = drawn, now' = now, honoured' = honoured, log \subseteq log',
           \A x \in log' \ log : x = NewRow(r) /\ req[r].pc = "insert",
           deletes' \subseteq [nonce : Nonces, ip : Ips \cup {NoIp}],
           \A d \in deletes' : d.nonce \in honoured,
           rows' \subseteq Row, OneEach'
    PROVE  IInv'
<1>1. \A q \in Requests : q # r => req'[q] = req[q]
  BY DEF IInv, TypeOK
<1>2. req'[r] = Idle /\ Idle.pc = "idle"
  BY DEF IInv, TypeOK, Idle
<1>3. log' \subseteq Row
  BY NewRowFresh DEF IInv, TypeOK
<1>4. Idle \in Request
  BY NonceAssumption DEF Idle, Request, Times
<1>5. TypeOK'
  <2>1. req' \in [Requests -> Request]
    BY <1>4 DEF IInv, TypeOK
  <2>2. QED
    BY <1>3, <2>1 DEF IInv, TypeOK
<1>6. InsertsFresh'
  <2>1. \A q \in Requests : q # r /\ req[q].pc = "insert" =>
            \A x \in log' : x.nonce # req[q].nonce
    BY NewRowFresh DEF IInv, InsertsFresh
  <2>2. QED
    BY <1>1, <1>2, <2>1 DEF IInv, InsertsFresh
<1>7. LogDrawn'
  BY NewRowFresh DEF IInv, LogDrawn
<1>8. Presented'
  BY <1>1, <1>2 DEF IInv, Presented
<1>9. HonouredAsStored'
  BY <1>1, <1>2 DEF IInv, HonouredAsStored
<1>10. QED
  BY <1>5, <1>6, <1>7, <1>8, <1>9 DEF IInv

\* An INSERT keeps it: the row it replaces had the same e-mail, no other row
\* has its ip, and its nonce is fresh.
LEMMA ExecInsertIInv ==
    ASSUME IInv, NEW r \in Requests, ExecInsert(r)
    PROVE  IInv'
<1> USE DEF ExecInsert
<1>1. CASE IpTaken(req[r].email, req[r].ip)
  <2>1. OneEach' /\ rows' = rows /\ log' = log
    BY <1>1 DEF IInv, OneEach
  <2>2. QED
    BY <2>1, IdledIInv DEF IInv, TypeOK, Presented
<1>2. CASE ~IpTaken(req[r].email, req[r].ip)
  <2>1. rows' = (rows \ Holder(req[r].email)) \cup {NewRow(r)}
    BY <1>2
  <2>2. log' = log \cup {NewRow(r)}
    BY <1>2
  <2>3. \A x \in rows \ Holder(req[r].email) :
            /\ x.ip # NewRow(r).ip
            /\ x.nonce # NewRow(r).nonce
            /\ x.email # NewRow(r).email \/ x.email = NoEmail
    BY <1>2, NewRowFresh DEF IpTaken, Holder, IInv, OneEach
  <2>4. OneEach'
    <3>1. rows' \subseteq log'
      BY <2>1, <2>2 DEF IInv, OneEach
    <3>2. \A x, y \in rows' : x # y => /\ x.ip # y.ip /\ x.nonce # y.nonce
                                       /\ x.email # y.email \/ x.email = NoEmail
      BY <2>1, <2>3 DEF IInv, OneEach
    <3>3. \A x, y \in log' : x # y => x.nonce # y.nonce
      BY <2>2, NewRowFresh DEF IInv, OneEach
    <3>4. QED
      BY <3>1, <3>2, <3>3 DEF OneEach
  <2>5. rows' \subseteq Row
    BY <2>1, NewRowFresh DEF IInv, TypeOK
  <2>6. QED
    BY <2>2, <2>4, <2>5, IdledIInv DEF IInv, TypeOK, Presented
<1>3. QED
  BY <1>1, <1>2

-----------------------------------------------------------------------------
\* Presenting a nonce keeps it: the request takes nothing from the table yet.
LEMMA CallCheckNonceIInv ==
    ASSUME IInv, NEW r \in Requests, NEW n \in Nonces \cup {0}, NEW i \in Ips \cup {NoIp},
           CallCheckNonce(r, n, i)
    PROVE  IInv'
<1> USE DEF CallCheckNonce, history
<1>1. \A q \in Requests : q # r => req'[q] = req[q]
  BY DEF IInv, TypeOK
<1>2. req'[r] = [pc |-> "select", nonce |-> n, email |-> NoEmail, ip |-> i, time |-> now]
  BY DEF IInv, TypeOK
<1>3. TypeOK'
  <2>1. req' \in [Requests -> Request]
    BY DEF IInv, TypeOK, Request
  <2>2. QED
    BY <2>1 DEF IInv, TypeOK
<1>4. InsertsFresh' /\ Presented'
  BY <1>1, <1>2 DEF IInv, InsertsFresh, Presented
<1>5. LogDrawn' /\ OneEach'
  BY DEF IInv, LogDrawn, OneEach
<1>6. HonouredAsStored'
  BY <1>1, <1>2 DEF IInv, HonouredAsStored
<1>7. QED
  BY <1>3, <1>4, <1>5, <1>6 DEF IInv

\* The SELECT keeps it: it returns at most one row, as it was stored.
LEMMA ExecSelectIInv ==
    ASSUME IInv, NEW r \in Requests, ExecSelect(r)
    PROVE  IInv'
<1> USE DEF ExecSelect
<1>1. \A q \in Requests : q # r => req'[q] = req[q] /\ found'[q] = found[q]
  BY DEF IInv, TypeOK
<1>2. req[r] \in Request /\ (Matching(r) # {} => req[r].nonce \in Nonces)
  BY DEF IInv, TypeOK, Matching, Row
<1>3. found'[r] = Matching(r) /\ Matching(r) \subseteq rows
  BY DEF IInv, TypeOK, Matching
<1>4. req'[r] = IF Matching(r) = {} THEN Idle ELSE [req[r] EXCEPT !.pc = "found"]
  BY DEF IInv, TypeOK
<1>5. req'[r] \in Request
  <2>1. Idle \in Request
    BY NonceAssumption DEF Idle, Request, Times
  <2>2. QED
    BY <1>2, <1>4, <2>1 DEF Request
<1>6. TypeOK'
  <2>1. req' \in [Requests -> Request]
    BY <1>5 DEF IInv, TypeOK
  <2>2. found' \in [Requests -> SUBSET Row]
    BY <1>3 DEF IInv, TypeOK
  <2>3. honoured' \subseteq Nonces
    BY <1>2 DEF IInv, TypeOK
  <2>4. QED
    BY <2>1, <2>2, <2>3 DEF IInv, TypeOK
<1>7. req'[r].pc # "insert"
  BY <1>2, <1>4 DEF Idle, Request
<1>8. InsertsFresh'
  BY <1>1, <1>7 DEF IInv, InsertsFresh
<1>9. LogDrawn' /\ OneEach'
  BY DEF IInv, LogDrawn, OneEach
<1>10. Presented'
  BY <1>1, <1>2, <1>4 DEF IInv, Presented, Idle, Request
<1>11. HonouredAsStored'
  <2>1. ASSUME req'[r].pc = "found"
        PROVE  \E x \in log' : /\ found'[r] = {x} /\ x.nonce = req'[r].nonce
                               /\ x.validity >= req'[r].time
                               /\ req'[r].ip \in {NoIp, x.ip}
    <3>1. Matching(r) # {} /\ req'[r] = [req[r] EXCEPT !.pc = "found"]
      BY <1>4, <2>1 DEF Idle
    <3>2. /\ req'[r].nonce = req[r].nonce
          /\ req'[r].time = req[r].time
          /\ req'[r].ip = req[r].ip
      BY <3>1, <1>2 DEF Request
    <3>3. QED
      BY <1>3, <3>1, <3>2, MatchingUnique DEF IInv
  <2>2. QED
    BY <1>1, <2>1 DEF IInv, HonouredAsStored
<1>12. QED
  BY <1>6, <1>8, <1>9, <1>10, <1>11 DEF IInv

\* Sending the DELETE keeps it: it names the nonce just honoured.
LEMMA ResumeIInv ==
    ASSUME IInv, NEW r \in Requests, Resume(r)
    PROVE  IInv'
<1> USE DEF Resume, history
<1>1. req[r].nonce \in Nonces /\ req[r].nonce \in honoured /\ req[r] \in Request
  BY DEF IInv, TypeOK, Presented
<1>2. deletes' \subseteq [nonce : Nonces, ip : Ips \cup {NoIp}]
  BY <1>1 DEF IInv, TypeOK, Request
<1>3. \A d \in deletes' : d.nonce \in honoured
  BY <1>1 DEF IInv, Presented
<1>4. /\ found' \in [Requests -> SUBSET Row]
      /\ \A q \in Requests : q # r => found'[q] = found[q]
  BY DEF IInv, TypeOK
<1>5. OneEach'
  BY DEF IInv, OneEach
<1>6. QED
  BY <1>2, <1>3, <1>4, <1>5, IdledIInv DEF IInv, TypeOK

\* A statement that fails keeps it: the request is idle again.
LEMMA StatementFailsIInv ==
    ASSUME IInv, NEW r \in Requests, StatementFails(r)
    PROVE  IInv'
<1>1. OneEach' /\ rows' = rows /\ log' = log
  BY DEF StatementFails, history, IInv, OneEach
<1>2. QED
  BY <1>1, IdledIInv DEF StatementFails, history, IInv, TypeOK, Presented

\* Steps of the database and of the world that touch no request: rows and
\* DELETEs may go, and time may pass.
LEMMA ShrunkIInv ==
    ASSUME IInv, rows' \subseteq rows, deletes' \subseteq deletes, now' \in Times,
           UNCHANGED <<drawn, req, found, log, honoured>>
    PROVE  IInv'
<1>1. TypeOK'
  BY DEF IInv, TypeOK
<1>2. InsertsFresh' /\ LogDrawn' /\ Presented' /\ HonouredAsStored'
  BY DEF IInv, InsertsFresh, LogDrawn, Presented, HonouredAsStored
<1>3. OneEach'
  BY DEF IInv, OneEach
<1>4. QED
  BY <1>1, <1>2, <1>3 DEF IInv

\* A restart keeps it: what is forgotten was the only thing spoken of.
LEMMA RestartIInv == ASSUME IInv, Restart PROVE IInv'
<1> USE DEF Restart, history
<1>1. \A r \in Requests : req'[r] = Idle
  OBVIOUS
<1>2. TypeOK'
  <2>1. Idle \in Request
    BY NonceAssumption DEF Idle, Request, Times
  <2>2. QED
    BY <2>1 DEF IInv, TypeOK
<1>3. InsertsFresh' /\ Presented' /\ HonouredAsStored'
  BY <1>1 DEF InsertsFresh, Presented, HonouredAsStored, Idle
<1>4. LogDrawn' /\ OneEach'
  BY DEF IInv, LogDrawn, OneEach
<1>5. QED
  BY <1>2, <1>3, <1>4 DEF IInv

LEMMA NextIInv == IInv /\ [Next]_vars => IInv'
<1> SUFFICES ASSUME IInv, [Next]_vars PROVE IInv'
  OBVIOUS
<1>1. ASSUME NEW r \in Requests, NEW e \in Emails \cup {NoEmail}, NEW i \in Ips,
             NEW h \in Lifetimes, CallSetNonce(r, e, i, h)
      PROVE  IInv'
  BY <1>1, CallSetNonceIInv
<1>2. ASSUME NEW r \in Requests, ExecInsert(r) PROVE IInv'
  BY <1>2, ExecInsertIInv
<1>3. ASSUME NEW r \in Requests, NEW n \in Nonces \cup {0}, NEW i \in Ips \cup {NoIp},
             CallCheckNonce(r, n, i)
      PROVE  IInv'
  BY <1>3, CallCheckNonceIInv
<1>4. ASSUME NEW r \in Requests, ExecSelect(r) PROVE IInv'
  BY <1>4, ExecSelectIInv
<1>5. ASSUME NEW r \in Requests, Resume(r) PROVE IInv'
  BY <1>5, ResumeIInv
<1>6. ASSUME NEW d \in Deletion, ExecDelete(d) \/ DeleteFails(d) PROVE IInv'
  BY <1>6, ShrunkIInv DEF ExecDelete, DeleteFails, history, IInv, TypeOK
<1>7. ASSUME Restart PROVE IInv'
  BY <1>7, RestartIInv
<1>8. ASSUME Tick PROVE IInv'
  <2>1. now' \in Times
    BY <1>8 DEF Tick, IInv, TypeOK, Times
  <2>2. QED
    BY <1>8, <2>1, ShrunkIInv DEF Tick, history
<1>9. ASSUME NEW r \in Requests, StatementFails(r) PROVE IInv'
  BY <1>9, StatementFailsIInv
<1>10. CASE UNCHANGED vars
  BY <1>10, ShrunkIInv DEF vars, history, IInv, TypeOK
<1>11. QED
  BY <1>1, <1>2, <1>3, <1>4, <1>5, <1>6, <1>7, <1>8, <1>9, <1>10 DEF Next

\* The invariant holds in every state of every run.
THEOREM Invariance == Spec => []IInv
  BY InitIInv, NextIInv, PTL DEF Spec

\* Whatever interleaving, fault or restart, every variable keeps its type.
THEOREM TypeCorrect == Spec => []TypeOK
  BY Invariance, PTL DEF IInv

\* One row per e-mail and per client, and none under a nonce not its own,
\* however many requests store, check and remove nonces at one time.
THEOREM RowsAreSingle == Spec => []OneEach
  BY Invariance, PTL DEF IInv

\* A request goes ahead only on the very row stored under its nonce.
THEOREM GoesAheadAsStored == Spec => []HonouredAsStored
  BY Invariance, PTL DEF IInv

-----------------------------------------------------------------------------
\* A row goes for one of two reasons, whatever DELETE was delayed.

LEMMA StepSpares ==
    IInv /\ [Next]_vars =>
        [\A x \in rows \ rows' :
            \/ x.nonce \in honoured
            \/ \E y \in rows' \ rows : y.email = x.email /\ x.email # NoEmail]_vars
<1> DEFINE Spared(x) == \/ x.nonce \in honoured
                        \/ \E y \in rows' \ rows : y.email = x.email /\ x.email # NoEmail
<1> SUFFICES ASSUME IInv, [Next]_vars, NEW x \in rows \ rows' PROVE Spared(x)
  OBVIOUS
<1>1. ASSUME NEW r \in Requests, ExecInsert(r) PROVE Spared(x)
  <2>1. /\ req[r].pc = "insert"
        /\ rows' = (rows \ Holder(req[r].email)) \cup {NewRow(r)}
    BY <1>1 DEF ExecInsert
  <2>2. x.email = req[r].email /\ x.email # NoEmail
    BY <2>1 DEF Holder
  <2>3. NewRow(r) \in rows' \ rows /\ NewRow(r).email = req[r].email
    BY <2>1, NewRowFresh DEF IInv, OneEach
  <2>4. QED
    BY <2>2, <2>3
<1>2. ASSUME NEW d \in Deletion, ExecDelete(d) \/ DeleteFails(d) PROVE Spared(x)
  BY <1>2 DEF ExecDelete, DeleteFails, IInv, Presented
<1>3. QED
  BY <1>1, <1>2
  DEF Next, vars, CallSetNonce, CallCheckNonce, ExecSelect, Resume, StatementFails,
      Restart, Tick, history

\* Only a nonce that was presented, or replaced by its owner's next, ever leaves
\* the table: a DELETE delayed for any time does not take the new nonce.
THEOREM DelayedDeleteSpares == Spec => SparesTheNew
  BY Invariance, StepSpares, PTL DEF Spec, SparesTheNew

-----------------------------------------------------------------------------
(* What was honoured leaves, unless a fault lost its DELETE.                *)

\* A nonce on its way to the table was never honoured: only stored ones were.
HonouredStored == \A n \in honoured : \E x \in log : x.nonce = n

LEMMA StepHonouredStored ==
    ASSUME IInv, HonouredStored, [Next]_vars PROVE HonouredStored'
<1>1. ASSUME NEW r \in Requests, ExecSelect(r) PROVE HonouredStored'
  <2>1. CASE Matching(r) = {}
    BY <1>1, <2>1 DEF ExecSelect, HonouredStored
  <2>2. CASE Matching(r) # {}
    BY <1>1, <2>2, MatchingUnique DEF ExecSelect, HonouredStored, IInv
  <2>3. QED
    BY <2>1, <2>2
<1>2. CASE honoured' = honoured /\ log \subseteq log'
  BY <1>2 DEF HonouredStored
<1>3. QED
  BY <1>1, <1>2
  DEF Next, vars, history, CallSetNonce, CallCheckNonce, ExecInsert, Resume,
      StatementFails, ExecDelete, DeleteFails, Restart, Tick

\* A row is as near to leaving as it was when no request forgets what it found.
LEMMA StaysLeaving ==
    ASSUME NEW x, Leaving(x), deletes \subseteq deletes',
           \A r \in Requests : req[r].pc = "found" => req'[r] = req[r]
    PROVE  Leaving(x)'
  BY DEF Leaving

LEMMA StepLeaves ==
    ASSUME IInv, HonouredStored, [Next]_vars,
           ~Restart, \A d \in deletes : ~DeleteFails(d)
    PROVE  Stuck' \subseteq Stuck
<1> SUFFICES ASSUME NEW x \in Stuck' PROVE x \in Stuck
  OBVIOUS
<1>1. x \in rows' /\ x.nonce \in honoured' /\ ~Leaving(x)'
  BY DEF Stuck
<1>2. req \in [Requests -> Request] /\ OneEach
  BY DEF IInv, TypeOK
<1>3. CASE /\ x \in rows /\ x.nonce \in honoured /\ deletes \subseteq deletes'
           /\ \A r \in Requests : req[r].pc = "found" => req'[r] = req[r]
  BY <1>1, <1>3, StaysLeaving DEF Stuck
<1>4. ASSUME NEW r \in Requests, ExecInsert(r) PROVE x \in Stuck
  <2>1. /\ req[r].pc = "insert" /\ UNCHANGED <<deletes, honoured>>
        /\ \A q \in Requests : q # r => req'[q] = req[q]
    BY <1>2, <1>4 DEF ExecInsert
  <2>2. x # NewRow(r)
    BY <1>1, <2>1, NewRowFresh DEF HonouredStored
  <2>3. x \in rows
    BY <1>1, <1>4, <2>2 DEF ExecInsert
  <2>4. QED
    BY <1>1, <1>3, <2>1, <2>3
<1>5. ASSUME NEW r \in Requests, ExecSelect(r) PROVE x \in Stuck
  <2>1. /\ req[r].pc = "select" /\ UNCHANGED <<rows, deletes>>
        /\ \A q \in Requests : q # r => req'[q] = req[q]
    BY <1>2, <1>5 DEF ExecSelect
  <2>2. CASE x.nonce \in honoured
    BY <1>1, <1>3, <2>1, <2>2
  <2>3. CASE x.nonce \notin honoured
    <3>1. Matching(r) # {} /\ x.nonce = req[r].nonce /\ req' = [req EXCEPT ![r].pc = "found"]
      BY <1>1, <1>5, <2>3 DEF ExecSelect
    <3>2. PICK y \in Matching(r) : y \in rows /\ y.nonce = req[r].nonce
                                   /\ req[r].ip \in {NoIp, y.ip}
      BY <3>1 DEF Matching
    <3>3. y = x
      BY <1>1, <1>2, <2>1, <3>1, <3>2 DEF OneEach
    <3>4. /\ req'[r].pc = "found" /\ req'[r].nonce = req[r].nonce
          /\ req'[r].ip = req[r].ip
      BY <1>2, <3>1 DEF Request
    <3>5. Leaving(x)'
      BY <3>1, <3>2, <3>3, <3>4 DEF Leaving
    <3>6. QED
      BY <1>1, <3>5
  <2>4. QED
    BY <2>2, <2>3
<1>6. ASSUME NEW r \in Requests, Resume(r) PROVE x \in Stuck
  <2> DEFINE d == [nonce |-> req[r].nonce, ip |-> req[r].ip]
  <2>1. /\ UNCHANGED <<rows, honoured>> /\ deletes' = deletes \cup {d}
        /\ \A q \in Requests : q # r => req'[q] = req[q]
    BY <1>2, <1>6 DEF Resume, history
  <2>2. d.nonce = req[r].nonce /\ d.ip = req[r].ip /\ d \in deletes'
    BY <2>1
  <2> HIDE DEF d
  <2>3. ~Leaving(x)
    BY <1>1, <2>1, <2>2 DEF Leaving
  <2>4. QED
    BY <1>1, <2>1, <2>3 DEF Stuck
<1>7. ASSUME NEW d \in Deletion, ExecDelete(d) PROVE x \in Stuck
  <2>1. /\ x \in rows /\ ~(x.nonce = d.nonce /\ d.ip \in {NoIp, x.ip})
        /\ deletes' = deletes \ {d} /\ UNCHANGED <<req, honoured>>
    BY <1>1, <1>7 DEF ExecDelete, history
  <2>2. ~Leaving(x)
    BY <1>1, <2>1 DEF Leaving
  <2>3. QED
    BY <1>1, <2>1, <2>2 DEF Stuck
<1>8. ASSUME NEW r \in Requests, StatementFails(r) PROVE x \in Stuck
  BY <1>1, <1>2, <1>3, <1>8 DEF StatementFails, history
<1>9. ASSUME NEW r \in Requests, NEW e \in Emails \cup {NoEmail}, NEW i \in Ips,
             NEW h \in Lifetimes, CallSetNonce(r, e, i, h)
      PROVE  x \in Stuck
  BY <1>1, <1>2, <1>3, <1>9 DEF CallSetNonce, history
<1>10. ASSUME NEW r \in Requests, NEW n \in Nonces \cup {0}, NEW i \in Ips \cup {NoIp},
              CallCheckNonce(r, n, i)
       PROVE  x \in Stuck
  BY <1>1, <1>2, <1>3, <1>10 DEF CallCheckNonce, history
<1>11. ASSUME Tick \/ UNCHANGED vars PROVE x \in Stuck
  BY <1>1, <1>3, <1>11 DEF Tick, vars, history
<1>12. ASSUME NEW d \in Deletion, DeleteFails(d) PROVE FALSE
  BY <1>12 DEF DeleteFails
<1>13. QED
  BY <1>4, <1>5, <1>6, <1>7, <1>8, <1>9, <1>10, <1>11, <1>12 DEF Next

\* Nothing but a restart or a failed DELETE leaves an honoured nonce in the table
\* with nobody about to remove it.
THEOREM SpentOnesLeave == Spec => SpentLeaves
<1>1. Init => HonouredStored
  BY DEF Init, HonouredStored
<1>2. IInv /\ HonouredStored /\ [Next]_vars =>
          [Stuck' \subseteq Stuck \/ Restart \/ \E d \in deletes : DeleteFails(d)]_vars
  BY StepLeaves
<1>3. QED
  BY Invariance, StepHonouredStored, <1>1, <1>2, PTL DEF Spec, SpentLeaves

\* Where there are no faults it follows that none is ever left behind.
COROLLARY NoneStuck == ASSUME ~Faults PROVE Spec => [](Stuck = {})
<1>1. Init => Stuck = {} /\ HonouredStored
  BY DEF Init, Stuck, HonouredStored
<1>2. IInv /\ HonouredStored /\ Stuck = {} /\ [Next]_vars => (Stuck = {})'
  <2>1. ~Restart /\ \A d : ~DeleteFails(d)
    BY DEF Restart, DeleteFails
  <2>2. QED
    BY <2>1, StepLeaves
<1>3. QED
  BY Invariance, StepHonouredStored, <1>1, <1>2, PTL DEF Spec

-----------------------------------------------------------------------------
(* The table implements the life of a nonce.                                *)

\* The one row ever stored under a nonce says whom it was stored for.
LEMMA EmailOfRow ==
    ASSUME OneEach, NEW x \in log
    PROVE  x.nonce \in StoredNonces /\ EmailOf(x.nonce) = x.email
<1>1. \A y \in log : y.nonce = x.nonce => y = x
  BY DEF OneEach
<1>2. (CHOOSE y \in log : y.nonce = x.nonce) = x
  BY <1>1
<1>3. QED
  BY <1>2 DEF StoredNonces, EmailOf

LEMMA InitLife == Init => L!LInit
  BY DEF Init, L!LInit, PhaseOf, EmailOf, LiveNonces, StoredNonces

\* A step that neither stores nor removes is no step of any nonce's life.
LEMMA SameTable ==
    ASSUME UNCHANGED <<rows, log>>
    PROVE  UNCHANGED <<[n \in Nonces |-> PhaseOf(n)], [n \in Nonces |-> EmailOf(n)]>>
  BY DEF PhaseOf, EmailOf, LiveNonces, StoredNonces

\* An INSERT that succeeds stores its nonce and replaces its owner's.
LEMMA InsertStores ==
    ASSUME IInv, NEW r \in Requests, ExecInsert(r), ~IpTaken(req[r].email, req[r].ip),
           NEW n, NEW o, n = req[r].nonce, o = req[r].email
    PROVE  L!Store(n, o)
<1>1. /\ req[r].pc = "insert" /\ UNCHANGED honoured
      /\ rows' = (rows \ Holder(o)) \cup {NewRow(r)}
      /\ log' = log \cup {NewRow(r)}
  BY DEF ExecInsert
<1>2. /\ n \notin StoredNonces /\ n \notin LiveNonces
      /\ NewRow(r).nonce = n /\ NewRow(r).email = o
  BY <1>1, NewRowFresh DEF IInv, OneEach, StoredNonces, LiveNonces
<1>3. OneEach /\ OneEach'
  BY ExecInsertIInv DEF IInv
<1>4. PhaseOf(n) = "unborn" /\ PhaseOf(n)' = "live"
  BY <1>1, <1>2 DEF PhaseOf, LiveNonces
<1>5. StoredNonces' = StoredNonces \cup {n}
  BY <1>1, <1>2 DEF StoredNonces
<1>6. ASSUME NEW m \in Nonces \ {n}, m \in LiveNonces, EmailOf(m) = o, o # NoEmail
      PROVE  PhaseOf(m)' = "dead"
  <2>1. PICK x \in rows : x.nonce = m
    BY <1>6 DEF LiveNonces
  <2>2. x \in log /\ x.email = o
    BY <1>3, <1>6, <2>1, EmailOfRow DEF OneEach
  <2>3. x \in Holder(o) /\ x \notin rows'
    BY <1>1, <1>2, <1>6, <2>1, <2>2 DEF Holder
  <2>4. \A y \in rows' : y.nonce # m
    BY <1>1, <1>2, <1>3, <2>1, <2>3 DEF OneEach
  <2>5. m \in StoredNonces'
    BY <1>5, <2>1, <2>2 DEF StoredNonces
  <2>6. QED
    BY <2>4, <2>5 DEF PhaseOf, LiveNonces
<1>7. ASSUME NEW m \in Nonces \ {n}, ~(m \in LiveNonces /\ EmailOf(m) = o /\ o # NoEmail)
      PROVE  PhaseOf(m)' = PhaseOf(m)
  <2>1. \A x \in Holder(o) : x.nonce \in LiveNonces /\ EmailOf(x.nonce) = o /\ o # NoEmail
    BY <1>3, EmailOfRow DEF Holder, LiveNonces, OneEach
  <2>2. m \in LiveNonces' <=> m \in LiveNonces
    BY <1>1, <1>2, <1>7, <2>1 DEF LiveNonces
  <2>3. QED
    BY <1>5, <2>2 DEF PhaseOf
<1>8. EmailOf(n)' = o
  <2>1. NewRow(r) \in log' /\ \A y \in log' : y.nonce = n => y = NewRow(r)
    BY <1>1, <1>2 DEF StoredNonces
  <2>2. (CHOOSE x \in log' : x.nonce = n) = NewRow(r)
    BY <1>2, <2>1
  <2>3. QED
    BY <1>2, <1>5, <2>2 DEF EmailOf
<1>9. ASSUME NEW m \in Nonces \ {n} PROVE EmailOf(m)' = EmailOf(m)
  <2>1. CASE m \notin StoredNonces
    BY <1>5, <2>1 DEF EmailOf
  <2>2. CASE m \in StoredNonces
    <3>1. PICK y \in log : y.nonce = m
      BY <2>2 DEF StoredNonces
    <3>2. EmailOf(m) = y.email
      BY <1>3, <3>1, EmailOfRow
    <3>3. y \in log' /\ \A z \in log' : z.nonce = m => z = y
      BY <1>1, <1>2, <1>3, <3>1 DEF OneEach
    <3>4. (CHOOSE x \in log' : x.nonce = m) = y
      BY <3>1, <3>3
    <3>5. QED
      BY <1>5, <2>2, <3>2, <3>4 DEF EmailOf
  <2>3. QED
    BY <2>1, <2>2
<1>10. n \in Nonces
  BY <1>1, NewRowFresh DEF Row
<1>11. [m \in Nonces |-> PhaseOf(m)]' =
          [m \in Nonces |-> IF m = n THEN "live"
                            ELSE IF m \in L!Replaced(o) THEN "dead"
                            ELSE [k \in Nonces |-> PhaseOf(k)][m]]
  <2>1. \A m \in Nonces : m \in L!Replaced(o) <=>
            m \in LiveNonces /\ EmailOf(m) = o /\ o # NoEmail
    BY DEF L!Replaced, PhaseOf
  <2>2. QED
    BY <1>4, <1>6, <1>7, <2>1
<1>12. [m \in Nonces |-> EmailOf(m)]' = [[m \in Nonces |-> EmailOf(m)] EXCEPT ![n] = o]
  BY <1>8, <1>9
<1>13. QED
  BY <1>1, <1>4, <1>10, <1>11, <1>12 DEF L!Store

\* A SELECT that returns a row honours its nonce.
LEMMA SelectHonours ==
    ASSUME IInv, NEW r \in Requests, ExecSelect(r), Matching(r) # {}
    PROVE  L!Honour(req[r].nonce)
<1>1. req[r].nonce \in Nonces
  BY DEF IInv, TypeOK, Matching, Row
<1>2. [n \in Nonces |-> PhaseOf(n)][req[r].nonce] = "live"
  BY <1>1 DEF Matching, PhaseOf, LiveNonces
<1>3. QED
  BY <1>2, SameTable DEF ExecSelect, L!Honour

\* A DELETE retires the nonce presented, unless the nonce is gone.
LEMMA DeleteRetires ==
    ASSUME IInv, NEW d \in Deletion, ExecDelete(d)
    PROVE  L!Retire(d.nonce) \/ UNCHANGED L!lvars
<1>1. /\ d \in deletes /\ UNCHANGED <<log, honoured>>
      /\ rows' = {x \in rows : ~(x.nonce = d.nonce /\ d.ip \in {NoIp, x.ip})}
  BY DEF ExecDelete, history
<1>2. d.nonce \in honoured /\ d.nonce \in Nonces
  BY <1>1 DEF IInv, Presented, Deletion
<1>3. UNCHANGED [n \in Nonces |-> EmailOf(n)]
  BY <1>1 DEF EmailOf, StoredNonces
<1>4. CASE rows' = rows
  BY <1>1, <1>4, SameTable DEF L!lvars
<1>5. CASE rows' # rows
  <2>1. PICK x \in rows : x \notin rows' /\ x.nonce = d.nonce
    BY <1>1, <1>5
  <2>2. \A y \in rows : y \in rows' <=> y.nonce # d.nonce
    BY <1>1, <2>1 DEF IInv, OneEach
  <2>3. PhaseOf(d.nonce) = "live"
    BY <2>1 DEF PhaseOf, LiveNonces
  <2>4. PhaseOf(d.nonce)' = "dead"
    BY <1>1, <2>1, <2>2 DEF PhaseOf, LiveNonces, StoredNonces, IInv, OneEach
  <2>5. \A m \in Nonces \ {d.nonce} : PhaseOf(m)' = PhaseOf(m)
    <3>1. \A m \in Nonces \ {d.nonce} : m \in LiveNonces' <=> m \in LiveNonces
      BY <1>1, <2>2 DEF LiveNonces
    <3>2. QED
      BY <1>1, <3>1 DEF PhaseOf, StoredNonces
  <2>6. [m \in Nonces |-> PhaseOf(m)]'
          = [[m \in Nonces |-> PhaseOf(m)] EXCEPT ![d.nonce] = "dead"]
    BY <2>4, <2>5
  <2>7. QED
    BY <1>1, <1>2, <1>3, <2>3, <2>6 DEF L!Retire
<1>6. QED
  BY <1>4, <1>5

LEMMA StepLife == IInv /\ [Next]_vars => [L!LNext]_(L!lvars)
<1> SUFFICES ASSUME IInv, [Next]_vars PROVE L!LNext \/ UNCHANGED L!lvars
  OBVIOUS
<1>1. ASSUME NEW r \in Requests, ExecInsert(r) PROVE L!LNext \/ UNCHANGED L!lvars
  <2>1. CASE IpTaken(req[r].email, req[r].ip)
    BY <1>1, <2>1, SameTable DEF ExecInsert, L!lvars
  <2>2. CASE ~IpTaken(req[r].email, req[r].ip)
    <3>1. req[r].nonce \in Nonces /\ req[r].email \in Emails \cup {NoEmail}
      BY <1>1, NewRowFresh DEF ExecInsert, Row
    <3>2. QED
      BY <1>1, <2>2, <3>1, InsertStores DEF L!LNext
  <2>3. QED
    BY <2>1, <2>2
<1>2. ASSUME NEW r \in Requests, ExecSelect(r) PROVE L!LNext \/ UNCHANGED L!lvars
  <2>1. CASE Matching(r) = {}
    BY <1>2, <2>1, SameTable DEF ExecSelect, L!lvars
  <2>2. CASE Matching(r) # {}
    <3>1. req[r].nonce \in Nonces
      BY <2>2 DEF IInv, TypeOK, Matching, Row
    <3>2. QED
      BY <1>2, <2>2, <3>1, SelectHonours DEF L!LNext
  <2>3. QED
    BY <2>1, <2>2
<1>3. ASSUME NEW d \in Deletion, ExecDelete(d) PROVE L!LNext \/ UNCHANGED L!lvars
  BY <1>3, DeleteRetires DEF L!LNext, Deletion
<1>4. ASSUME UNCHANGED <<rows, log, honoured>> PROVE UNCHANGED L!lvars
  BY <1>4, SameTable DEF L!lvars
<1>5. QED
  BY <1>1, <1>2, <1>3, <1>4
  DEF Next, vars, history, CallSetNonce, CallCheckNonce, Resume, StatementFails,
      DeleteFails, Restart, Tick

\* The table implements the life of a nonce, for any number of requests: what
\* is honoured is live, and a nonce removed or replaced never comes back.
THEOREM Refinement == Spec => ImplementsLifecycle
  BY Invariance, InitLife, StepLife, PTL DEF Spec, ImplementsLifecycle, L!LSpec

=============================================================================
