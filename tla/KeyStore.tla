------------------------------ MODULE KeyStore ------------------------------
(* One key of key_value_store, as the two stores of Storage.js that Client   *)
(* can be configured with keep it. PSQLStore writes with one statement;      *)
(* SqliteStore first looks whether the key is there, then sends an UPDATE or *)
(* an INSERT, and other writes run between the two. Statements run in any    *)
(* order: on a pool of connections, or on the threads of the SQLite library. *)
(*                                                                           *)
(* The key is unique, as ON CONFLICT (key) requires; nothing deletes it.     *)
(* Left out: the conversion to text and back, which get_type makes exact for *)
(* the integers stored, and MySQLStore, which Client never makes.            *)
CONSTANTS Writers,   \* the calls of setKey under way at one time
          Values,
          NoValue,   \* the key is not there; null
          Kinds,     \* the kinds of store, of which the configuration has one
          StoreFails \* whether statements fail

VARIABLES kind,
          stored,    \* the row's value
          set,       \* [Writers -> the statement it sent, and its value]
          get,       \* whether getKey's SELECT is under way
          got        \* what getKey answered last

kvars == <<kind, stored, set, get, got>>

InFlight == {"upsert", "lookup", "update", "insert"}

Call == [pc : InFlight \cup {"none", "fulfilled", "rejected"},
         value : Values \cup {NoValue}]
NoCall == [pc |-> "none", value |-> NoValue]

KTypeOK ==
    /\ kind \in Kinds
    /\ stored \in Values \cup {NoValue}
    /\ set \in [Writers -> Call]
    /\ \A w \in Writers : set[w].value \in Values <=> set[w].pc \in InFlight
    /\ get \in BOOLEAN
    /\ got \in Values \cup {NoValue}

KInit ==
    /\ kind \in Kinds
    /\ stored = NoValue /\ got = NoValue
    /\ set = [w \in Writers |-> NoCall]
    /\ get = FALSE

-----------------------------------------------------------------------------
Idle(w) == set[w].pc \notin InFlight

setKey(w, v) ==
    /\ Idle(w)
    /\ set' = [set EXCEPT ![w] =
                  [pc |-> IF kind = "psql" THEN "upsert" ELSE "lookup", value |-> v]]
    /\ UNCHANGED <<kind, stored, get, got>>

Settled(w, how) == [set EXCEPT ![w] = [pc |-> how, value |-> NoValue]]

\* Mutant of Upserts: ON CONFLICT DO NOTHING.
UpsertsOnce(w) ==
    /\ set[w].pc = "upsert"
    /\ stored' = IF stored = NoValue THEN set[w].value ELSE stored
    /\ set' = Settled(w, "fulfilled")
    /\ UNCHANGED <<kind, get, got>>

\* INSERT ... ON CONFLICT (key) DO UPDATE.
Upserts(w) ==
    /\ set[w].pc = "upsert"
    /\ stored' = set[w].value
    /\ set' = Settled(w, "fulfilled")
    /\ UNCHANGED <<kind, get, got>>

\* SELECT 1: the statement that follows depends on what is there now.
LooksUp(w) ==
    /\ set[w].pc = "lookup"
    /\ set' = [set EXCEPT ![w].pc = IF stored = NoValue THEN "insert" ELSE "update"]
    /\ UNCHANGED <<kind, stored, get, got>>

Updates(w) ==
    /\ set[w].pc = "update"
    /\ stored' = set[w].value
    /\ set' = Settled(w, "fulfilled")
    /\ UNCHANGED <<kind, get, got>>

\* Mutant of Inserts: the error is logged only, as updateBotSession does.
InsertsSilently(w) ==
    /\ set[w].pc = "insert" /\ stored = NoValue
    /\ stored' = set[w].value
    /\ set' = Settled(w, "fulfilled")
    /\ UNCHANGED <<kind, get, got>>

\* INSERT: another write may have come first since the SELECT; then this one is
\* refused, though it may be the later.
Inserts(w) ==
    /\ set[w].pc = "insert"
    /\ IF stored = NoValue
       THEN stored' = set[w].value /\ set' = Settled(w, "fulfilled")
       ELSE set' = Settled(w, "rejected") /\ UNCHANGED stored
    /\ UNCHANGED <<kind, get, got>>

SetFails(w) ==
    /\ StoreFails /\ ~Idle(w)
    /\ set' = Settled(w, "rejected")
    /\ UNCHANGED <<kind, stored, get, got>>

getKey ==
    /\ ~get
    /\ get' = TRUE
    /\ UNCHANGED <<kind, stored, set, got>>

\* A SELECT that fails is a key not there: the error is logged and null the answer.
Gets ==
    /\ get
    /\ get' = FALSE
    /\ got' \in {stored} \cup (IF StoreFails THEN {NoValue} ELSE {})
    /\ UNCHANGED <<kind, stored, set>>

\* The process dies: what did not reach the table is lost.
Forget ==
    /\ set' = [w \in Writers |-> NoCall]
    /\ get' = FALSE /\ got' = NoValue
    /\ UNCHANGED <<kind, stored>>

Statement(w) == Upserts(w) \/ LooksUp(w) \/ Updates(w) \/ Inserts(w)

-----------------------------------------------------------------------------
\* Each write of either store is one write of a register, in spite of the two
\* statements of SqliteStore and whatever runs between them.
R == INSTANCE Register
        WITH value   <- stored,
             writing <- [w \in Writers |-> IF Idle(w) THEN {} ELSE {set[w].value}],
             written <- [w \in Writers |-> IF Idle(w) THEN set[w].pc ELSE "none"],
             reading <- get,
             read    <- got

=============================================================================
