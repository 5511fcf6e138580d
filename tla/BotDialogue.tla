----------------------------- MODULE BotDialogue -----------------------------
(* The chat side of the bot, for one user: Client.js makes a Session object  *)
(* for every message that comes in, bot.js walks it through menus and        *)
(* prompts, and Storage.js keeps it as one row of bot_sessions.              *)
(*                                                                           *)
(* Each object works on its own copy of the row, taken when the message came *)
(* in. Every change, and every read through maybeRetrieveSessionVar, writes  *)
(* the whole copy back without waiting; the pool sends these writes over     *)
(* several connections, so they land in any order, between and after those   *)
(* of other messages. A handler runs to its first await in one step; help    *)
(* goes on after its query, on the same copy, while other messages are       *)
(* handled.                                                                  *)
(*                                                                           *)
(* Left out: the bodies of replies, all of a Session that neither Client nor *)
(* the menus read, and a second write of the contents just written.          *)
EXTENDS Integers, FiniteSets, SequencesExt, Bags

CONSTANTS Objects,     \* the Session objects of one user, one for each message
          Texts,       \* what the user types or the buttons say
          NoText,      \* undefined
          Kinds,       \* the kinds of message that come in
          Contents,    \* what an Init brings
          Faults       \* whether writes fail and the process restarts

VARIABLES stored,      \* the row
          object,      \* [Objects -> [pc, message, copy of the row,
                       \*   lists and offers whose help waits for the database]]
          writes,      \* the bag of UPSERTs sent and not landed
          picked,      \* history: what was typed at the list of shipments
          offered      \* history: what Accept & Pay and Refuse were offered for,
                       \*   and whether on the bot's own word

vars == <<stored, object, writes, picked, offered>>

\* How many prompts each submenu of main has; all but one begin with a list.
Prompts == [shipment_received |-> 2, withdraw |-> 1, check_contract |-> 1]
Submenus == DOMAIN Prompts

\* Wake: an empty text. Payment: one the Ethereum service tells of. ChatPayment:
\* one told in the chat.
AllKinds == {"Init", "InitRequest", "Text", "Wake", "Payment", "PaymentRequest",
             "ChatPayment"}
Message == {s \in [kind : AllKinds, text : Texts \cup {NoText}] :
                s.kind = "Text" <=> s.text # NoText}
NoMessage == [kind |-> "Payment", text |-> NoText]

\* known: paymentAddress is set. held: the message heldForInit, in a set. choice:
\* shippingContractName. "elsewhere" is no menu of the bot.
\* own: history: whether all that the bot reads of it was set by the bot, but for
\* paymentAddress.
Data == [known : BOOLEAN, held : SUBSET Message,
         submenu : Submenus \cup {"main", "elsewhere"},
         phase : Nat, choice : Texts \cup {NoText}, own : BOOLEAN]

Fresh == [known |-> FALSE, held |-> {}, submenu |-> "main", phase |-> 0,
          choice |-> NoText, own |-> TRUE]

\* The content of an Init: its keys in their order, and values for them. The bot
\* asks for paymentAddress and language. Keys that nothing reads are left out.
Asked == {"paymentAddress"}
Keys == Asked \cup {"submenu", "promptphase", "shippingContractName", "heldForInit"}
Content == [keys : Seq(Keys), data : Data]

ASSUME DialogueAssumption ==
    /\ NoText \notin Texts /\ Faults \in BOOLEAN
    /\ Contents \subseteq Content

NoObject == [pc |-> "none", message |-> NoMessage, data |-> Fresh,
             lists |-> 0, offers |-> 0]
Done == [NoObject EXCEPT !.pc = "done"]

TypeOK ==
    /\ stored \in Data
    /\ object \in [Objects -> [pc : {"none", "loading", "loaded", "prompting", "done"},
                               message : Message, data : Data,
                               lists : Nat, offers : Nat]]
    /\ BagToSet(writes) \subseteq Data /\ IsABag(writes)
    /\ picked \subseteq Texts
    /\ offered \subseteq [own : BOOLEAN, choice : Texts \cup {NoText}]

Init ==
    /\ stored \in {Fresh, [Fresh EXCEPT !.known = TRUE]}
    /\ object = [m \in Objects |-> NoObject]
    /\ writes = EmptyBag /\ picked = {} /\ offered = {}

-----------------------------------------------------------------------------
\* What a handler does to its copy: the successive contents it writes back.

InPrompts(d) == d.submenu \in Submenus
AtShipments(d) == d.submenu = "shipment_received" /\ d.phase = 0

\* The prompt help shows is a list, or the two buttons of the second prompt.
ShowsList(d) == InPrompts(d) /\ d.phase = 0
ShowsButtons(d) == d.submenu = "shipment_received" /\ d.phase = 1

FallBackToMain(d) ==
    LET reset == [d EXCEPT !.phase = 0] IN <<reset, [reset EXCEPT !.submenu = "main"]>>

\* handleOption: only an option with a submenu of its own moves anywhere.
HandleOption(d, x) ==
    IF x \in Submenus THEN <<[d EXCEPT !.submenu = x]>> ELSE <<>>

\* Mutants of NextPromptPhase: the end of the prompts marked with -1; no wrap.
NextPromptPhaseMarked(d) ==
    IF d.phase + 1 < Prompts[d.submenu] THEN d.phase + 1 ELSE -1
NextPromptPhaseUnwrapped(d) == d.phase + 1

NextPromptPhase(d) == (d.phase + 1) % Prompts[d.submenu]

\* Mutant of HandlePrompt: the prompt of the list keeps no answer.
HandlePromptForgetting(d, x) ==
    LET moved == [d EXCEPT !.phase = NextPromptPhase(d)]
    IN  <<moved>> \o IF moved.phase = 0 THEN <<[moved EXCEPT !.submenu = "main"]>> ELSE <<>>

\* handlePrompt: keep the answer, go to the next prompt, or back to main after
\* the last one; a phase that has no prompt falls back.
HandlePrompt(d, x) ==
    IF d.phase >= Prompts[d.submenu]
    THEN FallBackToMain(d)
    ELSE LET answered == IF AtShipments(d) THEN [d EXCEPT !.choice = x] ELSE d
             moved == [answered EXCEPT !.phase = NextPromptPhase(d)]
         IN  <<answered, moved>> \o
             IF moved.phase = 0 THEN <<[moved EXCEPT !.submenu = "main"]>> ELSE <<>>

\* onEvent: reading the submenu writes the copy back before anything else. An
\* assert stops it at a submenu that is none.
OnEvent(d, s) ==
    <<d>> \o IF s.kind # "Text" \/ d.submenu = "elsewhere" THEN <<>>
             ELSE IF InPrompts(d) THEN HandlePrompt(d, s.text)
             ELSE HandleOption(d, s.text)

\* How many times onEvent calls help when a prompt is due: once at the end, and
\* once more for an Init or a request for money.
Helps(s) == IF s.kind \in {"Init", "PaymentRequest"} THEN 2 ELSE 1

-----------------------------------------------------------------------------
\* An object whose message is handled lives on for what its helps wait for.
Waiting(d, lists, offers) ==
    IF lists + offers = 0 THEN Done
    ELSE [pc |-> "prompting", message |-> NoMessage, data |-> d,
          lists |-> lists, offers |-> offers]

\* The copy's contents are written back one after the other, none awaited.
Flush(trail) ==
    writes (+) [d \in Range(trail) |-> Cardinality({n \in DOMAIN trail : trail[n] = d})]

\* Of n calls of help at the contents d, those that wait for a list or the nonces
\* of the buttons.
Lists(d, n) == IF ShowsList(d) THEN n ELSE 0
Offers(d, n) == IF ShowsButtons(d) THEN n ELSE 0

\* A handler ran to its end: the copy is left with the last of the contents, at
\* which help was called so many times, after lists and offers there were before.
Turn(m, trail, helps, lists, offers) ==
    LET last == Last(trail) IN
    /\ object' = [object EXCEPT ![m] =
                      Waiting(last, lists + Lists(last, helps), offers + Offers(last, helps))]
    /\ writes' = Flush(trail)
    /\ UNCHANGED <<stored, offered>>

\* Nothing but the object itself.
Becomes(m, o) ==
    /\ object' = [object EXCEPT ![m] = o]
    /\ UNCHANGED <<stored, writes, picked, offered>>

Pick(d, s) == IF s.kind = "Text" /\ AtShipments(d) THEN {s.text} ELSE {}

\* A message comes in: a new object, and a SELECT for its row. A SELECT that
\* fails is taken for a row that is not there.
Receive(m, s) ==
    /\ object[m].pc = "none"
    /\ Becomes(m, [NoObject EXCEPT !.pc = "loading", !.message = s])

Load(m) ==
    /\ object[m].pc = "loading"
    /\ \E d \in {stored} \cup IF Faults THEN {Fresh} ELSE {} :
          Becomes(m, [object[m] EXCEPT !.pc = "loaded", !.data = d])

\* The user's profile arrived, and the message is one that says nothing to the
\* bot: a payment told in the chat, or an empty text of a user that is known.
Ignore(m) ==
    /\ object[m].pc = "loaded"
    /\ \/ object[m].message.kind = "ChatPayment"
       \/ object[m].message.kind = "Wake" /\ object[m].data.known
    /\ Becomes(m, Done)

\* The message goes to the bot.
Handle(m) ==
    LET d == object[m].data
        s == object[m].message
        trail == OnEvent(d, s)
    IN  /\ object[m].pc = "loaded"
        /\ s.kind \notin {"Init", "Wake", "ChatPayment"}
        /\ d.known \/ s.kind = "InitRequest"
        /\ Turn(m, trail, Helps(s), 0, 0)
        /\ picked' = picked \cup Pick(d, s)

\* A user not known is asked for an Init, and his message held in the one place
\* there is for it.
Hold(m) ==
    LET d == object[m].data
        s == object[m].message
    IN  /\ object[m].pc = "loaded"
        /\ s.kind \notin {"Init", "InitRequest", "ChatPayment"}
        /\ ~d.known
        /\ Turn(m, <<[d EXCEPT !.held = {s}]>>, 0, 0, 0)
        /\ UNCHANGED picked

\* The copy after some keys of an Init's content, whatever keys they are.
Copied(d, c, keys) ==
    [known   |-> IF "paymentAddress" \in keys THEN c.data.known ELSE d.known,
     held    |-> IF "heldForInit" \in keys THEN c.data.held ELSE d.held,
     submenu |-> IF "submenu" \in keys THEN c.data.submenu ELSE d.submenu,
     phase   |-> IF "promptphase" \in keys THEN c.data.phase ELSE d.phase,
     choice  |-> IF "shippingContractName" \in keys THEN c.data.choice ELSE d.choice,
     own     |-> d.own /\ keys \subseteq Asked]

\* The contents written while they are copied, one key after the other.
Copies(d, c) ==
    [n \in DOMAIN c.keys |-> Copied(d, c, {c.keys[i] : i \in 1 .. n})]

\* An Init's content is copied, key by key, with or without a paymentAddress.
\* The Init handles itself and then, on the same copy, the message held. What its
\* helps wait for is still on its way when the second moves on.
HandleInit(m, c) ==
    LET filled == Copied(object[m].data, c, Range(c.keys))
        greeted == Copies(object[m].data, c) \o OnEvent(filled, object[m].message)
        released == [filled EXCEPT !.held = {}]
        rest(s) == IF s.kind = "Wake" THEN <<>> ELSE OnEvent(released, s)
        helps(s) == IF s.kind = "Wake" THEN 0 ELSE Helps(s)
    IN  /\ object[m].pc = "loaded"
        /\ object[m].message.kind = "Init"
        /\ IF filled.held = {}
           THEN Turn(m, greeted, 2, 0, 0) /\ UNCHANGED picked
           ELSE \E s \in filled.held :
                   /\ Turn(m, (greeted \o <<released>>) \o rest(s), helps(s),
                           Lists(filled, 2), Offers(filled, 2))
                   /\ picked' = picked \cup Pick(released, s)

\* listAndPrompt's query returned rows, which are shown; or the user's profile
\* names no address, and there is no query.
Listed(m) ==
    /\ object[m].lists > 0
    /\ Becomes(m, Waiting(object[m].data, object[m].lists - 1, object[m].offers))

\* It returned none, or failed: back to main, wherever the copy is by now.
NothingToList(m) ==
    LET trail == FallBackToMain(object[m].data) IN
    /\ object[m].lists > 0
    /\ object' = [object EXCEPT ![m] =
                      Waiting(Last(trail), object[m].lists - 1, object[m].offers)]
    /\ writes' = Flush(trail)
    /\ UNCHANGED <<stored, picked, offered>>

\* The nonces for the two buttons are there: the choice is read, and with it the
\* copy written back, only now.
Offer(m) ==
    /\ object[m].offers > 0
    /\ object' = [object EXCEPT ![m] = Waiting(@.data, @.lists, @.offers - 1)]
    /\ offered' = offered \cup
                     {[own |-> object[m].data.own, choice |-> object[m].data.choice]}
    /\ writes' = Flush(<<object[m].data>>)
    /\ UNCHANGED <<stored, picked>>

\* The nonces could not be made: help breaks off.
OfferFails(m) ==
    /\ object[m].offers > 0
    /\ Becomes(m, Waiting(object[m].data, object[m].lists, object[m].offers - 1))

\* One of the writes lands, whichever it is.
Land(d) ==
    /\ BagIn(d, writes)
    /\ stored' = d
    /\ writes' = writes (-) SetToBag({d})
    /\ UNCHANGED <<object, picked, offered>>

WriteFails(d) ==
    /\ Faults
    /\ BagIn(d, writes)
    /\ writes' = writes (-) SetToBag({d})
    /\ UNCHANGED <<stored, object, picked, offered>>

\* The process restarts, and forgets all but the row.
Restart ==
    /\ Faults
    /\ object' = [m \in Objects |-> IF object[m].pc = "none" THEN NoObject ELSE Done]
    /\ writes' = EmptyBag
    /\ UNCHANGED <<stored, picked, offered>>

Incoming == {s \in Message : s.kind \in Kinds}

Next ==
    \/ \E m \in Objects :
          \/ \E s \in Incoming : Receive(m, s)
          \/ Load(m)
          \/ Ignore(m) \/ Handle(m) \/ Hold(m)
          \/ \E c \in Contents : HandleInit(m, c)
          \/ Listed(m) \/ NothingToList(m) \/ Offer(m) \/ OfferFails(m)
    \/ \E d \in BagToSet(writes) : Land(d) \/ WriteFails(d)
    \/ Restart

Spec == Init /\ [][Next]_vars

-----------------------------------------------------------------------------
\* What the dialogue must never get wrong.

\* Everything that is, or may come to be, the user's place in the dialogue.
Places == {stored} \cup {object[m].data : m \in Objects} \cup BagToSet(writes)

\* In main no prompt is under way; in a submenu the phase is that of one of its
\* prompts; and past the list of shipments one was answered.
SoundPlace(d) ==
    /\ d.submenu \in Submenus \cup {"main"}
    /\ IF d.submenu = "main" THEN d.phase = 0 ELSE d.phase < Prompts[d.submenu]
    /\ d.phase > 0 => d.choice # NoText

\* Whatever order messages, lists and writes come in, and with whatever an Init
\* is answered, every copy, every write under way and the row itself is a place
\* the menus have: the asserts of help and onCommandOrMessage hold, and no prompt
\* is ever looked for in vain. The one exception is what descends from an Init
\* that brought keys it was not asked for and the menus read.
EverySound == \A d \in Places : d.own => SoundPlace(d)

\* The two buttons always carry something the user answered the list with, never
\* the empty default nor what he typed at another prompt, with the same exception.
OfferedAsPicked == \A x \in offered : x.own => x.choice \in picked

=============================================================================
