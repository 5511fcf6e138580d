--------------------------- MODULE BotDialogue_proofs ---------------------------
(* Proofs about the chat dialogue, for any number of messages, of any kinds   *)
(* and texts, and of writes in any order: the user is always at a place the   *)
(* menus have, and the buttons carry something he picked. They are proofs by  *)
(* invariance because every content a handler gives its copy, and not the     *)
(* last alone, is such a place with such a choice if the copy was.            *)
EXTENDS BotDialogue, SequenceTheorems, FiniteSetTheorems, TLAPS

\* The places the menus have, with a choice out of C, for what is the bot's own.
Good(C) == {d \in Data : d.own => SoundPlace(d) /\ d.choice \in C}

ObjectOf(C) == [pc : {"none", "loading", "loaded", "prompting", "done"},
                message : Message, data : Good(C), lists : Nat, offers : Nat]

\* What a handler writes back: contents that are places, one at least.
Trail(t, C) == t \in Seq(Good(C)) /\ t # <<>>

PickedOrNone == picked \cup {NoText}

\* Who waits for the nonces of the buttons is at a prompt, and has a choice.
Offering(o) == o.offers # 0 => o.pc = "prompting" /\ (o.data.own => o.data.choice # NoText)

OffersAChoice == \A m \in Objects : Offering(object[m])

IInv ==
    /\ stored \in Good(PickedOrNone)
    /\ IsABag(writes) /\ BagToSet(writes) \subseteq Good(PickedOrNone)
    /\ object \in [Objects -> ObjectOf(PickedOrNone)]
    /\ OffersAChoice
    /\ picked \subseteq Texts
    /\ offered \subseteq [own : BOOLEAN, choice : Texts \cup {NoText}]
    /\ OfferedAsPicked

LEMMA PromptsOf ==
    /\ Submenus = {"shipment_received", "withdraw", "check_contract"}
    /\ Prompts["shipment_received"] = 2
    /\ Prompts["withdraw"] = 1 /\ Prompts["check_contract"] = 1
  BY DEF Submenus, Prompts

LEMMA FreshGood ==
    ASSUME NEW C, NoText \in C
    PROVE  Fresh \in Good(C) /\ NoMessage \in Message
  BY PromptsOf DEF Fresh, Good, Data, SoundPlace, InPrompts, NoMessage, Message, AllKinds

LEMMA TrailEnds ==
    ASSUME NEW C, NEW t, Trail(t, C)
    PROVE  Last(t) \in Good(C) /\ Range(t) \subseteq Good(C)
  BY DEF Trail, Last, Range

LEMMA TrailJoins ==
    ASSUME NEW C, NEW s \in Seq(Good(C)), NEW t \in Seq(Good(C)), s # <<>> \/ t # <<>>
    PROVE  Trail(s \o t, C)
  BY DEF Trail

-----------------------------------------------------------------------------
\* The contents of a handler's copy

LEMMA FallBackTrail ==
    ASSUME NEW C, NEW d \in Good(C)
    PROVE  Trail(FallBackToMain(d), C)
<1> DEFINE reset == [d EXCEPT !.phase = 0]
           main == [reset EXCEPT !.submenu = "main"]
<1>1. reset \in Good(C)
  BY PromptsOf DEF Good, Data, SoundPlace, InPrompts
<1>2. main \in Good(C)
  BY <1>1 DEF Good, Data, SoundPlace, InPrompts
<1>3. QED
  BY <1>1, <1>2 DEF FallBackToMain, Trail

LEMMA OptionTrail ==
    ASSUME NEW C, NEW d \in Good(C), d.submenu = "main", NEW x
    PROVE  HandleOption(d, x) \in Seq(Good(C))
<1>1. ASSUME x \in Submenus PROVE [d EXCEPT !.submenu = x] \in Good(C)
  BY <1>1, PromptsOf DEF Good, Data, SoundPlace, InPrompts
<1>2. QED
  BY <1>1 DEF HandleOption

\* The next phase has a prompt, or is the first.
LEMMA NextPhase ==
    ASSUME NEW C, NEW d \in Good(C), InPrompts(d), d.phase < Prompts[d.submenu]
    PROVE  /\ NextPromptPhase(d) \in Nat /\ NextPromptPhase(d) < Prompts[d.submenu]
           /\ NextPromptPhase(d) # 0 => AtShipments(d)
<1>1. d.submenu \in Submenus /\ d.phase \in Nat
  BY DEF Good, Data, InPrompts
<1>2. 1 % 1 = 0 /\ 1 % 2 = 1 /\ 2 % 2 = 0
  OBVIOUS
<1>3. CASE d.submenu = "shipment_received"
  <2>1. d.phase = 0 \/ d.phase = 1
    BY <1>1, <1>3, PromptsOf
  <2>2. CASE d.phase = 0
    BY <1>2, <1>3, <2>2, PromptsOf DEF NextPromptPhase, AtShipments
  <2>3. CASE d.phase = 1
    BY <1>2, <1>3, <2>3, PromptsOf DEF NextPromptPhase, AtShipments
  <2>4. QED
    BY <2>1, <2>2, <2>3
<1>4. CASE d.submenu # "shipment_received"
  <2>1. Prompts[d.submenu] = 1 /\ d.phase = 0
    BY <1>1, <1>4, PromptsOf
  <2>2. QED
    BY <1>2, <2>1 DEF NextPromptPhase
<1>5. QED
  BY <1>3, <1>4

LEMMA PromptTrail ==
    ASSUME NEW C, NEW d \in Good(C), InPrompts(d), NEW x \in Texts,
           AtShipments(d) => x \in C
    PROVE  Trail(HandlePrompt(d, x), C)
<1> DEFINE answered == IF AtShipments(d) THEN [d EXCEPT !.choice = x] ELSE d
           moved == [answered EXCEPT !.phase = NextPromptPhase(d)]
           main == [moved EXCEPT !.submenu = "main"]
<1>1. answered \in Good(C) /\ answered.submenu = d.submenu /\ answered.own = d.own
      /\ (AtShipments(d) => answered.choice # NoText)
  BY DialogueAssumption DEF Good, Data, SoundPlace, InPrompts
<1>2. CASE d.phase >= Prompts[d.submenu]
  BY <1>2, FallBackTrail DEF HandlePrompt
<1>3. CASE ~(d.phase >= Prompts[d.submenu])
  <2>1. d.phase < Prompts[d.submenu]
    BY <1>3, PromptsOf DEF Good, Data, InPrompts
  <2>2. moved \in Good(C)
    <3> DEFINE next == NextPromptPhase(d)
    <3>1. next \in Nat /\ next < Prompts[d.submenu] /\ (next # 0 => answered.choice # NoText)
      BY <1>1, <2>1, NextPhase
    <3> HIDE DEF next, answered
    <3>2. [answered EXCEPT !.phase = next] \in Good(C)
      BY <1>1, <3>1, PromptsOf DEF Good, Data, SoundPlace, InPrompts
    <3>3. QED
      BY <3>2 DEF next
  <2>3. moved.phase = 0 => main \in Good(C)
    BY <2>2 DEF Good, Data, SoundPlace, InPrompts
  <2>4. HandlePrompt(d, x) = <<answered, moved>> \o IF moved.phase = 0 THEN <<main>> ELSE <<>>
    BY <1>3 DEF HandlePrompt
  <2>5. <<answered, moved>> \in Seq(Good(C)) /\ (IF moved.phase = 0 THEN <<main>> ELSE <<>>) \in Seq(Good(C))
    BY <1>1, <2>2, <2>3
  <2>6. QED
    BY <2>4, <2>5, TrailJoins
<1>4. QED
  BY <1>2, <1>3

LEMMA EventTrail ==
    ASSUME NEW C, NEW d \in Good(C), NEW s \in Message, Pick(d, s) \subseteq C
    PROVE  Trail(OnEvent(d, s), C)
<1> DEFINE rest == IF s.kind # "Text" \/ d.submenu = "elsewhere" THEN <<>>
                   ELSE IF InPrompts(d) THEN HandlePrompt(d, s.text)
                   ELSE HandleOption(d, s.text)
<1>1. rest \in Seq(Good(C))
  <2>1. CASE s.kind # "Text" \/ d.submenu = "elsewhere"
    BY <2>1
  <2>2. CASE s.kind = "Text" /\ InPrompts(d)
    <3>1. s.text \in Texts /\ d.submenu # "elsewhere" /\ (AtShipments(d) => s.text \in C)
      BY <2>2, PromptsOf DEF Message, Pick, InPrompts
    <3>2. QED
      BY <2>2, <3>1, PromptTrail DEF Trail
  <2>3. CASE s.kind = "Text" /\ d.submenu = "main"
    BY <2>3, PromptsOf, OptionTrail DEF InPrompts
  <2>4. QED
    BY <2>1, <2>2, <2>3 DEF InPrompts, Good, Data
<1>2. <<d>> \in Seq(Good(C)) /\ <<d>> # <<>>
  OBVIOUS
<1>3. QED
  BY <1>1, <1>2, TrailJoins DEF OnEvent

-----------------------------------------------------------------------------
\* More choices leave everything what it is

LEMMA Grows ==
    ASSUME NEW C, NEW D, C \subseteq D
    PROVE  Good(C) \subseteq Good(D) /\ ObjectOf(C) \subseteq ObjectOf(D)
<1>1. Good(C) \subseteq Good(D)
  BY DEF Good
<1>2. QED
  BY <1>1 DEF ObjectOf

LEMMA TrailGrows ==
    ASSUME NEW C, NEW D, C \subseteq D, NEW t, Trail(t, C)
    PROVE  Trail(t, D)
<1>1. Good(C) \subseteq Good(D)
  BY Grows
<1>2. QED
  BY <1>1 DEF Trail

-----------------------------------------------------------------------------
\* What a handler leaves behind

LEMMA WaitingKept ==
    ASSUME NEW C, NoText \in C, NEW d \in Good(C), NEW l \in Nat, NEW o \in Nat,
           o # 0 /\ d.own => d.choice # NoText
    PROVE  /\ Waiting(d, l, o) \in ObjectOf(C)
           /\ Offering(Waiting(d, l, o))
<1>1. Done \in ObjectOf(C) /\ Done.offers = 0
  BY FreshGood DEF Done, NoObject, ObjectOf
<1>2. [pc |-> "prompting", message |-> NoMessage, data |-> d, lists |-> l, offers |-> o]
         \in ObjectOf(C)
  BY FreshGood DEF ObjectOf
<1>3. QED
  BY <1>1, <1>2 DEF Waiting, Offering

\* One object changed into one with a place, and a choice if it needs one.
LEMMA ObjectsKept ==
    ASSUME IInv, picked \subseteq picked', NEW m \in Objects, NEW o,
           o \in ObjectOf(PickedOrNone'), Offering(o),
           object' = [object EXCEPT ![m] = o]
    PROVE  object' \in [Objects -> ObjectOf(PickedOrNone')] /\ OffersAChoice'
<1>1. PickedOrNone \subseteq PickedOrNone'
  BY DEF PickedOrNone
<1>2. ObjectOf(PickedOrNone) \subseteq ObjectOf(PickedOrNone')
  BY <1>1, Grows
<1>3. object \in [Objects -> ObjectOf(PickedOrNone')]
  BY <1>2 DEF IInv
<1>4. object' \in [Objects -> ObjectOf(PickedOrNone')]
  BY <1>3
<1>5. \A n \in Objects : object'[n] = IF n = m THEN o ELSE object[n]
  BY <1>3
<1>6. OffersAChoice'
  BY <1>5 DEF IInv, OffersAChoice
<1>7. QED
  BY <1>4, <1>6

\* A content written back is written so many times, once at least.
LEMMA TimesWritten ==
    ASSUME NEW S, NEW t \in Seq(S), NEW d \in Range(t)
    PROVE  Cardinality({n \in DOMAIN t : t[n] = d}) \in {n \in Nat : n > 0}
<1> DEFINE at == {n \in DOMAIN t : t[n] = d}
           k == Len(t)
<1>1. DOMAIN t = 1 .. k /\ k \in Int
  OBVIOUS
<1>2. at \in SUBSET (1 .. k)
  BY <1>1
<1>3. at # {}
  BY DEF Range
<1> HIDE DEF at, k
<1>4. IsFiniteSet(1 .. k)
  BY <1>1, FS_Interval
<1>5. IsFiniteSet(at)
  BY <1>2, <1>4, FS_Subset
<1>6. Cardinality(at) \in Nat /\ Cardinality(at) # 0
  BY <1>3, <1>5, FS_CardinalityType, FS_EmptySet
<1>7. Cardinality(at) \in {n \in Nat : n > 0}
  BY <1>6
<1>8. QED
  BY <1>7 DEF at

LEMMA FlushKept ==
    ASSUME IInv, NEW C, PickedOrNone \subseteq C, NEW t, Trail(t, C)
    PROVE  IsABag(Flush(t)) /\ BagToSet(Flush(t)) \subseteq Good(C)
<1> DEFINE B == [d \in Range(t) |-> Cardinality({n \in DOMAIN t : t[n] = d})]
           Counts == {n \in Nat : n > 0}
<1>1. t \in Seq(Good(C))
  BY DEF Trail
<1>2. B \in [Range(t) -> Counts]
  BY <1>1, TimesWritten
<1>3. writes \in [DOMAIN writes -> Counts]
  BY DEF IInv, IsABag
<1>4. writes (+) B \in [DOMAIN writes \cup Range(t) -> Counts]
  <2> HIDE DEF B
  <2>1. DOMAIN B = Range(t)
    BY <1>2
  <2>2. writes (+) B = [e \in DOMAIN writes \cup Range(t) |->
            (IF e \in DOMAIN writes THEN writes[e] ELSE 0)
            + (IF e \in Range(t) THEN B[e] ELSE 0)]
    BY <2>1 DEF (+)
  <2>3. \A e \in DOMAIN writes \cup Range(t) :
            (IF e \in DOMAIN writes THEN writes[e] ELSE 0)
            + (IF e \in Range(t) THEN B[e] ELSE 0) \in Counts
    BY <1>2, <1>3
  <2>4. QED
    BY <2>2, <2>3
<1>5. Flush(t) = writes (+) B
  BY DEF Flush
<1>6. DOMAIN writes \subseteq Good(C)
  BY Grows DEF IInv, BagToSet
<1>7. DOMAIN Flush(t) = DOMAIN writes \cup Range(t)
  <2> HIDE DEF B
  <2>1. QED
    BY <1>4, <1>5
<1>8. IsABag(Flush(t))
  <2> HIDE DEF B
  <2>1. QED
    BY <1>4, <1>5 DEF IsABag
<1>9. QED
  BY <1>6, <1>7, <1>8, TrailEnds DEF BagToSet

LEMMA BecomesKeeps ==
    ASSUME IInv, NEW m \in Objects, NEW o \in ObjectOf(PickedOrNone),
           Offering(o), Becomes(m, o)
    PROVE  IInv'
<1>1. /\ object' = [object EXCEPT ![m] = o]
      /\ UNCHANGED <<stored, writes, picked, offered>>
  BY DEF Becomes
<1>2. PickedOrNone' = PickedOrNone
  BY <1>1 DEF PickedOrNone
<1>3. object' \in [Objects -> ObjectOf(PickedOrNone')] /\ OffersAChoice'
  BY <1>1, <1>2, ObjectsKept
<1>4. QED
  BY <1>1, <1>2, <1>3 DEF IInv, OfferedAsPicked

\* A handler's turn, whose trail has no choices but those picked, its own included.
LEMMA TurnKeeps ==
    ASSUME IInv, NEW m \in Objects, NEW t, NEW h \in Nat, NEW l \in Nat, NEW o \in Nat,
           picked \subseteq picked', picked' \subseteq Texts,
           Trail(t, PickedOrNone'), o # 0 /\ Last(t).own => Last(t).choice # NoText,
           Turn(m, t, h, l, o)
    PROVE  IInv'
<1> DEFINE last == Last(t)
           lists == l + Lists(last, h)
           offers == o + Offers(last, h)
<1>1. /\ object' = [object EXCEPT ![m] = Waiting(last, lists, offers)]
      /\ writes' = Flush(t)
      /\ stored' = stored /\ offered' = offered
  BY DEF Turn
<1>2. PickedOrNone \subseteq PickedOrNone' /\ NoText \in PickedOrNone'
  BY DEF PickedOrNone
<1>3. last \in Good(PickedOrNone')
  BY TrailEnds
<1>4. lists \in Nat /\ offers \in Nat
  BY DEF Lists, Offers
<1>5. offers # 0 /\ last.own => last.choice # NoText
  <2>1. CASE ShowsButtons(last)
    BY <2>1, <1>3, PromptsOf DEF ShowsButtons, Good, Data, SoundPlace
  <2>2. CASE ~ShowsButtons(last)
    BY <2>2 DEF Offers
  <2>3. QED
    BY <2>1, <2>2
<1>6. object' \in [Objects -> ObjectOf(PickedOrNone')] /\ OffersAChoice'
  <2> DEFINE w == Waiting(last, lists, offers)
  <2>1. w \in ObjectOf(PickedOrNone') /\ Offering(w)
    <3> HIDE DEF last, lists, offers
    <3>1. QED
      BY <1>2, <1>3, <1>4, <1>5, WaitingKept
  <2> HIDE DEF w
  <2>2. object' = [object EXCEPT ![m] = w]
    BY <1>1 DEF w
  <2>3. QED
    BY <2>1, <2>2, ObjectsKept
<1>7. stored' \in Good(PickedOrNone')
  BY <1>1, <1>2, Grows DEF IInv
<1>8. IsABag(writes') /\ BagToSet(writes') \subseteq Good(PickedOrNone')
  BY <1>1, <1>2, FlushKept
<1>9. OfferedAsPicked' /\ offered' \subseteq [own : BOOLEAN, choice : Texts \cup {NoText}]
  BY <1>1 DEF IInv, OfferedAsPicked
<1>10. QED
  BY <1>6, <1>7, <1>8, <1>9 DEF IInv

\* What is at hand when an object moves.
LEMMA ObjectGood ==
    ASSUME IInv, NEW m \in Objects
    PROVE  /\ object[m].data \in Good(PickedOrNone) /\ object[m].message \in Message
           /\ object[m].lists \in Nat /\ object[m].offers \in Nat
           /\ Offering(object[m])
  BY DEF IInv, ObjectOf, OffersAChoice

-----------------------------------------------------------------------------
\* The steps

LEMMA NoTextChosen == NoText \in PickedOrNone
  BY DEF PickedOrNone

LEMMA ReceiveKeeps ==
    ASSUME IInv, NEW m \in Objects, NEW s \in Incoming, Receive(m, s)
    PROVE  IInv'
<1>1. s \in Message
  BY DEF Incoming
<1>2. LET o == [NoObject EXCEPT !.pc = "loading", !.message = s]
      IN  o \in ObjectOf(PickedOrNone) /\ Offering(o)
  BY <1>1, FreshGood, NoTextChosen DEF NoObject, ObjectOf, Offering
<1>3. QED
  BY <1>2, BecomesKeeps DEF Receive

LEMMA LoadKeeps ==
    ASSUME IInv, NEW m \in Objects, Load(m)
    PROVE  IInv'
<1>1. PICK d \in Good(PickedOrNone) : Becomes(m, [object[m] EXCEPT !.pc = "loaded", !.data = d])
  BY FreshGood, NoTextChosen DEF Load, IInv
<1>2. object[m] \in ObjectOf(PickedOrNone) /\ object[m].offers = 0
  BY DEF IInv, OffersAChoice, Offering, Load
<1>3. LET o == [object[m] EXCEPT !.pc = "loaded", !.data = d]
      IN  o \in ObjectOf(PickedOrNone) /\ Offering(o)
  BY <1>2 DEF ObjectOf, Offering
<1>4. QED
  BY <1>1, <1>3, BecomesKeeps

LEMMA IgnoreKeeps ==
    ASSUME IInv, NEW m \in Objects, Ignore(m)
    PROVE  IInv'
<1>1. Done \in ObjectOf(PickedOrNone) /\ Offering(Done)
  BY FreshGood, NoTextChosen DEF Done, NoObject, ObjectOf, Offering
<1>2. QED
  BY <1>1, BecomesKeeps DEF Ignore

\* A typed message is picked, if at all, before anything is made of it.
LEMMA PickedTexts ==
    ASSUME IInv, NEW d, NEW s \in Message, picked' = picked \cup Pick(d, s)
    PROVE  /\ picked \subseteq picked' /\ picked' \subseteq Texts
           /\ Pick(d, s) \subseteq picked' /\ PickedOrNone \subseteq PickedOrNone'
  BY DEF IInv, Pick, Message, PickedOrNone

LEMMA HandleKeeps ==
    ASSUME IInv, NEW m \in Objects, Handle(m)
    PROVE  IInv'
<1> DEFINE d == object[m].data
           s == object[m].message
<1>1. d \in Good(PickedOrNone) /\ s \in Message
  BY ObjectGood
<1>2. picked' = picked \cup Pick(d, s)
  BY DEF Handle
<1>3. /\ picked \subseteq picked' /\ picked' \subseteq Texts
      /\ Pick(d, s) \subseteq PickedOrNone' /\ PickedOrNone \subseteq PickedOrNone'
  BY <1>1, <1>2, PickedTexts DEF PickedOrNone
<1>4. d \in Good(PickedOrNone')
  BY <1>1, <1>3, Grows
<1>5. Trail(OnEvent(d, s), PickedOrNone')
  BY <1>1, <1>3, <1>4, EventTrail
<1>6. Turn(m, OnEvent(d, s), Helps(s), 0, 0)
  BY DEF Handle
<1>7. Helps(s) \in Nat
  BY DEF Helps
<1>8. QED
  BY <1>3, <1>5, <1>6, <1>7, TurnKeeps

LEMMA HoldKeeps ==
    ASSUME IInv, NEW m \in Objects, Hold(m)
    PROVE  IInv'
<1> DEFINE d == object[m].data
           s == object[m].message
           kept == [d EXCEPT !.held = {s}]
<1>1. d \in Good(PickedOrNone) /\ s \in Message
  BY ObjectGood
<1>2. kept \in Good(PickedOrNone)
  BY <1>1 DEF Good, Data, SoundPlace
<1>3. Trail(<<kept>>, PickedOrNone)
  BY <1>2 DEF Trail
<1>4. Turn(m, <<kept>>, 0, 0, 0) /\ picked' = picked
  BY DEF Hold
<1>5. PickedOrNone' = PickedOrNone /\ picked' \subseteq Texts
  BY <1>4 DEF PickedOrNone, IInv
<1>6. Trail(<<kept>>, PickedOrNone')
  BY <1>3, <1>5
<1>7. QED
  BY <1>4, <1>5, <1>6, TurnKeeps

\* Keys that were asked for leave a place what it is; others disown it.
LEMMA CopiedGood ==
    ASSUME NEW C, NEW d \in Good(C), NEW c \in Contents, NEW keys
    PROVE  Copied(d, c, keys) \in Good(C)
<1>1. c.data \in Data /\ d \in Data
  BY DialogueAssumption DEF Content, Good
<1>2. Copied(d, c, keys) \in Data
  BY <1>1 DEF Copied, Data
<1>3. ASSUME Copied(d, c, keys).own
      PROVE  /\ SoundPlace(Copied(d, c, keys)) /\ Copied(d, c, keys).choice \in C
  <2>1. d.own /\ keys \subseteq {"paymentAddress"}
    BY <1>3 DEF Copied, Asked
  <2>2. "submenu" \notin keys /\ "promptphase" \notin keys /\ "shippingContractName" \notin keys
    BY <2>1
  <2>3. /\ Copied(d, c, keys).submenu = d.submenu
        /\ Copied(d, c, keys).phase = d.phase
        /\ Copied(d, c, keys).choice = d.choice
    BY <2>2 DEF Copied
  <2>4. SoundPlace(d) /\ d.choice \in C
    BY <2>1 DEF Good
  <2>5. QED
    BY <2>3, <2>4 DEF SoundPlace
<1>4. QED
  BY <1>2, <1>3 DEF Good

\* What an Init writes back while it is copied, and when it has handled itself.
LEMMA GreetingTrail ==
    ASSUME NEW C, NEW d \in Good(C), NEW c \in Contents, NEW f \in Good(C)
    PROVE  Trail(Copies(d, c) \o (<<f>> \o <<>>), C)
<1>1. c.keys \in Seq(Keys)
  BY DialogueAssumption DEF Content
<1>2. Len(c.keys) \in Nat /\ DOMAIN c.keys = 1 .. Len(c.keys)
  BY <1>1
<1>3. \A n \in 1 .. Len(c.keys) : Copied(d, c, {c.keys[i] : i \in 1 .. n}) \in Good(C)
  BY CopiedGood
<1>4. Copies(d, c) \in [1 .. Len(c.keys) -> Good(C)]
  BY <1>2, <1>3 DEF Copies
<1>5. Copies(d, c) \in Seq(Good(C))
  BY <1>2, <1>4
<1>6. <<f>> \o <<>> \in Seq(Good(C)) /\ <<f>> \o <<>> # <<>>
  OBVIOUS
<1>7. QED
  BY <1>5, <1>6, TrailJoins

\* The contents of an Init that releases a message, which it handles next.
LEMMA ReleasedTrail ==
    ASSUME NEW C, NEW g, Trail(g, C), NEW r \in Good(C), NEW t \in Seq(Good(C))
    PROVE  Trail((g \o <<r>>) \o t, C)
<1>1. g \in Seq(Good(C)) /\ <<r>> \in Seq(Good(C)) /\ <<r>> # <<>>
  BY DEF Trail
<1>2. Trail(g \o <<r>>, C)
  BY <1>1, TrailJoins
<1>3. QED
  BY <1>2, TrailJoins DEF Trail

\* How they end does not depend on how they begin.
LEMMA ReleasedEnd ==
    ASSUME NEW S, NEW g \in Seq(S), NEW G, NEW r \in G, NEW t \in Seq(G)
    PROVE  Last((g \o <<r>>) \o t) \in G
<1> DEFINE h == g \o <<r>>
           w == h \o t
<1>1. /\ h \in Seq(S \cup G) /\ Len(h) = Len(g) + 1 /\ h[Len(h)] = r
      /\ Len(h) \in Nat /\ Len(h) > 0 /\ Len(t) \in Nat
  OBVIOUS
<1> HIDE DEF h
<1>2. Len(w) = Len(h) + Len(t) /\ \A i \in 1 .. Len(t) : w[Len(h) + i] = t[i]
  BY <1>1
<1>3. CASE Len(t) = 0
  <2>1. w[Len(w)] = h[Len(h)]
    BY <1>1, <1>2, <1>3
  <2>2. QED
    BY <1>1, <2>1 DEF Last, h
<1>4. CASE Len(t) > 0
  <2>1. w[Len(w)] = t[Len(t)] /\ t[Len(t)] \in G
    BY <1>1, <1>2, <1>4
  <2>2. QED
    BY <2>1 DEF Last, h
<1>5. QED
  BY <1>1, <1>3, <1>4

\* The step of an Init. Its own copy is its choice's place too, so that buttons
\* it was shown keep a choice when the message released goes on.
LEMMA HandleInitKeeps ==
    ASSUME IInv, NEW m \in Objects, NEW c \in Contents, HandleInit(m, c)
    PROVE  IInv'
<1> DEFINE d == object[m].data
           filled == Copied(d, c, Range(c.keys))
           greeted == Copies(d, c) \o OnEvent(filled, object[m].message)
           released == [filled EXCEPT !.held = {}]
           rest(s) == IF s.kind = "Wake" THEN <<>> ELSE OnEvent(released, s)
           helps(s) == IF s.kind = "Wake" THEN 0 ELSE Helps(s)
           trail(s) == (greeted \o <<released>>) \o rest(s)
<1>1. d \in Good(PickedOrNone) /\ object[m].message.kind = "Init"
  BY ObjectGood DEF HandleInit
<1>2. \A C : d \in Good(C) => filled \in Good(C)
  BY CopiedGood
<1>3. OnEvent(filled, object[m].message) = <<filled>> \o <<>>
  <2> HIDE DEF filled
  <2>1. QED
    BY <1>1 DEF OnEvent
<1>4. \A C : d \in Good(C) => Trail(greeted, C)
  <2> HIDE DEF d, filled
  <2>1. QED
    BY <1>2, <1>3, GreetingTrail
<1>5. filled.held \subseteq Message
  BY <1>1, <1>2 DEF Good, Data
<1>6. ASSUME NEW C, filled \in Good(C), NEW s \in filled.held, Pick(released, s) \subseteq C
      PROVE  released \in Good(C) /\ rest(s) \in Seq(Good(C))
  <2>1. released \in Good(C)
    <3>1. filled \in Good(C)
      BY <1>6
    <3> HIDE DEF filled
    <3>2. QED
      BY <3>1 DEF Good, Data, SoundPlace
  <2>2. Trail(OnEvent(released, s), C)
    BY <1>5, <1>6, <2>1, EventTrail, Zenon
  <2>3. <<>> \in Seq(Good(C)) /\ OnEvent(released, s) \in Seq(Good(C))
    BY <2>2 DEF Trail
  <2>4. QED
    BY <2>1, <2>3, Zenon
<1>7. CASE filled.held = {}
  <2>1. Turn(m, greeted, 2, 0, 0) /\ picked' = picked
    BY <1>7, Zenon DEF HandleInit
  <2>2. PickedOrNone' = PickedOrNone /\ picked' \subseteq Texts
    BY <2>1 DEF PickedOrNone, IInv
  <2>3. Trail(greeted, PickedOrNone')
    BY <1>1, <1>4, <2>2
  <2> HIDE DEF greeted
  <2>4. QED
    BY <2>1, <2>2, <2>3, TurnKeeps
<1>8. CASE filled.held # {}
  <2>1. \E s \in filled.held :
            /\ Turn(m, trail(s), helps(s), Lists(filled, 2), Offers(filled, 2))
            /\ picked' = picked \cup Pick(released, s)
    BY <1>8, Zenon DEF HandleInit
  <2>2. PICK s \in filled.held :
            /\ Turn(m, trail(s), helps(s), Lists(filled, 2), Offers(filled, 2))
            /\ picked' = picked \cup Pick(released, s)
    BY <2>1, Zenon
  <2> DEFINE l == Lists(filled, 2)
             o == Offers(filled, 2)
  <2>3. /\ picked \subseteq picked' /\ picked' \subseteq Texts
        /\ Pick(released, s) \subseteq picked' /\ PickedOrNone \subseteq PickedOrNone'
    BY <1>5, <2>2, PickedTexts
  <2>4. d \in Good(PickedOrNone')
    BY <1>1, <2>3, Grows
  <2>5. Trail(trail(s), PickedOrNone')
    <3>1. Pick(released, s) \subseteq PickedOrNone'
      BY <2>3 DEF PickedOrNone
    <3>2. released \in Good(PickedOrNone') /\ rest(s) \in Seq(Good(PickedOrNone'))
      BY <1>2, <1>6, <2>4, <3>1
    <3>3. Trail(greeted, PickedOrNone')
      BY <1>4, <2>4
    <3> HIDE DEF greeted, released, rest
    <3>4. QED
      BY <3>2, <3>3, ReleasedTrail
  <2>6. o # 0 /\ Last(trail(s)).own => Last(trail(s)).choice # NoText
    <3> SUFFICES ASSUME o # 0, Last(trail(s)).own PROVE Last(trail(s)).choice # NoText
      OBVIOUS
    <3>1. filled \in Good(picked')
      <4>1. filled \in Good(PickedOrNone) /\ ShowsButtons(filled)
        BY <1>1, <1>2 DEF Offers
      <4> HIDE DEF filled
      <4>2. filled.own => filled.choice \in picked
        BY <4>1 DEF ShowsButtons, Good, SoundPlace, PickedOrNone
      <4>3. QED
        BY <2>3, <4>1, <4>2 DEF Good
    <3>2. released \in Good(picked') /\ rest(s) \in Seq(Good(picked'))
      BY <1>6, <2>3, <3>1
    <3>3. Last(trail(s)) \in Good(picked')
      <4>1. Trail(greeted, PickedOrNone')
        BY <1>4, <2>4
      <4> HIDE DEF greeted, released, rest
      <4>2. QED
        BY <3>2, <4>1, ReleasedEnd DEF Trail
    <3>4. QED
      BY <2>3, <3>3, DialogueAssumption DEF Good
  <2>7. helps(s) \in Nat /\ l \in Nat /\ o \in Nat
    BY DEF Helps, Lists, Offers
  <2> DEFINE w == trail(s)
             h == helps(s)
  <2>8. Turn(m, w, h, l, o)
    BY <2>2
  <2> HIDE DEF w, h, l, o
  <2>9. QED
    BY <2>3, <2>5, <2>6, <2>7, <2>8, TurnKeeps DEF w, h
<1>9. QED
  BY <1>7, <1>8

LEMMA HelpKeeps ==
    ASSUME IInv, NEW m \in Objects,
           Listed(m) \/ NothingToList(m) \/ Offer(m) \/ OfferFails(m)
    PROVE  IInv'
<1> DEFINE d == object[m].data
           l == object[m].lists
           o == object[m].offers
<1>1. /\ d \in Good(PickedOrNone) /\ l \in Nat /\ o \in Nat
      /\ o # 0 /\ d.own => d.choice # NoText
  BY ObjectGood DEF Offering
<1>2. picked' = picked /\ PickedOrNone' = PickedOrNone
  BY DEF Listed, NothingToList, Offer, OfferFails, Becomes, PickedOrNone
<1>3. CASE Listed(m)
  <2>1. Becomes(m, Waiting(d, l - 1, o)) /\ l - 1 \in Nat
    BY <1>1, <1>3 DEF Listed
  <2> HIDE DEF d, l, o
  <2>2. QED
    BY <1>1, <2>1, NoTextChosen, WaitingKept, BecomesKeeps
<1>4. CASE NothingToList(m)
  <2> DEFINE t == FallBackToMain(d)
  <2>1. Trail(t, PickedOrNone)
    BY <1>1, FallBackTrail
  <2>2. Last(t).choice = d.choice /\ Last(t).own = d.own
    BY <1>1 DEF FallBackToMain, Last, Good, Data
  <2>3. /\ object' = [object EXCEPT ![m] = Waiting(Last(t), l - 1, o)]
        /\ writes' = Flush(t) /\ stored' = stored /\ offered' = offered
        /\ l - 1 \in Nat
    BY <1>1, <1>4 DEF NothingToList
  <2> HIDE DEF d, l, o, t
  <2>4. object' \in [Objects -> ObjectOf(PickedOrNone')] /\ OffersAChoice'
    <3> DEFINE w == Waiting(Last(t), l - 1, o)
    <3>1. Last(t) \in Good(PickedOrNone) /\ (o # 0 /\ Last(t).own => Last(t).choice # NoText)
      BY <1>1, <2>1, <2>2, TrailEnds
    <3>2. w \in ObjectOf(PickedOrNone) /\ Offering(w)
      BY <1>1, <2>3, <3>1, NoTextChosen, WaitingKept
    <3> HIDE DEF w
    <3>3. object' = [object EXCEPT ![m] = w]
      BY <2>3 DEF w
    <3>4. QED
      BY <1>2, <3>2, <3>3, ObjectsKept
  <2>5. IsABag(writes') /\ BagToSet(writes') \subseteq Good(PickedOrNone')
    BY <1>2, <2>1, <2>3, FlushKept
  <2>6. QED
    BY <1>2, <2>3, <2>4, <2>5 DEF IInv, OfferedAsPicked
<1>5. CASE Offer(m)
  <2>1. Trail(<<d>>, PickedOrNone)
    BY <1>1 DEF Trail
  <2>2. /\ object' = [object EXCEPT ![m] = Waiting(d, l, o - 1)]
        /\ writes' = Flush(<<d>>) /\ stored' = stored
        /\ offered' = offered \cup {[own |-> d.own, choice |-> d.choice]}
        /\ o - 1 \in Nat /\ o # 0
    BY <1>1, <1>5 DEF Offer
  <2>3. /\ d.own => d.choice \in picked
        /\ [own |-> d.own, choice |-> d.choice] \in [own : BOOLEAN, choice : Texts \cup {NoText}]
    BY <1>1, <2>2 DEF Good, Data, PickedOrNone
  <2> HIDE DEF d, l, o
  <2>4. object' \in [Objects -> ObjectOf(PickedOrNone')] /\ OffersAChoice'
    BY <1>1, <1>2, <2>2, NoTextChosen, WaitingKept, ObjectsKept
  <2>5. IsABag(writes') /\ BagToSet(writes') \subseteq Good(PickedOrNone')
    BY <1>2, <2>1, <2>2, FlushKept
  <2>6. QED
    BY <1>2, <2>2, <2>3, <2>4, <2>5 DEF IInv, OfferedAsPicked
<1>6. CASE OfferFails(m)
  <2>1. Becomes(m, Waiting(d, l, o - 1)) /\ o - 1 \in Nat /\ o # 0
    BY <1>1, <1>6 DEF OfferFails
  <2> HIDE DEF d, l, o
  <2>2. QED
    BY <1>1, <2>1, NoTextChosen, WaitingKept, BecomesKeeps
<1>7. QED
  BY <1>3, <1>4, <1>5, <1>6

LEMMA WritesKeep ==
    ASSUME IInv, NEW d \in BagToSet(writes), Land(d) \/ WriteFails(d)
    PROVE  IInv'
<1> DEFINE W == writes (-) SetToBag({d})
           Counts == {n \in Nat : n > 0}
<1>1. d \in Good(PickedOrNone) /\ writes \in [DOMAIN writes -> Counts]
  BY DEF IInv, BagToSet, IsABag
<1>2. \A e \in DOMAIN W : e \in DOMAIN writes /\ W[e] \in Counts
  BY <1>1 DEF (-), SetToBag
<1>3. W = [e \in DOMAIN W |-> W[e]]
  BY DEF (-)
<1> HIDE DEF W
<1>4. IsABag(W) /\ BagToSet(W) \subseteq BagToSet(writes)
  BY <1>2, <1>3 DEF IsABag, BagToSet
<1>5. /\ writes' = W /\ stored' \in {stored, d}
      /\ UNCHANGED <<object, picked, offered>>
  BY DEF Land, WriteFails, W
<1>6. QED
  BY <1>1, <1>4, <1>5 DEF IInv, OffersAChoice, OfferedAsPicked, PickedOrNone

\* Nothing under way: the objects as they begin and end.
LEMMA RestartKeeps ==
    ASSUME IInv, Restart
    PROVE  IInv'
<1>1. /\ NoObject \in ObjectOf(PickedOrNone) /\ Done \in ObjectOf(PickedOrNone)
      /\ Offering(NoObject) /\ Offering(Done)
  BY FreshGood, NoTextChosen DEF Done, NoObject, ObjectOf, Offering
<1>2. object' \in [Objects -> {NoObject, Done}]
  BY DEF Restart
<1>3. PickedOrNone' = PickedOrNone
  BY DEF Restart, PickedOrNone
<1>4. object' \in [Objects -> ObjectOf(PickedOrNone')] /\ OffersAChoice'
  BY <1>1, <1>2, <1>3 DEF OffersAChoice
<1>5. IsABag(writes') /\ BagToSet(writes') = {}
  BY DEF Restart, EmptyBag, SetToBag, IsABag, BagToSet
<1>6. QED
  BY <1>3, <1>4, <1>5 DEF Restart, IInv, OfferedAsPicked

-----------------------------------------------------------------------------
LEMMA InitIInv == Init => IInv
<1> SUFFICES ASSUME Init PROVE IInv
  OBVIOUS
<1>1. stored \in Good(PickedOrNone)
  BY FreshGood, NoTextChosen, PromptsOf DEF Init, Good, Data, SoundPlace, InPrompts, Fresh
<1>2. NoObject \in ObjectOf(PickedOrNone) /\ Offering(NoObject)
  BY FreshGood, NoTextChosen DEF NoObject, ObjectOf, Offering
<1>3. object \in [Objects -> ObjectOf(PickedOrNone)] /\ OffersAChoice
  BY <1>2 DEF Init, OffersAChoice
<1>4. IsABag(writes) /\ BagToSet(writes) = {}
  BY DEF Init, EmptyBag, SetToBag, IsABag, BagToSet
<1>5. QED
  BY <1>1, <1>3, <1>4 DEF Init, IInv, OfferedAsPicked

LEMMA NextKeeps == IInv /\ [Next]_vars => IInv'
<1> SUFFICES ASSUME IInv, [Next]_vars PROVE IInv'
  OBVIOUS
<1>1. ASSUME NEW m \in Objects, NEW s \in Incoming, Receive(m, s) PROVE IInv'
  BY <1>1, ReceiveKeeps
<1>2. ASSUME NEW m \in Objects, Load(m) PROVE IInv'
  BY <1>2, LoadKeeps
<1>3. ASSUME NEW m \in Objects, Ignore(m) PROVE IInv'
  BY <1>3, IgnoreKeeps
<1>4. ASSUME NEW m \in Objects, Handle(m) PROVE IInv'
  BY <1>4, HandleKeeps
<1>5. ASSUME NEW m \in Objects, Hold(m) PROVE IInv'
  BY <1>5, HoldKeeps
<1>6. ASSUME NEW m \in Objects, NEW c \in Contents, HandleInit(m, c) PROVE IInv'
  BY <1>6, HandleInitKeeps
<1>7. ASSUME NEW m \in Objects,
             Listed(m) \/ NothingToList(m) \/ Offer(m) \/ OfferFails(m)
      PROVE  IInv'
  BY <1>7, HelpKeeps
<1>8. ASSUME NEW d \in BagToSet(writes), Land(d) \/ WriteFails(d) PROVE IInv'
  BY <1>8, WritesKeep
<1>9. CASE Restart
  BY <1>9, RestartKeeps
<1>10. CASE UNCHANGED vars
  BY <1>10 DEF vars, IInv, OffersAChoice, OfferedAsPicked, PickedOrNone
<1>11. QED
  BY <1>1, <1>2, <1>3, <1>4, <1>5, <1>6, <1>7, <1>8, <1>9, <1>10 DEF Next

LEMMA Invariance == Spec => []IInv
  BY InitIInv, NextKeeps, PTL DEF Spec

\* The variables keep their types, and no count of writes or helps goes astray.
THEOREM TypeCorrect == Spec => []TypeOK
<1>1. IInv => TypeOK
  <2> SUFFICES ASSUME IInv PROVE TypeOK
    OBVIOUS
  <2>1. Good(PickedOrNone) \subseteq Data
    BY DEF Good
  <2>2. object \in [Objects -> [pc : {"none", "loading", "loaded", "prompting", "done"},
                                message : Message, data : Data, lists : Nat, offers : Nat]]
    BY <2>1 DEF IInv, ObjectOf
  <2>3. QED
    BY <2>1, <2>2 DEF IInv, TypeOK, OfferedAsPicked
<1>2. QED
  BY Invariance, <1>1, PTL

\* Whatever order the messages of a user, the lists and the writes of his row
\* come in, with writes that fail and restarts of the process, and whatever his
\* Inits bring: his row, every copy of it and every write under way is a place the
\* menus of bot.js have, unless it descends from an Init that wrote their keys.
THEOREM AlwaysSound == Spec => []EverySound
<1>1. IInv => EverySound
  BY DEF IInv, ObjectOf, Good, EverySound, Places
<1>2. QED
  BY Invariance, <1>1, PTL

\* Accept & Pay and Refuse are only ever offered for something the user answered
\* the list of shipments with, or for what such an Init's copies made of it.
THEOREM OffersWhatWasPicked == Spec => []OfferedAsPicked
<1>1. IInv => OfferedAsPicked
  BY DEF IInv
<1>2. QED
  BY Invariance, <1>1, PTL

=============================================================================
