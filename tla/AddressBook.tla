---------------------------- MODULE AddressBook -----------------------------
(* The Contacts page beside the tables it shows, which the call loop writes   *)
(* meanwhile.  The page asks the main process, and is answered in that order: *)
(* every handler runs to its end at once.  The page is never unmounted.       *)
(*                                                                            *)
(* A contact is named by its place in the order they were created.            *)
EXTENDS Naturals, Sequences, FiniteSets

CONSTANTS
    Rings,          \* calls
    Lines,          \* phone numbers with different keys that end alike
    CallerOf,       \* the number each call is from
    Phones,         \* phones to call from, by number: the first one has the smallest
    MaxCards,       \* bound: contacts
    MaxWire,        \* bound: requests of the page under way
    MaxDials        \* bound: calls being placed

ASSUME BookAssumption ==
    /\ IsFiniteSet(Rings) /\ CallerOf \in [Rings -> Lines]
    /\ Phones \subseteq Nat \ {0}
    /\ MaxCards \in Nat /\ MaxWire \in Nat /\ MaxDials \in Nat

VARIABLES
    cards,          \* the tables contacts and contact_phones: the numbers of each contact
    linked,         \* contact_id in the table of calls
    hasCrm,         \* this runtime has SQLite, and could open the file
    wire,           \* what the page has asked and not yet been told, in order
    half,           \* refresh(): the first one of its two answers
    phase,          \* "absent", "loading", "unavailable" or "ready"
    contacts,       \* the contacts shown, each with its number of calls
    recent,         \* the calls that are shown as linked, or as from unknown numbers
    selected,       \* the contact whose calls are wanted, 0 for none
    shownCalls,     \* `history'
    adding,         \* `saving'
    refused,        \* `formError' says something
    trouble         \* `error' says something

bookVars == <<cards, linked, hasCrm, wire, half, phase, contacts, recent, selected, shownCalls,
              adding, refused, trouble>>
tables == <<cards, linked, hasCrm>>
lists == <<phase, half, contacts, recent>>
formFields == <<adding, refused>>

Unsaved == MaxCards + 1
NobodysCalls == [of |-> 0, calls |-> {}]

----------------------------------------------------------------------------
(* The tables *)

CallsOf(k) == {r \in Rings : linked[r] = k}

\* The number is that of the oldest contact who has it; if nobody does, of the only one
\* whose number ends alike.
OwnersOf(line) ==
    LET exact == {k \in DOMAIN cards : line \in cards[k]}
        alike == {k \in DOMAIN cards : cards[k] # {}}
    IN CASE exact # {} -> {k \in exact : \A j \in exact : k <= j}
         [] exact = {} /\ Cardinality(alike) = 1 -> alike
         [] OTHER -> {}

\* A call that has a contact keeps it, and one of an unknown number has none.
LinkFor(r) ==
    IF linked[r] \in DOMAIN cards THEN linked[r]
    ELSE IF OwnersOf(CallerOf[r]) = {} THEN 0 ELSE CHOOSE k \in OwnersOf(CallerOf[r]) : TRUE

\* The call loop writes a record, then links it: two writes, and the second one may fail.
SaveRing(r) ==
    /\ hasCrm
    /\ linked' \in {[linked EXCEPT ![r] = LinkFor(r)], [linked EXCEPT ![r] = IF @ = Unsaved THEN 0 ELSE @]}
    /\ UNCHANGED <<cards, hasCrm, wire, selected, shownCalls, trouble, lists, formFields>>

----------------------------------------------------------------------------
(* The main process *)

Request(of, by, arg) == [of |-> of, by |-> by, arg |-> arg, heard |-> TRUE, done |-> FALSE, ok |-> FALSE, says |-> 0]

Refresh(by) == <<Request("contacts", by, 0), Request("recent", by, 0)>>

\* The one that is served next, 0 when there is none.
Turn ==
    LET open == {i \in DOMAIN wire : ~wire[i].done}
    IN IF open = {} THEN 0 ELSE CHOOSE i \in open : \A j \in open : i <= j

Serving(of) == Turn # 0 /\ wire[Turn].of = of

Reply(ok, says) == wire' = [wire EXCEPT ![Turn].done = TRUE, ![Turn].ok = ok, ![Turn].says = says]

\* Only contacts with a call have a group.
GroupByContact == [k \in {linked[r] : r \in Rings} \cap DOMAIN cards |-> Cardinality(CallsOf(k))]

ListContacts == DOMAIN cards

Summaries == [k \in ListContacts |-> IF k \in DOMAIN GroupByContact THEN GroupByContact[k] ELSE 0]

Serve ==
    /\ \/ Serving("available") /\ Reply(TRUE, hasCrm)
       \/ Serving("contacts") /\ Reply(TRUE, Summaries)
       \/ Serving("recent") /\ Reply(TRUE, linked)
       \/ Serving("calls") /\ Reply(TRUE, CallsOf(wire[Turn].arg))
    /\ UNCHANGED <<tables, selected, shownCalls, trouble, lists, formFields>>

\* A query throws: the database is closed, or damaged.  Bound: not again once the page says so.
ServeFails ==
    /\ ~trouble /\ ~refused
    /\ Serving("contacts") \/ Serving("recent") \/ Serving("calls")
    /\ Reply(FALSE, 0)
    /\ UNCHANGED <<tables, selected, shownCalls, trouble, lists, formFields>>

\* The contact first, then number by number; what was written before a write failed stays.
CreateContact ==
    /\ Serving("create")
    /\ \/ cards' = Append(cards, wire[Turn].arg) /\ Reply(TRUE, Len(cards) + 1)
       \/ /\ cards' \in {cards} \cup {Append(cards, some) : some \in SUBSET wire[Turn].arg}
          /\ Reply(FALSE, 0)
    /\ UNCHANGED <<linked, hasCrm, selected, shownCalls, trouble, lists, formFields>>

----------------------------------------------------------------------------
(* The page *)

BookInit ==
    /\ cards = <<>> /\ linked = [r \in Rings |-> Unsaved] /\ hasCrm \in BOOLEAN
    /\ wire = <<>> /\ phase = "absent" /\ half = [ok |-> FALSE, says |-> 0]
    /\ contacts = <<>> /\ recent = [r \in Rings |-> Unsaved]
    /\ selected = 0 /\ shownCalls = NobodysCalls
    /\ adding = FALSE /\ refused = FALSE /\ trouble = FALSE

MountPage ==
    /\ phase = "absent"
    /\ phase' = "loading"
    /\ wire' = <<Request("available", "mount", 0)>>
    /\ UNCHANGED <<tables, half, contacts, recent, selected, shownCalls, trouble, formFields>>

\* Its effect asks for the calls of another contact, and no longer listens for those of the last one.
Select(k, queue) ==
    /\ selected' = k
    /\ wire' = Append([i \in DOMAIN queue |->
                           [queue[i] EXCEPT !.heard = queue[i].of # "calls" /\ @]],
                      Request("calls", "page", k))

Pick(k) ==
    /\ phase = "ready" /\ k # selected /\ Len(wire) < MaxWire
    /\ Select(k, wire)
    /\ UNCHANGED <<tables, shownCalls, trouble, lists, formFields>>

ClickRefresh ==
    /\ phase = "ready" /\ Len(wire) + 2 <= MaxWire
    /\ wire' = wire \o Refresh("button")
    /\ UNCHANGED <<tables, selected, shownCalls, trouble, lists, formFields>>

\* The form is filled in and sent: a name, numbers, or the one of an unknown caller.
ClickAdd(numbers) ==
    /\ phase = "ready" /\ ~adding
    /\ Len(cards) < MaxCards /\ Len(wire) < MaxWire
    /\ adding' = TRUE /\ refused' = FALSE
    /\ wire' = Append(wire, Request("create", "submit", numbers))
    /\ UNCHANGED <<tables, selected, shownCalls, trouble, lists>>

\* A refresh is through: what its caller does then.
RefreshSettles(by, ok) ==
    /\ phase' = IF by = "mount" THEN "ready" ELSE phase
    /\ adding' = (adding /\ by # "submit")
    /\ refused' = (refused \/ (by = "submit" /\ ~ok))
    /\ trouble' = (trouble \/ (by # "submit" /\ ~ok))

Reached(of) == wire # <<>> /\ Head(wire).done /\ Head(wire).of = of

HearAvailable ==
    /\ Reached("available")
    /\ phase' = IF Head(wire).says THEN phase ELSE "unavailable"
    /\ wire' = IF Head(wire).says THEN Tail(wire) \o Refresh("mount") ELSE Tail(wire)
    /\ UNCHANGED <<tables, half, contacts, recent, selected, shownCalls, trouble, formFields>>

\* Promise.all rejects with the first one that does.
HearContacts ==
    /\ Reached("contacts")
    /\ half' = [ok |-> Head(wire).ok, says |-> Head(wire).says]
    /\ IF Head(wire).ok THEN UNCHANGED <<phase, trouble, formFields>> ELSE RefreshSettles(Head(wire).by, FALSE)
    /\ wire' = Tail(wire)
    /\ UNCHANGED <<tables, contacts, recent, selected, shownCalls>>

HearRecent ==
    /\ Reached("recent")
    /\ IF half.ok THEN RefreshSettles(Head(wire).by, Head(wire).ok) ELSE UNCHANGED <<phase, trouble, formFields>>
    /\ contacts' = IF half.ok /\ Head(wire).ok THEN half.says ELSE contacts
    /\ recent' = IF half.ok /\ Head(wire).ok THEN Head(wire).says ELSE recent
    /\ half' = [ok |-> FALSE, says |-> 0]
    /\ wire' = Tail(wire)
    /\ UNCHANGED <<tables, selected, shownCalls>>

HearCalls ==
    /\ Reached("calls")
    /\ LET answer == Head(wire) IN
       /\ shownCalls' = IF answer.heard /\ answer.ok THEN [of |-> answer.arg, calls |-> answer.says] ELSE shownCalls
       /\ trouble' = (trouble \/ (answer.heard /\ ~answer.ok))
    /\ wire' = Tail(wire)
    /\ UNCHANGED <<tables, selected, lists, formFields>>

\* The new contact is the one shown, and the lists are read again.
HearAdded ==
    /\ Reached("create") /\ Head(wire).ok
    /\ Select(Head(wire).says, Tail(wire) \o Refresh("submit"))
    /\ UNCHANGED <<tables, shownCalls, trouble, lists, adding, refused>>

HearRefused ==
    /\ Reached("create") /\ ~Head(wire).ok
    /\ refused' = TRUE /\ adding' = FALSE
    /\ wire' = Tail(wire)
    /\ UNCHANGED <<tables, selected, shownCalls, trouble, lists>>

----------------------------------------------------------------------------
(* The calls placed from the page *)

VARIABLES
    online,         \* the phones that can be called from
    dialFrom,       \* `dialDevice', 0 for none
    dials,          \* the calls being placed
    dialState       \* what is said of the last one that was heard of

dialVars == <<online, dialFrom, dials, dialState>>

DialInit ==
    /\ online = {} /\ dialFrom = 0 /\ dials = <<>>
    /\ dialState = [of |-> "none", done |-> FALSE, ok |-> FALSE]

\* The effect behind every change: a phone is chosen for one who has none.
Defaulted(from) ==
    CASE online' = {} -> 0
      [] online' # {} /\ from = 0 -> CHOOSE p \in online' : \A q \in online' : p <= q
      [] OTHER -> from

PhoneComesOrGoes(p) ==
    /\ online' \in {online \cup {p}, online \ {p}} \ {online}
    /\ dialFrom' = Defaulted(dialFrom)
    /\ UNCHANGED <<dials, dialState>>

ChooseFrom(p) ==
    /\ p \in online /\ p # dialFrom
    /\ dialFrom' = p
    /\ UNCHANGED <<online, dials, dialState>>

\* The buttons work while another call is being placed.
ClickDial(number) ==
    /\ online # {} /\ dialFrom # 0 /\ Len(dials) < MaxDials
    /\ dials' = Append(dials, [of |-> number, from |-> dialFrom])
    /\ dialState' = [of |-> number, done |-> FALSE, ok |-> FALSE]
    /\ UNCHANGED <<online, dialFrom>>

DialAnswered(i) ==
    /\ i \in DOMAIN dials
    /\ dials' = SubSeq(dials, 1, i - 1) \o SubSeq(dials, i + 1, Len(dials))
    /\ \E ok \in BOOLEAN : dialState' = [of |-> dials[i].of, done |-> TRUE, ok |-> ok]
    /\ UNCHANGED <<online, dialFrom>>

----------------------------------------------------------------------------
Attend == Serve \/ ServeFails \/ CreateContact

Hear == HearAvailable \/ HearContacts \/ HearRecent \/ HearCalls \/ HearAdded \/ HearRefused

BookNext ==
    \/ \E r \in Rings : SaveRing(r)
    \/ MountPage \/ Attend
    \/ \E k \in DOMAIN contacts : Pick(k)
    \/ ClickRefresh
    \/ \E numbers \in SUBSET Lines \ {{}} : ClickAdd(numbers)
    \/ Hear

DialNext ==
    \/ \E p \in Phones : PhoneComesOrGoes(p) \/ ChooseFrom(p)
    \/ \E line \in Lines : ClickDial(line)
    \/ \E i \in 1..MaxDials : DialAnswered(i)

\* The main process comes to every request, and the page to every answer.
BookFairness == WF_bookVars(Attend) /\ WF_bookVars(Hear)

----------------------------------------------------------------------------
(* Properties *)

\* A contact that was added without a complaint is in the list beside the form, and is the one
\* whose calls are fetched (ContactsPage.tsx:231-234).
AddedIsShown == ~adding /\ ~refused => selected = 0 \/ selected \in DOMAIN contacts

\* What the page shows may be old but was never wrong: no call changes hands behind it, and none
\* is listed under a contact who has not got it (ContactsPage.tsx:27-31, store.ts:298-302).
ShownIsTrue ==
    /\ \A k \in DOMAIN contacts : contacts[k] <= Cardinality(CallsOf(k))
    /\ shownCalls.calls \subseteq CallsOf(shownCalls.of)
    /\ \A r \in Rings : recent[r] \in DOMAIN cards => linked[r] = recent[r]

\* Once everything that was asked is answered, the calls on show are those of the contact who was
\* picked last, or the page says why not (ContactsPage.tsx:174-191).
CallsArrive == wire = <<>> /\ ~trouble => shownCalls.of = selected

\* "Dialling" is said only of a call that is being placed (ContactsPage.tsx:124-133).
DialIsReported == dials = <<>> => dialState.of = "none" \/ dialState.done

\* The page comes up whatever the database does, and the button of the form works again
\* (ContactsPage.tsx:152-167, 240-242).
PageSettles ==
    LET waits == phase = "loading" \/ adding
    IN waits ~> ~waits

\* No more holds of the rest than its comments say.  A number that was given a name: "the form
\* that turns an unknown number into a name" (ContactsPage.tsx:65-66).
NamedIsKnown == \A r \in Rings : linked[r] = 0 /\ wire = <<>> /\ ~refused => \A k \in DOMAIN cards : CallerOf[r] \notin cards[k]

\* "Could not add the contact." (ContactsPage.tsx:236): then there is none.
CouldNotMeansNot == [][cards' # cards => wire'[Turn].ok]_bookVars

\* "the operator re-reads on demand" (ContactsPage.tsx:440): after that, the calls below a contact
\* are as many as the list says.
CountsMeetCalls ==
    wire = <<>> /\ ~trouble /\ ~refused /\ selected \in DOMAIN contacts =>
        Cardinality(shownCalls.calls) >= contacts[selected]

\* "keep it sensible as devices come and go" (ContactsPage.tsx:111-112).
DialsFromOnline == online # {} => dialFrom \in online
=============================================================================
