---------------------------- MODULE SettingsForm ----------------------------
(* The settings page: a form the operator types into, beside settings that    *)
(* change under it.  The main process answers each request and tells of each  *)
(* change over one ordered channel.  A version stands for the content of the  *)
(* settings; a form is the version it was filled from and what was typed over *)
(* it since.                                                                  *)
EXTENDS Naturals, Sequences, FiniteSets

LOCAL INSTANCE Functions

CONSTANTS
    MaxChanges,         \* changes of the settings that are explored
    MaxPending          \* requests and messages that are under way before the operator pauses

VARIABLES
    stored,             \* the version the main process keeps
    posted,             \* [Kinds -> Nat]: requests that the main process has not begun with
    reloading,          \* [Changes -> Nat]: those that have stored their change and await the runtime
    inbox,              \* what the main process has sent, in order
    unsaid,             \* a reload has failed, and nothing was sent of the settings since
    shown,              \* the version the page was last told of, 0 before the first
    form,               \* [of, typed]: what it was filled from, and whether more was typed since the
                        \* operator last asked to have it saved or reset
    dirty, drifted,     \* the page's own marks
    overwritten         \* typed text that vanished without the operator's word

viewVars == <<shown, form, dirty, drifted, overwritten>>
formVars == <<stored, posted, reloading, inbox, unsaid, viewVars>>

Changes == {"save", "reset", "agent"}
Reads == {"get", "refresh"}
Kinds == Changes \cup Reads

Mounted == shown # 0

Message(kind, ver) == [kind |-> kind, version |-> ver]

FormInit ==
    /\ stored = 1 /\ inbox = <<>> /\ unsaid = FALSE
    /\ posted = [k \in Kinds |-> IF k = "get" THEN 1 ELSE 0]
    /\ reloading = [k \in Changes |-> 0]
    /\ shown = 0 /\ form = [of |-> 0, typed |-> FALSE]
    /\ dirty = FALSE /\ drifted = FALSE /\ overwritten = FALSE

----------------------------------------------------------------------------
(* The main process *)

More(count, k) == [count EXCEPT ![k] = @ + 1]

Fewer(count, k) == [count EXCEPT ![k] = @ - 1]

TakenUp(k) == posted[k] > 0 /\ posted' = Fewer(posted, k)

AnswerRead(k) ==
    /\ k \in Reads /\ TakenUp(k)
    /\ inbox' = Append(inbox, Message(k, stored)) /\ unsaid' = FALSE
    /\ UNCHANGED <<stored, reloading, viewVars>>

\* A call in flight, a patch that does not parse, a service that fails, a full disk.
RefuseChange(k) ==
    /\ k \in Changes /\ TakenUp(k)
    /\ inbox' = Append(inbox, Message("refused", stored))
    /\ UNCHANGED <<stored, reloading, unsaid, viewVars>>

\* There is no agent to delete.
NothingToDelete ==
    /\ TakenUp("agent")
    /\ inbox' = Append(inbox, Message("agent", stored))
    /\ UNCHANGED <<stored, reloading, unsaid, viewVars>>

StoreChange(k) ==
    /\ k \in Changes /\ TakenUp(k) /\ stored < MaxChanges
    /\ stored' = stored + 1 /\ reloading' = More(reloading, k)
    /\ UNCHANGED <<inbox, unsaid, viewVars>>

ReloadIsOver(k) == k \in Changes /\ reloading[k] > 0 /\ reloading' = Fewer(reloading, k)

\* Handlers overtake each other while they wait: what is sent is what is stored by now.
Announce(k) ==
    /\ ReloadIsOver(k)
    /\ inbox' = inbox \o <<Message("changed", stored), Message(k, stored)>> /\ unsaid' = FALSE
    /\ UNCHANGED <<stored, posted, viewVars>>

\* The runtime refuses what the agents' card has stored already, or cannot answer calls again after
\* any of the three: the answer is an error, and the change is kept and not announced.
ReloadFails(k) ==
    /\ ReloadIsOver(k)
    /\ inbox' = Append(inbox, Message("refused", stored)) /\ unsaid' = TRUE
    /\ UNCHANGED <<stored, posted, viewVars>>

----------------------------------------------------------------------------
(* The page.  A button is off while its request is pending, but what is typed or *)
(* chosen meanwhile turns Save on again, and Reset is never off: any number of   *)
(* requests may be under way.                                                    *)

Unhurried == SumFunction(posted) + SumFunction(reloading) + Len(inbox) < MaxPending

PageAsks(k) ==
    /\ Mounted /\ Unhurried
    /\ posted' = More(posted, k)

Type ==
    /\ Mounted
    /\ form' = [form EXCEPT !.typed = TRUE]
    /\ dirty' = TRUE
    /\ UNCHANGED <<stored, posted, reloading, inbox, unsaid, shown, drifted, overwritten>>

\* "Reset everything" is the operator's word about what was typed, too.
ClickSaveOrReset ==
    /\ PageAsks("save") \/ PageAsks("reset")
    /\ form' = [form EXCEPT !.typed = FALSE]
    /\ UNCHANGED <<stored, reloading, inbox, unsaid, shown, dirty, drifted, overwritten>>

\* The card of the per-phone agents saves by itself.
ClickAgent == PageAsks("agent") /\ UNCHANGED <<stored, reloading, inbox, unsaid, viewVars>>

Filled(ver) == [of |-> ver, typed |-> FALSE]

\* reload(): the form is filled anew, whatever it holds.
Reload(ver) ==
    /\ shown' = ver
    /\ form' = Filled(ver)
    /\ dirty' = FALSE /\ drifted' = FALSE
    /\ overwritten' = (overwritten \/ form.typed)

DiscardEdits ==
    /\ drifted
    /\ shown' = shown /\ form' = Filled(shown)
    /\ dirty' = FALSE /\ drifted' = FALSE
    /\ UNCHANGED <<stored, posted, reloading, inbox, unsaid, overwritten>>

\* Somebody else changed the settings.
Told(ver) ==
    /\ shown' = ver
    /\ IF dirty THEN drifted' = TRUE /\ UNCHANGED form
       ELSE form' = Filled(ver) /\ UNCHANGED drifted
    /\ UNCHANGED <<dirty, overwritten>>

\* An error is put beside the button, and changes nothing else.
Receive ==
    /\ inbox # <<>>
    /\ inbox' = Tail(inbox)
    /\ LET m == Head(inbox)
       IN \/ m.kind = "changed" /\ Told(m.version) /\ UNCHANGED posted
          \/ m.kind \in {"save", "reset", "refresh"} /\ Reload(m.version) /\ UNCHANGED posted
          \/ /\ m.kind = "get"
             /\ shown' = m.version /\ form' = Filled(m.version) /\ dirty' = FALSE
             /\ overwritten' = (overwritten \/ form.typed)
             /\ UNCHANGED <<drifted, posted>>
          \/ m.kind = "agent" /\ posted' = More(posted, "refresh") /\ UNCHANGED viewVars
          \/ m.kind = "refused" /\ UNCHANGED <<posted, viewVars>>
    /\ UNCHANGED <<stored, reloading, unsaid>>

FormNext ==
    \/ Type \/ ClickSaveOrReset \/ ClickAgent \/ DiscardEdits \/ Receive \/ NothingToDelete
    \/ \E k \in Reads : AnswerRead(k)
    \/ \E k \in Changes : RefuseChange(k) \/ StoreChange(k) \/ Announce(k) \/ ReloadFails(k)

FormSpec == FormInit /\ [][FormNext]_formVars

----------------------------------------------------------------------------
(* Properties *)

AtRest == inbox = <<>> /\ (\A k \in Kinds : posted[k] = 0) /\ (\A k \in Changes : reloading[k] = 0)

\* A form that was filled from settings that are no longer the ones the page knows of says so
\* (SettingsPage.tsx:138-144).
DriftIsSaid == form.of # shown => drifted

\* Once everything that was sent has arrived the page knows the settings that are stored, in whatever
\* order saves, resets and the agents' card were answered, and a form without typed text shows them;
\* except where the last of it was a reload that failed, of which the page is sent an error alone
\* (main.ts:293-307, 351-357).
QuietFormIsCurrent ==
    /\ AtRest => shown = stored \/ unsaid
    /\ ~dirty => form.of = shown

\* That the exception is never met, and a page at rest is always current (main.ts:296-297: "refusing
\* the save outright is clearer than persisting settings that silently will not take effect").
RefusedMeansUnchanged == AtRest => shown = stored

\* What the operator typed since the last save leaves the form only by their own doing
\* (SettingsPage.tsx:140: "Adopt it silently when nothing is half-typed; otherwise say so and let
\* the user choose").
HalfTypedIsKept == ~overwritten
=============================================================================
