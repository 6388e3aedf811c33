----------------------------- MODULE AppRuntime -----------------------------
(* The life of the running program: the Autopilot, which answers the phones   *)
(* and is taken down and built anew when settings are saved; the text         *)
(* service, likewise; and the shutdown.  Saving and shutting down wait in the *)
(* middle, and everything else may happen meanwhile.                          *)
(*                                                                            *)
(* An Autopilot is named by its place in the order they are built.            *)
EXTENDS Naturals, Sequences, FiniteSets

CONSTANTS
    MaxPilots,          \* Autopilots that are ever built: MaxVersions of them are enough
    MaxVersions         \* versions of the settings

\* A save is named by the version it brings in.
Saves == 2..MaxVersions

VARIABLES
    version,            \* the settings in force
    pilots,             \* every Autopilot that was built
    instance,           \* the one in use, 0 for none
    text,               \* the text service in use; `on': it has the port of the webhook
    textWanted,         \* whatsappTextStarted
    leftover,           \* the settings of a text service that has the port and that nobody holds, or 0
    crossed,            \* two reloads have waited for the text service at the same time
    save,               \* the reloads under way
    quit,               \* how far shutdown() is
    awaited             \* the Autopilot it waits for, 0 for none

textVars == <<text, textWanted, leftover, crossed>>
runtimeVars == <<version, pilots, instance, textVars, save, quit, awaited>>

\* calls: "none", "live", "ending", or "late" for one that was answered after the shutdown.
Pilot(v) == [of |-> v, running |-> FALSE, shut |-> FALSE, polling |-> FALSE,
             call |-> "none", store |-> "open"]

NotSaving == [at |-> "idle", prev |-> 0, enabled |-> FALSE, textOn |-> FALSE, waits |-> FALSE]

----------------------------------------------------------------------------
(* Autopilot: operators from the old record to the new one *)

Enabled(p) == [p EXCEPT !.running = TRUE]

Disabled(p) == [p EXCEPT !.running = FALSE]

ShutBegun_StillAnswering(p) ==
    IF p.shut THEN p
    ELSE [p EXCEPT !.shut = TRUE, !.call = IF @ = "live" THEN "ending" ELSE @]

\* The synchronous half of shutdown(); the rest waits for drain().
ShutBegun(p) ==
    IF p.shut THEN p
    ELSE [Disabled(p) EXCEPT !.shut = TRUE, !.call = IF @ = "live" THEN "ending" ELSE @]

\* `get autopilot': built on first use, from the settings in force.
Autopilots == IF instance # 0 THEN pilots ELSE Append(pilots, Pilot(version))

InUse == IF instance # 0 THEN instance ELSE Len(pilots) + 1

Get == InUse <= MaxPilots /\ instance' = InUse

Busy(p) == p # 0 /\ pilots[p].call \in {"live", "ending", "late"}

----------------------------------------------------------------------------
RuntimeInit ==
    /\ version = 1
    /\ \E autoStart \in BOOLEAN :
        /\ instance = IF autoStart THEN 1 ELSE 0
        /\ pilots = IF autoStart THEN <<Enabled(Pilot(1))>> ELSE <<>>
    /\ text = [of |-> 1, on |-> TRUE] /\ textWanted = TRUE /\ leftover = 0 /\ crossed = FALSE
    /\ save = [s \in Saves |-> NotSaving]
    /\ quit = "no" /\ awaited = 0

Enable ==
    /\ Get /\ pilots' = [Autopilots EXCEPT ![InUse] = Enabled(@)]
    /\ UNCHANGED <<version, textVars, save, quit, awaited>>

Disable ==
    /\ Get /\ pilots' = [Autopilots EXCEPT ![InUse] = Disabled(@)]
    /\ UNCHANGED <<version, textVars, save, quit, awaited>>

\* The window asks for the status, the calls or the contacts.
Look ==
    /\ instance = 0 /\ Get /\ pilots' = Autopilots
    /\ UNCHANGED <<version, textVars, save, quit, awaited>>

----------------------------------------------------------------------------
(* The calls of one Autopilot.  A poll looks at the phone and answers later.  *)

ChangePilot(p, new) ==
    /\ pilots' = [pilots EXCEPT ![p] = new]
    /\ UNCHANGED <<version, instance, textVars, save, quit, awaited>>

PollStarts(p) ==
    /\ pilots[p].running /\ ~pilots[p].polling /\ pilots[p].call = "none"
    /\ ChangePilot(p, [pilots[p] EXCEPT !.polling = TRUE])

PollEnds(p) ==
    /\ pilots[p].polling
    /\ \E answered \in BOOLEAN :
        ChangePilot(p, [pilots[p] EXCEPT
            !.polling = FALSE,
            !.call = IF answered THEN (IF pilots[p].shut THEN "late" ELSE "live") ELSE @])

CallIsEnded(p) ==
    /\ pilots[p].call = "live"
    /\ ChangePilot(p, [pilots[p] EXCEPT !.call = "ending"])

\* The teardown writes the last record and forgets the call.
TeardownDone(p) ==
    /\ pilots[p].call \in {"ending", "late"}
    /\ ChangePilot(p, [pilots[p] EXCEPT !.call = "none"])

\* drain() has ended: the store is closed.
ShutDone(p) ==
    /\ pilots[p].shut /\ pilots[p].store = "open" /\ pilots[p].call # "ending"
    /\ ChangePilot(p, [pilots[p] EXCEPT !.store = "closed"])

----------------------------------------------------------------------------
(* Saving settings: assertReloadable, then reloadSettings in three stretches *)

BeginSave(s) ==
    /\ s = version + 1
    /\ ~Busy(instance)
    /\ version' = s
    /\ save' = [save EXCEPT ![s] = [NotSaving EXCEPT !.at = "text", !.textOn = textWanted]]
    /\ text' = [text EXCEPT !.on = FALSE]
    /\ crossed' = (crossed \/ \E t \in Saves : save[t].at = "text")
    /\ UNCHANGED <<pilots, instance, textWanted, leftover, quit, awaited>>

\* The text service has stopped: the next one is built, and the Autopilot taken out of use.  Another
\* reload may have put one there meanwhile, which runs on and keeps the port from all that follow.
SwapText(s) ==
    /\ save[s].at = "text"
    /\ leftover' = IF text.on THEN text.of ELSE leftover
    /\ text' = [of |-> version, on |-> save[s].textOn /\ leftover' = 0]
    /\ IF instance = 0
       THEN /\ save' = [save EXCEPT ![s] = NotSaving]
            /\ UNCHANGED <<pilots, instance>>
       ELSE /\ save' = [save EXCEPT ![s] = [NotSaving EXCEPT
                            !.at = "drain", !.prev = instance,
                            !.enabled = pilots[instance].running,
                            !.waits = ~pilots[instance].shut]]
            /\ pilots' = [pilots EXCEPT ![instance] = ShutBegun(@)]
            /\ instance' = 0
    /\ UNCHANGED <<version, textWanted, crossed, quit, awaited>>

\* The old Autopilot is down.  A second shutdown() of it does not wait for the first.
Drained(s) == save[s].at = "drain" /\ (save[s].waits => pilots[save[s].prev].store = "closed")

FinishSave_LeavesOff(s) ==
    /\ Drained(s)
    /\ save' = [save EXCEPT ![s] = NotSaving]
    /\ UNCHANGED <<pilots, instance, version, textVars, quit, awaited>>

\* The next Autopilot is built and enabled; where it cannot be built, the save ends in an error.
FinishSave(s) ==
    /\ Drained(s)
    /\ \/ /\ save[s].enabled /\ Get
          /\ pilots' = [Autopilots EXCEPT ![InUse] = Enabled(@)]
          /\ save' = [save EXCEPT ![s] = NotSaving]
       \/ /\ save[s].enabled /\ instance = 0
          /\ save' = [save EXCEPT ![s] = [NotSaving EXCEPT !.at = "failed"]]
          /\ UNCHANGED <<pilots, instance>>
       \/ /\ ~save[s].enabled
          /\ save' = [save EXCEPT ![s] = NotSaving]
          /\ UNCHANGED <<pilots, instance>>
    /\ UNCHANGED <<version, textVars, quit, awaited>>

----------------------------------------------------------------------------
(* shutdown(): autopilot, then text, then captures, devices and sessions *)

BeginQuit ==
    /\ quit = "no"
    /\ quit' = "pilot" /\ awaited' = instance
    /\ IF instance = 0 THEN UNCHANGED pilots
       ELSE pilots' = [pilots EXCEPT ![instance] = ShutBegun(@)]
    /\ UNCHANGED <<version, instance, textVars, save>>

\* The process exits behind it (main.ts:459), and whatever still runs is gone with it.
QuitText ==
    /\ quit = "pilot"
    /\ awaited # 0 => pilots[awaited].store = "closed"
    /\ quit' = "gone" /\ awaited' = 0
    /\ textWanted' = FALSE
    /\ text' = [text EXCEPT !.on = FALSE] /\ leftover' = 0
    /\ pilots' = <<>> /\ instance' = 0 /\ save' = [s \in Saves |-> NotSaving]
    /\ UNCHANGED <<version, crossed>>

RuntimeNext ==
    \/ /\ quit # "gone"
       /\ \/ Enable \/ Disable \/ Look \/ BeginQuit \/ QuitText
          \/ \E s \in Saves : BeginSave(s) \/ SwapText(s) \/ FinishSave(s)
          \/ \E p \in 1..Len(pilots) :
                PollStarts(p) \/ PollEnds(p) \/ CallIsEnded(p) \/ TeardownDone(p)
                    \/ ShutDone(p)

\* Every teardown step is guarded and ends; what was awaited is picked up again.
RuntimeFairness ==
    /\ \A s \in Saves : WF_runtimeVars(quit # "gone" /\ (SwapText(s) \/ FinishSave(s)))
    /\ \A p \in 1..MaxPilots :
        /\ WF_runtimeVars(p <= Len(pilots) /\ quit # "gone" /\ TeardownDone(p))
        /\ WF_runtimeVars(p <= Len(pilots) /\ quit # "gone" /\ ShutDone(p))

RuntimeSpec == RuntimeInit /\ [][RuntimeNext]_runtimeVars /\ RuntimeFairness

----------------------------------------------------------------------------
(* Properties *)

Saving == \E s \in Saves : save[s].at \in {"text", "drain"}

\* Two Autopilots never answer the same phones: the old one is off before the new one exists
\* (runtime.ts:461-466), with every save, look and click in between.  Once the program is being
\* shut down it may: an Autopilot that is enabled again while it drains is not disabled by the
\* second shutdown() of a save.
OneAnswers == quit = "no" => Cardinality({p \in 1..Len(pilots) : pilots[p].running}) <= 1

\* When no save is under way, whoever is in use for calls and texts was built from the settings in
\* force (runtime.ts:441-446), although a look at the status during a save may build one too; and texts
\* that were answered still are.  Only where two saves have waited for the text service at once may one
\* of the two that they start be lost, with the port.
NewSettingsReachAll ==
    /\ ~Saving /\ quit # "gone"
          => /\ instance # 0 => pilots[instance].of = version
             /\ text.of = version
             /\ textWanted /\ ~crossed => text.on
    /\ leftover # 0 => crossed

\* That no text service is lost (whatsappText.ts:210-211, of the same port: "a listener still answering
\* webhooks that no later `stop()` can reach").
TextServiceIsHeld == leftover = 0

\* The store is closed behind the teardowns: a call that was in flight at the shutdown has written
\* its last record (autopilot.ts:546-549).
RecordsLand == \A p \in 1..Len(pilots) : pilots[p].store = "closed" => pilots[p].call # "ending"

\* A save ends, and an Autopilot that was answering calls is left answering them
\* (runtime.ts:444), unless the program is being shut down, or the save ends in an error because the
\* next Autopilot could not be built from what it has stored.
SavesEnd == Saving ~> (~Saving \/ quit = "gone")
AnsweringGoesOn ==
    \A s \in Saves :
        save[s].at = "drain" /\ save[s].enabled
            ~> ((instance # 0 /\ pilots[instance].running) \/ save[s].at = "failed" \/ quit = "gone")

\* A reload never cuts a caller off (runtime.ts:427-429: "which would drop whoever is on the line,
\* so a call in flight is a hard refusal rather than a best effort").
ReloadDropsNoCaller ==
    [][\A p \in 1..Len(pilots) :
           pilots[p].call = "live" => quit' # quit \/ ~pilots'[p].shut]_runtimeVars
=============================================================================
