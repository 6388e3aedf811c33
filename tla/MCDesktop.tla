----------------------------- MODULE MCDesktop ------------------------------
(* The desktop program, question by question: `part' says which of them a     *)
(* behaviour is about.  The parts share no state.                             *)
EXTENDS SettingsStore, SettingsForm, PhoneAgents, AppRuntime, ManualListen, Metrics,
        AddressBook

VARIABLE part

MCFields == {"region", "vadThreshold", "llmApiKey", "healthPort"}
MCCallerOf == [r \in Rings |-> CHOOSE line \in Lines : TRUE]

desktopVars == <<part, storeVars, formVars, agentVars, runtimeVars, listenVars, metricsVars,
                 bookVars, dialVars>>

MCInit ==
    /\ part \in {"store", "form", "agents", "runtime", "listen", "metrics", "book", "dial"}
    /\ StoreInit /\ FormInit /\ AgentsInit /\ RuntimeInit /\ ListenInit /\ MetricsInit
    /\ BookInit /\ DialInit
    /\ part = "store" \/ env = [f \in Fields |-> IF f = "region" THEN "v1" ELSE "unset"]
    /\ part = "runtime" \/ instance = 0
    /\ part = "listen" \/ ~watching
    /\ part = "book" \/ ~hasCrm

MCNext ==
    \/ /\ part = "store" /\ StoreNext
       /\ UNCHANGED <<part, formVars, agentVars, runtimeVars, listenVars, metricsVars, bookVars, dialVars>>
    \/ /\ part = "form" /\ FormNext
       /\ UNCHANGED <<part, storeVars, agentVars, runtimeVars, listenVars, metricsVars, bookVars, dialVars>>
    \/ /\ part = "agents" /\ AgentsNext
       /\ UNCHANGED <<part, storeVars, formVars, runtimeVars, listenVars, metricsVars, bookVars, dialVars>>
    \/ /\ part = "runtime" /\ RuntimeNext
       /\ UNCHANGED <<part, storeVars, formVars, agentVars, listenVars, metricsVars, bookVars, dialVars>>
    \/ /\ part = "listen" /\ ListenNext
       /\ UNCHANGED <<part, storeVars, formVars, agentVars, runtimeVars, metricsVars, bookVars, dialVars>>
    \/ /\ part = "metrics" /\ MetricsNext
       /\ UNCHANGED <<part, storeVars, formVars, agentVars, runtimeVars, listenVars, bookVars, dialVars>>
    \/ /\ part = "book" /\ BookNext
       /\ UNCHANGED <<part, storeVars, formVars, agentVars, runtimeVars, listenVars, metricsVars, dialVars>>
    \/ /\ part = "dial" /\ DialNext
       /\ UNCHANGED <<part, storeVars, formVars, agentVars, runtimeVars, listenVars, metricsVars, bookVars>>

MCSpec == MCInit /\ [][MCNext]_desktopVars /\ RuntimeFairness /\ ListenFairness /\ BookFairness

\* A setting keeps its value through saves, crashes, a damaged file and a restart, on the layer it was
\* set; and the page, at rest, shows and sends back what is stored, unless the last of it was a reload
\* that failed.
SettingsAreKept ==
    /\ RestartKeeps /\ SavedIsDurable /\ TuningNeverCostsTheLayer /\ InPlaceIsFresh /\ DriftIsSaid
    /\ UntouchedFormIsIdentity /\ QuietFormIsCurrent

\* While Autopilots replace each other only one answers, with the settings that were saved last, and
\* every record lands; texts go on, unless two saves met there; the places that know which agent
\* answers a phone agree, unless a reload failed or requests crossed; what the operator endpoint says
\* is of the Autopilot in use, or of one that never gave its port back, and adds up; and what the
\* Contacts page shows is true.
RuntimeAgrees ==
    /\ OneAnswers /\ NewSettingsReachAll /\ RecordsLand /\ PlacesAgree
    /\ CountsAddUp /\ EndpointIsCurrent /\ AddedIsShown /\ ShownIsTrue
    /\ CallsArrive /\ DialIsReported

\* Saves end, the answering goes on after them, unless the next Autopilot cannot be built; an idle
\* Listen session is swept; no call is turned away for an agent that is gone, unless requests were under
\* way, had crossed or had failed; and the Contacts page comes up, and takes one contact after the other.
DesktopGoesOn ==
    /\ SavesEnd /\ AnsweringGoesOn /\ IdleListenSwept /\ NoAgentIsRefused /\ PageSettles
=============================================================================
