---------------------------- MODULE PhoneAgents -----------------------------
(* The stored agent of one phone, kept in four places: at the service, in the *)
(* settings file, in the running Autopilot and on the settings page.  Saving  *)
(* and deleting it walk through them one after the other, and each step can   *)
(* fail after the one before it was done.  0 is "no agent".                   *)
EXTENDS Naturals

CONSTANTS
    MaxAgents,             \* agents the service creates
    Clicks                 \* requests that may be under way at once

VARIABLES
    remote,                \* the agents that exist at the service
    filed,                 \* the agent in the settings file
    adopted,               \* the agent in the settings the Autopilot was built from
    listed,                \* the agent the settings page knows of
    task,                  \* [Clicks -> the request under way: [op, id], op "none" when there is none]
    made,                  \* how many agents the service has created
    calling,               \* a call is in flight
    behind,                \* the places that a failed reload has left behind the file
    flawed,                \* what has gone wrong so far: an answer or the disk was "lost", two requests
                           \* "crossed", or one was sent "blind", by a page that is behind
    session                \* what the last call was answered with

agentVars == <<remote, filed, adopted, listed, task, made, calling, behind, flawed, session>>

Idle == [op |-> "none", id |-> 0]

AgentsInit ==
    /\ remote = {} /\ filed = 0 /\ adopted = 0 /\ listed = 0 /\ made = 0
    /\ task = [q \in Clicks |-> Idle]
    /\ calling = FALSE /\ behind = {} /\ flawed = {} /\ session = "none"

Becomes(q, op, id) == task' = [task EXCEPT ![q] = [op |-> op, id |-> id]]

Ends(q) == task' = [task EXCEPT ![q] = Idle]

----------------------------------------------------------------------------
(* The card sends what it knows.  Its buttons are off until the answer, or    *)
(* until something is typed or another phone is chosen.                       *)

Flaws ==
    (IF \E q \in Clicks : task[q].op # "none" THEN {"crossed"} ELSE {})
        \cup (IF listed # filed THEN {"blind"} ELSE {})

ClickSaveAgent(q) ==
    /\ task[q].op = "none"
    /\ Becomes(q, IF listed = 0 THEN "create" ELSE "update", listed)
    /\ flawed' = flawed \cup Flaws
    /\ UNCHANGED <<remote, filed, adopted, listed, made, calling, behind, session>>

\* Where the file has none there is nothing to do, and the page reads it again.
ClickDeleteAgent(q) ==
    /\ task[q].op = "none" /\ listed # 0
    /\ IF filed = 0
       THEN listed' = 0 /\ behind' = behind \ {"page"} /\ UNCHANGED <<task, flawed>>
       ELSE Becomes(q, "delete", filed) /\ flawed' = flawed \cup Flaws /\ UNCHANGED <<listed, behind>>
    /\ UNCHANGED <<remote, filed, adopted, made, calling, session>>

----------------------------------------------------------------------------
(* The service answers. *)

ServiceDoes(q) ==
    /\ \/ /\ task[q].op = "create" /\ made < MaxAgents
          /\ made' = made + 1 /\ remote' = remote \cup {made + 1}
          /\ Becomes(q, "file", made + 1)
       \/ /\ task[q].op = "update" /\ task[q].id \in remote
          /\ Becomes(q, "file", task[q].id)
          /\ UNCHANGED <<made, remote>>
       \/ /\ task[q].op = "delete" /\ task[q].id \in remote
          /\ remote' = remote \ {task[q].id}
          /\ Becomes(q, "file", 0)
          /\ UNCHANGED made
    /\ UNCHANGED <<filed, adopted, listed, calling, behind, flawed, session>>

\* Unreachable, or the agent is not there: the handler throws before it has changed anything.
ServiceFails(q) ==
    /\ task[q].op \in {"create", "update", "delete"}
    /\ Ends(q)
    /\ UNCHANGED <<remote, filed, adopted, listed, made, calling, behind, flawed, session>>

\* The agent was created and the answer is lost.
AnswerLost(q) ==
    /\ task[q].op = "create" /\ made < MaxAgents
    /\ made' = made + 1 /\ remote' = remote \cup {made + 1}
    /\ Ends(q) /\ flawed' = flawed \cup {"lost"}
    /\ UNCHANGED <<filed, adopted, listed, calling, behind, session>>

----------------------------------------------------------------------------
(* store.save, then reloadSettings, which refuses while a call is in flight,  *)
(* and ends in an error where the Autopilot cannot be built again.            *)

\* The reload of settings that have the agent `id'; a page that is not told keeps what it has.
Reloaded(id) ==
    /\ adopted' = id
    /\ \/ listed' = id /\ behind' = {}
       \/ listed' = listed /\ behind' = {"page"}

FileAgent(q) ==
    /\ task[q].op = "file"
    /\ filed' = task[q].id
    /\ IF calling THEN behind' = {"runtime", "page"} /\ UNCHANGED <<adopted, listed>>
       ELSE Reloaded(task[q].id)
    /\ Ends(q)
    /\ UNCHANGED <<remote, made, calling, flawed, session>>

DiskFull(q) ==
    /\ task[q].op = "file"
    /\ Ends(q) /\ flawed' = flawed \cup {"lost"}
    /\ UNCHANGED <<remote, filed, adopted, listed, made, calling, behind, session>>

----------------------------------------------------------------------------
(* Elsewhere: another save of the settings, a restart, and the calls. *)

OtherSave ==
    /\ ~calling
    /\ Reloaded(filed)
    /\ UNCHANGED <<remote, filed, task, made, calling, flawed, session>>

\* An agent id the service does not know is an error of the session, not a fallback.
AgentFor(id) == CASE id = 0 -> "global" [] id \in remote -> "own" [] OTHER -> "refused"

CallComes ==
    /\ ~calling
    /\ calling' = TRUE /\ session' = AgentFor(adopted)
    /\ UNCHANGED <<remote, filed, adopted, listed, task, made, behind, flawed>>

CallGoes ==
    /\ calling
    /\ calling' = FALSE
    /\ UNCHANGED <<remote, filed, adopted, listed, task, made, behind, flawed, session>>

AgentsNext ==
    \/ \E q \in Clicks :
          \/ ClickSaveAgent(q) \/ ClickDeleteAgent(q) \/ ServiceDoes(q) \/ ServiceFails(q)
          \/ AnswerLost(q) \/ FileAgent(q) \/ DiskFull(q)
    \/ OtherSave \/ CallComes \/ CallGoes

AgentsSpec == AgentsInit /\ [][AgentsNext]_agentVars

----------------------------------------------------------------------------
(* Properties *)

NoneUnderWay == \A q \in Clicks : task[q].op = "none"

\* The Autopilot and the page have the agent that is in the file, whatever requests cross and whatever
\* is lost, until a reload fails, and again from the next that does not; and a phone has one agent at
\* the service, the one in the file, if each request was sent when the one before was over, by a page
\* that knew the file, and none was lost half-way.
PlacesAgree ==
    /\ "runtime" \notin behind => adopted = filed
    /\ "page" \notin behind => listed = filed
    /\ NoneUnderWay /\ flawed = {} => remote = IF filed = 0 THEN {} ELSE {filed}

\* And then a call that comes between two requests is never turned away for an agent that is gone,
\* unless the last reload was refused for another call.
NoAgentIsRefused ==
    [][session' = "refused" /\ session # "refused"
           => ~NoneUnderWay \/ flawed # {} \/ "runtime" \in behind]_agentVars

\* That wherever every answer arrives and the disk works, an agent at the service is one some phone
\* still has, however often and however soon a save is tried again
\* (main.ts:368: "A stored agent is deleted remotely too, so it stops existing anywhere - an
\* orphaned agent would keep billing/matching long after the device it served has moved on").
NoOrphanAgent == NoneUnderWay /\ "lost" \notin flawed => remote \subseteq {filed}
=============================================================================
