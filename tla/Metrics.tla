------------------------------ MODULE Metrics ------------------------------
(* What an operator sees of the Autopilots: the counters that each keeps from *)
(* the events of its call loop, and the endpoint on which it serves them.     *)
(* Every Autopilot has counters of its own, and all of them use one port.     *)
(* Transcript lines, barge-ins, errors and teardowns are only added up and    *)
(* are left out.                                                              *)
EXTENDS Naturals, FiniteSets

CONSTANTS
    Inbound,            \* the calls that come in
    MaxTenures,         \* Autopilots that are built, each replacing the one before
    MaxListens          \* listen() calls of one Autopilot that may be under way

ASSUME MetricsAssumption == IsFiniteSet(Inbound) /\ MaxTenures \in Nat \ {0} /\ MaxListens \in Nat

Tenures == 1..MaxTenures

Counter == {"started", "completed", "failed", "missed", "rejected"}

VARIABLES
    tenure,             \* the Autopilot in use
    answering,          \* [Tenures -> BOOLEAN]: `running'
    retired,            \* [Tenures -> how far its shutdown is]
    ledger,             \* [Inbound -> what the call loop knows of the call]
    active,             \* [Tenures -> the calls in `live']
    ending,             \* [Tenures -> the calls in `ending']
    count,              \* [Tenures -> [Counter -> Nat]]
    binding,          \* [Tenures -> servers whose listen() is under way]
    health,             \* [Tenures -> BOOLEAN]: `this.health' is set
    port,               \* the Autopilot whose server has the port, 0 for none
    late                \* the Autopilots whose server came up after their shutdown

countVars == <<ledger, active, ending, count>>
endpointVars == <<tenure, answering, retired, binding, health, port, late>>
metricsVars == <<countVars, endpointVars>>

MetricsInit ==
    /\ tenure = 1 /\ answering = [t \in Tenures |-> FALSE]
    /\ retired = [t \in Tenures |-> "no"]
    /\ ledger = [c \in Inbound |-> [of |-> 0, at |-> "none", asked |-> "none", record |-> "none"]]
    /\ active = [t \in Tenures |-> {}] /\ ending = [t \in Tenures |-> {}]
    /\ count = [t \in Tenures |-> [k \in Counter |-> 0]]
    /\ binding = [t \in Tenures |-> 0] /\ health = [t \in Tenures |-> FALSE]
    /\ port = 0 /\ late = {}

----------------------------------------------------------------------------
(* The listeners that attach() installs *)

Plus(t, k) == [count EXCEPT ![t][k] = @ + 1]

\* A record without an outcome counts as completed.
OutcomeCounter(outcome) == IF outcome = "none" THEN "completed" ELSE outcome

OnIncoming(t, c) ==
    /\ count' = Plus(t, "started")
    /\ active' = [active EXCEPT ![t] = @ \cup {c}]
    /\ UNCHANGED ending

\* The transition comes before the outcome is on the record.
OnEnded(t, c) ==
    /\ active' = [active EXCEPT ![t] = @ \ {c}]
    /\ ending' = [ending EXCEPT ![t] = @ \cup {c}]
    /\ UNCHANGED count

\* A record that was saved is announced; only the last one, and once, is counted.
OnRecord(t, c, record) ==
    /\ IF c \in ending[t]
       THEN ending' = [ending EXCEPT ![t] = @ \ {c}] /\ count' = Plus(t, OutcomeCounter(record))
       ELSE UNCHANGED <<ending, count>>
    /\ UNCHANGED active

----------------------------------------------------------------------------
(* The events of the call loop, in its order.  A call that a poll brings after *)
(* the Autopilot was switched off is in AppRuntime.                           *)

Move(c, at) == ledger' = [ledger EXCEPT ![c].at = at]

CallStarted(c) ==
    /\ ledger[c].at = "none" /\ answering[tenure]
    /\ ledger' = [ledger EXCEPT ![c].of = tenure, ![c].at = "live"]
    /\ OnIncoming(tenure, c)
    /\ UNCHANGED endpointVars

\* Whoever asks first decides how the call ended.
EndIsAsked(c) ==
    /\ ledger[c].at = "live"
    /\ \E outcome \in {"completed", "failed", "missed", "rejected"} :
        ledger' = [ledger EXCEPT ![c].at = "teardown", ![c].asked = outcome]
    /\ UNCHANGED <<active, ending, count, endpointVars>>

MachineEnds(c) ==
    /\ ledger[c].at = "teardown"
    /\ Move(c, "ended")
    /\ OnEnded(ledger[c].of, c)
    /\ UNCHANGED endpointVars

\* The outcome is put on the record, which is saved; a record that cannot be saved is not announced.
FinalRecord(c) ==
    /\ ledger[c].at = "ended"
    /\ ledger' = [ledger EXCEPT ![c].at = "gone", ![c].record = ledger[c].asked]
    /\ \/ OnRecord(ledger[c].of, c, ledger[c].asked)
       \/ UNCHANGED <<active, ending, count>>
    /\ UNCHANGED endpointVars

----------------------------------------------------------------------------
(* The endpoint: enable() starts it, shutdown() closes it after the calls *)

\* Nothing is remembered of a server until its listen() has returned.
StartHealth(t) ==
    IF health[t] THEN UNCHANGED binding
    ELSE /\ binding[t] < MaxListens
         /\ binding' = [binding EXCEPT ![t] = @ + 1]

SwitchOn ==
    /\ ~answering[tenure] /\ retired[tenure] = "no"
    /\ answering' = [answering EXCEPT ![tenure] = TRUE]
    /\ StartHealth(tenure)
    /\ UNCHANGED <<countVars, tenure, retired, health, port, late>>

\* disable() leaves the endpoint up.
SwitchOff ==
    /\ answering[tenure]
    /\ answering' = [answering EXCEPT ![tenure] = FALSE]
    /\ UNCHANGED <<countVars, tenure, retired, binding, health, port, late>>

Listens(t) ==
    /\ binding[t] > 0
    /\ binding' = [binding EXCEPT ![t] = @ - 1]
    /\ \/ /\ port = 0
          /\ port' = t /\ health' = [health EXCEPT ![t] = TRUE]
          /\ late' = IF retired[t] = "done" THEN late \cup {t} ELSE late
       \/ UNCHANGED <<port, health, late>>
    /\ UNCHANGED <<countVars, tenure, answering, retired>>

\* A save or the end of the program takes the Autopilot out of use; its calls are ended.
Retire ==
    /\ retired[tenure] = "no"
    /\ answering' = [answering EXCEPT ![tenure] = FALSE]
    /\ retired' = [retired EXCEPT ![tenure] = "draining"]
    /\ ledger' = [c \in Inbound |->
           IF ledger[c].of = tenure /\ ledger[c].at = "live"
           THEN [ledger[c] EXCEPT !.at = "teardown", !.asked = "failed"] ELSE ledger[c]]
    /\ UNCHANGED <<active, ending, count, tenure, binding, health, port, late>>

Quiet(t) == \A c \in Inbound : ledger[c].of = t => ledger[c].at \in {"none", "gone"}

CloseEndpoint(t) ==
    /\ retired[t] = "draining" /\ Quiet(t)
    /\ retired' = [retired EXCEPT ![t] = "done"]
    /\ health' = [health EXCEPT ![t] = FALSE]
    /\ port' = IF health[t] THEN 0 ELSE port
    /\ UNCHANGED <<countVars, tenure, answering, binding, late>>

\* GET /health asks the server that has the port whether its Autopilot is answering.
HealthStatus == IF port = 0 THEN "refused" ELSE IF answering[port] THEN "ok" ELSE "degraded"

\* The next one is built when the old one is down.
Succeed ==
    /\ retired[tenure] = "done" /\ tenure < MaxTenures
    /\ tenure' = tenure + 1
    /\ UNCHANGED <<countVars, answering, retired, binding, health, port, late>>

MetricsNext ==
    \/ \E c \in Inbound : CallStarted(c) \/ EndIsAsked(c) \/ MachineEnds(c) \/ FinalRecord(c)
    \/ SwitchOn \/ SwitchOff \/ Retire \/ Succeed
    \/ \E t \in Tenures : Listens(t) \/ CloseEndpoint(t)

MetricsSpec == MetricsInit /\ [][MetricsNext]_metricsVars

----------------------------------------------------------------------------
(* Properties *)

Total(t) == LET n == count[t] IN n["completed"] + n["failed"] + n["missed"] + n["rejected"]

\* Every call that was started is active, ending or counted, and an outcome is counted only for
\* records that carry it (metrics.ts:115-121: the transition and the record that carries the
\* outcome are two events), whatever order the calls end in and whichever records cannot be saved.
CountsAddUp ==
    \A t \in Tenures :
        /\ count[t]["started"] = Cardinality(active[t]) + Cardinality(ending[t]) + Total(t)
        /\ active[t] = {c \in Inbound : ledger[c].of = t /\ ledger[c].at \in {"live", "teardown"}}
        /\ \A k \in Counter \ {"started"} :
            count[t][k] <= Cardinality({c \in Inbound : ledger[c].of = t /\ ledger[c].record = k})

\* While an Autopilot answers, the endpoint does not say "degraded", on which a supervisor restarts the
\* program (health.ts:41-45): the port was given back by the one before it.  Only a server that came
\* up after the shutdown of its Autopilot, and has the port itself, stands in the way.
EndpointIsCurrent ==
    \/ port \in late
    \/ port \in {0, tenure} /\ (HealthStatus = "degraded" => ~answering[tenure])

\* That no server is left behind by a shutdown (autopilot.ts:564-565).
PortIsGivenBack == port # 0 => retired[port] # "done"
=============================================================================
