---------------------------- MODULE CallLifecycle ----------------------------
(***************************************************************************)
(* What the orchestrator promises of every phone in the pool: a call goes  *)
(* through the states of packages/orchestrator/src/stateMachine.ts, it is  *)
(* billed for speech recognition only between being answered and being     *)
(* over, and the phone is at rest again only after that.                   *)
(***************************************************************************)
CONSTANT Devices

VARIABLES
    state,  \* the call's state; "idle": no call on this device
    meter   \* TRUE while a realtime session of the call is billed

vars == <<state, meter>>

Init == state = [d \in Devices |-> "idle"] /\ meter = [d \in Devices |-> FALSE]

Move(d, from, to) ==
    /\ state[d] \in from
    /\ state' = [state EXCEPT ![d] = to]

Ring(d) == Move(d, {"idle"}, "incoming") /\ UNCHANGED meter

Answer(d) == Move(d, {"incoming"}, "answered") /\ UNCHANGED meter

Talk(d) == Move(d, {"answered"}, "talking") /\ UNCHANGED meter

StartMeter(d) ==
    /\ state[d] = "answered"
    /\ ~meter[d]
    /\ meter' = [meter EXCEPT ![d] = TRUE]
    /\ UNCHANGED state

StopMeter(d) ==
    /\ meter[d]
    /\ meter' = [meter EXCEPT ![d] = FALSE]
    /\ UNCHANGED state

\* Whatever went wrong, "ended" is reachable - but not while the meter runs.
End(d) ==
    /\ ~meter[d]
    /\ Move(d, {"incoming", "answered", "talking"}, "ended")
    /\ UNCHANGED meter

Rest(d) == Move(d, {"ended"}, "idle") /\ UNCHANGED meter

Next == \E d \in Devices : \/ Ring(d) \/ Answer(d) \/ Talk(d)
                           \/ StartMeter(d) \/ StopMeter(d)
                           \/ End(d) \/ Rest(d)

Spec == Init /\ [][Next]_vars

\* Nothing is billed for a call that is over, or that nobody has answered.
MeterOnlyInCall == \A d \in Devices : meter[d] => state[d] \in {"answered", "talking"}
=============================================================================
