------------------------------- MODULE MCCall -------------------------------
(* A call on one phone, and what is kept of a call: `part' says which of them *)
(* a behaviour is about.  They share no state.                                *)
(*   call     the call loop, on one phone                                     *)
(*   records  two calls, two contacts that share a suffix, a restart or reload*)
EXTENDS Orchestrator, PostCall

VARIABLE part

allVars == <<part, vars, postCallVars>>

MCContacts == 1..2
MCNumbers == {"home", "abroad"}
MCCalls == {"c1", "c2"}

\* Contacts and numbers are of interest to the table alone; and its rows have nothing to do with
\* each other, so that one call is enough there.  In the log the two are alike: the one that begins
\* first is called c1.
MCInit ==
    /\ part \in {"call", "records"}
    /\ Init /\ PostCallInit
    /\ kind = "jsonl" => \A c \in Calls : party[c] = Withheld
    /\ kind = "crm" => party["c2"] = Withheld
    /\ part = "records" \/ kind = "jsonl"

MCNext ==
    \/ part = "call" /\ Next /\ UNCHANGED <<part, postCallVars>>
    \/ /\ part = "records" /\ PostCallNext
       /\ stage'["c2"] # "none" => kind = "jsonl" /\ stage["c1"] # "none"
       /\ kind = "crm" => owner'["c2"] = era'
       /\ UNCHANGED <<part, vars>>

MCSpec == MCInit /\ [][MCNext]_allVars /\ Settling /\ PostCallFairness
=============================================================================
