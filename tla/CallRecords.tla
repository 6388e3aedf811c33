---------------------------- MODULE CallRecords ----------------------------
(***************************************************************************)
(* Where calls are recorded.  packages/orchestrator/src/callStore.ts is an *)
(* append-only log with an index in memory, rebuilt from the log at start; *)
(* packages/crm/src/store.ts is a SQLite table that also links a call to   *)
(* the contact who owns its number.  The Autopilot takes the table where   *)
(* the runtime has SQLite, else the log.                                   *)
(*                                                                         *)
(* A record is its version, one more with every save the call loop makes   *)
(* (0: no record), and what post-call analysis has attached to it.         *)
(***************************************************************************)
EXTENDS Naturals, Sequences, FiniteSets

CONSTANTS
    Kinds,          \* the stores considered, of {"jsonl", "crm"}
    Calls,
    Contacts,       \* numbers: the oldest contact has the smallest
    Numbers,        \* phone numbers with different keys and the same suffix
    MaxSaves,       \* bound: saves of one call's record
    MaxTears,       \* bound: appends cut off in the middle
    MaxEras         \* bound: Autopilots built, one after another

ASSUME RecordsAssumption ==
    /\ Kinds \subseteq {"jsonl", "crm"}
    /\ Contacts \subseteq Nat \ {0} /\ IsFiniteSet(Contacts)
    /\ MaxSaves \in Nat \ {0} /\ MaxTears \in Nat /\ MaxEras \in Nat \ {0}

Nobody == 0
Withheld == "withheld"
Analyses == {"none", "skipped", "failed", "completed"}
Records == [v : 0..MaxSaves, post : Analyses]
NoRecord == [v |-> 0, post |-> "none"]

VARIABLES
    kind,       \* the store: "jsonl" or "crm"
    up,         \* the process runs
    era,        \* the number of the Autopilot, which owns a store and an analyser
    stage,      \* of a call: "none", "live", "ended", or "lost" in a crash
    made,       \* the version of the newest record of a call
    owner,      \* the era of the Autopilot that runs a call and analyses it
    index,      \* JsonlCallRecordStore.records of the current era
    file,       \* the last line of each call that can be parsed
    torn,       \* the file does not end in a newline
    rows,       \* the table `calls'
    link,       \* its column contact_id
    party,      \* its column remote_party
    book,       \* the contacts' numbers
    acked,      \* what the last save of a call that returned had been given
    refused,    \* calls with a save that failed, the disk being full
    tears

callVars == <<stage, made, owner>>
storeVars == <<index, file, torn, rows, link, acked, refused, tears>>
setting == <<kind, up, era, party, book>>
recordVars == <<callVars, storeVars, setting>>

RecordsInit ==
    /\ kind \in Kinds
    /\ up = TRUE /\ era = 1
    /\ stage = [c \in Calls |-> "none"]
    /\ made = [c \in Calls |-> 0]
    /\ owner = [c \in Calls |-> 1]
    /\ index = [c \in Calls |-> NoRecord]
    /\ file = [c \in Calls |-> NoRecord] /\ torn = FALSE
    /\ rows = [c \in Calls |-> NoRecord]
    /\ link = [c \in Calls |-> Nobody]
    /\ party \in [Calls -> Numbers \cup {Withheld}]
    /\ book = [k \in Contacts |-> {}]
    /\ acked = [c \in Calls |-> NoRecord]
    /\ refused = {} /\ tears = 0

-----------------------------------------------------------------------------
(* The log *)

\* appendFileSync(), which may fail, maybe half-way.  A line written behind a tail
\* without a newline becomes part of that tail, which nothing can parse.
AppendLine_NoNewline(c, rec, ok) ==
    /\ file' = IF ok /\ ~torn THEN [file EXCEPT ![c] = rec] ELSE file
    /\ torn' \in (IF ok THEN {TRUE} ELSE {torn} \cup {t \in {TRUE} : tears < MaxTears})
    /\ tears' = IF ~ok /\ torn' /\ ~torn THEN tears + 1 ELSE tears

AppendLine(c, rec, ok) ==
    /\ file' = IF ok /\ ~torn THEN [file EXCEPT ![c] = rec] ELSE file
    /\ torn' \in (IF ok THEN {FALSE} ELSE {torn} \cup {t \in {TRUE} : tears < MaxTears})
    /\ tears' = IF ~ok /\ torn' /\ ~torn THEN tears + 1 ELSE tears

\* JsonlCallRecordStore.save(): the index first, then the line.  A store that has
\* been replaced still writes its file, but its index is seen by nobody.
LogSave(c, rec, ok) ==
    /\ index' = IF owner[c] = era THEN [index EXCEPT ![c] = rec] ELSE index
    /\ AppendLine(c, rec, ok)
    /\ acked' = IF ok THEN [acked EXCEPT ![c] = rec] ELSE acked
    /\ UNCHANGED <<rows, link>>

-----------------------------------------------------------------------------
(* The table *)

\* findContactByPhone(): the oldest contact with that very number; failing that, the
\* contact whose number ends alike, if it is the only one.
Matching(n) ==
    LET exact == {k \in Contacts : n \in book[k]}
        alike == {k \in Contacts : n # Withheld /\ book[k] # {}}
    IN  IF exact # {} THEN {k \in exact : \A j \in exact : k <= j}
        ELSE IF Cardinality(alike) = 1 THEN alike ELSE {}

\* autoLinkCall(): an existing link is left alone, an unknown number stays unknown.
AutoLink_Again(c) ==
    LET found == Matching(party[c]) IN
    IF found = {} THEN link[c] ELSE CHOOSE k \in found : TRUE

AutoLink(c) ==
    LET found == Matching(party[c]) IN
    IF link[c] # Nobody \/ found = {} THEN link[c] ELSE CHOOSE k \in found : TRUE

\* upsertCall(): the columns are those of the call loop's record, the analysis is
\* not among them.  A record of the call loop names no contact, which keeps the
\* one in the row.
TableSave(c, rec, ok) ==
    /\ rows' = IF ok THEN [rows EXCEPT ![c].v = rec.v] ELSE rows
    /\ link' = IF ok THEN [link EXCEPT ![c] = AutoLink(c)] ELSE link
    /\ acked' = IF ok THEN [acked EXCEPT ![c] = rec] ELSE acked
    /\ UNCHANGED <<index, file, torn, tears>>

-----------------------------------------------------------------------------
\* store.save() as the owner of call c makes it: it returns or throws.  The table
\* of an Autopilot that was shut down is closed and throws.
Saved(c, rec, ok) ==
    /\ \/ kind = "jsonl" /\ LogSave(c, rec, ok)
       \/ kind = "crm" /\ (ok => owner[c] = era) /\ TableSave(c, rec, ok)
    /\ refused' = IF ok \/ (kind = "crm" /\ owner[c] # era) THEN refused ELSE refused \cup {c}

\* store.get(), in the eyes of the current Autopilot and of the owner of call c.
Stored(c) == IF kind = "jsonl" THEN index[c] ELSE rows[c]
OwnStored(c) == IF owner[c] = era THEN Stored(c) ELSE [v |-> made[c], post |-> "none"]

\* Orchestrator.persist() while the call goes on.
SaveProgress(c, ok) ==
    /\ up
    /\ stage[c] \in {"none", "live"} /\ made[c] < MaxSaves - 1
    /\ stage' = [stage EXCEPT ![c] = "live"]
    /\ made' = [made EXCEPT ![c] = @ + 1]
    /\ Saved(c, [v |-> made[c] + 1, post |-> "none"], ok)
    /\ UNCHANGED <<owner, setting>>

\* The last save, at the end of the call's teardown.
SaveFinal(c, ok) ==
    /\ up
    /\ stage[c] = "live"
    /\ stage' = [stage EXCEPT ![c] = "ended"]
    /\ made' = [made EXCEPT ![c] = @ + 1]
    /\ Saved(c, [v |-> made[c] + 1, post |-> "none"], ok)
    /\ UNCHANGED <<owner, setting>>

\* createContact(), addPhone() and removePhone()
EditPhones(k, n) ==
    /\ up /\ kind = "crm"
    /\ book' \in {[book EXCEPT ![k] = @ \cup {n}], [book EXCEPT ![k] = @ \ {n}]}
    /\ book' # book
    /\ UNCHANGED <<kind, up, era, party, callVars, storeVars>>

\* linkCallToContact(), with a contact or with null.
LinkCall(c, k) ==
    /\ up /\ kind = "crm" /\ rows[c].v > 0
    /\ link' = [link EXCEPT ![c] = k]
    /\ UNCHANGED <<index, file, torn, rows, acked, refused, tears, callVars, setting>>
=============================================================================
