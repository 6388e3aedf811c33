------------------------------- MODULE UiDump -------------------------------
(* The view hierarchy of one phone, as its readers get it: the tool that      *)
(* writes it kills a second one of itself, so the readers stand in line; a    *)
(* dump that came to nothing is tried once more.  A number stands for what    *)
(* was on the screen.                                                         *)
EXTENDS Naturals, Sequences, FiniteSets

CONSTANTS
    Readers,        \* the detector, the answerer, the hang-up
    MaxScreens      \* how often what is shown changes

VARIABLES
    shows,          \* what is on the screen
    chain,          \* who has asked, in order: the chain of promises
    step,           \* of each reader: "idle", "waiting", "dumping", "reading"
    failures,       \* attempts that have come to nothing
    since,          \* what was shown when it asked
    running,        \* the readers whose dump runs on the phone
    stray,          \* those whose dump runs on after adb gave it up
    file,           \* by path: who wrote it, and what was shown then
    xml             \* what each reader last got; 0 is the empty answer

dumpVars == <<shows, chain, step, failures, since, running, stray, file, xml>>

Nothing == [by |-> "nobody", of |-> 0]

DumpInit ==
    /\ shows = 1 /\ chain = <<>>
    /\ step = [r \in Readers |-> "idle"]
    /\ failures = [r \in Readers |-> 0]
    /\ since = [r \in Readers |-> 1]
    /\ running = {} /\ stray = {}
    /\ file = [r \in Readers |-> Nothing]
    /\ xml = [r \in Readers |-> Nothing]

----------------------------------------------------------------------------
(* enqueue *)

ScreenChanges ==
    /\ shows < MaxScreens
    /\ shows' = shows + 1
    /\ UNCHANGED <<chain, step, failures, since, running, stray, file, xml>>

Ask(r) ==
    /\ step[r] = "idle"
    /\ step' = [step EXCEPT ![r] = "waiting"]
    /\ chain' = Append(chain, r)
    /\ failures' = [failures EXCEPT ![r] = 0]
    /\ since' = [since EXCEPT ![r] = shows]
    /\ xml' = [xml EXCEPT ![r] = Nothing]
    /\ UNCHANGED <<shows, running, stray, file>>

HasTurn(r) == Head(chain) = r

\* Whatever became of it, the next one runs.
Leave == chain' = Tail(chain)

----------------------------------------------------------------------------
(* dumpUi: dump, cat, and once more *)

\* Each keeps a file of its own on the phone.
PathOf(r) == r

Finish(r, answer) ==
    /\ xml' = [xml EXCEPT ![r] = answer]
    /\ step' = [step EXCEPT ![r] = "idle"]
    /\ Leave

Attempts == 2

\* After the last attempt the answer is empty, and says nothing of the screen.
Fail(r) ==
    /\ failures' = [failures EXCEPT ![r] = @ + 1]
    /\ IF failures[r] + 1 < Attempts
       THEN step' = [step EXCEPT ![r] = "waiting"] /\ UNCHANGED <<chain, xml>>
       ELSE Finish(r, Nothing)

\* The phone kills the older or the newer of two dumps.
StartDump(r) ==
    /\ step[r] = "waiting" /\ HasTurn(r)
    /\ step' = [step EXCEPT ![r] = "dumping"]
    /\ \/ running' = running \cup {r} /\ stray' = {}
       \/ running \cup stray # {} /\ UNCHANGED <<running, stray>>
    /\ UNCHANGED <<shows, chain, failures, since, file, xml>>

\* It writes its file, or cannot find the screen at rest and exits with 0 all the same.
DumpExits(r) ==
    /\ step[r] = "dumping" /\ r \in running
    /\ running' = running \ {r}
    /\ \/ file' = [file EXCEPT ![PathOf(r)] = [by |-> r, of |-> shows]]
       \/ UNCHANGED file
    /\ step' = [step EXCEPT ![r] = "reading"]
    /\ UNCHANGED <<shows, chain, failures, since, stray, xml>>

\* Killed, or adb lost the phone, or took too long and left it running.
DumpFails(r) ==
    /\ step[r] = "dumping"
    /\ running' = running \ {r}
    /\ \/ UNCHANGED stray
       \/ r \in running /\ stray' = stray \cup {r}
    /\ Fail(r)
    /\ UNCHANGED <<shows, since, file>>

StrayExits(r) ==
    /\ r \in stray
    /\ stray' = stray \ {r}
    /\ file' \in {file, [file EXCEPT ![PathOf(r)] = [by |-> r, of |-> shows]]}
    /\ UNCHANGED <<shows, chain, step, failures, since, running, xml>>

\* cat: what it prints is the answer, whoever wrote it and when.
ReadFile(r) ==
    /\ step[r] = "reading"
    /\ \/ /\ file[PathOf(r)] # Nothing
          /\ Finish(r, file[PathOf(r)]) /\ UNCHANGED failures
       \/ Fail(r)
    /\ UNCHANGED <<shows, since, running, stray, file>>

DumpNext ==
    \/ ScreenChanges
    \/ \E r \in Readers :
           Ask(r) \/ StartDump(r) \/ DumpExits(r) \/ DumpFails(r) \/ StrayExits(r) \/ ReadFile(r)

\* adb answers or times out, and a promise that settles runs what was chained to it.
DumpFairness ==
    \A r \in Readers : WF_dumpVars(StartDump(r) \/ DumpExits(r) \/ DumpFails(r) \/ ReadFile(r))

DumpSpec == DumpInit /\ [][DumpNext]_dumpVars /\ DumpFairness

----------------------------------------------------------------------------
(* Properties *)

\* However the readers' attempts and retries interleave, the program has one dump under way
\* (uiDump.ts:2, :17).
OneDumpAtATime == Cardinality(running) <= 1

\* What a reader gets was written for it, not by another one that had the phone before
\* (uiDump.ts:22-23).
ReadsItsOwn == \A r \in Readers : xml[r] # Nothing => xml[r].by = r

\* A dump that fails, and one that never answered, hold up nobody behind them
\* (uiDump.ts:34: "Failures must not poison the chain: the next caller runs regardless").
LineMovesOn == \A r \in Readers : step[r] = "waiting" ~> step[r] = "idle"

\* A screen that would not settle is "the failure it is" (uiDump.ts:74-77): nobody is handed what
\* the screen showed before they asked.
DumpIsFresh == \A r \in Readers : xml[r] # Nothing => xml[r].of >= since[r]
=============================================================================
