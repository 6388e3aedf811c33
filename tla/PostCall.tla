------------------------------ MODULE PostCall ------------------------------
(***************************************************************************)
(* packages/orchestrator/src/postCall.ts on top of the stores: the queue   *)
(* of ended calls, the paid upload of a recording and the analysis that is *)
(* written back; with what apps/desktop/electron/service/autopilot.ts does *)
(* around them: it queues a call when its last record was saved, and waits *)
(* for its calls, but not for their analyses, before it gives way to       *)
(* another Autopilot; nor for a pass over the phones that is still asking  *)
(* whether one of them rings.                                              *)
(***************************************************************************)
EXTENDS CallRecords

CONSTANTS
    Concurrency     \* uploads an analyser has under way

ASSUME PostCallAssumption == Concurrency \in Nat \ {0}

VARIABLES
    queue,      \* PostCallProcessor.queue, of each era
    job,        \* of a call: "none", "queued", "probing", "uploading", "summing",
                \* "reading", "saving", or how it was reported
    found,      \* what the analysis came to
    latest,     \* the record persist() has read back
    uploads     \* the paid uploads of a call

jobVars == <<queue, job, found, latest, uploads>>
postCallVars == <<recordVars, jobVars>>

PostCallInit ==
    /\ RecordsInit
    /\ queue = [e \in 1..MaxEras |-> <<>>]
    /\ job = [c \in Calls |-> "none"]
    /\ found = [c \in Calls |-> "none"]
    /\ latest = [c \in Calls |-> NoRecord]
    /\ uploads = [c \in Calls |-> 0]

Busy == {"probing", "uploading", "summing", "reading", "saving"}
Reported == {"kept", "unsaved"}

\* Calls that the analyser of era e has in hand.
Running(e) == {c \in Calls : owner[c] = e /\ job[c] \in Busy}

-----------------------------------------------------------------------------
\* The "call" listener: a record that was saved and has ended is analysed, once.
Due(c) == stage'[c] = "ended" /\ acked'[c].v = made'[c]

RecordCall(c, ok) ==
    /\ SaveProgress(c, ok) \/ SaveFinal(c, ok)
    /\ IF Due(c)
       THEN /\ queue' = [queue EXCEPT ![owner[c]] = Append(@, c)]
            /\ job' = [job EXCEPT ![c] = "queued"]
       ELSE UNCHANGED <<queue, job>>
    /\ UNCHANGED <<found, latest, uploads>>

\* pump()
Pump_OffByOne(e) ==
    /\ up
    /\ queue[e] # <<>>
    /\ Cardinality(Running(e)) + 1 < Concurrency
    /\ queue' = [queue EXCEPT ![e] = Tail(@)]
    /\ job' = [job EXCEPT ![Head(queue[e])] = "probing"]
    /\ UNCHANGED <<recordVars, found, latest, uploads>>

Pump(e) ==
    /\ up
    /\ queue[e] # <<>>
    /\ Cardinality(Running(e)) < Concurrency
    /\ queue' = [queue EXCEPT ![e] = Tail(@)]
    /\ job' = [job EXCEPT ![Head(queue[e])] = "probing"]
    /\ UNCHANGED <<recordVars, found, latest, uploads>>

Step(c, from, to) == /\ up
                     /\ job[c] = from
                     /\ job' = [job EXCEPT ![c] = to]
                     /\ UNCHANGED <<recordVars, queue>>

\* analyse() up to the upload: no recording, a damaged or a short one is skipped.
Probe(c) ==
    /\ \/ Step(c, "probing", "reading") /\ found' = [found EXCEPT ![c] = "skipped"] /\ UNCHANGED uploads
       \/ Step(c, "probing", "uploading") /\ uploads' = [uploads EXCEPT ![c] = @ + 1] /\ UNCHANGED found
    /\ UNCHANGED latest

\* transcribe() settles.
Transcribed(c) ==
    /\ \/ Step(c, "uploading", "reading") /\ found' = [found EXCEPT ![c] = "failed"]
       \/ Step(c, "uploading", "summing") /\ found' = [found EXCEPT ![c] = "completed"]
    /\ UNCHANGED <<latest, uploads>>

\* summarise(): whatever comes of it, the transcript stands.
Summarised(c) ==
    /\ Step(c, "summing", "reading")
    /\ UNCHANGED <<found, latest, uploads>>

\* persist(): the record is read back first.
ReadBack(c) ==
    /\ Step(c, "reading", "saving")
    /\ latest' = [latest EXCEPT ![c] = IF OwnStored(c).v = 0 THEN [v |-> made[c], post |-> "none"]
                                       ELSE OwnStored(c)]
    /\ UNCHANGED <<found, uploads>>

Attach(c, ok) ==
    /\ up
    /\ job[c] = "saving"
    /\ Saved(c, [latest[c] EXCEPT !.post = found[c]], ok)
    /\ job' = [job EXCEPT ![c] = IF ok THEN "kept" ELSE "unsaved"]
    /\ UNCHANGED <<callVars, setting, queue, found, latest, uploads>>

-----------------------------------------------------------------------------
\* Runtime.reloadSettings(): the Autopilot ends its calls and waits for their last
\* save; the next one opens its store anew.  A pass that waits in detect() is not
\* waited for: the calls in `asked', which it may yet find, are begun by the
\* Autopilot it belongs to, whose table is closed by then.
Replace ==
    /\ up /\ era < MaxEras
    /\ \A c \in Calls : owner[c] = era => stage[c] # "live"
    /\ era' = era + 1
    /\ index' = file
    /\ \E asked \in SUBSET Calls :
          owner' = [c \in Calls |-> IF stage[c] = "none" /\ c \notin asked THEN era + 1 ELSE owner[c]]
    /\ UNCHANGED <<kind, up, party, book, stage, made, file, torn, rows, link, acked, refused, tears, jobVars>>

\* The process dies, maybe in the middle of an append.
Die ==
    /\ up /\ era < MaxEras
    /\ up' = FALSE
    /\ \/ UNCHANGED <<torn, tears>>
       \/ /\ kind = "jsonl" /\ tears < MaxTears
          /\ \E c \in Calls : stage[c] = "live" \/ job[c] = "saving"
          /\ torn' = TRUE
          /\ tears' = IF torn THEN tears ELSE tears + 1
    /\ UNCHANGED <<kind, era, party, book, callVars, index, file, rows, link, acked, refused, jobVars>>

\* The next start reads the log.  Calls and analyses under way are gone.
Boot ==
    /\ ~up
    /\ up' = TRUE /\ era' = era + 1
    /\ index' = file
    /\ stage' = [c \in Calls |-> IF stage[c] = "live" THEN "lost" ELSE stage[c]]
    /\ owner' = [c \in Calls |-> IF stage[c] = "none" THEN era + 1 ELSE owner[c]]
    /\ queue' = [e \in 1..MaxEras |-> <<>>]
    /\ job' = [c \in Calls |-> IF job[c] \in Busy \cup {"queued"} THEN "lost" ELSE job[c]]
    /\ UNCHANGED <<kind, party, book, made, file, torn, rows, link, acked, refused, tears, found, latest, uploads>>

-----------------------------------------------------------------------------
EditBook == \E k \in Contacts, n \in Numbers : EditPhones(k, n) /\ UNCHANGED jobVars
Correct == \E c \in Calls, k \in Contacts \cup {Nobody} : LinkCall(c, k) /\ UNCHANGED jobVars

Work(c) == Probe(c) \/ Transcribed(c) \/ Summarised(c) \/ ReadBack(c) \/ \E ok \in BOOLEAN : Attach(c, ok)

PostCallNext ==
    \/ \E c \in Calls, ok \in BOOLEAN : RecordCall(c, ok)
    \/ \E e \in 1..MaxEras : Pump(e)
    \/ \E c \in Calls : Work(c)
    \/ EditBook \/ Correct
    \/ Replace \/ Die \/ Boot

\* A file operation, an upload and a request of the gateway end (the clients have
\* their own time limits), and the analyser pumps when one has.
PostCallFairness ==
    /\ \A e \in 1..MaxEras : WF_postCallVars(Pump(e))
    /\ \A c \in Calls : WF_postCallVars(Work(c))

PostCallSpec == PostCallInit /\ [][PostCallNext]_postCallVars /\ PostCallFairness

-------------------------------------------------------------------------------
(* What the call history promises. *)

\* Types, and which states of a call and of its analysis go together.
PostCallTypeOK ==
    /\ kind \in Kinds /\ up \in BOOLEAN /\ era \in 1..MaxEras
    /\ stage \in [Calls -> {"none", "live", "ended", "lost"}]
    /\ made \in [Calls -> 0..MaxSaves] /\ owner \in [Calls -> 1..MaxEras]
    /\ index \in [Calls -> Records] /\ file \in [Calls -> Records]
    /\ rows \in [Calls -> Records] /\ acked \in [Calls -> Records]
    /\ link \in [Calls -> Contacts \cup {Nobody}]
    /\ torn \in BOOLEAN /\ tears \in 0..MaxTears
    /\ queue \in [1..MaxEras -> Seq(Calls)]
    /\ job \in [Calls -> {"none", "queued", "lost"} \cup Busy \cup Reported]
    /\ found \in [Calls -> Analyses] /\ latest \in [Calls -> Records]
    /\ \A c \in Calls : job[c] # "none" => stage[c] = "ended"

\* The record of a call that has ended is the last one the call loop made, unless
\* the disk refused a save: the store is never closed under a call that has yet to
\* write its end (autopilot.ts shutdown(): endCall, drain, then close).
RecordLands(c) == acked[c].v = made[c]
FinalRecordLands == \A c \in Calls : stage[c] = "ended" /\ c \notin refused => RecordLands(c)

\* That is so of every call in the log, and of a call that is in the table at all: no
\* call is left there without its end.  The call that FinalRecordLands misses is the
\* one a pass begins after its Autopilot was shut down: none of its saves gets in.
RecordIsWhole ==
    \A c \in Calls :
        stage[c] = "ended" /\ c \notin refused =>
            RecordLands(c) \/ (kind = "crm" /\ owner[c] < era /\ acked[c] = NoRecord)

\* A line cut off half-way costs at most one record that was saved: the one whose
\* line is written behind the stump.  Any other call is in the file as its last
\* save left it (callStore.ts, JsonlCallRecordStore).
TearsCostOneSave ==
    kind = "jsonl" => Cardinality({c \in Calls : file[c] # acked[c]}) <= tears

\* While the file is whole, a history read back from it misses nothing: a reload or
\* a restart shows the calls it showed before (the constructor's replay).
HistorySurvives ==
    [][kind = "jsonl" /\ tears' = 0 /\ up' /\ era' # era
          => \A c \in Calls : c \notin refused => index'[c].v >= index[c].v]_postCallVars

\* A call's recording is uploaded, and paid for, once, whatever is saved afterwards
\* and however often the Autopilot is replaced (autopilot.ts, the "call" listener).
PaidOnce == \A c \in Calls : uploads[c] <= 1

\* An analysis that was reported as kept is in the history of the Autopilot that
\* ran it.
AnalysisAttached ==
    \A c \in Calls : job[c] = "kept" /\ owner[c] = era => Stored(c).post = found[c]

\* In the log it is, and the save that attached it has taken nothing else from the
\* record (postCall.ts persist(): read back, then save).
LoggedAnalysisAttached ==
    kind = "jsonl" =>
        \A c \in Calls : job[c] = "kept" /\ owner[c] = era =>
            index[c] = [v |-> made[c], post |-> found[c]]

\* A save never moves a call from one contact to another: only the operator does
\* (store.ts upsertCall() and autoLinkCall()).
SaveKeepsLink ==
    [][acked' # acked => \A c \in Calls : link[c] # Nobody => link'[c] = link[c]]_postCallVars

\* Every queued call comes to a report while the process runs: a job that ends,
\* however it ends, moves the queue on (postCall.ts finished()).
EveryJobEnds ==
    \A c \in Calls : job[c] = "queued" ~> (job[c] \in Reported \cup {"lost"} \/ ~up)

\* The books of a call: its last record lands or none of them does, a torn line costs one save, its upload is paid once,
\* and an analysis reported as kept is in the log with the record it belongs to.
RecordsAreKept ==
    PostCallTypeOK /\ RecordIsWhole /\ TearsCostOneSave /\ PaidOnce /\ LoggedAnalysisAttached

\* Neither a reload or restart nor a save takes anything back: no record goes to an older state, and
\* no link to another contact.
HistoryOnlyGrows == HistorySurvives /\ SaveKeepsLink
=============================================================================
