----------------------------- MODULE RestClients ----------------------------
(***************************************************************************)
(* The REST clients of packages/aai-client: llmGateway.ts (chat),          *)
(* prerecorded.ts (upload, submit, poll) and voiceAgentAdmin.ts (the pages *)
(* of listAgents).  They share one way to send: a 429 is waited out for as *)
(* long as the server says, a few times; everything else that is not a     *)
(* success is the caller's.  One call of a client; time is counted from    *)
(* its start, and a timer fires when it is due.                            *)
(***************************************************************************)
EXTENDS Naturals, Sequences, FiniteSets, SequencesExt

CONSTANTS
    MaxRetries,     \* deps.maxRateLimitRetries
    ChatTimeout,    \* DEFAULT_CHAT_TIMEOUT_MS
    PollTimeout, PollInterval,  \* opts.timeoutMs, opts.intervalMs
    Waits,          \* what a Retry-After may ask for
    Cursors,        \* of listAgents()
    MaxPages,
    Terms       \* the values of a field of a stored agent

FirstPage == "first"    \* the page asked for without a cursor, as every caller begins

ASSUME RestAssumption ==
    /\ MaxRetries \in Nat /\ MaxPages \in Nat
    /\ ChatTimeout \in Nat \ {0} /\ PollTimeout \in Nat \ {0} /\ PollInterval \in Nat \ {0}
    /\ Waits \subseteq Nat \ {0}
    /\ FirstPage \notin Cursors

VARIABLES
    stage,      \* "idle", "chat", "upload", "submit", "poll", "list", and how it ended:
                \* "done", "failed", "aborted", "timeout"
    sending,    \* "ask", "asked" (the request is out), "wait" (a sleep), "no"
    attempt,    \* 429s waited out by this request
    clock,
    wakeAt,     \* the sleep's end
    expiresAt,  \* the end of the signal of this attempt (chat)
    abortable,  \* the caller gave a signal
    job,        \* the service: "none", "queued", "completed", "error"
    jobs,       \* the service: jobs created
    notBefore,  \* the service: what its last Retry-After asked for
    tooSoon,    \* a request was sent before that
    deadline,   \* of poll()
    pages,      \* listAgents(): the cursors asked for
    nextCursor,
    seen

restVars == <<stage, sending, attempt, clock, wakeAt, expiresAt, abortable, job, jobs, notBefore,
              tooSoon, deadline, pages, nextCursor, seen>>
sendVars == <<sending, attempt, wakeAt, expiresAt, notBefore, tooSoon>>
jobVars == <<job, jobs, deadline>>
pageVars == <<pages, nextCursor, seen>>

RestBusy == {"chat", "upload", "submit", "poll", "list"}
RestEnded == {"done", "failed", "aborted", "timeout"}

RestInit ==
    /\ stage = "idle" /\ sending = "no" /\ attempt = 0 /\ clock = 0 /\ wakeAt = 0 /\ expiresAt = 0
    /\ abortable \in BOOLEAN
    /\ job = "none" /\ jobs = 0 /\ notBefore = 0 /\ tooSoon = FALSE /\ deadline = 0
    /\ pages = <<>> /\ nextCursor = FirstPage /\ seen = {}

\* chat(), transcribe() of a file or of a URL, poll() of a job, listAgents().
StartCall(s) ==
    /\ stage = "idle"
    /\ s \in RestBusy
    /\ stage' = s /\ sending' = "ask"
    /\ job' = IF s = "poll" THEN "queued" ELSE job
    /\ deadline' = IF s = "poll" THEN PollTimeout ELSE deadline
    /\ UNCHANGED <<attempt, clock, wakeAt, expiresAt, abortable, jobs, notBefore, tooSoon, pageVars>>

\* The request goes out.  A chat's attempt has a signal of its own.
Ask ==
    /\ sending = "ask"
    /\ sending' = "asked"
    /\ tooSoon' = (tooSoon \/ clock < notBefore)
    /\ expiresAt' = IF stage = "chat" THEN clock + ChatTimeout ELSE expiresAt
    /\ pages' = IF stage = "list" /\ attempt = 0 THEN Append(pages, nextCursor) ELSE pages
    /\ UNCHANGED <<stage, attempt, clock, wakeAt, abortable, jobVars, notBefore, nextCursor, seen>>

\* The end of a call, however it ends.
EndCall(how) == stage' = how /\ sending' = "no"

\* 429: a wait as long as the server says, or the error is the caller's.  Without a
\* Retry-After the wait is the client's own.
Waiting(for) == wakeAt' = clock + for

Limited(for, said) ==
    /\ sending = "asked"
    /\ notBefore' = IF said THEN clock + for ELSE notBefore
    /\ IF attempt < MaxRetries
       THEN /\ attempt' = attempt + 1 /\ sending' = "wait" /\ Waiting(for)
            /\ UNCHANGED stage
       ELSE EndCall("failed") /\ UNCHANGED <<attempt, wakeAt>>
    /\ UNCHANGED <<clock, expiresAt, abortable, jobVars, tooSoon, pageVars>>

\* Another status, or a connection that breaks.  The service may have made the job
\* all the same.
Refuse_Again ==
    /\ sending' = "ask" /\ attempt' = attempt + 1 /\ UNCHANGED stage

Refuse == EndCall("failed") /\ UNCHANGED attempt

Failed(made) ==
    /\ sending = "asked"
    /\ made => stage = "submit"
    /\ Refuse
    /\ jobs' = IF made THEN jobs + 1 ELSE jobs
    /\ UNCHANGED <<clock, wakeAt, expiresAt, abortable, notBefore, tooSoon, job, deadline, pageVars>>

\* The next request of the same call: its own 429s are counted from nought.
NextRequest(s) == stage' = s /\ sending' = "ask" /\ attempt' = 0

Answered ==
    /\ sending = "asked" /\ stage \in {"chat", "upload", "submit"}
    /\ CASE stage = "chat" -> EndCall("done") /\ UNCHANGED <<attempt, jobVars>>
         [] stage = "upload" -> NextRequest("submit") /\ UNCHANGED jobVars
         [] stage = "submit" ->
               /\ NextRequest("poll")
               /\ job' = "queued" /\ jobs' = jobs + 1 /\ deadline' = clock + PollTimeout
    /\ UNCHANGED <<clock, wakeAt, expiresAt, abortable, notBefore, tooSoon, pageVars>>

\* The rest of poll() once it has read a job that is neither completed nor failed.
Unfinished ==
    IF clock >= deadline
    THEN EndCall("timeout") /\ UNCHANGED <<attempt, wakeAt>>
    ELSE /\ sending' = "wait" /\ wakeAt' = clock + PollInterval /\ attempt' = 0
         /\ UNCHANGED stage

Polled ==
    /\ sending = "asked" /\ stage = "poll"
    /\ CASE job = "completed" -> EndCall("done") /\ UNCHANGED <<attempt, wakeAt>>
         [] job = "error" -> EndCall("failed") /\ UNCHANGED <<attempt, wakeAt>>
         [] OTHER -> Unfinished
    /\ UNCHANGED <<clock, expiresAt, abortable, jobVars, notBefore, tooSoon, pageVars>>

\* A page of the list, and the cursor the server says comes after it ("" for none).
More(next) == next # "" /\ next \notin seen /\ Len(pages) < MaxPages

Listed(next) ==
    /\ sending = "asked" /\ stage = "list"
    /\ IF More(next)
       THEN NextRequest("list") /\ nextCursor' = next /\ seen' = seen \cup {next}
       ELSE EndCall("done") /\ UNCHANGED <<attempt, nextCursor, seen>>
    /\ UNCHANGED <<clock, wakeAt, expiresAt, abortable, jobVars, notBefore, tooSoon, pages>>

\* The sleep ends.  The signal is looked at before the next request.
Wake ==
    /\ sending = "wait" /\ clock >= wakeAt
    /\ sending' = "ask"
    /\ UNCHANGED <<stage, attempt, clock, wakeAt, expiresAt, abortable, jobVars, notBefore, tooSoon,
                   pageVars>>

\* A chat's signal fires, in the request or in the sleep after it.
Expires ==
    /\ stage = "chat" /\ sending \in {"asked", "wait"} /\ clock >= expiresAt

Expire ==
    /\ Expires
    /\ EndCall("aborted")
    /\ UNCHANGED <<attempt, clock, wakeAt, expiresAt, abortable, jobVars, notBefore, tooSoon, pageVars>>

\* The caller's signal does the same, at any time.
Abort ==
    /\ stage \in RestBusy /\ abortable
    /\ EndCall("aborted")
    /\ UNCHANGED <<attempt, clock, wakeAt, expiresAt, abortable, jobVars, notBefore, tooSoon, pageVars>>

\* The service works on the job.
Works(how) ==
    /\ job = "queued" /\ how \in {"completed", "error"}
    /\ job' = how
    /\ UNCHANGED <<stage, sending, attempt, clock, wakeAt, expiresAt, abortable, jobs, notBefore, tooSoon,
                   deadline, pageVars>>

\* Time passes while a request or a sleep is out, and no timer is due.
Passes ==
    /\ sending \in {"asked", "wait"}
    /\ sending = "wait" => clock < wakeAt
    /\ ~Expires
    /\ stage \in {"chat", "poll"}
    /\ stage = "poll" => clock < deadline
    /\ clock' = clock + 1
    /\ UNCHANGED <<stage, sendVars, abortable, jobVars, pageVars>>

\* A sleep past the deadline of poll() is slept to its end.
Oversleeps ==
    /\ sending = "wait" /\ stage # "chat" /\ clock < wakeAt
    /\ stage = "poll" => clock >= deadline
    /\ clock' = wakeAt
    /\ UNCHANGED <<stage, sendVars, abortable, jobVars, pageVars>>

RestNext ==
    \/ \E s \in RestBusy : StartCall(s)
    \/ Ask \/ Answered \/ Polled \/ Wake \/ Expire \/ Abort
    \/ \E for \in Waits, said \in BOOLEAN : Limited(for, said)
    \/ \E made \in BOOLEAN : Failed(made)
    \/ \E next \in Cursors \cup {""} : Listed(next)
    \/ \E how \in {"completed", "error"} : Works(how)
    \/ Passes \/ Oversleeps

RestSpec == RestInit /\ [][RestNext]_restVars

-----------------------------------------------------------------------------
(* voiceAgentAdmin.ts: how a definition of an agent, or a patch of one, goes  *)
(* over the wire.  The service replaces `input' and `output' as a whole, and  *)
(* a rate that is not the one it speaks is only noticed when a call is        *)
(* answered.                                                                  *)

ServiceRate == "24k"
Rates == {ServiceRate, "16k"}
Unset == "unset"
Sides == {"input", "output"}

\* A side of a definition: the rate, the rate by force, and everything else in it.
Side == [rate : Rates \cup {Unset}, unsafe : Rates \cup {Unset}, rest : Terms \cup {Unset}]

VARIABLES
    stored,     \* the agent of the service: per side the rate and the rest, and its tools
    lastCall,   \* "none", "ok", "threw"
    forced      \* the sides whose rate was set by unsafeSampleRate

agentVars == <<stored, lastCall, forced>>

EmptySide == [rate |-> Unset, rest |-> Unset]

StoredInit ==
    /\ stored = [exists |-> FALSE, input |-> EmptySide, output |-> EmptySide, tools |-> Unset]
    /\ lastCall = "none" /\ forced = {}

\* toWireFormat(): the rate by force, or a checked one, or the default.
Throws(side) == side.unsafe = Unset /\ side.rate \notin {Unset, ServiceRate}
WireFormat(side) ==
    IF side.unsafe # Unset THEN side.unsafe ELSE IF side.rate # Unset THEN side.rate ELSE ServiceRate

\* toWireInput() and toWireOutput(): the format is always in it.
WireSide(side) == [rate |-> WireFormat(side), rest |-> side.rest]

Forced(sides, def) ==
    {s \in sides : def[s].unsafe # Unset} \cup (forced \ sides)

\* createAgent(): both sides are always sent; no tools and an empty list are the same.
CreateAgent(def) ==
    /\ ~stored.exists
    /\ IF \E s \in Sides : Throws(def[s])
       THEN lastCall' = "threw" /\ UNCHANGED <<stored, forced>>
       ELSE /\ stored' = [exists |-> TRUE, input |-> WireSide(def["input"]),
                          output |-> WireSide(def["output"]),
                          tools |-> Unset]
            /\ forced' = Forced(Sides, def)
            /\ lastCall' = "ok"

\* updateAgent(): only the sides the patch has are sent, and the tools only if it has
\* some, an empty list included.
UpdateAgent(sides, def, tools) ==
    /\ stored.exists
    /\ IF \E s \in sides : Throws(def[s])
       THEN lastCall' = "threw" /\ UNCHANGED <<stored, forced>>
       ELSE /\ stored' = [stored EXCEPT
                            !.input = IF "input" \in sides THEN WireSide(def["input"]) ELSE @,
                            !.output = IF "output" \in sides THEN WireSide(def["output"]) ELSE @,
                            !.tools = IF tools = Unset THEN @ ELSE tools]
            /\ forced' = Forced(sides, def)
            /\ lastCall' = "ok"

DeleteAgent ==
    /\ stored.exists
    /\ stored' = [exists |-> FALSE, input |-> EmptySide, output |-> EmptySide, tools |-> Unset]
    /\ lastCall' = "ok" /\ forced' = {}

StoredNext ==
    \/ \E i, o \in Side : CreateAgent([input |-> i, output |-> o])
    \/ \E i, o \in Side, sides \in SUBSET Sides, tools \in Terms \cup {Unset} :
          UpdateAgent(sides, [input |-> i, output |-> o], tools)
    \/ DeleteAgent

StoredSpec == StoredInit /\ [][StoredNext]_agentVars

-----------------------------------------------------------------------------
RestTypeOK ==
    /\ stage \in RestBusy \cup RestEnded \cup {"idle"}
    /\ sending \in {"ask", "asked", "wait", "no"}
    /\ attempt \in 0..MaxRetries
    /\ (sending = "no") = (stage \in RestEnded \cup {"idle"})

\* A server that says when to come again is not asked before that
\* (prerecorded.ts send(): "authoritative ... reused verbatim").
ServerIsObeyed == ~tooSoon

\* Whatever goes wrong on the way, one transcribe() makes at most one job to be paid for:
\* a POST whose answer is lost is not repeated.
OneJob == jobs <= 1

\* poll() gives up only on a job it has seen unfinished at or after its deadline, and
\* reports a transcript only of a job that was completed.
PollIsHonest ==
    /\ stage = "timeout" => clock >= deadline
    /\ stage = "done" /\ deadline > 0 => job = "completed"

\* A chat is out for at most the timeouts of its attempts (llmGateway.ts:99-100 promise one
\* timeout for the whole call).
ChatBounded == stage = "chat" => clock <= (MaxRetries + 1) * ChatTimeout

\* The promise itself: "Hard bound on one chat call".
ChatWithinTimeout == stage = "chat" => clock <= ChatTimeout

\* No page of the list is asked for twice, whatever cursors the server hands out.
PagesOnce == IsInjective(pages)

\* A chat ends though the gateway never answers; a poll of a service that answers ends
\* though the job never does.
ChatSettles == stage = "chat" ~> stage # "chat"
PollSettles == stage = "poll" ~> stage # "poll"

\* What a request promises holds over its retries: not sooner than the server said, one job, no
\* verdict the service did not give, no page twice, a bound on what a chat takes.
RequestsAreHonest ==
    RestTypeOK /\ ServerIsObeyed /\ OneJob /\ PollIsHonest /\ ChatBounded /\ PagesOnce

\* Whatever sequence of definitions and patches an agent is made of, it speaks at the one
\* rate that starts a session, unless unsafeSampleRate was used on that side last
\* (voiceAgentAdmin.ts toWirePatch(): "the failure only shows up at the next session start").
RateKept ==
    stored.exists => \A s \in Sides \ forced : stored[s].rate = ServiceRate
=============================================================================
