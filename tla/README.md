# NeuraCall, specified

TLA+ modules, TLC configurations and TLAPS proofs for NeuraCall: a desktop
application that watches a pool of Android phones over adb, answers their calls,
transcribes them through AssemblyAI's streaming service, answers the callers with
a language model or with a Voice Agent, answers WhatsApp texts with the same agent,
and keeps the records. Paths below are relative to `src/`; `manager.ts:119` is a line
of the source as it was modelled.

1. [Inventory](#1-inventory): the parts of the system, and what makes each correct
2. [The modules](#2-the-modules): which models what, and how
3. [The runs](#3-the-runs): what TLC checks, within which bounds, under which fairness
4. [Where the code departs from its own words](#4-where-the-code-departs-from-its-own-words)
5. [The proofs](#5-the-proofs)
6. [What is left out](#6-what-is-left-out)
7. [Further hazards, and the plan](#7-further-hazards-and-the-plan)

Everything the main process does happens on one thread of JavaScript. There is no
preemption, so the hard behaviour of this system sits in its `await`s: what a
piece of code read before one may no longer be true after it, several pieces wait
at the same time, and the world (a phone, a socket, a process, a caller, a disk)
moves meanwhile. All modules take a job of the event loop, from one await to the
next, as one action.


## 1. Inventory

### How the parts interact

    phones --adb--> DeviceManager ---------> Orchestrator.poll()
                        ^    ^                    |  one call per phone
          Runtime ------+    +--- phases ---------+
       (telephony poll,                           |
        dialer, Listen,                           v
        settings, reload)      sessions.open/close   runCall ... teardown
    RealtimeSessionManager <----------------- |   |  \
      (or VoiceAgentBridge)                   |   |   +--> capture, recorder, injector
          |  turns, stream closes             |   +------> agent (LLM), speech
          +--------> handleTurn chain --------+--> call store --> post-call analysis
    Watchdog --endCall()--> Orchestrator,  --close()--> RealtimeSessionManager

- The **Runtime** (`apps/desktop/electron/service/runtime.ts`) owns everything. It
  refreshes the device list every 5 s, reads telephony state every 2 s, and creates
  and replaces the **Autopilot** (`autopilot.ts`), which wires an Orchestrator, a
  Watchdog, the agent, the stores and the operator endpoint together.
- The **Orchestrator** polls the pool for ringing phones and runs one call per
  phone. It shares with the Runtime the phase of a device record, and with the
  operator's Listen button the session keys of the session manager.
- The **session manager** parks callers of `open()` behind a bound on sessions, and
  tells the call loop by callback when a turn is final or a stream closes.
- The **Voice Agent bridge** replaces session manager, agent and speech for calls
  that use it, behind the same interfaces.
- The **Watchdog** reads the calls and the sessions and acts on both.
- The **text service** answers WhatsApp messages with the agent of the calls. It is
  built and replaced with the Autopilot, on a save of the settings.
- The **window** talks to all of this through the handlers of `main.ts`.

### The parts, their state and what makes them correct

| part | source | state and operations | what is hard | correct when |
|---|---|---|---|---|
| Realtime session manager | `aai-client/src/manager.ts` | map from key to session, FIFO of parked callers and a counter of them; `open`, `close`, `closeAll`, the close listener | check-then-act around awaits; a failed handshake releases twice; a late close event after the key was taken again | nobody is parked with no release to come; a session is told `Terminate` before its socket is closed; the map does not answer for the dead; everyone who waits is answered |
| Realtime stream | `aai-client/src/realtime.ts` | socket, state, what was told; `connect`, `close`, messages, close codes | close during the handshake; the `Termination` races the 8 s timer and the socket's close | every end is told once, with the code it had; every promise settles |
| Voice Agent session | `aai-client/src/voiceAgent.ts` | socket per connection, handshake promise, waiting closes | refusals, timeouts, closes and failures in any order | no socket is left open behind the session's back; `close` is said once, and the socket is not heard of behind it |
| Reconnect policy | `aai-client/src/backoff.ts` | close code, attempt, Retry-After in; retry or not and a delay out | caps, floors, jitter at their boundaries | waiting is bounded; no hot loop |
| REST clients | `aai-client/src/prerecorded.ts`, `llmGateway.ts`, `voiceAgentAdmin.ts`, `token.ts` | a request, its retries, a job, a cursor, a stored agent | 429 against deadlines; a POST whose answer is lost; a patch replaces a field whole | the server's wait is kept; one job per recording; no verdict the service did not give |
| Speech and LLM client | `agent/src/tts.ts`, `ttsProviders.ts`, `llm.ts` | the voice chosen; an utterance, its process, its directory | interruption at any step; keys of two vendors | a key goes only where its owner sent it; nothing outlives its utterance |
| Orchestrator | `orchestrator/src/orchestrator.ts`, `stateMachine.ts` | one `ActiveCall` per device, the poll timer; `poll`, `runCall`, `handleTurn`, hang-up watch, `endCall`, `drain`, `teardown` | overlapping polls; set-up failing at any await; end requests while set-up waits; turns and probes that finish after teardown | one call per phone along the life cycle; nothing a call started outlives it; a call that should end ends |
| Watchdog | `orchestrator/src/watchdog.ts` | age and last sign of life per call, those asked to end; the sweep | asks once only; sleeps while a close is pending | a call given up is really ending; a stray session is not billed on |
| Device pool, telephony poll | `device-manager/src/deviceManager.ts`, `runtime.ts` | a record per phone, the last reading; `refresh`, `pollCallStates`, `setPhase` | listings overlap and are applied out of order; a pass works from a snapshot; four writers of one phase | records settle on what adb lists; a ring is shown |
| Voice Agent bridge | `orchestrator/src/voiceAgentBridge.ts` | per call: socket, greeting slot, reply queue, waiters, turns counted | replies carry no reference; late, missing, cut off; the caller talks into the greeting | no reply is lost, doubled or out of order; nobody waits for ever |
| Agent and conversations | `agent/src/agent.ts`, `conversation.ts` | a controller per line, a window of messages, an evicting store | a newer turn supersedes an older; voice and text share the history | only the newest turn is heard; an answer stands under its question |
| WhatsApp text | `whatsapp/src/*`, `whatsappText.ts` | remembered ids, a chain per customer, a listener | redelivery, late binds, stop during replies, rebuild | a message is answered at most once, in order; stopped is quiet |
| Audio in | `audio-pipeline/src/pipeline.ts`, `vad.ts`, `resample.ts`, `dualStream.ts` | detector, chunk buffer, filter phase | chunks cut anywhere, even in a sample; a format that changes | cuts do not show in what the resampler makes, and cost the pipeline little; utterances pair |
| Audio out | `dualStream.ts`, `orchestrator/src/audioInjector.ts` | generations, a player process | barge-in between synthesis and playback; the exit of a cancelled player after the next has started | a cancelled utterance is not heard; one player at a time |
| Recorder | `audio-pipeline/src/recorder.ts` | buffer, sizes, file | a crash or a full disk between samples and header | the file is a recording at every moment |
| Capture | `scrcpy-bridge/src/*`, `orchestrator/src/scrcpyCapture.ts`, `capture.ts` | a process and a pipe per source tried | silence, failure, exits and late bytes of the one before | one source runs, the one asked for; every process ends |
| Call records, CRM | `orchestrator/src/callStore.ts`, `crm/src/store.ts`, `phone.ts` | index and append-only log, or SQL rows and the link to a contact | torn lines, full disks, replay; two spellings of one number | what was acknowledged is there after a restart; one card per number |
| Post-call analysis | `orchestrator/src/postCall.ts` | a bounded queue, a job per call | a write-back after a paid upload; replacement and shutdown | paid once; every job ends; no record goes back in time |
| Autopilot, Runtime | `autopilot.ts`, `runtime.ts` | the Autopilot in use, the text service, the reloads under way, Listen sessions | reload and shutdown around awaits; clicks in between | one answers; new settings reach all; records land; a save ends |
| Contacts page | `ContactsPage.tsx`, `main.ts`, `crm/src/store.ts` | the lists shown, the contact picked, requests under way; refresh, add, pick, dial | the call loop writes between two requests; an answer to what is no longer wanted; a write that fails half-way | what is shown was never wrong; what was added is shown; nothing waits for ever |
| Metrics, health | `orchestrator/src/metrics.ts`, `health.ts` | counters, one endpoint for all Autopilots | transition and record are two events; a server that comes up late | counts add up; the endpoint is the current one's |
| Settings, agents of phones | `config/src/*`, `settings.ts`, `voipAgents.ts`, `main.ts`, `SettingsPage.tsx` | three layers, a file, an AppConfig changed in place, a form; an agent at four places | "", null and missing; crashes; a form over changing settings; half-done requests | a restart keeps what was saved; an untouched form changes nothing; the places agree |
| Call detection | `whatsAppDetector.ts`, `ocrStageDetector.ts`, `screen.ts`, `uiDump.ts` | a probe of four readings, a line of dumps | the call changes under the probe; dumps kill each other | no phantom call, none missed; one dump at a time |
| VoIP answer, dial, hang-up | `voipAnswerer.ts`, `voipDialer.ts`, `voipHangup.ts` | the screen, the control that is tapped | which control, and what lies under the tap | the answering tap never rejects; every job ends |
| adb, devices file | `device-manager/src/adb.ts`, `devicesFile.ts` | none; a configuration file | process execution | not modelled |
| scrcpy and tool detection | `scrcpy-bridge/src/detect.ts` | none | version parsing | not modelled |
| Harness, scripts | `packages/e2e`, `scripts` | test doubles | - | not modelled |

`PROJECT.json` lists the same parts with their status and, under `hazards`, what is
hardest to test in this code, each at its line, with the properties that would catch it
going wrong. Section 7 has the others.


## 2. The modules

| question | modules | composed by |
|---|---|---|
| clients of remote services | `SessionManager`, `RealtimeStream`, `VoiceAgentSession`, `RetryPolicy`, `RestClients`, `Speech`, `Clients_proofs` | `MCClients` |
| a call and what is kept of it | `CallLifecycle` (abstract), `Orchestrator`, `Orchestrator_proofs`, `CallRecords`, `PostCall`, `Call_proofs` | `MCCall` |
| the watchdog over the call loop | `Watchdog`, `Watchdog_proofs` | - |
| the pool of phones | `DevicePool`, `DevicePool_proofs` | - |
| the media of a conversation | `VoiceAgentBridge`, `AgentTurns`, `TextBridge`, `Resampler`, `VoiceActivity`, `Recorder`, `Capture`, `WavStream`, `Playback`, `Media_proofs` | `MCMedia` |
| the desktop program | `SettingsStore`, `SettingsForm`, `PhoneAgents`, `AppRuntime`, `ManualListen`, `Metrics`, `AddressBook`, `Desktop_proofs` | `MCDesktop` |
| one phone over adb | `CallDetection`, `UiDump`, `VoipControl`, `PhoneNumbers`, `Phone_proofs` | `MCPhone` |

`Watchdog` is a real composition: it extends the whole call loop and acts on it.
`TextBridge` likewise drives `AgentTurns`, and `PostCall` works on `CallRecords`. The
modules an `MC` module puts side by side share no state. Its variable `part` says which
one a behaviour is about, and the others stand still in a fixed initial state; so one
run checks each of them separately, and the states of the run are the sum, not the
product, of theirs. That initial state enables no action which the part's fairness
assumes (a page is not mounted yet, a job not begun): otherwise no behaviour of the
other parts would be fair, and their liveness would hold for want of behaviours. Where
two components do share state in the code, the module of each has the other as an
environment that may do at any moment what it can do (the telephony poll in
`Orchestrator`, the call loop in `DevicePool`, `RuntimeNext`'s calls in `AppRuntime`).

An operator whose name has an underscore suffix (`Overdue_StallOnly`,
`StopCapture_SkipTerminate`) is a deliberately wrong variant of the definition it
stands before. None takes part in a specification: each exists to be put in the
place of the right one, to see that the property named for it in `PROJECT.json`
notices.

### SessionManager

One element of `Opens` is one call of `open()`. A call creates at most one stream,
so it also names the stream, its socket and its `ManagedSession`. `sessions` is the
map, `queue` and `queued` are the waiters and the counter beside them (the code
counts a granted waiter down twice and clamps at zero; so does the model).

- `pc[o]` is the await `open()` stands at: `queued` in `acquireSlot`, `granted`
  when its waiter was called and its continuation has not run, `minting` in the
  token request, `connecting` in `stream.connect()`, `rejected` when the `catch`
  is due.
- Continuations are microtasks: while one is due, no socket event and no timer is
  taken (`NoMicrotask`). Calls of `open` and `close` are not held back, since they
  may be made in a microtask too.
- `ReleaseSlot` is `releaseSlot` with `drainQueue`, and every place that runs it
  runs it here: the catch, the teardown of a close, the stream's close listener.
  A handshake that fails reaches two of them, as in the code.
- `waiting` and `closing` count `close()` calls per stream: those that await
  `Termination` and those whose wait is over and whose continuation is due. Each
  has its own 8 s timer (`TerminationTimeout`).
- `TempToken` chooses the auth mode. With a token there is one more await between
  the duplicate checks, which changes what can interleave.

### The other clients

- **RealtimeStream** is one stream by itself, with what `SessionManager` abstracts:
  the messages, the close codes and the errors they are told as, the correction
  of the chunk size after 3007, the listeners of the socket. `told` is everything
  its owner has heard, in order, so that what was said can be held against what
  happened (`StreamIsHonest`). A socket that the service leaves is CLOSING (`PeerLeaves`)
  before its end is told; until then the stream's own state is the last one it had.
- **VoiceAgentSession** numbers connections; socket `n` belongs to connection `n`. A
  session object may be connected again, which is what makes the events of an old
  socket dangerous. `Reconnecting` allows that while a `close()` still waits; the
  program never does it, and the run leaves it out (see section 4).
- **RestClients** is one call of one client. Time is a small counter from the start
  of the call; the service is free to answer, refuse with a wait, or lose an answer
  after it did the work. `jobs` counts what it would bill. The second half is an
  agent stored at the service, made by any sequence of definitions and patches;
  a patch replaces a field as a whole, which is why the client has to send the rate
  again with it.
- **RetryPolicy** asks the policy after each of a series of failures, for every close
  code of the table.
- **Speech** chooses a voice for every configuration, environment and machine, then
  makes one utterance by a request or by a local engine with its file and
  directory.

### Orchestrator and CallLifecycle

`call[d]` is the `ActiveCall` of device `d`; `at` is the await the call's own thread
of control stands at:

    answering -> opening -> starting -> greeting -> live
        \            \          \          \         \
         +------------+----------+----------+---------+--> draining -> closingAudio
                    -> terminating -> hangingUp -> notifying -> none

`Answer`, `OpenSession`, `StartCapture`, `Greet` and `Finish` are what runs when each
await settles, one way or the other; every one of them may throw, and what is
torn down then is what the code's teardown finds. Beside that thread run polls
(`PollAsks`, `PollResumes`: between the two another pass may take the phone), turns
(`TurnArrives` puts one on the chain, `HandleTurn` and `AgentReplies` are the two
halves of it around the model's answer), hang-up probes, which do not wait for each
other and outlive the timer (`ProbeLine`, `ProbeAnswers`), stream closes, end
requests and `drain()`. The world rings and drops the line, the operator listens
in, and `PhasePolled` stands for the telephony poll, whose full model is
`DevicePool`.

`finished` is the promise the call loop waits on when it is live. An end request
resolves it at any time; set-up looks at it only when it gets there, and the model
keeps that.

`CallLifecycle` says what remains when all that is hidden: each device goes through
`incoming`, `answered`, `talking` and `ended` along the table of `stateMachine.ts`,
and a session is billed for it only from answer to end. The mapping in
`Orchestrator` reads the machine state and "the session key is held by the
call" off the detailed state.

### CallRecords and PostCall

A record is its version, one more with every save, and what the analysis attached
to it; versions are enough to see one go back. `kind` chooses the store: the log
with its index (`index` in memory, `file` on disk, `torn` when the file ends in the
middle of a line) or the table with the link to a contact. The disk may be full, an
append may be cut off, the process may die and come back, and an Autopilot may give
way to the next (`era`), which opens a store of its own; a call that a pass left behind
there begins afterwards finds the table closed. `PostCall` runs on both
stores: the queue, the upload that is paid, the summary, and `persist()`, which reads
the record, changes it and writes it in two awaits.

### Watchdog

Extends `Orchestrator` with `age`, `ended`, `closing` and the timer. `Seen(step)` is
a step of the call loop as the watchdog's callbacks record it. Time is abstract:
`Elapse` may at any moment make a call `stalled` or `overrun`, so no choice of
`maxCallMs` and `stallMs` is built in. `Sweep` is one synchronous pass of judgment;
the closes it begins settle one by one (`Swept`), and no sweep starts before the
last has.

### DevicePool

`attached`, `line` and `adbUp` are the world; everything else is the program's. Each
slot of `listings` is one `adb devices` in flight: `List` samples the answer (or the
failure), `Reconcile` and `MarkAllOffline` apply it, in any order of slots.
`pollCallStates()` is `PollBegins` (which copies the records), then for every
phone of the copy `Read`, `Apply` or `Skip`; the comparisons use the copied phase,
as the code does. `Dial`, `Detect`, `Answer` and `HangUp` decide on a phase before
an await, `WritePhase` writes it after.

Abstractions: `unauthorized` counts as `offline`; an answer of adb is fixed when it
is sampled; at most one command works on a phone at a time; the order of phones
in a pass is arbitrary (the code's is insertion order).

### VoiceAgentBridge

The service's replies carry no reference to a turn. The model numbers them: reply
`n` answers turn `n`, reply 0 is the greeting, and the bridge cannot see the
number. What the bridge hands out can then be compared with what belongs together.
The service is free: it may skip a turn, start and finish a reply at any moment, be
cut off, fall silent, close. `TakeReply` runs under the orchestrator's chain of
turns (`work`), one turn at a time; `Close` and `SocketCloses` release all waiters.

### The agent and the texts

- **AgentTurns** is `LlmCallAgent` with its conversations: a turn asks the model, then
  the synthesizer, and may be superseded at either await. In its own part of the run
  it is asked at any time, as its interface allows.
- **TextBridge** puts the text service before it. A turn of the agent is the message it
  answers; a sender posts a message again whenever it likes, ids are pushed out of a
  memory of `MaxSeen`, the bind of the listener may come after `stop()` was called,
  and a service may be built while its predecessor drains.

### The stages of the audio

Bytes and samples are named by their place in the stream, so that loss, doubling and
misalignment are visible and values do not matter.

- **Resampler**: an output sample is the pair of its neighbours and the fraction
  between them. `Whole` converts the stream at once; the chunked conversion is
  compared with it at every step, over cuts in the middle of a sample, flushes and
  resets.
- **VoiceActivity**: buffers of any size are pushed; `Normalized` says how many samples
  `normalize()` makes of each by itself, dropping what is no whole sample and rounding the
  rest, so cuts do show here, and `CutsCostLittle` says how much. The samples are counted
  into frames, and a frame is loud or not. The chunks as their reader sees them, which are
  changed after they were sent when an utterance ends, are compared with what the detector
  has judged. `RemoteInStream` has a pipeline for each format it is told of.
- **WavStream**: one symbol per header field, cut anywhere, among them streams with
  junk before `RIFF`, an unknown chunk, no `fmt`, and sizes out of range.
- **Recorder**: what is on disk after every write, what the header says of it, and
  a crash or a full disk at any point in between.
- **Capture**: the sources of one call, each with a process, a pipe and a bridge,
  all writing to the one sink of the call.
- **Playback**: generations and estimated playing time of `LocalOutStream` over the
  player processes of the injector; `queued` is what each player still has to play.

### The desktop program

- **SettingsStore**: a field is the kind of its validator; the values are the ones that
  kinds tell apart (default, another good one, blank, spaces, null, out of range,
  not of the type). Three layers, patches, the atomic rename with a crash at any
  point, a file damaged by hand, the AppConfig changed in place.
- **SettingsForm**: versions of the settings, the requests and messages between page and
  main process, and a form over them. A change is stored (`StoreChange`) before the
  runtime reloads; then it is announced (`Announce`) or the reload has failed
  (`ReloadFails`), which the page learns as an error (`unsaid`). Any number of requests may
  be under way, since typing turns Save on again and Reset is never off.
- **PhoneAgents**: saving and deleting a phone's agent walk through service, file,
  Autopilot and page, and every step may fail after the one before. `task` has a request
  for each of `Clicks`, which may overlap: the card's buttons come back with the next
  keystroke or choice of a phone. `behind` is what a failed reload has left behind the
  file, `flawed` what has gone wrong for good.
- **AppRuntime**: Autopilots are numbered in the order they are built, saves by the version
  they bring in. A save stops the text service, waits, swaps it and takes the Autopilot out
  of use, waits for its teardown, and builds the next, which may throw (`at = "failed"`).
  Saves overlap: of two that wait for the text service, the first starts one that the
  second forgets (`leftover`). `shutdown()` drains and then closes the store, and the process
  exits. The window's clicks come in between.
- **ManualListen**: the channels of one phone, the capture that feeds one of them, the
  set of protected keys, and the sweep.
- **Metrics**: the counters of every Autopilot from the events of its calls, and the
  server each of them starts on the one port.
- **AddressBook**: the Contacts page over the tables of the CRM. `wire` is the line of its
  requests, each served in one job (`Serve`, `ServeFails`, `CreateContact`) and heard in
  the order asked (`Hear`), while the call loop writes calls and links them (`SaveRing`).
  `half` is the first answer of a refresh, which waits for the second. Beside it, the
  calls placed from the page while phones come and go.

### One phone over adb

- **CallDetection**: the four readings of a probe one after the other while the call
  changes, on every kind of build (a mode field, a log of mode changes, only an
  owner), with readings that go unanswered. `seen` collects what the phone has been
  through since the probe began, which is what its verdict is held against.
- **UiDump**: three readers, one dump tool per phone that kills a second one of itself,
  retries, dumps that run on after adb gave them up.
- **VoipControl**: a label is the set of things its words are a sign of; the choice of the
  control to tap over every layout of two buttons in a row, each with a shown label
  and an id; and the job around it, from `BeginJob` over wake, keyguard and reading to the
  tap, for answering, dialling and hanging up. What a tap hits is settled when the screen
  is read: a layout that changes before the tap, or a keyguard that comes back, is left out.
- **PhoneNumbers**: every spelling of one subscriber's number with and without a
  configured country code.


## 3. The runs

Run one with `tlc -config X.cfg M` in this directory. State counts are distinct
states; times are on two workers. The `MC` modules' properties are conjunctions, each
about one kind of promise; the table after this one says what their conjuncts are.

| run | module, configuration | states | result |
|---|---|---|---|
| `sessions` | `MCClients`, `Clients.cfg` | 302,452 (2 min) | holds |
| `call` | `MCCall`, `Call.cfg` | 434,397 (2.5 min) | holds |
| `watchdog` | `Watchdog`, `Watchdog.cfg` | 397,512 (1 min) | holds |
| `pool` | `DevicePool`, `DevicePool.cfg` | 740,224 (2.5 min) | holds |
| `media` | `MCMedia`, `Media.cfg` | 276,633 (2 min) | holds |
| `desktop` | `MCDesktop`, `Desktop.cfg` | 525,269 (3.5 min) | holds |
| `phone` | `MCPhone`, `Phone.cfg` | 378,152 (1.5 min) | holds |
| `session_reach` | `SessionManager`, `SessionManager_reach.cfg` | - | `LiveStreamReachable` violated |
| `call_attach` | `MCCall`, `Call_attach.cfg` | - | `AnalysisAttached` violated |
| `pool_idle` | `DevicePool`, `DevicePool_idle.cfg` | - | `IdlePhoneBackInPool` violated |
| `media_fallback` | `MCMedia`, `Media_fallback.cfg` | - | `FallbackIsHeard` violated |
| `desktop_reload` | `MCDesktop`, `Desktop_reload.cfg` | - | `ReloadDropsNoCaller` violated |

### What the passing runs show

Sessions and clients:

- `NoStrandedCaller`, `QueueMatchesCalls`: while anyone is parked a release is still
  to come, and the queue holds exactly the parked callers. The double releases of the
  code let callers in too early (section 4), never too late.
- `EntriesAreLive`: the map answers for a dead stream only while the job that removes it
  is due (`NoDeadEntry`), and a failed `open()` leaves nothing in it
  (`FailedOpenLeavesNoEntry`).
- `TerminateBeforeClose`: no open socket is closed without `Terminate`.
- `NobodyIsKeptWaiting`: every `close()` returns though the server never answers
  (`CloseReturns`), and every `open()` settles as long as calls end (`OpenSettles`).
- `SessionsEndOnce`: a Voice Agent socket is never left open behind its session's back
  (`NoOrphanSocket`); its end is said once, and behind it nothing but the warning of a
  `close()` that another one has overtaken (`CloseEndsTheTale`); a stream says
  only what happened, its end included, ended with `Terminate` if it was closed, and
  sizes its chunks legally to a byte (`StateIsTrue`, `EndIsTold`, `FatalIsTold`,
  `ClosedWithTerminate`, `ChunkIsLegalToAByte`).
- `RequestsAreHonest`: a server's wait is kept (`ServerIsObeyed`), one transcription
  makes one job (`OneJob`), a poll reports what the service said and gives up only
  after its deadline (`PollIsHonest`), a chat is bounded (`ChatBounded`), no page is
  asked for twice (`PagesOnce`).
- `PoliciesHold`: `WaitingIsBounded`, `NeverHot`, and whatever definitions and patches
  made it, a stored agent speaks at the rate that starts a session (`RateKept`).
- `SpeechIsSafe`: `KeyStaysHome`, `EngineCanSpeak`, `NothingLeft`.
- `ClientsSettle`: every promise of every client settles though its service is silent
  (`ConnectSettles`, `EndingEnds`, `StreamSettles`, `ChatSettles`, `PollSettles`,
  `UtteranceEnds`); an interrupted reply is not spoken (`NeverTalksOver`).

Calls and records:

- `ImplementsLifecycle`: the call loop implements `CallLifecycle`.
- `EndedCallHoldsNothing`, `MissedMeansUnanswered`, `NothingSaidAfterEnd`: an ended call
  holds no capture, recorder, timer or open stream, wherever its set-up threw; a missed
  call was not answered; turns still under way add nothing to the transcript of an
  ended call.
- `CallsEnd`: a call asked to end ends (`EndIsHonoured`), and a far end that is gone is
  noticed though single probes fail (`HangUpNoticed`).
- `RecordsAreKept`: the last record of a call lands unless the disk refused it, or its
  Autopilot had closed the table before the first one and none lands (`RecordIsWhole`); a torn line costs one save (`TearsCostOneSave`); an upload is
  paid once (`PaidOnce`); in the log, an analysis reported as kept is there and took
  nothing else with it (`LoggedAnalysisAttached`).
- `HistoryOnlyGrows`: neither a reload nor a restart takes anything back
  (`HistorySurvives`), and no save moves a call to another contact (`SaveKeepsLink`).
- `EveryJobEnds`: every queued analysis comes to a report.
- `AskedMeansEnding`, `NothingBillsForEver` (in `watchdog`): a call the watchdog has
  given up is one that is being ended, which is why asking once is enough; an overrun
  call is over in the end, unless its `sessions.open()` never settles, and then it has been
  asked to end (`OverrunEndsOrHangs`); a session without a call is closed once its
  phone is at rest (`StraySessionCloses`).
- `RecordsSettle` (in `pool`): whatever listings overlap or fail, records settle on what
  adb lists (`AdbSettles`), readings on the line (`LineSettles`), and a cellular ring on
  a phone at rest is shown unless the ring, the phone or adb goes first
  (`RingReachesThePool`).

Media:

- `EveryReplyIsKept`, `NobodyWaitsBesideAReply`, `RepliesStayInOrder`,
  `NobodyWaitsForEver`: every finished reply of the service is in one place, nobody waits
  beside a parked one, they keep their order whatever timeouts and skipped turns have
  shifted, and neither set-up (`SetUpGoesOn`) nor a turn (`TurnsAreSettled`) waits for
  ever.
- `AnswersFit`: of several turns on one line only the newest can be heard (`OneLiveTurn`),
  and what stands under a turn's question is its answer (`AnswersFitQuestions`); texts that
  are only noted on the line may stand between the two.
- `TextsAreAnswered`: `AnsweredOnce`, `RepliesInOrder`, `NoTextSuperseded`,
  `StoppedIsQuiet`.
- `SoundIsWhole`: however bytes are cut, the WAV parser and the resampler before a Voice
  Agent make the same of them, and no buffer overflows (`CutsDoNotShow`,
  `ChunksDoNotShow`, `BuffersSuffice`). The pipeline before speech recognition does not:
  it converts each buffer by itself. What holds of it is that a buffer is never off by a
  whole sample of the source and half a sample of the target (`CutsCostLittle`), that every
  sample it became is in a frame or waits for one (`NoSampleIsLost`), and that the
  utterances are those of the frames, however these fell into buffers and chunks
  (`DetectorRemembers`, `UtterancesPair`, `SilenceEndsIt`).
- `RecordingIsWhole`: the file can be played at every moment, crashes included
  (`AlwaysPlayable`); a call recorded without a failure is recorded whole
  (`RecordedWhole`); a recording that breaks does not cost the call its ears
  (`HearingSurvives`).
- `OneSourceOnePlayer`: `OnlyOneRuns`, `PinIsKept`, `OnePlayer`, `NothingStaleIsHeard`.
- `MediaGoesOn`: capture comes up or gives up (`CaptureSettles`), processes and players go
  (`ProcessesGo`, `PlayersGo`), a recording only grows (`OnlyGrows`), an accepted text is
  dealt with (`AcceptedIsSettled`).

Desktop and phone:

- `SettingsAreKept`: `RestartKeeps`, `SavedIsDurable`, `TuningNeverCostsTheLayer`,
  `InPlaceIsFresh` for the layers and the file; `DriftIsSaid`, `QuietFormIsCurrent`,
  `UntouchedFormIsIdentity` for the page. At rest the page shows what is stored, in whatever
  order changes were stored, reloaded and answered, unless the last of it was a reload that
  failed.
- `RuntimeAgrees`: one Autopilot answers (`OneAnswers`), with the settings in force, as the
  texts do, which are answered on unless two saves have waited for their service at once
  (`NewSettingsReachAll`); records land at a shutdown (`RecordsLand`); Autopilot and page have
  the agent of the file where no reload has failed, and the service has just that one where
  requests came one by one (`PlacesAgree`); the counters add up (`CountsAddUp`) and
  the endpoint is the current Autopilot's, or of one that came up too late to be closed
  (`EndpointIsCurrent`); a contact that was added
  is shown (`AddedIsShown`), nothing on the Contacts page was never so (`ShownIsTrue`), the
  calls on it are of the contact picked last (`CallsArrive`), and "Dialling" is said only
  while it is so (`DialIsReported`).
- `DesktopGoesOn`: saves end (`SavesEnd`) and leave an Autopilot answering that was, unless
  the next cannot be built (`AnsweringGoesOn`); an idle Listen session is swept
  (`IdleListenSwept`); no call is turned away for an agent that is gone, where requests came
  one by one and the reload was not refused (`NoAgentIsRefused`); the Contacts page comes up
  and its form works again, whatever the database does (`PageSettles`).
- `DetectionIsRight`: `NoPhantomCall`, `CallIsSeen`, `RingingIsSeenRinging`.
- `ScreensAreHandled`: `OneDumpAtATime`, `ReadsItsOwn`, `DumpNeverRejects`,
  `NoTapIntoKeyguard`.
- `NumbersMeet`: `EverySpellingMeets`, `SuffixMeets`, `DialsTheCard`.
- `PhoneGoesOn`: `EndIsNoticed`, `LineMovesOn`, `AnswerableIsAnswered`, `JobEnds`.

### Bounds, and why they are enough

- **Sessions**: three `open()` calls on two keys and one slot, with a token request:
  what the race of two callers on one key needs, with a third to be stranded if a slot
  were lost.
- **Voice Agent session**: two connections of one object, two `close()` calls.
  **Stream**: three sample rates, at one of which a chunk is an odd number of bytes, two
  closes, three messages.
- **REST**: two retries of a 429, a server that asks for less or for more than the
  deadlines; three pages with a cursor that repeats. **Retry**: three attempts, a delay
  that reaches its cap, and a Retry-After below and above it.
- **Calls**: one phone. Two phones share only the bound on sessions, which is
  `SessionManager`'s subject; nothing in the call loop reads another phone's call.
  `MaxPolls = 2` is two polls waiting on one detection; `MaxLines = 2` is a turn
  chained behind a turn that is being answered.
- **Records**: two calls in the log (a torn line takes the next one with it) and one in
  the table, whose rows have nothing to do with each other; two contacts whose numbers
  share a suffix; three Autopilots, one after another; two torn appends.
- **Watchdog**: one phone, one poll, one turn: the run asks about the sweep, and
  the call loop's own interleavings are in `call`.
- **Pool**: one phone, two listings in flight: with the 15 s limit of adb and the
  5 s tick the code can have more, but two are enough to apply an older
  answer after a newer. Phones meet only in the pass, which visits them one after
  the other; a second phone adds delay, and delay is already arbitrary.
- **Bridge**: three turns: one answered late, the one its answer is given to, and
  the one after.
- **Agent and texts**: two customers, three messages, a memory of two ids, four posts,
  two services: a message that is posted again after it was forgotten, and a service
  that is built while another drains.
- **Audio**: streams of 11 bytes in chunks of up to 6, over ratios up and down and with
  a common divisor or without; six buffers of 1, 5 or 12 bytes, mono at half as much again
  as the target or stereo at its rate, that is up to twelve frames, with onset and hangover
  of two and chunks of three; recordings capped at 6 of 9 bytes, so that the cap falls within a
  piece; three sources, three players, three pieces of audio, a grace of two ticks.
- **Desktop**: four fields, one for each way in which blank, null and missing are told
  apart (a choice, a fraction, a secret, a port); four versions of what a form is over,
  and clicks while there are not two requests and messages under way; two requests for a
  phone's agent at once, and two agents made; three versions of the settings, that is two
  saves, which may overlap, and three Autopilots; three Listen clicks on two channels; two calls,
  two Autopilots and two starts of the endpoint; one call, two numbers that end alike,
  two contacts, two requests under way, two phones and two calls being placed. A query
  of the page may fail at any time, but not again once the page says so.
- **Phone**: every layout of at most two buttons in a row with the labels that the
  patterns distinguish; two reads before a job gives up; three readers of the dump and
  two changes of the screen; numbers of three to five digits with three significant
  ones, among them those that begin with the country code or the trunk prefix.

The theorems of section 5 hold for any values of these bounds.

Where the bounded input runs out (no further `open()` call, no further save) the
behaviour stops, and the run says `CHECK_DEADLOCK FALSE`. The runs of the watchdog
and the pool check for deadlock.

### Fairness, and what in the code justifies it

Weak fairness only, and on what has a timer, a limit or a microtask behind it; the
exceptions are named:

- *Sessions*: due microtasks run, handshakes and token requests settle, the
  8 s timer of a close fires. The code sets no limit to a handshake: that it fails in
  the end is left to the network stack. `Close(k)` is fair, that is, an operator or the
  call loop closes each session some day, which is what `OpenSettles` is relative to.
  The server's `Termination` is never assumed.
- *Clients*: the timers of a handshake and of a close fire; a socket that we closed, or
  that failed, goes (`VaSocketGoes`; the `ws` package has a timer of 30 s for it); an
  attempt's signal expires; the service of a poll answers its requests, though not with
  a verdict. A text-to-speech request or engine has `timeoutMs`.
- *Calls*: awaits settle (adb commands are killed after 15 s, the model and the
  speech service have time limits), chained turns are handled, the hang-up timer
  fires and its probes answer. That `sessions.open()` settles is assumed here; section 4
  says what follows when it does not. Nothing is assumed of callers, polls, or the
  operator. A settling await may still fail every time.
- *Analysis*: the pump runs and a step of a job settles; each has a time limit.
- *Watchdog*: the timer fires, a close settles (8 s), and so does every await of the call
  loop but `sessions.open()`, which nothing in the code limits.
- *Pool*: a listing that is asked for is answered or fails and is applied, the pass
  goes on, and a command's phase is written after its await. The world is unfair.
- *Bridge*: the orchestrator asks, and the two timeouts fire. Nothing is assumed of
  the service.
- *Texts*: a bind comes or fails, turns and sends settle (the model and the transport
  have time limits).
- *Capture and players*: the start-up timer fires; a process that was told to stop, was
  killed or could not be started says so (a player is sent SIGKILL after its grace; that
  scrcpy heeds SIGTERM is assumed); what is in the pipe of a dead process is read; the
  clock ticks.
- *Desktop*: a text service stops, builds of the next Autopilot succeed or throw, teardowns finish (`drain` of `call`), and while the
  program is not gone the halves of a save and of a shutdown go on. The Listen sweep's
  timer fires while the watchdog runs, an `open()` settles and a stopped capture exits.
  The main process comes to every request of the Contacts page, and the page to every
  answer. No click is fair.
- *Phone*: the watch's interval fires and adb answers or times out, for each reading,
  dump and tap. The world is unfair.

Where the fairness of a part would be conjoined over the whole run, `part = "..."` is
written into it: it makes no difference to the behaviours, since the others never take
that action, and halves TLC's work.


## 4. Where the code departs from its own words

Five runs check a statement of the source, and TLC shows a behaviour of the code
that breaks it. `PROJECT.json` has them under `findings`.

1. **A live stream can lose its key** (`LiveStreamReachable`, `manager.ts:107`). The
   loser of the duplicate check throws inside the `try`, and the `catch` deletes
   the map entry of its key, which is the winner's. The winner's stream stays
   connected and billed, and `close(key)` does nothing.
2. **An idle phone can stay out of the pool** (`IdlePhoneBackInPool`,
   `runtime.ts:670`). The telephony pass returns early when the reading has not
   changed, whoever has moved the record since. A call shorter than a pass, a
   WhatsApp call (telephony reads idle throughout) or a cable that flaps between
   two passes leaves the phase where nothing puts it back.
3. **A kept analysis is nowhere** (`AnalysisAttached`, `crm/src/store.ts:386`). The table
   writes the columns it knows; `postCall` is not one of them, so `persist()` reports
   success and the summary is gone. The desktop program uses this store.
4. **A fallback source is not heard** (`FallbackIsHeard`, `bridge.ts:323`). Every bridge
   ends the sink when its process is gone, and all sources of a call share the sink.
   When a given-up source has exited, the first samples of the next one make
   `push()` throw.
5. **A reload can drop a caller** (`ReloadDropsNoCaller`, `runtime.ts:448`). Whether a call
   is in flight is asked before `whatsappText.stop()` is awaited; the call answered
   meanwhile is ended by the shutdown that follows.

### Others of the kind

These have a definition in the modules that can be added to a configuration as an
INVARIANT or PROPERTY, and TLC finds the behaviour within a minute:

| definition | module | what the code does |
|---|---|---|
| `BoundEnforced` | `SessionManager` | the bound on sessions is checked before an await and used after it: two `open()` calls of one tick both take the last slot (`manager.ts:119`, against `:26`) |
| `RefusedCallRingsOut` | `Orchestrator` | a call refused because the operator listens leaves through the ordinary teardown, which closes the operator's session and hangs up (`orchestrator.ts:746`, against `:408`) |
| `WedgedCallFreed` | `Watchdog` | the watchdog's lever resolves a promise that a call stuck in `sessions.open()` does not wait for, and it pulls once (`watchdog.ts:211`, against `:3-9`) |
| `GreetingIsNoAnswer` | `VoiceAgentBridge` | a greeting the caller talks into becomes the answer to the first turn, and every later answer is one turn late (`voiceAgentBridge.ts:275`) |
| `NothingKillsTheProcess` | `RealtimeStream` | `close()` during the handshake, and `onOpen`'s cleanup, take the socket's only `error` listener off; `ws` emits `error` a tick later (`realtime.ts:283-286`, `:174-178`; `voiceAgent.ts:848-856` guards against just this) |
| `NoOrphanSocket` with `Reconnecting = TRUE` | `VoiceAgentSession` | connected again while a `close()` waits, the session ends the new connection's bookkeeping and leaves its socket (`voiceAgent.ts:829`); the program never does this |
| `ChunkIsLegal` | `RealtimeStream` | the correction after 3007 rounds 50 ms down to whole bytes: at 11025 Hz it recommends 1102 bytes, which are 49.98 ms (`realtime.ts:412-413`, against `docs/DECISIONS.md:70`) |
| `FinalRecordLands` | `PostCall` | a pass over the phones that waits in `detect()` when its Autopilot is shut down goes on, and begins a call that `drain()` did not wait for: the table is closed, its first `persist()` throws, and no record of the call lands (`orchestrator.ts:260-272`, against `autopilot.ts:547-550`) |
| `SlicesDoNotShow` | `VoiceActivity` | every buffer is converted by itself: bytes that make no whole sample are dropped at its end and its length is rounded, so the sound that is judged, and its timing, depends on how the source was cut (`pcm.ts:33-73`, against `vad.ts:4-5` and `resample.ts:28-30`) |
| `ChatWithinTimeout` | `RestClients` | the timeout is per attempt, not per call (`llmGateway.ts:162`, against `:99`) |
| `NeverSooner` | `RetryPolicy` | a Retry-After above `maxDelayMs` is cut to it (`backoff.ts:238`, against `:236`) |
| `OnlyRingingIsAnswered` | `CallDetection` | a call that somebody already has on the phone may be attended to, since it is reported ringing by a screen that was there a reading ago, or by a chat (`whatsAppDetector.ts:81`) |
| `FailedProbeIsUnknown` | `CallDetection` | readings that fail are swallowed and come out as "idle", and a live call is ended by them (`whatsAppDetector.ts:185-191`, against `autopilot.ts:419-420`) |
| `TapNeverRejects` | `VoipControl` | the text recognition of a frame judges single words, and may tap a control whose other word rejects (`ocrStageDetector.ts:123-131`, against `voipAnswerer.ts:106-109`) |
| `DumpIsFresh` | `UiDump` | the dump tool's error goes to discarded output, and `cat` returns the file of an earlier dump (`uiDump.ts:70-77`) |
| `RefusedMeansUnchanged` | `SettingsForm` | the card of the agents stores before it reloads, and a reload that is refused, or cannot build the Autopilot, is answered with an error alone: the page goes on showing what was there before (`main.ts:351-357`, `runtime.ts:466`, against `main.ts:296-297`) |
| `HalfTypedIsKept` | `SettingsForm` | what is typed while a save is under way is overwritten by its answer (`SettingsPage.tsx:140-142`) |
| `NoOrphanAgent` | `PhoneAgents` | the agent is made and filed before a reload that may refuse, and the page then knows of none: a second try makes another. So do two requests at once, since typing turns Save on again (`main.ts:346-353`, `SettingsPage.tsx:837-840`, against `main.ts:368-370`) |
| `TextServiceIsHeld` | `AppRuntime` | two reloads wait for the text service at once: the first starts the next, the second puts its own in that place, and the one in between keeps the port, with nobody to stop it (`runtime.ts:456-459`, against `whatsappText.ts:210-211`) |
| `PortIsGivenBack` | `Metrics` | a server whose `listen()` returns after the shutdown of its Autopilot is closed by nobody, and keeps the port from the next (`autopilot.ts:579`, against `:564-565`) |
| `IdleListenCloses` | `ManualListen` | if the Autopilot was never enabled, there is no sweep and a Listen session stays open on an idle phone (against `runtime.ts:171-172`) |
| `ListenSurvivesCall` | `ManualListen` | a second `startSession()` that fails takes the first one's protection away (`runtime.ts:547`) |
| `NamedIsKnown` | `AddressBook` | a number is given a name, but the calls it made before are linked only when they are saved again, and stay among the unknown (`crm/src/store.ts:299-302`, against `ContactsPage.tsx:65-66`) |
| `CouldNotMeansNot` | `AddressBook` | contact, numbers and tags are written without a transaction: "Could not add the contact." may leave half of one (`crm/src/store.ts:72-83`, against `ContactsPage.tsx:236`) |
| `CountsMeetCalls` | `AddressBook` | a refresh reads the counts again, but not the calls of the contact on show (`ContactsPage.tsx:174-191`, against `:440`) |
| `DialsFromOnline` | `AddressBook` | a phone is chosen only where none is: one that has gone offline stays chosen beside one that is online (`ContactsPage.tsx:115`, against `:111-112`) |

Four of them bear on what holds: `NoStrandedCaller` holds in spite of the first of each
list; `OverrunEndsOrHangs` is what is left of `WedgedCallFreed`, and `RecordIsWhole` of
`FinalRecordLands`;
`RepliesStayInOrder` survives the greeting, since the shift keeps the order.

### Met on the way

Read in the code while it was modelled, not checked by a run:

- *Stream*: the size corrected after 3007 dies with its stream, since `connect()` on a
  closed one rejects and nothing reads `chunkSizeBytes`; nothing in the program uses
  `ReconnectPolicy`, so the reconnects of `docs/DECISIONS.md` section 4 do not happen and
  such a call ends `failed`; `include_partial_turns: false` is never sent
  (`realtime.ts:58`) though the default is `true` (`types.ts:255-257`); `end()` of the
  pipeline flushes a last chunk that may be shorter than 50 ms (`pipeline.ts:84-87`).
- *Speech*: `TTS_BASE_URL` against `LLM_BASE_URL` (`ttsProviders.ts:615-618`); a
  `TTS_COMMAND` that names an engine which is not installed is accepted (`:650-657`).
- *Voice Agent session*: a second `close()`, or `destroy()`, lets go of the socket and says
  `close` while the first one waits on; nobody clears the first one's timer, and its
  warning comes behind the `close` (`voiceAgent.ts:665-668`); `open` is emitted before the configuration is sent (`:614-618`).
- *Settings*: `deviceAgentConfig` fills in defaults, so the merge of `applyVoipAgents`
  resets nested fields (`settings.ts:366-372`, `:1176-1179`); `voipAgents.ts:88-90` says it
  reads the live settings and does not; a threshold of two spaces is 0; the save after
  a failed load overwrites the file; `probeTts` disagrees with the running selection.
- *Runtime*: `disable()` during a reload is undone by `if (wasEnabled)`; post-call analysis is
  not drained;
  `bindGauge` and `instrumentSessions` are called by nobody; `devicesFile.ts` is used by
  its tests only; the watchdog is given `opts.sessions`, not the bridge
  (`autopilot.ts:341`).
- *Media*: `push()` after `end()` is caught by nobody (`bridge.ts:274`); the desktop
  program pins the audio source; scrcpy that dies during a call is not noticed.
- *Contacts*: what is typed while a contact is being added is wiped by its answer
  (`ContactsPage.tsx:232`); `error` is never taken back (`:185`); the answer to an earlier
  dial replaces the line of a later one, and the line names the phone that is selected now
  (`:414-415`); a refresh that fails after a contact was added says that the contact could
  not be.
- *Phone*: a chat with "accept" in it reads like a ringing call; `captureScreen`'s private
  file is one fixed path; no wake key is sent when the dump is missing
  (`screen.ts:47-49`); dialler and hang-up do not check for an enclosing row, and nothing
  verifies the hang-up; `deepLinkDigits` lacks the length guard of `normalizePhone`
  (`voipDialer.ts:182`, `phone.ts:117`).


## 5. The proofs

`tlapm M_proofs.tla` proves 20,848 obligations in all, with Z3, Zenon and LS4. What they
say holds for every value of the constants that satisfies the modules' assumptions; TLC
evaluates each assumption in the runs.

| module | theorems | obligations |
|---|---|---|
| `Clients_proofs` | sessions: `TypeCorrect`, `CallersAreNeverStranded`, `QueueIsExact`, `MapShowsTheLiving`, `NobodyHangsUpSilently`; each of the others by itself: `EverySocketHasItsOwner`, `StreamTellsTheTruth`, `RequestsKeepTheirWord`, `StoredAgentsSpeak`, `RetriesAreBounded`, `SpeechStaysSafe`, `InterruptedStaysUnspoken`; of the composition: `SessionsEnd`, `PoliciesAlwaysHold`, `RequestsStayHonest`, `SpeechStaysSafeThere`, `InterruptedStaysUnspokenThere` | 3236 |
| `Call_proofs` | `BooksAreKept`, `HistoryIsNotTakenBack`; of the composition: `RecordsStayKept`, `HistoryStays` | 1355 |
| `Orchestrator_proofs` | `Invariance`, `TypeCorrect`, `NothingIsLeaked`, `MissedIsHonest`, `SilenceAfterEnd`, `Refinement` | 900 |
| `Watchdog_proofs` | `WatchdogInvariance`, `BooksAreTrue`, `OnceIsEnough` | 411 |
| `DevicePool_proofs` | `TypeCorrect` | 180 |
| `Media_proofs` | bridge: `Invariance`, `TypeCorrect`, `RepliesAreKept`, `NobodyWaitsInVain`, `OrderIsKept`; each of the others by itself: `OneSourceAtATime`, `OneVoiceAtATime`, `AnswersFitTheirQuestions`, `TextsStayAnswered`, `RecordingStaysWhole`, `RecordingOnlyGrows`; of the composition: `OneOfEach`, `RecordingsStayWhole`, `AnswersAlwaysFit`, `TextsAreAlwaysAnswered`, `CutsNeverShow`, `SeamsNeverShow`, `SpeechIsMarked`, `CutsStayCheap`, `SoundStaysWhole` | 8112 |
| `Phone_proofs` | each by itself: `ProbesAreRight`, `OneReaderAtATime`, `TapsAreHarmless`; of the composition: `ScreensStayHandled`, `NumbersAlwaysMeet`, `ProbesStayRight` | 1246 |
| `Desktop_proofs` | `SettingsStayKept`, `RuntimeStaysAgreed`, `AgentsAreThere` | 5408 |

### Assumptions on the constants

Most bound a model's input (`MaxCloses`, `MaxTurns`, `MaxPolls`, `MaxTears` and their
like are naturals, some of them not zero) or keep a null value apart (`None`, `NoDevice`,
`NoTurn` are not calls, phones, questions). Those that say something of the code:

- `SessionAssumption`: finitely many keys, at least one slot. `TurnsAssumption`,
  `SourcesAssumption`, `ListingsAssumption`: at least one turn, source, listing.
- `StreamAssumption`: the sample rates are in the range the options allow (8000 to 96000,
  `LegalRates`).
- `RestAssumption`: deadlines and intervals are positive, and no cursor of the service is
  the absent cursor of the first request (`FirstPage`).
- `PolicyAssumption`: delays are positive and none is above the maximum.
- `CapAssumption`: the cap of a recording is a whole number of 16-bit samples.
- `RatesAssumption`: sample rates are positive, as the resampler's constructor demands.
- `FramesAssumption`: an utterance starts after one frame at least, and a chunk holds one
  at least. `SamplesAssumption`: a frame has a sample, a sample of a format a byte, and
  rates are positive.
- `StreamsAssumption`: a stream is a finite sequence of symbols.
- `PlaybackAssumption`, `PostCallAssumption`: a grace period and a concurrency that are
  not zero, as the defaults are.
- `LayoutsAssumption`: on a screen to answer from, two controls are apart or one encloses
  the other, as the bounds of nodes of one dump are.
- `NumbersAssumption`: a country code does not begin with 0, the trunk prefix; and the
  numbers compared have the significant digits and no prefix, which the spellings add.
- `BookAssumption`, `MetricsAssumption`, `RecordsAssumption`: finitely many calls to come,
  finitely many contacts.
- `FieldsKnown`: every field of the settings has one of the kinds of `Kind`.

`SessionsEnd` has one hypothesis more, `~Reconnecting`: nobody calls `connect()` while a
`close()` is under way, as nobody in the program does. Where somebody does, the claim is
false (`NoOrphanSocket` in section 4).

### How the proofs are laid out

For each component there is an inductive invariant `XInv`, a conjunction of named parts;
a lemma for each operation it needs, one that the initial states have it, one that every
action keeps it (one step per action, one per conjunct the action can disturb), and one
that it implies what the run checks. The `MC` modules put such components side by side;
`EachStarts` and `EachKeeps` say that every step of the composition is a step or a
stutter of each part, so the theorems of the composition follow from the lemmas of the
parts.

The provers cannot instantiate the library's induction rules. Where a proof is by
induction over a number, it takes the least element of the set of counterexamples
(`NatLessThanWellFounded` with `WFMin`), which is a statement about sets: the powers of two
of the retry delays and the control a tap lands on are done so. Where it is more convenient, the
set of the numbers for which the claim holds has 0 and every successor, and so is `Nat`
(`NatInduct`). That the recursive functions of the detector (`Judgements`) and of the
parser (`Chunks`) exist is shown the same way: there is one over the first n arguments for
every n (`JudgingGoesOn`, `RoundsGoOn`), and two runs of the parser that go on until nothing
changes end in the same state (`RoundsMeet`).

### The arguments

**Sessions.** `NoStrandedCaller` is not inductive. A grant moves the call at the head
of the queue, and must not move one that stands elsewhere, so the queue has to be
exactly the parked callers (`QueueMatchesCalls`). A failing handshake moves the call
that owns the socket, which must not be the slot holder the parked callers count on
(`HandshakeOwned`: a stream that is connecting belongs to a call that awaits just
that). A release that grants nothing to a waiting queue leaves a full map, and a
full map has an entry, because the bound is at least one (`FullMapHasEntry`).
`ReleaseKeeps` does the case common to every way a slot comes back.

`EntriesAreLive` follows from `EntriesAlive`: the call behind an entry has the entry's
key and has not failed; if its stream is being closed, some `close()` of it is still under
way; and if its socket is gone, the job that removes the entry is due. That is
inductive beside the invariant above. `RemovalKeeps` does the steps that take an entry out, and
`ReleaseTouchesQueue` says why a release, which comes with most of them, leaves every
entry alone: it moves the head of the queue only, and a parked call has no entry.

`TerminateBeforeClose` is an action property. A step that closes an open socket is the end
of a teardown's wait, and `GoodbyesSaid` says that a teardown on an open socket has sent
`Terminate`; for that, one on a socket that was not open when it began must not wait.

**Voice Agent session and stream.** No socket is orphaned because the socket in use is the
one every waiting `close()` waits on (`ClosersWaitOnIt`), which is what a `connect()` in
between would break. The stream's owner hears one `close`, and as the last thing
(`TaleEndsOnce`), and an `error` before it if the code was fatal (`ErrorTold`).

**REST, retries, speech.** `ServerIsObeyed` needs where in an attempt the call stands
(`NotBeforeItsTime`); `ChatInTime` bounds the clock by the attempts so far; no page is
asked for twice because a cursor that was seen ends the listing (`PagesAreSeen`,
`NextIsNew`); one job, because it is only the answer to a submission that makes one
(`JobsAreMade`). `WaitingIsBounded` is inductive once it counts attempts; that no delay is
zero rests on the delay being a power of two of the base, cut at the maximum. `VoiceFits`
says what a voice may be under a configuration, whichever of the fallbacks chose it.

**Records and analysis.** `BooksInv`. Which records are behind what was acknowledged is
counted against the torn lines (`TearsFit`); what an analysis finds in the history is the
last record of its call, unless the Autopilot of the call is gone (`JobsFit`); a queue holds
calls of its own Autopilot that wait, each once (`QueuesFit`), so that no call is analysed
twice. A call has its last record, or was begun by an Autopilot whose table was closed before the
first (`ShutOut`). `HistoryOnlyGrows` is proved as an action property beside it.

**Call loop.** The invariant is `TypeOK` with `Shapes` (what a call holds at each
await: which resources may be up, which outcomes are possible, what the machine
state is) and `Billed` (the call holds the session key exactly while its stream is open).
A leak is then impossible by shape: an ended call stands at `notifying`, and that
shape holds nothing. `Kept` abbreviates the changes that do not matter to the
shape, so that the steps of turns, probes and end requests are done once. The step
lemma `Step` proves that a step keeps the invariant, is silent after the end, and
is a step or a stutter of `CallLifecycle`; `Refinement` is that with `Start0`.

**Watchdog.** Its specification is not a refinement step by step of the call loop's:
one sweep may end several calls at once. So `WatchdogInvariance` proves the call
loop's invariant anew for the composition, reusing the step lemmas for `Seen` and
one lemma for the sweep. `NextStays` is what makes asking once enough: no step of
the call loop takes an end request back while the call is there.

**Pool.** The type invariant, which includes that a phone is read only while the pass
has still to visit it.

**Bridge.** Replies stay in order because the service begins them in order and turns
are answered in order (`InOrderSoFar`); with it `RepliesStayInOrder` is inductive, and
`EveryReplyIsKept` and `NobodyWaitsBesideAReply` are proved beside it. `AppendGrows`
and `TailShrinks` say what the two operations do to elements and order of a queue,
`HandOver` and `GoneOn` what giving an answer and going on do to the whole.

**Capture and playback.** At each stage of a call it is known who may hold a process
(`HeldByStage`), and nobody else's runs (`RunningIsHeld`): one source, and none after the
call. One player has the voice (`OneVoice`), and what is queued in it is of the utterance
that is current.

**Agent and texts.** A reply stands behind its question with no other in between
(`Fits`), because the turn in flight is that of the last question of its conversation
(`FlightIsAskedLast`), which a later question replaces. For the texts that order has to
survive a queue and a bounded memory: what was not begun waits before all that came in
after it (`ChainInOrder`), so messages are begun in their order (`BegunInOrder`), and
answers are in that order except for those whose id was forgotten (`RepliesFit`).

**Recorder.** The bytes are numbers in the order they were given, and buffer and file
are runs of them without a gap (`Counts`). `NothingIsLost` and `FileIsKnown` fail together
with the disk only; the header on disk is at any moment one that can be played
(`Playable`), a crash in the middle of a flush included. That no step takes recorded
bytes away is `RecordingOnlyGrows`.

**Resampler.** The whole argument is about places. In the middle of a stream the samples
consumed are the bytes fed, halved; half a sample waits exactly if that is odd; the last
sample is kept; and as many outputs were made as lie below the last sample (`Streaming`,
`Settled`). An output is computed in coordinates of its chunk, where the division may be of
a negative number; `SeamIs` says that this gives the sample and the fraction of the stream's
own coordinates, and that only the kept sample is ever on the left of the chunk. Counts and
capacities are ceilings of quotients, so a handful of lemmas about `CeilDiv` (`CeilIsLeast`,
`CeilGrows`, `CeilAdds`) carry the rest: what a chunk releases follows on what was made
(`ReleasedIs`), it fits the scratch buffer, and a flush makes just what is missing.

**Speech and utterances.** The counters of the detector are a summary of the frames judged:
so many of the last ones loud, so many, while it is on, not (`Remembers`). That summary
is what makes "on" equivalent to its definition over all frames (`SpeechOn`), and each
frame keeps it (`RemembersSpeech`, `RemembersSilence`), whichever chunk it falls into. A
reader's chunks alternate between starts and ends (`Pairs`); the stream is inside an
utterance exactly if the last mark is a start (`LeftOpen`), and an end is always put on
the last chunk sent (`LastOf`), which may be the one that has the start. The counts of
samples are apart from this (`SamplesInv`): what one buffer costs is an inequality of
quotients (`BufferCosts`), and the buffers add up (`OneMoreBuffer`).

**WAV stream.** While the parser searches, what it holds is the end of what was read, and no
header begins in what it dropped (`Searching`): this is where a tail of three bytes has
to be enough, and where the two ways of dropping more, after a `RIFF` that is not of a `WAVE`
and before the first `RIFF`, must not skip a header (`SyncedIs`). After the header it
stands where the bytes since then lead, taken all at once (`Parsing`). That this survives the
next bytes is `ChunksMayCome`: chunks that were taken before more bytes came are the chunks
that are taken after.

**Probe.** A probe reads four things one after the other while the call changes. What
happened since it began is kept in `seen`; nothing of a call escapes it (`NothingEscapes`),
what it read was so when it was read (`ReadingsWereTrue`), and what was there all the while it
has read (`ReadingsAreThorough`).

**Dumps, taps, numbers.** Only the head of the line has the phone (`OneHasThePhone`), and
whoever has asked is in the line, once it is its turn. The answering tap lands on the
innermost control under a point; that it never rejects is shown for any layout in which
controls nest or are apart, by the least of those that enclose the point. Any two
spellings of a number share their last significant digits, of any length, and so meet.

**Settings.** The argument has two halves. What validation accepts is what a read of the
file gives back, field by field (`AllKept`, `StoredIsRead`), so the file, if there is one,
is a snapshot of what was saved and not a reading of the environment (`SnapshotCovers`); and
the configuration that is patched in place equals one built anew (`ConfigIsFresh`). The page is
told of the newest settings, or is going to be, whatever order the answers come in, unless
nothing of them was said since a reload failed (`WillBeShown`); an untouched form says nothing (`FormSaysNothing`), with no cost to a tuning
value (`TuningCostsNothing`).

**Runtime and metrics.** Until the shutdown nobody answers but the Autopilot in use
(`OthersAreOff`), whose settings are the newest unless a save is still to replace it
(`NewestInUse`); a store closes behind the last record (`Orderly`). Texts are answered on
because a save that alone waits for their service finds it stopped and knows whether it ran
(`TextsInTurn`). A request for a phone's agent fits the file, and the service, as long as it
is the only one and its page knew the file (`OfOneMind`); what the Autopilot and the page
have is the file's unless a reload has left them behind (`NoneIsBehind`). Counters are compared
with a ledger of calls: those begun are those under way, those whose record is still
awaited, and the sum of outcomes (`StartedAddUp`), by cardinalities of finite sets. The
endpoint is known to whoever has the port (`PortIsKnown`).

**Contacts page.** The channel to the page answers in order (`InOrder`); each refresh is a
pair of requests that stay together (`Paired`); no list on the way is shorter than one
before it (`Growing`, `Precedes`). So what is shown was true once and never goes back, and the
contact picked is in the list or in an answer that is coming (`Coming`, `CallsAreComing`).

### Only model-checked

- Everything about progress (the `~>` and `<>[]` properties), since liveness under
  fairness is out of the prover's reach. Their parts that are action properties are
  proved: that a recording only grows (of `MediaGoesOn`), that a reply the caller has
  talked over is not spoken (of `ClientsSettle`), and that no call between two requests is
  turned away for an agent that is gone (of `DesktopGoesOn`). So is every safety invariant
  the runs check.
- The violated claims, of course.


## 6. What is left out

Not modelled at all:

- *scrcpy and tool detection* (`scrcpy-bridge/src/detect.ts`): looks for programs and
  parses version numbers, and keeps nothing.
- *adb and the devices file* (`adb.ts`, `devicesFile.ts`): runs a process with a time
  limit, which is an await that settles or fails wherever it is used; and an editor of a
  configuration file that the program itself does not call.
- *Harness and scripts* (`packages/e2e`, `scripts`): test doubles and operator tools.

Of the modelled parts:

- *Sessions and streams*: the fields of the URL and of a turn; re-emission of events to
  listeners; `destroy()`, which the manager keeps for a `close()` that throws, and none
  does.
- *Clients*: the bodies of requests; the single request for a token.
- *Calls*: what a reply says, apart from whether it asks to hang up; the contents of
  records; barge-in is in `Playback` and `AgentTurns`.
- *Records*: tags, names, the search, the one migration.
- *Watchdog*: callbacks. `stop()` belongs to shutdown. The set of manually opened
  sessions is represented by who holds the session.
- *Pool*: labels, channels and time stamps of a record; the contents of adb's output.
- *Bridge*: audio, resampling, speech options and the choice of an agent per phone.
- *Agent and texts*: the window of the prompt; signatures and the parsing of the
  envelope, which only decide whether a delivery counts.
- *Audio*: sample values and the rounding of one sample; the other uses of the one-shot
  converter of `pcm.ts`, on a whole reply at a time; the transport through a temporary file; scrcpy's packet parser,
  which nothing uses.
- *Desktop*: the probes of credentials and voices, the tables of a device agent's fields,
  the views that only show what they are sent.
- *Metrics*: the rendering, and counters that are only added up.
- *Phone*: the wording of dumps and labels is a set of signs; cellular keys are only the
  line they change (`DevicePool`).


## 7. Further hazards, and the plan

### Hazards beside those of `PROJECT.json`

Smaller ones of the same kinds, or ones whose properties are covered there already, by
file:

- `aai-client/src/manager.ts`
  - `:119` the slot is checked before an await and taken after it: callers of one
    tick, or one arriving between a grant and the registration it leads to,
    overshoot the bound
  - `:227` the close listener acts on whatever session holds the key now: the late
    close of an old socket ends the session that replaced it
  - `:127` the parked-caller counter is taken down twice for one grant and clamped
    at zero, so queuedCount (:36) can be short of the parked callers
- `orchestrator/src/orchestrator.ts`
  - `:409` the session key is pre-flighted before the answer and opened after it:
    the operator may take it in between
  - `:409` the refusal of a call runs the teardown of a call: it closes whatever
    session has its key and hangs up a phone it never answered
  - `:714` an end request that arrives during answer, open or greet takes effect
    only when they settle
  - `:668` a probe that throws once per interval for ever must still end the call
  - `:703` drain() spins until every teardown has run; a teardown behind a turn that
    never settles keeps the application from quitting
  - `:207` `watching` is written by start and stop and read nowhere: a pass in
    flight answers after stop()
  - `:424` sessions.open() has no time limit: behind a full pool or a silent
    handshake the call waits for ever, and so do callers of its phone
  - `:761` teardown puts the phone `online` even when it is gone from adb or still
    off the hook
  - `:611` turns are chained, so a reply asked for before the caller spoke again is
    still played after it: the agent's own supersession never sees two voice turns
    at once, and the generation token is taken only when the audio is there
- `orchestrator/src/watchdog.ts`
  - `:292` the sweep decides on a session and closes it up to 8 s later; the
    operator or a new call may have moved on
  - `:173` while a stray session is closing no sweep runs, so no call is judged
- `desktop/service/runtime.ts`
  - `:682` the phase is compared with the record copied when the pass began, before
    the await: a write in between is lost or kept by accident
  - `:666` one hung phone holds the pass for 15 s, the ring of every other phone
    waits
  - `:603` the console's command and the phase it writes are separated by an await
    in which a pass, a listing or the call loop may write
  - `:547` a second startSession() on an open key fails and takes the first one's
    protection from the stray sweep with it
  - `:470` the AppConfig is changed field by field in place: a value that the
    operator cleared, or a service built while a save was under way, stays with the
    old settings
  - `:348` a Listen session stays protected while its phone is in a call and must be
    swept once it is not, whatever was clicked in between
- `device-manager/src/deviceManager.ts`
  - `:82` a phone that comes back keeps the phase `offline` of its record until a
    reading changes
- `orchestrator/src/voiceAgentBridge.ts`
  - `:275` the greeting is done after the caller's first turn: replies and turns are
    off by one from then on
  - `:523` a turn chained during teardown looks its call up after close() has
    removed it
- `agent/src/agent.ts`
  - `:163` the model request of an ended call is abandoned only by onCallEnded,
    after a teardown that first waits for that very turn before it sends Terminate
- `desktop/service/autopilot.ts`
  - `:341` on the Voice Agent path the watchdog is still given the realtime manager:
    a Voice Agent session without a call is swept by nobody
  - `:563` the store is closed behind the teardown of the calls in flight: closed
    before it, the last records are lost
- `whatsapp/src/router.ts`
  - `:194` ids are remembered in memory only, and before the answer is sent: a
    redelivery after a restart is answered again, one after a failed send never
  - `:248` a message id is forgotten after a thousand others, while a redelivery may
    come for seven days
- `desktop/service/capture.ts`
  - `:115` a bridge that is stopped stays registered until its process has exited: a
    capture attached at once is refused or, by startSession(), skipped
- `crm/src/store.ts`
  - `:72` a contact is written in several statements, any of which may fail after the
    one before, with the form still open
  - `:299` a link is made when a call is saved: what is added to a contact later does not
    reach the calls that are there
  - `:306` a call is saved again and again while contacts are edited: a later match
    must not move it to someone else
- `aai-client/src/voiceAgent.ts`
  - `:538` close(), destroy(), the end of the service and a failure of the socket
    may all come at once
- `aai-client/src/voiceAgentAdmin.ts`
  - `:404` the service replaces what a patch sends as a whole: a patch of one field
    would take the rate with it
- `orchestrator/src/scrcpyCapture.ts`
  - `:88` a source may be silent, fail, exit or answer late: the next one is tried,
    and no process may be left behind by the one before
- `scrcpy-bridge/src/wavStream.ts`
  - `:76` the signature, a chunk's header and its body may each be split between two
    reads
- `audio-pipeline/src/pcm.ts`
  - `:34` a buffer that ends within a sample loses its rest, and the next begins within one
- `audio-pipeline/src/pipeline.ts`
  - `:137` an utterance ends only by what follows it, in chunks that may not be sent
    on at all
- `audio-pipeline/src/recorder.ts`
  - `:676` a recording that cannot be written must not take speech recognition,
    which hangs on the same tee, down with it
- `orchestrator/src/audioInjector.ts`
  - `:219` a player that does not notice the end of its input outlives the call
- `desktop/service/settings.ts`
  - `:361` "", null and a missing field mean three different things to a key, and a
    blank field of a form is one of them: saving a form nobody touched could wipe a
    key or a tuning value
- `apps/desktop/src/components/SettingsPage.tsx`
  - `:138` the settings change under a form with unsaved edits, and the answers of
    two requests come in either order
- `apps/desktop/src/components/ContactsPage.tsx`
  - `:139` the two lists of a refresh are two requests, and the call loop may write
    between them; refreshes overlap
  - `:231` the contact that was added is selected before the lists that have it are read
- `device-manager/src/whatsAppDetector.ts`
  - `:341` the log of a build without a mode field keeps the mode of a call that has
    ended, and an owner outlives its call: a phone at rest could be answered
- `device-manager/src/voipAnswerer.ts`
  - `:251` a row that encloses the answer and the decline button has its centre
    anywhere, and a control may show one label and have another
  - `:393` the text recognition of one frame may fail, or hang, while the next dump
    would have shown the button
- `device-manager/src/screen.ts`
  - `:150` a reading of the display or the keyguard that fails reads as awake and
    unlocked; a keyguard swallows taps
- `orchestrator/src/metrics.ts`
  - `:184` the transition to ended and the record that carries the outcome are two
    events, and the record is announced only if it was saved: a call counted at the
    wrong one has the wrong outcome, or none, or two

### Plan

Done, in this order: the session manager, the call loop with its abstract life cycle,
the watchdog composed with it, the device pool, the Voice Agent bridge; then the
records and their analysis, the clients of remote services, the agent and the texts,
the stages of the audio, the desktop program, what is done on a phone over adb, and
the stream by itself.

Next, the most consequential first:

- for the pool, that a phone gone from every listing in flight is recorded as gone;
- an abstract store of calls that the log and the table implement;
- the call loop over the capture of `Capture`, in place of an await that settles, so
  that finding 4 is seen from the call;
- the CRM's tags, and the parsing of WhatsApp's envelope.
