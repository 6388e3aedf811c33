------------------------------- MODULE Speech -------------------------------
(***************************************************************************)
(* packages/agent/src/ttsProviders.ts: which voice the configuration and   *)
(* the machine allow, and how one utterance is made by it -- by a request  *)
(* (postForAudio, and llm.ts complete(), which is built alike) or by a     *)
(* local engine that writes a WAV file into a directory of its own.        *)
(***************************************************************************)
EXTENDS Naturals, Sequences, FiniteSets

Engines == {"espeak", "piper"}
Providers == {"openai", "elevenlabs", "command", "silent"}
NotSet == "not set"

VARIABLES
    conf,       \* the configuration, the environment and the machine
    voice,      \* the selection: the provider, whose key it sends, where to, its engine
    aborted,    \* the caller has talked over the reply
    utterance,  \* "none", "requested", "answering", "engine", "read", "spoken", "failed"
    engineRuns, \* the engine's process
    wavWritten, \* it has written its file
    workDir,    \* the directory of the utterance exists
    due         \* timeoutMs have passed

speechVars == <<conf, voice, aborted, utterance, engineRuns, wavWritten, workDir, due>>
makeVars == <<engineRuns, wavWritten, workDir>>

\* TTS_PROVIDER, TTS_API_KEY, TTS_MODEL, the key and model of the agent's LLM, the two
\* base URLs, TTS_COMMAND, PIPER_MODEL and what is installed.
Confs ==
    [requested : Providers \cup {NotSet}, ttsKey : BOOLEAN, ttsModel : {NotSet, "eleven", "other"},
     llmKey : BOOLEAN, llmModel : BOOLEAN, ttsBase : BOOLEAN, llmBase : BOOLEAN,
     engine : Engines \cup {NotSet}, piperModel : BOOLEAN, installed : SUBSET Engines]

Selection(provider, key, base, engine) ==
    [provider |-> provider, key |-> key, base |-> base, engine |-> engine]
Silent == Selection("silent", "none", "none", NotSet)

\* The providers to try, in order.
Wanted(c) ==
    IF c.requested # NotSet THEN <<c.requested>>
    ELSE IF c.ttsKey THEN <<IF c.ttsModel = "eleven" THEN "elevenlabs" ELSE "openai", "command">>
    ELSE IF c.llmKey /\ c.llmModel THEN <<"openai", "command">>
    ELSE <<"command">>

\* tryBuild(): the voice of a provider, or nothing.  The OpenAI endpoint may be the
\* LLM's, if nothing at all is said about TTS.
TtsOwned(c) == c.ttsKey \/ c.ttsModel # NotSet

BuildOpenAi_Mixed(c) ==
    IF (c.ttsKey \/ c.llmKey) /\ (c.ttsModel # NotSet \/ c.llmModel)
    THEN {Selection("openai", IF c.ttsKey THEN "tts" ELSE "llm",
                    IF c.ttsBase THEN "tts" ELSE "openai.com", NotSet)}
    ELSE {}

BuildOpenAi(c) ==
    IF TtsOwned(c)
    THEN IF c.ttsKey /\ c.ttsModel # NotSet
         THEN {Selection("openai", "tts", IF c.ttsBase THEN "tts" ELSE "openai.com", NotSet)} ELSE {}
    ELSE IF c.llmKey /\ c.llmModel
         THEN {Selection("openai", "llm", IF c.llmBase THEN "llm"
                                          ELSE IF c.ttsBase THEN "tts" ELSE "openrouter.ai", NotSet)}
         ELSE {}

\* CommandTts: the engine that is named, or the first one on PATH; piper wants a model.
Detected(c) ==
    LET usable == IF c.piperModel THEN c.installed ELSE c.installed \ {"piper"} IN
    IF "espeak" \in usable THEN {"espeak"} ELSE usable

EngineOf(c) ==
    IF c.engine = NotSet THEN Detected(c)
    ELSE IF c.engine = "piper" /\ ~c.piperModel THEN {}
    ELSE {c.engine}

TryBuild(provider, c) ==
    CASE provider = "openai" -> BuildOpenAi(c)
      [] provider = "elevenlabs" ->
            IF c.ttsKey
            THEN {Selection("elevenlabs", "tts", IF c.ttsBase THEN "tts" ELSE "elevenlabs.io", NotSet)}
            ELSE {}
      [] provider = "command" -> {Selection("command", "none", "none", e) : e \in EngineOf(c)}
      [] provider = "silent" -> {}

\* selectTtsClient(): the first that can be built, or silence.
SelectVoice(c) ==
    LET built == {i \in DOMAIN Wanted(c) : TryBuild(Wanted(c)[i], c) # {}} IN
    IF built = {} THEN Silent
    ELSE CHOOSE s \in TryBuild(Wanted(c)[CHOOSE i \in built : \A j \in built : i <= j], c) : TRUE

SpeechInit ==
    /\ conf \in Confs
    /\ voice = Silent
    /\ aborted = FALSE /\ utterance = "none" /\ due = FALSE
    /\ engineRuns = FALSE /\ wavWritten = FALSE /\ workDir = FALSE

-----------------------------------------------------------------------------
\* synthesize(): an empty text, and silence, are made at once.
Synthesize ==
    /\ utterance = "none"
    /\ voice' = SelectVoice(conf)
    /\ CASE voice'.provider = "silent" -> utterance' = "spoken" /\ UNCHANGED <<makeVars, due>>
         [] voice'.provider = "command" ->
               IF aborted THEN utterance' = "failed" /\ UNCHANGED <<makeVars, due>>
               ELSE /\ workDir' = TRUE /\ engineRuns' = (voice'.engine \in conf.installed)
                    /\ utterance' = "engine" /\ UNCHANGED <<wavWritten, due>>
         [] OTHER -> utterance' = (IF aborted THEN "failed" ELSE "requested") /\ UNCHANGED <<makeVars, due>>
    /\ UNCHANGED <<conf, aborted>>

\* An utterance of no text: silence, whatever the provider.
SynthesizeNothing ==
    /\ utterance = "none"
    /\ utterance' = "spoken" /\ voice' = Silent
    /\ UNCHANGED <<conf, aborted, makeVars, due>>

\* The finally of synthesize(): the call's content does not outlive the utterance.
Cleanup == workDir' = FALSE

\* The provider answers: an error, or the head of its answer; then its body.
ProviderAnswers(ok) ==
    /\ utterance = "requested"
    /\ utterance' = IF ok THEN "answering" ELSE "failed"
    /\ UNCHANGED <<conf, voice, aborted, makeVars, due>>

\* All of the body has arrived, maybe in the same turn as the interruption.
BodyArrives ==
    /\ utterance = "answering"
    /\ utterance' = IF aborted THEN "failed" ELSE "spoken"
    /\ UNCHANGED <<conf, voice, aborted, makeVars, due>>

\* The engine: it cannot be started; or it writes its file; it ends.
EngineMissing ==
    /\ utterance = "engine" /\ voice.engine \notin conf.installed
    /\ utterance' = "failed" /\ Cleanup
    /\ UNCHANGED <<conf, voice, aborted, engineRuns, wavWritten, due>>

EngineWrites ==
    /\ engineRuns /\ ~wavWritten
    /\ wavWritten' = TRUE
    /\ UNCHANGED <<conf, voice, aborted, utterance, engineRuns, workDir, due>>

EngineEnds(code) ==
    /\ engineRuns
    /\ code = 0 => wavWritten
    /\ engineRuns' = FALSE
    /\ utterance' = IF utterance # "engine" THEN utterance ELSE IF code = 0 THEN "read" ELSE "failed"
    /\ IF utterance' = "failed" THEN Cleanup ELSE UNCHANGED workDir
    /\ UNCHANGED <<conf, voice, aborted, wavWritten, due>>

\* The rest of synthesize(): the signal once more, then the file.
ReadWav ==
    /\ utterance = "read"
    /\ utterance' = IF aborted THEN "failed" ELSE "spoken"
    /\ Cleanup
    /\ UNCHANGED <<conf, voice, aborted, engineRuns, wavWritten, due>>

\* The signal: fetch gives up at once, the engine is killed.
Interrupted == utterance \in {"requested", "engine"}

Stop ==
    /\ utterance' = IF Interrupted THEN "failed" ELSE utterance
    /\ IF utterance = "engine" THEN engineRuns' = FALSE /\ Cleanup
       ELSE UNCHANGED <<engineRuns, workDir>>

BargesIn ==
    /\ ~aborted /\ utterance # "spoken" /\ aborted' = TRUE
    /\ Stop
    /\ UNCHANGED <<conf, voice, wavWritten, due>>

TimesOut ==
    /\ ~due /\ utterance \in {"requested", "answering", "engine"} /\ due' = TRUE
    /\ IF utterance = "answering"
       THEN utterance' = "failed" /\ UNCHANGED <<engineRuns, workDir>>
       ELSE Stop
    /\ UNCHANGED <<conf, voice, aborted, wavWritten>>

SpeechNext ==
    \/ Synthesize \/ SynthesizeNothing \/ BodyArrives \/ EngineMissing \/ EngineWrites \/ ReadWav
    \/ \E ok \in BOOLEAN : ProviderAnswers(ok)
    \/ \E code \in 0..1 : EngineEnds(code)
    \/ BargesIn \/ TimesOut

SpeechSpec == SpeechInit /\ [][SpeechNext]_speechVars

-----------------------------------------------------------------------------
SpeechTypeOK ==
    /\ utterance \in {"none", "requested", "answering", "engine", "read", "spoken", "failed"}
    /\ voice.provider \in Providers
    /\ utterance = "engine" => workDir

\* An operator who set a TTS key or model is never sent to the LLM's endpoint, and the
\* LLM's key never to api.openai.com by default (ttsProviders.ts selectTtsClient(), llm.ts
\* DEFAULT_LLM_BASE_URL).
KeyStaysHome ==
    /\ voice.key = "llm" => ~TtsOwned(conf) /\ voice.base # "openai.com"
    /\ voice.key = "tts" => voice.base \notin {"llm", "openrouter.ai"}

\* An engine that is not named is one that is installed and has all it needs.
EngineCanSpeak ==
    voice.provider = "command" /\ conf.engine = NotSet =>
        /\ voice.engine \in conf.installed
        /\ voice.engine = "piper" => conf.piperModel

\* A reply the caller has talked over is not spoken, whichever step of its making the
\* interruption fell into.
NeverTalksOver == [][utterance # "spoken" /\ utterance' = "spoken" /\ conf.requested # "silent"
                        /\ voice'.provider # "silent" => ~aborted]_speechVars

\* Nothing of an utterance is left behind: no file of the call's content, no engine.
NothingLeft == utterance \in {"spoken", "failed"} => ~workDir /\ ~engineRuns

\* An utterance ends though the provider, or the engine, does not.
UtteranceEnds == utterance = "requested" \/ utterance = "engine" ~> utterance \in {"spoken", "failed"}

\* The key goes only where its owner sent it, an engine that was not named can speak, and neither a
\* file nor an engine outlives its utterance.
SpeechIsSafe == SpeechTypeOK /\ KeyStaysHome /\ EngineCanSpeak /\ NothingLeft
=============================================================================
