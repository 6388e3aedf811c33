------------------------------- MODULE MCMedia ------------------------------
(* The media of a conversation: the audio of a call, stage by stage, from the *)
(* phone to the model and back, the replies of a call, and those to a text.   *)
(* `part' says which of them a behaviour is about.  They share no state.      *)
(*   agent    the agent alone, asked at any time, as its interface allows     *)
(*   text     the agent behind the text bridge: two customers, three messages *)
EXTENDS Capture, WavStream, VoiceActivity, Resampler, Recorder, Playback, VoiceAgentBridge,
        TextBridge

CONSTANTS m1, m2, m3, ann, bob

VARIABLE part

audioVars == <<captureVars, wavVars, voiceVars, resamplerVars, recorderVars, playbackVars>>
allVars == <<part, audioVars, vars, textVars>>

MCLines == {ann, bob}
MCQuestions == {m1, m2, m3}

MCRates == {<<2, 3>>, <<3, 2>>, <<1, 3>>, <<3, 1>>, <<1, 1>>, <<3, 5>>}

\* Mono at half as much again as the target, stereo at its rate.
MCFormats == {[width |-> 2, rate |-> 3], [width |-> 4, rate |-> 2]}

MCHeader == RIFF \o <<1, WAVE>>
MCSound == <<fmt, 1, Name(8), data, 2, Name(9), Name(10), Name(9)>>
MCStreams ==
    {MCHeader \o MCSound,
     <<Name(0), Name(1), Name(2)>> \o MCHeader \o <<Name(7), 2, data, fmt>> \o MCSound,
     RIFF \o <<1, Name(0)>> \o MCHeader \o MCSound,
     MCHeader \o <<data, 2, Name(9), Name(9)>>,
     MCHeader \o <<Name(7), Name(9), Name(9)>> \o MCSound,
     MCHeader \o <<fmt, 0>> \o MCSound}

MCInit ==
    /\ part \in {"capture", "wav", "voice", "resampler", "recorder", "playback", "bridge", "agent",
                "text"}
    /\ CaptureInit /\ WavInit /\ VoiceInit /\ ResamplerInit /\ RecorderInit /\ PlaybackInit
    /\ Init /\ TextInit
    /\ part = "capture" \/ ~pinned
    /\ part = "wav" \/ stream = MCHeader \o MCSound
    /\ part = "voice" \/ (emitSilence /\ inputFormat.width = 2)
    /\ part = "resampler" \/ rates = <<2, 3>>
    /\ part = "bridge" \/ persona = "greets"
    /\ lineOf = [t \in Questions |-> IF t = m3 THEN bob ELSE ann]

MCNext ==
    \/ /\ part = "capture" /\ CaptureNext
       /\ UNCHANGED <<part, wavVars, voiceVars, resamplerVars, recorderVars, playbackVars, vars, textVars>>
    \/ /\ part = "wav" /\ WavNext
       /\ UNCHANGED <<part, captureVars, voiceVars, resamplerVars, recorderVars, playbackVars, vars, textVars>>
    \/ /\ part = "voice" /\ VoiceNext
       /\ UNCHANGED <<part, captureVars, wavVars, resamplerVars, recorderVars, playbackVars, vars, textVars>>
    \/ /\ part = "resampler" /\ ResamplerNext
       /\ UNCHANGED <<part, captureVars, wavVars, voiceVars, recorderVars, playbackVars, vars, textVars>>
    \/ /\ part = "recorder" /\ RecorderNext
       /\ UNCHANGED <<part, captureVars, wavVars, voiceVars, resamplerVars, playbackVars, vars, textVars>>
    \/ /\ part = "playback" /\ PlaybackNext
       /\ UNCHANGED <<part, captureVars, wavVars, voiceVars, resamplerVars, recorderVars, vars, textVars>>
    \/ part = "bridge" /\ Next /\ UNCHANGED <<part, audioVars, textVars>>
    \/ part = "agent" /\ AgentNext /\ UNCHANGED <<part, audioVars, vars, serviceVars, routerVars, posts>>
    \/ part = "text" /\ TextNext /\ UNCHANGED <<part, audioVars, vars>>

\* Timers fire; a process that was told to stop, or killed, or could not start, says so in the end;
\* what is in a pipe is read.
MCFairness ==
    /\ WF_captureVars(StartTimesOut)
    /\ \A s \in Sources :
        /\ WF_captureVars(process[s] = "stopping" /\ ProcessExits(s))
        /\ WF_captureVars(~Alive(s) /\ (ReadHeader(s) \/ ReadSamples(s) \/ ReadGarbage(s)))
        /\ WF_captureVars(FinishRun(s))
    /\ \A p \in Players :
        /\ WF_playbackVars(player[p] = "killed" /\ PlayerCloses(p))
        /\ WF_playbackVars(SpawnFails(p) \/ SpawnSucceeds(p))
    /\ WF_playbackVars(ForceKill) /\ WF_playbackVars(Tick)
    /\ Settling
    /\ TextFairness

MCSpec == MCInit /\ [][MCNext]_allVars /\ MCFairness

\* However the bytes of a call are cut, the same sound comes out of the WAV parser and of the resampler
\* before a Voice Agent, and no buffer overflows; the pipeline before speech recognition, which does mind,
\* loses little at a cut and no sample after it, and marks the utterances of the frames it judged.
SoundIsWhole ==
    /\ CutsDoNotShow /\ ChunksDoNotShow /\ BuffersSuffice
    /\ CutsCostLittle /\ NoSampleIsLost
    /\ DetectorRemembers /\ UtterancesPair /\ SilenceEndsIt

\* One source and one player at a time, the source that was asked for, and nothing of a reply that was
\* cut off is heard.
OneSourceOnePlayer == OnlyOneRuns /\ PinIsKept /\ OnePlayer /\ NothingStaleIsHeard

\* Capture comes up or gives up, processes and players go when they are told to, a recording only
\* grows, and a text that was accepted is dealt with.
MediaGoesOn == CaptureSettles /\ ProcessesGo /\ PlayersGo /\ OnlyGrows /\ AcceptedIsSettled
=============================================================================
