---------------------------- MODULE VoiceActivity ---------------------------
(***************************************************************************)
(* packages/audio-pipeline/src: normalize() of pcm.ts turns each buffer of *)
(* the source by itself into samples of the target rate, pipeline.ts       *)
(* gathers them into chunks and marks where an utterance starts and ends,  *)
(* vad.ts decides frame by frame whether someone speaks, RemoteInStream of *)
(* dualStream.ts keeps one pipeline per format of the source.  Samples are *)
(* counted; a frame is TRUE when its energy is above the threshold, and any*)
(* frame may be: a byte dropped from a buffer shifts all that follows.     *)
(***************************************************************************)
EXTENDS Naturals, Sequences, SequencesExt

CONSTANTS
    StartFrames,    \* frames of speech in a row that start an utterance
    HangoverFrames, \* frames of silence in a row that are still part of it
    FramesPerChunk, \* frames of one chunk
    FrameSamples,   \* samples of one frame
    TargetRate,     \* samples per unit of time that a pipeline makes
    PcmFormats,     \* what a source may report: [width, rate], bytes of a sample of all channels
    BufferSizes,    \* bytes of one buffer
    MaxBuffers      \* bound: buffers pushed to one pipeline

ASSUME FramesAssumption ==
    StartFrames \in Nat \ {0} /\ HangoverFrames \in Nat /\ FramesPerChunk \in Nat \ {0}

ASSUME SamplesAssumption ==
    /\ FrameSamples \in Nat \ {0} /\ TargetRate \in Nat \ {0}
    /\ PcmFormats \subseteq [width : Nat \ {0}, rate : Nat \ {0}]
    /\ BufferSizes \subseteq Nat

VARIABLES
    emitSilence,    \* chunks without speech are sent on too
    inputFormat,    \* the format in use
    bytesIn,        \* bytes pushed to this pipeline
    buffers,        \* in how many buffers
    normalized,     \* samples that normalize() has made of them
    unframed,       \* those that are not in a frame yet
    vad,            \* [active, speechRuns, silenceRuns]
    pending,        \* frames of the chunk being gathered
    inUtterance,    \* an utterance has started and not ended
    lastEmitted,    \* the chunk sent last, in a set
    pipeline,       \* RemoteInStream.pipeline: whether there is one
    ended,          \* of the stream: nothing is pushed any more
    judged,         \* frames this pipeline has judged
    sent            \* chunks of this pipeline, as their reader sees them now

buffering == <<bytesIn, buffers, normalized>>
detecting == <<vad, pending, inUtterance, lastEmitted, judged, sent>>
voiceVars == <<emitSilence, inputFormat, buffering, unframed, detecting, pipeline, ended>>

Quiet == [active |-> FALSE, speechRuns |-> 0, silenceRuns |-> 0]

VoiceInit ==
    /\ emitSilence \in BOOLEAN /\ inputFormat \in PcmFormats
    /\ bytesIn = 0 /\ buffers = 0 /\ normalized = 0 /\ unframed = 0
    /\ vad = Quiet
    /\ pending = <<>> /\ inUtterance = FALSE /\ lastEmitted = {}
    /\ pipeline = FALSE /\ ended = FALSE
    /\ judged = <<>> /\ sent = <<>>

\* normalize(): bytes that make no whole sample are dropped, and each buffer is resampled by itself,
\* its length rounded to the nearest number of samples.
Normalized(len) ==
    LET n == len \div inputFormat.width
    IN (2 * n * TargetRate + inputFormat.rate) \div (2 * inputFormat.rate)

\* EnergyVad.process()

Judge(v, speech) ==
    IF speech
    THEN [v EXCEPT !.silenceRuns = 0, !.speechRuns = @ + 1,
                   !.active = @ \/ v.speechRuns + 1 >= StartFrames]
    ELSE [v EXCEPT !.speechRuns = 0,
                   !.silenceRuns = IF v.active THEN @ + 1 ELSE @,
                   !.active = @ /\ v.silenceRuns + 1 <= HangoverFrames]

\* The detector after each frame of a chunk.
Judgements(chunk) ==
    LET after[i \in 0..Len(chunk)] == IF i = 0 THEN vad ELSE Judge(after[i - 1], chunk[i])
    IN [i \in DOMAIN chunk |-> after[i]]

Voiced(vs) == \E i \in DOMAIN vs : vs[i].active
Opens(active) == active /\ ~inUtterance
Sends(active) == active \/ emitSilence
Closes(open, active, v) == open /\ ~active /\ ~v.active

\* processChunk(): send it, marked if an utterance starts in it; or end the one that was open, by
\* marking the chunk sent last, which may be this one.
Processed(chunk) ==
    LET vs == Judgements(chunk)
        active == Voiced(vs)
        open == inUtterance \/ active
        over == Closes(open, active, Last(vs))
        all == IF Sends(active) THEN Append(sent, [starts |-> Opens(active), ends |-> FALSE]) ELSE sent
        last == IF Sends(active) THEN {Len(all)} ELSE lastEmitted
    IN [vad |-> Last(vs), open |-> open /\ ~over, last |-> last,
        sent |-> [i \in DOMAIN all |-> IF over /\ i \in last THEN [all[i] EXCEPT !.ends = TRUE] ELSE all[i]]]
ProcessChunk(chunk) ==
    LET done == Processed(chunk)
    IN /\ vad' = done.vad /\ inUtterance' = done.open /\ lastEmitted' = done.last /\ sent' = done.sent
       /\ judged' = judged \o chunk

\* What came in is in frames as far as it goes: push() does not return before.
Framed == unframed < FrameSamples

\* RemoteInStream.push() and AudioPipeline.push(): one buffer.
Push(len) ==
    /\ ~ended /\ Framed /\ buffers < MaxBuffers
    /\ bytesIn' = bytesIn + len /\ buffers' = buffers + 1
    /\ normalized' = normalized + Normalized(len) /\ unframed' = unframed + Normalized(len)
    /\ pipeline' = TRUE
    /\ UNCHANGED <<emitSilence, inputFormat, detecting, ended>>

\* drain(), frame by frame, since the chunks of a buffer are processed one after the other.
DrainFrame(speech) ==
    /\ ~Framed
    /\ unframed' = unframed - FrameSamples
    /\ IF Len(pending) + 1 < FramesPerChunk
       THEN pending' = Append(pending, speech) /\ UNCHANGED <<vad, inUtterance, lastEmitted, sent, judged>>
       ELSE pending' = <<>> /\ ProcessChunk(Append(pending, speech))
    /\ UNCHANGED <<emitSilence, inputFormat, buffering, pipeline, ended>>

\* format(): another format drops the pipeline with all it holds; the next push makes a new one.
ReportFormat(f) ==
    /\ Framed /\ f # inputFormat
    /\ inputFormat' = f /\ pipeline' = FALSE
    /\ bytesIn' = 0 /\ buffers' = 0 /\ normalized' = 0 /\ unframed' = 0
    /\ vad' = Quiet /\ pending' = <<>> /\ inUtterance' = FALSE /\ lastEmitted' = {}
    /\ judged' = <<>> /\ sent' = <<>>
    /\ UNCHANGED <<emitSilence, ended>>

\* RemoteInStream.end() and AudioPipeline.end(): what is left is a last, shorter chunk, and its last
\* frame may be a shorter one.
RestChunk(speech) == pending \o (IF unframed = 0 THEN <<>> ELSE <<speech>>)
EndStream(speech) ==
    /\ ~ended /\ Framed
    /\ ended' = TRUE
    /\ IF RestChunk(speech) # <<>>
       THEN LET done == Processed(RestChunk(speech))
            IN sent' = done.sent /\ lastEmitted' = done.last /\ judged' = judged \o RestChunk(speech)
       ELSE UNCHANGED <<sent, lastEmitted, judged>>
    /\ pending' = <<>> /\ unframed' = 0 /\ vad' = Quiet /\ inUtterance' = FALSE
    /\ UNCHANGED <<emitSilence, inputFormat, buffering, pipeline>>

VoiceNext ==
    \/ \E len \in BufferSizes : Push(len)
    \/ \E speech \in BOOLEAN : DrainFrame(speech) \/ EndStream(speech)
    \/ \E f \in PcmFormats : ReportFormat(f)

-----------------------------------------------------------------------------
(* Properties. *)

\* What a pipeline makes of a stream depends on how the stream was cut, but only so much: a buffer
\* loses less than one sample of the source and is off by at most half a sample of the target, and what
\* normalize() has made of it is in a frame or waits for one (pcm.ts:33-73, pipeline.ts:79-106).
CutsCostLittle ==
    LET w == inputFormat.width
        r == inputFormat.rate
        made == 2 * w * r * normalized
        meant == 2 * TargetRate * bytesIn
    IN /\ made <= meant + w * r * buffers
       /\ made + (2 * TargetRate * (w - 1) + w * r) * buffers >= meant
NoSampleIsLost ==
    ~ended => normalized = (Len(judged) + Len(pending)) * FrameSamples + unframed

\* What vad.ts:4-5 says of the caller's slices, read as: no cut changes how much sound the detector
\* judges.  Not so: see README.md.
SlicesDoNotShow == normalized = Normalized(bytesIn)

\* Speech is on after frame n exactly when StartFrames of speech in a row came before it and no
\* HangoverFrames + 1 of silence in a row since then: however the frames fell into chunks and buffers.
SpeechOn(n) ==
    \E s \in StartFrames..n :
        /\ \A i \in (s - StartFrames + 1)..s : judged[i]
        /\ \A e \in (s + 1 + HangoverFrames)..n : \E i \in (e - HangoverFrames)..e : judged[i]
DetectorRemembers == ended \/ (vad.active <=> SpeechOn(Len(judged)))

\* Utterances never overlap and none is left open: starts and ends alternate in what a reader was
\* sent, and the stream is inside an utterance exactly when the last start has no end after it.
Marks == {i \in DOMAIN sent : sent[i].starts \/ sent[i].ends}
UtterancesPair ==
    /\ \A i, k \in Marks :
          i < k /\ (\A j \in Marks : j <= i \/ k <= j) => (sent[k].starts <=> sent[i].ends)
    /\ \A k \in Marks : (\A i \in Marks : k <= i) => sent[k].starts
    /\ ~ended => (inUtterance <=> \E k \in Marks : ~sent[k].ends /\ \A i \in Marks : i <= k)

\* An utterance does not outlive its hangover: it is open only while the detector is, or for the rest
\* of the chunk in which the detector closed.
SilenceEndsIt ==
    inUtterance => \E n \in (Len(judged) - FramesPerChunk + 1)..Len(judged) : SpeechOn(n)
=============================================================================
