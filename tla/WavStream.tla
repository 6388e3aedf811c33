------------------------------ MODULE WavStream -----------------------------
(***************************************************************************)
(* packages/scrcpy-bridge/src/wavStream.ts: the header of a WAV stream is  *)
(* found and read while the bytes arrive, cut anywhere.  A symbol stands   *)
(* for the bytes of one field, except that the signature RIFF keeps its    *)
(* four bytes, since the search for it is the only one that may see a part *)
(* of what it looks for; a chunk is its name, its size and its body.       *)
(***************************************************************************)
EXTENDS Naturals, Sequences, SequencesExt

CONSTANTS
    Streams,        \* the streams that are tried
    MaxSize         \* the largest chunk that is still read

ASSUME StreamsAssumption == Streams \subseteq Seq(Nat) /\ MaxSize \in Nat

VARIABLES
    stream,         \* what is being sent
    read,           \* symbols of it that have arrived
    parsing,          \* "sync", "chunks", "data", "failed"
    held,           \* symbols not dealt with yet
    formats,        \* formats reported, in order
    pcm             \* samples passed on

wavVars == <<stream, read, parsing, held, formats, pcm>>

\* Symbols are numbers: up to MaxSize a size, above it a name, a byte of a signature, or a payload.
Name(i) == MaxSize + 1 + i
RIFF == <<Name(1), Name(2), Name(3), Name(3)>>
WAVE == Name(4)
fmt == Name(5)
data == Name(6)
HeaderSymbols == 6          \* RIFF, its size, and WAVE
TailKept == 3

WavInit ==
    /\ stream \in Streams
    /\ read = 0 /\ parsing = "sync" /\ held = <<>> /\ formats = <<>> /\ pcm = <<>>

\* Positions of the signature in a buffer.
Signatures(b) == {i \in 1..(Len(b) - 3) : SubSeq(b, i, i + 3) = RIFF}
First(S) == CHOOSE i \in S : \A j \in S : i <= j
From(b, i) == SubSeq(b, i, Len(b))

KeepTail(b) == IF Len(b) > TailKept THEN From(b, Len(b) - TailKept + 1) ELSE b

\* The search: what of the buffer is left, and in which state.
Synced(b) ==
    IF Signatures(b) = {} THEN [state |-> "sync", held |-> KeepTail(b)]
    ELSE LET found == From(b, First(Signatures(b)))
         IN IF Len(found) < HeaderSymbols THEN [state |-> "sync", held |-> found]
            ELSE IF found[HeaderSymbols] # WAVE THEN [state |-> "sync", held |-> From(found, 5)]
            ELSE [state |-> "chunks", held |-> From(found, HeaderSymbols + 1)]

\* The next chunk up to `data', if it has arrived, and what is left then.
Done(s, b, fmts, out) == [state |-> s, held |-> b, formats |-> fmts, out |-> out]
OneChunk(p) ==
    LET b == p.held
    IN IF p.state # "chunks" \/ Len(b) < 2 THEN p
       ELSE IF b[1] = data
       THEN IF p.formats = <<>> THEN Done("failed", <<>>, p.formats, <<>>)
            ELSE Done("data", <<>>, p.formats, From(b, 3))
       ELSE IF b[2] > MaxSize THEN Done("failed", <<>>, p.formats, <<>>)
       ELSE IF Len(b) < 2 + b[2] THEN p
       ELSE IF b[1] = fmt /\ b[2] = 0 THEN Done("failed", <<>>, p.formats, <<>>)
       ELSE Done("chunks", From(b, 3 + b[2]), IF b[1] = fmt THEN Append(p.formats, b[3]) ELSE p.formats, <<>>)

\* One chunk after the other: a chunk takes two symbols at least, so there are enough rounds.
Chunks(p) ==
    LET after[i \in 0..Len(p.held)] == IF i = 0 THEN p ELSE OneChunk(after[i - 1])
    IN after[Len(p.held)]
ChunksOf(b, fmts) == Chunks(Done("chunks", b, fmts, <<>>))

\* push()
PushBytes(n) ==
    LET chunk == SubSeq(stream, read + 1, read + n)
        synced == IF parsing = "sync" THEN Synced(held \o chunk)
                  ELSE [state |-> "chunks", held |-> held \o chunk]
    IN /\ n > 0 /\ read + n <= Len(stream)
       /\ read' = read + n
       /\ CASE parsing = "failed" -> UNCHANGED <<parsing, held, formats, pcm>>
            [] parsing = "data" -> pcm' = pcm \o chunk /\ UNCHANGED <<parsing, held, formats>>
            [] OTHER ->
                IF synced.state = "sync" THEN held' = synced.held /\ UNCHANGED <<parsing, formats, pcm>>
                ELSE LET parsed == ChunksOf(synced.held, formats)
                     IN /\ parsing' = parsed.state /\ held' = parsed.held
                        /\ formats' = parsed.formats /\ pcm' = parsed.out
       /\ UNCHANGED stream

WavNext == \E n \in 1..Len(stream) : PushBytes(n)

-----------------------------------------------------------------------------
(* Properties. *)

\* What a stream means that arrives in one piece: the first RIFF of a WAVE, then its chunks.
Starts(b) == {i \in Signatures(b) : i + 5 <= Len(b) /\ b[i + 5] = WAVE}
Meaning(b) ==
    IF Starts(b) = {} THEN Done("sync", <<>>, <<>>, <<>>)
    ELSE ChunksOf(From(b, First(Starts(b)) + HeaderSymbols), <<>>)

\* However the bytes are cut, what has been read of them means what they mean in one piece: the
\* format is the same and is known before the first sample, and no sample is lost, doubled or taken
\* for a header; a header is missed at most until the next bytes arrive.
CutsDoNotShow ==
    LET whole == Meaning(SubSeq(stream, 1, read))
    IN IF parsing = "sync" THEN Signatures(held) = {} => whole.state = "sync"
       ELSE /\ pcm = whole.out /\ formats = whole.formats /\ parsing = whole.state
            /\ pcm # <<>> => formats # <<>>
=============================================================================
