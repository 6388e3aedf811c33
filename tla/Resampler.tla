------------------------------ MODULE Resampler -----------------------------
(***************************************************************************)
(* packages/audio-pipeline/src/resample.ts: a stream of 16-bit samples is  *)
(* converted chunk by chunk, and chunks are cut anywhere, in the middle of *)
(* a sample too.  Byte k of a stream is the number k, so a sample is named *)
(* by its first byte; an output sample is named by its two neighbours and  *)
(* the fraction between them, and the lookup of values is left out.        *)
(***************************************************************************)
EXTENDS Naturals, Integers, Sequences

CONSTANTS
    RatePairs,      \* pairs <<fromRate, toRate>>, in a common unit
    MaxBytes,       \* bound: bytes of one stream
    MaxChunk        \* bound: bytes of one chunk

ASSUME RatesAssumption ==
    /\ RatePairs \subseteq (Nat \ {0}) \X (Nat \ {0})
    /\ MaxBytes \in Nat /\ MaxChunk \in Nat

VARIABLES
    rates,          \* of this resampler
    inTotal,        \* samples consumed since the last reset
    outIndex,       \* samples emitted since the last reset
    prev,           \* the last sample of the chunk before; 0 after a reset
    pendingByte,    \* half a sample waits for its other half, in a set
    slack,          \* room left in the scratch buffer after the last chunk
    fed,            \* bytes of this stream so far
    made,           \* what came out of it
    flushed         \* this stream is over: the next chunk starts another

resamplerVars == <<rates, inTotal, outIndex, prev, pendingByte, slack, fed, made, flushed>>
resampling == <<inTotal, outIndex, prev, pendingByte>>

fromRate == rates[1]
toRate == rates[2]
identity == fromRate = toRate
CeilDiv(a, b) == (a + b - 1) \div b

\* lerpInt16: at the fraction 0 it is the left sample, whatever the right one.
Lerp(a, b, num) == IF num = 0 \/ a = b THEN <<a, a, 0>> ELSE <<a, b, num>>

ResamplerInit ==
    /\ rates \in RatePairs
    /\ inTotal = 0 /\ outIndex = 0 /\ prev = 0 /\ pendingByte = {}
    /\ slack = 0 /\ fed = 0 /\ made = <<>> /\ flushed = FALSE

\* The first byte of buf: the carried one, or the chunk's own first.

WithCarriedByte_Dropped(first) == first

WithCarriedByte(first) == IF pendingByte = {} THEN first ELSE CHOOSE k \in pendingByte : TRUE

\* What a buffer that starts at byte `base' and holds n samples releases: every output position below
\* the last sample, which has both its neighbours here, or the left one in `prev'.
Limit(n) == inTotal + n - 1
Released(base, n) ==
    LET count == CeilDiv(Limit(n) * toRate, fromRate) - outIndex
        Out(j) == LET num == j * fromRate - inTotal * toRate
                      i0 == num \div toRate
                  IN Lerp(IF i0 < 0 THEN prev ELSE base + 2 * i0, base + 2 * (i0 + 1), num % toRate)
    IN [i \in 1..(IF count > 0 THEN count ELSE 0) |-> Out(outIndex + i - 1)]
Capacity(n) == CeilDiv(n * toRate, fromRate) + 2

\* process(): one chunk of len bytes.  The first one after a flush starts a stream of its own.
Process(len) ==
    LET first == IF flushed THEN 0 ELSE fed
        sofar == IF flushed THEN <<>> ELSE made
        base == WithCarriedByte(first)
        bytes == first + len - base
        n == bytes \div 2
        out == Released(base, n)
    IN /\ first + len <= MaxBytes
       /\ fed' = first + len /\ flushed' = FALSE
       /\ IF identity
          THEN /\ inTotal' = fed' \div 2 /\ outIndex' = inTotal'
               /\ made' = sofar \o [i \in 1..len |-> first + i - 1]
               /\ UNCHANGED <<prev, pendingByte, slack>>
          ELSE /\ pendingByte' = IF bytes % 2 = 1 THEN {first + len - 1} ELSE {}
               /\ made' = sofar \o (IF n = 0 THEN <<>> ELSE out)
               /\ IF n = 0 THEN UNCHANGED <<inTotal, outIndex, prev, slack>>
                  ELSE /\ outIndex' = outIndex + Len(out)
                       /\ slack' = Capacity(n) - Len(out)
                       /\ prev' = base + 2 * (n - 1)
                       /\ inTotal' = inTotal + n
       /\ UNCHANGED rates

\* flush(): the outputs held back all lie on the last sample; then everything carried is forgotten.
Reset == inTotal' = 0 /\ outIndex' = 0 /\ prev' = 0 /\ pendingByte' = {}
Flush ==
    LET remaining == CeilDiv(inTotal * toRate, fromRate) - outIndex
    IN /\ ~flushed
       /\ flushed' = TRUE
       /\ made' = IF identity \/ remaining <= 0 THEN made
                  ELSE made \o [i \in 1..remaining |-> <<prev, prev, 0>>]
       /\ Reset
       /\ UNCHANGED <<rates, slack, fed>>

ResamplerNext == Flush \/ \E len \in 0..MaxChunk : Process(len)

-----------------------------------------------------------------------------
(* Properties. *)

\* The whole stream converted at once: position j * from / to, between a sample and the one after it,
\* the last sample standing in for what comes after it.
Whole(samples) ==
    [i \in 1..CeilDiv(samples * toRate, fromRate) |->
        LET num == (i - 1) * fromRate
            left == num \div toRate
            right == IF left + 1 < samples THEN left + 1 ELSE left
        IN Lerp(2 * left, 2 * right, num % toRate)]

\* However a stream is cut into chunks, what comes out is what the whole of it converted at once
\* gives: no sample is lost, doubled or read across its bytes, at the seams or after a reset.
ChunksDoNotShow ==
    identity \/ LET whole == Whole(fed \div 2)
                IN /\ Len(made) <= Len(whole)
                   /\ SubSeq(whole, 1, Len(made)) = made
                   /\ flushed => made = whole

\* One chunk never writes past the buffer made for it (resample.ts: "Bounded by ... + 1"), and the
\* counters a caller sizes its sends by are those of the stream.
BuffersSuffice ==
    /\ slack >= 0
    /\ ~flushed => inTotal = fed \div 2
    /\ ~identity /\ ~flushed => outIndex = Len(made)
=============================================================================
