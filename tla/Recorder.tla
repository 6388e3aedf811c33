------------------------------ MODULE Recorder ------------------------------
(***************************************************************************)
(* packages/audio-pipeline/src/recorder.ts: the far end of a call is teed  *)
(* into speech recognition and into a WAV file that has to be a valid one  *)
(* at every moment: after a crash, a full disk, or the cap.  Byte k of the *)
(* recording is the number k; what is on disk is what the process wrote,   *)
(* whether or not it lived to see the end of the call.                     *)
(***************************************************************************)
EXTENDS Naturals, Sequences

CONSTANTS
    MaxDataBytes,   \* maxBytes: the cap, a whole number of samples
    FlushBytes,     \* buffered bytes that are written out
    MaxFed,         \* bound: bytes of one call
    MaxPiece        \* bound: bytes of one chunk

ASSUME CapAssumption ==
    /\ MaxDataBytes \in Nat /\ MaxDataBytes % 2 = 0
    /\ FlushBytes \in Nat /\ MaxFed \in Nat /\ MaxPiece \in Nat

VARIABLES
    fd,             \* the file is open
    buffer,         \* pending: the bytes accepted and not yet written
    carry,          \* half a sample, in a set
    accepted,       \* acceptedBytes
    flushedBytes,   \* what the recorder believes is on disk
    capReached,
    capTold,        \* calls of onMaxDuration
    failure,        \* a write has failed
    result,         \* what close() returned, [bytes, failed, truncated], in a set
    disk,           \* the data of the file
    riffSize,       \* the header's two sizes
    dataSize,
    sidecar,        \* the metadata file, in a set
    branches,       \* of the tee: where a chunk goes
    heardBytes,     \* bytes speech recognition was given
    recorded,       \* bytes the recorder was given
    alive           \* the process

file == <<disk, riffSize, dataSize>>
written == <<fd, buffer, carry, accepted, flushedBytes, capReached, capTold, failure>>
recorderVars == <<written, result, file, sidecar, branches, heardBytes, recorded, alive>>

HeaderSize(bytes) == 36 + bytes
isClosed == result # {}

RecorderInit ==
    /\ fd = TRUE /\ buffer = <<>> /\ carry = {} /\ accepted = 0 /\ flushedBytes = 0
    /\ capReached = FALSE /\ capTold = 0 /\ failure = FALSE
    /\ result = {}
    /\ disk = <<>> /\ riffSize = HeaderSize(0) /\ dataSize = 0
    /\ sidecar = {}
    /\ branches = {"stt", "recorder"}
    /\ heardBytes = 0 /\ recorded = 0 /\ alive = TRUE

-----------------------------------------------------------------------------
(* flush(): the data, then the header's two sizes.  Each write may fail. *)

Stages == {"data", "riff", "size", "done"}

\* patchHeader()

Patched_First(stage) == [riff |-> TRUE, size |-> stage # "riff"]

Patched(stage) ==
    [riff |-> stage \in {"size", "done"}, size |-> stage = "done"]
\* The file after a flush of `bytes' that got as far as `stage', `kept' of the data having been written.
Written(bytes, stage, kept) ==
    disk' = SubSeq(disk, 1, flushedBytes) \o SubSeq(bytes, 1, IF stage = "data" THEN kept ELSE Len(bytes))
Sized(bytes, stage) ==
    LET total == flushedBytes + Len(bytes)
    IN /\ riffSize' = IF Patched(stage).riff THEN HeaderSize(total) ELSE riffSize
       /\ dataSize' = IF Patched(stage).size THEN total ELSE dataSize

\* Bytes that never reached the disk are not part of the recording.
FlushAs(bytes, stage, kept, taken) ==
    /\ stage = "data" \/ kept = 0
    /\ kept < Len(bytes) \/ kept = 0
    /\ stage = "data" => bytes # <<>>
    /\ Written(bytes, stage, kept)
    /\ Sized(bytes, stage)
    /\ flushedBytes' = IF stage = "data" THEN flushedBytes ELSE flushedBytes + Len(bytes)
    /\ buffer' = <<>>
    /\ failure' = (stage # "done")
    /\ accepted' = IF stage = "done" THEN taken ELSE flushedBytes'

Flushes(bytes, taken) == \E stage \in Stages, kept \in 0..MaxPiece : FlushAs(bytes, stage, kept, taken)

-----------------------------------------------------------------------------
(* write(): whole samples only, and no more of them than the cap has room for. *)

NewBytes(len) == [i \in 1..len |-> recorded + i - 1]
Joined(len) == (IF carry = {} THEN <<>> ELSE <<CHOOSE k \in carry : TRUE>>) \o NewBytes(len)
Room == MaxDataBytes - accepted
FullSamples(bytes) == (Len(bytes) \div 2) * 2
Taken(bytes) == IF FullSamples(bytes) > Room THEN Room ELSE FullSamples(bytes)
Full(total) == total >= MaxDataBytes

\* The recorder drops out of the tee when it throws: writing after a failure, or failing now.
DropBranch(thrown) == branches' = IF thrown THEN branches \ {"recorder"} ELSE branches

AppendSamples(len, timely) ==
    LET all == Joined(len)
        taken == Taken(all)
        bytes == buffer \o SubSeq(all, 1, taken)
        total == accepted + taken
    IN /\ carry' = IF Full(total) \/ Len(all) % 2 = 0 THEN {} ELSE {all[Len(all)]}
       /\ capReached' = Full(total)
       /\ IF Full(total) \/ Len(bytes) >= FlushBytes \/ timely
          THEN /\ Flushes(bytes, total)
               /\ capTold' = IF Full(total) /\ ~failure' THEN capTold + 1 ELSE capTold
          ELSE /\ buffer' = bytes /\ accepted' = total
               /\ UNCHANGED <<flushedBytes, failure, file, capTold>>

\* write() throws.
Refuses == isClosed \/ failure

\* One chunk of the far end, through the tee.  `timely': the flush interval is over.
Chunk(len, timely) ==
    /\ alive /\ heardBytes + len <= MaxFed
    /\ heardBytes' = IF "stt" \in branches THEN heardBytes + len ELSE heardBytes
    /\ IF "recorder" \notin branches
       THEN UNCHANGED <<written, file, branches, recorded>>
       ELSE /\ recorded' = IF Refuses THEN recorded ELSE recorded + len
            /\ IF Refuses THEN DropBranch(TRUE) /\ UNCHANGED <<written, file>>
               ELSE IF capReached THEN UNCHANGED <<written, file, branches>>
               ELSE AppendSamples(len, timely) /\ DropBranch(failure') /\ UNCHANGED fd
    /\ UNCHANGED <<result, sidecar, alive>>

-----------------------------------------------------------------------------
(* The end. *)

\* buildMetadata()
BuildMetadata(broken, bytes) == [bytes |-> bytes, failed |-> broken, truncated |-> capReached]

\* flush() does nothing once a write has failed.
Skips == failure

\* close(): flush, close the file, write the metadata next to it, whatever failed before that.
CloseRecorder(writes) ==
    /\ alive /\ ~isClosed
    /\ IF Skips THEN UNCHANGED <<file, flushedBytes, buffer, accepted, failure>>
       ELSE Flushes(buffer, accepted)
    /\ fd' = FALSE /\ carry' = {}
    /\ result' = {BuildMetadata(failure', flushedBytes')}
    /\ sidecar' = IF writes THEN result' ELSE {}
    /\ UNCHANGED <<capReached, capTold, branches, heardBytes, recorded, alive>>

\* close() again: what it returned the first time.
CloseAgain ==
    /\ alive /\ isClosed
    /\ UNCHANGED recorderVars

\* The process dies: between two calls, or in the middle of a flush.
Crash ==
    /\ alive
    /\ alive' = FALSE
    /\ \/ UNCHANGED file
       \/ /\ fd /\ ~failure
          /\ \E stage \in Stages, kept \in 0..MaxPiece :
                /\ kept < Len(buffer) \/ kept = 0
                /\ Written(buffer, stage, kept) /\ Sized(buffer, stage)
    /\ UNCHANGED <<written, result, sidecar, branches, heardBytes, recorded>>

RecorderNext ==
    \/ \E len \in 0..MaxPiece, timely \in BOOLEAN : Chunk(len, timely)
    \/ \E writes \in BOOLEAN : CloseRecorder(writes)
    \/ CloseAgain
    \/ Crash

RecorderSpec == RecorderInit /\ [][RecorderNext]_recorderVars

-----------------------------------------------------------------------------
(* Properties. *)

\* At every moment, after any failure or crash, the file is a recording: its header claims no more
\* data than is there, a whole number of samples within the cap, and the data is the call's own.
AlwaysPlayable ==
    /\ dataSize <= Len(disk)
    /\ dataSize % 2 = 0 /\ dataSize <= MaxDataBytes
    /\ riffSize >= HeaderSize(dataSize)
    /\ \A i \in DOMAIN disk : disk[i] = i - 1

\* A call recorded without a failure is recorded whole, up to the cap: when it is isClosed the header,
\* the data and the metadata agree, and only a half sample at the end is missing.
RecordedWhole ==
    \A r \in result : ~r.failed =>
        /\ dataSize = r.bytes /\ Len(disk) = r.bytes
        /\ riffSize = HeaderSize(dataSize)
        /\ r.bytes = IF r.truncated THEN MaxDataBytes ELSE (recorded \div 2) * 2

\* A recording that breaks never costs the call its ears, and says that it broke.
HearingSurvives ==
    /\ "stt" \in branches
    /\ "recorder" \notin branches => failure \/ isClosed

\* Nothing is written to a recording once it is isClosed or has failed, and what is on disk is never
\* taken back: a chunk that comes late, or a second close(), finds it as it is.
OnlyGrows ==
    [][/\ \A i \in 1..dataSize : i \in DOMAIN disk' /\ disk'[i] = disk[i]
       /\ dataSize' >= dataSize
       /\ isClosed \/ failure => UNCHANGED file /\ (isClosed => UNCHANGED result)]_recorderVars

\* The file of a call can be played at every moment, and what of it is there is what was said.
RecordingIsWhole == AlwaysPlayable /\ RecordedWhole /\ HearingSurvives
=============================================================================
