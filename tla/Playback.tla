------------------------------ MODULE Playback ------------------------------
(***************************************************************************)
(* The agent's voice on its way into a call: LocalOutStream of             *)
(* packages/audio-pipeline/src/dualStream.ts, with its generations and its *)
(* estimate of what is still playing, over CommandAudioInjector of         *)
(* packages/orchestrator/src/audioInjector.ts, which pipes samples into a  *)
(* player process and kills it to interrupt it.  Time passes in ticks, and *)
(* a piece of audio lasts one.                                             *)
(***************************************************************************)
EXTENDS Naturals, FiniteSets

CONSTANTS
    MaxPlayers,     \* bound: player processes of one call
    MaxPieces,      \* bound: pieces of audio of one call
    GracePeriod     \* ticks a player is given to drain

ASSUME PlaybackAssumption ==
    MaxPlayers \in Nat /\ MaxPieces \in Nat /\ GracePeriod \in Nat \ {0}

Players == 1..MaxPlayers

VARIABLES
    generation,     \* of the utterance
    utteranceOpen,  \* more of it is coming
    tokens,         \* generations of replies whose audio is still being produced
    remaining,      \* ticks until playingUntil; 0 once it has passed
    outEnded,       \* LocalOutStream.ended, which is the injector's too
    proc,           \* CommandAudioInjector.proc, in a set
    player,         \* of each process: "none", "spawning", "playing", "killed", "draining", "exited"
    queued,         \* generations of the pieces in each player's buffer
    grace,          \* ticks until a draining player is killed
    pieces          \* pieces written

playbackVars == <<generation, utteranceOpen, tokens, remaining, outEnded, proc, player, queued,
                  grace, pieces>>
estimate == <<utteranceOpen, remaining>>
players == <<proc, player, queued, grace>>

PlaybackInit ==
    /\ generation = 0 /\ utteranceOpen = FALSE /\ tokens = {}
    /\ remaining = 0 /\ outEnded = FALSE
    /\ proc = {}
    /\ player = [p \in Players |-> "none"]
    /\ queued = [p \in Players |-> {}]
    /\ grace = 0 /\ pieces = 0

isSpeaking == ~outEnded /\ (utteranceOpen \/ remaining > 0)
Running(p) == player[p] \in {"spawning", "playing", "draining"}
Next1 == CHOOSE p \in Players : player[p] = "none" /\ \A q \in 1..(p - 1) : player[q] # "none"

-----------------------------------------------------------------------------
(* LocalOutStream. *)

\* beginUtterance(): its token is the generation of now.
BeginUtterance ==
    /\ tokens' = tokens \cup {generation}
    /\ utteranceOpen' = TRUE
    /\ UNCHANGED <<generation, remaining, outEnded, players, pieces>>

EndUtterance ==
    /\ utteranceOpen
    /\ utteranceOpen' = FALSE
    /\ UNCHANGED <<generation, tokens, remaining, outEnded, players, pieces>>

\* ensureProcess(): the process in hand, or a new one.
HasProcess == proc # {}
Spawns == ~HasProcess
EnsureProcess(p) ==
    IF Spawns
    THEN p = Next1 /\ proc' = {p} /\ player' = [player EXCEPT ![p] = "spawning"]
    ELSE p \in proc /\ UNCHANGED <<proc, player>>

\* speak(): audio of a generation that was cancelled is dropped.

Dropped(token) == outEnded \/ token # generation
Speak(token) ==
    /\ token \in tokens
    /\ ~Dropped(token)
    /\ pieces < MaxPieces
    /\ Spawns => \E p \in Players : player[p] = "none"
    /\ \E p \in Players :
        /\ EnsureProcess(p)
        /\ queued' = [queued EXCEPT ![p] = @ \cup {token}]
    /\ pieces' = pieces + 1
    /\ remaining' = remaining + 1
    /\ UNCHANGED <<generation, utteranceOpen, tokens, outEnded, grace>>

\* The samples of an utterance are all produced, or thrown away.
Forget(token) ==
    /\ token \in tokens
    /\ tokens' = tokens \ {token}
    /\ UNCHANGED <<generation, estimate, outEnded, players, pieces>>

\* cancel(): the next generation; the player is killed, since it cannot be told to drop its buffer.
Kill == proc' = {} /\ player' = [p \in Players |-> IF p \in proc THEN "killed" ELSE player[p]]
Cancel ==
    /\ generation < MaxPlayers
    /\ generation' = generation + 1
    /\ utteranceOpen' = FALSE /\ remaining' = 0
    /\ IF outEnded THEN UNCHANGED players ELSE Kill /\ UNCHANGED <<queued, grace>>
    /\ UNCHANGED <<tokens, outEnded, pieces>>

\* end(): once; the player is left to drain, but only for so long.
DrainTimer == grace' = IF proc = {} THEN grace ELSE GracePeriod
EndPlayback ==
    /\ ~outEnded
    /\ outEnded' = TRUE
    /\ utteranceOpen' = FALSE /\ remaining' = 0
    /\ proc' = {}
    /\ player' = [p \in Players |-> IF p \in proc THEN "draining" ELSE player[p]]
    /\ DrainTimer
    /\ UNCHANGED <<generation, tokens, queued, pieces>>

-----------------------------------------------------------------------------
(* The player processes. *)

\* A process that could not be started reports it at once, before anything else happens.
SpawnFails(p) ==
    /\ player[p] = "spawning"
    /\ player' = [player EXCEPT ![p] = "exited"]
    /\ proc' = {}
    /\ UNCHANGED <<generation, estimate, tokens, outEnded, queued, grace, pieces>>

SpawnSucceeds(p) ==
    /\ player[p] = "spawning"
    /\ player' = [player EXCEPT ![p] = "playing"]
    /\ UNCHANGED <<generation, estimate, tokens, outEnded, proc, queued, grace, pieces>>

ForgetProcess_Any(p) == proc' = {}

\* The process is gone: killed, drained or crashed.  Its close event forgets it, and no other.
ForgetProcess(p) == proc' = proc \ {p}
PlayerCloses(p) ==
    /\ player[p] \in {"playing", "killed", "draining"}
    /\ player' = [player EXCEPT ![p] = "exited"]
    /\ ForgetProcess(p)
    /\ grace' = IF player[p] = "draining" THEN 0 ELSE grace
    /\ UNCHANGED <<generation, estimate, tokens, outEnded, queued, pieces>>

\* The drain timer: whatever has not exited by then is killed.
ForceKill ==
    /\ grace = 1
    /\ grace' = 0
    /\ player' = [p \in Players |-> IF player[p] = "draining" THEN "killed" ELSE player[p]]
    /\ UNCHANGED <<generation, estimate, tokens, outEnded, proc, queued, pieces>>

\* One tick: playingUntil comes nearer, and so does the end of the drain.
Tick ==
    /\ remaining > 0 \/ grace > 1
    /\ remaining' = IF remaining > 0 THEN remaining - 1 ELSE 0
    /\ grace' = IF grace > 1 THEN grace - 1 ELSE grace
    /\ UNCHANGED <<generation, utteranceOpen, tokens, outEnded, proc, player, queued, pieces>>

Spawning == \E p \in Players : player[p] = "spawning"
PlaybackNext ==
    \/ \E p \in Players : SpawnFails(p) \/ SpawnSucceeds(p)
    \/ /\ ~Spawning
       /\ \/ BeginUtterance \/ EndUtterance \/ Cancel \/ EndPlayback \/ ForceKill \/ Tick
          \/ \E token \in tokens : Speak(token) \/ Forget(token)
          \/ \E p \in Players : PlayerCloses(p)

PlaybackSpec == PlaybackInit /\ [][PlaybackNext]_playbackVars

-----------------------------------------------------------------------------
(* Properties. *)

\* One voice at a time: of all the players ever started, at most one runs, and it is the one in hand
\* or the one that drains after the end.
OnePlayer ==
    /\ Cardinality({p \in Players : Running(p)}) <= 1
    /\ ~outEnded => \A p \in Players : Running(p) => p \in proc

\* Barge-in holds: what a player that runs has in its buffer belongs to the utterance of now, never to
\* one the caller interrupted, even while audio of that one is still being produced.
NothingStaleIsHeard ==
    ~outEnded => \A p \in Players : Running(p) => queued[p] \subseteq {generation}

\* A call that has ended leaves no player behind, even one that never notices its input is over.
PlayersGo == outEnded ~> \A p \in Players : player[p] \in {"none", "exited"}
=============================================================================
