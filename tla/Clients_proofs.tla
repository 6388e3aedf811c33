---------------------------- MODULE Clients_proofs -----------------------------
(* What the clients of the remote services promise, proved for every value of *)
(* the constants: the Voice Agent session, the stream, the requests and their *)
(* retries, the policy after a failure, the stored agents and the speech.     *)
EXTENDS MCClients, FiniteSetTheorems, WellFoundedInduction, TLAPS

-----------------------------------------------------------------------------
(* The sessions: no caller of open() is parked with nobody left to release a  *)
(* slot, for every number of callers, keys and slots and in both auth modes.  *)

\* A stream whose handshake is in flight belongs to an open() that awaits it.
HandshakeOwned == \A o \in Opens : socket[o] = "connecting" => pc[o] = "connecting"

\* The inductive invariant.  A grant must not overtake a call that stands
\* elsewhere, so the queue has to agree with the calls; and a handshake may only
\* move a call that is not the slot holder the queue counts on.
IInv == TypeOK /\ QueueMatchesCalls /\ HandshakeOwned /\ NoStrandedCaller

\* A map that has reached the bound is not empty: the bound is at least one.
LEMMA FullMapHasEntry ==
    ASSUME NEW map, ~(Size(map) < MaxConcurrent)
    PROVE  \E k \in Keys : map[k] # None
<1>1. SUFFICES ASSUME \A k \in Keys : map[k] = None PROVE FALSE
  OBVIOUS
<1>2. {k \in Keys : map[k] # None} = {}
  BY <1>1
<1>3. Size(map) = 0
  BY <1>2, FS_EmptySet DEF Size
<1> QED
  BY <1>3, SessionAssumption

\* The head and the tail of a non-empty queue, element by element.
LEMMA QueueParts ==
    ASSUME NEW q \in Seq(Opens), q # <<>>
    PROVE  /\ Head(q) = q[1] /\ 1 \in DOMAIN q /\ Head(q) \in Opens
           /\ Tail(q) \in Seq(Opens)
           /\ \A i \in DOMAIN Tail(q) : i + 1 \in DOMAIN q /\ Tail(q)[i] = q[i + 1]
           /\ \A j \in DOMAIN q : j # 1 => j - 1 \in DOMAIN Tail(q) /\ Tail(q)[j - 1] = q[j]
<1>1. Len(q) \in Nat /\ Len(q) >= 1 /\ DOMAIN q = 1..Len(q)
  OBVIOUS
<1>2. Len(Tail(q)) = Len(q) - 1 /\ DOMAIN Tail(q) = 1..(Len(q) - 1)
  BY <1>1
<1>3. \A i \in 1..(Len(q) - 1) : Tail(q)[i] = q[i + 1]
  BY <1>1
<1> QED
  BY <1>1, <1>2, <1>3

\* Returning a slot: whatever the calls (pcs) and the map have become, as long as
\* nobody left or joined the queue, the released slot reaches the head of the queue
\* or finds the map still full.
LEMMA ReleaseKeeps ==
    ASSUME TypeOK, QueueMatchesCalls,
           NEW pcs \in [Opens -> OpenState],
           NEW map \in [Keys -> Opens \cup {None}],
           \A o \in Opens : pcs[o] = "queued" <=> pc[o] = "queued",
           \A o \in Opens : socket'[o] = "connecting" => pcs[o] = "connecting",
           ReleaseSlot(pcs, map)
    PROVE  /\ pc' \in [Opens -> OpenState]
           /\ sessions' \in [Keys -> Opens \cup {None}]
           /\ queue' \in Seq(Opens)
           /\ queued' \in Nat
           /\ QueueMatchesCalls'
           /\ HandshakeOwned'
           /\ NoStrandedCaller'
<1> DEFINE grants == queue # <<>> /\ Size(map) < MaxConcurrent
<1>1. CASE grants
  <2>1. /\ sessions' = map
        /\ pc' = [pcs EXCEPT ![Head(queue)] = "granted"]
        /\ queue' = Tail(queue)
        /\ queued' = IF queued < 2 THEN 0 ELSE queued - 2
    BY <1>1 DEF ReleaseSlot
  <2>2. queue \in Seq(Opens) /\ queue # <<>> /\ queued \in Nat
    BY <1>1 DEF TypeOK
  <2>3. /\ Head(queue) = queue[1] /\ 1 \in DOMAIN queue /\ Head(queue) \in Opens
        /\ Tail(queue) \in Seq(Opens)
        /\ \A i \in DOMAIN Tail(queue) : i + 1 \in DOMAIN queue /\ Tail(queue)[i] = queue[i + 1]
        /\ \A j \in DOMAIN queue : j # 1 => j - 1 \in DOMAIN Tail(queue) /\ Tail(queue)[j - 1] = queue[j]
    BY <2>2, QueueParts
  <2>4. pcs[Head(queue)] = "queued"
    BY <2>3 DEF QueueMatchesCalls
  <2>5. pc' \in [Opens -> OpenState] /\ pc'[Head(queue)] = "granted"
    BY <2>1, <2>3 DEF OpenState
  <2>6. queued' \in Nat
    BY <2>1, <2>2
  <2>7. QueueMatchesCalls'
    <3>1. DOMAIN queue \subseteq Nat /\ DOMAIN Tail(queue) \subseteq Nat
      BY <2>2, <2>3
    <3>2. ASSUME NEW o \in Opens
          PROVE  pc'[o] = "queued" <=> \E i \in DOMAIN queue' : queue'[i] = o
      <4>1. CASE o = Head(queue)
        <5>1. pc'[o] # "queued"
          BY <4>1, <2>5
        <5>2. ASSUME NEW i \in DOMAIN Tail(queue), Tail(queue)[i] = o PROVE FALSE
          BY <5>2, <4>1, <2>3, <3>1 DEF QueueMatchesCalls
        <5> QED
          BY <5>1, <5>2, <2>1
      <4>2. CASE o # Head(queue)
        <5>1. pc'[o] = "queued" <=> pc[o] = "queued"
          BY <4>2, <2>1
        <5>2. pc[o] = "queued" <=> \E j \in DOMAIN queue : queue[j] = o
          BY DEF QueueMatchesCalls
        <5>3. (\E j \in DOMAIN queue : queue[j] = o) <=> (\E i \in DOMAIN Tail(queue) : Tail(queue)[i] = o)
          <6>1. ASSUME NEW j \in DOMAIN queue, queue[j] = o
                PROVE  \E i \in DOMAIN Tail(queue) : Tail(queue)[i] = o
            <7>1. j # 1
              BY <6>1, <4>2, <2>3
            <7> QED
              BY <7>1, <6>1, <2>3
          <6>2. ASSUME NEW i \in DOMAIN Tail(queue), Tail(queue)[i] = o
                PROVE  \E j \in DOMAIN queue : queue[j] = o
            BY <6>2, <2>3
          <6> QED
            BY <6>1, <6>2
        <5> QED
          BY <5>1, <5>2, <5>3, <2>1
      <4> QED
        BY <4>1, <4>2
    <3>3. ASSUME NEW i \in DOMAIN queue', NEW j \in DOMAIN queue', queue'[i] = queue'[j]
          PROVE  i = j
      <4>1. i + 1 \in DOMAIN queue /\ j + 1 \in DOMAIN queue /\ queue[i + 1] = queue[j + 1]
        BY <3>3, <2>1, <2>3
      <4>2. i + 1 = j + 1
        BY <4>1 DEF QueueMatchesCalls
      <4> QED
        BY <4>2, <3>1, <2>1
    <3> QED
      BY <3>2, <3>3 DEF QueueMatchesCalls
  <2>8. HandshakeOwned'
    BY <2>1, <2>4 DEF HandshakeOwned
  <2>9. NoStrandedCaller'
    BY <2>3, <2>5 DEF NoStrandedCaller
  <2> QED
    BY <2>1, <2>3, <2>5, <2>6, <2>7, <2>8, <2>9
<1>2. CASE ~grants
  <2>1. /\ sessions' = map
        /\ pc' = pcs
        /\ queue' = queue
        /\ queued' = IF queued < 1 THEN 0 ELSE queued - 1
    BY <1>2 DEF ReleaseSlot
  <2>2. NoStrandedCaller'
    BY <1>2, <2>1, FullMapHasEntry DEF NoStrandedCaller
  <2>3. queued' \in Nat /\ queue' \in Seq(Opens)
    BY <2>1 DEF TypeOK
  <2>4. QueueMatchesCalls'
    BY <2>1 DEF QueueMatchesCalls
  <2>5. HandshakeOwned'
    BY <2>1 DEF HandshakeOwned
  <2> QED
    BY <2>1, <2>2, <2>3, <2>4, <2>5
<1> QED
  BY <1>1, <1>2

LEMMA InitEstablishes == Init => IInv
<1> SUFFICES ASSUME Init PROVE IInv
  OBVIOUS
<1>1. TypeOK
  BY DEF Init, TypeOK, OpenState, SocketState, Phase
<1>2. QueueMatchesCalls
  BY DEF Init, QueueMatchesCalls
<1>3. HandshakeOwned
  BY DEF Init, HandshakeOwned
<1>4. NoStrandedCaller
  BY DEF Init, NoStrandedCaller
<1> QED
  BY <1>1, <1>2, <1>3, <1>4 DEF IInv

\* Every step keeps the inductive invariant: one step of the proof per action.
LEMMA StepKeeps == IInv /\ [Next]_vars => IInv'
<1> SUFFICES ASSUME IInv, [Next]_vars PROVE IInv'
  OBVIOUS
<1> USE SessionAssumption
<1>0. TypeOK /\ QueueMatchesCalls /\ HandshakeOwned /\ NoStrandedCaller
  BY DEF IInv
<1>1. ASSUME NEW o \in Opens, Open(o) PROVE IInv'
  <2>1. CASE sessions[key[o]] # None
    <3>1. TypeOK'
      BY <1>0, <1>1, <2>1 DEF Open, TypeOK, OpenState
    <3>2. QueueMatchesCalls'
      BY <1>0, <1>1, <2>1 DEF Open, QueueMatchesCalls, TypeOK
    <3>3. HandshakeOwned'
      BY <1>0, <1>1, <2>1 DEF Open, HandshakeOwned, TypeOK
    <3>4. NoStrandedCaller'
      BY <1>0, <1>1, <2>1 DEF Open, NoStrandedCaller, TypeOK
    <3> QED
      BY <3>1, <3>2, <3>3, <3>4 DEF IInv
  <2>2. CASE sessions[key[o]] = None /\ Size(sessions) < MaxConcurrent
    <3>1. pc' = [pc EXCEPT ![o] = "granted"] /\ UNCHANGED <<queue, queued>>
      BY <1>1, <2>2 DEF Open, AcquireSlot
    <3>2. TypeOK'
      BY <1>0, <1>1, <3>1 DEF Open, TypeOK, OpenState
    <3>3. QueueMatchesCalls'
      BY <1>0, <1>1, <3>1 DEF Open, QueueMatchesCalls, TypeOK
    <3>4. HandshakeOwned'
      BY <1>0, <1>1, <3>1 DEF Open, HandshakeOwned, TypeOK
    <3>5. NoStrandedCaller'
      BY <1>0, <1>1, <3>1 DEF Open, NoStrandedCaller, TypeOK
    <3> QED
      BY <3>2, <3>3, <3>4, <3>5 DEF IInv
  <2>3. CASE sessions[key[o]] = None /\ ~(Size(sessions) < MaxConcurrent)
    <3>1. /\ pc' = [pc EXCEPT ![o] = "queued"]
          /\ queue' = Append(queue, o)
          /\ queued' = queued + 1
      BY <1>1, <2>3 DEF Open, AcquireSlot
    <3>2. TypeOK'
      BY <1>0, <1>1, <3>1 DEF Open, TypeOK, OpenState
    <3>3. QueueMatchesCalls'
      <4>1. /\ queue \in Seq(Opens) /\ pc \in [Opens -> OpenState] /\ pc[o] # "queued"
        BY <1>0, <1>1 DEF TypeOK, Open
      <4>2. /\ DOMAIN queue = 1..Len(queue) /\ Len(queue) \in Nat
            /\ DOMAIN queue' = 1..(Len(queue) + 1) /\ queue'[Len(queue) + 1] = o
            /\ \A i \in 1..Len(queue) : queue'[i] = queue[i]
        BY <4>1, <3>1
      <4>3. \A i \in DOMAIN queue : queue[i] # o
        BY <1>0, <4>1 DEF QueueMatchesCalls
      <4>4. \A u \in Opens : pc'[u] = "queued" <=> (u = o \/ pc[u] = "queued")
        BY <3>1, <4>1
      <4>5. \A u : (\E i \in DOMAIN queue' : queue'[i] = u) <=> (u = o \/ \E i \in DOMAIN queue : queue[i] = u)
        BY <4>2
      <4>6. \A i, j \in DOMAIN queue' : queue'[i] = queue'[j] => i = j
        BY <1>0, <4>2, <4>3 DEF QueueMatchesCalls
      <4> QED
        BY <1>0, <4>4, <4>5, <4>6 DEF QueueMatchesCalls
    <3>4. HandshakeOwned'
      BY <1>0, <1>1, <3>1 DEF Open, HandshakeOwned, TypeOK
    <3>5. NoStrandedCaller'
      BY <1>1, <2>3, FullMapHasEntry DEF Open, NoStrandedCaller
    <3> QED
      BY <3>2, <3>3, <3>4, <3>5 DEF IInv
  <2> QED
    BY <2>1, <2>2, <2>3
<1>2. ASSUME NEW o \in Opens, pc[o] \in {"granted", "minting", "rejected"}, OpenFails(o),
             UNCHANGED <<key, phase, socket, terminated, waiting, closing>>
      PROVE  IInv'
  <2> DEFINE pcs == [pc EXCEPT ![o] = "failed"]
             map == [sessions EXCEPT ![key[o]] = None]
  <2>1. pcs \in [Opens -> OpenState] /\ map \in [Keys -> Opens \cup {None}]
    BY <1>0 DEF TypeOK, OpenState
  <2>2. \A u \in Opens : pcs[u] = "queued" <=> pc[u] = "queued"
    BY <1>0, <1>2 DEF TypeOK
  <2>3. \A u \in Opens : socket'[u] = "connecting" => pcs[u] = "connecting"
    BY <1>0, <1>2 DEF TypeOK, HandshakeOwned
  <2>4. ReleaseSlot(pcs, map)
    BY <1>2 DEF OpenFails
  <2> HIDE DEF pcs, map
  <2> QED
    BY <1>0, <1>2, <2>1, <2>2, <2>3, <2>4, ReleaseKeeps DEF IInv, TypeOK
<1>3. ASSUME NEW o \in Opens, pc[o] \in {"granted", "minting"}, Register(o) PROVE IInv'
  <2>1. TypeOK'
    BY <1>0, <1>3 DEF Register, TypeOK, OpenState, Phase, SocketState
  <2>2. QueueMatchesCalls'
    BY <1>0, <1>3 DEF Register, QueueMatchesCalls, TypeOK
  <2>3. HandshakeOwned'
    BY <1>0, <1>3 DEF Register, HandshakeOwned, TypeOK
  <2>4. sessions'[key[o]] # None /\ key[o] \in Keys
    BY <1>0, <1>3 DEF Register, TypeOK
  <2>5. NoStrandedCaller'
    BY <2>4 DEF NoStrandedCaller
  <2> QED
    BY <2>1, <2>2, <2>3, <2>5 DEF IInv
<1>4. ASSUME NEW o \in Opens, Microtask(o) PROVE IInv'
  <2>1. CASE Rejected(o)
    BY <2>1, <1>2 DEF Rejected
  <2>2. CASE Granted(o) /\ sessions[key[o]] # None
    BY <2>2, <1>2 DEF Granted
  <2>3. CASE Granted(o) /\ sessions[key[o]] = None /\ ~TempToken
    BY <2>3, <1>3 DEF Granted
  <2>4. CASE Granted(o) /\ sessions[key[o]] = None /\ TempToken
    <3>0. /\ pc[o] = "granted" /\ pc' = [pc EXCEPT ![o] = "minting"]
          /\ UNCHANGED <<key, sessions, phase, socket, terminated, waiting, closing, queue, queued>>
      BY <2>4 DEF Granted
    <3>1. TypeOK'
      BY <1>0, <3>0 DEF TypeOK, OpenState
    <3>2. QueueMatchesCalls'
      BY <1>0, <3>0 DEF QueueMatchesCalls, TypeOK
    <3>3. HandshakeOwned'
      BY <1>0, <3>0 DEF HandshakeOwned, TypeOK
    <3>4. NoStrandedCaller'
      BY <1>0, <3>0 DEF NoStrandedCaller, TypeOK
    <3> QED
      BY <3>1, <3>2, <3>3, <3>4 DEF IInv
  <2>5. CASE TeardownDone(o)
    <3> DEFINE map == [sessions EXCEPT ![key[o]] = None]
    <3>1. map \in [Keys -> Opens \cup {None}]
      BY <1>0 DEF TypeOK
    <3>2. pc \in [Opens -> OpenState]
      BY <1>0 DEF TypeOK
    <3>3. \A u \in Opens : socket'[u] = "connecting" => pc[u] = "connecting"
      BY <1>0, <2>5 DEF TeardownDone, TypeOK, HandshakeOwned
    <3>4. ReleaseSlot(pc, map)
      BY <2>5 DEF TeardownDone
    <3>5. /\ key' \in [Opens -> Keys] /\ phase' \in [Opens -> Phase]
          /\ socket' \in [Opens -> SocketState] /\ terminated' \subseteq Opens
          /\ waiting' \in [Opens -> Nat]
      BY <1>0, <2>5 DEF TeardownDone, TypeOK, Phase, SocketState
    <3>6. closing' \in [Opens -> Nat]
      BY <1>0, <2>5 DEF TeardownDone, TypeOK
    <3> HIDE DEF map
    <3> QED
      BY <1>0, <3>1, <3>2, <3>3, <3>4, <3>5, <3>6, ReleaseKeeps DEF IInv, TypeOK
  <2> QED
    BY <1>4, <2>1, <2>2, <2>3, <2>4, <2>5, <1>0 DEF Microtask, TypeOK
<1>5. ASSUME NEW o \in Opens, Mint(o) PROVE IInv'
  <2>1. CASE Minted(o)
    BY <2>1, <1>3 DEF Minted
  <2>2. CASE MintFails(o)
    BY <2>2, <1>2 DEF MintFails
  <2> QED
    BY <1>5, <2>1, <2>2 DEF Mint
<1>6. ASSUME NEW o \in Opens, SocketOpens(o) PROVE IInv'
  <2>0. pc[o] = "connecting"
    BY <1>0, <1>6 DEF SocketOpens, HandshakeOwned
  <2>1. TypeOK'
    BY <1>0, <1>6 DEF SocketOpens, TypeOK, OpenState, SocketState
  <2>2. QueueMatchesCalls'
    BY <1>0, <1>6, <2>0 DEF SocketOpens, QueueMatchesCalls, TypeOK
  <2>3. HandshakeOwned'
    BY <1>0, <1>6 DEF SocketOpens, HandshakeOwned, TypeOK
  <2>4. NoStrandedCaller'
    BY <1>0, <1>6, <2>0 DEF SocketOpens, NoStrandedCaller, TypeOK
  <2> QED
    BY <2>1, <2>2, <2>3, <2>4 DEF IInv
<1>7. ASSUME NEW o \in Opens,
             NEW pcs \in [Opens -> OpenState],
             OnStreamClose(o, pcs),
             \A u \in Opens : pcs[u] \in {"queued", "granted", "minting"} \/ pc[u] \in {"queued", "granted", "minting"} => pcs[u] = pc[u],
             \A u \in Opens : socket'[u] = "connecting" => pcs[u] = "connecting",
             key' = key, socket' \in [Opens -> SocketState], terminated' = terminated,
             waiting' \in [Opens -> Nat], closing' \in [Opens -> Nat]
      PROVE  IInv'
  <2>1. \A u \in Opens : pcs[u] = "queued" <=> pc[u] = "queued"
    BY <1>7
  <2>2. CASE sessions[key[o]] # None /\ phase[sessions[key[o]]] = "open"
    <3> DEFINE map == [sessions EXCEPT ![key[o]] = None]
    <3>1. map \in [Keys -> Opens \cup {None}] /\ ReleaseSlot(pcs, map)
      BY <1>0, <1>7, <2>2 DEF TypeOK, OnStreamClose
    <3>2. phase' \in [Opens -> Phase]
      BY <1>0, <1>7, <2>2 DEF TypeOK, OnStreamClose, Phase
    <3> HIDE DEF map
    <3> QED
      BY <1>0, <1>7, <2>1, <3>1, <3>2, ReleaseKeeps DEF IInv, TypeOK
  <2>3. CASE ~(sessions[key[o]] # None /\ phase[sessions[key[o]]] = "open")
    <3>1. pc' = pcs /\ UNCHANGED <<phase, sessions, queue, queued>>
      BY <1>7, <2>3 DEF OnStreamClose
    <3>2. TypeOK'
      BY <1>0, <1>7, <3>1 DEF TypeOK
    <3>3. QueueMatchesCalls'
      BY <1>0, <2>1, <3>1 DEF QueueMatchesCalls
    <3>4. HandshakeOwned'
      BY <1>7, <3>1 DEF HandshakeOwned
    <3>5. NoStrandedCaller'
      BY <1>0, <1>7, <3>1 DEF NoStrandedCaller
    <3> QED
      BY <3>2, <3>3, <3>4, <3>5 DEF IInv
  <2> QED
    BY <2>2, <2>3
<1>8. ASSUME NEW o \in Opens, ConnectFails(o) PROVE IInv'
  <2> DEFINE pcs == [pc EXCEPT ![o] = "rejected"]
  <2>1. pcs \in [Opens -> OpenState] /\ pc[o] = "connecting"
    BY <1>0, <1>8 DEF TypeOK, OpenState, ConnectFails, HandshakeOwned
  <2>2. OnStreamClose(o, pcs)
    BY <1>8 DEF ConnectFails
  <2>3. \A u \in Opens : pcs[u] \in {"queued", "granted", "minting"} \/ pc[u] \in {"queued", "granted", "minting"} => pcs[u] = pc[u]
    BY <1>0, <2>1 DEF TypeOK
  <2>4. \A u \in Opens : socket'[u] = "connecting" => pcs[u] = "connecting"
    BY <1>0, <1>8 DEF ConnectFails, TypeOK, HandshakeOwned
  <2>5. /\ key' = key /\ socket' \in [Opens -> SocketState] /\ terminated' = terminated
        /\ waiting' \in [Opens -> Nat] /\ closing' \in [Opens -> Nat]
    BY <1>0, <1>8 DEF ConnectFails, TypeOK, SocketState
  <2> HIDE DEF pcs
  <2> QED
    BY <1>7, <2>1, <2>2, <2>3, <2>4, <2>5
<1>9. ASSUME NEW o \in Opens, SocketCloses(o) PROVE IInv'
  <2>1. pc \in [Opens -> OpenState] /\ OnStreamClose(o, pc)
    BY <1>0, <1>9 DEF TypeOK, SocketCloses
  <2>2. \A u \in Opens : socket'[u] = "connecting" => pc[u] = "connecting"
    BY <1>0, <1>9 DEF SocketCloses, TypeOK, HandshakeOwned
  <2>3. /\ key' = key /\ socket' \in [Opens -> SocketState] /\ terminated' = terminated
        /\ waiting' \in [Opens -> Nat] /\ closing' \in [Opens -> Nat]
    BY <1>0, <1>9 DEF SocketCloses, TypeOK, SocketState
  <2> QED
    BY <1>7, <2>1, <2>2, <2>3
<1>10. ASSUME NEW o \in Opens, Termination(o) \/ TerminationTimeout(o) PROVE IInv'
  <2>1. UNCHANGED <<pc, key, sessions, phase, socket, terminated, queue, queued>>
    BY <1>10 DEF Termination, TerminationTimeout
  <2>2. waiting' \in [Opens -> Nat] /\ closing' \in [Opens -> Nat]
    <3>1. waiting[o] \in Nat /\ closing[o] \in Nat
      BY <1>0 DEF TypeOK
    <3>2. CASE Termination(o)
      BY <1>0, <3>1, <3>2 DEF Termination, TypeOK
    <3>3. CASE TerminationTimeout(o)
      BY <1>0, <3>1, <3>3 DEF TerminationTimeout, TypeOK
    <3> QED
      BY <1>10, <3>2, <3>3
  <2>3. TypeOK'
    BY <1>0, <2>1, <2>2 DEF TypeOK
  <2>4. QueueMatchesCalls' /\ HandshakeOwned' /\ NoStrandedCaller'
    BY <1>0, <2>1 DEF QueueMatchesCalls, HandshakeOwned, NoStrandedCaller
  <2> QED
    BY <2>3, <2>4 DEF IInv
<1>11. ASSUME NEW S \in SUBSET Opens, StartTeardown(S), \E k \in Keys : sessions[k] # None PROVE IInv'
  <2>0. \A o \in Opens : socket[o] = "connecting" => pc[o] = "connecting"
    BY <1>0 DEF HandshakeOwned
  <2>1. UNCHANGED <<key, sessions, queue, queued>>
    BY <1>11 DEF StartTeardown
  <2>2. TypeOK'
    BY <1>0, <1>11 DEF StartTeardown, TypeOK, OpenState, Phase, SocketState
  <2>3. \A o \in Opens : (pc'[o] = "queued" <=> pc[o] = "queued") /\ (socket'[o] = "connecting" => pc'[o] = "connecting")
    BY <1>0, <1>11, <2>0 DEF StartTeardown, TypeOK
  <2>4. QueueMatchesCalls' /\ HandshakeOwned'
    BY <1>0, <2>1, <2>3 DEF QueueMatchesCalls, HandshakeOwned
  <2>5. NoStrandedCaller'
    BY <1>11, <2>1 DEF NoStrandedCaller
  <2> QED
    BY <2>2, <2>4, <2>5 DEF IInv
<1>12. ASSUME NEW k \in Keys, Close(k) PROVE IInv'
  <2>1. sessions[k] # None /\ {sessions[k]} \in SUBSET Opens
    BY <1>0, <1>12 DEF Close, MayClose, TypeOK
  <2> QED
    BY <1>11, <1>12, <2>1 DEF Close
<1>13. CASE CloseAll
  <2> DEFINE all == {sessions[k] : k \in Keys} \ {None}
  <2>1. all \in SUBSET Opens /\ \E k \in Keys : sessions[k] # None
    BY <1>0, <1>13 DEF CloseAll, TypeOK
  <2>2. StartTeardown(all)
    BY <1>13 DEF CloseAll
  <2> HIDE DEF all
  <2> QED
    BY <1>11, <2>1, <2>2
<1>14. CASE UNCHANGED vars
  BY <1>0, <1>14 DEF vars, IInv, TypeOK, QueueMatchesCalls, HandshakeOwned, NoStrandedCaller
<1> QED
  BY <1>1, <1>4, <1>5, <1>6, <1>8, <1>9, <1>10, <1>12, <1>13, <1>14 DEF Next, Handshake

\* Every variable keeps its type.
THEOREM TypeCorrect == Spec => []TypeOK
<1>1. IInv => TypeOK
  BY DEF IInv
<1> QED
  BY InitEstablishes, StepKeeps, <1>1, PTL DEF Spec

\* While a caller of open() is parked, a release is still to come.
THEOREM CallersAreNeverStranded == Spec => []NoStrandedCaller
<1>1. IInv => NoStrandedCaller
  BY DEF IInv
<1> QED
  BY InitEstablishes, StepKeeps, <1>1, PTL DEF Spec

\* Exactly the parked calls are in the queue, once each: no grant is lost or doubled.
THEOREM QueueIsExact == Spec => []QueueMatchesCalls
<1>1. IInv => QueueMatchesCalls
  BY DEF IInv
<1> QED
  BY InitEstablishes, StepKeeps, <1>1, PTL DEF Spec

-----------------------------------------------------------------------------
(* The map.  A stream is only ever under its own key, from its registration   *)
(* until the first job that has seen it end; and once somebody closes it, a   *)
(* close() of it is under way for as long as the entry is there.              *)

Alive(o, k) ==
    /\ key[o] = k
    /\ pc[o] \in {"connecting", "opened", "rejected"}
    /\ phase[o] \in {"open", "closing"}
    /\ phase[o] = "closing" => waiting[o] > 0 \/ closing[o] > 0
    /\ socket[o] = "closed" => closing[o] > 0 \/ pc[o] = "rejected"

EntriesAlive == \A k \in Keys : sessions[k] # None => Alive(sessions[k], k)

\* A release touches no call but the head of the queue.
LEMMA ReleaseTouchesQueue ==
    ASSUME TypeOK, QueueMatchesCalls,
           NEW pcs \in [Opens -> OpenState], NEW map, ReleaseSlot(pcs, map)
    PROVE  sessions' = map /\ \A u \in Opens : pc[u] # "queued" => pc'[u] = pcs[u]
<1>1. CASE queue # <<>> /\ Size(map) < MaxConcurrent
  <2>1. Head(queue) \in Opens /\ pc[Head(queue)] = "queued"
    BY <1>1, QueueParts DEF TypeOK, QueueMatchesCalls
  <2> QED
    BY <1>1, <2>1 DEF ReleaseSlot
<1>2. CASE ~(queue # <<>> /\ Size(map) < MaxConcurrent)
  BY <1>2 DEF ReleaseSlot
<1> QED
  BY <1>1, <1>2

\* A step that only takes entries out of the map keeps the rest alive, if it leaves them alone.
LEMMA RemovalKeeps ==
    ASSUME EntriesAlive, NEW o \in Opens, key[o] \in Keys,
           key' = key, sessions' = [sessions EXCEPT ![key[o]] = None],
           sessions \in [Keys -> Opens \cup {None}],
           \A u \in Opens : u # o /\ Alive(u, key[u]) /\ key[u] # key[o] => Alive(u, key[u])'
    PROVE  EntriesAlive'
<1> SUFFICES ASSUME NEW k \in Keys, sessions'[k] # None PROVE Alive(sessions[k], k)' /\ sessions'[k] = sessions[k]
  BY DEF EntriesAlive, Alive
<1>1. k # key[o] /\ sessions'[k] = sessions[k] /\ sessions[k] \in Opens
  OBVIOUS
<1>2. Alive(sessions[k], k)
  BY <1>1 DEF EntriesAlive
<1> QED
  BY <1>1, <1>2 DEF Alive

LEMMA StepKeepsAlive == IInv /\ EntriesAlive /\ [Next]_vars => EntriesAlive'
<1> SUFFICES ASSUME IInv, EntriesAlive, [Next]_vars PROVE EntriesAlive'
  OBVIOUS
<1> USE SessionAssumption
<1>0. TypeOK /\ QueueMatchesCalls /\ HandshakeOwned
  BY DEF IInv
<1>1. \A k \in Keys : sessions[k] # None => sessions[k] \in Opens /\ Alive(sessions[k], k)
  BY <1>0 DEF EntriesAlive, TypeOK
<1>2. ASSUME NEW o \in Opens, Open(o) PROVE EntriesAlive'
  <2>1. UNCHANGED <<key, sessions, phase, socket, waiting, closing>> /\ pc[o] = "idle"
    BY <1>2 DEF Open
  <2>2. \A u \in Opens : u # o => pc'[u] = pc[u]
    BY <1>0, <1>2 DEF Open, AcquireSlot, TypeOK
  <2> QED
    BY <1>1, <2>1, <2>2 DEF EntriesAlive, Alive
<1>3. ASSUME NEW o \in Opens, OpenFails(o),
             UNCHANGED <<key, phase, socket, terminated, waiting, closing>>
      PROVE  EntriesAlive'
  <2> DEFINE pcs == [pc EXCEPT ![o] = "failed"]
  <2>1. pcs \in [Opens -> OpenState]
    BY <1>0 DEF TypeOK, OpenState
  <2>2. ReleaseSlot(pcs, [sessions EXCEPT ![key[o]] = None])
    BY <1>3 DEF OpenFails
  <2>3. /\ sessions' = [sessions EXCEPT ![key[o]] = None]
        /\ \A u \in Opens : pc[u] # "queued" => pc'[u] = pcs[u]
    <3> HIDE DEF pcs
    <3> QED BY <1>0, <2>1, <2>2, ReleaseTouchesQueue
  <2>4. \A u \in Opens : u # o /\ Alive(u, key[u]) => Alive(u, key[u])'
    BY <1>0, <1>3, <2>3 DEF Alive, TypeOK
  <2>5. key[o] \in Keys /\ sessions \in [Keys -> Opens \cup {None}]
    BY <1>0 DEF TypeOK
  <2> QED
    BY <1>3, <2>3, <2>4, <2>5, RemovalKeeps
<1>4. ASSUME NEW o \in Opens, pc[o] \in {"granted", "minting"}, Register(o) PROVE EntriesAlive'
  <2>1. \A k \in Keys : sessions'[k] = IF k = key[o] THEN o ELSE sessions[k]
    BY <1>0, <1>4 DEF Register, TypeOK
  <2>2. Alive(o, key[o])'
    BY <1>0, <1>4 DEF Register, TypeOK, Alive
  <2>3. \A u \in Opens : u # o /\ Alive(u, key[u]) => Alive(u, key[u])'
    BY <1>0, <1>4 DEF Register, TypeOK, Alive
  <2>4. \A k \in Keys : sessions[k] # o
    BY <1>1, <1>4 DEF Alive
  <2>5. key' = key
    BY <1>4 DEF Register
  <2>6. ASSUME NEW k \in Keys, sessions'[k] # None PROVE Alive(sessions[k], k)'
    <3>1. CASE k = key[o]
      BY <2>1, <2>2, <2>5, <3>1
    <3>2. CASE k # key[o]
      <4>1. sessions'[k] = sessions[k] /\ sessions[k] \in Opens /\ sessions[k] # o
        BY <1>1, <2>1, <2>4, <2>6, <3>2
      <4>2. Alive(sessions[k], k) /\ key[sessions[k]] = k
        BY <1>1, <2>6, <4>1 DEF Alive
      <4> DEFINE u == sessions[k]
      <4>3. Alive(u, k)'
        BY <2>3, <2>5, <4>1, <4>2 DEF Alive
      <4> QED
        BY <4>1, <4>3 DEF Alive
    <3> QED
      BY <3>1, <3>2
  <2> QED
    BY <2>6 DEF EntriesAlive
<1>5. ASSUME NEW o \in Opens, TeardownDone(o) PROVE EntriesAlive'
  <2>1. /\ sessions' = [sessions EXCEPT ![key[o]] = None]
        /\ \A u \in Opens : pc[u] # "queued" => pc'[u] = pc[u]
    BY <1>0, <1>5, ReleaseTouchesQueue DEF TeardownDone, TypeOK
  <2>2. \A u \in Opens : u # o /\ Alive(u, key[u]) => Alive(u, key[u])'
    BY <1>0, <1>5, <2>1 DEF Alive, TypeOK, TeardownDone
  <2>3. key[o] \in Keys /\ sessions \in [Keys -> Opens \cup {None}] /\ key' = key
    BY <1>0, <1>5 DEF TypeOK, TeardownDone
  <2> QED
    BY <2>1, <2>2, <2>3, RemovalKeeps
<1>6. ASSUME NEW o \in Opens, Microtask(o) PROVE EntriesAlive'
  <2>1. CASE Rejected(o)
    BY <2>1, <1>3 DEF Rejected
  <2>2. CASE Granted(o) /\ sessions[key[o]] # None
    BY <2>2, <1>3 DEF Granted
  <2>3. CASE Granted(o) /\ sessions[key[o]] = None /\ ~TempToken
    BY <2>3, <1>4 DEF Granted
  <2>4. CASE Granted(o) /\ sessions[key[o]] = None /\ TempToken
    <3>1. /\ pc[o] = "granted" /\ pc' = [pc EXCEPT ![o] = "minting"]
          /\ UNCHANGED <<key, sessions, phase, socket, waiting, closing>>
      BY <2>4 DEF Granted
    <3>2. \A u \in Opens : u # o => pc'[u] = pc[u]
      BY <1>0, <3>1 DEF TypeOK
    <3> QED
      BY <1>1, <3>1, <3>2 DEF EntriesAlive, Alive
  <2>5. CASE TeardownDone(o)
    BY <1>5, <2>5
  <2> QED
    BY <1>6, <2>1, <2>2, <2>3, <2>4, <2>5, <1>0 DEF Microtask, TypeOK
<1>7. ASSUME NEW o \in Opens, Mint(o) PROVE EntriesAlive'
  <2>1. CASE Minted(o)
    BY <2>1, <1>4 DEF Minted
  <2>2. CASE MintFails(o)
    BY <2>2, <1>3 DEF MintFails
  <2> QED
    BY <1>7, <2>1, <2>2 DEF Mint
<1>8. ASSUME NEW o \in Opens, SocketOpens(o) PROVE EntriesAlive'
  <2>1. UNCHANGED <<key, sessions, phase, waiting, closing>> /\ pc'[o] = "opened" /\ socket'[o] = "open"
    BY <1>0, <1>8 DEF SocketOpens, TypeOK
  <2>2. \A u \in Opens : u # o => pc'[u] = pc[u] /\ socket'[u] = socket[u]
    BY <1>0, <1>8 DEF SocketOpens, TypeOK
  <2> QED
    BY <1>1, <2>1, <2>2 DEF EntriesAlive, Alive
\* A stream that closes under its key is removed, or somebody is closing it.
<1>9. ASSUME NEW o \in Opens, NEW pcs \in [Opens -> OpenState], OnStreamClose(o, pcs), key' = key,
             \A u \in Opens : u # o => pcs[u] = pc[u] /\ socket'[u] = socket[u]
                                       /\ waiting'[u] = waiting[u] /\ closing'[u] = closing[u],
             pcs[o] \in {pc[o], "rejected"}, pc[o] # "queued",
             waiting[o] > 0 \/ closing[o] > 0 => waiting'[o] > 0 \/ closing'[o] > 0,
             waiting[o] > 0 \/ closing[o] > 0 \/ pcs[o] = "rejected" => closing'[o] > 0 \/ pcs[o] = "rejected"
      PROVE  EntriesAlive'
  <2>0. key[o] \in Keys /\ sessions \in [Keys -> Opens \cup {None}] /\ phase \in [Opens -> Phase]
    BY <1>0 DEF TypeOK
  <2>1. CASE sessions[key[o]] # None /\ phase[sessions[key[o]]] = "open"
    <3> DEFINE held == sessions[key[o]]
    <3>1. /\ phase' = [phase EXCEPT ![held] = "closed"]
          /\ ReleaseSlot(pcs, [sessions EXCEPT ![key[o]] = None])
      BY <1>9, <2>1 DEF OnStreamClose
    <3>2. /\ sessions' = [sessions EXCEPT ![key[o]] = None]
          /\ \A u \in Opens : pc[u] # "queued" => pc'[u] = pcs[u]
      BY <1>0, <1>9, <3>1, ReleaseTouchesQueue
    <3>3. held \in Opens /\ key[held] = key[o]
      BY <1>1, <2>0, <2>1 DEF Alive
    <3>4. ASSUME NEW u \in Opens, u # o, Alive(u, key[u]), key[u] # key[o] PROVE Alive(u, key[u])'
      <4>1. u # held
        BY <3>3, <3>4
      <4>2. phase'[u] = phase[u] /\ pc'[u] = pc[u]
        BY <1>9, <2>0, <3>1, <3>2, <3>4, <4>1 DEF Alive
      <4> QED
        BY <1>9, <3>4, <4>2 DEF Alive
    <3> QED
      BY <1>9, <2>0, <3>2, <3>4, RemovalKeeps
  <2>2. CASE ~(sessions[key[o]] # None /\ phase[sessions[key[o]]] = "open")
    <3>1. pc' = pcs /\ UNCHANGED <<phase, sessions>>
      BY <1>9, <2>2 DEF OnStreamClose
    <3>2. ASSUME NEW k \in Keys, sessions[k] # None PROVE Alive(sessions[k], k)'
      <4>1. CASE sessions[k] # o
        BY <1>1, <1>9, <3>1, <3>2, <4>1 DEF Alive
      <4>2. CASE sessions[k] = o
        <5>1. key[o] = k /\ phase[o] # "open" /\ Alive(o, k)
          BY <1>1, <2>2, <3>2, <4>2 DEF Alive
        <5>2. waiting[o] > 0 \/ closing[o] > 0
          BY <5>1 DEF Alive
        <5> QED
          BY <1>9, <3>1, <4>2, <5>1, <5>2 DEF Alive
      <4> QED
        BY <4>1, <4>2
    <3> QED
      BY <3>1, <3>2 DEF EntriesAlive, Alive
  <2> QED
    BY <2>1, <2>2
<1>10. ASSUME NEW o \in Opens, ConnectFails(o) PROVE EntriesAlive'
  <2> DEFINE pcs == [pc EXCEPT ![o] = "rejected"]
  <2>1. pc[o] = "connecting" /\ pcs \in [Opens -> OpenState] /\ pcs[o] = "rejected"
    BY <1>0, <1>10 DEF TypeOK, OpenState, ConnectFails, HandshakeOwned
  <2>2. OnStreamClose(o, pcs) /\ key' = key /\ UNCHANGED <<waiting, closing>>
    BY <1>10 DEF ConnectFails
  <2>3. \A u \in Opens : u # o => pcs[u] = pc[u] /\ socket'[u] = socket[u]
    BY <1>0, <1>10 DEF ConnectFails, TypeOK
  <2> HIDE DEF pcs
  <2> QED
    BY <1>9, <2>1, <2>2, <2>3
<1>11. ASSUME NEW o \in Opens, SocketCloses(o) PROVE EntriesAlive'
  <2>1. pc \in [Opens -> OpenState] /\ OnStreamClose(o, pc) /\ key' = key
    BY <1>0, <1>11 DEF TypeOK, SocketCloses
  <2>2. \A u \in Opens : u # o => socket'[u] = socket[u] /\ waiting'[u] = waiting[u] /\ closing'[u] = closing[u]
    BY <1>0, <1>11 DEF SocketCloses, TypeOK
  <2>3. closing'[o] = closing[o] + waiting[o] /\ closing[o] \in Nat /\ waiting[o] \in Nat
    BY <1>0, <1>11 DEF SocketCloses, TypeOK
  <2>4. CASE pc[o] # "queued"
    BY <1>9, <2>1, <2>2, <2>3, <2>4
  <2>5. CASE pc[o] = "queued"
    <3>1. \A k \in Keys : sessions[k] # o
      BY <1>1, <2>5 DEF Alive
    <3>2. CASE sessions[key[o]] # None /\ phase[sessions[key[o]]] = "open"
      <4>1. /\ phase' = [phase EXCEPT ![sessions[key[o]]] = "closed"]
            /\ ReleaseSlot(pc, [sessions EXCEPT ![key[o]] = None])
        BY <2>1, <3>2 DEF OnStreamClose
      <4>2. /\ sessions' = [sessions EXCEPT ![key[o]] = None]
            /\ \A u \in Opens : pc[u] # "queued" => pc'[u] = pc[u]
        BY <1>0, <2>1, <4>1, ReleaseTouchesQueue
      <4>3. sessions[key[o]] \in Opens /\ key[sessions[key[o]]] = key[o] /\ key[o] \in Keys
        BY <1>0, <1>1, <3>2 DEF Alive, TypeOK
      <4>4. \A u \in Opens : u # o /\ Alive(u, key[u]) /\ key[u] # key[o] => Alive(u, key[u])'
        BY <1>0, <2>1, <2>2, <4>1, <4>2, <4>3 DEF Alive, TypeOK
      <4> QED
        BY <1>0, <2>1, <4>2, <4>3, <4>4, RemovalKeeps DEF TypeOK
    <3>3. CASE ~(sessions[key[o]] # None /\ phase[sessions[key[o]]] = "open")
      BY <1>1, <2>1, <2>2, <3>1, <3>3 DEF OnStreamClose, EntriesAlive, Alive
    <3> QED
      BY <3>2, <3>3
  <2> QED
    BY <2>4, <2>5
<1>12. ASSUME NEW o \in Opens, Termination(o) \/ TerminationTimeout(o) PROVE EntriesAlive'
  <2>1. UNCHANGED <<pc, key, sessions, phase, socket>>
    BY <1>12 DEF Termination, TerminationTimeout
  <2>2. \A u \in Opens : u # o => waiting'[u] = waiting[u] /\ closing'[u] = closing[u]
    BY <1>0, <1>12 DEF Termination, TerminationTimeout, TypeOK
  <2>3. closing'[o] > 0
    <3>1. closing[o] \in Nat /\ waiting[o] \in Nat /\ waiting[o] > 0
      BY <1>0, <1>12 DEF Termination, TerminationTimeout, TypeOK
    <3>2. closing'[o] \in {closing[o] + waiting[o], closing[o] + 1}
      BY <1>0, <1>12 DEF Termination, TerminationTimeout, TypeOK
    <3> QED
      BY <3>1, <3>2
  <2> QED
    BY <1>1, <2>1, <2>2, <2>3 DEF EntriesAlive, Alive
<1>13. ASSUME NEW S \in SUBSET Opens, StartTeardown(S) PROVE EntriesAlive'
  <2>1. UNCHANGED <<key, sessions>>
    BY <1>13 DEF StartTeardown
  <2>2. \A u \in Opens : u \notin S => /\ phase'[u] = phase[u] /\ waiting'[u] = waiting[u] /\ closing'[u] = closing[u]
                                       /\ socket'[u] = socket[u] /\ pc'[u] = pc[u]
    BY <1>0, <1>13 DEF StartTeardown, TypeOK
  <2>3. ASSUME NEW u \in S, u \in Opens
        PROVE  /\ phase'[u] = "closing"
               /\ waiting'[u] > 0 \/ closing'[u] > 0
               /\ socket'[u] = "closed" => closing'[u] > 0
               /\ pc'[u] \in {pc[u], "rejected"}
    <3>1. waiting[u] \in Nat /\ closing[u] \in Nat
      BY <1>0, <2>3 DEF TypeOK
    <3>2. /\ phase'[u] = "closing"
          /\ waiting'[u] = IF socket[u] = "open" THEN waiting[u] + 1 ELSE waiting[u]
          /\ closing'[u] = IF socket[u] = "open" THEN closing[u] ELSE closing[u] + 1
          /\ socket'[u] = IF socket[u] = "connecting" THEN "closing" ELSE socket[u]
          /\ pc'[u] = IF socket[u] = "connecting" THEN "rejected" ELSE pc[u]
      BY <1>13, <2>3 DEF StartTeardown
    <3> QED
      BY <3>1, <3>2
  <2>4. ASSUME NEW k \in Keys, sessions[k] # None PROVE Alive(sessions[k], k)'
    BY <1>1, <2>1, <2>2, <2>3, <2>4 DEF Alive
  <2> QED
    BY <2>1, <2>4 DEF EntriesAlive, Alive
<1>14. ASSUME NEW k \in Keys, Close(k) PROVE EntriesAlive'
  <2>1. {sessions[k]} \in SUBSET Opens
    BY <1>0, <1>14 DEF Close, MayClose, TypeOK
  <2> QED
    BY <1>13, <1>14, <2>1 DEF Close
<1>15. CASE CloseAll
  <2>1. ({sessions[k] : k \in Keys} \ {None}) \in SUBSET Opens
    BY <1>0 DEF TypeOK
  <2> QED
    BY <1>13, <1>15, <2>1 DEF CloseAll
<1>16. CASE UNCHANGED vars
  BY <1>16 DEF vars, EntriesAlive, Alive
<1> QED
  BY <1>2, <1>6, <1>7, <1>8, <1>10, <1>11, <1>12, <1>14, <1>15, <1>16 DEF Next, Handshake

\* What the map shows is a stream that lives or is just being removed, and never one whose open()
\* has thrown: isOpen() (manager.ts:45-47) does not answer for the dead.
THEOREM MapShowsTheLiving == Spec => []EntriesAreLive
<1>1. Init => EntriesAlive
  BY DEF Init, EntriesAlive
<1>2. IInv /\ EntriesAlive => EntriesAreLive
  <2> SUFFICES ASSUME IInv, EntriesAlive PROVE EntriesAreLive
    OBVIOUS
  <2>1. NoDeadEntry
    BY DEF NoDeadEntry, EntriesAlive, Alive
  <2>2. FailedOpenLeavesNoEntry
    <3> SUFFICES ASSUME NEW o \in Opens, pc[o] = "failed", NEW k \in Keys, sessions[k] = o PROVE FALSE
      BY DEF FailedOpenLeavesNoEntry
    <3> QED
      BY SessionAssumption DEF EntriesAlive, Alive
  <2> QED
    BY <2>1, <2>2 DEF EntriesAreLive
<1> QED
  BY InitEstablishes, StepKeeps, StepKeepsAlive, <1>1, <1>2, PTL DEF Spec

-----------------------------------------------------------------------------
(* The goodbye.  A socket is the client's to close from the teardown that has *)
(* found it connecting, or has sent Terminate on it, or found it gone.        *)

Before == {"idle", "queued", "granted", "minting"}

Goodbye(u) ==
    /\ pc[u] \in Before => socket[u] = "none"
    /\ pc[u] \in {"connecting", "opened", "rejected"} => socket[u] # "none"
    /\ socket[u] \in {"none", "connecting"} => ~(waiting[u] > 0) /\ ~(closing[u] > 0)
    /\ socket[u] = "open" /\ (waiting[u] > 0 \/ closing[u] > 0) => u \in terminated

GoodbyesSaid == \A u \in Opens : Goodbye(u)

\* A call whose socket stands still and which gets no more to close.
LEMMA GoodbyeStays ==
    ASSUME NEW u \in Opens, Goodbye(u), socket'[u] = socket[u], terminated \subseteq terminated',
           pc'[u] = pc[u] \/ pc'[u] = "failed" \/ (pc[u] \in Before /\ pc'[u] \in Before),
           waiting'[u] > 0 \/ closing'[u] > 0 => waiting[u] > 0 \/ closing[u] > 0
    PROVE  Goodbye(u)'
<1>1. /\ pc'[u] \in Before => socket'[u] = "none"
      /\ pc'[u] \in {"connecting", "opened", "rejected"} => socket'[u] # "none"
  BY DEF Goodbye, Before
<1>2. socket'[u] \in {"none", "connecting"} => ~(waiting'[u] > 0) /\ ~(closing'[u] > 0)
  BY DEF Goodbye
<1>3. socket'[u] = "open" /\ (waiting'[u] > 0 \/ closing'[u] > 0) => u \in terminated'
  BY DEF Goodbye
<1> QED
  BY <1>1, <1>2, <1>3 DEF Goodbye

\* A release moves the head of the queue, which has not begun.
LEMMA ReleaseBefore ==
    ASSUME TypeOK, QueueMatchesCalls, NEW pcs \in [Opens -> OpenState], NEW map, ReleaseSlot(pcs, map)
    PROVE  \A u \in Opens : pc'[u] = pcs[u] \/ (pc[u] = "queued" /\ pc'[u] = "granted")
<1>1. CASE queue # <<>> /\ Size(map) < MaxConcurrent
  <2>1. Head(queue) \in Opens /\ pc[Head(queue)] = "queued"
    BY <1>1, QueueParts DEF TypeOK, QueueMatchesCalls
  <2> QED
    BY <1>1, <2>1 DEF ReleaseSlot
<1>2. CASE ~(queue # <<>> /\ Size(map) < MaxConcurrent)
  BY <1>2 DEF ReleaseSlot
<1> QED
  BY <1>1, <1>2

LEMMA CloseMoves ==
    ASSUME TypeOK, QueueMatchesCalls, NEW o \in Opens, NEW pcs \in [Opens -> OpenState], OnStreamClose(o, pcs)
    PROVE  \A u \in Opens : pc'[u] = pcs[u] \/ (pc[u] = "queued" /\ pc'[u] = "granted")
<1>1. CASE sessions[key[o]] # None /\ phase[sessions[key[o]]] = "open"
  <2>1. ReleaseSlot(pcs, [sessions EXCEPT ![key[o]] = None])
    BY <1>1 DEF OnStreamClose
  <2> QED
    BY <2>1, ReleaseBefore
<1>2. CASE ~(sessions[key[o]] # None /\ phase[sessions[key[o]]] = "open")
  BY <1>2 DEF OnStreamClose
<1> QED
  BY <1>1, <1>2

LEMMA StepKeepsGoodbyes == IInv /\ EntriesAlive /\ GoodbyesSaid /\ [Next]_vars => GoodbyesSaid'
<1> SUFFICES ASSUME IInv, EntriesAlive, GoodbyesSaid, [Next]_vars, NEW u \in Opens PROVE Goodbye(u)'
  BY DEF GoodbyesSaid
<1> USE SessionAssumption
<1>0. TypeOK /\ QueueMatchesCalls /\ HandshakeOwned /\ Goodbye(u)
  BY DEF IInv, GoodbyesSaid
<1>a. waiting[u] \in Nat /\ closing[u] \in Nat /\ pc \in [Opens -> OpenState] /\ socket \in [Opens -> SocketState]
  BY <1>0 DEF TypeOK
<1>1. ASSUME NEW o \in Opens, Open(o) PROVE Goodbye(u)'
  <2>1. UNCHANGED <<socket, terminated, waiting, closing>>
    BY <1>1 DEF Open
  <2>2. pc'[u] = pc[u] \/ pc'[u] = "failed" \/ (pc[u] \in Before /\ pc'[u] \in Before)
    BY <1>a, <1>1 DEF Open, AcquireSlot, Before
  <2> QED
    BY <1>0, <2>1, <2>2, GoodbyeStays
<1>2. ASSUME NEW o \in Opens, OpenFails(o), UNCHANGED <<key, phase, socket, terminated, waiting, closing>>
      PROVE  Goodbye(u)'
  <2> DEFINE pcs == [pc EXCEPT ![o] = "failed"]
  <2>1. pcs \in [Opens -> OpenState] /\ pcs[u] \in {pc[u], "failed"}
    BY <1>a DEF OpenState
  <2>2. ReleaseSlot(pcs, [sessions EXCEPT ![key[o]] = None])
    BY <1>2 DEF OpenFails
  <2> HIDE DEF pcs
  <2>3. pc'[u] = pcs[u] \/ (pc[u] = "queued" /\ pc'[u] = "granted")
    BY <1>0, <2>1, <2>2, ReleaseBefore
  <2>4. pc'[u] = pc[u] \/ pc'[u] = "failed" \/ (pc[u] \in Before /\ pc'[u] \in Before)
    BY <2>1, <2>3 DEF Before
  <2> QED
    BY <1>0, <1>2, <2>4, GoodbyeStays
<1>3. ASSUME NEW o \in Opens, pc[o] \in {"granted", "minting"}, Register(o) PROVE Goodbye(u)'
  <2>1. UNCHANGED <<terminated, waiting, closing>>
    BY <1>3 DEF Register
  <2>2. CASE u = o
    <3>1. socket[o] = "none" /\ pc'[o] = "connecting" /\ socket'[o] = "connecting"
      BY <1>0, <1>a, <1>3, <2>2 DEF Register, Goodbye, Before
    <3> QED
      BY <1>0, <2>1, <2>2, <3>1 DEF Goodbye, Before
  <2>3. CASE u # o
    <3>1. pc'[u] = pc[u] /\ socket'[u] = socket[u]
      BY <1>a, <1>3, <2>3 DEF Register
    <3> QED
      BY <1>0, <2>1, <3>1, GoodbyeStays
  <2> QED
    BY <2>2, <2>3
<1>4. ASSUME NEW o \in Opens, TeardownDone(o) PROVE Goodbye(u)'
  <2>1. pc'[u] = pc[u] \/ (pc[u] = "queued" /\ pc'[u] = "granted")
    BY <1>0, <1>a, <1>4, ReleaseBefore DEF TeardownDone
  <2>2. UNCHANGED <<terminated, waiting>> /\ (closing'[u] > 0 => closing[u] > 0)
    BY <1>0, <1>a, <1>4 DEF TeardownDone, TypeOK
  <2>3. CASE socket'[u] = socket[u]
    BY <1>0, <2>1, <2>2, <2>3, GoodbyeStays DEF Before
  <2>4. CASE socket'[u] # socket[u]
    <3>1. socket[u] = "open" /\ socket'[u] = "closing"
      BY <1>a, <1>4, <2>4 DEF TeardownDone
    <3>2. pc[u] \notin Before /\ pc'[u] = pc[u]
      BY <1>0, <2>1, <3>1 DEF Goodbye, Before
    <3> QED
      BY <3>1, <3>2 DEF Goodbye
  <2> QED
    BY <2>3, <2>4
<1>5. ASSUME NEW o \in Opens, Microtask(o) PROVE Goodbye(u)'
  <2>1. CASE Rejected(o)
    BY <2>1, <1>2 DEF Rejected
  <2>2. CASE Granted(o) /\ sessions[key[o]] # None
    BY <2>2, <1>2 DEF Granted
  <2>3. CASE Granted(o) /\ sessions[key[o]] = None /\ ~TempToken
    BY <2>3, <1>3 DEF Granted
  <2>4. CASE Granted(o) /\ sessions[key[o]] = None /\ TempToken
    <3>1. pc[o] = "granted" /\ pc' = [pc EXCEPT ![o] = "minting"] /\ UNCHANGED <<socket, terminated, waiting, closing>>
      BY <2>4 DEF Granted
    <3>2. pc'[u] = pc[u] \/ (pc[u] \in Before /\ pc'[u] \in Before)
      BY <1>a, <3>1 DEF Before
    <3> QED
      BY <1>0, <3>1, <3>2, GoodbyeStays
  <2>5. CASE TeardownDone(o)
    BY <1>4, <2>5
  <2> QED
    BY <1>5, <2>1, <2>2, <2>3, <2>4, <2>5, <1>0 DEF Microtask, TypeOK
<1>6. ASSUME NEW o \in Opens, Mint(o) PROVE Goodbye(u)'
  <2>1. CASE Minted(o)
    BY <2>1, <1>3 DEF Minted
  <2>2. CASE MintFails(o)
    BY <2>2, <1>2 DEF MintFails
  <2> QED
    BY <1>6, <2>1, <2>2 DEF Mint
<1>7. ASSUME NEW o \in Opens, SocketOpens(o) PROVE Goodbye(u)'
  <2>1. UNCHANGED <<terminated, waiting, closing>>
    BY <1>7 DEF SocketOpens
  <2>2. CASE u = o
    <3>1. socket[o] = "connecting" /\ pc'[o] = "opened" /\ socket'[o] = "open"
      BY <1>a, <1>7 DEF SocketOpens
    <3>2. ~(waiting'[u] > 0) /\ ~(closing'[u] > 0)
      BY <1>0, <2>1, <2>2, <3>1 DEF Goodbye
    <3> QED
      BY <2>2, <3>1, <3>2 DEF Goodbye, Before
  <2>3. CASE u # o
    <3>1. pc'[u] = pc[u] /\ socket'[u] = socket[u]
      BY <1>a, <1>7, <2>3 DEF SocketOpens
    <3> QED
      BY <1>0, <2>1, <3>1, GoodbyeStays
  <2> QED
    BY <2>2, <2>3
<1>8. ASSUME NEW o \in Opens, ConnectFails(o) PROVE Goodbye(u)'
  <2> DEFINE pcs == [pc EXCEPT ![o] = "rejected"]
  <2>1. /\ pc[o] = "connecting" /\ pcs \in [Opens -> OpenState] /\ pcs[o] = "rejected"
        /\ u # o => pcs[u] = pc[u]
    BY <1>0, <1>a, <1>8 DEF OpenState, ConnectFails, HandshakeOwned
  <2>2. OnStreamClose(o, pcs) /\ UNCHANGED <<terminated, waiting, closing>>
    BY <1>8 DEF ConnectFails
  <2>3. (u # o => socket'[u] = socket[u]) /\ socket'[o] = "closed"
    BY <1>a, <1>8 DEF ConnectFails
  <2> HIDE DEF pcs
  <2>4. pc'[u] = pcs[u] \/ (pc[u] = "queued" /\ pc'[u] = "granted")
    BY <1>0, <2>1, <2>2, CloseMoves
  <2>5. CASE u = o
    BY <2>1, <2>3, <2>4, <2>5 DEF Goodbye, Before
  <2>6. CASE u # o
    BY <1>0, <2>1, <2>2, <2>3, <2>4, <2>6, GoodbyeStays DEF Before
  <2> QED
    BY <2>5, <2>6
<1>9. ASSUME NEW o \in Opens, SocketCloses(o) PROVE Goodbye(u)'
  <2>1. pc'[u] = pc[u] \/ (pc[u] = "queued" /\ pc'[u] = "granted")
    BY <1>0, <1>a, <1>9, CloseMoves DEF SocketCloses
  <2>2. CASE u = o
    <3>1. socket[o] \in {"open", "closing"} /\ socket'[o] = "closed"
      BY <1>a, <1>9 DEF SocketCloses
    <3>2. pc[u] \notin Before
      BY <1>0, <2>2, <3>1 DEF Goodbye
    <3> QED
      BY <2>1, <2>2, <3>1, <3>2 DEF Goodbye, Before
  <2>3. CASE u # o
    <3>1. socket'[u] = socket[u] /\ waiting'[u] = waiting[u] /\ closing'[u] = closing[u] /\ terminated' = terminated
      BY <1>0, <1>9, <2>3 DEF SocketCloses, TypeOK
    <3> QED
      BY <1>0, <2>1, <3>1, GoodbyeStays DEF Before
  <2> QED
    BY <2>2, <2>3
<1>10. ASSUME NEW o \in Opens, Termination(o) \/ TerminationTimeout(o) PROVE Goodbye(u)'
  <2>1. UNCHANGED <<pc, socket, terminated>> /\ waiting[o] > 0
    BY <1>10 DEF Termination, TerminationTimeout
  <2>2. u # o => waiting'[u] = waiting[u] /\ closing'[u] = closing[u]
    BY <1>0, <1>10 DEF Termination, TerminationTimeout, TypeOK
  <2>3. waiting'[u] > 0 \/ closing'[u] > 0 => waiting[u] > 0 \/ closing[u] > 0
    BY <2>1, <2>2
  <2> QED
    BY <1>0, <2>1, <2>3, GoodbyeStays
<1>11. ASSUME NEW S \in SUBSET Opens, StartTeardown(S), \A o \in S : pc[o] \in {"connecting", "opened", "rejected"}
       PROVE  Goodbye(u)'
  <2>1. CASE u \notin S
    <3>1. /\ waiting'[u] = waiting[u] /\ closing'[u] = closing[u] /\ terminated \subseteq terminated'
          /\ socket'[u] = socket[u] /\ pc'[u] = pc[u]
      BY <1>0, <1>11, <2>1 DEF StartTeardown, TypeOK
    <3> QED
      BY <1>0, <3>1, GoodbyeStays
  <2>2. CASE u \in S
    <3>1. /\ socket'[u] = IF socket[u] = "connecting" THEN "closing" ELSE socket[u]
          /\ pc'[u] = IF socket[u] = "connecting" THEN "rejected" ELSE pc[u]
          /\ socket[u] = "open" => u \in terminated'
      BY <1>11, <2>2 DEF StartTeardown
    <3>2. socket[u] # "none" /\ pc[u] \notin Before
      BY <1>0, <1>11, <2>2 DEF Goodbye, Before
    <3> QED
      BY <3>1, <3>2 DEF Goodbye, Before
  <2> QED
    BY <2>1, <2>2
<1>12. \A k \in Keys : sessions[k] # None =>
            sessions[k] \in Opens /\ pc[sessions[k]] \in {"connecting", "opened", "rejected"}
  BY <1>0 DEF EntriesAlive, Alive, TypeOK
<1>13. ASSUME NEW k \in Keys, Close(k) PROVE Goodbye(u)'
  <2>1. {sessions[k]} \in SUBSET Opens /\ \A o \in {sessions[k]} : pc[o] \in {"connecting", "opened", "rejected"}
    BY <1>12, <1>13 DEF Close, MayClose
  <2> QED
    BY <1>11, <1>13, <2>1 DEF Close
<1>14. CASE CloseAll
  <2> DEFINE all == {sessions[k] : k \in Keys} \ {None}
  <2>1. all \in SUBSET Opens /\ \A o \in all : pc[o] \in {"connecting", "opened", "rejected"}
    BY <1>12
  <2>2. StartTeardown(all)
    BY <1>14 DEF CloseAll
  <2> HIDE DEF all
  <2> QED
    BY <1>11, <2>1, <2>2
<1>15. CASE UNCHANGED vars
  <2>1. UNCHANGED <<pc, socket, terminated, waiting, closing>>
    BY <1>15 DEF vars
  <2> QED
    BY <1>0, <2>1, GoodbyeStays
<1> QED
  BY <1>1, <1>5, <1>6, <1>7, <1>8, <1>9, <1>10, <1>13, <1>14, <1>15 DEF Next, Handshake

\* Only the end of a teardown closes an open socket, and then Terminate was sent on it.
LEMMA ClosingIsSaid ==
    ASSUME TypeOK, GoodbyesSaid, [Next]_vars, NEW u \in Opens, socket[u] = "open", socket'[u] = "closing"
    PROVE  u \in terminated
<1>0. socket \in [Opens -> SocketState] /\ Goodbye(u)
  BY DEF TypeOK, GoodbyesSaid
<1>1. ASSUME NEW o \in Opens, Open(o) PROVE FALSE
  BY <1>1 DEF Open
<1>2. ASSUME NEW o \in Opens, Register(o) PROVE FALSE
  BY <1>0, <1>2 DEF Register
<1>3. ASSUME NEW o \in Opens, Microtask(o) PROVE u \in terminated
  <2>1. CASE Granted(o)
    BY <1>2, <2>1 DEF Granted
  <2>2. CASE Rejected(o)
    BY <2>2 DEF Rejected
  <2>3. CASE TeardownDone(o)
    <3>1. u = o /\ closing[u] > 0
      BY <1>0, <2>3 DEF TeardownDone
    <3> QED
      BY <1>0, <3>1 DEF Goodbye
  <2> QED
    BY <1>3, <2>1, <2>2, <2>3 DEF Microtask
<1>4. ASSUME NEW o \in Opens, Mint(o) PROVE FALSE
  BY <1>2, <1>4 DEF Mint, Minted, MintFails
<1>5. ASSUME NEW o \in Opens, Handshake(o) PROVE FALSE
  BY <1>0, <1>5 DEF Handshake, SocketOpens, ConnectFails
<1>6. ASSUME NEW o \in Opens, SocketCloses(o) \/ Termination(o) \/ TerminationTimeout(o) PROVE FALSE
  BY <1>0, <1>6 DEF SocketCloses, Termination, TerminationTimeout
<1>7. ASSUME NEW S, StartTeardown(S) PROVE FALSE
  BY <1>7 DEF StartTeardown
<1>8. UNCHANGED vars => FALSE
  BY DEF vars
<1> QED
  BY <1>1, <1>3, <1>4, <1>5, <1>6, <1>7, <1>8 DEF Next, Close, CloseAll

\* The client closes no open socket on which it has not sent Terminate, however open(), close(), the
\* server's Termination and the timer meet (realtimeStream.ts close(); manager.ts teardown()).
THEOREM NobodyHangsUpSilently == Spec => TerminateBeforeClose
<1> DEFINE Said == \A o \in Opens : socket[o] = "open" /\ socket'[o] = "closing" => o \in terminated
<1>1. Init => EntriesAlive /\ GoodbyesSaid
  BY DEF Init, EntriesAlive, GoodbyesSaid, Goodbye, Before
<1>2. IInv /\ GoodbyesSaid /\ [Next]_vars => [Said]_vars
  BY ClosingIsSaid DEF IInv
<1> QED
  BY InitEstablishes, StepKeeps, StepKeepsAlive, StepKeepsGoodbyes, <1>1, <1>2, PTL DEF Spec, TerminateBeforeClose

-----------------------------------------------------------------------------
(* The Voice Agent session *)

\* What the connections have in common besides: a socket that is not yet used has said nothing, and
\* the one in use has not said its end.
VaShapes ==
    /\ closeEvents \in [Sockets -> Nat]
    /\ \A n \in Sockets : wire[n] = "none" => closeEvents[n] = 0
    /\ ws # NoSocket => wire[ws] # "none" /\ closeEvents[ws] = 0

\* A close() that waits does so on the socket in use, if there is one, because nobody connects
\* meanwhile.
Closer == [on : Sockets, over : BOOLEAN]
ClosersWaitOnIt ==
    /\ closers \in Seq(Closer)
    /\ \A i \in 1..Len(closers) : ws # NoSocket => closers[i].on = ws

VaInv == SocketsAreOwned /\ VaShapes /\ ClosersWaitOnIt

\* Sequences, element by element: one that is given as a function, and the three ways to change one.
LEMMA FunctionIsSeq ==
    ASSUME NEW S, NEW n \in Nat, NEW f \in [1..n -> S]
    PROVE  f \in Seq(S) /\ Len(f) = n /\ DOMAIN f = 1..n
OBVIOUS

LEMMA TailParts ==
    ASSUME NEW S, NEW q \in Seq(S), q # <<>>
    PROVE  /\ Head(q) = q[1] /\ 1 \in 1..Len(q) /\ Head(q) \in S
           /\ Tail(q) \in Seq(S) /\ Len(Tail(q)) = Len(q) - 1
           /\ \A i \in 1..Len(Tail(q)) : Tail(q)[i] = q[i + 1] /\ i + 1 \in 1..Len(q)
OBVIOUS

LEMMA AppendParts ==
    ASSUME NEW S, NEW q \in Seq(S), NEW e \in S
    PROVE  /\ Append(q, e) \in Seq(S) /\ Len(Append(q, e)) = Len(q) + 1
           /\ \A i \in 1..Len(q) : Append(q, e)[i] = q[i]
           /\ Append(q, e)[Len(q) + 1] = e
OBVIOUS

LEMMA CloserStays ==
    ASSUME NEW c \in Closer
    PROVE  [c EXCEPT !.over = TRUE] \in Closer /\ [c EXCEPT !.over = TRUE].on = c.on
BY DEF Closer

LEMMA VaStart == VaInit => VaInv
<1> SUFFICES ASSUME VaInit PROVE VaInv
  OBVIOUS
<1>1. VaTypeOK
  BY VoiceAssumption DEF VaInit, VaTypeOK, Pending, Sockets, NoSocket
<1>2. VaShapes
  BY VoiceAssumption DEF VaInit, VaShapes, Sockets, NoSocket
<1>4. ClosersWaitOnIt
  BY DEF VaInit, ClosersWaitOnIt
<1>3. NoOrphanSocket /\ CloseEndsTheTale
  BY DEF VaInit, NoOrphanSocket, CloseEndsTheTale, Live
<1> QED
  BY <1>1, <1>2, <1>3, <1>4 DEF VaInv, SocketsAreOwned

\* A connection that is let go says its end now, and has not said it before.
LEMMA EndIsSaidOnce ==
    ASSUME VaTypeOK, VaShapes, CloseEndsTheTale,
           Finalize \/ (ws # NoSocket /\ FinalizeFailed),
           late' = late, \A n \in Sockets : wire'[n] = "none" => wire[n] = "none"
    PROVE  VaShapes' /\ CloseEndsTheTale'
<1> USE DEF VaTypeOK, VaShapes, CloseEndsTheTale, NoSocket
<1>1. CASE ws = NoSocket
  BY <1>1 DEF Finalize
<1>2. CASE ws # NoSocket
  <2>1. closeEvents' = [closeEvents EXCEPT ![ws] = @ + 1] /\ ws' = NoSocket /\ ws \in Sockets
    BY <1>2 DEF Finalize, FinalizeFailed
  <2>2. /\ closeEvents' \in [Sockets -> Nat] /\ closeEvents'[ws] = 1
        /\ \A n \in Sockets \ {ws} : closeEvents'[n] = closeEvents[n]
    BY <1>2, <2>1
  <2> QED
    BY <1>2, <2>1, <2>2
<1> QED
  BY <1>1, <1>2

\* Each event of a connection, whoever was there first.
LEMMA VaConnectionKeeps ==
    ASSUME VaInv, ~Reconnecting, NEW n \in Sockets,
           VaConnect(n) \/ VaOpens(n) \/ VaReady(n) \/ VaRelay(n) \/ VaRefused(n) \/ VaSocketError(n)
    PROVE  VaInv'
<1> USE VoiceAssumption DEF VaInv, SocketsAreOwned, Live, Listening, Emitted, Sockets, NoSocket
<1>1. CASE VaConnect(n)
  <2>1. VaTypeOK'
    BY <1>1 DEF VaConnect, VaTypeOK, Pending
  <2>2. VaShapes'
    BY <1>1 DEF VaConnect, VaShapes, VaTypeOK
  <2>3. ClosersWaitOnIt'
    BY <1>1 DEF VaConnect, ClosersWaitOnIt, VaTypeOK
  <2>4. NoOrphanSocket'
    BY <1>1 DEF VaConnect, NoOrphanSocket, VaTypeOK, ClosersWaitOnIt
  <2>5. CloseEndsTheTale'
    BY <1>1 DEF VaConnect, CloseEndsTheTale, VaShapes, VaTypeOK
  <2> QED
    BY <2>1, <2>2, <2>3, <2>4, <2>5 DEF VaInv, SocketsAreOwned
<1>2. CASE VaOpens(n)
  <2>1. VaTypeOK'
    BY <1>2 DEF VaOpens, VaTypeOK, Pending
  <2>2. VaShapes'
    BY <1>2 DEF VaOpens, VaShapes, VaTypeOK
  <2>3. ClosersWaitOnIt'
    BY <1>2 DEF VaOpens, ClosersWaitOnIt, VaTypeOK
  <2>4. NoOrphanSocket'
    BY <1>2 DEF VaOpens, NoOrphanSocket, VaTypeOK, ClosersWaitOnIt
  <2>5. CloseEndsTheTale'
    BY <1>2 DEF VaOpens, CloseEndsTheTale, VaShapes, VaTypeOK
  <2> QED
    BY <2>1, <2>2, <2>3, <2>4, <2>5 DEF VaInv, SocketsAreOwned
<1>3. CASE VaReady(n)
  <2>1. VaTypeOK'
    BY <1>3 DEF VaReady, Pending, VaTypeOK, Pending
  <2>2. VaShapes'
    BY <1>3 DEF VaReady, Pending, VaShapes, VaTypeOK
  <2>3. ClosersWaitOnIt'
    BY <1>3 DEF VaReady, Pending, ClosersWaitOnIt, VaTypeOK
  <2>4. NoOrphanSocket'
    BY <1>3 DEF VaReady, Pending, NoOrphanSocket, VaTypeOK, ClosersWaitOnIt
  <2>5. CloseEndsTheTale'
    BY <1>3 DEF VaReady, Pending, CloseEndsTheTale, VaShapes, VaTypeOK
  <2> QED
    BY <2>1, <2>2, <2>3, <2>4, <2>5 DEF VaInv, SocketsAreOwned
<1>4. CASE VaRelay(n)
  <2>1. VaTypeOK'
    BY <1>4 DEF VaRelay, VaTypeOK, Pending
  <2>2. VaShapes'
    BY <1>4 DEF VaRelay, VaShapes, VaTypeOK
  <2>3. ClosersWaitOnIt'
    BY <1>4 DEF VaRelay, ClosersWaitOnIt, VaTypeOK
  <2>4. NoOrphanSocket'
    BY <1>4 DEF VaRelay, NoOrphanSocket, VaTypeOK, ClosersWaitOnIt
  <2>5. CloseEndsTheTale'
    BY <1>4 DEF VaRelay, CloseEndsTheTale, VaShapes, VaTypeOK
  <2> QED
    BY <2>1, <2>2, <2>3, <2>4, <2>5 DEF VaInv, SocketsAreOwned
<1>5. CASE VaRefused(n)
  <2>1. VaTypeOK'
    BY <1>5 DEF VaRefused, FinalizeFailed, Pending, VaTypeOK, Pending
  <2>2. VaShapes'
    <3>1. /\ Finalize \/ (ws # NoSocket /\ FinalizeFailed)
          /\ late' = late /\ \A m \in Sockets : wire'[m] = "none" => wire[m] = "none"
      BY <1>5 DEF VaRefused, VaTypeOK
    <3> QED
      BY <3>1, EndIsSaidOnce
  <2>3. ClosersWaitOnIt'
    BY <1>5 DEF VaRefused, FinalizeFailed, Pending, ClosersWaitOnIt, VaTypeOK
  <2>4. NoOrphanSocket'
    BY <1>5 DEF VaRefused, FinalizeFailed, Pending, NoOrphanSocket, VaTypeOK, ClosersWaitOnIt
  <2>5. CloseEndsTheTale'
    <3>1. /\ Finalize \/ (ws # NoSocket /\ FinalizeFailed)
          /\ late' = late /\ \A m \in Sockets : wire'[m] = "none" => wire[m] = "none"
      BY <1>5 DEF VaRefused, VaTypeOK
    <3> QED
      BY <3>1, EndIsSaidOnce
  <2> QED
    BY <2>1, <2>2, <2>3, <2>4, <2>5 DEF VaInv, SocketsAreOwned
<1>6. CASE VaSocketError(n)
  <2>1. VaTypeOK'
    BY <1>6 DEF VaSocketError, Pending, VaTypeOK, Pending
  <2>2. VaShapes'
    BY <1>6 DEF VaSocketError, Pending, VaShapes, VaTypeOK
  <2>3. ClosersWaitOnIt'
    BY <1>6 DEF VaSocketError, Pending, ClosersWaitOnIt, VaTypeOK
  <2>4. NoOrphanSocket'
    BY <1>6 DEF VaSocketError, Pending, NoOrphanSocket, VaTypeOK, ClosersWaitOnIt
  <2>5. CloseEndsTheTale'
    <3>1. closeEvents[n] = 0
      BY <1>6 DEF VaSocketError, VaShapes
    <3>2. ~(closeEvents[n] > 0)
      BY <3>1
    <3>3. closeEvents' = closeEvents /\ late' = late
      BY <1>6, <3>2 DEF VaSocketError
    <3> QED
      BY <3>3 DEF CloseEndsTheTale
  <2> QED
    BY <2>1, <2>2, <2>3, <2>4, <2>5 DEF VaInv, SocketsAreOwned
<1> QED
  BY <1>1, <1>2, <1>3, <1>4, <1>5, <1>6

\* The end of a connection, from either side.
LEMMA VaEndKeeps ==
    ASSUME VaInv, ~Reconnecting,
           \/ \E n \in Sockets : VaSocketCloses(n) \/ VaEnded(n)
           \/ \E force \in BOOLEAN : VaClose(force)
           \/ \E i \in DOMAIN closers : VaEndTimeout(i)
           \/ VaReadyTimeout \/ VaCloses \/ VaDestroy
    PROVE  VaInv'
<1> USE VoiceAssumption DEF VaInv, SocketsAreOwned, Live, Listening, Emitted, Sockets, NoSocket
<1>1. ASSUME NEW n \in Sockets, VaSocketCloses(n) PROVE VaInv'
  <2>1. VaTypeOK'
    BY <1>1 DEF VaSocketCloses, FinalizeFailed, Pending, VaTypeOK, Pending
  <2>2. VaShapes'
    <3>1. CASE Listening(n)
      <4>1. /\ ws # NoSocket /\ FinalizeFailed
            /\ late' = late /\ \A m \in Sockets : wire'[m] = "none" => wire[m] = "none"
        BY <1>1, <3>1 DEF VaSocketCloses, VaTypeOK
      <4> QED
        BY <4>1, EndIsSaidOnce
    <3>2. CASE ~Listening(n)
      BY <1>1, <3>2 DEF VaSocketCloses, VaShapes, CloseEndsTheTale, VaTypeOK
    <3> QED
      BY <3>1, <3>2
  <2>3. ClosersWaitOnIt'
    <3>1. closers \in Seq(Closer) /\ DOMAIN closers = 1..Len(closers)
      BY DEF ClosersWaitOnIt
    <3>2. CASE Listening(n)
      <4>1. /\ ws' = NoSocket
            /\ closers' = [i \in 1..Len(closers) |->
                              IF closers[i].on = n THEN [closers[i] EXCEPT !.over = TRUE] ELSE closers[i]]
        BY <1>1, <3>1, <3>2 DEF VaSocketCloses, FinalizeFailed
      <4>2. closers' \in [1..Len(closers) -> Closer]
        BY <3>1, <4>1, CloserStays
      <4>3. closers' \in Seq(Closer)
        BY <3>1, <4>2, FunctionIsSeq
      <4> QED
        BY <4>1, <4>3 DEF ClosersWaitOnIt
    <3>3. CASE ~Listening(n)
      BY <1>1, <3>3 DEF VaSocketCloses, ClosersWaitOnIt
    <3> QED
      BY <3>2, <3>3
  <2>4. NoOrphanSocket'
    BY <1>1 DEF VaSocketCloses, FinalizeFailed, Pending, NoOrphanSocket, VaTypeOK, ClosersWaitOnIt
  <2>5. CloseEndsTheTale'
    <3>1. CASE Listening(n)
      <4>1. /\ ws # NoSocket /\ FinalizeFailed
            /\ late' = late /\ \A m \in Sockets : wire'[m] = "none" => wire[m] = "none"
        BY <1>1, <3>1 DEF VaSocketCloses, VaTypeOK
      <4> QED
        BY <4>1, EndIsSaidOnce
    <3>2. CASE ~Listening(n)
      BY <1>1, <3>2 DEF VaSocketCloses, VaShapes, CloseEndsTheTale, VaTypeOK
    <3> QED
      BY <3>1, <3>2
  <2> QED
    BY <2>1, <2>2, <2>3, <2>4, <2>5 DEF VaInv, SocketsAreOwned
<1>2. ASSUME NEW n \in Sockets, VaEnded(n) PROVE VaInv'
  <2>1. VaTypeOK'
    BY <1>2 DEF VaEnded, VaTypeOK, Pending
  <2>2. VaShapes'
    BY <1>2 DEF VaEnded, VaShapes, VaTypeOK
  <2>3. ClosersWaitOnIt'
    <3>1. closers \in Seq(Closer) /\ DOMAIN closers = 1..Len(closers)
      BY DEF ClosersWaitOnIt
    <3>2. closers' = [i \in 1..Len(closers) |-> [closers[i] EXCEPT !.over = TRUE]] /\ ws' = ws
      BY <1>2, <3>1 DEF VaEnded
    <3>3. \A i \in 1..Len(closers) : closers'[i] \in Closer /\ closers'[i].on = closers[i].on
      <4>1. TAKE i \in 1..Len(closers)
      <4>2. closers[i] \in Closer /\ closers'[i] = [closers[i] EXCEPT !.over = TRUE]
        BY <3>1, <3>2
      <4> QED
        BY <4>2, CloserStays
    <3>5. closers' \in [1..Len(closers) -> Closer]
      BY <3>2, <3>3
    <3>4. closers' \in Seq(Closer) /\ Len(closers') = Len(closers)
      BY <3>1, <3>5, FunctionIsSeq
    <3> QED
      BY <3>2, <3>3, <3>4 DEF ClosersWaitOnIt
  <2>4. NoOrphanSocket'
    BY <1>2 DEF VaEnded, NoOrphanSocket, VaTypeOK, ClosersWaitOnIt
  <2>5. CloseEndsTheTale'
    BY <1>2 DEF VaEnded, CloseEndsTheTale, VaShapes, VaTypeOK
  <2> QED
    BY <2>1, <2>2, <2>3, <2>4, <2>5 DEF VaInv, SocketsAreOwned
<1>3. ASSUME NEW force \in BOOLEAN, VaClose(force) PROVE VaInv'
  <2>1. VaTypeOK'
    BY <1>3 DEF VaClose, Finalize, Pending, VaTypeOK, Pending
  <2>2. VaShapes'
    <3>1. CASE Finalize
      <4>1. late' = late /\ \A m \in Sockets : wire'[m] = "none" => wire[m] = "none"
        BY <1>3 DEF VaClose, VaTypeOK
      <4> QED
        BY <3>1, <4>1, EndIsSaidOnce
    <3>2. CASE UNCHANGED <<wire, ws, readyTimer, promise, closeEvents>>
      BY <3>2 DEF VaShapes
    <3> QED
      BY <1>3, <3>1, <3>2 DEF VaClose
  <2>3. ClosersWaitOnIt'
    <3>1. CASE closers' = Append(closers, [on |-> ws, over |-> FALSE]) /\ ws' = ws
      <4>1. [on |-> ws, over |-> FALSE] \in Closer
        BY <1>3 DEF VaClose, VaTypeOK, Closer
      <4>2. closers \in Seq(Closer) /\ Len(closers) \in Nat
        BY DEF ClosersWaitOnIt
      <4>3. /\ closers' \in Seq(Closer) /\ Len(closers') = Len(closers) + 1
            /\ \A i \in 1..Len(closers) : closers'[i] = closers[i]
            /\ closers'[Len(closers) + 1] = [on |-> ws, over |-> FALSE]
        BY <3>1, <4>1, <4>2, AppendParts
      <4> QED
        BY <3>1, <4>2, <4>3 DEF ClosersWaitOnIt
    <3>2. CASE closers' = closers /\ ws' = NoSocket
      BY <3>2 DEF ClosersWaitOnIt
    <3> QED
      BY <1>3, <3>1, <3>2 DEF VaClose, Finalize
  <2>4. NoOrphanSocket'
    BY <1>3 DEF VaClose, Finalize, Pending, NoOrphanSocket, VaTypeOK, ClosersWaitOnIt
  <2>5. CloseEndsTheTale'
    BY <1>3 DEF VaClose, Finalize, Pending, CloseEndsTheTale, VaShapes, VaTypeOK
  <2> QED
    BY <2>1, <2>2, <2>3, <2>4, <2>5 DEF VaInv, SocketsAreOwned
<1>4. ASSUME NEW i \in DOMAIN closers, VaEndTimeout(i) PROVE VaInv'
  <2>1. VaTypeOK'
    BY <1>4 DEF VaEndTimeout, VaTypeOK, Pending
  <2>2. VaShapes'
    BY <1>4 DEF VaEndTimeout, VaShapes, VaTypeOK
  <2>3. ClosersWaitOnIt'
    <3>1. /\ closers \in Seq(Closer) /\ i \in 1..Len(closers) /\ ws' = ws
          /\ closers' = [closers EXCEPT ![i].over = TRUE]
      BY <1>4 DEF VaEndTimeout, ClosersWaitOnIt
    <3>2. /\ closers' \in [1..Len(closers) -> Closer]
          /\ \A j \in 1..Len(closers) : closers'[j].on = closers[j].on
      BY <3>1, CloserStays
    <3>3. closers' \in Seq(Closer) /\ Len(closers') = Len(closers)
      BY <3>1, <3>2, FunctionIsSeq
    <3> QED
      BY <3>1, <3>2, <3>3 DEF ClosersWaitOnIt
  <2>4. NoOrphanSocket'
    BY <1>4 DEF VaEndTimeout, NoOrphanSocket, VaTypeOK, ClosersWaitOnIt
  <2>5. CloseEndsTheTale'
    BY <1>4 DEF VaEndTimeout, CloseEndsTheTale, VaShapes, VaTypeOK
  <2> QED
    BY <2>1, <2>2, <2>3, <2>4, <2>5 DEF VaInv, SocketsAreOwned
<1>5. CASE VaReadyTimeout
  <2>1. VaTypeOK'
    BY <1>5 DEF VaReadyTimeout, FinalizeFailed, Pending, VaTypeOK, Pending
  <2>2. VaShapes'
    <3>1. /\ Finalize \/ (ws # NoSocket /\ FinalizeFailed)
          /\ late' = late /\ \A m \in Sockets : wire'[m] = "none" => wire[m] = "none"
      BY <1>5 DEF VaReadyTimeout, VaTypeOK
    <3> QED
      BY <3>1, EndIsSaidOnce
  <2>3. ClosersWaitOnIt'
    BY <1>5 DEF VaReadyTimeout, FinalizeFailed, Pending, ClosersWaitOnIt, VaTypeOK
  <2>4. NoOrphanSocket'
    BY <1>5 DEF VaReadyTimeout, FinalizeFailed, Pending, NoOrphanSocket, VaTypeOK, ClosersWaitOnIt
  <2>5. CloseEndsTheTale'
    <3>1. /\ Finalize \/ (ws # NoSocket /\ FinalizeFailed)
          /\ late' = late /\ \A m \in Sockets : wire'[m] = "none" => wire[m] = "none"
      BY <1>5 DEF VaReadyTimeout, VaTypeOK
    <3> QED
      BY <3>1, EndIsSaidOnce
  <2> QED
    BY <2>1, <2>2, <2>3, <2>4, <2>5 DEF VaInv, SocketsAreOwned
<1>6. CASE VaCloses
  <2>1. VaTypeOK'
    BY <1>6 DEF VaCloses, Finalize, Pending, VaTypeOK, Pending
  <2>2. VaShapes'
    <3>1. /\ Finalize \/ (ws # NoSocket /\ FinalizeFailed)
          /\ late' = late /\ \A m \in Sockets : wire'[m] = "none" => wire[m] = "none"
      BY <1>6 DEF VaCloses, VaTypeOK
    <3> QED
      BY <3>1, EndIsSaidOnce
  <2>3. ClosersWaitOnIt'
    BY <1>6 DEF VaCloses, Finalize, Pending, ClosersWaitOnIt, VaTypeOK
  <2>4. NoOrphanSocket'
    BY <1>6 DEF VaCloses, Finalize, Pending, NoOrphanSocket, VaTypeOK, ClosersWaitOnIt
  <2>5. CloseEndsTheTale'
    <3>1. /\ Finalize \/ (ws # NoSocket /\ FinalizeFailed)
          /\ late' = late /\ \A m \in Sockets : wire'[m] = "none" => wire[m] = "none"
      BY <1>6 DEF VaCloses, VaTypeOK
    <3> QED
      BY <3>1, EndIsSaidOnce
  <2> QED
    BY <2>1, <2>2, <2>3, <2>4, <2>5 DEF VaInv, SocketsAreOwned
<1>7. CASE VaDestroy
  <2>1. VaTypeOK'
    BY <1>7 DEF VaDestroy, Finalize, Pending, VaTypeOK, Pending
  <2>2. VaShapes'
    <3>1. /\ Finalize \/ (ws # NoSocket /\ FinalizeFailed)
          /\ late' = late /\ \A m \in Sockets : wire'[m] = "none" => wire[m] = "none"
      BY <1>7 DEF VaDestroy, VaTypeOK
    <3> QED
      BY <3>1, EndIsSaidOnce
  <2>3. ClosersWaitOnIt'
    BY <1>7 DEF VaDestroy, Finalize, Pending, ClosersWaitOnIt, VaTypeOK
  <2>4. NoOrphanSocket'
    BY <1>7 DEF VaDestroy, Finalize, Pending, NoOrphanSocket, VaTypeOK, ClosersWaitOnIt
  <2>5. CloseEndsTheTale'
    <3>1. /\ Finalize \/ (ws # NoSocket /\ FinalizeFailed)
          /\ late' = late /\ \A m \in Sockets : wire'[m] = "none" => wire[m] = "none"
      BY <1>7 DEF VaDestroy, VaTypeOK
    <3> QED
      BY <3>1, EndIsSaidOnce
  <2> QED
    BY <2>1, <2>2, <2>3, <2>4, <2>5 DEF VaInv, SocketsAreOwned
<1> QED
  BY <1>1, <1>2, <1>3, <1>4, <1>5, <1>6, <1>7

\* No socket of a Voice Agent is left open behind the session's back, its end is said once, and behind
\* it nothing but the warning of a close() that was still waiting, for any number of connections and
\* calls of close(): as long as the owner, as this program does, waits for a close() before it
\* connects again.
THEOREM EverySocketHasItsOwner ==
    ASSUME ~Reconnecting PROVE VaSpec => []SocketsAreOwned
<1>1. ASSUME VaInv, [VaNext]_vaVars PROVE VaInv'
  <2>1. CASE VaNext
    BY <1>1, <2>1, VaConnectionKeeps, VaEndKeeps DEF VaNext
  <2>2. CASE UNCHANGED vaVars
    BY <1>1, <2>2 DEF vaVars, VaInv, SocketsAreOwned, VaTypeOK, VaShapes, ClosersWaitOnIt,
                      NoOrphanSocket, CloseEndsTheTale, Live, Pending
  <2> QED
    BY <1>1, <2>1, <2>2
<1>2. VaInv => SocketsAreOwned
  BY DEF VaInv
<1> QED
  BY <1>1, <1>2, VaStart, PTL DEF VaSpec
-----------------------------------------------------------------------------
(* The stream *)

Events == {"open", "close", "error", "warn", "begin", "event", "notice", "termination"}

\* The promise of connect() is pending for as long as the handshake is; who waits for the Termination
\* has sent Terminate; and a code is that of a socket that has ended.
StreamShapes ==
    /\ closeCalls \in Nat /\ inClose \in Nat
    /\ connectIs = "pending" <=> wireIs = "connecting"
    /\ wireIs = "open" => connectIs = "resolved"
    /\ inClose > 0 => terminateSent /\ connectIs = "resolved"
    /\ closedBy # 0 => wireIs = "closed"
    /\ closedBy \in {0} \cup (Codes \ {410})

\* The end is told by the one "close" there is, the last thing the owner hears.
TaleEndsOnce ==
    /\ told \in Seq(Events)
    /\ wireIs = "closed" => Len(told) > 0
    /\ \A i \in 1..Len(told) : told[i] = "close" <=> (wireIs = "closed" /\ i = Len(told))

ErrorTold ==
    closedBy # 0 /\ (Fatal(closedBy) \/ Capacity(closedBy)) => \E i \in 1..Len(told) : told[i] = "error"

RateOK == streamRate \in StreamRates /\ chunkBytes \in Nat

\* The chunk in bytes, as the correction keeps it.
ChunkInRange == chunkBytes >= streamRate \div 10 /\ chunkBytes <= 2 * streamRate

StreamInv ==
    /\ StreamTypeOK /\ StateIsTrue /\ ClosedWithTerminate /\ RateOK /\ ChunkInRange
    /\ StreamShapes /\ TaleEndsOnce /\ ErrorTold

\* What is counted is what is there.
LEMMA CountParts ==
    ASSUME told \in Seq(Events), NEW e \in Events
    PROVE  /\ (\A i \in 1..Len(told) : told[i] # e) => Count(e) = 0
           /\ (\A i \in 1..Len(told) : told[i] = e <=> i = Len(told)) /\ Len(told) > 0 => Count(e) = 1
           /\ (\E i \in 1..Len(told) : told[i] = e) => Count(e) > 0
<1> DEFINE S == {i \in 1..Len(told) : told[i] = e}
<1>1. DOMAIN told = 1..Len(told) /\ Len(told) \in Nat
  OBVIOUS
<1>0. Count(e) = Cardinality(S)
  BY <1>1 DEF Count
<1>2. IsFiniteSet(1..Len(told))
  BY <1>1, FS_Interval
<1>3. IsFiniteSet(S)
  BY <1>2, FS_Subset
<1> HIDE DEF S
<1>4. ASSUME \A i \in 1..Len(told) : told[i] # e PROVE Count(e) = 0
  BY <1>4, <1>0, FS_EmptySet DEF S
<1>5. ASSUME \A i \in 1..Len(told) : told[i] = e <=> i = Len(told), Len(told) > 0 PROVE Count(e) = 1
  <2>0. Len(told) > 0
    BY <1>5
  <2>1. Len(told) \in 1..Len(told)
    BY <2>0, <1>1
  <2>2. \A i : i \in S <=> i = Len(told)
    BY <1>5, <2>1 DEF S
  <2>3. S = {Len(told)}
    BY <2>2
  <2> QED
    BY <2>3, <1>0, FS_Singleton
<1>6. ASSUME \E i \in 1..Len(told) : told[i] = e PROVE Count(e) > 0
  <2>1. S # {}
    BY <1>6 DEF S
  <2>2. Cardinality(S) # 0 /\ Cardinality(S) \in Nat
    BY <2>1, <1>3, FS_EmptySet, FS_CardinalityType
  <2> QED
    BY <2>2, <1>0
<1> QED
  BY <1>4, <1>5, <1>6

LEMMA RatesAreFit == ASSUME NEW r \in StreamRates PROVE r \in LegalRates
BY StreamAssumption

\* Rounding down costs less than a byte, and nothing where there is nothing to round.
LEMMA ByteIsEnough ==
    ASSUME NEW r \in LegalRates, NEW c \in Nat, c >= r \div 10
    PROVE  (c + 1) * 10 > r /\ (r % 10 = 0 => c * 10 >= r)
<1>1. r \in Nat
  BY DEF LegalRates
<1>2. (r \div 10 + 1) * 10 > r /\ (r % 10 = 0 => (r \div 10) * 10 = r) /\ r \div 10 \in Nat
  BY <1>1
<1> QED
  BY <1>1, <1>2

LEMMA StreamHonest == StreamInv => StreamIsHonest
<1> SUFFICES ASSUME StreamInv PROVE StreamIsHonest
  OBVIOUS
<1>1. EndIsTold
  <2>1. CASE wireIs = "closed"
    <3>1. Count("close") = 1
      BY <2>1, CountParts DEF StreamInv, TaleEndsOnce, Events
    <3> QED
      BY <3>1, <2>1 DEF EndIsTold, StreamInv, TaleEndsOnce
  <2>2. CASE wireIs # "closed"
    <3>1. Count("close") = 0
      BY <2>2, CountParts DEF StreamInv, TaleEndsOnce, Events
    <3> QED
      BY <3>1, <2>2 DEF EndIsTold
  <2> QED
    BY <2>1, <2>2
<1>2. FatalIsTold
  BY CountParts DEF StreamInv, ErrorTold, TaleEndsOnce, FatalIsTold, Events
<1>3. ChunkIsLegalToAByte
  <2>1. /\ streamRate \in LegalRates /\ chunkBytes \in Nat
        /\ chunkBytes >= streamRate \div 10 /\ chunkBytes <= 2 * streamRate
    BY RatesAreFit DEF StreamInv, RateOK, ChunkInRange
  <2> QED
    BY <2>1, ByteIsEnough DEF ChunkIsLegalToAByte, ChunkIsLegal
<1> QED
  BY <1>1, <1>2, <1>3 DEF StreamInv, StreamIsHonest

\* The chunk that is recommended at first, and after a 3007, is within these bytes.
ChunksOf(r) ==
    /\ r \div 10 \in Nat
    /\ AtLeast(1600, (r * 2) \div 10) \in (r \div 10)..(2 * r)
    /\ \A c \in 0..(2 * r) : AtLeast(AtLeast(64, r \div 10), c \div 2) \in (r \div 10)..(2 * r)

LEMMA ChunksAreLegal == ASSUME NEW r \in LegalRates PROVE ChunksOf(r)
<1> USE DEF LegalRates
<1>2. /\ (r * 2) \div 10 \in Nat /\ (r * 2) \div 10 <= 2 * r /\ (r * 2) \div 10 >= r \div 10
      /\ r \div 10 \in Nat /\ r \div 10 <= 2 * r
  OBVIOUS
<1>3. AtLeast(1600, (r * 2) \div 10) \in (r \div 10)..(2 * r)
  BY <1>2 DEF AtLeast
<1>4. ASSUME NEW c \in 0..(2 * r)
      PROVE  AtLeast(AtLeast(64, r \div 10), c \div 2) \in (r \div 10)..(2 * r)
  <2>1. c \div 2 \in 0..(2 * r)
    OBVIOUS
  <2> QED
    BY <1>2, <2>1 DEF AtLeast
<1> QED
  BY <1>2, <1>3, <1>4 DEF ChunksOf

LEMMA ChunkKept ==
    ASSUME RateOK, ChunkInRange, streamRate' = streamRate, chunkBytes' \in {chunkBytes, Corrected}
    PROVE  RateOK' /\ ChunkInRange'
<1>1. streamRate \in StreamRates /\ chunkBytes \in Nat
  BY DEF RateOK
<1>2. streamRate \in LegalRates
  BY <1>1, RatesAreFit
<1>3. ChunksOf(streamRate)
  BY <1>2, ChunksAreLegal
<1>4. chunkBytes >= streamRate \div 10 /\ chunkBytes <= 2 * streamRate
  BY <1>3 DEF ChunkInRange, ChunksOf
<1>5. chunkBytes \in 0..(2 * streamRate)
  BY <1>1, <1>2, <1>4 DEF LegalRates
<1>6. Corrected \in (streamRate \div 10)..(2 * streamRate)
  BY <1>3, <1>5 DEF Corrected, ChunksOf
<1>7. chunkBytes' >= streamRate \div 10 /\ chunkBytes' <= 2 * streamRate /\ chunkBytes' \in Nat
  BY <1>1, <1>2, <1>3, <1>4, <1>6 DEF ChunksOf, LegalRates
<1> QED
  BY <1>1, <1>3, <1>7 DEF RateOK, ChunkInRange, ChunksOf

LEMMA StreamStart == StreamInit => StreamInv
<1> SUFFICES ASSUME StreamInit PROVE StreamInv
  OBVIOUS
<1>1. RateOK /\ ChunkInRange
  <2>1. streamRate \in StreamRates /\ chunkBytes = AtLeast(1600, (streamRate * 2) \div 10)
    BY DEF StreamInit
  <2>2. streamRate \in LegalRates
    BY <2>1, RatesAreFit
  <2>3. ChunksOf(streamRate)
    BY <2>2, ChunksAreLegal
  <2>4. chunkBytes >= streamRate \div 10 /\ chunkBytes <= 2 * streamRate /\ chunkBytes \in Nat
    BY <2>1, <2>2, <2>3 DEF ChunksOf, LegalRates
  <2> QED
    BY <2>1, <2>3, <2>4 DEF RateOK, ChunkInRange, ChunksOf
<1>2. StreamTypeOK /\ StateIsTrue /\ ClosedWithTerminate /\ StreamShapes
  BY DEF StreamInit, StreamTypeOK, StateIsTrue, ClosedWithTerminate, StreamShapes
<1>3. TaleEndsOnce /\ ErrorTold
  BY DEF StreamInit, TaleEndsOnce, ErrorTold
<1> QED
  BY <1>1, <1>2, <1>3 DEF StreamInv

\* A message that is not the end, before the end.
LEMMA TaleGoesOn ==
    ASSUME TaleEndsOnce, ErrorTold, wireIs # "closed", wireIs' # "closed", closedBy' = closedBy,
           StreamShapes, NEW e \in Events \ {"close"},
           told' = Append(told, e) \/ told' = told \/ \E d \in Events \ {"close"} : told' = told \o <<d, e>>
                                   \/ told' = told \o <<e>>
    PROVE  TaleEndsOnce' /\ ErrorTold'
<1>1. told' \in Seq(Events) /\ \A i \in 1..Len(told') : told'[i] # "close"
  <2>1. CASE told' = told
    BY <2>1 DEF TaleEndsOnce
  <2>2. CASE told' = Append(told, e) \/ told' = told \o <<e>>
    BY <2>2 DEF TaleEndsOnce
  <2>3. ASSUME NEW d \in Events \ {"close"}, told' = told \o <<d, e>>
        PROVE  told' \in Seq(Events) /\ \A i \in 1..Len(told') : told'[i] # "close"
    BY <2>3 DEF TaleEndsOnce
  <2> QED
    BY <2>1, <2>2, <2>3
<1>2. closedBy' = 0
  BY DEF StreamShapes
<1> QED
  BY <1>1, <1>2 DEF TaleEndsOnce, ErrorTold

\* The end, and what is said before it.
LEMMA TaleEnds ==
    ASSUME TaleEndsOnce, wireIs # "closed", wireIs' = "closed",
           NEW end \in {<<"close">>, <<"error", "close">>, <<"warn", "notice", "close">>},
           told' = told \o end,
           end = <<"error", "close">> \/ ~(Fatal(closedBy') \/ Capacity(closedBy'))
    PROVE  TaleEndsOnce' /\ ErrorTold'
<1>1. told \in Seq(Events) /\ \A i \in 1..Len(told) : told[i] # "close"
  BY DEF TaleEndsOnce
<1>2. CASE end = <<"close">>
  <2>1. told' = told \o <<"close">>
    BY <1>2
  <2> QED
    BY <1>1, <1>2, <2>1 DEF TaleEndsOnce, ErrorTold, Events
<1>3. CASE end = <<"error", "close">>
  <2>1. told' = told \o <<"error", "close">>
    BY <1>3
  <2>2. /\ told' \in Seq(Events) /\ Len(told') = Len(told) + 2
        /\ \A i \in 1..Len(told) : told'[i] = told[i]
        /\ told'[Len(told) + 1] = "error" /\ told'[Len(told) + 2] = "close"
    BY <1>1, <2>1 DEF Events
  <2> QED
    BY <1>1, <2>2 DEF TaleEndsOnce, ErrorTold
<1>4. CASE end = <<"warn", "notice", "close">>
  <2>1. told' = told \o <<"warn", "notice", "close">>
    BY <1>4
  <2>2. /\ told' \in Seq(Events) /\ Len(told') = Len(told) + 3
        /\ \A i \in 1..Len(told) : told'[i] = told[i]
        /\ told'[Len(told) + 1] = "warn" /\ told'[Len(told) + 2] = "notice" /\ told'[Len(told) + 3] = "close"
    BY <1>1, <2>1 DEF Events
  <2>3. ~(Fatal(closedBy') \/ Capacity(closedBy'))
    BY <1>4
  <2> QED
    BY <1>1, <2>2, <2>3 DEF TaleEndsOnce, ErrorTold
<1> QED
  BY <1>2, <1>3, <1>4

LEMMA StreamKeeps ==
    ASSUME StreamInv, [StreamNext]_streamVars PROVE StreamInv'
<1> USE DEF StreamInv
<1>1. CASE StreamConnect
  <2>1. StreamTypeOK'
    BY <1>1 DEF StreamConnect, StreamTypeOK, StreamShapes, wireVars
  <2>2. StateIsTrue'
    BY <1>1 DEF StreamConnect, StreamTypeOK, StateIsTrue, ClosedWithTerminate, StreamShapes,
                wireVars
  <2>3. ClosedWithTerminate'
    BY <1>1 DEF StreamConnect, StreamTypeOK, StateIsTrue, ClosedWithTerminate, StreamShapes,
                wireVars
  <2>4. StreamShapes'
    BY <1>1 DEF StreamConnect, StreamTypeOK, StateIsTrue, ClosedWithTerminate, StreamShapes,
                wireVars
  <2>5. (RateOK /\ ChunkInRange)'
    BY <1>1 DEF StreamConnect, RateOK, ChunkInRange
  <2>6. (TaleEndsOnce /\ ErrorTold)'
    BY <1>1, TaleGoesOn DEF StreamConnect, TaleEndsOnce, ErrorTold, StateIsTrue, StreamShapes,
                            Events, wireVars
  <2> QED
    BY <2>1, <2>2, <2>3, <2>4, <2>5, <2>6
<1>2. CASE StreamOpens
  <2>1. StreamTypeOK'
    BY <1>2 DEF StreamOpens, StreamTypeOK, StreamShapes, wireVars
  <2>2. StateIsTrue'
    BY <1>2 DEF StreamOpens, StreamTypeOK, StateIsTrue, ClosedWithTerminate, StreamShapes, wireVars
  <2>3. ClosedWithTerminate'
    BY <1>2 DEF StreamOpens, StreamTypeOK, StateIsTrue, ClosedWithTerminate, StreamShapes, wireVars
  <2>4. StreamShapes'
    BY <1>2 DEF StreamOpens, StreamTypeOK, StateIsTrue, ClosedWithTerminate, StreamShapes, wireVars
  <2>5. (RateOK /\ ChunkInRange)'
    BY <1>2 DEF StreamOpens, RateOK, ChunkInRange
  <2>6. (TaleEndsOnce /\ ErrorTold)'
    BY <1>2, TaleGoesOn DEF StreamOpens, TaleEndsOnce, ErrorTold, StateIsTrue, StreamShapes, Events,
                            wireVars
  <2> QED
    BY <2>1, <2>2, <2>3, <2>4, <2>5, <2>6
<1>3. CASE HandshakeFails
  <2>1. StreamTypeOK'
    BY <1>3 DEF HandshakeFails, Codes, StreamTypeOK, StreamShapes, wireVars
  <2>2. StateIsTrue'
    BY <1>3 DEF HandshakeFails, Codes, StreamTypeOK, StateIsTrue, ClosedWithTerminate, StreamShapes,
                wireVars
  <2>3. ClosedWithTerminate'
    BY <1>3 DEF HandshakeFails, Codes, StreamTypeOK, StateIsTrue, ClosedWithTerminate, StreamShapes,
                wireVars
  <2>4. StreamShapes'
    BY <1>3 DEF HandshakeFails, Codes, StreamTypeOK, StateIsTrue, ClosedWithTerminate, StreamShapes,
                wireVars
  <2>5. (RateOK /\ ChunkInRange)'
    BY <1>3 DEF HandshakeFails, Codes, RateOK, ChunkInRange
  <2>6. (TaleEndsOnce /\ ErrorTold)'
    <3>1. told' = told \o <<"error", "close">> /\ wireIs # "closed" /\ wireIs' = "closed"
      BY <1>3 DEF HandshakeFails
    <3> QED
      BY <3>1, TaleEnds
  <2> QED
    BY <2>1, <2>2, <2>3, <2>4, <2>5, <2>6
<1>4. ASSUME NEW served \in BOOLEAN, Begins(served) PROVE StreamInv'
  <2>1. StreamTypeOK'
    BY <1>4 DEF Begins, StreamTypeOK, StreamShapes, wireVars
  <2>2. StateIsTrue'
    BY <1>4 DEF Begins, StreamTypeOK, StateIsTrue, ClosedWithTerminate, StreamShapes, wireVars
  <2>3. ClosedWithTerminate'
    BY <1>4 DEF Begins, StreamTypeOK, StateIsTrue, ClosedWithTerminate, StreamShapes, wireVars
  <2>4. StreamShapes'
    BY <1>4 DEF Begins, StreamTypeOK, StateIsTrue, ClosedWithTerminate, StreamShapes, wireVars
  <2>5. (RateOK /\ ChunkInRange)'
    BY <1>4 DEF Begins, RateOK, ChunkInRange
  <2>6. (TaleEndsOnce /\ ErrorTold)'
    <3>1. /\ told' = told \o <<"begin">> \/ told' = told \o <<"warn", "begin">>
          /\ wireIs = "open" /\ wireIs' = wireIs /\ closedBy' = closedBy
      BY <1>4 DEF Begins, wireVars
    <3>2. wireIs # "closed" /\ wireIs' # "closed" /\ "begin" \in Events \ {"close"} /\ "warn" \in Events \ {"close"}
      BY <3>1 DEF Events
    <3>3. CASE told' = told \o <<"begin">>
      BY <3>1, <3>2, <3>3, TaleGoesOn
    <3>4. CASE told' = told \o <<"warn", "begin">>
      BY <3>1, <3>2, <3>4, TaleGoesOn
    <3> QED
      BY <3>1, <3>3, <3>4
  <2> QED
    BY <2>1, <2>2, <2>3, <2>4, <2>5, <2>6
<1>5. ASSUME NEW event \in {"event", "error", "notice"}, Relays(event) PROVE StreamInv'
  <2>1. StreamTypeOK'
    BY <1>5 DEF Relays, StreamTypeOK, StreamShapes, wireVars
  <2>2. StateIsTrue'
    BY <1>5 DEF Relays, StreamTypeOK, StateIsTrue, ClosedWithTerminate, StreamShapes, wireVars
  <2>3. ClosedWithTerminate'
    BY <1>5 DEF Relays, StreamTypeOK, StateIsTrue, ClosedWithTerminate, StreamShapes, wireVars
  <2>4. StreamShapes'
    BY <1>5 DEF Relays, StreamTypeOK, StateIsTrue, ClosedWithTerminate, StreamShapes, wireVars
  <2>5. (RateOK /\ ChunkInRange)'
    BY <1>5 DEF Relays, RateOK, ChunkInRange
  <2>6. (TaleEndsOnce /\ ErrorTold)'
    BY <1>5, TaleGoesOn DEF Relays, TaleEndsOnce, ErrorTold, StateIsTrue, StreamShapes, Events,
                            wireVars
  <2> QED
    BY <2>1, <2>2, <2>3, <2>4, <2>5, <2>6
<1>6. CASE Terminated
  <2>1. StreamTypeOK'
    BY <1>6 DEF Terminated, StreamTypeOK, StreamShapes, wireVars
  <2>2. StateIsTrue'
    BY <1>6 DEF Terminated, StreamTypeOK, StateIsTrue, ClosedWithTerminate, StreamShapes, wireVars
  <2>3. ClosedWithTerminate'
    BY <1>6 DEF Terminated, StreamTypeOK, StateIsTrue, ClosedWithTerminate, StreamShapes, wireVars
  <2>4. StreamShapes'
    BY <1>6 DEF Terminated, StreamTypeOK, StateIsTrue, ClosedWithTerminate, StreamShapes, wireVars
  <2>5. (RateOK /\ ChunkInRange)'
    BY <1>6 DEF Terminated, RateOK, ChunkInRange
  <2>6. (TaleEndsOnce /\ ErrorTold)'
    BY <1>6, TaleGoesOn DEF Terminated, TaleEndsOnce, ErrorTold, StateIsTrue, StreamShapes, Events,
                            wireVars
  <2> QED
    BY <2>1, <2>2, <2>3, <2>4, <2>5, <2>6
<1>12. CASE PeerLeaves
  <2>1. StreamTypeOK'
    BY <1>12 DEF PeerLeaves, StreamTypeOK, StreamShapes
  <2>2. StateIsTrue'
    BY <1>12 DEF PeerLeaves, StreamTypeOK, StateIsTrue, ClosedWithTerminate, StreamShapes
  <2>3. ClosedWithTerminate'
    BY <1>12 DEF PeerLeaves, StreamTypeOK, StateIsTrue, ClosedWithTerminate, StreamShapes
  <2>4. StreamShapes'
    BY <1>12 DEF PeerLeaves, StreamTypeOK, StateIsTrue, ClosedWithTerminate, StreamShapes
  <2>5. (RateOK /\ ChunkInRange)'
    BY <1>12 DEF PeerLeaves, RateOK, ChunkInRange
  <2>6. (TaleEndsOnce /\ ErrorTold)'
    BY <1>12 DEF PeerLeaves, TaleEndsOnce, ErrorTold
  <2> QED
    BY <2>1, <2>2, <2>3, <2>4, <2>5, <2>6
<1>7. ASSUME NEW code \in Codes \ {410}, StreamCloses(code) PROVE StreamInv'
  <2>1. StreamTypeOK'
    BY <1>7 DEF StreamCloses, Codes, StreamTypeOK, StreamShapes, wireVars
  <2>2. StateIsTrue'
    BY <1>7 DEF StreamCloses, Codes, StreamTypeOK, StateIsTrue, ClosedWithTerminate, StreamShapes,
                wireVars
  <2>3. ClosedWithTerminate'
    BY <1>7 DEF StreamCloses, Codes, StreamTypeOK, StateIsTrue, ClosedWithTerminate, StreamShapes,
                wireVars
  <2>4. StreamShapes'
    BY <1>7 DEF StreamCloses, Codes, StreamTypeOK, StateIsTrue, ClosedWithTerminate, StreamShapes,
                wireVars
  <2>5. (RateOK /\ ChunkInRange)'
    BY <1>7, ChunkKept DEF StreamCloses
  <2>6. (TaleEndsOnce /\ ErrorTold)'
    <3>1. wireIs # "closed" /\ wireIs' = "closed" /\ told' = told \o Report(code) /\ closedBy' = code
      BY <1>7 DEF StreamCloses
    <3>2. CASE IsNamed(code)
      <4>1. Report(code) = <<"error", "close">>
        BY <3>2 DEF Report, IsNamed, AdjustChunkSize
      <4> QED
        BY <3>1, <4>1, TaleEnds
    <3>3. CASE ~IsNamed(code)
      <4>1. ~(Fatal(code) \/ Capacity(code))
        BY <1>7, <3>3 DEF IsNamed, Fatal, Capacity
      <4>2. CASE AdjustChunkSize(code)
        <5>1. Report(code) = <<"warn", "notice", "close">>
          BY <3>3, <4>2 DEF Report
        <5> QED
          BY <3>1, <4>1, <5>1, TaleEnds
      <4>3. CASE ~AdjustChunkSize(code)
        <5>1. Report(code) = <<"close">>
          BY <3>3, <4>3 DEF Report
        <5> QED
          BY <3>1, <4>1, <5>1, TaleEnds
      <4> QED
        BY <4>2, <4>3
    <3> QED
      BY <3>2, <3>3
  <2> QED
    BY <2>1, <2>2, <2>3, <2>4, <2>5, <2>6
<1>8. CASE ErrorUnheard
  <2>1. StreamTypeOK'
    BY <1>8 DEF ErrorUnheard, StreamTypeOK, StreamShapes, wireVars
  <2>2. StateIsTrue'
    BY <1>8 DEF ErrorUnheard, StreamTypeOK, StateIsTrue, ClosedWithTerminate, StreamShapes, wireVars
  <2>3. ClosedWithTerminate'
    BY <1>8 DEF ErrorUnheard, StreamTypeOK, StateIsTrue, ClosedWithTerminate, StreamShapes, wireVars
  <2>4. StreamShapes'
    BY <1>8 DEF ErrorUnheard, StreamTypeOK, StateIsTrue, ClosedWithTerminate, StreamShapes, wireVars
  <2>5. (RateOK /\ ChunkInRange)'
    BY <1>8 DEF ErrorUnheard, RateOK, ChunkInRange
  <2>6. (TaleEndsOnce /\ ErrorTold)'
    BY <1>8 DEF ErrorUnheard, wireVars, TaleEndsOnce, ErrorTold
  <2> QED
    BY <2>1, <2>2, <2>3, <2>4, <2>5, <2>6
<1>9. CASE StreamClose
  <2>1. StreamTypeOK'
    BY <1>9 DEF StreamClose, AskTermination, BreakOff, NothingToClose, StreamTypeOK, StreamShapes,
                wireVars
  <2>2. StateIsTrue'
    BY <1>9 DEF StreamClose, AskTermination, BreakOff, NothingToClose, StreamTypeOK, StateIsTrue,
                ClosedWithTerminate, StreamShapes, wireVars
  <2>3. ClosedWithTerminate'
    BY <1>9 DEF StreamClose, AskTermination, BreakOff, NothingToClose, StreamTypeOK, StateIsTrue,
                ClosedWithTerminate, StreamShapes, wireVars
  <2>4. StreamShapes'
    BY <1>9 DEF StreamClose, AskTermination, BreakOff, NothingToClose, StreamTypeOK, StateIsTrue,
                ClosedWithTerminate, StreamShapes, wireVars
  <2>5. (RateOK /\ ChunkInRange)'
    BY <1>9 DEF StreamClose, AskTermination, BreakOff, NothingToClose, RateOK, ChunkInRange
  <2>6. (TaleEndsOnce /\ ErrorTold)'
    <3>1. wireIs = "closed" <=> wireIs' = "closed"
      BY <1>9 DEF StreamClose, AskTermination, BreakOff, NothingToClose, wireVars
    <3>2. told' = told /\ closedBy' = closedBy
      BY <1>9 DEF StreamClose
    <3> QED
      BY <3>1, <3>2 DEF TaleEndsOnce, ErrorTold
  <2> QED
    BY <2>1, <2>2, <2>3, <2>4, <2>5, <2>6
<1>10. CASE GivesUpWaiting
  <2>1. StreamTypeOK'
    BY <1>10 DEF GivesUpWaiting, StreamTypeOK, StreamShapes, wireVars
  <2>2. StateIsTrue'
    BY <1>10 DEF GivesUpWaiting, StreamTypeOK, StateIsTrue, ClosedWithTerminate, StreamShapes,
                 wireVars
  <2>3. ClosedWithTerminate'
    BY <1>10 DEF GivesUpWaiting, StreamTypeOK, StateIsTrue, ClosedWithTerminate, StreamShapes,
                 wireVars
  <2>4. StreamShapes'
    BY <1>10 DEF GivesUpWaiting, StreamTypeOK, StateIsTrue, ClosedWithTerminate, StreamShapes,
                 wireVars
  <2>5. (RateOK /\ ChunkInRange)'
    BY <1>10 DEF GivesUpWaiting, RateOK, ChunkInRange
  <2>6. (TaleEndsOnce /\ ErrorTold)'
    BY <1>10, TaleGoesOn DEF GivesUpWaiting, TaleEndsOnce, ErrorTold, StateIsTrue, StreamShapes,
                             Events, wireVars
  <2> QED
    BY <2>1, <2>2, <2>3, <2>4, <2>5, <2>6
<1>11. CASE UNCHANGED streamVars
  <2>1. StreamTypeOK'
    BY <1>11 DEF streamVars, StreamTypeOK, StreamShapes, wireVars
  <2>2. StateIsTrue'
    BY <1>11 DEF streamVars, StreamTypeOK, StateIsTrue, ClosedWithTerminate, StreamShapes, wireVars
  <2>3. ClosedWithTerminate'
    BY <1>11 DEF streamVars, StreamTypeOK, StateIsTrue, ClosedWithTerminate, StreamShapes, wireVars
  <2>4. StreamShapes'
    BY <1>11 DEF streamVars, StreamTypeOK, StateIsTrue, ClosedWithTerminate, StreamShapes, wireVars
  <2>5. (RateOK /\ ChunkInRange)'
    BY <1>11 DEF streamVars, RateOK, ChunkInRange
  <2>6. (TaleEndsOnce /\ ErrorTold)'
    BY <1>11 DEF streamVars, wireVars, TaleEndsOnce, ErrorTold
  <2> QED
    BY <2>1, <2>2, <2>3, <2>4, <2>5, <2>6
<1> QED
  BY <1>1, <1>2, <1>3, <1>4, <1>5, <1>6, <1>7, <1>8, <1>9, <1>10, <1>11, <1>12 DEF StreamNext

\* What a stream tells its owner is so, for any rates and any number of closes and messages: its
\* state, its one end as the last thing said, an error before an end that nothing can be done about, a
\* chunk that is legal but for a fraction of a byte, and Terminate on every open socket that is closed.
THEOREM StreamTellsTheTruth == StreamSpec => []StreamIsHonest
<1>1. StreamInv /\ [StreamNext]_streamVars => StreamInv'
  BY StreamKeeps
<1> QED
  BY <1>1, StreamStart, StreamHonest, PTL DEF StreamSpec
-----------------------------------------------------------------------------
(* The requests *)

\* The numbers of a call.
RestNumbers ==
    /\ clock \in Nat /\ wakeAt \in Nat /\ expiresAt \in Nat /\ notBefore \in Nat /\ deadline \in Nat
    /\ stage = "idle" => clock = 0 /\ attempt = 0 /\ deadline = 0

\* A request that goes out, or will without a wait, is not before its time; the end of a wait is not.
NotBeforeItsTime ==
    /\ ServerIsObeyed
    /\ sending \in {"ask", "asked"} => notBefore <= clock
    /\ sending = "wait" => notBefore <= wakeAt
    /\ stage = "idle" => notBefore = 0

\* The one job is made by the submission that is answered, and deadlines are of jobs that there are.
JobsAreMade ==
    /\ OneJob /\ jobs \in Nat
    /\ stage \in {"idle", "upload", "submit"} => jobs = 0
    /\ stage \in {"chat", "upload", "submit", "list"} => deadline = 0
    /\ PollIsHonest

\* What n attempts of a chat may take.
Attempts(n) == n * ChatTimeout

\* Between two attempts a chat has had no more than those that are over; in an attempt, no more than
\* its own signal allows.
ChatInTime ==
    stage = "chat" =>
        /\ sending = "ask" => clock <= Attempts(attempt)
        /\ sending = "asked" => clock <= expiresAt /\ expiresAt <= Attempts(attempt + 1)
        /\ sending = "wait" => clock <= expiresAt /\ expiresAt <= Attempts(attempt)

\* The pages asked for are the first and those of the cursors seen; the next one is not among them.
PagesAreSeen ==
    /\ pages \in Seq(Cursors \cup {FirstPage}) /\ seen \subseteq Cursors
    /\ nextCursor \in seen \cup {FirstPage}
    /\ \A i \in 1..Len(pages) : pages[i] \in seen \cup {FirstPage}
    /\ \A i, j \in 1..Len(pages) : pages[i] = pages[j] => i = j
    /\ stage = "idle" => pages = <<>>

NextIsNew ==
    /\ stage = "list" /\ sending = "ask" /\ attempt = 0 => \A i \in 1..Len(pages) : pages[i] # nextCursor
    /\ stage = "list" /\ sending = "wait" => attempt > 0

RestInv ==
    /\ RestTypeOK /\ RestNumbers /\ NotBeforeItsTime /\ JobsAreMade /\ ChatInTime
    /\ PagesAreSeen /\ NextIsNew

\* An attempt more is one timeout more.
LEMMA AttemptsAdd ==
    /\ \A n \in Nat : Attempts(n) \in Nat /\ Attempts(n + 1) = Attempts(n) + ChatTimeout
    /\ \A n \in 0..MaxRetries : Attempts(n) + ChatTimeout <= Attempts(MaxRetries + 1)
    /\ Attempts(MaxRetries + 1) = (MaxRetries + 1) * ChatTimeout
    /\ Attempts(0) = 0
<1>1. ChatTimeout \in Nat /\ MaxRetries \in Nat
  BY RestAssumption
<1>2. ASSUME NEW n \in 0..MaxRetries PROVE Attempts(n) + ChatTimeout <= Attempts(MaxRetries + 1)
  <2>1. (MaxRetries - n) * ChatTimeout >= 0
    BY <1>1
  <2> QED
    BY <1>1, <2>1 DEF Attempts
<1> QED
  BY <1>1, <1>2 DEF Attempts

LEMMA RestHonest == RestInv => RequestsAreHonest
<1> SUFFICES ASSUME RestInv PROVE RequestsAreHonest
  OBVIOUS
<1>1. ChatBounded
  <2>1. ASSUME stage = "chat" PROVE clock <= Attempts(MaxRetries + 1)
    <3>1. attempt \in 0..MaxRetries /\ MaxRetries \in Nat /\ ChatTimeout \in Nat
      BY RestAssumption DEF RestInv, RestTypeOK
    <3>2. /\ Attempts(attempt) \in Nat /\ Attempts(attempt + 1) = Attempts(attempt) + ChatTimeout
          /\ Attempts(attempt) + ChatTimeout <= Attempts(MaxRetries + 1) /\ Attempts(MaxRetries + 1) \in Nat
      BY <3>1, AttemptsAdd
    <3>3. clock \in Nat /\ expiresAt \in Nat /\ sending \in {"ask", "asked", "wait"}
      BY <2>1 DEF RestInv, RestNumbers, RestTypeOK, RestEnded
    <3> QED
      BY <2>1, <3>1, <3>2, <3>3 DEF RestInv, ChatInTime
  <2> QED
    BY <2>1, AttemptsAdd DEF ChatBounded
<1>2. PagesOnce
  BY DEF RestInv, PagesAreSeen, PagesOnce, IsInjective
<1> QED
  BY <1>1, <1>2 DEF RestInv, NotBeforeItsTime, JobsAreMade, RequestsAreHonest

LEMMA RestStart == RestInit => RestInv
<1> SUFFICES ASSUME RestInit PROVE RestInv
  OBVIOUS
<1>1. RestTypeOK
  BY RestAssumption DEF RestInit, RestTypeOK, RestEnded, RestBusy
<1>2. RestNumbers /\ NotBeforeItsTime /\ JobsAreMade /\ ChatInTime
  BY DEF RestInit, RestNumbers, NotBeforeItsTime, ServerIsObeyed, JobsAreMade, OneJob, PollIsHonest, ChatInTime
<1>3. PagesAreSeen /\ NextIsNew
  BY DEF RestInit, PagesAreSeen, NextIsNew
<1> QED
  BY <1>1, <1>2, <1>3 DEF RestInv

LEMMA RestKeeps ==
    ASSUME RestInv, [RestNext]_restVars PROVE RestInv'
<1> USE DEF RestInv
<1>1. ASSUME NEW s \in RestBusy, StartCall(s) PROVE RestInv'
  <2>1. RestTypeOK'
    BY <1>1, RestAssumption DEF StartCall, RestTypeOK, RestNumbers, sendVars, jobVars, pageVars,
                                RestBusy, RestEnded
  <2>2. RestNumbers'
    BY <1>1, RestAssumption DEF StartCall, RestNumbers, RestTypeOK, sendVars, jobVars, pageVars,
                                RestBusy, RestEnded
  <2>3. NotBeforeItsTime'
    BY <1>1, RestAssumption DEF StartCall, NotBeforeItsTime, ServerIsObeyed, RestNumbers,
                                RestTypeOK, sendVars, jobVars, pageVars, RestBusy, RestEnded
  <2>4. JobsAreMade'
    BY <1>1, RestAssumption DEF StartCall, JobsAreMade, OneJob, PollIsHonest, RestNumbers, sendVars,
                                jobVars, pageVars, RestBusy, RestEnded
  <2>5. ChatInTime'
    BY <1>1, RestAssumption, AttemptsAdd DEF StartCall, ChatInTime, RestNumbers, RestTypeOK,
                                             sendVars, jobVars, pageVars, RestBusy, RestEnded
  <2>6. PagesAreSeen'
    BY <1>1, RestAssumption DEF StartCall, PagesAreSeen, sendVars, jobVars, pageVars, RestBusy,
                                RestEnded
  <2>7. NextIsNew'
    BY <1>1, RestAssumption DEF StartCall, NextIsNew, RestTypeOK, RestNumbers, PagesAreSeen,
                                sendVars, jobVars, pageVars, RestBusy, RestEnded
  <2> QED
    BY <2>1, <2>2, <2>3, <2>4, <2>5, <2>6, <2>7
<1>2. CASE Ask
  <2>1. RestTypeOK'
    BY <1>2, RestAssumption DEF Ask, RestTypeOK, RestNumbers, sendVars, jobVars, pageVars, RestBusy,
                                RestEnded
  <2>2. RestNumbers'
    BY <1>2, RestAssumption DEF Ask, RestNumbers, RestTypeOK, sendVars, jobVars, pageVars, RestBusy,
                                RestEnded
  <2>3. NotBeforeItsTime'
    <3>1. sending = "ask" /\ sending' = "asked" /\ clock' = clock /\ notBefore' = notBefore /\ stage' = stage
      BY <1>2 DEF Ask
    <3>2. ~(clock < notBefore) /\ notBefore <= clock
      BY <3>1 DEF NotBeforeItsTime, RestNumbers
    <3>3. ~tooSoon'
      BY <1>2, <3>2 DEF Ask, NotBeforeItsTime, ServerIsObeyed
    <3> QED
      BY <3>1, <3>2, <3>3 DEF NotBeforeItsTime, ServerIsObeyed
  <2>4. JobsAreMade'
    BY <1>2, RestAssumption DEF Ask, JobsAreMade, OneJob, PollIsHonest, RestNumbers, sendVars,
                                jobVars, pageVars, RestBusy, RestEnded
  <2>5. ChatInTime'
    BY <1>2, RestAssumption, AttemptsAdd DEF Ask, ChatInTime, RestNumbers, RestTypeOK, sendVars,
                                             jobVars, pageVars, RestBusy, RestEnded
  <2>6. PagesAreSeen'
    <3>1. CASE stage = "list" /\ attempt = 0
      <4>1. /\ pages' = Append(pages, nextCursor) /\ seen' = seen /\ nextCursor' = nextCursor /\ stage' = stage
            /\ \A i \in 1..Len(pages) : pages[i] # nextCursor
        BY <1>2, <3>1 DEF Ask, NextIsNew
      <4>2. nextCursor \in Cursors \cup {FirstPage} /\ pages \in Seq(Cursors \cup {FirstPage})
        BY DEF PagesAreSeen
      <4>3. /\ pages' \in Seq(Cursors \cup {FirstPage}) /\ Len(pages') = Len(pages) + 1
            /\ \A i \in 1..Len(pages) : pages'[i] = pages[i]
            /\ pages'[Len(pages) + 1] = nextCursor
        BY <4>1, <4>2, AppendParts
      <4> QED
        BY <3>1, <4>1, <4>2, <4>3 DEF PagesAreSeen
    <3>2. CASE ~(stage = "list" /\ attempt = 0)
      BY <1>2, <3>2 DEF Ask, PagesAreSeen
    <3> QED
      BY <3>1, <3>2
  <2>7. NextIsNew'
    BY <1>2, RestAssumption DEF Ask, NextIsNew, RestTypeOK, RestNumbers, PagesAreSeen, sendVars,
                                jobVars, pageVars, RestBusy, RestEnded
  <2> QED
    BY <2>1, <2>2, <2>3, <2>4, <2>5, <2>6, <2>7
<1>3. CASE Answered
  <2>0. /\ sending = "asked"
        /\ \/ stage = "chat" /\ stage' = "done" /\ sending' = "no" /\ attempt' = attempt /\ jobVars' = jobVars
           \/ stage = "upload" /\ stage' = "submit" /\ sending' = "ask" /\ attempt' = 0 /\ jobVars' = jobVars
           \/ /\ stage = "submit" /\ stage' = "poll" /\ sending' = "ask" /\ attempt' = 0
              /\ job' = "queued" /\ jobs' = jobs + 1 /\ deadline' = clock + PollTimeout
        /\ UNCHANGED <<clock, wakeAt, expiresAt, abortable, notBefore, tooSoon, pageVars>>
    BY <1>3 DEF Answered, EndCall, NextRequest
  <2>1. RestTypeOK'
    BY <2>0, RestAssumption DEF RestTypeOK, RestNumbers, sendVars, jobVars, pageVars, RestBusy,
                                RestEnded
  <2>2. RestNumbers'
    BY <2>0, RestAssumption DEF RestNumbers, RestTypeOK, sendVars, jobVars, pageVars, RestBusy,
                                RestEnded
  <2>3. NotBeforeItsTime'
    BY <2>0, RestAssumption DEF NotBeforeItsTime, ServerIsObeyed, RestNumbers, RestTypeOK, sendVars,
                                jobVars, pageVars, RestBusy, RestEnded
  <2>4. JobsAreMade'
    BY <2>0, RestAssumption DEF JobsAreMade, OneJob, PollIsHonest, RestNumbers, sendVars, jobVars,
                                pageVars, RestBusy, RestEnded
  <2>5. ChatInTime'
    BY <2>0, RestAssumption, AttemptsAdd DEF ChatInTime, RestNumbers, RestTypeOK, sendVars, jobVars,
                                             pageVars, RestBusy, RestEnded
  <2>6. PagesAreSeen'
    BY <2>0, RestAssumption DEF PagesAreSeen, sendVars, jobVars, pageVars, RestBusy, RestEnded
  <2>7. NextIsNew'
    BY <2>0, RestAssumption DEF NextIsNew, RestTypeOK, RestNumbers, PagesAreSeen, sendVars, jobVars,
                                pageVars, RestBusy, RestEnded
  <2> QED
    BY <2>1, <2>2, <2>3, <2>4, <2>5, <2>6, <2>7
<1>4. CASE Polled
  <2>1. RestTypeOK'
    BY <1>4, RestAssumption DEF Polled, EndCall, Unfinished, RestTypeOK, RestNumbers, sendVars,
                                jobVars, pageVars, RestBusy, RestEnded
  <2>2. RestNumbers'
    BY <1>4, RestAssumption DEF Polled, EndCall, Unfinished, RestNumbers, RestTypeOK, sendVars,
                                jobVars, pageVars, RestBusy, RestEnded
  <2>3. NotBeforeItsTime'
    BY <1>4, RestAssumption DEF Polled, EndCall, Unfinished, NotBeforeItsTime, ServerIsObeyed,
                                RestNumbers, RestTypeOK, sendVars, jobVars, pageVars, RestBusy,
                                RestEnded
  <2>4. JobsAreMade'
    BY <1>4, RestAssumption DEF Polled, EndCall, Unfinished, JobsAreMade, OneJob, PollIsHonest,
                                RestNumbers, sendVars, jobVars, pageVars, RestBusy, RestEnded
  <2>5. ChatInTime'
    BY <1>4, RestAssumption, AttemptsAdd DEF Polled, EndCall, Unfinished, ChatInTime, RestNumbers,
                                             RestTypeOK, sendVars, jobVars, pageVars, RestBusy,
                                             RestEnded
  <2>6. PagesAreSeen'
    BY <1>4, RestAssumption DEF Polled, EndCall, Unfinished, PagesAreSeen, sendVars, jobVars,
                                pageVars, RestBusy, RestEnded
  <2>7. NextIsNew'
    BY <1>4, RestAssumption DEF Polled, EndCall, Unfinished, NextIsNew, RestTypeOK, RestNumbers,
                                PagesAreSeen, sendVars, jobVars, pageVars, RestBusy, RestEnded
  <2> QED
    BY <2>1, <2>2, <2>3, <2>4, <2>5, <2>6, <2>7
<1>5. CASE Wake
  <2>1. RestTypeOK'
    BY <1>5, RestAssumption DEF Wake, RestTypeOK, RestNumbers, sendVars, jobVars, pageVars,
                                RestBusy, RestEnded
  <2>2. RestNumbers'
    BY <1>5, RestAssumption DEF Wake, RestNumbers, RestTypeOK, sendVars, jobVars, pageVars,
                                RestBusy, RestEnded
  <2>3. NotBeforeItsTime'
    BY <1>5, RestAssumption DEF Wake, NotBeforeItsTime, ServerIsObeyed, RestNumbers, RestTypeOK,
                                sendVars, jobVars, pageVars, RestBusy, RestEnded
  <2>4. JobsAreMade'
    BY <1>5, RestAssumption DEF Wake, JobsAreMade, OneJob, PollIsHonest, RestNumbers, sendVars,
                                jobVars, pageVars, RestBusy, RestEnded
  <2>5. ChatInTime'
    BY <1>5, RestAssumption, AttemptsAdd DEF Wake, ChatInTime, RestNumbers, RestTypeOK, sendVars,
                                             jobVars, pageVars, RestBusy, RestEnded
  <2>6. PagesAreSeen'
    BY <1>5, RestAssumption DEF Wake, PagesAreSeen, sendVars, jobVars, pageVars, RestBusy, RestEnded
  <2>7. NextIsNew'
    BY <1>5, RestAssumption DEF Wake, NextIsNew, RestTypeOK, RestNumbers, PagesAreSeen, sendVars,
                                jobVars, pageVars, RestBusy, RestEnded
  <2> QED
    BY <2>1, <2>2, <2>3, <2>4, <2>5, <2>6, <2>7
<1>6. CASE Expire
  <2>1. RestTypeOK'
    BY <1>6, RestAssumption DEF Expire, EndCall, Expires, RestTypeOK, RestNumbers, sendVars,
                                jobVars, pageVars, RestBusy, RestEnded
  <2>2. RestNumbers'
    BY <1>6, RestAssumption DEF Expire, EndCall, Expires, RestNumbers, RestTypeOK, sendVars,
                                jobVars, pageVars, RestBusy, RestEnded
  <2>3. NotBeforeItsTime'
    BY <1>6, RestAssumption DEF Expire, EndCall, Expires, NotBeforeItsTime, ServerIsObeyed,
                                RestNumbers, RestTypeOK, sendVars, jobVars, pageVars, RestBusy,
                                RestEnded
  <2>4. JobsAreMade'
    BY <1>6, RestAssumption DEF Expire, EndCall, Expires, JobsAreMade, OneJob, PollIsHonest,
                                RestNumbers, sendVars, jobVars, pageVars, RestBusy, RestEnded
  <2>5. ChatInTime'
    BY <1>6, RestAssumption, AttemptsAdd DEF Expire, EndCall, Expires, ChatInTime, RestNumbers,
                                             RestTypeOK, sendVars, jobVars, pageVars, RestBusy,
                                             RestEnded
  <2>6. PagesAreSeen'
    BY <1>6, RestAssumption DEF Expire, EndCall, Expires, PagesAreSeen, sendVars, jobVars, pageVars,
                                RestBusy, RestEnded
  <2>7. NextIsNew'
    BY <1>6, RestAssumption DEF Expire, EndCall, Expires, NextIsNew, RestTypeOK, RestNumbers,
                                PagesAreSeen, sendVars, jobVars, pageVars, RestBusy, RestEnded
  <2> QED
    BY <2>1, <2>2, <2>3, <2>4, <2>5, <2>6, <2>7
<1>7. CASE Abort
  <2>1. RestTypeOK'
    BY <1>7, RestAssumption DEF Abort, EndCall, RestTypeOK, RestNumbers, sendVars, jobVars,
                                pageVars, RestBusy, RestEnded
  <2>2. RestNumbers'
    BY <1>7, RestAssumption DEF Abort, EndCall, RestNumbers, RestTypeOK, sendVars, jobVars,
                                pageVars, RestBusy, RestEnded
  <2>3. NotBeforeItsTime'
    BY <1>7, RestAssumption DEF Abort, EndCall, NotBeforeItsTime, ServerIsObeyed, RestNumbers,
                                RestTypeOK, sendVars, jobVars, pageVars, RestBusy, RestEnded
  <2>4. JobsAreMade'
    BY <1>7, RestAssumption DEF Abort, EndCall, JobsAreMade, OneJob, PollIsHonest, RestNumbers,
                                sendVars, jobVars, pageVars, RestBusy, RestEnded
  <2>5. ChatInTime'
    BY <1>7, RestAssumption, AttemptsAdd DEF Abort, EndCall, ChatInTime, RestNumbers, RestTypeOK,
                                             sendVars, jobVars, pageVars, RestBusy, RestEnded
  <2>6. PagesAreSeen'
    BY <1>7, RestAssumption DEF Abort, EndCall, PagesAreSeen, sendVars, jobVars, pageVars, RestBusy,
                                RestEnded
  <2>7. NextIsNew'
    BY <1>7, RestAssumption DEF Abort, EndCall, NextIsNew, RestTypeOK, RestNumbers, PagesAreSeen,
                                sendVars, jobVars, pageVars, RestBusy, RestEnded
  <2> QED
    BY <2>1, <2>2, <2>3, <2>4, <2>5, <2>6, <2>7
<1>8. ASSUME NEW for, for \in Waits, NEW said, Limited(for, said) PROVE RestInv'
  <2>0. /\ sending = "asked" /\ notBefore' \in {clock + for, notBefore} /\ for \in Nat
        /\ \/ /\ attempt < MaxRetries /\ attempt' = attempt + 1 /\ sending' = "wait" /\ wakeAt' = clock + for
              /\ stage' = stage
           \/ stage' = "failed" /\ sending' = "no" /\ attempt' = attempt /\ wakeAt' = wakeAt
        /\ UNCHANGED <<clock, expiresAt, abortable, jobVars, tooSoon, pageVars>>
    BY <1>8, RestAssumption DEF Limited, EndCall, Waiting
  <2>1. RestTypeOK'
    BY <2>0, RestAssumption DEF RestTypeOK, RestNumbers, sendVars, jobVars, pageVars, RestBusy,
                                RestEnded
  <2>2. RestNumbers'
    BY <2>0, RestAssumption DEF RestNumbers, RestTypeOK, sendVars, jobVars, pageVars, RestBusy,
                                RestEnded
  <2>3. NotBeforeItsTime'
    BY <2>0, RestAssumption DEF NotBeforeItsTime, ServerIsObeyed, RestNumbers, RestTypeOK, sendVars,
                                jobVars, pageVars, RestBusy, RestEnded
  <2>4. JobsAreMade'
    BY <2>0, RestAssumption DEF JobsAreMade, OneJob, PollIsHonest, RestNumbers, sendVars, jobVars,
                                pageVars, RestBusy, RestEnded
  <2>5. ChatInTime'
    BY <2>0, RestAssumption, AttemptsAdd DEF ChatInTime, RestNumbers, RestTypeOK, sendVars, jobVars,
                                             pageVars, RestBusy, RestEnded
  <2>6. PagesAreSeen'
    BY <2>0, RestAssumption DEF PagesAreSeen, sendVars, jobVars, pageVars, RestBusy, RestEnded
  <2>7. NextIsNew'
    BY <2>0, RestAssumption DEF NextIsNew, RestTypeOK, RestNumbers, PagesAreSeen, sendVars, jobVars,
                                pageVars, RestBusy, RestEnded
  <2> QED
    BY <2>1, <2>2, <2>3, <2>4, <2>5, <2>6, <2>7
<1>9. ASSUME NEW made \in BOOLEAN, Failed(made) PROVE RestInv'
  <2>1. RestTypeOK'
    BY <1>9, RestAssumption DEF Failed, EndCall, Refuse, RestTypeOK, RestNumbers, sendVars, jobVars,
                                pageVars, RestBusy, RestEnded
  <2>2. RestNumbers'
    BY <1>9, RestAssumption DEF Failed, EndCall, Refuse, RestNumbers, RestTypeOK, sendVars, jobVars,
                                pageVars, RestBusy, RestEnded
  <2>3. NotBeforeItsTime'
    BY <1>9, RestAssumption DEF Failed, EndCall, Refuse, NotBeforeItsTime, ServerIsObeyed,
                                RestNumbers, RestTypeOK, sendVars, jobVars, pageVars, RestBusy,
                                RestEnded
  <2>4. JobsAreMade'
    BY <1>9, RestAssumption DEF Failed, EndCall, Refuse, JobsAreMade, OneJob, PollIsHonest,
                                RestNumbers, sendVars, jobVars, pageVars, RestBusy, RestEnded
  <2>5. ChatInTime'
    BY <1>9, RestAssumption, AttemptsAdd DEF Failed, EndCall, Refuse, ChatInTime, RestNumbers,
                                             RestTypeOK, sendVars, jobVars, pageVars, RestBusy,
                                             RestEnded
  <2>6. PagesAreSeen'
    BY <1>9, RestAssumption DEF Failed, EndCall, Refuse, PagesAreSeen, sendVars, jobVars, pageVars,
                                RestBusy, RestEnded
  <2>7. NextIsNew'
    BY <1>9, RestAssumption DEF Failed, EndCall, Refuse, NextIsNew, RestTypeOK, RestNumbers,
                                PagesAreSeen, sendVars, jobVars, pageVars, RestBusy, RestEnded
  <2> QED
    BY <2>1, <2>2, <2>3, <2>4, <2>5, <2>6, <2>7
<1>10. ASSUME NEW next, next \in Cursors \cup {""}, Listed(next) PROVE RestInv'
  <2>0. /\ sending = "asked" /\ stage = "list"
        /\ \/ /\ next \in Cursors /\ next \notin seen
              /\ stage' = "list" /\ sending' = "ask" /\ attempt' = 0
              /\ nextCursor' = next /\ seen' = seen \cup {next}
           \/ stage' = "done" /\ sending' = "no" /\ UNCHANGED <<attempt, nextCursor, seen>>
        /\ UNCHANGED <<clock, wakeAt, expiresAt, abortable, jobVars, notBefore, tooSoon, pages>>
    BY <1>10 DEF Listed, EndCall, NextRequest, More
  <2>1. RestTypeOK'
    <3>1. /\ sending = "asked" /\ stage = "list"
          /\ \/ stage' = "list" /\ sending' = "ask" /\ attempt' = 0
             \/ stage' = "done" /\ sending' = "no" /\ attempt' = attempt
          /\ UNCHANGED <<clock, wakeAt, expiresAt, jobVars, notBefore, tooSoon>>
      BY <2>0
    <3> QED
      BY <3>1, RestAssumption DEF RestTypeOK, RestNumbers, RestBusy, RestEnded
  <2>2. RestNumbers'
    BY <2>0, RestAssumption DEF RestNumbers, RestTypeOK, sendVars, jobVars, pageVars, RestBusy,
                                RestEnded
  <2>3. NotBeforeItsTime'
    BY <2>0, RestAssumption DEF NotBeforeItsTime, ServerIsObeyed, RestNumbers, RestTypeOK, sendVars,
                                jobVars, pageVars, RestBusy, RestEnded
  <2>4. JobsAreMade'
    <3>1. /\ sending = "asked" /\ stage = "list"
          /\ \/ stage' = "list" /\ sending' = "ask" /\ attempt' = 0
             \/ stage' = "done" /\ sending' = "no" /\ attempt' = attempt
          /\ UNCHANGED <<clock, wakeAt, expiresAt, jobVars, notBefore, tooSoon>>
      BY <2>0
    <3> QED
      BY <3>1, RestAssumption DEF JobsAreMade, OneJob, PollIsHonest, RestNumbers, jobVars
  <2>5. ChatInTime'
    BY <2>0, RestAssumption, AttemptsAdd DEF ChatInTime, RestNumbers, RestTypeOK, sendVars, jobVars,
                                             pageVars, RestBusy, RestEnded
  <2>6. PagesAreSeen'
    BY <2>0, RestAssumption DEF PagesAreSeen, sendVars, jobVars, pageVars, RestBusy, RestEnded
  <2>7. NextIsNew'
    <3>1. CASE sending' = "no"
      BY <3>1 DEF NextIsNew
    <3>2. CASE sending' # "no"
      <4>1. next \in Cursors /\ next \notin seen /\ nextCursor' = next /\ pages' = pages /\ sending' = "ask"
        BY <2>0, <3>2
      <4>2. next \notin seen \cup {FirstPage}
        BY <4>1, RestAssumption
      <4>3. \A i \in 1..Len(pages) : pages[i] # next
        BY <4>2 DEF PagesAreSeen
      <4> QED
        BY <4>1, <4>3 DEF NextIsNew
    <3> QED
      BY <3>1, <3>2
  <2> QED
    BY <2>1, <2>2, <2>3, <2>4, <2>5, <2>6, <2>7
<1>11. ASSUME NEW how \in {"completed", "error"}, Works(how) PROVE RestInv'
  <2>1. RestTypeOK'
    BY <1>11, RestAssumption DEF Works, RestTypeOK, RestNumbers, sendVars, jobVars, pageVars,
                                 RestBusy, RestEnded
  <2>2. RestNumbers'
    BY <1>11, RestAssumption DEF Works, RestNumbers, RestTypeOK, sendVars, jobVars, pageVars,
                                 RestBusy, RestEnded
  <2>3. NotBeforeItsTime'
    BY <1>11, RestAssumption DEF Works, NotBeforeItsTime, ServerIsObeyed, RestNumbers, RestTypeOK,
                                 sendVars, jobVars, pageVars, RestBusy, RestEnded
  <2>4. JobsAreMade'
    BY <1>11, RestAssumption DEF Works, JobsAreMade, OneJob, PollIsHonest, RestNumbers, sendVars,
                                 jobVars, pageVars, RestBusy, RestEnded
  <2>5. ChatInTime'
    BY <1>11, RestAssumption, AttemptsAdd DEF Works, ChatInTime, RestNumbers, RestTypeOK, sendVars,
                                              jobVars, pageVars, RestBusy, RestEnded
  <2>6. PagesAreSeen'
    BY <1>11, RestAssumption DEF Works, PagesAreSeen, sendVars, jobVars, pageVars, RestBusy,
                                 RestEnded
  <2>7. NextIsNew'
    BY <1>11, RestAssumption DEF Works, NextIsNew, RestTypeOK, RestNumbers, PagesAreSeen, sendVars,
                                 jobVars, pageVars, RestBusy, RestEnded
  <2> QED
    BY <2>1, <2>2, <2>3, <2>4, <2>5, <2>6, <2>7
<1>12. CASE Passes
  <2>1. RestTypeOK'
    BY <1>12, RestAssumption DEF Passes, Expires, RestTypeOK, RestNumbers, sendVars, jobVars,
                                 pageVars, RestBusy, RestEnded
  <2>2. RestNumbers'
    BY <1>12, RestAssumption DEF Passes, Expires, RestNumbers, RestTypeOK, sendVars, jobVars,
                                 pageVars, RestBusy, RestEnded
  <2>3. NotBeforeItsTime'
    BY <1>12, RestAssumption DEF Passes, Expires, NotBeforeItsTime, ServerIsObeyed, RestNumbers,
                                 RestTypeOK, sendVars, jobVars, pageVars, RestBusy, RestEnded
  <2>4. JobsAreMade'
    BY <1>12, RestAssumption DEF Passes, Expires, JobsAreMade, OneJob, PollIsHonest, RestNumbers,
                                 sendVars, jobVars, pageVars, RestBusy, RestEnded
  <2>5. ChatInTime'
    BY <1>12, RestAssumption, AttemptsAdd DEF Passes, Expires, ChatInTime, RestNumbers, RestTypeOK,
                                              sendVars, jobVars, pageVars, RestBusy, RestEnded
  <2>6. PagesAreSeen'
    BY <1>12, RestAssumption DEF Passes, Expires, PagesAreSeen, sendVars, jobVars, pageVars,
                                 RestBusy, RestEnded
  <2>7. NextIsNew'
    BY <1>12, RestAssumption DEF Passes, Expires, NextIsNew, RestTypeOK, RestNumbers, PagesAreSeen,
                                 sendVars, jobVars, pageVars, RestBusy, RestEnded
  <2> QED
    BY <2>1, <2>2, <2>3, <2>4, <2>5, <2>6, <2>7
<1>13. CASE Oversleeps
  <2>1. RestTypeOK'
    BY <1>13, RestAssumption DEF Oversleeps, RestTypeOK, RestNumbers, sendVars, jobVars, pageVars,
                                 RestBusy, RestEnded
  <2>2. RestNumbers'
    BY <1>13, RestAssumption DEF Oversleeps, RestNumbers, RestTypeOK, sendVars, jobVars, pageVars,
                                 RestBusy, RestEnded
  <2>3. NotBeforeItsTime'
    BY <1>13, RestAssumption DEF Oversleeps, NotBeforeItsTime, ServerIsObeyed, RestNumbers,
                                 RestTypeOK, sendVars, jobVars, pageVars, RestBusy, RestEnded
  <2>4. JobsAreMade'
    BY <1>13, RestAssumption DEF Oversleeps, JobsAreMade, OneJob, PollIsHonest, RestNumbers,
                                 sendVars, jobVars, pageVars, RestBusy, RestEnded
  <2>5. ChatInTime'
    BY <1>13, RestAssumption, AttemptsAdd DEF Oversleeps, ChatInTime, RestNumbers, RestTypeOK,
                                              sendVars, jobVars, pageVars, RestBusy, RestEnded
  <2>6. PagesAreSeen'
    BY <1>13, RestAssumption DEF Oversleeps, PagesAreSeen, sendVars, jobVars, pageVars, RestBusy,
                                 RestEnded
  <2>7. NextIsNew'
    BY <1>13, RestAssumption DEF Oversleeps, NextIsNew, RestTypeOK, RestNumbers, PagesAreSeen,
                                 sendVars, jobVars, pageVars, RestBusy, RestEnded
  <2> QED
    BY <2>1, <2>2, <2>3, <2>4, <2>5, <2>6, <2>7
<1>14. CASE UNCHANGED restVars
  <2>1. RestTypeOK'
    BY <1>14, RestAssumption DEF restVars, RestTypeOK, RestNumbers, sendVars, jobVars, pageVars,
                                 RestBusy, RestEnded
  <2>2. RestNumbers'
    BY <1>14, RestAssumption DEF restVars, RestNumbers, RestTypeOK, sendVars, jobVars, pageVars,
                                 RestBusy, RestEnded
  <2>3. NotBeforeItsTime'
    BY <1>14, RestAssumption DEF restVars, NotBeforeItsTime, ServerIsObeyed, RestNumbers,
                                 RestTypeOK, sendVars, jobVars, pageVars, RestBusy, RestEnded
  <2>4. JobsAreMade'
    BY <1>14, RestAssumption DEF restVars, JobsAreMade, OneJob, PollIsHonest, RestNumbers, sendVars,
                                 jobVars, pageVars, RestBusy, RestEnded
  <2>5. ChatInTime'
    BY <1>14, RestAssumption, AttemptsAdd DEF restVars, ChatInTime, RestNumbers, RestTypeOK,
                                              sendVars, jobVars, pageVars, RestBusy, RestEnded
  <2>6. PagesAreSeen'
    BY <1>14, RestAssumption DEF restVars, PagesAreSeen, sendVars, jobVars, pageVars, RestBusy,
                                 RestEnded
  <2>7. NextIsNew'
    BY <1>14, RestAssumption DEF restVars, NextIsNew, RestTypeOK, RestNumbers, PagesAreSeen,
                                 sendVars, jobVars, pageVars, RestBusy, RestEnded
  <2> QED
    BY <2>1, <2>2, <2>3, <2>4, <2>5, <2>6, <2>7
<1> QED
  BY <1>1, <1>2, <1>3, <1>4, <1>5, <1>6, <1>7, <1>8, <1>9, <1>10, <1>11, <1>12, <1>13, <1>14 DEF RestNext

\* For any timeouts, waits and cursors: a server that says when is not asked before, one transcription
\* makes one job, poll() reports what the service said, no page is asked for twice, and a chat takes no
\* more than its attempts do.
THEOREM RequestsKeepTheirWord == RestSpec => []RequestsAreHonest
<1>1. RestInv /\ [RestNext]_restVars => RestInv'
  BY RestKeeps
<1> QED
  BY <1>1, RestStart, RestHonest, PTL DEF RestSpec

-----------------------------------------------------------------------------
(* The stored agents *)

StoredInv == RateKept /\ DOMAIN stored = {"exists", "input", "output", "tools"}

LEMMA StoredStart == StoredInit => StoredInv
BY DEF StoredInit, StoredInv, RateKept

\* A side goes over the wire at the rate of the service, or by force, or not at all.
LEMMA WireRate ==
    ASSUME NEW side, ~Throws(side), side.unsafe = Unset
    PROVE  WireSide(side).rate = ServiceRate
BY DEF Throws, WireSide, WireFormat

LEMMA StoredKeeps ==
    ASSUME StoredInv, [StoredNext]_agentVars PROVE StoredInv'
<1>1. ASSUME NEW i \in Side, NEW o \in Side, CreateAgent([input |-> i, output |-> o]) PROVE StoredInv'
  BY <1>1, WireRate DEF StoredInv, CreateAgent, RateKept, Forced, Sides
<1>2. ASSUME NEW def, NEW sides \in SUBSET Sides, NEW tools, UpdateAgent(sides, def, tools)
      PROVE  StoredInv'
  <2>1. CASE \E s \in sides : Throws(def[s])
    BY <1>2, <2>1 DEF StoredInv, UpdateAgent, RateKept
  <2>2. CASE ~\E s \in sides : Throws(def[s])
    <3>1. /\ stored.exists /\ forced' = Forced(sides, def)
          /\ DOMAIN stored' = DOMAIN stored /\ stored'.exists = stored.exists
          /\ \A s \in Sides : stored'[s] = IF s \in sides THEN WireSide(def[s]) ELSE stored[s]
      BY <1>2, <2>2 DEF StoredInv, UpdateAgent, Sides
    <3>2. \A s \in Sides \ forced' : stored'[s].rate = ServiceRate
      <4>1. TAKE s \in Sides \ forced'
      <4>2. CASE s \in sides
        BY <2>2, <3>1, <4>2, WireRate DEF Forced
      <4>3. CASE s \notin sides
        BY <3>1, <4>3 DEF Forced, StoredInv, RateKept
      <4> QED
        BY <4>2, <4>3
    <3> QED
      BY <3>1, <3>2 DEF StoredInv, RateKept
  <2> QED
    BY <2>1, <2>2
<1>3. CASE DeleteAgent
  BY <1>3 DEF DeleteAgent, StoredInv, RateKept
<1>4. CASE UNCHANGED agentVars
  BY <1>4 DEF agentVars, StoredInv, RateKept
<1> QED
  BY <1>1, <1>2, <1>3, <1>4 DEF StoredNext

\* For any terms of an agent: whatever definitions and patches it is made of, it speaks at the rate
\* that a session takes, but on a side where unsafeSampleRate was used last.
THEOREM StoredAgentsSpeak == StoredSpec => []RateKept
<1>1. StoredInv /\ [StoredNext]_agentVars => StoredInv'
  BY StoredKeeps
<1>2. StoredInv => RateKept
  BY DEF StoredInv
<1> QED
  BY <1>1, <1>2, StoredStart, PTL DEF StoredSpec

-----------------------------------------------------------------------------
(* Induction, over a set instead of a predicate. *)

LEMMA NatInduct ==
    ASSUME NEW S \in SUBSET Nat, 0 \in S, \A n \in S : n + 1 \in S
    PROVE  S = Nat
<1> DEFINE R == {r \in Nat \X Nat : r[1] < r[2]}
<1>1. IsWellFoundedOn(R, Nat)
  BY NatLessThanWellFounded DEF OpToRel
<1>2. \A y \in Nat, x \in Nat : <<y, x>> \in R <=> y < x
  OBVIOUS
<1> HIDE DEF R
<1> SUFFICES ASSUME Nat \ S # {} PROVE FALSE
  OBVIOUS
<1>3. PICK x \in Nat \ S : \A y \in Nat \ S : ~(<<y, x>> \in R)
  BY <1>1, WFMin
<1>4. x - 1 \in Nat /\ x - 1 < x /\ x = (x - 1) + 1
  BY <1>3
<1>5. x - 1 \in S
  BY <1>2, <1>3, <1>4
<1> QED
  BY <1>3, <1>4, <1>5

-----------------------------------------------------------------------------
(* The reconnect policy *)

\* The doublings up to the n-th: there are some, and they agree.
DoubledTo(n) == {f \in [0..n -> Nat \ {0}] : f[0] = 1 /\ \A k \in 1..n : f[k] = 2 * f[k - 1]}

LEMMA DoubledOnce == \A n \in Nat : DoubledTo(n) # {}
<1> DEFINE S == {n \in Nat : DoubledTo(n) # {}}
<1>1. 0 \in S
  <2>1. [k \in 0..0 |-> 1] \in DoubledTo(0)
    BY DEF DoubledTo
  <2> QED
    BY <2>1
<1>2. ASSUME NEW n \in S PROVE n + 1 \in S
  <2>1. PICK f \in DoubledTo(n) : TRUE
    OBVIOUS
  <2> DEFINE g == [k \in 0..(n + 1) |-> IF k = n + 1 THEN 2 * f[n] ELSE f[k]]
  <2>2. /\ n \in Nat /\ f \in [0..n -> Nat \ {0}] /\ f[0] = 1
        /\ \A k \in 1..n : f[k] = 2 * f[k - 1]
    BY <2>1 DEF DoubledTo
  <2>3. g \in [0..(n + 1) -> Nat \ {0}] /\ g[0] = 1
    BY <2>2
  <2>4. ASSUME NEW k \in 1..(n + 1) PROVE g[k] = 2 * g[k - 1]
    <3>1. k - 1 \in 0..n /\ k - 1 # n + 1 /\ (k = n + 1 \/ k \in 1..n)
      BY <2>2
    <3>2. g[k - 1] = f[k - 1]
      BY <2>2, <3>1
    <3> QED
      BY <2>2, <3>1, <3>2
  <2>5. g \in DoubledTo(n + 1)
    BY <2>3, <2>4 DEF DoubledTo
  <2> QED
    BY <2>2, <2>5
<1>3. S \in SUBSET Nat
  OBVIOUS
<1> HIDE DEF S
<1>4. S = Nat
  BY <1>1, <1>2, <1>3, NatInduct
<1> QED
  BY <1>4 DEF S

LEMMA DoubledAgree ==
    \A k \in Nat : \A n, m \in Nat : \A f \in DoubledTo(n), g \in DoubledTo(m) :
        k <= n /\ k <= m => f[k] = g[k]
<1> DEFINE S == {k \in Nat : \A n, m \in Nat : \A f \in DoubledTo(n), g \in DoubledTo(m) :
                                k <= n /\ k <= m => f[k] = g[k]}
<1>1. 0 \in S
  BY DEF DoubledTo
<1>2. ASSUME NEW k \in S PROVE k + 1 \in S
  <2> SUFFICES ASSUME NEW n \in Nat, NEW m \in Nat, NEW f \in DoubledTo(n), NEW g \in DoubledTo(m),
                      k + 1 <= n, k + 1 <= m
               PROVE  f[k + 1] = g[k + 1]
    OBVIOUS
  <2>1. f[k] = g[k]
    OBVIOUS
  <2>2. k + 1 \in 1..n /\ k + 1 \in 1..m /\ (k + 1) - 1 = k
    OBVIOUS
  <2> QED
    BY <2>1, <2>2 DEF DoubledTo
<1>3. S \in SUBSET Nat
  OBVIOUS
<1> HIDE DEF S
<1>4. S = Nat
  BY <1>1, <1>2, <1>3, NatInduct
<1> QED
  BY <1>4 DEF S

\* The recursive definition defines what it says, and its values are positive.
LEMMA DoublingsArePositive == \A n \in Nat : Doubled[n] \in Nat \ {0}
<1> DEFINE pick[n \in Nat] == CHOOSE f \in DoubledTo(n) : TRUE
           F == [n \in Nat |-> pick[n][n]]
<1>1. \A n \in Nat : pick[n] \in DoubledTo(n)
  BY DoubledOnce
<1> HIDE DEF pick
<1>2. F \in [Nat -> Nat \ {0}]
  BY <1>1 DEF DoubledTo
<1>3. ASSUME NEW n \in Nat PROVE F[n] = IF n = 0 THEN 1 ELSE 2 * F[n - 1]
  <2>1. CASE n = 0
    BY <1>1, <2>1 DEF DoubledTo
  <2>2. CASE n # 0
    <3>1. n - 1 \in Nat /\ n \in 1..n /\ n - 1 <= n /\ n - 1 <= n - 1
      BY <2>2
    <3>2. pick[n][n] = 2 * pick[n][n - 1]
      BY <1>1, <3>1 DEF DoubledTo
    <3>3. pick[n][n - 1] = pick[n - 1][n - 1]
      BY <1>1, <3>1, DoubledAgree
    <3> QED
      BY <2>2, <3>1, <3>2, <3>3
  <2> QED
    BY <2>1, <2>2
<1> HIDE DEF F
<1>4. F = [n \in Nat |-> IF n = 0 THEN 1 ELSE 2 * F[n - 1]]
  BY <1>2, <1>3
<1>5. Doubled = [n \in Nat |-> IF n = 0 THEN 1 ELSE 2 * Doubled[n - 1]]
  BY <1>4 DEF Doubled
<1> DEFINE S == {n \in Nat : Doubled[n] \in Nat \ {0}}
<1>6. 0 \in S
  BY <1>5
<1>7. ASSUME NEW n \in S PROVE n + 1 \in S
  <2>1. n + 1 \in Nat /\ n + 1 # 0 /\ (n + 1) - 1 = n
    OBVIOUS
  <2>2. Doubled[n + 1] = 2 * Doubled[n]
    BY <1>5, <2>1
  <2> QED
    BY <2>1, <2>2
<1>8. S \in SUBSET Nat
  OBVIOUS
<1> HIDE DEF S
<1>9. S = Nat
  BY <1>6, <1>7, <1>8, NatInduct
<1> QED
  BY <1>9 DEF S

\* What a wait may be: never longer than the cap, never shorter than the floor unless the server says.
LEMMA DelaysAreBounded ==
    ASSUME NEW code \in Codes, NEW made \in Nat, NEW r \in RetryAfters, NEW d \in Delays(code, made, r)
    PROVE  d \in 0..MaxDelay /\ (r = 0 => d >= BackoffFloor(code))
<1>1. /\ MaxDelay \in Nat /\ BaseDelay \in Nat \ {0} /\ CapacityDelay \in Nat \ {0}
      /\ BaseDelay <= MaxDelay /\ CapacityDelay <= MaxDelay
  BY PolicyAssumption
<1>2. r \in Nat
  BY PolicyAssumption
<1>3. BackoffFloor(code) \in Nat \ {0} /\ BackoffFloor(code) <= MaxDelay
  BY <1>1 DEF BackoffFloor
<1>4. BackoffStep(code, made) \in BackoffFloor(code)..MaxDelay
  <2>1. Doubled[made] \in Nat /\ Doubled[made] >= 1
    BY DoublingsArePositive
  <2>2. BackoffFloor(code) * Doubled[made] \in Nat
        /\ BackoffFloor(code) * Doubled[made] >= BackoffFloor(code)
    BY <1>3, <2>1
  <2> QED
    BY <1>1, <1>3, <2>2 DEF BackoffStep, AtMost
<1>5. CASE r > 0
  BY <1>1, <1>2, <1>5 DEF Delays, AtMost
<1>6. CASE ~(r > 0)
  <2>1. d \in BackoffFloor(code)..BackoffStep(code, made) \/ d = BackoffStep(code, made)
    BY <1>6 DEF Delays
  <2> QED
    BY <1>1, <1>3, <1>4, <2>1
<1> QED
  BY <1>2, <1>5, <1>6

\* The waits so far, each within the cap.
PolicyInv == PolicyTypeOK /\ waited <= attempts * MaxDelay /\ NeverHot

LEMMA PolicyStart == PolicyInit => PolicyInv
<1>1. MaxAttempts \in Nat /\ MaxDelay \in Nat
  BY PolicyAssumption
<1> QED
  BY <1>1 DEF PolicyInit, PolicyInv, PolicyTypeOK, NeverHot, NoFailure

LEMMA PolicyKeeps ==
    ASSUME PolicyInv, [PolicyNext]_policyVars PROVE PolicyInv'
<1>1. MaxAttempts \in Nat /\ MaxDelay \in Nat /\ attempts \in 0..MaxAttempts /\ waited \in Nat
  BY PolicyAssumption DEF PolicyInv, PolicyTypeOK
<1>2. ASSUME NEW code \in Codes, NEW r \in RetryAfters, Fails(code, r) PROVE PolicyInv'
  <2>1. PICK d \in Decide(code, attempts, r) :
          /\ last' = [code |-> code, retry |-> d.retry, delay |-> d.delay, asked |-> r]
          /\ attempts' = IF d.retry THEN attempts + 1 ELSE attempts
          /\ waited' = waited + d.delay
    BY <1>2 DEF Fails
  <2>2. CASE Retriable(code) /\ attempts < MaxAttempts
    <3>1. PICK w \in Delays(code, attempts, r) : d = [retry |-> TRUE, delay |-> w]
      BY <2>1, <2>2 DEF Decide
    <3>2. w \in 0..MaxDelay /\ (r = 0 => w >= BackoffFloor(code))
      BY <1>1, DelaysAreBounded
    <3>3. /\ last'.code = code /\ last'.delay = w /\ last'.asked = r
          /\ attempts' = attempts + 1 /\ waited' = waited + w
      BY <2>1, <3>1
    <3>4. PolicyTypeOK'
      BY <1>1, <2>2, <3>2, <3>3 DEF PolicyTypeOK
    <3>5. waited' <= attempts' * MaxDelay
      <4>1. waited <= attempts * MaxDelay
        BY DEF PolicyInv
      <4>2. (attempts + 1) * MaxDelay = attempts * MaxDelay + MaxDelay /\ attempts * MaxDelay \in Nat
        BY <1>1
      <4> QED
        BY <1>1, <3>2, <3>3, <4>1, <4>2
    <3>6. NeverHot'
      BY <3>2, <3>3 DEF NeverHot, BackoffFloor, Capacity
    <3> QED
      BY <3>4, <3>5, <3>6 DEF PolicyInv
  <2>3. CASE ~(Retriable(code) /\ attempts < MaxAttempts)
    <3>1. d = [retry |-> FALSE, delay |-> 0]
      BY <2>1, <2>3 DEF Decide
    <3>2. last'.delay = 0 /\ last'.retry = FALSE /\ attempts' = attempts /\ waited' = waited
      BY <1>1, <2>1, <3>1
    <3> QED
      BY <1>1, <3>2 DEF PolicyInv, PolicyTypeOK, NeverHot
  <2> QED
    BY <2>2, <2>3
<1>3. CASE UNCHANGED policyVars
  BY <1>3 DEF policyVars, PolicyInv, PolicyTypeOK, NeverHot
<1> QED
  BY <1>2, <1>3 DEF PolicyNext

\* For any options of the policy and anything a server asks for: a line that fails and fails is given
\* up after at most maxAttempts waits, none longer than maxDelayMs, none shorter than its floor.
THEOREM RetriesAreBounded == PolicySpec => [](PolicyTypeOK /\ WaitingIsBounded /\ NeverHot)
<1>1. PolicyInv /\ [PolicyNext]_policyVars => PolicyInv'
  BY PolicyKeeps
<1>2. PolicyInv => PolicyTypeOK /\ WaitingIsBounded /\ NeverHot
  <2> SUFFICES ASSUME PolicyInv PROVE WaitingIsBounded
    BY DEF PolicyInv
  <2>1. MaxAttempts \in Nat /\ MaxDelay \in Nat /\ attempts \in 0..MaxAttempts /\ waited \in Nat
    BY PolicyAssumption DEF PolicyInv, PolicyTypeOK
  <2>2. (MaxAttempts - attempts) * MaxDelay >= 0
    BY <2>1
  <2>3. attempts * MaxDelay <= MaxAttempts * MaxDelay
    BY <2>1, <2>2
  <2> QED
    BY <2>1, <2>3 DEF PolicyInv, WaitingIsBounded
<1> QED
  BY <1>1, <1>2, PolicyStart, PTL DEF PolicySpec

-----------------------------------------------------------------------------
(* Speech *)

\* What is asked of a voice under a configuration.
VoiceFits(v, c) ==
    /\ v.provider \in Providers
    /\ v.key = "llm" => ~TtsOwned(c) /\ v.base # "openai.com"
    /\ v.key = "tts" => v.base \notin {"llm", "openrouter.ai"}
    /\ v.provider = "command" /\ c.engine = NotSet =>
          /\ v.engine \in c.installed
          /\ v.engine = "piper" => c.piperModel

\* An engine runs in its utterance only, and was there to be run; so is the directory.
EngineInUtterance ==
    /\ engineRuns => utterance = "engine" /\ voice.engine \in conf.installed
    /\ workDir => utterance \in {"engine", "read"}

SpeechInv == SpeechTypeOK /\ conf \in Confs /\ VoiceFits(voice, conf) /\ EngineInUtterance

LEMMA SilenceFits == ASSUME NEW c PROVE VoiceFits(Silent, c)
BY DEF VoiceFits, Silent, Selection, Providers, NotSet

LEMMA BuiltFits ==
    ASSUME NEW c, NEW p \in Providers, NEW v \in TryBuild(p, c)
    PROVE  VoiceFits(v, c)
<1>1. CASE p = "openai"
  <2>1. v \in BuildOpenAi(c)
    BY <1>1 DEF TryBuild
  <2>2. CASE TtsOwned(c)
    BY <2>1, <2>2 DEF BuildOpenAi, VoiceFits, Selection, Providers
  <2>3. CASE ~TtsOwned(c)
    BY <2>1, <2>3 DEF BuildOpenAi, VoiceFits, Selection, Providers
  <2> QED
    BY <2>2, <2>3
<1>2. CASE p = "elevenlabs"
  BY <1>2 DEF TryBuild, VoiceFits, Selection, Providers
<1>3. CASE p = "command"
  <2>1. PICK e \in EngineOf(c) : v = Selection("command", "none", "none", e)
    BY <1>3 DEF TryBuild
  <2>2. ASSUME c.engine = NotSet PROVE e \in c.installed /\ (e = "piper" => c.piperModel)
    <3>1. e \in Detected(c)
      BY <2>1, <2>2 DEF EngineOf
    <3> QED
      BY <3>1 DEF Detected
  <2> QED
    BY <2>1, <2>2 DEF VoiceFits, Selection, Providers
<1>4. CASE p = "silent"
  BY <1>4 DEF TryBuild
<1> QED
  BY <1>1, <1>2, <1>3, <1>4 DEF Providers

LEMMA SelectedFits == ASSUME NEW c \in Confs PROVE VoiceFits(SelectVoice(c), c)
<1> DEFINE built == {i \in DOMAIN Wanted(c) : TryBuild(Wanted(c)[i], c) # {}}
           first == CHOOSE i \in built : \A j \in built : i <= j
<1>1. DOMAIN Wanted(c) \subseteq 1..2 /\ \A i \in DOMAIN Wanted(c) : Wanted(c)[i] \in Providers
  BY DEF Wanted, Confs, Providers
<1>2. CASE built = {}
  BY <1>2, SilenceFits DEF SelectVoice
<1>3. CASE built # {}
  <2>1. \E i \in built : \A j \in built : i <= j
    BY <1>1, <1>3
  <2>2. first \in built
    BY <2>1
  <2>3. Wanted(c)[first] \in Providers /\ TryBuild(Wanted(c)[first], c) # {}
    BY <1>1, <2>2
  <2>4. SelectVoice(c) = CHOOSE s \in TryBuild(Wanted(c)[first], c) : TRUE
    BY <1>3 DEF SelectVoice
  <2>5. SelectVoice(c) \in TryBuild(Wanted(c)[first], c)
    BY <2>3, <2>4
  <2> QED
    BY <2>3, <2>5, BuiltFits
<1> QED
  BY <1>2, <1>3

LEMMA SpeechSafe == SpeechInv => SpeechIsSafe
<1> SUFFICES ASSUME SpeechInv PROVE SpeechIsSafe
  OBVIOUS
<1>1. KeyStaysHome /\ EngineCanSpeak
  BY DEF SpeechInv, VoiceFits, KeyStaysHome, EngineCanSpeak
<1>2. NothingLeft
  BY DEF SpeechInv, EngineInUtterance, NothingLeft
<1> QED
  BY <1>1, <1>2 DEF SpeechInv, SpeechIsSafe

LEMMA SpeechStart == SpeechInit => SpeechInv
<1> SUFFICES ASSUME SpeechInit PROVE SpeechInv
  OBVIOUS
<1>1. VoiceFits(voice, conf)
  BY SilenceFits DEF SpeechInit
<1>2. SpeechTypeOK
  BY DEF SpeechInit, SpeechTypeOK, Silent, Selection, Providers
<1>3. EngineInUtterance
  BY DEF SpeechInit, EngineInUtterance
<1> QED
  BY <1>1, <1>2, <1>3 DEF SpeechInit, SpeechInv

LEMMA SpeechKeeps ==
    ASSUME SpeechInv, [SpeechNext]_speechVars PROVE SpeechInv'
<1> USE DEF SpeechInv
<1>1. CASE Synthesize
  <2>1. (conf \in Confs /\ VoiceFits(voice, conf))'
    BY <1>1, SelectedFits DEF Synthesize, VoiceFits
  <2>2. SpeechTypeOK'
    BY <1>1, SelectedFits, <2>1 DEF Synthesize, VoiceFits, SpeechTypeOK, EngineInUtterance, makeVars
  <2>3. EngineInUtterance'
    BY <1>1, SelectedFits DEF Synthesize, VoiceFits, EngineInUtterance, makeVars, SpeechTypeOK
  <2> QED
    BY <2>1, <2>2, <2>3
<1>2. CASE SynthesizeNothing
  <2>1. (conf \in Confs /\ VoiceFits(voice, conf))'
    BY <1>2, SilenceFits DEF SynthesizeNothing, VoiceFits
  <2>2. SpeechTypeOK'
    BY <1>2, SilenceFits, <2>1 DEF SynthesizeNothing, VoiceFits, SpeechTypeOK, EngineInUtterance,
                                   makeVars
  <2>3. EngineInUtterance'
    BY <1>2, SilenceFits DEF SynthesizeNothing, VoiceFits, EngineInUtterance, makeVars, SpeechTypeOK
  <2> QED
    BY <2>1, <2>2, <2>3
<1>3. CASE BodyArrives
  <2>1. (conf \in Confs /\ VoiceFits(voice, conf))'
    BY <1>3 DEF BodyArrives
  <2>2. SpeechTypeOK'
    BY <1>3 DEF BodyArrives, SpeechTypeOK, EngineInUtterance, makeVars
  <2>3. EngineInUtterance'
    BY <1>3 DEF BodyArrives, EngineInUtterance, makeVars, SpeechTypeOK
  <2> QED
    BY <2>1, <2>2, <2>3
<1>4. CASE EngineMissing
  <2>1. (conf \in Confs /\ VoiceFits(voice, conf))'
    BY <1>4 DEF EngineMissing, Cleanup
  <2>2. SpeechTypeOK'
    BY <1>4 DEF EngineMissing, Cleanup, SpeechTypeOK, EngineInUtterance, makeVars
  <2>3. EngineInUtterance'
    BY <1>4 DEF EngineMissing, Cleanup, EngineInUtterance, makeVars, SpeechTypeOK
  <2> QED
    BY <2>1, <2>2, <2>3
<1>5. CASE EngineWrites
  <2>1. (conf \in Confs /\ VoiceFits(voice, conf))'
    BY <1>5 DEF EngineWrites
  <2>2. SpeechTypeOK'
    BY <1>5 DEF EngineWrites, SpeechTypeOK, EngineInUtterance, makeVars
  <2>3. EngineInUtterance'
    BY <1>5 DEF EngineWrites, EngineInUtterance, makeVars, SpeechTypeOK
  <2> QED
    BY <2>1, <2>2, <2>3
<1>6. CASE ReadWav
  <2>1. (conf \in Confs /\ VoiceFits(voice, conf))'
    BY <1>6 DEF ReadWav, Cleanup
  <2>2. SpeechTypeOK'
    BY <1>6 DEF ReadWav, Cleanup, SpeechTypeOK, EngineInUtterance, makeVars
  <2>3. EngineInUtterance'
    BY <1>6 DEF ReadWav, Cleanup, EngineInUtterance, makeVars, SpeechTypeOK
  <2> QED
    BY <2>1, <2>2, <2>3
<1>7. ASSUME NEW ok \in BOOLEAN, ProviderAnswers(ok) PROVE SpeechInv'
  <2>1. (conf \in Confs /\ VoiceFits(voice, conf))'
    BY <1>7 DEF ProviderAnswers
  <2>2. SpeechTypeOK'
    BY <1>7 DEF ProviderAnswers, SpeechTypeOK, EngineInUtterance, makeVars
  <2>3. EngineInUtterance'
    BY <1>7 DEF ProviderAnswers, EngineInUtterance, makeVars, SpeechTypeOK
  <2> QED
    BY <2>1, <2>2, <2>3
<1>8. ASSUME NEW code \in 0..1, EngineEnds(code) PROVE SpeechInv'
  <2>1. (conf \in Confs /\ VoiceFits(voice, conf))'
    BY <1>8 DEF EngineEnds, Cleanup
  <2>2. SpeechTypeOK'
    BY <1>8 DEF EngineEnds, Cleanup, SpeechTypeOK, EngineInUtterance, makeVars
  <2>3. EngineInUtterance'
    BY <1>8 DEF EngineEnds, Cleanup, EngineInUtterance, makeVars, SpeechTypeOK
  <2> QED
    BY <2>1, <2>2, <2>3
<1>9. CASE BargesIn
  <2>1. (conf \in Confs /\ VoiceFits(voice, conf))'
    BY <1>9 DEF BargesIn, Stop, Interrupted, Cleanup
  <2>2. SpeechTypeOK'
    BY <1>9 DEF BargesIn, Stop, Interrupted, Cleanup, SpeechTypeOK, EngineInUtterance, makeVars
  <2>3. EngineInUtterance'
    BY <1>9 DEF BargesIn, Stop, Interrupted, Cleanup, EngineInUtterance, makeVars, SpeechTypeOK
  <2> QED
    BY <2>1, <2>2, <2>3
<1>10. CASE TimesOut
  <2>1. (conf \in Confs /\ VoiceFits(voice, conf))'
    BY <1>10 DEF TimesOut, Stop, Interrupted, Cleanup
  <2>2. SpeechTypeOK'
    BY <1>10 DEF TimesOut, Stop, Interrupted, Cleanup, SpeechTypeOK, EngineInUtterance, makeVars
  <2>3. EngineInUtterance'
    BY <1>10 DEF TimesOut, Stop, Interrupted, Cleanup, EngineInUtterance, makeVars, SpeechTypeOK
  <2> QED
    BY <2>1, <2>2, <2>3
<1>11. CASE UNCHANGED speechVars
  <2>1. (conf \in Confs /\ VoiceFits(voice, conf))'
    BY <1>11 DEF speechVars
  <2>2. SpeechTypeOK'
    BY <1>11 DEF speechVars, SpeechTypeOK, EngineInUtterance, makeVars
  <2>3. EngineInUtterance'
    BY <1>11 DEF speechVars, EngineInUtterance, makeVars, SpeechTypeOK
  <2> QED
    BY <2>1, <2>2, <2>3
<1> QED
  BY <1>1, <1>2, <1>3, <1>4, <1>5, <1>6, <1>7, <1>8, <1>9, <1>10, <1>11 DEF SpeechNext

\* For any configuration and machine: the key goes only where its owner sent it, an engine that was
\* not named is installed and has all it needs, and neither a file nor an engine outlives its utterance.
THEOREM SpeechStaysSafe == SpeechSpec => []SpeechIsSafe
<1>1. SpeechInv /\ [SpeechNext]_speechVars => SpeechInv'
  BY SpeechKeeps
<1> QED
  BY <1>1, SpeechStart, SpeechSafe, PTL DEF SpeechSpec

\* An utterance becomes a spoken one in four steps: two of them look at the signal once more, and the
\* other two are of silence.
LEMMA SpokenUnheard ==
    ASSUME SpeechInv, SpeechNext, utterance # "spoken", utterance' = "spoken", voice'.provider # "silent"
    PROVE  ~aborted
<1>1. CASE Synthesize
  <2>1. voice'.provider = "silent" \/ utterance' \in {"engine", "failed", "requested"}
    BY <1>1 DEF Synthesize
  <2> QED
    BY <2>1
<1>2. CASE SynthesizeNothing
  BY <1>2 DEF SynthesizeNothing, Silent, Selection
<1>3. CASE BodyArrives \/ ReadWav
  BY <1>3 DEF BodyArrives, ReadWav
<1>4. CASE EngineMissing \/ EngineWrites
  BY <1>4 DEF EngineMissing, EngineWrites
<1>5. ASSUME NEW ok \in BOOLEAN, ProviderAnswers(ok) PROVE FALSE
  BY <1>5 DEF ProviderAnswers
<1>6. ASSUME NEW code \in 0..1, EngineEnds(code) PROVE FALSE
  <2>1. utterance' \in {utterance, "read", "failed"}
    BY <1>6 DEF EngineEnds
  <2> QED
    BY <2>1
<1>7. CASE BargesIn \/ TimesOut
  <2>1. utterance' \in {utterance, "failed"}
    BY <1>7 DEF BargesIn, TimesOut, Stop
  <2> QED
    BY <2>1
<1> QED
  BY <1>1, <1>2, <1>3, <1>4, <1>5, <1>6, <1>7 DEF SpeechNext

\* A reply the caller has talked over is not spoken, whichever step of its making the interruption fell
\* into (ttsProviders.ts: "Nothing here merely discards a result").
THEOREM InterruptedStaysUnspoken == SpeechSpec => NeverTalksOver
<1>1. SpeechInv /\ [SpeechNext]_speechVars => SpeechInv'
  BY SpeechKeeps
<1>2. SpeechInv /\ [SpeechNext]_speechVars =>
        [utterance # "spoken" /\ utterance' = "spoken" /\ conf.requested # "silent"
            /\ voice'.provider # "silent" => ~aborted]_speechVars
  BY SpokenUnheard
<1> QED
  BY <1>1, <1>2, SpeechStart, PTL DEF SpeechSpec, NeverTalksOver

-----------------------------------------------------------------------------
(* Together *)

LEMMA PlainConfIsOne == PlainConf \in Confs
BY DEF PlainConf, Confs, Providers, Engines, NotSet

\* A behaviour of the whole is one of each client: the others take no part in its steps.
LEMMA EachBehaves ==
    MCSpec => VaSpec /\ RestSpec /\ PolicySpec /\ StoredSpec /\ SpeechSpec /\ StreamSpec
<1>1. MCInit => VaInit /\ RestInit /\ PolicyInit /\ StoredInit /\ SpeechInit /\ StreamInit
  <2> SUFFICES ASSUME MCInit PROVE SpeechInit
    BY DEF MCInit
  <2> QED
    BY PlainConfIsOne DEF MCInit, SpeechInit
<1>2. [MCNext]_allVars => [VaNext]_vaVars
  BY DEF MCNext, allVars, clientVars
<1>3. [MCNext]_allVars => [RestNext]_restVars
  BY DEF MCNext, allVars, clientVars
<1>4. [MCNext]_allVars => [PolicyNext]_policyVars
  BY DEF MCNext, allVars, clientVars
<1>5. [MCNext]_allVars => [StoredNext]_agentVars
  BY DEF MCNext, allVars, clientVars
<1>6. [MCNext]_allVars => [SpeechNext]_speechVars
  BY DEF MCNext, allVars, clientVars
<1>7. [MCNext]_allVars => [StreamNext]_streamVars
  BY DEF MCNext, allVars, clientVars
<1> QED
  BY <1>1, <1>2, <1>3, <1>4, <1>5, <1>6, <1>7, PTL
     DEF MCSpec, VaSpec, RestSpec, PolicySpec, StoredSpec, SpeechSpec, StreamSpec

\* For any sizes: a socket of the Voice Agent's has an owner who can end it, while nobody connects
\* over a close() that waits, and its end, like that of a stream, is told once and last.
THEOREM SessionsEnd ==
    ASSUME ~Reconnecting PROVE MCSpec => []SessionsEndOnce
<1>1. VaSpec => []SocketsAreOwned
  BY EverySocketHasItsOwner
<1>2. SocketsAreOwned /\ StreamIsHonest => SessionsEndOnce
  BY DEF SessionsEndOnce
<1> QED
  BY <1>1, <1>2, StreamTellsTheTruth, EachBehaves, PTL

\* For any options and terms: retries are bounded and never hot, and a stored agent speaks at the
\* rate of a session.
THEOREM PoliciesAlwaysHold == MCSpec => []PoliciesHold
<1>1. (PolicyTypeOK /\ WaitingIsBounded /\ NeverHot) /\ RateKept => PoliciesHold
  BY DEF PoliciesHold
<1> QED
  BY <1>1, RetriesAreBounded, StoredAgentsSpeak, EachBehaves, PTL

\* What a request promises, in the run that has all the clients.
THEOREM RequestsStayHonest == MCSpec => []RequestsAreHonest
  BY RequestsKeepTheirWord, EachBehaves, PTL

\* What is asked of the speech, in the same run.
THEOREM SpeechStaysSafeThere == MCSpec => []SpeechIsSafe
  BY SpeechStaysSafe, EachBehaves, PTL

\* And that a reply the caller has talked over is not spoken.
THEOREM InterruptedStaysUnspokenThere == MCSpec => NeverTalksOver
  BY InterruptedStaysUnspoken, EachBehaves
=============================================================================
