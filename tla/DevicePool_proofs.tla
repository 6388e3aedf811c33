------------------------- MODULE DevicePool_proofs -------------------------
(***************************************************************************)
(* The pool keeps its types, with any number of phones and of listings in  *)
(* flight: in particular a pass only ever reads a phone it has yet to do,  *)
(* and no reading, however stale, writes a phase that is none.             *)
(***************************************************************************)
EXTENDS DevicePool, TLAPS

ListingType == [at : {"none", "answered", "failed"}, saw : SUBSET Devices]
PassType == [left : SUBSET Devices, saw : [Devices -> Phases \cup {"detached"}],
             reading : Devices \cup {NoDevice}, got : CallStates]

LEMMA NoPassTyped == NoPass \in PassType /\ NoPass.reading \in NoPass.left \cup {NoDevice}
BY DEF NoPass, PassType, Phases, CallStates

LEMMA InitTyped == Init => TypeOK
<1> SUFFICES ASSUME Init  PROVE TypeOK
  OBVIOUS
<1>1. listings \in [Slots -> ListingType]
  BY DEF Init, NoListing, ListingType
<1>2. pass \in PassType /\ pass.reading \in pass.left \cup {NoDevice}
  BY NoPassTyped DEF Init
<1>3. known \in [Devices -> Record]
  BY DEF Init, Unmet, Record, AdbStates, Phases
<1>4. QED
  BY <1>1, <1>2, <1>3 DEF Init, TypeOK, ListingType, PassType, Lines, CallStates

\* The phase of a record may be written.
LEMMA SetPhaseTyped ==
    ASSUME TypeOK, NEW d \in Devices, NEW phase \in Phases, SetPhase(d, phase)
    PROVE  known' \in [Devices -> Record]
<1>1. known \in [Devices -> Record]  BY DEF TypeOK
<1>2. [known[d] EXCEPT !.phase = phase] \in Record
  BY <1>1 DEF Record
<1>3. [known EXCEPT ![d].phase = phase] \in [Devices -> Record]
  BY <1>1, <1>2
<1>4. QED  BY <1>1, <1>3 DEF SetPhase

LEMMA DoneTyped ==
    ASSUME TypeOK, NEW d \in Devices, Done(d)
    PROVE  pass' \in PassType /\ pass'.reading \in pass'.left \cup {NoDevice}
<1>1. CASE pass.left = {d}
  BY <1>1, NoPassTyped DEF Done
<1>2. CASE pass.left # {d}
  <2>1. pass \in PassType  BY DEF TypeOK, PassType
  <2>2. pass' = [pass EXCEPT !.left = @ \ {d}, !.saw[d] = "unknown",
                             !.reading = NoDevice, !.got = "none"]
    BY <1>2 DEF Done
  <2>3. [pass.saw EXCEPT ![d] = "unknown"] \in [Devices -> Phases \cup {"detached"}]
    BY <2>1 DEF PassType, Phases
  <2>4. QED  BY <2>1, <2>2, <2>3 DEF PassType, CallStates
<1>3. QED  BY <1>1, <1>2

-----------------------------------------------------------------------------
LEMMA WorldTyped == ASSUME TypeOK, World  PROVE TypeOK'
<1>1. CASE AdbFlips  BY <1>1 DEF AdbFlips, TypeOK
<1>2. ASSUME NEW d \in Devices, Replug(d)  PROVE TypeOK'
  BY <1>2 DEF Replug, TypeOK
<1>3. ASSUME NEW d \in Devices, LineMoves(d)  PROVE TypeOK'
  <2>1. line' \in [Devices -> Lines]  BY <1>3 DEF LineMoves, TypeOK, Lines
  <2>2. QED  BY <1>3, <2>1 DEF LineMoves, TypeOK
<1>4. QED  BY <1>1, <1>2, <1>3 DEF World

LEMMA RefreshTyped == ASSUME TypeOK, NEW l \in Slots, Refresh(l)  PROVE TypeOK'
<1>0. listings \in [Slots -> ListingType] /\ NoListing \in ListingType
  BY DEF TypeOK, ListingType, NoListing
<1>1. CASE List(l)
  <2>1. listings' \in [Slots -> ListingType]
    BY <1>0, <1>1 DEF List, ListingType, TypeOK
  <2>2. QED  BY <1>1, <2>1 DEF List, TypeOK, ListingType
<1>2. CASE Reconcile(l)
  <2>1. listings' \in [Slots -> ListingType]  BY <1>0, <1>2 DEF Reconcile
  <2>2. QED  BY <1>2, <2>1 DEF Reconcile, TypeOK, ListingType
<1>3. CASE MarkAllOffline(l)
  <2>1. listings' \in [Slots -> ListingType]  BY <1>0, <1>3 DEF MarkAllOffline
  <2>2. known' \in [Devices -> Record]
    BY <1>3 DEF MarkAllOffline, Unmet, Offline, Record, AdbStates, Phases
  <2>3. QED  BY <1>3, <2>1, <2>2 DEF MarkAllOffline, TypeOK, ListingType
<1>4. QED  BY <1>1, <1>2, <1>3 DEF Refresh

LEMMA PollTyped == ASSUME TypeOK, PollCallStates  PROVE TypeOK'
<1>0. pass \in PassType /\ known \in [Devices -> Record] /\ callStates \in [Devices -> CallStates]
  BY DEF TypeOK, PassType
<1>1. CASE PollBegins
  <2>1. [d \in Devices |-> Seen(known[d])] \in [Devices -> Phases \cup {"detached"}]
    BY <1>0 DEF Seen, Record
  <2>2. pass' \in PassType /\ pass'.reading = NoDevice
    BY <1>1, <2>1, NoPassTyped DEF PollBegins, PassType, NoPass
  <2>3. QED  BY <1>1, <2>2 DEF PollBegins, TypeOK, PassType
<1>2. ASSUME NEW d \in Devices, Skip(d)  PROVE TypeOK'
  <2>1. pass' \in PassType /\ pass'.reading \in pass'.left \cup {NoDevice}
    BY <1>2, DoneTyped DEF Skip
  <2>2. callStates' \in [Devices -> CallStates]  BY <1>0, <1>2 DEF Skip, CallStates
  <2>3. QED  BY <1>2, <2>1, <2>2 DEF Skip, TypeOK, PassType
<1>3. ASSUME NEW d \in Devices, Read(d)  PROVE TypeOK'
  <2>1. Telephony(line[d]) \in CallStates /\ "unknown" \in CallStates
    BY DEF Telephony, CallStates
  <2>2. pass' \in PassType /\ pass'.reading \in pass'.left
    BY <1>0, <1>3, <2>1 DEF Read, PassType
  <2>3. QED  BY <1>3, <2>2 DEF Read, TypeOK, PassType
<1>4. ASSUME NEW d \in Devices, Apply(d)  PROVE TypeOK'
  <2>1. pass' \in PassType /\ pass'.reading \in pass'.left \cup {NoDevice}
    BY <1>4, DoneTyped DEF Apply
  <2>2. callStates' \in [Devices -> CallStates]
    BY <1>0, <1>4 DEF Apply, PassType
  <2>3. known' \in [Devices -> Record]
    <3> DEFINE old == pass.saw[d]
               phase == PhaseFor(pass.got, old)
    <3>1. CASE callStates[d] # pass.got /\ phase # old
      <4>1. phase \in Phases  BY <3>1 DEF PhaseFor, Phases
      <4>2. SetPhase(d, phase)  BY <1>4, <3>1 DEF Apply
      <4> HIDE DEF phase
      <4>3. QED  BY <4>1, <4>2, SetPhaseTyped
    <3>2. CASE ~(callStates[d] # pass.got /\ phase # old)
      BY <1>0, <1>4, <3>2 DEF Apply
    <3>3. QED  BY <3>1, <3>2
  <2>4. QED  BY <1>4, <2>1, <2>2, <2>3 DEF Apply, TypeOK, PassType
<1>5. QED  BY <1>1, <1>2, <1>3, <1>4 DEF PollCallStates

LEMMA WorkTyped == ASSUME TypeOK, NEW d \in Devices, Work(d)  PROVE TypeOK'
<1> DEFINE Writes == {"none", "incoming", "in-call", "online"}
<1>0. next \in [Devices -> Writes] /\ line \in [Devices -> Lines]  BY DEF TypeOK
<1>1. CASE Dial(d)
  BY <1>0, <1>1 DEF Dial, TypeOK, Lines
<1>2. CASE Detect(d)
  BY <1>0, <1>2 DEF Detect, TypeOK
<1>3. CASE Answer(d)
  <2>1. line' \in [Devices -> Lines]  BY <1>0, <1>3 DEF Answer, Lines
  <2>2. QED  BY <1>0, <1>3, <2>1 DEF Answer, TypeOK
<1>4. CASE HangUp(d)
  BY <1>0, <1>4 DEF HangUp, TypeOK, Lines
<1>5. CASE WritePhase(d)
  <2>1. next[d] \in Phases  BY <1>0, <1>5 DEF WritePhase, Phases
  <2>2. known' \in [Devices -> Record]  BY <1>5, <2>1, SetPhaseTyped DEF WritePhase
  <2>3. QED  BY <1>0, <1>5, <2>2 DEF WritePhase, TypeOK
<1>6. QED  BY <1>1, <1>2, <1>3, <1>4, <1>5 DEF Work

\* Every variable of the pool keeps its type.
THEOREM TypeCorrect == Spec => []TypeOK
<1>1. TypeOK /\ [Next]_vars => TypeOK'
  <2> SUFFICES ASSUME TypeOK, [Next]_vars  PROVE TypeOK'
    OBVIOUS
  <2>1. CASE UNCHANGED vars  BY <2>1 DEF vars, TypeOK
  <2>2. QED  BY <2>1, WorldTyped, RefreshTyped, PollTyped, WorkTyped DEF Next
<1>2. QED  BY InitTyped, <1>1, PTL DEF Spec
=============================================================================
