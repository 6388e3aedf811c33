------------------------------ MODULE MCPhone -------------------------------
(* What the program does with one phone over adb: it finds out whether there  *)
(* is a call, dumps its screen, presses its buttons and dials numbers.  `part'*)
(* says which of them a behaviour is about; they share no state.              *)
EXTENDS VoipControl, PhoneNumbers, UiDump, CallDetection

VARIABLE part

allVars == <<part, detectVars, dumpVars, voipVars, numberVars>>

Sized(c, from, to) == [shows |-> c[1], id |-> c[2], from |-> from, to |-> to]

\* Two buttons beside each other, in either order and of either width; and the row they are in.
Rows(shown, ids, rowIds) ==
    LET buttons == {Sized(c, 0, 8) : c \in shown \X ids} \cup {Sized(c, 8, 12) : c \in shown \X ids}
        pairs == {pair \in buttons \X buttons : pair[1].from # pair[2].from}
    IN pairs \cup {<<b>> : b \in buttons}
         \cup {<<Sized(<<{}, id>>, 0, 12), pair[1], pair[2]>> : id \in rowIds, pair \in pairs}

MCLayouts ==
    [answer |-> Rows({{}, {"answer"}, {"decline"}, {"answer", "reply"}}, {{}, {"answer"}},
                     {{}, {"answer"}}),
     dial |-> Rows({{}, {"voice"}, {"video"}}, {{}, {"voice"}}, {}),
     end |-> Rows({{}, {"decline", "end"}, {"answer"}}, {{}, {"end"}}, {})]

MCNumbers == {<<1, 5, 5>>, <<5, 5, 5>>, <<5, 0, 1>>, <<5, 1, 5, 0>>, <<1, 5, 0, 5, 1>>, <<5, 5, 1, 0, 5>>}
MCCountryCodes == {<<>>, <<1>>}
MCHomeCode == <<1>>
MCInit ==
    /\ part \in {"detect", "dump", "voip", "numbers"}
    /\ DetectInit /\ DumpInit /\ VoipInit /\ NumbersInit
    /\ part = "detect" \/ build = [mode |-> "field", namesOwner |-> TRUE, known |-> TRUE]
    /\ part = "voip" \/ (job = "end" /\ ~covered /\ steady)
    /\ part = "numbers" \/ defaultCountryCode = <<>>

MCNext ==
    \/ part = "detect" /\ DetectNext /\ UNCHANGED <<part, dumpVars, voipVars, numberVars>>
    \/ part = "dump" /\ DumpNext /\ UNCHANGED <<part, detectVars, voipVars, numberVars>>
    \/ part = "voip" /\ VoipNext /\ UNCHANGED <<part, detectVars, dumpVars, numberVars>>
    \/ part = "numbers" /\ NumbersNext /\ UNCHANGED <<part, detectVars, dumpVars, voipVars>>

\* The watch's interval fires, and adb answers or times out.
MCFairness ==
    /\ WF_detectVars(BeginProbe("watch"))
    /\ WF_detectVars(ReadTelephony \/ ReadAudio \/ ReadScreen \/ ReadUi)
    /\ WF_detectVars(PollActs \/ WatchActs \/ WatchesTelephony)
    /\ \A r \in Readers : WF_dumpVars(StartDump(r) \/ DumpExits(r) \/ DumpFails(r) \/ ReadFile(r))
    /\ WF_voipVars(StateKnown \/ WakeUp \/ DismissKeyguard \/ OpenOrRefuse \/ ReadControls
                       \/ ReadFrame \/ Tap)

MCSpec == MCInit /\ [][MCNext]_allVars /\ MCFairness

\* A reader of the screen has it to itself and gets its own file; and no tap that a dump led to rejects
\* a caller or goes into a keyguard.
ScreensAreHandled == OneDumpAtATime /\ ReadsItsOwn /\ DumpNeverRejects /\ NoTapIntoKeyguard

\* The end of a call is noticed, the readers' line moves on, a call that can be answered is, and
\* every job with the screen ends.
PhoneGoesOn == EndIsNoticed /\ LineMovesOn /\ AnswerableIsAnswered /\ JobEnds
=============================================================================
