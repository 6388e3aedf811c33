----------------------------- MODULE VoipControl -----------------------------
(* A call in an app is answered, placed and ended by hand: the screen is      *)
(* woken, its controls are read until the right one is there, and its centre  *)
(* is tapped.  Everything goes through adb, any command of which may fail.    *)
(*                                                                            *)
(* A label is the set of things its words are a sign of, in any of the        *)
(* languages the patterns know; a control has the label that it shows and the *)
(* one that is its resource id.  The screen is one line: [from, to) is the    *)
(* width of a control, and one that lies within another is drawn over it.     *)
EXTENDS Naturals, Sequences

CONSTANTS
    Layouts,        \* by job: the screens that may come up while it goes on
    MaxReads        \* how often the screen is read before a job gives up

VARIABLES
    job,            \* "answer", "dial" or "end"
    at,             \* where it is
    lit, lock,      \* the phone's display, and "none", "swipe" or "pin"
    knows,          \* what the last reading of both said
    unread,         \* one of those readings went unanswered
    layout,         \* the screen of the call, in the order of a dump; <<>> while it is not up
    covered,        \* another window has the focus, and is the one that is dumped
    steady,         \* adb answers everything
    reads,
    hit             \* what was under the tap, and who found it

voipVars == <<job, at, lit, lock, knows, unread, layout, covered, steady, reads, hit>>

Knows(awake, locked, secure) == [awake |-> awake, locked |-> locked, secure |-> secure]

----------------------------------------------------------------------------
(* The controls of a screen *)

Signs == {"answer", "decline", "reply", "end", "voice", "video"}

Controls == [shows : SUBSET Signs, id : SUBSET Signs, from : Nat, to : Nat]

NoControl == [shows |-> {}, id |-> {}, from |-> 0, to |-> 0]
NoHit == [by |-> "nobody", on |-> NoControl]

----------------------------------------------------------------------------
(* The readings of a label and of a control *)

Vetoes(label) == label \cap {"decline", "reply"} # {}

IsAnswerLabel(label) == "answer" \in label /\ ~Vetoes(label)
IsVoiceCallLabel(label) == "voice" \in label /\ "video" \notin label
IsEndCallLabel(label) == "end" \in label

Labels(c) == {c.shows, c.id}

\* One label that says no is enough, whatever the other one says.
IsAnswerNode(c) ==
    /\ \A label \in Labels(c) : ~Vetoes(label)
    /\ \E label \in Labels(c) : IsAnswerLabel(label)

IsEndCallNode(c) ==
    /\ \A label \in Labels(c) : ~IsAnswerLabel(label)
    /\ \E label \in Labels(c) : IsEndCallLabel(label)

IsVoiceCallNode(c) == \E label \in Labels(c) : IsVoiceCallLabel(label)

Encloses(c, d) == c.from <= d.from /\ d.to <= c.to /\ c.to - c.from > d.to - d.from

\* What a dump is of: a control has some width, and of two of them one lies within the other or
\* they are beside each other.
ASSUME LayoutsAssumption ==
    \A screen \in Layouts["answer"] :
        /\ screen \in Seq(Controls)
        /\ \A c \in {screen[i] : i \in DOMAIN screen} : c.from < c.to
        /\ \A i, k \in DOMAIN screen :
               \/ i = k \/ Encloses(screen[i], screen[k]) \/ Encloses(screen[k], screen[i])
               \/ screen[i].to <= screen[k].from \/ screen[k].to <= screen[i].from

----------------------------------------------------------------------------
(* The first one of a dump *)

FirstThat(controls, Fits(_)) ==
    LET good == {i \in DOMAIN controls : Fits(controls[i])}
    IN IF good = {} THEN NoControl ELSE controls[CHOOSE i \in good : \A j \in good : i <= j]

FindAnswerButton_Widest(controls) == FirstThat(controls, IsAnswerNode)

\* A row that holds a button which must not be pressed has its centre anywhere.
FindAnswerButton(controls) ==
    FirstThat(controls, LAMBDA c :
        IsAnswerNode(c) /\ \A i \in DOMAIN controls :
            (\E label \in Labels(controls[i]) : Vetoes(label)) => ~Encloses(c, controls[i]))

FindEndCallButton(controls) == FirstThat(controls, IsEndCallNode)

FindVoiceCallButton(controls) == FirstThat(controls, IsVoiceCallNode)

NodeCentre(c) == (c.from + c.to) \div 2

----------------------------------------------------------------------------
(* What OCR reads: one word at a time, and never an id *)

Words(c) == {{sign} : sign \in c.shows}

\* The first word that was read well enough and says "accept".
OcrAccepts(controls) ==
    {controls[i] : i \in {j \in DOMAIN controls : \E word \in Words(controls[j]) : IsAnswerLabel(word)}}

----------------------------------------------------------------------------
(* The phone gives a tap to the control that is drawn last. *)

Under(controls, spot) ==
    LET there == {i \in DOMAIN controls : controls[i].from <= spot /\ spot < controls[i].to}
    IN IF there = {} THEN NoControl
       ELSE controls[CHOOSE i \in there : \A j \in there : ~Encloses(controls[i], controls[j])]

Refuses(c) == \E label \in Labels(c) : Vetoes(label)

----------------------------------------------------------------------------
VoipInit ==
    /\ job \in {"answer", "dial", "end"}
    /\ at = "asked"
    /\ lit \in BOOLEAN /\ lock \in {"none", "swipe", "pin"}
    /\ (lit \/ job # "end") /\ (lit => lock = "none")
    /\ knows = Knows(TRUE, FALSE, FALSE) /\ unread = FALSE
    /\ layout = <<>> /\ covered \in BOOLEAN /\ steady \in BOOLEAN
    /\ reads = 0 /\ hit = NoHit

----------------------------------------------------------------------------
(* The phone *)

ScreenComes ==
    /\ layout = <<>> /\ at \in {"state", "reading", "ocr"}
    /\ layout' \in Layouts[job]
    /\ UNCHANGED <<job, at, lit, lock, knows, unread, covered, steady, reads, hit>>

CallIsOver ==
    /\ layout # <<>>
    /\ layout' = <<>>
    /\ UNCHANGED <<job, at, lit, lock, knows, unread, covered, steady, reads, hit>>

----------------------------------------------------------------------------
(* ensureAwake *)

Running == at \notin {"asked", "tapped", "failed"}

\* A call is ended on a phone that is awake.
BeginJob ==
    /\ at = "asked"
    /\ at' = IF job = "end" THEN "reading" ELSE "state"
    /\ UNCHANGED <<job, lit, lock, knows, unread, layout, covered, steady, reads, hit>>

\* A dumpsys that is not answered reads as awake, and as not locked.
ReadState ==
    \E powerAnswers, windowAnswers \in IF steady THEN {TRUE} ELSE BOOLEAN :
        /\ knows' = Knows(powerAnswers => lit, windowAnswers /\ lock # "none",
                          windowAnswers /\ lock = "pin")
        /\ unread' = (unread \/ ~powerAnswers \/ ~windowAnswers)

StateKnown ==
    /\ at = "state" /\ ReadState
    /\ at' = CASE ~knows'.awake -> "wake" [] knows'.awake /\ knows'.locked -> "dismiss" [] OTHER -> "open"
    /\ UNCHANGED <<job, lit, lock, layout, covered, steady, reads, hit>>

WakeUp ==
    /\ at = "wake"
    /\ lit' = TRUE
    /\ ReadState
    /\ at' = IF knows'.locked THEN "dismiss" ELSE "open"
    /\ UNCHANGED <<job, lock, layout, covered, steady, reads, hit>>

\* A credential stays, and some keyguards do.
DismissKeyguard ==
    /\ at = "dismiss"
    /\ lock' \in IF lock = "swipe" THEN {"none", "swipe"} ELSE {lock}
    /\ \E windowAnswers \in IF steady THEN {TRUE} ELSE BOOLEAN :
           /\ knows' = Knows(lit, windowAnswers /\ lock' # "none", windowAnswers /\ lock' = "pin")
           /\ unread' = (unread \/ ~windowAnswers)
    /\ at' = "open"
    /\ UNCHANGED <<job, lit, layout, covered, steady, reads, hit>>

\* A keyguard swallows every tap.
RefusesLock == knows.locked

\* An answer needs nothing opened; a call is placed from the chat that the link opens.
OpenOrRefuse ==
    /\ at = "open"
    /\ at' = IF RefusesLock THEN "failed" ELSE "reading"
    /\ UNCHANGED <<job, lit, lock, knows, unread, layout, covered, steady, reads, hit>>

\* A keyevent, a link or a tap that adb fails is an error of the job.
CommandFails ==
    /\ ~steady /\ at \in {"wake", "dismiss", "open", "tap"}
    /\ at' = "failed"
    /\ UNCHANGED <<job, lit, lock, knows, unread, layout, covered, steady, reads, hit>>

----------------------------------------------------------------------------
(* waitForButton *)

Find(controls) ==
    CASE job = "answer" -> FindAnswerButton(controls)
      [] job = "dial" -> FindVoiceCallButton(controls)
      [] job = "end" -> FindEndCallButton(controls)

GoesOn(n) == IF n < MaxReads THEN "reading" ELSE "failed"

Aim(who, control) ==
    /\ at' = "tap"
    /\ hit' = [by |-> who, on |-> Under(layout, NodeCentre(control))]

\* A dump of another window, and one that was lost, have no such control.
ReadControls ==
    /\ at = "reading" /\ reads < MaxReads
    /\ reads' = reads + 1
    /\ \/ /\ ~covered /\ Find(layout) # NoControl
          /\ Aim("dump", Find(layout))
       \/ /\ covered \/ ~steady \/ Find(layout) = NoControl
          /\ at' = IF job = "answer" THEN "ocr" ELSE GoesOn(reads')
          /\ UNCHANGED hit
    /\ UNCHANGED <<job, lit, lock, knows, unread, layout, covered, steady>>

OcrFails_GivesUp == at' = "failed"

\* No tesseract, a frame that was lost: the dumps go on.
OcrFails == at' = GoesOn(reads)

ReadFrame ==
    /\ at = "ocr"
    /\ \/ \E control \in OcrAccepts(layout) : Aim("ocr", control)
       \/ OcrFails /\ UNCHANGED hit
    /\ UNCHANGED <<job, lit, lock, knows, unread, layout, covered, steady, reads>>

Tap ==
    /\ at = "tap"
    /\ at' = "tapped"
    /\ UNCHANGED <<job, lit, lock, knows, unread, layout, covered, steady, reads, hit>>

VoipNext ==
    \/ ScreenComes \/ CallIsOver
    \/ BeginJob \/ StateKnown \/ WakeUp \/ DismissKeyguard \/ OpenOrRefuse \/ CommandFails
    \/ ReadControls \/ ReadFrame \/ Tap

\* Commands end or time out, and the sleeps between them do.
VoipFairness == WF_voipVars(StateKnown \/ WakeUp \/ DismissKeyguard \/ OpenOrRefuse \/ ReadControls
                                \/ ReadFrame \/ Tap)

VoipSpec == VoipInit /\ [][VoipNext]_voipVars /\ VoipFairness

----------------------------------------------------------------------------
(* Properties *)

\* The tap that answers never falls on a control that rejects the call, in whatever order and
\* however deep the dump has them (voipAnswerer.ts:236-250).  It is about the choice among the controls
\* of that dump: a screen that changes before the tap is not looked at again, by the code or here.
DumpNeverRejects == hit.by = "dump" /\ job = "answer" => ~Refuses(hit.on)

\* Nothing is tapped on a phone whose keyguard is up, if the phone said so (voipAnswerer.ts:352); none
\* comes up again before the tap here.
NoTapIntoKeyguard == at = "tapped" /\ job # "end" /\ ~unread => lock = "none"

\* A button that the dump shows is tapped, however OCR fails before the next dump
\* (voipAnswerer.ts:26-30).
AnswerableIsAnswered ==
    (/\ job = "answer" /\ steady /\ ~covered /\ at \in {"reading", "ocr"} /\ reads < MaxReads
     /\ FindAnswerButton(layout) # NoControl)
        ~> (at \in {"tap", "tapped"} \/ layout = <<>>)

\* And no job waits for ever for a screen that does not come.
JobEnds == Running ~> ~Running

\* "Tapping it rejects the call and sends a canned text, so it is as costly as decline"
\* (voipAnswerer.ts:108-109): the tap never falls on such a control, whoever found it.
TapNeverRejects == job = "answer" => ~Refuses(hit.on)
=============================================================================
