------------------------------ MODULE Answers ------------------------------
(***************************************************************************)
(* What the synth answers to the owner's messages (island/mod.rs,          *)
(* island/speak.rs): the stage the island shows, and the spoken answer.    *)
(*                                                                         *)
(* A message's answer and its events come over one link but are handled by *)
(* different tasks, so they take any order.  A spoken answer is checked,   *)
(* decoded, checked again, begun and shown, in steps between which the     *)
(* owner may press a hold key (which stops what plays), and plays on a     *)
(* thread of its own.                                                      *)
(***************************************************************************)
EXTENDS Naturals, FiniteSets

CONSTANTS
    MaxMessages,    \* bound: messages in a run; each may be answered aloud
    Events          \* the events the synth tells of one, in this order

Messages == 1 .. MaxMessages
Stage == [accepted |-> 0, working |-> 1, done |-> 2, error |-> 3]

ASSUME MessagesAssumption == MaxMessages \in Nat
ASSUME EventsAssumption == Events \subseteq DOMAIN Stage

VARIABLES
    shown,      \* inner.message: [id, stage]
    sent,       \* messages so far
    inFlight,   \* inner.sending: the message owner.message waits for (0: none)
    answered,   \* messages the synth took: its answer is on the way
    wire,       \* events on the way to on_event: <<message, kind>>
    told,       \* kinds of events the synth sent of each message
    owner,      \* the owner: off, pressed (what plays is stopped), held, recognizing
    speech,     \* take_speech and the speaker's thread, per spoken answer
    playing,    \* Speaker.playing (0: none)
    stopSent,   \* answers whose `stop` was sent
    speaking,   \* inner.speaking (0: none)
    late,       \* history: past their second check when the hold began, and not begun when
                \* its key went down
    missed,     \* history: an event of the last message was not taken for its own
    mute        \* history: answers whose thread did not start

messageVars == <<shown, sent, inFlight, answered, wire, told, missed>>
speechVars == <<speech, playing, stopSent, speaking, mute>>
answerVars == <<messageVars, speechVars, owner, late>>

NoMessage == [id |-> 0, stage |-> "accepted"]

AnswersTypeOK ==
    /\ shown \in [id : 0 .. MaxMessages, stage : DOMAIN Stage]
    /\ sent \in 0 .. MaxMessages /\ inFlight \in 0 .. sent /\ answered \subseteq Messages
    /\ wire \subseteq Messages \X Events /\ told \in [Messages -> SUBSET Events]
    /\ owner \in {"off", "pressed", "held", "recognizing"}
    /\ speech \in [Messages -> {"none", "decoded", "checked", "begun", "shown", "sounds", "ending", "over"}]
    /\ playing \in 0 .. MaxMessages /\ stopSent \subseteq Messages /\ speaking \in 0 .. MaxMessages
    /\ late \subseteq Messages /\ missed \in BOOLEAN /\ mute \subseteq Messages

AnswersInit ==
    /\ shown = NoMessage /\ sent = 0 /\ inFlight = 0 /\ answered = {} /\ wire = {}
    /\ told = [m \in Messages |-> {}]
    /\ owner = "off"
    /\ speech = [m \in Messages |-> "none"] /\ playing = 0 /\ stopSent = {} /\ speaking = 0
    /\ late = {} /\ missed = FALSE /\ mute = {}

-----------------------------------------------------------------------------
(* The message: send_with, and the synth.                                  *)

\* A line of text, or what a hold recorded; one at a time.
SendMessage ==
    /\ sent < MaxMessages /\ inFlight = 0 /\ owner \in {"off", "recognizing"}
    /\ sent' = sent + 1 /\ inFlight' = sent + 1 /\ owner' = "off" /\ missed' = FALSE
    /\ UNCHANGED <<shown, answered, wire, told, speechVars, late>>

\* The synth takes a message before its turn, and tells how it goes.
SynthTakes(m) ==
    /\ m = inFlight /\ m \notin answered
    /\ answered' = answered \cup {m}
    /\ UNCHANGED <<shown, sent, inFlight, wire, told, missed, speechVars, owner, late>>
SynthTells(m, kind) ==
    /\ m \in answered /\ \A k \in told[m] : Stage[k] < Stage[kind]
    /\ wire' = wire \cup {<<m, kind>>} /\ told' = [told EXCEPT ![m] = @ \cup {kind}]
    /\ UNCHANGED <<shown, sent, inFlight, answered, missed, speechVars, owner, late>>
\* owner.message returns: the synth may have reported more already.  Or it
\* failed, and the owner is told.
NotKnown(m) == FALSE
Known(m) == shown.id = m
MessageReturns(m) ==
    /\ m = inFlight /\ inFlight' = 0
    /\ \/ m \in answered /\ shown' = IF Known(m) THEN shown ELSE [id |-> m, stage |-> "accepted"]
       \/ UNCHANGED shown
    /\ UNCHANGED <<sent, answered, wire, told, missed, speechVars, owner, late>>

\* on_event.
OursIs(m) == IF shown.id # 0 THEN shown.id = m ELSE inFlight # 0
AnyOrder(m, kind) == FALSE
Backwards(m, kind) == shown.id # 0 /\ Stage[shown.stage] > Stage[kind]
OnEvent(m, kind) ==
    /\ <<m, kind>> \in wire /\ wire' = wire \ {<<m, kind>>}
    /\ IF OursIs(m) /\ ~Backwards(m, kind)
       THEN shown' = [id |-> m, stage |-> kind] /\ UNCHANGED missed
       ELSE UNCHANGED shown /\ missed' = (missed \/ (m = sent /\ ~OursIs(m)))
    /\ UNCHANGED <<sent, inFlight, answered, told, speechVars, owner, late>>

\* The view forgets a message of 20 minutes ago.
Forget ==
    /\ shown.id # 0 /\ inFlight = 0 /\ wire = {} /\ shown' = NoMessage
    /\ UNCHANGED <<sent, inFlight, answered, wire, told, missed, speechVars, owner, late>>

-----------------------------------------------------------------------------
(* Stopping what plays.                                                    *)

\* Speaker::stop, and the view (stop_speech).
NobodyStopped == UNCHANGED <<playing, stopSent, speaking>>
Stopped ==
    IF playing # 0
    THEN playing' = 0 /\ stopSent' = stopSent \cup {playing} /\ speaking' = 0
    ELSE UNCHANGED <<playing, stopSent, speaking>>

\* A hold key: what plays stops, then the gate and the hold.
Barges ==
    /\ owner = "off" /\ owner' = "pressed"
    /\ Stopped /\ late' = {m \in Messages : speech[m] \in {"none", "decoded", "checked"}}
    /\ UNCHANGED <<messageVars, speech, mute>>
BargedIn(m) == speech[m] \in {"checked", "begun", "shown", "sounds"}
HoldBegins ==
    /\ owner = "pressed"
    /\ owner' = IF inFlight = 0 THEN "held" ELSE "off"
    /\ late' = IF inFlight = 0 THEN {m \in late : BargedIn(m)} ELSE {}
    /\ UNCHANGED <<messageVars, speechVars>>
HoldEnds ==
    /\ owner = "held" /\ owner' \in {"off", "recognizing"} /\ late' = {}
    /\ UNCHANGED <<messageVars, speechVars>>
NothingToSend ==
    /\ owner = "recognizing" /\ owner' = "off"
    /\ UNCHANGED <<messageVars, speechVars, late>>

\* A click on the island, or text only from now on (SynthSpeaks may then
\* always skip).
ClickStops ==
    /\ playing # 0 /\ Stopped
    /\ UNCHANGED <<messageVars, speech, mute, owner, late>>

-----------------------------------------------------------------------------
(* take_speech, and the speaker's thread.                                  *)

\* speech_unwanted, of an answer that names its message.
AlwaysWanted(m) == TRUE
Wanted(m) == OursIs(m) /\ owner \notin {"recognizing", "held"}
Becomes(m, to) == speech' = [speech EXCEPT ![m] = to]
takeRest == <<messageVars, stopSent, mute, owner, late>>

\* An answer arrives: the choice, the first check, a call; then the first
\* half second is decoded.
SynthSpeaks(m) ==
    /\ m \in answered /\ speech[m] = "none"
    /\ \/ Wanted(m) /\ Becomes(m, "decoded")
       \/ Becomes(m, "over")
    /\ UNCHANGED <<playing, speaking, takeRest>>
SecondCheck(m) ==
    /\ speech[m] = "decoded" /\ Becomes(m, IF Wanted(m) THEN "checked" ELSE "over")
    /\ UNCHANGED <<playing, speaking, takeRest>>

\* Speaker::begin: a newer answer stops the one before.
PlaysBeside(m) == UNCHANGED stopSent
Replaces(m) == stopSent' = IF playing # 0 THEN stopSent \cup {playing} ELSE stopSent
Begin(m) ==
    /\ speech[m] = "checked" /\ Becomes(m, "begun")
    /\ playing' = m /\ Replaces(m)
    /\ UNCHANGED <<messageVars, speaking, mute, owner, late>>
ShowSpeaking(m) ==
    /\ speech[m] = "begun" /\ Becomes(m, "shown") /\ speaking' = m
    /\ UNCHANGED <<playing, takeRest>>

\* Speaker::play: the thread, which plays only the answer that is still
\* current; or none.
Current(m) == playing = m
Finished(m) == playing' = IF playing = m THEN 0 ELSE playing
Plays(m) ==
    /\ speech[m] = "shown"
    /\ \/ Becomes(m, IF Current(m) THEN "sounds" ELSE "ending") /\ UNCHANGED <<playing, mute>>
       \/ Becomes(m, "over") /\ Finished(m) /\ mute' = mute \cup {m}
    /\ UNCHANGED <<messageVars, stopSent, speaking, owner, late>>
\* The voice's end, a stop, or a device that failed.
SoundEnds(m) ==
    /\ speech[m] = "sounds" /\ Becomes(m, "ending") /\ Finished(m)
    /\ UNCHANGED <<speaking, takeRest>>
\* on_end: the view, if it is still of this answer.
KeepsView(m) == speaking
ViewAfter(m) == IF speaking = m THEN 0 ELSE speaking
OnEnd(m) ==
    /\ speech[m] = "ending" /\ Becomes(m, "over")
    /\ speaking' = ViewAfter(m) /\ stopSent' = stopSent \ {m}
    /\ UNCHANGED <<messageVars, playing, mute, owner, late>>

-----------------------------------------------------------------------------

SpeechStep(m) ==
    \/ SecondCheck(m) \/ Begin(m) \/ ShowSpeaking(m)
    \/ Plays(m) \/ SoundEnds(m) \/ OnEnd(m)
AnswersNext ==
    \/ \E m \in Messages :
        \/ SynthTakes(m) \/ SynthSpeaks(m) \/ MessageReturns(m) \/ SpeechStep(m)
        \/ \E k \in Events : SynthTells(m, k) \/ OnEvent(m, k)
    \/ SendMessage \/ Forget \/ Barges \/ HoldBegins \/ HoldEnds \/ NothingToSend
    \/ ClickStops

-----------------------------------------------------------------------------
(* Properties.                                                             *)

\* What the island shows of a message never goes back, in whatever order
\* the answer and the events are handled.
StageNeverBack ==
    [][shown'.id = shown.id => Stage[shown'.stage] >= Stage[shown.stage]]_answerVars

\* Once `done` (or `error`) of the last message was handled, the island
\* shows it, unless an event of it was taken for another's (README.md, 8).
EndIsShown ==
    LET over == {k \in told[sent] : k \in {"done", "error"} /\ <<sent, k>> \notin wire}
    IN sent # 0 /\ over # {} /\ shown.id # 0 /\ ~missed
        => shown.id = sent /\ shown.stage \in {"done", "error"}

\* One voice at a time: whatever still sounds beside the current answer has
\* been told to stop.
OneVoice ==
    \A m \in Messages : speech[m] = "sounds" /\ playing # m => m \in stopSent

\* While the owner talks, only an answer can be heard that was past its
\* second check when the hold began and not begun when the key went down
\* (that it can is README.md, 8).
TalksOverNobody ==
    owner = "held" => \A m \in Messages : speech[m] = "sounds" /\ m \notin stopSent => m \in late

\* The island never goes on speaking for an answer nobody plays or ends any
\* more, whatever was stopped, replaced or begun meanwhile (but for a thread
\* that did not start: README.md, 8).
SpeakingEnds ==
    \A m \in Messages : speaking = m => m \in mute \/ speech[m] \in {"shown", "sounds", "ending"}

-----------------------------------------------------------------------------
(* Claims of the repository that the code does not keep (README.md, 8).    *)

\* on_event: "An event before owner.message returned (it is fast): the
\* message is this one if it is from the synth just sent to."
EarlyEventCounts == inFlight # 0 => ~missed

\* speech_unwanted: "not over a hold (the owner is talking)".
NotOverHold == owner = "held" => \A m \in Messages : speech[m] = "sounds" => m \in stopSent

\* SpeakingView: the answer that plays.
ViewShowsWhatPlays ==
    playing # 0 /\ speech[playing] = "sounds" /\ (\A m \in Messages : speech[m] # "begun") => speaking = playing
=============================================================================
