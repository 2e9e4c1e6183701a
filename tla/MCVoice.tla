------------------------------ MODULE MCVoice ------------------------------
(***************************************************************************)
(* The voice of the island, for TLC: holds and what they send, and what    *)
(* the synth answers.  They share little (a press stops what plays, a gate *)
(* asks whether a message is on its way), which each module meets by       *)
(* itself: a behaviour is of a single kind and the states add up.          *)
(***************************************************************************)
EXTENDS Talk, Answers

CONSTANT ToCrossing     \* bound: a talk is followed to its first crossing

VARIABLE kind

vars == <<kind, talkVars, answerVars>>

Init == kind \in {"talk", "answers"} /\ TalkInit /\ AnswersInit

Talks == kind = "talk" /\ (ToCrossing => ~crossed)
TalkMoves == Talks /\ TalkNext /\ UNCHANGED <<kind, answerVars>>
AnswersMove == kind = "answers" /\ AnswersNext /\ UNCHANGED <<kind, talkVars>>
Next == TalkMoves \/ AnswersMove

Spec ==
    /\ Init /\ [][Next]_vars
    /\ \A n \in Holds : WF_talkVars(Talks /\ MicStep(n)) /\ WF_talkVars(Talks /\ MessageStep(n))
    /\ WF_talkVars(Talks /\ Sync) /\ WF_talkVars(Talks /\ WakeStep) /\ WF_talkVars(Talks /\ (PressDown \/ StartHold))

\* Every variable of the three modules has its type.
VoiceTypeOK == TalkTypeOK /\ AnswersTypeOK

\* The microphone is the owner's: open for the hold that is held, sent only
\* when let go, one message at a time (island/mod.rs, start_hold, send_with).
MicIsTheOwners == VoiceTypeOK /\ MicForTheHold /\ SentWasLetGo /\ OneMessage

\* What the island shows and plays: the end when it is there, one voice, none
\* over the owner, none that speaks for ever (island/mod.rs, on_event,
\* take_speech, on_end).
IslandIsRight == EndIsShown /\ OneVoice /\ TalksOverNobody /\ SpeakingEnds

\* The voice moves on: what was let go arrives, a pause closes the microphone,
\* and no late event takes the island back to an older stage of an answer.
VoiceMovesOn == LetGoArrives /\ PauseClosesMic /\ StageNeverBack
=============================================================================
