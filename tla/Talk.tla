-------------------------------- MODULE Talk --------------------------------
(***************************************************************************)
(* Talking to the main synth (island/hold.rs, island/mod.rs, wake/mod.rs). *)
(*                                                                         *)
(* A hold begins when a key goes down or the name is heard, and ends when  *)
(* the key comes up, at its limit, when the request is over or because of  *)
(* a pause.  The key's events come from one thread; the microphone opens   *)
(* in a task of its own and may come after the end, which is then left for *)
(* it (`early`); the listener is another thread and its recording runs     *)
(* already.  What was let go is recognized and sent by one more task, one  *)
(* message at a time; a pause cancels from the event loop.                 *)
(*                                                                         *)
(* An end is one step here: Hold under its lock, then take_running under   *)
(* another.  In between the hold is idle already and its recording still   *)
(* runs; what can come there is a microphone that opens, which the end     *)
(* then takes (MicOpens before the end), or another beginning, which       *)
(* counts as crossed.                                                      *)
(***************************************************************************)
EXTENDS Naturals, FiniteSets

CONSTANTS
    Kinds, VoiceKey,    \* the hold keys; the one a wake stands for
    MaxHolds            \* bound: holds in a run

ASSUME KindsAssumption == VoiceKey \in Kinds
ASSUME HoldsAssumption == MaxHolds \in Nat

VARIABLES
    hold,       \* Hold: [st, kind, long]; long: SHORT_PRESS is over
    seq, early, \* hold_seq; the end a recording finds that was not there yet
    running,    \* the hold whose recording runs (0: none)
    press,      \* on_key, between its locks
    down,       \* keys that are physically down
    registered, pending, paused,    \* the keys are ours; a sync is due
    timer,      \* a task that watches the limit
    wake,       \* the listener's thread
    active, escape,     \* Wake.active; the Escape key is ours
    stage,      \* where each hold's recording and message stand
    recognizing, sending, text,     \* the flags; a line of text on its way
    verdict,    \* history: what the owner said of each hold
    byWake,     \* history: holds the name began
    crossed     \* history: two beginnings, or an end and a beginning, overlapped

keyVars == <<press, down, registered, pending, paused>>
wakeVars == <<wake, active, escape>>
sendVars == <<recognizing, sending, text>>
talkVars == <<hold, seq, early, running, keyVars, timer, wakeVars, stage, sendVars, verdict, byWake, crossed>>

Holds == 1 .. MaxHolds
Idle == [st |-> "idle", kind |-> VoiceKey, long |-> FALSE]
NoEnd == [seq |-> 0, end |-> "none"]
NoPress == [at |-> "none", kind |-> VoiceKey]

TalkTypeOK ==
    /\ hold \in [st : {"idle", "holding", "spent"}, kind : Kinds, long : BOOLEAN]
    /\ seq \in 0 .. MaxHolds /\ early \in [seq : 0 .. MaxHolds, end : {"none", "send", "drop"}]
    /\ running \in 0 .. MaxHolds /\ press \in [at : {"none", "gated", "down"}, kind : Kinds]
    /\ down \subseteq Kinds /\ registered \in BOOLEAN /\ pending \in BOOLEAN /\ paused \in BOOLEAN
    /\ timer \in BOOLEAN /\ wake \in {"listen", "gated", "down", "numbered", "woke", "follow"}
    /\ active \in 0 .. MaxHolds /\ escape \in BOOLEAN
    /\ stage \in [Holds -> {"none", "opening", "running", "queued", "recognized", "ready", "sending",
                            "sent", "told", "dropped", "lost"}]
    /\ recognizing \in BOOLEAN /\ sending \in BOOLEAN /\ text \in {"none", "ready", "sending"}
    /\ verdict \in [Holds -> {"none", "send", "drop"}] /\ byWake \subseteq Holds /\ crossed \in BOOLEAN

TalkInit ==
    /\ hold = Idle /\ seq = 0 /\ early = NoEnd /\ running = 0
    /\ press = NoPress /\ down = {} /\ registered = TRUE /\ pending = FALSE /\ paused = FALSE
    /\ timer = FALSE /\ wake = "listen" /\ active = 0 /\ escape = FALSE
    /\ stage = [n \in Holds |-> "none"]
    /\ recognizing = FALSE /\ sending = FALSE /\ text = "none"
    /\ verdict = [n \in Holds |-> "none"] /\ byWake = {} /\ crossed = FALSE

-----------------------------------------------------------------------------
(* The end of a hold: act, take_running.                                   *)

Goes(n, to) == stage' = [stage EXCEPT ![n] = to]
Verbatim(end) == end
EverySent(end) == "queued"
OutOf(end) == IF end = "send" THEN "queued" ELSE "dropped"

\* The end is kept for a recording that has not started.
NotKept(end) == early
KeptFor(end) == [seq |-> seq, end |-> end]

\* Between `down` and the number, and all through a wake's start, the end
\* is left for nobody.
Beginning == press.at = "down" \/ wake \in {"down", "numbered"}
Crosses(is) == crossed' = (crossed \/ is)
NoEndThere == UNCHANGED <<early, running, stage, verdict>>
Ends(end) ==
    /\ IF running # 0
       THEN running' = 0 /\ Goes(running, OutOf(end)) /\ UNCHANGED early
       ELSE early' = KeptFor(end) /\ UNCHANGED <<running, stage>>
    /\ verdict' = IF seq # 0 /\ ~Beginning THEN [verdict EXCEPT ![seq] = end] ELSE verdict

\* A new number: nothing an earlier hold left behind is for it.
Numbered(isWake) ==
    /\ seq' = seq + 1 /\ early' = NoEnd
    /\ Crosses(\E n \in Holds : stage[n] = "opening")
    /\ byWake' = IF isWake THEN byWake \cup {seq + 1} ELSE byWake

-----------------------------------------------------------------------------
(* The keys.                                                               *)

\* gate: the synth's link is left out.
Free == ~sending /\ ~recognizing
Gate == ~paused /\ Free

\* on_key, Pressed: a press during a hold is ignored.
Press(k) ==
    /\ registered /\ press.at = "none" /\ k \notin down
    /\ down' = down \cup {k}
    /\ press' = IF hold.st # "holding" /\ Gate THEN [at |-> "gated", kind |-> k] ELSE NoPress
    /\ UNCHANGED <<hold, seq, early, running, registered, pending, paused, timer, wakeVars, stage, sendVars,
                   verdict, byWake, crossed>>
PressDown ==
    /\ press.at = "gated" /\ seq < MaxHolds
    /\ IF hold.st = "idle"
       THEN hold' = [st |-> "holding", kind |-> press.kind, long |-> FALSE] /\ press' = [press EXCEPT !.at = "down"]
       ELSE press' = NoPress /\ UNCHANGED hold
    /\ UNCHANGED <<seq, early, running, down, registered, pending, paused, timer, wakeVars, stage, sendVars,
                   verdict, byWake, crossed>>

\* start_hold: without the permission the hold is over; else a number, and
\* the microphone starts.
StartHold ==
    /\ press.at = "down"
    /\ press' = NoPress
    /\ \/ hold' = Idle /\ UNCHANGED <<seq, early, stage, byWake, crossed>>
       \/ seq < MaxHolds /\ Numbered(FALSE) /\ Goes(seq + 1, "opening") /\ UNCHANGED hold
    /\ UNCHANGED <<running, down, registered, pending, paused, timer, wakeVars, sendVars, verdict>>

\* The microphone is there: the end is there already, or the hold runs (and
\* what ran before is dropped).
NeverEarly(n) == "none"
EarlyEnd(n) == IF early.seq = n THEN early.end ELSE "none"
MicOpens(n) ==
    /\ stage[n] = "opening"
    /\ IF EarlyEnd(n) # "none"
       THEN early' = NoEnd /\ Goes(n, OutOf(early.end)) /\ UNCHANGED <<running, timer>>
       ELSE /\ running' = n /\ timer' = TRUE
            /\ stage' = [m \in Holds |-> IF m = n THEN "running" ELSE IF m = running THEN "lost" ELSE stage[m]]
            /\ UNCHANGED early
    /\ UNCHANGED <<hold, seq, keyVars, wakeVars, sendVars, verdict, byWake, crossed>>
MicFails(n) ==
    /\ stage[n] = "opening"
    /\ hold' = Idle /\ Goes(n, "told")
    /\ Crosses(hold.st = "holding" /\ (seq # n \/ Beginning))
    /\ UNCHANGED <<seq, early, running, keyVars, timer, wakeVars, sendVars, verdict, byWake>>

\* Hold::up: the release of the held key; the system tells of it only while
\* the key is ours.
Release(k) ==
    /\ k \in down /\ press.at = "none"
    /\ down' = down \ {k}
    /\ LET held == registered /\ hold.kind = k
       IN CASE held /\ hold.st = "holding" -> /\ hold' = Idle /\ Ends(IF hold.long THEN "send" ELSE "drop")
                                               /\ Crosses(Beginning)
            [] held /\ hold.st = "spent" -> hold' = Idle /\ NoEndThere /\ UNCHANGED crossed
            [] OTHER -> NoEndThere /\ UNCHANGED <<hold, crossed>>
    /\ UNCHANGED <<seq, press, registered, pending, paused, timer, wakeVars, sendVars, byWake>>

SomeTime ==
    /\ hold.st = "holding" /\ ~hold.long
    /\ hold' = [hold EXCEPT !.long = TRUE]
    /\ UNCHANGED <<seq, early, running, keyVars, timer, wakeVars, stage, sendVars, verdict, byWake, crossed>>

\* The task that looks every half second: the limit, or nothing to watch.
Limit ==
    /\ timer /\ hold.st = "holding" /\ hold.long
    /\ hold' = [hold EXCEPT !.st = "spent"] /\ timer' = FALSE
    /\ Ends("send") /\ Crosses(Beginning)
    /\ UNCHANGED <<seq, keyVars, wakeVars, sendVars, byWake>>
TimerEnds ==
    /\ timer /\ hold.st # "holding"
    /\ timer' = FALSE
    /\ UNCHANGED <<hold, seq, early, running, keyVars, wakeVars, stage, sendVars, verdict, byWake, crossed>>

-----------------------------------------------------------------------------
(* A pause, and sync.                                                      *)

PauseOrResume ==
    /\ ~pending
    /\ paused' = ~paused /\ pending' = TRUE
    /\ UNCHANGED <<hold, seq, early, running, press, down, registered, timer, wakeVars, stage, sendVars,
                   verdict, byWake, crossed>>
Asked == press.at # "none" \/ wake = "gated"
CancelsNothing == FALSE
CancelsHold == hold.st = "holding"
Sync ==
    /\ pending
    /\ pending' = FALSE /\ registered' = ~paused
    /\ IF paused
       THEN /\ hold' = Idle /\ Crosses(Asked \/ Beginning)
            /\ IF CancelsHold THEN Ends("drop") ELSE NoEndThere
       ELSE NoEndThere /\ UNCHANGED <<hold, crossed>>
    /\ UNCHANGED <<seq, press, down, paused, timer, wakeVars, sendVars, byWake>>

-----------------------------------------------------------------------------
(* The listener.                                                           *)

WakeGate ==
    /\ wake = "listen" /\ seq < MaxHolds /\ Gate /\ hold.st # "holding"
    /\ wake' = "gated"
    /\ UNCHANGED <<hold, seq, early, running, keyVars, timer, active, escape, stage, sendVars, verdict, byWake, crossed>>
WakeDown ==
    /\ wake = "gated"
    /\ IF hold.st = "idle" /\ seq < MaxHolds
       THEN hold' = [st |-> "holding", kind |-> VoiceKey, long |-> FALSE] /\ wake' = "down"
       ELSE wake' = "listen" /\ UNCHANGED hold
    /\ UNCHANGED <<seq, early, running, keyVars, timer, active, escape, stage, sendVars, verdict, byWake, crossed>>
WakeNumber ==
    /\ wake = "down" /\ seq < MaxHolds /\ wake' = "numbered"
    /\ Numbered(TRUE) /\ Goes(seq + 1, "opening")
    /\ UNCHANGED <<hold, running, keyVars, timer, active, escape, sendVars, verdict>>
WakeRuns ==
    /\ wake = "numbered" /\ wake' = "woke"
    /\ running' = seq /\ active' = seq
    /\ stage' = [m \in Holds |-> IF m = seq THEN "running" ELSE IF m = running THEN "lost" ELSE stage[m]]
    /\ UNCHANGED <<hold, seq, early, keyVars, timer, escape, sendVars, verdict, byWake, crossed>>
WakeEscape ==
    /\ wake = "woke" /\ wake' = "follow" /\ escape' = TRUE
    /\ UNCHANGED <<hold, seq, early, running, keyVars, timer, active, stage, sendVars, verdict, byWake, crossed>>

\* end: whoever takes `active` ends the wake's hold, if it is still that one.
AnyHold == hold.st = "holding"
WakesHold == hold.st = "holding" /\ seq = active
WakeOver(end) ==
    /\ active # 0 /\ active' = 0 /\ escape' = FALSE
    /\ IF WakesHold
       THEN IF end = "send" /\ hold.kind # VoiceKey
            THEN NoEndThere /\ UNCHANGED <<hold, crossed>>
            ELSE hold' = Idle /\ Ends(IF end = "send" /\ hold.long THEN "send" ELSE "drop") /\ Crosses(Beginning)
       ELSE NoEndThere /\ UNCHANGED <<hold, crossed>>
OwnerCancels ==
    /\ WakeOver("drop")
    /\ UNCHANGED <<seq, keyVars, timer, wake, sendVars, byWake>>
RequestEnds ==
    /\ wake = "follow" /\ wake' = "listen"
    /\ \E end \in {"send", "drop"} : WakeOver(end)
    /\ UNCHANGED <<seq, keyVars, timer, sendVars, byWake>>

\* The loop finds that the wake is over: cancelled, paused or sent.
WakeLoop ==
    /\ wake = "follow" /\ (active = 0 \/ ~WakesHold)
    /\ wake' = "listen" /\ active' = 0
    /\ escape' = (escape /\ active = 0)
    /\ UNCHANGED <<hold, seq, early, running, keyVars, timer, stage, sendVars, verdict, byWake, crossed>>

-----------------------------------------------------------------------------
(* The message: finish, send_with.                                         *)

msgRest == <<hold, seq, early, running, keyVars, timer, wakeVars, verdict, byWake, crossed>>

Finish(n) ==
    /\ stage[n] = "queued" /\ Goes(n, "recognized")
    /\ recognizing' = TRUE
    /\ UNCHANGED <<sending, text, msgRest>>
\* Words, sound or a picture to send; or nothing, and the owner is told
\* (after a wake only the log is).
Recognized(n) ==
    /\ stage[n] = "recognized" /\ \E to \in {"ready", "told"} : Goes(n, to)
    /\ recognizing' = FALSE
    /\ UNCHANGED <<sending, text, msgRest>>
NeverBusy == FALSE
Busy == sending
Send(n) ==
    /\ stage[n] = "ready"
    /\ IF Busy THEN Goes(n, "told") /\ UNCHANGED sending ELSE Goes(n, "sending") /\ sending' = TRUE
    /\ UNCHANGED <<recognizing, text, msgRest>>
SendReturns(n) ==
    /\ stage[n] = "sending" /\ \E to \in {"sent", "told"} : Goes(n, to)
    /\ sending' = FALSE
    /\ UNCHANGED <<recognizing, text, msgRest>>

\* A line of text.
SubmitText ==
    /\ text = "none" /\ Gate /\ text' = "ready"
    /\ UNCHANGED <<stage, recognizing, sending, msgRest>>
TextSent ==
    /\ \/ text = "ready" /\ Busy /\ text' = "none" /\ UNCHANGED sending
       \/ text = "ready" /\ ~Busy /\ text' = "sending" /\ sending' = TRUE
       \/ text = "sending" /\ text' = "none" /\ sending' = FALSE
    /\ UNCHANGED <<stage, recognizing, msgRest>>

-----------------------------------------------------------------------------

MicStep(n) == n \notin byWake /\ (MicOpens(n) \/ MicFails(n))
MessageStep(n) == Finish(n) \/ Recognized(n) \/ Send(n) \/ SendReturns(n)
WakeStep == WakeDown \/ WakeNumber \/ WakeRuns \/ WakeEscape \/ RequestEnds \/ WakeLoop
TalkNext ==
    \/ \E k \in Kinds : Press(k) \/ Release(k)
    \/ \E n \in Holds : MicStep(n) \/ MessageStep(n)
    \/ PressDown \/ StartHold \/ SomeTime \/ Limit \/ TimerEnds
    \/ PauseOrResume \/ Sync \/ WakeGate \/ WakeStep \/ OwnerCancels
    \/ SubmitText \/ TextSent

-----------------------------------------------------------------------------
(* Properties.                                                             *)

\* The microphone records for the hold that is held; one that opens is for
\* it, or finds that it ended.  (Not so once a hold began while an earlier
\* one's microphone was opening, or ended before it had its number:
\* README.md, 8.)
MicForTheHold ==
    ~crossed =>
        /\ running # 0 => hold.st = "holding" /\ running = seq
        /\ \A n \in Holds : stage[n] = "opening" => n = seq /\ (hold.st = "holding" \/ early.seq = n)

\* A slip, a cancelled hold and a hold the pause found are never sent,
\* whenever their microphone came.
SentWasLetGo ==
    ~crossed => \A n \in Holds :
        stage[n] \in {"queued", "recognized", "ready", "sending", "sent"} => verdict[n] = "send"

\* One message of the owner is on its way at a time, spoken or written.
OneMessage ==
    Cardinality({n \in Holds : stage[n] = "sending"}) + (IF text = "sending" THEN 1 ELSE 0) <= 1

\* What was let go is sent, or the owner is told why not.
LetGoArrives ==
    \A n \in Holds : (verdict[n] = "send") ~> (stage[n] \in {"sent", "told"} \/ crossed)

\* A pause closes the microphone.
PauseClosesMic == paused ~> (~paused \/ crossed \/ (running = 0 /\ hold.st # "holding"))

-----------------------------------------------------------------------------
(* Claims of the repository that the code does not keep (README.md, 8).    *)

\* hold.rs: "Press starts a hold, release ends it."
MicOnlyWhileHeld ==
    running # 0 => hold.st = "holding"

\* mod.rs: "the recording, once it starts, is sent (or dropped) at once
\* instead of being lost".
NoRecordingLost == \A n \in Holds : stage[n] = "lost" => verdict[n] # "send"

\* hold.rs: "While one hold runs, every other press is ignored".
OtherKeysIgnored ==
    [][\A k \in Kinds : Release(k) /\ hold.st = "holding" /\ hold'.st = "idle" => seq \notin byWake]_talkVars

\* wake/mod.rs: "Escape while a wake records".
EscapeOnlyDuringWake == escape /\ wake = "listen" => active # 0
=============================================================================
