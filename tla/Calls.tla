-------------------------------- MODULE Calls --------------------------------
(***************************************************************************)
(* Is the owner on a call?  (observe/sources.rs: decide_call, CallTracker; *)
(* the microphone probes of the app.)                                      *)
(*                                                                         *)
(* Every round the system says who records, who plays sound and which call *)
(* apps run; not every system says all of it.  A messenger also records    *)
(* voice messages, so its microphone is a call only after a while, and     *)
(* only while it plays.  A Meet call is a browser's microphone with a Meet *)
(* window in front lately.  Time is counted in rounds; a pause leaves      *)
(* rounds out.                                                             *)
(***************************************************************************)
EXTENDS Integers, Sequences, FiniteSets

CONSTANTS
    Confirm,        \* MESSENGER_CALL_SECS, in rounds
    MeetMemory,     \* MEET_MEMORY_SECS, in rounds
    Old             \* bound: where ages stop counting

ASSUME CallsAssumption == Confirm \in Nat /\ MeetMemory \in Nat /\ Old \in Nat

VARIABLES
    mic,        \* the app whose microphone it is, and for how long
    call,       \* the call, and for how long
    meetAge,    \* rounds since a Meet window was in front
    wantsCall,  \* the source is on
    busy,       \* history: for how long somebody has been on the microphone
    held,       \* history: for how long each app has been
    gap,        \* history: a pause since the microphone was taken
    browserOnly \* history: only browsers had it in this round

callVars == <<mic, call, meetAge, wantsCall, busy, held, gap, browserOnly>>

\* One program of each kind the tables tell apart.
Kinds == {"zoom", "telegram", "slack", "browser"}
CallApps == {"zoom", "telegram", "slack", "meet", "other"}
CallAppOf(k) == IF k \in {"zoom", "telegram", "slack"} THEN k ELSE "none"
IsBrowser(k) == k = "browser"
None == [app |-> "none", age |-> 0]
Ages == 0 .. Old
RecordsVoiceMessages(app) == app \in {"telegram", "slack", "other"}
Messengers == {app \in CallApps : RecordsVoiceMessages(app)}
OlderForEver(n) == n + 1
Older(n) == IF n < Old THEN n + 1 ELSE Old

CallsTypeOK ==
    /\ mic \in [app : CallApps \cup {"none"}, age : Ages]
    /\ call \in [app : CallApps \cup {"none"}, age : Ages]
    /\ meetAge \in Ages /\ wantsCall \in BOOLEAN /\ busy \in -1 .. Old
    /\ held \in [Messengers -> -1 .. Old] /\ gap \in BOOLEAN /\ browserOnly \in BOOLEAN

CallsInit ==
    /\ mic = None /\ call = None /\ meetAge = Old /\ wantsCall \in BOOLEAN
    /\ busy = -1 /\ held = [a \in Messengers |-> -1] /\ gap = FALSE /\ browserOnly = FALSE

-----------------------------------------------------------------------------
(* What a round reads.                                                     *)

\* MicSample: who records (in the system's order), where it says so; else
\* whether the device runs and whether this app holds it; the call app that
\* runs, the front one first; who plays, where it says so and only while
\* the microphone is busy.
Recorders == {list \in UNION {[1 .. n -> Kinds] : n \in 0 .. 2} : Len(list) < 2 \/ list[1] # list[2]}
Known == [known : {TRUE}, recorders : Recorders, device : {FALSE}, own : BOOLEAN,
          running : {"none", "telegram"}, told : BOOLEAN, players : SUBSET {"telegram", "slack"}]
Unknown == [known : {FALSE}, recorders : {<<>>}, device : BOOLEAN, own : BOOLEAN,
            running : {"none", "telegram"}, told : {FALSE}, players : {{}}]
Samples == {s \in Known \cup Unknown : (~s.told => s.players = {}) /\ (s.known => ~s.own)}

MicBusy(s) == IF s.known THEN s.recorders # <<>> ELSE s.device /\ ~s.own

\* decide_call: a recording call app, the first in the list; Meet; else the
\* microphone of something while a call app runs.
FirstCallApp(list) ==
    LET calls == {i \in DOMAIN list : CallAppOf(list[i]) # "none"}
    IN IF calls = {} THEN "none" ELSE CallAppOf(list[CHOOSE i \in calls : \A j \in calls : i <= j])
DecideCall(s, meet) ==
    IF ~MicBusy(s) THEN "none"
    ELSE IF ~s.known THEN (IF meet THEN "meet" ELSE s.running)
    ELSE IF FirstCallApp(s.recorders) # "none" THEN FirstCallApp(s.recorders)
    ELSE IF meet /\ \E i \in DOMAIN s.recorders : IsBrowser(s.recorders[i]) THEN "meet"
    ELSE IF s.running # "none" THEN "other" ELSE "none"

\* app_plays, and so TRUE where the system does not say.
MayPlay(s, app) == s.told => (IF app = "other" THEN s.players # {} ELSE app \in s.players)

-----------------------------------------------------------------------------
(* CallTracker::update.                                                    *)

MicNow(app) ==
    IF app = "none" THEN None
    ELSE IF mic.app = app THEN [app |-> app, age |-> Older(mic.age)] ELSE [app |-> app, age |-> 0]
AtOnce(m, s) == m.app # "none"
Confirmed(m, s) ==
    /\ m.app # "none"
    /\ RecordsVoiceMessages(m.app) => m.age >= Confirm /\ MayPlay(s, m.app)
CallGoesOn(m, s) ==
    IF ~Confirmed(m, s) THEN [call EXCEPT !.age = Older(@)]
    ELSE [app |-> m.app, age |-> IF call.app # "none" THEN Older(call.age) ELSE m.age]
CallNow(m, s) ==
    IF ~Confirmed(m, s) THEN None
    ELSE [app |-> m.app, age |-> IF call.app # "none" THEN Older(call.age) ELSE m.age]

SeenAges(window) == IF window THEN 0 ELSE Older(meetAge)
OnlyLately(window) == SeenAges(window) <= MeetMemory
IsMeet(window) == SeenAges(window) <= MeetMemory \/ call.app = "meet"

\* The history: who has really been on the microphone, and for how long.
OnMic(s, app) == MicBusy(s) /\ (s.known /\ app # "other" => \E i \in DOMAIN s.recorders : s.recorders[i] = app)
Longer(n, is) == IF is THEN Older(n) ELSE -1

Round ==
    /\ wantsCall
    /\ \E s \in Samples, window \in BOOLEAN :
         /\ meetAge' = SeenAges(window)
         /\ mic' = MicNow(DecideCall(s, IsMeet(window)))
         /\ call' = CallNow(mic', s)
         /\ busy' = Longer(busy, MicBusy(s))
         /\ held' = [a \in Messengers |-> Longer(held[a], OnMic(s, a))]
         /\ gap' = (gap /\ mic'.app # "none")
         /\ browserOnly' = (s.known /\ s.recorders # <<>>
                             /\ \A i \in DOMAIN s.recorders : IsBrowser(s.recorders[i]))
    /\ UNCHANGED wantsCall

\* A pause: the time passes, no round is run, and nobody sees who goes on.
PausedRound ==
    /\ meetAge' = Older(meetAge)
    /\ mic' = IF mic.app = "none" THEN mic ELSE [mic EXCEPT !.age = Older(@)]
    /\ call' = IF call.app = "none" THEN call ELSE [call EXCEPT !.age = Older(@)]
    /\ gap' = (mic.app # "none") /\ browserOnly' = FALSE
    /\ busy' = -1 /\ held' = [a \in Messengers |-> -1]
    /\ UNCHANGED wantsCall

\* Sampler::tick: a source that is switched off forgets its state.
SwitchCalls ==
    /\ wantsCall' = ~wantsCall
    /\ IF wantsCall
       THEN mic' = None /\ call' = None /\ meetAge' = Old /\ busy' = -1 /\ held' = [a \in Messengers |-> -1]
            /\ gap' = FALSE /\ browserOnly' = FALSE
       ELSE UNCHANGED <<mic, call, meetAge, busy, held, gap, browserOnly>>

CallsNext == Round \/ PausedRound \/ SwitchCalls
CallsSpec == CallsInit /\ [][CallsNext]_callVars

-----------------------------------------------------------------------------
(* Properties.                                                             *)

\* A messenger is on a call only if it has had the microphone for long
\* enough, in every round since: a voice message, two of them with a break,
\* or another app's microphone before do not make one.  (Who had it during
\* a pause the app does not know: README.md, 8.)
MessageIsNoCall ==
    call.app # "none" /\ RecordsVoiceMessages(call.app) /\ ~gap =>
        mic.app = call.app /\ held[call.app] >= Confirm

\* A call did not begin before somebody took the microphone, whatever apps
\* it went through since.
BeganWithTheMic == call.app # "none" /\ ~gap => busy >= call.age

\* A Meet call stays one as long as the browser alone has the microphone,
\* however long ago its window was in front.
MeetStays == [][call.app = "meet" /\ browserOnly' => call'.app = "meet"]_callVars

-----------------------------------------------------------------------------
(* A claim of the repository that the code does not keep (README.md, 8).   *)

\* sources.rs: "A messenger's microphone is a call only after
\* MESSENGER_CALL_SECS without a break".
WithoutABreak ==
    call.app # "none" /\ RecordsVoiceMessages(call.app) => held[call.app] >= Confirm
=============================================================================
