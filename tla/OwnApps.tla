------------------------------- MODULE OwnApps -------------------------------
(***************************************************************************)
(* The owner's own apps (apps/mod.rs): the one gate every `apps.*` call    *)
(* goes through, what the owner is asked and what may be remembered, the   *)
(* work by a tool that ends with its call (apps/mac.rs), the notifications *)
(* of a minute, and the journal.                                           *)
(*                                                                         *)
(* One synth.  A request is known by what the gate tells apart: a message  *)
(* to one recipient, a shortcut without and with input (a new event, a web *)
(* address, an app are asked about as the first), a file, a notification   *)
(* (a look is let through as it is, without the quota).  What a request    *)
(* says, the bounds on what comes back and malformed requests are left     *)
(* out; how an answer of the owner's reaches the call is in Approvals.     *)
(***************************************************************************)
EXTENDS Naturals, FiniteSets

CONSTANTS Jobs,          \* the calls of the synth, each once
          PerMinute,     \* NOTIFY_PER_MINUTE
          Minute, Latest,\* bound: the clock goes to Latest, a minute is this many of its steps
          MaxMoves       \* bound: what the owner and the disk do

ASSUME OwnAppsAssumption ==
    PerMinute \in Nat /\ Minute \in Nat /\ Latest \in Nat /\ MaxMoves \in Nat

VARIABLES
    onPause, appsEnabled, appsOn, appsMode,    \* the pause; settings.apps
    folder,                         \* a folder is shared (settings.files)
    inside,                         \* the file lies in it and is a document
    kept,                           \* the grants of the synth: per scope
    phase, asksFor, policy,         \* per call: where it is, the request, the settings it read
    verdict,                        \* what came of the owner's window
    tool,                           \* the child process of the call
    done,                           \* history: what was done, and with the file where
    lines,                          \* its lines in the journal
    notified, clock,                \* State::notified, and the time
    wish,                           \* history: what the owner let the app remember, and has not taken back
    leave,                          \* history: by what the call was let through
    moves

gateVars == <<phase, asksFor, policy, verdict, tool, done, lines, notified, leave>>
policyVars == <<onPause, appsEnabled, appsOn, appsMode, folder, inside>>
ownAppsVars == <<policyVars, kept, gateVars, clock, wish, moves>>

Asked == {"send", "run", "feed", "file"}
What == Asked \cup {"show"}
AppOf(r) == IF r = "send" THEN "messages" ELSE "others"
Scopes == {"send", "shortcut", "file"}
Outcomes == {"ok", "failed", "denied"}

OwnAppsTypeOK ==
    /\ onPause \in BOOLEAN /\ appsEnabled \in BOOLEAN /\ appsOn \subseteq {"messages", "others"}
    /\ appsMode \in {"ask", "ask_new", "auto"} /\ folder \in BOOLEAN /\ inside \in BOOLEAN
    /\ kept \in [Scopes -> {"none", "session", "always"}] /\ wish \in [Scopes -> {"none", "session", "always"}]
    /\ phase \in [Jobs -> {"idle", "file", "decide", "window", "start", "runs", "told", "gone"}]
    /\ asksFor \in [Jobs -> What] /\ policy \in [Jobs -> [mode : {"ask", "ask_new", "auto"}, folder : BOOLEAN]]
    /\ verdict \in [Jobs -> {"none", "up", "yes", "no"}]
    /\ tool \in [Jobs -> {"none", "runs", "over"}]
    /\ done \in [Jobs -> {"not", "done", "outside"}]
    /\ \A j \in Jobs : lines[j] \subseteq Outcomes
    /\ notified \subseteq Jobs \X (0 .. Latest) /\ clock \in 0 .. Latest
    /\ leave \in [Jobs -> {"none", "free", "session", "always", "answer"}] /\ moves \in 0 .. MaxMoves

OwnAppsInit ==
    /\ onPause = FALSE /\ appsEnabled = TRUE /\ appsOn = {"messages", "others"}
    /\ appsMode \in {"ask", "ask_new", "auto"} /\ folder = TRUE /\ inside = TRUE
    /\ kept = [s \in Scopes |-> "none"] /\ wish = kept
    /\ phase = [j \in Jobs |-> "idle"] /\ asksFor \in [Jobs -> What]
    /\ policy = [j \in Jobs |-> [mode |-> appsMode, folder |-> folder]]
    /\ verdict = [j \in Jobs |-> "none"] /\ tool = [j \in Jobs |-> "none"]
    /\ done = [j \in Jobs |-> "not"] /\ lines = [j \in Jobs |-> {}]
    /\ notified = {} /\ clock = 0 /\ leave = [j \in Jobs |-> "none"] /\ moves = 0

-----------------------------------------------------------------------------
(* The gate.                                                               *)

To(j, place) == phase' = [phase EXCEPT ![j] = place]
Line(j, outcome) == lines' = [lines EXCEPT ![j] = @ \cup {outcome}]
RefuseCall(j) == To(j, "told") /\ Line(j, "denied")

\* The pause, the two switches and the settings, all read at once.
Gate(j) ==
    /\ phase[j] = "idle"
    /\ policy' = [policy EXCEPT ![j] = [mode |-> appsMode, folder |-> folder]]
    /\ IF onPause \/ ~appsEnabled \/ AppOf(asksFor[j]) \notin appsOn THEN RefuseCall(j)
       ELSE To(j, IF asksFor[j] = "file" THEN "file" ELSE "decide") /\ UNCHANGED lines
    /\ UNCHANGED <<policyVars, kept, asksFor, verdict, tool, done, notified, leave, clock, wish, moves>>

\* resolve_openable: only a document inside a folder shared when the call came.
Resolve(j) ==
    /\ phase[j] = "file"
    /\ IF policy[j].folder /\ inside THEN To(j, "decide") /\ UNCHANGED lines ELSE RefuseCall(j)
    /\ UNCHANGED <<policyVars, kept, asksFor, policy, verdict, tool, done, notified, leave, clock, wish, moves>>

\* scope_of: a shortcut has one, with input or without.
ScopeOf(r) == IF r \in {"run", "feed"} THEN "shortcut" ELSE r

\* decide: who is asked at all.
Asks(r, m) == r = "send" \/ (r \in Asked /\ m # "auto")

\* Mutant of Remember: a yes for the shortcut covers its run with input.
RememberShortcut(r, m) ==
    IF m = "ask" THEN {} ELSE IF r = "send" THEN {"always"} ELSE {"session", "always"}

\* decide: what of an answer may be remembered.
Remember(r, m) ==
    CASE m = "ask" -> {}
      [] r = "send" /\ m # "ask" -> {"always"}
      [] r = "feed" /\ m # "ask" -> {}
      [] OTHER -> {"session", "always"}

Decide(j) ==
    LET r == asksFor[j]
        may == Remember(r, policy[j].mode)
    IN
    /\ phase[j] = "decide"
    /\ IF ~Asks(r, policy[j].mode) THEN To(j, "start") /\ leave' = [leave EXCEPT ![j] = "free"]
       ELSE IF may # {} /\ kept[ScopeOf(r)] # "none"
       THEN To(j, "start") /\ leave' = [leave EXCEPT ![j] = wish[ScopeOf(r)]]
       ELSE To(j, "window") /\ UNCHANGED leave
    /\ verdict' = [verdict EXCEPT ![j] = IF phase'[j] = "window" THEN "up" ELSE @]
    /\ UNCHANGED <<policyVars, kept, asksFor, policy, tool, done, lines, notified, clock, wish, moves>>

\* The owner's answer, in time or late: what may not be remembered is "this
\* time"; the call goes on only with an answer in time.
Answer(j, allow, lasts) ==
    LET s == ScopeOf(asksFor[j])
        lasting == allow /\ lasts \in Remember(asksFor[j], policy[j].mode)
    IN
    /\ verdict[j] = "up"
    /\ kept' = IF lasting THEN [kept EXCEPT ![s] = lasts] ELSE kept
    /\ wish' = IF lasting THEN [wish EXCEPT ![s] = lasts] ELSE wish
    /\ verdict' = [verdict EXCEPT ![j] = IF allow THEN "yes" ELSE "no"]
    /\ IF phase[j] # "window" THEN UNCHANGED <<phase, lines, leave>>
       ELSE IF allow THEN To(j, "start") /\ leave' = [leave EXCEPT ![j] = "answer"] /\ UNCHANGED lines
       ELSE RefuseCall(j) /\ UNCHANGED leave
    /\ UNCHANGED <<policyVars, asksFor, policy, tool, done, notified, clock, moves>>

\* Nobody answered in time.
NoAnswer(j) ==
    /\ phase[j] = "window" /\ RefuseCall(j)
    /\ UNCHANGED <<policyVars, kept, asksFor, policy, verdict, tool, done, notified, leave, clock, wish, moves>>

\* Mutant of InMinute: a notification of a minute ago does not count any more.
InMinuteLess == {n \in notified : clock - n[2] < Minute}

\* notify_allowed: those of the last minute (the others never count again).
InMinute == {n \in notified : clock - n[2] <= Minute}

\* The quota of notifications, and the tool is started.
StartTool(j) ==
    /\ phase[j] = "start"
    /\ IF asksFor[j] = "show" /\ Cardinality(InMinute) >= PerMinute
       THEN RefuseCall(j) /\ UNCHANGED <<tool, notified>>
       ELSE /\ To(j, "runs") /\ tool' = [tool EXCEPT ![j] = "runs"]
            /\ notified' = IF asksFor[j] = "show" THEN notified \cup {<<j, clock>>} ELSE notified
            /\ UNCHANGED lines
    /\ UNCHANGED <<policyVars, kept, asksFor, policy, verdict, done, leave, clock, wish, moves>>

\* The app does it (the path is opened as it is now).
Work(j) ==
    /\ tool[j] = "runs" /\ done[j] = "not"
    /\ done' = [done EXCEPT ![j] = IF asksFor[j] = "file" /\ ~(folder /\ inside) THEN "outside" ELSE "done"]
    /\ UNCHANGED <<policyVars, kept, phase, asksFor, policy, verdict, tool, lines, notified, leave, clock, wish, moves>>

\* The tool is over: done, or an error, which it may also be after it was done.
Over(j) ==
    /\ phase[j] = "runs" /\ tool' = [tool EXCEPT ![j] = "over"] /\ To(j, "told")
    /\ \/ done[j] # "not" /\ Line(j, "ok")
       \/ Line(j, "failed")
    /\ UNCHANGED <<policyVars, kept, asksFor, policy, verdict, done, notified, leave, clock, wish, moves>>

\* Mutant of Dropped: the child of a call that is dropped runs on.
Detached(j) == UNCHANGED tool

\* A dropped future takes its child with it (kill_on_drop).
Dropped(j) == tool' = [tool EXCEPT ![j] = IF @ = "runs" THEN "over" ELSE @]

\* CALL_TIMEOUT, SHORTCUT_TIMEOUT.
TimeOver(j) ==
    /\ phase[j] = "runs" /\ Dropped(j) /\ To(j, "told") /\ Line(j, "failed")
    /\ UNCHANGED <<policyVars, kept, asksFor, policy, verdict, done, notified, leave, clock, wish, moves>>

\* The stream ends under the call: a pause, the link went, the synth was unlinked.
StreamGone(j) ==
    /\ phase[j] \in {"file", "decide", "window", "start", "runs"}
    /\ onPause \/ moves < MaxMoves
    /\ moves' = IF onPause THEN moves ELSE moves + 1
    /\ To(j, "gone") /\ Dropped(j)
    /\ UNCHANGED <<policyVars, kept, asksFor, policy, verdict, done, lines, notified, leave, clock, wish>>

-----------------------------------------------------------------------------
(* The owner and the disk.                                                 *)

Move == moves < MaxMoves /\ moves' = moves + 1

\* Bound: what no call asks about is left alone.
Matters(r) == \E j \in Jobs : asksFor[j] = r /\ phase[j] \notin {"told", "gone"}

\* A pause: what waits in the window is refused (each stream ends after it).
OwnerPauses ==
    /\ Move /\ ~onPause /\ onPause' = TRUE
    /\ phase' = [j \in Jobs |-> IF phase[j] = "window" THEN "told" ELSE phase[j]]
    /\ lines' = [j \in Jobs |-> lines[j] \cup (IF phase[j] = "window" THEN {"denied"} ELSE {})]
    /\ verdict' = [j \in Jobs |-> IF verdict[j] = "up" THEN "no" ELSE verdict[j]]
    /\ UNCHANGED <<appsEnabled, appsOn, appsMode, folder, inside, kept, asksFor, policy, tool, done, notified, leave, clock, wish>>

Sets ==
    /\ Move
    /\ \/ appsMode' \in {"ask", "ask_new", "auto"} \ {appsMode} /\ UNCHANGED <<appsEnabled, appsOn, folder>>
       \/ Matters("send") /\ appsOn' = (IF "messages" \in appsOn THEN {"others"} ELSE {"messages", "others"}) /\ UNCHANGED <<appsEnabled, appsMode, folder>>
       \/ appsEnabled' = ~appsEnabled /\ UNCHANGED <<appsMode, appsOn, folder>>
       \/ Matters("file") /\ folder' = ~folder /\ UNCHANGED <<appsEnabled, appsMode, appsOn>>
    /\ UNCHANGED <<onPause, inside, kept, gateVars, clock, wish>>

Revoke(s) ==
    /\ Move /\ kept[s] # "none"
    /\ kept' = [kept EXCEPT ![s] = "none"] /\ wish' = [wish EXCEPT ![s] = "none"]
    /\ UNCHANGED <<policyVars, gateVars, clock>>

FileMoves ==
    /\ Move /\ Matters("file") /\ inside' = ~inside
    /\ UNCHANGED <<onPause, appsEnabled, appsOn, appsMode, folder, kept, gateVars, clock, wish>>

Passes ==
    /\ \E j \in Jobs : asksFor[j] = "show" /\ phase[j] # "told"
    /\ clock < Latest /\ clock' = clock + 1
    /\ UNCHANGED <<policyVars, kept, gateVars, wish, moves>>

OwnAppsNext ==
    \/ \E j \in Jobs :
          \/ Gate(j) \/ Resolve(j) \/ Decide(j) \/ NoAnswer(j) \/ StartTool(j) \/ Work(j) \/ Over(j) \/ TimeOver(j) \/ StreamGone(j)
          \/ \E allow \in BOOLEAN, lasts \in {"once", "session", "always"} : Answer(j, allow, lasts)
    \/ OwnerPauses \/ Sets \/ FileMoves \/ Passes \/ \E s \in Scopes : Revoke(s)

-----------------------------------------------------------------------------
(* Properties.                                                             *)

\* What was done in the owner's name was theirs to let: a message by an answer
\* to it or an "always" for its recipient that still stood; in the mode that
\* asks, by an answer; a shortcut with input never by a yes for the shortcut;
\* and only the mode without questions asks nothing (apps/mod.rs, decide).
DoneAsAllowed ==
    \A j \in Jobs : done[j] # "not" /\ asksFor[j] \in Asked =>
        /\ leave[j] \in {"free", "session", "always", "answer"}
        /\ leave[j] = "free" => asksFor[j] # "send" /\ policy[j].mode = "auto"
        /\ asksFor[j] = "send" => leave[j] \in {"answer", "always"}
        /\ policy[j].mode = "ask" => leave[j] = "answer"
        /\ asksFor[j] = "feed" => leave[j] \in {"answer", "free"}

\* The journal tells what was done: nothing the journal calls denied was done,
\* whatever its answer came to be afterwards, "ok" is never said of nothing,
\* and a call has one line (apps/mod.rs, handle).
JournalIsTrue ==
    \A j \in Jobs :
        /\ Cardinality(lines[j]) <= 1
        /\ "denied" \in lines[j] => done[j] = "not" /\ tool[j] = "none"
        /\ "ok" \in lines[j] => done[j] # "not"

\* No tool works on after its call: what the synth was told failed is not done
\* later, beside its second try (apps/mac.rs, osa, tool).
NoToolLeftBehind == \A j \in Jobs : tool[j] = "runs" => phase[j] = "runs"

\* In no minute, its end included, are more notifications let through than the
\* quota (apps/mod.rs, notify_allowed).
MinuteIsBounded ==
    \A n \in notified : Cardinality({k \in notified : n[2] <= k[2] /\ k[2] <= n[2] + Minute}) <= PerMinute

-----------------------------------------------------------------------------
(* Claims of the repository that the code does not keep (README.md, 8).    *)

\* "The journal gets one line per call": a call that ends with its stream has
\* none, whatever it did.
EveryCallHasItsLine == \A j \in Jobs : phase[j] \in {"told", "gone"} /\ done[j] # "not" => lines[j] # {}

\* "A file is opened only inside the folders the owner shared": as they were
\* when the call came, up to a question earlier.
OpenedInside == \A j \in Jobs : done[j] # "outside"
=============================================================================
