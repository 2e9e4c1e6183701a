------------------------------- MODULE Observe -------------------------------
(***************************************************************************)
(* What the synths see (observe.rs, the app's observe thread, and the      *)
(* control stream's writer in link.rs).                                    *)
(*                                                                         *)
(* A thread reads the sources some linked synth has switched on and puts   *)
(* the current value into a hub; per link a task sends it: when the link   *)
(* came up, when a value or a choice changed, after a resume and every     *)
(* minute, null once when it is over, nothing while paused.  The reports   *)
(* of a task wait in the queue of the control stream's writer, which also  *)
(* tells the synth whether the app is paused; a synth takes no report of a *)
(* paused computer.  One source here, the app in front, which the owner    *)
(* may exclude: then it goes as "private".                                 *)
(***************************************************************************)
EXTENDS Naturals, Sequences

CONSTANTS
    Synths, Nobody,
    MaxChanges      \* bound: changes of the owner and of the world in a run

ASSUME ObserveAssumption == MaxChanges \in Nat

VARIABLES
    slots, on,      \* linked synths; those the source is switched on for
    setting,        \* observe::set has looked the synth up
    excluded, front,\* the owner excluded "app"; what is in front
    paused,
    hub,            \* Hub: the current value of the source
    was, round,     \* the thread: Sampler.was, and the round it is in
    link, sent,     \* per synth: its control stream and run_link, and Sent
    queue,          \* reports before the writer
    syn,            \* what the synth knows
    changes,
    allowed         \* history: switched on at some time of this link

obsVars == <<slots, on, setting, excluded, front, paused, hub, was, round, link, sent, queue, syn,
             changes, allowed>>

Values == {"named", "private"}
Idle == [stage |-> "idle", wanted |-> FALSE, value |-> "none"]
NoLink == [up |-> FALSE, offered |-> TRUE, dirty |-> FALSE, control |-> FALSE, stage |-> "idle",
           full |-> FALSE, offers |-> TRUE, on |-> FALSE, value |-> "none"]

ObserveTypeOK ==
    /\ slots \subseteq Synths /\ on \subseteq Synths /\ setting \in Synths \cup {Nobody}
    /\ excluded \in BOOLEAN /\ front \in {"none", "app", "manager"} /\ paused \in BOOLEAN
    /\ hub \in Values \cup {"none"} /\ was \in BOOLEAN
    /\ round \in [stage : {"idle", "wanted", "read"}, wanted : BOOLEAN, value : Values \cup {"none"}]
    /\ link \in [Synths -> [up : BOOLEAN, offered : BOOLEAN, dirty : BOOLEAN, control : BOOLEAN,
                            stage : {"idle", "read"}, full : BOOLEAN, offers : BOOLEAN,
                            on : BOOLEAN, value : Values \cup {"none"}]]
    /\ sent \in [Synths -> Values \cup {"none", "null"}]
    /\ \A s \in Synths : \A i \in DOMAIN queue[s] : queue[s][i] \in Values \cup {"null"}
    /\ syn \in [Synths -> [value : Values \cup {"none"}, paused : BOOLEAN]]
    /\ changes \in 0 .. MaxChanges /\ allowed \subseteq Synths

ObserveInit ==
    /\ slots = Synths /\ on = {} /\ setting = Nobody
    /\ excluded = FALSE /\ front = "app" /\ paused = FALSE
    /\ hub = "none" /\ was = FALSE /\ round = Idle
    /\ link = [s \in Synths |-> NoLink] /\ sent = [s \in Synths |-> "none"]
    /\ queue = [s \in Synths |-> <<>>]
    /\ syn = [s \in Synths |-> [value |-> "none", paused |-> FALSE]]
    /\ changes = 0 /\ allowed = {}

choices == <<slots, on, setting, excluded, front, paused, changes>>
thread == <<hub, was, round>>
ways == <<sent, queue, syn>>

Counted == changes < MaxChanges /\ changes' = changes + 1

\* Hub::bump and bump_control: every link task is told, those that are up.
Bump(l) == [s \in Synths |-> [l[s] EXCEPT !.dirty = @ \/ l[s].up]]
BumpControl(l) == [s \in Synths |-> [l[s] EXCEPT !.control = @ \/ l[s].up]]

-----------------------------------------------------------------------------
(* The owner and the world.                                                *)

\* observe::set looks the synth up and then stores the choice.
SetChecks(s) ==
    /\ setting = Nobody /\ s \in slots \ on /\ Counted
    /\ setting' = s
    /\ UNCHANGED <<slots, on, excluded, front, paused, thread, link, ways, allowed>>
SetStores ==
    /\ setting # Nobody
    /\ on' = on \cup {setting} /\ setting' = Nobody
    /\ allowed' = allowed \cup {setting}
    /\ link' = Bump(link)
    /\ UNCHANGED <<slots, excluded, front, paused, changes, thread, ways>>
SwitchOff(s) ==
    /\ s \in on /\ Counted
    /\ on' = on \ {s} /\ link' = Bump(link)
    /\ UNCHANGED <<slots, setting, excluded, front, paused, thread, ways, allowed>>
Exclude ==
    /\ Counted
    /\ excluded' = ~excluded /\ link' = Bump(link)
    /\ UNCHANGED <<slots, on, setting, front, paused, thread, ways, allowed>>
FrontChanges ==
    /\ Counted
    /\ front' \in {"none", "app", "manager"} \ {front}
    /\ UNCHANGED <<slots, on, setting, excluded, paused, thread, link, ways, allowed>>

PauseOrResume ==
    /\ Counted
    /\ paused' = ~paused /\ link' = BumpControl(link)
    /\ UNCHANGED <<slots, on, setting, excluded, front, thread, ways, allowed>>

\* wipe_slot, and the same synth linked again.
Unlinks(s) == on \ {s}
Unlink(s) ==
    /\ s \in slots /\ Counted
    /\ slots' = slots \ {s} /\ on' = Unlinks(s)
    /\ UNCHANGED <<setting, excluded, front, paused, thread, link, ways, allowed>>
PairAgain(s) ==
    /\ s \notin slots /\ ~link[s].up /\ Counted
    /\ slots' = slots \cup {s}
    /\ UNCHANGED <<on, setting, excluded, front, paused, thread, link, ways, allowed>>

-----------------------------------------------------------------------------
(* The observe thread: one round after the other, none while paused.       *)

RoundBegins ==
    /\ round.stage = "idle" /\ ~paused
    /\ round' = [Idle EXCEPT !.stage = "wanted", !.wanted = (on \cap slots # {})]
    /\ UNCHANGED <<choices, hub, was, link, ways, allowed>>

\* Sampler::tick with the settings of the moment: the value of the source.
\* (A password manager, a private window: nobody has to exclude it.)
Hidden == front = "manager" \/ (front = "app" /\ excluded)
Sampled == IF front = "none" THEN "none" ELSE IF Hidden THEN "private" ELSE "named"
RoundReads ==
    /\ round.stage = "wanted"
    /\ round' = [round EXCEPT !.stage = "read", !.value = IF round.wanted THEN Sampled ELSE "none"]
    /\ UNCHANGED <<choices, hub, was, link, ways, allowed>>

\* Hub::report: the links hear of it when the value changed.  A source that
\* is not wanted any more gives None once.
RoundReports ==
    /\ round.stage = "read"
    /\ hub' = IF round.wanted \/ was THEN round.value ELSE hub
    /\ was' = round.wanted /\ round' = Idle
    /\ link' = IF hub' # hub THEN Bump(link) ELSE link
    /\ UNCHANGED <<choices, ways, allowed>>

-----------------------------------------------------------------------------
(* A link.                                                                 *)

\* hello_ack: the synth remembers nothing of an earlier link, and run_link
\* starts with everything.  The hello said nothing of a pause.
LinkUp(s) ==
    /\ s \in slots /\ ~link[s].up
    /\ link' = [link EXCEPT ![s] = [NoLink EXCEPT !.up = TRUE, !.control = TRUE]]
    /\ sent' = [sent EXCEPT ![s] = "none"]
    /\ syn' = [syn EXCEPT ![s] = [value |-> "none", paused |-> FALSE]]
    /\ allowed' = IF s \in on THEN allowed \cup {s} ELSE allowed \ {s}
    /\ UNCHANGED <<choices, thread, queue>>
LinkDown(s) ==
    /\ link[s].up /\ Counted
    /\ link' = [link EXCEPT ![s] = NoLink] /\ queue' = [queue EXCEPT ![s] = <<>>]
    /\ syn' = [syn EXCEPT ![s].value = "none"]
    /\ UNCHANGED <<slots, on, setting, excluded, front, paused, thread, sent, allowed>>

\* refresh: the synth offers the resource now, or no longer.  (The question
\* went through the same queue: it is answered after what was before it.)
Refresh(s) ==
    /\ link[s].up /\ Counted /\ (link[s].offered \/ queue[s] = <<>>)
    /\ link' = Bump([link EXCEPT ![s].offered = ~@])
    /\ syn' = [syn EXCEPT ![s].value = IF link[s].offered THEN "none" ELSE @]
    /\ UNCHANGED <<slots, on, setting, excluded, front, paused, thread, sent, queue, allowed>>

\* run_link wakes up: a change, a resume or the minute (bound: by then the
\* rest is done); `flush` reads what is on and the value.
RepeatChanges == FALSE
RepeatIsFull == TRUE
FlushReads(s, l, full) ==
    /\ link[s].up /\ link[s].stage = "idle"
    /\ link' = [link EXCEPT ![s] = [l EXCEPT !.stage = "read", !.full = full, !.offers = l.offered,
                                             !.on = (s \in on), !.value = hub]]
    /\ UNCHANGED <<choices, thread, ways, allowed>>
OnChange(s) == link[s].dirty /\ FlushReads(s, [link[s] EXCEPT !.dirty = FALSE], FALSE)
OnControl(s) == link[s].control /\ FlushReads(s, [link[s] EXCEPT !.control = FALSE], TRUE)
OnMinute(s) == queue[s] = <<>> /\ ~link[s].dirty /\ ~link[s].control /\ FlushReads(s, link[s], RepeatIsFull)

\* plan: what goes out, and what is then taken for sent.
AnyonesValue(s) == link[s].value
Current(s) == IF link[s].on THEN link[s].value ELSE "none"
ClearsNothing(s) == FALSE
Clears(s) == Current(s) = "none" /\ sent[s] \in Values
FlushSends(s) ==
    /\ link[s].stage = "read"
    /\ LET goes == Current(s) # "none" /\ (link[s].full \/ sent[s] # Current(s))
           report == IF goes THEN Current(s) ELSE "null"
       IN IF paused THEN UNCHANGED <<sent, queue>>
          ELSE IF ~link[s].offers
          THEN sent' = [sent EXCEPT ![s] = "none"] /\ UNCHANGED queue
          ELSE IF goes \/ Clears(s)
          THEN /\ sent' = [sent EXCEPT ![s] = report]
               /\ queue' = [queue EXCEPT ![s] = Append(@, report)]
            ELSE UNCHANGED <<sent, queue>>
    /\ link' = [link EXCEPT ![s].stage = "idle"]
    /\ UNCHANGED <<choices, thread, syn, allowed>>

\* The writer: a report, or presence (a pause, a resume, and every 15 s).
\* The synth takes no report of a computer it knows to be paused.
WritesReport(s) ==
    /\ link[s].up /\ queue[s] # <<>>
    /\ queue' = [queue EXCEPT ![s] = Tail(@)]
    /\ syn' = IF syn[s].paused \/ ~link[s].offered THEN syn
              ELSE [syn EXCEPT ![s].value = IF Head(queue[s]) = "null" THEN "none" ELSE Head(queue[s])]
    /\ UNCHANGED <<choices, thread, link, sent, allowed>>
WritesPresence(s) ==
    /\ link[s].up /\ syn[s].paused # paused
    /\ syn' = [syn EXCEPT ![s] = [value |-> IF paused THEN "none" ELSE @.value, paused |-> paused]]
    /\ UNCHANGED <<choices, thread, link, sent, queue, allowed>>

-----------------------------------------------------------------------------

RoundStep == RoundBegins \/ RoundReads \/ RoundReports
LinkTask(s) == OnChange(s) \/ OnControl(s) \/ OnMinute(s) \/ FlushSends(s)
Writes(s) == WritesReport(s) \/ WritesPresence(s)

ObserveNext ==
    \/ RoundStep \/ SetStores \/ Exclude \/ FrontChanges \/ PauseOrResume
    \/ \E s \in Synths :
         \/ SetChecks(s) \/ SwitchOff(s) \/ Unlink(s) \/ PairAgain(s)
         \/ LinkUp(s) \/ LinkDown(s) \/ Refresh(s)
         \/ LinkTask(s) \/ Writes(s)

-----------------------------------------------------------------------------
(* Properties.                                                             *)

\* A synth holds a value only if its source was switched on for it at some
\* time of this link: not for another synth's switch, not from a link
\* before, not from a synth that was unlinked and linked again.
OnlyItsOwn == \A s \in Synths : syn[s].value # "none" => s \in allowed

Quiet(s) == s \in slots /\ link[s].up /\ link[s].offered /\ ~paused
Expected(s) ==
    IF s \notin on THEN "none" ELSE Sampled

\* What the owner switched off, or what is over, the synth is told of: also
\* when it happened during a pause, between two rounds or before hello_ack.
OverIsTold ==
    \A s \in Synths :
        (Quiet(s) /\ Expected(s) = "none") ~> (syn[s].value = "none" \/ ~(Quiet(s) /\ Expected(s) = "none"))

\* And a source that is on reaches the synth as it is: a report that was
\* dropped because the synth still took the computer for paused goes again,
\* and an excluded app turns private.
SynthIsCurrent ==
    \A s \in Synths : \A v \in Values :
        (Quiet(s) /\ Expected(s) = v) ~> (syn[s].value = v \/ ~(Quiet(s) /\ Expected(s) = v))

-----------------------------------------------------------------------------
(* Claims of the repository that the code does not keep (README.md, 8).    *)

\* observe.rs: "nothing at all while the app is paused".
NothingWhilePaused == [][\A s \in Synths : WritesReport(s) => ~paused]_obsVars

\* sources.rs: "the app in front one the synth must not see: ... or an app
\* the owner excluded".
ExcludedNotNamed ==
    [][\A s \in Synths : FlushSends(s) /\ queue'[s] # queue[s] /\ sent'[s] = "named" => ~excluded]_obsVars

\* observe.rs: "each switched on by the owner per synth and off by default".
OffByDefault == [][\A s \in Synths : PairAgain(s) => s \notin on]_obsVars

\* observe.rs: "Resumed: everything again at once."
ResumedIsSeen == [][\A s \in Synths : WritesReport(s) /\ ~paused => ~syn[s].paused]_obsVars

\* link.rs: "hello already carried the state".
HelloCarriedState == \A s \in Synths : link[s].up /\ link[s].control => syn[s].paused = paused
=============================================================================
