------------------------------- MODULE Shell -------------------------------
(***************************************************************************)
(* `shell.exec`: a command of the synth on this computer (shell.rs, `exec` *)
(* and `run`; the call of rpc.rs that serves it).                          *)
(*                                                                         *)
(* A command passes the gate (pause, the switch, the request, the owner),  *)
(* is started in a process group of its own and then waits for four things *)
(* at once: its end, its timer, the synth closing the stream, and the      *)
(* owner's stop (`State::stop_all`, a watch channel).  Whatever ended it   *)
(* other than itself, its group gets SIGTERM and then SIGKILL.  The task   *)
(* may be aborted with its stream; then `kill_on_drop` kills the command's *)
(* own process and nothing else.                                           *)
(*                                                                         *)
(* An aborted task is dropped where it awaits; between the last question   *)
(* and the wait of `run` it does not await ("spawn", "started"), so it     *)
(* gets that far first.  The stop channel is kept as the commands with a   *)
(* change they have not seen.                                              *)
(***************************************************************************)
EXTENDS Pause

CONSTANT Commands

VARIABLES
    shellOn, askFirst,  \* settings.shell: enabled, mode ask
    cmd, asks,          \* where each command stands; the mode it read
    stopped,            \* commands whose receiver has an unseen stop
    doomed,             \* commands whose task is aborted
    leader, rest,       \* its own process lives; what it started lives
    end                 \* history: how the run ended

shellVars == <<pauseVars, shellOn, askFirst, cmd, asks, stopped, doomed, leader, rest, end>>

Awaits == {"parse", "asking", "running", "term", "grace", "drain"}
CmdStages == Awaits \cup {"idle", "spawn", "started", "over"}
Ends == {"none", "refused", "exited", "killed", "dropped"}

ShellTypeOK ==
    /\ PauseTypeOK
    /\ shellOn \in BOOLEAN /\ askFirst \in BOOLEAN
    /\ cmd \in [Commands -> CmdStages] /\ asks \in [Commands -> BOOLEAN]
    /\ stopped \subseteq Commands /\ doomed \subseteq Commands
    /\ leader \in [Commands -> BOOLEAN] /\ rest \in [Commands -> BOOLEAN]
    /\ end \in [Commands -> Ends]

ShellInit ==
    /\ PauseInit
    /\ shellOn \in BOOLEAN /\ askFirst \in BOOLEAN
    /\ cmd = [c \in Commands |-> "idle"] /\ asks = [c \in Commands |-> FALSE]
    /\ stopped = {} /\ doomed = {}
    /\ leader = [c \in Commands |-> FALSE] /\ rest = [c \in Commands |-> FALSE]
    /\ end = [c \in Commands |-> "none"]

-----------------------------------------------------------------------------
(* The gate.                                                               *)

settings == <<shellOn, askFirst>>
procs == <<leader, rest>>
CmdAt(c, stage) == cmd[c] = stage /\ (stage \in Awaits => c \notin doomed)
CmdGoes(c, stage) == cmd' = [cmd EXCEPT ![c] = stage]
CmdEnds(c, how) == CmdGoes(c, "over") /\ end' = [end EXCEPT ![c] = how]

Allowed == ~paused /\ shellOn

\* exec: the pause and the switch, and the settings it goes by from here on.
Exec(c) ==
    /\ cmd[c] = "idle"
    /\ \/ Allowed /\ CmdGoes(c, "parse") /\ UNCHANGED end
       \/ ~Allowed /\ CmdEnds(c, "refused")
    /\ asks' = [asks EXCEPT ![c] = askFirst]
    /\ UNCHANGED <<pauseVars, settings, stopped, doomed, procs>>

\* Request::parse looks at the folder, so it waits; then a grant may spare
\* the owner the question.
Parsed(c) ==
    /\ CmdAt(c, "parse")
    /\ \/ CmdEnds(c, "refused")
       \/ asks[c] /\ CmdGoes(c, "asking") /\ UNCHANGED end
       \/ CmdGoes(c, "spawn") /\ UNCHANGED end
    /\ UNCHANGED <<pauseVars, settings, asks, stopped, doomed, procs>>

\* "The owner may have paused or switched it off while deciding."
AskedOnly(c) == TRUE
StillAllowed(c) == Allowed

OwnerSays(c) ==
    /\ CmdAt(c, "asking")
    /\ \/ CmdEnds(c, "refused")
       \/ StillAllowed(c) /\ CmdGoes(c, "spawn") /\ UNCHANGED end
    /\ UNCHANGED <<pauseVars, settings, asks, stopped, doomed, procs>>

-----------------------------------------------------------------------------
(* The run.                                                                *)

\* The child starts, or cannot be started.
Spawn(c) ==
    /\ cmd[c] = "spawn"
    /\ \/ CmdEnds(c, "refused") /\ UNCHANGED leader
       \/ CmdGoes(c, "started") /\ leader' = [leader EXCEPT ![c] = TRUE] /\ UNCHANGED end
    /\ UNCHANGED <<pauseVars, settings, asks, stopped, doomed, rest>>

\* `stop.borrow_and_update()`: what was stopped up to here counts as seen.
MarkSeen(c) ==
    /\ cmd[c] = "started"
    /\ CmdGoes(c, "running")
    /\ stopped' = stopped \ {c}
    /\ UNCHANGED <<pauseVars, settings, asks, doomed, procs, end>>

\* The command starts other processes, and ends.
Fork(c) ==
    /\ leader[c] /\ ~rest[c]
    /\ rest' = [rest EXCEPT ![c] = TRUE]
    /\ UNCHANGED <<pauseVars, settings, cmd, asks, stopped, doomed, leader, end>>
ChildExits(c) ==
    /\ leader[c]
    /\ leader' = [leader EXCEPT ![c] = FALSE]
    /\ UNCHANGED <<pauseVars, settings, cmd, asks, stopped, doomed, rest, end>>
RestExits(c) ==
    /\ rest[c]
    /\ rest' = [rest EXCEPT ![c] = FALSE]
    /\ UNCHANGED <<pauseVars, settings, cmd, asks, stopped, doomed, leader, end>>

\* The four things `run` waits for.
ExitSeen(c) ==
    /\ CmdAt(c, "running") /\ ~leader[c]
    /\ CmdGoes(c, "drain") /\ end' = [end EXCEPT ![c] = "exited"]
    /\ UNCHANGED <<pauseVars, settings, asks, stopped, doomed, procs>>
StopIgnored(c) ==
    /\ CmdAt(c, "running") /\ c \in stopped
    /\ stopped' = stopped \ {c}
    /\ UNCHANGED <<pauseVars, settings, cmd, asks, doomed, procs, end>>
StopSeen(c) ==
    /\ CmdAt(c, "running") /\ c \in stopped
    /\ CmdGoes(c, "term") /\ stopped' = stopped \ {c}
    /\ UNCHANGED <<pauseVars, settings, asks, doomed, procs, end>>
TimedOutOrCancelled(c) ==
    /\ CmdAt(c, "running")
    /\ CmdGoes(c, "term")
    /\ UNCHANGED <<pauseVars, settings, asks, stopped, doomed, procs, end>>

\* Tree::kill: SIGTERM for the group, which each process may heed or not ...
Term(c) ==
    /\ CmdAt(c, "term")
    /\ \E l, r \in BOOLEAN :
         /\ leader' = [leader EXCEPT ![c] = @ /\ l]
         /\ rest' = [rest EXCEPT ![c] = @ /\ r]
    /\ CmdGoes(c, "grace")
    /\ UNCHANGED <<pauseVars, settings, asks, stopped, doomed, end>>

\* ... and after the grace SIGKILL, which none survives.
KillLeader(c) == leader' = [leader EXCEPT ![c] = FALSE] /\ UNCHANGED rest
KillGroup(c) == leader' = [leader EXCEPT ![c] = FALSE] /\ rest' = [rest EXCEPT ![c] = FALSE]
Kill(c) ==
    /\ CmdAt(c, "grace")
    /\ KillGroup(c)
    /\ CmdGoes(c, "drain") /\ end' = [end EXCEPT ![c] = "killed"]
    /\ UNCHANGED <<pauseVars, settings, asks, stopped, doomed>>

\* The output is collected for a moment more, the journal written, the synth
\* answered.
Answered(c) ==
    /\ CmdAt(c, "drain")
    /\ CmdGoes(c, "over")
    /\ UNCHANGED <<pauseVars, settings, asks, stopped, doomed, procs, end>>

-----------------------------------------------------------------------------
(* Who ends a command: the owner, and the link.                            *)

\* The receivers there are get the change (a command subscribes on its way
\* into `run`; one that is not there yet sees nothing of it).
StopAll == stopped' = stopped \cup {c \in Commands : cmd[c] \in {"started", "running"}}

\* mutate_settings: "The command line switched off: what runs now stops too."
SwitchOff ==
    /\ shellOn
    /\ shellOn' = FALSE
    /\ StopAll
    /\ UNCHANGED <<pauseVars, askFirst, cmd, asks, doomed, procs, end>>
SwitchOn ==
    /\ ~shellOn
    /\ shellOn' = TRUE /\ askFirst' \in BOOLEAN
    /\ UNCHANGED <<pauseVars, cmd, asks, stopped, doomed, procs, end>>

ShellOwner ==
    /\ PauseFlag \/ Resume
    /\ UNCHANGED <<settings, cmd, asks, stopped, doomed, procs, end>>
ShellPauseGoesOn ==
    /\ \/ PauseStops /\ StopAll
       \/ PauseNudges /\ UNCHANGED stopped
    /\ UNCHANGED <<settings, cmd, asks, doomed, procs, end>>

\* abort_all reaches every task of the link that has not ended.
InTask == {c \in Commands : cmd[c] \notin {"idle", "over"}}
NothingAborted == doomed
AllAborted == doomed \cup InTask

ShellLinkSees ==
    /\ LinkSees
    /\ doomed' = IF paused THEN AllAborted ELSE doomed
    /\ UNCHANGED <<settings, cmd, asks, stopped, procs, end>>
ShellLinkEnds ==
    /\ doomed # AllAborted
    /\ doomed' = AllAborted
    /\ UNCHANGED <<pauseVars, settings, cmd, asks, stopped, procs, end>>

\* The aborted task is dropped, and the child with it (kill_on_drop).
LeaveChild(c) == UNCHANGED leader
KillOnDrop(c) == leader' = [leader EXCEPT ![c] = FALSE]
Dropped(c) ==
    /\ c \in doomed /\ cmd[c] \in Awaits
    /\ KillOnDrop(c)
    /\ CmdEnds(c, "dropped")
    /\ UNCHANGED <<pauseVars, settings, asks, stopped, doomed, rest>>

-----------------------------------------------------------------------------

\* The steps the task takes by itself.
ShellTask(c) ==
    \/ Parsed(c) \/ Spawn(c) \/ MarkSeen(c) \/ ExitSeen(c) \/ StopSeen(c)
    \/ Term(c) \/ Kill(c) \/ Answered(c) \/ Dropped(c)

ShellNext ==
    \/ \E c \in Commands : ShellTask(c) \/ Exec(c) \/ OwnerSays(c) \/ Fork(c) \/ ChildExits(c)
                           \/ RestExits(c) \/ TimedOutOrCancelled(c)
    \/ SwitchOff \/ SwitchOn \/ ShellOwner \/ ShellPauseGoesOn
    \/ ShellLinkSees \/ ShellLinkEnds

ShellSpec == ShellInit /\ [][ShellNext]_shellVars

\* Tasks are polled and a pause goes on; a command need not end, and nobody
\* relies on its timer (30 minutes at most) or on the owner.
ShellFairness ==
    /\ \A c \in Commands : WF_shellVars(ShellTask(c))
    /\ WF_shellVars(ShellPauseGoesOn) /\ WF_shellVars(ShellLinkSees)

-----------------------------------------------------------------------------
(* Properties.                                                             *)

\* A command's own process never outlives the task that watches over it,
\* whichever way the task ended (answered, aborted with its stream).
NoOrphan == \A c \in Commands : leader[c] => cmd[c] \in {"started", "running", "term", "grace"}

\* When a run was ended by its timer, the synth or the owner, nothing of its
\* process group is left.
TreeIsGone == \A c \in Commands : end[c] = "killed" => ~rest[c]

\* A command does not run on in a paused app, also when the stop came before
\* it watched for one: the link aborts its stream.
PausedCommandEnds ==
    \A c \in Commands : (paused /\ leader[c]) ~> (~leader[c] \/ ~paused)

\* A stop reaches every command that waits in `run`, without its timer.
StopReaches ==
    \A c \in Commands : (cmd[c] = "running" /\ c \in stopped) ~> cmd[c] = "over"

-----------------------------------------------------------------------------
(* Claims of the repository that the code does not keep (README.md, 8).    *)

\* core.rs, mutate_settings: "The command line switched off: what runs now
\* stops too."
OffMeansStopped == \A c \in Commands : (~shellOn /\ leader[c]) ~> (~leader[c] \/ shellOn)

\* shell.rs: "its own process group, which gets SIGTERM and then SIGKILL on a
\* timeout, a cancel or a pause".  Nothing of a command is left after it.
PauseEndsTree == \A c \in Commands : (paused /\ rest[c] /\ end[c] # "exited") ~> (~rest[c] \/ ~paused)
=============================================================================
