----------------------------- MODULE MCStreams -----------------------------
(***************************************************************************)
(* The streams a link serves, for TLC: a command, a tcp stream and the     *)
(* chunks of a file.  They share nothing but the pause, which each module  *)
(* meets by itself, so a behaviour here is one of a single kind (`kind`)   *)
(* and the other variables rest: the states of the kinds add up and do not *)
(* multiply.                                                               *)
(***************************************************************************)
EXTENDS Shell, Traffic, Transfers

VARIABLE kind

ownShell == <<shellOn, askFirst, cmd, asks, stopped, doomed, leader, rest, end>>
ownNet == <<netAsks, conn, up, down, watch, bytes, aborted, month, count, unsaved, disk,
            flushing, overlapped>>
vars == <<kind, ownShell, ownNet, fileVars, pauseVars>>

Init ==
    /\ kind \in {"shell", "net", "files"}
    /\ ShellInit /\ NetInit /\ FileInit
    /\ kind # "shell" => shellOn /\ askFirst
    /\ kind # "net" => netAsks
    /\ kind # "files" => asksWrite

ShellStep == kind = "shell" /\ ShellNext /\ UNCHANGED <<kind, ownNet, fileVars>>
NetStep == kind = "net" /\ NetNext /\ UNCHANGED <<kind, ownShell, fileVars>>
FileStep == kind = "files" /\ FileNext /\ UNCHANGED <<kind, ownShell, ownNet, pauseVars>>
Next == ShellStep \/ NetStep \/ FileStep

\* The fairness of the modules, of the kind that moves.
Spec ==
    /\ Init /\ [][Next]_vars
    /\ \A c \in Commands : WF_shellVars(kind = "shell" /\ ShellTask(c))
    /\ WF_shellVars(kind = "shell" /\ ShellPauseGoesOn) /\ WF_shellVars(kind = "shell" /\ ShellLinkSees)
    /\ \A c \in Conns : WF_netVars(kind = "net" /\ ConnTask(c))
    /\ WF_netVars(kind = "net" /\ NetPauseGoesOn) /\ WF_netVars(kind = "net" /\ NetLinkSees)

\* Every variable of the three modules has its type.
StreamsTypeOK == ShellTypeOK /\ NetTypeOK /\ FileTypeOK

\* A command leaves nothing behind: its own process not beyond the task that
\* watches it, its group not beyond the end the task gave it (shell.rs, Tree).
NothingLeftBehind == StreamsTypeOK /\ NoOrphan /\ TreeIsGone

\* A chunk goes where the owner allowed the write to go and where the synth
\* sent it for (rpc.rs, Transfers; files.rs, write).
ChunksInPlace == UnaskedContinues /\ AppendInPlace

\* What a pause, a stop or a stalled end must bring to an end ends (shell.rs,
\* run; tcp.rs, stalled_after_close; link.rs, run_one).
StreamsEnd == PausedCommandEnds /\ StopReaches /\ StalledStreamEnds /\ PausedStreamEnds
=============================================================================
