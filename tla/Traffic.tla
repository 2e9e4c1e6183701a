------------------------------ MODULE Traffic ------------------------------
(***************************************************************************)
(* The synth's traffic through this computer: a tcp stream (tcp.rs,        *)
(* `handle`, `connect`, `pump`) and the month's count of its bytes         *)
(* (core.rs, `net_allows`, `add_egress`, `flush_egress`).                  *)
(*                                                                         *)
(* A stream asks the owner's policy, dials, and copies both ways until     *)
(* both sides have finished or one fails; only then its bytes are counted. *)
(* The count is kept in memory and written now and then: a flush takes it  *)
(* under one lock and writes it under another, and streams end on several  *)
(* threads, so flushes may overlap.  An aborted stream is dropped where it *)
(* awaits and never comes to count.                                        *)
(***************************************************************************)
EXTENDS Pause, Naturals, FiniteSets

CONSTANTS
    Conns,      \* the tcp streams
    Cap,        \* settings.net.monthly_cap_bytes (0: none), in units
    FlushAt,    \* EGRESS_FLUSH_BYTES, in units
    MaxBytes,   \* bound: units a month's count may reach in a run
    MaxMonth    \* bound: months in a run

ASSUME TrafficAssumption ==
    /\ Cap \in Nat /\ FlushAt \in Nat \ {0}
    /\ MaxBytes \in Nat /\ MaxMonth \in Nat \ {0}

App == "app"            \* Core::flush, before the process exits
Flushers == Conns \cup {App}

VARIABLES
    netAsks,            \* settings.net: mode ask (else: all)
    conn,               \* where each stream stands
    up, down, watch,    \* its two directions; stalled_after_close
    bytes,              \* what it moved so far (up + down)
    aborted,            \* streams whose task is aborted
    month,              \* the calendar
    count, unsaved,     \* Counters: [month, bytes]; bytes not yet flushed
    disk,               \* persisted: [month, bytes]
    flushing,           \* what each flush under way has taken
    overlapped          \* history: two flushes were under way at once

netVars == <<pauseVars, netAsks, conn, up, down, watch, bytes, aborted, month,
             count, unsaved, disk, flushing, overlapped>>

Counts == [month : 0 .. MaxMonth, bytes : 0 .. MaxBytes]
None == [month |-> 0, bytes |-> 0]
ConnAwaits == {"asking", "dial", "pump"}
ConnStages == ConnAwaits \cup {"idle", "count", "flush", "over"}

NetTypeOK ==
    /\ PauseTypeOK
    /\ netAsks \in BOOLEAN
    /\ conn \in [Conns -> ConnStages]
    /\ up \in [Conns -> {"open", "closed"}]
    /\ down \in [Conns -> {"read", "write", "closed"}]
    /\ watch \in [Conns -> {"off", "waits", "timer"}]
    /\ bytes \in [Conns -> 0 .. MaxBytes] /\ aborted \subseteq Conns
    /\ month \in 1 .. MaxMonth /\ count \in Counts /\ disk \in Counts
    /\ unsaved \in 0 .. MaxMonth * MaxBytes
    /\ flushing \in [Flushers -> Counts] /\ overlapped \in BOOLEAN

Fresh(old) == IF old.month = month THEN old ELSE [month |-> month, bytes |-> 0]

NetInit ==
    /\ PauseInit
    /\ netAsks \in BOOLEAN
    /\ conn = [c \in Conns |-> "idle"] /\ bytes = [c \in Conns |-> 0]
    /\ up = [c \in Conns |-> "open"] /\ down = [c \in Conns |-> "read"]
    /\ watch = [c \in Conns |-> "off"] /\ aborted = {}
    /\ month = 1 /\ disk = None /\ count = [month |-> 1, bytes |-> 0]
    /\ unsaved = 0 /\ flushing = [f \in Flushers |-> None] /\ overlapped = FALSE

-----------------------------------------------------------------------------
(* A stream.                                                               *)

books == <<month, count, unsaved, disk, flushing, overlapped>>
pipe == <<up, down, watch, bytes>>
ConnAt(c, stage) == conn[c] = stage /\ (stage \in ConnAwaits => c \notin aborted)
ConnGoes(c, stage) == conn' = [conn EXCEPT ![c] = stage]

UnderCap == Cap = 0 \/ count.bytes < Cap

\* handle and net_allows: pause, cap, then the mode.  A listed domain or a
\* grant spares the owner the question.
NetAllows(c) ==
    /\ conn[c] = "idle"
    /\ \/ (paused \/ ~UnderCap) /\ ConnGoes(c, "over")
       \/ ~paused /\ UnderCap /\ ConnGoes(c, "dial")
       \/ ~paused /\ UnderCap /\ netAsks /\ ConnGoes(c, "asking")
    /\ UNCHANGED <<pauseVars, netAsks, pipe, aborted, books>>
NetOwnerSays(c) ==
    /\ ConnAt(c, "asking")
    /\ ConnGoes(c, "dial") \/ ConnGoes(c, "over")
    /\ UNCHANGED <<pauseVars, netAsks, pipe, aborted, books>>

\* connect, and the answer to the synth: every wait of it has its timeout.
Dialed(c) ==
    /\ ConnAt(c, "dial")
    /\ ConnGoes(c, "pump") \/ ConnGoes(c, "over")
    /\ UNCHANGED <<pauseVars, netAsks, pipe, aborted, books>>

\* pump, to_target: a chunk goes up, or the synth has finished sending.
Moved(c) == bytes' = [bytes EXCEPT ![c] = @ + 1]
Roomy(c) == bytes[c] < MaxBytes
ChunkUp(c) ==
    /\ ConnAt(c, "pump") /\ up[c] = "open" /\ Roomy(c)
    /\ Moved(c)
    /\ UNCHANGED <<pauseVars, netAsks, conn, up, down, watch, aborted, books>>
SynthCloses(c) ==
    /\ ConnAt(c, "pump") /\ up[c] = "open"
    /\ up' = [up EXCEPT ![c] = "closed"]
    /\ watch' = [watch EXCEPT ![c] = IF @ = "waits" THEN "timer" ELSE @]
    /\ UNCHANGED <<pauseVars, netAsks, conn, down, bytes, aborted, books>>

\* pump, to_synth: a chunk is read and waits for window from the synth.
\* stalled_after_close asks for the notification before it looks at the flag,
\* since notify_waiters reaches only those who wait.
NotifiedOnly(c) == "waits"
StallWatch(c) == IF up[c] = "closed" THEN "timer" ELSE "waits"
ChunkRead(c) ==
    /\ ConnAt(c, "pump") /\ down[c] = "read"
    /\ down' = [down EXCEPT ![c] = "write"]
    /\ watch' = [watch EXCEPT ![c] = StallWatch(c)]
    /\ UNCHANGED <<pauseVars, netAsks, conn, up, bytes, aborted, books>>
ChunkTaken(c) ==
    /\ ConnAt(c, "pump") /\ down[c] = "write" /\ Roomy(c)
    /\ down' = [down EXCEPT ![c] = "read"] /\ watch' = [watch EXCEPT ![c] = "off"]
    /\ Moved(c)
    /\ UNCHANGED <<pauseVars, netAsks, conn, up, aborted, books>>
TargetCloses(c) ==
    /\ ConnAt(c, "pump") /\ down[c] = "read"
    /\ down' = [down EXCEPT ![c] = "closed"]
    /\ UNCHANGED <<pauseVars, netAsks, conn, up, watch, bytes, aborted, books>>

\* pump returns: both sides finished, the synth takes nothing any more, or
\* a side fails.
PumpDone(c) == up[c] = "closed" /\ down[c] = "closed"
PipeGone(c) ==
    /\ up' = [up EXCEPT ![c] = "open"] /\ down' = [down EXCEPT ![c] = "read"]
    /\ watch' = [watch EXCEPT ![c] = "off"]
Stalled(c) ==
    /\ ConnAt(c, "pump") /\ watch[c] = "timer"
    /\ ConnGoes(c, "count")
    /\ PipeGone(c)
    /\ UNCHANGED <<pauseVars, netAsks, bytes, aborted, books>>
PumpReturns(c) ==
    /\ ConnAt(c, "pump") /\ PumpDone(c)
    /\ ConnGoes(c, "count")
    /\ PipeGone(c)
    /\ UNCHANGED <<pauseVars, netAsks, bytes, aborted, books>>
PumpFails(c) ==
    /\ ConnAt(c, "pump")
    /\ ConnGoes(c, "count")
    /\ PipeGone(c)
    /\ UNCHANGED <<pauseVars, netAsks, bytes, aborted, books>>

-----------------------------------------------------------------------------
(* The count.                                                              *)

\* add_egress: "if c.month != m".  The flush is due by bytes or by the clock.
DueByBytes(n) == n > FlushAt
FlushDue(n) == n >= FlushAt
AddEgress(c) ==
    /\ conn[c] = "count" /\ Fresh(count).bytes + bytes[c] <= MaxBytes
    /\ count' = [Fresh(count) EXCEPT !.bytes = @ + bytes[c]]
    /\ unsaved' = unsaved + bytes[c]
    /\ \/ ConnGoes(c, "flush")
       \/ ~FlushDue(unsaved') /\ ConnGoes(c, "over")
    /\ bytes' = [bytes EXCEPT ![c] = 0]
    /\ UNCHANGED <<pauseVars, netAsks, up, down, watch, aborted, month, disk, flushing, overlapped>>

\* flush_egress, under the lock of the counters ...
InFlush(f) == flushing[f] # None
KeepUnsaved == UNCHANGED unsaved
NoneUnsaved == unsaved' = 0
FlushTakes(f) ==
    /\ f \in Conns => conn[f] = "flush"
    /\ ~InFlush(f)
    /\ flushing' = [flushing EXCEPT ![f] = count]
    /\ NoneUnsaved
    /\ overlapped' = (overlapped \/ \E g \in Flushers \ {f} : InFlush(g))
    /\ UNCHANGED <<pauseVars, netAsks, conn, pipe, aborted, month, count, disk>>

\* ... and under the lock of what is persisted.
FlushWrites(f) ==
    /\ InFlush(f)
    /\ disk' = flushing[f]
    /\ flushing' = [flushing EXCEPT ![f] = None]
    /\ IF f = App THEN UNCHANGED conn ELSE ConnGoes(f, "over")
    /\ UNCHANGED <<pauseVars, netAsks, pipe, aborted, month, count, unsaved, overlapped>>

NewMonth ==
    /\ month < MaxMonth
    /\ month' = month + 1
    /\ UNCHANGED <<pauseVars, netAsks, conn, pipe, aborted, count, unsaved, disk, flushing, overlapped>>

\* The process ends at any moment; Core::new loads what was written.
Restart ==
    /\ paused' = FALSE /\ pausing' = "no" /\ nudged' = FALSE
    /\ conn' = [c \in Conns |-> "over"] /\ aborted' = {}
    /\ count' = Fresh(disk) /\ unsaved' = 0
    /\ flushing' = [f \in Flushers |-> None] /\ overlapped' = FALSE
    /\ up' = [c \in Conns |-> "open"] /\ down' = [c \in Conns |-> "read"]
    /\ watch' = [c \in Conns |-> "off"] /\ bytes' = [c \in Conns |-> 0]
    /\ UNCHANGED <<netAsks, month, disk>>

-----------------------------------------------------------------------------
(* The link: streams it opens, and ends.                                   *)

Reopen(c) ==
    /\ conn[c] = "over" /\ ConnGoes(c, "idle")
    /\ aborted' = aborted \ {c}
    /\ UNCHANGED <<pauseVars, netAsks, pipe, books>>

OpenConns == {c \in Conns : conn[c] \in ConnAwaits}
NoConnAborted == aborted
ConnsAborted == aborted \cup OpenConns
NetLinkSees ==
    /\ LinkSees
    /\ aborted' = IF paused THEN ConnsAborted ELSE aborted
    /\ UNCHANGED <<netAsks, conn, pipe, books>>
ConnDropped(c) ==
    /\ c \in aborted /\ conn[c] \in ConnAwaits
    /\ ConnGoes(c, "over")
    /\ PipeGone(c) /\ bytes' = [bytes EXCEPT ![c] = 0]
    /\ UNCHANGED <<pauseVars, netAsks, aborted, books>>
NetOwner ==
    /\ PauseFlag \/ Resume
    /\ UNCHANGED <<netAsks, conn, pipe, aborted, books>>
NetPauseGoesOn ==
    /\ PauseStops \/ PauseNudges
    /\ UNCHANGED <<netAsks, conn, pipe, aborted, books>>

-----------------------------------------------------------------------------

ConnTask(c) ==
    \/ Dialed(c) \/ PumpReturns(c) \/ Stalled(c) \/ AddEgress(c)
    \/ FlushTakes(c) \/ FlushWrites(c) \/ ConnDropped(c)
NetNext ==
    \/ \E c \in Conns :
         \/ ConnTask(c) \/ NetAllows(c) \/ NetOwnerSays(c) \/ ChunkUp(c) \/ SynthCloses(c)
         \/ ChunkRead(c) \/ ChunkTaken(c) \/ TargetCloses(c) \/ PumpFails(c) \/ Reopen(c)
    \/ FlushTakes(App) \/ FlushWrites(App)
    \/ NewMonth \/ Restart \/ NetLinkSees \/ NetOwner \/ NetPauseGoesOn

\* Tasks are polled, timers fire, a pause goes on.  Peers and the owner owe
\* nothing.
NetFairness ==
    /\ \A c \in Conns : WF_netVars(ConnTask(c))
    /\ WF_netVars(NetPauseGoesOn) /\ WF_netVars(NetLinkSees)

NetSpec == NetInit /\ [][NetNext]_netVars

-----------------------------------------------------------------------------
(* Properties.                                                             *)

\* What a crash makes the month's count lose: less than one flush's worth.
\* Between flushes (and if none overlapped) the file lags the count by what
\* is unsaved, and unsaved stays under the threshold.
CrashLosesLittle ==
    (count.month = disk.month /\ ~overlapped /\ \A f \in Flushers : ~InFlush(f)
       /\ \A c \in Conns : conn[c] # "flush")
        => count.bytes = disk.bytes + unsaved /\ unsaved < FlushAt

\* A synth that closed its side and takes no data does not keep the stream:
\* also when it closed before the chunk was read.
StalledStreamEnds ==
    \A c \in Conns : (conn[c] = "pump" /\ up[c] = "closed" /\ down[c] = "write")
                        ~> (conn[c] # "pump" \/ down[c] # "write")

\* No stream carries traffic on in a paused app, also one the owner allowed
\* while the pause was under way (net_allows does not look again).
PausedStreamEnds == \A c \in Conns : (paused /\ conn[c] = "pump") ~> (conn[c] # "pump" \/ ~paused)

-----------------------------------------------------------------------------
(* Claims of the repository that the code does not keep (README.md, 8).    *)

\* core.rs: "Write the egress counters to disk now."  A flush that ends while
\* no other is under way leaves the file at the count.
FlushedMeansSaved ==
    (\A f \in Flushers : ~InFlush(f)) /\ unsaved = 0 /\ count.month = disk.month
        => disk.bytes = count.bytes

\* core.rs: "Monthly egress accounting."  A month in which nothing moved has
\* not used up its cap.
CapIsMonthly == Cap > 0 /\ ~UnderCap => count.month = month
=============================================================================
