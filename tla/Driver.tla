------------------------------- MODULE Driver -------------------------------
(***************************************************************************)
(* Installing the computer-control driver (connect-core/cua_install.rs):   *)
(* one run at a time checks the pinned copy, downloads, verifies, unpacks  *)
(* and switches to it; a copy of an older version stays until then.        *)
(*                                                                         *)
(* The download is a blocking thread that a time limit leaves behind; the  *)
(* app may quit at any point, and may end between any two steps.           *)
(***************************************************************************)
EXTENDS Naturals, FiniteSets

CONSTANT
    Runs            \* bound: the runs of ensure (0: none of them)

ASSUME RunsAssumption == 0 \notin Runs

VARIABLES
    pinned, old,    \* releases/<version>: none, good, broken or bad; a copy of an older version
    archive,        \* tmp/<pid>/<archive>: none, part, right, wrong
    unpacked,       \* tmp/<pid>/unpacked
    state,          \* InstallState
    gate,           \* the run that holds it (0: free)
    pc,             \* where each run of ensure is
    stop,           \* runs whose stop flag is up
    current,        \* the run whose flag `shutdown` raises (0: one of nobody)
    stopped,        \* the app is quitting
    thread,         \* each run's download thread: none, fetching, opened, read, done, failed
    outdated,       \* history: a thread left behind spoke or wrote
    quitEarly,      \* history: the app quit while the check of the copy ran
    touched         \* history: the copy broke after it was said to be ready

driverVars == <<pinned, old, archive, unpacked, state, gate, pc, stop, current, stopped, thread, outdated, quitEarly, touched>>

Busy == {"checking", "downloading", "installing", "verifying"}
Failures == {"unsupported", "offline", "checksum", "disk", "verify", "timeout", "cancelled"}

DriverTypeOK ==
    /\ pinned \in {"none", "good", "broken", "bad"} /\ old \in BOOLEAN
    /\ archive \in {"none", "part", "right", "wrong"} /\ unpacked \in {"none", "right", "wrong"}
    /\ state \in {"idle", "ready"} \cup Busy \cup Failures
    /\ gate \in Runs \cup {0} /\ current \in Runs \cup {0}
    /\ pc \in [Runs -> {"none", "check", "start", "fetch", "hash", "unpack", "verify", "clear", "switch", "drop", "over"}]
    /\ stop \subseteq Runs /\ stopped \in BOOLEAN
    /\ thread \in [Runs -> {"none", "fetching", "opened", "read", "done", "failed"}]
    /\ outdated \in BOOLEAN /\ quitEarly \in BOOLEAN /\ touched \in BOOLEAN

DriverInit ==
    /\ pinned \in {"none", "good", "broken"} /\ old \in BOOLEAN
    /\ archive = "none" /\ unpacked = "none" /\ state = "idle" /\ gate = 0
    /\ pc = [r \in Runs |-> "none"] /\ stop = {} /\ current = 0 /\ stopped = FALSE
    /\ thread = [r \in Runs |-> "none"] /\ outdated = FALSE /\ quitEarly = FALSE /\ touched = FALSE

Goto(r, to) == pc' = [pc EXCEPT ![r] = to]

-----------------------------------------------------------------------------
(* ensure.                                                                 *)

\* One at a time; nothing once the app quits.
Ensure(r) ==
    /\ pc[r] = "none" /\ gate = 0
    /\ IF stopped
       THEN Goto(r, "over") /\ state' = "cancelled" /\ UNCHANGED gate
       ELSE Goto(r, "check") /\ state' = "checking" /\ gate' = r
    /\ UNCHANGED <<pinned, old, archive, unpacked, stop, current, stopped, thread, outdated, quitEarly, touched>>

\* The copy says its version: it is there, and older ones are dropped.  Else
\* it is fetched, if there is a release for this system (which the build
\* knows; here a run may find either).
CopyThere == pinned # "none"
CopyRuns == pinned \in {"good", "bad"}
CheckCopy(r) ==
    /\ pc[r] = "check"
    /\ \/ CopyRuns /\ Goto(r, "over") /\ gate' = 0 /\ state' = "ready" /\ old' = FALSE
       \/ ~CopyRuns /\ Goto(r, "start") /\ UNCHANGED <<gate, state, old>>
       \/ ~CopyRuns /\ Goto(r, "over") /\ gate' = 0 /\ state' = "unsupported" /\ UNCHANGED old
    /\ touched' = FALSE
    /\ UNCHANGED <<pinned, archive, unpacked, stop, current, stopped, thread, outdated, quitEarly>>
\* A stop flag of its own; what a run left is removed; the thread.
StartFetch(r) ==
    /\ pc[r] = "start" /\ Goto(r, "fetch")
    /\ current' = r /\ archive' = "none" /\ unpacked' = "none" /\ state' = "downloading"
    /\ thread' = [thread EXCEPT ![r] = "fetching"]
    /\ UNCHANGED <<pinned, old, gate, stop, stopped, outdated, quitEarly, touched>>

-----------------------------------------------------------------------------
(* The thread (fetch): the file of a run is of the same name as the next   *)
(* one's, and what it says of its progress is the one state.               *)

LeftBehind(r) == gate # r
Staged == gate # 0 /\ pc[gate] \notin {"check", "start"}
\* The answer is there: the file is made anew, if its folder is there (the
\* next run's has the same name), and the first progress told, whatever
\* the flag says by now.
Opens(r) ==
    /\ thread[r] = "fetching"
    /\ \/ thread' = [thread EXCEPT ![r] = "failed"] /\ UNCHANGED <<archive, state, outdated>>
       \/ /\ Staged /\ thread' = [thread EXCEPT ![r] = "opened"]
          /\ archive' = "part" /\ state' = "downloading" /\ outdated' = (outdated \/ LeftBehind(r))
    /\ UNCHANGED <<pinned, old, unpacked, gate, pc, stop, current, stopped, quitEarly, touched>>
\* The flag is looked at before each read, and what a read brought is
\* written and told.
Reads(r) ==
    /\ thread[r] = "opened"
    /\ thread' = [thread EXCEPT ![r] = IF r \in stop THEN "failed" ELSE "read"]
    /\ UNCHANGED <<pinned, old, archive, unpacked, state, gate, pc, stop, current, stopped, outdated, quitEarly, touched>>
Brings(r) ==
    /\ thread[r] = "read"
    /\ \/ thread' = [thread EXCEPT ![r] = "failed"] /\ UNCHANGED <<archive, state, outdated>>
       \/ /\ thread' = [thread EXCEPT ![r] = "done"] /\ state' = "downloading"
          /\ archive' \in IF LeftBehind(r) THEN {archive} ELSE {"right", "wrong"}
          /\ outdated' = (outdated \/ LeftBehind(r))
    /\ UNCHANGED <<pinned, old, unpacked, gate, pc, stop, current, stopped, quitEarly, touched>>

-----------------------------------------------------------------------------
(* install: each step may fail; a stop is looked at between them.          *)

Over(r, word) ==
    /\ Goto(r, "over") /\ gate' = 0 /\ state' = word /\ archive' = "none" /\ unpacked' = "none"
Fails(r, word) == Over(r, word) /\ UNCHANGED <<pinned, old, stop, current, stopped, thread, outdated, quitEarly, touched>>
Moves(r, to, word) ==
    /\ Goto(r, to) /\ state' = word
    /\ UNCHANGED <<pinned, old, archive, unpacked, gate, stop, current, stopped, thread, outdated, quitEarly, touched>>

Fetched(r) ==
    /\ pc[r] = "fetch"
    /\ \/ thread[r] = "done" /\ Moves(r, "hash", state)
       \/ thread[r] = "failed" /\ Fails(r, IF r \in stop THEN "cancelled" ELSE "offline")
AnyHash(r) == TRUE
PinnedHash(r) == archive = "right"
Hash(r) ==
    /\ pc[r] = "hash"
    /\ IF PinnedHash(r)
       THEN IF r \in stop THEN Fails(r, "cancelled") ELSE Moves(r, "unpack", "installing")
       ELSE Fails(r, "checksum")
Unpack(r) ==
    /\ pc[r] = "unpack"
    /\ \/ Fails(r, "disk")
       \/ archive # "part" /\ r \in stop /\ Fails(r, "cancelled")
       \/ /\ archive # "part" /\ r \notin stop
          /\ Goto(r, "verify") /\ state' = "verifying" /\ unpacked' = archive
          /\ UNCHANGED <<pinned, old, archive, gate, stop, current, stopped, thread, outdated, quitEarly, touched>>
Verify(r) ==
    /\ pc[r] = "verify"
    /\ \/ Fails(r, "verify")
       \/ IF r \in stop THEN Fails(r, "cancelled") ELSE Moves(r, "clear", "verifying")
\* The broken copy goes, and one rename puts the new one in its place.
ClearsAll == pinned' = "none" /\ old' = FALSE
ClearsPinned == pinned' = "none" /\ UNCHANGED old
ClearBroken(r) ==
    /\ pc[r] = "clear" /\ Goto(r, "switch") /\ ClearsPinned
    /\ UNCHANGED <<archive, unpacked, state, gate, stop, current, stopped, thread, outdated, quitEarly, touched>>
Switch(r) ==
    /\ pc[r] = "switch"
    /\ \/ Fails(r, "disk")
       \/ /\ pinned' = IF unpacked = "right" THEN "good" ELSE "bad"
          /\ old' = FALSE
          /\ Over(r, "ready") /\ touched' = FALSE
          /\ UNCHANGED <<stop, current, stopped, thread, outdated, quitEarly>>

\* The limit of the whole: the flag goes up, the thread is left behind.
AfterFetch(r) == pc[r] \in {"hash", "unpack", "verify"}
Limited(r) == pc[r] \in {"fetch", "hash", "unpack", "verify"}
TimeLimit(r) ==
    /\ Limited(r) /\ stop' = stop \cup {r}
    /\ Over(r, "timeout")
    /\ UNCHANGED <<pinned, old, current, stopped, thread, outdated, quitEarly, touched>>

-----------------------------------------------------------------------------
(* Quitting, the end of the app, and a copy that breaks.                   *)

ForgetsRun == UNCHANGED stop
StopsRun == stop' = IF current # 0 THEN stop \cup {current} ELSE stop
Shutdown ==
    /\ ~stopped /\ stopped' = TRUE /\ StopsRun
    /\ quitEarly' = (gate # 0 /\ pc[gate] \in {"check", "start"})
    /\ UNCHANGED <<pinned, old, archive, unpacked, state, gate, pc, current, thread, outdated, touched>>
AppEnds ==
    /\ state' = "idle" /\ gate' = 0 /\ stop' = {} /\ current' = 0 /\ stopped' = FALSE
    /\ pc' = [r \in Runs |-> IF pc[r] = "none" THEN "none" ELSE "over"]
    /\ thread' = [r \in Runs |-> IF thread[r] = "none" THEN "none" ELSE "failed"]
    /\ outdated' = FALSE /\ quitEarly' = FALSE /\ touched' = FALSE
    /\ UNCHANGED <<pinned, old, archive, unpacked>>
Breaks ==
    /\ pinned = "good" /\ pinned' = "broken" /\ touched' = (state = "ready")
    /\ UNCHANGED <<old, archive, unpacked, state, gate, pc, stop, current, stopped, thread, outdated, quitEarly>>

-----------------------------------------------------------------------------

RunStep(r) ==
    \/ CheckCopy(r) \/ StartFetch(r) \/ Fetched(r) \/ Hash(r) \/ Unpack(r) \/ Verify(r) \/ ClearBroken(r) \/ Switch(r)
DriverNext ==
    \/ \E r \in Runs : Ensure(r) \/ RunStep(r) \/ Opens(r) \/ Reads(r) \/ Brings(r) \/ TimeLimit(r)
    \/ Shutdown \/ AppEnds \/ Breaks

-----------------------------------------------------------------------------
(* Properties.                                                             *)

\* Nothing but the pinned release is ever put in place, whatever the network
\* sent and whichever run's thread wrote it.
OnlyThePinned == pinned # "bad"

\* A copy of an older version stays until the new one is in place: no
\* failure, limit, quit or end of the app leaves the owner without one.
OldUntilNew == [][old /\ ~old' => pinned' = "good"]_driverVars

\* "Ready" is said of a copy that is there, by runs in any order, and only a
\* hand from outside makes it untrue until a run looks again.
ReadyIsInPlace == state = "ready" /\ ~touched => pinned = "good"

\* No run goes on once the app quits, but for one the quit found checking
\* its copy (README.md, 8).
QuitIsHeard ==
    stopped /\ ~quitEarly => \A r \in Runs : pc[r] \in {"fetch", "hash", "unpack", "verify"} => r \in stop

\* A run ends.
EnsureEnds == \A r \in Runs : (gate = r) ~> (gate # r)

-----------------------------------------------------------------------------
(* Claims of the repository that the code does not keep (README.md, 8).    *)

\* InstallState: "Where the helper stands. One of these is always current."
StateIsCurrent == state \in Busy => gate # 0

\* shutdown: "The app is quitting: stop a running install and refuse new
\* ones."
QuitStopsInstall == stopped => \A r \in Runs : pc[r] \in {"fetch", "hash", "unpack", "verify"} => r \in stop
=============================================================================
