------------------------------ MODULE Computer ------------------------------
(***************************************************************************)
(* The private computer-control daemon and the sessions that use it:       *)
(* `cua_endpoint_at`, `stop_cua`, `pause`, `cua_ensure` and `CuaSession`   *)
(* (core.rs), `handle` (mcp.rs), the copies of the driver (cua_install.rs).*)
(*                                                                         *)
(* One lock guards the daemon.  A session passes the owner's policy, waits *)
(* for the lock, replaces a daemon that is dead or out of date (the latter *)
(* only when no session is counted), starts one if there is none, and is   *)
(* counted before it lets go of the lock.  `stop_cua` holds the lock only  *)
(* to take the daemon out: stopping it, and `daemon_gone`, come after.     *)
(* The stream of a session may be aborted at any await.                    *)
(*                                                                         *)
(* `enabled` stands for every rule of `working_policy` besides the pause   *)
(* (the switch, away, the lock screen): a condition that comes and goes.   *)
(* `choice` stands for the look, the choice of apps and the half day: what *)
(* a running daemon may be out of date with.                               *)
(***************************************************************************)
EXTENDS Naturals, FiniteSets

CONSTANTS Sessions,     \* the mcp streams
          Catalog,      \* those that only read the catalog
          Owner, Installer, Nobody,
          Updated,      \* the app was updated: the pinned copy is not in place yet
          MaxChoice     \* bound: how often the owner changes the choice

ASSUME ComputerAssumption ==
    /\ IsFiniteSet(Sessions) /\ Catalog \subseteq Sessions
    /\ Owner \notin Sessions /\ Installer \notin Sessions /\ Owner # Installer
    /\ Installer # "replaced"
    /\ Nobody \notin Sessions
    /\ Updated \in BOOLEAN /\ MaxChoice \in Nat

VARIABLES
    paused, enabled, mode, choice,  \* the owner's side
    pinned, oldThere,               \* the pinned copy, the copy of the version before
    held, daemonBin,                \* CuaInstaller.held, cua_daemon_bin
    lock,                           \* who holds the lock of cua_daemon
    daemon, alive, started,         \* cua_daemon, its process, how many so far
    backoff,                        \* cua_start_backoff says wait
    count,                          \* cua_sessions
    stage, modeAt, want, mine,      \* per session
    stop,                           \* where each caller of stop_cua stands
    ensure,                         \* where cua_ensure stands
    cut,                            \* history: whose daemon went, and why
    late,                           \* history: on their way to a daemon when the pause came
    swept,                          \* history: older copies went under what uses one now
    spared                          \* history: counted when cua_ensure looked

ownerVars == <<paused, enabled, mode, choice>>
copyVars == <<pinned, oldThere, held, daemonBin>>
daemonVars == <<daemon, alive, started>>
sessionVars == <<stage, modeAt, want, mine>>
stopHistory == <<late, swept, spared>>
computerVars == <<ownerVars, copyVars, lock, daemonVars, backoff, count, sessionVars, stop, ensure, cut,
                  stopHistory>>

\* Every session starts at most one daemon.
MaxDaemons == Cardinality(Sessions)

Stoppers == Sessions \cup {Owner, Installer}
Bins == {"old", "pin"}
Daemons == [id : 1 .. MaxDaemons, choice : 0 .. MaxChoice, bin : Bins]
WantSet == [choice : 0 .. MaxChoice, bin : Bins \cup {"none"}]

ComputerTypeOK ==
    /\ paused \in BOOLEAN /\ enabled \in BOOLEAN /\ mode \in {"always", "ask"}
    /\ choice \in 0 .. MaxChoice
    /\ pinned \in BOOLEAN /\ oldThere \in BOOLEAN /\ held \in BOOLEAN
    /\ daemonBin \in Bins \cup {"none"}
    /\ lock \in Sessions \cup {Nobody}
    /\ daemon \in Daemons \cup {Nobody} /\ alive \in BOOLEAN /\ started \in 0 .. MaxDaemons
    /\ backoff \in BOOLEAN
    /\ count \in 0 .. Cardinality(Sessions)
    /\ stage \in [Sessions -> {"idle", "gated", "queued", "locked", "starting", "open",
                               "revoked", "ending", "closed"}]
    /\ modeAt \in [Sessions -> {"always", "ask"}]
    /\ want \in [Sessions -> WantSet]
    /\ mine \in [Sessions -> 0 .. MaxDaemons]
    /\ stop \in [Stoppers -> {"idle", "want", "took"}]
    /\ ensure \in {"idle", "placed", "stopping", "done"}
    /\ cut \subseteq Sessions \X {Installer, "replaced"}

HistoryTypeOK == late \subseteq Sessions /\ swept \in BOOLEAN /\ spared \subseteq Sessions

ComputerInit ==
    /\ paused = FALSE /\ enabled = TRUE /\ mode = "always" /\ choice = 0
    /\ pinned = ~Updated /\ oldThere = Updated /\ held = FALSE /\ daemonBin = "none"
    /\ lock = Nobody
    /\ daemon = Nobody /\ alive = FALSE /\ started = 0
    /\ backoff = FALSE /\ count = 0
    /\ stage = [s \in Sessions |-> "idle"]
    /\ modeAt = [s \in Sessions |-> "always"]
    /\ want = [s \in Sessions |-> [choice |-> 0, bin |-> "none"]]
    /\ mine = [s \in Sessions |-> 0]
    /\ stop = [p \in Stoppers |-> "idle"]
    /\ ensure = "idle"
    /\ cut = {} /\ late = {} /\ swept = FALSE /\ spared = {}

-----------------------------------------------------------------------------
Policy == ~paused /\ enabled

\* cua_bin_now
BinNow == IF pinned THEN "pin" ELSE IF oldThere THEN "old" ELSE "none"

\* daemon_gone: nothing runs from an older copy any more, so it may go.
DaemonGone ==
    /\ daemonBin' = "none" /\ held' = FALSE
    /\ oldThere' = (oldThere /\ ~pinned)
    /\ UNCHANGED pinned

Counted == {s \in Sessions : stage[s] \in {"open", "revoked", "ending"}}

\* Who passed the check of cua_endpoint_at and has no daemon yet.
OnTheWay == {s \in Sessions : stage[s] \in {"queued", "locked", "starting"}}

\* A start from the older copy, which is held only once it came back.
StartsOld == \E s \in Sessions : stage[s] = "starting" /\ want[s].bin = "old"
RunsOld == daemon # Nobody /\ daemon.bin = "old"

\* The sessions whose daemon goes now, by whom (the history keeps the two who
\* may not take it from them).
CutBy(why) == {s \in Counted : daemon # Nobody /\ mine[s] = daemon.id} \X {why}

-----------------------------------------------------------------------------
(* A session.                                                              *)

\* open_gate: the policy, and the mode it was opened in, hold at its end
\* (checked again after an ask).  A catalog stream has no gate and no mode.
OpenGate(s) ==
    /\ stage[s] = "idle"
    /\ s \in Catalog \/ Policy
    /\ stage' = [stage EXCEPT ![s] = "gated"]
    /\ modeAt' = IF s \in Catalog THEN modeAt ELSE [modeAt EXCEPT ![s] = mode]
    /\ UNCHANGED <<ownerVars, copyVars, lock, daemonVars, backoff, count, want, mine, stop,
                   ensure, cut, stopHistory>>

\* Mutant of Enter: the pause and the switch are not looked at again after the gate.
EntersAnyway(s) ==
    /\ stage[s] = "gated"
    /\ stage' = [stage EXCEPT ![s] = "queued"]
    /\ UNCHANGED <<ownerVars, copyVars, lock, daemonVars, backoff, count, modeAt, want, mine,
                   stop, ensure, cut, stopHistory>>

\* cua_endpoint_at checks the pause and the switch, then waits for the lock.
Enter(s) ==
    /\ stage[s] = "gated"
    /\ stage' = [stage EXCEPT ![s] = IF Policy THEN "queued" ELSE "closed"]
    /\ UNCHANGED <<ownerVars, copyVars, lock, daemonVars, backoff, count, modeAt, want, mine,
                   stop, ensure, cut, stopHistory>>

\* Mutant of MayReplace: the sessions that hold the daemon are not counted.
ReplaceAnyway == TRUE

\* A daemon is replaced only when no other session holds it.
MayReplace == count = 0

OutOfDate == daemon.choice # choice \/ daemon.bin # BinNow

\* The lock is ours: a dead daemon is discarded, one that is out of date
\* stopped (one step here: the lock is held until it is gone).
Lock(s) ==
    /\ stage[s] = "queued" /\ lock = Nobody
    /\ lock' = s
    /\ stage' = [stage EXCEPT ![s] = "locked"]
    /\ want' = [want EXCEPT ![s] = [choice |-> choice, bin |-> BinNow]]
    /\ \/ /\ daemon # Nobody /\ alive /\ MayReplace /\ OutOfDate
          /\ daemon' = Nobody /\ alive' = FALSE
          /\ cut' = cut \cup CutBy("replaced")
          /\ DaemonGone /\ swept' = FALSE
       \/ /\ daemon # Nobody /\ ~alive
          /\ daemon' = Nobody /\ UNCHANGED <<alive, cut>>
          /\ DaemonGone /\ swept' = FALSE
       \/ /\ daemon = Nobody \/ (alive /\ ~(MayReplace /\ OutOfDate))
          /\ UNCHANGED <<copyVars, daemon, alive, cut, swept>>
    /\ UNCHANGED <<ownerVars, started, backoff, count, modeAt, mine, stop, ensure, late, spared>>

\* The session is counted while the lock is still held; what it wanted of a
\* daemon is forgotten.
Opened(s, id) ==
    /\ count' = count + 1
    /\ lock' = Nobody
    /\ stage' = [stage EXCEPT ![s] = "open"]
    /\ mine' = [mine EXCEPT ![s] = id]
    /\ want' = [want EXCEPT ![s] = [choice |-> 0, bin |-> "none"]]

Reuse(s) ==
    /\ stage[s] = "locked" /\ daemon # Nobody
    /\ Opened(s, daemon.id)
    /\ UNCHANGED <<ownerVars, copyVars, daemonVars, backoff, modeAt, stop, ensure, cut,
                   stopHistory>>

\* The binary that was chosen is still a file.
BinIsFile(s) == (want[s].bin = "pin" /\ pinned) \/ (want[s].bin = "old" /\ oldThere)

\* Not installed, or too soon after a failed start.
StartRefused(s) ==
    /\ stage[s] = "locked" /\ daemon = Nobody
    /\ ~BinIsFile(s) \/ backoff
    /\ lock' = Nobody
    /\ stage' = [stage EXCEPT ![s] = "closed"]
    /\ UNCHANGED <<ownerVars, copyVars, daemonVars, backoff, count, modeAt, want, mine, stop,
                   ensure, cut, stopHistory>>

StartBegins(s) ==
    /\ stage[s] = "locked" /\ daemon = Nobody
    /\ BinIsFile(s) /\ ~backoff
    /\ started' = started + 1
    /\ stage' = [stage EXCEPT ![s] = "starting"]
    /\ UNCHANGED <<ownerVars, copyVars, lock, daemon, alive, backoff, count, modeAt, want,
                   mine, stop, ensure, cut, stopHistory>>

\* It listens: an old copy is held from now on.
StartEnds(s) ==
    /\ stage[s] = "starting"
    /\ daemon' = [id |-> started, choice |-> want[s].choice, bin |-> want[s].bin]
    /\ alive' = TRUE
    /\ backoff' = FALSE
    /\ held' = (held \/ want[s].bin = "old")
    /\ daemonBin' = want[s].bin
    /\ Opened(s, started)
    /\ UNCHANGED <<ownerVars, pinned, oldThere, started, modeAt, stop, ensure, cut,
                   stopHistory>>

StartFails(s) ==
    /\ stage[s] = "starting"
    /\ backoff' = TRUE
    /\ lock' = Nobody
    /\ stage' = [stage EXCEPT ![s] = "closed"]
    /\ UNCHANGED <<ownerVars, copyVars, daemonVars, count, modeAt, want, mine, stop, ensure, cut,
                   stopHistory>>

\* The synth, the driver, a change between two tasks or the revocation ended
\* the session, and its proxy is gone.
Close(s) ==
    /\ stage[s] \in {"open", "ending"}
    /\ stage' = [stage EXCEPT ![s] = "closed"]
    /\ count' = count - 1
    /\ UNCHANGED <<ownerVars, copyVars, lock, daemonVars, backoff, modeAt, want, mine, stop,
                   ensure, cut, stopHistory>>

\* Mutant of Revoked: only the pause ends a session.
RevokedByPause(s) == paused

\* The policy no longer holds, or the mode is another one.
Revoked(s) == ~Policy \/ mode # modeAt[s]

\* watch_session, or the check right before a call is forwarded.
WatchEnds(s) ==
    /\ stage[s] = "open" /\ s \notin Catalog
    /\ Revoked(s)
    /\ stage' = [stage EXCEPT ![s] = "revoked"]
    /\ stop' = [stop EXCEPT ![s] = "want"]
    /\ UNCHANGED <<ownerVars, copyVars, lock, daemonVars, backoff, count, modeAt, want, mine,
                   ensure, cut, stopHistory>>

\* Mutant of Unlocked: a stream that is aborted keeps the lock.
StaysLocked(s) == lock

\* Dropping the future drops the guard.
Unlocked(s) == IF lock = s THEN Nobody ELSE lock

\* Mutant of LetGo: only a session that ends by itself is counted out.
HoldsOn(s) == count

\* Mutant of LetGo: a stream that was never counted is counted out too.
CountsOutAnyway(s) == count - 1

\* CuaSession::drop
LetGo(s) == IF s \in Counted THEN count - 1 ELSE count

\* The stream is aborted (a pause, a dropped link): a daemon being started
\* or stopped by it is killed with its handle.
Abort(s) ==
    /\ stage[s] \in {"gated", "queued", "locked", "starting", "open", "revoked", "ending"}
    /\ stage' = [stage EXCEPT ![s] = "closed"]
    /\ stop' = [stop EXCEPT ![s] = "idle"]
    /\ lock' = Unlocked(s)
    /\ count' = LetGo(s)
    /\ UNCHANGED <<ownerVars, copyVars, daemonVars, backoff, modeAt, want, mine, ensure, cut,
                   stopHistory>>

-----------------------------------------------------------------------------
(* stop_cua: the daemon is taken out under the lock and stopped outside.   *)

StopTakes(p) ==
    /\ stop[p] = "want" /\ lock = Nobody
    /\ daemon' = Nobody /\ alive' = FALSE
    /\ cut' = IF p = Installer THEN cut \cup CutBy(p) ELSE cut
    /\ stop' = [stop EXCEPT ![p] = "took"]
    /\ swept' = FALSE
    /\ UNCHANGED <<ownerVars, copyVars, lock, started, backoff, count, sessionVars, ensure,
                   late, spared>>

StopEnds(p) ==
    /\ stop[p] = "took"
    /\ DaemonGone
    /\ stop' = [stop EXCEPT ![p] = "idle"]
    /\ stage' = [s \in Sessions |-> IF s = p THEN "ending" ELSE stage[s]]
    /\ ensure' = IF p = Installer THEN "done" ELSE ensure
    /\ swept' = (swept \/ StartsOld \/ RunsOld)
    /\ UNCHANGED <<ownerVars, lock, daemonVars, backoff, count, modeAt, want, mine, cut,
                   late, spared>>

\* Core::pause.  The streams are aborted after it (Abort).
Pause ==
    /\ ~paused /\ stop[Owner] = "idle"
    /\ paused' = TRUE
    /\ late' = OnTheWay
    /\ stop' = [stop EXCEPT ![Owner] = "want"]
    /\ UNCHANGED <<enabled, mode, choice, copyVars, lock, daemonVars, backoff, count,
                   sessionVars, ensure, cut, swept, spared>>

Resume ==
    /\ paused /\ stop[Owner] = "idle"
    /\ paused' = FALSE /\ late' = {}
    /\ UNCHANGED <<enabled, mode, choice, copyVars, lock, daemonVars, backoff, count,
                   sessionVars, stop, ensure, cut, swept, spared>>

\* mutate_settings, as far as computer control reads them.
ChangeSettings ==
    /\ \/ enabled' = ~enabled /\ UNCHANGED <<mode, choice>>
       \/ mode' \in {"always", "ask"} \ {mode} /\ UNCHANGED <<enabled, choice>>
       \/ choice < MaxChoice /\ choice' = choice + 1 /\ UNCHANGED <<enabled, mode>>
    /\ UNCHANGED <<paused, copyVars, lock, daemonVars, backoff, count, sessionVars, stop,
                   ensure, cut, stopHistory>>

\* cua_ensure: the pinned copy goes in place, older copies that are not held
\* go; then our daemon is stopped if no session holds it.
Install ==
    /\ ensure = "idle" /\ ~pinned
    /\ pinned' = TRUE
    /\ oldThere' = (oldThere /\ held)
    /\ swept' = (swept \/ StartsOld)
    /\ ensure' = "placed"
    /\ UNCHANGED <<ownerVars, held, daemonBin, lock, daemonVars, backoff, count, sessionVars,
                   stop, cut, late, spared>>

EnsureChecks ==
    /\ ensure = "placed"
    /\ \/ count = 0 /\ ensure' = "stopping" /\ stop' = [stop EXCEPT ![Installer] = "want"]
       \/ count # 0 /\ ensure' = "done" /\ UNCHANGED stop
    /\ spared' = Counted
    /\ UNCHANGED <<ownerVars, copyVars, lock, daemonVars, backoff, count, sessionVars, cut,
                   late, swept>>

\* The daemon dies by itself; the wait after a failed start is over.
DaemonDies ==
    /\ daemon # Nobody /\ alive
    /\ alive' = FALSE
    /\ UNCHANGED <<ownerVars, copyVars, lock, daemon, started, backoff, count, sessionVars,
                   stop, ensure, cut, stopHistory>>

BackoffEnds ==
    /\ backoff
    /\ backoff' = FALSE
    /\ UNCHANGED <<ownerVars, copyVars, lock, daemonVars, count, sessionVars, stop, ensure, cut,
                   stopHistory>>

-----------------------------------------------------------------------------
ComputerNext ==
    \/ \E s \in Sessions :
          \/ OpenGate(s) \/ Enter(s) \/ Lock(s) \/ Reuse(s) \/ StartRefused(s)
          \/ StartBegins(s) \/ StartEnds(s) \/ StartFails(s)
          \/ Close(s) \/ WatchEnds(s) \/ Abort(s)
    \/ \E p \in Stoppers : StopTakes(p) \/ StopEnds(p)
    \/ Pause \/ Resume \/ ChangeSettings
    \/ Install \/ EnsureChecks \/ DaemonDies \/ BackoffEnds

ComputerSpec == ComputerInit /\ [][ComputerNext]_computerVars

\* A task that can go on is polled, the 250 ms tick comes, a start is bounded
\* (DAEMON_READY_TIMEOUT), so is the wait for the proxy (2 s), and the lock is
\* first come, first served.
Start(s) == Reuse(s) \/ StartRefused(s) \/ StartBegins(s) \/ StartEnds(s) \/ StartFails(s)

ComputerFairness ==
    \A s \in Sessions : /\ SF_computerVars(Lock(s)) /\ WF_computerVars(Start(s)) /\ WF_computerVars(WatchEnds(s))
                        /\ SF_computerVars(StopTakes(s)) /\ WF_computerVars(StopEnds(s))
                        /\ WF_computerVars(Close(s) /\ stage[s] = "ending")

ComputerFairSpec == ComputerSpec /\ ComputerFairness

-----------------------------------------------------------------------------
(* Properties.                                                             *)

\* cua_sessions is the number of sessions that hold the daemon, whichever
\* way each of them ended.
CountIsRight == count = Cardinality(Counted)

\* A daemon is never replaced under a session that holds it: a new look or a
\* new choice of apps waits until the last one ended.
NotReplacedUnderSession == \A s \in Sessions : <<s, "replaced">> \notin cut

\* Once a pause took the daemon out, one runs only for a session that had passed its
\* check before the pause, waited for the lock or the start meanwhile, and was not
\* aborted yet when it came to it (cua_endpoint_at, pause).
PauseStopsDaemon ==
    paused /\ stop[Owner] # "want" /\ daemon # Nobody => \E s \in late : mine[s] = daemon.id

\* A daemon runs from the older copy only while that is there, where neither an
\* install fell into its start nor the end of an earlier stop into its start or its
\* run (cua_install.rs, hold, release_old).
OldCopyIsHeld == RunsOld /\ ~swept => oldThere

\* What was counted when cua_ensure looked keeps its daemon for good: a session loses
\* it to the installer only when it opened after that look (cua_ensure).
LookSparesSessions == \A s \in spared : <<s, Installer>> \notin cut

\* A session the policy no longer allows ends, although it has to stop the
\* daemon behind whoever holds the lock.
RevokedSessionEnds ==
    \A s \in Sessions \ Catalog :
        (stage[s] = "open" /\ ~Policy) ~> (stage[s] = "closed" \/ Policy)

\* Nobody waits for the lock for ever, though its holder may be aborted at
\* any await.
LockComes == \A s \in Sessions : stage[s] = "queued" ~> stage[s] # "queued"

\* No session hangs: neither at the lock nor behind the driver it has to stop.
SessionsEnd == RevokedSessionEnds /\ LockComes

-----------------------------------------------------------------------------
(* Claims of the repository that the code does not keep (README.md, 8).    *)

\* README of connect-core, pause(): "stops our Cua daemon".  Once the pause is
\* done and no session is under way, no daemon of ours runs.
PausedMeansStopped ==
    (/\ paused /\ \A p \in Stoppers : stop[p] = "idle"
     /\ \A s \in Sessions : stage[s] \in {"idle", "closed"}) => daemon = Nobody

\* core.rs, cua_endpoint_at: "A copy of the version before stays on disk for as
\* long as this daemon runs from it."
OldCopyStays == (daemon # Nobody /\ alive /\ daemon.bin = "old") => oldThere

\* core.rs, cua_ensure: "A daemon that runs from the copy of the version before
\* is left alone while a session holds it".
EnsureSparesSessions == \A s \in Sessions : <<s, Installer>> \notin cut
=============================================================================
