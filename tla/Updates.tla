------------------------------ MODULE Updates ------------------------------
(***************************************************************************)
(* The app updates itself (app/src-tauri/src/updates.rs): a feed is asked, *)
(* an update is downloaded and put in place at a quiet moment, by the      *)
(* owner's button, or when the owner quits.                                *)
(*                                                                         *)
(* The loop, the owner's commands and the quit are tasks of their own that *)
(* take turns at a gate; what they read before it may be old after it.     *)
(* Work, the pause and the switch change at any point, the app may end at  *)
(* any point.                                                              *)
(***************************************************************************)
EXTENDS Naturals

CONSTANT
    Newest          \* bound: the newest version the feed will have

ASSUME NewestAssumption == Newest \in Nat

UpdateTasks == {"loop", "owner", "quit"}

VARIABLES
    version,        \* the version in place
    bundle, backup, \* the app on disk is whole; there is a safety copy of this install
    feed,           \* the version the feed offers (0: none)
    phase, announced, downloaded,   \* Updates
    nextCheck,      \* due, soon (a retry) or far
    auto,           \* the switch
    job,            \* each task: [at, by, then, before, was]
    gateOf,         \* who holds the gate ("free")
    paused, ownPause,   \* the core's pause; the owner's, in the prefs
    inFlight,       \* the synth has work open, or an approval waits
    away,           \* the owner is away, or never opened the window of this start
    appOn,          \* on, off, or back: leaving with a relaunch scheduled
    lost,           \* history: both ways back failed, or the app or the thread ended between
    midway          \* history: the owner paused during an install

updateVars == <<version, bundle, backup, feed, phase, announced, downloaded, nextCheck, auto, job, gateOf,
                paused, ownPause, inFlight, away, appOn, lost, midway>>

NoJob == [at |-> "none", by |-> FALSE, then |-> "none", before |-> "none", was |-> FALSE]
Phases == {"idle", "checking", "available", "downloading", "ready", "applying", "failed"}

UpdatesTypeOK ==
    /\ version \in 0 .. Newest /\ bundle \in BOOLEAN /\ backup \in BOOLEAN /\ feed \in 0 .. Newest
    /\ phase \in Phases /\ announced \in 0 .. Newest /\ downloaded \in 0 .. Newest
    /\ nextCheck \in {"due", "soon", "far"} /\ auto \in BOOLEAN
    /\ job \in [UpdateTasks ->
         [at : {"none", "check", "ask", "look", "download", "fetch", "apply", "taken", "pause", "copy", "replace", "putBack",
                "failed", "leave"},
          by : BOOLEAN, then : {"none", "look", "apply"}, before : Phases \cup {"none"}, was : BOOLEAN]]
    /\ gateOf \in UpdateTasks \cup {"free"}
    /\ paused \in BOOLEAN /\ ownPause \in BOOLEAN /\ inFlight \in BOOLEAN /\ away \in BOOLEAN
    /\ appOn \in {"on", "off", "back"} /\ lost \in BOOLEAN /\ midway \in BOOLEAN

UpdatesInit ==
    /\ version = 0 /\ bundle = TRUE /\ backup = FALSE /\ feed = 0
    /\ phase = "idle" /\ announced = 0 /\ downloaded = 0 /\ nextCheck = "due" /\ auto = TRUE
    /\ job = [t \in UpdateTasks |-> NoJob] /\ gateOf = "free"
    /\ paused = FALSE /\ ownPause = FALSE /\ inFlight = FALSE /\ away = FALSE
    /\ appOn = "on" /\ lost = FALSE /\ midway = FALSE

onDisk == <<version, bundle, backup, lost>>
world == <<feed, auto, ownPause, away, appOn>>
At(t, place) == appOn = "on" /\ job[t].at = place
Puts(t, place) == job' = [job EXCEPT ![t].at = place]
Ends(t) ==      \* a quit goes on to leave
    /\ gateOf' = "free"
    /\ job' = [job EXCEPT ![t] = IF t = "quit" THEN [NoJob EXCEPT !.at = "leave"] ELSE NoJob]
Begins(t, place, by, then) ==
    job' = [job EXCEPT ![t] = [NoJob EXCEPT !.at = place, !.by = by, !.then = then]]
\* What a task goes on with once a call under the gate is over.
GoesOn(t) ==
    /\ gateOf' = "free"
    /\ job' = [job EXCEPT ![t] = IF @.then = "none" THEN NoJob
                                    ELSE [@ EXCEPT !.at = job[t].then, !.then = "none", !.before = "none"]]

-----------------------------------------------------------------------------
(* check.                                                                  *)

Shown == phase \notin {"ready", "downloading", "applying"}
StartCheck(t) ==
    /\ At(t, "check") /\ gateOf = "free" /\ gateOf' = t
    /\ nextCheck' = "far"
    /\ job' = [job EXCEPT ![t].at = "ask", ![t].before = IF Shown THEN phase ELSE "none"]
    /\ phase' = IF Shown THEN "checking" ELSE phase
    /\ UNCHANGED <<onDisk, world, announced, downloaded, paused, inFlight, midway>>

\* No answer: shown to an owner who asked, else the phase is put back.
LeavesIt(t) == UNCHANGED phase
PutsBack(t) ==
    phase' = IF job[t].before = "none" THEN phase ELSE IF job[t].before = "checking" THEN "idle" ELSE job[t].before
CheckFails(t) ==
    /\ At(t, "ask") /\ GoesOn(t)
    /\ IF job[t].by THEN phase' = "failed" ELSE PutsBack(t)
    /\ UNCHANGED <<onDisk, world, announced, downloaded, nextCheck, paused, inFlight, midway>>
\* Nothing newer; what was downloaded already; or a newer one.
KeepsOld == UNCHANGED downloaded
DropsOld == downloaded' = 0
CheckAnswers(t) ==
    /\ At(t, "ask") /\ GoesOn(t)
    /\ CASE feed <= version -> announced' = 0 /\ DropsOld /\ phase' = "idle"
         [] feed > version /\ downloaded = feed -> UNCHANGED <<announced, downloaded, phase>>
         [] OTHER -> announced' = feed /\ DropsOld /\ phase' = "available"
    /\ UNCHANGED <<onDisk, world, nextCheck, paused, inFlight, midway>>

-----------------------------------------------------------------------------
(* download.                                                               *)

\* There already, nothing announced, or it starts.
StartDownload(t) ==
    /\ At(t, "download") /\ gateOf = "free"
    /\ CASE downloaded # 0 -> GoesOn(t) /\ UNCHANGED phase
         [] downloaded = 0 /\ announced = 0 -> Ends(t) /\ UNCHANGED phase
         [] OTHER -> gateOf' = t /\ Puts(t, "fetch") /\ phase' = "downloading"
    /\ UNCHANGED <<onDisk, world, announced, downloaded, nextCheck, paused, inFlight, midway>>
DownloadOver(t) ==
    /\ At(t, "fetch")
    /\ \/ /\ downloaded' = announced /\ phase' = "ready" /\ GoesOn(t) /\ UNCHANGED nextCheck
       \/ /\ nextCheck' = "soon" /\ phase' = IF job[t].by THEN "failed" ELSE "available"
          /\ Ends(t) /\ UNCHANGED downloaded
    /\ UNCHANGED <<onDisk, world, announced, paused, inFlight, midway>>

-----------------------------------------------------------------------------
(* apply, install_guarded.                                                 *)

\* The download is taken out; on its own the app looks once more.
TakeDownload(t) ==
    /\ At(t, "apply") /\ gateOf = "free"
    /\ IF downloaded = 0
       THEN Ends(t) /\ UNCHANGED downloaded
       ELSE gateOf' = t /\ Puts(t, "taken") /\ downloaded' = 0
    /\ UNCHANGED <<onDisk, world, phase, announced, nextCheck, paused, inFlight, midway>>
\* (The version taken is the one announced.)
LookAgain(t) ==
    /\ At(t, "taken")
    /\ IF t = "loop" /\ inFlight
       THEN downloaded' = announced /\ phase' = "ready" /\ Ends(t)
       ELSE Puts(t, "pause") /\ UNCHANGED <<downloaded, phase, gateOf>>
    /\ UNCHANGED <<onDisk, world, announced, nextCheck, paused, inFlight, midway>>
\* Was it paused? Then the synth's side is closed.
PauseCore(t) ==
    /\ At(t, "pause") /\ job' = [job EXCEPT ![t].at = "copy", ![t].was = paused]
    /\ IF t = "quit" THEN UNCHANGED <<paused, inFlight>> ELSE paused' = TRUE /\ inFlight' = FALSE
    /\ phase' = "applying"
    /\ UNCHANGED <<onDisk, world, announced, downloaded, nextCheck, gateOf, midway>>
\* A safety copy of the app; without one nothing is touched.
GoesWithout(t) == UNCHANGED backup
Copies(t) == backup' = TRUE
SafetyCopy(t) ==
    /\ At(t, "copy")
    /\ \/ Puts(t, "replace") /\ Copies(t)
       \/ Puts(t, "failed") /\ backup' = FALSE
    /\ UNCHANGED <<version, bundle, lost, world, phase, announced, downloaded, nextCheck, gateOf, paused, inFlight, midway>>
\* Done; failed with the old one in place; the app is not whole; or the
\* thread panics in the middle, and nobody puts the copy back (what is left
\* of it goes before the next one is made).
Replace(t) ==
    /\ At(t, "replace")
    /\ \/ version' = announced /\ bundle' = TRUE /\ backup' = FALSE /\ Puts(t, "leave") /\ UNCHANGED lost
       \/ bundle /\ backup' = FALSE /\ Puts(t, "failed") /\ UNCHANGED <<version, bundle, lost>>
       \/ bundle' = FALSE /\ Puts(t, "putBack") /\ UNCHANGED <<version, backup, lost>>
       \/ /\ bundle' \in {bundle, FALSE} /\ lost' = (lost \/ ~bundle') /\ Puts(t, "failed")
          /\ backup' = FALSE /\ UNCHANGED version
    /\ UNCHANGED <<world, phase, announced, downloaded, nextCheck, gateOf, paused, inFlight, midway>>
\* The copy moves back, or is copied back; it goes either way.  (What was
\* copied after a loss need not be whole.)
PutBack(t) ==
    /\ At(t, "putBack") /\ backup' = FALSE /\ Puts(t, "failed")
    /\ \/ (bundle' = backup \/ (lost /\ bundle' = FALSE)) /\ UNCHANGED lost
       \/ lost' = TRUE /\ UNCHANGED bundle
    /\ UNCHANGED <<version, world, phase, announced, downloaded, nextCheck, gateOf, paused, inFlight, midway>>
\* The old version goes on as it was.
ResumesAny(t) == t # "quit"
ResumesOwn(t) == t # "quit" /\ ~job[t].was
InstallFailed(t) ==
    /\ At(t, "failed") /\ Ends(t)
    /\ paused' = IF ResumesOwn(t) THEN FALSE ELSE paused
    /\ nextCheck' = "soon" /\ phase' = "failed"
    /\ UNCHANGED <<onDisk, world, announced, downloaded, inFlight, midway>>

-----------------------------------------------------------------------------
(* The loop.                                                               *)

Beat ==
    /\ At("loop", "none") /\ job["quit"].at = "none"
    /\ IF nextCheck = "due"
       THEN Begins("loop", "check", FALSE, "look")
       ELSE auto /\ phase \in {"available", "ready"} /\ Begins("loop", "look", FALSE, "none")
    /\ UNCHANGED <<onDisk, world, phase, announced, downloaded, nextCheck, gateOf, paused, inFlight, midway>>
QuietMoment == ~inFlight /\ away
LoopLooks ==
    /\ At("loop", "look")
    /\ CASE auto /\ phase = "available" /\ nextCheck = "far" -> Puts("loop", "download")
         [] auto /\ phase = "ready" /\ QuietMoment -> Puts("loop", "apply")
         [] OTHER -> job' = [job EXCEPT !["loop"] = NoJob]
    /\ UNCHANGED <<onDisk, world, phase, announced, downloaded, nextCheck, gateOf, paused, inFlight, midway>>

-----------------------------------------------------------------------------
(* The owner: "Check now", the switch, "Install and restart", pause, quit. *)

memory == <<phase, announced, downloaded, nextCheck, gateOf>>
ownerRest == <<onDisk, feed, away, appOn, memory>>
OwnerFree == At("owner", "none") /\ job["quit"].at = "none"
CheckNow ==
    /\ OwnerFree /\ Begins("owner", "check", TRUE, "look")
    /\ UNCHANGED <<ownerRest, auto, ownPause, paused, inFlight, midway>>
\* What was found is fetched (check_by_owner, fetch_if_wanted).
OwnerLooks ==
    /\ At("owner", "look")
    /\ IF auto /\ phase = "available" THEN Puts("owner", "download") ELSE job' = [job EXCEPT !["owner"] = NoJob]
    /\ UNCHANGED <<ownerRest, auto, ownPause, paused, inFlight, midway>>
SetAuto ==
    /\ OwnerFree /\ auto' = ~auto
    /\ CASE auto -> UNCHANGED job
         [] ~auto /\ phase \in {"available", "ready"} -> Begins("owner", "look", FALSE, "none")
         [] OTHER -> Begins("owner", "check", FALSE, "look")
    /\ UNCHANGED <<ownerRest, ownPause, paused, inFlight, midway>>
InstallNow ==
    /\ OwnerFree
    /\ IF downloaded # 0 THEN Begins("owner", "apply", TRUE, "none") ELSE Begins("owner", "download", TRUE, "apply")
    /\ UNCHANGED <<ownerRest, auto, ownPause, paused, inFlight, midway>>
PauseByOwner ==
    /\ appOn = "on" /\ job["quit"].at = "none" /\ ~ownPause
    /\ ownPause' = TRUE /\ paused' = TRUE /\ inFlight' = FALSE
    /\ midway' = (midway \/ \E t \in UpdateTasks : job[t].at \in {"copy", "replace", "putBack", "failed"})
    /\ UNCHANGED <<ownerRest, auto, job>>
ResumeByOwner ==
    /\ appOn = "on" /\ job["quit"].at = "none" /\ ownPause
    /\ ownPause' = FALSE /\ paused' = FALSE /\ midway' = FALSE
    /\ UNCHANGED <<ownerRest, auto, job, inFlight>>
\* Everything is stopped, then the moment is used.
Quit ==
    /\ appOn = "on" /\ job["quit"].at = "none"
    /\ paused' = TRUE /\ inFlight' = FALSE
    /\ Begins("quit", IF auto /\ downloaded # 0 THEN "apply" ELSE "leave", FALSE, "none")
    /\ UNCHANGED <<ownerRest, auto, ownPause, midway>>

-----------------------------------------------------------------------------
(* Leaving, ending, starting; the feed, the time, work and the owner.      *)

\* What is in memory goes with the process.
Gone(back) ==
    /\ appOn' = back /\ lost' = (lost \/ ~bundle)
    /\ phase' = "idle" /\ announced' = 0 /\ downloaded' = 0 /\ nextCheck' = "soon" /\ gateOf' = "free"
    /\ job' = [t \in UpdateTasks |-> NoJob] /\ paused' = ownPause /\ inFlight' = FALSE /\ midway' = FALSE
    /\ UNCHANGED <<version, bundle, backup, feed, auto, ownPause, away>>
\* An install by the loop or the button leaves a relaunch behind.
Leave(t) == At(t, "leave") /\ Gone(IF t = "quit" THEN "off" ELSE "back")
UpdaterEnds == appOn = "on" /\ Gone("off")
Start ==
    /\ appOn # "on" /\ bundle /\ appOn' = "on" /\ away' \in BOOLEAN
    /\ UNCHANGED <<onDisk, feed, auto, ownPause, memory, job, paused, inFlight, midway>>

TimePasses ==
    /\ appOn = "on" /\ nextCheck # "due" /\ nextCheck' = IF nextCheck = "far" THEN "soon" ELSE "due"
    /\ UNCHANGED <<onDisk, world, phase, announced, downloaded, gateOf, job, paused, inFlight, midway>>
FeedChanges ==
    /\ appOn = "on"
    /\ \/ feed < Newest /\ feed' \in {f \in 1 .. Newest : f > feed /\ f > version}
       \/ feed > version /\ feed' = 0
    /\ UNCHANGED <<onDisk, auto, ownPause, away, appOn, memory, job, paused, inFlight, midway>>
WorkChanges ==
    /\ appOn = "on" /\ IF inFlight THEN inFlight' = FALSE ELSE ~paused /\ inFlight' = TRUE
    /\ UNCHANGED <<onDisk, world, memory, job, paused, midway>>
OwnerMoves ==
    /\ appOn = "on"
    /\ away' = ~away
    /\ UNCHANGED <<onDisk, feed, auto, ownPause, appOn, memory, job, paused, inFlight, midway>>

-----------------------------------------------------------------------------

UnderGate(t) ==
    \/ StartCheck(t) \/ CheckFails(t) \/ CheckAnswers(t) \/ StartDownload(t) \/ DownloadOver(t)
    \/ TakeDownload(t) \/ LookAgain(t) \/ PauseCore(t) \/ SafetyCopy(t) \/ Replace(t) \/ PutBack(t)
    \/ InstallFailed(t) \/ Leave(t)
UpdatesNext ==
    \/ Beat \/ LoopLooks \/ OwnerLooks \/ \E t \in UpdateTasks : UnderGate(t)
    \/ CheckNow \/ SetAuto \/ InstallNow \/ PauseByOwner \/ ResumeByOwner \/ Quit
    \/ UpdaterEnds \/ Start \/ TimePasses \/ FeedChanges \/ WorkChanges \/ OwnerMoves

-----------------------------------------------------------------------------
(* Properties.                                                             *)

\* What the UI is told is so once no task holds the gate: "ready" of an
\* update that is there, no step going on; only a downloaded update leaves
\* "checking" behind (README.md, 8).
PhaseIsTrue ==
    gateOf = "free" =>
        /\ phase \notin {"downloading", "applying"}
        /\ phase \in {"ready", "checking"} => downloaded # 0

\* What waits to be put in place is what the feed offered last, and newer
\* than what runs.
OfferedOnly == downloaded # 0 => downloaded = announced /\ downloaded > version

\* The app is whole once a task is done with it, also when the install
\* failed half way, unless both ways back failed or the app or the install's
\* thread ended first.
BundleWhole == gateOf = "free" /\ ~lost => bundle

\* The owner's pause outlives an install that failed, unless it came during
\* the install (README.md, 8).
PauseStays == appOn = "on" /\ ownPause /\ ~midway => paused

-----------------------------------------------------------------------------
(* Claims of the repository that the code does not keep (README.md, 8).    *)

\* "Put the downloaded update in place": it is applied at a quiet moment;
\* the phase says so.
NeverStuckChecking == gateOf = "free" => phase # "checking"

\* "On its own the app never cuts work short."
NeverCutsShort == [][At("loop", "pause") /\ job'["loop"].at = "copy" => ~inFlight]_updateVars

\* "if it was paused already it stays paused": "only the owner's own pause
\* survives a relaunch".
PauseAlwaysStays == appOn = "on" /\ ownPause => paused

\* "the copy is put back if the app is not whole afterwards".
CopyUntilWhole == [][backup /\ ~backup' => bundle']_updateVars

\* apply_at_quit: "Never restarts the app."
QuitStaysOff == [][appOn = "on" /\ job["quit"].at # "none" => appOn' # "back"]_updateVars
=============================================================================
