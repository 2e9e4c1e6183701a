# TLA+ models of snth-companion

The companion is a desktop app that links its owner's computer to one or more
*synths* (remote agents). Over one websocket per synth it opens streams by which
the synth runs commands, reads and writes files, uses the network, the browsers,
the owner's apps and the screen, each within what the owner allows. This directory
models the parts of it whose correctness depends on the order in which tasks,
threads, timers, the owner, the synth, the disk and the platform take their steps.

Paths below are relative to the repository; files without a directory are in
`crates/connect-core/src`; `commands.rs`, `approvals.rs`, `actions.rs`,
`updates.rs`, `prefs.rs` and `island/...` are in `app/src-tauri/src`.

1. Running the checks
2. The system: inventory
3. The modules and the code they model
4. The runs, their bounds, and what they show
5. Fairness
6. What is proved
7. Abstractions, and what is not modelled
8. What the code does not keep
9. Plan

## 1. Running the checks

    tlc -workers 2 -config MCRequests.cfg MCRequests     # a run
    tlapm ControlProofs.tla                              # the proofs of a module

`PROJECT.json` lists the runs, the lines of source each definition stands for, a
mutant (a plausible bug) for each property that is checked, the hazards, and the
theorems. A run takes up to about three minutes with two workers, a proof
module up to about two and a half minutes from nothing.

Components that share no state are checked in one run: the MC module extends their
modules, a variable `kind` is chosen at the start and says whose steps are taken,
and the other variables rest, so the states of the components add up and do not
multiply.

## 2. The system: inventory

Rust workspace: `connect-core` (all the logic), `app/src-tauri` (window, tray,
approval queue, island, updates), `connectd` (a command line on the same core),
`connect-host` (the browser's native messaging host); a React front end in
`app/src`; and an older companion in Go (`cmd`, `internal`), which shares no state
with the app.

`Core` holds an `Arc<Shared>` of small mutexes: the settings and pairings
(`persisted`), the grants, the list of slots (`links`), the lease, the daemon. No
lock is held across another operation, most handlers await between two locks, and
streams are tokio tasks that may be aborted at any await. This is where the code
is hard.

| Component | State | Operations | What is hard | Correct when | Modules |
|---|---|---|---|---|---|
| Requests to the synth (`requests.rs`) | queue, generation, `pending` | attach, detach, hello_ack, resolve, call_within | timer, answer and end of a stream race for one entry; the next stream attaches before the last has detached | no entry outlives its call; an old stream's end fails nobody else's call; every call returns | `Requests`, `Promise` |
| Settings announcements (`core.rs`, `link.rs`) | settings, revision, watch channel | change, announce, hello, push | reads of one message at three moments | a message is not staler than it says; a change arrives | `SettingsPush` |
| Settings, presets, onboarding (`settings.rs`, `commands.rs`, `prefs.rs`) | settings and preferences, in memory and in two files | the first link and the last, presets, the page, developer mode, pause | commands are several writes; the app ends between two; three threads give commands | nothing runs before it is chosen; a pause lasts; a switch is the owner's | `Policy` |
| Approvals and grants (`core.rs`, `grant.rs`, `approvals.rs`) | grants in memory and on disk, the queue | ask, answer, two timers, record, persist, revoke, pause, unlink, restart | the task that records outlives the stream and the link; the list is read and written under two locks | a grant is the owner's word; no answer is a refusal | `Approvals` |
| Driver daemon and sessions (`core.rs`, `mcp.rs`, `cua.rs`) | the daemon, its lock, the count of sessions, two copies of the driver | open, start, replace, stop, pause, resume, install, watch, abort | waits behind one lock; aborts while holding it; values read before the wait | the count is right; nobody's daemon is replaced; a revoked session ends | `Computer` |
| One synth drives (`core.rs`, `mcp.rs`) | the lease | check, take, release | the check is stale after the gate's waits | two synths' actions are `LEASE_QUIET` apart | `Lease` |
| Which app a call may touch (`cua_apps.rs`, `mcp.rs`) | lists of apps and windows, and their age | resolve, decide, ask, forward, refresh | pids and window ids are handed on; the owner answers late | an excluded app is not touched; a call is forwarded only as the policy says | `Directory`, `Lister` |
| The owner's apps (`apps/`) | grants, quota, journal | one call | the stream ends while a tool works; settings change during a question | what is done was allowed, is told as it was, and ends with its call | `OwnApps` |
| Links (`link.rs`, `core.rs`, `slot.rs`), account (`account.rs`) | token, stored pairing, slots, one loop per slot, skipped list | pair, reconnect, unpair, dial, refuse, sync, remint | the wipe of an unlink races the loop, a pairing and the platform's answer | a refused token is not dialed again; a new one is; a stopped loop ends | `Links` |
| Sign-in (`account.rs`) | login, token, account, consent | open, return, exchange, sync, sign out | completions cross cancels, syncs, sign-outs and the app's end | it is the owner's sign-in; links only after a confirmation | `SignIn` |
| Tokens across an update (`core.rs`) | secret store keys, settings file | move at a start, pair, unlink | a crash between any two writes; refused writes | the token is never lost | `TokenMove` |
| Command line (`shell.rs`) | the process group of each call, the stop signal | exec, stop_all, kill | timeout, stop, pause and abort of one command | nothing outlives the task | `Shell`, `Pause` |
| Network streams (`tcp.rs`, `core.rs`) | the month's byte count | open, pump, flush | counted at the end of a stream; flushes overlap | a crash loses less than a flush | `Traffic`, `Pause` |
| Files (`rpc.rs`, `files.rs`) | the sizes of transfers under way | write, append | compare-then-open of an append; one question for all chunks | a chunk goes where it was allowed and sent for | `Transfers` |
| Browsers (`browser.rs`, `cookies.rs`) | connected extensions, links to vaults, sites | connect, pair, ask, revoke | messages of an older session; codes and answers that come late | a browser is linked by its owner; a site goes back | `Browsers` |
| Native host (`connect-host`) | the endpoint's socket file | bind, serve, dial, relay | two copies of the app; a stale file; losses in a relay | the app that serves is at the path; no message without an answer | `NativeHost` |
| Observe (`observe.rs`, `observe/`) | sources, what was sent | sample, switch, report, repeat | a report on its way after the switch, a pause or a new link | a synth holds values of its own switches; it ends up current | `Observe`, `Calls` |
| Island and voice (`island/`) | holds, recordings, messages, spoken answers | press, release, send, speak, cancel | keys, the microphone, events and playback are tasks of their own | the microphone is the owner's; what was let go arrives | `Talk`, `Answers`, `Speech` |
| The recognizer's files (`island/stt/model.rs`) | part, file, marker | download, verify, delete | resume after an end anywhere; delete during a download | what counts as there is the pinned file | `Models` |
| Installing the driver (`cua_install.rs`) | the pinned and the older copy, archive | ensure, download, verify, switch | a thread that outlives its time limit; a quit | only the pinned copy; the old one until then | `Driver` |
| Updates (`updates.rs`) | version, bundle, safety copy, phase | check, download, install, quit | loop, button and quit take turns; an end in the middle | the bundle is whole; a pause stays | `Updates` |
| Journal, secrets | a bounded list; the system's store | append; get, set, remove | refusals of the store | (inputs of `TokenMove`, `OwnApps`) | none |
| UI, `connectd` | windows | commands | thin | (front ends) | none |
| Companion daemon in Go (`internal/daemon`, ...) | websocket, tasks and their outbox, one call | connect, stop, run, post, join, leave | goroutines that outlive what they serve; posts that arrive twice | one call at a time; a task's end is reported | none (9) |

The components meet at the unlink: `wipe_slot` takes the synth's token, its
grants in memory, its slot, its stored pairing and grants, and its lease, in that
order and under different locks. Each module carries the part
of it that touches its own state, as the same sequence of steps, next to what else
may run in between. They meet at the pause as well, which `Pause` describes as a
stream sees it.

## 3. The modules and the code they model

| Module | Code | State | Actions |
|---|---|---|---|
| `Requests` | `LinkRequests`; the guard that detaches, in `link.rs` | `out`, `generation`, `supported`, `pending` are the fields of `State`; `stream`, `queued`, `oneshot`, `call` are where tasks and channels stand | `Attach`, `HelloAck`, `StreamEnds`, `Detach`, `WriterSends`, `Resolve`, `Call`, `Return`, `TimerFires`, `GiveUp` |
| `Promise` | the comments at the head of `requests.rs` | a call's place and its word | the abstract specification that `Requests` implements |
| `SettingsPush` | `mutate_settings`, the island's switch, `control_loop` | settings by revision, the watch channel, the message being put together | `Change`, `Tell`, `Connect`, `StreamStep`, `Drop` |
| `Policy` | settings and their file, `Prefs`, the commands of `commands.rs` that change both, the tray's pause, the sync's first link | settings, file, preferences, the core's pause, what each command does next | one action per write: the window's, the sync's and the tray's steps, `Restart` |
| `Approvals` | `ask_scoped`, `persist_grants`, `revoke`, `wipe_slot`, `Core::new`, `GrantStore`, the queue of `approvals.rs`, pause in `actions.rs`, disconnect in `commands.rs` | `grants`, `disk`, the links and pairings, per ask its task, answer and stream, per writer the list it has read | the ask, the answers, the task, the stream, the owner (revoke, pause, wipe, pair), `Restart`, `Tick` |
| `Computer` | `cua_session`, `cua_endpoint_at`, `stop_cua`, `daemon_gone`, `pause`, `cua_ensure`, `handle` (`mcp.rs`), the copies | the lock, the daemon and its process, the count, per session its stage and what it read | one action per stretch between two awaits, from `Enter` and `Lock` to `Abort`, `StopTakes`, `EnsureChecks` |
| `Lease` | `lease_check`, `lease_take`, `lease_release`; `filter_scoped` | `lease`, the clock, the call in each stream's gate | `Check`, `Refuse`, `Take`, `Busy`, `Done`, `Unlink`, `Link`, `Tick` |
| `Directory` | the gate of one call in `mcp.rs`, the lists and their ages in `cua_apps.rs` | the screen, the last readings, what changed hands since, the settings, the call | a call arrives, decides, asks, is forwarded and acts; the screen moves; time passes; readings |
| `Lister` | `Directory::call`, `desktop_picture`, the driver's runtime | the runtime's next id and what it owes, the answer in the pipe, the question | write, answer, skip a line, time out, restart, drop |
| `OwnApps` | `apps/mod.rs` `handle`, `apps/mac.rs` | per call its stage, question, tool and lines; grants, quota | gate, resolve, decide, answer, tool, end, abort |
| `Links` | `run_forever`, `run_one`, `add_link`, `wipe_slot`, `pair_*`, `unpair_synth`, `connect_one`, `remint`, `account_sync`, `sign_out`, the supervisor | token, stored pairing, the list of slots, per slot its flags and where its loop stands; the adds and unlinks under way | the loop (`Top` ... `Leave`), the synth, pairing, `add_link` and the unlink cut at their locks, the account |
| `SignIn` | `login_*`, `account_sync`, `account_connect`, `sign_out*` | the login that waits, per sign-in its stage, the stored token and account, who holds `busy` | one action per request or write of a completion, a sync, a sign-out; `Restart` |
| `TokenMove` | `migrate_legacy_token`, `move_bare_token`, `Core::new`, the store accesses of pairing and unlink | secret store, file, memory, where a start or an unlink stands | one per access, `Crash` |
| `Shell` | `shell.rs` `exec` and `run` | per command its stage, its process and what it started, the stop it has not seen | gate, question, spawn, the four ends, kill, abort |
| `Traffic` | `tcp.rs`, `net_allows`, `add_egress`, `flush_egress` | per stream its two directions, what it moved; count, unsaved, disk, the flushes under way | policy, dial, chunks, ends, the two halves of a flush, `NewMonth`, `Restart` |
| `Transfers` | `files_method`, `Transfers`, `files.rs` write | per call its stage and what it goes by, the file, the noted size | resolve, ask, measure, open, write, flush, drop |
| `Browsers` | `browser.rs`, `cookies.get` | the session, both queues, the extension, the stored link, the pairing and the read under way | hello, pairing, codes, answers, cookies, revocations, connect and leave |
| `NativeHost` | `connect-host` `relay`, `transport.rs`, `run_browser_door` | per app where it stands, the socket file, the helper's connection and what the browser was told | start, probe, clean, bind, quit, crash; dial, lose, pass on |
| `Observe` | `observe.rs`, the observe thread, the writer in `link.rs` | the hub, the round, per synth its link, what was sent and what is queued, what the synth knows | the thread's round, the link's task, the writer, the owner, links that come and go |
| `Calls` | `decide_call`, `CallTracker` | the microphone, the call and their ages | `Round`, `PausedRound`, `SwitchCalls` |
| `Talk` | `island/hold.rs`, `island/mod.rs`, `island/wake/mod.rs` | the hold, `early`, `running`, the wake, per hold its recording and message | keys, microphone, timer, wake, pause, message |
| `Answers` | `on_event`, `take_speech`, `island/speak.rs` | the message shown, the events on their way, per answer its checks and its thread | send, answer, event, decode, begin, show, stop |
| `Speech` | `island/stt/mod.rs`, `stream.rs`, `release.rs` | the channel, the thread, the engine, per hold its recording and its pieces | press, speak, release, load, decode, panic, revive |
| `Models` | `island/stt/model.rs` | part, file, marker, status, the thread | download, resume, verify, cancel, delete, the app ends |
| `Driver` | `cua_install.rs` | the copies, the archive, the run, its thread, the state | `ensure` step by step, `TimeLimit`, `Shutdown`, `AppEnds` |
| `Updates` | `updates.rs` | version, bundle, safety copy, phase, the gate, each task | check, download, install, quit, the app's end and start |
| `Pause` | `Core::pause`, the nudge of `control_tx`, `run_one` | the flag, the nudge | pause, resume, what the link sees |

| MC module | Sum of | Runs |
|---|---|---|
| `MCRequests` | `Requests`, `SettingsPush`, `Policy` | `requests` |
| `MCApprovals` | `Approvals` | `approvals` |
| `MCComputer` | `Computer`, `Lease`, `Directory`, `OwnApps` | `computer` |
| `MCEnds` | `TokenMove`, with instances of `Approvals` and `Computer` | `ends` |
| `MCLinks` | `Links` | `links`, `links_pair`, `links_unlink` |
| `MCStreams` | `Shell`, `Traffic`, `Transfers` | `streams` |
| `MCBrowsers` | `Browsers`, `NativeHost`, `Lister`, `SignIn` | `browsers` |
| `MCObserve` | `Observe`, `Calls` | `observe` |
| `MCVoice` | `Talk`, `Answers` | `voice` |
| `MCInstalls` | `Models`, `Driver`, `Updates`, `Speech` | `installs` |

Where two operators describe one step (`Detach` and `DetachAnyGeneration`,
`MayReplace` and `ReplaceAnyway`, ...), the second is a plausible bug of that step.
It is not part of the specification; `PROJECT.json` says which property finds it.

## 4. The runs, their bounds, and what they show

| Run | Configuration | Properties | Bounds | States |
|---|---|---|---|---|
| `requests` | `MCRequests` | `ControlTypeOK TableIsRight LateEndSpares PushNotStale PolicyIsTheOwners KeepsPromise NothingWaitsForEver` | 2 calls, `MaxPending` 1, 3 streams; 2 changing threads, 3 changes; 5 commands of the owner | 360 k |
| `approvals` | `MCApprovals` | `TypeOK OwnersWord TakenBackStaysOff NoAnswerIsRefusal` | 2 synths, 2 scopes, asks of a site and of a command, 1 tick | 2.3 M |
| `computer` | `MCComputer` | `DaemonIsTheSessions TurnsAreKept AppsAreTheOwners StopsAreRight` | 2 sessions (one only lists the tools), 1 change of settings, an update; 2 synths, 3 streams, `Quiet` 2; 2 apps, 2 pids, 1 window; 2 calls to the owner's apps | 2.7 M |
| `ends` | `MCEnds` | `TokenNotLost AsksEnd SessionsEnd` | 3 synths and any number of starts; a command asked for in two ways; 2 sessions | 46 k |
| `links` | `MCLinks` | `TypeOK AskedOnce` | 2 tokens; unlink, sync, connect, sign out; a secret store that may keep what is deleted | 5.1 M |
| `links_pair` | `MCLinksPair` | `LoopsGoOn` | 2 tokens; pair, reconnect, unlink | 240 k |
| `streams` | `MCStreams` | `NothingLeftBehind CrashLosesLittle ChunksInPlace StreamsEnd` | a command; a stream, a cap and a flush of 2 units; 2 chunks | 311 k |
| `browsers` | `MCBrowsers` | `LinksAreTheOwners HelperIsRight SignInIsOwn ToldWhatWasAsked LinkedIsConfirmed QuestionsEnd` | 2 synths, 2 connections, a queue of 3; 2 apps; 3 questions; 2 sign-ins of 2 accounts | 238 k |
| `observe` | `MCObserve` | `ReportsAreItsOwn CallIsOne ReportsStayTrue` | 1 synth, 4 changes; `Confirm` 2, `MeetMemory` 1 | 297 k |
| `voice` | `MCVoice` | `MicIsTheOwners IslandIsRight VoiceMovesOn` | 2 holds of one key and the name, to the first crossing; 2 messages with 2 events | 997 k |
| `installs` | `MCInstalls` | `WholeOrAbsent OwnerIsHeard InstallsEnd` | a file of 2 pieces, 2 tries; 2 runs of the installer; 1 newer version; 2 holds, 5 half seconds, 1 upset | 810 k |
| `links_unlink` | `MCLinksUnlink` | `UnlinkedStaysUnlinked` (violated) | see 8 | |

What they show, and why the bounds are enough:

* **requests.** Two calls and a limit of one make the limit bite and let a call
  register on a stream whose predecessor has not detached yet; with three streams
  an old end, a current stream and a next one overlap. `TableIsRight` says that the
  limit of sixteen counts only calls that wait, `LateEndSpares` is what the
  generation number is for, and `KeepsPromise` is the refinement of `Promise`. Two
  threads announce in either order; three changes let one fall before the hello, one
  during a message and one after it. Five commands are one more than it takes to
  finish onboarding, change a switch, pause and start again.
* **approvals.** Two asks of two synths are two writers of the one file next to the
  owner's revoke, an unlink in its two halves, pause, restart and expiry.
  `OwnersWord` compares every grant anywhere with what the owner said, in a history
  that no action of the code reads, and `TakenBackStaysOff` with what the owner took
  back since, up to an answer or a list that was on its way then (8). One tick separates "for ever", "this session"
  and "until then" before and after its end.
* **computer.** Two sessions are the least at which one waits for the lock while the
  other starts, replaces, is aborted or stops the daemon; the owner and the
  installer are two more callers of `stop_cua`; `StopsAreRight` is that each stops what
  it should, up to what the wait for its lock lets pass (8). Two streams of one synth and one of
  another: a call checked before, and taken after, an action of the other. `Quiet` 2
  tells "less than", "exactly" and "more than" apart. Two apps of one name, two pids
  and one window are enough for each to change hands while a call is looked at. Two
  calls to the owner's apps, of any two kinds, next to two moves of the owner.
* **ends.** What needs fairness of two modules, each with the least that shows it,
  and the move of the old token: the old synth, another one to pair meanwhile and a
  third, so that "the only stored pairing" can be true, false and true again of a
  different synth. Nothing is bounded there but the synths.
* **links.** Two tokens make a refused one and its replacement, and two slots, so that
  the loop of a removed slot and the loop of the next one overlap. The owner's deeds
  are split over two runs to stay small: with the account (`links`) and with codes
  (`links_pair`). A secret store that refuses to delete is in the first one; the second
  was run with it too, in twice the time. The theorems of 6 hold for both together and for any number of tokens.
* **streams.** A command with its group meets stop, pause, timeout and abort alone; a
  second one would only do the same. A flush of two units is reached by one stream
  and by the sum of two; the app's own flush overlaps the stream's. Two chunks are a
  first and a continuation, or two first ones at one file.
* **browsers.** Two connections let the answer of an old session arrive in a new one;
  a queue of three is one more than a pairing puts there. Two apps are the old and
  the new one of an update. Three questions: one whose time was over, one after it,
  one after the runtime came again. Two sign-ins of two accounts cross.
* **observe.** One synth, since the links' tasks share only the hub; four changes are a
  switch off and on with an exclusion and a change of the value between.
* **voice.** A second hold is what the first's late microphone can be taken for. A talk
  is followed until its first crossing: what is said of it holds up to there, and 8
  says what comes after. Two messages with their events in any
  order.
* **installs.** Two pieces: a part can be none, half and whole, right and wrong; two
  tries: a first and a last. Two runs of the installer: the one a time limit left
  behind and the next. Five half seconds hold a pause between two pieces.

Deadlock is not checked where the bounded inputs run out (calls, asks, sessions,
ticks, tokens, holds, questions).

Every property has a mutant that breaks it. Others were tried that the runs find as
well: a silent hold dropped though text came, or any preview taken for the text
(`Speech`), a quota counted before the minute ends, a remembered shortcut, a tool
detached from its call (`OwnApps`), a refusal that keeps the token (`SignIn`).

## 5. Fairness

| Specification | Assumed | Why the code gives it |
|---|---|---|
| `MCRequests!ControlSpec` | weak: `Detach`, `Return`, `GiveUp`; the stream's steps, the announcement of a change | a ready task is polled; `detach` runs in a guard's `Drop`. Nothing is assumed of the synth, the network or the writer; that calls return assumes in its own statement that timers fire. Nobody has to change a setting, and a link may stay down |
| `MCEnds!EndsSpec` | weak: the ask's task, `CoreTimesOut`; the steps of a start, the watcher, the end of a session and of a stop; strong: getting the lock | tasks are polled and the 55 s timer of `ask_scoped` fires; a start is bounded by `DAEMON_READY_TIMEOUT`, the watcher ticks every 250 ms; tokio's mutex is first come, first served, so a waiter gets it though the lock is taken and let go in between. Nothing of the owner |
| `Links!FairSpec` | weak: the supervisor, each loop, each `add_link`, each unlink | every wait of theirs ends by a timer or a notification; a synth answers the hello and an `unpair`. Nothing of the owner or of the account's commands |
| `MCStreams!Spec` | weak: a command's task, a stream's task, the second half of a pause, the link that sees the nudge | tasks are polled, timers fire, a process that gets SIGKILL is gone |
| `MCBrowsers!Spec` | weak: both ends read, the helper dials, notices a loss, passes on, an app that serves reads, a question goes on; each completion, a sync and what holds `busy`; strong: the platform's refusal is heard | tasks are not stopped, the question for a list has a time limit, a sync comes every ten minutes and the platform is reached at last |
| `MCObserve!Spec` | weak: the thread's rounds, each link's task, the writer's reports and its 15 s tick | the thread and the tasks are not stopped |
| `MCVoice!Spec` | weak: the microphone, each message, a key press that began, the wake's thread, the sync of the keys | the same; a microphone opens or fails, a message has a time limit |
| `MCInstalls!Spec` | weak: the download's thread and the start that follows its flag; a run of `ensure` and its time limit | threads go on, timers fire |

`Approvals` (as a run of its own), `Policy`, `Lease`, `Directory`, `OwnApps`,
`Updates` and `Speech` assume no fairness: what is said of them is safety.

## 6. What is proved

TLAPS proves, for every value of the constants under the named assumptions:

| Theorem | Module | States |
|---|---|---|
| `TableHoldsCallers` | `ControlProofs` | `TableIsRight`: the table holds the calls that wait, none that left, and never more than MaxPending, for any calls, streams and MaxPending. |
| `LateEndHarmless` | `ControlProofs` | `LateEndSpares`: however late an old stream ends, the newest keeps its queue and its calls, and a call is told that the link dropped only when its own stream has ended. |
| `RequestsKeepPromise` | `ControlProofs` | `KeepsPromise`: the streams, queues, generations and channels implement the abstract promise of a call (Promise.tla) under the refinement mapping: every step maps to a step of it or a stutter. |
| `PushesAreNotStale` | `ControlProofs` | `PushNotStale`: A settings message never carries capabilities older than the revision it names, for any number of threads and changes. |
| `PolicyStaysTheOwners` | `ControlProofs` | `PolicyIsTheOwners`: however often the app ends between two writes and for any number of commands: nothing of the policy runs before it is chosen, a pause outlasts a relaunch, a refused app stays refused and a switch is its owner's. |
| `ControlTypeCorrect` | `ControlProofs` | `ControlTypeOK`: type correctness of the three parts together; the version of the watch channel counts the announcements. |
| `GrantsAreTheOwners` | `OwnerProofs` | `OwnersWord`: every grant in memory, on disk or being written is one the owner gave to that synth for that scope and duration, for any synths, scopes and asks. |
| `TakenBackForGood` | `OwnerProofs` | `TakenBackStaysOff`: A grant that was revoked, or erased with its synth, comes back neither to the store nor to the disk unless the owner gives it again or an answer or a list was on its way when it was taken back. |
| `SilenceRefuses` | `OwnerProofs` | `NoAnswerIsRefusal`: A stream that asked goes on only on the owner's own yes. |
| `ApprovalsTypeCorrect` | `OwnerProofs` | `TypeOK`: type correctness, which includes that no session grant reaches the disk. |
| `MicStaysTheOwners` | `OwnerProofs` | `MicIsTheOwners`: the microphone is open for the hold that is held, only what was let go is sent, and one message at a time is, for any keys and any number of holds. |
| `IslandStaysRight` | `OwnerProofs` | `IslandIsRight`: the end of the last message is shown once it was handled, one voice sounds at a time and none over the owner but what was past its second check, for any messages and events. |
| `StagesGoOn` | `OwnerProofs` | what the island shows of a message does not go back to an earlier stage, whatever order its events come in. |
| `DaemonStaysTheSessions` | `ComputerProofs` | `DaemonIsTheSessions`: the count that keeps the driver daemon alive is the number of the sessions that hold it, however each of them ended, and the daemon is not replaced under one that is open, for any finite set of sessions; with it type correctness of the four modules. |
| `StopsStayRight` | `ComputerProofs` | `StopsAreRight`: A daemon runs during a pause only for who was on the way when the pause came, a copy that runs stays where no stop and no install fell into a start, and the installer never stops the daemon under a session it counted; for any sessions. |
| `TurnsKept` | `ComputerProofs` | `TurnsAreKept`: the last actions of two linked synths are LEASE_QUIET apart and whoever acted less than that ago holds the lease, for any synths, streams and LEASE_QUIET. |
| `AppsStayTheOwners` | `ComputerProofs` | `AppsAreTheOwners`: for any apps, processes, windows, calls and quota: a call touches an excluded app only where a pid, a window or a name was given away since a reading that was not too old, and in the owner's own apps only what they let is done, the journal tells it as it was, no tool outlives its call and no minute has more notifications than the quota. |
| `LinksTypeCorrect` | `LinksProofs` | `TypeOK`: the state of a link, its loops, its tokens and its unlinks is well formed however many tokens are minted: no slot is made without a token of its own, and an unlink always has a slot it is about. |
| `AskedOnlyOnce` | `LinksProofs` | `AskedOnce`: the platform is asked for a fresh token once per refusal until the link was up again, in any order of pairings, syncs, unlinks and sign-outs. |
| `NeverRedialed` | `LinksProofs` | A loop never dials again with a token it was refused, whatever wakes it: the safety part of LoopsGoOn. |
| `TokenKept` | `InstallsProofs` | `TokenNotLost`: whatever the secret store refuses and wherever the app dies, the old pairing's token stays in the store until the owner unlinks that synth or pairs it again. |
| `MovesAreSound` | `InstallsProofs` | what the steps of a move and of an unlink rely on holds at each of them, for any synths. |
| `PutInPlaceWhole` | `InstallsProofs` | `WholeOrAbsent`: for any files, runs, versions and holds: what counts as there is the pinned thing, whole (the recognizer's files, the driver's copy, the app's bundle), and what is sent as the text of a hold has every word of it once, in order and unbroken. |
| `OwnerStaysHeard` | `InstallsProofs` | `OwnerIsHeard`: A removal, a quit, the owner's pause and a hold with a word in it stand, and the update window tells what is so, but for the races the history variables name. |
| `OlderDriverGoesLast` | `InstallsProofs` | an older copy of the driver goes only once the pinned one is in place, whatever runs and threads are left behind: the safety part of InstallsEnd. |
| `NothingIsLeftBehind` | `StreamsProofs` | `NothingLeftBehind`: for any commands, no process of a command outlives the task that watches it, and nothing of a group that was killed is left, whatever the owner, the link and the command do in between. |
| `CrashesLoseLittle` | `StreamsProofs` | `CrashLosesLittle`: for any streams, cap and threshold, as long as flushes do not overlap the file is behind the month's count by what is unsaved, and that is less than one flush. |
| `EveryChunkInPlace` | `StreamsProofs` | `ChunksInPlace`: for any number of calls at one file, a chunk the owner was not asked for continues one they allowed, and calls that do not clash append where they were sent for. |
| `ReportsStayItsOwn` | `ObserveProofs` | `ReportsAreItsOwn`: for any synths and any number of changes, what a synth knows of this computer was switched on for it since its link came up, whatever was on its way meanwhile. |
| `CallsAreCalls` | `ObserveProofs` | `CallIsOne`: whatever the two times are, a messenger's call is a microphone it has had for long enough, and no call is older than the microphone. |
| `BrowsersLinked` | `BrowsersProofs` | `LinksAreTheOwners`: every variable of the four parts has its type, and a browser counts as linked only where the owner confirmed it, with the vault it is linked to, over any number of reconnections, sites taken back and late answers. |
| `HelperServed` | `BrowsersProofs` | `HelperIsRight`: where apps start one after the other, the one that serves is at the path, for any number of apps and tries; and the browser is told of the connection it has. |
| `ListsAnswered` | `BrowsersProofs` | `ToldWhatWasAsked`: who asked the driver for a list is told that list and none older than the question, over torn lines, restarts of the runtime and answers that come after the time was over. |
| `SignedInByOwner` | `BrowsersProofs` | `SignInIsOwn`: the token in the store is of a sign-in that came back with the state that waited; and where nothing crossed the two writes of a sign-in, token and account are of one account, of which no more is allowed than the owner confirmed, over syncs, sign-outs, other sign-ins and ends of the app. |
| `AccountsLinked` | `BrowsersProofs` | `LinkedIsConfirmed`: where nothing crossed the steps that keep a sign-in, a sync links only synths of an account the owner confirmed since the last sign-out. |

Assumptions: the bounds are natural numbers, the sets whose members are counted are
finite, the constant functions have their types, and the special values differ from
the ordinary ones (the `ASSUME`s of the modules, each with a name). TLC evaluates
every one of them in a run.

The arguments. None of the properties is inductive as it stands; each module has the
invariant that is:

* **ControlProofs.** *Requests*: whether a detach clears `pending` depends on whose
  queue is in `out`. `IInv` adds that the queue is the last generation's, its stream
  is not gone, and entries exist only with a queue; `RInv` that a request sits in a
  queue only for a call that got a place, which the refinement of `Promise` needs
  for the synth's answer. Under the mapping `Promise` sees whether any stream
  carries (`Carried`) and each call's place and word; every step maps to one of its
  steps or a stutter. *Announcements* (`SInv`): nothing named is ahead of the
  settings, and the channel is behind them by exactly what is not announced yet.
  *Policy* (`PInv`): unless commands crossed, one is under way at a time, and where
  it stands fits whether there is a link, a loop, an answer of onboarding and what
  each file holds (`StagesFit`, `PauseFits`, `HeldBack`, `SettingsFit`).
* **OwnerProofs.** `AskInv`: `OwnersWord` quantifies over the store, the file and
  the lists under way, so a write of an old list is harmless *for it*: the list was
  the owner's word when it was read, and what the owner said is never unsaid.
  `TakenInv` says the other half: what was taken back, and was on its way nowhere, is
  neither in the store nor on its way to the disk.
  `AnswerDiscipline` adds that an answer comes once and stays, and fits what its ask
  may be remembered for. (One that was on its way may come back: see 8.)
  `TalkInv`, of holds and messages: the flag `sending` is up exactly while a message
  is on its way (`OneOnItsWay`), which holds always; that the microphone belongs to
  the hold that is held needs that every hold has one beginning and one end in turn,
  with its end kept when it comes before its microphone (`Orderly`), which holds
  until two of them overlap. `AnswersInv`: once an end of the last message was
  handled, it is what is shown (`EndStays`), and a voice over the owner is `late`,
  past its second check (`OverTheOwner`).
* **ComputerProofs.** `HInv`: the count is the sessions' that hold the daemon, and a
  session starts one daemon at most, so that the counters keep their bounds. `RInv`, of
  the stops: nobody comes to the lock during a pause but who was counted before it, an
  older copy is there as long as something starts or runs from it, and the installer
  stops nothing before its look or after it saw a session. `LInv`:
  a recent action is the one the lease remembers; then a call that finds the lease
  free or old is `Quiet` away from every other synth's action. `DInv`: what did not
  change hands since a reading is as it was read (`AsRead`), and what a call found
  out is so unless something it is about changed hands (`FoundOut`), which is what
  its last check before the driver relies on. `OInv`: a call's tool, its line in the
  journal and what let it through go with where the call is, and what is remembered
  is what the owner let be remembered (`MemoryIsTheOwners`).
* **LinksProofs** (`Kept`, `LinkInv`). That slots keep their numbers needs the tokens
  counted: every slot ever made and every `add_link` that has a token not yet on a
  slot was minted a token of its own (`Counted`). That a refused token stays undialed
  needs that the tokens under way are new to every loop (`FreshIsNew`), so that
  storing one never brings a refused one back, and that a loop which has the link's
  own token refused is in a stage that does not lead to a dial.
* **InstallsProofs.** `MInv`, of the token: a removal of the bare key is right only
  because the key it moved to holds the token, it moved it to the right synth, and an
  unlink that removes it is the old synth's own; `MoveIsSound` says so. `ModelsInv`, of
  the recognizer's files: a part that goes to its place was compared (`NothingWrong`),
  and, until a start and a delete race, a delete has the flag of the thread up, so that
  it puts nothing more in place and a word "ready" still under way has seen all files
  (`DeleteStops`, `ReadyHasSeen`). `DriverInv`: the run at the gate is the only one
  under way (`GateFits`); a thread left behind may begin its archive anew, but not make
  it another (`Compared`), and after a quit every run was told to stop (`QuitTold`).
  `UpdatesInv`, of the app: one task is between taking the gate and giving it back
  (`GateKept`), and where it stands says whether there is a copy to put back
  (`CopyKept`), which phase a check that fails puts back (`PhaseToPutBack`) and whether
  an install knows of the owner's pause (`PauseKnown`). `SpeechInv`, of a hold: every
  piece ends where no word goes on over it, the pieces follow each other, and up to
  where the text ends they hold every word (`KeepsUp`); what the owner says next changes
  none of it, and a release makes it the whole.
* **StreamsProofs.** `SInv`: the group of a command that was killed gets no new
  process. `NInv`: count and file differ by what is unsaved and what the flush under
  way has taken (`AddsUp`), and a flush is due only where somebody will do it. `FInv`:
  the size a chunk was measured against is still the file's when it is written, as
  long as nobody else was at the file.
* **ObserveProofs.** A value may be on its way, in the link's task or in the writer's
  queue, when its source is switched off or its synth unlinked; `OInv` says that what
  is on its way was switched on for the synth since its link came up and that a link
  that is down has nothing on its way. `CInv` ties the two ages of a microphone to
  each other (`MicIsReal`).
* **BrowsersProofs.** `BrowserInv`: a code in either queue is the one that waits and
  the owner confirmed its synth (`CodeOnce`, `Confirms`), and the first message of a
  session is its hello. `DoorInv`: where no two apps bind together, one at a time is
  on its way to the path, and none while another serves (`OneDoor`). `ListsInv`: what
  bears the id of the question that waits is about its list and not older than it
  (`AnswersFit`). `SignInv`: a token in use was brought by a completion, and where
  nothing crossed the steps that keep a sign-in, token, account and consent are of
  one sign-in (`Logins`, `Straight`).

Each of these invariants was checked by TLC on a small instance before it was proved.

Only model-checked:

* everything that needs fairness, which is beyond the prover: `NothingWaitsForEver`,
  `AsksEnd`, `SessionsEnd`, `LoopsGoOn` (its safety part is `NeverRedialed`),
  `StreamsEnd`, `QuestionsEnd`, `ReportsStayTrue`, `VoiceMovesOn` (its safety part is
  `StageNeverBack`, in `StagesGoOn`), `InstallsEnd` (its safety part is `OldUntilNew`);

Every invariant a passing run checks is proved.
The models have no recursive definition.

## 7. Abstractions, and what is not modelled

* **Everywhere.** Texts, wire formats, logging and events to the window are left out.
  Clocks are small counters. Variables marked *history* are read by properties only.
  What a module leaves out it says at its head.
* **Requests.** `FailPending` is one step; in the code the entries are taken out under
  the lock and each call is told after it. A timer that fires in between finds its
  entry gone either way, which is the same as firing before.
* **SettingsPush.** Changes of the look alone are left out. A message is received when
  it is written. One link; all links do the same.
* **Policy.** Of the settings: what a preset switches on, files, the command line and
  one refused app. Either file is replaced whole or not at all. A sync counts the links
  before it asks the platform; one that misses a first or a last link by that counts
  as crossed (`FirstLinkStarts` in 8). `account_connect` reads before its wait as well;
  in the model it reads when it links.
* **Approvals.** A grant is `until` as `GrantRow` stores it. The file and
  `persisted.grants` change together, since every save happens under that lock.
  `Restart` is a crash at any step and the load that follows.
* **Computer.** `Lock` is the stretch from the acquisition to the next await.
  `enabled` stands for every rule of the policy besides the pause; `choice` for all a
  running daemon may be out of date with. A daemon of the user's own is left out.
* **Lease.** The other rules of the gate are one refusal that may come or not.
* **Directory.** One call at a time: a stream decides its lines one after the other,
  and other streams share only the lists. Time is counted in `REFRESH_GAP`s. The last
  look at the policy and the write to the driver are one step; a change while the write
  waits comes before `DriverActs`.
* **OwnApps.** One synth; a request is known by what the gate tells apart. How the
  owner's answer reaches the call is in `Approvals`.
* **Links.** One synth: token, pairing and slot belong to one synth each. No restart
  (`TokenMove` has those). `add_link` and `wipe_slot` do not await but run on several
  threads, so they are cut where they take the next lock. The synth accepts the last
  token that was minted for it (external, from how the code uses it).
* **SignIn.** An account is known by whether one of its synths is linked. The app's
  end is followed where it leaves something half done.
* **TokenMove.** Reads of the secret store succeed. A refused removal is unnoticed, as
  in the code. A save that fails is a save that did not come.
* **Shell, Traffic, Transfers.** One folder and one path; the number of bytes is
  counted in units; the operating system's part (a killed process is gone, a file is
  the sequence of its chunks) is external.
* **Browsers, NativeHost, Lister.** One browser profile and one site; the extension,
  the helper's parent and the driver's runtime are external, from how the code uses
  them.
* **Observe, Calls.** One source goes the way; time is counted in rounds.
* **Talk, Answers, Speech.** The end of a hold is one step of two locks (`Talk` says why
  that is enough). What the recognizers and the detector of the name hear is
  an input. The forced cut of eight seconds without a pause is not reached.
* **Models, Driver, Updates.** A download brings the right or the wrong bytes; hashing
  tells them apart. One update at a time.

Not modelled: the Go daemon (in the plan); the user interface and `connectd` (front
ends); device and window work (geometry, tone of voice, the wake detector); file
formats (cookies, wire, manifests); pure checks (addresses, paths, tool names);
keeping the screen awake and the locked screen; crash reports. `PROJECT.json` gives
the reason per part.

## 8. What the code does not keep

Sentences of the repository that the modelled code does not keep. Each is a property
of the module that is named. The first is a run of the project:

    tlc -workers 2 -config MCLinksUnlink.cfg MCLinks

To see another, put its name under `INVARIANT` (or `PROPERTY`, where its definition
begins with `[][` or contains `~>`) in the configuration of its module's run, in place
of the properties there; the runs of `Talk` and `Answers` need `ToCrossing = FALSE`,
and a fair specification where the property is temporal. TLC prints a shortest
sequence of steps that breaks it. Once the code is changed, the model follows and the
property holds.

| Property (module) | Line | The code, and the sentence |
|---|---|---|
| `UnlinkedStaysUnlinked` (`Links`) | `account.rs:476` | connect_one stores the answer of the platform without looking whether the slot it asked for is still there; an unlink during the loop's own request for a fresh token is undone: token, pairing and a new slot come back. core.rs:1786: "Stop the reconnect loop so a link that drops during unpair does not race back online before we wipe the token." |
| `UnlinkErasesGrants` (`Approvals`) | `core.rs:527` | The task of ask_scoped records the answer and saves it without looking whether the synth is still linked, and unpair_synth refuses the waiting asks only when no link is left (commands.rs:204); a 'yes, always' answered after the unlink is a grant of an unlinked synth, in memory and on disk, and applies when it is paired again. README.md:186: "`unpair_synth` erases one synth's pairing and grants". |
| `RevokedStaysOff` (`Approvals`) | `core.rs:466` | persist_grants reads the list before it takes the lock of the stored state; a writer that read before a revoke and writes after it puts the revoked grant back on disk, and the next start restores it. core.rs:1674: "Take back one synth's grant."; core.rs:455: "Mirror the durable grants". |
| `PauseEmptiesQueue` (`Approvals`) | `actions.rs:18` | A pause denies what waits before it sets `paused`; an ask that passed its check earlier or comes in between stays in the queue while paused. approvals.rs:4: "A request leaves the queue when the owner answers, when the core's 55 s window runs out, when the owner pauses". |
| `PausedMeansStopped` (`Computer`) | `core.rs:679` | cua_endpoint_at looks at the pause before it waits for the daemon's lock and not again after; pause takes the daemon out (there is none yet) and is done, then the session starts one, and its stream is aborted: a daemon of ours runs while the app is paused. README.md:97: "pause closes streams, refuses new ones, stops our Cua daemon, reports `paused:true`". |
| `OldCopyStays` (`Computer`) | `core.rs:742` | The older copy is held only after PrivateDaemon::start came back; an install that ends while it starts removes the copy (drop_old), and so does the daemon_gone of a stop_cua, which runs outside the lock after a newer daemon was started. core.rs:739: "A copy of the version before stays on disk for as long as this daemon runs from it." |
| `EnsureSparesSessions` (`Computer`) | `core.rs:1938` | cua_ensure reads the number of sessions and then waits for the daemon's lock in stop_cua; a session that holds the lock at that moment, or gets it first, is opened and then loses its daemon. core.rs:1935: "A daemon that runs from the copy of the version before is left alone while a session holds it". |
| `OneActsAtATime` (`Lease`) | `core.rs:428` | The lease is renewed when an action goes to the driver and not while the driver works on it: 60 s into a long action another synth's action is forwarded. core.rs:33: "while it acts, and this long after, another synth's actions are refused". |
| `UnlinkedLetsGo` (`Lease`) | `core.rs:421` | lease_take does not look whether the synth is still linked, and an unlink does not end the synth's streams by itself: a call that waits in its gate takes the lease after lease_release, and the other synths are refused for a minute by one that is gone. README.md:73: "then wipe that synth's token, grants, browsers' link, stored pairing and hold on the computer". |
| `RemovedGoesDown` (`Links`) | `link.rs:218` | run_one does not look at `stopping` and does not wait for `wake`, and unpair_synth sends `unpair` only over a link that is Linked: a link that is dialing or waits for hello_ack when it is unlinked comes up after the wipe, serves the synth's streams and stays up until somebody else ends it. core.rs:1012: "The loop ends (the caller set `stopping`)."; core.rs:1786: "Stop the reconnect loop so a link that drops during unpair does not race back online before we wipe the token." |
| `SkippedLeftAlone` (`Links`) | `account.rs:765` | account_sync copies the list of skipped synths once and then waits for the platform for each new synth; a synth that is linked at that moment and that the owner disconnects during a wait has no slot when its turn comes and is not in the copy: it is linked again. commands.rs:194: "An account synth is left alone by the sync from now on, until the owner connects it again." |
| `OneLinkPerSynth` (`Links`) | `core.rs:980` | add_link looks for the slot under a read lock and pushes a new one under a later write lock; pair_confirm next to connect_one (of a loop or of the sync) can both push. README.md:70: "A synth that has a link already gets the new token on it (one link per synth)". |
| `OldLinkIsThere` (`TokenMove`) | `core.rs:1290` | Core::new tries the bare key only when exactly one pairing is stored. When the move failed and the owner links a second synth before the next start, the old pairing is stored, its token is under the bare key, and no start links it again. core.rs:1083: "the bare key stays, and the link reads it from" |
| `TokenStaysWithSynth` (`TokenMove`) | `core.rs:1104` | A refused removal of the bare key is ignored, so the old token stays there; when later another synth is the only stored pairing and its own token is gone (the app died in the middle of its unlink), Core::new moves the old synth's token to the other synth's key. core.rs:1258: "moves to the key of the synth it belongs to" |
| `LinkedCatchesUp` (`SettingsPush`) | `link.rs:384` | control_loop computes the hello's capabilities and revision, writes the hello and only then subscribes to settings_tx; a change announced in between is in neither, so the synth keeps the old capabilities until the next change or link. README.md:88: "arbitrary edit; bumps `settings_rev`, persists, pushes a `settings` message" |
| `RevGrows` (`SettingsPush`) | `core.rs:1446` | mutate_settings (and the island's switch) announce their revision after the lock is released; two changes can announce in the other order, and the last settings message then names the older revision. README.md:299: "`settings_rev` grows by one on every change" |
| `OffMeansStopped` (`Shell`) | `shell.rs:557` | mutate_settings (core.rs:1448) says "The command line switched off: what runs now stops too"; a command past the gate that was not asked for is not looked at again, and one that has not called borrow_and_update yet takes the stop for seen. |
| `PauseEndsTree` (`Shell`) | `shell.rs:471` | The module's comment says the group gets "SIGTERM and then SIGKILL on a timeout, a cancel or a pause"; a pause also aborts the stream (link.rs:249), and then kill_on_drop kills the command alone. |
| `FlushedMeansSaved` (`Traffic`) | `core.rs:481` | flush_egress is to "write the egress counters to disk now"; it takes the count under one lock and writes it under another, and an older flush can write last. |
| `CapIsMonthly` (`Traffic`) | `core.rs:554` | core.rs:144 says "Monthly egress accounting"; net_allows reads the bytes without the month, so once the cap is reached no stream ends any more and nothing resets the count until a restart. |
| `AppendAlwaysInPlace` (`Transfers`) | `files.rs:290` | files.rs:242 says "append: the file must exist and offset must equal its size"; the size is compared before the open. |
| `UnaskedIsOwn` (`Transfers`) | `rpc.rs:310` | rpc.rs:299 says an append "continues the write the owner already allowed"; the list is keyed by the path and not by the synth, while grants are. |
| `SiteNotKept` (`Browsers`) | `browser.rs:972` | The hello says "A site the owner no longer allows must not stay readable in the browser"; nothing looks at the sites when a timed answer runs out, when a browser is linked to a synth without an answer, or when the queue to it is full. |
| `LinkedToLinked` (`Browsers`) | `browser.rs:597` | browsers_synth_removed says "The browsers linked to that synth's vault are not linked any more"; pair_inner and pair_done write the record without looking whether the synth is still linked. |
| `VaultMatches` (`Browsers`) | `browser.rs:905` | BrowserView.linked is "it holds a vault pairing of a synth (`synth_id`)"; pair_done takes the synth of the last code sent, not of the code redeemed. |
| `CancelledStaysOut` (`SignIn`) | `account.rs:610` | login_cancel is "The owner gave up on the sign-in in the browser."; a sign-in that came back already is completed after it. |
| `OnlyRefusedSignsOut` (`SignIn`) | `account.rs:716` | The sync signs out because "The owner removed this computer in the platform (or the grant ran out)"; the token it deletes may be that of a sign-in meanwhile. |
| `ShownIsGoing` (`SignIn`) | `account.rs:656` | LoginPhase::Exchanging is "The browser came back; the app is exchanging the code." (account.rs:307); when the thread of the exchange is gone (a JoinError, account.rs:656) the `?` returns with the phase as it is, and the window goes on showing it. (So would the `?` of account.rs:653.) |
| `TokenIsTheAccounts` (`SignIn`) | `account.rs:674` | The token is stored before the account; an app that ends between them has the token of one account and the confirmation of another. |
| `NothingWhilePaused` (`Observe`) | `observe.rs:521` | The module says "nothing at all while the app is paused"; plan looks at the pause, the queue before the writer does not. |
| `ExcludedNotNamed` (`Observe`) | `observe.rs:664` | Excluding an app bumps the links at once, and the value they then read is the one from before: "the app in front one the synth must not see" (sources.rs) goes out by name until the next round. |
| `OffByDefault` (`Observe`) | `observe/mod.rs:121` | observe.rs: "each switched on by the owner per synth and off by default"; set looks the synth up and then stores the choice, and an unlink in between leaves it for the next pairing. |
| `ResumedIsSeen` (`Observe`) | `observe.rs:617` | "Resumed: everything again at once"; the report and the presence are sent by two tasks, and a synth that still takes the computer for paused drops the report until the next minute. |
| `HelloCarriedState` (`Observe`) | `link.rs:391` | "hello already carried the state"; wire::hello carries no pause, and the first tick is skipped. |
| `WithoutABreak` (`Calls`) | `observe/sources.rs:766` | "A messenger's microphone is a call only after MESSENGER_CALL_SECS without a break"; the tracker counts from the first sample, also through rounds that a pause left out. |
| `NoRecordingLost` (`Talk`) | `island/mod.rs:936` | take_running says "the recording, once it starts, is sent (or dropped) at once instead of being lost"; `inner.early` is one slot that the next hold clears, and a recording that then starts is overwritten in `running`. |
| `OtherKeysIgnored` (`Talk`) | `island/hold.rs:62` | hold.rs says "While one hold runs, every other press is ignored"; the release of a voice key that went down earlier ends the hold a wake began. |
| `EscapeOnlyDuringWake` (`Talk`) | `island/wake/mod.rs:696` | wake/mod.rs says of is_escape "Escape while a wake records"; escape(ctx, true) comes after start, when the wake may be cancelled already, and nobody takes the key back before the next wake ends. |
| `MicOnlyWhileHeld` (`Talk`) | `island/mod.rs:976` | hold.rs says "Press starts a hold, release ends it"; a recording whose end was in `early` when the next hold cleared it runs on. |
| `EarlyEventCounts` (`Answers`) | `island/mod.rs:1625` | on_event says "An event before owner.message returned (it is fast): the message is this one if it is from the synth just sent to"; that is only so while no message is shown, and the last one is shown for 20 minutes. |
| `NotOverHold` (`Answers`) | `island/mod.rs:1715` | speech_unwanted says "not over a hold (the owner is talking)"; between its second call and Speaker::begin a hold may start. |
| `ViewShowsWhatPlays` (`Answers`) | `island/mod.rs:1721` | SpeakingView is the answer that plays; begin and the view are two steps under two locks. |
| `ReadyMeansThere` (`Models`) | `island/stt/model.rs:310` | The thread stores running = false and sets its status afterwards; Status::Ready stands for files in place, and a delete may run in between. |
| `CancelStops` (`Models`) | `island/stt/model.rs:302` | cancel says "Stop a running download"; download stores cancel = false after it took the running flag. |
| `StateIsCurrent` (`Driver`) | `cua_install.rs:511` | InstallState says "Where the helper stands. One of these is always current"; the thread that ensure left behind calls progress, and the state stays Downloading. |
| `QuitStopsInstall` (`Driver`) | `cua_install.rs:496` | shutdown says "stop a running install and refuse new ones"; ensure makes a flag of its own after the version check, with `stopped` read before it. |
| `NeverStuckChecking` (`Updates`) | `updates.rs:318` | check returns with the phase left at Checking when the version is the one downloaded; its comment says "A downloaded update stays \"ready\" while the feed is asked again". |
| `NeverCutsShort` (`Updates`) | `updates.rs:440` | apply says "On its own the app never cuts work short: look once more, right before the point of no return"; work starts between that look and the pause. |
| `PauseAlwaysStays` (`Updates`) | `updates.rs:486` | apply says "it may have been paused already ... and then it stays paused"; was_paused is read before the install, and the owner may pause during it. |
| `CopyUntilWhole` (`Updates`) | `updates.rs:538` | updates.rs says "the copy is put back, so the old version keeps working"; the copy is removed whether or not rename or cp succeeded. |
| `QuitStaysOff` (`Updates`) | `updates.rs:493` | apply_at_quit says "Never restarts the app"; an install of the loop that ends meanwhile schedules a relaunch. |
| `HeldUntilFinished` (`Policy`) | `commands.rs:149` | The sync asks for the link to be dialed before begin_onboarding has paused (account.rs:28), and a resume or a second command may run in between; an end of the app between the writes does the same. commands.rs:130: "the core is held paused until onboarding is finished" |
| `FirstLinkStarts` (`Policy`) | `account.rs:29` | sync_now reads `before` ahead of the wait for the platform: where the owner unlinks the last synth in between and the sync then links another, it takes that for one more link, and onboarding does not begin. account.rs:7: "starts or ends the onboarding when the first link comes or the last one goes." |
| `NothingOutOfSight` (`Policy`) | `commands.rs:373` | An app that ends between the two writes of developer mode off starts with the command line on and the section hidden. commands.rs:370: "nothing of it stays on out of sight." |
| `FolderKeepsSwitch` (`Policy`) | `commands.rs:424` | An app that ends between add_root and the write after it starts with file access on. commands.rs:420: "Adding a folder while the owner has file access switched off must not switch it back on." |
| `EngineIsWhereItSays` (`Speech`) | `island/stt/mod.rs:438` | A panic drops the channel before run says "gone": a press in between starts a thread whose "ready" is then overwritten, and a silent hold goes as audio. island/stt/mod.rs:319: "Where the engine is now." |
| `EveryCallHasItsLine` (`OwnApps`) | `apps/mod.rs:582` | The future of a call is dropped with its stream while the tool works: what it did has no line. apps/mod.rs:34: "The journal gets one line per call: app, action, outcome, a count." |
| `OpenedInside` (`OwnApps`) | `apps/mod.rs:550` | The path is resolved before a question of up to 55 s and opened by that path after it; a folder that is no longer shared, or a file that changed, is opened. apps/mod.rs:547: "A file is opened only inside the folders the owner shared, checked after symlinks are resolved" |

Without a property: a pairing confirmed during the three seconds in which
`unpair_synth` waits for its ack (`core.rs:1794`) is wiped with the old one, since
the wipe goes by the synth's id. Whether the owner meant it so is open.

Most of these need a step to fall into a window of milliseconds, and several end by
themselves (the lease after a minute, the revision with the next change). The ones
that stay are the link that comes back, the link that stays up, the grant that comes
back, the capabilities that stay old, and the command that nobody stops.

## 9. Plan

Done, in this order: the control stream, approvals, computer, lease, links, tokens
and settings, with their first proofs; the command line, network and files, browsers
and the native host, observe, voice, installs, sign-in, the policy, recognition and
the owner's apps; then the proofs of 6.

Next, the most important first:

1. **Proofs**: the safety of what 2 and 3 below state.
2. **What still holds where 8 says what does not**: that an unlinked synth comes back
   only by an answer that was asked for before, and a removed link stays up only if it
   was being dialed. (Of grants and of the daemon, `TakenBackStaysOff` and
   `StopsAreRight` say it.)
3. **Abstract specifications**: what a link promises (unlinked, linked with a token,
   refused), with `Links` shown to implement it; a composition of `Links`,
   `Approvals` and `Lease` around one unlink.
4. **`WsClient`, `Call`, `TaskOutbox`** of the Go daemon: a stop before the loop first
   runs (`ws_client.go:153`), the end of an old call on a new one
   (`chrome_join.go:338`), posts that arrive twice (`tasks_worker.go:374`).
