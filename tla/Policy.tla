------------------------------- MODULE Policy -------------------------------
(***************************************************************************)
(* The owner's policy: the settings and their file (settings.rs; core.rs,  *)
(* mutate_settings), the shell's own preferences (prefs.rs), and the       *)
(* commands that change both: the first link and the last, onboarding,     *)
(* presets, the settings page, developer mode, a shared folder, the pause. *)
(*                                                                         *)
(* A command of the window, the sync in the background and the tray run    *)
(* next to each other; each is a few writes, and the app may end between   *)
(* any two.  Either file is replaced whole or not at all; that the disk    *)
(* refuses is modelled for settings.json alone.  Of the settings is kept:  *)
(* `on` (what a preset switches on), `files`, `shell`, `refused` (an app   *)
(* the synth may not use) and `old` (the same as a word of a version       *)
(* before, which every load moves).  `paired` is the list of links having  *)
(* one; how links come and go is in Links.                                 *)
(***************************************************************************)
EXTENDS Naturals

CONSTANT MaxSteps       \* bound: commands given, starts and presses of the tray

ASSUME StepsAssumption == MaxSteps \in Nat

VARIABLES
    settings,       \* Persisted.settings in memory
    file,           \* ... and in settings.json
    prefs,          \* Prefs, in memory and in shell.json
    halt,           \* Shared::paused
    paired,
    served,         \* a loop runs for the link (spawn_link; `relink` starts it)
    doing,          \* what the window's command and the sync do next
    tray,           \* what the tray does next
    shown,           \* the settings as the window was last sent them
    steps,
    meant,          \* what the owner chose: the app refused, files on
    slips           \* history: commands that crossed, an end of the app in the
                    \* middle of one, a write that the disk refused

policyVars == <<settings, file, prefs, halt, paired, served, doing, tray, shown, steps, meant, slips>>

Tasks == {"window", "sync"}

Settings == [on : BOOLEAN, files : BOOLEAN, shell : BOOLEAN, refused : BOOLEAN, old : BOOLEAN]
AllOff == [on |-> FALSE, files |-> FALSE, shell |-> FALSE, refused |-> FALSE, old |-> FALSE]
UsedBefore == [on |-> TRUE, files |-> TRUE, shell |-> FALSE, refused |-> FALSE, old |-> TRUE]

\* Mutant of Loaded: the words of an old file are dropped.
WordsDropped(f) == [f EXCEPT !.old = FALSE]

\* Every load moves the words; the file keeps them until the next save.
Loaded(f) == [f EXCEPT !.refused = f.refused \/ f.old, !.old = FALSE]

PolicyTypeOK ==
    /\ settings \in Settings /\ file \in Settings /\ shown \in Settings
    /\ ~settings.old /\ ~shown.old
    /\ prefs \in [onboarded : BOOLEAN, paused : BOOLEAN, developer : BOOLEAN]
    /\ halt \in BOOLEAN /\ paired \in BOOLEAN /\ served \in BOOLEAN /\ steps \in 0 .. MaxSteps
    /\ doing \in [Tasks -> {"nothing", "off", "ask", "hold", "reset", "release", "forget", "resume",
                            "shell", "unfiles", "save", "saveShell", "look", "lookNone"}]
    /\ tray \in {"nothing", "keep", "let", "clear"}
    /\ meant \in [refused : BOOLEAN, files : BOOLEAN]
    /\ slips \in [crossed : BOOLEAN, cut : BOOLEAN, unsaved : BOOLEAN]

\* A fresh install, or a computer in use with a file of the version before.
PolicyInit ==
    /\ file \in {AllOff, UsedBefore} /\ settings = Loaded(file) /\ shown = settings
    /\ paired = (file # AllOff) /\ served = paired
    /\ prefs = [onboarded |-> paired, paused |-> FALSE, developer |-> FALSE]
    /\ halt = FALSE /\ steps = 0
    /\ doing = [t \in Tasks |-> "nothing"] /\ tray = "nothing"
    /\ meant = [refused |-> file.old, files |-> file.files]
    /\ slips = [crossed |-> FALSE, cut |-> FALSE, unsaved |-> FALSE]

\* The sync is at the platform: it had read that there were links, or none.
Looking == doing["sync"] \in {"look", "lookNone"}

Busy(t) == doing[t] \notin {"nothing", "look", "lookNone"}
Quiet == (\A t \in Tasks : ~Busy(t)) /\ tray = "nothing"

\* `t` goes on with `next`; one that begins next to another crosses it.
Goes(t, next) == doing' = [doing EXCEPT ![t] = next]
Counts == steps < MaxSteps /\ steps' = steps + 1
Crosses(is) == slips' = [slips EXCEPT !.crossed = @ \/ is]
Begins == Crosses(~Quiet)

\* The window is sent the settings; what it is saving at the moment is on its way.
WindowIsTold == shown' = IF doing["window"] = "save" THEN shown ELSE settings

\* The file is replaced whole; the disk may refuse, which nobody looks at.
Saves(s, crossing) ==
    \/ file' = s /\ slips' = [slips EXCEPT !.crossed = @ \/ crossing]
    \/ file' = file /\ slips' = [slips EXCEPT !.crossed = @ \/ crossing, !.unsaved = TRUE]

\* mutate_settings, under the lock.
Mutates(s, crossing) == settings' = s /\ Saves(s, crossing)

-----------------------------------------------------------------------------
(* The first link: pair_confirm and account_connect of the window, or the  *)
(* sync, which decides by what it read before it asked the platform; then  *)
(* begin_onboarding.  The sync has the link dialed (`relink`) before that, *)
(* the window after.  A sync that takes the first link for another one     *)
(* crosses the unlink it did not see.                                      *)

First(t) == IF t = "sync" THEN doing[t] = "lookNone" ELSE ~paired

Pairs(t) ==
    /\ ~Busy(t) /\ (t = "sync" => Looking) /\ Counts
    /\ paired' = TRUE /\ served' = (served \/ paired \/ t = "sync")
    /\ Goes(t, IF First(t) THEN "off" ELSE "nothing") /\ Crosses(~Quiet \/ (~paired /\ ~First(t)))
    /\ UNCHANGED <<settings, file, prefs, halt, tray, shown, meant>>

BeginOff(t) ==
    /\ doing[t] = "off" /\ Goes(t, "ask")
    /\ Mutates(AllOff, FALSE)
    /\ meant' = [refused |-> FALSE, files |-> FALSE]
    /\ UNCHANGED <<prefs, halt, paired, served, tray, shown, steps>>

BeginAsk(t) ==
    /\ doing[t] = "ask" /\ Goes(t, "hold")
    /\ prefs' = [prefs EXCEPT !.onboarded = FALSE, !.paused = FALSE]
    /\ UNCHANGED <<settings, file, halt, paired, served, tray, shown, steps, meant, slips>>

\* Mutant of BeginHold: onboarding does not pause.
BeginRuns(t) ==
    /\ doing[t] = "hold" /\ Goes(t, "nothing")
    /\ WindowIsTold /\ served' = paired
    /\ UNCHANGED <<settings, file, prefs, halt, paired, tray, steps, meant, slips>>

BeginHold(t) ==
    /\ doing[t] = "hold" /\ Goes(t, "nothing")
    /\ halt' = TRUE /\ WindowIsTold /\ served' = paired
    /\ UNCHANGED <<settings, file, prefs, paired, tray, steps, meant, slips>>

-----------------------------------------------------------------------------
(* The last link goes: the owner unlinks or signs out, or the sync finds   *)
(* that the synth left the account, or that there is no link any more      *)
(* where it had read of one; then after_last_link.  A sync that had read   *)
(* of none leaves that out: it crosses the pairing it did not see.         *)

Last(t) == t = "sync" => doing[t] = "look"

Unlinks(t) ==
    /\ ~Busy(t) /\ Counts
    /\ IF t = "sync" THEN Looking /\ (paired \/ Last(t)) ELSE paired
    /\ paired' = FALSE /\ served' = FALSE
    /\ Goes(t, IF Last(t) THEN "reset" ELSE "nothing") /\ Crosses(~Quiet \/ ~Last(t))
    /\ UNCHANGED <<settings, file, prefs, halt, tray, shown, meant>>

AfterReset(t) ==
    /\ doing[t] = "reset" /\ Goes(t, "release")
    /\ Mutates(AllOff, FALSE)
    /\ meant' = [refused |-> FALSE, files |-> FALSE]
    /\ UNCHANGED <<prefs, halt, paired, served, tray, shown, steps>>

AfterRelease(t) ==
    /\ doing[t] = "release" /\ Goes(t, "forget")
    /\ halt' = FALSE
    /\ UNCHANGED <<settings, file, prefs, paired, served, tray, shown, steps, meant, slips>>

AfterForget(t) ==
    /\ doing[t] = "forget" /\ Goes(t, "nothing")
    /\ prefs' = [prefs EXCEPT !.onboarded = FALSE, !.paused = FALSE]
    /\ WindowIsTold
    /\ UNCHANGED <<settings, file, halt, paired, served, tray, steps, meant, slips>>

\* The sync reads the links and asks the platform; what it finds is Pairs,
\* Unlinks or nothing new, and the next sync looks.
SyncLooks ==
    /\ ~Busy("sync") /\ Goes("sync", IF paired THEN "look" ELSE "lookNone")
    /\ UNCHANGED <<settings, file, prefs, halt, paired, served, tray, shown, steps, meant, slips>>

-----------------------------------------------------------------------------
(* The window.                                                             *)

\* Without a link the window shows the pairing page alone (App.tsx).
WindowOpen == ~Busy("window") /\ paired

FinishOnboarding ==
    /\ WindowOpen /\ Counts
    /\ prefs' = [prefs EXCEPT !.onboarded = TRUE, !.paused = FALSE]
    /\ Goes("window", "resume") /\ Begins
    /\ UNCHANGED <<settings, file, halt, paired, served, tray, shown, meant>>

FinishResumes ==
    /\ doing["window"] = "resume" /\ Goes("window", "nothing")
    /\ halt' = FALSE /\ shown' = settings
    /\ UNCHANGED <<settings, file, prefs, paired, served, tray, steps, meant, slips>>

\* A preset keeps the owner's choice of apps, and has no command line.
FromPreset == [AllOff EXCEPT !.on = TRUE, !.files = TRUE]

\* Mutant of Preset: a preset is the whole policy.
PresetIsAll == FromPreset

Preset == [FromPreset EXCEPT !.refused = settings.refused]

ApplyPreset ==
    /\ WindowOpen /\ Counts
    /\ Mutates(Preset, ~Quiet) /\ shown' = Preset
    /\ meant' = [meant EXCEPT !.files = TRUE]
    /\ UNCHANGED <<prefs, halt, paired, served, doing, tray>>

\* Mutant of ShellWithout: the command line is taken as the window sent it.
ShellAsSent(s) == s

\* Without developer mode the command line is off, whatever was sent.
ShellWithout(s) == [s EXCEPT !.shell = s.shell /\ prefs.developer]

\* update_settings: what the window was last sent with one change; developer mode is looked at
\* before the lock is taken.
UpdateSettings ==
    /\ WindowOpen /\ Counts /\ Begins
    /\ \E next \in {[shown EXCEPT !.on = ~@], [shown EXCEPT !.files = ~@],
                    [shown EXCEPT !.shell = ~@], [shown EXCEPT !.refused = ~@]} :
          shown' = ShellWithout(next)
    /\ Goes("window", "save")
    /\ UNCHANGED <<settings, file, prefs, halt, paired, served, tray, meant>>

UpdateSaves ==
    /\ doing["window"] = "save" /\ Goes("window", "nothing")
    /\ Mutates(shown, FALSE)
    /\ meant' = [refused |-> shown.refused, files |-> shown.files]
    /\ UNCHANGED <<prefs, halt, paired, served, tray, shown, steps>>

\* Mutant of DeveloperOff: the page is hidden, the command line goes on.
DeveloperHides(on) == prefs' = [prefs EXCEPT !.developer = on] /\ Goes("window", "nothing")

\* Off is the command line's end too, with a write of its own.
DeveloperOff(on) ==
    /\ prefs' = [prefs EXCEPT !.developer = on]
    /\ Goes("window", IF ~on /\ settings.shell THEN "shell" ELSE "nothing")

SetDeveloper ==
    /\ WindowOpen /\ Counts /\ Begins
    /\ DeveloperOff(~prefs.developer)
    /\ UNCHANGED <<settings, file, halt, paired, served, tray, shown, meant>>

DeveloperEndsShell ==
    /\ doing["window"] = "shell" /\ Goes("window", "nothing")
    /\ Mutates([settings EXCEPT !.shell = FALSE], FALSE) /\ shown' = settings'
    /\ UNCHANGED <<prefs, halt, paired, served, tray, steps, meant>>

\* A folder is shared: that turns file access on, and off again where it was off.
AddRoot ==
    /\ WindowOpen /\ Counts
    /\ Goes("window", IF settings.files THEN "nothing" ELSE "unfiles")
    /\ Mutates([settings EXCEPT !.files = TRUE], ~Quiet) /\ shown' = settings'
    /\ UNCHANGED <<prefs, halt, paired, served, tray, meant>>

\* Mutant of RootKeepsSwitch: the switch is left on.
RootSwitchesOn ==
    /\ doing["window"] = "unfiles" /\ Goes("window", "nothing")
    /\ UNCHANGED <<settings, file, prefs, halt, paired, served, tray, shown, steps, meant, slips>>

RootKeepsSwitch ==
    /\ doing["window"] = "unfiles" /\ Goes("window", "nothing")
    /\ Mutates([settings EXCEPT !.files = FALSE], FALSE) /\ shown' = settings'
    /\ UNCHANGED <<prefs, halt, paired, served, tray, steps, meant>>

-----------------------------------------------------------------------------
(* The tray and the stop shortcut.                                         *)

TrayPauses ==
    /\ tray = "nothing" /\ Counts /\ Begins
    /\ halt' = TRUE /\ tray' = "keep"
    /\ UNCHANGED <<settings, file, prefs, paired, served, doing, shown, meant>>

\* Mutant of TrayKeeps: the pause is not written down.
TrayForgets == tray = "keep" /\ prefs' = prefs

TrayKeeps == tray = "keep" /\ prefs' = [prefs EXCEPT !.paused = TRUE]

TrayPaused ==
    /\ TrayKeeps /\ tray' = "nothing"
    /\ UNCHANGED <<settings, file, halt, paired, served, doing, shown, steps, meant, slips>>

\* Mutant of MayResume: a resume does not ask whether onboarding is done.
AlwaysResume == TRUE

MayResume == prefs.onboarded

TrayAsksResume ==
    /\ tray = "nothing" /\ halt /\ MayResume /\ Counts /\ Begins
    /\ tray' = "let"
    /\ UNCHANGED <<settings, file, prefs, halt, paired, served, doing, shown, meant>>

TrayResumes ==
    \/ /\ tray = "let" /\ tray' = "clear" /\ halt' = FALSE /\ UNCHANGED prefs
    \/ /\ tray = "clear" /\ tray' = "nothing" /\ prefs' = [prefs EXCEPT !.paused = FALSE] /\ UNCHANGED halt

TrayResume == TrayResumes /\ UNCHANGED <<settings, file, paired, served, doing, shown, steps, meant, slips>>

-----------------------------------------------------------------------------
(* The app ends, at any point, and starts.                                 *)

\* Mutant of StartsPaused: only the owner's own pause is looked at.
OnlyOwnPause == paired /\ prefs.paused

StartsPaused == paired /\ (prefs.paused \/ ~prefs.onboarded)

Restart ==
    /\ Counts
    /\ settings' = Loaded(file) /\ shown' = settings' /\ halt' = StartsPaused /\ served' = paired
    /\ doing' = [t \in Tasks |-> "nothing"] /\ tray' = "nothing"
    /\ slips' = [slips EXCEPT !.cut = @ \/ ~Quiet]
    /\ UNCHANGED <<file, prefs, paired, meant>>

FirstLink(t) == Pairs(t) \/ BeginOff(t) \/ BeginAsk(t) \/ BeginHold(t)
LastLink(t) == Unlinks(t) \/ AfterReset(t) \/ AfterRelease(t) \/ AfterForget(t)
WindowStep ==
    \/ FinishOnboarding \/ FinishResumes \/ ApplyPreset \/ UpdateSettings \/ UpdateSaves
    \/ SetDeveloper \/ DeveloperEndsShell \/ AddRoot \/ RootKeepsSwitch
TrayStep == TrayPauses \/ TrayPaused \/ TrayAsksResume \/ TrayResume

PolicyNext ==
    \/ \E t \in Tasks : FirstLink(t) \/ LastLink(t)
    \/ SyncLooks \/ WindowStep \/ TrayStep \/ Restart

-----------------------------------------------------------------------------
(* Properties.                                                             *)

\* Wherever the app ends between two writes: while onboarding is unfinished a
\* linked app is held paused, or everything is off (pair_confirm, "nothing the
\* owner picks halfway through takes effect early").
NothingBeforeChosen ==
    /\ ~slips.crossed /\ ~slips.unsaved /\ (slips.cut => doing["sync"] # "off")
    /\ served /\ ~prefs.onboarded /\ ~halt
    => settings = AllOff

\* The two records of a pause agree: a relaunch is paused exactly if the app is
\* now (actions.rs, pause, resume; main.rs, setup).
PauseSurvives ==
    ~slips.crossed /\ paired /\ Quiet => (halt <=> StartsPaused)

\* An app the owner refused stays refused: by an old file's words, through any
\* preset, restart and migration, until the owner allows it (settings.rs,
\* migrate; core.rs, apply_preset).
RefusedStays ==
    meant.refused /\ ~slips.crossed /\ ~slips.unsaved =>
        settings.refused /\ Loaded(file).refused

\* What has a switch of its own is on by the owner's switch alone: the command
\* line only in developer mode, the files not by a folder that is shared.
SwitchesAreTheOwners ==
    Quiet /\ ~slips.cut /\ ~slips.unsaved =>
        (settings.shell => prefs.developer) /\ (settings.files => meant.files)

-----------------------------------------------------------------------------
(* Claims of the repository that the code does not keep (README.md, 8).    *)

\* pair_confirm: "the core is held paused until onboarding is finished".
HeldUntilFinished == served /\ ~prefs.onboarded /\ ~halt => settings = AllOff

\* account.rs, of the sync: it "starts or ends the onboarding when the first link
\* comes or the last one goes".
FirstLinkStarts == [][~paired /\ paired' => \E t \in Tasks : doing'[t] = "off"]_policyVars

\* set_developer: "nothing of it stays on out of sight".
NothingOutOfSight == Quiet => (settings.shell => prefs.developer)

\* add_root_keeping_switch: "Adding a folder while the owner has file access
\* switched off must not switch it back on."
FolderKeepsSwitch == Quiet /\ ~slips.crossed /\ ~slips.unsaved => (settings.files => meant.files)
=============================================================================
