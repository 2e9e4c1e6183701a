------------------------------ MODULE Directory ------------------------------
(***************************************************************************)
(* Which apps a call of the synth may touch (cua_apps.rs; the gate of one  *)
(* call in mcp.rs, without its lease, which is in Lease).                  *)
(*                                                                         *)
(* "Every app except these" is decided in the pipe: a call's window is     *)
(* resolved to its process and the process to its app, from lists a second *)
(* runtime of the driver (the Lister) reads and the app trusts for a       *)
(* while.  In between apps quit and start, and a pid or a window id is     *)
(* given away again.  One lock is held for a reading; the stream and the   *)
(* owner's own screens share it.                                           *)
(*                                                                         *)
(* Time is counted so that 1 is REFRESH_GAP; a list that was never read    *)
(* counts as one that is too old.  One call at a time: a stream decides    *)
(* its lines one after the other, and other streams share only the lists.  *)
(* The mode in which a window comes to the front when the owner is away,   *)
(* the folders a call may name and the picture taken before an action are  *)
(* left out: they refuse, or look.                                         *)
(***************************************************************************)
EXTENDS Naturals, FiniteSets

CONSTANTS
    Apps,           \* every app there can be
    Listed,         \* the apps on the owner's list
    Twins,          \* apps that share one name
    Pids, Windows,  \* the numbers processes and windows are given
    WindowsTTL, AppsTTL,    \* WINDOWS_TTL and APPS_TTL, in REFRESH_GAPs
    MaxEvents       \* bound: changes of the screen or a setting, the owner's readings

ASSUME DirectoryAssumption ==
    /\ "none" \notin Apps \cup Pids \cup Windows /\ Listed \subseteq Apps
    /\ WindowsTTL \in Nat /\ AppsTTL \in Nat /\ MaxEvents \in Nat

VARIABLES
    screen,     \* which app runs as which pid, who owns a window, what is installed
    rows,       \* the last reading of the two lists
    age,        \* how old each reading is
    moved,      \* history: what changed hands since each reading
    reading,    \* who reads what, under the lock
    scope,      \* the choice the session's daemon was started with
    set,        \* the owner's settings: policy in force, denylist, foreground
    req,        \* the synth's call
    events      \* how many of MaxEvents have been

dirVars == <<screen, rows, age, moved, reading, scope, set, req, events>>

Nil == "none"
Lists == {"apps", "windows"}
TTL(l) == IF l = "apps" THEN AppsTTL ELSE WindowsTTL
NameOf(a) == IF a \in Twins THEN "twin" ELSE a

\* What each list tells of.
Of(l) == IF l = "apps" THEN Pids \cup Apps ELSE Windows

\* What a call is about (Kind); "unknown" is a tool that is not in TOOLS.
\* "page" is a page tool that names a window; one that names a page the
\* driver already opened is not looked at again and left out here.
Nothing == [kind |-> "free", pid |-> Nil, window |-> Nil, desktop |-> FALSE, name |-> Nil]
Wants ==
    [kind : {"window", "page"}, pid : Pids \cup {Nil}, window : Windows \cup {Nil}, desktop : {FALSE}, name : {Nil}]
    \cup {[Nothing EXCEPT !.kind = "pointer", !.desktop = d] : d \in BOOLEAN}
    \cup {[Nothing EXCEPT !.kind = "launch", !.name = n] : n \in {NameOf(a) : a \in Apps} \cup {Nil}}
    \cup {[Nothing EXCEPT !.kind = "windows", !.pid = p] : p \in Pids \cup {Nil}}
    \cup {[Nothing EXCEPT !.kind = k] : k \in {"apps", "screen", "clipboard", "unknown"}} \cup {Nothing}

NoCall ==
    [at |-> "idle", want |-> Nothing, pids |-> {}, known |-> {}, moved |-> FALSE, late |-> FALSE,
     fresh |-> {}, foreground |-> "always", touched |-> {}]
Ended(at) == [NoCall EXCEPT !.at = at]
NoReading == [who |-> Nil, list |-> Nil]

Stages == {"idle", "owner", "app", "answer", "launch", "foreground", "asked", "ready", "driver",
           "done", "closed"}

DirectoryTypeOK ==
    /\ screen \in [runs : [Pids -> Apps \cup {Nil}], owner : [Windows -> Pids \cup {Nil}], installed : SUBSET Apps]
    /\ rows \in [runs : [Pids -> Apps \cup {Nil}], owner : [Windows -> Pids \cup {Nil}], installed : SUBSET Apps]
    /\ \A l \in Lists : age[l] \in 0 .. TTL(l) /\ moved[l] \subseteq Of(l)
    /\ reading \in [who : {Nil, "call", "owner"}, list : Lists \cup {Nil}]
    /\ reading.who = "call" => req.at \in {"owner", "app", "answer", "launch"}
    /\ scope \in {"all", "except", "only"}
    /\ set \in [ok : BOOLEAN, denied : BOOLEAN, foreground : {"never", "ask"}]
    /\ req.at \in Stages /\ req.pids \subseteq Pids /\ req.known \subseteq req.pids
    /\ req.fresh \subseteq Lists /\ req.touched \subseteq Apps
    /\ events \in 0 .. MaxEvents

DirectoryInit ==
    /\ screen \in [runs : [Pids -> Apps \cup {Nil}], owner : [Windows -> Pids \cup {Nil}], installed : SUBSET Apps]
    /\ \A p \in Pids : screen.runs[p] \in screen.installed \cup {Nil}
    /\ \A w \in Windows : screen.owner[w] # Nil => screen.runs[screen.owner[w]] # Nil
    /\ rows = [runs |-> [p \in Pids |-> Nil], owner |-> [w \in Windows |-> Nil], installed |-> {}]
    /\ age = [l \in Lists |-> TTL(l)] /\ moved = [l \in Lists |-> Of(l)]
    /\ reading = NoReading
    /\ scope \in {"all", "except", "only"}
    /\ set = [ok |-> TRUE, denied |-> FALSE, foreground |-> "ask"]
    /\ req = NoCall
    /\ events = 0

-----------------------------------------------------------------------------
Underway == Stages \ {"idle", "done", "closed"}
Named(n, apps) == {a \in apps : NameOf(a) = n}

\* What a call is about.
About(c) ==
    CASE c.want.kind = "windows" -> Pids \cup Windows
      [] c.want.kind = "launch" -> Named(c.want.name, Apps)
      [] OTHER -> c.pids \cup {c.want.pid, c.want.window}

(* The screen, the clock and the owner.                                    *)

Event == events < MaxEvents /\ events' = events + 1

\* Something changes hands: every reading made before, and every answer or
\* call that rests on one, is out of date about it.
Moves(x, s) ==
    /\ screen' = s
    /\ moved' = [l \in Lists |-> moved[l] \cup (x \cap Of(l))]
    /\ req' = [req EXCEPT !.moved = @ \/ (req.at \in Underway /\ x \cap About(req) # {})]
    /\ UNCHANGED <<rows, age, reading, scope, set>>

Starts(p, a) ==
    /\ screen.runs[p] = Nil /\ a \in screen.installed /\ Event
    /\ Moves({p}, [screen EXCEPT !.runs[p] = a])

Quits(p) ==
    /\ screen.runs[p] # Nil /\ Event
    /\ LET its == {w \in Windows : screen.owner[w] = p}
       IN  Moves({p} \cup its, [screen EXCEPT !.runs[p] = Nil,
                                              !.owner = [w \in Windows |-> IF w \in its THEN Nil ELSE @[w]]])

Opens(w, p) ==
    /\ screen.owner[w] = Nil /\ screen.runs[p] # Nil /\ Event
    /\ Moves({w}, [screen EXCEPT !.owner[w] = p])

Installs(a) ==
    /\ a \notin screen.installed /\ Event
    /\ Moves({a}, [screen EXCEPT !.installed = @ \cup {a}])

\* Time that passes during a reading passes before it.
TimePasses ==
    /\ reading.who = Nil
    /\ \E l \in Lists : age[l] < TTL(l)
    /\ age' = [l \in Lists |-> IF age[l] < TTL(l) THEN age[l] + 1 ELSE age[l]]
    /\ UNCHANGED <<screen, rows, moved, reading, scope, set, req, events>>

\* Pause, the switch, the lock, the owner coming back; the lists of tools;
\* how a window may come to the front.
OwnerSets(s) ==
    /\ Event
    /\ set' = s
    /\ UNCHANGED <<screen, rows, age, moved, reading, scope, req>>

-----------------------------------------------------------------------------
(* The lists (Directory::apps, windows_listing, ...; the way to the driver *)
(* is in Lister).                                                          *)

\* Somebody takes the lock and asks the driver.
Reads(who, l) == reading' = [who |-> who, list |-> l]

\* The owner's picker: `apps_fresh`.
OwnerReads ==
    /\ reading.who = Nil /\ Event
    /\ Reads("owner", "apps")
    /\ UNCHANGED <<screen, rows, age, moved, scope, set, req>>

\* The rows are replaced and their time is set.  (The driver looked at the screen at
\* some moment of the reading; it is taken to be the last, so that what changes on
\* the way of an answer counts as changed before it was read.)
ReadsRows ==
    /\ reading.who # Nil
    /\ rows' = IF reading.list = "apps" THEN [screen EXCEPT !.owner = rows.owner] ELSE [rows EXCEPT !.owner = screen.owner]
    /\ age' = [age EXCEPT ![reading.list] = 0]
    /\ moved' = [moved EXCEPT ![reading.list] = {}]
    /\ req' = IF reading.who = "call" THEN [req EXCEPT !.fresh = @ \cup {reading.list}] ELSE req
    /\ reading' = NoReading
    /\ UNCHANGED <<screen, scope, set, events>>

\* The driver could not be asked: the old rows and their time stay, the call
\* is answered `unavailable`.
ReadFails ==
    /\ reading.who # Nil
    /\ reading' = NoReading
    /\ req' = IF reading.who = "call" THEN NoCall ELSE req
    /\ UNCHANGED <<screen, rows, age, moved, scope, set, events>>

-----------------------------------------------------------------------------
(* One call (filter_scoped, decide).                                       *)

\* Scope::allows.
Allows(a) ==
    CASE scope = "all" -> TRUE
      [] scope = "except" -> a \notin Listed
      [] scope = "only" -> a \in Listed

\* Mutant of Trusted: what was read once is trusted while it lasts.
TrustedForEver(l) == l \in req.fresh \/ age[l] <= TTL(l)

\* A reading of the call's own, or a recent one.
Trusted(l) == l \in req.fresh \/ age[l] < TTL(l)

\* The call looked at list l and goes on as c.
Uses(l, c) ==
    /\ req' = [c EXCEPT !.fresh = @ \ {l}, !.moved = @ \/ moved[l] \cap About(c) # {},
                         !.late = @ \/ (l \notin req.fresh /\ age[l] >= TTL(l))]
    /\ UNCHANGED <<screen, rows, age, moved, reading, scope, set, events>>

CallReads(l) ==
    /\ Reads("call", l)
    /\ UNCHANGED <<screen, rows, age, moved, scope, set, req, events>>

CallGoes(at) ==
    /\ req' = IF at \in Underway THEN [req EXCEPT !.at = at] ELSE Ended(at)
    /\ UNCHANGED <<screen, rows, age, moved, reading, scope, set, events>>

\* The synth gets an error.
Refused == CallGoes("idle")

\* Where `decide` sends a call before it looks at any list.
FirstStage(w) ==
    IF scope = "all" \/ w.kind = "free" THEN "foreground"
    ELSE IF w.kind \in {"unknown", "screen"} \/ w.desktop THEN "idle"
    ELSE CASE w.kind = "clipboard" -> IF scope = "only" THEN "idle" ELSE "foreground"
           [] w.kind = "apps" -> "answer"
           [] w.kind = "windows" -> IF w.pid = Nil THEN "answer" ELSE "app"
           [] w.kind = "launch" -> IF w.name = Nil THEN "idle" ELSE "launch"
           [] w.kind = "pointer" -> IF scope = "only" THEN "idle" ELSE "foreground"
           [] w.kind \in {"window", "page"} ->
                IF w.kind = "page" /\ scope = "only" THEN "idle"
                ELSE IF w.window # Nil THEN "owner"
                ELSE IF w.pid # Nil THEN "app" ELSE "idle"

\* The settings are read once, before everything that waits.
Arrives(w, fore) ==
    /\ req.at \notin Underway
    /\ req' = IF set.ok /\ ~set.denied /\ FirstStage(w) # "idle"
                 THEN [NoCall EXCEPT !.at = FirstStage(w),
                                     !.want = IF FirstStage(w) = "foreground" THEN Nothing ELSE w,
                                     !.foreground = IF fore THEN set.foreground ELSE "always",
                                     !.pids = IF w.pid = Nil THEN {} ELSE {w.pid}]
                 ELSE NoCall
    /\ UNCHANGED <<screen, rows, age, moved, reading, scope, set, events>>

\* What a look at list l finds for v: an answer, a need to read again (not
\* just after a reading), or nothing.
Known(l, v) == Trusted(l) /\ v # Nil
MustRead(l, v) == l \notin req.fresh /\ (~Trusted(l) \/ (v = Nil /\ age[l] # 0))
Unknown(l, v) == v = Nil /\ (l \in req.fresh \/ age[l] = 0)

\* Mutant of WithOwner: a pid in the call is believed.
NamedOnly(pids, p) == IF pids = {} THEN {p} ELSE pids

\* check_targets: the window's process is checked like one that is named.
WithOwner(pids, p) == pids \cup {p}

\* window_owner.
LooksOwner ==
    LET p == rows.owner[req.want.window]
    IN  /\ req.at = "owner" /\ reading.who = Nil
        /\ \/ Known("windows", p)
              /\ Uses("windows", [req EXCEPT !.at = "app", !.pids = WithOwner(@, p)])
           \/ Unknown("windows", p) /\ Refused
           \/ MustRead("windows", p) /\ CallReads("windows")

\* app_of_pid, for one process after the other.
LooksApp ==
    \E p \in req.pids \ req.known :
        LET a == rows.runs[p]
            c == [req EXCEPT !.known = @ \cup {p}]
        IN  /\ req.at = "app" /\ reading.who = Nil
            /\ \/ Known("apps", a) /\ ~Allows(a) /\ Refused
               \/ Known("apps", a) /\ Allows(a) /\ c.known # c.pids /\ Uses("apps", c)
               \/ /\ Known("apps", a) /\ Allows(a) /\ c.known = c.pids
                  /\ Uses("apps", [c EXCEPT !.at = IF req.want.kind = "windows" THEN "answer" ELSE "foreground"])
               \/ Unknown("apps", a) /\ Refused
               \/ MustRead("apps", a) /\ CallReads("apps")

\* Mutant of ShownApps: every window is shown.
ShowsAll == {screen.runs[rows.owner[w]] : w \in {v \in Windows : rows.owner[v] # Nil}}

\* windows_answer: the windows of running apps the synth may use.
ShownApps ==
    LET shown == {w \in Windows : LET p == rows.owner[w]
                                  IN  p # Nil /\ req.want.pid \in {Nil, p} /\ rows.runs[p] # Nil /\ Allows(rows.runs[p])}
    IN  {screen.runs[rows.owner[w]] : w \in shown}

\* list_apps and list_windows, answered by the app: the windows are read
\* now, the apps may be a minute old.  A list of apps says nothing of an app
\* that is left out.
AnswersList ==
    LET windows == req.want.kind = "windows"
    IN  /\ req.at = "answer" /\ reading.who = Nil
        /\ \/ windows /\ "windows" \notin req.fresh /\ CallReads("windows")
           \/ (windows => "windows" \in req.fresh) /\ ~Trusted("apps") /\ CallReads("apps")
           \/ /\ windows => "windows" \in req.fresh
              /\ Trusted("apps")
              /\ req' = [Ended("done") EXCEPT !.touched = IF windows THEN ShownApps \ {Nil} ELSE {},
                     !.moved = req.moved \/ \E l \in Lists : moved[l] \cap About(req) # {},
                     !.late = req.late \/ ("apps" \notin req.fresh /\ age["apps"] >= AppsTTL)]
              /\ UNCHANGED <<screen, rows, age, moved, reading, scope, set, events>>

\* Mutant of LaunchOk: one app of that name is enough.
OneMayStart(found) == \E a \in found : Allows(a)

\* launch: all apps of that name must be allowed.
LaunchOk(found) == found # {} /\ \A a \in found : Allows(a)

LooksLaunch ==
    /\ req.at = "launch" /\ reading.who = Nil
    /\ \/ ~Trusted("apps") /\ CallReads("apps")
       \/ /\ Trusted("apps")
          /\ IF LaunchOk(Named(req.want.name, rows.installed))
               THEN Uses("apps", [req EXCEPT !.at = "foreground"])
               ELSE Refused

\* The foreground gate, by the settings read at the beginning ("always" for
\* a call that brings nothing to the front); after
\* `ask_scoped` the owner or its timeout answers.
Foreground ==
    /\ req.at = "foreground"
    /\ \/ req.foreground = "always" /\ CallGoes("ready")
       \/ req.foreground = "never" /\ Refused
       \/ req.foreground = "ask" /\ CallGoes("asked")

OwnerAnswers == req.at = "asked" /\ (CallGoes("ready") \/ Refused)

\* to_driver: paused, switched off, locked or another mode in the meantime.
StillOk == set.ok

\* The line is written next to that check; what changes before the driver acts on it
\* changes before DriverActs.
Forwards == req.at = "ready" /\ (IF StillOk THEN CallGoes("driver") ELSE CallGoes("closed"))

\* The driver does it: to the app the pid is now, and the window's.  With
\* "only these" it checks that itself, but not what it starts.
Targets ==
    LET w == req.want.window
        pids == ({req.want.pid} \cup (IF w = Nil THEN {} ELSE {screen.owner[w]})) \ {Nil}
    IN  {screen.runs[p] : p \in pids} \ {Nil}

DriverActs ==
    /\ req.at = "driver"
    /\ \/ req.want.kind # "launch" /\ scope = "only" /\ ~(\A a \in Targets : Allows(a)) /\ Refused
       \/ \E apps \in IF req.want.kind = "launch" THEN {{a} : a \in Named(req.want.name, screen.installed)} ELSE {Targets} :
             /\ req.want.kind # "launch" /\ scope = "only" => \A a \in apps : Allows(a)
             /\ req' = IF apps = {} THEN NoCall
                          ELSE [Ended("done") EXCEPT !.touched = apps, !.moved = req.moved, !.late = req.late]
             /\ UNCHANGED <<screen, rows, age, moved, reading, scope, set, events>>

\* The stream ends, also in the middle of a reading: the lock is free, the
\* question stays in the pipe.
StreamEnds ==
    /\ req.at \in {"owner", "app", "answer", "launch", "foreground", "asked", "ready", "driver"}
    /\ req' = Ended("closed")
    /\ reading' = IF reading.who = "call" THEN NoReading ELSE reading
    /\ UNCHANGED <<screen, rows, age, moved, scope, set, events>>

\* Directory::stop, after the last session: the runtime ends, the readings
\* are not trusted any more.
Stops ==
    /\ req.at = "closed" /\ reading.who = Nil
    /\ age' = [l \in Lists |-> TTL(l)]
    /\ req' = NoCall
    /\ UNCHANGED <<screen, rows, moved, reading, scope, set, events>>

-----------------------------------------------------------------------------
ScreenMoves ==
    \/ \E p \in Pids : Quits(p) \/ \E a \in Apps : Starts(p, a)
    \/ \E w \in Windows, p \in Pids : Opens(w, p)
    \/ \E a \in Apps : Installs(a)

CallDecides == LooksOwner \/ LooksApp \/ AnswersList \/ LooksLaunch

DirectoryNext ==
    \/ ScreenMoves \/ TimePasses \/ OwnerReads \/ ReadsRows \/ ReadFails
    \/ OwnerSets([set EXCEPT !.ok = ~@]) \/ OwnerSets([set EXCEPT !.denied = ~@])
    \/ OwnerSets([set EXCEPT !.foreground = IF @ = "never" THEN "ask" ELSE "never"])
    \/ \E w \in Wants, fore \in BOOLEAN : (fore => w.kind = "window") /\ Arrives(w, fore)
    \/ CallDecides \/ Foreground \/ OwnerAnswers \/ Forwards \/ DriverActs \/ StreamEnds \/ Stops

-----------------------------------------------------------------------------
(* Properties.                                                             *)

\* A call touches an app it may not only where a pid or a window was given
\* away, or an app of that name was installed, since a reading that was not
\* older than its time, whichever pid the call names next to whichever window.
ExcludedUntouched ==
    \A a \in req.touched : Allows(a) \/ (~req.late /\ req.moved)

\* mcp.rs: "Decide one line from the synth by the owner's settings as they
\* are now." The denylist and the foreground are those of its arrival.
SettingsAsNow ==
    [][req.at = "ready" /\ req'.at = "driver" =>
         ~set.denied /\ (req.foreground = "ask" => set.foreground # "never")]_dirVars

\* cua_apps.rs: "every call is resolved to an app (from its pid and window
\* id) and refused when that app is excluded".
ExcludedNeverTouched == \A a \in req.touched : Allows(a)
=============================================================================
