----------------------------- MODULE NativeHost -----------------------------
(***************************************************************************)
(* The way from a browser to the app: the helper a Chromium browser starts *)
(* (connect-host, host.rs `relay`) and the endpoint the app serves         *)
(* (transport.rs `Listener`, browser.rs `run_browser_door`).               *)
(*                                                                         *)
(* The endpoint is a socket file.  An app that starts looks whether        *)
(* somebody serves it, removes a stale file, binds its own; when it ends   *)
(* it removes the file at that path, and when it crashes it does not.  A   *)
(* restart for an update has two apps at once for a moment.  The helper    *)
(* outlives them: it dials again and again, passes the browser's messages  *)
(* on, and answers "not_running" itself while it has no connection.        *)
(***************************************************************************)
EXTENDS Naturals, FiniteSets

CONSTANTS
    Apps, NoApp,    \* the processes of the app
    MaxTries        \* tries to bind before an app gives the endpoint up (10)

ASSUME HostAssumption == MaxTries \in Nat /\ NoApp \notin Apps

VARIABLES
    app, tries,     \* where each process stands
    sockFile,       \* whose socket is at the path
    hostLink,       \* the app the helper is connected to
    cutOff,         \* that app has ended since
    told, toldDown, \* what the browser was told last; told_down
    ask,            \* a message of the browser
    together        \* history: two apps were binding at once

hostVars == <<app, tries, sockFile, hostLink, cutOff, told, toldDown, ask, together>>

Binding == {"probe", "clean", "bind"}
Listens == {a \in Apps : app[a] \in {"serving", "ending"}}

HostTypeOK ==
    /\ app \in [Apps -> Binding \cup {"off", "serving", "ending", "gaveup"}]
    /\ tries \in [Apps -> 0 .. MaxTries]
    /\ sockFile \in Apps \cup {NoApp} /\ hostLink \in Apps \cup {NoApp} /\ cutOff \in BOOLEAN
    /\ told \in {"nothing", "connected", "not_running"} /\ toldDown \in BOOLEAN
    /\ ask \in {"none", "sent", "passed"} /\ together \in BOOLEAN

HostInit ==
    /\ app = [a \in Apps |-> "off"] /\ tries = [a \in Apps |-> 0]
    /\ sockFile = NoApp /\ hostLink = NoApp /\ cutOff = FALSE
    /\ told = "nothing" /\ toldDown = FALSE /\ ask = "none" /\ together = FALSE

-----------------------------------------------------------------------------
(* The app's end.                                                          *)

helper == <<hostLink, cutOff, told, toldDown, ask>>
AppGoes(a, stage) == app' = [app EXCEPT ![a] = stage]
Closes(a) == cutOff' = (cutOff \/ hostLink = a) /\ UNCHANGED <<hostLink, told, toldDown, ask>>

Start(a) ==
    /\ app[a] = "off"
    /\ AppGoes(a, "probe") /\ tries' = [tries EXCEPT ![a] = 0]
    /\ together' = (together \/ \E b \in Apps \ {a} : app[b] \in Binding)
    /\ UNCHANGED <<sockFile, helper>>

\* run_browser_door: AddrInUse is tried again a few times.
InUse(a) ==
    IF tries[a] < MaxTries
    THEN tries' = [tries EXCEPT ![a] = @ + 1] /\ AppGoes(a, "probe")
    ELSE AppGoes(a, "gaveup") /\ UNCHANGED tries

\* Listener::bind: is a socket file there, and does somebody serve it?
NeverServed == FALSE
IsServed == sockFile \in Listens
Probe(a) ==
    /\ app[a] = "probe"
    /\ \/ sockFile = NoApp /\ AppGoes(a, "bind") /\ UNCHANGED tries
       \/ sockFile # NoApp /\ IsServed /\ InUse(a)
       \/ sockFile # NoApp /\ ~IsServed /\ AppGoes(a, "clean") /\ UNCHANGED tries
    /\ UNCHANGED <<sockFile, helper, together>>
Clean(a) ==
    /\ app[a] = "clean"
    /\ \/ sockFile # NoApp /\ sockFile' = NoApp /\ AppGoes(a, "bind")
       \/ sockFile = NoApp /\ AppGoes(a, "gaveup") /\ UNCHANGED sockFile
    /\ UNCHANGED <<tries, helper, together>>
Bind(a) ==
    /\ app[a] = "bind"
    /\ \/ sockFile = NoApp /\ sockFile' = a /\ AppGoes(a, "serving") /\ UNCHANGED tries
       \/ sockFile # NoApp /\ InUse(a) /\ UNCHANGED sockFile
    /\ UNCHANGED <<helper, together>>

\* The app quits: the listener is dropped, the file at its path removed, the
\* connections closed.
Quit(a) ==
    /\ app[a] = "serving"
    /\ AppGoes(a, "ending")
    /\ UNCHANGED <<tries, sockFile, helper, together>>
ListenerDropped(a) ==
    /\ app[a] = "ending"
    /\ AppGoes(a, "off") /\ sockFile' = NoApp
    /\ Closes(a)
    /\ UNCHANGED <<tries, together>>
Crash(a) ==
    /\ app[a] # "off"
    /\ AppGoes(a, "off")
    /\ Closes(a)
    /\ UNCHANGED <<tries, sockFile, together>>

-----------------------------------------------------------------------------
(* The helper.                                                             *)

doors == <<app, tries, sockFile, together>>
Tell(what) == told' = what

\* relay, not connected: the next try.
TryOnce == ~toldDown
TryAgain == TRUE
Dial ==
    /\ hostLink = NoApp /\ TryAgain
    /\ IF sockFile # NoApp /\ app[sockFile] = "serving"
       THEN hostLink' = sockFile /\ toldDown' = FALSE /\ Tell("connected")
       ELSE /\ UNCHANGED hostLink
            /\ IF toldDown THEN UNCHANGED <<told, toldDown>> ELSE toldDown' = TRUE /\ Tell("not_running")
    /\ UNCHANGED <<doors, cutOff, ask>>

\* relay, connected: the app's end is closed.
NotTold == UNCHANGED <<told, ask>>
LossTold == Tell("not_running") /\ ask' = "none"
LinkLost ==
    /\ cutOff
    /\ hostLink' = NoApp /\ cutOff' = FALSE /\ toldDown' = TRUE
    /\ LossTold
    /\ UNCHANGED doors

\* A message of the browser: answered, passed on, or (the write fails) lost
\* with the connection.
BrowserAsks ==
    /\ ask = "none"
    /\ ask' = "sent"
    /\ UNCHANGED <<doors, hostLink, cutOff, told, toldDown>>
PassOn ==
    /\ ask = "sent"
    /\ \/ hostLink = NoApp /\ Tell("not_running") /\ ask' = "none" /\ UNCHANGED <<hostLink, cutOff, toldDown>>
       \/ hostLink # NoApp /\ ask' = "passed" /\ UNCHANGED <<hostLink, cutOff, told, toldDown>>
       \/ cutOff /\ hostLink' = NoApp /\ cutOff' = FALSE /\ toldDown' = TRUE /\ LossTold
    /\ UNCHANGED doors

\* The app reads it and answers.
AppReads ==
    /\ ask = "passed" /\ ~cutOff
    /\ ask' = "none"
    /\ UNCHANGED <<doors, hostLink, cutOff, told, toldDown>>

-----------------------------------------------------------------------------

HostNext ==
    \/ \E a \in Apps : Start(a) \/ Probe(a) \/ Clean(a) \/ Bind(a) \/ Quit(a) \/ ListenerDropped(a) \/ Crash(a)
    \/ Dial \/ LinkLost \/ BrowserAsks \/ PassOn \/ AppReads

HostSpec == HostInit /\ [][HostNext]_hostVars

-----------------------------------------------------------------------------
(* Properties.                                                             *)

\* Unless two apps bound at once, the app that serves is the one at the
\* path: a second copy and an app that ends take the endpoint from nobody.
ServesAtThePath ==
    ~together => \A a \in Apps : app[a] = "serving" => sockFile = a

\* What the browser believes: it is told of every loss and of every return.
BrowserIsTold ==
    /\ told = "connected" <=> hostLink # NoApp
    /\ toldDown => hostLink = NoApp

\* Every message of the browser is read by an app or answered by the helper,
\* also when the app ends with the message in its socket.
EveryAskAnswered == ask # "none" ~> ask = "none"

\* However often the app came and went, the helper finds the one that stays.
Reconnects ==
    \A a \in Apps : <>[](app[a] = "serving" /\ sockFile = a /\ Listens = {a}) => <>[](hostLink = a /\ ~cutOff)
=============================================================================
