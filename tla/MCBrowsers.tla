----------------------------- MODULE MCBrowsers -----------------------------
(***************************************************************************)
(* What runs beside the app, for TLC: a browser and what the app keeps     *)
(* about its extension, the endpoint with the helper that dials it, the    *)
(* sign-in of the platform account, which the browser brings back, and the *)
(* runtime of the driver that is asked for its lists.  Of the endpoint     *)
(* only "the connection ends and comes back" reaches the extension         *)
(* (Connect, Leave), and nothing else is shared, so a behaviour is of one  *)
(* kind and the others' variables rest.                                    *)
(***************************************************************************)
EXTENDS Browsers, NativeHost, Lister, SignIn

VARIABLE kind

vars == <<kind, browserVars, hostVars, listerVars, signVars>>

Init ==
    /\ kind \in {"browser", "door", "lister", "account"}
    /\ BrowserInit /\ HostInit /\ ListerInit /\ SignInit

BrowserStep == kind = "browser" /\ BrowserNext /\ UNCHANGED <<kind, hostVars, listerVars, signVars>>
DoorStep == kind = "door" /\ HostNext /\ UNCHANGED <<kind, browserVars, listerVars, signVars>>
ListerStep == kind = "lister" /\ ListerNext /\ UNCHANGED <<kind, browserVars, hostVars, signVars>>
AccountStep == kind = "account" /\ SignNext /\ UNCHANGED <<kind, browserVars, hostVars, listerVars>>
Next == BrowserStep \/ DoorStep \/ ListerStep \/ AccountStep

\* Both ends read what arrives; the helper dials, notices a loss, passes on
\* what the browser says, and an app that serves reads; who asks for a list
\* writes, hears the answer or times out.  A completion and what holds `busy`
\* are tasks that are not stopped, a sync comes round every ten minutes, and
\* the platform that is asked again and again is reached at last.
Spec ==
    /\ Init /\ [][Next]_vars
    /\ WF_browserVars(kind = "browser" /\ BrowserHears) /\ WF_browserVars(kind = "browser" /\ ExtGets)
    /\ WF_hostVars(kind = "door" /\ Dial) /\ WF_hostVars(kind = "door" /\ LinkLost)
    /\ WF_hostVars(kind = "door" /\ PassOn) /\ WF_hostVars(kind = "door" /\ AppReads)
    /\ WF_listerVars(kind = "lister" /\ QuestionGoes)
    /\ \A i \in Ids : WF_signVars(kind = "account" /\ Completes(i))
    /\ WF_signVars(kind = "account" /\ SyncBegins) /\ SF_signVars(kind = "account" /\ Refused)
    /\ WF_signVars(kind = "account" /\ (MeAnswers \/ MeFails \/ Refused))
    /\ WF_signVars(kind = "account" /\ (SyncConsents \/ SyncConnects \/ LogoutEnds \/ SignOutLocal))

\* Every variable of the four modules has its type; the queue to the
\* extension is never longer than OUT_QUEUE, and a runtime that is down
\* leaves no answer behind.
BrowsersTypeOK == BrowserTypeOK /\ HostTypeOK /\ ListerTypeOK /\ SignTypeOK

\* A browser counts as linked only where the owner confirmed it, and with the
\* vault it is linked to (browser.rs, pair_done, hello).
LinksAreTheOwners == BrowsersTypeOK /\ LinkedByOwner /\ LinkedToItsVault

\* The app that serves is at the path, and the browser is told whether it is
\* (transport.rs, bind; host.rs, relay).
HelperIsRight == ServesAtThePath /\ BrowserIsTold

\* The app is signed in by a sign-in the owner waited for, with the token of the
\* account it shows and no more allowed than the owner confirmed for it
\* (account.rs, login_complete, sign_out).
SignInIsOwn == OfOneSignIn

\* A site goes back, a message is answered, the helper finds the app that
\* stays, a question for a list ends, and an app the platform refuses is signed
\* out (browser.rs, browsers_revoke_site; host.rs, relay; cua_apps.rs,
\* Directory::call; account.rs, account_sync).
QuestionsEnd ==
    SiteGoesBack /\ EveryAskAnswered /\ Reconnects /\ QuestionEnds /\ RefusedSignsOut
=============================================================================
