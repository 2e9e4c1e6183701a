------------------------------- MODULE SignIn -------------------------------
(***************************************************************************)
(* The owner's platform account (account.rs): the sign-in through the      *)
(* browser, the sync and the sign-out.                                     *)
(*                                                                         *)
(* A sign-in is started, comes back from the browser with its state, and   *)
(* its code is exchanged for a token of the app; that completion runs      *)
(* beside everything else and is not among those that hold `busy`.  The    *)
(* sync and the sign-out are.  A sign-in is known by its number, which     *)
(* stands for its state, its verifier and the token it brings.  Of an      *)
(* account it is told whether one of its synths is linked; how a link is   *)
(* made, skipped and ended is in Links.  Whether LOGIN_TTL is over is      *)
(* chosen where it is asked; the phase is set next to `login`.             *)
(***************************************************************************)
EXTENDS Naturals

CONSTANTS
    Accounts,
    MaxLogins       \* bound: sign-ins started

ASSUME SignInAssumption == MaxLogins \in Nat /\ "none" \notin Accounts

Ids == 1 .. MaxLogins
NoLogin == 0
NoAccount == [id |-> "none", consented |-> FALSE]

VARIABLES
    made,           \* sign-ins started
    login,          \* State.login: the one that waits
    phase,          \* State.phase
    exch,           \* how far each completion is
    got,            \* whose token it brought
    same,           \* ... and that this account was stored already
    key,            \* account_token in the secret store
    account,        \* Persisted.account
    links,          \* accounts with a linked synth
    busy,           \* who holds State.busy, with its token and its list
    revoked,        \* tokens the platform does not take any more
    came,           \* the sign-ins that came back, in time, while they waited
    confirmed,      \* the accounts the owner confirmed since the last sign-out
    crossed         \* a sign-in was kept while another, a sync, a sign-out or the end of the
                    \* app was under way

signVars == <<made, login, phase, exch, got, same, key, account, links, busy, revoked, came, confirmed, crossed>>

Free == [op |-> "none", token |-> NoLogin, list |-> "none"]

SignTypeOK ==
    /\ made \in 0 .. MaxLogins /\ login \in 0 .. made /\ key \in 0 .. made
    /\ crossed \in BOOLEAN
    /\ phase \in {"idle", "waiting", "exchanging", "failed"}
    /\ exch \in [Ids -> {"none", "took", "fails", "asks", "answered", "kept", "compared", "told", "done"}]
    /\ got \in [Ids -> Accounts \cup {"none"}]
    /\ same \in [Ids -> BOOLEAN]
    /\ account \in [id : Accounts, consented : BOOLEAN] \cup {NoAccount}
    /\ links \in SUBSET Accounts /\ confirmed \in SUBSET Accounts
    /\ busy \in [op : {"none", "me", "consents", "connects", "logout", "key", "account", "memory", "links"},
                 token : 0 .. made, list : Accounts \cup {"none"}]
    /\ revoked \in SUBSET Ids /\ came \in SUBSET Ids

SignInit ==
    /\ made = 0 /\ login = NoLogin /\ phase = "idle"
    /\ exch = [i \in Ids |-> "none"] /\ got = [i \in Ids |-> "none"] /\ same = [i \in Ids |-> FALSE]
    /\ key = NoLogin /\ account = NoAccount /\ links = {} /\ busy = Free
    /\ revoked = {} /\ came = {} /\ confirmed = {} /\ crossed = FALSE

-----------------------------------------------------------------------------
(* The window: open the sign-in page, or the one that waits again; give    *)
(* up; confirm.                                                            *)

loginRest == <<exch, got, same, key, account, links, busy, revoked, came, confirmed, crossed>>

LoginUrl(late) ==
    /\ \/ login # NoLogin /\ ~late /\ UNCHANGED <<made, login>>
       \/ /\ login = NoLogin \/ late
          /\ made < MaxLogins
          /\ made' = made + 1 /\ login' = made + 1
    /\ phase' = "waiting"
    /\ UNCHANGED loginRest

LoginCancel ==
    /\ login' = NoLogin /\ phase' = "idle"
    /\ UNCHANGED <<made, loginRest>>

SignedIn == key # NoLogin /\ account # NoAccount

AccountConnect ==
    /\ SignedIn
    /\ account' = [account EXCEPT !.consented = TRUE]
    /\ confirmed' = confirmed \cup {account.id}
    /\ UNCHANGED <<made, login, phase, exch, got, same, key, links, busy, revoked, came, crossed>>

-----------------------------------------------------------------------------
(* The browser comes back with snth://login.  Any page can open such a     *)
(* link, any number of times: 0 is a state the app never made.             *)

IsWaited(i) == i # NoLogin /\ login = i

\* A link whose state is not the one waited for changes nothing.
Returns(i, late, allowed) ==
    /\ IsWaited(i)
    /\ exch' = [exch EXCEPT ![login] = IF late \/ ~allowed THEN "fails" ELSE "took"]
    /\ login' = NoLogin
    /\ came' = came \cup {i}
    /\ UNCHANGED <<made, phase, got, same, key, account, links, busy, revoked, confirmed, crossed>>

-----------------------------------------------------------------------------
(* login_complete, from then on.                                           *)

completionRest == <<made, login, links, busy, revoked, came, confirmed>>

Exchange(i) ==
    /\ exch[i] = "took"
    /\ exch' = [exch EXCEPT ![i] = "asks"]
    /\ phase' = "exchanging"
    /\ UNCHANGED <<got, same, key, account, crossed, completionRest>>

\* The platform answers with a token of an account, or not; or the thread that asks
\* is gone, and login_complete returns by its `?`, with the phase as it is.  (The `?`
\* before it, of platform(), would do the same.)
ExchangeAnswers(i) ==
    /\ exch[i] = "asks"
    /\ \/ \E a \in Accounts : exch' = [exch EXCEPT ![i] = "answered"] /\ got' = [got EXCEPT ![i] = a]
       \/ exch' = [exch EXCEPT ![i] = "fails"] /\ UNCHANGED got
       \/ exch' = [exch EXCEPT ![i] = "done"] /\ UNCHANGED got
    /\ UNCHANGED <<phase, same, key, account, crossed, completionRest>>

\* The ways out that tell why: too late, denied, refused, not stored.
LoginFails(i) ==
    /\ exch[i] = "fails"
    /\ exch' = [exch EXCEPT ![i] = "done"]
    /\ phase' = "failed"
    /\ UNCHANGED <<got, same, key, account, crossed, completionRest>>

Keeping(i) == exch[i] \in {"kept", "compared"}

\* The token is stored first, or the secret store refuses.
KeepsToken(i) ==
    /\ exch[i] = "answered"
    /\ \/ key' = i /\ exch' = [exch EXCEPT ![i] = "kept"]
       \/ exch' = [exch EXCEPT ![i] = "fails"] /\ UNCHANGED key
    /\ crossed' = (crossed \/ busy # Free \/ \E j \in Ids : Keeping(j))
    /\ UNCHANGED <<phase, got, same, account, completionRest>>

ComparesAccount(i) ==
    /\ exch[i] = "kept"
    /\ exch' = [exch EXCEPT ![i] = "compared"]
    /\ same' = [same EXCEPT ![i] = account # NoAccount /\ account.id = got[i]]
    /\ UNCHANGED <<phase, got, key, account, crossed, completionRest>>

\* Mutant of Keeps: what the owner allowed one account goes to the next.
KeepsAny(i) == account.consented

\* The same account keeps what the owner chose; another starts afresh.
Keeps(i) == same[i] /\ account.consented

\* Mutant of StoresAccount: an account that is stored is left as it is.
StoresFirst(i) ==
    /\ exch[i] = "compared"
    /\ exch' = [exch EXCEPT ![i] = "told"]
    /\ account' = IF account = NoAccount THEN [id |-> got[i], consented |-> FALSE] ELSE account
    /\ UNCHANGED <<phase, got, same, key, crossed, completionRest>>

StoresAccount(i) ==
    /\ exch[i] = "compared"
    /\ exch' = [exch EXCEPT ![i] = "told"]
    /\ account' = [id |-> got[i], consented |-> Keeps(i)]
    /\ UNCHANGED <<phase, got, same, key, crossed, completionRest>>

\* What is left of the completion is a sync (SyncBegins).
SignsIn(i) ==
    /\ exch[i] = "told"
    /\ exch' = [exch EXCEPT ![i] = "done"]
    /\ phase' = "idle"
    /\ UNCHANGED <<got, same, key, account, crossed, completionRest>>

Completes(i) ==
    \/ Exchange(i) \/ ExchangeAnswers(i) \/ LoginFails(i)
    \/ KeepsToken(i) \/ ComparesAccount(i) \/ StoresAccount(i) \/ SignsIn(i)

-----------------------------------------------------------------------------
(* account_sync: at the start, every ten minutes, when the window comes    *)
(* up, after a sign-in and after the owner confirmed.                      *)

syncRest == <<made, exch, got, same, revoked, came>>

SyncBegins ==
    /\ busy = Free /\ SignedIn
    /\ busy' = [op |-> "me", token |-> key, list |-> "none"]
    /\ crossed' = (crossed \/ \E i \in Ids : Keeping(i))
    /\ UNCHANGED <<login, phase, key, account, links, confirmed, syncRest>>

\* Mutant of MeRefused: the platform's word is taken for a lost connection.
RefusalIgnored == busy.op = "me" /\ busy.token \in revoked /\ busy' = Free

MeRefused == busy.op = "me" /\ busy.token \in revoked /\ busy' = [busy EXCEPT !.op = "key"]

\* The synths of another account lose their links.
MeAnswers ==
    /\ busy.op = "me" /\ busy.token \notin revoked
    /\ LET of == got[busy.token] IN
       /\ busy' = [busy EXCEPT !.op = "consents", !.list = of]
       /\ links' = links \cap {of}
    /\ UNCHANGED <<login, phase, key, account, confirmed, crossed, syncRest>>

MeFails ==
    /\ busy.op = "me" /\ busy.token \notin revoked /\ busy' = Free
    /\ UNCHANGED <<login, phase, key, account, links, confirmed, crossed, syncRest>>

Refused == MeRefused /\ UNCHANGED <<login, phase, key, account, links, confirmed, crossed, syncRest>>

\* Mutant of MayLink: the list is linked as soon as it is there.
LinkAtOnce == busy.list \notin links

MayLink == account.consented /\ busy.list \notin links

\* The stored account is read again after the list was; connect_one reads the
\* token again.
SyncConsents ==
    /\ busy.op = "consents"
    /\ busy' = IF MayLink /\ key # NoLogin THEN [busy EXCEPT !.op = "connects", !.token = key] ELSE Free
    /\ UNCHANGED <<login, phase, key, account, links, confirmed, crossed, syncRest>>

\* The platform gives a token for a synth of the account it knows the app by.
SyncConnects ==
    /\ busy.op = "connects" /\ busy' = Free
    /\ links' = IF busy.token \notin revoked /\ got[busy.token] = busy.list THEN links \cup {busy.list} ELSE links
    /\ UNCHANGED <<login, phase, key, account, confirmed, crossed, syncRest>>

-----------------------------------------------------------------------------
(* sign_out: the platform revokes the token, as far as it is reached; then *)
(* sign_out_local, which a refused token comes to as well.                 *)

SignOut ==
    /\ busy = Free
    /\ busy' = [Free EXCEPT !.op = IF key = NoLogin THEN "key" ELSE "logout", !.token = key]
    /\ crossed' = (crossed \/ \E i \in Ids : Keeping(i))
    /\ UNCHANGED <<login, phase, key, account, links, confirmed, syncRest>>

LogoutEnds ==
    /\ busy.op = "logout" /\ busy' = [busy EXCEPT !.op = "key"]
    /\ revoked' \in {revoked, revoked \cup {busy.token}}
    /\ UNCHANGED <<made, login, phase, exch, got, same, key, account, links, came, confirmed, crossed>>

DeletesKey ==
    /\ busy.op = "key" /\ busy' = [busy EXCEPT !.op = "account"]
    /\ key' = NoLogin
    /\ UNCHANGED <<login, phase, account, links, confirmed, crossed, syncRest>>

ForgetsAccount ==
    /\ busy.op = "account" /\ busy' = [busy EXCEPT !.op = "memory"]
    /\ account' = NoAccount /\ confirmed' = {}
    /\ UNCHANGED <<login, phase, key, links, crossed, syncRest>>

ForgetsLogin ==
    /\ busy.op = "memory" /\ busy' = [busy EXCEPT !.op = "links"]
    /\ login' = NoLogin /\ phase' = "idle"
    /\ UNCHANGED <<key, account, links, confirmed, crossed, syncRest>>

RemovesLinks ==
    /\ busy.op = "links" /\ busy' = Free
    /\ links' = {}
    /\ UNCHANGED <<login, phase, key, account, confirmed, crossed, syncRest>>

SignOutLocal == DeletesKey \/ ForgetsAccount \/ ForgetsLogin \/ RemovesLinks

-----------------------------------------------------------------------------
(* Around it.                                                              *)

\* The owner removes this computer in the platform.
OwnerRemoves(i) ==
    /\ got[i] # "none" /\ i \in {key, busy.token} /\ revoked' = revoked \cup {i}
    /\ UNCHANGED <<made, login, phase, exch, got, same, key, account, links, busy, came, confirmed, crossed>>

\* The app ends and starts: the secret store and the file stay.  It is followed
\* where it leaves something half done; elsewhere it forgets no more than a cancel.
HalfDone == busy.op \in {"account", "memory", "links"} \/ \E i \in Ids : Keeping(i)

Restart ==
    /\ HalfDone
    /\ login' = NoLogin /\ phase' = "idle" /\ busy' = Free
    /\ exch' = [i \in Ids |-> IF exch[i] = "none" THEN "none" ELSE "done"]
    /\ crossed' = (crossed \/ \E i \in Ids : Keeping(i))
    /\ UNCHANGED <<made, got, same, key, account, links, revoked, came, confirmed>>

SyncMoves == MeAnswers \/ MeFails \/ Refused \/ SyncConsents \/ SyncConnects

SignNext ==
    \/ \E late \in BOOLEAN : LoginUrl(late)
    \/ LoginCancel \/ AccountConnect
    \/ \E i \in 0 .. made : \E late, allowed \in BOOLEAN : Returns(i, late, allowed)
    \/ \E i \in Ids : Completes(i) \/ OwnerRemoves(i)
    \/ SyncBegins \/ SyncMoves \/ SignOut \/ LogoutEnds \/ SignOutLocal
    \/ Restart

-----------------------------------------------------------------------------
(* Properties.                                                             *)

\* The token in the store is of a sign-in that came back with its own state while it
\* waited.  Token and account are stored apart, beside syncs, sign-outs and other
\* sign-ins; where nothing crossed those two writes they are of one account, and
\* what is allowed is what the owner confirmed for it (login_complete, sign_out).
OfOneSignIn ==
    /\ key # NoLogin => key \in came
    /\ ~crossed /\ SignedIn /\ (\A i \in Ids : ~Keeping(i)) => got[key] = account.id
    /\ ~crossed /\ account.consented => account.id \in confirmed

\* Where nothing crossed the steps that keep a sign-in, a link is made
\* only for an account the owner confirmed since the last sign-out: another
\* account starts afresh (account_sync, login_complete).
LinkedIsConfirmed == [][~crossed => links' \subseteq links \cup confirmed]_signVars

\* A token the platform refuses is dropped, with the account's links: also when
\* the owner removed this computer while a sync was under way (account_sync).
RefusedSignsOut ==
    \A i \in Ids : (key = i /\ account # NoAccount /\ i \in revoked) ~> (key # i \/ account = NoAccount)

-----------------------------------------------------------------------------
(* Claims of the repository that the code does not keep (README.md, 8).    *)

\* login_cancel: "The owner gave up on the sign-in in the browser."
CancelledStaysOut == [][phase = "idle" => account' = account \/ account' = [account EXCEPT !.consented = TRUE]]_signVars

\* "a refused app token ... signs the app out": that token, not the one of a
\* sign-in meanwhile.
OnlyRefusedSignsOut == [][key' = NoLogin /\ key # NoLogin => key = busy.token]_signVars

\* LoginPhase::Exchanging: "the app is exchanging the code."
ShownIsGoing == phase = "exchanging" => \E i \in Ids : exch[i] \notin {"none", "took", "done"}

\* The token is the stored account's.
TokenIsTheAccounts == SignedIn /\ ~(\E i \in Ids : Keeping(i)) => got[key] = account.id
=============================================================================
