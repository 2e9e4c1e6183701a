------------------------------ MODULE Browsers ------------------------------
(***************************************************************************)
(* A browser with the SNTH Vault extension and what the app keeps about it *)
(* (browser.rs; the cookies.get call of rpc.rs).                           *)
(*                                                                         *)
(* The extension connects, says hello, is linked to a synth's vault (the   *)
(* owner confirms, the synth hands out a code, the extension redeems it at *)
(* the hub), is asked for a site's cookies and is told to give a site back *)
(* once no standing answer of the owner covers it.  Its connection may end *)
(* and begin again at any moment, a pairing goes on meanwhile, and every   *)
(* message of either side waits in a queue; a full one drops what the app  *)
(* sends.  One browser profile, one site, several synths.                  *)
(***************************************************************************)
EXTENDS Naturals, Sequences, FiniteSets

CONSTANTS
    Synths, Nobody,
    MaxConns,       \* bound: connections of the extension
    OutQueue,       \* OUT_QUEUE
    MaxChanges      \* bound: pairings, reads and changes of the owner in a run

ASSUME BrowsersAssumption ==
    /\ MaxConns \in Nat /\ MaxChanges \in Nat /\ OutQueue \in Nat \ {0}
    /\ Nobody \notin Synths

VARIABLES
    slots,      \* the synths this computer is linked to
    answers,    \* synths with a standing answer "yes" for the site
    stored,     \* StoredBrowser: [linked, synth, dev]
    sess,       \* the connected session: SessionState and its number
    out, in,    \* messages to the extension, and from it
    ext,        \* the extension: the vault it is paired with, the site, a prompt
    pair,       \* the pairing each session asked for, which outlives it
    read,       \* the cookie read under way
    changes,
    yes,        \* history: synths the owner confirmed a pairing with
    codes,      \* history: a second code went out before the first was used
    strayed     \* history: the site was left as it is (see SiteGoesBack)

browserVars == <<slots, answers, stored, sess, out, in, ext, pair, read, changes, yes, codes, strayed>>

Who == Synths \cup {Nobody}
Conns == 1 .. MaxConns
NoSess == [id |-> 0, up |-> FALSE, greeted |-> FALSE, paired |-> FALSE, dev |-> Nobody, code |-> Nobody]
NoPair == [stage |-> "no", synth |-> Nobody, paired |-> FALSE, dev |-> Nobody]
NoRead == [stage |-> "no", id |-> 0, synth |-> Nobody]
NoRecord == [linked |-> FALSE, synth |-> Nobody, dev |-> Nobody]
Msg(type, who) == [type |-> type, who |-> who]

BrowserTypeOK ==
    /\ slots \subseteq Synths /\ answers \subseteq Synths
    /\ stored \in [linked : BOOLEAN, synth : Who, dev : Who]
    /\ sess \in [id : 0 .. MaxConns, up : BOOLEAN, greeted : BOOLEAN, paired : BOOLEAN, dev : Who, code : Who]
    /\ Len(out) <= OutQueue
    /\ \A i \in DOMAIN out : out[i] \in [type : {"ask", "revoke", "clear", "unpair", "code"}, who : Who]
    /\ \A i \in DOMAIN in : in[i] \in [type : {"hello", "state", "result", "refusal", "done"}, who : Who]
    /\ ext \in [dev : Who, site : BOOLEAN, asked : BOOLEAN]
    /\ pair \in [Conns -> [stage : {"no", "asking", "call"}, synth : Who, paired : BOOLEAN, dev : Who]]
    /\ read \in [stage : {"no", "waits"}, id : 0 .. MaxConns, synth : Who]
    /\ changes \in 0 .. MaxChanges /\ yes \subseteq Synths /\ codes \in BOOLEAN /\ strayed \in BOOLEAN

BrowserInit ==
    /\ slots = Synths /\ answers = Synths
    /\ stored = NoRecord /\ sess = NoSess /\ out = <<>> /\ in = <<>>
    /\ ext = [dev |-> Nobody, site |-> TRUE, asked |-> FALSE]
    /\ pair = [n \in Conns |-> NoPair] /\ read = NoRead /\ changes = 0
    /\ yes = {} /\ codes = FALSE /\ strayed = FALSE

-----------------------------------------------------------------------------
(* What the app says and remembers.                                        *)

\* Session::send: a full queue drops it.
Unbounded(msgs) == TRUE
Fits(msgs) == Len(out) + Len(msgs) <= OutQueue
Tells(msgs) ==
    IF sess.up /\ sess.greeted
    THEN /\ out' = IF Fits(msgs) THEN out \o msgs ELSE out
         /\ strayed' = (strayed \/ ~Fits(msgs))
    ELSE UNCHANGED <<out, strayed>>
Silent == UNCHANGED <<out, strayed>>

\* Whose answers the browser's sites go by.
Standing == IF stored.linked THEN stored.synth \in answers ELSE answers # {}

Unlinked == [stored EXCEPT !.linked = FALSE, !.synth = Nobody, !.dev = Nobody]
Linked(s, dev) == [linked |-> TRUE, synth |-> s, dev |-> dev]

-----------------------------------------------------------------------------
(* The connection.                                                         *)

\* serve_browser: a session of its own; its first message will be the hello.
Connect ==
    /\ ~sess.up /\ sess.id < MaxConns
    /\ sess' = [NoSess EXCEPT !.id = sess.id + 1, !.up = TRUE]
    /\ in' = <<Msg("hello", ext.dev)>>
    /\ UNCHANGED <<slots, answers, stored, out, ext, pair, read, changes, yes, codes, strayed>>

\* Leave: the session is gone, and whoever waited for it gets no answer.
Leave ==
    /\ sess.up
    /\ sess' = [NoSess EXCEPT !.id = sess.id]
    /\ out' = <<>> /\ in' = <<>> /\ ext' = [ext EXCEPT !.asked = FALSE]
    /\ read' = NoRead
    /\ UNCHANGED <<slots, answers, stored, pair, changes, yes, codes, strayed>>

Heard(type) == sess.up /\ in # <<>> /\ Head(in).type = type /\ in' = Tail(in)

\* hello: another pairing than the recorded one, or none, is no link any
\* more; and a site no standing answer covers is taken back.
NothingCompared == FALSE
NoLongerAllowed ==
    ext.site /\ ~(IF stored'.linked THEN stored'.synth \in answers ELSE answers # {})
Hello ==
    /\ Heard("hello")
    /\ LET dev == Head(in).who
           keep == dev # Nobody /\ (stored.dev = Nobody \/ stored.dev = dev)
       IN /\ sess' = [sess EXCEPT !.greeted = TRUE, !.paired = (dev # Nobody), !.dev = dev]
          /\ stored' = IF keep THEN stored ELSE Unlinked
    /\ IF NoLongerAllowed THEN out' = Append(out, Msg("revoke", Nobody)) ELSE UNCHANGED out
    /\ UNCHANGED <<slots, answers, ext, pair, read, changes, yes, codes, strayed>>

\* state_update: the pairing was removed in the extension.
StateUpdate ==
    /\ Heard("state")
    /\ sess' = [sess EXCEPT !.paired = FALSE, !.dev = Nobody]
    /\ stored' = Unlinked
    /\ UNCHANGED <<slots, answers, out, ext, pair, read, changes, yes, codes, strayed>>

-----------------------------------------------------------------------------
(* Linking a browser.                                                      *)

\* pair and the first half of pair_inner, one at a time for a session: asked for by
\* the extension (then there must be one synth only, and the owner confirms) or by
\* the owner.
Pair ==
    /\ sess.up /\ sess.greeted /\ pair[sess.id].stage = "no" /\ changes < MaxChanges
    /\ changes' = changes + 1
    /\ \E s \in slots, asks \in BOOLEAN :
         /\ asks => slots = {s}
         /\ pair' = [pair EXCEPT ![sess.id] = [stage |-> IF asks THEN "asking" ELSE "call", synth |-> s,
                                              paired |-> sess.paired, dev |-> sess.dev]]
         /\ yes' = IF asks THEN yes ELSE yes \cup {s}
    /\ UNCHANGED <<slots, answers, stored, sess, out, in, ext, read, codes, strayed>>

PairOver(n) == pair' = [pair EXCEPT ![n] = NoPair]

PairOwnerSays(n) ==
    /\ pair[n].stage = "asking"
    /\ \/ pair' = [pair EXCEPT ![n].stage = "call"] /\ yes' = yes \cup {pair[n].synth}
       \/ PairOver(n) /\ UNCHANGED yes
    /\ UNCHANGED <<slots, answers, stored, sess, out, in, ext, read, changes, codes, strayed>>

\* The synth does not answer, or not with what is needed.
PairFails(n) ==
    /\ pair[n].stage = "call" /\ PairOver(n)
    /\ UNCHANGED <<slots, answers, stored, sess, out, in, ext, read, changes, yes, codes, strayed>>

\* It held a pairing when it was asked: linked if the synth knows it.
AnyVault(dev, s) == dev # Nobody
KnownDevice(dev, s) == dev = s
PairKnown(n) ==
    /\ pair[n].stage = "call" /\ pair[n].paired /\ KnownDevice(pair[n].dev, pair[n].synth)
    /\ stored' = Linked(pair[n].synth, pair[n].dev)
    /\ PairOver(n)
    /\ strayed' = (strayed \/ pair[n].synth \notin answers)
    /\ UNCHANGED <<slots, answers, sess, out, in, ext, read, changes, yes, codes>>

\* Else a code goes to the session it was asked on, if that is still there.
PairCode(n) ==
    /\ pair[n].stage = "call" /\ ~pair[n].paired /\ PairOver(n)
    /\ IF sess.id = n /\ sess.up
       THEN /\ sess' = [sess EXCEPT !.code = pair[n].synth]
            /\ Tells(<<Msg("code", pair[n].synth)>>) /\ codes' = (codes \/ sess.code # Nobody)
       ELSE Silent /\ UNCHANGED <<sess, codes>>
    /\ UNCHANGED <<slots, answers, stored, in, ext, read, changes, yes>>

\* pair_done: only while a code is out, and not later than PAIR_WINDOW; whether that
\* is over is chosen.  The ids the hub gives the extension are well formed.
DoneAnyway(late) == TRUE
CodeIsOut(late) == sess.code # Nobody /\ ~late
PairDone(late) ==
    /\ Heard("done")
    /\ LET dev == Head(in).who
       IN IF CodeIsOut(late) /\ dev # Nobody
          THEN /\ sess' = [sess EXCEPT !.code = Nobody, !.paired = TRUE, !.dev = dev]
               /\ stored' = Linked(sess.code, dev)
               /\ strayed' = (strayed \/ sess.code \notin answers)
          ELSE sess' = [sess EXCEPT !.code = Nobody] /\ UNCHANGED <<stored, strayed>>
    /\ UNCHANGED <<slots, answers, out, ext, pair, read, changes, yes, codes>>

\* browser_unlink.
BrowserUnlink ==
    /\ stored.linked /\ changes < MaxChanges
    /\ changes' = changes + 1
    /\ stored' = Unlinked
    /\ sess' = IF sess.greeted THEN [sess EXCEPT !.paired = FALSE, !.dev = Nobody] ELSE sess
    /\ Tells(<<Msg("unpair", Nobody), Msg("clear", Nobody)>>)
    /\ UNCHANGED <<slots, answers, in, ext, pair, read, yes, codes>>

-----------------------------------------------------------------------------
(* Cookies.                                                                *)

\* cookies_via_extension and Hub::ask: a connected browser that is linked to
\* the synth that asks.
AskCookies ==
    /\ read.stage = "no" /\ sess.up /\ sess.greeted /\ Fits(<<1>>) /\ changes < MaxChanges
    /\ changes' = changes + 1
    /\ stored.linked /\ stored.synth \in slots
    /\ read' = [stage |-> "waits", id |-> sess.id, synth |-> stored.synth]
    /\ out' = Append(out, Msg("ask", Nobody))
    /\ UNCHANGED <<slots, answers, stored, sess, in, ext, pair, yes, codes, strayed>>

\* Hub::answer and cookies_from: the site is kept only on a standing answer.
KeptAnyway(s) == TRUE
KeepsSite(s) == s \in answers
Answer ==
    /\ sess.up /\ in # <<>> /\ Head(in).type \in {"result", "refusal"} /\ in' = Tail(in)
    /\ IF read.stage = "waits" /\ Head(in).type = "result" /\ ~KeepsSite(read.synth)
       THEN Tells(<<Msg("revoke", Nobody)>>)
       ELSE /\ strayed' = (strayed \/ (Head(in).type = "result" /\ (read.stage = "no" \/ read.synth # stored.synth)))
            /\ UNCHANGED out
    /\ read' = NoRead
    /\ UNCHANGED <<slots, answers, stored, sess, ext, pair, changes, yes, codes>>
AskTimesOut ==
    /\ read.stage = "waits"
    /\ read' = NoRead
    /\ UNCHANGED <<slots, answers, stored, sess, out, in, ext, pair, changes, yes, codes, strayed>>

-----------------------------------------------------------------------------
(* The owner's other changes.                                              *)

\* browsers_revoke_site: a linked browser goes by its own synth, another by all.
TakesBack(s) == IF stored.linked THEN stored.synth = s ELSE answers' = {}
RevokeSite(s) ==
    /\ s \in answers /\ changes < MaxChanges
    /\ changes' = changes + 1 /\ answers' = answers \ {s}
    /\ IF TakesBack(s) THEN Tells(<<Msg("revoke", Nobody)>>) ELSE Silent
    /\ UNCHANGED <<slots, stored, sess, in, ext, pair, read, yes, codes>>

\* A timed answer runs out.
AnswerExpires(s) ==
    /\ s \in answers /\ changes < MaxChanges
    /\ changes' = changes + 1 /\ answers' = answers \ {s}
    /\ strayed' = TRUE
    /\ UNCHANGED <<slots, stored, sess, out, in, ext, pair, read, yes, codes>>

\* browsers_synth_removed: the unlinked synth's answers go with it.
OwnBrowserOnly(s) == stored.linked /\ stored.synth = s
ForgetsSite(s) == OwnBrowserOnly(s) \/ slots' = {}
SynthRemoved(s) ==
    /\ s \in slots /\ changes < MaxChanges
    /\ changes' = changes + 1
    /\ slots' = slots \ {s} /\ answers' = answers \ {s}
    /\ stored' = IF stored.linked /\ ForgetsSite(s)
                 THEN [stored EXCEPT !.linked = FALSE, !.synth = Nobody] ELSE stored
    /\ IF ForgetsSite(s)
       THEN Tells(<<Msg("clear", Nobody)>>)
       ELSE strayed' = (strayed \/ ~stored.linked) /\ UNCHANGED out
    /\ UNCHANGED <<sess, in, ext, pair, read, yes, codes>>

-----------------------------------------------------------------------------
(* The extension.                                                          *)

Replies(msgs) == in' = in \o msgs
ExtGets ==
    /\ out # <<>> /\ out' = Tail(out)
    /\ LET msg == Head(out)
       IN CASE msg.type = "ask" -> /\ ext' = [ext EXCEPT !.asked = TRUE]
                                   /\ UNCHANGED in
            [] msg.type \in {"revoke", "clear"} -> /\ ext' = [ext EXCEPT !.site = FALSE]
                                                   /\ UNCHANGED in
            [] msg.type = "unpair" -> ext' = [ext EXCEPT !.dev = Nobody] /\ UNCHANGED in
            [] msg.type = "code" ->
                 \/ ext' = [ext EXCEPT !.dev = msg.who] /\ Replies(<<Msg("done", msg.who)>>)
                 \/ UNCHANGED ext /\ Replies(<<Msg("done", Nobody)>>)
    /\ UNCHANGED <<slots, answers, stored, sess, pair, read, changes, yes, codes, strayed>>

\* The owner confirms the site in the browser, or does not.
ExtAnswers ==
    /\ ext.asked
    /\ \/ ext' = [ext EXCEPT !.asked = FALSE, !.site = TRUE] /\ Replies(<<Msg("result", Nobody)>>)
       \/ ext' = [ext EXCEPT !.asked = FALSE] /\ Replies(<<Msg("refusal", Nobody)>>)
    /\ UNCHANGED <<slots, answers, stored, sess, out, pair, read, changes, yes, codes, strayed>>

\* The owner removes the pairing in the extension.
ExtUnpairs ==
    /\ sess.greeted /\ ext.dev # Nobody /\ changes < MaxChanges
    /\ changes' = changes + 1
    /\ ext' = [ext EXCEPT !.dev = Nobody] /\ Replies(<<Msg("state", Nobody)>>)
    /\ UNCHANGED <<slots, answers, stored, sess, out, pair, read, yes, codes, strayed>>

-----------------------------------------------------------------------------

\* Messages are read, whatever they are.
BrowserHears == Hello \/ StateUpdate \/ (\E late \in BOOLEAN : PairDone(late)) \/ Answer
BrowserNext ==
    \/ BrowserHears \/ ExtGets \/ ExtAnswers \/ ExtUnpairs
    \/ Connect \/ Leave \/ Pair
    \/ \E n \in Conns : PairOwnerSays(n) \/ PairFails(n) \/ PairKnown(n) \/ PairCode(n)
    \/ BrowserUnlink \/ AskCookies \/ AskTimesOut
    \/ \E s \in Synths : RevokeSite(s) \/ AnswerExpires(s) \/ SynthRemoved(s)

BrowserSpec == BrowserInit /\ [][BrowserNext]_browserVars

-----------------------------------------------------------------------------
(* Properties.                                                             *)

\* A browser counts as linked only to a synth the owner confirmed it for:
\* a "done" nobody waits for, a pairing with another synth's vault and a
\* hello with an old pairing link nothing.
LinkedByOwner == stored.linked => stored.synth \in yes

\* While one code is out at a time, the pairing recorded for a linked
\* browser is one with the vault of the synth it is linked to.
LinkedToItsVault == stored.linked /\ ~codes => stored.dev = stored.synth

\* What no standing answer of the owner covers does not stay readable in a
\* connected browser: a revocation, an unlinked synth, a read without a
\* standing answer and a hello each take it back.  (Not so after an answer
\* that ran out, a link to a synth without an answer, a full queue, an
\* unlinked synth while the browser is linked to none, a browser linked to
\* another synth during a read, or a confirmation in the browser that came
\* too late: README.md, 8.)
SiteGoesBack ==
    (sess.greeted /\ ext.site /\ ~Standing /\ ~strayed)
        ~> (~sess.greeted \/ ~ext.site \/ Standing \/ strayed)

-----------------------------------------------------------------------------
(* Claims of the repository that the code does not keep (README.md, 8).    *)

\* browser.rs: "A site the owner no longer allows must not stay readable in
\* the browser."
SiteNotKept ==
    (sess.greeted /\ ext.site /\ ~Standing) ~> (~sess.greeted \/ ~ext.site \/ Standing)

\* browser.rs: "The browsers linked to that synth's vault are not linked any
\* more."
LinkedToLinked == stored.linked => stored.synth \in slots

\* browser.rs: "Only a linked browser is asked for cookies, and only for its
\* own synth."
VaultMatches == stored.linked => stored.dev = stored.synth
=============================================================================
