--------------------------- MODULE BrowsersProofs ---------------------------
(***************************************************************************)
(* Theorems about a browser and its links, the endpoint and its helper,    *)
(* the driver's lists, and the platform account: the invariants and action *)
(* properties MCBrowsers checks, for every value of the constants.         *)
(*                                                                         *)
(* Each part has an inductive invariant of its own (BrowserInv, DoorInv,   *)
(* ListsInv, SignInv), shown step by step; a behaviour of MCBrowsers is of *)
(* one kind, so a step of it is a step or a stutter of every part.         *)
(***************************************************************************)
EXTENDS MCBrowsers, TLAPS

-----------------------------------------------------------------------------
(* Queues.                                                                 *)

\* What is left of a queue is its rest, one place nearer.
LEMMA TailAt ==
  ASSUME NEW S, NEW s \in Seq(S), s # <<>>
  PROVE  /\ Tail(s) \in Seq(S) /\ Len(Tail(s)) = Len(s) - 1 /\ 1 \in DOMAIN s /\ Head(s) = s[1]
         /\ \A i \in DOMAIN Tail(s) : i + 1 \in DOMAIN s /\ Tail(s)[i] = s[i + 1] /\ i \in Nat
  OBVIOUS

\* A queue with more in it: the old places stay.
LEMMA JoinAt ==
  ASSUME NEW S, NEW s \in Seq(S), NEW t \in Seq(S)
  PROVE  /\ s \o t \in Seq(S) /\ Len(s \o t) = Len(s) + Len(t)
         /\ \A i \in DOMAIN (s \o t) :
               \/ i \in DOMAIN s /\ (s \o t)[i] = s[i]
               \/ i - Len(s) \in DOMAIN t /\ (s \o t)[i] = t[i - Len(s)]
  OBVIOUS

\* One more at the end: the old places stay, and the last is the new one.
LEMMA AppendAt ==
  ASSUME NEW S, NEW s \in Seq(S), NEW x \in S
  PROVE  /\ Append(s, x) \in Seq(S) /\ Len(Append(s, x)) = Len(s) + 1
         /\ \A i \in DOMAIN Append(s, x) :
               \/ i \in DOMAIN s /\ Append(s, x)[i] = s[i]
               \/ i = Len(s) + 1 /\ Append(s, x)[i] = x
  OBVIOUS

-----------------------------------------------------------------------------
(* The browser.                                                            *)

\* What the queues to and from the extension hold, and what a session is.
OutMsgs == [type : {"ask", "revoke", "clear", "unpair", "code"}, who : Who]
InMsgs == [type : {"hello", "state", "result", "refusal", "done"}, who : Who]
Sessions == [id : 0 .. MaxConns, up : BOOLEAN, greeted : BOOLEAN, paired : BOOLEAN, dev : Who, code : Who]

\* The queues have their types, and the one to the extension its length.
QueuesTyped == out \in Seq(OutMsgs) /\ Len(out) <= OutQueue /\ in \in Seq(InMsgs) /\ codes \in BOOLEAN

\* Nothing is in the queues of a session that is gone, and nothing was said to
\* one that has not said hello, which it does first.
QueuesFit ==
    /\ ~sess.up => out = <<>> /\ in = <<>> /\ ~ext.asked /\ ~sess.greeted
    /\ ~sess.greeted => out = <<>>
    /\ \A i \in DOMAIN in : in[i].type = "hello" => i = 1 /\ ~sess.greeted

\* One code at a time is in the queues, as "code" or come back as "done", and it
\* is the one that waits.
CodeOnce == ~codes =>
    /\ \A i \in DOMAIN out : out[i].type = "code" =>
          /\ sess.code # Nobody /\ out[i].who = sess.code
          /\ \A j \in DOMAIN out : out[j].type = "code" => j = i
          /\ \A j \in DOMAIN in : in[j].type # "done"
    /\ \A i \in DOMAIN in : in[i].type = "done" =>
          /\ sess.code # Nobody /\ in[i].who \in {Nobody, sess.code}
          /\ \A j \in DOMAIN in : in[j].type = "done" => j = i

\* What is said between the browser and the app.
Talks == sess \in Sessions /\ QueuesTyped /\ QueuesFit /\ CodeOnce /\ ext \in [dev : Who, site : BOOLEAN, asked : BOOLEAN]

\* What may become a link is one the owner confirmed.
Confirms ==
    /\ \A n \in Conns : pair[n].stage = "call" => pair[n].synth \in yes
    /\ \A n \in Conns : pair[n].stage # "no" => pair[n].synth \in Synths
    /\ sess.code # Nobody => sess.code \in yes

\* What the app keeps about the browser.
Remembers ==
    /\ slots \subseteq Synths /\ answers \subseteq Synths
    /\ stored \in [linked : BOOLEAN, synth : Who, dev : Who]
    /\ pair \in [Conns -> [stage : {"no", "asking", "call"}, synth : Who, paired : BOOLEAN, dev : Who]]
    /\ read \in [stage : {"no", "waits"}, id : 0 .. MaxConns, synth : Who]
    /\ changes \in 0 .. MaxChanges /\ yes \subseteq Synths /\ strayed \in BOOLEAN

\* The inductive invariant of the browser.
BrowserInv == Talks /\ Remembers /\ Confirms /\ LinkedByOwner /\ LinkedToItsVault

\* The types are part of it.
LEMMA BrowserTypes == BrowserInv => BrowserTypeOK
  <1> SUFFICES ASSUME BrowserInv PROVE BrowserTypeOK
    OBVIOUS
  <1>1. Len(out) <= OutQueue /\ (\A i \in DOMAIN out : out[i] \in OutMsgs) /\ \A i \in DOMAIN in : in[i] \in InMsgs
    BY DEF BrowserInv, Talks, QueuesTyped
  <1>2. sess \in Sessions /\ codes \in BOOLEAN /\ ext \in [dev : Who, site : BOOLEAN, asked : BOOLEAN]
    BY DEF BrowserInv, Talks, QueuesTyped
  <1> QED BY <1>1, <1>2 DEF BrowserInv, Remembers, BrowserTypeOK, Sessions, OutMsgs, InMsgs

\* A step that leaves the queues alone.
LEMMA TalksOn ==
  ASSUME Talks, UNCHANGED <<out, in, codes, ext>>, sess' \in Sessions,
         sess'.up = sess.up, sess'.greeted = sess.greeted, sess'.code = sess.code
  PROVE  Talks'
  BY DEF Talks, QueuesTyped, QueuesFit, CodeOnce

\* Session::send keeps within the queue, and adds only what it is given, only to
\* a session that said hello.
LEMMA TellsAt ==
  ASSUME QueuesTyped, strayed \in BOOLEAN, NEW msgs \in Seq(OutMsgs), Tells(msgs)
  PROVE  /\ out' \in Seq(OutMsgs) /\ Len(out') <= OutQueue /\ strayed' \in BOOLEAN
         /\ \A i \in DOMAIN out' : \/ i \in DOMAIN out /\ out'[i] = out[i]
                                   \/ i - Len(out) \in DOMAIN msgs /\ out'[i] = msgs[i - Len(out)]
         /\ out' # out => sess.up /\ sess.greeted
  <1>1. out \in Seq(OutMsgs) /\ Len(out) <= OutQueue /\ OutQueue \in Nat
    BY BrowsersAssumption DEF QueuesTyped
  <1>2. out' = out \/ (out' = out \o msgs /\ Fits(msgs) /\ sess.up /\ sess.greeted)
    BY DEF Tells
  <1>3. strayed' \in BOOLEAN
    BY DEF Tells
  <1>4. CASE out' = out
    BY <1>1, <1>3, <1>4
  <1>5. CASE out' = out \o msgs /\ Fits(msgs) /\ sess.up /\ sess.greeted
    <2>1. Len(out) + Len(msgs) <= OutQueue
      BY <1>5 DEF Fits
    <2> QED BY <1>1, <1>3, <1>5, <2>1, JoinAt
  <1> QED BY <1>2, <1>4, <1>5

\* What is said besides codes leaves the queues as they should be.
LEMMA TellsTalks ==
  ASSUME Talks, strayed \in BOOLEAN, NEW msgs \in Seq(OutMsgs), \A i \in DOMAIN msgs : msgs[i].type # "code",
         Tells(msgs), UNCHANGED <<codes, ext>>, in' = in, sess' \in Sessions,
         sess'.up = sess.up, sess'.greeted = sess.greeted, sess'.code = sess.code
  PROVE  Talks'
  <1> USE DEF Talks, QueuesTyped
  <1>1. /\ out' \in Seq(OutMsgs) /\ Len(out') <= OutQueue
        /\ \A i \in DOMAIN out' : out'[i].type = "code" => i \in DOMAIN out /\ out'[i] = out[i]
        /\ out' # out => sess.up /\ sess.greeted
    BY TellsAt
  <1>2. QueuesFit'
    BY <1>1 DEF QueuesFit
  <1>3. CodeOnce'
    BY <1>1 DEF CodeOnce
  <1> QED BY <1>1, <1>2, <1>3

\* A message that was read.
LEMMA ReadTalks ==
  ASSUME Talks, sess.up, in # <<>>, in' = Tail(in), UNCHANGED <<out, codes, ext>>,
         sess' \in Sessions, sess'.up = sess.up,
         \/ sess'.greeted = sess.greeted /\ sess'.code = sess.code
         \/ sess'.greeted /\ Head(in).type = "hello" /\ sess'.code = sess.code
         \/ sess'.greeted = sess.greeted /\ Head(in).type = "done" /\ sess'.code = Nobody
  PROVE  Talks'
  <1> USE DEF Talks, QueuesTyped
  <1>1. /\ in' \in Seq(InMsgs) /\ 1 \in DOMAIN in /\ Head(in) = in[1]
        /\ \A i \in DOMAIN in' : i + 1 \in DOMAIN in /\ in'[i] = in[i + 1] /\ i \in Nat /\ i # 0
    <2>1. in \in Seq(InMsgs)
      OBVIOUS
    <2>2. in' \in Seq(InMsgs) /\ \A i \in DOMAIN in' : i \in Nat /\ i # 0
      BY <2>1
    <2> QED BY <2>1, <2>2, TailAt
  <1>2. QueuesFit'
    <2>1. \A i \in DOMAIN in' : in'[i].type # "hello"
      BY <1>1 DEF QueuesFit
    <2> QED BY <2>1 DEF QueuesFit
  <1>3. CodeOnce'
    <2>1. \A i, j \in DOMAIN in' : i + 1 = j + 1 => i = j
      BY <1>1
    <2>2. CASE sess'.code = sess.code
      BY <1>1, <2>1, <2>2 DEF CodeOnce
    <2>3. CASE Head(in).type = "done" /\ ~codes
      <3>1. \A i \in DOMAIN out : out[i].type # "code"
        BY <1>1, <2>3 DEF CodeOnce
      <3>2. \A i \in DOMAIN in' : in'[i].type # "done"
        <4>1. \A j \in DOMAIN in : in[j].type = "done" => j = 1
          BY <1>1, <2>3 DEF CodeOnce
        <4> QED BY <1>1, <4>1
      <3> QED BY <3>1, <3>2 DEF CodeOnce
    <2> QED BY <2>2, <2>3 DEF CodeOnce
  <1> QED BY <1>1, <1>2, <1>3

\* Messages of the app and of the extension.
LEMMA Messages ==
  /\ \A w \in Who : /\ Msg("ask", w) \in OutMsgs /\ Msg("revoke", w) \in OutMsgs /\ Msg("clear", w) \in OutMsgs
                    /\ Msg("unpair", w) \in OutMsgs /\ Msg("code", w) \in OutMsgs
                    /\ Msg("hello", w) \in InMsgs /\ Msg("state", w) \in InMsgs /\ Msg("result", w) \in InMsgs
                    /\ Msg("refusal", w) \in InMsgs /\ Msg("done", w) \in InMsgs
  /\ \A t, w : Msg(t, w).type = t /\ Msg(t, w).who = w
  /\ Nobody \in Who /\ Nobody \notin Synths /\ Synths \subseteq Who
  BY BrowsersAssumption DEF Msg, OutMsgs, InMsgs, Who

\* The parts of a session have their types.
LEMMA SessionTypes ==
  ASSUME sess \in Sessions
  PROVE  /\ sess.id \in 0 .. MaxConns /\ sess.up \in BOOLEAN /\ sess.greeted \in BOOLEAN
         /\ sess.paired \in BOOLEAN /\ sess.dev \in Who /\ sess.code \in Who
         /\ MaxConns \in Nat
  BY BrowsersAssumption DEF Sessions

\* What the app knows of links, answers and the owner's word, when no code and no
\* pairing changes.
LEMMA Unchosen ==
  ASSUME Confirms, LinkedByOwner, LinkedToItsVault,
         yes' = yes, codes => codes', pair' = pair, sess'.code \in {sess.code, Nobody},
         \/ stored' = stored \/ ~stored'.linked
  PROVE  Confirms' /\ LinkedByOwner' /\ LinkedToItsVault'
  BY DEF Confirms, LinkedByOwner, LinkedToItsVault

\* A new session knows nothing, and its queues are empty.
LEMMA ConnectInv == ASSUME BrowserInv, Connect PROVE BrowserInv'
  <1> USE DEF BrowserInv
  <1>1. sess \in Sessions /\ ext.dev \in Who /\ out = <<>> /\ ~ext.asked
    BY DEF Talks, QueuesFit, Connect
  <1>2. /\ sess' \in Sessions /\ sess'.up /\ ~sess'.greeted /\ sess'.code = Nobody
    <2>1. sess.id + 1 \in 0 .. MaxConns
      BY <1>1, SessionTypes DEF Connect
    <2> QED BY <2>1, Messages DEF Connect, NoSess, Sessions
  <1>3. in' \in Seq(InMsgs) /\ DOMAIN in' = {1} /\ in'[1].type = "hello"
    BY <1>1, Messages DEF Connect
  <1>4. UNCHANGED <<slots, answers, stored, out, ext, pair, read, changes, yes, codes, strayed>>
    BY DEF Connect
  <1>5. Talks'
    <2>1. QueuesTyped' /\ ext' \in [dev : Who, site : BOOLEAN, asked : BOOLEAN]
      BY <1>3, <1>4 DEF Talks, QueuesTyped
    <2>2. QueuesFit'
      BY <1>1, <1>2, <1>3, <1>4 DEF QueuesFit
    <2>3. CodeOnce'
      BY <1>1, <1>3, <1>4 DEF CodeOnce
    <2> QED BY <1>2, <2>1, <2>2, <2>3 DEF Talks
  <1>6. Remembers'
    BY <1>4 DEF Remembers
  <1> QED BY <1>2, <1>4, <1>5, <1>6, Unchosen

\* A session that leaves takes its queues along.
LEMMA LeaveInv == ASSUME BrowserInv, Leave PROVE BrowserInv'
  <1> USE DEF BrowserInv
  <1>1. sess \in Sessions /\ ext \in [dev : Who, site : BOOLEAN, asked : BOOLEAN] /\ codes \in BOOLEAN
        /\ OutQueue \in Nat
    BY BrowsersAssumption DEF Talks, QueuesTyped
  <1>2. /\ sess' \in Sessions /\ ~sess'.up /\ ~sess'.greeted /\ sess'.code = Nobody
    BY <1>1, SessionTypes, Messages DEF Leave, NoSess, Sessions
  <1>3. out' = <<>> /\ in' = <<>> /\ ext' \in [dev : Who, site : BOOLEAN, asked : BOOLEAN] /\ ~ext'.asked
    BY <1>1 DEF Leave
  <1>4. UNCHANGED <<slots, answers, stored, pair, changes, yes, codes, strayed>> /\ read' = NoRead
    BY DEF Leave
  <1>5. Talks'
    BY <1>1, <1>2, <1>3, <1>4 DEF Talks, QueuesTyped, QueuesFit, CodeOnce
  <1>6. Remembers'
    BY <1>4, SessionTypes, <1>1, Messages DEF Remembers, NoRead
  <1> QED BY <1>2, <1>4, <1>5, <1>6, Unchosen

\* A link, or none, is stored as a record of its type.
LEMMA StoredTypes ==
  ASSUME Remembers
  PROVE  /\ Unlinked \in [linked : BOOLEAN, synth : Who, dev : Who] /\ ~Unlinked.linked
         /\ \A s, dev \in Who : /\ Linked(s, dev) \in [linked : BOOLEAN, synth : Who, dev : Who]
                                /\ Linked(s, dev).synth = s /\ Linked(s, dev).dev = dev
  BY Messages DEF Remembers, Unlinked, Linked

\* A message is one of the queue.
LEMMA HeardTypes ==
  ASSUME Talks, in # <<>>
  PROVE  Head(in) \in InMsgs /\ Head(in).who \in Who /\ Head(in).type \in {"hello", "state", "result", "refusal", "done"}
         /\ 1 \in DOMAIN in /\ Head(in) = in[1]
  <1>1. in \in Seq(InMsgs)
    BY DEF Talks, QueuesTyped
  <1>2. Head(in) \in InMsgs /\ 1 \in DOMAIN in /\ Head(in) = in[1]
    BY <1>1
  <1> QED BY <1>2 DEF InMsgs

\* The extension says hello: with the stored device or another.
LEMMA HelloInv == ASSUME BrowserInv, Hello PROVE BrowserInv'
  <1> USE DEF BrowserInv
  <1> DEFINE w == Head(in).who
  <1>1. sess \in Sessions /\ w \in Who /\ sess.up /\ in # <<>> /\ Head(in).type = "hello" /\ in' = Tail(in)
        /\ ~sess.greeted /\ out = <<>>
    BY HeardTypes DEF Hello, Heard, Talks, QueuesFit
  <1>2. sess' = [sess EXCEPT !.greeted = TRUE, !.paired = (w # Nobody), !.dev = w]
    BY DEF Hello
  <1> HIDE DEF w
  <1>3. /\ sess' \in Sessions /\ sess'.up /\ sess'.greeted /\ sess'.code = sess.code /\ sess'.up = sess.up
    BY <1>1, <1>2 DEF Sessions
  <1>4. UNCHANGED <<slots, answers, ext, pair, read, changes, yes, codes, strayed>>
        /\ stored' \in {stored, Unlinked}
    BY DEF Hello
  <1>5. ASSUME out' = out PROVE Talks'
    BY <1>1, <1>3, <1>4, <1>5, ReadTalks
  <1>6. ASSUME out' = Append(out, Msg("revoke", Nobody)) PROVE Talks'
    <2>1. out' = <<Msg("revoke", Nobody)>> /\ DOMAIN out' = {1} /\ Len(out') = 1 /\ out' \in Seq(OutMsgs)
      BY <1>1, <1>6, Messages
    <2>2. out'[1].type = "revoke"
      BY <2>1, Messages
    <2>3. in \in Seq(InMsgs) /\ in' \in Seq(InMsgs)
          /\ \A i \in DOMAIN in' : i + 1 \in DOMAIN in /\ in'[i] = in[i + 1] /\ i \in Nat /\ i # 0
      <3>1. in \in Seq(InMsgs)
        BY DEF Talks, QueuesTyped
      <3>2. in' \in Seq(InMsgs) /\ \A i \in DOMAIN in' : i \in Nat /\ i # 0
        BY <1>1, <3>1
      <3> QED BY <1>1, <3>1, <3>2, TailAt
    <2>4. QueuesTyped'
      BY <1>4, <2>1, <2>3, BrowsersAssumption DEF Talks, QueuesTyped
    <2>5. QueuesFit'
      <3>1. \A i \in DOMAIN in' : in'[i].type # "hello"
        BY <2>3 DEF Talks, QueuesFit
      <3> QED BY <1>3, <3>1 DEF QueuesFit
    <2>6. CodeOnce'
      <3>1. \A i, j \in DOMAIN in' : i + 1 = j + 1 => i = j
        BY <2>3
      <3>2. \A i \in DOMAIN out' : out'[i].type # "code"
        BY <2>1, <2>2
      <3> QED BY <1>3, <1>4, <2>3, <3>1, <3>2 DEF Talks, CodeOnce
    <2>7. ext' \in [dev : Who, site : BOOLEAN, asked : BOOLEAN]
      BY <1>4 DEF Talks
    <2> QED BY <1>3, <2>4, <2>5, <2>6, <2>7 DEF Talks
  <1>7. Talks'
    BY <1>5, <1>6 DEF Hello
  <1>8. Remembers'
    BY <1>4, StoredTypes DEF Remembers
  <1> QED BY <1>3, <1>4, <1>7, <1>8, StoredTypes, Unchosen

\* The extension reports what it may read.
LEMMA StateUpdateInv == ASSUME BrowserInv, StateUpdate PROVE BrowserInv'
  <1> USE DEF BrowserInv
  <1>1. sess \in Sessions /\ sess.up /\ in # <<>> /\ in' = Tail(in)
    BY DEF StateUpdate, Heard, Talks
  <1>2. sess' \in Sessions /\ sess'.up = sess.up /\ sess'.greeted = sess.greeted /\ sess'.code = sess.code
    BY <1>1, Messages DEF StateUpdate, Sessions
  <1>3. UNCHANGED <<slots, answers, out, ext, pair, read, changes, yes, codes, strayed>> /\ stored' = Unlinked
    BY DEF StateUpdate
  <1>4. Talks'
    BY <1>1, <1>2, <1>3, ReadTalks
  <1>5. Remembers'
    BY <1>3, StoredTypes DEF Remembers
  <1> QED BY <1>2, <1>3, <1>4, <1>5, StoredTypes, Unchosen

\* The bound on the changes is kept.
LEMMA Counts == ASSUME Remembers, changes < MaxChanges PROVE changes + 1 \in 0 .. MaxChanges
  BY BrowsersAssumption DEF Remembers

\* What is known of a pairing that is under way.
PairRecs == [stage : {"no", "asking", "call"}, synth : Who, paired : BOOLEAN, dev : Who]

\* The parts of a pairing have their types.
LEMMA PairTypes ==
  ASSUME BrowserInv, NEW n \in Conns
  PROVE  /\ pair \in [Conns -> PairRecs] /\ NoPair \in PairRecs /\ NoPair.stage = "no"
         /\ pair[n] \in PairRecs /\ pair[n].synth \in Who /\ pair[n].dev \in Who
  <1>1. pair \in [Conns -> PairRecs]
    BY DEF BrowserInv, Remembers, PairRecs
  <1>2. NoPair \in PairRecs
    BY Messages DEF NoPair, PairRecs
  <1> QED BY <1>1, <1>2 DEF PairRecs, NoPair

\* A pairing that begins or goes on is with a synth, and calls it once the owner confirmed.
LEMMA PairMoves ==
  ASSUME BrowserInv, NEW n, NEW r \in PairRecs, pair' = [pair EXCEPT ![n] = r],
         r.stage = "call" => r.synth \in yes', r.stage # "no" => r.synth \in Synths,
         yes \subseteq yes', UNCHANGED sess
  PROVE  Confirms' /\ pair' \in [Conns -> PairRecs]
  <1> USE DEF BrowserInv
  <1>1. pair \in [Conns -> PairRecs]
    BY DEF Remembers, PairRecs
  <1>2. pair' \in [Conns -> PairRecs] /\ \A k \in Conns : pair'[k] = pair[k] \/ pair'[k] = r
    BY <1>1
  <1> QED BY <1>2 DEF Confirms

\* A pairing is asked for.
LEMMA PairInv == ASSUME BrowserInv, Pair PROVE BrowserInv'
  <1> USE DEF BrowserInv
  <1>1. sess \in Sessions /\ UNCHANGED sess
    BY DEF Talks, Pair
  <1>2. UNCHANGED <<slots, answers, stored, out, in, ext, read, codes, strayed>> /\ changes' \in 0 .. MaxChanges
    BY Counts DEF Pair
  <1>3. PICK s \in slots, asks \in BOOLEAN :
          /\ pair' = [pair EXCEPT ![sess.id] = [stage |-> IF asks THEN "asking" ELSE "call", synth |-> s,
                                               paired |-> sess.paired, dev |-> sess.dev]]
          /\ yes' = IF asks THEN yes ELSE yes \cup {s}
    BY DEF Pair
  <1> DEFINE r == [stage |-> IF asks THEN "asking" ELSE "call", synth |-> s,
                   paired |-> sess.paired, dev |-> sess.dev]
  <1>4. s \in Synths /\ s \in Who
    BY Messages DEF Remembers
  <1>5. r \in PairRecs /\ r.synth = s /\ r.stage = IF asks THEN "asking" ELSE "call"
    BY <1>1, <1>4, SessionTypes DEF PairRecs
  <1>6. pair' = [pair EXCEPT ![sess.id] = r]
    BY <1>3
  <1> HIDE DEF r
  <1>7. yes \subseteq yes' /\ (r.stage = "call" => r.synth \in yes') /\ yes' \subseteq Synths
    BY <1>3, <1>4, <1>5 DEF Remembers
  <1>8. Confirms' /\ pair' \in [Conns -> PairRecs]
    BY <1>1, <1>4, <1>5, <1>6, <1>7, PairMoves
  <1>9. Talks'
    BY <1>1, <1>2, TalksOn
  <1>10. Remembers'
    BY <1>2, <1>7, <1>8 DEF Remembers, PairRecs
  <1>11. LinkedByOwner' /\ LinkedToItsVault'
    BY <1>2, <1>7 DEF LinkedByOwner, LinkedToItsVault
  <1> QED BY <1>8, <1>9, <1>10, <1>11

\* The owner answers it; only here a synth is confirmed.
LEMMA PairOwnerSaysInv == ASSUME BrowserInv, NEW n \in Conns, PairOwnerSays(n) PROVE BrowserInv'
  <1> USE DEF BrowserInv
  <1>1. pair[n] \in PairRecs /\ sess \in Sessions /\ pair[n].synth \in Synths
    BY PairTypes DEF Confirms, PairOwnerSays, Talks
  <1>2. UNCHANGED <<slots, answers, stored, sess, out, in, ext, read, changes, codes, strayed>>
    BY DEF PairOwnerSays
  <1>3. Talks'
    BY <1>1, <1>2, TalksOn
  <1>4. CASE pair' = [pair EXCEPT ![n].stage = "call"] /\ yes' = yes \cup {pair[n].synth}
    <2> DEFINE r == [pair[n] EXCEPT !.stage = "call"]
    <2>1. r \in PairRecs /\ r.synth = pair[n].synth /\ pair' = [pair EXCEPT ![n] = r]
      BY <1>1, <1>4 DEF PairRecs
    <2> HIDE DEF r
    <2>2. Confirms' /\ pair' \in [Conns -> PairRecs]
      BY <1>1, <1>2, <1>4, <2>1, PairMoves
    <2>3. Remembers'
      BY <1>1, <1>2, <1>4, <2>2 DEF Remembers, PairRecs
    <2>4. LinkedByOwner' /\ LinkedToItsVault'
      BY <1>2, <1>4 DEF LinkedByOwner, LinkedToItsVault
    <2> QED BY <1>3, <2>2, <2>3, <2>4
  <1>5. CASE PairOver(n) /\ UNCHANGED yes
    <2>1. Confirms' /\ pair' \in [Conns -> PairRecs]
      BY <1>2, <1>5, PairTypes, PairMoves DEF PairOver, NoPair
    <2>2. Remembers'
      BY <1>2, <1>5, <2>1 DEF Remembers, PairRecs
    <2>3. LinkedByOwner' /\ LinkedToItsVault'
      BY <1>2, <1>5 DEF LinkedByOwner, LinkedToItsVault
    <2> QED BY <1>3, <2>1, <2>2, <2>3
  <1> QED BY <1>4, <1>5 DEF PairOwnerSays

\* It ends without a code.
LEMMA PairEndsInv == ASSUME BrowserInv, NEW n \in Conns, PairFails(n) \/ PairKnown(n) PROVE BrowserInv'
  <1> USE DEF BrowserInv
  <1>1. pair[n] \in PairRecs /\ sess \in Sessions /\ PairOver(n) /\ pair[n].stage = "call"
        /\ UNCHANGED <<slots, answers, sess, out, in, ext, read, changes, yes, codes>>
    BY PairTypes DEF PairFails, PairKnown, Talks
  <1>2. Talks'
    BY <1>1, TalksOn
  <1>3. Confirms' /\ pair' \in [Conns -> PairRecs]
    BY <1>1, PairTypes, PairMoves DEF PairOver, NoPair
  <1>4. stored' = stored \/ (stored' = Linked(pair[n].synth, pair[n].dev) /\ pair[n].dev = pair[n].synth)
    BY DEF PairFails, PairKnown, KnownDevice
  <1>5. strayed' \in BOOLEAN
    BY DEF PairFails, PairKnown, Remembers
  <1>6. Remembers'
    BY <1>1, <1>3, <1>4, <1>5, PairTypes, StoredTypes DEF Remembers, PairRecs
  <1>7. CASE stored' = stored
    BY <1>1, <1>2, <1>3, <1>6, <1>7 DEF LinkedByOwner, LinkedToItsVault
  <1>8. CASE stored' = Linked(pair[n].synth, pair[n].dev) /\ pair[n].dev = pair[n].synth
    <2>1. stored'.synth = pair[n].synth /\ stored'.dev = pair[n].synth /\ pair[n].synth \in yes
      BY <1>1, <1>8, PairTypes, StoredTypes DEF Confirms
    <2>2. LinkedByOwner' /\ LinkedToItsVault'
      BY <1>1, <2>1 DEF LinkedByOwner, LinkedToItsVault
    <2> QED BY <1>2, <1>3, <1>6, <2>2
  <1> QED BY <1>4, <1>7, <1>8

\* A code goes out.
LEMMA PairCodeInv == ASSUME BrowserInv, NEW n \in Conns, PairCode(n) PROVE BrowserInv'
  <1> USE DEF BrowserInv
  <1> DEFINE s == pair[n].synth
  <1>1. pair[n] \in PairRecs /\ sess \in Sessions /\ PairOver(n) /\ pair[n].stage = "call"
        /\ UNCHANGED <<slots, answers, stored, in, ext, read, changes, yes>>
    BY PairTypes DEF PairCode, Talks
  <1>2. s \in Synths /\ s \in yes /\ s \in Who /\ s # Nobody
    BY <1>1, PairTypes, Messages DEF Confirms
  <1>3. pair' \in [Conns -> PairRecs] /\ \A k \in Conns : pair'[k] = pair[k] \/ pair'[k] = NoPair
    BY <1>1, PairTypes DEF PairOver
  <1>4. QueuesTyped /\ strayed \in BOOLEAN /\ QueuesFit
    BY DEF Talks, Remembers
  <1>5. ASSUME sess.id = n, sess.up
        PROVE  Talks' /\ strayed' \in BOOLEAN /\ (codes => codes') /\ sess'.code = s
    <2>1. Tells(<<Msg("code", s)>>) /\ codes' = (codes \/ sess.code # Nobody) /\ sess' = [sess EXCEPT !.code = s]
      BY <1>5 DEF PairCode
    <2> HIDE DEF s
    <2>2. sess' \in Sessions /\ sess'.up = sess.up /\ sess'.greeted = sess.greeted /\ sess'.code = s
      BY <1>1, <1>2, <2>1 DEF Sessions
    <2>3. <<Msg("code", s)>> \in Seq(OutMsgs) /\ DOMAIN <<Msg("code", s)>> = {1}
          /\ <<Msg("code", s)>>[1] = Msg("code", s)
      BY <1>2, Messages
    <2>4. /\ out' \in Seq(OutMsgs) /\ Len(out') <= OutQueue /\ strayed' \in BOOLEAN
          /\ \A i \in DOMAIN out' : \/ i \in DOMAIN out /\ out'[i] = out[i]
                                    \/ i - Len(out) = 1 /\ out'[i] = Msg("code", s)
          /\ out' # out => sess.up /\ sess.greeted
      BY <1>4, <2>1, <2>3, TellsAt
    <2>5. QueuesTyped'
      BY <1>1, <1>4, <2>1, <2>4 DEF QueuesTyped
    <2>6. QueuesFit'
      BY <1>1, <1>4, <1>5, <2>2, <2>4 DEF QueuesFit
    <2>7. CodeOnce'
      <3> SUFFICES ASSUME ~codes' PROVE CodeOnce'
        BY DEF CodeOnce
      <3>1. ~codes /\ sess.code = Nobody /\ sess'.code = s
        BY <2>1, <2>2
      <3>2. (\A i \in DOMAIN out : out[i].type # "code") /\ \A i \in DOMAIN in : in[i].type # "done"
        BY <3>1 DEF Talks, CodeOnce
      <3>3. \A i \in DOMAIN out' : i \in Nat
        BY <2>4
      <3>4. ASSUME NEW i \in DOMAIN out', out'[i].type = "code"
            PROVE  i = Len(out) + 1 /\ out'[i].who = s
        <4>1. i - Len(out) = 1 /\ out'[i] = Msg("code", s)
          BY <2>4, <3>2, <3>4
        <4>2. Len(out) \in Nat /\ i \in Nat
          BY <1>4, <3>3 DEF QueuesTyped
        <4> QED BY <4>1, <4>2, Messages
      <3> QED BY <1>1, <1>2, <3>1, <3>2, <3>4 DEF CodeOnce
    <2>8. ext' \in [dev : Who, site : BOOLEAN, asked : BOOLEAN]
      BY <1>1 DEF Talks
    <2> QED BY <2>1, <2>2, <2>4, <2>5, <2>6, <2>7, <2>8 DEF Talks
  <1>6. ASSUME ~(sess.id = n /\ sess.up)
        PROVE  Talks' /\ strayed' \in BOOLEAN /\ (codes => codes') /\ sess' = sess
    <2>1. UNCHANGED <<out, strayed, codes, sess>>
      BY <1>6 DEF PairCode, Silent
    <2>2. Talks'
      BY <1>1, <2>1, TalksOn
    <2> QED BY <1>4, <2>1, <2>2
  <1>7. Remembers'
    BY <1>1, <1>3, <1>5, <1>6 DEF Remembers, PairRecs
  <1>8. Confirms'
    BY <1>1, <1>2, <1>3, <1>5, <1>6 DEF Confirms, NoPair
  <1>9. LinkedByOwner' /\ LinkedToItsVault'
    BY <1>1, <1>5, <1>6 DEF LinkedByOwner, LinkedToItsVault
  <1> QED BY <1>5, <1>6, <1>7, <1>8, <1>9

\* The extension says the code was taken, or not: the one that waits.
LEMMA PairDoneInv == ASSUME BrowserInv, NEW late \in BOOLEAN, PairDone(late) PROVE BrowserInv'
  <1> USE DEF BrowserInv
  <1> DEFINE dev == Head(in).who
  <1>1. sess \in Sessions /\ dev \in Who /\ sess.up /\ in # <<>> /\ Head(in).type = "done" /\ in' = Tail(in)
        /\ 1 \in DOMAIN in /\ Head(in) = in[1] /\ strayed \in BOOLEAN
    BY HeardTypes DEF PairDone, Heard, Talks, Remembers
  <1>2. UNCHANGED <<slots, answers, out, ext, pair, read, changes, yes, codes>>
    BY DEF PairDone
  <1>3. ASSUME ~codes PROVE sess.code # Nobody /\ dev \in {Nobody, sess.code}
    BY <1>1, <1>3 DEF Talks, CodeOnce
  <1> HIDE DEF dev
  <1>4. CASE CodeIsOut(late) /\ dev # Nobody
    <2>1. /\ sess' = [sess EXCEPT !.code = Nobody, !.paired = TRUE, !.dev = dev]
          /\ stored' = Linked(sess.code, dev)
          /\ strayed' = (strayed \/ sess.code \notin answers)
      BY <1>4 DEF PairDone, dev
    <2>2. sess' \in Sessions /\ sess'.up = sess.up /\ sess'.greeted = sess.greeted /\ sess'.code = Nobody
      BY <1>1, <2>1, Messages DEF Sessions
    <2>3. Talks'
      BY <1>1, <1>2, <2>2, ReadTalks
    <2>4. sess.code \in Who /\ sess.code \in yes
      BY <1>1, <1>4, SessionTypes DEF CodeIsOut, Confirms
    <2>5. Remembers'
      BY <1>1, <1>2, <2>1, <2>4, StoredTypes DEF Remembers
    <2>6. Confirms'
      BY <1>2, <2>2 DEF Confirms
    <2>7. stored'.synth = sess.code /\ stored'.dev = dev
      BY <1>1, <2>1, <2>4, StoredTypes
    <2>8. LinkedByOwner' /\ LinkedToItsVault'
      BY <1>2, <1>3, <1>4, <2>4, <2>7 DEF LinkedByOwner, LinkedToItsVault
    <2> QED BY <2>3, <2>5, <2>6, <2>8
  <1>5. CASE ~(CodeIsOut(late) /\ dev # Nobody)
    <2>1. UNCHANGED <<stored, strayed>> /\ sess' = [sess EXCEPT !.code = Nobody]
      BY <1>5 DEF PairDone, dev
    <2>2. sess' \in Sessions /\ sess'.up = sess.up /\ sess'.greeted = sess.greeted /\ sess'.code = Nobody
      BY <1>1, <2>1, Messages DEF Sessions
    <2>3. Talks'
      BY <1>1, <1>2, <2>2, ReadTalks
    <2>4. Remembers'
      BY <1>2, <2>1 DEF Remembers
    <2> QED BY <1>2, <2>1, <2>2, <2>3, <2>4, Unchosen
  <1> QED BY <1>4, <1>5

\* What the owner takes back goes to the browser; links only end.
LEMMA OwnerInv ==
  ASSUME BrowserInv,
         BrowserUnlink \/ (\E s \in Synths : RevokeSite(s) \/ AnswerExpires(s) \/ SynthRemoved(s))
  PROVE  BrowserInv'
  <1> USE DEF BrowserInv
  <1>1. sess \in Sessions /\ strayed \in BOOLEAN
    BY DEF Talks, Remembers
  <1>2. UNCHANGED <<in, ext, pair, read, yes, codes>> /\ changes' \in 0 .. MaxChanges
    BY Counts DEF BrowserUnlink, RevokeSite, AnswerExpires, SynthRemoved
  <1>3. sess' \in Sessions /\ sess'.up = sess.up /\ sess'.greeted = sess.greeted /\ sess'.code = sess.code
    <2>1. sess' = sess \/ sess' = [sess EXCEPT !.paired = FALSE, !.dev = Nobody]
      BY DEF BrowserUnlink, RevokeSite, AnswerExpires, SynthRemoved
    <2> QED BY <1>1, <2>1, Messages DEF Sessions
  <1>4. \/ UNCHANGED out /\ strayed' \in BOOLEAN
        \/ \E msgs \in Seq(OutMsgs) : Tells(msgs) /\ \A i \in DOMAIN msgs : msgs[i].type # "code"
    <2>1. /\ <<Msg("revoke", Nobody)>> \in Seq(OutMsgs) /\ <<Msg("clear", Nobody)>> \in Seq(OutMsgs)
          /\ <<Msg("unpair", Nobody), Msg("clear", Nobody)>> \in Seq(OutMsgs)
      BY Messages
    <2>2. /\ \A i \in DOMAIN <<Msg("revoke", Nobody)>> : <<Msg("revoke", Nobody)>>[i].type # "code"
          /\ \A i \in DOMAIN <<Msg("clear", Nobody)>> : <<Msg("clear", Nobody)>>[i].type # "code"
      BY Messages
    <2>3. \A i \in DOMAIN <<Msg("unpair", Nobody), Msg("clear", Nobody)>> :
             <<Msg("unpair", Nobody), Msg("clear", Nobody)>>[i].type # "code"
      <3>1. DOMAIN <<Msg("unpair", Nobody), Msg("clear", Nobody)>> = {1, 2}
        OBVIOUS
      <3> QED BY <3>1, Messages
    <2>4. CASE BrowserUnlink
      BY <2>1, <2>3, <2>4 DEF BrowserUnlink
    <2>5. CASE \E s \in Synths : RevokeSite(s)
      BY <1>1, <2>1, <2>2, <2>5 DEF RevokeSite, Silent
    <2>6. CASE \E s \in Synths : AnswerExpires(s)
      BY <2>6 DEF AnswerExpires
    <2>7. CASE \E s \in Synths : SynthRemoved(s)
      BY <1>1, <2>1, <2>2, <2>7 DEF SynthRemoved
    <2> QED BY <2>4, <2>5, <2>6, <2>7
  <1>5. Talks' /\ strayed' \in BOOLEAN
    <2>1. CASE UNCHANGED out /\ strayed' \in BOOLEAN
      <3>1. Talks'
        BY <1>2, <1>3, <2>1, TalksOn
      <3> QED BY <2>1, <3>1
    <2>2. ASSUME NEW msgs \in Seq(OutMsgs), Tells(msgs), \A i \in DOMAIN msgs : msgs[i].type # "code"
          PROVE  Talks' /\ strayed' \in BOOLEAN
      <3>1. Talks'
        BY <1>1, <1>2, <1>3, <2>2, TellsTalks
      <3>2. strayed' \in BOOLEAN
        BY <1>1, <2>2 DEF Tells
      <3> QED BY <3>1, <3>2
    <2> QED BY <1>4, <2>1, <2>2
  <1>6. \/ stored' = stored
        \/ stored' = Unlinked
        \/ stored' = [stored EXCEPT !.linked = FALSE, !.synth = Nobody]
    BY DEF BrowserUnlink, RevokeSite, AnswerExpires, SynthRemoved
  <1>7. stored' \in [linked : BOOLEAN, synth : Who, dev : Who] /\ (stored' = stored \/ ~stored'.linked)
    <2>1. stored \in [linked : BOOLEAN, synth : Who, dev : Who] /\ Nobody \in Who
      BY Messages DEF Remembers
    <2>2. CASE stored' \in {stored, Unlinked}
      BY <2>1, <2>2, StoredTypes
    <2>3. CASE stored' = [stored EXCEPT !.linked = FALSE, !.synth = Nobody]
      BY <2>1, <2>3
    <2> QED BY <1>6, <2>2, <2>3
  <1>8. slots' \subseteq slots /\ answers' \subseteq answers
    BY DEF BrowserUnlink, RevokeSite, AnswerExpires, SynthRemoved
  <1>9. Remembers'
    BY <1>2, <1>5, <1>7, <1>8 DEF Remembers
  <1> QED BY <1>2, <1>3, <1>5, <1>7, <1>9, Unchosen

\* Cookies are asked for, or the time for them is over.
LEMMA ReadInv == ASSUME BrowserInv, AskCookies \/ AskTimesOut PROVE BrowserInv'
  <1> USE DEF BrowserInv
  <1>1. sess \in Sessions /\ QueuesTyped /\ QueuesFit /\ CodeOnce /\ strayed \in BOOLEAN
    BY DEF Talks, Remembers
  <1>2. UNCHANGED <<slots, answers, stored, sess, in, ext, pair, yes, codes, strayed>>
    BY DEF AskCookies, AskTimesOut
  <1>3. CASE AskCookies
    <2>1. out' = Append(out, Msg("ask", Nobody)) /\ sess.up /\ sess.greeted /\ Len(out) + 1 <= OutQueue
      BY <1>3 DEF AskCookies, Fits
    <2>2. /\ out' \in Seq(OutMsgs) /\ Len(out') <= OutQueue
          /\ \A i \in DOMAIN out' : \/ i \in DOMAIN out /\ out'[i] = out[i]
                                    \/ out'[i] = Msg("ask", Nobody)
      <3>1. Len(out) \in Nat /\ OutQueue \in Nat
        BY <1>1, BrowsersAssumption DEF QueuesTyped
      <3> QED BY <1>1, <2>1, <3>1, Messages, AppendAt DEF QueuesTyped
    <2>3. \A i \in DOMAIN out' : out'[i].type = "code" => i \in DOMAIN out /\ out'[i] = out[i]
      BY <2>2, Messages
    <2>4. QueuesTyped' /\ QueuesFit'
      BY <1>1, <1>2, <2>1, <2>2 DEF QueuesTyped, QueuesFit
    <2>5. CodeOnce'
      BY <1>1, <1>2, <2>3 DEF CodeOnce
    <2>6. Talks'
      BY <1>1, <1>2, <2>4, <2>5 DEF Talks
    <2>7. Remembers'
      <3>1. changes' \in 0 .. MaxChanges
        BY <1>3, Counts DEF AskCookies
      <3>2. read' \in [stage : {"no", "waits"}, id : 0 .. MaxConns, synth : Who]
        BY <1>1, <1>3, SessionTypes DEF AskCookies, Remembers
      <3> QED BY <1>2, <3>1, <3>2 DEF Remembers
    <2> QED BY <1>2, <2>6, <2>7, Unchosen
  <1>4. CASE AskTimesOut
    <2>1. read' = NoRead /\ UNCHANGED <<out, changes>>
      BY <1>4 DEF AskTimesOut
    <2>2. NoRead \in [stage : {"no", "waits"}, id : 0 .. MaxConns, synth : Who]
      BY <1>1, SessionTypes, Messages DEF NoRead
    <2>3. Talks'
      BY <1>1, <1>2, <2>1, TalksOn
    <2>4. Remembers'
      BY <1>2, <2>1, <2>2 DEF Remembers
    <2> QED BY <1>2, <2>3, <2>4, Unchosen
  <1> QED BY <1>3, <1>4

\* The extension answers a question.
LEMMA AnswerInv == ASSUME BrowserInv, Answer PROVE BrowserInv'
  <1> USE DEF BrowserInv
  <1>1. sess \in Sessions /\ QueuesTyped /\ QueuesFit /\ CodeOnce /\ strayed \in BOOLEAN
    BY DEF Talks, Remembers
  <1>2. UNCHANGED <<slots, answers, stored, sess, ext, pair, changes, yes, codes>> /\ read' = NoRead
        /\ sess.up /\ in # <<>> /\ in' = Tail(in) /\ Head(in).type \in {"result", "refusal"}
    BY DEF Answer
  <1>3. /\ out' \in Seq(OutMsgs) /\ Len(out') <= OutQueue /\ strayed' \in BOOLEAN
        /\ \A i \in DOMAIN out' : out'[i].type = "code" => i \in DOMAIN out /\ out'[i] = out[i]
        /\ out' # out => sess.greeted
    <2>1. CASE UNCHANGED out /\ strayed' \in BOOLEAN
      BY <1>1, <2>1 DEF QueuesTyped
    <2>2. CASE Tells(<<Msg("revoke", Nobody)>>)
      <3>1. /\ <<Msg("revoke", Nobody)>> \in Seq(OutMsgs) /\ DOMAIN <<Msg("revoke", Nobody)>> = {1}
            /\ <<Msg("revoke", Nobody)>>[1].type # "code"
        BY Messages
      <3> QED BY <1>1, <2>2, <3>1, TellsAt
    <2> QED BY <1>1, <2>1, <2>2 DEF Answer
  <1>4. /\ in' \in Seq(InMsgs)
        /\ \A i \in DOMAIN in' : i + 1 \in DOMAIN in /\ in'[i] = in[i + 1] /\ i \in Nat /\ i # 0
    <2>1. in \in Seq(InMsgs)
      BY <1>1 DEF QueuesTyped
    <2>2. in' \in Seq(InMsgs) /\ \A i \in DOMAIN in' : i \in Nat /\ i # 0
      BY <1>2, <2>1
    <2> QED BY <1>2, <2>1, <2>2, TailAt
  <1>5. QueuesTyped'
    BY <1>1, <1>2, <1>3, <1>4 DEF QueuesTyped
  <1>6. QueuesFit'
    <2>1. \A i \in DOMAIN in' : in'[i].type # "hello"
      BY <1>1, <1>4 DEF QueuesFit
    <2> QED BY <1>1, <1>2, <1>3, <2>1 DEF QueuesFit
  <1>7. CodeOnce'
    <2>1. \A i, j \in DOMAIN in' : i + 1 = j + 1 => i = j
      BY <1>4
    <2> QED BY <1>1, <1>2, <1>3, <1>4, <2>1 DEF CodeOnce
  <1>8. Talks'
    BY <1>1, <1>2, <1>5, <1>6, <1>7 DEF Talks
  <1>9. Remembers'
    <2>1. NoRead \in [stage : {"no", "waits"}, id : 0 .. MaxConns, synth : Who]
      BY <1>1, SessionTypes, Messages DEF NoRead
    <2> QED BY <1>2, <1>3, <2>1 DEF Remembers
  <1> QED BY <1>2, <1>8, <1>9, Unchosen

\* A message of the extension joins the others.
LEMMA RepliesAt ==
  ASSUME QueuesTyped, NEW m \in InMsgs, Replies(<<m>>)
  PROVE  /\ in' \in Seq(InMsgs)
         /\ \A i \in DOMAIN in' : \/ i \in DOMAIN in /\ in'[i] = in[i]
                                  \/ i = Len(in) + 1 /\ in'[i] = m
  <1>1. in \in Seq(InMsgs) /\ in' = in \o <<m>>
    BY DEF QueuesTyped, Replies
  <1>2. in' = Append(in, m)
    BY <1>1
  <1> QED BY <1>1, <1>2, AppendAt

\* What the extension is.
ExtRecs == [dev : Who, site : BOOLEAN, asked : BOOLEAN]

\* The extension sends what it has.
LEMMA ExtensionInv == ASSUME BrowserInv, ExtAnswers \/ ExtUnpairs PROVE BrowserInv'
  <1> USE DEF BrowserInv
  <1>1. sess \in Sessions /\ QueuesTyped /\ QueuesFit /\ CodeOnce /\ ext \in ExtRecs
    BY DEF Talks, ExtRecs
  <1>2. UNCHANGED <<slots, answers, stored, sess, out, pair, read, yes, codes, strayed>>
        /\ changes' \in 0 .. MaxChanges /\ sess.up
    <2>1. sess.up
      BY <1>1 DEF QueuesFit, ExtAnswers, ExtUnpairs
    <2> QED BY <2>1, Counts DEF ExtAnswers, ExtUnpairs, Remembers
  <1>3. ext' \in ExtRecs /\ \E m \in InMsgs : m.type \in {"result", "refusal", "state"} /\ Replies(<<m>>)
    <2>1. CASE ext' = [ext EXCEPT !.asked = FALSE, !.site = TRUE] /\ Replies(<<Msg("result", Nobody)>>)
      BY <1>1, <2>1, Messages DEF ExtRecs
    <2>2. CASE ext' = [ext EXCEPT !.asked = FALSE] /\ Replies(<<Msg("refusal", Nobody)>>)
      BY <1>1, <2>2, Messages DEF ExtRecs
    <2>3. CASE ext' = [ext EXCEPT !.dev = Nobody] /\ Replies(<<Msg("state", Nobody)>>)
      BY <1>1, <2>3, Messages DEF ExtRecs
    <2> QED BY <2>1, <2>2, <2>3 DEF ExtAnswers, ExtUnpairs
  <1>4. PICK m \in InMsgs : m.type \in {"result", "refusal", "state"} /\ Replies(<<m>>)
    BY <1>3
  <1>5. /\ in' \in Seq(InMsgs)
        /\ \A i \in DOMAIN in' : in'[i].type \in {"hello", "done"} => i \in DOMAIN in /\ in'[i] = in[i]
    BY <1>1, <1>4, RepliesAt
  <1>6. Talks'
    <2>1. QueuesTyped' /\ QueuesFit'
      BY <1>1, <1>2, <1>5 DEF QueuesTyped, QueuesFit
    <2>2. CodeOnce'
      BY <1>1, <1>2, <1>5 DEF CodeOnce
    <2> QED BY <1>1, <1>2, <1>3, <2>1, <2>2 DEF Talks, ExtRecs
  <1>7. Remembers'
    BY <1>2 DEF Remembers
  <1> QED BY <1>2, <1>6, <1>7, Unchosen

\* The extension takes a message from its queue.
LEMMA ExtGetsInv == ASSUME BrowserInv, ExtGets PROVE BrowserInv'
  <1> USE DEF BrowserInv
  <1> DEFINE msg == Head(out)
  <1>1. sess \in Sessions /\ QueuesTyped /\ QueuesFit /\ CodeOnce /\ ext \in ExtRecs
    BY DEF Talks, ExtRecs
  <1>2. UNCHANGED <<slots, answers, stored, sess, pair, read, changes, yes, codes, strayed>>
        /\ out # <<>> /\ out' = Tail(out) /\ sess.up /\ sess.greeted
    BY <1>1 DEF ExtGets, QueuesFit
  <1>3. /\ out' \in Seq(OutMsgs) /\ Len(out') <= OutQueue /\ msg = out[1] /\ 1 \in DOMAIN out /\ msg \in OutMsgs
        /\ \A i \in DOMAIN out' : i + 1 \in DOMAIN out /\ out'[i] = out[i + 1] /\ i \in Nat /\ i # 0
    <2>1. out \in Seq(OutMsgs) /\ OutQueue \in Nat /\ Len(out) <= OutQueue
      BY <1>1, BrowsersAssumption DEF QueuesTyped
    <2>2. out' \in Seq(OutMsgs) /\ Len(out') <= OutQueue /\ msg \in OutMsgs /\ \A i \in DOMAIN out' : i \in Nat /\ i # 0
      BY <1>2, <2>1
    <2> QED BY <1>2, <2>1, <2>2, TailAt
  <1>4. msg.type \in {"ask", "revoke", "clear", "unpair", "code"} /\ msg.who \in Who
    BY <1>3 DEF OutMsgs
  <1>5. \A i, j \in DOMAIN out' : i + 1 = j + 1 => i = j
    BY <1>3
  <1>6. \A i \in DOMAIN out' : i + 1 # 1
    BY <1>3
  <1>7. ASSUME in' = in PROVE QueuesTyped' /\ QueuesFit' /\ CodeOnce'
    <2>1. QueuesTyped' /\ QueuesFit'
      BY <1>1, <1>2, <1>3, <1>7 DEF QueuesTyped, QueuesFit
    <2>2. CodeOnce'
      BY <1>1, <1>2, <1>3, <1>5, <1>7 DEF CodeOnce
    <2> QED BY <2>1, <2>2
  <1>8. ASSUME msg.type = "code", NEW w \in {Nobody, msg.who}, Replies(<<Msg("done", w)>>)
        PROVE  QueuesTyped' /\ QueuesFit' /\ CodeOnce'
    <2>1. Msg("done", w) \in InMsgs /\ Msg("done", w).type = "done" /\ Msg("done", w).who = w
      BY <1>4, Messages
    <2>2. /\ in' \in Seq(InMsgs)
          /\ \A i \in DOMAIN in' : \/ i \in DOMAIN in /\ in'[i] = in[i]
                                   \/ i = Len(in) + 1 /\ in'[i] = Msg("done", w)
      BY <1>1, <1>8, <2>1, RepliesAt
    <2>3. QueuesTyped' /\ QueuesFit'
      <3>1. \A i \in DOMAIN in' : in'[i].type = "hello" => i \in DOMAIN in /\ in'[i] = in[i]
        BY <2>1, <2>2
      <3> QED BY <1>1, <1>2, <1>3, <2>2, <3>1 DEF QueuesTyped, QueuesFit
    <2>4. CodeOnce'
      <3> SUFFICES ASSUME ~codes PROVE CodeOnce'
        BY <1>2 DEF CodeOnce
      <3>1. /\ sess.code # Nobody /\ msg.who = sess.code
            /\ \A j \in DOMAIN out : out[j].type = "code" => j = 1
            /\ \A j \in DOMAIN in : in[j].type # "done"
        BY <1>1, <1>3, <1>8 DEF CodeOnce
      <3>2. \A i \in DOMAIN out' : out'[i].type # "code"
        BY <1>3, <1>6, <3>1
      <3>3. \A i \in DOMAIN in' : in'[i].type = "done" => i = Len(in) + 1 /\ in'[i].who = w
        BY <2>1, <2>2, <3>1
      <3> QED BY <1>2, <3>1, <3>2, <3>3 DEF CodeOnce
    <2> QED BY <2>3, <2>4
  <1>9. ext' \in ExtRecs
        /\ (in' = in \/ (msg.type = "code" /\ \E w \in {Nobody, msg.who} : Replies(<<Msg("done", w)>>)))
    <2> HIDE DEF msg
    <2>1. CASE msg.type = "ask"
      BY <1>1, <2>1 DEF ExtGets, ExtRecs, msg
    <2>2. CASE msg.type \in {"revoke", "clear"}
      BY <1>1, <2>2 DEF ExtGets, ExtRecs, msg
    <2>3. CASE msg.type = "unpair"
      BY ZenonT(60), <1>1, <2>3, Messages DEF ExtGets, ExtRecs, msg
    <2>4. CASE msg.type = "code"
      BY <1>1, <1>4, <2>4 DEF ExtGets, ExtRecs, msg
    <2> QED BY <1>4, <2>1, <2>2, <2>3, <2>4
  <1>10. Talks'
    BY <1>1, <1>2, <1>7, <1>8, <1>9 DEF Talks, ExtRecs
  <1>11. Remembers'
    BY <1>2 DEF Remembers
  <1> QED BY <1>2, <1>10, <1>11, Unchosen

\* A browser begins with nothing.
LEMMA BrowserBegins == BrowserInit => BrowserInv
  <1> SUFFICES ASSUME BrowserInit PROVE BrowserInv
    OBVIOUS
  <1>1. 0 \in 0 .. MaxConns /\ 0 \in 0 .. MaxChanges /\ OutQueue \in Nat
    BY BrowsersAssumption
  <1>2. sess \in Sessions /\ ~sess.up /\ ~sess.greeted /\ sess.code = Nobody
    BY <1>1, Messages DEF BrowserInit, NoSess, Sessions
  <1>3. out = <<>> /\ in = <<>> /\ ext \in ExtRecs /\ ~ext.asked /\ codes = FALSE
    BY Messages DEF BrowserInit, ExtRecs
  <1>4. Talks
    <2>1. QueuesTyped
      <3>1. out \in Seq(OutMsgs) /\ in \in Seq(InMsgs) /\ Len(out) = 0
        BY <1>3
      <3>2. Len(out) <= OutQueue
        BY <1>1, <3>1
      <3> QED BY <1>3, <3>1, <3>2 DEF QueuesTyped
    <2> QED BY <1>2, <1>3, <2>1 DEF Talks, QueuesFit, CodeOnce, ExtRecs
  <1>5. stored \in [linked : BOOLEAN, synth : Who, dev : Who] /\ ~stored.linked
    BY Messages DEF BrowserInit, NoRecord
  <1>6. pair \in [Conns -> PairRecs] /\ \A n \in Conns : pair[n].stage = "no"
    BY <1>1, Messages DEF BrowserInit, NoPair, PairRecs
  <1>7. read \in [stage : {"no", "waits"}, id : 0 .. MaxConns, synth : Who]
    BY <1>1, Messages DEF BrowserInit, NoRead
  <1>8. Remembers
    BY <1>1, <1>5, <1>6, <1>7 DEF BrowserInit, Remembers, PairRecs
  <1> QED BY <1>2, <1>4, <1>5, <1>6, <1>8 DEF BrowserInv, Confirms, LinkedByOwner, LinkedToItsVault

\* Every step of the browser keeps its invariant.
LEMMA BrowserSteps == BrowserInv /\ [BrowserNext]_browserVars => BrowserInv'
  <1> SUFFICES ASSUME BrowserInv, [BrowserNext]_browserVars PROVE BrowserInv'
    OBVIOUS
  <1>1. CASE UNCHANGED browserVars
    BY <1>1 DEF browserVars, BrowserInv, Talks, QueuesTyped, QueuesFit, CodeOnce, Remembers, Confirms,
                LinkedByOwner, LinkedToItsVault
  <1>2. CASE BrowserNext
    BY <1>2, HelloInv, StateUpdateInv, PairDoneInv, AnswerInv, ExtGetsInv, ExtensionInv, ConnectInv, LeaveInv,
       PairInv, PairOwnerSaysInv, PairEndsInv, PairCodeInv, OwnerInv, ReadInv DEF BrowserNext, BrowserHears
  <1> QED BY <1>1, <1>2

-----------------------------------------------------------------------------
(* The endpoint and the helper.                                            *)

\* One app at a time is on its way to serve; the one that serves is at the
\* path, and then no other is about to remove a file or to bind.
OneDoor == ~together =>
    /\ \A a, b \in Apps : app[a] \in Binding /\ app[b] \in Binding => a = b
    /\ \A a \in Apps : app[a] \in {"serving", "ending"} => sockFile = a
    /\ \A a, b \in Apps : app[b] \in {"clean", "bind"} => app[a] \notin {"serving", "ending"}

\* The inductive invariant of the endpoint.
DoorInv == HostTypeOK /\ OneDoor /\ BrowserIsTold

\* The endpoint begins without an app.
LEMMA DoorBegins == HostInit => DoorInv
  <1> SUFFICES ASSUME HostInit PROVE DoorInv
    OBVIOUS
  <1>1. 0 \in 0 .. MaxTries
    BY HostAssumption
  <1>2. HostTypeOK
    BY <1>1 DEF HostInit, HostTypeOK
  <1>3. OneDoor
    BY DEF HostInit, OneDoor, Binding
  <1>4. BrowserIsTold
    BY DEF HostInit, BrowserIsTold
  <1> QED BY <1>2, <1>3, <1>4 DEF DoorInv

\* The helper's steps leave the apps alone.
LEMMA HelperSteps ==
  ASSUME DoorInv, Dial \/ LinkLost \/ BrowserAsks \/ PassOn \/ AppReads
  PROVE  DoorInv'
  <1> USE DEF DoorInv
  <1>1. UNCHANGED doors
    BY DEF Dial, LinkLost, BrowserAsks, PassOn, AppReads
  <1>2. HostTypeOK'
    <2>1. hostLink' \in Apps \cup {NoApp} /\ cutOff' \in BOOLEAN /\ toldDown' \in BOOLEAN
      BY DEF HostTypeOK, Dial, LinkLost, BrowserAsks, PassOn, AppReads, LossTold
    <2>2. told' \in {"nothing", "connected", "not_running"} /\ ask' \in {"none", "sent", "passed"}
      BY DEF HostTypeOK, Dial, LinkLost, BrowserAsks, PassOn, AppReads, LossTold, Tell
    <2> QED BY <1>1, <2>1, <2>2 DEF HostTypeOK, doors
  <1>3. OneDoor'
    BY <1>1 DEF OneDoor, doors
  <1>4. BrowserIsTold'
    <2>1. CASE Dial
      BY <2>1 DEF BrowserIsTold, HostTypeOK, Dial, Tell
    <2>2. CASE LinkLost \/ BrowserAsks \/ AppReads
      BY <2>2 DEF BrowserIsTold, LinkLost, BrowserAsks, AppReads, LossTold, Tell
    <2>3. CASE PassOn
      BY <2>3 DEF BrowserIsTold, PassOn, LossTold, Tell
    <2> QED BY <2>1, <2>2, <2>3
  <1> QED BY <1>2, <1>3, <1>4

\* An app's steps.
LEMMA DoorSteps ==
  ASSUME DoorInv, NEW a \in Apps,
         Start(a) \/ Probe(a) \/ Clean(a) \/ Bind(a) \/ Quit(a) \/ ListenerDropped(a) \/ Crash(a)
  PROVE  DoorInv'
  <1> USE DEF DoorInv, AppGoes
  <1>1. HostTypeOK /\ MaxTries \in Nat /\ NoApp \notin Apps
    BY HostAssumption
  <1>2. UNCHANGED <<hostLink, told, toldDown, ask>> /\ cutOff' \in BOOLEAN
    BY <1>1 DEF Start, Probe, Clean, Bind, Quit, ListenerDropped, Crash, Closes, helper, HostTypeOK
  <1>3. BrowserIsTold'
    BY <1>2 DEF BrowserIsTold
  <1>4. tries' \in [Apps -> 0 .. MaxTries]
    BY <1>1 DEF Start, Probe, Clean, Bind, Quit, ListenerDropped, Crash, InUse, HostTypeOK
  <1>5. /\ app' \in [Apps -> Binding \cup {"off", "serving", "ending", "gaveup"}]
        /\ sockFile' \in Apps \cup {NoApp} /\ together' \in BOOLEAN
    <2>1. CASE Start(a) \/ Clean(a) \/ Quit(a) \/ ListenerDropped(a) \/ Crash(a)
      BY <1>1, <2>1 DEF Start, Clean, Quit, ListenerDropped, Crash, HostTypeOK, Binding
    <2>2. CASE Probe(a) \/ Bind(a)
      BY <1>1, <2>2 DEF Probe, Bind, InUse, HostTypeOK, Binding
    <2> QED BY <2>1, <2>2
  <1>6. HostTypeOK'
    BY <1>1, <1>2, <1>4, <1>5 DEF HostTypeOK
  <1>7. OneDoor'
    <2> SUFFICES ASSUME ~together' PROVE OneDoor'
      BY DEF OneDoor
    <2> USE DEF HostTypeOK, Binding
    <2>1. ~together
      BY <1>1 DEF Start, Probe, Clean, Bind, Quit, ListenerDropped, Crash
    <2>2. CASE Start(a)
      BY <1>1, <2>1, <2>2 DEF Start, OneDoor
    <2>3. CASE Probe(a)
      <3>1. CASE sockFile = NoApp /\ app' = [app EXCEPT ![a] = "bind"]
        BY <1>1, <2>1, <2>3, <3>1 DEF Probe, OneDoor
      <3>2. CASE InUse(a)
        BY <1>1, <2>1, <2>3, <3>2 DEF Probe, InUse, OneDoor
      <3>3. CASE sockFile # NoApp /\ ~IsServed /\ app' = [app EXCEPT ![a] = "clean"]
        BY <1>1, <2>1, <2>3, <3>3 DEF Probe, IsServed, Listens, OneDoor
      <3> QED BY <2>3, <3>1, <3>2, <3>3 DEF Probe
    <2>4. CASE Clean(a)
      BY <1>1, <2>1, <2>4 DEF Clean, OneDoor
    <2>5. CASE Bind(a)
      BY <1>1, <2>1, <2>5 DEF Bind, InUse, OneDoor
    <2>6. CASE Quit(a) \/ Crash(a)
      BY <1>1, <2>1, <2>6 DEF Quit, Crash, OneDoor
    <2>7. CASE ListenerDropped(a)
      BY <1>1, <2>1, <2>7 DEF ListenerDropped, OneDoor
    <2> QED BY <2>2, <2>3, <2>4, <2>5, <2>6, <2>7
  <1> QED BY <1>3, <1>6, <1>7

\* Every step of the apps and of the helper keeps it.
LEMMA HostSteps == DoorInv /\ [HostNext]_hostVars => DoorInv'
  <1> SUFFICES ASSUME DoorInv, [HostNext]_hostVars PROVE DoorInv'
    OBVIOUS
  <1>1. CASE HostNext
    BY <1>1, HelperSteps, DoorSteps DEF HostNext
  <1>2. CASE UNCHANGED hostVars
    BY <1>2 DEF hostVars, DoorInv, HostTypeOK, OneDoor, BrowserIsTold
  <1> QED BY <1>1, <1>2

-----------------------------------------------------------------------------
(* The lists of the driver.                                                *)

\* A question the runtime has not answered.
Owed == [id : Nat, list : {"apps", "windows", "picture"}]

\* A question that was written has the runtime's last id, and what has that id
\* is about its list and not older than it.
AnswersFit ==
    /\ runtime.owed \in Seq(Owed) /\ runtime.id \in Nat /\ question.id \in Nat
    /\ runtime \in [up : BOOLEAN, id : Nat, owed : Seq(Owed), torn : BOOLEAN]
    /\ said \in [id : Nat, list : {"none", "apps", "windows", "picture"}, version : Nat]
    /\ question \in [who : Askers \cup {"nobody"}, list : {"none", "apps", "windows", "picture"}, try : 0 .. 2,
                     id : Nat, since : Nat]
    /\ question.who = "nobody" => question.id = 0
    /\ question.id # 0 => question.id = runtime.id
    /\ question.since <= version /\ said.version <= version
    /\ \A i \in DOMAIN runtime.owed : runtime.owed[i].id = question.id => runtime.owed[i].list = question.list
    /\ question.id # 0 /\ said.id = question.id => said.list = question.list /\ said.version >= question.since

\* The inductive invariant of the lists.
ListsInv == ListerTypeOK /\ AnswersFit

\* Nothing is asked at first.
LEMMA ListerBegins == ListerInit => ListsInv
  <1> SUFFICES ASSUME ListerInit PROVE ListsInv
    OBVIOUS
  <1>1. 0 \in 0 .. MaxVersion /\ 0 \in 0 .. MaxQuestions
    BY ListerAssumption
  <1>2. version = 0 /\ questions = 0 /\ runtime = [up |-> FALSE, id |-> 0, owed |-> <<>>, torn |-> FALSE]
        /\ said = [id |-> 0, list |-> "none", version |-> 0]
        /\ question = [who |-> "nobody", list |-> "none", try |-> 0, id |-> 0, since |-> 0]
    BY DEF ListerInit, Down, Silence, NoQuestion
  <1>3. ListerTypeOK
    BY <1>1, <1>2 DEF ListerTypeOK, ListerInit
  <1>4. AnswersFit
    BY <1>2 DEF AnswersFit
  <1> QED BY <1>3, <1>4 DEF ListsInv

\* The records the lists are asked and answered with.
Lists == {"apps", "windows", "picture"}
Runtimes == [up : BOOLEAN, id : Nat, owed : Seq(Owed), torn : BOOLEAN]
Answers == [id : Nat, list : {"none", "apps", "windows", "picture"}, version : Nat]
Questions == [who : Askers \cup {"nobody"}, list : {"none", "apps", "windows", "picture"}, try : 0 .. 2,
              id : Nat, since : Nat]

\* They have their types.
LEMMA ListTypes ==
  ASSUME ListsInv
  PROVE  /\ runtime \in Runtimes /\ said \in Answers /\ question \in Questions
         /\ runtime.up \in BOOLEAN /\ runtime.id \in Nat /\ runtime.owed \in Seq(Owed) /\ runtime.torn \in BOOLEAN
         /\ said.id \in Nat /\ said.version \in Nat
         /\ question.id \in Nat /\ question.since \in Nat /\ question.try \in 0 .. 2
         /\ question.who \in Askers \cup {"nobody"}
         /\ version \in 0 .. MaxVersion /\ version \in Nat /\ MaxVersion \in Nat
         /\ questions \in 0 .. MaxQuestions /\ MaxQuestions \in Nat
         /\ Down \in Runtimes /\ Silence \in Answers /\ NoQuestion \in Questions
         /\ Down.owed = <<>> /\ Down.id = 0 /\ Silence.id = 0 /\ Silence.version = 0
         /\ NoQuestion.who = "nobody" /\ NoQuestion.id = 0 /\ NoQuestion.since = 0 /\ NoQuestion.try = 0
  <1>1. runtime \in Runtimes /\ said \in Answers /\ question \in Questions
    BY DEF ListsInv, AnswersFit, Runtimes, Answers, Questions
  <1>2. version \in 0 .. MaxVersion /\ questions \in 0 .. MaxQuestions /\ MaxVersion \in Nat /\ MaxQuestions \in Nat
    BY ListerAssumption DEF ListsInv, ListerTypeOK
  <1>3. Down \in Runtimes /\ Silence \in Answers /\ NoQuestion \in Questions
    BY DEF Down, Silence, NoQuestion, Runtimes, Answers, Questions
  <1> QED BY <1>1, <1>2, <1>3 DEF Runtimes, Answers, Questions, Down, Silence, NoQuestion

\* Of a question that is over nothing is left to be taken for an answer.
LEMMA NobodyAsks ==
  ASSUME ListsInv, question' = NoQuestion, UNCHANGED <<version, questions>>,
         \/ runtime' = runtime /\ said' \in {said, Silence}
         \/ runtime' = Down /\ said' = Silence
         \/ runtime' = [runtime EXCEPT !.torn = TRUE] /\ runtime.up /\ said' = said
  PROVE  ListsInv'
  <1>1. runtime' \in Runtimes /\ said' \in Answers /\ question' \in Questions
    BY ListTypes DEF Runtimes
  <1>2. /\ runtime'.id \in Nat /\ runtime'.owed \in Seq(Owed) /\ runtime'.up \in BOOLEAN /\ runtime'.torn \in BOOLEAN
        /\ runtime' = Down \/ (runtime'.id = runtime.id /\ runtime'.owed = runtime.owed /\ runtime'.up = runtime.up)
    BY <1>1, ListTypes DEF Runtimes
  <1>3. \A i \in DOMAIN runtime.owed : runtime.owed[i].id \in 1 .. runtime.id
    BY DEF ListsInv, ListerTypeOK
  <1>4. \A i \in DOMAIN runtime'.owed : runtime'.owed[i].id \in 1 .. runtime'.id
    BY <1>2, <1>3, ListTypes
  <1>5. said'.id \in 0 .. runtime'.id
    <2>1. CASE said' = Silence
      BY <1>2, <2>1, ListTypes
    <2>2. CASE said' = said /\ runtime'.id = runtime.id
      BY <2>2 DEF ListsInv, ListerTypeOK
    <2>3. said' = Silence \/ (said' = said /\ runtime'.id = runtime.id)
      BY ListTypes DEF Runtimes
    <2> QED BY <2>1, <2>2, <2>3
  <1>6. ~runtime'.up => runtime' = Down /\ said' = Silence
    <2>1. CASE runtime' = runtime /\ said' \in {said, Silence}
      BY <2>1 DEF ListsInv, ListerTypeOK
    <2>2. CASE runtime' = [runtime EXCEPT !.torn = TRUE] /\ runtime.up /\ said' = said
      BY <2>2, ListTypes DEF Runtimes
    <2> QED BY <2>1, <2>2
  <1>7. ListerTypeOK'
    BY <1>2, <1>4, <1>5, <1>6, ListTypes DEF ListsInv, ListerTypeOK
  <1>8. AnswersFit'
    <2>1. said'.version <= version'
      BY ListTypes DEF ListsInv, AnswersFit
    <2>2. question'.id = 0 /\ question'.since = 0 /\ question'.who = "nobody"
      BY ListTypes
    <2>3. \A i \in DOMAIN runtime'.owed : runtime'.owed[i].id # 0
      BY <1>2, <1>4
    <2> QED BY SMTT(30), <1>1, <1>2, <2>1, <2>2, <2>3, ListTypes DEF AnswersFit, Runtimes, Answers, Questions
  <1> QED BY <1>7, <1>8 DEF ListsInv

\* A question begins, or is to be written to another runtime.
LEMMA Asks ==
  ASSUME ListsInv, question' \in Questions, question'.id = 0, question'.since <= version,
         question'.who # "nobody" => question'.list \in ListOf(question'.who),
         version' = version, questions' \in 0 .. MaxQuestions,
         UNCHANGED <<runtime, said>> \/ (runtime' = Down /\ said' = Silence)
  PROVE  ListsInv'
  <1>1. runtime' \in Runtimes /\ said' \in Answers
    BY ListTypes
  <1>2. \A i \in DOMAIN runtime'.owed : runtime'.owed[i].id \in 1 .. runtime'.id
    BY ListTypes DEF ListsInv, ListerTypeOK
  <1>3. said'.id \in 0 .. runtime'.id /\ (~runtime'.up => runtime' = Down /\ said' = Silence)
    BY ListTypes DEF ListsInv, ListerTypeOK
  <1>4. runtime'.id \in Nat /\ runtime'.owed \in Seq(Owed) /\ runtime'.up \in BOOLEAN /\ runtime'.torn \in BOOLEAN
    BY <1>1 DEF Runtimes
  <1>5. ListerTypeOK'
    <2>1. question'.who \in Askers \cup {"nobody"} /\ question'.try \in 0 .. 2
      BY DEF Questions
    <2> QED BY <1>2, <1>3, <1>4, <2>1, ListTypes DEF ListerTypeOK
  <1>6. AnswersFit'
    <2>1. said'.version <= version'
      BY ListTypes DEF ListsInv, AnswersFit
    <2>2. \A i \in DOMAIN runtime'.owed : runtime'.owed[i].id # 0
      BY <1>2, <1>4
    <2> QED BY <1>1, <1>4, <2>1, <2>2 DEF AnswersFit, Runtimes, Answers, Questions
  <1> QED BY <1>5, <1>6 DEF ListsInv

\* A question that is written gets the next id of the runtime.
LEMMA WritesInv == ASSUME ListsInv, Writes PROVE ListsInv'
  <1> DEFINE id == runtime.id + 1
             q == [id |-> id, list |-> question.list]
             owes == IF runtime.torn THEN runtime.owed ELSE Append(runtime.owed, q)
  <1>1. question.who # "nobody" /\ question.id = 0 /\ UNCHANGED <<version, said, learned, questions>>
        /\ runtime' = [runtime EXCEPT !.up = TRUE, !.id = id, !.torn = FALSE, !.owed = owes]
        /\ question' = [question EXCEPT !.id = id]
    BY DEF Writes
  <1>2. question.list \in Lists /\ question.list \in ListOf(question.who)
    BY <1>1 DEF ListsInv, ListerTypeOK, ListOf, Lists
  <1>3. id \in Nat /\ id # 0 /\ q \in Owed
    BY <1>2, ListTypes DEF Owed, Lists
  <1>4. /\ owes \in Seq(Owed)
        /\ \A i \in DOMAIN owes : owes[i] = q \/ (i \in DOMAIN runtime.owed /\ owes[i] = runtime.owed[i])
    BY SMTT(30), <1>3, ListTypes, AppendAt
  <1>5. q.id = id /\ q.list = question.list
    OBVIOUS
  <1> HIDE DEF q, owes
  <1>6. runtime' \in Runtimes /\ runtime'.up = TRUE /\ runtime'.id = id /\ runtime'.owed = owes /\ runtime'.torn = FALSE
    BY <1>1, <1>3, <1>4, ListTypes DEF Runtimes
  <1>7. /\ question' \in Questions /\ question'.id = id /\ question'.who = question.who /\ question'.list = question.list
        /\ question'.since = question.since /\ question'.try = question.try
    BY <1>1, <1>3, ListTypes DEF Questions
  <1>8. \A i \in DOMAIN owes : owes[i].id \in 1 .. id /\ (owes[i].id = id => owes[i].list = question.list)
    <2>1. \A i \in DOMAIN runtime.owed : runtime.owed[i].id \in 1 .. runtime.id
      BY DEF ListsInv, ListerTypeOK
    <2>2. \A n \in 1 .. runtime.id : n \in 1 .. id /\ n # id
      BY ListTypes
    <2>3. id \in 1 .. id
      BY <1>3
    <2> HIDE DEF id
    <2> QED BY <1>4, <1>5, <2>1, <2>2, <2>3
  <1>9. said.id \in 0 .. id /\ said.id # id
    BY ListTypes DEF ListsInv, ListerTypeOK
  <1> HIDE DEF id
  <1>10. ListerTypeOK'
    BY <1>1, <1>2, <1>6, <1>7, <1>8, <1>9, ListTypes DEF ListerTypeOK
  <1>11. AnswersFit'
    <2>1. question'.since <= version' /\ said'.version <= version'
      BY <1>1, <1>7 DEF ListsInv, AnswersFit
    <2>2. \A i \in DOMAIN runtime'.owed : runtime'.owed[i].id = question'.id => runtime'.owed[i].list = question'.list
      BY <1>6, <1>7, <1>8
    <2>3. said'.id # question'.id /\ question'.id = runtime'.id /\ question'.who # "nobody"
      BY <1>1, <1>6, <1>7, <1>9
    <2>4. runtime'.owed \in Seq(Owed) /\ runtime'.id \in Nat /\ question'.id \in Nat /\ said' \in Answers
      BY <1>1, <1>3, <1>4, <1>6, <1>7, ListTypes
    <2> QED BY <1>6, <1>7, <2>1, <2>2, <2>3, <2>4 DEF AnswersFit, Runtimes, Answers, Questions
  <1> QED BY <1>10, <1>11 DEF ListsInv

\* The driver answers the first question it owes.
LEMMA DriverAnswersInv == ASSUME ListsInv, DriverAnswers PROVE ListsInv'
  <1> DEFINE q == Head(runtime.owed)
  <1>1. runtime.owed # <<>> /\ said' = [id |-> q.id, list |-> q.list, version |-> version]
        /\ runtime' = [runtime EXCEPT !.owed = Tail(runtime.owed)] /\ UNCHANGED <<version, question, learned, questions>>
    BY DEF DriverAnswers
  <1>2. /\ Tail(runtime.owed) \in Seq(Owed) /\ 1 \in DOMAIN runtime.owed /\ q = runtime.owed[1] /\ q \in Owed
        /\ \A i \in DOMAIN Tail(runtime.owed) :
              i + 1 \in DOMAIN runtime.owed /\ Tail(runtime.owed)[i] = runtime.owed[i + 1]
    <2>1. q \in Owed
      BY <1>1, ListTypes
    <2> QED BY <1>1, <2>1, ListTypes, TailAt
  <1>3. \A i \in DOMAIN runtime.owed : runtime.owed[i].id \in 1 .. runtime.id
    BY DEF ListsInv, ListerTypeOK
  <1>4. q.id \in Nat /\ q.list \in Lists /\ q.id \in 1 .. runtime.id
    BY <1>2, <1>3 DEF Owed, Lists
  <1>5. q.id = question.id => q.list = question.list
    BY <1>2 DEF ListsInv, AnswersFit
  <1> HIDE DEF q
  <1> DEFINE rest == Tail(runtime.owed)
  <1>6. rest \in Seq(Owed) /\ \A i \in DOMAIN rest : rest[i].id \in 1 .. runtime.id
                              /\ (rest[i].id = question.id => rest[i].list = question.list)
    BY <1>2, <1>3 DEF ListsInv, AnswersFit
  <1>7. runtime' = [runtime EXCEPT !.owed = rest]
    BY <1>1
  <1> HIDE DEF rest
  <1>8. runtime' \in Runtimes /\ runtime'.up = runtime.up /\ runtime'.id = runtime.id /\ runtime'.owed = rest
        /\ runtime'.torn = runtime.torn
    BY <1>6, <1>7, ListTypes DEF Runtimes
  <1>9. said' \in Answers /\ said'.id = q.id /\ said'.list = q.list /\ said'.version = version
    BY <1>1, <1>4, ListTypes DEF Answers, Lists
  <1>10. runtime.up
    BY <1>1, ListTypes DEF ListsInv, ListerTypeOK
  <1>11. ListerTypeOK'
    <2>1. said'.id \in 0 .. runtime'.id
      BY <1>4, <1>8, <1>9, ListTypes
    <2>2. \A i \in DOMAIN runtime'.owed : runtime'.owed[i].id \in 1 .. runtime'.id
      BY <1>6, <1>8
    <2>3. runtime'.up /\ runtime'.up \in BOOLEAN /\ runtime'.torn \in BOOLEAN
      BY <1>8, <1>10, ListTypes
    <2> QED BY <1>1, <2>1, <2>2, <2>3 DEF ListsInv, ListerTypeOK
  <1>12. AnswersFit'
    <2>1. version >= question.since /\ version <= version
      BY ListTypes DEF ListsInv, AnswersFit
    <2> QED BY <1>1, <1>5, <1>6, <1>8, <1>9, <2>1, ListTypes DEF ListsInv, AnswersFit, Runtimes, Answers, Questions
  <1> QED BY <1>11, <1>12 DEF ListsInv

\* Every step keeps the invariant of the lists.
LEMMA ListSteps == ListsInv /\ [ListerNext]_listerVars => ListsInv'
  <1> SUFFICES ASSUME ListsInv, [ListerNext]_listerVars PROVE ListsInv'
    OBVIOUS
  <1>1. CASE ScreenChanges
    <2>1. version' = version + 1 /\ version < MaxVersion /\ UNCHANGED <<runtime, said, question, learned, questions>>
      BY <1>1 DEF ScreenChanges
    <2>2. version' \in 0 .. MaxVersion
      BY <2>1, ListTypes
    <2>3. ListerTypeOK'
      BY <2>1, <2>2 DEF ListsInv, ListerTypeOK
    <2>4. question'.since <= version' /\ said'.version <= version'
      BY <2>1, ListTypes DEF ListsInv, AnswersFit
    <2>5. AnswersFit'
      BY <2>1, <2>4 DEF ListsInv, AnswersFit
    <2> QED BY <2>3, <2>5 DEF ListsInv
  <1>2. CASE DriverAnswers
    BY <1>2, DriverAnswersInv
  <1>3. CASE StreamDropped
    <2>1. question' = NoQuestion /\ UNCHANGED <<version, said, questions>>
          /\ (runtime' = runtime \/ (runtime.up /\ runtime' = [runtime EXCEPT !.torn = TRUE]))
      BY <1>3 DEF StreamDropped
    <2> QED BY <2>1, NobodyAsks
  <1>4. CASE StopsRuntime
    <2>1. question.id = 0 /\ runtime' = Down /\ said' = Silence /\ UNCHANGED <<version, question, questions>>
      BY <1>4 DEF StopsRuntime, ListsInv, AnswersFit
    <2>2. question.since <= version /\ (question.who # "nobody" => question.list \in ListOf(question.who))
      BY DEF ListsInv, AnswersFit, ListerTypeOK
    <2> QED BY <2>1, <2>2, ListTypes, Asks
  <1>5. CASE Writes
    BY <1>5, WritesInv
  <1>6. CASE HearsAnswer \/ SkipsLine
    <2>1. CASE HearsAnswer
      BY <2>1, NobodyAsks DEF HearsAnswer
    <2>2. CASE SkipsLine
      <3>1. said' = Silence /\ UNCHANGED <<version, runtime, question, questions>>
        BY <2>2 DEF SkipsLine
      <3>2. ListerTypeOK'
        BY <3>1, ListTypes DEF ListsInv, ListerTypeOK
      <3>3. AnswersFit'
        BY <3>1, ListTypes DEF ListsInv, AnswersFit, Answers
      <3> QED BY <3>2, <3>3 DEF ListsInv
    <2> QED BY <1>6, <2>1, <2>2
  <1>7. CASE Fails
    <2>1. runtime' = Down /\ said' = Silence /\ UNCHANGED <<version, questions>> /\ question.who # "nobody"
      BY <1>7 DEF Fails
    <2>2. CASE question' = NoQuestion
      BY <2>1, <2>2, NobodyAsks
    <2>3. CASE question' = [question EXCEPT !.try = 2, !.id = 0]
      <3>1. question' \in Questions /\ question'.id = 0 /\ question'.since = question.since
            /\ question'.who = question.who /\ question'.list = question.list
        <4>1. 2 \in 0 .. 2 /\ 0 \in Nat
          OBVIOUS
        <4> QED BY <2>3, <4>1, ListTypes DEF Questions
      <3>2. question.since <= version /\ question.list \in ListOf(question.who)
        BY <2>1 DEF ListsInv, AnswersFit, ListerTypeOK
      <3> QED BY <2>1, <3>1, <3>2, ListTypes, Asks
    <2> QED BY <1>7, <2>2, <2>3 DEF Fails, Again
  <1>8. CASE StartFails
    BY <1>8, NobodyAsks DEF StartFails
  <1>9. ASSUME NEW who \in Askers, NEW l \in ListOf(who), TakesLock(who, l) PROVE ListsInv'
    <2>1. question' = [NoQuestion EXCEPT !.who = who, !.list = l, !.try = 1, !.since = version]
          /\ questions' = questions + 1 /\ questions < MaxQuestions /\ UNCHANGED <<version, runtime, said>>
      BY <1>9 DEF TakesLock
    <2>2. l \in Lists
      BY DEF ListOf, Lists
    <2>3. question' \in Questions /\ question'.id = 0 /\ question'.since = version /\ question'.who = who
          /\ question'.list = l
      <3>1. question' = [who |-> who, list |-> l, try |-> 1, id |-> 0, since |-> version]
        BY <2>1 DEF NoQuestion
      <3>2. 1 \in 0 .. 2 /\ 0 \in Nat /\ version \in Nat
        BY ListTypes
      <3> QED BY <2>2, <3>1, <3>2 DEF Questions, Lists
    <2>4. questions' \in 0 .. MaxQuestions /\ version <= version
      BY <2>1, ListTypes
    <2> QED BY <2>1, <2>3, <2>4, ListTypes, Asks
  <1>10. CASE UNCHANGED listerVars
    BY <1>10 DEF listerVars, ListsInv, ListerTypeOK, AnswersFit
  <1> QED BY <1>1, <1>2, <1>3, <1>4, <1>5, <1>6, <1>7, <1>8, <1>9, <1>10 DEF ListerNext, QuestionGoes

\* What is told is an answer to what was asked.
LEMMA ToldRight ==
  ASSUME ListsInv, [ListerNext]_listerVars, learned' # learned, learned' # NoQuestion
  PROVE  learned'.list = question.list /\ learned'.since >= question.since
  <1>1. HearsAnswer
    BY DEF ListerNext, QuestionGoes, ScreenChanges, DriverAnswers, StreamDropped, StopsRuntime, Writes,
           SkipsLine, Fails, StartFails, TakesLock, listerVars
  <1>2. learned' = [question EXCEPT !.list = said.list, !.since = said.version, !.try = 1]
        /\ question.id # 0 /\ said.id = question.id
    BY <1>1 DEF HearsAnswer, IsAnswer
  <1>3. learned'.list = said.list /\ learned'.since = said.version
    BY <1>2, ListTypes DEF Questions
  <1> QED BY <1>2, <1>3 DEF ListsInv, AnswersFit

-----------------------------------------------------------------------------
(* The sign-in.                                                            *)

\* How far a completion may be, and what holds the account.
ExchStages == {"none", "took", "fails", "asks", "answered", "kept", "compared", "told", "done"}
BusyRecs == [op : {"none", "me", "consents", "connects", "logout", "key", "account", "memory", "links"},
             token : 0 .. made, list : Accounts \cup {"none"}]

\* A completion whose token may be in use.
Arrived == {"kept", "compared", "told", "done"}

\* The one that waits has not come back; the others came back in time; and a token
\* in use is one a completion brought, of an account.
Logins ==
    /\ \A i \in Ids : exch[i] # "none" => i <= made /\ i \in came
    /\ login # NoLogin => exch[login] = "none"
    /\ \A i \in Ids : exch[i] \in {"answered", "kept", "compared", "told"} => got[i] # "none"
    /\ key # NoLogin => key \in came /\ got[key] # "none" /\ exch[key] \in Arrived
    /\ busy.token # NoLogin => got[busy.token] # "none" /\ exch[busy.token] \in Arrived
    /\ busy.op \in {"me", "connects", "logout"} => busy.token # NoLogin

\* Where nothing crossed the steps that keep a sign-in, token and account are of one
\* sign-in, and what is allowed is what the owner confirmed.
Straight == ~crossed =>
    /\ account.consented => account.id \in confirmed
    /\ \A i, j \in Ids : Keeping(i) /\ Keeping(j) => i = j
    /\ \A i \in Ids : Keeping(i) => busy = Free /\ key = i
    /\ \A i \in Ids : exch[i] = "compared" /\ same[i] => account # NoAccount /\ account.id = got[i]
    /\ busy.op = "connects" /\ got[busy.token] = busy.list => busy.list \in confirmed
    /\ key # NoLogin /\ account # NoAccount /\ (\A i \in Ids : ~Keeping(i)) => got[key] = account.id

\* The inductive invariant of the account.
SignInv == SignTypeOK /\ Logins /\ Straight

\* What its types say of the parts.
LEMMA SignTypes ==
  ASSUME SignTypeOK
  PROVE  /\ MaxLogins \in Nat /\ made \in Nat /\ made <= MaxLogins
         /\ (login # NoLogin => login \in Ids) /\ (key # NoLogin => key \in Ids)
         /\ busy \in BusyRecs /\ busy.token \in 0 .. made /\ busy.list \in Accounts \cup {"none"}
         /\ (busy.token # NoLogin => busy.token \in Ids)
         /\ Free \in BusyRecs /\ Free.op = "none" /\ Free.token = NoLogin
         /\ NoAccount.id = "none" /\ NoAccount.consented = FALSE
         /\ exch \in [Ids -> ExchStages] /\ got \in [Ids -> Accounts \cup {"none"}]
         /\ \A i \in Ids : got[i] # "none" => got[i] \in Accounts
  <1>1. MaxLogins \in Nat /\ made \in Nat /\ made <= MaxLogins
    BY SignInAssumption DEF SignTypeOK
  <1>2. busy \in BusyRecs /\ exch \in [Ids -> ExchStages] /\ got \in [Ids -> Accounts \cup {"none"}]
    BY DEF SignTypeOK, BusyRecs, ExchStages
  <1>3. busy.token \in 0 .. made /\ busy.list \in Accounts \cup {"none"}
    BY <1>2 DEF BusyRecs
  <1>4. login \in 0 .. made /\ key \in 0 .. made
    BY DEF SignTypeOK
  <1>5. (login # NoLogin => login \in Ids) /\ (key # NoLogin => key \in Ids)
        /\ (busy.token # NoLogin => busy.token \in Ids)
    BY <1>1, <1>3, <1>4 DEF NoLogin, Ids
  <1>6. Free \in BusyRecs
    BY <1>1 DEF Free, BusyRecs, NoLogin
  <1> QED BY <1>1, <1>2, <1>3, <1>5, <1>6 DEF Free, NoAccount

\* Nobody is signed in at first.
LEMMA SignBegins == SignInit => SignInv
  <1> SUFFICES ASSUME SignInit PROVE SignInv
    OBVIOUS
  <1>1. 0 \in 0 .. MaxLogins /\ 0 \in 0 .. 0
    BY SignInAssumption
  <1>2. made = 0 /\ login = 0 /\ key = 0 /\ busy = [op |-> "none", token |-> 0, list |-> "none"]
    BY DEF SignInit, NoLogin, Free
  <1>3. busy \in BusyRecs
    BY <1>1, <1>2 DEF BusyRecs
  <1>4. SignTypeOK
    BY <1>1, <1>2, <1>3 DEF SignInit, SignTypeOK, BusyRecs
  <1>5. Logins
    BY <1>2 DEF SignInit, Logins, NoLogin
  <1>6. Straight
    BY <1>2 DEF SignInit, Straight, Keeping, NoLogin, NoAccount
  <1> QED BY <1>4, <1>5, <1>6 DEF SignInv

\* A completion goes on.
LEMMA CompletionMoves ==
  ASSUME SignInv, NEW i \in Ids, exch[i] # "none", NEW st \in ExchStages \ {"none"},
         exch' = [exch EXCEPT ![i] = st], exch[i] \in Arrived => st \in Arrived,
         UNCHANGED <<made, login, busy, came>>,
         got' = got \/ (exch[i] = "asks" /\ \E a \in Accounts : got' = [got EXCEPT ![i] = a]),
         st \in {"answered", "kept", "compared", "told"} => got'[i] # "none",
         key' = key \/ (key' = i /\ st \in Arrived /\ got'[i] # "none")
  PROVE  Logins' /\ exch' \in [Ids -> ExchStages] /\ got' \in [Ids -> Accounts \cup {"none"}] /\ key' \in 0 .. made
         /\ (key # NoLogin => got'[key] = got[key]) /\ (busy.token # NoLogin => got'[busy.token] = got[busy.token])
  <1> USE DEF SignInv
  <1>1. exch \in [Ids -> ExchStages] /\ got \in [Ids -> Accounts \cup {"none"}]
        /\ (login # NoLogin => login \in Ids) /\ (key # NoLogin => key \in Ids)
        /\ (busy.token # NoLogin => busy.token \in Ids) /\ "none" \notin Accounts
    BY SignTypes, SignInAssumption
  <1>2. exch' \in [Ids -> ExchStages] /\ exch'[i] = st /\ \A j \in Ids : j # i => exch'[j] = exch[j]
    BY <1>1
  <1>3. got' \in [Ids -> Accounts \cup {"none"}] /\ \A j \in Ids : exch[j] # "asks" => got'[j] = got[j]
    BY <1>1
  <1>4. i <= made /\ i \in came /\ i \in 0 .. made
    <2>1. i <= made /\ i \in came
      BY DEF Logins
    <2> QED BY <2>1, SignTypes DEF Ids
  <1>5. (key # NoLogin => got'[key] = got[key]) /\ (busy.token # NoLogin => got'[busy.token] = got[busy.token])
    BY <1>1, <1>3 DEF Logins, Arrived
  <1>6. key' \in 0 .. made
    BY <1>4 DEF SignTypeOK
  <1>7. Logins'
    <2>1. \A j \in Ids : exch'[j] # "none" => j <= made' /\ j \in came'
      BY <1>2, <1>4 DEF Logins
    <2>2. login' # NoLogin => exch'[login'] = "none"
      BY <1>1, <1>2 DEF Logins
    <2>3. \A j \in Ids : exch'[j] \in {"answered", "kept", "compared", "told"} => got'[j] # "none"
      BY <1>2, <1>3 DEF Logins
    <2>4. key' # NoLogin => key' \in came' /\ got'[key'] # "none" /\ exch'[key'] \in Arrived
      BY <1>1, <1>2, <1>4, <1>5 DEF Logins
    <2>5. busy'.token # NoLogin => got'[busy'.token] # "none" /\ exch'[busy'.token] \in Arrived
      BY <1>1, <1>2, <1>5 DEF Logins
    <2>6. busy'.op \in {"me", "connects", "logout"} => busy'.token # NoLogin
      BY DEF Logins
    <2> QED BY <2>1, <2>2, <2>3, <2>4, <2>5, <2>6 DEF Logins
  <1> QED BY <1>2, <1>3, <1>5, <1>6, <1>7

\* A completion goes one step on, among others that may be under way.
LEMMA CompletesInv == ASSUME SignInv, NEW i \in Ids, Completes(i) PROVE SignInv'
  <1> USE DEF SignInv
  <1>1. UNCHANGED <<made, login, links, busy, revoked, came, confirmed>>
    BY DEF Completes, Exchange, ExchangeAnswers, LoginFails, KeepsToken, ComparesAccount, StoresAccount, SignsIn,
           completionRest
  <1>2. exch \in [Ids -> ExchStages] /\ got \in [Ids -> Accounts \cup {"none"}] /\ "none" \notin Accounts
        /\ NoAccount.consented = FALSE
    BY SignTypes, SignInAssumption
  <1>3. ASSUME NEW st \in ExchStages \ {"none"}, exch[i] # "none", exch' = [exch EXCEPT ![i] = st],
               exch[i] \in Arrived => st \in Arrived,
               got' = got \/ (exch[i] = "asks" /\ \E a \in Accounts : got' = [got EXCEPT ![i] = a]),
               st \in {"answered", "kept", "compared", "told"} => got'[i] # "none",
               key' = key \/ (key' = i /\ st \in Arrived /\ got'[i] # "none"),
               crossed' \in BOOLEAN, phase' \in {"idle", "waiting", "exchanging", "failed"},
               same' \in [Ids -> BOOLEAN], account' \in [id : Accounts, consented : BOOLEAN] \cup {NoAccount},
               Straight'
        PROVE  SignInv'
    <2>1. Logins' /\ exch' \in [Ids -> ExchStages] /\ got' \in [Ids -> Accounts \cup {"none"}] /\ key' \in 0 .. made
      BY <1>1, <1>3, CompletionMoves
    <2>2. SignTypeOK'
      BY <1>1, <1>3, <2>1 DEF SignTypeOK, ExchStages
    <2> QED BY <1>3, <2>1, <2>2
  <1>4. CASE Exchange(i)
    <2>1. UNCHANGED <<got, same, key, account, crossed>> /\ exch[i] = "took"
          /\ exch' = [exch EXCEPT ![i] = "asks"] /\ phase' = "exchanging"
      BY <1>4 DEF Exchange
    <2>2. Straight'
      BY <1>1, <1>2, <2>1 DEF Straight, Keeping
    <2> QED BY <1>3, <2>1, <2>2 DEF SignTypeOK, ExchStages, Arrived
  <1>5. CASE ExchangeAnswers(i)
    <2>1. UNCHANGED <<phase, same, key, account, crossed>> /\ exch[i] = "asks"
      BY <1>5 DEF ExchangeAnswers
    <2>2. ASSUME NEW a \in Accounts, exch' = [exch EXCEPT ![i] = "answered"], got' = [got EXCEPT ![i] = a]
          PROVE  SignInv'
      <3>1. "answered" \in ExchStages \ {"none"} /\ exch[i] \notin Arrived /\ got'[i] = a /\ a # "none"
        BY <1>2, <2>1, <2>2 DEF ExchStages, Arrived
      <3>2. (key # NoLogin => got'[key] = got[key]) /\ (busy.token # NoLogin => got'[busy.token] = got[busy.token])
        BY <1>1, <2>1, <2>2, <3>1, CompletionMoves
      <3>3. Straight'
        <4>1. \A j \in Ids : Keeping(j)' = Keeping(j)
          BY <1>2, <2>1, <2>2 DEF Keeping
        <4>2. \A j \in Ids : exch'[j] = "compared" => exch[j] = "compared" /\ got'[j] = got[j]
          BY <1>2, <2>1, <2>2
        <4>3. busy.op = "connects" => busy.token # NoLogin
          BY DEF Logins
        <4> QED BY <1>1, <2>1, <3>2, <4>1, <4>2, <4>3 DEF Straight
      <3> QED BY <1>3, <2>1, <2>2, <3>1, <3>3 DEF SignTypeOK
    <2>3. ASSUME NEW st \in {"fails", "done"}, exch' = [exch EXCEPT ![i] = st], UNCHANGED got PROVE SignInv'
      <3>1. Straight'
        BY <1>1, <1>2, <2>1, <2>3 DEF Straight, Keeping
      <3> QED BY <1>3, <2>1, <2>3, <3>1 DEF SignTypeOK, ExchStages, Arrived
    <2> QED BY <1>5, <2>2, <2>3 DEF ExchangeAnswers
  <1>6. CASE LoginFails(i)
    <2>1. UNCHANGED <<got, same, key, account, crossed>> /\ exch[i] = "fails"
          /\ exch' = [exch EXCEPT ![i] = "done"] /\ phase' = "failed"
      BY <1>6 DEF LoginFails
    <2>2. Straight'
      BY <1>1, <1>2, <2>1 DEF Straight, Keeping
    <2> QED BY <1>3, <2>1, <2>2 DEF SignTypeOK, ExchStages, Arrived
  <1>7. CASE KeepsToken(i)
    <2>1. UNCHANGED <<phase, got, same, account>> /\ exch[i] = "answered" /\ got[i] # "none"
          /\ crossed' = (crossed \/ busy # Free \/ \E j \in Ids : Keeping(j))
      BY <1>7 DEF KeepsToken, Logins
    <2>2. CASE key' = i /\ exch' = [exch EXCEPT ![i] = "kept"]
      <3>1. Straight'
        <4> SUFFICES ASSUME ~crossed' PROVE Straight'
          BY DEF Straight
        <4>1. ~crossed /\ busy = Free /\ \A j \in Ids : ~Keeping(j)
          BY <2>1
        <4>2. \A j \in Ids : Keeping(j)' <=> j = i
          BY <1>2, <2>2, <4>1 DEF Keeping
        <4>3. \A j \in Ids : exch'[j] # "compared"
          BY <1>2, <2>2, <4>1 DEF Keeping
        <4>4. busy'.op # "connects" /\ busy' = Free
          BY <1>1, <4>1 DEF Free
        <4> QED BY <1>1, <2>1, <2>2, <4>1, <4>2, <4>3, <4>4 DEF Straight
      <3> QED BY <1>3, <2>1, <2>2, <3>1 DEF SignTypeOK, ExchStages, Arrived
    <2>3. CASE exch' = [exch EXCEPT ![i] = "fails"] /\ UNCHANGED key
      <3>1. Straight'
        BY <1>1, <1>2, <2>1, <2>3 DEF Straight, Keeping
      <3> QED BY <1>3, <2>1, <2>3, <3>1 DEF SignTypeOK, ExchStages, Arrived
    <2> QED BY <1>7, <2>2, <2>3 DEF KeepsToken
  <1>8. CASE ComparesAccount(i)
    <2>1. UNCHANGED <<phase, got, key, account, crossed>> /\ exch[i] = "kept" /\ got[i] # "none"
          /\ exch' = [exch EXCEPT ![i] = "compared"]
          /\ same' = [same EXCEPT ![i] = account # NoAccount /\ account.id = got[i]]
      BY <1>8 DEF ComparesAccount, Logins
    <2>2. Straight'
      <3>1. \A j \in Ids : Keeping(j)' = Keeping(j)
        BY <1>2, <2>1 DEF Keeping
      <3>2. \A j \in Ids : exch'[j] = "compared" /\ j # i => exch[j] = "compared" /\ same'[j] = same[j]
        BY <1>2, <2>1 DEF SignTypeOK
      <3>3. same'[i] => account # NoAccount /\ account.id = got[i]
        BY <2>1 DEF SignTypeOK
      <3> QED BY <1>1, <2>1, <3>1, <3>2, <3>3 DEF Straight
    <2>3. same' \in [Ids -> BOOLEAN]
      BY <2>1 DEF SignTypeOK
    <2> QED BY <1>3, <2>1, <2>2, <2>3 DEF SignTypeOK, ExchStages, Arrived
  <1>9. CASE StoresAccount(i)
    <2>1. UNCHANGED <<phase, got, key, same, crossed>> /\ exch[i] = "compared" /\ got[i] # "none"
          /\ exch' = [exch EXCEPT ![i] = "told"]
          /\ account' = [id |-> got[i], consented |-> same[i] /\ account.consented]
      BY <1>9 DEF StoresAccount, Logins, Keeps
    <2>2. got[i] \in Accounts /\ same[i] \in BOOLEAN /\ account.consented \in BOOLEAN
      BY <1>2, <2>1, SignTypes DEF SignTypeOK
    <2>3. account' \in [id : Accounts, consented : BOOLEAN] /\ account'.id = got[i]
          /\ (account'.consented => same[i] /\ account.consented)
      BY <2>1, <2>2
    <2>4. Straight'
      <3> SUFFICES ASSUME ~crossed' PROVE Straight'
        BY DEF Straight
      <3>1. ~crossed /\ Keeping(i) /\ busy = Free /\ key = i /\ \A j \in Ids : Keeping(j) => j = i
        BY <2>1 DEF Straight, Keeping
      <3>2. \A j \in Ids : ~Keeping(j)' /\ exch'[j] # "compared"
        BY <1>2, <2>1, <3>1 DEF Keeping
      <3>3. account'.consented => account'.id \in confirmed
        BY <2>1, <2>3, <3>1 DEF Straight
      <3>4. busy' = Free /\ busy'.op # "connects" /\ key' = i /\ got' = got
        BY <1>1, <2>1, <3>1 DEF Free
      <3> QED BY <1>1, <2>3, <3>2, <3>3, <3>4 DEF Straight
    <2> QED BY <1>3, <2>1, <2>3, <2>4 DEF SignTypeOK, ExchStages, Arrived
  <1>10. CASE SignsIn(i)
    <2>1. UNCHANGED <<got, same, key, account, crossed>> /\ exch[i] = "told"
          /\ exch' = [exch EXCEPT ![i] = "done"] /\ phase' = "idle"
      BY <1>10 DEF SignsIn
    <2>2. Straight'
      BY <1>1, <1>2, <2>1 DEF Straight, Keeping
    <2> QED BY <1>3, <2>1, <2>2 DEF SignTypeOK, ExchStages, Arrived
  <1> QED BY <1>4, <1>5, <1>6, <1>7, <1>8, <1>9, <1>10 DEF Completes

\* What a step keeps that leaves the completions alone and takes no token but the
\* stored one into use.
LEMMA OthersMove ==
  ASSUME SignInv, UNCHANGED <<made, exch, got, same, came>>,
         busy' \in BusyRecs, busy'.token \in {busy.token, key, NoLogin},
         busy'.op \in {"me", "connects", "logout"} => busy'.token # NoLogin,
         key' \in {key, NoLogin}, login' \in {login, NoLogin}, phase' \in {phase, "idle"},
         account' \in [id : Accounts, consented : BOOLEAN] \cup {NoAccount},
         links' \in SUBSET Accounts, confirmed' \in SUBSET Accounts, revoked' \in SUBSET Ids,
         crossed' \in BOOLEAN, Straight'
  PROVE  SignInv'
  <1> USE DEF SignInv
  <1>1. login' \in 0 .. made /\ key' \in 0 .. made
    BY SignTypes DEF SignTypeOK, NoLogin
  <1>2. SignTypeOK'
    BY <1>1 DEF SignTypeOK, BusyRecs
  <1>3. Logins'
    <2>1. busy'.token # NoLogin => got[busy'.token] # "none" /\ exch[busy'.token] \in Arrived
      BY DEF Logins
    <2> QED BY <2>1 DEF Logins
  <1> QED BY <1>2, <1>3

\* The sign-in page is opened, or the sign-in given up.
LEMMA WindowInv ==
  ASSUME SignInv, LoginCancel \/ \E late \in BOOLEAN : LoginUrl(late)
  PROVE  SignInv'
  <1> USE DEF SignInv
  <1>1. UNCHANGED loginRest
    BY DEF LoginCancel, LoginUrl
  <1>2. made \in Nat /\ made <= MaxLogins /\ MaxLogins \in Nat /\ made \in 0 .. MaxLogins
    BY SignTypes DEF SignTypeOK
  <1>3. /\ made' \in 0 .. MaxLogins /\ made <= made' /\ phase' \in {"waiting", "idle"}
        /\ login' \in 0 .. made' /\ (login' # NoLogin => login' = login \/ (login' = made + 1 /\ made < MaxLogins))
    BY <1>2 DEF LoginCancel, LoginUrl, SignTypeOK, NoLogin
  <1>4. \A i \in 0 .. made : i \in 0 .. made'
    BY <1>2, <1>3
  <1>5. busy' \in [op : {"none", "me", "consents", "connects", "logout", "key", "account", "memory", "links"},
                   token : 0 .. made', list : Accounts \cup {"none"}]
    <2>1. busy \in BusyRecs /\ busy' = busy
      BY <1>1, SignTypes DEF loginRest
    <2> QED BY <1>4, <2>1 DEF BusyRecs
  <1>6. SignTypeOK'
    BY <1>1, <1>3, <1>4, <1>5 DEF SignTypeOK, loginRest
  <1>7. Logins'
    <2>1. login' # NoLogin => exch[login'] = "none"
      <3>1. made < MaxLogins => made + 1 \in Ids /\ ~(made + 1 <= made)
        BY <1>2 DEF Ids
      <3> QED BY <1>3, <3>1 DEF Logins
    <2>2. \A i \in Ids : i <= made => i <= made'
      BY <1>2, <1>3 DEF Ids
    <2> QED BY <1>1, <2>1, <2>2 DEF Logins, loginRest
  <1>8. Straight'
    BY <1>1 DEF Straight, Keeping, loginRest
  <1> QED BY <1>6, <1>7, <1>8

\* The browser comes back.
LEMMA ReturnsInv ==
  ASSUME SignInv, NEW i \in 0 .. made, NEW late \in BOOLEAN, NEW allowed \in BOOLEAN, Returns(i, late, allowed)
  PROVE  SignInv'
  <1> USE DEF SignInv
  <1>1. i \in Ids /\ login = i /\ exch[i] = "none" /\ i <= made /\ login' = NoLogin /\ came' = came \cup {i}
    <2>1. login # NoLogin /\ login = i
      BY DEF Returns, IsWaited
    <2>2. i <= made
      BY SignTypes
    <2> QED BY <2>1, <2>2, SignTypes DEF Returns, Logins
  <1> DEFINE st == IF late \/ ~allowed THEN "fails" ELSE "took"
  <1>2. exch' = [exch EXCEPT ![i] = st] /\ st \in {"fails", "took"}
    BY <1>1 DEF Returns
  <1>3. UNCHANGED <<made, phase, got, same, key, account, links, busy, revoked, confirmed, crossed>>
    BY DEF Returns
  <1> HIDE DEF st
  <1>4. exch \in [Ids -> ExchStages] /\ st \in ExchStages
    BY <1>2, SignTypes DEF ExchStages
  <1>5. exch' \in [Ids -> ExchStages] /\ exch'[i] = st /\ \A j \in Ids : j # i => exch'[j] = exch[j]
    BY <1>1, <1>2, <1>4
  <1>6. SignTypeOK'
    <2>1. 0 \in 0 .. made
      BY SignTypes
    <2> QED BY <1>1, <1>3, <1>5, <2>1 DEF SignTypeOK, ExchStages, NoLogin
  <1>7. \A j \in Ids : exch[j] \in Arrived => exch'[j] = exch[j]
    BY <1>1, <1>5 DEF Arrived
  <1>8. Logins'
    <2>1. \A j \in Ids : exch'[j] # "none" => j <= made' /\ j \in came'
      BY <1>1, <1>3, <1>5 DEF Logins
    <2>2. \A j \in Ids : exch'[j] \in {"answered", "kept", "compared", "told"} => got'[j] # "none"
      BY <1>2, <1>3, <1>5 DEF Logins
    <2>3. key' # NoLogin => key' \in came' /\ got'[key'] # "none" /\ exch'[key'] \in Arrived
      BY <1>1, <1>3, <1>7, SignTypes DEF Logins
    <2>4. busy'.token # NoLogin => got'[busy'.token] # "none" /\ exch'[busy'.token] \in Arrived
      BY <1>3, <1>7, SignTypes DEF Logins
    <2> QED BY <1>1, <1>3, <2>1, <2>2, <2>3, <2>4 DEF Logins
  <1>9. Straight'
    <2>1. \A j \in Ids : Keeping(j)' = Keeping(j)
      BY <1>1, <1>2, <1>5 DEF Keeping
    <2>2. \A j \in Ids : exch'[j] = "compared" => exch[j] = "compared"
      BY <1>2, <1>5
    <2> QED BY <1>3, <2>1, <2>2 DEF Straight
  <1> QED BY <1>6, <1>8, <1>9

\* The owner confirms the account, or removes this computer.
LEMMA OwnerOfAccountInv ==
  ASSUME SignInv, AccountConnect \/ \E i \in Ids : OwnerRemoves(i)
  PROVE  SignInv'
  <1> USE DEF SignInv
  <1>1. CASE AccountConnect
    <2>1. UNCHANGED <<made, login, phase, exch, got, same, key, links, busy, revoked, came, crossed>>
      BY <1>1 DEF AccountConnect
    <2>2. account \in [id : Accounts, consented : BOOLEAN] /\ account # NoAccount
          /\ account' = [account EXCEPT !.consented = TRUE] /\ confirmed' = confirmed \cup {account.id}
      BY <1>1 DEF AccountConnect, SignedIn, SignTypeOK
    <2>3. account' \in [id : Accounts, consented : BOOLEAN] /\ account'.id = account.id /\ account.id \in Accounts
      BY <2>2
    <2>4. Straight'
      <3> SUFFICES ASSUME ~crossed PROVE Straight'
        BY <2>1 DEF Straight
      <3>1. \A j \in Ids : Keeping(j)' = Keeping(j)
        BY <2>1 DEF Keeping
      <3>2. confirmed \subseteq confirmed' /\ account'.id \in confirmed'
        BY <2>2, <2>3
      <3>3. account'.id = account.id /\ account # NoAccount
        BY <2>2, <2>3
      <3>4. \A j \in Ids : exch'[j] = "compared" /\ same'[j] => account' # NoAccount /\ account'.id = got'[j]
        <4>1. account' # NoAccount
          BY <2>3, SignInAssumption DEF NoAccount
        <4> QED BY <2>1, <3>3, <4>1 DEF Straight
      <3>5. key' # NoLogin /\ account' # NoAccount /\ (\A i \in Ids : ~Keeping(i)') => got'[key'] = account'.id
        BY <2>1, <3>1, <3>3 DEF Straight
      <3>6. busy'.op = "connects" /\ got'[busy'.token] = busy'.list => busy'.list \in confirmed'
        BY <2>1, <3>2 DEF Straight
      <3>7. \A i, j \in Ids : Keeping(i)' /\ Keeping(j)' => i = j
        BY <3>1 DEF Straight
      <3>8. \A i \in Ids : Keeping(i)' => busy' = Free /\ key' = i
        BY <2>1, <3>1 DEF Straight
      <3> QED BY <3>2, <3>4, <3>5, <3>6, <3>7, <3>8 DEF Straight
    <2>5. confirmed' \in SUBSET Accounts
      BY <2>2, <2>3 DEF SignTypeOK
    <2>6. busy' \in BusyRecs
      BY <2>1, SignTypes
    <2> QED BY <2>1, <2>3, <2>4, <2>5, <2>6, OthersMove DEF SignTypeOK, Logins
  <1>2. ASSUME NEW i \in Ids, OwnerRemoves(i) PROVE SignInv'
    <2>1. UNCHANGED <<made, login, phase, exch, got, same, key, account, links, busy, came, confirmed, crossed>>
          /\ revoked' = revoked \cup {i}
      BY <1>2 DEF OwnerRemoves
    <2>2. Straight'
      BY <2>1 DEF Straight, Keeping
    <2>3. busy' \in BusyRecs /\ revoked' \in SUBSET Ids
      BY <2>1, SignTypes DEF SignTypeOK
    <2> QED BY <2>1, <2>2, <2>3, OthersMove DEF SignTypeOK, Logins
  <1> QED BY <1>1, <1>2

\* A sync, or a sign-out, begins.
LEMMA BusyBegins ==
  ASSUME SignInv, SyncBegins \/ SignOut
  PROVE  SignInv'
  <1> USE DEF SignInv
  <1>1. UNCHANGED <<login, phase, key, account, links, confirmed, made, exch, got, same, revoked, came>>
        /\ crossed' = (crossed \/ \E i \in Ids : Keeping(i))
    BY DEF SyncBegins, SignOut, syncRest
  <1>2. busy' \in BusyRecs /\ busy'.op \in {"me", "key", "logout"} /\ busy'.token = key
        /\ (busy'.op \in {"me", "logout"} => key # NoLogin)
    <2>1. key \in 0 .. made /\ "none" \in Accounts \cup {"none"}
      BY DEF SignTypeOK
    <2>2. CASE SyncBegins
      BY <2>1, <2>2 DEF SyncBegins, SignedIn, BusyRecs, NoLogin
    <2>3. CASE SignOut
      <3>1. busy' = [op |-> IF key = NoLogin THEN "key" ELSE "logout", token |-> key, list |-> "none"]
        BY <2>3 DEF SignOut, Free
      <3>2. (IF key = NoLogin THEN "key" ELSE "logout") \in {"key", "logout"}
        OBVIOUS
      <3> QED BY <2>1, <3>1, <3>2 DEF BusyRecs, NoLogin
    <2> QED BY <2>2, <2>3
  <1>3. Straight'
    <2> SUFFICES ASSUME ~crossed' PROVE Straight'
      BY DEF Straight
    <2>1. ~crossed /\ \A i \in Ids : ~Keeping(i)
      BY <1>1
    <2>2. \A i \in Ids : ~Keeping(i)' /\ exch'[i] # "compared"
      BY <1>1, <2>1 DEF Keeping
    <2> QED BY <1>1, <1>2, <2>1, <2>2 DEF Straight
  <1>4. crossed' \in BOOLEAN
    BY <1>1 DEF SignTypeOK
  <1> QED BY <1>1, <1>2, <1>3, <1>4, OthersMove DEF SignTypeOK

\* A sync goes on.
LEMMA SyncInv ==
  ASSUME SignInv, SyncMoves
  PROVE  SignInv'
  <1> USE DEF SignInv
  <1>1. UNCHANGED <<login, phase, key, account, confirmed, crossed, made, exch, got, same, revoked, came>>
        /\ busy.op # "none"
    BY DEF SyncMoves, MeAnswers, MeFails, Refused, MeRefused, SyncConsents, SyncConnects, syncRest
  <1>2. busy \in BusyRecs /\ busy.token \in 0 .. made /\ Free \in BusyRecs /\ Free.op = "none" /\ busy # Free
        /\ got \in [Ids -> Accounts \cup {"none"}] /\ Free.token = NoLogin
    BY <1>1, SignTypes
  <1>3. /\ busy' \in BusyRecs /\ busy'.token \in {busy.token, key, NoLogin}
        /\ busy'.op \in {"none", "consents", "key", "connects"}
        /\ (busy'.op = "connects" => account.consented /\ key # NoLogin /\ busy'.token = key)
    <2>1. CASE MeAnswers
      <3>1. busy.token # NoLogin /\ busy.token \in Ids
        BY <2>1, SignTypes DEF MeAnswers, Logins
      <3>2. busy' = [busy EXCEPT !.op = "consents", !.list = got[busy.token]]
            /\ got[busy.token] \in Accounts \cup {"none"}
        BY <1>2, <2>1, <3>1 DEF MeAnswers
      <3> QED BY <1>2, <3>2 DEF BusyRecs
    <2>2. CASE MeFails \/ SyncConnects
      BY <1>2, <2>2 DEF MeFails, SyncConnects
    <2>3. CASE Refused
      BY <1>2, <2>3 DEF Refused, MeRefused, BusyRecs
    <2>4. CASE SyncConsents
      <3>1. CASE MayLink /\ key # NoLogin
        <4>1. busy' = [busy EXCEPT !.op = "connects", !.token = key] /\ key \in 0 .. made /\ account.consented
          BY <2>4, <3>1 DEF SyncConsents, SignTypeOK, MayLink
        <4> QED BY <1>2, <3>1, <4>1 DEF BusyRecs
      <3>2. CASE ~(MayLink /\ key # NoLogin)
        BY <1>2, <2>4, <3>2 DEF SyncConsents
      <3> QED BY <3>1, <3>2
    <2> QED BY <2>1, <2>2, <2>3, <2>4 DEF SyncMoves
  <1>4. Straight'
    <2> SUFFICES ASSUME ~crossed PROVE Straight'
      BY <1>1 DEF Straight
    <2>1. \A i \in Ids : ~Keeping(i)
      BY <1>2 DEF Straight
    <2>2. \A i \in Ids : ~Keeping(i)' /\ exch'[i] # "compared"
      BY <1>1, <2>1 DEF Keeping
    <2>3. busy'.op = "connects" /\ got'[busy'.token] = busy'.list => busy'.list \in confirmed'
      <3> SUFFICES ASSUME busy'.op = "connects", got'[busy'.token] = busy'.list PROVE busy'.list \in confirmed'
        OBVIOUS
      <3>1. account.consented /\ key # NoLogin /\ busy'.token = key
        BY <1>3
      <3>2. account # NoAccount
        BY <3>1 DEF NoAccount
      <3>3. got[key] = account.id /\ account.id \in confirmed
        BY <2>1, <3>1, <3>2 DEF Straight
      <3> QED BY <1>1, <3>1, <3>3
    <2> QED BY <1>1, <2>1, <2>2, <2>3 DEF Straight
  <1>5. links' \in SUBSET Accounts
    <2>1. CASE MeAnswers
      BY <2>1 DEF MeAnswers, SignTypeOK
    <2>2. CASE SyncConnects
      <3>1. busy.token # NoLogin /\ busy.token \in Ids
        BY <2>2, SignTypes DEF SyncConnects, Logins
      <3>2. got[busy.token] \in Accounts
        BY <3>1, SignTypes DEF Logins
      <3> QED BY <2>2, <3>2 DEF SyncConnects, SignTypeOK
    <2>3. CASE MeFails \/ Refused \/ SyncConsents
      BY <2>3 DEF MeFails, Refused, SyncConsents, SignTypeOK
    <2> QED BY <2>1, <2>2, <2>3 DEF SyncMoves
  <1> QED BY <1>1, <1>3, <1>4, <1>5, OthersMove DEF SignTypeOK

\* A sign-out goes on.
LEMMA SignOutInv ==
  ASSUME SignInv, LogoutEnds \/ SignOutLocal
  PROVE  SignInv'
  <1> USE DEF SignInv
  <1>1. UNCHANGED <<made, exch, got, same, came, crossed>> /\ busy.op \notin {"none", "me", "connects"}
    BY DEF LogoutEnds, SignOutLocal, DeletesKey, ForgetsAccount, ForgetsLogin, RemovesLinks, syncRest
  <1>2. busy \in BusyRecs /\ Free \in BusyRecs /\ Free.op = "none" /\ busy # Free /\ Free.token = NoLogin
        /\ (busy.token # NoLogin => busy.token \in Ids) /\ NoAccount.consented = FALSE
    BY <1>1, SignTypes
  <1>3. busy' \in BusyRecs /\ busy'.token \in {busy.token, NoLogin} /\ busy'.op \notin {"me", "connects", "logout"}
    <2>1. CASE LogoutEnds
      BY <1>2, <2>1 DEF LogoutEnds, BusyRecs
    <2>2. CASE DeletesKey
      BY <1>2, <2>2 DEF DeletesKey, BusyRecs
    <2>3. CASE ForgetsAccount
      BY <1>2, <2>3 DEF ForgetsAccount, BusyRecs
    <2>4. CASE ForgetsLogin
      BY <1>2, <2>4 DEF ForgetsLogin, BusyRecs
    <2>5. CASE RemovesLinks
      BY <1>2, <2>5 DEF RemovesLinks
    <2> QED BY <2>1, <2>2, <2>3, <2>4, <2>5 DEF SignOutLocal
  <1>4. /\ key' \in {key, NoLogin} /\ login' \in {login, NoLogin} /\ phase' \in {phase, "idle"}
        /\ links' \in {links, {}}
        /\ (account' = account /\ confirmed' = confirmed) \/ (account' = NoAccount /\ confirmed' = {})
    BY DEF LogoutEnds, SignOutLocal, DeletesKey, ForgetsAccount, ForgetsLogin, RemovesLinks, syncRest
  <1>5. revoked' \in SUBSET Ids
    <2>1. CASE LogoutEnds
      BY <1>2, <2>1 DEF LogoutEnds, SignTypeOK, Logins
    <2>2. CASE SignOutLocal
      BY <2>2 DEF SignOutLocal, DeletesKey, ForgetsAccount, ForgetsLogin, RemovesLinks, syncRest, SignTypeOK
    <2> QED BY <2>1, <2>2
  <1>6. Straight'
    <2> SUFFICES ASSUME ~crossed PROVE Straight'
      BY <1>1 DEF Straight
    <2>1. \A i \in Ids : ~Keeping(i)
      BY <1>2 DEF Straight
    <2>2. \A i \in Ids : ~Keeping(i)' /\ exch'[i] # "compared"
      BY <1>1, <2>1 DEF Keeping
    <2> QED BY <1>1, <1>2, <1>3, <1>4, <2>1, <2>2 DEF Straight
  <1> QED BY <1>1, <1>3, <1>4, <1>5, <1>6, OthersMove DEF SignTypeOK

\* The app ends and starts.
LEMMA RestartInv == ASSUME SignInv, Restart PROVE SignInv'
  <1> USE DEF SignInv
  <1>1. UNCHANGED <<made, got, same, key, account, links, revoked, came, confirmed>>
        /\ login' = NoLogin /\ phase' = "idle" /\ busy' = Free
        /\ crossed' = (crossed \/ \E i \in Ids : Keeping(i))
    BY DEF Restart
  <1>2. exch \in [Ids -> ExchStages] /\ Free.op = "none" /\ Free.token = NoLogin /\ made \in Nat
        /\ (key # NoLogin => key \in Ids)
    BY SignTypes
  <1>3. exch' = [i \in Ids |-> IF exch[i] = "none" THEN "none" ELSE "done"]
    BY DEF Restart
  <1>4. \A i \in Ids : exch'[i] = IF exch[i] = "none" THEN "none" ELSE "done"
    BY <1>3
  <1>5. exch' \in [Ids -> ExchStages]
    BY <1>3 DEF ExchStages
  <1>6. SignTypeOK'
    <2>1. NoLogin \in 0 .. made /\ "none" \in Accounts \cup {"none"} /\ crossed' \in BOOLEAN
      BY <1>1, <1>2 DEF NoLogin, SignTypeOK
    <2>2. Free \in [op : {"none", "me", "consents", "connects", "logout", "key", "account", "memory", "links"},
                    token : 0 .. made, list : Accounts \cup {"none"}]
      BY <2>1 DEF Free
    <2> QED BY <1>1, <1>5, <2>1, <2>2 DEF SignTypeOK, ExchStages
  <1>7. Logins'
    <2>1. \A i \in Ids : exch'[i] # "none" => i <= made' /\ i \in came'
      BY <1>1, <1>4 DEF Logins
    <2>2. \A i \in Ids : exch'[i] \notin {"answered", "kept", "compared", "told"}
      BY <1>4
    <2>3. key' # NoLogin => key' \in came' /\ got'[key'] # "none" /\ exch'[key'] \in Arrived
      BY <1>1, <1>2, <1>4 DEF Logins, Arrived
    <2> QED BY <1>1, <1>2, <2>1, <2>2, <2>3 DEF Logins
  <1>8. Straight'
    <2> SUFFICES ASSUME ~crossed' PROVE Straight'
      BY DEF Straight
    <2>1. ~crossed /\ \A i \in Ids : ~Keeping(i)
      BY <1>1
    <2>2. \A i \in Ids : ~Keeping(i)' /\ exch'[i] # "compared"
      BY <1>4 DEF Keeping
    <2> QED BY <1>1, <1>2, <2>1, <2>2 DEF Straight
  <1> QED BY <1>6, <1>7, <1>8

\* Every step of the account keeps its invariant.
LEMMA SignSteps == SignInv /\ [SignNext]_signVars => SignInv'
  <1> SUFFICES ASSUME SignInv, [SignNext]_signVars PROVE SignInv'
    OBVIOUS
  <1>1. CASE UNCHANGED signVars
    BY <1>1 DEF signVars, SignInv, SignTypeOK, Logins, Straight, Keeping
  <1>2. CASE SignNext
    BY <1>2, WindowInv, ReturnsInv, OwnerOfAccountInv, CompletesInv, BusyBegins, SyncInv, SignOutInv, RestartInv
    DEF SignNext
  <1> QED BY <1>1, <1>2

\* Only a sync makes a link.
LEMMA LinkedRight ==
  ASSUME SignInv, SignNext
  PROVE  ~crossed => links' \subseteq links \cup confirmed
  <1> USE DEF SignInv
  <1>1. CASE SyncConnects
    BY <1>1, SignTypes DEF SyncConnects, Straight
  <1>2. CASE \E i \in Ids : Completes(i)
    BY <1>2 DEF Completes, Exchange, ExchangeAnswers, LoginFails, KeepsToken, ComparesAccount, StoresAccount, SignsIn,
                completionRest
  <1>3. CASE \E i \in Ids : OwnerRemoves(i)
    BY <1>3 DEF OwnerRemoves
  <1>4. CASE \E late \in BOOLEAN : LoginUrl(late)
    BY <1>4 DEF LoginUrl, loginRest
  <1>5. CASE \E i \in 0 .. made : \E late, allowed \in BOOLEAN : Returns(i, late, allowed)
    BY <1>5 DEF Returns
  <1>6. CASE LoginCancel \/ AccountConnect \/ SyncBegins \/ SignOut \/ LogoutEnds \/ Restart
    BY <1>6 DEF LoginCancel, AccountConnect, SyncBegins, SignOut, LogoutEnds, Restart, loginRest
  <1>7. CASE MeAnswers \/ MeFails \/ Refused \/ SyncConsents \/ SignOutLocal
    BY <1>7 DEF MeAnswers, MeFails, Refused, SyncConsents, SignOutLocal, DeletesKey, ForgetsAccount, ForgetsLogin,
                RemovesLinks
  <1> QED BY <1>1, <1>2, <1>3, <1>4, <1>5, <1>6, <1>7 DEF SignNext, SyncMoves

-----------------------------------------------------------------------------
(* The four together.                                                      *)

\* What holds at every time.
Inv == BrowserInv /\ DoorInv /\ ListsInv /\ SignInv

\* Each kind of behaviour is a behaviour of every part.
LEMMA EachSteps ==
  ASSUME [Next]_vars
  PROVE  [BrowserNext]_browserVars /\ [HostNext]_hostVars /\ [ListerNext]_listerVars /\ [SignNext]_signVars
  BY DEF Next, vars, BrowserStep, DoorStep, ListerStep, AccountStep

\* The inductive invariant of the browsers, the endpoint, the lists and the account.
LEMMA Always == Spec => []Inv
  <1>1. Init => Inv
    BY BrowserBegins, DoorBegins, ListerBegins, SignBegins DEF Init, Inv
  <1>2. Inv /\ [Next]_vars => Inv'
    BY EachSteps, BrowserSteps, HostSteps, ListSteps, SignSteps DEF Inv
  <1> QED BY <1>1, <1>2, PTL DEF Spec

\* Every variable has its type, and a browser counts as linked only where the
\* owner confirmed it, with the vault it is linked to, over every reconnection,
\* revocation and answer that comes late (browser.rs, pair_done, hello).
THEOREM BrowsersLinked == Spec => []LinksAreTheOwners
  <1>1. Inv => LinksAreTheOwners
    BY BrowserTypes DEF Inv, DoorInv, ListsInv, SignInv, BrowserInv, LinksAreTheOwners, BrowsersTypeOK
  <1> QED BY <1>1, Always, PTL

\* The app that serves is at the path, where no two apps started together, and the
\* browser is told of the connection it has (transport.rs, bind; host.rs, relay).
THEOREM HelperServed == Spec => []HelperIsRight
  <1>1. Inv => HelperIsRight
    BY DEF Inv, DoorInv, OneDoor, HelperIsRight, ServesAtThePath
  <1> QED BY <1>1, Always, PTL

\* The token in the store is of a sign-in the owner waited for; and where nothing
\* crossed the two writes of a sign-in, token and account are of one account, of which
\* no more is allowed than the owner confirmed (account.rs, login_complete, sign_out).
THEOREM SignedInByOwner == Spec => []SignInIsOwn
  <1>1. Inv => SignInIsOwn
    BY DEF Inv, SignInv, Logins, Straight, SignedIn, SignInIsOwn, OfOneSignIn
  <1> QED BY <1>1, Always, PTL

\* Where nothing crossed the steps that keep a sign-in, a sync links only synths of
\* an account the owner confirmed (account.rs, account_sync).
THEOREM AccountsLinked == Spec => LinkedIsConfirmed
  <1>1. Inv /\ [Next]_vars => [~crossed => links' \subseteq links \cup confirmed]_signVars
    BY EachSteps, LinkedRight DEF Inv
  <1> QED BY <1>1, Always, PTL DEF Spec, LinkedIsConfirmed

\* Who asked for a list of the driver is told that list, and none older than the
\* question (cua_apps.rs, Directory::call).
THEOREM ListsAnswered == Spec => ToldWhatWasAsked
  <1>1. Inv /\ [Next]_vars => [learned' # learned /\ learned' # NoQuestion =>
                                  learned'.list = question.list /\ learned'.since >= question.since]_listerVars
    BY EachSteps, ToldRight DEF Inv
  <1> QED BY <1>1, Always, PTL DEF Spec, ToldWhatWasAsked
=============================================================================
