------------------------------- MODULE Links -------------------------------
(***************************************************************************)
(* The link to one synth: its reconnect loop (`run_forever`, link.rs), the *)
(* pairing and the unlink (`add_link`, `wipe_slot`, `unpair_synth`,        *)
(* core.rs) and what the platform account does to it (`connect_one`,       *)
(* `remint`, `account_sync`, `sign_out`, account.rs).                      *)
(*                                                                         *)
(* A token, a stored pairing and a slot belong to one synth each, so one   *)
(* synth is enough; the account's waits for its other synths are the gap   *)
(* between `SyncReads` and `SyncConnects`.  Every slot ever made keeps its *)
(* number: the loop of a slot that left the list goes on by itself.        *)
(*                                                                         *)
(* `add_link` and `wipe_slot` do not wait but run on several threads: they *)
(* are cut where they take another lock.  Tokens are numbered as they are  *)
(* minted; the synth accepts the last one only.                            *)
(***************************************************************************)
EXTENDS Naturals, FiniteSets

CONSTANTS MaxTokens,    \* bound: how many tokens are minted
          Can           \* what the owner, the account and the secret store do here

Deeds == {"pair", "again", "unlink", "sync", "connect", "signout", "keep"}

ASSUME LinksAssumption == MaxTokens \in Nat \ {0} /\ Can \subseteq Deeds

\* A token makes at most one slot.
Slots == 1 .. MaxTokens
Tokens == 1 .. MaxTokens
Owner == 0
Account == MaxTokens + 1
Callers == {Owner, Account}
Adders == Callers \cup Slots        \* a loop asks for a fresh token itself
Sources == {"code", "account"}

VARIABLES
    token, stored,              \* the token, the pairing on disk (its source)
    links, made,                \* Shared::links, how many slots so far
    source, stopping, wake, running, up, unpairReq, unpairAck,  \* the slot
    loop, dialed, reminted,     \* run_forever: where it stands, its locals
    minted, valid, told,        \* the synth: the token it accepts, unpair received
    add,                        \* add_link under way, for whom
    un,                         \* unpair_synth under way, for whom
    relink,                     \* the host is asked to start loops
    signed, skipped, acct, snap,    \* the account
    refused, asked, gone    \* history

slotVars == <<source, stopping, wake, running, up, unpairReq, unpairAck>>
loopVars == <<loop, dialed, reminted, refused, asked>>
synthVars == <<minted, valid, told>>
acctVars == <<signed, skipped, acct, snap>>
vars == <<token, stored, links, made, slotVars, loopVars, synthVars, add, un, relink, acctVars,
          gone>>

LoopStages == {"off", "top", "idle", "dial", "live", "linked", "backoff", "refused",
               "reminting", "stuck", "leaving"}
AddStages == {"none", "pending", "asking", "token", "disk", "slot", "push"}
UnStages == {"none", "waiting", "wipe", "unlist", "erase"}

NoAdd == [stage |-> "none", tok |-> 0, src |-> "code"]
NoUn == [stage |-> "none", slot |-> 0]

TypeOK ==
    /\ token \in 0 .. minted /\ stored \in Sources \cup {"none"}
    /\ made \in 0 .. MaxTokens /\ links \subseteq 1 .. made
    /\ source \in [Slots -> Sources]
    /\ stopping \in [Slots -> BOOLEAN] /\ wake \in [Slots -> BOOLEAN]
    /\ running \in [Slots -> BOOLEAN] /\ up \in [Slots -> BOOLEAN]
    /\ unpairReq \in [Slots -> BOOLEAN] /\ unpairAck \in [Slots -> BOOLEAN]
    /\ loop \in [Slots -> LoopStages]
    /\ dialed \in [Slots -> 0 .. minted] /\ reminted \in [Slots -> BOOLEAN]
    /\ minted \in 0 .. MaxTokens /\ valid \in 0 .. minted /\ told \in [Slots -> BOOLEAN]
    /\ add \in [Adders -> [stage : AddStages, tok : 0 .. minted, src : Sources]]
    /\ un \in [Callers -> [stage : UnStages, slot : 0 .. made]]
    /\ \A u \in Callers : un[u].stage # "none" => un[u].slot # 0
    /\ relink \in BOOLEAN
    /\ signed \in BOOLEAN /\ skipped \in BOOLEAN /\ snap \in BOOLEAN
    /\ acct \in {"idle", "reading", "snapped", "connecting", "removing", "signing"}
    /\ refused \in [Slots -> SUBSET Tokens] /\ asked \in [Slots -> 0 .. 2]
    /\ gone \in BOOLEAN

\* The app started with one pairing.
Init ==
    /\ token = 1 /\ minted = 1 /\ valid \in {0, 1}
    /\ stored \in Sources /\ source = [i \in Slots |-> stored]
    /\ signed \in {TRUE, stored = "account"}
    /\ links = {1} /\ made = 1
    /\ stopping = [i \in Slots |-> FALSE] /\ wake = stopping /\ running = stopping
    /\ up = stopping /\ unpairReq = stopping /\ unpairAck = stopping /\ told = stopping
    /\ loop = [i \in Slots |-> "off"] /\ dialed = [i \in Slots |-> 0]
    /\ reminted = stopping /\ refused = [i \in Slots |-> {}]
    /\ asked = dialed
    /\ add = [a \in Adders |-> NoAdd] /\ un = [u \in Callers |-> NoUn]
    /\ relink = TRUE
    /\ skipped = FALSE /\ acct = "idle" /\ snap = FALSE
    /\ gone = FALSE

-----------------------------------------------------------------------------
(* The reconnect loop of slot i.                                           *)

\* Shared::slot: the first of the list.
Slot == CHOOSE i \in links : \A j \in links : i <= j

Goes(i, stage) == loop' = [loop EXCEPT ![i] = stage]

\* spawn_link, run_slot: a loop for the link, unless one runs it already.
Supervise ==
    /\ relink /\ relink' = FALSE
    /\ IF links # {} /\ ~running[Slot]
         THEN /\ running' = [running EXCEPT ![Slot] = TRUE]
              /\ Goes(Slot, "top")
              /\ reminted' = [reminted EXCEPT ![Slot] = FALSE]
              /\ refused' = [refused EXCEPT ![Slot] = {}]
              /\ asked' = [asked EXCEPT ![Slot] = 0]
         ELSE UNCHANGED <<running, loop, reminted, refused, asked>>
    /\ UNCHANGED <<token, stored, links, made, source, stopping, wake, up, unpairReq, unpairAck,
                   dialed, synthVars, add, un, acctVars, gone>>

\* The start of a pass.
Top(i) ==
    /\ loop[i] = "top"
    /\ \/ stopping[i] /\ Goes(i, "leaving") /\ UNCHANGED <<dialed, up>>
       \/ ~stopping[i] /\ token = 0 /\ Goes(i, "idle") /\ UNCHANGED <<dialed, up>>
       \/ /\ ~stopping[i] /\ token # 0 /\ Goes(i, "dial")
          /\ dialed' = [dialed EXCEPT ![i] = token]
          /\ up' = [up EXCEPT ![i] = FALSE]
    /\ UNCHANGED <<token, stored, links, made, source, stopping, wake, running, unpairReq,
                   unpairAck, reminted, refused, asked, synthVars, add, un, relink, acctVars, gone>>

\* A wait without a token, or between two dials: a timer or a wake ends it.
WaitEnds(i) ==
    /\ loop[i] \in {"idle", "backoff"}
    /\ Goes(i, "top")
    /\ wake' \in {wake, [wake EXCEPT ![i] = FALSE]}
    /\ UNCHANGED <<token, stored, links, made, source, stopping, running, up, unpairReq, unpairAck,
                   dialed, reminted, refused, asked, synthVars, add, un, relink, acctVars, gone>>

\* run_one ended without a refusal.
AfterEnd(i) == IF stopping[i] THEN "leaving" ELSE "backoff"

\* The dial: no connection, HTTP 401, or the link.
Dial(i) ==
    /\ loop[i] = "dial"
    /\ \/ Goes(i, AfterEnd(i)) /\ UNCHANGED refused
       \/ /\ dialed[i] # valid
          /\ Goes(i, "refused")
          /\ refused' = [refused EXCEPT ![i] = @ \cup {dialed[i]}]
       \/ dialed[i] = valid /\ Goes(i, "live") /\ UNCHANGED refused
    /\ UNCHANGED <<token, stored, links, made, slotVars, dialed, reminted, asked, synthVars, add, un,
                   relink, acctVars, gone>>

\* hello_ack
HelloAck(i) ==
    /\ loop[i] = "live"
    /\ Goes(i, "linked")
    /\ up' = [up EXCEPT ![i] = TRUE]
    /\ UNCHANGED <<token, stored, links, made, source, stopping, wake, running, unpairReq,
                   unpairAck, dialed, reminted, refused, asked, synthVars, add, un, relink, acctVars,
                   gone>>

\* The writer sends `unpair`: the synth forgets this token.
SendUnpair(i) ==
    /\ loop[i] \in {"live", "linked"} /\ unpairReq[i]
    /\ unpairReq' = [unpairReq EXCEPT ![i] = FALSE]
    /\ told' = [told EXCEPT ![i] = TRUE]
    /\ valid' = IF valid = dialed[i] THEN 0 ELSE valid
    /\ UNCHANGED <<token, stored, links, made, source, stopping, wake, running, up, unpairAck,
                   loopVars, minted, add, un, relink, acctVars, gone>>

\* The synth's side removes the pairing.
SynthForgets ==
    /\ valid # 0 /\ valid' = 0
    /\ UNCHANGED <<token, stored, links, made, slotVars, loopVars, minted, told, add, un, relink,
                   acctVars, gone>>

\* The link goes down.  After one that was up, the next refusal may ask again.
Down(i) ==
    /\ Goes(i, AfterEnd(i))
    /\ reminted' = [reminted EXCEPT ![i] = @ /\ loop[i] # "linked"]
    /\ up' = [up EXCEPT ![i] = FALSE]
    /\ asked' = [asked EXCEPT ![i] = IF loop[i] = "linked" THEN 0 ELSE @]
    /\ told' = [told EXCEPT ![i] = FALSE]

\* unpair_ack ends the control stream, and with it the link.
UnpairAck(i) ==
    /\ loop[i] \in {"live", "linked"} /\ told[i]
    /\ unpairAck' = [unpairAck EXCEPT ![i] = TRUE]
    /\ Down(i)
    /\ UNCHANGED <<token, stored, links, made, source, stopping, wake, running, unpairReq, dialed,
                   refused, minted, valid, add, un, relink, acctVars, gone>>

\* The synth hangs up, the network fails, a message is bad.
Drop(i) ==
    /\ loop[i] \in {"live", "linked"}
    /\ Down(i)
    /\ UNCHANGED <<token, stored, links, made, source, stopping, wake, running, unpairReq,
                   unpairAck, dialed, refused, minted, valid, add, un, relink, acctVars, gone>>

\* Mutant of MayAsk: a refusal of the fresh token asks for another one.
AskEveryTime(i) == source[i] = "account"

\* One fresh token per refusal.
MayAsk(i) == source[i] = "account" /\ ~reminted[i]

\* HTTP 401: an account link asks for a fresh token once, else it waits.
Refused(i) ==
    /\ loop[i] = "refused"
    /\ \/ stopping[i] /\ Goes(i, "leaving") /\ UNCHANGED <<reminted, asked, add>>
       \/ /\ ~stopping[i] /\ MayAsk(i)
          /\ reminted' = [reminted EXCEPT ![i] = TRUE]
          /\ asked' = [asked EXCEPT ![i] = IF @ < 2 THEN @ + 1 ELSE @]
          /\ IF signed
               THEN /\ Goes(i, "reminting")
                    /\ add' = [add EXCEPT ![i] = [stage |-> "asking", tok |-> 0, src |-> "account"]]
               ELSE Goes(i, "stuck") /\ UNCHANGED add
       \/ ~stopping[i] /\ ~MayAsk(i) /\ Goes(i, "stuck") /\ UNCHANGED <<reminted, asked, add>>
    /\ UNCHANGED <<token, stored, links, made, slotVars, dialed, refused, synthVars, un, relink,
                   acctVars, gone>>

\* Mutant of NewToken: every wake is taken for a new token.
AnyWake(i) == TRUE

\* A wake with the refused token still in place is not a new token.
NewToken(i) == stopping[i] \/ token # dialed[i]

StuckWakes(i) ==
    /\ loop[i] = "stuck" /\ wake[i]
    /\ wake' = [wake EXCEPT ![i] = FALSE]
    /\ \/ /\ NewToken(i)
          /\ Goes(i, "top")
          /\ reminted' = [reminted EXCEPT ![i] = TRUE]
          /\ refused' = [refused EXCEPT ![i] = IF stopping[i] THEN {} ELSE @]
       \/ ~NewToken(i) /\ UNCHANGED <<loop, reminted, refused>>
    /\ UNCHANGED <<token, stored, links, made, source, stopping, running, up, unpairReq, unpairAck,
                   dialed, asked, synthVars, add, un, relink, acctVars, gone>>

Leave(i) ==
    /\ loop[i] = "leaving"
    /\ Goes(i, "off")
    /\ running' = [running EXCEPT ![i] = FALSE]
    /\ UNCHANGED <<token, stored, links, made, source, stopping, wake, up, unpairReq, unpairAck,
                   dialed, reminted, refused, asked, synthVars, add, un, relink, acctVars, gone>>

-----------------------------------------------------------------------------
(* add_link.                                                               *)

Mint == minted < MaxTokens /\ minted' = minted + 1 /\ valid' = minted + 1

\* add_link for `a` goes on with its token.
AddGoes(a, stage) == add' = [add EXCEPT ![a] = [@ EXCEPT !.stage = stage]]

\* pair_begin: the code is claimed; through the account it may tie the synth
\* to it.
PairBegin ==
    /\ "pair" \in Can /\ add[Owner].stage = "none"
    /\ Mint
    /\ \E src \in Sources :
          /\ src = "account" => signed
          /\ add' = [add EXCEPT ![Owner] = [stage |-> "pending", tok |-> minted', src |-> src]]
    /\ UNCHANGED <<token, stored, links, made, slotVars, loopVars, told, un, relink, acctVars,
                   gone>>

\* pair_confirm takes the pending pairing, pair_cancel drops it.
PairConfirm ==
    /\ add[Owner].stage = "pending"
    /\ AddGoes(Owner, "token")
    /\ gone' = FALSE
    /\ UNCHANGED <<token, stored, links, made, slotVars, loopVars, synthVars, un, relink, acctVars>>

PairCancel ==
    /\ add[Owner].stage = "pending"
    /\ add' = [add EXCEPT ![Owner] = NoAdd]
    /\ UNCHANGED <<token, stored, links, made, slotVars, loopVars, synthVars, un, relink, acctVars,
                   gone>>

\* reconnect_synth: "connect again" on an account link.
Again ==
    /\ "again" \in Can /\ add[Owner].stage = "none"
    /\ links # {} /\ source[Slot] = "account" /\ signed
    /\ add' = [add EXCEPT ![Owner] = [stage |-> "asking", tok |-> 0, src |-> "account"]]
    /\ gone' = FALSE
    /\ UNCHANGED <<token, stored, links, made, slotVars, loopVars, synthVars, un, relink, acctVars>>

\* The caller of add_link goes on: a loop dials again or waits for a token,
\* the account is done.
AddEnds(a, ok) ==
    /\ add' = [add EXCEPT ![a] = NoAdd]
    /\ loop' = [i \in Slots |-> IF i = a THEN (IF ok THEN "top" ELSE "stuck") ELSE loop[i]]
    /\ acct' = IF a = Account THEN "idle" ELSE acct

\* connect_one: the platform's answer.
Answer(a) ==
    /\ add[a].stage = "asking"
    /\ \/ /\ Mint
          /\ add' = [add EXCEPT ![a] = [stage |-> "token", tok |-> minted', src |-> @.src]]
          /\ UNCHANGED <<loop, acct>>
       \/ AddEnds(a, FALSE) /\ UNCHANGED <<minted, valid>>
    /\ UNCHANGED <<token, stored, links, made, slotVars, dialed, reminted, refused, asked, told, un,
                   relink, signed, skipped, snap, gone>>

StoreToken(a) ==
    /\ add[a].stage = "token"
    /\ token' = add[a].tok
    /\ AddGoes(a, "disk")
    /\ UNCHANGED <<stored, links, made, slotVars, loopVars, synthVars, un, relink, acctVars,
                   gone>>

\* The secret store refuses.
StoreFails(a) ==
    /\ add[a].stage = "token"
    /\ AddEnds(a, FALSE)
    /\ UNCHANGED <<token, stored, links, made, slotVars, dialed, reminted, refused, asked, synthVars, un,
                   relink, signed, skipped, snap, gone>>

StorePairing(a) ==
    /\ add[a].stage = "disk"
    /\ stored' = add[a].src
    /\ AddGoes(a, "slot")
    /\ UNCHANGED <<token, links, made, slotVars, loopVars, synthVars, un, relink, acctVars, gone>>

\* Mutant of Woken: the loop that waits for the new token is not woken.
NotWoken(i) == wake

\* Notify::notify_one
Woken(i) == [wake EXCEPT ![i] = TRUE]

\* The synth has a link already: the new token is on it.
UpdateSlot(a) ==
    /\ add[a].stage = "slot" /\ links # {}
    /\ source' = [source EXCEPT ![Slot] = add[a].src]
    /\ stopping' = [stopping EXCEPT ![Slot] = FALSE]
    /\ up' = [up EXCEPT ![Slot] = FALSE]
    /\ wake' = Woken(Slot)
    /\ relink' = TRUE
    /\ AddEnds(a, TRUE)
    /\ UNCHANGED <<token, stored, links, made, running, unpairReq, unpairAck, dialed, reminted,
                   refused, asked, synthVars, un, signed, skipped, snap, gone>>

NoSlot(a) ==
    /\ add[a].stage = "slot" /\ links = {}
    /\ AddGoes(a, "push")
    /\ UNCHANGED <<token, stored, links, made, slotVars, loopVars, synthVars, un, relink, acctVars,
                   gone>>

PushSlot(a) ==
    /\ add[a].stage = "push"
    /\ made' = made + 1 /\ links' = links \cup {made + 1}
    /\ source' = [source EXCEPT ![made + 1] = add[a].src]
    /\ relink' = TRUE
    /\ AddEnds(a, TRUE)
    /\ UNCHANGED <<token, stored, stopping, wake, running, up, unpairReq, unpairAck, dialed,
                   reminted, refused, asked, synthVars, un, signed, skipped, snap, gone>>

-----------------------------------------------------------------------------
(* unpair_synth and wipe_slot.                                             *)

\* Mutant of Stop: the loop is not woken.
StopQuietly(i) == stopping' = [stopping EXCEPT ![i] = TRUE] /\ UNCHANGED wake

Stop(i) == stopping' = [stopping EXCEPT ![i] = TRUE] /\ wake' = [wake EXCEPT ![i] = TRUE]

\* Mutant of UnpairBegin: the id is not looked up first.
UnpairUnknown(u) ==
    /\ un[u].stage = "none"
    /\ un' = [un EXCEPT ![u] = [stage |-> "wipe", slot |-> IF links = {} THEN 0 ELSE Slot]]
    /\ UNCHANGED <<stopping, wake, unpairReq>>

\* The loop is told to stop; a live link is told to send `unpair`.
UnpairBegin(u) ==
    /\ un[u].stage = "none" /\ links # {}
    /\ Stop(Slot)
    /\ unpairReq' = [unpairReq EXCEPT ![Slot] = @ \/ up[Slot]]
    /\ un' = [un EXCEPT ![u] = [stage |-> IF up[Slot] THEN "waiting" ELSE "wipe", slot |-> Slot]]

\* The owner disconnects the synth: the sync is told to leave it alone.
Unlink ==
    /\ "unlink" \in Can
    /\ skipped' = (skipped \/ signed)
    /\ UnpairBegin(Owner)
    /\ UNCHANGED <<token, stored, links, made, source, running, up, unpairAck, loopVars, synthVars,
                   add, relink, signed, acct, snap, gone>>

\* The ack came, or three seconds passed.
Waited(u) ==
    /\ un[u].stage = "waiting"
    /\ unpairAck' = [unpairAck EXCEPT ![un[u].slot] = FALSE]
    /\ un' = [un EXCEPT ![u] = [@ EXCEPT !.stage = "wipe"]]
    /\ UNCHANGED <<token, stored, links, made, source, stopping, wake, running, up, unpairReq,
                   loopVars, synthVars, add, relink, acctVars, gone>>

\* A secret store that does not delete is ignored: it keeps the token.
WipeToken(u) ==
    /\ un[u].stage = "wipe"
    /\ Stop(un[u].slot)
    /\ token' = 0 \/ ("keep" \in Can /\ token' = token)
    /\ un' = [un EXCEPT ![u] = [@ EXCEPT !.stage = "unlist"]]
    /\ UNCHANGED <<stored, links, made, source, running, up, unpairReq, unpairAck, loopVars,
                   synthVars, add, relink, acctVars, gone>>

Unlist(u) ==
    /\ un[u].stage = "unlist"
    /\ links' = links \ {un[u].slot}
    /\ un' = [un EXCEPT ![u] = [@ EXCEPT !.stage = "erase"]]
    /\ UNCHANGED <<token, stored, made, slotVars, loopVars, synthVars, add, relink, acctVars,
                   gone>>

ErasePairing(u) ==
    /\ un[u].stage = "erase"
    /\ stored' = "none"
    /\ up' = [up EXCEPT ![un[u].slot] = FALSE]
    /\ un' = [un EXCEPT ![u] = NoUn]
    /\ gone' = (gone \/ u = Owner)
    /\ acct' = IF u = Account THEN "idle" ELSE acct
    /\ UNCHANGED <<token, links, made, source, stopping, wake, running, unpairReq, unpairAck,
                   loopVars, synthVars, add, relink, signed, skipped, snap>>

-----------------------------------------------------------------------------
(* The account.  One of its operations runs at a time (`busy`).            *)

SyncBegin ==
    /\ "sync" \in Can /\ signed /\ acct = "idle"
    /\ acct' = "reading"
    /\ UNCHANGED <<token, stored, links, made, slotVars, loopVars, synthVars, add, un, relink,
                   signed, skipped, snap, gone>>

\* account_connect: the owner wants every synth of the account.  Nothing is
\* skipped any more, at once; its sync waits until the account is free
\* (SyncBegin is that sync when another operation runs).
Connect ==
    /\ "connect" \in Can /\ signed
    /\ skipped' = FALSE /\ gone' = FALSE
    /\ acct' = IF acct = "idle" THEN "reading" ELSE acct
    /\ UNCHANGED <<token, stored, links, made, slotVars, loopVars, synthVars, add, un, relink,
                   signed, snap>>

\* An account link goes; nothing to do without one.
RemoveLink ==
    IF links # {} /\ source[Slot] = "account"
      THEN UnpairBegin(Account) /\ acct' = "removing"
      ELSE acct' = "idle" /\ UNCHANGED <<stopping, wake, unpairReq, un>>

\* The platform's answer to the sync: the synth is in the account (the link,
\* if there is one, is the account's now), it left, the sign-in is no longer
\* good, or there is no answer.
SyncReads ==
    /\ acct = "reading"
    /\ \/ /\ acct' = "snapped" /\ snap' = skipped
          /\ source' = [source EXCEPT ![IF links = {} THEN 1 ELSE Slot] =
                            IF links = {} THEN @ ELSE "account"]
          /\ stored' = IF links # {} /\ stored # "none" THEN "account" ELSE stored
          /\ UNCHANGED <<stopping, wake, unpairReq, un, signed, skipped>>
       \/ RemoveLink /\ UNCHANGED <<source, stored, signed, skipped, snap>>
       \/ /\ signed' = FALSE /\ skipped' = FALSE
          /\ RemoveLink /\ UNCHANGED <<source, stored, snap>>
       \/ /\ acct' = "idle"
          /\ UNCHANGED <<source, stored, stopping, wake, unpairReq, un, signed, skipped, snap>>
    /\ UNCHANGED <<token, links, made, running, up, unpairAck, loopVars, synthVars, add, relink,
                   gone>>

Asked == [add EXCEPT ![Account] = [stage |-> "asking", tok |-> 0, src |-> "account"]]

\* A synth without a link, that was not skipped when the sync looked, is linked.
SyncConnects ==
    /\ acct = "snapped"
    /\ \/ signed /\ links = {} /\ ~snap /\ acct' = "connecting" /\ add' = Asked
       \/ (~signed \/ links # {} \/ snap) /\ acct' = "idle" /\ UNCHANGED add
    /\ UNCHANGED <<token, stored, links, made, slotVars, loopVars, synthVars, un, relink, signed,
                   skipped, snap, gone>>

\* account_connect, after its sync: a link that waits for a token gets one.  Its
\* Connect was a while ago: what was skipped since stays skipped.
ConnectRepairs ==
    /\ "connect" \in Can /\ signed /\ acct = "idle"
    /\ links # {} /\ loop[Slot] = "stuck"
    /\ acct' = "connecting" /\ add' = Asked
    /\ UNCHANGED <<token, stored, links, made, slotVars, loopVars, synthVars, un, relink, signed,
                   skipped, snap, gone>>

\* sign_out tells the platform, then forgets the sign-in and its links.
SignOut ==
    /\ "signout" \in Can /\ signed /\ acct = "idle"
    /\ acct' = "signing"
    /\ UNCHANGED <<token, stored, links, made, slotVars, loopVars, synthVars, add, un, relink,
                   signed, skipped, snap, gone>>

SignedOut ==
    /\ acct = "signing"
    /\ signed' = FALSE /\ skipped' = FALSE
    /\ RemoveLink
    /\ UNCHANGED <<token, stored, links, made, source, running, up, unpairAck, loopVars, synthVars,
                   add, relink, snap, gone>>

-----------------------------------------------------------------------------
Loop(i) ==
    \/ Top(i) \/ WaitEnds(i) \/ Dial(i) \/ Refused(i) \/ StuckWakes(i) \/ Leave(i)
    \/ HelloAck(i) \/ SendUnpair(i) \/ UnpairAck(i)

Add(a) ==
    Answer(a) \/ StoreToken(a) \/ StoreFails(a) \/ StorePairing(a) \/ UpdateSlot(a) \/ NoSlot(a)
    \/ PushSlot(a)

Wipe(u) == Waited(u) \/ WipeToken(u) \/ Unlist(u) \/ ErasePairing(u)

Next ==
    \/ Supervise \/ SynthForgets
    \/ \E i \in Slots : Loop(i) \/ Drop(i)
    \/ PairBegin \/ PairConfirm \/ PairCancel \/ Again
    \/ \E a \in Adders : Add(a)
    \/ Unlink
    \/ \E u \in Callers : Wipe(u)
    \/ SyncBegin \/ Connect \/ SyncReads \/ SyncConnects \/ ConnectRepairs \/ SignOut \/ SignedOut

Spec == Init /\ [][Next]_vars

\* Every wait of a loop, of add_link's caller and of an unlink is bounded by a
\* timer or ends with a wake; a synth answers the hello and an `unpair`.
Fairness ==
    /\ WF_vars(Supervise)
    /\ \A i \in Slots : WF_vars(Loop(i))
    /\ \A a \in Adders : WF_vars(Add(a))
    /\ \A u \in Callers : WF_vars(Wipe(u))

FairSpec == Spec /\ Fairness

-----------------------------------------------------------------------------
(* Properties.                                                             *)

\* A loop never dials again with a token the synth refused it, whatever wakes
\* it: HTTP 401 stops the dialing until there is another token (or the link is
\* told to stop and taken back).
NoRedial == \A i \in Slots : loop[i] \in {"dial", "live", "linked"} => dialed[i] \notin refused[i]

\* The platform is asked for a fresh token once, until the link was up again: a
\* synth that refuses the fresh one too is not asked for another in a loop.
AskedOnce == \A i \in Slots : asked[i] <= 1

\* A link that waits for a token tries the one that was stored for it.
NewTokenIsTried ==
    \A i \in Slots : (loop[i] = "stuck" /\ token \notin {0, dialed[i]}) ~> (loop[i] # "stuck")

\* The loop of a link that is being removed ends, unless a connection keeps it:
\* whatever it waits for (a backoff, a token, the platform), the stop gets it out.
StoppedLoopEnds ==
    \A i \in Slots : stopping[i] ~> (loop[i] \in {"off", "live", "linked"} \/ ~stopping[i])

\* What wakes a waiting loop is neither too much nor too little: a refused
\* token is left alone, a new one is tried, a stop is heard.
LoopsGoOn == []NoRedial /\ NewTokenIsTried /\ StoppedLoopEnds

-----------------------------------------------------------------------------
(* Claims of the repository that the code does not keep (README.md, 8).    *)

\* core.rs, wipe_slot: "Remove one link ... The loop ends".  A link that was
\* removed does not stay up.
RemovedGoesDown ==
    \A i \in Slots : (i <= made /\ i \notin links) ~> (loop[i] \notin {"live", "linked"})

\* commands.rs, unpair_synth: "An account synth is left alone by the sync from
\* now on, until the owner connects it again".
SkippedLeftAlone == (gone /\ skipped) => add[Account].stage = "none"

\* core.rs, unpair_synth: "Stop the reconnect loop so a link that drops during
\* unpair does not race back online".  An unlinked synth has no pairing and no
\* link until the owner links it again (of its token: the store may refuse).
UnlinkedStaysUnlinked == gone => (stored = "none" /\ links = {})

\* README of connect-core, pair_confirm: "one link per synth".
OneLinkPerSynth == Cardinality(links) <= 1
=============================================================================
