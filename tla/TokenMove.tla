----------------------------- MODULE TokenMove -----------------------------
(***************************************************************************)
(* The pairing token of an app before 0.1.13: one synth, its token under   *)
(* the bare key of the secret store, its pairing in `identity` of the      *)
(* settings file.  At every start `Core::new` moves the token to the       *)
(* synth's own key and the pairing to the list (`migrate_legacy_token`,    *)
(* `move_bare_token`, core.rs).                                            *)
(*                                                                         *)
(* The app may die between any two accesses to the secret store and the    *)
(* file, and the store may refuse any write or removal (a locked keychain, *)
(* a prompt the owner declines).  Reads are taken to succeed; a removal    *)
(* that is refused goes unnoticed in the code.  A save that fails is a     *)
(* save that did not come.                                                 *)
(***************************************************************************)
CONSTANTS Old,          \* the synth paired before 0.1.13
          Synths,       \* all synths
          None

ASSUME TokenMoveAssumption ==
    /\ Old \in Synths
    /\ None \notin {"legacy", "new"} \cup Synths

VARIABLES
    bare, own,          \* the secret store: the bare key, each synth's own key
    identity, list,     \* the settings file: the old shape, the list of pairings
    step, mover,        \* where the start stands, whose token it moves
    pairings,           \* the list in memory
    links, legacy,      \* the slots, and the one that reads the bare key
    work,               \* pairing or unlink under way
    dropped             \* history: the owner unlinked Old, or replaced its token

store == <<bare, own>>
settings == <<identity, list>>
moveVars == <<store, settings, step, mover, pairings, links, legacy, work, dropped>>

TypeOK ==
    /\ bare \in {"legacy", None} /\ own \in [Synths -> {"legacy", "new", None}]
    /\ identity \in BOOLEAN /\ list \subseteq Synths
    /\ step \in {"down", "move", "check", "remove", "save", "links", "up"}
    /\ mover \in {"file", "links"}
    /\ pairings \subseteq Synths
    /\ links \subseteq pairings
    /\ legacy \in Synths \cup {None}
    /\ work \in [kind : {"none", "pair", "unpair"}, synth : Synths, at : {"token", "bare", "file"}]
    /\ dropped \in BOOLEAN

Idle == [kind |-> "none", synth |-> Old, at |-> "token"]

\* The first start of the new app.
MoveInit ==
    /\ bare = "legacy" /\ own = [s \in Synths |-> None]
    /\ identity = TRUE /\ list = {}
    /\ step = "down" /\ mover = "file" /\ pairings = {} /\ links = {} /\ legacy = None
    /\ work = Idle
    /\ dropped = FALSE

-----------------------------------------------------------------------------
(* The start.                                                              *)

\* settings::load brings the old pairing into the list in memory.
Load ==
    /\ step = "down"
    /\ pairings' = list \cup (IF identity THEN {Old} ELSE {})
    /\ mover' = "file"
    /\ step' = IF identity THEN "move" ELSE "links"
    /\ links' = {} /\ legacy' = None /\ work' = Idle
    /\ UNCHANGED <<store, settings, dropped>>

Single(s) == pairings = {s}
Movee == IF mover = "file" THEN Old ELSE CHOOSE s \in Synths : Single(s)

Linked(s) == links' = links \cup {s}

\* The end of a move.  For the file, Ok writes the new shape; for the links, Ok
\* is a link, none anywhere is none, Err is a link that reads the bare key.
MoveEnds(result) ==
    IF mover = "file"
      THEN /\ step' = IF result = "err" THEN "links" ELSE "save"
           /\ UNCHANGED <<links, legacy>>
      ELSE /\ step' = "up"
           /\ IF result = "none" THEN UNCHANGED links ELSE Linked(Movee)
           /\ legacy' = IF result = "err" THEN Movee ELSE None

\* move_bare_token, its writes.
Move ==
    /\ step = "move"
    /\ \/ own[Movee] # None /\ step' = "remove" /\ UNCHANGED <<own, links, legacy>>
       \/ own[Movee] = None /\ bare = None /\ MoveEnds("none") /\ UNCHANGED own
       \/ own[Movee] = None /\ bare # None /\ MoveEnds("err") /\ UNCHANGED own
       \/ /\ own[Movee] = None /\ bare # None
          /\ own' \in {own, [own EXCEPT ![Movee] = bare]}
          /\ step' = "check" /\ UNCHANGED <<links, legacy>>
    /\ UNCHANGED <<bare, settings, mover, pairings, work, dropped>>

\* Mutant of ReadBack: the write is taken to have worked.
TakenForWritten == TRUE

\* The store accepted the write: is the token there?
ReadBack == own[Movee] = bare

Check ==
    /\ step = "check"
    /\ \/ ReadBack /\ step' = "remove" /\ UNCHANGED <<links, legacy>>
       \/ ~ReadBack /\ MoveEnds("err")
    /\ UNCHANGED <<store, settings, mover, pairings, work, dropped>>

\* Only then the bare key goes, if the store lets it.
Remove ==
    /\ step = "remove"
    /\ bare' \in {bare, None}
    /\ MoveEnds("ok")
    /\ UNCHANGED <<own, settings, mover, pairings, work, dropped>>

\* The file takes the new shape.
Save ==
    /\ step = "save"
    /\ identity' = FALSE /\ list' = pairings
    /\ step' = "links"
    /\ UNCHANGED <<store, mover, pairings, links, legacy, work, dropped>>

\* The links: each pairing whose token is there; a single one without may have it
\* under the bare key.
MakeLinks ==
    /\ step = "links"
    /\ links' = {s \in pairings : own[s] # None}
    /\ IF links' = {} /\ \E s \in Synths : Single(s)
         THEN step' = "move" /\ mover' = "links"
         ELSE step' = "up" /\ UNCHANGED mover
    /\ UNCHANGED <<store, settings, pairings, legacy, work, dropped>>

Crash ==
    /\ step # "down"
    /\ step' = "down" /\ links' = {} /\ pairings' = {} /\ legacy' = None /\ work' = Idle
    /\ UNCHANGED <<store, settings, mover, dropped>>

-----------------------------------------------------------------------------
(* The app runs.                                                           *)

\* Any save (a setting, a grant) writes the new shape.
SaveAny ==
    /\ step = "up"
    /\ identity' = FALSE /\ list' = pairings
    /\ UNCHANGED <<store, step, mover, pairings, links, legacy, work, dropped>>

\* add_link: the token, the file, then an old token that is not needed any more.
Pair(s) ==
    /\ step = "up" /\ work.kind = "none"
    /\ own' = [own EXCEPT ![s] = "new"]
    /\ work' = [kind |-> "pair", synth |-> s, at |-> "file"]
    /\ dropped' = (dropped \/ s = Old)
    /\ UNCHANGED <<bare, settings, step, mover, pairings, links, legacy>>

PairStores ==
    /\ work.kind = "pair" /\ work.at = "file"
    /\ pairings' = pairings \cup {work.synth}
    /\ identity' = FALSE /\ list' = pairings'
    /\ links' = links \cup {work.synth}
    /\ work' = IF legacy = work.synth THEN [work EXCEPT !.at = "bare"] ELSE Idle
    /\ UNCHANGED <<store, step, mover, legacy, dropped>>

\* wipe_slot: the token, the bare key if it was the link's, the file.
Unpair(s) ==
    /\ step = "up" /\ work.kind = "none" /\ s \in links
    /\ own' \in {own, [own EXCEPT ![s] = None]}
    /\ work' = [kind |-> "unpair", synth |-> s,
                at |-> IF legacy = s THEN "bare" ELSE "file"]
    /\ dropped' = (dropped \/ s = Old)
    /\ UNCHANGED <<bare, settings, step, mover, pairings, links, legacy>>

RemoveBare ==
    /\ work.at = "bare"
    /\ bare' \in {bare, None}
    /\ legacy' = None
    /\ work' = IF work.kind = "pair" THEN Idle ELSE [work EXCEPT !.at = "file"]
    /\ UNCHANGED <<own, settings, step, mover, pairings, links, dropped>>

\* Mutant of UnpairStores: the slot stays in the list.
UnpairKeepsSlot ==
    /\ work.kind = "unpair" /\ work.at = "file"
    /\ pairings' = pairings \ {work.synth}
    /\ identity' = FALSE /\ list' = pairings'
    /\ work' = Idle
    /\ UNCHANGED <<store, step, mover, links, legacy, dropped>>

UnpairStores ==
    /\ work.kind = "unpair" /\ work.at = "file"
    /\ pairings' = pairings \ {work.synth}
    /\ identity' = FALSE /\ list' = pairings'
    /\ links' = links \ {work.synth}
    /\ work' = Idle
    /\ UNCHANGED <<store, step, mover, legacy, dropped>>

MoveNext ==
    \/ Load \/ Move \/ Check \/ Remove \/ Save \/ MakeLinks \/ Crash
    \/ SaveAny \/ PairStores \/ RemoveBare \/ UnpairStores
    \/ \E s \in Synths : Pair(s) \/ Unpair(s)

MoveSpec == MoveInit /\ [][MoveNext]_moveVars

-----------------------------------------------------------------------------
(* Properties.                                                             *)

\* The token of the old pairing is in the store, under one key or the other,
\* until the owner unlinks that synth or pairs it again: whatever the store
\* refuses and wherever the app dies.
TokenNotLost == ~dropped => (bare = "legacy" \/ own[Old] = "legacy")

OldStays == ~dropped =>
    /\ identity \/ Old \in list
    /\ step # "down" => Old \in pairings
    /\ own[Old] # "new"
    /\ legacy \in {None, Old}
MoverIsSingle ==
    (step \in {"move", "check", "remove"} /\ mover = "links") => \E s \in Synths : Single(s)
WrittenFirst == /\ step = "check" => bare # None
                /\ step = "remove" => own[Movee] # None
WorkDrops == (work.kind # "none" /\ work.synth = Old) => dropped
BareOfLink == work.at = "bare" => (work.kind # "none" /\ work.synth = legacy)
WorkWhenUp == work.kind # "none" => step = "up"

\* What the steps of a start and of an unlink rely on: the old pairing stays in
\* the file, the move by links is about the only pairing there is, what is
\* checked and removed was written, the bare key belongs to the old pairing, and
\* an unlink of the old synth counts as its drop.
MoveIsSound == OldStays /\ MoverIsSingle /\ WrittenFirst /\ WorkDrops /\ BareOfLink
               /\ WorkWhenUp

-----------------------------------------------------------------------------
(* Claims of the repository that the code does not keep (README.md, 8).    *)

\* core.rs, migrate_legacy_token: "the bare key stays, and the link reads it from
\* there until a later start moves it".  The old pairing is a link whenever the
\* app is up.
OldLinkIsThere == (step = "up" /\ ~dropped) => Old \in links

\* core.rs, Core::new: "with exactly one stored pairing it is that pairing's".  No
\* other synth gets the old token.
TokenStaysWithSynth == \A s \in Synths \ {Old} : own[s] # "legacy"
=============================================================================
