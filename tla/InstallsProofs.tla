---------------------------- MODULE InstallsProofs ----------------------------
(***************************************************************************)
(* What is put in place is whole, and what the owner said stands, for any  *)
(* files, runs, versions, holds and bounds: the pairing's token across an  *)
(* update, the recognizer's files, the driver, the app, and a hold that is *)
(* recognized on this computer.  Each part has an invariant of its own;    *)
(* the parts share no state, and the last section joins them.              *)
(***************************************************************************)
EXTENDS TokenMove, MCInstalls, FiniteSetTheorems, WellFoundedInduction, TLAPS

-----------------------------------------------------------------------------
(* The pairing's token.  TokenNotLost is not inductive: a removal of the   *)
(* bare key needs to know that the key it moved to holds the token, that   *)
(* it moved it to the right synth, and that an unlink which removes it is  *)
(* the old synth's own.  MoveIsSound says so.                              *)

MInv == TypeOK /\ MoveIsSound /\ TokenNotLost

\* The first start: the token is under the bare key.
LEMMA MoveStarts == MoveInit => MInv
  <1> SUFFICES ASSUME MoveInit PROVE MInv
    OBVIOUS
  <1>1. TypeOK
    BY TokenMoveAssumption DEF MoveInit, TypeOK, Idle
  <1>2. MoveIsSound
    BY TokenMoveAssumption DEF MoveInit, MoveIsSound, Idle, OldStays, MoverIsSingle, WrittenFirst,
                              WorkDrops, BareOfLink, WorkWhenUp
  <1>3. TokenNotLost
    BY DEF MoveInit, TokenNotLost
  <1> QED BY <1>1, <1>2, <1>3 DEF MInv

\* A move is about one synth, and about the old one until the owner drops it.
LEMMA MoveeIsOld ==
  ASSUME MInv, step \in {"move", "check", "remove"}
  PROVE  Movee \in Synths /\ (~dropped => Movee = Old)
  <1>1. CASE mover = "file"
    BY <1>1, TokenMoveAssumption DEF Movee
  <1>2. CASE mover = "links"
    <2>1. PICK s \in Synths : Single(s)
      BY <1>2 DEF MInv, MoveIsSound, MoverIsSingle
    <2>2. Movee \in Synths /\ Single(Movee)
      BY <1>2, <2>1 DEF Movee
    <2>3. ~dropped => Old \in pairings
      BY DEF MInv, MoveIsSound, OldStays
    <2> QED BY <2>2, <2>3 DEF Single
  <1> QED BY <1>1, <1>2 DEF MInv, TypeOK

\* Types, for each step of a start and each step of the running app.
LEMMA MoveTypes == ASSUME MInv, [MoveNext]_moveVars PROVE TypeOK'
  <1> USE TokenMoveAssumption DEF MInv, TypeOK
  <1>1. CASE Load
    BY <1>1 DEF Load, store, settings, Idle
  <1>2. CASE Move
    <2>1. Movee \in Synths
      BY <1>2, MoveeIsOld DEF Move
    <2>2. own' \in [Synths -> {"legacy", "new", None}]
      BY <1>2, <2>1 DEF Move
    <2>3. links' \subseteq pairings' /\ legacy' \in Synths \cup {None}
      <3>1. mover = "links" => Movee \in pairings
        <4>1. SUFFICES ASSUME mover = "links" PROVE Movee \in pairings
          OBVIOUS
        <4>2. PICK s \in Synths : Single(s)
          BY <1>2, <4>1 DEF MoveIsSound, MoverIsSingle, Move
        <4>3. Single(Movee)
          BY <4>1, <4>2 DEF Movee
        <4> QED BY <4>3 DEF Single
      <3> QED BY <1>2, <2>1, <3>1 DEF Move, MoveEnds, Linked
    <2>4. step' \in {"down", "move", "check", "remove", "save", "links", "up"}
      BY <1>2 DEF Move, MoveEnds
    <2> QED BY <1>2, <2>2, <2>3, <2>4 DEF Move, settings
  <1>3. CASE Check \/ Remove
    <2>1. Movee \in Synths
      BY <1>3, MoveeIsOld DEF Check, Remove
    <2>3. links' \subseteq pairings' /\ legacy' \in Synths \cup {None}
      <3>1. mover = "links" => Movee \in pairings
        <4>1. SUFFICES ASSUME mover = "links" PROVE Movee \in pairings
          OBVIOUS
        <4>2. PICK s \in Synths : Single(s)
          BY <1>3, <4>1 DEF MoveIsSound, MoverIsSingle, Check, Remove
        <4>3. Single(Movee)
          BY <4>1, <4>2 DEF Movee
        <4> QED BY <4>3 DEF Single
      <3> QED BY <1>3, <2>1, <3>1 DEF Check, Remove, MoveEnds, Linked
    <2>4. step' \in {"down", "move", "check", "remove", "save", "links", "up"}
      BY <1>3 DEF Check, Remove, MoveEnds
    <2> QED BY <1>3, <2>3, <2>4 DEF Check, Remove, settings, store
  <1>4. CASE Save \/ SaveAny
    BY <1>4 DEF Save, SaveAny, store
  <1>5. CASE MakeLinks
    BY <1>5 DEF MakeLinks, store, settings
  <1>6. CASE Crash
    BY <1>6 DEF Crash, store, settings, Idle
  <1>7. CASE PairStores
    <2>1. work' \in [kind : {"none", "pair", "unpair"}, synth : Synths, at : {"token", "bare", "file"}]
      BY <1>7 DEF PairStores, Idle
    <2> QED BY <1>7, <2>1 DEF PairStores, store
  <1>8. CASE RemoveBare
    <2>1. work' \in [kind : {"none", "pair", "unpair"}, synth : Synths, at : {"token", "bare", "file"}]
      BY <1>8 DEF RemoveBare, Idle
    <2> QED BY <1>8, <2>1 DEF RemoveBare, settings
  <1>9. CASE UnpairStores
    BY <1>9 DEF UnpairStores, store, Idle
  <1>10. ASSUME NEW s \in Synths, Pair(s) PROVE TypeOK'
    BY <1>10 DEF Pair, settings
  <1>11. ASSUME NEW s \in Synths, Unpair(s) PROVE TypeOK'
    <2>1. own' \in [Synths -> {"legacy", "new", None}]
      BY <1>11 DEF Unpair
    <2>2. work' \in [kind : {"none", "pair", "unpair"}, synth : Synths, at : {"token", "bare", "file"}]
      BY <1>11 DEF Unpair
    <2> QED BY <1>11, <2>1, <2>2 DEF Unpair, settings
  <1>12. CASE UNCHANGED moveVars
    BY <1>12 DEF moveVars, store, settings
  <1> QED BY <1>1, <1>2, <1>3, <1>4, <1>5, <1>6, <1>7, <1>8, <1>9, <1>10, <1>11, <1>12 DEF MoveNext

\* The move steps leave the pairings and what is under way alone.
LEMMA MoveFrame ==
  ASSUME Move \/ Check \/ Remove
  PROVE  UNCHANGED <<settings, mover, pairings, work, dropped>> /\ Movee' = Movee
  <1>1. UNCHANGED <<settings, mover, pairings, work, dropped>>
    BY DEF Move, Check, Remove
  <1>2. Movee' = Movee
    BY <1>1 DEF Movee, Single
  <1> QED BY <1>1, <1>2

\* Where a move that ends can leave the links: the bare key is read by its movee.
LEMMA EndLegacy ==
  ASSUME NEW r, MoveEnds(r)
  PROVE  /\ step' \in {"links", "save", "up"}
         /\ legacy' \in {legacy, Movee, None}
  BY DEF MoveEnds

\* What the old pairing needs stays until the owner drops it.
LEMMA OldStaysStep == ASSUME MInv, [MoveNext]_moveVars PROVE OldStays'
  <1> SUFFICES ASSUME ~dropped' PROVE OldStays'
    BY DEF OldStays
  <1> USE TokenMoveAssumption
  <1>0. ~dropped => OldStays
    BY DEF MInv, MoveIsSound
  <1>1. CASE Load
    BY <1>0, <1>1 DEF Load, store, settings, OldStays
  <1>2. CASE Move \/ Check \/ Remove
    <2>1. ~dropped /\ Movee = Old /\ step # "down"
      BY <1>2, MoveFrame, MoveeIsOld DEF Move, Check, Remove
    <2>2. legacy' \in {None, Old}
      BY <1>0, <1>2, <2>1, EndLegacy DEF OldStays, Move, Check, Remove
    <2>3. own'[Old] # "new"
      BY <1>0, <1>2, <2>1 DEF OldStays, Move, Check, Remove, store, MInv, TypeOK
    <2> QED BY <1>0, <1>2, <2>1, <2>2, <2>3, MoveFrame DEF OldStays, settings
  <1>3. CASE Save \/ MakeLinks \/ Crash \/ SaveAny
    <2>1. Save \/ SaveAny \/ MakeLinks => step # "down"
      BY DEF Save, SaveAny, MakeLinks
    <2> QED BY <1>0, <1>3, <2>1 DEF Save, MakeLinks, Crash, SaveAny, store, settings, OldStays
  <1>4. CASE RemoveBare
    BY <1>0, <1>4 DEF RemoveBare, settings, OldStays
  <1>9. CASE PairStores
    <2>1. ~dropped /\ step = "up" /\ step' = "up"
      BY <1>9 DEF PairStores, MInv, MoveIsSound, WorkWhenUp
    <2>2. Old \in pairings'
      BY <1>0, <1>9, <2>1 DEF PairStores, OldStays
    <2>3. Old \in list' /\ UNCHANGED <<own, legacy>>
      BY <1>9, <2>2 DEF PairStores, store
    <2> QED BY <1>0, <2>1, <2>2, <2>3 DEF OldStays
  <1>5. CASE UnpairStores
    <2>1. ~dropped /\ work.synth # Old
      BY <1>5 DEF UnpairStores, MInv, MoveIsSound, WorkDrops
    <2>2. step = "up" /\ step' = "up"
      BY <1>5 DEF UnpairStores, MInv, MoveIsSound, WorkWhenUp
    <2>3. Old \in pairings'
      BY <1>0, <1>5, <2>1, <2>2 DEF UnpairStores, OldStays
    <2>4. Old \in list' /\ UNCHANGED <<own, legacy>>
      BY <1>5, <2>3 DEF UnpairStores, store
    <2> QED BY <1>0, <2>1, <2>2, <2>3, <2>4 DEF OldStays
  <1>6. ASSUME NEW s \in Synths, Pair(s) PROVE OldStays'
    <2>1. ~dropped /\ s # Old
      BY <1>6 DEF Pair
    <2> QED BY <1>0, <1>6, <2>1 DEF Pair, settings, OldStays, MInv, TypeOK
  <1>7. ASSUME NEW s \in Synths, Unpair(s) PROVE OldStays'
    <2>1. ~dropped /\ s # Old
      BY <1>7 DEF Unpair
    <2> QED BY <1>0, <1>7, <2>1 DEF Unpair, settings, OldStays, MInv, TypeOK
  <1>8. CASE UNCHANGED moveVars
    BY <1>0, <1>8 DEF moveVars, store, settings, OldStays
  <1> QED BY <1>1, <1>2, <1>3, <1>4, <1>5, <1>6, <1>7, <1>8, <1>9 DEF MoveNext

\* The move by links is about the only pairing, which no step of it changes.
LEMMA MoverStep == ASSUME MInv, [MoveNext]_moveVars PROVE MoverIsSingle'
  <1> SUFFICES ASSUME step' \in {"move", "check", "remove"}, mover' = "links"
               PROVE  \E s \in Synths : Single(s)'
    BY DEF MoverIsSingle
  <1>1. CASE Load
    BY <1>1 DEF Load
  <1>2. CASE Move \/ Check \/ Remove
    <2>1. UNCHANGED <<mover, pairings>>
      BY <1>2, MoveFrame
    <2>2. step \in {"move", "check", "remove"}
      BY <1>2 DEF Move, Check, Remove
    <2> QED BY <2>1, <2>2 DEF MInv, MoveIsSound, MoverIsSingle, Single
  <1>3. CASE MakeLinks
    BY <1>3 DEF MakeLinks, Single
  <1>4. CASE Save \/ Crash
    BY <1>4 DEF Save, Crash
  <1>5. CASE SaveAny \/ UNCHANGED moveVars
    BY <1>5 DEF SaveAny, moveVars, MInv, MoveIsSound, MoverIsSingle, Single
  <1>6. CASE RemoveBare
    BY <1>6 DEF RemoveBare, MInv, MoveIsSound, MoverIsSingle, Single
  <1>7. CASE PairStores \/ UnpairStores
    <2>1. step = "up"
      BY <1>7 DEF PairStores, UnpairStores, MInv, MoveIsSound, WorkWhenUp
    <2> QED BY <1>7, <2>1 DEF PairStores, UnpairStores
  <1>8. ASSUME NEW s \in Synths, Pair(s) \/ Unpair(s) PROVE FALSE
    BY <1>8 DEF Pair, Unpair
  <1> QED BY <1>1, <1>2, <1>3, <1>4, <1>5, <1>6, <1>7, <1>8 DEF MoveNext

\* What is checked or removed was written.
LEMMA WrittenStep == ASSUME MInv, [MoveNext]_moveVars PROVE WrittenFirst'
  <1> USE TokenMoveAssumption DEF WrittenFirst
  <1>0. WrittenFirst
    BY DEF MInv, MoveIsSound
  <1>1. CASE Move
    <2>1. Movee \in Synths /\ Movee' = Movee
      BY <1>1, MoveeIsOld, MoveFrame DEF Move
    <2> QED BY <1>1, <2>1, EndLegacy DEF Move
  <1>2. CASE Check
    <2>1. Movee' = Movee /\ UNCHANGED <<bare, own>>
      BY <1>2, MoveFrame DEF Check, store
    <2> QED BY <1>0, <1>2, <2>1, EndLegacy DEF Check, ReadBack
  <1>3. CASE Remove
    BY <1>3, EndLegacy DEF Remove
  <1>4. CASE Load \/ Save \/ MakeLinks \/ Crash
    BY <1>4 DEF Load, Save, MakeLinks, Crash
  <1>5. CASE PairStores \/ RemoveBare \/ UnpairStores
    <2>1. step' = "up"
      BY <1>5 DEF PairStores, RemoveBare, UnpairStores, MInv, MoveIsSound, WorkWhenUp, BareOfLink
    <2> QED BY <2>1
  <1>6. CASE SaveAny
    BY <1>6 DEF SaveAny
  <1>7. ASSUME NEW s \in Synths, Pair(s) \/ Unpair(s) PROVE WrittenFirst'
    BY <1>7 DEF Pair, Unpair
  <1>8. CASE UNCHANGED moveVars
    BY <1>0, <1>8 DEF moveVars, store, Movee, Single
  <1> QED BY <1>1, <1>2, <1>3, <1>4, <1>5, <1>6, <1>7, <1>8 DEF MoveNext

\* What is under way about the old synth has dropped its token, and what is about
\* the bare key is about the link that reads it.
LEMMA WorkStep == ASSUME MInv, [MoveNext]_moveVars PROVE (WorkDrops /\ BareOfLink /\ WorkWhenUp)'
  <1> USE TokenMoveAssumption DEF WorkDrops, BareOfLink, WorkWhenUp
  <1>0. WorkDrops /\ BareOfLink /\ WorkWhenUp
    BY DEF MInv, MoveIsSound
  <1>1. CASE Load \/ Crash
    BY <1>1 DEF Load, Crash, Idle
  <1>2. CASE Move \/ Check \/ Remove
    <2>1. step # "up" /\ UNCHANGED <<work, dropped>>
      BY <1>2, MoveFrame DEF Move, Check, Remove
    <2> QED BY <1>0, <2>1
  <1>3. CASE Save \/ MakeLinks \/ SaveAny
    BY <1>0, <1>3 DEF Save, MakeLinks, SaveAny
  <1>4. CASE PairStores
    BY <1>0, <1>4 DEF PairStores, Idle, MInv, TypeOK
  <1>5. CASE RemoveBare
    BY <1>0, <1>5 DEF RemoveBare, Idle, MInv, TypeOK
  <1>6. CASE UnpairStores
    BY <1>0, <1>6 DEF UnpairStores, Idle
  <1>7. ASSUME NEW s \in Synths, Pair(s) PROVE (WorkDrops /\ BareOfLink /\ WorkWhenUp)'
    BY <1>0, <1>7 DEF Pair
  <1>8. ASSUME NEW s \in Synths, Unpair(s) PROVE (WorkDrops /\ BareOfLink /\ WorkWhenUp)'
    BY <1>0, <1>8 DEF Unpair
  <1>9. CASE UNCHANGED moveVars
    BY <1>0, <1>9 DEF moveVars
  <1> QED BY <1>1, <1>2, <1>3, <1>4, <1>5, <1>6, <1>7, <1>8, <1>9 DEF MoveNext

\* Two steps remove a key: the move removes the bare one when its own key holds
\* the token, and the owner's unlink or new pairing is what dropped it.
LEMMA MoveKeepsToken == ASSUME MInv, [MoveNext]_moveVars PROVE TokenNotLost'
  <1> SUFFICES ASSUME ~dropped' PROVE bare' = "legacy" \/ own'[Old] = "legacy"
    BY DEF TokenNotLost
  <1> USE TokenMoveAssumption
  <1>0. ~dropped => (bare = "legacy" \/ own[Old] = "legacy")
    BY DEF MInv, TokenNotLost
  <1>1. CASE Remove
    <2>1. ~dropped
      BY <1>1 DEF Remove
    <2>2. own[Old] \in {"legacy", "new", None} /\ own[Old] # None /\ own[Old] # "new"
      BY <1>1, <2>1, MoveeIsOld DEF Remove, MInv, MoveIsSound, WrittenFirst, OldStays, TypeOK
    <2> QED BY <1>1, <2>2 DEF Remove
  <1>2. CASE RemoveBare
    <2>1. ~dropped /\ work.synth = legacy /\ work.kind # "none"
      BY <1>2 DEF RemoveBare, MInv, MoveIsSound, BareOfLink
    <2>2. work.synth \in Synths
      BY DEF MInv, TypeOK
    <2>3. legacy \in {None, Old} /\ work.synth # Old
      BY <2>1 DEF MInv, MoveIsSound, OldStays, WorkDrops
    <2> QED BY <2>1, <2>2, <2>3
  <1>3. CASE Move
    <2>1. ~dropped /\ Movee = Old /\ bare' = bare
      BY <1>3, MoveeIsOld DEF Move
    <2>2. own'[Old] = own[Old] \/ own[Old] = None
      BY <1>3, <2>1 DEF Move
    <2> QED BY <1>0, <2>1, <2>2
  <1>4. ASSUME NEW s \in Synths, Pair(s) \/ Unpair(s) PROVE bare' = "legacy" \/ own'[Old] = "legacy"
    <2>1. ~dropped /\ s # Old
      BY <1>4 DEF Pair, Unpair
    <2> QED BY <1>0, <1>4, <2>1 DEF Pair, Unpair, MInv, TypeOK
  <1>5. CASE UNCHANGED <<store, dropped>>
    BY <1>0, <1>5 DEF store
  <1>6. CASE Load \/ Check \/ Save \/ MakeLinks \/ Crash \/ SaveAny \/ PairStores \/ UnpairStores
    BY <1>5, <1>6 DEF Load, Check, Save, MakeLinks, Crash, SaveAny, PairStores, UnpairStores
  <1>7. CASE UNCHANGED moveVars
    BY <1>5, <1>7 DEF moveVars
  <1> QED BY <1>1, <1>2, <1>3, <1>4, <1>6, <1>7 DEF MoveNext

\* The invariant holds at every moment of every start.
THEOREM MoveInvariant == MoveSpec => []MInv
  <1>1. MInv /\ [MoveNext]_moveVars => MInv'
    BY MoveTypes, OldStaysStep, MoverStep, WrittenStep, WorkStep, MoveKeepsToken DEF MInv, MoveIsSound
  <1> QED BY MoveStarts, <1>1, PTL DEF MoveSpec

\* The old pairing's token stays in the secret store until the owner unlinks that
\* synth or pairs it again.
THEOREM TokenKept == MoveSpec => []TokenNotLost
  <1>1. MInv => TokenNotLost
    BY DEF MInv
  <1> QED BY MoveInvariant, <1>1, PTL

\* The steps of a start and of an unlink find what they rely on.
THEOREM MovesAreSound == MoveSpec => []MoveIsSound
  <1>1. MInv => MoveIsSound
    BY DEF MInv
  <1> QED BY MoveInvariant, <1>1, PTL

\* Type correctness: a slot belongs to a pairing in memory.
THEOREM MoveTypeCorrect == MoveSpec => []TypeOK
  <1>1. MInv => TypeOK
    BY DEF MInv
  <1> QED BY MoveInvariant, <1>1, PTL

-----------------------------------------------------------------------------
(* The recognizer's files.                                                 *)

Statuses == {"missing", "downloading", "verifying", "ready", "network", "checksum", "io", "no_space"}
Ats == {"none", "next", "open", "read", "unseen", "backoff", "hash", "rename", "mark", "ready",
        "missing", "network", "checksum", "io"}
Fetchers == [at : Ats, f : SUBSET ModelFiles, try : 0 .. Tries]
Removers == [at : {"none", "waits", "removes"}, left : SUBSET ModelFiles, ok : BOOLEAN]

DiskType ==
    /\ part \in [ModelFiles -> [n : 0 .. Size, ok : BOOLEAN]]
    /\ file \in [ModelFiles -> {"none", "right", "wrong"}] /\ marker \subseteq ModelFiles
ThreadType ==
    /\ status \in Statuses
    /\ starter \in {"none", "asked", "swapped"}
    /\ fetcher \in Fetchers /\ words \subseteq Words /\ remover \in Removers
FlagType == fetching \in BOOLEAN /\ cancel \in BOOLEAN /\ removed \in BOOLEAN /\ raced \in BOOLEAN

\* A part that goes to its place was compared, and nothing wrong is in place.
NothingWrong ==
    /\ \A f \in ModelFiles : file[f] # "wrong"
    /\ \A f \in ModelFiles : fetcher.at = "rename" /\ Of(f) => part[f].ok

\* One thread, and none while a start has the flag.
OneThread ==
    /\ ~fetching => fetcher.at = "none"
    /\ starter = "swapped" => fetching /\ fetcher.at = "none"

\* A delete has the thread's flag up until a start puts it back; the thread it
\* stops waiting for cannot put anything in place any more.
Deleting == remover.at = "removes" \/ removed
DeleteStops ==
    ~raced =>
        /\ remover.at # "none" \/ removed => cancel
        /\ removed => starter = "none"
        /\ Deleting => fetcher.at \notin {"next", "rename", "mark", "ready"}

\* What was removed stays away, and what says "ready" has seen all files.
StaysRemoved ==
    /\ remover.at = "waits" => remover.left = ModelFiles
    /\ ~raced =>
         /\ remover.at = "removes" /\ remover.ok =>
              \A f \in ModelFiles \ remover.left : file[f] = "none" /\ part[f].n = 0
         /\ removed => \A f \in ModelFiles : file[f] = "none" /\ part[f].n = 0
SaysReady == status = "ready" \/ "ready" \in words \/ fetcher.at = "ready"
ReadyHasSeen == ~raced /\ remover.at # "removes" /\ SaysReady => AllGood

ModelsInv == DiskType /\ ThreadType /\ FlagType /\ NothingWrong /\ OneThread /\ DeleteStops /\ StaysRemoved /\ ReadyHasSeen

\* The thread goes on within its file.
LEMMA ThreadGoes ==
  ASSUME fetcher \in Fetchers, NEW next \in Ats, GoesTo(next)
  PROVE  fetcher' \in Fetchers /\ fetcher'.at = next /\ fetcher'.f = fetcher.f
  BY DEF GoesTo, Fetchers

\* A part that is thrown away or begun anew.
LEMMA PartType ==
  ASSUME DiskType, NEW f \in ModelFiles, part' = [part EXCEPT ![f] = NoPart]
  PROVE  /\ part' \in [ModelFiles -> [n : 0 .. Size, ok : BOOLEAN]]
         /\ \A g \in ModelFiles : part'[g] = IF g = f THEN NoPart ELSE part[g]
  BY SizeAssumption DEF DiskType, NoPart

\* A step of the thread that fetches: what it changes has its type.
LEMMA FetchTypes ==
  ASSUME DiskType, ThreadType, NEW f \in ModelFiles,
         OpenPart(f) \/ ReadPiece(f) \/ CheckHash(f) \/ PutInPlace(f) \/ Mark(f)
  PROVE  DiskType' /\ fetcher' \in Fetchers /\ status' \in Statuses
  <1> USE SizeAssumption DEF ThreadType, Statuses, threadRest
  <1>1. CASE OpenPart(f)
    <2>1. fetcher' \in Fetchers
      BY <1>1, ThreadGoes DEF OpenPart, Ats
    <2>2. DiskType'
      BY <1>1, PartType DEF OpenPart, DiskType
    <2> QED BY <1>1, <2>1, <2>2 DEF OpenPart
  <1>2. CASE ReadPiece(f)
    <2>1. fetcher' \in Fetchers
      BY <1>2, ThreadGoes DEF ReadPiece, Ats
    <2>2. CASE \E ok \in BOOLEAN : part[f].n < Size /\ part' = [part EXCEPT ![f] = [n |-> @.n + 1, ok |-> @.ok /\ ok]]
      <3>1. PICK ok \in BOOLEAN : part[f].n < Size /\ part' = [part EXCEPT ![f] = [n |-> @.n + 1, ok |-> @.ok /\ ok]]
        BY <2>2
      <3>2. part[f].n + 1 \in 0 .. Size
        BY <3>1 DEF DiskType
      <3>3. (part[f].ok /\ ok) \in BOOLEAN
        OBVIOUS
      <3>4. [n |-> part[f].n + 1, ok |-> part[f].ok /\ ok] \in [n : 0 .. Size, ok : BOOLEAN]
        BY <3>2, <3>3
      <3>5. part' \in [ModelFiles -> [n : 0 .. Size, ok : BOOLEAN]]
        BY <3>1, <3>4 DEF DiskType
      <3> QED BY <1>2, <2>1, <3>5 DEF ReadPiece, DiskType
    <2>3. CASE part' = part \/ part' = [part EXCEPT ![f] = NoPart]
      BY <1>2, <2>1, <2>3, PartType DEF ReadPiece, DiskType
    <2>4. (\E ok \in BOOLEAN : part[f].n < Size /\ part' = [part EXCEPT ![f] = [n |-> @.n + 1, ok |-> @.ok /\ ok]])
          \/ part' = part \/ part' = [part EXCEPT ![f] = NoPart]
      BY <1>2 DEF ReadPiece
    <2> QED BY <2>2, <2>3, <2>4
  <1>3. CASE CheckHash(f)
    <2>1. fetcher' \in Fetchers
      BY <1>3, ThreadGoes DEF CheckHash, Ats
    <2>2. DiskType'
      BY <1>3, PartType DEF CheckHash, ThrownAway, DiskType
    <2> QED BY <1>3, <2>1, <2>2 DEF CheckHash
  <1>4. CASE PutInPlace(f)
    <2>1. fetcher' \in Fetchers
      BY <1>4, ThreadGoes DEF PutInPlace, Ats
    <2>2. part' \in [ModelFiles -> [n : 0 .. Size, ok : BOOLEAN]]
      BY <1>4, PartType DEF PutInPlace, DiskType
    <2>3. file' \in [ModelFiles -> {"none", "right", "wrong"}]
      BY <1>4 DEF PutInPlace, DiskType
    <2> QED BY <1>4, <2>1, <2>2, <2>3 DEF PutInPlace, DiskType
  <1>5. CASE Mark(f)
    <2>1. fetcher' \in Fetchers
      BY <1>5, ThreadGoes DEF Mark, Fetchers, Ats
    <2> QED BY <1>5, <2>1 DEF Mark, DiskType
  <1> QED BY <1>1, <1>2, <1>3, <1>4, <1>5

\* Every step of the downloads and removals keeps the types.
LEMMA ModelsTypes ==
  ASSUME DiskType, ThreadType, FlagType, ModelsNext
  PROVE  DiskType' /\ ThreadType' /\ FlagType'
  <1> USE SizeAssumption DEF threadRest, diskVars
  <1>1. CASE AskDownload \/ TakeFlag \/ Cancel
    BY <1>1 DEF AskDownload, TakeFlag, Cancel, DiskType, ThreadType, FlagType
  <1>2. CASE StartThread
    <2>1. fetcher' \in Fetchers
      BY <1>2 DEF StartThread, ThreadType, Fetchers, Ats
    <2>2. fetching' \in BOOLEAN /\ cancel' \in BOOLEAN /\ removed' \in BOOLEAN
      BY <1>2 DEF StartThread, FlagType
    <2>3. raced' \in BOOLEAN
      BY <1>2 DEF StartThread, FlagType
    <2> QED BY <1>2, <2>1, <2>2, <2>3 DEF StartThread, DiskType, ThreadType, FlagType, Statuses
  <1>3. CASE NextFile \/ TryAgainLater \/ WritesUnseen
    <2>1. fetcher' \in Fetchers
      <3>1. CASE NextFile
        BY <1>3, <3>1, ThreadGoes DEF NextFile, ThreadType, Fetchers, Ats
      <3>2. CASE TryAgainLater
        <4>1. ~LastTry => fetcher.try + 1 \in 0 .. Tries
          BY DEF LastTry, ThreadType, Fetchers
        <4> QED BY <3>2, <4>1 DEF TryAgainLater, ThreadType, Fetchers, Ats
      <3>3. CASE WritesUnseen
        BY <3>3, ThreadGoes DEF WritesUnseen, ThreadType, Ats
      <3> QED BY <1>3, <3>1, <3>2, <3>3
    <2> QED BY <1>3, <2>1 DEF NextFile, TryAgainLater, WritesUnseen, DiskType, ThreadType, FlagType
  <1>4. CASE ThreadOver \/ LastWord
    <2>1. fetcher' \in Fetchers
      BY <1>4 DEF ThreadOver, LastWord, Resting, ThreadType, Fetchers, Ats
    <2>2. words' \subseteq Words /\ status' \in Statuses
      BY <1>4 DEF ThreadOver, LastWord, Words, ThreadType, Statuses
    <2> QED BY <1>4, <2>1, <2>2 DEF ThreadOver, LastWord, Lowers, DiskType, ThreadType, FlagType
  <1>5. ASSUME NEW f \in ModelFiles, OpenPart(f) \/ ReadPiece(f) \/ CheckHash(f) \/ PutInPlace(f) \/ Mark(f)
        PROVE  DiskType' /\ ThreadType' /\ FlagType'
    <2>1. UNCHANGED threadRest
      BY <1>5 DEF OpenPart, ReadPiece, CheckHash, PutInPlace, Mark
    <2> QED BY <1>5, <2>1, FetchTypes DEF ThreadType, FlagType
  <1>6. CASE AskDelete \/ DeleteGoesOn \/ DeleteOver
    <2>1. remover' \in Removers
      <3>1. CASE AskDelete
        BY <3>1 DEF AskDelete, Removers
      <3>2. CASE DeleteGoesOn
        BY <3>2 DEF DeleteGoesOn, ThreadType, Removers
      <3>3. CASE DeleteOver
        BY <3>3 DEF DeleteOver, Removers, NoDelete
      <3> QED BY <1>6, <3>1, <3>2, <3>3
    <2>2. raced' \in BOOLEAN
      BY <1>6 DEF AskDelete, DeleteGoesOn, DeleteOver, FlagType
    <2>3. fetching' \in BOOLEAN /\ cancel' \in BOOLEAN /\ removed' \in BOOLEAN
      BY <1>6 DEF AskDelete, DeleteGoesOn, DeleteOver, StopsIt, FlagType
    <2> QED BY <1>6, <2>1, <2>2, <2>3 DEF AskDelete, DeleteGoesOn, DeleteOver, DiskType, ThreadType, FlagType, Statuses
  <1>7. ASSUME NEW f \in ModelFiles, RemoveFile(f)
        PROVE  DiskType' /\ ThreadType' /\ FlagType'
    <2>1. remover' \in Removers
      BY <1>7 DEF RemoveFile, ThreadType, Removers
    <2>2. fetcher' \in Fetchers
      BY <1>7 DEF RemoveFile, LosesPart, ThreadType, Fetchers, Ats
    <2>3. DiskType'
      <3>1. part' \in [ModelFiles -> [n : 0 .. Size, ok : BOOLEAN]]
        BY <1>7, PartType DEF RemoveFile, LosesPart, DiskType
      <3>2. file' \in [ModelFiles -> {"none", "right", "wrong"}] /\ marker' \subseteq ModelFiles
        BY <1>7 DEF RemoveFile, RemovesAll, DiskType
      <3> QED BY <3>1, <3>2 DEF DiskType
    <2> QED BY <1>7, <2>1, <2>2, <2>3 DEF RemoveFile, ThreadType, FlagType
  <1>8. CASE AppEndsAndStarts
    <2>1. part' \in [ModelFiles -> [n : 0 .. Size, ok : BOOLEAN]]
      <3>1. PICK bad \in SUBSET {f \in ModelFiles : part[f].n > 0} :
               part' = [f \in ModelFiles |-> IF f \in bad THEN [part[f] EXCEPT !.ok = FALSE] ELSE part[f]]
        BY <1>8 DEF AppEndsAndStarts
      <3>2. \A f \in ModelFiles : [part[f] EXCEPT !.ok = FALSE] \in [n : 0 .. Size, ok : BOOLEAN]
        BY DEF DiskType
      <3> QED BY <3>1, <3>2 DEF DiskType
    <2>2. fetcher' \in Fetchers /\ remover' \in Removers
      BY <1>8 DEF AppEndsAndStarts, Resting, NoDelete, Fetchers, Ats, Removers
    <2> QED BY <1>8, <2>1, <2>2 DEF AppEndsAndStarts, DiskType, ThreadType, FlagType, Statuses
  <1> QED BY <1>1, <1>2, <1>3, <1>4, <1>5, <1>6, <1>7, <1>8 DEF ModelsNext, FetchStep, RemoveStep

\* A file that is in place was compared before, whatever the part held.
LEMMA NothingWrongStays ==
  ASSUME DiskType, ThreadType, NothingWrong, ModelsNext
  PROVE  NothingWrong'
  <1> USE DEF threadRest, diskVars
  <1>1. ASSUME UNCHANGED <<file, part>>, fetcher' = fetcher \/ fetcher'.at # "rename" PROVE NothingWrong'
    BY <1>1 DEF NothingWrong, Of
  <1>2. CASE AskDownload \/ TakeFlag \/ Cancel \/ StartThread \/ AskDelete \/ DeleteGoesOn \/ DeleteOver
    BY <1>2, <1>1 DEF AskDownload, TakeFlag, Cancel, StartThread, AskDelete, DeleteGoesOn, DeleteOver
  <1>3. CASE NextFile \/ TryAgainLater \/ WritesUnseen \/ ThreadOver \/ LastWord
    <2>1. UNCHANGED <<file, part>>
      BY <1>3 DEF NextFile, TryAgainLater, WritesUnseen, ThreadOver, LastWord
    <2>2. fetcher' = fetcher \/ fetcher'.at # "rename"
      <3>1. CASE NextFile \/ WritesUnseen
        BY <3>1, ThreadGoes DEF NextFile, WritesUnseen, ThreadType, Ats
      <3>2. CASE TryAgainLater
        BY <3>2 DEF TryAgainLater, ThreadType, Fetchers
      <3> QED BY <1>3, <3>1, <3>2 DEF ThreadOver, LastWord, Resting
    <2> QED BY <2>1, <2>2, <1>1
  <1>4. ASSUME NEW f \in ModelFiles, OpenPart(f) \/ ReadPiece(f) PROVE NothingWrong'
    <2>1. file' = file /\ fetcher'.at # "rename"
      BY <1>4, ThreadGoes DEF OpenPart, ReadPiece, ThreadType, Ats
    <2> QED BY <2>1 DEF NothingWrong
  <1>5. ASSUME NEW f \in ModelFiles, CheckHash(f) PROVE NothingWrong'
    <2>1. fetcher' \in Fetchers /\ fetcher'.f = fetcher.f /\ file' = file /\ fetcher.f = {f}
      BY <1>5, ThreadGoes DEF CheckHash, ThreadType, Ats, Of
    <2>2. fetcher'.at = "rename" => part' = part /\ part[f].ok
      BY <1>5, ThreadGoes DEF CheckHash, ThreadType, Ats, Matches
    <2> QED BY <2>1, <2>2 DEF NothingWrong, Of
  <1>6. ASSUME NEW f \in ModelFiles, PutInPlace(f) PROVE NothingWrong'
    <2>1. fetcher'.at # "rename"
      BY <1>6, ThreadGoes DEF PutInPlace, ThreadType, Ats
    <2>2. \A g \in ModelFiles : file'[g] # "wrong"
      BY <1>6 DEF PutInPlace, NothingWrong, DiskType
    <2> QED BY <2>1, <2>2 DEF NothingWrong
  <1>7. ASSUME NEW f \in ModelFiles, Mark(f) PROVE NothingWrong'
    <2>1. fetcher'.at # "rename" /\ file' = file
      BY <1>7, ThreadGoes DEF Mark, ThreadType, Ats
    <2> QED BY <2>1 DEF NothingWrong
  <1>8. ASSUME NEW f \in ModelFiles, RemoveFile(f) PROVE NothingWrong'
    <2>1. \A g \in ModelFiles : file'[g] # "wrong"
      BY <1>8 DEF RemoveFile, RemovesAll, NothingWrong, DiskType
    <2>2. fetcher'.at = "rename" => fetcher' = fetcher
      BY <1>8 DEF RemoveFile, LosesPart, ThreadType, Fetchers
    <2>3. \A g \in ModelFiles : part[g].ok => part'[g].ok
      BY <1>8, PartType DEF RemoveFile, LosesPart, NoPart
    <2> QED BY <2>1, <2>2, <2>3 DEF NothingWrong, Of
  <1>9. CASE AppEndsAndStarts
    BY <1>9 DEF AppEndsAndStarts, Resting, NothingWrong
  <1> QED BY <1>2, <1>3, <1>4, <1>5, <1>6, <1>7, <1>8, <1>9 DEF ModelsNext, FetchStep, RemoveStep

\* What the steps leave alone, and where the thread may go.
FetchesOn ==
    NextFile \/ TryAgainLater \/ WritesUnseen
    \/ \E f \in ModelFiles : OpenPart(f) \/ ReadPiece(f) \/ CheckHash(f) \/ PutInPlace(f) \/ Mark(f)
\* They leave everything but the part, the place and the thread alone.
LEMMA FetchesOnly ==
  ASSUME ThreadType, FetchesOn
  PROVE  /\ UNCHANGED threadRest /\ fetcher.at # "none" /\ fetcher'.at # "none"
         /\ fetcher'.at \in {"next", "rename", "mark", "ready"} =>
                fetcher.at \in {"next", "rename", "mark"} \/ (fetcher.at = "hash" /\ ~cancel)
  <1> USE DEF ThreadType, Ats
  <1>1. CASE NextFile
    BY <1>1, ThreadGoes DEF NextFile
  <1>2. CASE TryAgainLater
    BY <1>2 DEF TryAgainLater, Fetchers
  <1>3. CASE WritesUnseen
    BY <1>3, ThreadGoes DEF WritesUnseen
  <1>4. ASSUME NEW f \in ModelFiles, OpenPart(f) \/ ReadPiece(f)
        PROVE  /\ UNCHANGED threadRest /\ fetcher.at \in {"open", "read"}
               /\ fetcher'.at \notin {"none", "next", "rename", "mark", "ready"}
    <2>1. CASE OpenPart(f)
      BY <2>1, ThreadGoes DEF OpenPart
    <2>2. CASE ReadPiece(f)
      BY <2>2, ThreadGoes DEF ReadPiece
    <2> QED BY <1>4, <2>1, <2>2
  <1>5. ASSUME NEW f \in ModelFiles, CheckHash(f)
        PROVE  /\ UNCHANGED threadRest /\ fetcher.at = "hash" /\ fetcher'.at \in {"missing", "io", "rename", "checksum"}
               /\ fetcher'.at = "rename" => ~cancel
    BY <1>5, ThreadGoes DEF CheckHash
  <1>6. ASSUME NEW f \in ModelFiles, PutInPlace(f) \/ Mark(f)
        PROVE  UNCHANGED threadRest /\ fetcher.at \in {"rename", "mark"} /\ fetcher'.at # "none"
    BY <1>6, ThreadGoes DEF PutInPlace, Mark
  <1> QED BY <1>1, <1>2, <1>3, <1>4, <1>5, <1>6 DEF FetchesOn

\* The thread's flag and the thread.
LEMMA OneThreadStays ==
  ASSUME ThreadType, FlagType, OneThread, ModelsNext
  PROVE  OneThread'
  <1>1. CASE FetchesOn
    BY <1>1, FetchesOnly DEF OneThread, threadRest
  <1>2. ASSUME NEW f \in ModelFiles, RemoveFile(f) PROVE OneThread'
    <2>1. fetcher'.at = "none" <=> fetcher.at = "none"
      BY <1>2 DEF RemoveFile, LosesPart, ThreadType, Fetchers
    <2> QED BY <1>2, <2>1 DEF RemoveFile, OneThread
  <1>3. CASE AskDownload \/ TakeFlag \/ Cancel \/ StartThread \/ AskDelete \/ DeleteGoesOn \/ DeleteOver
             \/ ThreadOver \/ LastWord \/ AppEndsAndStarts
    BY <1>3 DEF AskDownload, TakeFlag, Going, Cancel, StartThread, AskDelete, DeleteGoesOn, DeleteOver,
                ThreadOver, Lowers, LastWord, AppEndsAndStarts, Resting, OneThread, Words
  <1> QED BY <1>1, <1>2, <1>3 DEF ModelsNext, FetchStep, RemoveStep, FetchesOn

\* A delete stops the thread, or is remembered to have raced with a start.
LEMMA DeleteStopsStays ==
  ASSUME ThreadType, FlagType, OneThread, DeleteStops, ModelsNext
  PROVE  DeleteStops'
  <1> USE DEF DeleteStops, Deleting, FlagType
  <1>1. CASE FetchesOn
    <2>1. UNCHANGED <<cancel, starter, remover, removed, raced>>
      BY <1>1, FetchesOnly DEF threadRest
    <2> QED BY <1>1, <2>1, FetchesOnly
  <1>2. ASSUME NEW f \in ModelFiles, RemoveFile(f) PROVE DeleteStops'
    <2>1. fetcher'.at \in {"unseen", fetcher.at} /\ remover'.at = remover.at
      BY <1>2 DEF RemoveFile, LosesPart, ThreadType, Fetchers, Removers
    <2> QED BY <1>2, <2>1 DEF RemoveFile
  <1>3. CASE AskDownload \/ TakeFlag
    BY <1>3 DEF AskDownload, TakeFlag, Going
  <1>4. CASE StartThread
    BY <1>4 DEF StartThread
  <1>5. CASE Cancel \/ AskDelete
    BY <1>5 DEF Cancel, AskDelete, StopsIt, OneThread
  <1>6. CASE DeleteGoesOn
    <2>1. remover'.at = "removes"
      BY <1>6 DEF DeleteGoesOn, ThreadType, Removers
    <2>2. ~raced => fetcher.at \notin {"next", "rename", "mark", "ready"}
      BY <1>6 DEF DeleteGoesOn, WaitIsOver, OneThread
    <2> QED BY <1>6, <2>1, <2>2 DEF DeleteGoesOn
  <1>7. CASE DeleteOver
    BY <1>7 DEF DeleteOver, NoDelete
  <1>8. CASE ThreadOver \/ LastWord
    BY <1>8 DEF ThreadOver, Lowers, LastWord, Resting
  <1>9. CASE AppEndsAndStarts
    BY <1>9 DEF AppEndsAndStarts, Resting, NoDelete
  <1> QED BY <1>1, <1>2, <1>3, <1>4, <1>5, <1>6, <1>7, <1>8, <1>9 DEF ModelsNext, FetchStep, RemoveStep, FetchesOn

\* A thread that was stopped puts nothing in place and leaves no part behind.
LEMMA StoppedThread ==
  ASSUME DiskType, ThreadType, FetchesOn, cancel, fetcher.at \notin {"rename", "mark"}
  PROVE  file' = file /\ \A g \in ModelFiles : part'[g] \in {part[g], NoPart}
  <1> USE DEF threadRest, diskVars
  <1>1. CASE NextFile \/ TryAgainLater \/ WritesUnseen
    BY <1>1 DEF NextFile, TryAgainLater, WritesUnseen
  <1>2. ASSUME NEW f \in ModelFiles, OpenPart(f) \/ ReadPiece(f) \/ CheckHash(f)
        PROVE  file' = file /\ (part' = part \/ part' = [part EXCEPT ![f] = NoPart])
    <2>1. CASE OpenPart(f)
      BY <2>1 DEF OpenPart
    <2>2. CASE ReadPiece(f)
      BY <2>2 DEF ReadPiece
    <2>3. CASE CheckHash(f)
      BY <2>3 DEF CheckHash
    <2> QED BY <1>2, <2>1, <2>2, <2>3
  <1>3. ASSUME NEW f \in ModelFiles, OpenPart(f) \/ ReadPiece(f) \/ CheckHash(f)
        PROVE  file' = file /\ \A g \in ModelFiles : part'[g] \in {part[g], NoPart}
    BY <1>2, <1>3, PartType
  <1>4. ~\E f \in ModelFiles : PutInPlace(f) \/ Mark(f)
    BY DEF PutInPlace, Mark
  <1> QED BY <1>1, <1>3, <1>4 DEF FetchesOn

\* What was removed stays away.
LEMMA RemovedStays ==
  ASSUME DiskType, ThreadType, FlagType, OneThread, DeleteStops, StaysRemoved, ModelsNext
  PROVE  StaysRemoved'
  <1> USE DEF StaysRemoved
  <1>1. CASE FetchesOn
    <2>1. UNCHANGED <<remover, removed, raced>>
      BY <1>1, FetchesOnly DEF threadRest
    <2>2. CASE ~raced /\ Deleting
      <3>1. file' = file /\ \A g \in ModelFiles : part'[g] \in {part[g], NoPart}
        BY <1>1, <2>2, StoppedThread DEF DeleteStops, Deleting
      <3>2. NoPart.n = 0
        BY DEF NoPart
      <3>3. \A g \in ModelFiles : part[g].n = 0 => part'[g].n = 0
        BY <3>1, <3>2
      <3> QED BY <2>1, <3>1, <3>3
    <2>3. CASE raced \/ ~Deleting
      BY <2>1, <2>3 DEF Deleting
    <2> QED BY <2>2, <2>3
  <1>2. ASSUME NEW f \in ModelFiles, RemoveFile(f) PROVE StaysRemoved'
    <2>1. /\ remover'.ok => file'[f] = "none" /\ part'[f].n = 0
          /\ \A g \in ModelFiles : file'[g] \in {"none", file[g]} /\ (part[g].n = 0 => part'[g].n = 0)
      <3>1. CASE remover' = [remover EXCEPT !.left = @ \ {f}] /\ RemovesAll(f) /\ LosesPart(f)
        BY <3>1, PartType DEF RemovesAll, LosesPart, NoPart, DiskType
      <3>2. CASE /\ remover' = [remover EXCEPT !.left = @ \ {f}, !.ok = FALSE]
                 /\ file' \in {file, [file EXCEPT ![f] = "none"]} /\ (LosesPart(f) \/ UNCHANGED <<part, fetcher>>)
        <4>1. ~remover'.ok
          BY <3>2 DEF ThreadType, Removers
        <4>2. \A g \in ModelFiles : file'[g] \in {"none", file[g]}
          BY <3>2 DEF DiskType
        <4>3. \A g \in ModelFiles : part[g].n = 0 => part'[g].n = 0
          BY <3>2, PartType DEF LosesPart, NoPart
        <4> QED BY <4>1, <4>2, <4>3
      <3> QED BY <1>2, <3>1, <3>2 DEF RemoveFile
    <2>2. /\ remover.at = "removes" /\ remover'.at = "removes" /\ remover'.left = remover.left \ {f}
          /\ UNCHANGED <<removed, raced>> /\ (remover'.ok => remover.ok)
      BY <1>2 DEF RemoveFile, ThreadType, Removers
    <2>3. removed /\ ~raced => removed' /\ ~raced'
      BY <2>2
    <2>4. \A g \in ModelFiles : file[g] = "none" /\ part[g].n = 0 => file'[g] = "none" /\ part'[g].n = 0
      BY <2>1
    <2>5. \A g \in ModelFiles \ remover'.left : g = f \/ g \in ModelFiles \ remover.left
      BY <2>2
    <2> QED BY <2>1, <2>2, <2>4, <2>5
  <1>3. CASE AskDownload \/ TakeFlag \/ StartThread \/ Cancel \/ ThreadOver \/ LastWord
    BY <1>3 DEF AskDownload, TakeFlag, StartThread, Cancel, ThreadOver, LastWord, diskVars, FlagType
  <1>4. CASE AskDelete
    BY <1>4 DEF AskDelete, diskVars
  <1>5. CASE DeleteGoesOn
    BY <1>5 DEF DeleteGoesOn, diskVars, ThreadType, Removers
  <1>6. CASE DeleteOver
    BY <1>6 DEF DeleteOver, NoDelete, diskVars, FlagType
  <1>7. CASE AppEndsAndStarts
    BY <1>7 DEF AppEndsAndStarts, NoDelete
  <1> QED BY <1>1, <1>2, <1>3, <1>4, <1>5, <1>6, <1>7 DEF ModelsNext, FetchStep, RemoveStep, FetchesOn

\* A thread takes no file away, and "ready" is what it finds.
LEMMA ThreadAdds ==
  ASSUME DiskType, ThreadType, FetchesOn
  PROVE  /\ AllGood => AllGood'
         /\ status' = "ready" => status = "ready"
         /\ fetcher'.at = "ready" => AllGood
  <1> USE DEF threadRest, diskVars, ThreadType, Ats
  <1>1. CASE NextFile
    BY <1>1, ThreadGoes DEF NextFile, AllGood, Good
  <1>2. CASE TryAgainLater \/ WritesUnseen
    <2>1. fetcher'.at # "ready" /\ UNCHANGED <<status, file, marker>>
      <3>1. CASE TryAgainLater
        BY <3>1 DEF TryAgainLater, Fetchers
      <3>2. CASE WritesUnseen
        BY <3>2, ThreadGoes DEF WritesUnseen
      <3> QED BY <1>2, <3>1, <3>2
    <2> QED BY <2>1 DEF AllGood, Good
  <1>3. ASSUME NEW f \in ModelFiles, OpenPart(f) \/ ReadPiece(f) \/ CheckHash(f)
        PROVE  fetcher'.at # "ready" /\ (status' = "ready" => status = "ready") /\ UNCHANGED <<file, marker>>
    <2>1. CASE OpenPart(f)
      BY <2>1, ThreadGoes DEF OpenPart
    <2>2. CASE ReadPiece(f)
      BY <2>2, ThreadGoes DEF ReadPiece
    <2>3. CASE CheckHash(f)
      BY <2>3, ThreadGoes DEF CheckHash
    <2> QED BY <1>3, <2>1, <2>2, <2>3
  <1>4. ASSUME NEW f \in ModelFiles, PutInPlace(f) \/ Mark(f)
        PROVE  /\ fetcher'.at # "ready" /\ status' = status /\ marker \subseteq marker'
               /\ \A g \in ModelFiles : file[g] # "none" => file'[g] # "none"
    <2>1. CASE PutInPlace(f)
      BY <2>1, ThreadGoes DEF PutInPlace, DiskType
    <2>2. CASE Mark(f)
      BY <2>2, ThreadGoes DEF Mark
    <2> QED BY <1>4, <2>1, <2>2
  <1>5. ASSUME NEW f \in ModelFiles, OpenPart(f) \/ ReadPiece(f) \/ CheckHash(f) \/ PutInPlace(f) \/ Mark(f)
        PROVE  AllGood => AllGood'
    BY <1>3, <1>4, <1>5 DEF AllGood, Good
  <1> QED BY <1>1, <1>2, <1>3, <1>4, <1>5 DEF FetchesOn

\* Who says "ready" has seen all files, and nobody took one away since.
LEMMA ReadyHasSeenStays ==
  ASSUME DiskType, ThreadType, FlagType, OneThread, DeleteStops, ReadyHasSeen, ModelsNext
  PROVE  ReadyHasSeen'
  <1> USE DEF ReadyHasSeen, SaysReady
  <1>1. CASE FetchesOn
    BY <1>1, FetchesOnly, ThreadAdds DEF threadRest
  <1>2. ASSUME NEW f \in ModelFiles, RemoveFile(f) PROVE ReadyHasSeen'
    <2>1. remover'.at = "removes"
      BY <1>2 DEF RemoveFile, ThreadType, Removers
    <2> QED BY <2>1
  <1>3. CASE AskDownload \/ TakeFlag \/ StartThread \/ Cancel
    <2>1. /\ UNCHANGED <<diskVars, words, remover>>
          /\ status' = "ready" => status = "ready"
          /\ fetcher' = fetcher \/ fetcher'.at = "next"
      BY <1>3 DEF AskDownload, TakeFlag, StartThread, Cancel
    <2>2. raced => raced'
      BY <1>3 DEF AskDownload, TakeFlag, StartThread, Cancel
    <2>3. fetcher'.at = "ready" => fetcher.at = "ready"
      BY <2>1
    <2>4. AllGood => AllGood'
      BY <2>1 DEF AllGood, Good, diskVars
    <2> QED BY <2>1, <2>2, <2>3, <2>4
  <1>4. CASE ThreadOver \/ LastWord
    <2>1. UNCHANGED <<diskVars, remover, raced>> /\ (SaysReady' => SaysReady)
      BY <1>4 DEF ThreadOver, LastWord, Resting
    <2> QED BY <2>1 DEF AllGood, Good, diskVars
  <1>5. CASE AskDelete
    <2>1. /\ UNCHANGED <<diskVars, words, status, fetcher, raced>> /\ remover.at = "none"
      BY <1>5 DEF AskDelete
    <2> QED BY <2>1 DEF AllGood, Good, diskVars
  <1>6. CASE DeleteGoesOn
    <2>1. remover'.at = "removes"
      BY <1>6 DEF DeleteGoesOn, ThreadType, Removers
    <2> QED BY <2>1
  <1>7. CASE DeleteOver
    BY <1>7 DEF DeleteOver, DeleteStops, Deleting, FlagType
  <1>8. CASE AppEndsAndStarts
    BY <1>8 DEF AppEndsAndStarts, Resting, AllGood, Good
  <1> QED BY <1>1, <1>2, <1>3, <1>4, <1>5, <1>6, <1>7, <1>8 DEF ModelsNext, FetchStep, RemoveStep, FetchesOn

\* Nothing is downloaded at first.
LEMMA ModelsStart == ModelsInit => ModelsInv
  <1> SUFFICES ASSUME ModelsInit PROVE ModelsInv
    OBVIOUS
  <1> USE SizeAssumption DEF ModelsInit, NoPart, Resting, NoDelete
  <1>1. DiskType
    BY DEF DiskType
  <1>2. ThreadType
    BY DEF ThreadType, Statuses, Fetchers, Ats, Removers, Words
  <1>3. FlagType /\ NothingWrong /\ OneThread /\ DeleteStops
    BY DEF FlagType, NothingWrong, OneThread, DeleteStops, Deleting
  <1>4. StaysRemoved /\ ReadyHasSeen
    BY DEF StaysRemoved, ReadyHasSeen, SaysReady
  <1> QED BY <1>1, <1>2, <1>3, <1>4 DEF ModelsInv

\* The invariant of the recognizer's files is inductive.
LEMMA ModelsSteps == ASSUME ModelsInv, ModelsNext PROVE ModelsInv'
  BY ModelsTypes, NothingWrongStays, OneThreadStays, DeleteStopsStays, RemovedStays, ReadyHasSeenStays DEF ModelsInv

\* Steps of the other parts leave the files alone.
LEMMA ModelsRest == ASSUME ModelsInv, UNCHANGED modelVars PROVE ModelsInv'
  <1> USE DEF modelVars, diskVars, memVars
  <1>1. DiskType' /\ ThreadType' /\ FlagType'
    BY DEF ModelsInv, DiskType, ThreadType, FlagType
  <1>2. NothingWrong' /\ OneThread' /\ DeleteStops'
    BY DEF ModelsInv, NothingWrong, Of, OneThread, DeleteStops, Deleting
  <1>3. StaysRemoved' /\ ReadyHasSeen'
    BY DEF ModelsInv, StaysRemoved, ReadyHasSeen, SaysReady, AllGood, Good
  <1> QED BY <1>1, <1>2, <1>3 DEF ModelsInv

\* What the invariant says of the files.
LEMMA ModelsMean ==
  ASSUME ModelsInv
  PROVE  ModelsTypeOK /\ GoodIsRight /\ ReadyIsThere /\ DeletedStaysGone
  <1> USE DEF ModelsInv
  <1>1. ModelsTypeOK
    BY DEF ModelsTypeOK, DiskType, ThreadType, FlagType, Statuses, Fetchers, Ats, Removers, Words
  <1>2. GoodIsRight
    BY DEF GoodIsRight, Good, NothingWrong, DiskType
  <1>3. ReadyIsThere /\ DeletedStaysGone
    BY DEF ReadyIsThere, ReadyHasSeen, SaysReady, DeletedStaysGone, StaysRemoved
  <1> QED BY <1>1, <1>2, <1>3

-----------------------------------------------------------------------------
(* The driver.                                                             *)

\* The run that holds the gate is the one under way, with its own thread and
\* the flag that a quit raises.
UnderWay == {"check", "start", "fetch", "hash", "unpack", "verify", "clear", "switch"}
Fetching == {"fetch", "hash", "unpack", "verify", "clear", "switch"}
RunPlaces == {"none", "check", "start", "fetch", "hash", "unpack", "verify", "clear", "switch", "drop", "over"}
GateFits ==
    \A r \in Runs :
        /\ gate = r <=> pc[r] \in UnderWay
        /\ pc[r] \in Fetching => current = r
        /\ pc[r] \in {"none", "check", "start"} => thread[r] = "none"
        /\ pc[r] \in Fetching \ {"fetch"} => thread[r] = "done"

\* What goes on to the switch was compared with the pinned hash: a thread left
\* behind may begin the archive anew, but cannot make it another.
Compared ==
    \A r \in Runs :
        /\ pc[r] = "unpack" => archive \in {"right", "part"}
        /\ pc[r] \in {"verify", "clear", "switch"} => unpacked = "right"

\* Nothing is called ready while a run may still take the copy away.
ReadyAfterRun == gate # 0 => state # "ready"

\* Once the app quits no run begins; the one that had begun was told.
QuitTold ==
    stopped /\ ~quitEarly =>
        \A r \in Runs : pc[r] \notin {"check", "start"} /\ (Limited(r) => r \in stop)

DriverInv ==
    /\ DriverTypeOK /\ GateFits /\ Compared /\ OnlyThePinned
    /\ ReadyAfterRun /\ ReadyIsInPlace /\ QuitTold

\* A run goes to a place of its own; the others stay where they are.
LEMMA RunGoes ==
  ASSUME pc \in [Runs -> RunPlaces], NEW r \in Runs, NEW to \in RunPlaces, Goto(r, to)
  PROVE  pc' \in [Runs -> RunPlaces] /\ \A q \in Runs : pc'[q] = IF q = r THEN to ELSE pc[q]
  BY DEF Goto

\* A run that holds the gate is the only one under way.
LEMMA OneRun ==
  ASSUME GateFits, NEW r \in Runs, pc[r] \in UnderWay
  PROVE  gate = r /\ \A q \in Runs \ {r} : pc[q] \notin UnderWay
  BY DEF GateFits

\* A run that ends, whatever it says (but "ready"), leaves the copies alone.
LEMMA FailKeeps ==
  ASSUME DriverInv, NEW r \in Runs, NEW word \in Failures, pc[r] \in Fetching, Over(r, word), stop' \in {stop, stop \cup {r}},
         UNCHANGED <<pinned, old, current, stopped, thread, outdated, quitEarly, touched>>
  PROVE  DriverInv'
  <1> USE RunsAssumption DEF DriverInv, Over
  <1>1. pc' \in [Runs -> RunPlaces] /\ \A q \in Runs : pc'[q] = IF q = r THEN "over" ELSE pc[q]
    BY RunGoes DEF DriverTypeOK, RunPlaces
  <1>2. gate = r /\ \A q \in Runs \ {r} : pc[q] \notin UnderWay
    BY OneRun DEF Fetching, UnderWay
  <1>3. DriverTypeOK'
    BY <1>1 DEF DriverTypeOK, RunPlaces, Failures
  <1>4. GateFits'
    BY <1>1, <1>2 DEF GateFits, UnderWay, Fetching
  <1>5. Compared' /\ OnlyThePinned' /\ ReadyAfterRun' /\ ReadyIsInPlace'
    BY <1>1, <1>2 DEF Compared, OnlyThePinned, ReadyAfterRun, ReadyIsInPlace, UnderWay, Failures
  <1>6. QuitTold'
    BY <1>1 DEF QuitTold, Limited
  <1> QED BY <1>3, <1>4, <1>5, <1>6

\* A run goes on to its next step, with its archive and its copies as they are.
LEMMA MoveKeeps ==
  ASSUME DriverInv, NEW r \in Runs, NEW word \in Busy, NEW to \in Fetching, Goto(r, to), state' \in {state, word},
         pc[r] \in Fetching, thread[r] = "done", to # "fetch",
         UNCHANGED <<pinned, old, archive, gate, stop, current, stopped, thread, outdated, quitEarly, touched>>,
         unpacked' \in {"none", "right", "wrong"},
         Limited(r) \/ ~Limited(r)',
         to = "unpack" => archive = "right",
         to \in {"verify", "clear", "switch"} => unpacked' = "right"
  PROVE  DriverInv'
  <1> USE RunsAssumption DEF DriverInv
  <1>1. pc' \in [Runs -> RunPlaces] /\ \A q \in Runs : pc'[q] = IF q = r THEN to ELSE pc[q]
    BY RunGoes DEF DriverTypeOK, RunPlaces, Fetching
  <1>2. gate = r /\ \A q \in Runs \ {r} : pc[q] \notin UnderWay
    BY OneRun DEF Fetching, UnderWay
  <1>3. DriverTypeOK'
    BY <1>1 DEF DriverTypeOK, RunPlaces, Busy
  <1>4. GateFits'
    BY <1>1, <1>2 DEF GateFits, UnderWay, Fetching
  <1>5. Compared' /\ OnlyThePinned' /\ ReadyAfterRun' /\ ReadyIsInPlace'
    BY <1>1, <1>2 DEF Compared, OnlyThePinned, ReadyAfterRun, ReadyIsInPlace, UnderWay, Busy
  <1>6. QuitTold'
    BY <1>1 DEF QuitTold, Limited, Fetching
  <1> QED BY <1>3, <1>4, <1>5, <1>6

\* A run of ensure goes on.
LEMMA RunStepKeeps ==
  ASSUME DriverInv, NEW r \in Runs, RunStep(r)
  PROVE  DriverInv'
  <1> USE RunsAssumption DEF Fails, Moves
  <1>1. CASE CheckCopy(r)
    <2>1. CASE CopyRuns
      <3>1. pc' \in [Runs -> RunPlaces] /\ \A q \in Runs : pc'[q] = IF q = r THEN "over" ELSE pc[q]
        BY <1>1, <2>1, RunGoes DEF CheckCopy, DriverInv, DriverTypeOK, RunPlaces
      <3>2. gate = r /\ \A q \in Runs \ {r} : pc[q] \notin UnderWay
        BY <1>1, OneRun DEF CheckCopy, UnderWay, DriverInv
      <3>3. pinned = "good" /\ gate' = 0 /\ state' = "ready" /\ old' = FALSE
        BY <1>1, <2>1 DEF CheckCopy, CopyRuns, DriverInv, OnlyThePinned
      <3>4. DriverTypeOK'
        BY <1>1, <3>1, <3>3 DEF CheckCopy, DriverInv, DriverTypeOK, RunPlaces
      <3>5. GateFits'
        BY <1>1, <3>1, <3>2, <3>3 DEF CheckCopy, DriverInv, GateFits, UnderWay, Fetching
      <3>6. Compared' /\ OnlyThePinned' /\ ReadyAfterRun' /\ ReadyIsInPlace'
        BY <1>1, <3>1, <3>3 DEF CheckCopy, DriverInv, Compared, OnlyThePinned, ReadyAfterRun, ReadyIsInPlace
      <3>7. QuitTold'
        BY <1>1, <3>1 DEF CheckCopy, DriverInv, QuitTold, Limited
      <3> QED BY <3>4, <3>5, <3>6, <3>7 DEF DriverInv
    <2>2. CASE ~CopyRuns /\ Goto(r, "start") /\ UNCHANGED <<gate, state, old>>
      <3>1. pc' \in [Runs -> RunPlaces] /\ \A q \in Runs : pc'[q] = IF q = r THEN "start" ELSE pc[q]
        BY <1>1, <2>2, RunGoes DEF CheckCopy, DriverInv, DriverTypeOK, RunPlaces
      <3>2. gate = r /\ state # "ready"
        BY <1>1, OneRun, RunsAssumption DEF CheckCopy, UnderWay, DriverInv, ReadyAfterRun
      <3>3. /\ UNCHANGED <<pinned, old, archive, unpacked, state, gate, stop, current, stopped, thread, outdated, quitEarly>>
            /\ touched' \in BOOLEAN
        BY <1>1, <2>2 DEF CheckCopy
      <3>4. DriverTypeOK'
        BY <3>1, <3>3 DEF DriverInv, DriverTypeOK, RunPlaces
      <3>5. GateFits'
        BY <1>1, <2>2, <3>1 DEF CheckCopy, DriverInv, GateFits, UnderWay, Fetching
      <3>6. Compared' /\ OnlyThePinned' /\ ReadyAfterRun' /\ ReadyIsInPlace'
        BY <1>1, <2>2, <3>1, <3>2 DEF CheckCopy, DriverInv, Compared, OnlyThePinned, ReadyAfterRun, ReadyIsInPlace
      <3>7. QuitTold'
        BY <1>1, <2>2, <3>1 DEF CheckCopy, DriverInv, QuitTold, Limited
      <3> QED BY <3>4, <3>5, <3>6, <3>7 DEF DriverInv
    <2>3. CASE Goto(r, "over") /\ gate' = 0 /\ state' = "unsupported" /\ UNCHANGED old
      <3>1. pc' \in [Runs -> RunPlaces] /\ \A q \in Runs : pc'[q] = IF q = r THEN "over" ELSE pc[q]
        BY <2>3, RunGoes DEF DriverInv, DriverTypeOK, RunPlaces
      <3>2. gate = r /\ \A q \in Runs \ {r} : pc[q] \notin UnderWay
        BY <1>1, OneRun DEF CheckCopy, UnderWay, DriverInv
      <3>3. DriverTypeOK'
        BY <1>1, <2>3, <3>1 DEF CheckCopy, DriverInv, DriverTypeOK, RunPlaces, Failures
      <3>4. GateFits'
        BY <1>1, <2>3, <3>1, <3>2 DEF CheckCopy, DriverInv, GateFits, UnderWay, Fetching
      <3>5. Compared' /\ OnlyThePinned' /\ ReadyAfterRun' /\ ReadyIsInPlace'
        BY <1>1, <2>3, <3>1 DEF CheckCopy, DriverInv, Compared, OnlyThePinned, ReadyAfterRun, ReadyIsInPlace
      <3>6. QuitTold'
        BY <1>1, <3>1 DEF CheckCopy, DriverInv, QuitTold, Limited
      <3> QED BY <3>3, <3>4, <3>5, <3>6 DEF DriverInv
    <2> QED BY <1>1, <2>1, <2>2, <2>3 DEF CheckCopy
  <1>2. CASE StartFetch(r)
    <2>1. pc' \in [Runs -> RunPlaces] /\ \A q \in Runs : pc'[q] = IF q = r THEN "fetch" ELSE pc[q]
      BY <1>2, RunGoes DEF StartFetch, DriverInv, DriverTypeOK, RunPlaces
    <2>2. gate = r /\ \A q \in Runs \ {r} : pc[q] \notin UnderWay
      BY <1>2, OneRun DEF StartFetch, UnderWay, DriverInv
    <2>3. DriverTypeOK'
      BY <1>2, <2>1 DEF StartFetch, DriverInv, DriverTypeOK, RunPlaces, Busy
    <2>4. \A q \in Runs : thread'[q] = IF q = r THEN "fetching" ELSE thread[q]
      BY <1>2 DEF StartFetch, DriverInv, DriverTypeOK
    <2>5. GateFits'
      BY <1>2, <2>1, <2>2, <2>4 DEF StartFetch, DriverInv, GateFits, UnderWay, Fetching
    <2>6. Compared' /\ OnlyThePinned' /\ ReadyAfterRun' /\ ReadyIsInPlace'
      BY <1>2, <2>1, <2>2 DEF StartFetch, DriverInv, Compared, OnlyThePinned, ReadyAfterRun, ReadyIsInPlace, UnderWay
    <2>7. QuitTold'
      BY <1>2, <2>1 DEF StartFetch, DriverInv, QuitTold, Limited
    <2> QED BY <2>3, <2>5, <2>6, <2>7 DEF DriverInv
  <1>3. CASE Fetched(r)
    <2>1. pc[r] = "fetch"
      BY <1>3 DEF Fetched
    <2>2. CASE thread[r] = "done" /\ Moves(r, "hash", state)
      <3>1. "checking" \in Busy /\ state' = state /\ unpacked' = unpacked /\ unpacked \in {"none", "right", "wrong"}
        BY <2>2 DEF Busy, DriverInv, DriverTypeOK
      <3>2. Limited(r) /\ "hash" \in Fetching /\ pc[r] \in Fetching
        BY <2>1 DEF Limited, Fetching
      <3> QED BY <2>2, <3>1, <3>2, MoveKeeps
    <2>3. CASE Fails(r, IF r \in stop THEN "cancelled" ELSE "offline")
      BY <2>1, <2>3, FailKeeps DEF Failures, Fetching
    <2> QED BY <1>3, <2>2, <2>3 DEF Fetched
  <1>4. CASE Hash(r)
    <2>1. pc[r] = "hash" /\ pc[r] \in Fetching /\ Limited(r) /\ thread[r] = "done"
      BY <1>4 DEF Hash, Limited, Fetching, DriverInv, GateFits
    <2>2. CASE \E word \in Failures : Fails(r, word)
      BY <2>1, <2>2, FailKeeps
    <2>3. CASE archive = "right" /\ Moves(r, "unpack", "installing")
      <3>1. "installing" \in Busy /\ unpacked' = unpacked /\ unpacked \in {"none", "right", "wrong"} /\ "unpack" \in Fetching
        BY <2>3 DEF Busy, DriverInv, DriverTypeOK, Fetching
      <3> QED BY <2>1, <2>3, <3>1, MoveKeeps
    <2> QED BY <1>4, <2>2, <2>3 DEF Hash, PinnedHash, Failures
  <1>5. CASE Unpack(r)
    <2>1. pc[r] = "unpack" /\ pc[r] \in Fetching /\ Limited(r) /\ thread[r] = "done"
      BY <1>5 DEF Unpack, Limited, Fetching, DriverInv, GateFits
    <2>2. CASE \E word \in Failures : Fails(r, word)
      BY <2>1, <2>2, FailKeeps
    <2>3. CASE /\ archive # "part" /\ Goto(r, "verify") /\ state' = "verifying" /\ unpacked' = archive
               /\ UNCHANGED <<pinned, old, archive, gate, stop, current, stopped, thread, outdated, quitEarly, touched>>
      <3>1. "verifying" \in Busy /\ unpacked' = "right" /\ "verify" \in Fetching
        BY <2>1, <2>3 DEF Busy, DriverInv, Compared, Fetching
      <3> QED BY <2>1, <2>3, <3>1, MoveKeeps
    <2> QED BY <1>5, <2>2, <2>3 DEF Unpack, Failures
  <1>6. CASE Verify(r)
    <2>1. pc[r] = "verify" /\ pc[r] \in Fetching /\ Limited(r) /\ thread[r] = "done" /\ unpacked = "right"
      BY <1>6 DEF Verify, Limited, Fetching, DriverInv, GateFits, Compared
    <2>2. CASE \E word \in Failures : Fails(r, word)
      BY <2>1, <2>2, FailKeeps
    <2>3. CASE Moves(r, "clear", "verifying")
      <3>1. "verifying" \in Busy /\ unpacked' = "right" /\ "clear" \in Fetching
        BY <2>1, <2>3 DEF Busy, Fetching
      <3> QED BY <2>1, <2>3, <3>1, MoveKeeps
    <2> QED BY <1>6, <2>2, <2>3 DEF Verify, Failures
  <1>7. CASE ClearBroken(r)
    <2>1. pc' \in [Runs -> RunPlaces] /\ \A q \in Runs : pc'[q] = IF q = r THEN "switch" ELSE pc[q]
      BY <1>7, RunGoes DEF ClearBroken, DriverInv, DriverTypeOK, RunPlaces
    <2>2. gate = r /\ pc[r] = "clear"
      BY <1>7, OneRun DEF ClearBroken, UnderWay, DriverInv
    <2>3. DriverTypeOK'
      BY <1>7, <2>1 DEF ClearBroken, ClearsPinned, DriverInv, DriverTypeOK, RunPlaces
    <2>4. GateFits'
      BY <1>7, <2>1 DEF ClearBroken, DriverInv, GateFits, UnderWay, Fetching
    <2>5. state # "ready"
      BY <2>2 DEF DriverInv, ReadyAfterRun
    <2>6. Compared' /\ OnlyThePinned' /\ ReadyAfterRun' /\ ReadyIsInPlace'
      BY <1>7, <2>1, <2>5 DEF ClearBroken, ClearsPinned, DriverInv, Compared, OnlyThePinned, ReadyAfterRun, ReadyIsInPlace
    <2>7. QuitTold'
      BY <1>7, <2>1 DEF ClearBroken, DriverInv, QuitTold, Limited
    <2> QED BY <2>3, <2>4, <2>6, <2>7 DEF DriverInv
  <1>8. CASE Switch(r)
    <2>1. pc[r] = "switch" /\ pc[r] \in Fetching /\ unpacked = "right"
      BY <1>8 DEF Switch, Fetching, DriverInv, Compared
    <2>2. CASE Fails(r, "disk")
      BY <2>1, <2>2, FailKeeps DEF Failures
    <2>3. CASE pinned' = "good" /\ old' = FALSE /\ Over(r, "ready") /\ touched' = FALSE
               /\ UNCHANGED <<stop, current, stopped, thread, outdated, quitEarly>>
      <3>1. pc' \in [Runs -> RunPlaces] /\ \A q \in Runs : pc'[q] = IF q = r THEN "over" ELSE pc[q]
        BY <2>3, RunGoes DEF Over, DriverInv, DriverTypeOK, RunPlaces
      <3>2. gate = r /\ \A q \in Runs \ {r} : pc[q] \notin UnderWay
        BY <2>1, OneRun DEF Fetching, UnderWay, DriverInv
      <3>3. DriverTypeOK'
        BY <2>3, <3>1 DEF Over, DriverInv, DriverTypeOK, RunPlaces
      <3>4. GateFits'
        BY <2>3, <3>1, <3>2 DEF Over, DriverInv, GateFits, UnderWay, Fetching
      <3>5. Compared' /\ OnlyThePinned' /\ ReadyAfterRun' /\ ReadyIsInPlace'
        BY <2>3, <3>1, <3>2 DEF Over, DriverInv, Compared, OnlyThePinned, ReadyAfterRun, ReadyIsInPlace, UnderWay
      <3>6. QuitTold'
        BY <2>3, <3>1 DEF DriverInv, QuitTold, Limited
      <3> QED BY <3>3, <3>4, <3>5, <3>6 DEF DriverInv
    <2> QED BY <1>8, <2>1, <2>2, <2>3 DEF Switch
  <1> QED BY <1>1, <1>2, <1>3, <1>4, <1>5, <1>6, <1>7, <1>8 DEF RunStep

\* The thread of a download writes, also one whose run is over.
LEMMA ThreadKeeps ==
  ASSUME DriverInv, NEW r \in Runs, Opens(r) \/ Reads(r) \/ Brings(r)
  PROVE  DriverInv'
  <1> USE RunsAssumption
  <1>1. /\ thread' \in [Runs -> {"none", "fetching", "opened", "read", "done", "failed"}]
        /\ \A q \in Runs : q # r => thread'[q] = thread[q]
        /\ thread[r] \in {"fetching", "opened", "read"}
    BY DEF Opens, Reads, Brings, DriverInv, DriverTypeOK
  <1>2. pc[r] \notin {"none", "check", "start"} /\ pc[r] \notin Fetching \ {"fetch"}
    BY <1>1 DEF DriverInv, GateFits
  <1>3. archive' \in {archive, "part"} \/ (gate = r /\ archive' \in {"right", "wrong"})
    BY DEF Opens, Reads, Brings, LeftBehind
  <1>4. /\ UNCHANGED <<pinned, old, unpacked, gate, pc, stop, current, stopped, quitEarly, touched>>
        /\ state' \in {state, "downloading"}
    BY DEF Opens, Reads, Brings
  <1>5. outdated' \in BOOLEAN
    BY DEF Opens, Reads, Brings, DriverInv, DriverTypeOK
  <1>6. DriverTypeOK'
    BY <1>1, <1>3, <1>4, <1>5 DEF DriverInv, DriverTypeOK, Busy
  <1>7. GateFits'
    BY <1>1, <1>2, <1>4 DEF DriverInv, GateFits
  <1>8. Compared'
    <2>1. gate = r => \A q \in Runs : pc[q] # "unpack"
      BY <1>2 DEF DriverInv, GateFits, UnderWay, Fetching
    <2> QED BY <1>3, <1>4, <2>1 DEF DriverInv, Compared
  <1>9. OnlyThePinned' /\ ReadyAfterRun' /\ ReadyIsInPlace' /\ QuitTold'
    BY <1>4 DEF DriverInv, OnlyThePinned, ReadyAfterRun, ReadyIsInPlace, QuitTold, Limited
  <1> QED BY <1>6, <1>7, <1>8, <1>9 DEF DriverInv

\* A run begins, unless the app quits.
LEMMA EnsureKeeps ==
  ASSUME DriverInv, NEW r \in Runs, Ensure(r)
  PROVE  DriverInv'
  <1> USE RunsAssumption
  <1>1. PICK to \in {"over", "check"} : Goto(r, to) /\ (to = "check" <=> ~stopped)
    BY DEF Ensure, DriverInv, DriverTypeOK
  <1>2. pc' \in [Runs -> RunPlaces] /\ \A q \in Runs : pc'[q] = IF q = r THEN to ELSE pc[q]
    BY <1>1, RunGoes DEF DriverInv, DriverTypeOK, RunPlaces
  <1>3. /\ pc[r] = "none" /\ gate = 0 /\ UNCHANGED <<pinned, old, archive, unpacked, stop, current, stopped, thread, outdated, quitEarly, touched>>
        /\ gate' = IF to = "check" THEN r ELSE 0
        /\ state' = IF to = "check" THEN "checking" ELSE "cancelled"
    BY <1>1 DEF Ensure
  <1>4. \A q \in Runs : pc[q] \notin UnderWay
    BY <1>3 DEF DriverInv, GateFits
  <1>5. DriverTypeOK'
    BY <1>2, <1>3 DEF DriverInv, DriverTypeOK, RunPlaces, Busy, Failures
  <1>6. GateFits'
    BY <1>2, <1>3, <1>4 DEF DriverInv, GateFits, UnderWay, Fetching
  <1>7. Compared' /\ OnlyThePinned' /\ ReadyAfterRun' /\ ReadyIsInPlace'
    BY <1>2, <1>3, <1>4 DEF DriverInv, Compared, OnlyThePinned, ReadyAfterRun, ReadyIsInPlace, UnderWay
  <1>8. QuitTold'
    BY <1>1, <1>2, <1>3 DEF DriverInv, QuitTold, Limited
  <1> QED BY <1>5, <1>6, <1>7, <1>8 DEF DriverInv

\* A quit, the end of the app, and what goes wrong on the disk.
LEMMA OthersKeep ==
  ASSUME DriverInv, Shutdown \/ AppEnds \/ Breaks \/ UNCHANGED driverVars
  PROVE  DriverInv'
  <1> USE RunsAssumption
  <1>1. CASE Shutdown
    <2>1. stop' \subseteq Runs /\ stop \subseteq stop'
      BY <1>1 DEF Shutdown, StopsRun, DriverInv, DriverTypeOK
    <2>2. quitEarly' \in BOOLEAN
      BY <1>1 DEF Shutdown
    <2>3. DriverTypeOK'
      BY <1>1, <2>1, <2>2 DEF Shutdown, DriverInv, DriverTypeOK
    <2>4. GateFits' /\ Compared' /\ OnlyThePinned' /\ ReadyAfterRun' /\ ReadyIsInPlace'
      BY <1>1 DEF Shutdown, DriverInv, GateFits, Compared, OnlyThePinned, ReadyAfterRun, ReadyIsInPlace
    <2>5. QuitTold'
      <3>1. \A q \in Runs : Limited(q) => current = q
        BY DEF Limited, Fetching, DriverInv, GateFits
      <3>2. \A q \in Runs : Limited(q) => q \in stop'
        BY <1>1, <3>1 DEF Shutdown, StopsRun
      <3>3. \A q \in Runs : pc[q] \in {"check", "start"} => gate = q
        BY DEF DriverInv, GateFits, UnderWay
      <3>4. ~quitEarly' => \A q \in Runs : pc[q] \notin {"check", "start"}
        BY <1>1, <3>3 DEF Shutdown
      <3>5. pc' = pc
        BY <1>1 DEF Shutdown
      <3> QED BY <3>2, <3>4, <3>5 DEF QuitTold, Limited
    <2> QED BY <2>3, <2>4, <2>5 DEF DriverInv
  <1>2. CASE AppEnds
    <2>1. \A q \in Runs : pc'[q] \in {"none", "over"} /\ thread'[q] \in {"none", "failed"}
                          /\ (pc'[q] = "none" => pc[q] = "none") /\ (thread[q] = "none" => thread'[q] = "none")
      BY <1>2 DEF AppEnds
    <2>2. pc' \in [Runs -> RunPlaces] /\ thread' \in [Runs -> {"none", "fetching", "opened", "read", "done", "failed"}]
      BY <1>2 DEF AppEnds, RunPlaces, DriverInv, DriverTypeOK
    <2>3. DriverTypeOK'
      BY <1>2, <2>2 DEF AppEnds, DriverInv, DriverTypeOK, RunPlaces
    <2>4. GateFits'
      BY <1>2, <2>1 DEF AppEnds, DriverInv, GateFits, UnderWay, Fetching
    <2>5. Compared' /\ OnlyThePinned' /\ ReadyAfterRun' /\ ReadyIsInPlace' /\ QuitTold'
      BY <1>2, <2>1 DEF AppEnds, DriverInv, Compared, OnlyThePinned, ReadyAfterRun, ReadyIsInPlace, QuitTold
    <2> QED BY <2>3, <2>4, <2>5 DEF DriverInv
  <1>3. CASE Breaks
    <2>1. pinned' = "broken" /\ touched' \in BOOLEAN /\ (state = "ready" => touched')
          /\ UNCHANGED <<old, archive, unpacked, state, gate, pc, stop, current, stopped, thread, outdated, quitEarly>>
      BY <1>3 DEF Breaks
    <2>2. DriverTypeOK'
      BY <2>1 DEF DriverInv, DriverTypeOK
    <2> QED BY <2>1, <2>2 DEF DriverInv, GateFits, Compared, OnlyThePinned, ReadyAfterRun, ReadyIsInPlace, QuitTold, Limited
  <1>4. CASE UNCHANGED driverVars
    BY <1>4 DEF driverVars, DriverInv, DriverTypeOK, GateFits, Compared, OnlyThePinned, ReadyAfterRun, ReadyIsInPlace, QuitTold, Limited
  <1> QED BY <1>1, <1>2, <1>3, <1>4

\* A run's time is up.
LEMMA LimitKeeps ==
  ASSUME DriverInv, NEW r \in Runs, TimeLimit(r)
  PROVE  DriverInv'
  BY FailKeeps DEF TimeLimit, Limited, Fetching, Failures

\* Nothing runs at first.
LEMMA DriverStart == DriverInit => DriverInv
  BY RunsAssumption DEF DriverInit, DriverInv, DriverTypeOK, GateFits, UnderWay, Fetching, Compared, OnlyThePinned, ReadyAfterRun,
     ReadyIsInPlace, QuitTold

\* The invariant of the driver's install is inductive.
LEMMA DriverSteps == ASSUME DriverInv, DriverNext \/ UNCHANGED driverVars PROVE DriverInv'
  BY RunStepKeeps, ThreadKeeps, EnsureKeeps, OthersKeep, LimitKeeps DEF DriverNext

\* The older copy goes only where the new one is in place.
LEMMA OldGoesLast ==
  ASSUME DriverInv, DriverNext \/ UNCHANGED driverVars, old, ~old'
  PROVE  pinned' = "good"
  <1>1. ASSUME NEW r \in Runs, Ensure(r) \/ Opens(r) \/ Reads(r) \/ Brings(r) \/ TimeLimit(r) PROVE old' = old
    BY <1>1 DEF Ensure, Opens, Reads, Brings, TimeLimit
  <1>2. CASE Shutdown \/ AppEnds \/ Breaks \/ UNCHANGED driverVars
    BY <1>2 DEF Shutdown, AppEnds, Breaks, driverVars
  <1>3. ASSUME NEW r \in Runs, RunStep(r) PROVE pinned' = "good"
    <2>1. CASE CheckCopy(r)
      BY <2>1 DEF CheckCopy, CopyRuns, DriverInv, OnlyThePinned
    <2>2. CASE Switch(r)
      BY <2>2 DEF Switch, Fails, DriverInv, Compared
    <2>3. CASE StartFetch(r) \/ Fetched(r) \/ Hash(r) \/ Unpack(r) \/ Verify(r) \/ ClearBroken(r)
      BY <2>3 DEF StartFetch, Fetched, Hash, Unpack, Verify, ClearBroken, ClearsPinned, Fails, Moves
    <2> QED BY <1>3, <2>1, <2>2, <2>3 DEF RunStep
  <1> QED BY <1>1, <1>2, <1>3 DEF DriverNext

\* What the invariant says of the driver.
LEMMA DriverMeans == ASSUME DriverInv PROVE DriverTypeOK /\ OnlyThePinned /\ ReadyIsInPlace /\ QuitIsHeard
  BY DEF DriverInv, QuitTold, QuitIsHeard, Limited

-----------------------------------------------------------------------------
(* The app's own update.                                                   *)

TaskPlaces == {"none", "check", "ask", "look", "download", "fetch", "apply", "taken", "pause", "copy", "replace", "putBack",
            "failed", "leave"}
Jobs == [at : TaskPlaces, by : BOOLEAN, then : {"none", "look", "apply"}, before : Phases \cup {"none"}, was : BOOLEAN]

\* Who is between taking the gate and giving it back, and where.
GatePlaces == {"ask", "fetch", "taken", "pause", "copy", "replace", "putBack", "failed"}
GateKept ==
    \A t \in UpdateTasks :
        /\ job[t].at \in GatePlaces => gateOf = t
        /\ gateOf = t => job[t].at \in GatePlaces \cup {"leave"}
        /\ job[t].at = "leave" /\ t # "quit" => gateOf = t
Held == IF gateOf = "free" THEN "free" ELSE job[gateOf].at

\* What is announced is newer than what runs until it is what runs, and what is
\* downloaded is what is announced; only who holds the gate takes it out.
NewerAnnounced ==
    /\ announced # 0 /\ Held # "leave" => announced > version
    /\ downloaded # 0 => downloaded = announced /\ Held \in {"free", "ask"}
    /\ Held \in {"fetch", "taken"} => announced # 0

\* What a check put aside is what it found, and nothing when "ready" was shown.
PhaseToPutBack ==
    Held = "ask" =>
        \/ job[gateOf].before = "none" /\ phase = "ready" /\ downloaded # 0
        \/ job[gateOf].before \in {"idle", "checking", "available", "failed"} /\ phase = "checking"

\* There is a copy to put back, and only then the app on disk is not whole.
CopyKept ==
    /\ Held \in {"replace", "putBack"} => backup
    /\ ~lost /\ Held # "putBack" => bundle

\* The owner's pause is on, and an install that began under it knows.
Installing == {"copy", "replace", "putBack", "failed"}
PauseKnown ==
    ownPause /\ ~midway =>
        /\ paused
        /\ \A t \in UpdateTasks \ {"quit"} : job[t].at \in Installing => job[t].was

UpdatesInv ==
    /\ UpdatesTypeOK /\ GateKept /\ NewerAnnounced /\ PhaseToPutBack /\ PhaseIsTrue
    /\ CopyKept /\ PauseKnown

JobsType == job \in [UpdateTasks -> Jobs]
Others(t) == \A u \in UpdateTasks \ {t} : job'[u] = job[u]

\* A task goes to its next place.
LEMMA PutsAt ==
  ASSUME JobsType, NEW t \in UpdateTasks, NEW place \in TaskPlaces, Puts(t, place)
  PROVE  /\ JobsType' /\ Others(t)
         /\ job'[t].at = place /\ job'[t].before = job[t].before /\ job'[t].was = job[t].was
  BY DEF JobsType, Puts, Others, Jobs

\* No task, and a quit that leaves.
LEMMA NoJobType == NoJob \in Jobs /\ NoJob.at = "none" /\ [NoJob EXCEPT !.at = "leave"] \in Jobs
  BY DEF NoJob, Jobs, TaskPlaces, Phases

\* ... or is over.
LEMMA EndsAt ==
  ASSUME JobsType, NEW t \in UpdateTasks, Ends(t)
  PROVE  /\ JobsType' /\ Others(t) /\ gateOf' = "free"
         /\ job'[t].at = IF t = "quit" THEN "leave" ELSE "none"
  <1>1. job' = [job EXCEPT ![t] = IF t = "quit" THEN [NoJob EXCEPT !.at = "leave"] ELSE NoJob] /\ gateOf' = "free"
    BY DEF Ends
  <1>2. [NoJob EXCEPT !.at = "leave"].at = "leave"
    BY DEF NoJob
  <1> QED BY <1>1, <1>2, NoJobType DEF JobsType, Others

\* ... or goes on with what comes after its call.
LEMMA GoesOnAt ==
  ASSUME JobsType, NEW t \in UpdateTasks, GoesOn(t)
  PROVE  /\ JobsType' /\ Others(t) /\ gateOf' = "free"
         /\ job'[t].at \in {"none", "look", "apply"}
  <1> DEFINE on == [job[t] EXCEPT !.at = job[t].then, !.then = "none", !.before = "none"]
  <1>1. job' = [job EXCEPT ![t] = IF job[t].then = "none" THEN NoJob ELSE on] /\ gateOf' = "free"
    BY DEF GoesOn
  <1>2. on \in Jobs /\ on.at = job[t].then
    BY DEF JobsType, Jobs, TaskPlaces, Phases
  <1>3. job[t].then \in {"none", "look", "apply"}
    BY DEF JobsType, Jobs
  <1> HIDE DEF on
  <1> QED BY <1>1, <1>2, <1>3, NoJobType DEF JobsType, Others

\* ... or begins.
LEMMA BeginsAt ==
  ASSUME JobsType, NEW t \in UpdateTasks, NEW place \in TaskPlaces, NEW by \in BOOLEAN, NEW then \in {"none", "look", "apply"},
         Begins(t, place, by, then)
  PROVE  JobsType' /\ Others(t) /\ job'[t].at = place
  <1> DEFINE new == [NoJob EXCEPT !.at = place, !.by = by, !.then = then]
  <1>1. job' = [job EXCEPT ![t] = new]
    BY DEF Begins
  <1>2. new \in Jobs /\ new.at = place
    BY DEF NoJob, Jobs, Phases
  <1> HIDE DEF new
  <1> QED BY <1>1, <1>2 DEF JobsType, Others

\* The holder of the gate, or who takes it, goes on under it.
LEMMA HolderMoves ==
  ASSUME GateKept, NEW t \in UpdateTasks, gateOf \in {t, "free"}, gateOf' = t, Others(t),
         job'[t].at \in GatePlaces \cup {"leave"}
  PROVE  GateKept' /\ Held' = job'[t].at
  BY DEF GateKept, Held, Others, UpdateTasks

\* The holder gives the gate back.
LEMMA HolderFrees ==
  ASSUME GateKept, NEW t \in UpdateTasks, gateOf \in {t, "free"}, gateOf' = "free", Others(t),
         job'[t].at \notin GatePlaces, job'[t].at = "leave" => t = "quit"
  PROVE  GateKept' /\ Held' = "free"
  BY DEF GateKept, Held, Others, UpdateTasks

\* Another task moves outside the gate.
LEMMA OutsideMoves ==
  ASSUME GateKept, gateOf \in UpdateTasks \cup {"free"}, NEW t \in UpdateTasks, gateOf # t, gateOf' = gateOf, Others(t),
         job'[t].at \notin GatePlaces, job'[t].at = "leave" => t = "quit"
  PROVE  GateKept' /\ Held' = Held /\ (Held # "free" => job'[gateOf] = job[gateOf])
  BY DEF GateKept, Held, Others, UpdateTasks

\* What a step outside the gate leaves as it was.
Untouched == <<version, bundle, backup, lost, phase, announced, downloaded>>
\* What holds of the holder still does.
LEMMA OutsideKeeps ==
  ASSUME UpdatesInv, GateKept', UNCHANGED Untouched, UNCHANGED <<gateOf>>, Held' = Held,
         Held # "free" => job'[gateOf] = job[gateOf]
  PROVE  NewerAnnounced' /\ PhaseToPutBack' /\ PhaseIsTrue' /\ CopyKept'
  BY DEF UpdatesInv, Untouched, NewerAnnounced, PhaseToPutBack, PhaseIsTrue, CopyKept, Held

\* The types, in parts.
DiskBits == version \in 0 .. Newest /\ bundle \in BOOLEAN /\ backup \in BOOLEAN /\ feed \in 0 .. Newest
Memory == phase \in Phases /\ announced \in 0 .. Newest /\ downloaded \in 0 .. Newest
          /\ nextCheck \in {"due", "soon", "far"} /\ auto \in BOOLEAN
Switches == /\ gateOf \in UpdateTasks \cup {"free"}
            /\ paused \in BOOLEAN /\ ownPause \in BOOLEAN /\ inFlight \in BOOLEAN /\ away \in BOOLEAN
            /\ appOn \in {"on", "off", "back"} /\ lost \in BOOLEAN /\ midway \in BOOLEAN
\* The parts of the types are all of them.
LEMMA UpdatesTypes == UpdatesTypeOK <=> JobsType /\ DiskBits /\ Memory /\ Switches
  BY DEF UpdatesTypeOK, JobsType, Jobs, TaskPlaces, DiskBits, Memory, Switches

\* Who is where under the gate holds it.
LEMMA HolderIs ==
  ASSUME GateKept, NEW t \in UpdateTasks, job[t].at \in GatePlaces
  PROVE  gateOf = t /\ Held = job[t].at
  BY DEF GateKept, Held, UpdateTasks

\* A step that leaves the pause alone and begins no install.
LEMMA PauseRests ==
  ASSUME PauseKnown, UNCHANGED <<ownPause, paused, midway>>,
         \A u \in UpdateTasks \ {"quit"} :
             job'[u].at \in Installing => job[u].at \in Installing /\ job'[u].was = job[u].was
  PROVE  PauseKnown'
  BY DEF PauseKnown

\* The check, its answers, the download: what is announced and shown.
LEMMA ChecksKeep ==
  ASSUME UpdatesInv, NEW t \in UpdateTasks, StartCheck(t) \/ CheckFails(t) \/ CheckAnswers(t)
  PROVE  UpdatesInv'
  <1> USE NewestAssumption DEF onDisk, world
  <1>0. JobsType /\ DiskBits /\ Memory /\ Switches
    BY UpdatesTypes DEF UpdatesInv
  <1>1. CASE StartCheck(t)
    <2>1. gateOf = "free" /\ gateOf' = t /\ job[t].at = "check" /\ Held = "free"
      BY <1>1 DEF StartCheck, At, Held
    <2>2. /\ JobsType' /\ Others(t) /\ job'[t].at = "ask"
          /\ job'[t].before = IF Shown THEN phase ELSE "none"
      BY ZenonT(60), <1>0, <1>1 DEF StartCheck, JobsType, Jobs, TaskPlaces, Others, Memory
    <2>3. GateKept' /\ Held' = "ask"
      BY <2>1, <2>2, HolderMoves DEF UpdatesInv, GatePlaces
    <2>4. UpdatesTypeOK'
      <3>1. DiskBits' /\ Memory'
        BY <1>0, <1>1 DEF StartCheck, DiskBits, Memory, Phases
      <3>2. Switches'
        BY <1>0, <1>1 DEF StartCheck, Switches
      <3> QED BY <2>2, <3>1, <3>2 DEF UpdatesTypeOK, JobsType, Jobs, TaskPlaces, DiskBits, Memory, Switches
    <2>5. NewerAnnounced' /\ PhaseIsTrue' /\ CopyKept'
      BY <1>1, <2>1, <2>3 DEF StartCheck, UpdatesInv, NewerAnnounced, PhaseIsTrue, CopyKept, UpdateTasks
    <2>6. PhaseToPutBack'
      BY <1>0, <1>1, <2>1, <2>2, <2>3 DEF StartCheck, UpdatesInv, PhaseToPutBack, PhaseIsTrue, Shown, Memory, Phases
    <2>7. PauseKnown'
      <3>1. UNCHANGED <<ownPause, paused, midway>>
        BY <1>1 DEF StartCheck
      <3> QED BY <2>2, <3>1, PauseRests DEF UpdatesInv, Others, Installing
    <2> QED BY <2>3, <2>4, <2>5, <2>6, <2>7 DEF UpdatesInv
  <1>2. CASE CheckFails(t) \/ CheckAnswers(t)
    <2>1. gateOf = t /\ Held = "ask" /\ job[gateOf] = job[t]
      BY <1>2, HolderIs DEF CheckFails, CheckAnswers, At, UpdatesInv, GatePlaces
    <2>2. JobsType' /\ Others(t) /\ gateOf' = "free" /\ job'[t].at \in {"none", "look", "apply"}
      BY <1>0, <1>2, GoesOnAt DEF CheckFails, CheckAnswers
    <2>3. GateKept' /\ Held' = "free"
      BY <2>1, <2>2, HolderFrees DEF UpdatesInv, GatePlaces
    <2>4. \/ job[t].before = "none" /\ phase = "ready" /\ downloaded # 0
          \/ job[t].before \in {"idle", "checking", "available", "failed"} /\ phase = "checking"
      BY <2>1 DEF UpdatesInv, PhaseToPutBack
    <2>5. /\ phase' \in {"idle", "available", "failed"} \/ (phase' \in {"ready", "checking"} /\ downloaded # 0 /\ downloaded' = downloaded)
          /\ \/ announced' = announced /\ downloaded' = downloaded
             \/ announced' = 0 /\ downloaded' = 0
             \/ announced' = feed /\ feed > version /\ downloaded' = 0
      <3>1. CASE CheckFails(t)
        BY <2>4, <3>1 DEF CheckFails, PutsBack
      <3>2. CASE CheckAnswers(t)
        <4>1. feed \in 0 .. Newest /\ version \in 0 .. Newest
          BY <1>0 DEF DiskBits
        <4>2. CASE feed <= version
          <5>1. ~(feed > version)
            BY <4>1, <4>2
          <5> QED BY <3>2, <4>2, <5>1 DEF CheckAnswers, DropsOld
        <4>3. CASE feed > version /\ downloaded = feed
          BY <2>4, <3>2, <4>1, <4>3 DEF CheckAnswers, DropsOld
        <4>4. CASE feed > version /\ downloaded # feed
          BY <3>2, <4>1, <4>4 DEF CheckAnswers, DropsOld
        <4> QED BY <4>1, <4>2, <4>3, <4>4
      <3> QED BY <1>2, <3>1, <3>2
    <2>6. UNCHANGED <<version, bundle, backup, lost, feed, auto, ownPause, away, appOn, nextCheck, paused, inFlight, midway>>
      BY <1>2 DEF CheckFails, CheckAnswers
    <2>7. UpdatesTypeOK'
      <3>1. DiskBits'
        BY <1>0, <2>6 DEF DiskBits
      <3>2. Memory'
        BY <1>0, <2>5, <2>6 DEF DiskBits, Memory, Phases
      <3>3. Switches'
        BY <1>0, <2>2, <2>6 DEF Switches
      <3> QED BY <2>2, <3>1, <3>2, <3>3 DEF UpdatesTypeOK, JobsType, Jobs, TaskPlaces, DiskBits, Memory, Switches
    <2>8. NewerAnnounced'
      BY <2>1, <2>3, <2>5, <2>6 DEF UpdatesInv, NewerAnnounced
    <2>9. PhaseIsTrue' /\ PhaseToPutBack'
      BY <2>3, <2>5 DEF PhaseIsTrue, PhaseToPutBack
    <2>10. CopyKept'
      BY <2>1, <2>3, <2>6 DEF UpdatesInv, CopyKept
    <2>11. PauseKnown'
      BY <2>2, <2>6, PauseRests DEF UpdatesInv, Others, Installing
    <2> QED BY <2>3, <2>7, <2>8, <2>9, <2>10, <2>11 DEF UpdatesInv
  <1> QED BY <1>1, <1>2

\* A download starts, is there already, or is over.
LEMMA DownloadsKeep ==
  ASSUME UpdatesInv, NEW t \in UpdateTasks, StartDownload(t) \/ DownloadOver(t)
  PROVE  UpdatesInv'
  <1> USE NewestAssumption DEF onDisk, world
  <1>0. JobsType /\ DiskBits /\ Memory /\ Switches
    BY UpdatesTypes DEF UpdatesInv
  <1>1. UNCHANGED <<version, bundle, backup, lost, feed, auto, ownPause, away, appOn, announced, paused, inFlight, midway>>
    BY DEF StartDownload, DownloadOver
  <1>2. DiskBits'
    BY <1>0, <1>1 DEF DiskBits
  <1>3. ASSUME JobsType', Memory', gateOf' \in UpdateTasks \cup {"free"} PROVE UpdatesTypeOK'
    <2>1. Switches'
      BY <1>0, <1>1, <1>3 DEF Switches
    <2> QED BY <1>2, <1>3, <2>1 DEF UpdatesTypeOK, JobsType, Jobs, TaskPlaces, DiskBits, Memory, Switches
  <1>4. CASE StartDownload(t) /\ gateOf' = "free"
    <2>1. gateOf = "free" /\ Held = "free" /\ UNCHANGED <<phase, downloaded, nextCheck>> /\ (GoesOn(t) \/ Ends(t))
      BY <1>4 DEF StartDownload, Held, UpdateTasks
    <2>2. JobsType' /\ Others(t) /\ job'[t].at \in {"none", "look", "apply", "leave"} /\ (job'[t].at = "leave" => t = "quit")
      BY <1>0, <2>1, GoesOnAt, EndsAt
    <2>3. GateKept' /\ Held' = "free"
      BY <1>4, <2>1, <2>2, HolderFrees DEF UpdatesInv, GatePlaces
    <2>4. Memory'
      BY <1>0, <1>1, <2>1 DEF Memory
    <2>5. NewerAnnounced' /\ PhaseIsTrue' /\ PhaseToPutBack' /\ CopyKept'
      BY <1>1, <2>1, <2>3, <1>4 DEF UpdatesInv, NewerAnnounced, PhaseIsTrue, PhaseToPutBack, CopyKept
    <2>6. PauseKnown'
      BY <1>1, <2>2, PauseRests DEF UpdatesInv, Others, Installing
    <2> QED BY <1>3, <1>4, <2>2, <2>3, <2>4, <2>5, <2>6 DEF UpdatesInv
  <1>5. CASE StartDownload(t) /\ gateOf' # "free"
    <2>1. /\ gateOf = "free" /\ Held = "free" /\ UNCHANGED <<downloaded, nextCheck>>
          /\ downloaded = 0 /\ announced # 0 /\ gateOf' = t /\ Puts(t, "fetch") /\ phase' = "downloading"
      <3>1. CASE downloaded # 0
        BY <1>5, <3>1 DEF StartDownload, GoesOn
      <3>2. CASE downloaded = 0 /\ announced = 0
        BY <1>5, <3>2 DEF StartDownload, Ends
      <3>3. CASE downloaded = 0 /\ announced # 0
        BY <1>5, <3>3 DEF StartDownload, Held
      <3> QED BY <3>1, <3>2, <3>3
    <2>2. JobsType' /\ Others(t) /\ job'[t].at = "fetch"
      BY <1>0, <2>1, PutsAt DEF TaskPlaces
    <2>3. GateKept' /\ Held' = "fetch"
      BY <2>1, <2>2, HolderMoves DEF UpdatesInv, GatePlaces
    <2>4. Memory'
      BY <1>0, <1>1, <2>1 DEF Memory, Phases
    <2>5. NewerAnnounced' /\ PhaseIsTrue' /\ PhaseToPutBack' /\ CopyKept'
      BY <1>1, <2>1, <2>3 DEF UpdatesInv, NewerAnnounced, PhaseIsTrue, PhaseToPutBack, CopyKept, UpdateTasks
    <2>6. PauseKnown'
      BY <1>1, <2>2, PauseRests DEF UpdatesInv, Others, Installing
    <2> QED BY <1>3, <2>1, <2>2, <2>3, <2>4, <2>5, <2>6 DEF UpdatesInv
  <1>6. CASE DownloadOver(t)
    <2>1. gateOf = t /\ Held = "fetch" /\ announced # 0
      BY <1>6, HolderIs DEF DownloadOver, At, UpdatesInv, GatePlaces, NewerAnnounced
    <2>2. \/ downloaded' = announced /\ phase' = "ready" /\ GoesOn(t) /\ UNCHANGED nextCheck
          \/ nextCheck' = "soon" /\ phase' \in {"failed", "available"} /\ Ends(t) /\ UNCHANGED downloaded
      BY <1>6 DEF DownloadOver
    <2>3. JobsType' /\ Others(t) /\ gateOf' = "free" /\ job'[t].at \in {"none", "look", "apply", "leave"} /\ (job'[t].at = "leave" => t = "quit")
      BY <1>0, <2>2, GoesOnAt, EndsAt
    <2>4. GateKept' /\ Held' = "free"
      BY <2>1, <2>3, HolderFrees DEF UpdatesInv, GatePlaces
    <2>5. Memory'
      BY <1>0, <1>1, <2>2 DEF Memory, Phases
    <2>6. NewerAnnounced' /\ PhaseIsTrue' /\ PhaseToPutBack' /\ CopyKept'
      BY <1>1, <2>1, <2>2, <2>4 DEF UpdatesInv, NewerAnnounced, PhaseIsTrue, PhaseToPutBack, CopyKept
    <2>7. PauseKnown'
      BY <1>1, <2>3, PauseRests DEF UpdatesInv, Others, Installing
    <2> QED BY <1>3, <2>3, <2>4, <2>5, <2>6, <2>7 DEF UpdatesInv
  <1> QED BY <1>4, <1>5, <1>6

\* The install, up to the copy that is put back.
LEMMA InstallsKeep ==
  ASSUME UpdatesInv, NEW t \in UpdateTasks,
         TakeDownload(t) \/ LookAgain(t) \/ PauseCore(t) \/ SafetyCopy(t) \/ Replace(t) \/ PutBack(t) \/ InstallFailed(t)
  PROVE  UpdatesInv'
  <1> USE NewestAssumption DEF onDisk, world
  <1>0. JobsType /\ DiskBits /\ Memory /\ Switches
    BY UpdatesTypes DEF UpdatesInv
  <1>1. ASSUME JobsType', DiskBits', Memory', Switches' PROVE UpdatesTypeOK'
    BY <1>1 DEF UpdatesTypeOK, JobsType, Jobs, TaskPlaces, DiskBits, Memory, Switches
  <1>2. ASSUME NEW place \in TaskPlaces, Puts(t, place), job[t].at \in Installing, UNCHANGED <<ownPause, paused, midway>>
        PROVE  PauseKnown'
    <2>1. Others(t) /\ job'[t].was = job[t].was
      BY <1>0, <1>2, PutsAt
    <2> QED BY <1>2, <2>1, PauseRests DEF UpdatesInv, Others
  <1>3. CASE TakeDownload(t)
    <2>1. gateOf = "free" /\ Held = "free" /\ UNCHANGED <<version, bundle, backup, lost, feed, auto, ownPause, away, appOn,
                                        phase, announced, nextCheck, paused, inFlight, midway>>
      BY <1>3 DEF TakeDownload, Held
    <2>2. CASE downloaded = 0
      <3>1. Ends(t) /\ downloaded' = downloaded
        BY <1>3, <2>2 DEF TakeDownload
      <3>2. JobsType' /\ Others(t) /\ gateOf' = "free" /\ job'[t].at \in {"none", "leave"} /\ (job'[t].at = "leave" => t = "quit")
        BY <1>0, <3>1, EndsAt
      <3>3. GateKept' /\ Held' = "free"
        BY <2>1, <3>2, HolderFrees DEF UpdatesInv, GatePlaces
      <3>4. DiskBits' /\ Memory'
        BY <1>0, <2>1, <3>1 DEF DiskBits, Memory
      <3>5. Switches'
        BY <1>0, <2>1, <3>2 DEF Switches
      <3>6. NewerAnnounced' /\ PhaseIsTrue' /\ PhaseToPutBack' /\ CopyKept'
        BY <2>1, <3>1, <3>2, <3>3 DEF UpdatesInv, NewerAnnounced, PhaseIsTrue, PhaseToPutBack, CopyKept
      <3>7. PauseKnown'
        BY <2>1, <3>2, PauseRests DEF UpdatesInv, Others, Installing
      <3> QED BY <1>1, <3>2, <3>3, <3>4, <3>5, <3>6, <3>7 DEF UpdatesInv
    <2>3. CASE downloaded # 0
      <3>1. gateOf' = t /\ Puts(t, "taken") /\ downloaded' = 0
        BY <1>3, <2>3 DEF TakeDownload
      <3>2. JobsType' /\ Others(t) /\ job'[t].at = "taken"
        BY <1>0, <3>1, PutsAt DEF TaskPlaces
      <3>3. GateKept' /\ Held' = "taken"
        BY <2>1, <3>1, <3>2, HolderMoves DEF UpdatesInv, GatePlaces
      <3>4. DiskBits' /\ Memory'
        BY <1>0, <2>1, <3>1 DEF DiskBits, Memory
      <3>5. Switches'
        BY <1>0, <2>1, <3>1 DEF Switches
      <3>6. NewerAnnounced' /\ PhaseToPutBack' /\ CopyKept'
        BY <2>1, <2>3, <3>1, <3>3 DEF UpdatesInv, NewerAnnounced, PhaseToPutBack, CopyKept
      <3>7. PhaseIsTrue'
        BY <3>1 DEF PhaseIsTrue, UpdateTasks
      <3>8. PauseKnown'
        BY <2>1, <3>2, PauseRests DEF UpdatesInv, Others, Installing
      <3> QED BY <1>1, <3>2, <3>3, <3>4, <3>5, <3>6, <3>7, <3>8 DEF UpdatesInv
    <2> QED BY <2>2, <2>3
  <1>4. CASE LookAgain(t)
    <2>1. gateOf = t /\ Held = "taken" /\ announced # 0 /\ announced > version /\ downloaded = 0
      BY <1>4, HolderIs DEF LookAgain, At, UpdatesInv, GatePlaces, NewerAnnounced
    <2>2. UNCHANGED <<version, bundle, backup, lost, feed, auto, ownPause, away, appOn, announced, nextCheck, paused, inFlight, midway>>
      BY <1>4 DEF LookAgain
    <2>3. CASE downloaded' = announced /\ phase' = "ready" /\ Ends(t)
      <3>2. JobsType' /\ Others(t) /\ gateOf' = "free" /\ job'[t].at \in {"none", "leave"} /\ (job'[t].at = "leave" => t = "quit")
        BY <1>0, <2>3, EndsAt
      <3>3. GateKept' /\ Held' = "free"
        BY <2>1, <3>2, HolderFrees DEF UpdatesInv, GatePlaces
      <3>4. DiskBits' /\ Memory'
        BY <1>0, <2>2, <2>3 DEF DiskBits, Memory, Phases
      <3>5. Switches'
        BY <1>0, <2>2, <3>2 DEF Switches
      <3>6. NewerAnnounced' /\ PhaseIsTrue' /\ PhaseToPutBack' /\ CopyKept'
        BY <2>1, <2>2, <2>3, <3>3 DEF UpdatesInv, NewerAnnounced, PhaseIsTrue, PhaseToPutBack, CopyKept
      <3>7. PauseKnown'
        BY <2>2, <3>2, PauseRests DEF UpdatesInv, Others, Installing
      <3> QED BY <1>1, <3>2, <3>3, <3>4, <3>5, <3>6, <3>7 DEF UpdatesInv
    <2>4. CASE Puts(t, "pause") /\ UNCHANGED <<downloaded, phase, gateOf>>
      <3>2. JobsType' /\ Others(t) /\ job'[t].at = "pause"
        BY <1>0, <2>4, PutsAt DEF TaskPlaces
      <3>3. GateKept' /\ Held' = "pause"
        BY <2>1, <2>4, <3>2, HolderMoves DEF UpdatesInv, GatePlaces
      <3>4. DiskBits' /\ Memory' /\ Switches'
        BY <1>0, <2>2, <2>4 DEF DiskBits, Memory, Switches
      <3>5. NewerAnnounced' /\ PhaseToPutBack' /\ CopyKept'
        BY <2>1, <2>2, <2>4, <3>3 DEF UpdatesInv, NewerAnnounced, PhaseToPutBack, CopyKept
      <3>6. PhaseIsTrue'
        BY <2>1, <2>4 DEF PhaseIsTrue, UpdateTasks
      <3>7. PauseKnown'
        BY <2>2, <3>2, PauseRests DEF UpdatesInv, Others, Installing
      <3> QED BY <1>1, <3>2, <3>3, <3>4, <3>5, <3>6, <3>7 DEF UpdatesInv
    <2> QED BY <1>4, <2>3, <2>4 DEF LookAgain
  <1>5. CASE PauseCore(t)
    <2>1. gateOf = t /\ Held = "pause"
      BY <1>5, HolderIs DEF PauseCore, At, UpdatesInv, GatePlaces
    <2>2. UNCHANGED <<version, bundle, backup, lost, feed, auto, ownPause, away, appOn, announced, downloaded, nextCheck, gateOf, midway>>
          /\ phase' = "applying"
      BY <1>5 DEF PauseCore
    <2>3. JobsType' /\ Others(t) /\ job'[t].at = "copy" /\ job'[t].was = paused
      BY ZenonT(60), <1>0, <1>5 DEF PauseCore, JobsType, Jobs, TaskPlaces, Others, Switches
    <2>4. GateKept' /\ Held' = "copy"
      BY <2>1, <2>2, <2>3, HolderMoves DEF UpdatesInv, GatePlaces
    <2>5. DiskBits' /\ Memory'
      BY <1>0, <2>2 DEF DiskBits, Memory, Phases
    <2>6. /\ Switches' /\ (paused => paused')
      BY <1>0, <1>5, <2>2 DEF PauseCore, Switches
    <2>7. NewerAnnounced' /\ PhaseToPutBack' /\ CopyKept'
      BY <2>1, <2>2, <2>4 DEF UpdatesInv, NewerAnnounced, PhaseToPutBack, CopyKept
    <2>8. PhaseIsTrue'
      BY <2>1, <2>2 DEF PhaseIsTrue, UpdateTasks
    <2>9. PauseKnown'
      BY <2>2, <2>3, <2>6 DEF UpdatesInv, PauseKnown, Others
    <2> QED BY <1>1, <2>3, <2>4, <2>5, <2>6, <2>7, <2>8, <2>9 DEF UpdatesInv
  <1>6. CASE SafetyCopy(t) \/ Replace(t) \/ PutBack(t)
    <2>1. gateOf = t /\ Held = job[t].at /\ job[t].at \in {"copy", "replace", "putBack"}
      BY <1>6, HolderIs DEF SafetyCopy, Replace, PutBack, At, UpdatesInv, GatePlaces
    <2>2. UNCHANGED <<feed, auto, ownPause, away, appOn, phase, announced, downloaded, nextCheck, gateOf, paused, inFlight, midway>>
      BY <1>6 DEF SafetyCopy, Replace, PutBack
    <2>3. PICK place \in {"replace", "failed", "leave", "putBack"} :
            /\ Puts(t, place)
            /\ version' = IF place = "leave" THEN announced ELSE version
            /\ place = "replace" => backup' = TRUE
            /\ place = "putBack" => Held = "replace" /\ backup' = backup
            /\ place = "putBack" \/ lost' = TRUE \/ bundle' = TRUE \/ (Held # "putBack" /\ bundle' = bundle)
               \/ (Held = "putBack" /\ bundle' = backup)
            /\ backup' \in BOOLEAN /\ bundle' \in BOOLEAN /\ lost' \in BOOLEAN /\ (lost => lost')
      <3>1. CASE SafetyCopy(t)
        BY <1>0, <2>1, <3>1 DEF SafetyCopy, Copies, At, DiskBits, Switches
      <3>2. CASE Replace(t)
        BY <1>0, <2>1, <3>2 DEF Replace, At, DiskBits, Switches
      <3>3. CASE PutBack(t)
        <4>1. /\ Puts(t, "failed") /\ version' = version /\ backup' = FALSE /\ Held = "putBack"
              /\ \/ (bundle' = backup \/ (lost /\ bundle' = FALSE)) /\ lost' = lost
                 \/ lost' = TRUE /\ bundle' = bundle
          BY <2>1, <3>3 DEF PutBack, At
        <4>2. CASE lost
          BY <1>0, <4>1, <4>2 DEF DiskBits, Switches
        <4>3. CASE ~lost
          BY <1>0, <4>1, <4>3 DEF DiskBits, Switches
        <4> QED BY <4>2, <4>3
      <3> QED BY <1>6, <3>1, <3>2, <3>3
    <2>4. JobsType' /\ Others(t) /\ job'[t].at = place
      BY <1>0, <2>3, PutsAt DEF TaskPlaces
    <2>5. GateKept' /\ Held' = place
      BY <2>1, <2>2, <2>4, HolderMoves DEF UpdatesInv, GatePlaces
    <2>6. DiskBits'
      BY <1>0, <2>2, <2>3 DEF DiskBits, Memory, Switches
    <2>7. Memory' /\ Switches'
      BY ZenonT(60), <1>0, <2>2, <2>3 DEF Memory, Switches
    <2>8. NewerAnnounced' /\ PhaseToPutBack'
      BY <2>1, <2>2, <2>3, <2>5 DEF UpdatesInv, NewerAnnounced, PhaseToPutBack
    <2>9. CopyKept'
      <3>1. Held \in {"replace", "putBack"} => backup
        BY DEF UpdatesInv, CopyKept
      <3>2. ~lost /\ Held # "putBack" => bundle
        BY DEF UpdatesInv, CopyKept
      <3>3. lost \in BOOLEAN /\ bundle \in BOOLEAN /\ backup \in BOOLEAN
        BY <1>0 DEF Switches, DiskBits
      <3>4. Held' \in {"replace", "putBack"} => backup'
        BY <2>3, <2>5, <3>1
      <3>5. ~lost' /\ Held' # "putBack" => bundle'
        BY <2>3, <2>5, <3>1, <3>2, <3>3
      <3> QED BY <3>4, <3>5 DEF CopyKept
    <2>10. PhaseIsTrue'
      BY <2>1, <2>2 DEF PhaseIsTrue, UpdateTasks
    <2>11. PauseKnown'
      BY <1>2, <2>1, <2>2, <2>3 DEF TaskPlaces, Installing
    <2> QED BY <1>1, <2>4, <2>5, <2>6, <2>7, <2>8, <2>9, <2>10, <2>11 DEF UpdatesInv
  <1>7. CASE InstallFailed(t)
    <2>1. gateOf = t /\ Held = "failed" /\ Ends(t) /\ downloaded = 0
      BY <1>7, HolderIs DEF InstallFailed, At, UpdatesInv, GatePlaces, NewerAnnounced
    <2>2. UNCHANGED <<version, bundle, backup, lost, feed, auto, ownPause, away, appOn, announced, downloaded, inFlight, midway>>
          /\ nextCheck' = "soon" /\ phase' = "failed"
      BY <1>7 DEF InstallFailed
    <2>3. JobsType' /\ Others(t) /\ gateOf' = "free" /\ job'[t].at \in {"none", "leave"} /\ (job'[t].at = "leave" => t = "quit")
      BY <1>0, <2>1, EndsAt
    <2>4. GateKept' /\ Held' = "free"
      BY <2>1, <2>3, HolderFrees DEF UpdatesInv, GatePlaces
    <2>5. DiskBits' /\ Memory'
      BY <1>0, <2>2 DEF DiskBits, Memory, Phases
    <2>6. paused' = paused \/ (t # "quit" /\ ~job[t].was /\ paused' = FALSE)
      BY <1>7 DEF InstallFailed, ResumesOwn
    <2>7. Switches'
      BY <1>0, <2>2, <2>3, <2>6 DEF Switches
    <2>8. NewerAnnounced' /\ PhaseIsTrue' /\ PhaseToPutBack' /\ CopyKept'
      BY <2>1, <2>2, <2>4 DEF UpdatesInv, NewerAnnounced, PhaseIsTrue, PhaseToPutBack, CopyKept
    <2>9. PauseKnown'
      <3>1. ownPause /\ ~midway => paused' = paused
        BY <1>7, <2>6 DEF InstallFailed, At, UpdatesInv, PauseKnown, Installing
      <3> QED BY <2>2, <2>3, <3>1 DEF UpdatesInv, PauseKnown, Others, Installing
    <2> QED BY <1>1, <2>3, <2>4, <2>5, <2>7, <2>8, <2>9 DEF UpdatesInv
  <1> QED BY <1>3, <1>4, <1>5, <1>6, <1>7

\* What a step that neither installs nor asks leaves to be checked: who is where.
LEMMA OutsideRests ==
  ASSUME UpdatesInv, NEW t \in UpdateTasks, gateOf # t, UNCHANGED Untouched, UNCHANGED <<gateOf>>,
         JobsType', Others(t), job'[t].at \notin GatePlaces, job'[t].at = "leave" => t = "quit"
  PROVE  GateKept' /\ NewerAnnounced' /\ PhaseToPutBack' /\ PhaseIsTrue' /\ CopyKept'
  <1>1. gateOf \in UpdateTasks \cup {"free"}
    BY DEF UpdatesInv, UpdatesTypeOK
  <1>2. GateKept' /\ Held' = Held /\ (Held # "free" => job'[gateOf] = job[gateOf])
    BY <1>1, OutsideMoves DEF UpdatesInv
  <1> QED BY <1>2, OutsideKeeps DEF UpdatesInv

\* No task moves.
LEMMA NobodyMoves ==
  ASSUME UpdatesInv, UNCHANGED Untouched, UNCHANGED <<gateOf, job>>
  PROVE  JobsType' /\ GateKept' /\ NewerAnnounced' /\ PhaseToPutBack' /\ PhaseIsTrue' /\ CopyKept'
  <1>1. JobsType' /\ GateKept' /\ Held' = Held
    BY UpdatesTypes DEF UpdatesInv, JobsType, GateKept, Held
  <1> QED BY <1>1, OutsideKeeps DEF UpdatesInv

\* A task begins, goes on or is over outside the gate: the loop's beat and look,
\* the owner's check, look, switch and install.
LEMMA TasksKeep ==
  ASSUME UpdatesInv, Beat \/ LoopLooks \/ OwnerLooks \/ CheckNow \/ SetAuto \/ InstallNow
  PROVE  UpdatesInv'
  <1> USE NewestAssumption DEF onDisk, world, memory, ownerRest
  <1>0. JobsType /\ DiskBits /\ Memory /\ Switches
    BY UpdatesTypes DEF UpdatesInv
  <1>1. /\ UNCHANGED <<version, bundle, backup, lost, feed, ownPause, away, appOn, phase, announced, downloaded, nextCheck,
                       gateOf, paused, inFlight, midway>>
        /\ auto' \in {auto, ~auto}
    BY DEF Beat, LoopLooks, OwnerLooks, CheckNow, SetAuto, InstallNow
  <1>2. PICK t \in {"loop", "owner"} :
          /\ job[t].at \in {"none", "look"}
          /\ \/ \E place \in {"check", "look", "download", "apply"}, by \in BOOLEAN, then \in {"none", "look", "apply"} :
                  Begins(t, place, by, then)
             \/ \E place \in {"download", "apply"} : Puts(t, place)
             \/ job' = [job EXCEPT ![t] = NoJob]
             \/ job' = job
    BY DEF Beat, LoopLooks, OwnerLooks, CheckNow, SetAuto, InstallNow, OwnerFree, At
  <1>3. t \in UpdateTasks
    BY DEF UpdateTasks
  <1>4. JobsType' /\ Others(t) /\ job'[t].at \in {"none", "check", "look", "download", "apply"}
    <2>1. CASE \E place \in {"check", "look", "download", "apply"}, by \in BOOLEAN, then \in {"none", "look", "apply"} :
                  Begins(t, place, by, then)
      <3>1. PICK place \in {"check", "look", "download", "apply"}, by \in BOOLEAN, then \in {"none", "look", "apply"} :
                  Begins(t, place, by, then)
        BY <2>1
      <3>2. place \in TaskPlaces
        BY DEF TaskPlaces
      <3> QED BY <1>0, <1>3, <3>1, <3>2, BeginsAt
    <2>2. CASE \E place \in {"download", "apply"} : Puts(t, place)
      BY <1>0, <1>3, <2>2, PutsAt DEF TaskPlaces
    <2>3. CASE job' = [job EXCEPT ![t] = NoJob]
      BY <1>0, <1>3, <2>3, NoJobType DEF JobsType, Others
    <2>4. CASE job' = job
      BY <1>0, <1>2, <2>4 DEF JobsType, Others
    <2> QED BY <1>2, <2>1, <2>2, <2>3, <2>4
  <1>5. gateOf # t
    BY <1>2, <1>3 DEF UpdatesInv, GateKept, GatePlaces
  <1>6. GateKept' /\ NewerAnnounced' /\ PhaseToPutBack' /\ PhaseIsTrue' /\ CopyKept'
    BY <1>1, <1>3, <1>4, <1>5, OutsideRests DEF Untouched, GatePlaces
  <1>7. UpdatesTypeOK'
    <2>1. DiskBits' /\ Switches'
      BY <1>0, <1>1 DEF DiskBits, Switches
    <2>2. Memory'
      BY <1>0, <1>1 DEF Memory
    <2> QED BY <1>4, <2>1, <2>2 DEF UpdatesTypeOK, JobsType, Jobs, TaskPlaces, DiskBits, Memory, Switches
  <1>8. PauseKnown'
    BY <1>1, <1>3, <1>4, PauseRests DEF UpdatesInv, Others, Installing
  <1> QED BY <1>6, <1>7, <1>8 DEF UpdatesInv

\* The owner pauses, resumes or quits.
LEMMA OwnerKeeps ==
  ASSUME UpdatesInv, PauseByOwner \/ ResumeByOwner \/ Quit
  PROVE  UpdatesInv'
  <1> USE NewestAssumption DEF onDisk, world, memory, ownerRest
  <1>0. JobsType /\ DiskBits /\ Memory /\ Switches
    BY UpdatesTypes DEF UpdatesInv
  <1>1. /\ UNCHANGED <<version, bundle, backup, lost, feed, away, appOn, phase, announced, downloaded, nextCheck, gateOf, auto>>
        /\ paused' \in BOOLEAN /\ ownPause' \in BOOLEAN /\ inFlight' \in {inFlight, FALSE}
    BY <1>0 DEF PauseByOwner, ResumeByOwner, Quit, Switches
  <1>2. DiskBits' /\ Memory'
    BY <1>0, <1>1 DEF DiskBits, Memory
  <1>3. midway' \in BOOLEAN
    BY <1>0 DEF PauseByOwner, ResumeByOwner, Quit, Switches
  <1>4. Switches'
    BY <1>0, <1>1, <1>3 DEF Switches
  <1>5. ASSUME JobsType' PROVE UpdatesTypeOK'
    BY <1>2, <1>4, <1>5 DEF UpdatesTypeOK, JobsType, Jobs, TaskPlaces, DiskBits, Memory, Switches
  <1>6. CASE Quit
    <2>1. job["quit"].at = "none" /\ paused' = TRUE /\ UNCHANGED <<ownPause, midway>>
      BY <1>6 DEF Quit
    <2>2. "quit" \in UpdateTasks /\ gateOf # "quit"
      BY <2>1 DEF UpdatesInv, GateKept, GatePlaces, UpdateTasks
    <2>3. JobsType' /\ Others("quit") /\ job'["quit"].at \in {"apply", "leave"}
      <3>1. PICK place \in {"apply", "leave"} : Begins("quit", place, FALSE, "none")
        BY <1>6 DEF Quit
      <3>2. place \in TaskPlaces
        BY DEF TaskPlaces
      <3> QED BY <1>0, <2>2, <3>1, <3>2, BeginsAt
    <2>4. GateKept' /\ NewerAnnounced' /\ PhaseToPutBack' /\ PhaseIsTrue' /\ CopyKept'
      BY <1>1, <2>2, <2>3, OutsideRests DEF Untouched, GatePlaces
    <2>5. PauseKnown'
      BY <2>1, <2>3 DEF UpdatesInv, PauseKnown, Others
    <2> QED BY <1>5, <2>3, <2>4, <2>5 DEF UpdatesInv
  <1>7. CASE PauseByOwner \/ ResumeByOwner
    <2>1. UNCHANGED job
      BY <1>7 DEF PauseByOwner, ResumeByOwner
    <2>2. JobsType' /\ GateKept' /\ NewerAnnounced' /\ PhaseToPutBack' /\ PhaseIsTrue' /\ CopyKept'
      BY <1>1, <2>1, NobodyMoves DEF Untouched
    <2>3. PauseKnown'
      <3>1. CASE PauseByOwner
        BY <2>1, <3>1 DEF PauseByOwner, PauseKnown, Installing
      <3>2. CASE ResumeByOwner
        BY <3>2 DEF ResumeByOwner, PauseKnown
      <3> QED BY <1>7, <3>1, <3>2
    <2> QED BY <1>5, <2>2, <2>3 DEF UpdatesInv
  <1> QED BY <1>6, <1>7

\* The app starts; the feed, the time, the work and the owner's presence change.
LEMMA WorldKeeps ==
  ASSUME UpdatesInv, Start \/ TimePasses \/ FeedChanges \/ WorkChanges \/ OwnerMoves
  PROVE  UpdatesInv'
  <1> USE NewestAssumption DEF onDisk, world, memory
  <1>0. JobsType /\ DiskBits /\ Memory /\ Switches
    BY UpdatesTypes DEF UpdatesInv
  <1>1. UNCHANGED <<version, bundle, backup, lost, phase, announced, downloaded, gateOf, auto, ownPause, paused, midway, job>>
    BY DEF Start, TimePasses, FeedChanges, WorkChanges, OwnerMoves
  <1>2. JobsType' /\ GateKept' /\ NewerAnnounced' /\ PhaseToPutBack' /\ PhaseIsTrue' /\ CopyKept'
    BY <1>1, NobodyMoves DEF Untouched
  <1>3. PauseKnown'
    BY <1>1, PauseRests DEF UpdatesInv
  <1>4. feed' \in 0 .. Newest
    BY <1>0 DEF Start, TimePasses, FeedChanges, WorkChanges, OwnerMoves, DiskBits
  <1>5. DiskBits'
    BY <1>0, <1>1, <1>4 DEF DiskBits
  <1>6. nextCheck' \in {"due", "soon", "far"}
    BY <1>0 DEF Start, TimePasses, FeedChanges, WorkChanges, OwnerMoves, Memory
  <1>7. Memory'
    BY <1>0, <1>1, <1>6 DEF Memory
  <1>8. away' \in BOOLEAN /\ inFlight' \in BOOLEAN /\ appOn' \in {"on", "off", "back"}
    BY <1>0 DEF Start, TimePasses, FeedChanges, WorkChanges, OwnerMoves, Switches
  <1>9. Switches'
    BY <1>0, <1>1, <1>8 DEF Switches
  <1>10. UpdatesTypeOK'
    BY <1>2, <1>5, <1>7, <1>9 DEF UpdatesTypeOK, JobsType, Jobs, TaskPlaces, DiskBits, Memory, Switches
  <1> QED BY <1>2, <1>3, <1>10 DEF UpdatesInv

\* The process ends: what was in memory is gone, what is on disk stays.
LEMMA GoneKeeps ==
  ASSUME UpdatesInv, NEW back \in {"off", "back"}, Gone(back)
  PROVE  UpdatesInv'
  <1>0. JobsType /\ DiskBits /\ Memory /\ Switches
    BY UpdatesTypes DEF UpdatesInv
  <1>1. JobsType' /\ \A t \in UpdateTasks : job'[t].at = "none"
    BY NoJobType DEF Gone, JobsType
  <1>2. gateOf' = "free" /\ Held' = "free" /\ phase' = "idle" /\ announced' = 0 /\ downloaded' = 0
    BY DEF Gone, Held
  <1>3. DiskBits' /\ Memory'
    BY <1>0, NewestAssumption DEF Gone, DiskBits, Memory, Phases
  <1>4. lost' \in BOOLEAN
    BY <1>0 DEF Gone, Switches, DiskBits
  <1>5. Switches'
    BY <1>0, <1>4 DEF Gone, Switches
  <1>6. GateKept'
    BY <1>1, <1>2 DEF GateKept, GatePlaces, UpdateTasks
  <1>7. NewerAnnounced' /\ PhaseToPutBack' /\ PhaseIsTrue'
    BY <1>2 DEF NewerAnnounced, PhaseToPutBack, PhaseIsTrue
  <1>8. CopyKept'
    BY <1>0, <1>2 DEF CopyKept, Gone, Switches, DiskBits
  <1>9. PauseKnown'
    BY <1>1 DEF PauseKnown, Gone, Installing
  <1>10. UpdatesTypeOK'
    BY <1>1, <1>3, <1>5 DEF UpdatesTypeOK, JobsType, Jobs, TaskPlaces, DiskBits, Memory, Switches
  <1> QED BY <1>6, <1>7, <1>8, <1>9, <1>10 DEF UpdatesInv

\* The state the app starts in.
LEMMA UpdatesStart ==
  ASSUME UpdatesInit PROVE UpdatesInv
  <1> USE NewestAssumption
  <1>1. JobsType /\ \A t \in UpdateTasks : job[t].at = "none"
    BY NoJobType DEF UpdatesInit, JobsType
  <1>2. DiskBits
    <2>1. version \in 0 .. Newest /\ feed \in 0 .. Newest
      BY DEF UpdatesInit
    <2>2. bundle \in BOOLEAN /\ backup \in BOOLEAN
      BY DEF UpdatesInit
    <2> QED BY <2>1, <2>2 DEF DiskBits
  <1>3. Memory
    BY DEF UpdatesInit, Memory, Phases
  <1>4. Switches
    BY DEF UpdatesInit, Switches
  <1>5. GateKept
    BY <1>1 DEF UpdatesInit, GateKept, GatePlaces, UpdateTasks
  <1>6. NewerAnnounced /\ PhaseToPutBack /\ PhaseIsTrue /\ CopyKept /\ PauseKnown
    BY DEF UpdatesInit, Held, NewerAnnounced, PhaseToPutBack, PhaseIsTrue, CopyKept, PauseKnown
  <1> QED BY <1>1, <1>2, <1>3, <1>4, <1>5, <1>6, UpdatesTypes DEF UpdatesInv

\* Every step of the updater keeps its invariant.
LEMMA UpdatesSteps ==
  ASSUME UpdatesInv, UpdatesNext
  PROVE  UpdatesInv'
  <1>1. ASSUME NEW t \in UpdateTasks, UnderGate(t) PROVE UpdatesInv'
    <2>1. CASE Leave(t)
      <3>1. PICK back \in {"off", "back"} : Gone(back)
        BY <2>1 DEF Leave
      <3> QED BY <3>1, GoneKeeps
    <2> QED BY <1>1, <2>1, ChecksKeep, DownloadsKeep, InstallsKeep DEF UnderGate
  <1>2. CASE UpdaterEnds
    BY <1>2, GoneKeeps DEF UpdaterEnds
  <1> QED BY <1>1, <1>2, TasksKeep, OwnerKeeps, WorldKeeps DEF UpdatesNext

\* Steps of the other parts leave it alone.
LEMMA UpdatesRest ==
  ASSUME UpdatesInv, UNCHANGED updateVars
  PROVE  UpdatesInv'
  BY DEF UpdatesInv, updateVars, UpdatesTypeOK, GateKept, Held, NewerAnnounced, PhaseToPutBack, PhaseIsTrue, CopyKept, PauseKnown

\* What the invariant says of the app's update.
LEMMA UpdatesMean ==
  ASSUME UpdatesInv
  PROVE  UpdatesTypeOK /\ PhaseIsTrue /\ OfferedOnly /\ BundleWhole /\ PauseStays
  <1>1. OfferedOnly
    <2>1. ASSUME downloaded # 0 PROVE announced # 0 /\ Held # "leave" /\ downloaded = announced
      BY <2>1 DEF UpdatesInv, NewerAnnounced
    <2> QED BY <2>1 DEF UpdatesInv, NewerAnnounced, OfferedOnly
  <1>2. BundleWhole
    BY DEF UpdatesInv, CopyKept, Held, BundleWhole
  <1>3. PauseStays
    BY DEF UpdatesInv, PauseKnown, PauseStays
  <1> QED BY <1>1, <1>2, <1>3 DEF UpdatesInv

-----------------------------------------------------------------------------
(* A hold recognized on this computer: of a recording r, the pieces of     *)
(* text that were read of it.                                              *)

Recordings == {r \in Seq({"w", "q"}) : Len(r) <= MaxAudio}
Streams == [len : Positions, at : Positions, text : Seq(Pieces), preview : Pieces, broken : BOOLEAN]

\* A piece may end here, whatever is said later: no word goes on over it.
SafeCut(r, c) ==
    \/ c = 0
    \/ c \in 1 .. Len(r) /\ r[c] = "q"
    \/ c + 1 \in 1 .. Len(r) /\ r[c + 1] = "q"

\* The pieces follow each other, end where a piece may, and hold each word up to here.
InOrder(text, end) ==
    \A k \in 1 .. Len(text) : text[k][2] <= end /\ \A j \in 1 .. k - 1 : text[j][2] <= text[k][1]
SafeCuts(r, text) == \A k \in 1 .. Len(text) : SafeCut(r, text[k][1]) /\ SafeCut(r, text[k][2])
NoHalves(r, text) ==
    \A k \in 1 .. Len(text), i \in 1 .. Len(r) - 1 :
        r[i] = "w" /\ r[i + 1] = "w" => text[k][1] # i /\ text[k][2] # i
HasAll(r, text, upTo) ==
    \A i \in 1 .. upTo : r[i] = "w" => \E k \in 1 .. Len(text) : text[k][1] < i /\ i <= text[k][2]

\* What the thread has of the recording it reads.
KeepsUp(r, s) ==
    /\ s.at <= s.len /\ s.len <= Len(r) /\ SafeCut(r, s.at)
    /\ SafeCuts(r, s.text) /\ InOrder(s.text, s.at) /\ HasAll(r, s.text, s.at)
    /\ s.preview = <<0, 0>> \/ (s.preview[1] = s.at /\ s.at < s.preview[2] /\ s.preview[2] <= s.len)

ThreadReads ==
    /\ at = "load" => task \in Holds \cup {"warm"}
    /\ at \in {"run", "refuse"} => task \in Holds
    /\ IF at = "run" THEN KeepsUp(said[task], stream) ELSE stream = Fresh

\* What is sent is what was answered, and what was answered is what was said.
Closed == {"answered", "text", "audio", "silent"}
SaysAll(r, a) ==
    /\ a.is = "text" => InOrder(a.text, Len(r)) /\ NoHalves(r, a.text) /\ HasAll(r, a.text, Len(r))
    /\ a.is = "Silence" => {i \in 0 + 1 .. Len(r) : r[i] = "w"} = {}
AnswersFit ==
    \A n \in Holds :
        /\ hold[n] \notin Closed => answer[n] = NoAnswer
        /\ SaysAll(said[n], answer[n])
        /\ hold[n] = "text" => answer[n].is = "text"
        /\ hold[n] = "silent" => answer[n].is = "Silence"

SpeechInv ==
    /\ SpeechTypeOK
    /\ said \in [Holds -> Recordings]
    /\ answer \in [Holds -> [is : Answers, text : Seq(Pieces)]]
    /\ ThreadReads /\ AnswersFit

\* The last of some numbers is one of them.
LEMMA LastIsOne ==
  ASSUME NEW bound \in Nat, NEW S, S \subseteq 1 .. bound, S # {}
  PROVE  Last(S) \in S /\ \A j \in S : j <= Last(S)
  <1> DEFINE T == {bound - i : i \in S}
             R == OpToRel(<, Nat)
  <1>1. T \subseteq Nat
    <2> SUFFICES ASSUME NEW i \in S PROVE bound - i \in Nat
      OBVIOUS
    <2>1. i \in Nat /\ i <= bound
      OBVIOUS
    <2> QED BY <2>1
  <1>2. T # {}
    <2>1. PICK i \in S : TRUE
      OBVIOUS
    <2>2. bound - i \in T
      BY <2>1
    <2> QED BY <2>2
  <1>3. IsWellFoundedOn(R, Nat)
    BY NatLessThanWellFounded
  <1>4. PICK x \in T : \A y \in T : ~(<<y, x>> \in R)
    <2> HIDE DEF T, R
    <2> QED BY <1>1, <1>2, <1>3, WFMin
  <1>5. \A y \in T : ~(y < x)
    BY <1>1, <1>4 DEF OpToRel
  <1>6. PICK i \in S : x = bound - i
    OBVIOUS
  <1>7. \A j \in S : j <= i
    <2> TAKE j \in S
    <2>1. ~(bound - j < bound - i)
      BY <1>5, <1>6
    <2> QED BY <2>1
  <1> QED BY <1>7 DEF Last

\* A cut is past the last one, within what was heard, and no word goes on over it.
LEMMA CutIsSafe ==
  ASSUME NEW n \in Holds, said[n] \in Recordings, NEW from \in Positions, NEW to \in Positions, to <= Len(said[n]),
         NEW c \in Cuts(n, from, to)
  PROVE  c \in from + 1 .. to /\ SafeCut(said[n], c)
  <1> USE AudioAssumption DEF Positions, Recordings
  <1> DEFINE W == Spoken(n, from, to)
             Follows(a) == {b \in W : b > a}
             Between == {a \in W : Follows(a) # {} /\ a + 1 \notin W}
             Trailing == {a + ((to - a) \div 2) : a \in {x \in W : Follows(x) = {} /\ x + 2 <= to}}
  <1>1. W = {i \in from + 1 .. to : said[n][i] = "w"} /\ \A i \in 1 .. to : said[n][i] \in {"w", "q"}
    BY DEF Spoken
  <1>2. CASE W = {}
    <2>1. c = to - 1 /\ to - from >= 3
      BY <1>2, AudioAssumption DEF Cuts, MinChunk
    <2> QED BY <1>1, <1>2, <2>1 DEF SafeCut
  <1>3. CASE W # {}
    <2>1. c \in Between \cup Trailing /\ c - from >= 3
      BY <1>3, AudioAssumption DEF Cuts, MinChunk
    <2>2. CASE c \in Between
      <3>1. c \in W /\ c + 1 \notin W /\ \E b \in W : b > c
        BY <2>2
      <3> HIDE DEF W
      <3>2. c \in from + 1 .. to /\ c + 1 \in from + 1 .. to
        BY <1>1, <3>1
      <3>3. said[n][c + 1] = "q"
        BY <1>1, <3>1, <3>2
      <3> QED BY <3>2, <3>3 DEF SafeCut
    <2>3. CASE c \in Trailing
      <3>1. PICK a \in W : a + 2 <= to /\ c = a + ((to - a) \div 2) /\ \A b \in W : ~(b > a)
        BY <2>3
      <3> HIDE DEF W
      <3>2. a \in from + 1 .. to /\ c > a /\ c \in from + 1 .. to
        <4>1. a \in from + 1 .. to /\ a \in Nat /\ to \in Nat /\ from \in Nat /\ from < a
          BY <1>1
        <4>2. (to - a) \div 2 \in Nat /\ (to - a) \div 2 >= 1 /\ (to - a) \div 2 <= to - a
          BY <3>1, <4>1
        <4> QED BY <3>1, <4>1, <4>2
      <3>3. c \notin W
        BY <3>1, <3>2
      <3>4. said[n][c] = "q"
        BY <1>1, <3>2, <3>3
      <3> QED BY <3>2, <3>4 DEF SafeCut
    <2> QED BY <2>1, <2>2, <2>3
  <1> QED BY <1>2, <1>3

\* A piece from where the text ends is the next one.
LEMMA PieceAdded ==
  ASSUME NEW r \in Recordings, NEW text \in Seq(Pieces), NEW from \in Positions, NEW to \in Positions, from <= to,
         InOrder(text, from), HasAll(r, text, from)
  PROVE  LET more == Append(text, <<from, to>>) IN
         more \in Seq(Pieces) /\ InOrder(more, to) /\ HasAll(r, more, to)
  <1> DEFINE more == Append(text, <<from, to>>)
  <1>0. <<from, to>> \in Pieces
    BY DEF Pieces
  <1>1. /\ more \in Seq(Pieces) /\ Len(more) = Len(text) + 1 /\ Len(text) \in Nat
        /\ more[Len(text) + 1] = <<from, to>>
        /\ \A k \in 1 .. Len(text) : more[k] = text[k] /\ text[k][1] \in Positions /\ text[k][2] \in Positions
    BY <1>0 DEF Pieces
  <1>2. <<from, to>>[1] = from /\ <<from, to>>[2] = to
    OBVIOUS
  <1> HIDE DEF more
  <1>3. InOrder(more, to)
    <2> SUFFICES ASSUME NEW k \in 1 .. Len(more)
                 PROVE  more[k][2] <= to /\ \A j \in 1 .. k - 1 : more[j][2] <= more[k][1]
      BY DEF InOrder
    <2>1. CASE k \in 1 .. Len(text)
      <3>1. text[k][2] <= from /\ \A j \in 1 .. k - 1 : text[j][2] <= text[k][1]
        BY <2>1 DEF InOrder
      <3>2. more[k] = text[k] /\ text[k][2] <= to
        BY <1>1, <2>1, <3>1, AudioAssumption DEF Positions
      <3>3. \A j \in 1 .. k - 1 : j \in 1 .. Len(text)
        BY <1>1, <2>1
      <3> QED BY <1>1, <3>1, <3>2, <3>3
    <2>2. CASE k = Len(text) + 1
      BY SMTT(30), <1>1, <1>2, <2>2, AudioAssumption DEF InOrder, Positions
    <2> QED BY <1>1, <2>1, <2>2
  <1>4. HasAll(r, more, to)
    <2> SUFFICES ASSUME NEW i \in 1 .. to, r[i] = "w"
                 PROVE  \E k \in 1 .. Len(more) : more[k][1] < i /\ i <= more[k][2]
      BY DEF HasAll
    <2>1. CASE i <= from
      <3>1. i \in 1 .. from
        BY <2>1 DEF Positions
      <3>2. PICK k \in 1 .. Len(text) : text[k][1] < i /\ i <= text[k][2]
        BY <3>1 DEF HasAll
      <3> QED BY <1>1, <3>2
    <2>2. CASE i > from
      <3>1. Len(text) + 1 \in 1 .. Len(more)
        BY <1>1
      <3> QED BY <1>1, <1>2, <2>2, <3>1
    <2> QED BY <2>1, <2>2 DEF Positions
  <1> QED BY <1>1, <1>3, <1>4 DEF more

\* Without a word none is needed.
LEMMA PieceSpared ==
  ASSUME NEW r \in Recordings, NEW text \in Seq(Pieces), NEW from \in Positions, NEW to \in Nat, from <= to,
         InOrder(text, from), HasAll(r, text, from), \A i \in from + 1 .. to : r[i] # "w"
  PROVE  InOrder(text, to) /\ HasAll(r, text, to)
  <1>1. \A k \in 1 .. Len(text) : text[k][2] \in Positions
    BY DEF Pieces
  <1>2. InOrder(text, to)
    <2> SUFFICES \A k \in 1 .. Len(text) : text[k][2] <= to /\ \A j \in 1 .. k - 1 : text[j][2] <= text[k][1]
      BY DEF InOrder
    <2> TAKE k \in 1 .. Len(text)
    <2>1. text[k][2] <= from /\ \A j \in 1 .. k - 1 : text[j][2] <= text[k][1]
      BY DEF InOrder
    <2>2. text[k][2] <= to
      BY <1>1, <2>1, AudioAssumption DEF Positions
    <2> QED BY <2>1, <2>2
  <1>3. HasAll(r, text, to)
    BY DEF HasAll, Positions
  <1> QED BY <1>2, <1>3

\* The next half second changes nothing of what was read.
LEMMA SaidMore ==
  ASSUME NEW r \in Recordings, NEW u \in {"w", "q"}, NEW s \in Streams, KeepsUp(r, s)
  PROVE  KeepsUp(Append(r, u), s)
  <1>1. /\ Len(Append(r, u)) = Len(r) + 1 /\ Len(r) \in Nat
        /\ \A i \in 1 .. Len(r) : Append(r, u)[i] = r[i]
    BY DEF Recordings
  <1>2. ASSUME NEW c \in Nat, SafeCut(r, c) PROVE SafeCut(Append(r, u), c)
    BY <1>1, <1>2 DEF SafeCut
  <1>3. s.at \in Nat /\ s.len \in Nat /\ s.text \in Seq(Pieces)
    BY DEF Streams, Positions
  <1>4. \A k \in 1 .. Len(s.text) : s.text[k][1] \in Nat /\ s.text[k][2] \in Nat
    BY <1>3 DEF Pieces, Positions
  <1>5. SafeCut(Append(r, u), s.at) /\ SafeCuts(Append(r, u), s.text)
    BY <1>2, <1>3, <1>4 DEF KeepsUp, SafeCuts
  <1>6. HasAll(Append(r, u), s.text, s.at)
    BY <1>1, <1>3 DEF KeepsUp, HasAll
  <1>7. s.len <= Len(Append(r, u))
    BY <1>1, <1>3 DEF KeepsUp
  <1> QED BY <1>5, <1>6, <1>7 DEF KeepsUp

\* A pause is cut: the piece before it is text for good.
LEMMA CommittedKeepsUp ==
  ASSUME NEW n \in Holds, said[n] \in Recordings, NEW s \in Streams, KeepsUp(said[n], s)
  PROVE  Committed(n, s) \in Streams /\ KeepsUp(said[n], Committed(n, s)) /\ Committed(n, s).len = s.len
  <1> DEFINE C == Cuts(n, s.at, s.len)
             c == Last(C)
             text == IF Spoken(n, s.at, c) = {} THEN s.text ELSE Append(s.text, <<s.at, c>>)
             more == [s EXCEPT !.text = text, !.at = c, !.preview = <<0, 0>>]
  <1>1. s.at \in Positions /\ s.len \in Positions /\ s.text \in Seq(Pieces) /\ s.len <= Len(said[n])
    BY DEF Streams, KeepsUp
  <1>2. CASE C = {}
    BY <1>2 DEF Committed
  <1>3. CASE C # {}
    <2>1. Committed(n, s) = more
      BY <1>3 DEF Committed
    <2>2. \A x \in C : x \in s.at + 1 .. s.len /\ SafeCut(said[n], x)
      BY <1>1, CutIsSafe
    <2>3. s.len \in Nat /\ C \subseteq 1 .. s.len
      BY <1>1, <2>2, AudioAssumption DEF Positions
    <2>4. c \in C
      <3> HIDE DEF C
      <3> QED BY <1>3, <2>3, LastIsOne
    <2>5. c \in Positions /\ s.at < c /\ s.at <= c /\ c <= s.len /\ SafeCut(said[n], c) /\ SafeCut(said[n], s.at)
      BY <1>1, <2>2, <2>4, AudioAssumption DEF Positions, KeepsUp
    <2> HIDE DEF C, c
    <2>6. text \in Seq(Pieces) /\ InOrder(text, c) /\ HasAll(said[n], text, c) /\ SafeCuts(said[n], text)
      <3>1. InOrder(s.text, s.at) /\ HasAll(said[n], s.text, s.at) /\ SafeCuts(said[n], s.text)
        BY DEF KeepsUp
      <3>2. CASE Spoken(n, s.at, c) = {}
        <4>1. text = s.text
          BY <3>2
        <4>2. \A i \in s.at + 1 .. c : said[n][i] # "w"
          BY <3>2 DEF Spoken
        <4>3. c \in Nat
          BY <2>5 DEF Positions
        <4> QED BY <1>1, <2>5, <3>1, <4>1, <4>2, <4>3, PieceSpared
      <3>3. CASE Spoken(n, s.at, c) # {}
        <4> DEFINE p == <<s.at, c>>
        <4>1. text = Append(s.text, p)
          BY <3>3
        <4>2. text \in Seq(Pieces) /\ InOrder(text, c) /\ HasAll(said[n], text, c)
          BY <1>1, <2>5, <3>1, <4>1, PieceAdded
        <4>3. p[1] = s.at /\ p[2] = c
          OBVIOUS
        <4> HIDE DEF p, text
        <4>4. \A k \in 1 .. Len(text) : text[k] = p \/ (k \in 1 .. Len(s.text) /\ text[k] = s.text[k])
          BY <1>1, <4>1
        <4>5. SafeCuts(said[n], text)
          BY <2>5, <3>1, <4>3, <4>4 DEF SafeCuts
        <4> QED BY <4>2, <4>5
      <3> QED BY <3>2, <3>3
    <2> HIDE DEF text
    <2>7. <<0, 0>> \in Pieces
      BY AudioAssumption DEF Pieces, Positions
    <2>8. /\ more \in Streams /\ more.len = s.len /\ more.at = c /\ more.text = text /\ more.preview = <<0, 0>>
      BY <2>5, <2>6, <2>7 DEF Streams
    <2> HIDE DEF more
    <2> QED BY <1>1, <2>1, <2>5, <2>6, <2>8 DEF KeepsUp
  <1> QED BY <1>2, <1>3

\* What is left is decoded, from where the text ends to where the ear is.
LEMMA PreviewedKeepsUp ==
  ASSUME NEW n \in Holds, NEW s \in Streams, KeepsUp(said[n], s)
  PROVE  Previewed(n, s) \in Streams /\ KeepsUp(said[n], Previewed(n, s))
  <1> DEFINE more == [s EXCEPT !.preview = <<s.at, s.len>>]
             W == Spoken(n, s.at, s.len)
  <1>1. s.at \in Positions /\ s.len \in Positions /\ s.at <= s.len
    BY DEF Streams, KeepsUp
  <1>2. CASE Previewed(n, s) = s
    BY <1>2
  <1>3. CASE Previewed(n, s) # s
    <2>1. Previewed(n, s) = more /\ Cardinality(W) >= PreviewSpeech
      BY <1>3 DEF Previewed
    <2>2. W # {}
      BY <2>1, FS_EmptySet DEF PreviewSpeech
    <2>3. s.at < s.len
      BY <1>1, <2>2, AudioAssumption DEF Spoken, Positions
    <2>4. <<s.at, s.len>> \in Pieces /\ <<s.at, s.len>>[1] = s.at /\ <<s.at, s.len>>[2] = s.len
      BY <1>1 DEF Pieces
    <2>5. /\ more \in Streams /\ more.len = s.len /\ more.at = s.at /\ more.text = s.text
          /\ more.preview = <<s.at, s.len>>
      BY <2>4 DEF Streams
    <2> HIDE DEF more
    <2> QED BY <1>1, <2>1, <2>3, <2>4, <2>5 DEF KeepsUp, Positions
  <1> QED BY <1>2, <1>3

\* The text of a hold that is over is the whole of it.
LEMMA FinishedSaysAll ==
  ASSUME NEW n \in Holds, said[n] \in Recordings, NEW s \in Streams, KeepsUp(said[n], s)
  PROVE  LET text == Finished(n, s)
             end == Len(said[n])
         IN text \in Seq(Pieces) /\ InOrder(text, end) /\ NoHalves(said[n], text) /\ HasAll(said[n], text, end)
  <1> DEFINE text == Finished(n, s)
             r == said[n]
             end == Len(r)
             W == Spoken(n, s.at, end)
             b == IF Covers(s, W) THEN s.preview[2] ELSE end
             p == <<s.at, b>>
  <1>1. /\ s.at \in Positions /\ s.len \in Positions /\ s.text \in Seq(Pieces) /\ s.preview \in Pieces
        /\ s.at <= s.len /\ s.len <= end /\ SafeCut(r, s.at)
        /\ InOrder(s.text, s.at) /\ HasAll(r, s.text, s.at) /\ SafeCuts(r, s.text)
    BY DEF Streams, KeepsUp
  <1>2. end \in Positions /\ end \in Nat /\ s.at <= end
    BY <1>1, AudioAssumption DEF Recordings, Positions
  <1>3. \A i \in 1 .. end - 1 : r[i] = "w" /\ r[i + 1] = "w" => ~SafeCut(r, i)
    BY <1>2 DEF SafeCut
  <1>4. NoHalves(r, s.text)
    BY <1>1, <1>3 DEF NoHalves, SafeCuts
  <1>5. CASE W = {}
    <2>1. text = s.text
      BY <1>5 DEF Finished
    <2>2. \A i \in s.at + 1 .. end : r[i] # "w"
      BY <1>5 DEF Spoken
    <2>3. InOrder(text, end) /\ HasAll(r, text, end)
      BY <1>1, <1>2, <2>1, <2>2, PieceSpared
    <2> QED BY <1>1, <1>4, <2>1, <2>3
  <1>6. CASE W # {}
    <2>1. b \in Positions /\ s.at <= b /\ b <= end /\ (b = end \/ \A i \in W : i < b)
      <3>1. CASE Covers(s, W)
        <4>1. s.preview # <<0, 0>> /\ \A i \in W : i < s.preview[2]
          BY <3>1 DEF Covers
        <4>2. s.at < s.preview[2] /\ s.preview[2] <= s.len
          BY <4>1 DEF KeepsUp
        <4>3. s.preview[2] \in Positions
          BY <1>1 DEF Pieces
        <4>4. b = s.preview[2]
          BY <3>1
        <4> HIDE DEF b, W
        <4> QED BY <1>1, <1>2, <4>1, <4>2, <4>3, <4>4, AudioAssumption DEF Positions
      <3>2. CASE ~Covers(s, W)
        BY <1>2, <3>2
      <3> QED BY <3>1, <3>2
    <2>2. text = Append(s.text, p)
      <3>1. CASE Covers(s, W)
        <4>1. s.preview # <<0, 0>>
          BY <3>1 DEF Covers
        <4>2. s.preview[1] = s.at
          BY <4>1 DEF KeepsUp
        <4>3. s.preview = p
          BY <1>1, <3>1, <4>2 DEF Pieces
        <4> QED BY <1>6, <3>1, <4>3 DEF Finished
      <3>2. CASE ~Covers(s, W)
        BY <1>6, <3>2 DEF Finished
      <3> QED BY <3>1, <3>2
    <2>3. \A i \in b + 1 .. end : r[i] # "w"
      <3>1. W = {i \in s.at + 1 .. end : r[i] = "w"}
        BY DEF Spoken
      <3> HIDE DEF b, W
      <3> QED BY <1>1, <1>2, <2>1, <3>1, AudioAssumption DEF Positions
    <2>4. p[1] = s.at /\ p[2] = b
      OBVIOUS
    <2>5. \A i \in 1 .. end - 1 : r[i] = "w" /\ r[i + 1] = "w" => i # b
      <3>1. W = {i \in s.at + 1 .. end : r[i] = "w"}
        BY DEF Spoken
      <3> HIDE DEF b, W
      <3>2. CASE b = end
        BY <1>2, <3>2
      <3>3. CASE \A i \in W : i < b
        <4> SUFFICES ASSUME NEW i \in 1 .. end - 1, r[i] = "w", r[i + 1] = "w", i = b PROVE FALSE
          OBVIOUS
        <4>1. i + 1 \in W
          BY <1>1, <1>2, <2>1, <3>1, AudioAssumption DEF Positions
        <4> QED BY <3>3, <4>1
      <3> QED BY <2>1, <3>2, <3>3
    <2> HIDE DEF b, text, W
    <2>6. b \in Positions /\ s.at <= b
      BY <2>1
    <2>7. text \in Seq(Pieces) /\ InOrder(text, b) /\ HasAll(r, text, b)
      BY <1>1, <2>2, <2>6, PieceAdded
    <2>8. InOrder(text, end) /\ HasAll(r, text, end)
      BY <1>2, <2>1, <2>3, <2>7, PieceSpared
    <2> HIDE DEF p
    <2>9. \A k \in 1 .. Len(text) : text[k] = p \/ (k \in 1 .. Len(s.text) /\ text[k] = s.text[k])
      BY <1>1, <2>2
    <2>10. NoHalves(r, text)
      <3> SUFFICES ASSUME NEW k \in 1 .. Len(text), NEW i \in 1 .. end - 1, r[i] = "w", r[i + 1] = "w"
                   PROVE  text[k][1] # i /\ text[k][2] # i
        BY DEF NoHalves
      <3>1. CASE text[k] = p
        BY <1>1, <1>3, <2>4, <2>5, <3>1
      <3>2. CASE k \in 1 .. Len(s.text) /\ text[k] = s.text[k]
        BY <1>4, <3>2 DEF NoHalves
      <3> QED BY <2>9, <3>1, <3>2
    <2> QED BY <2>7, <2>8, <2>10 DEF text
  <1> QED BY <1>5, <1>6

\* The types, in parts.
ChannelBits == /\ tx \in {"none", "open", "shut"} /\ queue \in Seq(Holds \cup {"warm"})
               /\ at \in {"none", "idle", "load", "run", "refuse"} /\ task \in Holds \cup {"warm", Nothing}
EngineBits == /\ chosen \in Engines /\ files \subseteq Engines /\ engine \in Engines \cup {Nothing}
              /\ where \in {"unloaded", "loading", "ready", "failed", "gone"}
              /\ dying \in BOOLEAN /\ revived \in BOOLEAN
HoldBits == hold \in [Holds -> {"none", "pressed", "device", "synth", "asked", "answered", "text", "audio",
                                "silent", "dropped"}]
SaidBits == said \in [Holds -> Recordings]
AnswerBits == answer \in [Holds -> [is : Answers, text : Seq(Pieces)]]
StreamBits == stream \in Streams
UpsetBits == upsets \in 0 .. MaxUpsets
SpeechParts == ChannelBits /\ EngineBits /\ HoldBits /\ SaidBits /\ AnswerBits /\ StreamBits /\ UpsetBits
\* The parts of the types are all of them, after a step
LEMMA SpeechJoins == SpeechParts' /\ ThreadReads' /\ AnswersFit' => SpeechInv'
  <1> SUFFICES ASSUME SpeechParts', ThreadReads', AnswersFit' PROVE SpeechInv'
    OBVIOUS
  <1>1. \A n \in Holds : said'[n] \in Seq({"w", "q"}) /\ Len(said'[n]) <= MaxAudio
    BY DEF SpeechParts, SaidBits, Recordings
  <1>2. \A n \in Holds : answer'[n].is \in Answers /\ answer'[n].text \in Seq(Pieces)
    BY DEF SpeechParts, AnswerBits
  <1> QED BY <1>1, <1>2 DEF SpeechInv, SpeechParts, SpeechTypeOK, ChannelBits, EngineBits, HoldBits, SaidBits, AnswerBits, StreamBits, Streams, UpsetBits
\* ... and before it.
LEMMA SpeechSplit == ASSUME SpeechInv PROVE SpeechParts /\ ThreadReads /\ AnswersFit
  BY DEF SpeechInv, SpeechParts, SpeechTypeOK, ChannelBits, EngineBits, HoldBits, SaidBits, AnswerBits, StreamBits, Streams, UpsetBits

\* A stream that begins.
LEMMA FreshKeepsUp == Fresh \in Streams /\ \A r \in Recordings : KeepsUp(r, Fresh)
  <1>1. Fresh \in Streams
    BY AudioAssumption DEF Fresh, Streams, Pieces, Positions
  <1>2. ASSUME NEW r \in Recordings PROVE KeepsUp(r, Fresh)
    <2>1. Len(r) \in Nat
      BY DEF Recordings
    <2> QED BY <2>1 DEF Fresh, KeepsUp, SafeCut, SafeCuts, InOrder, HasAll
  <1> QED BY <1>1, <1>2

\* The thread goes on as it is, or begins anew.
LEMMA ThreadRests ==
  ASSUME ThreadReads, \/ UNCHANGED <<at, task, stream, said>>
                      \/ at' \in {"none", "idle"} /\ stream' = Fresh
                      \/ at = "idle" /\ at' = "idle" /\ stream' = stream
  PROVE  ThreadReads'
  BY DEF ThreadReads

\* The holds go on, without an answer.
LEMMA AnswersRest ==
  ASSUME AnswersFit, UNCHANGED <<said, answer>>,
         \A n \in Holds : hold'[n] = hold[n] \/ (hold'[n] \notin {"text", "silent"} /\ hold[n] \notin Closed)
  PROVE  AnswersFit'
  BY DEF AnswersFit

\* One hold moves.
LEMMA HoldMoves ==
  ASSUME HoldBits, NEW n \in Holds, NEW x \in {"none", "pressed", "device", "synth", "asked", "answered", "text", "audio",
                                               "silent", "dropped"},
         hold' = [hold EXCEPT ![n] = x]
  PROVE  HoldBits' /\ hold'[n] = x /\ \A k \in Holds \ {n} : hold'[k] = hold[k]
  BY DEF HoldBits

\* A command to the thread.
LEMMA CommandSent ==
  ASSUME ChannelBits, EngineBits, StreamBits, ThreadReads, UNCHANGED <<said, files, dying>>, chosen' \in Engines,
         revived' \in BOOLEAN, (\E cmd \in Holds \cup {"warm"} : Sends(cmd)) \/ Quiet
  PROVE  ChannelBits' /\ EngineBits' /\ StreamBits' /\ ThreadReads'
  <1>1. CASE Quiet
    BY <1>1, ThreadRests DEF Quiet, ChannelBits, EngineBits, StreamBits
  <1>2. CASE \E cmd \in Holds \cup {"warm"} : Sends(cmd)
    <2>1. PICK cmd \in Holds \cup {"warm"} : Sends(cmd)
      BY <1>2
    <2>2. CASE tx = "open"
      <3>1. queue' = Append(queue, cmd) /\ UNCHANGED <<tx, at, where, task, engine, stream>>
        BY <2>1, <2>2 DEF Sends
      <3>2. queue' \in Seq(Holds \cup {"warm"})
        BY <3>1 DEF ChannelBits
      <3> QED BY <3>1, <3>2, ThreadRests DEF ChannelBits, EngineBits, StreamBits
    <2>3. CASE tx \in {"none", "shut"}
      <3>1. PICK c \in Holds \cup {"warm"} : Spawned(<<c>>)
        BY <2>1, <2>3 DEF Sends
      <3>2. queue' \in Seq(Holds \cup {"warm"})
        BY <3>1 DEF Spawned
      <3> QED BY <3>1, <3>2, ThreadRests, FreshKeepsUp DEF Spawned, ChannelBits, EngineBits, StreamBits
    <2> QED BY <2>2, <2>3 DEF ChannelBits
  <1> QED BY <1>1, <1>2

\* The owner's side: a press, the microphone, a release, a drop.
LEMMA HoldsKeep ==
  ASSUME SpeechInv, NEW n \in Holds, Press(n) \/ MicOpens(n) \/ Release(n) \/ Drops(n)
  PROVE  SpeechInv'
  <1>0. SpeechParts /\ ThreadReads /\ AnswersFit
    BY SpeechSplit
  <1>1. UNCHANGED <<chosen, files, dying, said, answer, upsets>>
    BY DEF Press, MicOpens, Release, Drops, ownerVars
  <1>2. PICK x \in {"pressed", "device", "synth", "asked", "audio", "dropped"} :
          hold' = [hold EXCEPT ![n] = x] /\ hold[n] \in {"none", "pressed", "synth", "device"}
    <2>1. CASE Press(n)
      BY <2>1 DEF Press
    <2>2. CASE MicOpens(n)
      BY <2>2 DEF MicOpens
    <2>3. CASE Release(n) \/ Drops(n)
      BY <2>3 DEF Release, Drops
    <2> QED BY <2>1, <2>2, <2>3
  <1>3. HoldBits' /\ \A k \in Holds : hold'[k] = hold[k] \/ (hold'[k] \notin {"text", "silent"} /\ hold[k] \notin Closed)
    <2>1. HoldBits' /\ hold'[n] = x /\ \A k \in Holds \ {n} : hold'[k] = hold[k]
      BY <1>0, <1>2, HoldMoves DEF SpeechParts
    <2> QED BY <1>2, <2>1 DEF Closed
  <1>4. AnswersFit'
    BY <1>0, <1>1, <1>3, AnswersRest
  <1>5. /\ revived' \in BOOLEAN
        /\ (\E cmd \in Holds \cup {"warm"} : Sends(cmd)) \/ Quiet
    <2>1. CASE Press(n)
      BY <1>0, <2>1 DEF Press, SpeechParts, EngineBits, Found
    <2>2. CASE MicOpens(n)
      BY <1>0, <2>2 DEF MicOpens, SpeechParts, EngineBits
    <2>3. CASE Release(n) \/ Drops(n)
      BY <1>0, <2>3 DEF Release, Drops, Quiet, threadVars, SpeechParts, EngineBits
    <2> QED BY <2>1, <2>2, <2>3
  <1>6. ChannelBits' /\ EngineBits' /\ StreamBits' /\ ThreadReads'
    BY <1>0, <1>1, <1>5, CommandSent DEF SpeechParts, EngineBits
  <1>7. SaidBits' /\ AnswerBits' /\ UpsetBits'
    BY <1>0, <1>1 DEF SpeechParts, SaidBits, AnswerBits, UpsetBits
  <1> QED BY <1>3, <1>4, <1>6, <1>7, SpeechJoins DEF SpeechParts

\* What a step that leaves the thread alone leaves to be checked.
LEMMA ThreadUntouched ==
  ASSUME SpeechParts, UNCHANGED <<chosen, files, tx, queue, at, task, engine, where, dying, revived, stream, upsets>>
  PROVE  ChannelBits' /\ EngineBits' /\ StreamBits' /\ UpsetBits'
  BY DEF SpeechParts, ChannelBits, EngineBits, StreamBits, UpsetBits

\* The owner speaks: a hold that has no answer, and what was read of it stays read.
LEMMA SpeakingKeeps ==
  ASSUME SpeechInv, NEW n \in Holds, Speaks(n)
  PROVE  SpeechInv'
  <1>0. SpeechParts /\ ThreadReads /\ AnswersFit
    BY SpeechSplit
  <1>1. PICK u \in {"w", "q"} : said' = [said EXCEPT ![n] = Append(@, u)]
    BY DEF Speaks
  <1>2. /\ UNCHANGED <<chosen, files, tx, queue, at, task, engine, where, dying, revived, stream, hold, answer, upsets>>
        /\ hold[n] = "device"
    BY DEF Speaks, ownerVars, threadVars
  <1>3. ChannelBits' /\ EngineBits' /\ StreamBits' /\ UpsetBits'
    BY <1>0, <1>2, ThreadUntouched
  <1>4. HoldBits' /\ AnswerBits'
    BY <1>0, <1>2 DEF SpeechParts, HoldBits, AnswerBits
  <1>5. said[n] \in Recordings /\ Append(said[n], u) \in Seq({"w", "q"}) /\ Len(Append(said[n], u)) = Len(said[n]) + 1
    BY <1>0 DEF SpeechParts, SaidBits, Recordings
  <1>6. Len(said[n]) \in Nat /\ Len(said[n]) < MaxAudio
    <2>1. Len(said[n]) \in Nat
      BY <1>5 DEF Recordings
    <2>2. Len(said[n]) < (IF Alone(n) THEN MaxAudio ELSE 1)
      BY DEF Speaks
    <2> QED BY <2>1, <2>2, AudioAssumption
  <1>7. Append(said[n], u) \in Recordings
    BY <1>5, <1>6, AudioAssumption DEF Recordings
  <1>8. said'[n] = Append(said[n], u) /\ \A k \in Holds \ {n} : said'[k] = said[k]
    BY <1>0, <1>1 DEF SpeechParts, SaidBits
  <1>9. SaidBits'
    BY <1>0, <1>1, <1>7 DEF SpeechParts, SaidBits
  <1>10. AnswersFit'
    <2>1. answer'[n] = NoAnswer /\ SaysAll(said'[n], NoAnswer)
      BY <1>0, <1>2 DEF AnswersFit, Closed, NoAnswer, SaysAll
    <2> SUFFICES ASSUME NEW k \in Holds
                 PROVE  /\ hold'[k] \notin Closed => answer'[k] = NoAnswer
                        /\ SaysAll(said'[k], answer'[k])
                        /\ hold'[k] = "text" => answer'[k].is = "text"
                        /\ hold'[k] = "silent" => answer'[k].is = "Silence"
      BY DEF AnswersFit
    <2>2. CASE k = n
      BY <1>0, <1>2, <2>1, <2>2
    <2>3. CASE k # n
      BY <1>0, <1>2, <1>8, <2>3 DEF AnswersFit
    <2> QED BY <2>2, <2>3
  <1>11. ThreadReads'
    <2>1. CASE at = "run"
      <3>1. task \in Holds /\ KeepsUp(said[task], stream) /\ said[task] \in Recordings /\ stream \in Streams
        BY <1>0, <2>1 DEF ThreadReads, SpeechParts, SaidBits, StreamBits
      <3>2. KeepsUp(said'[task], stream)
        BY <1>5, <1>8, <3>1, SaidMore
      <3> QED BY <1>2, <2>1, <3>1, <3>2 DEF ThreadReads
    <2>2. CASE at # "run"
      BY <1>0, <1>2, <2>2 DEF ThreadReads
    <2> QED BY <2>1, <2>2
  <1> QED BY <1>3, <1>4, <1>9, <1>10, <1>11, SpeechJoins DEF SpeechParts

\* A hold that was asked for is answered.
LEMMA Answered ==
  ASSUME SpeechParts, AnswersFit, UNCHANGED said, NEW n \in Holds, NEW a \in [is : Answers, text : Seq(Pieces)],
         SaysAll(said[n], a), hold' = [hold EXCEPT ![n] = "answered"],
         answer' = [answer EXCEPT ![n] = a]
  PROVE  HoldBits' /\ AnswerBits' /\ AnswersFit'
  <1>1. HoldBits' /\ hold'[n] = "answered" /\ \A k \in Holds \ {n} : hold'[k] = hold[k]
    BY HoldMoves DEF SpeechParts
  <1>2. AnswerBits' /\ answer'[n] = a /\ \A k \in Holds \ {n} : answer'[k] = answer[k]
    BY DEF SpeechParts, AnswerBits
  <1>3. AnswersFit'
    <2> SUFFICES ASSUME NEW k \in Holds
                 PROVE  /\ hold'[k] \notin Closed => answer'[k] = NoAnswer
                        /\ SaysAll(said'[k], answer'[k])
                        /\ hold'[k] = "text" => answer'[k].is = "text"
                        /\ hold'[k] = "silent" => answer'[k].is = "Silence"
      BY DEF AnswersFit
    <2>1. CASE k = n
      BY <1>1, <1>2, <2>1 DEF Closed
    <2>2. CASE k # n
      BY <1>1, <1>2, <2>2 DEF AnswersFit
    <2> QED BY <2>1, <2>2
  <1> QED BY <1>1, <1>2, <1>3

\* ... with a reason and no text.
LEMMA Excused ==
  ASSUME SpeechParts, AnswersFit, NEW n \in Holds, NEW why \in {"failed", "late"}, answer' = [answer EXCEPT ![n].is = why]
  PROVE  \E a \in [is : Answers, text : Seq(Pieces)] : SaysAll(said[n], a) /\ answer' = [answer EXCEPT ![n] = a]
  <1> DEFINE a == [answer[n] EXCEPT !.is = why]
  <1>1. answer[n] \in [is : Answers, text : Seq(Pieces)]
    BY DEF SpeechParts, AnswerBits
  <1>2. a \in [is : Answers, text : Seq(Pieces)] /\ a.is = why
    BY <1>1 DEF Answers
  <1>3. answer' = [answer EXCEPT ![n] = a]
    OBVIOUS
  <1>4. SaysAll(said[n], a)
    BY <1>2 DEF SaysAll
  <1> QED BY <1>2, <1>3, <1>4

\* The release has its answer, or goes without: the thread lost, the wait over, the decision.
LEMMA ReleaseKeeps ==
  ASSUME SpeechInv, NEW n \in Holds, ReleaseStep(n)
  PROVE  SpeechInv'
  <1>0. SpeechParts /\ ThreadReads /\ AnswersFit
    BY SpeechSplit
  <1>1. UNCHANGED <<chosen, files, tx, queue, at, task, engine, where, dying, revived, stream, upsets, said>>
    BY DEF ReleaseStep, AnswerLost, TimesOut, Decides, ownerVars, threadVars
  <1>2. ChannelBits' /\ EngineBits' /\ StreamBits' /\ UpsetBits' /\ SaidBits' /\ ThreadReads'
    BY <1>0, <1>1, ThreadUntouched, ThreadRests DEF SpeechParts, SaidBits
  <1>3. CASE AnswerLost(n) \/ TimesOut(n)
    <2>1. PICK why \in {"failed", "late"} : answer' = [answer EXCEPT ![n].is = why]
      BY <1>3 DEF AnswerLost, TimesOut
    <2>2. hold' = [hold EXCEPT ![n] = "answered"]
      BY <1>3 DEF AnswerLost, TimesOut
    <2>3. HoldBits' /\ AnswerBits' /\ AnswersFit'
      <3>1. PICK a \in [is : Answers, text : Seq(Pieces)] : SaysAll(said[n], a) /\ answer' = [answer EXCEPT ![n] = a]
        BY <1>0, <2>1, Excused
      <3> QED BY <1>0, <1>1, <2>2, <3>1, Answered
    <2> QED BY <1>2, <2>3, SpeechJoins DEF SpeechParts
  <1>4. CASE Decides(n)
    <2>1. UNCHANGED answer /\ hold[n] = "answered"
      BY <1>4 DEF Decides
    <2>2. PICK x \in {"text", "silent", "audio"} :
             hold' = [hold EXCEPT ![n] = x] /\ (x = "text" => answer[n].is = "text") /\ (x = "silent" => answer[n].is = "Silence")
      <3>1. CASE answer[n].is = "text"
        BY <1>4, <3>1 DEF Decides
      <3>2. CASE answer[n].is # "text" /\ MayBeSilent(n)
        BY <1>4, <3>2 DEF Decides, MayBeSilent
      <3>3. CASE answer[n].is # "text" /\ ~MayBeSilent(n)
        BY <1>4, <3>3 DEF Decides
      <3> QED BY <3>1, <3>2, <3>3
    <2>3. HoldBits' /\ hold'[n] = x /\ \A k \in Holds \ {n} : hold'[k] = hold[k]
      BY <1>0, <2>2, HoldMoves DEF SpeechParts
    <2>4. AnswerBits'
      BY <1>0, <2>1 DEF SpeechParts, AnswerBits
    <2>5. AnswersFit'
      BY <1>0, <1>1, <2>1, <2>2, <2>3 DEF AnswersFit, Closed
    <2> QED BY <1>2, <2>3, <2>4, <2>5, SpeechJoins DEF SpeechParts
  <1> QED BY <1>3, <1>4 DEF ReleaseStep

\* The thread takes a command, loads, is warmed, unloads or panics: no hold moves.
LEMMA ThreadMovesKeep ==
  ASSUME SpeechInv, Takes \/ Loads \/ Unloads \/ Panics \/ SaysGone
  PROVE  SpeechInv'
  <1>0. SpeechParts /\ ThreadReads /\ AnswersFit
    BY SpeechSplit
  <1>1. UNCHANGED <<chosen, files, hold, said, answer, revived>>
    BY DEF Takes, Loads, Unloads, Panics, SaysGone, ownerVars, threadVars
  <1>2. HoldBits' /\ SaidBits' /\ AnswerBits'
    BY <1>0, <1>1 DEF SpeechParts, HoldBits, SaidBits, AnswerBits
  <1>3. AnswersFit'
    BY <1>0, <1>1, AnswersRest
  <1>4. UpsetBits'
    BY <1>0, UpsetsAssumption DEF Takes, Loads, Unloads, Panics, SaysGone, Upsets, SpeechParts, UpsetBits
  <1>5. ASSUME ChannelBits', EngineBits', StreamBits', ThreadReads' PROVE SpeechInv'
    BY <1>2, <1>3, <1>4, <1>5, SpeechJoins DEF SpeechParts
  <1>6. CASE Takes
    <2> DEFINE cmd == Head(queue)
               kept == engine = chosen /\ chosen \in files
    <2>1. queue \in Seq(Holds \cup {"warm"}) /\ queue # <<>>
      BY <1>0, <1>6 DEF Takes, SpeechParts, ChannelBits
    <2>2. cmd \in Holds \cup {"warm"} /\ queue' \in Seq(Holds \cup {"warm"})
      BY <1>6, <2>1 DEF Takes
    <2>3. /\ engine' = IF chosen \in files THEN chosen ELSE Nothing
          /\ at' = IF chosen \in files /\ ~kept THEN "load"
                   ELSE IF cmd = "warm" THEN "idle" ELSE IF kept THEN "run" ELSE "refuse"
          /\ task' = IF at' = "idle" THEN Nothing ELSE cmd
          /\ where' = IF kept THEN where ELSE IF chosen \in files THEN "loading" ELSE "unloaded"
          /\ stream' = Fresh /\ UNCHANGED <<tx, dying>>
      BY <1>6 DEF Takes
    <2> HIDE DEF cmd, kept
    <2>4. at' \in {"load", "idle", "run", "refuse"} /\ (at' \in {"run", "refuse"} => cmd # "warm")
      BY <2>3
    <2>5. task' \in Holds \cup {"warm", Nothing} /\ (at' # "idle" => task' = cmd)
      BY <2>2, <2>3
    <2>6. ChannelBits'
      BY <1>0, <2>2, <2>3, <2>4, <2>5 DEF SpeechParts, ChannelBits
    <2>7. EngineBits'
      BY <1>0, <1>1, <2>3 DEF SpeechParts, EngineBits
    <2>8. StreamBits'
      BY <2>3, FreshKeepsUp DEF StreamBits
    <2>9. ThreadReads'
      <3>1. at' = "load" => task' \in Holds \cup {"warm"}
        BY <2>2, <2>5
      <3>2. at' \in {"run", "refuse"} => task' \in Holds
        BY <2>2, <2>4, <2>5
      <3>3. at' = "run" => said'[task'] \in Recordings
        BY <1>2, <3>2 DEF SaidBits
      <3> QED BY <2>3, <3>1, <3>2, <3>3, FreshKeepsUp DEF ThreadReads
    <2> QED BY <1>5, <2>6, <2>7, <2>8, <2>9
  <1>7. CASE Loads
    <2>1. at = "load" /\ task \in Holds \cup {"warm"} /\ stream = Fresh
      BY <1>0, <1>7 DEF Loads, ThreadReads
    <2>2. /\ where' \in {"ready", "failed"} /\ engine' \in {engine, Nothing}
          /\ at' = IF task = "warm" THEN "idle" ELSE IF engine' = Nothing THEN "refuse" ELSE "run"
          /\ task' = IF task = "warm" THEN Nothing ELSE task
          /\ UNCHANGED <<tx, queue, stream, dying>>
      BY <1>7 DEF Loads
    <2>3. ChannelBits'
      BY <1>0, <2>1, <2>2 DEF SpeechParts, ChannelBits
    <2>4. EngineBits'
      BY <1>0, <1>1, <2>2 DEF SpeechParts, EngineBits
    <2>5. StreamBits'
      BY <1>0, <2>2 DEF SpeechParts, StreamBits
    <2>6. ThreadReads'
      <3>1. at' \in {"idle", "refuse", "run"} /\ (at' # "idle" => task' \in Holds)
        BY <2>1, <2>2
      <3>2. at' = "run" => said'[task'] \in Recordings
        BY <1>2, <3>1 DEF SaidBits
      <3> QED BY <2>1, <2>2, <3>1, <3>2, FreshKeepsUp DEF ThreadReads
    <2> QED BY <1>5, <2>3, <2>4, <2>5, <2>6
  <1>8. CASE Unloads
    <2>1. ChannelBits' /\ EngineBits' /\ StreamBits'
      BY <1>0, <1>8 DEF Unloads, ownerVars, SpeechParts, ChannelBits, EngineBits, StreamBits
    <2>2. ThreadReads'
      BY <1>0, <1>8, ThreadRests DEF Unloads
    <2> QED BY <1>5, <2>1, <2>2
  <1>9. CASE Panics
    <2>1. ChannelBits'
      BY <1>9 DEF Panics, ChannelBits
    <2>2. EngineBits'
      BY <1>0, <1>9 DEF Panics, ownerVars, SpeechParts, EngineBits
    <2>3. StreamBits' /\ ThreadReads'
      BY <1>0, <1>9, FreshKeepsUp, ThreadRests DEF Panics, StreamBits
    <2> QED BY <1>5, <2>1, <2>2, <2>3
  <1>10. CASE SaysGone
    <2>1. ChannelBits' /\ EngineBits' /\ StreamBits' /\ ThreadReads'
      BY <1>0, <1>10, ThreadRests DEF SaysGone, ownerVars, threadVars, SpeechParts, ChannelBits, EngineBits, StreamBits
    <2> QED BY <1>5, <2>1
  <1> QED BY <1>6, <1>7, <1>8, <1>9, <1>10

\* The thread has a look at what was said since, and has read all of it or is broken.
LEMMA StepsKeep ==
  ASSUME SpeechInv, Steps
  PROVE  SpeechInv'
  <1>0. SpeechParts /\ ThreadReads /\ AnswersFit
    BY SpeechSplit
  <1>1. UNCHANGED <<chosen, files, queue, at, task, engine, tx, where, dying, revived, hold, said, answer, upsets>> /\ at = "run"
    BY DEF Steps, ownerVars
  <1>2. ChannelBits' /\ EngineBits' /\ HoldBits' /\ SaidBits' /\ AnswerBits' /\ UpsetBits'
    BY <1>0, <1>1 DEF SpeechParts, ChannelBits, EngineBits, HoldBits, SaidBits, AnswerBits, UpsetBits
  <1>3. AnswersFit'
    BY <1>0, <1>1, AnswersRest
  <1>4. task \in Holds /\ said[task] \in Recordings /\ stream \in Streams /\ KeepsUp(said[task], stream)
    BY <1>0, <1>1 DEF ThreadReads, SpeechParts, SaidBits, StreamBits
  <1> DEFINE heard == [stream EXCEPT !.len = Len(said[task])]
             off == [heard EXCEPT !.broken = TRUE]
  <1>5. heard \in Streams /\ off \in Streams
    <2>1. Len(said[task]) \in Positions
      BY <1>4, AudioAssumption DEF Recordings, Positions
    <2>2. heard \in Streams
      BY <1>4, <2>1 DEF Streams
    <2> HIDE DEF heard
    <2> QED BY <2>2 DEF Streams
  <1>6. KeepsUp(said[task], heard) /\ KeepsUp(said[task], off)
    <2>1. /\ heard.at = stream.at /\ heard.text = stream.text /\ heard.preview = stream.preview /\ heard.len = Len(said[task])
      BY <1>4 DEF Streams
    <2>2. /\ off.at = heard.at /\ off.text = heard.text /\ off.preview = heard.preview /\ off.len = heard.len
      BY <1>4, <1>5 DEF Streams
    <2>3. stream.len \in Nat /\ Len(said[task]) \in Nat /\ stream.at \in Nat /\ stream.preview[2] \in Nat
      BY <1>4 DEF Streams, Positions, Pieces, Recordings
    <2>4. KeepsUp(said[task], heard)
      <3> HIDE DEF heard, off
      <3> QED BY <1>4, <2>1, <2>3 DEF KeepsUp
    <2> HIDE DEF heard, off
    <2> QED BY <2>2, <2>4 DEF KeepsUp
  <1>7. stream' = off \/ stream' = Previewed(task, Committed(task, heard))
    BY DEF Steps
  <1> HIDE DEF heard, off
  <1>8. stream' \in Streams /\ KeepsUp(said[task], stream')
    BY <1>4, <1>5, <1>6, <1>7, CommittedKeepsUp, PreviewedKeepsUp
  <1>9. StreamBits' /\ ThreadReads'
    BY <1>1, <1>4, <1>8 DEF StreamBits, ThreadReads
  <1> QED BY <1>2, <1>3, <1>9, SpeechJoins DEF SpeechParts

\* The thread answers, with what it read or without.
LEMMA ThreadAnswersKeep ==
  ASSUME SpeechInv, Refuses \/ Finishes
  PROVE  SpeechInv'
  <1>0. SpeechParts /\ ThreadReads /\ AnswersFit
    BY SpeechSplit
  <1>1. UNCHANGED <<chosen, files, queue, engine, tx, where, dying, revived, said, upsets>> /\ task \in Holds
        /\ at' = "idle" /\ task' = Nothing /\ stream' = Fresh
    BY <1>0 DEF Refuses, Finishes, Done, ownerVars, ThreadReads
  <1>2. ChannelBits' /\ EngineBits' /\ SaidBits' /\ UpsetBits'
    BY <1>0, <1>1 DEF SpeechParts, ChannelBits, EngineBits, SaidBits, UpsetBits
  <1>3. StreamBits' /\ ThreadReads'
    BY <1>0, <1>1, FreshKeepsUp, ThreadRests DEF StreamBits
  <1>4. ASSUME HoldBits', AnswerBits', AnswersFit' PROVE SpeechInv'
    BY <1>2, <1>3, <1>4, SpeechJoins DEF SpeechParts
  <1>5. CASE hold[task] # "asked"
    <2>1. UNCHANGED <<hold, answer>>
      BY <1>5 DEF Refuses, Finishes
    <2>2. HoldBits' /\ AnswerBits'
      BY <1>0, <2>1 DEF SpeechParts, HoldBits, AnswerBits
    <2>3. AnswersFit'
      BY <1>0, <1>1, <2>1, AnswersRest
    <2> QED BY <1>4, <2>2, <2>3
  <1>6. CASE hold[task] = "asked"
    <2>1. hold' = [hold EXCEPT ![task] = "answered"]
      BY <1>6 DEF Refuses, Finishes
    <2>2. PICK a \in [is : Answers, text : Seq(Pieces)] : SaysAll(said[task], a) /\ answer' = [answer EXCEPT ![task] = a]
      <3>1. CASE Refuses
        <4>1. answer' = [answer EXCEPT ![task].is = "failed"]
          BY <1>6, <3>1 DEF Refuses
        <4> QED BY <1>0, <1>1, <4>1, Excused
      <3>2. CASE Finishes
        <4>1. PICK a \in Heard(task) : answer' = [answer EXCEPT ![task] = a]
          BY <1>6, <3>2 DEF Finishes
        <4>2. said[task] \in Recordings /\ stream \in Streams /\ KeepsUp(said[task], stream)
          BY <1>0, <1>1, <3>2 DEF Finishes, ThreadReads, SpeechParts, SaidBits, StreamBits
        <4> DEFINE text == Finished(task, stream)
        <4>3. /\ text \in Seq(Pieces) /\ InOrder(text, Len(said[task])) /\ NoHalves(said[task], text)
              /\ HasAll(said[task], text, Len(said[task]))
          BY <1>1, <4>2, FinishedSaysAll
        <4>4. \/ a.is \in {"failed", "NotRun"} /\ a = [is |-> a.is, text |-> <<>>]
              \/ a = [is |-> "text", text |-> text]
              \/ a = [is |-> "Silence", text |-> <<>>] /\ text = <<>>
          BY <4>1 DEF Heard
        <4> HIDE DEF text
        <4>5. a \in [is : Answers, text : Seq(Pieces)]
          <5> DEFINE none == <<>>
          <5>1. none \in Seq(Pieces)
            OBVIOUS
          <5>2. \/ a = [is |-> "failed", text |-> none] \/ a = [is |-> "NotRun", text |-> none]
                \/ a = [is |-> "text", text |-> text] \/ a = [is |-> "Silence", text |-> none]
            BY <4>4
          <5> HIDE DEF none
          <5> QED BY <4>3, <5>1, <5>2 DEF Answers
        <4>6. SaysAll(said[task], a)
          <5>1. CASE a.is \in {"failed", "NotRun"}
            BY <5>1 DEF SaysAll
          <5>2. CASE a = [is |-> "text", text |-> text]
            BY <4>3, <5>2 DEF SaysAll
          <5>3. CASE a = [is |-> "Silence", text |-> <<>>] /\ text = <<>>
            <6>1. \A i \in 1 .. Len(said[task]) : said[task][i] # "w"
              BY <4>3, <5>3 DEF HasAll
            <6> QED BY <5>3, <6>1 DEF SaysAll
          <5> QED BY <4>4, <5>1, <5>2, <5>3
        <4> QED BY <4>1, <4>5, <4>6
      <3> QED BY <3>1, <3>2
    <2>3. HoldBits' /\ AnswerBits' /\ AnswersFit'
      BY <1>0, <1>1, <2>1, <2>2, Answered
    <2> QED BY <1>4, <2>3
  <1> QED BY <1>5, <1>6

\* The owner chooses an engine, or its files come and go.
LEMMA ChoicesKeep ==
  ASSUME SpeechInv, NEW e \in Engines, Chooses(e) \/ FilesChange(e)
  PROVE  SpeechInv'
  <1>0. SpeechParts /\ ThreadReads /\ AnswersFit
    BY SpeechSplit
  <1>1. UNCHANGED <<hold, said, answer, dying>>
    BY DEF Chooses, FilesChange
  <1>2. HoldBits' /\ SaidBits' /\ AnswerBits'
    BY <1>0, <1>1 DEF SpeechParts, HoldBits, SaidBits, AnswerBits
  <1>3. AnswersFit'
    BY <1>0, <1>1, AnswersRest
  <1>4. UpsetBits'
    BY <1>0, UpsetsAssumption DEF Chooses, FilesChange, Upsets, SpeechParts, UpsetBits
  <1>5. ChannelBits' /\ EngineBits' /\ StreamBits' /\ ThreadReads'
    <2>1. CASE Chooses(e)
      <3>1. chosen' = e /\ UNCHANGED files /\ revived' \in BOOLEAN /\ (Sends("warm") \/ Quiet)
        BY <1>0, <2>1 DEF Chooses, Found, SpeechParts, EngineBits
      <3> QED BY <1>0, <1>1, <3>1, CommandSent DEF SpeechParts
    <2>2. CASE FilesChange(e)
      <3>1. UNCHANGED <<chosen, threadVars, tx, where, dying, revived, said>> /\ files' \subseteq Engines
        BY <1>0, <1>1, <2>2 DEF FilesChange, SpeechParts, EngineBits
      <3>2. ChannelBits' /\ StreamBits' /\ ThreadReads'
        BY <1>0, <3>1, ThreadRests DEF threadVars, SpeechParts, ChannelBits, StreamBits
      <3>3. EngineBits'
        BY <1>0, <3>1 DEF threadVars, SpeechParts, EngineBits
      <3> QED BY <3>2, <3>3
    <2> QED BY <2>1, <2>2
  <1> QED BY <1>2, <1>3, <1>4, <1>5, SpeechJoins DEF SpeechParts

\* The state the app starts in.
LEMMA SpeechStart ==
  ASSUME SpeechInit PROVE SpeechInv
  <1> USE AudioAssumption, UpsetsAssumption
  <1>1. <<>> \in Recordings /\ NoAnswer \in [is : Answers, text : Seq(Pieces)] /\ NoAnswer.is = "none"
    BY DEF Recordings, NoAnswer, Answers
  <1>2. SaidBits /\ AnswerBits /\ \A n \in Holds : answer[n] = NoAnswer
    BY <1>1 DEF SpeechInit, SaidBits, AnswerBits
  <1>3. ChannelBits /\ EngineBits
    <2>1. <<>> \in Seq(Holds \cup {"warm"})
      OBVIOUS
    <2>2. ChannelBits
      BY <2>1 DEF SpeechInit, ChannelBits
    <2>3. EngineBits
      BY DEF SpeechInit, EngineBits
    <2> QED BY <2>2, <2>3
  <1>4. HoldBits /\ \A n \in Holds : hold[n] = "none"
    BY DEF SpeechInit, HoldBits
  <1>5. StreamBits /\ ThreadReads
    BY FreshKeepsUp DEF SpeechInit, StreamBits, ThreadReads
  <1>6. UpsetBits
    BY DEF SpeechInit, UpsetBits
  <1>7. AnswersFit
    BY <1>1, <1>2, <1>4 DEF AnswersFit, SaysAll
  <1>8. \A n \in Holds : said[n] \in Seq({"w", "q"}) /\ Len(said[n]) <= MaxAudio
    BY <1>2 DEF SaidBits, Recordings
  <1>9. \A n \in Holds : answer[n].is \in Answers /\ answer[n].text \in Seq(Pieces)
    BY <1>2 DEF AnswerBits
  <1> QED BY <1>2, <1>3, <1>4, <1>5, <1>6, <1>7, <1>8, <1>9
          DEF SpeechInv, SpeechTypeOK, ChannelBits, EngineBits, HoldBits, SaidBits, AnswerBits, StreamBits, Streams, UpsetBits

\* Every step of a hold keeps the invariant.
LEMMA SpeechSteps ==
  ASSUME SpeechInv, SpeechNext
  PROVE  SpeechInv'
  <1>1. ASSUME NEW n \in Holds, Press(n) \/ MicOpens(n) \/ Speaks(n) \/ Release(n) \/ Drops(n) \/ ReleaseStep(n)
        PROVE  SpeechInv'
    BY <1>1, HoldsKeep, SpeakingKeeps, ReleaseKeeps
  <1>2. ASSUME NEW e \in Engines, Chooses(e) \/ FilesChange(e) PROVE SpeechInv'
    BY <1>2, ChoicesKeep
  <1>3. CASE ThreadStep
    BY <1>3, ThreadMovesKeep, StepsKeep, ThreadAnswersKeep DEF ThreadStep
  <1>4. CASE Unloads \/ Panics \/ SaysGone
    BY <1>4, ThreadMovesKeep
  <1> QED BY <1>1, <1>2, <1>3, <1>4 DEF SpeechNext

\* Steps of the other parts leave it alone.
LEMMA SpeechRest ==
  ASSUME SpeechInv, UNCHANGED speechVars
  PROVE  SpeechInv'
  <1>1. UNCHANGED <<chosen, files, tx, queue, at, task, engine, where, dying, revived, hold, said, answer, stream, upsets>>
    BY DEF speechVars
  <1>2. SpeechParts' /\ ThreadReads' /\ AnswersFit'
    BY <1>1, SpeechSplit, ThreadRests, AnswersRest
       DEF SpeechParts, ChannelBits, EngineBits, HoldBits, SaidBits, AnswerBits, StreamBits, UpsetBits
  <1> QED BY <1>2, SpeechJoins

\* What the invariant says of a hold.
LEMMA SpeechMeans ==
  ASSUME SpeechInv
  PROVE  SpeechTypeOK /\ TextIsWhole /\ NeverLost
  <1>1. NeverLost
    BY DEF SpeechInv, AnswersFit, SaysAll, NeverLost, Spoken
  <1>2. TextIsWhole
    <2> SUFFICES ASSUME NEW n \in Holds, hold[n] = "text"
                 PROVE  LET text == answer[n].text
                            In(i) == {k \in 1 .. Len(text) : text[k][1] < i /\ i <= text[k][2]}
                            W == Spoken(n, 0, Len(said[n]))
                        IN /\ \A i \in W : Cardinality(In(i)) = 1
                           /\ \A i \in W : i + 1 \in W => In(i) = In(i + 1)
                           /\ \A k \in 1 .. Len(text) - 1 : text[k][2] <= text[k + 1][1]
      BY DEF TextIsWhole
    <2> DEFINE text == answer[n].text
               r == said[n]
               In(i) == {k \in 1 .. Len(text) : text[k][1] < i /\ i <= text[k][2]}
               W == Spoken(n, 0, Len(r))
    <2>1. text \in Seq(Pieces) /\ r \in Recordings
      BY DEF SpeechInv
    <2>2. InOrder(text, Len(r)) /\ NoHalves(r, text) /\ HasAll(r, text, Len(r))
      BY DEF SpeechInv, AnswersFit, SaysAll
    <2>3. /\ Len(text) \in Nat /\ Len(r) \in Nat
          /\ \A k \in 1 .. Len(text) : text[k][1] \in Nat /\ text[k][2] \in Nat
      BY SMTT(30), <2>1 DEF Pieces, Positions, Recordings
    <2>4. \A i \in W : i \in 1 .. Len(r) /\ r[i] = "w"
      BY <2>3 DEF Spoken
    <2> HIDE DEF text, W, r
    <2>5. \A i \in W : Cardinality(In(i)) = 1
      <3> TAKE i \in W
      <3>1. PICK k \in 1 .. Len(text) : text[k][1] < i /\ i <= text[k][2]
        BY <2>2, <2>4 DEF HasAll
      <3>2. \A j \in 1 .. Len(text) : text[j][1] < i /\ i <= text[j][2] => j = k
        <4> SUFFICES ASSUME NEW j \in 1 .. Len(text), text[j][1] < i, i <= text[j][2], j # k PROVE FALSE
          OBVIOUS
        <4>1. CASE j < k
          <5>1. text[j][2] <= text[k][1]
            BY <2>2, <2>3, <4>1 DEF InOrder
          <5> QED BY <2>3, <2>4, <3>1, <5>1
        <4>2. CASE k < j
          <5>1. text[k][2] <= text[j][1]
            BY <2>2, <2>3, <4>2 DEF InOrder
          <5> QED BY <2>3, <2>4, <3>1, <5>1
        <4> QED BY <2>3, <4>1, <4>2
      <3>3. In(i) = {k}
        BY <3>1, <3>2
      <3> QED BY <3>3, FS_Singleton
    <2>6. \A i \in W : i + 1 \in W => In(i) = In(i + 1)
      <3> SUFFICES ASSUME NEW i \in W, i + 1 \in W, NEW k \in 1 .. Len(text)
                   PROVE  (text[k][1] < i /\ i <= text[k][2]) <=> (text[k][1] < i + 1 /\ i + 1 <= text[k][2])
        OBVIOUS
      <3>1. i \in 1 .. Len(r) - 1 /\ r[i] = "w" /\ r[i + 1] = "w"
        BY <2>3, <2>4
      <3>2. text[k][1] # i /\ text[k][2] # i
        BY <2>2, <3>1 DEF NoHalves
      <3> QED BY <2>3, <3>1, <3>2
    <2>7. \A k \in 1 .. Len(text) - 1 : text[k][2] <= text[k + 1][1]
      <3> TAKE k \in 1 .. Len(text) - 1
      <3>1. k + 1 \in 1 .. Len(text) /\ k \in 1 .. (k + 1) - 1
        BY <2>3
      <3> QED BY <2>2, <3>1 DEF InOrder
    <2> QED BY <2>5, <2>6, <2>7 DEF text, W, r
  <1> QED BY <1>1, <1>2 DEF SpeechInv

-----------------------------------------------------------------------------
(* The parts together: a step of one leaves the variables of the others.   *)

InstallsInv == ModelsInv /\ DriverInv /\ UpdatesInv /\ SpeechInv

\* Every part starts in its invariant.
LEMMA InstallsStart == Init => InstallsInv
  BY ModelsStart, DriverStart, UpdatesStart, SpeechStart DEF Init, InstallsInv
\* Whichever part moves, the invariant of each holds after it.
LEMMA InstallsSteps == ASSUME InstallsInv, [Next]_vars PROVE InstallsInv'
  <1>1. CASE ModelsMove
    BY <1>1, ModelsSteps, DriverSteps, UpdatesRest, SpeechRest DEF InstallsInv, ModelsMove
  <1>2. CASE DriverMoves
    BY <1>2, ModelsRest, DriverSteps, UpdatesRest, SpeechRest DEF InstallsInv, DriverMoves
  <1>3. CASE UpdatesMove
    BY <1>3, ModelsRest, DriverSteps, UpdatesSteps, SpeechRest DEF InstallsInv, UpdatesMove
  <1>4. CASE SpeechMoves
    BY <1>4, ModelsRest, DriverSteps, UpdatesRest, SpeechSteps DEF InstallsInv, SpeechMoves
  <1>5. CASE UNCHANGED vars
    BY <1>5, ModelsRest, DriverSteps, UpdatesRest, SpeechRest DEF InstallsInv, vars
  <1> QED BY <1>1, <1>2, <1>3, <1>4, <1>5 DEF Next

\* The invariants hold at every moment of every install and of every hold.
THEOREM InstallsInvariant == Spec => []InstallsInv
  <1>1. InstallsInv /\ [Next]_vars => InstallsInv'
    BY InstallsSteps
  <1> QED BY InstallsStart, <1>1, PTL DEF Spec

\* What counts as there is the pinned thing, whole: the recognizer's files, the
\* driver's copy, the app's bundle, and the text of a hold.
THEOREM PutInPlaceWhole == Spec => []WholeOrAbsent
  <1>1. InstallsInv => WholeOrAbsent
    BY ModelsMean, DriverMeans, UpdatesMean, SpeechMeans DEF InstallsInv, WholeOrAbsent, InstallsTypeOK
  <1> QED BY InstallsInvariant, <1>1, PTL

\* What the owner said stands: a removal, a quit, a pause, a hold with a word in
\* it; and the update window tells what is so.
THEOREM OwnerStaysHeard == Spec => []OwnerIsHeard
  <1>1. InstallsInv => OwnerIsHeard
    BY ModelsMean, DriverMeans, UpdatesMean, SpeechMeans DEF InstallsInv, OwnerIsHeard
  <1> QED BY InstallsInvariant, <1>1, PTL

\* An older driver goes only once the new one is in place (cua_install.rs, switch).
THEOREM OlderDriverGoesLast == Spec => OldUntilNew
  <1>1. InstallsInv /\ [Next]_vars => [old /\ ~old' => pinned' = "good"]_driverVars
    <2> SUFFICES ASSUME InstallsInv, [Next]_vars, old, ~old' PROVE pinned' = "good"
      OBVIOUS
    <2>1. DriverNext \/ UNCHANGED driverVars
      BY DEF Next, ModelsMove, DriverMoves, UpdatesMove, SpeechMoves, vars
    <2> QED BY <2>1, OldGoesLast DEF InstallsInv
  <1> QED BY InstallsInvariant, <1>1, PTL DEF Spec, OldUntilNew
=============================================================================
