---------------------------- MODULE LinksProofs ----------------------------
(***************************************************************************)
(* Proofs about Links: its state is well formed for any number of tokens,  *)
(* a refused token is not dialed again, and the platform is asked for a    *)
(* fresh one once per refusal.                                             *)
(*                                                                         *)
(* The type invariant needs the tokens counted: every slot ever made and   *)
(* every add_link that has a token not yet on a slot was minted a token of *)
(* its own (Counted), so a slot that is pushed still has a number.  That a *)
(* refused token stays undialed needs that the tokens under way are new to *)
(* every loop (FreshIsNew), so that storing one never brings a refused one *)
(* back, and that a loop which has the link's own token refused is in a    *)
(* stage that does not lead to a dial (SlotOk).                            *)
(***************************************************************************)
EXTENDS Links, FiniteSetTheorems, WellFoundedInduction, TLAPS

\* The parts of TypeOK.
SlotsTyped ==
    /\ made \in 0 .. MaxTokens /\ links \subseteq 1 .. made
    /\ source \in [Slots -> Sources]
    /\ stopping \in [Slots -> BOOLEAN] /\ wake \in [Slots -> BOOLEAN]
    /\ running \in [Slots -> BOOLEAN] /\ up \in [Slots -> BOOLEAN]
    /\ unpairReq \in [Slots -> BOOLEAN] /\ unpairAck \in [Slots -> BOOLEAN]

LoopsTyped ==
    /\ loop \in [Slots -> LoopStages] /\ dialed \in [Slots -> 0 .. minted]
    /\ reminted \in [Slots -> BOOLEAN]
    /\ refused \in [Slots -> SUBSET Tokens] /\ asked \in [Slots -> 0 .. 2]

TokensTyped ==
    /\ token \in 0 .. minted /\ stored \in Sources \cup {"none"}
    /\ minted \in 0 .. MaxTokens /\ valid \in 0 .. minted /\ told \in [Slots -> BOOLEAN]
    /\ relink \in BOOLEAN /\ gone \in BOOLEAN

AddTyped == add \in [Adders -> [stage : AddStages, tok : 0 .. minted, src : Sources]]

UnTyped ==
    /\ un \in [Callers -> [stage : UnStages, slot : 0 .. made]]
    /\ \A u \in Callers : un[u].stage # "none" => un[u].slot # 0

AccountTyped ==
    /\ signed \in BOOLEAN /\ skipped \in BOOLEAN /\ snap \in BOOLEAN
    /\ acct \in {"idle", "reading", "snapped", "connecting", "removing", "signing"}

\* A loop dials with a token only.
DialsToken == \A i \in Slots : loop[i] = "dial" => dialed[i] # 0

\* The parts of TypeOK are all of it.
LEMMA LinkTypes == TypeOK <=> SlotsTyped /\ LoopsTyped /\ TokensTyped /\ AddTyped /\ UnTyped /\ AccountTyped
  BY DEF TypeOK, SlotsTyped, LoopsTyped, TokensTyped, AddTyped, UnTyped, AccountTyped

\* A set of numbers that is not empty has a least one.
LEMMA Least == ASSUME NEW S \in SUBSET Nat, S # {} PROVE \E i \in S : \A j \in S : i <= j
  <1> DEFINE R == OpToRel(<, Nat)
  <1>1. IsWellFoundedOn(R, Nat)
    BY NatLessThanWellFounded
  <1>2. \A x, y \in Nat : <<x, y>> \in R <=> x < y
    BY DEF OpToRel
  <1> HIDE DEF R
  <1>3. \E x \in S : \A y \in S : ~ (<<y, x>> \in R)
    BY <1>1, WFMin
  <1>4. PICK x \in S : \A y \in S : ~ (<<y, x>> \in R)
    BY <1>3
  <1>5. ASSUME NEW y \in S PROVE x <= y
    <2>1. x \in Nat /\ y \in Nat
      OBVIOUS
    <2>2. ~ (y < x)
      BY <1>2, <1>4, <2>1
    <2> QED BY <2>1, <2>2
  <1> QED BY <1>4, <1>5

\* The link of the synth is one of the list.
LEMMA SlotListed == ASSUME TypeOK, links # {} PROVE Slot \in links /\ Slot \in Slots
  <1>1. links \in SUBSET Nat /\ links \subseteq Slots
    BY LinksAssumption DEF TypeOK, Slots
  <1>2. \E i \in links : \A j \in links : i <= j
    BY <1>1, Least
  <1> QED BY <1>1, <1>2 DEF Slot

\* The callers of add_link and the slots are numbered apart.
LEMMA Numbers == /\ Slots \subseteq Adders /\ Callers \subseteq Adders /\ Owner \in Callers /\ Account \in Callers
                 /\ Owner \notin Slots /\ Account \notin Slots /\ Owner # Account
  BY LinksAssumption DEF Slots, Adders, Callers, Owner, Account

\* A loop keeps the slots well formed.
LEMMA LoopSlotsStep ==
  ASSUME TypeOK, NEW i \in Slots, Loop(i) \/ Drop(i)
  PROVE  SlotsTyped'
  <1> USE DEF SlotsTyped, Goes
  <1>1. SlotsTyped
    BY LinkTypes
  <1>2. CASE Top(i) \/ WaitEnds(i) \/ Dial(i) \/ HelloAck(i)
    BY <1>1, <1>2 DEF Top, WaitEnds, Dial, HelloAck, slotVars
  <1>3. CASE SendUnpair(i) \/ Leave(i)
    BY <1>1, <1>3 DEF SendUnpair, Leave, slotVars
  <1>4. CASE Refused(i)
    BY <1>1, <1>4 DEF Refused, slotVars
  <1>5. CASE StuckWakes(i)
    BY <1>1, <1>5 DEF StuckWakes, slotVars
  <1>6. CASE UnpairAck(i) \/ Drop(i)
    BY <1>1, <1>6 DEF UnpairAck, Drop, Down, slotVars
  <1> QED BY <1>2, <1>3, <1>4, <1>5, <1>6 DEF Loop

\* A loop keeps its locals well formed, and dials with a token.
LEMMA LoopLoopsStep ==
  ASSUME TypeOK, DialsToken, NEW i \in Slots, Loop(i) \/ Drop(i)
  PROVE  LoopsTyped' /\ DialsToken'
  <1> USE DEF LoopsTyped, Goes, LoopStages, DialsToken
  <1>1. LoopsTyped
    BY LinkTypes
  <1>2. CASE Top(i)
    <2>1. token \in 0 .. minted
      BY LinkTypes DEF TokensTyped
    <2> QED BY <1>1, <1>2, <2>1 DEF Top, synthVars
  <1>3. CASE WaitEnds(i) \/ HelloAck(i) \/ Leave(i)
    BY <1>1, <1>3 DEF WaitEnds, HelloAck, Leave, synthVars
  <1>4. CASE Dial(i)
    <2>1. minted' = minted /\ dialed' = dialed /\ reminted' = reminted /\ asked' = asked
      BY <1>4 DEF Dial, synthVars
    <2>2. loop' \in [Slots -> LoopStages]
      BY <1>1, <1>4 DEF Dial, AfterEnd
    <2>3. refused' \in [Slots -> SUBSET Tokens]
      <3>1. loop[i] = "dial" /\ dialed[i] \in Tokens
        <4>1. loop[i] = "dial" /\ dialed[i] \in 0 .. minted /\ minted \in 0 .. MaxTokens
          BY <1>1, <1>4, LinkTypes DEF TokensTyped, Dial
        <4> QED BY <4>1, LinksAssumption DEF Tokens
      <3> QED BY <1>1, <1>4, <3>1 DEF Dial
    <2>4. DialsToken'
      BY <1>1, <1>4, <2>1, <2>2 DEF Dial, AfterEnd
    <2> QED BY <1>1, <2>1, <2>2, <2>3, <2>4
  <1>5. CASE SendUnpair(i)
    BY <1>1, <1>5 DEF SendUnpair, loopVars
  <1>6. CASE UnpairAck(i) \/ Drop(i)
    <2>1. Down(i) /\ UNCHANGED <<minted, dialed, refused>>
      BY <1>6 DEF UnpairAck, Drop
    <2>2. loop' \in [Slots -> LoopStages] /\ DialsToken'
      BY <1>1, <2>1 DEF Down, AfterEnd
    <2>3. reminted' \in [Slots -> BOOLEAN]
      BY <1>1, <2>1 DEF Down
    <2>4. asked' \in [Slots -> 0 .. 2]
      BY <1>1, <2>1 DEF Down
    <2> QED BY <1>1, <2>1, <2>2, <2>3, <2>4
  <1>7. CASE Refused(i)
    <2>1. UNCHANGED <<minted, dialed, refused>>
      BY <1>7 DEF Refused, synthVars
    <2>2. loop' \in [Slots -> LoopStages] /\ DialsToken'
      BY <1>1, <1>7, <2>1 DEF Refused
    <2>3. reminted' \in [Slots -> BOOLEAN]
      BY <1>1, <1>7 DEF Refused
    <2>4. asked' \in [Slots -> 0 .. 2]
      BY <1>1, <1>7 DEF Refused
    <2> QED BY <1>1, <2>1, <2>2, <2>3, <2>4
  <1>8. CASE StuckWakes(i)
    BY <1>1, <1>8 DEF StuckWakes, synthVars
  <1> QED BY <1>2, <1>3, <1>4, <1>5, <1>6, <1>7, <1>8 DEF Loop

\* A loop keeps the rest well formed: of add_link it only sets its own request.
LEMMA LoopRestStep ==
  ASSUME TypeOK, NEW i \in Slots, Loop(i) \/ Drop(i)
  PROVE  TokensTyped' /\ AddTyped' /\ UnTyped' /\ AccountTyped'
  <1> USE DEF TokensTyped, UnTyped, AccountTyped
  <1>1. TokensTyped /\ AddTyped /\ UnTyped /\ AccountTyped
    BY LinkTypes
  <1>2. CASE Top(i) \/ WaitEnds(i) \/ Dial(i) \/ HelloAck(i) \/ Leave(i) \/ StuckWakes(i)
    BY <1>1, <1>2 DEF Top, WaitEnds, Dial, HelloAck, Leave, StuckWakes, synthVars, acctVars, AddTyped
  <1>3. CASE SendUnpair(i)
    BY <1>1, <1>3 DEF SendUnpair, acctVars, AddTyped
  <1>4. CASE UnpairAck(i) \/ Drop(i)
    BY <1>1, <1>4 DEF UnpairAck, Drop, Down, acctVars, AddTyped
  <1>5. CASE Refused(i)
    <2>1. UNCHANGED <<token, stored, minted, valid, told, relink, gone, un, made, acctVars>>
      BY <1>5 DEF Refused, synthVars, slotVars
    <2>2. AddTyped'
      <3>1. [stage |-> "asking", tok |-> 0, src |-> "account"] \in [stage : AddStages, tok : 0 .. minted, src : Sources]
        BY <1>1 DEF AddStages, Sources
      <3> QED BY <1>1, <1>5, <2>1, <3>1 DEF Refused, AddTyped
    <2> QED BY <1>1, <2>1, <2>2 DEF acctVars
  <1> QED BY <1>2, <1>3, <1>4, <1>5 DEF Loop

-----------------------------------------------------------------------------
\* Who holds a token that has no slot yet.
Holding == {a \in Adders : add[a].stage \in {"pending", "token", "disk", "slot", "push"}}

\* Every slot and every holder has a token of its own.
Counted == made + Cardinality(Holding) <= minted

\* The holders can be counted.
LEMMA HoldingFinite == IsFiniteSet(Holding) /\ Cardinality(Holding) \in Nat
  <1>1. IsFiniteSet(0 .. MaxTokens + 1) /\ Holding \subseteq 0 .. MaxTokens + 1
    <2>1. MaxTokens \in Nat
      BY LinksAssumption
    <2>2. IsFiniteSet(0 .. MaxTokens + 1)
      BY <2>1, FS_Interval
    <2>3. Adders \subseteq 0 .. MaxTokens + 1
      BY <2>1 DEF Adders, Callers, Slots, Owner, Account
    <2> QED BY <2>2, <2>3 DEF Holding
  <1> QED BY <1>1, FS_Subset, FS_CardinalityType

\* The types the steps of add_link need.
LEMMA AddTypes ==
  ASSUME TypeOK, NEW a \in Adders
  PROVE  /\ add \in [Adders -> [stage : AddStages, tok : 0 .. minted, src : Sources]]
         /\ add[a].stage \in AddStages /\ add[a].tok \in 0 .. minted /\ add[a].src \in Sources
         /\ minted \in Nat /\ made \in Nat /\ minted <= MaxTokens /\ made <= MaxTokens /\ MaxTokens \in Nat
  BY LinksAssumption DEF TypeOK

\* add_link goes on: the token and where it is from stay.
LEMMA GoesOn ==
  ASSUME TypeOK, NEW a \in Adders, NEW st \in AddStages, AddGoes(a, st), minted' = minted
  PROVE  /\ AddTyped'
         /\ add'[a].stage = st /\ add'[a].tok = add[a].tok /\ add'[a].src = add[a].src
         /\ \A b \in Adders : b # a => add'[b] = add[b]
  <1> DEFINE r == [add[a] EXCEPT !.stage = st]
  <1>1. r \in [stage : AddStages, tok : 0 .. minted, src : Sources]
        /\ r.stage = st /\ r.tok = add[a].tok /\ r.src = add[a].src
    BY AddTypes
  <1>2. add' = [add EXCEPT ![a] = r]
    BY DEF AddGoes
  <1> HIDE DEF r
  <1> QED BY <1>1, <1>2, AddTypes DEF AddTyped

\* add_link ends.
LEMMA Ends ==
  ASSUME TypeOK, NEW a \in Adders, NEW ok \in BOOLEAN, AddEnds(a, ok), minted' = minted
  PROVE  /\ AddTyped' /\ add'[a] = NoAdd
         /\ \A b \in Adders : b # a => add'[b] = add[b]
         /\ loop' \in [Slots -> LoopStages]
         /\ \A i \in Slots : i # a => loop'[i] = loop[i]
         /\ a \in Slots => loop'[a] = IF ok THEN "top" ELSE "stuck"
         /\ acct' \in {acct, "idle"}
  <1>1. NoAdd \in [stage : AddStages, tok : 0 .. minted, src : Sources]
    BY AddTypes DEF NoAdd, AddStages, Sources
  <1>2. loop \in [Slots -> LoopStages]
    BY DEF TypeOK
  <1>3. AddTyped' /\ add'[a] = NoAdd /\ \A b \in Adders : b # a => add'[b] = add[b]
    BY <1>1, AddTypes DEF AddEnds, AddTyped
  <1>4. loop' \in [Slots -> LoopStages]
    BY <1>2 DEF AddEnds, LoopStages
  <1> QED BY <1>3, <1>4 DEF AddEnds

\* Only a new token adds a holder, only the end of add_link removes one.
LEMMA HoldingStays ==
  ASSUME TypeOK, Counted, AddTyped', NEW a \in Adders, \A b \in Adders : b # a => add'[b] = add[b],
         add'[a].stage \in {"pending", "token", "disk", "slot", "push"} => a \in Holding
  PROVE  /\ made' = made /\ minted' = minted => Counted'
         /\ a \in Holding /\ a \notin Holding' /\ minted' = minted /\ made' = made + 1 =>
               Counted' /\ made' <= minted'
  <1>1. Holding' \subseteq Holding
    BY DEF Holding
  <1>2. IsFiniteSet(Holding) /\ Cardinality(Holding) \in Nat /\ made \in Nat /\ minted \in Nat
    BY HoldingFinite, AddTypes
  <1>3. Cardinality(Holding') \in Nat /\ Cardinality(Holding') <= Cardinality(Holding)
    BY <1>1, <1>2, FS_Subset, FS_CardinalityType
  <1>4. ASSUME a \in Holding, a \notin Holding' PROVE Cardinality(Holding') + 1 = Cardinality(Holding)
    <2>1. Holding' = Holding \ {a}
      BY <1>4 DEF Holding
    <2>2. Cardinality(Holding') = Cardinality(Holding) - 1
      BY <1>2, <1>4, <2>1, FS_RemoveElement
    <2> QED BY <1>2, <2>2
  <1> QED BY <1>2, <1>3, <1>4 DEF Counted

\* With a token minted there may be one holder more.
LEMMA HolderComes ==
  ASSUME TypeOK, Counted, NEW a \in Adders, \A b \in Adders : b # a => add'[b] = add[b],
         minted' = minted + 1, made' = made
  PROVE  Counted'
  <1>1. Holding' \subseteq Holding \cup {a}
    BY DEF Holding
  <1>2. IsFiniteSet(Holding) /\ Cardinality(Holding) \in Nat /\ made \in Nat /\ minted \in Nat
    BY HoldingFinite, AddTypes
  <1>3. IsFiniteSet(Holding \cup {a}) /\ Cardinality(Holding \cup {a}) \in Nat
        /\ Cardinality(Holding \cup {a}) <= Cardinality(Holding) + 1
    BY <1>2, FS_AddElement, FS_CardinalityType
  <1>4. Cardinality(Holding') \in Nat /\ Cardinality(Holding') <= Cardinality(Holding) + 1
    BY <1>1, <1>2, <1>3, FS_Subset, FS_CardinalityType
  <1> QED BY <1>2, <1>4 DEF Counted

\* The type invariant, made inductive.
Kept == TypeOK /\ DialsToken /\ Counted

\* The caller of add_link goes on: everything that is not about its token is as it was.
LEMMA EndsKept ==
  ASSUME Kept, NEW a \in Adders, NEW ok \in BOOLEAN, AddEnds(a, ok),
         UNCHANGED <<dialed, reminted, refused, asked, minted, signed, skipped, snap>>,
         SlotsTyped', TokensTyped', UnTyped',
         made' = made \/ (a \in Holding /\ made' = made + 1)
  PROVE  Kept'
  <1> USE DEF Kept
  <1>1. LoopsTyped /\ AccountTyped
    BY LinkTypes
  <1>2. /\ AddTyped' /\ loop' \in [Slots -> LoopStages] /\ add'[a].stage = "none"
        /\ \A b \in Adders : b # a => add'[b] = add[b]
        /\ \A i \in Slots : loop'[i] = loop[i] \/ loop'[i] \in {"top", "stuck"}
        /\ acct' \in {acct, "idle"}
    BY Ends DEF NoAdd
  <1>3. LoopsTyped' /\ DialsToken'
    BY <1>1, <1>2 DEF LoopsTyped, DialsToken
  <1>4. AccountTyped'
    BY <1>1, <1>2 DEF AccountTyped
  <1>5. Counted'
    <2>1. a \notin Holding'
      BY <1>2 DEF Holding
    <2> QED BY <1>2, <2>1, HoldingStays
  <1> QED BY <1>2, <1>3, <1>4, <1>5 DEF TypeOK, SlotsTyped, LoopsTyped, TokensTyped, AddTyped, UnTyped,
                                        AccountTyped

\* A token goes on to its next stage.
LEMMA GoesKept ==
  ASSUME Kept, NEW a \in Holding, NEW st \in {"token", "disk", "slot", "push"}, AddGoes(a, st),
         UNCHANGED <<loopVars, minted, made, acctVars>>, SlotsTyped', TokensTyped', UnTyped'
  PROVE  Kept'
  <1> USE DEF Kept
  <1>1. LoopsTyped /\ AccountTyped /\ a \in Adders /\ st \in AddStages
    BY LinkTypes DEF Holding, AddStages
  <1>2. AddTyped' /\ \A b \in Adders : b # a => add'[b] = add[b]
    BY <1>1, GoesOn
  <1>3. LoopsTyped' /\ DialsToken' /\ AccountTyped'
    BY <1>1 DEF LoopsTyped, DialsToken, AccountTyped, loopVars, acctVars
  <1>4. Counted'
    BY <1>1, <1>2, HoldingStays
  <1> QED BY <1>2, <1>3, <1>4 DEF TypeOK, SlotsTyped, LoopsTyped, TokensTyped, AddTyped, UnTyped,
                                  AccountTyped

\* The synth mints a token for `a`.
LEMMA MintKept ==
  ASSUME Kept, Mint, NEW a \in Adders, NEW st \in {"pending", "token"}, NEW src \in Sources,
         add' = [add EXCEPT ![a] = [stage |-> st, tok |-> minted', src |-> src]],
         UNCHANGED <<token, stored, links, made, slotVars, loopVars, told, un, relink, acctVars, gone>>
  PROVE  Kept'
  <1> USE DEF Kept
  <1>1. SlotsTyped /\ LoopsTyped /\ TokensTyped /\ AddTyped /\ UnTyped /\ AccountTyped
    BY LinkTypes
  <1>2. minted' = minted + 1 /\ valid' = minted + 1 /\ minted' \in 0 .. MaxTokens /\ minted \in Nat
    BY <1>1, AddTypes DEF Mint, TokensTyped
  <1> DEFINE r == [stage |-> st, tok |-> minted', src |-> src]
  <1>3. r \in [stage : AddStages, tok : 0 .. minted', src : Sources]
    BY <1>2 DEF AddStages
  <1> HIDE DEF r
  <1>4. add' = [add EXCEPT ![a] = r]
    BY DEF r
  <1>5. AddTyped' /\ \A b \in Adders : b # a => add'[b] = add[b]
    BY <1>1, <1>2, <1>3, <1>4 DEF AddTyped
  <1>6. LoopsTyped' /\ DialsToken'
    BY <1>1, <1>2 DEF LoopsTyped, DialsToken, loopVars
  <1>7. TokensTyped'
    BY <1>1, <1>2 DEF TokensTyped
  <1>8. SlotsTyped' /\ UnTyped' /\ AccountTyped'
    BY <1>1 DEF SlotsTyped, slotVars, UnTyped, AccountTyped, acctVars
  <1>9. Counted'
    BY <1>2, <1>5, HolderComes
  <1> QED BY <1>5, <1>6, <1>7, <1>8, <1>9 DEF TypeOK, SlotsTyped, LoopsTyped, TokensTyped, AddTyped,
                                              UnTyped, AccountTyped

\* add_link keeps the state well formed: a slot made takes the place of its holder.
LEMMA AddSteps == ASSUME Kept, NEW a \in Adders, Add(a) PROVE Kept'
  <1> USE DEF Kept
  <1>1. SlotsTyped /\ LoopsTyped /\ TokensTyped /\ AddTyped /\ UnTyped /\ AccountTyped
    BY LinkTypes
  <1>2. add[a].stage \in AddStages /\ add[a].tok \in 0 .. minted /\ add[a].src \in Sources
        /\ minted \in Nat /\ made \in Nat
    BY AddTypes
  <1>3. add[a].stage \in {"token", "disk", "slot", "push"} => a \in Holding
    BY DEF Holding
  <1>4. CASE Answer(a)
    <2>1. CASE Mint /\ add' = [add EXCEPT ![a] = [stage |-> "token", tok |-> minted', src |-> @.src]]
               /\ UNCHANGED <<loop, acct>>
      <3>1. add' = [add EXCEPT ![a] = [stage |-> "token", tok |-> minted', src |-> add[a].src]]
        BY <2>1
      <3> QED BY <1>2, <1>4, <2>1, <3>1, MintKept DEF Answer, loopVars, acctVars
    <2>2. CASE AddEnds(a, FALSE) /\ UNCHANGED <<minted, valid>>
      <3>1. SlotsTyped' /\ UnTyped' /\ TokensTyped'
        BY <1>1, <1>4, <2>2 DEF Answer, SlotsTyped, slotVars, UnTyped, TokensTyped
      <3> QED BY <1>4, <2>2, <3>1, EndsKept DEF Answer
    <2> QED BY <1>4, <2>1, <2>2 DEF Answer
  <1>5. CASE StoreToken(a)
    <2>1. SlotsTyped' /\ UnTyped' /\ TokensTyped'
      BY <1>1, <1>2, <1>5 DEF StoreToken, SlotsTyped, slotVars, UnTyped, TokensTyped, synthVars
    <2> QED BY <1>3, <1>5, <2>1, GoesKept DEF StoreToken, synthVars
  <1>6. CASE StoreFails(a)
    <2>1. SlotsTyped' /\ UnTyped' /\ TokensTyped'
      BY <1>1, <1>6 DEF StoreFails, SlotsTyped, slotVars, UnTyped, TokensTyped, synthVars
    <2> QED BY <1>6, <2>1, EndsKept DEF StoreFails, synthVars
  <1>7. CASE StorePairing(a)
    <2>1. SlotsTyped' /\ UnTyped' /\ TokensTyped'
      BY <1>1, <1>2, <1>7 DEF StorePairing, SlotsTyped, slotVars, UnTyped, TokensTyped, synthVars
    <2> QED BY <1>3, <1>7, <2>1, GoesKept DEF StorePairing, synthVars
  <1>8. CASE NoSlot(a)
    <2>1. SlotsTyped' /\ UnTyped' /\ TokensTyped'
      BY <1>1, <1>2, <1>8 DEF NoSlot, SlotsTyped, slotVars, UnTyped, TokensTyped, synthVars
    <2> QED BY <1>3, <1>8, <2>1, GoesKept DEF NoSlot, synthVars
  <1>9. CASE UpdateSlot(a)
    <2>1. Slot \in Slots
      BY <1>9, SlotListed DEF UpdateSlot
    <2>2. SlotsTyped' /\ UnTyped' /\ TokensTyped'
      BY <1>1, <1>2, <1>9, <2>1 DEF UpdateSlot, Woken, SlotsTyped, UnTyped, TokensTyped, synthVars
    <2> QED BY <1>9, <2>2, EndsKept DEF UpdateSlot, synthVars
  <1>10. CASE PushSlot(a)
    <2>1. made + 1 <= MaxTokens
      <3>1. Cardinality(Holding) \in Nat /\ Cardinality(Holding \ {a}) \in Nat
            /\ Cardinality(Holding \ {a}) = Cardinality(Holding) - 1
        BY <1>3, <1>10, HoldingFinite, FS_RemoveElement, FS_CardinalityType DEF PushSlot
      <3> QED BY <1>2, <3>1, AddTypes DEF Counted
    <2>2. SlotsTyped'
      <3>1. made + 1 \in Slots /\ made + 1 \in 0 .. MaxTokens /\ 1 .. made \subseteq 1 .. made + 1
        BY <1>2, <2>1, LinksAssumption DEF Slots
      <3> QED BY <1>1, <1>2, <1>10, <3>1 DEF PushSlot, SlotsTyped
    <2>3. UnTyped' /\ TokensTyped'
      BY <1>1, <1>2, <1>10 DEF PushSlot, UnTyped, TokensTyped, synthVars
    <2> QED BY <1>3, <1>10, <2>2, <2>3, EndsKept DEF PushSlot, synthVars
  <1> QED BY <1>4, <1>5, <1>6, <1>7, <1>8, <1>9, <1>10 DEF Add

-----------------------------------------------------------------------------
\* A step that leaves the loops and the tokens under way alone.
LEMMA RestKept ==
  ASSUME Kept, UNCHANGED <<loopVars, minted, made, add>>,
         SlotsTyped', TokensTyped', UnTyped', AccountTyped'
  PROVE  Kept'
  <1> USE DEF Kept
  <1>1. LoopsTyped /\ AddTyped
    BY LinkTypes
  <1>2. LoopsTyped' /\ DialsToken'
    BY <1>1 DEF LoopsTyped, DialsToken, loopVars
  <1>3. AddTyped'
    BY <1>1 DEF AddTyped
  <1>4. Counted'
    BY DEF Counted, Holding
  <1> QED BY <1>2, <1>3, <1>4 DEF TypeOK, SlotsTyped, LoopsTyped, TokensTyped, AddTyped, UnTyped,
                                  AccountTyped

AskFresh == [stage |-> "asking", tok |-> 0, src |-> "account"]

\* The platform is asked, or the pairing is dropped: no token is under way for `a` from now on.
LEMMA AskKept ==
  ASSUME TypeOK, Counted, NEW a \in Adders, NEW r \in {NoAdd, AskFresh}, add' = [add EXCEPT ![a] = r],
         UNCHANGED <<minted, made>>
  PROVE  AddTyped' /\ Counted'
  <1>1. r \in [stage : AddStages, tok : 0 .. minted, src : Sources] /\ r.stage \in {"none", "asking"}
    BY AddTypes DEF NoAdd, AskFresh, AddStages, Sources
  <1>2. AddTyped' /\ add'[a] = r /\ \A b \in Adders : b # a => add'[b] = add[b]
    BY <1>1, AddTypes DEF AddTyped
  <1>3. a \notin Holding'
    BY <1>1, <1>2 DEF Holding
  <1> QED BY <1>1, <1>2, HoldingStays

\* The loop of slot i keeps the state well formed.
LEMMA LoopSteps == ASSUME Kept, NEW i \in Slots, Loop(i) \/ Drop(i) PROVE Kept'
  <1> USE DEF Kept
  <1>1. SlotsTyped' /\ LoopsTyped' /\ DialsToken' /\ TokensTyped' /\ AddTyped' /\ UnTyped' /\ AccountTyped'
    BY LoopSlotsStep, LoopLoopsStep, LoopRestStep
  <1>2. UNCHANGED <<minted, made>> /\ add' \in {add, [add EXCEPT ![i] = AskFresh]}
    <2>1. CASE Top(i) \/ WaitEnds(i) \/ Dial(i) \/ HelloAck(i) \/ Leave(i) \/ StuckWakes(i)
      BY <2>1 DEF Top, WaitEnds, Dial, HelloAck, Leave, StuckWakes, synthVars
    <2>2. CASE SendUnpair(i) \/ UnpairAck(i) \/ Drop(i)
      BY <2>2 DEF SendUnpair, UnpairAck, Drop
    <2>3. CASE Refused(i)
      BY <2>3 DEF Refused, synthVars, AskFresh
    <2> QED BY <2>1, <2>2, <2>3 DEF Loop
  <1>3. Counted'
    <2>1. CASE add' = add
      BY <1>2, <2>1 DEF Counted, Holding
    <2>2. CASE add' = [add EXCEPT ![i] = AskFresh]
      BY <1>2, <2>2, AskKept, Numbers
    <2> QED BY <1>2, <2>1, <2>2
  <1> QED BY <1>1, <1>3 DEF TypeOK, SlotsTyped, LoopsTyped, TokensTyped, AddTyped, UnTyped, AccountTyped

\* Starting a loop keeps the state well formed.
LEMMA SuperviseSteps == ASSUME Kept, Supervise PROVE Kept'
  <1> USE DEF Kept
  <1>1. SlotsTyped /\ LoopsTyped /\ TokensTyped /\ AddTyped /\ UnTyped /\ AccountTyped
    BY LinkTypes
  <1>2. TokensTyped' /\ AddTyped' /\ UnTyped' /\ AccountTyped' /\ Counted'
    BY <1>1 DEF Supervise, TokensTyped, AddTyped, UnTyped, AccountTyped, Counted, Holding, synthVars, acctVars
  <1>3. SlotsTyped' /\ LoopsTyped' /\ DialsToken'
    <2>1. CASE links # {} /\ ~running[Slot]
      <3>1. Slot \in Slots
        BY <2>1, SlotListed
      <3>2. SlotsTyped'
        BY <1>1, <2>1, <3>1 DEF Supervise, SlotsTyped
      <3>3. UNCHANGED <<dialed, minted>> /\ loop' = [loop EXCEPT ![Slot] = "top"]
            /\ reminted' = [reminted EXCEPT ![Slot] = FALSE] /\ refused' = [refused EXCEPT ![Slot] = {}]
            /\ asked' = [asked EXCEPT ![Slot] = 0]
        BY <2>1 DEF Supervise, Goes, synthVars
      <3>4. LoopsTyped' /\ DialsToken'
        BY <1>1, <3>1, <3>3 DEF LoopsTyped, DialsToken, LoopStages
      <3> QED BY <3>2, <3>4
    <2>2. CASE ~(links # {} /\ ~running[Slot])
      BY <1>1, <2>2 DEF Supervise, SlotsTyped, LoopsTyped, DialsToken, synthVars
    <2> QED BY <2>1, <2>2
  <1> QED BY <1>2, <1>3 DEF TypeOK, SlotsTyped, LoopsTyped, TokensTyped, AddTyped, UnTyped, AccountTyped

\* The owner's pairing keeps the state well formed.
LEMMA PairSteps == ASSUME Kept, PairBegin \/ PairConfirm \/ PairCancel \/ Again PROVE Kept'
  <1> USE DEF Kept
  <1>1. SlotsTyped /\ LoopsTyped /\ TokensTyped /\ AddTyped /\ UnTyped /\ AccountTyped /\ Owner \in Adders
    BY LinkTypes, Numbers
  <1>2. CASE PairBegin
    BY <1>1, <1>2, MintKept DEF PairBegin
  <1>3. CASE PairConfirm
    <2>1. SlotsTyped' /\ UnTyped' /\ TokensTyped'
      BY <1>1, <1>3 DEF PairConfirm, SlotsTyped, slotVars, UnTyped, TokensTyped, synthVars
    <2>2. Owner \in Holding
      BY <1>1, <1>3 DEF PairConfirm, Holding
    <2> QED BY <1>3, <2>1, <2>2, GoesKept DEF PairConfirm, synthVars
  <1>4. CASE PairCancel \/ Again
    <2>1. SlotsTyped' /\ UnTyped' /\ TokensTyped' /\ LoopsTyped' /\ DialsToken' /\ AccountTyped'
      BY ZenonT(60), <1>1, <1>4 DEF PairCancel, Again, SlotsTyped, slotVars, UnTyped, TokensTyped, synthVars,
                        LoopsTyped, loopVars, DialsToken, AccountTyped, acctVars
    <2>2. UNCHANGED <<minted, made>> /\ \E r \in {NoAdd, AskFresh} : add' = [add EXCEPT ![Owner] = r]
      BY <1>4 DEF PairCancel, Again, synthVars, AskFresh
    <2>3. AddTyped' /\ Counted'
      BY <1>1, <2>2, AskKept
    <2> QED BY <2>1, <2>3 DEF TypeOK, SlotsTyped, LoopsTyped, TokensTyped, AddTyped, UnTyped, AccountTyped
  <1> QED BY <1>2, <1>3, <1>4

\* The unlink begins: for a link of the list.
LEMMA UnpairBegins ==
  ASSUME TypeOK, NEW u \in Callers, UnpairBegin(u),
         UNCHANGED <<made, links, source, running, up, unpairAck>>
  PROVE  SlotsTyped' /\ UnTyped'
  <1>1. SlotsTyped /\ UnTyped /\ Slot \in links /\ Slot \in Slots /\ made \in Nat
    BY LinkTypes, SlotListed, AddTypes, Numbers DEF UnpairBegin
  <1>2. SlotsTyped'
    BY <1>1 DEF UnpairBegin, Stop, SlotsTyped
  <1> DEFINE r == [stage |-> IF up[Slot] THEN "waiting" ELSE "wipe", slot |-> Slot]
  <1>3. r \in [stage : UnStages, slot : 0 .. made] /\ r.slot # 0
    BY <1>1 DEF SlotsTyped, UnStages
  <1>4. un' = [un EXCEPT ![u] = r]
    BY DEF UnpairBegin
  <1> HIDE DEF r
  <1>5. UnTyped'
    BY <1>1, <1>3, <1>4 DEF UnTyped
  <1> QED BY <1>2, <1>5

\* The unlink goes on with its slot.
LEMMA UnpairGoesOn ==
  ASSUME TypeOK, NEW u \in Callers, un[u].stage # "none", NEW st \in UnStages,
         un' = [un EXCEPT ![u] = [@ EXCEPT !.stage = st]], made' = made
  PROVE  UnTyped' /\ un[u].slot \in Slots
  <1>1. un \in [Callers -> [stage : UnStages, slot : 0 .. made]] /\ un[u].slot \in 1 .. made
        /\ \A v \in Callers : un[v].stage # "none" => un[v].slot # 0
    BY AddTypes, Numbers DEF TypeOK
  <1> DEFINE r == [un[u] EXCEPT !.stage = st]
  <1>2. r \in [stage : UnStages, slot : 0 .. made] /\ r.slot # 0
    BY <1>1
  <1>3. un' = [un EXCEPT ![u] = r]
    OBVIOUS
  <1> HIDE DEF r
  <1>4. un[u].slot \in Slots
    BY <1>1, AddTypes, Numbers DEF Slots
  <1> QED BY <1>1, <1>2, <1>3, <1>4 DEF UnTyped

\* An unlink under way keeps the state well formed: it has a slot.
LEMMA WipeSteps == ASSUME Kept, NEW u \in Callers, Wipe(u) PROVE Kept'
  <1> USE DEF Kept
  <1>1. SlotsTyped /\ TokensTyped /\ UnTyped /\ AccountTyped /\ made \in Nat
    BY LinkTypes, AddTypes, Numbers
  <1>2. CASE Waited(u)
    <2>1. UnTyped' /\ un[u].slot \in Slots
      BY <1>2, UnpairGoesOn DEF Waited, UnStages
    <2>2. SlotsTyped' /\ TokensTyped' /\ AccountTyped'
      BY <1>1, <1>2, <2>1 DEF Waited, SlotsTyped, TokensTyped, AccountTyped, synthVars, acctVars
    <2> QED BY <1>2, <2>1, <2>2, RestKept DEF Waited, synthVars
  <1>3. CASE WipeToken(u)
    <2>1. UnTyped' /\ un[u].slot \in Slots
      BY <1>3, UnpairGoesOn DEF WipeToken, UnStages
    <2>2. SlotsTyped' /\ AccountTyped'
      BY <1>1, <1>3, <2>1 DEF WipeToken, Stop, SlotsTyped, AccountTyped, acctVars
    <2>3. TokensTyped'
      BY <1>1, <1>3 DEF WipeToken, TokensTyped, synthVars
    <2> QED BY <1>3, <2>1, <2>2, <2>3, RestKept DEF WipeToken, synthVars
  <1>4. CASE Unlist(u)
    <2>1. UnTyped' /\ un[u].slot \in Slots
      BY <1>4, UnpairGoesOn DEF Unlist, UnStages
    <2>2. SlotsTyped' /\ TokensTyped' /\ AccountTyped'
      BY <1>1, <1>4, <2>1 DEF Unlist, SlotsTyped, slotVars, TokensTyped, AccountTyped, synthVars, acctVars
    <2> QED BY <1>4, <2>1, <2>2, RestKept DEF Unlist, synthVars
  <1>5. CASE ErasePairing(u)
    <2>1. UnTyped' /\ un[u].slot \in Slots
      <3>1. NoUn \in [stage : UnStages, slot : 0 .. made] /\ NoUn.stage = "none"
        BY <1>1 DEF NoUn, UnStages
      <3>2. un[u].slot \in 1 .. made
        BY <1>1, <1>5 DEF UnTyped, ErasePairing
      <3>3. un[u].slot \in Slots
        BY <1>1, <3>2, AddTypes, Numbers DEF Slots
      <3>4. UnTyped'
        BY <1>1, <1>5, <3>1 DEF ErasePairing, UnTyped
      <3> QED BY <3>3, <3>4
    <2>2. SlotsTyped' /\ TokensTyped' /\ AccountTyped'
      BY <1>1, <1>5, <2>1 DEF ErasePairing, SlotsTyped, TokensTyped, AccountTyped, synthVars
    <2> QED BY <1>5, <2>1, <2>2, RestKept DEF ErasePairing, synthVars
  <1> QED BY <1>2, <1>3, <1>4, <1>5 DEF Wipe

\* The account's operations and the start of an unlink keep the state well formed.
LEMMA AccountSteps ==
  ASSUME Kept,
         Unlink \/ SyncBegin \/ Connect \/ SyncReads \/ SyncConnects \/ ConnectRepairs \/ SignOut \/ SignedOut
  PROVE  Kept'
  <1> USE DEF Kept
  <1>1. SlotsTyped /\ LoopsTyped /\ TokensTyped /\ AddTyped /\ UnTyped /\ AccountTyped
        /\ Account \in Callers /\ Owner \in Callers /\ Account \in Adders
    BY LinkTypes, Numbers
  <1>2. CASE Unlink
    <2>1. SlotsTyped' /\ UnTyped'
      BY <1>1, <1>2, UnpairBegins DEF Unlink
    <2>2. TokensTyped' /\ AccountTyped'
      BY <1>1, <1>2 DEF Unlink, TokensTyped, AccountTyped, synthVars
    <2> QED BY <1>2, <2>1, <2>2, RestKept DEF Unlink, synthVars
  <1>3. CASE SyncBegin \/ Connect \/ SignOut
    <2>1. SlotsTyped' /\ UnTyped' /\ TokensTyped' /\ AccountTyped'
      BY <1>1, <1>3 DEF SyncBegin, Connect, SignOut, SlotsTyped, slotVars, UnTyped, TokensTyped,
                        AccountTyped, synthVars
    <2> QED BY <1>3, <2>1, RestKept DEF SyncBegin, Connect, SignOut, synthVars
  <1>4. ASSUME RemoveLink, UNCHANGED <<made, links, source, running, up, unpairAck>>
        PROVE  SlotsTyped' /\ UnTyped' /\ acct' \in {"idle", "removing"}
    <2>1. CASE UnpairBegin(Account) /\ acct' = "removing"
      BY <1>1, <1>4, <2>1, UnpairBegins
    <2>2. CASE acct' = "idle" /\ UNCHANGED <<stopping, wake, unpairReq, un>>
      BY <1>1, <1>4, <2>2 DEF SlotsTyped, UnTyped
    <2> QED BY <1>4, <2>1, <2>2 DEF RemoveLink
  <1>5. CASE SignedOut
    <2>1. SlotsTyped' /\ UnTyped' /\ acct' \in {"idle", "removing"}
      BY <1>4, <1>5 DEF SignedOut
    <2>2. TokensTyped' /\ AccountTyped'
      BY <1>1, <1>5, <2>1 DEF SignedOut, TokensTyped, AccountTyped, synthVars
    <2> QED BY <1>5, <2>1, <2>2, RestKept DEF SignedOut, synthVars
  <1>6. CASE SyncReads
    <2>1. UNCHANGED <<token, links, made, running, up, unpairAck, loopVars, minted, valid, told, add, relink,
                      gone>>
      BY <1>6 DEF SyncReads, synthVars
    <2>2. CASE /\ acct' = "snapped" /\ snap' = skipped
               /\ source' = [source EXCEPT ![IF links = {} THEN 1 ELSE Slot] =
                            IF links = {} THEN @ ELSE "account"]
               /\ stored' = IF links # {} /\ stored # "none" THEN "account" ELSE stored
               /\ UNCHANGED <<stopping, wake, unpairReq, un, signed, skipped>>
      <3>1. source' \in [Slots -> Sources]
        <4>1. source \in [Slots -> Sources] /\ (links # {} => Slot \in Slots)
          BY <1>1, SlotListed DEF SlotsTyped
        <4> DEFINE k == IF links = {} THEN 1 ELSE Slot
        <4> DEFINE v == IF links = {} THEN source[k] ELSE "account"
        <4>2. k \in Slots /\ v \in Sources
          BY <4>1, LinksAssumption DEF Slots, Sources
        <4>3. source' = [source EXCEPT ![k] = v]
          BY <2>2
        <4> HIDE DEF k, v
        <4> QED BY <4>1, <4>2, <4>3
      <3>2. SlotsTyped' /\ UnTyped' /\ TokensTyped' /\ AccountTyped'
        BY <1>1, <2>1, <2>2, <3>1 DEF SlotsTyped, UnTyped, TokensTyped, AccountTyped, Sources
      <3> QED BY <2>1, <3>2, RestKept
    <2>3. CASE RemoveLink /\ UNCHANGED <<source, stored, signed, skipped, snap>>
      <3>1. SlotsTyped' /\ UnTyped' /\ acct' \in {"idle", "removing"}
        BY <1>4, <2>1, <2>3
      <3>2. TokensTyped' /\ AccountTyped'
        BY <1>1, <2>1, <2>3, <3>1 DEF TokensTyped, AccountTyped
      <3> QED BY <2>1, <3>1, <3>2, RestKept
    <2>4. CASE signed' = FALSE /\ skipped' = FALSE /\ RemoveLink /\ UNCHANGED <<source, stored, snap>>
      <3>1. SlotsTyped' /\ UnTyped' /\ acct' \in {"idle", "removing"}
        BY <1>4, <2>1, <2>4
      <3>2. TokensTyped' /\ AccountTyped'
        BY <1>1, <2>1, <2>4, <3>1 DEF TokensTyped, AccountTyped
      <3> QED BY <2>1, <3>1, <3>2, RestKept
    <2>5. CASE /\ acct' = "idle"
               /\ UNCHANGED <<source, stored, stopping, wake, unpairReq, un, signed, skipped, snap>>
      <3>1. SlotsTyped' /\ UnTyped' /\ TokensTyped' /\ AccountTyped'
        BY <1>1, <2>1, <2>5 DEF SlotsTyped, UnTyped, TokensTyped, AccountTyped
      <3> QED BY <2>1, <3>1, RestKept
    <2> QED BY <1>6, <2>2, <2>3, <2>4, <2>5 DEF SyncReads
  <1>7. CASE SyncConnects \/ ConnectRepairs
    <2>1. SlotsTyped' /\ UnTyped' /\ TokensTyped' /\ LoopsTyped' /\ DialsToken'
      BY <1>1, <1>7 DEF SyncConnects, ConnectRepairs, SlotsTyped, slotVars, UnTyped, TokensTyped, synthVars,
                        LoopsTyped, loopVars, DialsToken
    <2>2. AccountTyped'
      BY <1>1, <1>7 DEF SyncConnects, ConnectRepairs, AccountTyped
    <2>3. UNCHANGED <<minted, made>> /\ add' \in {add, [add EXCEPT ![Account] = AskFresh]}
      BY <1>7 DEF SyncConnects, ConnectRepairs, synthVars, Asked, AskFresh
    <2>4. CASE add' = add
      BY <1>1, <2>1, <2>2, <2>3, <2>4 DEF TypeOK, SlotsTyped, LoopsTyped, TokensTyped, AddTyped, UnTyped,
                                     AccountTyped, Counted, Holding
    <2>5. CASE add' = [add EXCEPT ![Account] = AskFresh]
      <3>1. AddTyped' /\ Counted'
        BY <1>1, <2>3, <2>5, AskKept
      <3> QED BY <2>1, <2>2, <3>1 DEF TypeOK, SlotsTyped, LoopsTyped, TokensTyped, AddTyped, UnTyped,
                                     AccountTyped
    <2> QED BY <2>3, <2>4, <2>5
  <1> QED BY <1>2, <1>3, <1>5, <1>6, <1>7

\* The state is well formed when the app starts.
LEMMA KeptInit == Init => Kept
  <1> SUFFICES ASSUME Init PROVE Kept
    OBVIOUS
  <1>1. MaxTokens \in Nat /\ 1 <= MaxTokens /\ 1 \in 0 .. MaxTokens
    BY LinksAssumption
  <1>2. TypeOK
    <2>1. SlotsTyped
      BY <1>1 DEF Init, SlotsTyped
    <2>2. LoopsTyped
      <3>1. minted = 1 /\ 0 \in 0 .. 1
        BY DEF Init
      <3>2. loop \in [Slots -> LoopStages] /\ refused \in [Slots -> SUBSET Tokens]
        BY DEF Init, LoopStages
      <3>3. dialed \in [Slots -> 0 .. minted] /\ asked \in [Slots -> 0 .. 2]
        BY <3>1 DEF Init
      <3>4. reminted \in [Slots -> BOOLEAN]
        BY DEF Init
      <3> QED BY <3>2, <3>3, <3>4 DEF LoopsTyped
    <2>3. TokensTyped /\ AccountTyped
      <3>1. minted = 1 /\ token = 1 /\ valid \in {0, 1} /\ stored \in Sources
        BY DEF Init
      <3>2. token \in 0 .. minted /\ minted \in 0 .. MaxTokens /\ valid \in 0 .. minted
        BY <1>1, <3>1
      <3>3. told \in [Slots -> BOOLEAN] /\ relink \in BOOLEAN /\ gone \in BOOLEAN
        BY DEF Init
      <3>4. AccountTyped
        BY DEF Init, AccountTyped
      <3> QED BY <3>1, <3>2, <3>3, <3>4 DEF TokensTyped
    <2>4. AddTyped /\ UnTyped
      BY <1>1 DEF Init, AddTyped, UnTyped, NoAdd, NoUn, AddStages, UnStages, Sources
    <2> QED BY <2>1, <2>2, <2>3, <2>4, LinkTypes
  <1>3. DialsToken
    BY DEF Init, DialsToken
  <1>4. Counted
    <2>1. Holding = {}
      BY DEF Init, Holding, NoAdd
    <2> QED BY <2>1, FS_EmptySet DEF Counted, Init
  <1> QED BY <1>2, <1>3, <1>4 DEF Kept

\* Every step keeps it well formed.
LEMMA KeptStep == Kept /\ [Next]_vars => Kept'
  <1> SUFFICES ASSUME Kept, [Next]_vars PROVE Kept'
    OBVIOUS
  <1>1. CASE Supervise
    BY <1>1, SuperviseSteps
  <1>2. CASE SynthForgets
    <2>1. SlotsTyped /\ TokensTyped /\ UnTyped /\ AccountTyped /\ 0 \in 0 .. minted
      BY LinkTypes, AddTypes, Numbers DEF Kept
    <2>2. SlotsTyped' /\ TokensTyped' /\ UnTyped' /\ AccountTyped'
      BY <1>2, <2>1 DEF SynthForgets, SlotsTyped, slotVars, TokensTyped, UnTyped, AccountTyped, acctVars
    <2> QED BY <1>2, <2>2, RestKept DEF SynthForgets
  <1>3. CASE \E i \in Slots : Loop(i) \/ Drop(i)
    BY <1>3, LoopSteps
  <1>4. CASE PairBegin \/ PairConfirm \/ PairCancel \/ Again
    BY <1>4, PairSteps
  <1>5. CASE \E a \in Adders : Add(a)
    BY <1>5, AddSteps
  <1>6. CASE \E u \in Callers : Wipe(u)
    BY <1>6, WipeSteps
  <1>7. CASE Unlink \/ SyncBegin \/ Connect \/ SyncReads \/ SyncConnects \/ ConnectRepairs \/ SignOut \/ SignedOut
    BY <1>7, AccountSteps
  <1>8. CASE UNCHANGED vars
    BY <1>8 DEF vars, slotVars, loopVars, synthVars, acctVars, Kept, TypeOK, DialsToken, Counted, Holding
  <1> QED BY <1>1, <1>2, <1>3, <1>4, <1>5, <1>6, <1>7, <1>8 DEF Next

\* The state is well formed, and no token is used up for two slots.
THEOREM LinksTypeCorrect == Spec => []TypeOK
  <1>1. Init => Kept
    BY KeptInit
  <1>2. Kept /\ [Next]_vars => Kept'
    BY KeptStep
  <1>3. Kept => TypeOK
    BY DEF Kept
  <1> QED BY <1>1, <1>2, <1>3, PTL DEF Spec

-----------------------------------------------------------------------------
(* A refused token is not dialed again, and asked to be replaced once.     *)

\* A token that is not stored yet.
Fresh(a) == add[a].stage \in {"pending", "token"}

\* It is one that no loop has dialed or been refused, and nobody else holds.
FreshIsNew ==
    \A a \in Adders : Fresh(a) =>
        /\ add[a].tok # 0 /\ add[a].tok # token
        /\ \A i \in Slots : add[a].tok # dialed[i] /\ add[a].tok \notin refused[i]
        /\ \A b \in Adders : Fresh(b) /\ b # a => add[b].tok # add[a].tok

\* The stages of a loop that may have the token it was refused: none of them
\* leads to a dial without another one.
Rests == {"refused", "reminting", "stuck", "leaving", "off"}

\* What holds of one slot.
SlotOk(i) ==
    /\ running[i] <=> loop[i] # "off"
    /\ add[i].stage # "none" <=> loop[i] = "reminting"
    /\ add[i].stage # "pending"
    /\ \A t \in refused[i] : t <= minted
    /\ token \in refused[i] => /\ token = dialed[i] /\ loop[i] \in Rests
                               /\ add[i].stage \notin {"disk", "slot", "push"}
    /\ loop[i] \in {"dial", "live", "linked"} => dialed[i] \notin refused[i]

\* A slot's loop has asked once at most since its link was up.
AskOk(i) == asked[i] \in {0, 1} /\ (asked[i] = 1 => reminted[i])

\* The inductive invariant.
LinkInv == Kept /\ FreshIsNew /\ (\A i \in Slots : SlotOk(i)) /\ (\A i \in Slots : AskOk(i))

\* A token under way may be dropped or become the link's; a loop may dial the
\* link's token and be refused the one it dialed.
LEMMA FreshStays ==
  ASSUME FreshIsNew,
         \A b \in Adders : Fresh(b)' => Fresh(b) /\ add'[b].tok = add[b].tok,
         \/ token' = token \/ token' = 0
         \/ \E a \in Adders : Fresh(a) /\ ~Fresh(a)' /\ token' = add[a].tok,
         \A i \in Slots : dialed'[i] \in {dialed[i], token},
         \A i \in Slots : refused'[i] \subseteq refused[i] \cup {dialed[i]}
  PROVE  FreshIsNew'
  <1>1. ASSUME NEW b \in Adders, Fresh(b)'
        PROVE  /\ add'[b].tok # 0 /\ add'[b].tok # token'
               /\ \A i \in Slots : add'[b].tok # dialed'[i] /\ add'[b].tok \notin refused'[i]
               /\ \A c \in Adders : Fresh(c)' /\ c # b => add'[c].tok # add'[b].tok
    <2>1. Fresh(b) /\ add'[b].tok = add[b].tok /\ add[b].tok # 0 /\ add[b].tok # token
      BY <1>1 DEF FreshIsNew
    <2>2. \A i \in Slots : add'[b].tok # dialed'[i] /\ add'[b].tok \notin refused'[i]
      BY <2>1 DEF FreshIsNew
    <2>3. \A c \in Adders : Fresh(c)' /\ c # b => add'[c].tok # add'[b].tok
      BY <2>1 DEF FreshIsNew
    <2>4. add'[b].tok # token'
      <3>1. ASSUME NEW a \in Adders, Fresh(a), ~Fresh(a)', token' = add[a].tok PROVE add'[b].tok # token'
        <4>1. a # b
          BY <1>1, <3>1
        <4> QED BY <2>1, <3>1, <4>1 DEF FreshIsNew
      <3> QED BY <2>1, <3>1
    <2> QED BY <2>1, <2>2, <2>3, <2>4
  <1> QED BY <1>1 DEF FreshIsNew

\* The token just minted is new.
LEMMA FreshComes ==
  ASSUME TypeOK, FreshIsNew, \A i \in Slots : SlotOk(i), NEW a \in Adders,
         minted' = minted + 1, add'[a].tok = minted',
         \A b \in Adders : b # a => add'[b] = add[b],
         UNCHANGED <<token, dialed, refused>>
  PROVE  FreshIsNew'
  <1>1. \A b \in Adders : add[b].tok \in 0 .. minted
    BY AddTypes
  <1>2. minted \in Nat /\ token \in 0 .. minted /\ \A i \in Slots : dialed[i] \in 0 .. minted
    BY AddTypes, Numbers DEF TypeOK
  <1>3. \A i \in Slots : minted + 1 \notin refused[i]
    BY <1>2 DEF SlotOk
  <1>4. \A b \in Adders : b # a => Fresh(b)' = Fresh(b)
    BY DEF Fresh
  <1>5. ASSUME NEW b \in Adders, Fresh(b)'
        PROVE  /\ add'[b].tok # 0 /\ add'[b].tok # token'
               /\ \A i \in Slots : add'[b].tok # dialed'[i] /\ add'[b].tok \notin refused'[i]
               /\ \A c \in Adders : Fresh(c)' /\ c # b => add'[c].tok # add'[b].tok
    <2>1. CASE b = a
      <3>1. add'[b].tok # 0 /\ add'[b].tok # token' /\ \A i \in Slots : add'[b].tok # dialed'[i]
        BY <1>2, <2>1
      <3>2. \A i \in Slots : add'[b].tok \notin refused'[i]
        BY <1>3, <2>1
      <3>3. ASSUME NEW c \in Adders, c # b PROVE add'[c].tok # add'[b].tok
        BY <1>1, <1>2, <2>1, <3>3
      <3> QED BY <3>1, <3>2, <3>3
    <2>2. CASE b # a
      <3>1. Fresh(b) /\ add'[b].tok = add[b].tok
        BY <1>4, <1>5, <2>2
      <3>2. /\ add[b].tok # 0 /\ add[b].tok # token
            /\ \A i \in Slots : add[b].tok # dialed[i] /\ add[b].tok \notin refused[i]
            /\ \A c \in Adders : Fresh(c) /\ c # b => add[c].tok # add[b].tok
        BY <3>1 DEF FreshIsNew
      <3>3. ASSUME NEW c \in Adders, Fresh(c)', c # b PROVE add'[c].tok # add'[b].tok
        <4>1. CASE c = a
          BY <1>1, <1>2, <3>1, <4>1
        <4>2. CASE c # a
          BY <1>4, <3>1, <3>2, <3>3, <4>2
        <4> QED BY <4>1, <4>2
      <3> QED BY <3>1, <3>2, <3>3
    <2> QED BY <2>1, <2>2
  <1> QED BY <1>5 DEF FreshIsNew

\* A slot whose loop stands still: its token stays, or is one it was never refused.
LEMMA SlotStays ==
  ASSUME NEW i \in Slots, TypeOK, SlotOk(i), minted' \in Nat, minted <= minted',
         loop'[i] = loop[i], dialed'[i] = dialed[i], refused'[i] = refused[i], running'[i] = running[i],
         add'[i].stage = "none" <=> add[i].stage = "none", add'[i].stage # "pending",
         \/ token' \notin refused[i]
         \/ /\ token' = token
            /\ add'[i].stage \in {"disk", "slot", "push"} => add[i].stage \in {"disk", "slot", "push"}
  PROVE  SlotOk(i)'
  <1>1. minted \in Nat /\ refused[i] \subseteq Nat
    BY AddTypes, Numbers, LinksAssumption DEF TypeOK, Tokens
  <1>2. \A t \in refused'[i] : t <= minted'
    BY <1>1 DEF SlotOk
  <1> QED BY <1>2 DEF SlotOk

\* What a step of slot i's loop leaves alone.
LEMMA LoopMoves ==
  ASSUME TypeOK, NEW i \in Slots, Loop(i) \/ Drop(i)
  PROVE  /\ UNCHANGED <<token, minted>>
         /\ \A j \in Slots : j # i => /\ loop'[j] = loop[j] /\ dialed'[j] = dialed[j]
                                      /\ refused'[j] = refused[j] /\ running'[j] = running[j]
                                      /\ asked'[j] = asked[j] /\ reminted'[j] = reminted[j]
         /\ \A a \in Adders : a # i => add'[a] = add[a]
         /\ dialed'[i] \in {dialed[i], token} /\ refused'[i] \subseteq refused[i] \cup {dialed[i]}
         /\ ~Fresh(i)' \/ add'[i] = add[i]
  <1>1. LoopsTyped /\ running \in [Slots -> BOOLEAN] /\ AddTyped
    BY LinkTypes DEF SlotsTyped
  <1> USE DEF Goes, LoopsTyped
  <1>2. CASE Top(i) \/ WaitEnds(i) \/ Leave(i)
    BY <1>1, <1>2 DEF Top, WaitEnds, Leave, synthVars
  <1>3. CASE Dial(i)
    BY <1>1, <1>3 DEF Dial, slotVars, synthVars
  <1>4. CASE StuckWakes(i)
    BY <1>1, <1>4 DEF StuckWakes, synthVars
  <1>5. CASE Refused(i)
    <2>1. UNCHANGED <<token, minted, dialed, refused, running>>
      BY <1>5 DEF Refused, slotVars, synthVars
    <2>2. \A j \in Slots : j # i => loop'[j] = loop[j] /\ asked'[j] = asked[j] /\ reminted'[j] = reminted[j]
      BY <1>1, <1>5 DEF Refused
    <2>3. (\A a \in Adders : a # i => add'[a] = add[a]) /\ (~Fresh(i)' \/ add'[i] = add[i])
      <3>1. [stage |-> "asking", tok |-> 0, src |-> "account"].stage = "asking"
        OBVIOUS
      <3> QED BY <1>1, <1>5, Numbers DEF Refused, AddTyped, Fresh
    <2> QED BY <2>1, <2>2, <2>3
  <1>6. CASE HelloAck(i) \/ SendUnpair(i)
    BY <1>1, <1>6 DEF HelloAck, SendUnpair, synthVars, loopVars
  <1>7. CASE UnpairAck(i) \/ Drop(i)
    BY <1>1, <1>7 DEF UnpairAck, Drop, Down
  <1> QED BY <1>2, <1>3, <1>4, <1>5, <1>6, <1>7 DEF Loop

\* The loop of slot i keeps it right.
LEMMA LoopOk ==
  ASSUME TypeOK, NEW i \in Slots, SlotOk(i), AskOk(i), Loop(i) \/ Drop(i)
  PROVE  SlotOk(i)' /\ AskOk(i)'
  <1>1. LoopsTyped /\ running \in [Slots -> BOOLEAN] /\ AddTyped /\ minted \in Nat
        /\ dialed[i] \in 0 .. minted
    BY LinkTypes, AddTypes, Numbers DEF SlotsTyped, LoopsTyped
  <1> USE DEF Goes, LoopsTyped
  <1>2. CASE Top(i)
    <2>1. SlotOk(i)'
      BY <1>1, <1>2 DEF Top, synthVars, SlotOk, Rests
    <2> QED BY <1>2, <2>1 DEF Top, AskOk
  <1>3. CASE WaitEnds(i) \/ Leave(i)
    <2>1. SlotOk(i)'
      BY <1>1, <1>3 DEF WaitEnds, Leave, synthVars, SlotOk, Rests
    <2> QED BY <1>3, <2>1 DEF WaitEnds, Leave, AskOk
  <1>4. CASE Dial(i)
    <2>1. SlotOk(i)'
      BY <1>1, <1>4 DEF Dial, AfterEnd, slotVars, synthVars, SlotOk, Rests
    <2> QED BY <1>4, <2>1 DEF Dial, AskOk
  <1>5. CASE StuckWakes(i)
    <2>1. SlotOk(i)'
      BY <1>1, <1>5 DEF StuckWakes, NewToken, synthVars, SlotOk, Rests
    <2> QED BY <1>1, <1>5, <2>1 DEF StuckWakes, AskOk
  <1>6. CASE Refused(i)
    <2>1. SlotOk(i)'
      <3>1. UNCHANGED <<token, minted, dialed, refused, running>> /\ loop[i] = "refused"
        BY <1>6 DEF Refused, slotVars, synthVars
      <3>2. \/ loop'[i] = "reminting" /\ add'[i].stage = "asking"
            \/ loop'[i] \in {"leaving", "stuck"} /\ add'[i] = add[i]
        <4>1. [stage |-> "asking", tok |-> 0, src |-> "account"].stage = "asking"
          OBVIOUS
        <4> QED BY <1>1, <1>6, <4>1, Numbers DEF Refused, AddTyped
      <3> QED BY <3>1, <3>2 DEF SlotOk, Rests
    <2>2. AskOk(i)'
      BY <1>1, <1>6 DEF Refused, MayAsk, AskOk
    <2> QED BY <2>1, <2>2
  <1>7. CASE HelloAck(i) \/ SendUnpair(i)
    <2>1. SlotOk(i)'
      BY <1>1, <1>7 DEF HelloAck, SendUnpair, synthVars, loopVars, SlotOk, Rests
    <2> QED BY <1>7, <2>1 DEF HelloAck, SendUnpair, loopVars, AskOk
  <1>8. CASE UnpairAck(i) \/ Drop(i)
    <2>1. loop[i] \in {"live", "linked"} /\ Down(i)
          /\ UNCHANGED <<token, running, dialed, refused, minted, add>>
      BY <1>8 DEF UnpairAck, Drop
    <2>2. SlotOk(i)'
      BY <1>1, <2>1 DEF Down, AfterEnd, SlotOk, Rests
    <2>3. AskOk(i)'
      BY <1>1, <2>1 DEF Down, AskOk
    <2> QED BY <2>2, <2>3
  <1> QED BY <1>2, <1>3, <1>4, <1>5, <1>6, <1>7, <1>8 DEF Loop

\* The loop of slot i keeps the invariant: the others stand still.
LEMMA LoopInv == ASSUME LinkInv, NEW i \in Slots, Loop(i) \/ Drop(i) PROVE LinkInv'
  <1> USE DEF LinkInv
  <1>1. TypeOK /\ Kept' /\ minted \in Nat
    BY LoopSteps, AddTypes, Numbers DEF Kept
  <1>2. FreshIsNew'
    BY <1>1, LoopMoves, FreshStays, Numbers DEF Fresh
  <1>3. ASSUME NEW j \in Slots PROVE SlotOk(j)' /\ AskOk(j)'
    <2>1. CASE j = i
      BY <1>1, <2>1, LoopOk
    <2>2. CASE j # i
      <3>1. SlotOk(j)'
        BY <1>1, <2>2, LoopMoves, SlotStays, Numbers DEF SlotOk
      <3>2. AskOk(j)'
        BY <1>1, <2>2, LoopMoves DEF AskOk
      <3> QED BY <3>1, <3>2
    <2> QED BY <2>1, <2>2
  <1> QED BY <1>1, <1>2, <1>3

\* A loop that starts has forgotten what it was refused.
LEMMA SuperviseInv == ASSUME LinkInv, Supervise PROVE LinkInv'
  <1> USE DEF LinkInv
  <1>1. TypeOK /\ Kept' /\ minted \in Nat /\ LoopsTyped /\ running \in [Slots -> BOOLEAN]
    BY SuperviseSteps, AddTypes, Numbers, LinkTypes DEF Kept, SlotsTyped
  <1>2. UNCHANGED <<token, minted, dialed, add>>
    BY DEF Supervise, synthVars
  <1>3. CASE links # {} /\ ~running[Slot]
    <2>1. Slot \in Slots /\ loop[Slot] = "off" /\ add[Slot].stage = "none"
      BY <1>1, <1>3, SlotListed DEF SlotOk
    <2>2. /\ running' = [running EXCEPT ![Slot] = TRUE] /\ loop' = [loop EXCEPT ![Slot] = "top"]
          /\ refused' = [refused EXCEPT ![Slot] = {}] /\ reminted' = [reminted EXCEPT ![Slot] = FALSE]
          /\ asked' = [asked EXCEPT ![Slot] = 0]
      BY <1>3 DEF Supervise, Goes
    <2>3. FreshIsNew'
      BY <1>1, <1>2, <2>1, <2>2, FreshStays DEF Fresh, LoopsTyped
    <2>4. ASSUME NEW j \in Slots PROVE SlotOk(j)' /\ AskOk(j)'
      <3>1. CASE j = Slot
        BY <1>1, <1>2, <2>1, <2>2, <3>1 DEF SlotOk, AskOk, LoopsTyped, Rests
      <3>2. CASE j # Slot
        BY <1>1, <1>2, <2>1, <2>2, <3>2 DEF SlotOk, AskOk, LoopsTyped
      <3> QED BY <3>1, <3>2
    <2> QED BY <1>1, <2>3, <2>4
  <1>4. CASE ~(links # {} /\ ~running[Slot])
    BY <1>1, <1>2, <1>4 DEF Supervise, SlotOk, AskOk, FreshIsNew, Fresh
  <1> QED BY <1>3, <1>4

\* A step outside the loops: the tokens under way go on, at most one of them is
\* stored or dropped, or the platform is asked for another.
LEMMA OthersInv ==
  ASSUME LinkInv, Kept', minted' = minted, UNCHANGED <<loop, dialed, reminted, refused, asked, running>>,
         \A b \in Adders : Fresh(b)' => Fresh(b) /\ add'[b].tok = add[b].tok,
         \A i \in Slots : /\ add'[i].stage = "none" <=> add[i].stage = "none"
                          /\ add'[i].stage = "pending" => add[i].stage = "pending",
         \/ token' = 0
         \/ \E a \in Adders : Fresh(a) /\ ~Fresh(a)' /\ token' = add[a].tok
         \/ /\ token' = token
            /\ \A i \in Slots : add'[i].stage \in {"disk", "slot", "push"} =>
                                    add[i].stage \in {"disk", "slot", "push"}
  PROVE  LinkInv'
  <1> USE DEF LinkInv
  <1>1. TypeOK /\ minted \in Nat /\ LoopsTyped
    BY AddTypes, Numbers, LinkTypes DEF Kept
  <1>2. FreshIsNew'
    BY FreshStays
  <1>3. ASSUME NEW i \in Slots PROVE SlotOk(i)' /\ AskOk(i)'
    <2>1. 0 \notin refused[i] /\ \A a \in Adders : Fresh(a) => add[a].tok \notin refused[i]
      <3>1. refused[i] \subseteq Tokens /\ 0 \notin Tokens
        BY <1>1, LinksAssumption DEF LoopsTyped, Tokens
      <3> QED BY <3>1 DEF FreshIsNew
    <2>2. SlotOk(i) /\ add'[i].stage # "pending"
      BY DEF SlotOk
    <2>3. \/ token' \notin refused[i]
          \/ /\ token' = token
             /\ add'[i].stage \in {"disk", "slot", "push"} => add[i].stage \in {"disk", "slot", "push"}
      BY <2>1
    <2>4. SlotOk(i)'
      BY <1>1, <2>2, <2>3, SlotStays
    <2> QED BY <2>4 DEF AskOk
  <1> QED BY <1>2, <1>3

\* A token is minted for `a`.
LEMMA MintInv ==
  ASSUME LinkInv, Kept', Mint, NEW a \in Adders, add[a].stage \in {"none", "asking"},
         add'[a].tok = minted', \A b \in Adders : b # a => add'[b] = add[b],
         \/ a = Owner /\ add'[a].stage = "pending"
         \/ add[a].stage = "asking" /\ add'[a].stage = "token",
         UNCHANGED <<token, loopVars, running>>
  PROVE  LinkInv'
  <1> USE DEF LinkInv
  <1>1. TypeOK /\ minted \in Nat /\ minted' = minted + 1 /\ LoopsTyped
    BY AddTypes, LinkTypes DEF Kept, Mint
  <1>2. FreshIsNew'
    BY <1>1, FreshComes DEF loopVars
  <1>3. ASSUME NEW i \in Slots PROVE SlotOk(i)' /\ AskOk(i)'
    <2>1. add'[i].stage = "none" <=> add[i].stage = "none"
      BY Numbers
    <2>2. add'[i].stage # "pending" /\
          (add'[i].stage \in {"disk", "slot", "push"} => add[i].stage \in {"disk", "slot", "push"})
      BY Numbers DEF SlotOk
    <2>3. SlotOk(i)'
      BY <1>1, <2>1, <2>2, SlotStays DEF loopVars
    <2> QED BY <2>3 DEF AskOk, loopVars
  <1> QED BY <1>2, <1>3

\* The caller of add_link goes on: it has stored the token, or the store or the
\* platform refused.
LEMMA EndsInv ==
  ASSUME LinkInv, Kept', NEW a \in Adders, NEW ok \in BOOLEAN, AddEnds(a, ok),
         ok => add[a].stage \in {"slot", "push"}, add[a].stage # "none",
         UNCHANGED <<token, dialed, reminted, refused, asked, minted, running>>
  PROVE  LinkInv'
  <1> USE DEF LinkInv
  <1>1. TypeOK /\ minted \in Nat /\ LoopsTyped
    BY AddTypes, LinkTypes DEF Kept
  <1>2. /\ add'[a].stage = "none" /\ \A b \in Adders : b # a => add'[b] = add[b]
        /\ \A i \in Slots : i # a => loop'[i] = loop[i]
        /\ a \in Slots => loop'[a] = IF ok THEN "top" ELSE "stuck"
    BY <1>1, Ends DEF NoAdd
  <1>3. FreshIsNew'
    BY <1>1, <1>2, FreshStays DEF Fresh
  <1>4. ASSUME NEW i \in Slots PROVE SlotOk(i)' /\ AskOk(i)'
    <2>1. CASE i = a
      <3>1. SlotOk(i)'
        BY <1>1, <1>2, <2>1 DEF SlotOk, Rests
      <3> QED BY <3>1 DEF AskOk
    <2>2. CASE i # a
      <3>1. SlotOk(i)'
        BY <1>1, <1>2, <2>2, Numbers DEF SlotOk
      <3> QED BY <3>1 DEF AskOk
    <2> QED BY <2>1, <2>2
  <1> QED BY <1>3, <1>4

\* add_link keeps the invariant: what it stores is new to every loop.
LEMMA AddInv == ASSUME LinkInv, NEW a \in Adders, Add(a) PROVE LinkInv'
  <1>1. Kept /\ Kept' /\ TypeOK
    BY AddSteps DEF LinkInv, Kept
  <1>2. ASSUME NEW st \in AddStages, AddGoes(a, st), minted' = minted
        PROVE  /\ add'[a].stage = st /\ add'[a].tok = add[a].tok
               /\ \A b \in Adders : b # a => add'[b] = add[b]
    BY <1>1, <1>2, GoesOn
  <1>3. CASE Answer(a)
    <2>1. UNCHANGED <<token, running, dialed, reminted, refused, asked>>
      BY <1>3 DEF Answer, slotVars
    <2>2. CASE Mint /\ add' = [add EXCEPT ![a] = [stage |-> "token", tok |-> minted', src |-> @.src]]
               /\ UNCHANGED <<loop, acct>>
      <3>1. add' = [add EXCEPT ![a] = [stage |-> "token", tok |-> minted', src |-> add[a].src]]
        BY <2>2
      <3>2. [stage |-> "token", tok |-> minted', src |-> add[a].src].stage = "token"
            /\ [stage |-> "token", tok |-> minted', src |-> add[a].src].tok = minted'
        OBVIOUS
      <3>3. add'[a].stage = "token" /\ add'[a].tok = minted' /\ \A b \in Adders : b # a => add'[b] = add[b]
        BY <1>1, <3>1, <3>2, AddTypes
      <3> QED BY <1>1, <1>3, <2>1, <2>2, <3>3, MintInv DEF Answer, loopVars
    <2>3. CASE AddEnds(a, FALSE) /\ UNCHANGED <<minted, valid>>
      BY <1>1, <1>3, <2>1, <2>3, EndsInv DEF Answer
    <2> QED BY <1>3, <2>2, <2>3 DEF Answer
  <1>4. CASE StoreToken(a)
    <2>1. add[a].stage = "token" /\ minted' = minted /\ token' = add[a].tok
          /\ UNCHANGED <<loop, dialed, reminted, refused, asked, running>>
      BY <1>4 DEF StoreToken, synthVars, loopVars, slotVars
    <2>2. add'[a].stage = "disk" /\ add'[a].tok = add[a].tok /\ \A b \in Adders : b # a => add'[b] = add[b]
      BY <1>2, <1>4, <2>1 DEF StoreToken, AddStages
    <2>3. Fresh(a) /\ ~Fresh(a)' /\ \A b \in Adders : Fresh(b)' => Fresh(b) /\ add'[b].tok = add[b].tok
      BY <2>1, <2>2 DEF Fresh
    <2>4. \A i \in Slots : /\ add'[i].stage = "none" <=> add[i].stage = "none"
                           /\ add'[i].stage = "pending" => add[i].stage = "pending"
      BY <2>1, <2>2, Numbers
    <2> QED BY <1>1, <2>1, <2>3, <2>4, OthersInv
  <1>5. CASE StoreFails(a)
    BY <1>1, <1>5, EndsInv DEF StoreFails, synthVars, slotVars
  <1>6. CASE StorePairing(a) \/ NoSlot(a)
    <2>1. add[a].stage \in {"disk", "slot"}
          /\ UNCHANGED <<token, minted, loop, dialed, reminted, refused, asked, running>>
      BY <1>6 DEF StorePairing, NoSlot, synthVars, loopVars, slotVars
    <2>2. /\ add'[a].stage \in {"slot", "push"} /\ add'[a].tok = add[a].tok
          /\ \A b \in Adders : b # a => add'[b] = add[b]
      BY <1>2, <1>6, <2>1 DEF StorePairing, NoSlot, AddStages
    <2>3. \A b \in Adders : Fresh(b)' => Fresh(b) /\ add'[b].tok = add[b].tok
      BY <2>1, <2>2 DEF Fresh
    <2>4. \A i \in Slots : /\ add'[i].stage = "none" <=> add[i].stage = "none"
                           /\ add'[i].stage = "pending" => add[i].stage = "pending"
                           /\ add'[i].stage \in {"disk", "slot", "push"} => add[i].stage \in {"disk", "slot", "push"}
      BY <2>1, <2>2, Numbers
    <2> QED BY <1>1, <2>1, <2>3, <2>4, OthersInv
  <1>7. CASE UpdateSlot(a) \/ PushSlot(a)
    BY <1>1, <1>7, EndsInv DEF UpdateSlot, PushSlot, synthVars
  <1> QED BY <1>3, <1>4, <1>5, <1>6, <1>7 DEF Add

\* The owner pairs, and asks for a fresh token.
LEMMA PairInv == ASSUME LinkInv, PairBegin \/ PairConfirm \/ PairCancel \/ Again PROVE LinkInv'
  <1>1. Kept /\ Kept' /\ TypeOK /\ Owner \in Adders /\ Owner \notin Slots
    BY PairSteps, Numbers DEF LinkInv, Kept
  <1>2. CASE PairBegin
    <2>1. PICK src \in Sources :
               add' = [add EXCEPT ![Owner] = [stage |-> "pending", tok |-> minted', src |-> src]]
      BY <1>2 DEF PairBegin
    <2>2. [stage |-> "pending", tok |-> minted', src |-> src].stage = "pending"
          /\ [stage |-> "pending", tok |-> minted', src |-> src].tok = minted'
      OBVIOUS
    <2>3. /\ add'[Owner].stage = "pending" /\ add'[Owner].tok = minted'
          /\ \A b \in Adders : b # Owner => add'[b] = add[b]
      BY <1>1, <2>1, <2>2, AddTypes
    <2> QED BY <1>1, <1>2, <2>3, MintInv DEF PairBegin, slotVars
  <1>3. CASE PairConfirm \/ PairCancel \/ Again
    <2>1. UNCHANGED <<token, minted, loop, dialed, reminted, refused, asked, running>>
      BY <1>3 DEF PairConfirm, PairCancel, Again, synthVars, loopVars, slotVars
    <2>2. /\ \A b \in Adders : b # Owner => add'[b] = add[b]
          /\ Fresh(Owner)' => Fresh(Owner) /\ add'[Owner].tok = add[Owner].tok
      <3>1. CASE PairConfirm
        BY <1>1, <2>1, <3>1, GoesOn DEF PairConfirm, Fresh, AddStages
      <3>2. CASE PairCancel \/ Again
        <4>1. \E r \in {NoAdd, AskFresh} : add' = [add EXCEPT ![Owner] = r]
          BY <3>2 DEF PairCancel, Again, AskFresh
        <4>2. \A r \in {NoAdd, AskFresh} : r.stage \in {"none", "asking"}
          BY DEF NoAdd, AskFresh
        <4> QED BY <1>1, <4>1, <4>2, AddTypes DEF Fresh
      <3> QED BY <1>3, <3>1, <3>2
    <2>3. \A b \in Adders : Fresh(b)' => Fresh(b) /\ add'[b].tok = add[b].tok
      BY <2>2 DEF Fresh
    <2>4. \A i \in Slots : add'[i] = add[i]
      BY <1>1, <2>2, Numbers
    <2> QED BY <1>1, <2>1, <2>3, <2>4, OthersInv
  <1> QED BY <1>2, <1>3

\* The unlinks and the account: the token goes, or the platform is asked.
LEMMA RestInv ==
  ASSUME LinkInv,
         \/ SynthForgets \/ Unlink \/ \E u \in Callers : Wipe(u)
         \/ SyncBegin \/ Connect \/ SyncReads \/ SyncConnects \/ ConnectRepairs \/ SignOut \/ SignedOut
  PROVE  LinkInv'
  <1>1. Kept /\ Kept' /\ TypeOK /\ Account \in Adders /\ Account \notin Slots
    BY KeptStep, Numbers DEF LinkInv, Kept, Next
  <1>2. UNCHANGED <<minted, loop, dialed, reminted, refused, asked, running>> /\ token' \in {token, 0}
        /\ (add' = add \/ add' = [add EXCEPT ![Account] = AskFresh])
    <2>1. CASE SynthForgets \/ Unlink \/ SyncBegin \/ Connect \/ SyncReads \/ SignOut \/ SignedOut
      BY <2>1 DEF SynthForgets, Unlink, SyncBegin, Connect, SyncReads, SignOut, SignedOut,
                  loopVars, slotVars, synthVars
    <2>2. CASE SyncConnects \/ ConnectRepairs
      BY <2>2 DEF SyncConnects, ConnectRepairs, Asked, AskFresh, loopVars, slotVars, synthVars
    <2>3. CASE \E u \in Callers : Wipe(u)
      BY <2>3 DEF Wipe, Waited, WipeToken, Unlist, ErasePairing, loopVars, slotVars, synthVars
    <2> QED BY <2>1, <2>2, <2>3
  <1>3. \A i \in Slots : add'[i] = add[i]
    BY <1>1, <1>2, Numbers, AddTypes
  <1>4. \A b \in Adders : Fresh(b)' => Fresh(b) /\ add'[b].tok = add[b].tok
    <2>1. AskFresh.stage = "asking"
      BY DEF AskFresh
    <2> QED BY <1>1, <1>2, <2>1, AddTypes DEF Fresh
  <1> QED BY <1>1, <1>2, <1>3, <1>4, OthersInv

\* The invariant holds when the app starts.
LEMMA LinkInit == Init => LinkInv
  <1> SUFFICES ASSUME Init PROVE LinkInv
    OBVIOUS
  <1>1. Kept
    BY KeptInit
  <1>2. \A a \in Adders : add[a].stage = "none"
    BY DEF Init, NoAdd
  <1>3. FreshIsNew
    BY <1>2 DEF FreshIsNew, Fresh
  <1>4. ASSUME NEW i \in Slots PROVE SlotOk(i) /\ AskOk(i)
    <2>1. loop[i] = "off" /\ ~running[i] /\ refused[i] = {} /\ add[i].stage = "none"
      BY <1>2, Numbers DEF Init
    <2>2. asked[i] = 0
      BY DEF Init
    <2>3. SlotOk(i)
      BY <2>1 DEF SlotOk
    <2> QED BY <2>2, <2>3 DEF AskOk
  <1> QED BY <1>1, <1>3, <1>4 DEF LinkInv

\* Every step keeps it.
LEMMA LinkStep == LinkInv /\ [Next]_vars => LinkInv'
  <1> SUFFICES ASSUME LinkInv, [Next]_vars PROVE LinkInv'
    OBVIOUS
  <1>1. CASE Supervise
    BY <1>1, SuperviseInv
  <1>2. CASE \E i \in Slots : Loop(i) \/ Drop(i)
    BY <1>2, LoopInv
  <1>3. CASE PairBegin \/ PairConfirm \/ PairCancel \/ Again
    BY <1>3, PairInv
  <1>4. CASE \E a \in Adders : Add(a)
    BY <1>4, AddInv
  <1>5. CASE \/ SynthForgets \/ Unlink \/ \E u \in Callers : Wipe(u)
             \/ SyncBegin \/ Connect \/ SyncReads \/ SyncConnects \/ ConnectRepairs \/ SignOut \/ SignedOut
    BY <1>5, RestInv
  <1>6. CASE UNCHANGED vars
    <2>1. Kept'
      BY <1>6, KeptStep DEF LinkInv
    <2> QED BY <1>6, <2>1 DEF vars, slotVars, loopVars, synthVars, LinkInv, FreshIsNew, Fresh, SlotOk, AskOk
  <1> QED BY <1>1, <1>2, <1>3, <1>4, <1>5, <1>6 DEF Next

\* It holds in every reachable state.
LEMMA LinkInvariant == Spec => []LinkInv
  BY LinkInit, LinkStep, PTL DEF Spec

\* A synth that refuses the fresh token too is not asked for another one in a loop.
THEOREM AskedOnlyOnce == Spec => []AskedOnce
  <1>1. LinkInv => AskedOnce
    BY DEF LinkInv, AskOk, AskedOnce
  <1> QED BY <1>1, LinkInvariant, PTL

\* HTTP 401 stops the dialing until there is another token, whatever wakes the loop.
THEOREM NeverRedialed == Spec => []NoRedial
  <1>1. LinkInv => NoRedial
    BY DEF LinkInv, SlotOk, NoRedial
  <1> QED BY <1>1, LinkInvariant, PTL
=============================================================================
