---------------------------- MODULE OwnerProofs ----------------------------
(***************************************************************************)
(* What the owner is asked and what the owner says, proved.                *)
(*                                                                         *)
(* Asking, for every set of synths, scopes and asks: OwnersWord rests on   *)
(* AnswerDiscipline (an answer comes once, stays, and fits what may be     *)
(* remembered), and each writer of the grants only moves what it read.     *)
(* What was taken back stays off (TakenInv) because nothing of it is on    *)
(* its way, as an answer or in a list that was read.                       *)
(*                                                                         *)
(* The voice, for any keys, holds, messages and events: the microphone,    *)
(* the one message under way and what the island shows and plays.  The     *)
(* holds are in order only until something overlaps (Orderly), which is    *)
(* all the code promises; the flag `sending` keeps messages apart always.  *)
(***************************************************************************)
EXTENDS Approvals, MCVoice, FiniteSetTheorems, TLAPS

-----------------------------------------------------------------------------
(* Asking the owner, and remembering the answer.                           *)


AskInv ==
    /\ TypeOK
    /\ OwnersWord
    /\ NoAnswerIsRefusal
    /\ AnswerDiscipline

\* Nothing is asked and nothing allowed at first.
LEMMA InitAskInv == ApprovalsInit => AskInv
  <1> SUFFICES ASSUME ApprovalsInit PROVE AskInv
    OBVIOUS
  <1> USE AskAssumption
  <1>1. NoGrants \in [Keys -> Untils \ {Session}]
    BY DEF NoGrants, Untils, NoGrant, Session, Always
  <1>2. TypeOK
    <2>1. now \in 0 .. MaxTime
      BY DEF ApprovalsInit
    <2>2. grants \in [Keys -> Untils] /\ disk \in [Keys -> Untils \ {Session}]
      BY <1>1 DEF ApprovalsInit
    <2>3. list \in [Persisters -> [Keys -> Untils \ {Session}]]
      BY <1>1 DEF ApprovalsInit
    <2>4. halted \in BOOLEAN /\ pausing \in BOOLEAN
      BY DEF ApprovalsInit
    <2> QED
      BY <2>1, <2>2, <2>3, <2>4 DEF ApprovalsInit, TypeOK
  <1>3. OwnersWord
    BY DEF ApprovalsInit, OwnersWord, NoGrants
  <1>4. NoAnswerIsRefusal /\ AnswerDiscipline
    BY DEF ApprovalsInit, NoAnswerIsRefusal, AnswerDiscipline
  <1> QED
    BY <1>2, <1>3, <1>4 DEF AskInv

\* OwnerGave in the state after a step.
GaveNext(k, u) ==
    \E a \in Asks :
        /\ a \in yes' /\ AskKey[a] = k /\ ans'[a] = u
        /\ AskRemember[a] = "any" \/ (AskRemember[a] = "always" /\ u = Always)
        /\ a \in AskAhead => k[2] \notin OneByOne

\* An answer once given is not taken back, so what it allowed stays allowed.
LEMMA GaveStays ==
  ASSUME NEW k, NEW u, OwnerGave(k, u), u # NoAnswer, yes \subseteq yes',
         \A a \in Asks : ans[a] # NoAnswer => ans'[a] = ans[a]
  PROVE  GaveNext(k, u)
  BY DEF OwnerGave, GaveNext

\* A step that changes no answer, no grant and nothing on its way to disk.
LEMMA QuietStep ==
  ASSUME OwnersWord, UNCHANGED <<grants, disk, list, ans, yes>>
  PROVE  OwnersWord'
  BY DEF OwnersWord, OwnerGave

\* What is listed for the disk comes from the store.
LEMMA DurableType ==
  ASSUME TypeOK
  PROVE  /\ Durable \in [Keys -> Untils \ {Session}]
         /\ \A k \in Keys : Durable[k] # NoGrant => Durable[k] = grants[k]
  BY DEF TypeOK, Durable, Untils, NoGrant, Session, Always

\* No grant is a record of grants.
LEMMA NoGrantsType == NoGrants \in [Keys -> Untils \ {Session}] /\ \A k \in Keys : NoGrants[k] = NoGrant
  BY DEF NoGrants, Untils, NoGrant, Session, Always

\* Taking grants away keeps the rest.
LEMMA WithoutType ==
  ASSUME NEW T, NEW g \in [Keys -> T], NoGrant \in T, NEW s
  PROVE  /\ Without(g, s) \in [Keys -> T]
         /\ \A k \in Keys : Without(g, s)[k] # NoGrant => Without(g, s)[k] = g[k]
  BY DEF Without

\* What the history keeps are keys.
LEMMA TakenType ==
  ASSUME TypeOK
  PROVE  /\ \A keys \in SUBSET Keys : TakenBack(keys) => revoked' \in SUBSET Keys /\ overtaken' \in SUBSET Keys
         /\ \A k \in Keys : \A u : Given(k, u) => revoked' \in SUBSET Keys /\ overtaken' \in SUBSET Keys
  BY DEF TypeOK, TakenBack, Given, takenVars

\* A call that asks.
LEMMA CheckAskInv == ASSUME AskInv, NEW a \in Asks, Check(a) PROVE AskInv'
  <1>1. TypeOK'
    BY DEF AskInv, TypeOK, Check, linkVars, revokeVars, takenVars, pauseVars
  <1>2. OwnersWord'
    BY QuietStep DEF AskInv, Check
  <1>3. NoAnswerIsRefusal'
    BY DEF AskInv, TypeOK, NoAnswerIsRefusal, Check
  <1>4. AnswerDiscipline'
    BY DEF AskInv, TypeOK, AnswerDiscipline, Check, MayAskAhead
  <1> QED
    BY <1>1, <1>2, <1>3, <1>4 DEF AskInv

\* The answer to an ask in the window: whatever it is, nothing the owner
\* gave before changes.
LEMMA AnswersAskInv ==
  ASSUME AskInv, NEW A \in SUBSET InQueue, NEW d \in Answers, d = Deny \/ A \subseteq yes',
         yes \subseteq yes', yes' \subseteq Asks,
         task' = [a \in Asks |-> IF a \in A THEN "answered" ELSE task[a]],
         ans' = [a \in Asks |-> IF a \in A THEN Clamped(a, d) ELSE ans[a]],
         UNCHANGED <<grants, list, caller>>, \A k \in Keys : disk'[k] \in {disk[k], NoGrant}
  PROVE  OwnersWord' /\ NoAnswerIsRefusal' /\ AnswerDiscipline' /\ ans' \in [Asks -> Answers \cup {NoAnswer}]
  <1>1. \A a \in Asks : Clamped(a, d) \in Answers
    BY DEF Clamped, Answers
  <1>2. \A a \in Asks : ans[a] # NoAnswer => ans'[a] = ans[a]
    BY DEF AskInv, AnswerDiscipline, InQueue
  <1>3. OwnersWord'
    <2> SUFFICES ASSUME NEW k \in Keys
                 PROVE  /\ grants'[k] # NoGrant => GaveNext(k, grants'[k])
                        /\ disk'[k] # NoGrant => GaveNext(k, disk'[k])
                        /\ \A p \in Persisters : list'[p][k] # NoGrant => GaveNext(k, list'[p][k])
      BY DEF OwnersWord, OwnerGave, GaveNext
    <2>1. \A u \in Untils : OwnerGave(k, u) => GaveNext(k, u)
      <3>1. \A u \in Untils : u # NoAnswer
        BY DEF Untils, NoAnswer, NoGrant, Session, Always
      <3> QED
        BY <1>2, <3>1, GaveStays
    <2>2. /\ grants[k] # NoGrant => OwnerGave(k, grants[k])
          /\ disk[k] # NoGrant => OwnerGave(k, disk[k])
          /\ \A p \in Persisters : list[p][k] # NoGrant => OwnerGave(k, list[p][k])
      BY DEF AskInv, OwnersWord
    <2>3. /\ grants[k] \in Untils /\ disk[k] \in Untils
          /\ \A p \in Persisters : list[p][k] \in Untils
      BY DEF AskInv, TypeOK
    <2> QED
      BY <2>1, <2>2, <2>3
  <1>4. NoAnswerIsRefusal'
    BY DEF AskInv, NoAnswerIsRefusal
  <1>5. AnswerDiscipline'
    <2> SUFFICES ASSUME NEW a \in Asks
                 PROVE  /\ caller[a] = "idle" => task'[a] = "idle"
                        /\ task'[a] \in {"idle", "checked", "window"} => ans'[a] = NoAnswer
                        /\ task'[a] \in {"answered", "recorded", "listed"} => ans'[a] # NoAnswer
                        /\ ans'[a] \notin {NoAnswer, Deny} =>
                              a \in yes' /\ RememberAllows(AskRemember[a], ans'[a])
                        /\ task'[a] # "idle" /\ a \in AskAhead => MayAskAhead(a)
      BY DEF AnswerDiscipline, MayAskAhead, RememberAllows
    <2>1. CASE a \in A
      <3>1. task[a] = "window" /\ task'[a] = "answered" /\ ans'[a] = Clamped(a, d)
        BY <2>1 DEF InQueue
      <3>2. ans'[a] # NoAnswer
        BY <1>1, <3>1 DEF Answers, NoAnswer, Deny, Once, Session, Always
      <3>3. ans'[a] # Deny => a \in yes' /\ RememberAllows(AskRemember[a], ans'[a])
        BY <2>1, <3>1 DEF Clamped, RememberAllows, Once, Deny
      <3> QED
        BY <3>1, <3>2, <3>3 DEF AskInv, AnswerDiscipline
    <2>2. CASE a \notin A
      <3>1. task'[a] = task[a] /\ ans'[a] = ans[a]
        BY <2>2
      <3> QED
        BY <3>1 DEF AskInv, AnswerDiscipline
    <2> QED
      BY <2>1, <2>2
  <1>6. ans' \in [Asks -> Answers \cup {NoAnswer}]
    BY <1>1 DEF AskInv, TypeOK
  <1> QED
    BY <1>3, <1>4, <1>5, <1>6

\* The owner answers.
LEMMA OwnerAnswersAskInv ==
  ASSUME AskInv, NEW a \in Asks, NEW approval \in Answers, OwnerAnswers(a, approval) PROVE AskInv'
  <1>1. task' = [b \in Asks |-> IF b \in {a} THEN "answered" ELSE task[b]]
    BY DEF AskInv, TypeOK, OwnerAnswers, Answered
  <1>2. ans' = [b \in Asks |-> IF b \in {a} THEN Clamped(b, approval) ELSE ans[b]]
    BY DEF AskInv, TypeOK, OwnerAnswers, Answered
  <1>3. {a} \in SUBSET InQueue
    BY DEF OwnerAnswers, InQueue
  <1>4. yes \subseteq yes' /\ yes' \subseteq Asks /\ (approval = Deny \/ {a} \subseteq yes')
    BY DEF OwnerAnswers, AskInv, TypeOK
  <1>5. UNCHANGED <<grants, disk, list, caller>>
    BY DEF OwnerAnswers
  <1>6. OwnersWord' /\ NoAnswerIsRefusal' /\ AnswerDiscipline' /\ ans' \in [Asks -> Answers \cup {NoAnswer}]
    BY <1>1, <1>2, <1>3, <1>4, <1>5, AnswersAskInv
  <1>8. revoked' \in SUBSET Keys /\ overtaken' \in SUBSET Keys
    BY TakenType, AskAssumption DEF AskAssumption, AskInv, OwnerAnswers
  <1>7. TypeOK'
    BY <1>1, <1>4, <1>6, <1>8 DEF AskInv, TypeOK, OwnerAnswers, linkVars, revokeVars, takenVars, pauseVars
  <1> QED
    BY <1>6, <1>7 DEF AskInv

\* Nobody answers in time.
LEMMA ApproverTimesOutAskInv ==
  ASSUME AskInv, NEW a \in Asks, ApproverTimesOut(a) PROVE AskInv'
  <1>1. task' = [b \in Asks |-> IF b \in {a} THEN "answered" ELSE task[b]]
    BY DEF AskInv, TypeOK, ApproverTimesOut, Answered
  <1>2. ans' = [b \in Asks |-> IF b \in {a} THEN Clamped(b, Deny) ELSE ans[b]]
    BY DEF AskInv, TypeOK, ApproverTimesOut, Answered
  <1>3. {a} \in SUBSET InQueue /\ Deny \in Answers
    BY DEF ApproverTimesOut, InQueue, Answers
  <1>4. yes \subseteq yes' /\ yes' \subseteq Asks /\ UNCHANGED <<grants, disk, list, caller>>
    BY DEF ApproverTimesOut, AskInv, TypeOK
  <1>6. OwnersWord' /\ NoAnswerIsRefusal' /\ AnswerDiscipline' /\ ans' \in [Asks -> Answers \cup {NoAnswer}]
    BY <1>1, <1>2, <1>3, <1>4, AnswersAskInv
  <1>7. TypeOK'
    BY <1>1, <1>4, <1>6 DEF AskInv, TypeOK, ApproverTimesOut, linkVars, revokeVars, takenVars, pauseVars
  <1> QED
    BY <1>6, <1>7 DEF AskInv

\* Everything in the window is refused.
LEMMA DenyAllKeeps ==
  ASSUME AskInv, DenyAll, UNCHANGED <<grants, list, caller, yes>>,
         \A k \in Keys : disk'[k] \in {disk[k], NoGrant}
  PROVE  /\ OwnersWord' /\ NoAnswerIsRefusal' /\ AnswerDiscipline'
         /\ ans' \in [Asks -> Answers \cup {NoAnswer}]
         /\ task' \in [Asks -> {"idle", "checked", "window", "answered", "recorded", "listed", "done"}]
  <1>1. \A b \in Asks : Clamped(b, Deny) = Deny
    BY DEF Clamped
  <1>2. ans' = [b \in Asks |-> IF b \in InQueue THEN Clamped(b, Deny) ELSE ans[b]]
    BY <1>1 DEF DenyAll
  <1>3. task' = [b \in Asks |-> IF b \in InQueue THEN "answered" ELSE task[b]] /\ Deny \in Answers
    BY DEF DenyAll, Answers
  <1>4. yes \subseteq yes' /\ yes' \subseteq Asks
    BY DEF AskInv, TypeOK
  <1>5. task' \in [Asks -> {"idle", "checked", "window", "answered", "recorded", "listed", "done"}]
    BY <1>3 DEF AskInv, TypeOK
  <1> QED
    BY <1>2, <1>3, <1>4, <1>5, AnswersAskInv

\* A step of the store, the disk and the lists that only moves what the owner
\* gave from one to another, or drops it.
LEMMA GrantsMove ==
  ASSUME AskInv, UNCHANGED <<ans, yes>>,
         \A k \in Keys :
            /\ grants'[k] # NoGrant => OwnerGave(k, grants'[k])
            /\ disk'[k] # NoGrant => OwnerGave(k, disk'[k])
            /\ \A p \in Persisters : list'[p][k] # NoGrant => OwnerGave(k, list'[p][k])
  PROVE  OwnersWord'
  BY DEF OwnersWord, OwnerGave

\* What is in the store, on disk and in the lists is the owner's.
LEMMA OwnersWordAt ==
  ASSUME AskInv, NEW k \in Keys
  PROVE  /\ grants[k] # NoGrant => OwnerGave(k, grants[k])
         /\ disk[k] # NoGrant => OwnerGave(k, disk[k])
         /\ \A p \in Persisters : list[p][k] # NoGrant => OwnerGave(k, list[p][k])
  BY DEF AskInv, OwnersWord

\* The answer is recorded in memory.
LEMMA TaskRecordsAskInv == ASSUME AskInv, NEW a \in Asks, TaskRecords(a) PROVE AskInv'
  <1> USE AskAssumption
  <1>1. AskKey[a] \in Keys /\ ans[a] \in Answers /\ task[a] = "answered"
    BY DEF AskInv, TypeOK, AnswerDiscipline, TaskRecords
  <1>2. ans[a] \notin {Deny, Once} => ans[a] \in Untils
    BY <1>1 DEF Answers, Untils
  <1>3. grants' \in [Keys -> Untils]
    BY <1>1, <1>2 DEF AskInv, TypeOK, TaskRecords, Record
  <1>4. TypeOK'
    BY <1>3 DEF AskInv, TypeOK, TaskRecords, linkVars, revokeVars, takenVars, pauseVars
  <1>5. ans[a] \notin {Deny, Once} => OwnerGave(AskKey[a], ans[a])
    BY <1>1 DEF AskInv, AnswerDiscipline, OwnerGave, RememberAllows, MayAskAhead, Answers, NoAnswer,
                Deny, Once, Session, Always
  <1>6. OwnersWord'
    <2>1. ASSUME NEW k \in Keys, grants'[k] # NoGrant PROVE OwnerGave(k, grants'[k])
      <3>1. CASE ans[a] \in {Deny, Once} \/ k # AskKey[a]
        BY <2>1, <3>1, OwnersWordAt DEF TaskRecords, Record, AskInv, TypeOK
      <3>2. CASE ans[a] \notin {Deny, Once} /\ k = AskKey[a]
        BY <3>2, <1>1, <1>5 DEF TaskRecords, Record, AskInv, TypeOK
      <3> QED
        BY <3>1, <3>2
    <2>2. UNCHANGED <<ans, yes, disk, list>>
      BY DEF TaskRecords
    <2> QED
      BY <2>1, <2>2, OwnersWordAt, GrantsMove
  <1>7. NoAnswerIsRefusal' /\ AnswerDiscipline'
    BY <1>1 DEF AskInv, TypeOK, NoAnswerIsRefusal, AnswerDiscipline, TaskRecords, MayAskAhead, RememberAllows
  <1> QED
    BY <1>4, <1>6, <1>7 DEF AskInv

\* Any writer reads the durable grants.
LEMMA ListKeeps ==
  ASSUME AskInv, NEW p \in Persisters, list' = [list EXCEPT ![p] = Durable],
         UNCHANGED <<ans, yes, grants, disk>>
  PROVE  OwnersWord' /\ list' \in [Persisters -> [Keys -> Untils \ {Session}]]
  <1>1. list' \in [Persisters -> [Keys -> Untils \ {Session}]]
    BY DurableType DEF AskInv, TypeOK
  <1>2. ASSUME NEW q \in Persisters, NEW k \in Keys, list'[q][k] # NoGrant
        PROVE  OwnerGave(k, list'[q][k])
    <2>1. CASE q = p
      BY <1>2, <2>1, DurableType, OwnersWordAt DEF AskInv, TypeOK
    <2>2. CASE q # p
      BY <1>2, <2>2, OwnersWordAt DEF AskInv, TypeOK
    <2> QED
      BY <2>1, <2>2
  <1> QED
    BY <1>1, <1>2, OwnersWordAt, GrantsMove

\* ... and writes what it read.
LEMMA WriteKeeps ==
  ASSUME AskInv, NEW p \in Persisters, disk' = list[p], list' = [list EXCEPT ![p] = NoGrants],
         UNCHANGED <<ans, yes, grants>>
  PROVE  /\ OwnersWord' /\ disk' \in [Keys -> Untils \ {Session}]
         /\ list' \in [Persisters -> [Keys -> Untils \ {Session}]]
  <1>1. disk' \in [Keys -> Untils \ {Session}] /\ list' \in [Persisters -> [Keys -> Untils \ {Session}]]
    BY NoGrantsType DEF AskInv, TypeOK
  <1>2. ASSUME NEW q \in Persisters, NEW k \in Keys, list'[q][k] # NoGrant
        PROVE  OwnerGave(k, list'[q][k])
    <2>1. q # p /\ list'[q] = list[q]
      BY <1>2, NoGrantsType DEF AskInv, TypeOK
    <2> QED
      BY <1>2, <2>1, OwnersWordAt
  <1> QED
    BY <1>1, <1>2, OwnersWordAt, GrantsMove

\* ... listed.
LEMMA TaskListsAskInv == ASSUME AskInv, NEW a \in Asks, TaskLists(a) PROVE AskInv'
  <1>1. OwnersWord' /\ list' \in [Persisters -> [Keys -> Untils \ {Session}]]
    BY ListKeeps DEF TaskLists, Persisters
  <1>2. TypeOK'
    BY <1>1 DEF AskInv, TypeOK, TaskLists, linkVars, revokeVars, takenVars, pauseVars
  <1>3. NoAnswerIsRefusal' /\ AnswerDiscipline'
    BY DEF AskInv, TypeOK, NoAnswerIsRefusal, AnswerDiscipline, TaskLists, MayAskAhead, RememberAllows
  <1> QED
    BY <1>1, <1>2, <1>3 DEF AskInv

\* ... and written.
LEMMA TaskWritesAskInv == ASSUME AskInv, NEW a \in Asks, TaskWrites(a) PROVE AskInv'
  <1>1. /\ OwnersWord' /\ disk' \in [Keys -> Untils \ {Session}]
        /\ list' \in [Persisters -> [Keys -> Untils \ {Session}]]
    BY WriteKeeps DEF TaskWrites, Persisters
  <1>2. TypeOK'
    BY <1>1 DEF AskInv, TypeOK, TaskWrites, linkVars, revokeVars, takenVars, pauseVars
  <1>3. NoAnswerIsRefusal' /\ AnswerDiscipline'
    BY DEF AskInv, TypeOK, NoAnswerIsRefusal, AnswerDiscipline, TaskWrites, MayAskAhead, RememberAllows
  <1> QED
    BY <1>1, <1>2, <1>3 DEF AskInv

\* The stream that asked moves on without an answer, or its ask reaches the
\* window: nothing is given.
LEMMA StreamAskInv ==
  ASSUME AskInv, NEW a \in Asks, Ask(a) \/ CoreTimesOut(a) \/ StreamAborted(a) PROVE AskInv'
  <1>1. TypeOK'
    BY DEF AskInv, TypeOK, Ask, CoreTimesOut, StreamAborted, linkVars, revokeVars, takenVars, pauseVars
  <1>2. OwnersWord'
    BY QuietStep DEF AskInv, Ask, CoreTimesOut, StreamAborted
  <1>3. NoAnswerIsRefusal' /\ AnswerDiscipline'
    BY DEF AskInv, TypeOK, NoAnswerIsRefusal, AnswerDiscipline, Ask, CoreTimesOut, StreamAborted,
           MayAskAhead, RememberAllows
  <1> QED
    BY <1>1, <1>2, <1>3 DEF AskInv

\* A step that touches neither asks nor answers, and of the grants only drops.
LEMMA OwnerStepAskInv ==
  ASSUME AskInv, TypeOK', UNCHANGED <<task, ans, yes, caller>>,
         \A k \in Keys : /\ grants'[k] \in {grants[k], disk[k], NoGrant}
                         /\ disk'[k] \in {disk[k], NoGrant}
                         /\ \A p \in Persisters : list'[p][k] \in {list[p][k], NoGrant}
  PROVE  AskInv'
  <1>1. OwnersWord'
    BY OwnersWordAt, GrantsMove
  <1>2. NoAnswerIsRefusal' /\ AnswerDiscipline'
    BY DEF AskInv, NoAnswerIsRefusal, AnswerDiscipline, MayAskAhead, RememberAllows
  <1> QED
    BY <1>1, <1>2 DEF AskInv

\* The owner takes a grant back, which is listed and written after it.
LEMMA RevokeAskInv ==
  ASSUME AskInv, (\E k \in Keys : Revoke(k)) \/ RevokeLists \/ RevokeWrites PROVE AskInv'
  <1>0. NoGrant \in Untils
    BY DEF Untils
  <1>1. ASSUME NEW k \in Keys, Revoke(k) PROVE AskInv'
    <2>1. TypeOK'
      BY <1>0, <1>1, TakenType DEF AskInv, TypeOK, Revoke, linkVars, pauseVars
    <2> QED
      BY <1>1, <2>1, OwnerStepAskInv DEF Revoke, AskInv, TypeOK
  <1>2. CASE RevokeLists
    <2>1. OwnersWord' /\ list' \in [Persisters -> [Keys -> Untils \ {Session}]]
      BY <1>2, ListKeeps DEF RevokeLists, Persisters
    <2>2. TypeOK'
      BY <1>2, <2>1 DEF AskInv, TypeOK, RevokeLists, linkVars, takenVars, pauseVars
    <2>3. NoAnswerIsRefusal' /\ AnswerDiscipline'
      BY <1>2 DEF AskInv, NoAnswerIsRefusal, AnswerDiscipline, RevokeLists, MayAskAhead, RememberAllows
    <2> QED
      BY <2>1, <2>2, <2>3 DEF AskInv
  <1>3. CASE RevokeWrites
    <2>1. /\ OwnersWord' /\ disk' \in [Keys -> Untils \ {Session}]
          /\ list' \in [Persisters -> [Keys -> Untils \ {Session}]]
      BY <1>3, WriteKeeps DEF RevokeWrites, Persisters
    <2>2. TypeOK'
      BY <1>3, <2>1 DEF AskInv, TypeOK, RevokeWrites, linkVars, takenVars, pauseVars
    <2>3. NoAnswerIsRefusal' /\ AnswerDiscipline'
      BY <1>3 DEF AskInv, NoAnswerIsRefusal, AnswerDiscipline, RevokeWrites, MayAskAhead, RememberAllows
    <2> QED
      BY <2>1, <2>2, <2>3 DEF AskInv
  <1> QED
    BY <1>1, <1>2, <1>3

\* The window closes, a pause with its refusals, a resume.
LEMMA PauseAskInv ==
  ASSUME AskInv, CloseWindow \/ PauseDenies \/ PauseSets \/ Resume PROVE AskInv'
  <1>1. CASE CloseWindow \/ PauseDenies
    <2>1. /\ OwnersWord' /\ NoAnswerIsRefusal' /\ AnswerDiscipline'
          /\ ans' \in [Asks -> Answers \cup {NoAnswer}]
          /\ task' \in [Asks -> {"idle", "checked", "window", "answered", "recorded", "listed", "done"}]
      BY <1>1, DenyAllKeeps DEF CloseWindow, PauseDenies
    <2>2. TypeOK'
      BY <1>1, <2>1 DEF AskInv, TypeOK, CloseWindow, PauseDenies, linkVars, revokeVars, takenVars, pauseVars
    <2> QED
      BY <2>1, <2>2 DEF AskInv
  <1>2. CASE PauseSets \/ Resume
    <2>1. TypeOK'
      BY <1>2 DEF AskInv, TypeOK, PauseSets, Resume, linkVars, revokeVars, takenVars
    <2> QED
      BY <1>2, <2>1, OwnerStepAskInv DEF PauseSets, Resume
  <1> QED
    BY <1>1, <1>2

\* An unlink wipes the memory.
LEMMA WipeMemoryAskInv == ASSUME AskInv, NEW s \in Synths, WipeMemory(s) PROVE AskInv'
  <1>1. /\ Without(grants, s) \in [Keys -> Untils]
        /\ \A k \in Keys : Without(grants, s)[k] # NoGrant => Without(grants, s)[k] = grants[k]
    <2>1. NoGrant \in Untils
      BY DEF Untils
    <2> QED
      BY <2>1, WithoutType DEF AskInv, TypeOK
  <1>3. revoked' \in SUBSET Keys /\ overtaken' \in SUBSET Keys
    <2>1. {s} \X Scopes \in SUBSET Keys
      BY DEF Keys
    <2> QED BY <2>1, TakenType DEF WipeMemory, AskInv
  <1>2. TypeOK'
    BY <1>1, <1>3 DEF AskInv, TypeOK, WipeMemory, revokeVars, takenVars, pauseVars
  <1> QED
    BY <1>1, <1>2, OwnerStepAskInv DEF WipeMemory

\* ... and the disk.
LEMMA WipeDiskAskInv ==
  ASSUME AskInv, NEW s \in Synths, NEW byOwner \in BOOLEAN, WipeDisk(s, byOwner) PROVE AskInv'
  <1>0. NoGrant \in Untils \ {Session}
    BY DEF Untils, NoGrant, Session
  <1>1. /\ Without(disk, s) \in [Keys -> Untils \ {Session}]
        /\ \A k \in Keys : Without(disk, s)[k] # NoGrant => Without(disk, s)[k] = disk[k]
    BY <1>0, WithoutType DEF AskInv, TypeOK
  <1>2. disk' = Without(disk, s) /\ UNCHANGED <<grants, list, caller, yes>>
    BY DEF WipeDisk, linkVars
  <1>3. /\ now' \in 0 .. MaxTime /\ grants' \in [Keys -> Untils] /\ links' \in SUBSET Synths
        /\ paired' \in SUBSET Synths /\ tokens' \in SUBSET Synths /\ wiping' \in SUBSET Synths
        /\ list' \in [Persisters -> [Keys -> Untils \ {Session}]] /\ yes' \in SUBSET Asks
        /\ caller' \in [Asks -> {"idle", "waiting", "granted", "allowed", "denied", "gone"}]
        /\ revoking' \in {"idle", "revoked", "listed"} /\ revoked' \in SUBSET Keys /\ overtaken' \in SUBSET Keys
        /\ pausing' \in BOOLEAN /\ halted' \in BOOLEAN
    BY DEF AskInv, TypeOK, WipeDisk, linkVars, revokeVars, takenVars
  <1>4. CASE UNCHANGED <<task, ans>>
    <2>1. TypeOK'
      BY <1>1, <1>2, <1>3, <1>4 DEF AskInv, TypeOK
    <2> QED
      BY <1>1, <1>2, <1>4, <2>1, OwnerStepAskInv
  <1>5. CASE DenyAll
    <2>1. /\ OwnersWord' /\ NoAnswerIsRefusal' /\ AnswerDiscipline'
          /\ ans' \in [Asks -> Answers \cup {NoAnswer}]
          /\ task' \in [Asks -> {"idle", "checked", "window", "answered", "recorded", "listed", "done"}]
      BY <1>1, <1>2, <1>5, DenyAllKeeps
    <2>2. TypeOK'
      BY <1>1, <1>2, <1>3, <2>1 DEF TypeOK
    <2> QED
      BY <2>1, <2>2 DEF AskInv
  <1> QED
    BY <1>4, <1>5 DEF WipeDisk

\* Restored grants were on disk, so the owner gave them.
LEMMA RestartAskInv == ASSUME AskInv, Restart PROVE AskInv'
  <1>0. NoGrant \in Untils
    BY DEF Untils
  <1>1. /\ grants' \in [Keys -> Untils]
        /\ \A k \in Keys : grants'[k] \in {disk[k], NoGrant}
    BY <1>0 DEF AskInv, TypeOK, Restart, Restored
  <1>2. /\ list' \in [Persisters -> [Keys -> Untils \ {Session}]]
        /\ \A p \in Persisters, k \in Keys : list'[p][k] = NoGrant
    BY NoGrantsType DEF Restart
  <1>3. OwnersWord'
    <2>1. \A k \in Keys :
            /\ grants'[k] # NoGrant => OwnerGave(k, grants'[k])
            /\ disk'[k] # NoGrant => OwnerGave(k, disk'[k])
            /\ \A p \in Persisters : list'[p][k] # NoGrant => OwnerGave(k, list'[p][k])
      BY <1>1, <1>2, OwnersWordAt DEF Restart
    <2> QED
      BY <2>1, GrantsMove DEF Restart
  <1>4. task' \in [Asks -> {"idle", "checked", "window", "answered", "recorded", "listed", "done"}]
    BY DEF AskInv, TypeOK, Restart
  <1>5. caller' \in [Asks -> {"idle", "waiting", "granted", "allowed", "denied", "gone"}]
    BY DEF AskInv, TypeOK, Restart
  <1>6. revoked' \in SUBSET Keys /\ overtaken' \in SUBSET Keys /\ links' \in SUBSET Synths
    BY DEF AskInv, TypeOK, Restart
  <1>7. TypeOK'
    BY <1>1, <1>2, <1>4, <1>5, <1>6 DEF AskInv, TypeOK, Restart
  <1>8. NoAnswerIsRefusal' /\ AnswerDiscipline'
    BY DEF AskInv, TypeOK, NoAnswerIsRefusal, AnswerDiscipline, Restart, MayAskAhead, RememberAllows
  <1> QED
    BY <1>3, <1>7, <1>8 DEF AskInv

\* Every step keeps the invariant.
LEMMA NextAskInv == AskInv /\ [ApprovalsNext]_approvalVars => AskInv'
  <1> SUFFICES ASSUME AskInv, [ApprovalsNext]_approvalVars PROVE AskInv'
    OBVIOUS
  <1>1. ASSUME NEW a \in Asks, Check(a) PROVE AskInv'
    BY <1>1, CheckAskInv
  <1>2. ASSUME NEW a \in Asks, Ask(a) \/ CoreTimesOut(a) \/ StreamAborted(a) PROVE AskInv'
    BY <1>2, StreamAskInv
  <1>3. ASSUME NEW a \in Asks, ApproverTimesOut(a) PROVE AskInv'
    BY <1>3, ApproverTimesOutAskInv
  <1>4. ASSUME NEW a \in Asks, NEW approval \in Answers, OwnerAnswers(a, approval) PROVE AskInv'
    BY <1>4, OwnerAnswersAskInv
  <1>5. ASSUME NEW a \in Asks, TaskRecords(a) \/ TaskLists(a) \/ TaskWrites(a) PROVE AskInv'
    BY <1>5, TaskRecordsAskInv, TaskListsAskInv, TaskWritesAskInv
  <1>6. CASE (\E k \in Keys : Revoke(k)) \/ RevokeLists \/ RevokeWrites
    BY <1>6, RevokeAskInv
  <1>7. CASE CloseWindow \/ PauseDenies \/ PauseSets \/ Resume
    BY <1>7, PauseAskInv
  <1>8. ASSUME NEW s \in Synths, WipeMemory(s) PROVE AskInv'
    BY <1>8, WipeMemoryAskInv
  <1>9. ASSUME NEW s \in Synths, NEW byOwner \in BOOLEAN, WipeDisk(s, byOwner) PROVE AskInv'
    BY <1>9, WipeDiskAskInv
  <1>10. ASSUME NEW s \in Synths, Pair(s) PROVE AskInv'
    <2>1. TypeOK'
      BY <1>10 DEF AskInv, TypeOK, Pair, revokeVars, takenVars, pauseVars
    <2> QED
      BY <1>10, <2>1, OwnerStepAskInv DEF Pair
  <1>11. CASE WipeRest
    <2>1. grants' \in [Keys -> Untils] /\ disk' \in [Keys -> Untils \ {Session}]
      BY <1>11, NoGrantsType DEF WipeRest
    <2>2. TypeOK'
      BY <1>11, <2>1, TakenType DEF AskInv, TypeOK, WipeRest
    <2> QED
      BY <1>11, <2>2, NoGrantsType, OwnerStepAskInv DEF WipeRest
  <1>12. CASE Restart
    BY <1>12, RestartAskInv
  <1>13. CASE Tick
    <2>1. TypeOK'
      BY <1>13, AskAssumption DEF AskInv, TypeOK, Tick, linkVars, revokeVars, takenVars, pauseVars
    <2> QED
      BY <1>13, <2>1, OwnerStepAskInv DEF Tick
  <1>14. CASE UNCHANGED approvalVars
    <2>1. TypeOK'
      BY <1>14 DEF AskInv, TypeOK, approvalVars, linkVars, revokeVars, takenVars, pauseVars
    <2> QED
      BY <1>14, <2>1, OwnerStepAskInv DEF approvalVars
  <1> QED
    BY <1>1, <1>2, <1>3, <1>4, <1>5, <1>6, <1>7, <1>8, <1>9, <1>10, <1>11, <1>12, <1>13, <1>14
       DEF ApprovalsNext

\* What was taken back and not overtaken is off: not in the store, not on its way, and not on
\* disk but while the command that takes it back is under way.
Off(k) ==
    /\ grants[k] = NoGrant /\ ~OnItsWay(k)
    /\ revoking = "idle" /\ k[1] \notin wiping => disk[k] = NoGrant

TakenInv == \A k \in revoked \ overtaken : Off(k)

\* A step after which one is still off: nothing is read that was not there and nothing
\* answered that lasts.
LEMMA StaysOff ==
  ASSUME NEW k \in Keys, ~OnItsWay(k), grants'[k] = NoGrant, \A p \in Persisters : list'[p][k] = NoGrant,
         \A a \in Asks : AskKey[a] = k /\ task'[a] = "answered" /\ Lasts(ans'[a]) => task[a] = "answered" /\ ans'[a] = ans[a],
         revoking' = "idle" /\ k[1] \notin wiping' => disk'[k] = NoGrant
  PROVE  Off(k)'
  BY DEF Off, OnItsWay

\* Of what is off, no writer has read anything.
LEMMA OffIsUnread ==
  ASSUME AskInv, NEW k \in Keys, Off(k)
  PROVE  (\A p \in Persisters : list[p][k] = NoGrant) /\ Durable[k] = NoGrant
  BY DurableType DEF AskInv, Off, OnItsWay

\* No answer of the window lasts but the owner's.
LEMMA DenialsDoNotLast ==
  ASSUME AskInv, \/ DenyAll \/ UNCHANGED <<task, ans>>
                 \/ \E a \in Asks : ApproverTimesOut(a)
  PROVE  \A a \in Asks : task'[a] = "answered" /\ Lasts(ans'[a]) => task[a] = "answered" /\ ans'[a] = ans[a]
  <1>1. ASSUME NEW b \in Asks, ApproverTimesOut(b), NEW a \in Asks
        PROVE  task'[a] = "answered" /\ Lasts(ans'[a]) => task[a] = "answered" /\ ans'[a] = ans[a]
    <2>1. task' = [task EXCEPT ![b] = "answered"] /\ ans' = [ans EXCEPT ![b] = Deny]
      BY <1>1 DEF ApproverTimesOut, Answered, Clamped
    <2> QED BY <2>1 DEF AskInv, TypeOK, Lasts
  <1>2. CASE DenyAll
    BY <1>2 DEF DenyAll, AskInv, TypeOK, Lasts
  <1> QED BY <1>1, <1>2

\* Steps that leave the store, the disk, the lists and what was taken back alone.
LEMMA QuietTaken ==
  ASSUME AskInv, TakenInv, UNCHANGED <<grants, disk, list, revoking, wiping>>,
         \A k \in revoked' \ overtaken' : k \in revoked \ overtaken,
         \A k \in revoked' \ overtaken' : \A a \in Asks :
             AskKey[a] = k /\ task'[a] = "answered" /\ Lasts(ans'[a]) => task[a] = "answered" /\ ans'[a] = ans[a]
  PROVE  TakenInv'
  <1> SUFFICES ASSUME NEW k \in revoked' \ overtaken' PROVE Off(k)'
    BY DEF TakenInv
  <1>1. k \in Keys /\ Off(k)
    BY DEF AskInv, TypeOK, TakenInv
  <1> QED BY <1>1, StaysOff, OffIsUnread DEF Off

\* The asks.
LEMMA AsksTaken ==
  ASSUME AskInv, TakenInv, NEW a \in Asks,
         \/ Check(a) \/ Ask(a) \/ CoreTimesOut(a) \/ StreamAborted(a) \/ ApproverTimesOut(a)
         \/ \E approval \in Answers : OwnerAnswers(a, approval)
  PROVE  TakenInv'
  <1>1. CASE Check(a) \/ Ask(a) \/ CoreTimesOut(a) \/ StreamAborted(a)
    <2>1. UNCHANGED <<grants, disk, list, revoking, wiping, revoked, overtaken, ans>>
      BY <1>1 DEF Check, Ask, CoreTimesOut, StreamAborted, linkVars, revokeVars, takenVars
    <2>2. \A b \in Asks : task'[b] = "answered" => task[b] = "answered"
      BY <1>1 DEF Check, Ask, CoreTimesOut, StreamAborted, AskInv, TypeOK
    <2> QED BY <2>1, <2>2, QuietTaken
  <1>2. CASE ApproverTimesOut(a)
    <2>1. UNCHANGED <<grants, disk, list, revoking, wiping, revoked, overtaken>>
      BY <1>2 DEF ApproverTimesOut, linkVars, revokeVars, takenVars
    <2> QED BY <1>2, <2>1, QuietTaken, DenialsDoNotLast
  <1>3. ASSUME NEW approval \in Answers, OwnerAnswers(a, approval) PROVE TakenInv'
    <2>1. /\ UNCHANGED <<grants, disk, list, revoking, wiping>>
          /\ Given(AskKey[a], Clamped(a, approval))
          /\ task' = [task EXCEPT ![a] = "answered"] /\ ans' = [ans EXCEPT ![a] = Clamped(a, approval)]
      BY <1>3 DEF OwnerAnswers, Answered, linkVars
    <2>2. \A k \in revoked' \ overtaken' : k \in revoked \ overtaken /\ (Lasts(Clamped(a, approval)) => k # AskKey[a])
      BY <2>1 DEF Given, takenVars
    <2>3. \A k \in revoked' \ overtaken' : \A b \in Asks :
             AskKey[b] = k /\ task'[b] = "answered" /\ Lasts(ans'[b]) => task[b] = "answered" /\ ans'[b] = ans[b]
      BY <2>1, <2>2 DEF AskInv, TypeOK
    <2> QED BY <2>1, <2>2, <2>3, QuietTaken
  <1> QED BY <1>1, <1>2, <1>3

\* The task of an answer: what it records was on its way.
LEMMA TasksTaken ==
  ASSUME AskInv, TakenInv, NEW a \in Asks, TaskRecords(a) \/ TaskLists(a) \/ TaskWrites(a) PROVE TakenInv'
  <1> SUFFICES ASSUME NEW k \in revoked' \ overtaken' PROVE Off(k)'
    BY DEF TakenInv
  <1>1. UNCHANGED <<revoked, overtaken, revoking, wiping, ans>>
    BY DEF TaskRecords, TaskLists, TaskWrites, linkVars, revokeVars, takenVars
  <1>2. k \in Keys /\ Off(k) /\ grants[k] = NoGrant /\ ~OnItsWay(k)
    BY <1>1 DEF AskInv, TypeOK, TakenInv, Off
  <1>3. \A b \in Asks : task'[b] = "answered" => task[b] = "answered"
    BY DEF TaskRecords, TaskLists, TaskWrites, AskInv, TypeOK
  <1>4. grants'[k] = NoGrant
    <2>1. CASE TaskRecords(a)
      <3>1. ans[a] # NoAnswer /\ task[a] = "answered"
        BY <2>1 DEF TaskRecords, AskInv, AnswerDiscipline
      <3>2. k # AskKey[a] \/ ans[a] \in {Deny, Once}
        BY <1>2, <3>1 DEF OnItsWay, Lasts
      <3> QED BY <1>2, <2>1, <3>2 DEF TaskRecords, Record, AskInv, TypeOK
    <2>2. CASE TaskLists(a) \/ TaskWrites(a)
      BY <1>2, <2>2 DEF TaskLists, TaskWrites
    <2> QED BY <2>1, <2>2
  <1>5. \A p \in Persisters : list'[p][k] = NoGrant
    BY <1>2, OffIsUnread, NoGrantsType DEF TaskRecords, TaskLists, TaskWrites, AskInv, TypeOK, Persisters
  <1>6. revoking' = "idle" /\ k[1] \notin wiping' => disk'[k] = NoGrant
    BY <1>1, <1>2, OffIsUnread DEF TaskRecords, TaskLists, TaskWrites, Off, Persisters
  <1> QED BY <1>1, <1>2, <1>3, <1>4, <1>5, <1>6, StaysOff

\* A revoke: what it takes back is off unless it is on its way.
LEMMA RevokeTaken ==
  ASSUME AskInv, TakenInv, (\E k \in Keys : Revoke(k)) \/ RevokeLists \/ RevokeWrites PROVE TakenInv'
  <1> SUFFICES ASSUME NEW k \in revoked' \ overtaken' PROVE Off(k)'
    BY DEF TakenInv
  <1>1. ASSUME NEW q \in Keys, Revoke(q) PROVE Off(k)'
    <2>1. /\ TakenBack({q}) /\ revoking' = "revoked" /\ UNCHANGED <<list, task, ans>> /\ grants[q] # NoGrant
          /\ grants' = [grants EXCEPT ![q] = NoGrant]
      BY <1>1 DEF Revoke
    <2>2. k \in Keys /\ ~OnItsWay(k) /\ grants'[k] = NoGrant
      <3>1. CASE k = q
        BY <2>1, <3>1 DEF TakenBack, AskInv, TypeOK
      <3>2. CASE k # q
        <4>1. k \in revoked \ overtaken /\ k \in Keys
          BY <2>1, <3>2 DEF TakenBack, AskInv, TypeOK
        <4> QED BY <2>1, <3>2, <4>1 DEF TakenInv, Off, AskInv, TypeOK
      <3> QED BY <3>1, <3>2
    <2>3. \A p \in Persisters : list'[p][k] = NoGrant
      BY <2>1, <2>2 DEF OnItsWay
    <2> QED BY <2>1, <2>2, <2>3, StaysOff
  <1>2. CASE RevokeLists \/ RevokeWrites
    <2>1. UNCHANGED <<revoked, overtaken, wiping, grants, task, ans>>
      BY <1>2 DEF RevokeLists, RevokeWrites, linkVars, takenVars
    <2>2. k \in Keys /\ Off(k) /\ grants[k] = NoGrant /\ ~OnItsWay(k)
      BY <2>1 DEF AskInv, TypeOK, TakenInv, Off
    <2>3. \A p \in Persisters : list'[p][k] = NoGrant
      BY <1>2, <2>2, OffIsUnread, NoGrantsType DEF RevokeLists, RevokeWrites, AskInv, TypeOK, Persisters
    <2>4. revoking' = "idle" => disk'[k] = NoGrant
      BY <1>2, <2>2, OffIsUnread DEF RevokeLists, RevokeWrites, Persisters
    <2> QED BY <2>1, <2>2, <2>3, <2>4, StaysOff
  <1> QED BY <1>1, <1>2

\* What is wiped is off unless it is on its way; the disk follows before `wiping` ends.
LEMMA WipesTaken ==
  ASSUME AskInv, TakenInv,
         \/ \E s \in Synths : WipeMemory(s) \/ \E byOwner \in BOOLEAN : WipeDisk(s, byOwner)
         \/ WipeRest
  PROVE  TakenInv'
  <1> SUFFICES ASSUME NEW k \in revoked' \ overtaken' PROVE Off(k)'
    BY DEF TakenInv
  <1>1. ASSUME NEW s \in Synths, WipeMemory(s) PROVE Off(k)'
    <2>1. /\ TakenBack({s} \X Scopes) /\ UNCHANGED <<list, task, ans, disk, revoking>> /\ wiping' = wiping \cup {s}
          /\ grants' = Without(grants, s)
      BY <1>1 DEF WipeMemory
    <2>2. k \in Keys /\ revoked' \in SUBSET Keys
      BY <2>1, WipeMemoryAskInv, <1>1 DEF AskInv, TypeOK
    <2>3. ~OnItsWay(k) /\ (k \in {s} \X Scopes \/ Off(k))
      BY <2>1 DEF TakenBack, TakenInv, Off
    <2>4. grants'[k] = NoGrant
      BY <2>1, <2>2, <2>3 DEF Without, Off
    <2>5. \A p \in Persisters : list'[p][k] = NoGrant
      BY <2>1, <2>3 DEF OnItsWay
    <2>6. revoking' = "idle" /\ k[1] \notin wiping' => disk'[k] = NoGrant
      BY <2>1, <2>3 DEF Off
    <2> QED BY <2>1, <2>2, <2>3, <2>4, <2>5, <2>6, StaysOff
  <1>2. ASSUME NEW s \in Synths, NEW byOwner \in BOOLEAN, WipeDisk(s, byOwner) PROVE Off(k)'
    <2>1. /\ UNCHANGED <<grants, list, revoking, revoked, overtaken>> /\ wiping' = wiping \ {s} /\ disk' = Without(disk, s)
          /\ DenyAll \/ UNCHANGED <<task, ans>>
      BY <1>2 DEF WipeDisk, revokeVars, takenVars
    <2>2. k \in Keys /\ Off(k) /\ grants[k] = NoGrant /\ ~OnItsWay(k)
      BY <2>1 DEF AskInv, TypeOK, TakenInv, Off
    <2>3. revoking' = "idle" /\ k[1] \notin wiping' => disk'[k] = NoGrant
      BY <2>1, <2>2 DEF Off, Without
    <2> QED BY <2>1, <2>2, <2>3, OffIsUnread, DenialsDoNotLast, StaysOff
  <1>3. CASE WipeRest
    <2>1. TakenBack(Keys) /\ UNCHANGED <<list, task, ans>> /\ grants' = NoGrants /\ disk' = NoGrants
      BY <1>3 DEF WipeRest
    <2>2. k \in Keys /\ ~OnItsWay(k)
      BY <2>1 DEF TakenBack, TakenInv, Off, AskInv, TypeOK
    <2>3. \A p \in Persisters : list'[p][k] = NoGrant
      BY <2>1, <2>2 DEF OnItsWay
    <2> QED BY <2>1, <2>2, <2>3, NoGrantsType, StaysOff
  <1> QED BY <1>1, <1>2, <1>3

\* A start restores what the disk has, and that is not taken back.
LEMMA RestartTaken == ASSUME AskInv, Restart PROVE TakenInv'
  <1> SUFFICES ASSUME NEW k \in revoked' \ overtaken' PROVE Off(k)'
    BY DEF TakenInv
  <1>1. k \in Keys /\ disk'[k] = NoGrant /\ grants'[k] = NoGrant
    BY DEF Restart, Restored, AskInv, TypeOK
  <1>2. (\A p \in Persisters : list'[p][k] = NoGrant) /\ \A a \in Asks : task'[a] # "answered"
    BY <1>1, NoGrantsType DEF Restart
  <1> QED BY <1>1, <1>2 DEF Off, OnItsWay

LEMMA NextTaken == AskInv /\ TakenInv /\ [ApprovalsNext]_approvalVars => TakenInv'
  <1> SUFFICES ASSUME AskInv, TakenInv, [ApprovalsNext]_approvalVars PROVE TakenInv'
    OBVIOUS
  <1>1. CASE CloseWindow \/ PauseDenies \/ PauseSets \/ Resume \/ Tick \/ UNCHANGED approvalVars \/ \E s \in Synths : Pair(s)
    <2>1. UNCHANGED <<grants, disk, list, revoking, wiping, revoked, overtaken>> /\ (DenyAll \/ UNCHANGED <<task, ans>>)
      BY <1>1 DEF CloseWindow, PauseDenies, PauseSets, Resume, Tick, Pair, approvalVars, linkVars, revokeVars, takenVars
    <2> QED BY <2>1, QuietTaken, DenialsDoNotLast
  <1> QED BY <1>1, AsksTaken, TasksTaken, RevokeTaken, WipesTaken, RestartTaken DEF ApprovalsNext

\* The inductive invariant of asking and remembering.
THEOREM ApprovalsInvariant == ApprovalsSpec => [](AskInv /\ TakenInv)
  <1>1. ApprovalsInit => TakenInv
    BY DEF ApprovalsInit, TakenInv
  <1> QED BY <1>1, InitAskInv, NextAskInv, NextTaken, PTL DEF ApprovalsSpec

\* A grant that was taken back, or went with its synth, comes back neither to the store nor
\* to the disk unless the owner gives it again or an answer or a list was on its way; for any
\* synths, scopes and asks (core.rs, revoke, wipe_slot, persist_grants).
THEOREM TakenBackForGood == ApprovalsSpec => []TakenBackStaysOff
  <1>1. TakenInv => TakenBackStaysOff
    BY DEF TakenInv, Off, TakenBackStaysOff
  <1> QED BY <1>1, ApprovalsInvariant, PTL

\* Every reachable state is of the declared type: in particular no session
\* grant is ever on disk or on its way there (core.rs, persist_grants).
THEOREM ApprovalsTypeCorrect == ApprovalsSpec => []TypeOK
  <1>1. AskInv => TypeOK
    BY DEF AskInv
  <1> QED BY <1>1, ApprovalsInvariant, PTL

\* Every grant there is, in memory, on disk or in between, is one the owner
\* gave to that synth, for that scope and that long (grant.rs, core.rs).
THEOREM GrantsAreTheOwners == ApprovalsSpec => []OwnersWord
  <1>1. AskInv => OwnersWord
    BY DEF AskInv
  <1> QED BY <1>1, ApprovalsInvariant, PTL

\* No answer is a refusal (approvals.rs, ask_scoped).
THEOREM SilenceRefuses == ApprovalsSpec => []NoAnswerIsRefusal
  <1>1. AskInv => NoAnswerIsRefusal
    BY DEF AskInv
  <1> QED BY <1>1, ApprovalsInvariant, PTL

-----------------------------------------------------------------------------
(* A hold and its message.  At most one message is on its way, the         *)
(* recording that runs is the last that opened, and, until two beginnings  *)
(* or an end and a beginning overlap, holds come in order.                 *)

Stages == {"none", "opening", "running", "queued", "recognized", "ready", "sending",
           "sent", "told", "dropped", "lost"}

\* The types of what a beginning or an end of a hold changes, and of the rest.
HoldType ==
    /\ hold \in [st : {"idle", "holding", "spent"}, kind : Kinds, long : BOOLEAN]
    /\ seq \in 0 .. MaxHolds
    /\ early \in [seq : 0 .. MaxHolds, end : {"none", "send", "drop"}]
    /\ running \in 0 .. MaxHolds
    /\ stage \in [Holds -> Stages]
    /\ verdict \in [Holds -> {"none", "send", "drop"}]
    /\ byWake \subseteq Holds /\ crossed \in BOOLEAN
OtherType ==
    /\ press \in [at : {"none", "gated", "down"}, kind : Kinds]
    /\ down \subseteq Kinds /\ registered \in BOOLEAN /\ pending \in BOOLEAN /\ paused \in BOOLEAN
    /\ timer \in BOOLEAN /\ wake \in {"listen", "gated", "down", "numbered", "woke", "follow"}
    /\ active \in 0 .. MaxHolds /\ escape \in BOOLEAN
    /\ recognizing \in BOOLEAN /\ sending \in BOOLEAN /\ text \in {"none", "ready", "sending"}

\* The flag is up while a message is on its way, and at most one is.
OneOnItsWay ==
    /\ \A n \in Holds : stage[n] = "sending" => sending /\ text # "sending"
    /\ text = "sending" => sending
    /\ \A m, n \in Holds : stage[m] = "sending" /\ stage[n] = "sending" => m = n

\* The recording that runs, and the holds that have their number.
Recording ==
    /\ running # 0 => stage[running] = "running"
    /\ \A n \in Holds : stage[n] = "running" => running = n
    /\ \A n \in Holds : n > seq => stage[n] = "none" /\ verdict[n] = "none"
    /\ early.seq # 0 => early.seq = seq /\ early.end # "none"

\* A wake that has its number.
NumberedOne == wake = "numbered" => seq # 0

\* A hold that has its key down and no number yet.
Unnumbered == press.at = "down" \/ wake = "down"

\* What stands until two beginnings, or an end and a beginning, overlap.
Beginnings ==
    /\ Beginning => hold.st = "holding" /\ running = 0
    /\ ~(press.at = "down" /\ wake \in {"down", "numbered"})
    /\ wake = "numbered" => seq \in byWake /\ stage[seq] = "opening"
HeldHold ==
    hold.st = "holding" /\ ~Unnumbered =>
        /\ seq # 0 /\ stage[seq] \in {"opening", "running"}
        /\ verdict[seq] = "none" /\ early.seq = 0
KeptEnd ==
    \A n \in Holds : stage[n] = "opening" =>
        /\ n = seq
        /\ hold.st # "holding" \/ Unnumbered => early.seq = n
        /\ early.seq = n => verdict[n] = early.end
RecordsForTheHold == running # 0 => hold.st = "holding" /\ running = seq
LetGo == {"queued", "recognized", "ready", "sending", "sent"}
SentAsLetGo == \A n \in Holds : stage[n] \in LetGo => verdict[n] = "send"
Orderly == RecordsForTheHold /\ SentAsLetGo /\ Beginnings /\ HeldHold /\ KeptEnd

TalkInv == HoldType /\ OtherType /\ OneOnItsWay /\ NumberedOne /\ Recording /\ (~crossed => Orderly)

-----------------------------------------------------------------------------
(* Types.                                                                  *)

\* The end of a hold keeps the types.
LEMMA EndsType ==
    ASSUME HoldType, NEW end \in {"send", "drop"}, Ends(end)
    PROVE  /\ early' \in [seq : 0 .. MaxHolds, end : {"none", "send", "drop"}]
           /\ running' \in 0 .. MaxHolds
           /\ stage' \in [Holds -> Stages]
           /\ verdict' \in [Holds -> {"none", "send", "drop"}]
  <1> USE HoldsAssumption DEF HoldType, Ends, Holds
  <1>1. running' \in 0 .. MaxHolds /\ stage' \in [Holds -> Stages]
    BY DEF Goes, OutOf, Stages
  <1>2. early' \in [seq : 0 .. MaxHolds, end : {"none", "send", "drop"}]
    BY DEF KeptFor
  <1>3. verdict' \in [Holds -> {"none", "send", "drop"}]
    OBVIOUS
  <1> QED BY <1>1, <1>2, <1>3

\* What is remembered to have overlapped is a truth value.
LEMMA CrossesType ==
    ASSUME crossed \in BOOLEAN, NEW is, Crosses(is)
    PROVE  crossed' \in BOOLEAN
  BY DEF Crosses

HoldRecords == [st : {"idle", "holding", "spent"}, kind : Kinds, long : BOOLEAN]

\* A hold that is over is a record like any other.
LEMMA IdleType == Idle \in HoldRecords
  BY KindsAssumption DEF Idle, HoldRecords

\* Every step of the keys, the wake word, the microphone and the messages keeps
\* the types.
LEMMA TalkTypes ==
    ASSUME HoldType, OtherType, TalkNext
    PROVE  HoldType' /\ OtherType'
  <1> USE HoldsAssumption, KindsAssumption DEF HoldType, OtherType, keyVars, wakeVars, sendVars, msgRest
  <1>1. ASSUME NEW k \in Kinds, Press(k) PROVE HoldType' /\ OtherType'
    BY <1>1 DEF Press, NoPress
  <1>2. ASSUME NEW k \in Kinds, Release(k) PROVE HoldType' /\ OtherType'
    <2>1. OtherType' /\ seq' = seq /\ byWake' = byWake
      BY <1>2 DEF Release
    <2>2. hold' \in HoldRecords
      BY <1>2, IdleType DEF Release, HoldRecords
    <2>4. crossed' \in BOOLEAN
      <3>1. UNCHANGED crossed \/ Crosses(Beginning)
        BY <1>2 DEF Release
      <3> QED BY <3>1, CrossesType
    <2>3. /\ early' \in [seq : 0 .. MaxHolds, end : {"none", "send", "drop"}]
          /\ running' \in 0 .. MaxHolds
          /\ stage' \in [Holds -> Stages]
          /\ verdict' \in [Holds -> {"none", "send", "drop"}]
      <3>1. NoEndThere \/ Ends("send") \/ Ends("drop")
        BY <1>2 DEF Release
      <3> QED BY <3>1, EndsType DEF NoEndThere
    <2> QED BY <2>1, <2>2, <2>3, <2>4 DEF HoldRecords
  <1>3. ASSUME NEW n \in Holds, MicStep(n) PROVE HoldType' /\ OtherType'
    <2>1. CASE MicOpens(n)
      <3>1. CASE EarlyEnd(n) # "none"
        BY <2>1, <3>1 DEF MicOpens, EarlyEnd, NoEnd, Goes, OutOf, Stages
      <3>2. CASE EarlyEnd(n) = "none"
        BY <2>1, <3>2 DEF MicOpens, Stages, Holds
      <3> QED BY <3>1, <3>2
    <2>2. CASE MicFails(n)
      BY <2>2 DEF MicFails, Idle, Goes, Crosses, Stages
    <2> QED BY <1>3, <2>1, <2>2 DEF MicStep
  <1>4. ASSUME NEW n \in Holds, MessageStep(n) PROVE HoldType' /\ OtherType'
    <2>1. stage' \in [Holds -> Stages]
      BY <1>4 DEF MessageStep, Finish, Recognized, Send, SendReturns, Goes, Stages
    <2>2. UNCHANGED msgRest
      BY <1>4 DEF MessageStep, Finish, Recognized, Send, SendReturns
    <2>3. recognizing' \in BOOLEAN /\ sending' \in BOOLEAN /\ text' = text
      BY <1>4 DEF MessageStep, Finish, Recognized, Send, SendReturns
    <2>4. HoldType'
      BY <2>1, <2>2
    <2> QED BY <2>2, <2>3, <2>4
  <1>5. CASE PressDown
    <2>1. hold' \in HoldRecords
      <3>1. press.kind \in Kinds
        OBVIOUS
      <3>2. [st |-> "holding", kind |-> press.kind, long |-> FALSE] \in HoldRecords
        BY <3>1 DEF HoldRecords
      <3>3. hold \in HoldRecords
        BY DEF HoldRecords
      <3> HIDE DEF HoldType, OtherType
      <3> QED BY <1>5, <3>2, <3>3 DEF PressDown
    <2>2. press' \in [at : {"none", "gated", "down"}, kind : Kinds]
      BY <1>5 DEF PressDown, NoPress
    <2> QED BY <1>5, <2>1, <2>2 DEF PressDown, HoldRecords
  <1>6. CASE StartHold
    <2>1. OtherType'
      BY <1>6 DEF StartHold, NoPress
    <2>2. hold' \in HoldRecords /\ running' = running /\ verdict' = verdict
      BY <1>6, IdleType DEF StartHold, HoldRecords
    <2>3. CASE seq < MaxHolds /\ Numbered(FALSE) /\ Goes(seq + 1, "opening")
      <3>1. crossed' \in BOOLEAN
        BY <2>3, CrossesType DEF Numbered
      <3> QED BY <2>1, <2>2, <2>3, <3>1 DEF HoldRecords, Numbered, Goes, NoEnd, Holds, Stages
    <2>4. CASE UNCHANGED <<seq, early, stage, byWake, crossed>>
      BY <2>1, <2>2, <2>4 DEF HoldRecords
    <2> QED BY <1>6, <2>3, <2>4 DEF StartHold
  <1>7. CASE SomeTime \/ TimerEnds \/ PauseOrResume \/ WakeGate
    <2>1. CASE SomeTime
      <3>1. hold' \in HoldRecords
        BY <2>1 DEF SomeTime, HoldRecords
      <3> QED BY <2>1, <3>1 DEF SomeTime, HoldRecords
    <2>2. CASE TimerEnds
      <3>1. HoldType'
        BY <2>2 DEF TimerEnds
      <3>2. OtherType'
        BY ZenonT(60), <2>2 DEF TimerEnds
      <3> QED BY <3>1, <3>2
    <2>3. CASE PauseOrResume
      BY <2>3 DEF PauseOrResume
    <2>4. CASE WakeGate
      BY <2>4 DEF WakeGate
    <2> QED BY <1>7, <2>1, <2>2, <2>3, <2>4
  <1>8. CASE Limit
    <2>1. OtherType' /\ seq' = seq /\ byWake' = byWake
      BY ZenonT(60), <1>8 DEF Limit
    <2>2. hold' \in HoldRecords
      BY <1>8 DEF Limit, HoldRecords
    <2>4. crossed' \in BOOLEAN
      BY <1>8, CrossesType DEF Limit
    <2>3. Ends("send")
      BY <1>8 DEF Limit
    <2> QED BY <2>1, <2>2, <2>3, <2>4, EndsType DEF HoldRecords
  <1>9. CASE Sync
    <2>1. OtherType' /\ seq' = seq /\ byWake' = byWake
      BY ZenonT(60), <1>9 DEF Sync
    <2>2. hold' \in HoldRecords
      BY <1>9, IdleType DEF Sync, HoldRecords
    <2>4. crossed' \in BOOLEAN
      <3>1. UNCHANGED crossed \/ Crosses(Asked \/ Beginning)
        BY <1>9 DEF Sync
      <3> QED BY <3>1, CrossesType
    <2>3. Ends("drop") \/ NoEndThere
      BY <1>9 DEF Sync
    <2> QED BY <2>1, <2>2, <2>3, <2>4, EndsType DEF NoEndThere, HoldRecords
  <1>10. ASSUME NEW end \in {"send", "drop"}, WakeOver(end), seq' = seq, byWake' = byWake,
                UNCHANGED <<keyVars, timer, sendVars>>, wake' \in {wake, "listen"}
         PROVE HoldType' /\ OtherType'
    <2>1. OtherType'
      <3>1. active' = 0 /\ escape' = FALSE
        BY <1>10 DEF WakeOver
      <3>2. wake' \in {"listen", "gated", "down", "numbered", "woke", "follow"}
        <4>1. wake \in {"listen", "gated", "down", "numbered", "woke", "follow"}
          OBVIOUS
        <4> HIDE DEF HoldType, OtherType
        <4> QED BY <1>10, <4>1
      <3>3. UNCHANGED <<press, down, registered, pending, paused, timer, recognizing, sending, text>>
        BY <1>10
      <3>4. active' = 0 /\ 0 \in 0 .. MaxHolds
        <4> HIDE DEF HoldType, OtherType
        <4> QED BY <3>1
      <3>5. escape' \in BOOLEAN
        BY <3>1
      <3> QED BY <3>2, <3>3, <3>4, <3>5
    <2>2. hold' \in HoldRecords
      BY <1>10, IdleType DEF WakeOver, HoldRecords
    <2>4. crossed' \in BOOLEAN
      <3>1. UNCHANGED crossed \/ Crosses(Beginning)
        BY <1>10 DEF WakeOver
      <3> QED BY <3>1, CrossesType
    <2>3. Ends("drop") \/ Ends("send") \/ NoEndThere
      BY <1>10 DEF WakeOver
    <2> QED BY <1>10, <2>1, <2>2, <2>3, <2>4, EndsType DEF NoEndThere, HoldRecords
  <1>11. CASE OwnerCancels
    BY <1>11, <1>10 DEF OwnerCancels
  <1>12. CASE WakeStep
    <2>1. CASE WakeDown
      <3>1. hold' \in HoldRecords
        <4>1. [st |-> "holding", kind |-> VoiceKey, long |-> FALSE] \in HoldRecords
          BY DEF HoldRecords
        <4>2. hold \in HoldRecords
          BY DEF HoldRecords
        <4> HIDE DEF HoldType, OtherType
        <4> QED BY <2>1, <4>1, <4>2 DEF WakeDown
      <3> QED BY <2>1, <3>1 DEF WakeDown, HoldRecords
    <2>5. CASE WakeEscape
      BY <2>5 DEF WakeEscape
    <2>6. CASE WakeLoop
      <3>1. escape' \in BOOLEAN
        BY <2>6 DEF WakeLoop
      <3> QED BY <2>6, <3>1 DEF WakeLoop
    <2>2. CASE WakeNumber
      <3>1. OtherType'
        BY <2>2 DEF WakeNumber
      <3>2. HoldType'
        BY <2>2 DEF WakeNumber, Numbered, Goes, Crosses, NoEnd, Holds, Stages
      <3> QED BY <3>1, <3>2
    <2>3. CASE WakeRuns
      <3>1. OtherType'
        BY <2>3 DEF WakeRuns
      <3>2. HoldType'
        BY <2>3 DEF WakeRuns, Holds, Stages
      <3> QED BY <3>1, <3>2
    <2>4. CASE RequestEnds
      BY <2>4, <1>10 DEF RequestEnds
    <2> QED BY <1>12, <2>1, <2>2, <2>3, <2>4, <2>5, <2>6 DEF WakeStep
  <1>13. CASE SubmitText \/ TextSent
    <2>1. CASE SubmitText
      BY <2>1 DEF SubmitText
    <2>2. CASE TextSent
      <3>1. HoldType' /\ recognizing' = recognizing /\ UNCHANGED <<keyVars, timer, wakeVars>>
        BY <2>2 DEF TextSent
      <3>2. sending' \in BOOLEAN
        BY <2>2 DEF TextSent
      <3>3. text' \in {"none", "ready", "sending"}
        BY <2>2 DEF TextSent
      <3> QED BY <3>1, <3>2, <3>3
    <2> QED BY <1>13, <2>1, <2>2
  <1> QED BY <1>1, <1>2, <1>3, <1>4, <1>5, <1>6, <1>7, <1>8, <1>9, <1>11, <1>12, <1>13 DEF TalkNext

-----------------------------------------------------------------------------
(* One message at a time, and the recording that runs.                     *)

\* The end of a hold sends nothing yet.
LEMMA EndsSendsNothing ==
    ASSUME HoldType, NEW end \in {"send", "drop"}, Ends(end)
    PROVE  \A n \in Holds : stage'[n] = "sending" => stage[n] = "sending"
  BY DEF HoldType, Ends, Goes, OutOf

\* The flag is taken before anything is sent and given back when the send
\* returns, so no second message starts meanwhile.
LEMMA TalkSendsOne ==
    ASSUME HoldType, OtherType, OneOnItsWay, TalkNext
    PROVE  OneOnItsWay'
  <1> USE DEF sendVars, msgRest
  <1>1. ASSUME \A n \in Holds : stage'[n] = "sending" => stage[n] = "sending", UNCHANGED <<sending, text>>
        PROVE  OneOnItsWay'
    BY <1>1 DEF OneOnItsWay
  <1>2. CASE UNCHANGED <<stage, sendVars>>
    BY <1>1, <1>2
  <1>3. ASSUME NEW k \in Kinds, Press(k) \/ Release(k) PROVE OneOnItsWay'
    <2>1. CASE Press(k)
      BY <2>1, <1>2 DEF Press
    <2>2. CASE Release(k)
      <3>1. UNCHANGED sendVars
        BY <2>2 DEF Release
      <3>2. NoEndThere \/ Ends("send") \/ Ends("drop")
        BY <2>2 DEF Release
      <3> QED BY <3>1, <3>2, <1>1, EndsSendsNothing DEF NoEndThere
    <2> QED BY <1>3, <2>1, <2>2
  <1>4. ASSUME NEW n \in Holds, MicStep(n) PROVE OneOnItsWay'
    <2>1. CASE MicOpens(n)
      BY <2>1, <1>1 DEF MicOpens, Goes, OutOf, HoldType
    <2>2. CASE MicFails(n)
      BY <2>2, <1>1 DEF MicFails, Goes, HoldType
    <2> QED BY <1>4, <2>1, <2>2 DEF MicStep
  <1>5. ASSUME NEW n \in Holds, MessageStep(n) PROVE OneOnItsWay'
    <2>1. CASE Finish(n) \/ Recognized(n)
      BY <2>1, <1>1 DEF Finish, Recognized, Goes, HoldType
    <2>2. CASE Send(n)
      <3>1. CASE Busy
        BY <3>1, <2>2 DEF Send, Goes, HoldType, OneOnItsWay
      <3>2. CASE ~Busy
        <4>1. sending' /\ text' = text /\ stage' = [stage EXCEPT ![n] = "sending"]
          BY <3>2, <2>2 DEF Send, Goes
        <4>2. ~sending
          BY <3>2 DEF Busy
        <4> QED BY <4>1, <4>2 DEF OneOnItsWay, HoldType
      <3> QED BY <3>1, <3>2
    <2>3. CASE SendReturns(n)
      <3>1. /\ stage[n] = "sending" /\ text' = text
            /\ \A m \in Holds : stage'[m] = IF m = n THEN stage'[n] ELSE stage[m]
            /\ stage'[n] # "sending"
        BY <2>3 DEF SendReturns, Goes, HoldType
      <3> QED BY <3>1 DEF OneOnItsWay
    <2> QED BY <1>5, <2>1, <2>2, <2>3 DEF MessageStep
  <1>6. CASE PressDown \/ SomeTime \/ TimerEnds \/ PauseOrResume \/ WakeGate
    BY <1>6, <1>2 DEF PressDown, SomeTime, TimerEnds, PauseOrResume, WakeGate
  <1>7. CASE StartHold
    BY <1>7, <1>1 DEF StartHold, Goes, HoldType
  <1>8. CASE Limit
    BY <1>8, <1>1, EndsSendsNothing DEF Limit
  <1>9. CASE Sync
    <2>1. UNCHANGED sendVars /\ (NoEndThere \/ Ends("drop"))
      BY <1>9 DEF Sync
    <2> QED BY <2>1, <1>1, EndsSendsNothing DEF NoEndThere
  <1>10. CASE OwnerCancels \/ RequestEnds
    <2>1. UNCHANGED sendVars /\ \E end \in {"send", "drop"} : WakeOver(end)
      BY <1>10 DEF OwnerCancels, RequestEnds
    <2>2. NoEndThere \/ Ends("drop") \/ Ends("send")
      BY <2>1 DEF WakeOver
    <2> QED BY <2>1, <2>2, <1>1, EndsSendsNothing DEF NoEndThere
  <1>11. CASE WakeDown \/ WakeEscape \/ WakeLoop
    BY <1>11, <1>2 DEF WakeDown, WakeEscape, WakeLoop
  <1>12. CASE WakeNumber \/ WakeRuns
    BY <1>12, <1>1 DEF WakeNumber, WakeRuns, Goes, HoldType
  <1>13. CASE SubmitText
    BY <1>13 DEF SubmitText, OneOnItsWay
  <1>14. CASE TextSent
    <2>1. stage' = stage
      BY <1>14 DEF TextSent
    <2>2. CASE text = "ready" /\ Busy /\ text' = "none" /\ UNCHANGED sending
      BY <2>1, <2>2 DEF OneOnItsWay
    <2>3. CASE text = "ready" /\ ~Busy /\ text' = "sending" /\ sending' = TRUE
      BY <2>1, <2>3 DEF OneOnItsWay, Busy
    <2>4. CASE text = "sending" /\ text' = "none" /\ sending' = FALSE
      BY <2>1, <2>4 DEF OneOnItsWay
    <2> QED BY <1>14, <2>2, <2>3, <2>4 DEF TextSent
  <1> QED BY <1>3, <1>4, <1>5, <1>6, <1>7, <1>8, <1>9, <1>10, <1>11, <1>12, <1>13, <1>14 DEF TalkNext, WakeStep

\* With the flag, at most one message is counted.
LEMMA OneMessageHolds ==
    ASSUME OneOnItsWay
    PROVE  OneMessage
  <1> DEFINE S == {n \in Holds : stage[n] = "sending"}
  <1>1. CASE S = {}
    <2>1. Cardinality(S) = 0
      BY <1>1, FS_EmptySet
    <2> QED BY <2>1 DEF OneMessage
  <1>2. CASE S # {}
    <2>1. PICK n \in S : TRUE
      BY <1>2
    <2>2. S = {n} /\ text # "sending"
      BY <2>1 DEF OneOnItsWay
    <2>3. Cardinality(S) = 1
      BY <2>2, FS_Singleton
    <2> QED BY <2>2, <2>3 DEF OneMessage
  <1> QED BY <1>1, <1>2

\* The end of a hold: its recording goes on, or the end is kept for it.
LEMMA EndsRecording ==
    ASSUME HoldType, Recording, NEW end \in {"send", "drop"}, Ends(end), seq' = seq
    PROVE  Recording'
  <1> USE HoldsAssumption DEF HoldType, Holds, Recording
  <1>1. CASE running # 0
    <2>1. /\ running' = 0 /\ early' = early
          /\ \A n \in Holds : stage'[n] = IF n = running THEN OutOf(end) ELSE stage[n]
      BY <1>1 DEF Ends, Goes
    <2>2. running <= seq /\ (seq # 0 => \A n \in Holds : verdict'[n] = IF n = seq /\ ~Beginning THEN end ELSE verdict[n])
      BY <1>1 DEF Ends
    <2> QED BY <2>1, <2>2, <1>1 DEF OutOf, Ends
  <1>2. CASE running = 0
    <2>1. running' = 0 /\ stage' = stage /\ early'.seq = seq /\ early'.end = end
      BY <1>2 DEF Ends, KeptFor
    <2>2. \A n \in Holds : n > seq => verdict'[n] = verdict[n]
      BY DEF Ends
    <2> QED BY <2>1, <2>2, <1>2
  <1> QED BY <1>1, <1>2

\* A wake that has its number is never of number 0.
LEMMA NumberedStays ==
    ASSUME HoldType, NumberedOne, TalkNext
    PROVE  NumberedOne'
  <1> USE HoldsAssumption DEF NumberedOne, HoldType, keyVars, wakeVars, msgRest
  <1>1. CASE WakeNumber
    BY <1>1 DEF WakeNumber, Numbered
  <1>2. CASE StartHold
    <2>1. seq' \in {seq, seq + 1} /\ wake' = wake
      BY <1>2 DEF StartHold, Numbered
    <2> QED BY <2>1
  <1>3. CASE ~WakeNumber /\ ~StartHold
    <2>1. seq' = seq /\ (wake' = "numbered" => wake = "numbered")
      <3>1. CASE WakeStep \/ WakeGate \/ OwnerCancels
        BY <3>1, <1>3 DEF WakeStep, WakeDown, WakeRuns, WakeEscape, RequestEnds, WakeLoop, WakeGate, OwnerCancels
      <3>2. CASE ~WakeStep /\ ~WakeGate /\ ~OwnerCancels
        BY <3>2, <1>3 DEF TalkNext, Press, Release, MicStep, MicOpens, MicFails, MessageStep, Finish, Recognized, Send,
            SendReturns, PressDown, SomeTime, Limit, TimerEnds, PauseOrResume, Sync, SubmitText, TextSent
      <3> QED BY <3>1, <3>2
    <2> QED BY <2>1
  <1> QED BY <1>1, <1>2, <1>3

\* The recording that runs is the one whose microphone opened last.
LEMMA TalkRecords ==
    ASSUME HoldType, NumberedOne, Recording, TalkNext
    PROVE  Recording'
  <1> USE HoldsAssumption DEF keyVars, wakeVars, sendVars, msgRest
  <1>1. CASE UNCHANGED <<running, stage, seq, verdict, early>>
    BY <1>1 DEF Recording
  <1>2. ASSUME NoEndThere \/ Ends("send") \/ Ends("drop"), seq' = seq PROVE Recording'
    BY <1>2, <1>1, EndsRecording DEF NoEndThere
  <1>3. ASSUME NEW k \in Kinds, Press(k) \/ Release(k) PROVE Recording'
    <2>1. CASE Press(k)
      BY <2>1, <1>1 DEF Press
    <2>2. CASE Release(k)
      <3>1. seq' = seq /\ (NoEndThere \/ Ends("send") \/ Ends("drop"))
        BY <2>2 DEF Release
      <3> QED BY <3>1, <1>2
    <2> QED BY <1>3, <2>1, <2>2
  <1>4. ASSUME NEW n \in Holds, MicStep(n) PROVE Recording'
    <2>1. seq' = seq /\ verdict' = verdict /\ stage[n] = "opening"
      BY <1>4 DEF MicStep, MicOpens, MicFails
    <2>2. CASE MicOpens(n) /\ EarlyEnd(n) # "none"
      <3>1. /\ running' = running /\ early' = NoEnd
            /\ \A m \in Holds : stage'[m] = IF m = n THEN OutOf(early.end) ELSE stage[m]
        BY <2>2 DEF MicOpens, Goes, HoldType
      <3> QED BY <2>1, <3>1 DEF Recording, OutOf, NoEnd, HoldType, Holds
    <2>3. CASE MicOpens(n) /\ EarlyEnd(n) = "none"
      <3>1. /\ running' = n /\ early' = early
            /\ \A m \in Holds : stage'[m] = IF m = n THEN "running" ELSE IF m = running THEN "lost" ELSE stage[m]
        BY <2>3 DEF MicOpens, HoldType
      <3>2. n <= seq /\ (running # 0 => running <= seq)
        BY <2>1 DEF Recording, HoldType, Holds
      <3> QED BY <2>1, <3>1, <3>2 DEF Recording, HoldType, Holds
    <2>4. CASE MicFails(n)
      <3>1. /\ running' = running /\ early' = early
            /\ \A m \in Holds : stage'[m] = IF m = n THEN "told" ELSE stage[m]
        BY <2>4 DEF MicFails, Goes, HoldType
      <3> QED BY <2>1, <3>1 DEF Recording, HoldType, Holds
    <2> QED BY <1>4, <2>2, <2>3, <2>4 DEF MicStep
  <1>5. ASSUME NEW n \in Holds, MessageStep(n) PROVE Recording'
    <2>1. UNCHANGED msgRest /\ stage[n] \in {"queued", "recognized", "ready", "sending"}
      BY <1>5 DEF MessageStep, Finish, Recognized, Send, SendReturns
    <2>2. PICK to \in {"recognized", "ready", "told", "sending", "sent"} : Goes(n, to)
      BY <1>5 DEF MessageStep, Finish, Recognized, Send, SendReturns
    <2>3. \A m \in Holds : stage'[m] = IF m = n THEN to ELSE stage[m]
      BY <2>2 DEF Goes, HoldType
    <2> QED BY <2>1, <2>3 DEF Recording, HoldType, Holds
  <1>6. CASE PressDown \/ SomeTime \/ TimerEnds \/ PauseOrResume \/ WakeGate
    BY <1>6, <1>1 DEF PressDown, SomeTime, TimerEnds, PauseOrResume, WakeGate
  <1>7. ASSUME seq < MaxHolds, \E is \in BOOLEAN : Numbered(is), Goes(seq + 1, "opening"), UNCHANGED <<running, verdict>>
        PROVE Recording'
    <2>1. /\ seq' = seq + 1 /\ early' = NoEnd
          /\ \A m \in Holds : stage'[m] = IF m = seq + 1 THEN "opening" ELSE stage[m]
      BY <1>7 DEF Numbered, Goes, HoldType
    <2>2. seq + 1 \in Holds /\ running # seq + 1
      BY <1>7 DEF Holds, HoldType, Recording
    <2> QED BY <1>7, <2>1, <2>2 DEF Recording, HoldType, Holds, NoEnd
  <1>8. CASE StartHold
    BY <1>8, <1>1, <1>7 DEF StartHold
  <1>9. CASE WakeNumber
    BY <1>9, <1>7 DEF WakeNumber
  <1>10. CASE Limit \/ Sync \/ OwnerCancels \/ RequestEnds
    <2>1. seq' = seq
      BY <1>10 DEF Limit, Sync, OwnerCancels, RequestEnds
    <2>2. CASE Limit \/ Sync
      BY <2>1, <2>2, <1>2 DEF Limit, Sync
    <2>3. CASE OwnerCancels \/ RequestEnds
      <3>1. \E end \in {"send", "drop"} : WakeOver(end)
        BY <2>3 DEF OwnerCancels, RequestEnds
      <3> QED BY <2>1, <3>1, <1>2 DEF WakeOver
    <2> QED BY <1>10, <2>2, <2>3
  <1>11. CASE WakeDown \/ WakeEscape \/ WakeLoop \/ SubmitText \/ TextSent
    BY <1>11, <1>1 DEF WakeDown, WakeEscape, WakeLoop, SubmitText, TextSent
  <1>12. CASE WakeRuns
    <2>1. /\ UNCHANGED <<seq, early, verdict>> /\ running' = seq /\ seq # 0
          /\ \A m \in Holds : stage'[m] = IF m = seq THEN "running" ELSE IF m = running THEN "lost" ELSE stage[m]
      BY <1>12 DEF WakeRuns, NumberedOne
    <2> QED BY <2>1 DEF Recording, HoldType, Holds
  <1> QED BY <1>3, <1>4, <1>5, <1>6, <1>8, <1>9, <1>10, <1>11, <1>12 DEF TalkNext, WakeStep

-----------------------------------------------------------------------------
(* What stands until something overlaps.                                   *)

\* A hold that ends after it has its number: it is let go or dropped, and its
\* recording, running or to come, follows.
LEMMA EndsInOrder ==
    ASSUME HoldType, Recording, Orderly, NEW end \in {"send", "drop"}, Ends(end),
           hold.st = "holding", ~Beginning, hold'.st # "holding", seq' = seq,
           press' = press, wake' \in {wake, "listen"}
    PROVE  Orderly'
  <1>1. /\ seq # 0 /\ seq \in Holds /\ stage[seq] \in {"opening", "running"}
        /\ verdict[seq] = "none" /\ early.seq = 0
    BY HoldsAssumption DEF Orderly, HeldHold, Beginning, Unnumbered, HoldType, Holds
  <1>2. \A n \in Holds : verdict'[n] = IF n = seq THEN end ELSE verdict[n]
    BY <1>1 DEF Ends, HoldType
  <1>3. ~Beginning'
    BY DEF Beginning
  <1>4. RecordsForTheHold' /\ running' = 0
    BY DEF RecordsForTheHold, Ends
  <1>5. CASE running # 0
    <2>1. /\ running = seq /\ early' = early
          /\ \A n \in Holds : stage'[n] = IF n = seq THEN OutOf(end) ELSE stage[n]
      BY <1>1, <1>5 DEF Ends, Goes, HoldType, Orderly, RecordsForTheHold
    <2>2. stage[seq] = "running"
      BY <2>1, <1>5 DEF Recording
    <2>3. SentAsLetGo'
      BY <1>2, <2>1 DEF Orderly, SentAsLetGo, LetGo, OutOf
    <2>4. KeptEnd'
      BY <2>1, <2>2 DEF Orderly, KeptEnd, OutOf
    <2> QED BY <1>3, <1>4, <2>3, <2>4 DEF Orderly, Beginnings, HeldHold, Beginning
  <1>6. CASE running = 0
    <2>1. stage' = stage /\ early'.seq = seq /\ early'.end = end
      BY <1>6 DEF Ends, KeptFor
    <2>2. SentAsLetGo'
      BY <1>1, <1>2, <2>1 DEF Orderly, SentAsLetGo, LetGo
    <2>3. KeptEnd'
      BY <1>1, <1>2, <2>1 DEF Orderly, KeptEnd
    <2> QED BY <1>3, <1>4, <2>2, <2>3 DEF Orderly, Beginnings, HeldHold, Beginning
  <1> QED BY <1>5, <1>6 DEF HoldType

\* A step that ends no hold and begins none.
LEMMA NothingBegins ==
    ASSUME Orderly, UNCHANGED <<seq, early, running, stage, verdict, byWake>>,
           \/ hold'.st = hold.st
           \/ hold.st # "holding" /\ hold'.st # "holding",
           press'.at = press.at \/ {press'.at, press.at} \subseteq {"none", "gated"},
           wake' = wake \/ (wake' \in {"listen", "gated", "follow"} /\ wake \in {"listen", "gated", "woke", "follow"})
    PROVE  Orderly'
  <1>1. Beginning' = Beginning /\ Unnumbered' = Unnumbered
    BY DEF Beginning, Unnumbered
  <1>2. (hold'.st = "holding") <=> (hold.st = "holding")
    OBVIOUS
  <1>3. (wake' = "numbered" <=> wake = "numbered") /\ (wake' = "down" <=> wake = "down") /\ (press'.at = "down" <=> press.at = "down")
    OBVIOUS
  <1>4. RecordsForTheHold' /\ SentAsLetGo'
    BY <1>2 DEF Orderly, RecordsForTheHold, SentAsLetGo
  <1>5. Beginnings'
    BY <1>1, <1>2, <1>3 DEF Orderly, Beginnings
  <1>6. HeldHold' /\ KeptEnd'
    BY <1>1, <1>2 DEF Orderly, HeldHold, KeptEnd
  <1> QED BY <1>4, <1>5, <1>6 DEF Orderly

\* A hold gets its number.
LEMMA NumberInOrder ==
    ASSUME HoldType, Recording, Orderly, NEW is \in BOOLEAN, Numbered(is), ~crossed', seq < MaxHolds,
           Goes(seq + 1, "opening"), Unnumbered, ~Unnumbered', press'.at # "down",
           wake' = "numbered" => is, wake' # "down",
           UNCHANGED <<hold, running, verdict>>
    PROVE  Orderly'
  <1> USE HoldsAssumption
  <1>1. hold.st = "holding" /\ running = 0
    BY DEF Orderly, Beginnings, Beginning, Unnumbered
  <1>2. seq' = seq + 1 /\ seq' # 0 /\ seq' \in Holds /\ early'.seq = 0 /\ \A n \in Holds : stage[n] # "opening"
    <2>1. seq' = seq + 1 /\ early'.seq = 0
      BY DEF Numbered, NoEnd
    <2>2. \A n \in Holds : stage[n] # "opening"
      BY DEF Numbered, Crosses
    <2>3. seq + 1 \in Holds /\ seq + 1 # 0
      BY DEF HoldType, Holds
    <2> QED BY <2>1, <2>2, <2>3
  <1>3. \A n \in Holds : stage'[n] = IF n = seq' THEN "opening" ELSE stage[n]
    BY <1>2 DEF Goes, HoldType
  <1>4. stage[seq'] = "none" /\ verdict[seq'] = "none"
    <2>1. seq' > seq
      BY <1>2 DEF HoldType
    <2> QED BY <1>2, <2>1 DEF Recording
  <1>5. is => seq' \in byWake'
    BY <1>2 DEF Numbered
  <1>6. RecordsForTheHold' /\ HeldHold'
    BY <1>1, <1>2, <1>3, <1>4 DEF RecordsForTheHold, HeldHold
  <1>7. Beginnings'
    BY <1>1, <1>2, <1>3, <1>5 DEF Beginnings, Beginning
  <1>8. SentAsLetGo'
    BY <1>3 DEF Orderly, SentAsLetGo, LetGo
  <1>9. KeptEnd'
    <2>1. hold'.st = "holding" /\ ~Unnumbered'
      BY <1>1
    <2> QED BY <1>2, <1>3, <2>1 DEF KeptEnd
  <1> QED BY <1>6, <1>7, <1>8, <1>9 DEF Orderly

\* The microphone of a hold is there, or does not come.
LEMMA MicInOrder ==
    ASSUME HoldType, Recording, Orderly, NEW n \in Holds, MicStep(n), ~crossed'
    PROVE  Orderly'
  <1> USE DEF keyVars, wakeVars
  <1>1. /\ stage[n] = "opening" /\ n = seq /\ n # 0 /\ wake # "numbered"
        /\ UNCHANGED <<seq, press, wake, verdict, byWake>> /\ ~crossed
    BY HoldsAssumption DEF MicStep, MicOpens, MicFails, Crosses, Orderly, KeptEnd, Beginnings, HoldType, Holds
  <1>2. \A m \in Holds : stage[m] = "opening" => m = n
    BY <1>1 DEF Orderly, KeptEnd
  <1>3. running = 0
    BY <1>1 DEF Orderly, RecordsForTheHold, Recording
  <1>4. CASE MicOpens(n) /\ EarlyEnd(n) # "none"
    <2>1. /\ UNCHANGED <<hold, running>> /\ early'.seq = 0 /\ early.seq = n /\ verdict[n] = early.end
          /\ \A m \in Holds : stage'[m] = IF m = n THEN OutOf(early.end) ELSE stage[m]
      BY <1>1, <1>4 DEF MicOpens, EarlyEnd, Goes, HoldType, NoEnd, Orderly, KeptEnd
    <2>2. SentAsLetGo'
      BY <1>1, <2>1 DEF Orderly, SentAsLetGo, LetGo, OutOf
    <2>3. KeptEnd'
      BY <1>2, <2>1 DEF KeptEnd, OutOf
    <2>4. HeldHold'
      BY <1>1, <2>1 DEF Orderly, HeldHold, Unnumbered
    <2>5. RecordsForTheHold' /\ Beginnings'
      BY <1>1, <1>3, <2>1 DEF Orderly, RecordsForTheHold, Beginnings, Beginning
    <2> QED BY <2>2, <2>3, <2>4, <2>5 DEF Orderly
  <1>5. CASE MicOpens(n) /\ EarlyEnd(n) = "none"
    <2>1. /\ UNCHANGED <<hold, early>> /\ running' = n /\ early.seq # n
          /\ \A m \in Holds : stage'[m] = IF m = n THEN "running" ELSE stage[m]
      <3>1. early.seq # n
        BY <1>1, <1>5 DEF EarlyEnd, Recording
      <3>2. /\ UNCHANGED <<hold, early>> /\ running' = n
            /\ \A m \in Holds : stage'[m] = IF m = n THEN "running" ELSE IF m = running THEN "lost" ELSE stage[m]
        BY <1>5 DEF MicOpens
      <3>3. \A m \in Holds : m # running
        BY <1>3 DEF Holds
      <3> QED BY <3>1, <3>2, <3>3
    <2>2. hold.st = "holding" /\ ~Unnumbered
      BY <1>1, <2>1 DEF Orderly, KeptEnd
    <2>3. ~Beginning'
      BY <1>1, <2>2 DEF Beginning, Unnumbered, Orderly, HoldType
    <2>4. SentAsLetGo' /\ KeptEnd'
      BY <1>1, <1>2, <2>1 DEF Orderly, SentAsLetGo, LetGo, KeptEnd
    <2>5. HeldHold'
      BY <1>1, <2>1, <2>2 DEF Orderly, HeldHold, Unnumbered
    <2>6. RecordsForTheHold' /\ Beginnings'
      BY <1>1, <2>1, <2>2, <2>3 DEF Orderly, RecordsForTheHold, Beginnings, Beginning
    <2> QED BY <2>4, <2>5, <2>6 DEF Orderly
  <1>6. CASE MicFails(n)
    <2>1. /\ UNCHANGED <<early, running>> /\ hold'.st = "idle"
          /\ \A m \in Holds : stage'[m] = IF m = n THEN "told" ELSE stage[m]
      BY <1>6 DEF MicFails, Idle, Goes, HoldType
    <2>2. ~Beginning'
      BY <1>1, <1>6 DEF MicFails, Crosses, Beginning, Orderly, Beginnings
    <2>3. SentAsLetGo' /\ KeptEnd'
      BY <1>1, <1>2, <2>1 DEF Orderly, SentAsLetGo, LetGo, KeptEnd
    <2> QED BY <1>1, <1>3, <2>1, <2>2, <2>3 DEF Orderly, HeldHold, RecordsForTheHold, Beginnings, Beginning
  <1> QED BY <1>4, <1>5, <1>6 DEF MicStep

\* As long as nothing overlapped, each hold is begun, held and ended in turn.
LEMMA TalkInOrder ==
    ASSUME HoldType, OtherType, Recording, Orderly, TalkNext, ~crossed'
    PROVE  Orderly'
  <1> USE DEF keyVars, wakeVars, sendVars, msgRest
  <1>1. ASSUME NEW k \in Kinds, Press(k) PROVE Orderly'
    <2>1. press.at = "none" /\ press'.at \in {"none", "gated"}
      BY <1>1 DEF Press, NoPress
    <2> QED BY <1>1, <2>1, NothingBegins DEF Press
  <1>2. ASSUME NEW k \in Kinds, Release(k) PROVE Orderly'
    <2>1. /\ UNCHANGED <<seq, press, wake, byWake>>
          /\ \/ \E end \in {"send", "drop"} : hold.st = "holding" /\ hold' = Idle /\ Ends(end) /\ Crosses(Beginning)
             \/ hold.st = "spent" /\ hold' = Idle /\ NoEndThere
             \/ NoEndThere /\ hold' = hold
      BY <1>2 DEF Release
    <2>2. CASE NoEndThere /\ (hold' = hold \/ (hold.st = "spent" /\ hold' = Idle))
      BY <2>1, <2>2, NothingBegins DEF NoEndThere, Idle
    <2>3. CASE ~(NoEndThere /\ (hold' = hold \/ (hold.st = "spent" /\ hold' = Idle)))
      <3>1. PICK end \in {"send", "drop"} : hold.st = "holding" /\ hold' = Idle /\ Ends(end) /\ Crosses(Beginning)
        BY <2>1, <2>3
      <3>2. ~Beginning /\ hold'.st # "holding"
        BY <3>1 DEF Crosses, Idle
      <3> QED BY <2>1, <3>1, <3>2, EndsInOrder
    <2> QED BY <2>2, <2>3
  <1>3. ASSUME NEW n \in Holds, MicStep(n) PROVE Orderly'
    BY <1>3, MicInOrder
  <1>4. ASSUME NEW n \in Holds, MessageStep(n) PROVE Orderly'
    <2>1. UNCHANGED msgRest /\ stage[n] \in LetGo
      BY <1>4 DEF MessageStep, Finish, Recognized, Send, SendReturns, LetGo
    <2>2. PICK to \in {"recognized", "ready", "told", "sending", "sent"} : Goes(n, to)
      BY <1>4 DEF MessageStep, Finish, Recognized, Send, SendReturns
    <2>3. \A m \in Holds : stage'[m] = IF m = n THEN to ELSE stage[m]
      BY <2>2 DEF Goes, HoldType
    <2>4. SentAsLetGo'
      BY <2>1, <2>3 DEF Orderly, SentAsLetGo
    <2>5. KeptEnd' /\ RecordsForTheHold'
      BY <2>1, <2>3 DEF Orderly, KeptEnd, RecordsForTheHold, Unnumbered
    <2>6. HeldHold'
      <3>1. SUFFICES ASSUME hold.st = "holding", ~Unnumbered PROVE stage'[seq] \in {"opening", "running"}
        BY <2>1 DEF Orderly, HeldHold, Unnumbered
      <3>2. seq # 0 /\ seq \in Holds /\ stage[seq] \in {"opening", "running"}
        BY <3>1 DEF Orderly, HeldHold, HoldType, Holds
      <3> QED BY <2>1, <2>3, <3>2 DEF LetGo
    <2>7. Beginnings'
      <3>1. wake = "numbered" => seq \in Holds /\ stage[seq] = "opening" /\ seq \in byWake
        BY DEF Orderly, Beginnings, HoldType
      <3>2. wake' = "numbered" => stage'[seq] = "opening"
        BY <2>1, <2>3, <3>1 DEF LetGo
      <3> QED BY <2>1, <3>1, <3>2 DEF Orderly, Beginnings, Beginning
    <2> QED BY <2>4, <2>5, <2>6, <2>7 DEF Orderly
  <1>5. ASSUME hold.st = "idle", hold'.st = "holding", UNCHANGED <<seq, early, running, stage, verdict, byWake>>,
               \/ press'.at = "down" /\ wake' = wake
               \/ press' = press /\ wake' = "down"
        PROVE  Orderly'
    <2>1. ~Beginning /\ running = 0
      BY <1>5 DEF Orderly, Beginnings, RecordsForTheHold
    <2>2. Unnumbered' /\ ~(press'.at = "down" /\ wake' \in {"down", "numbered"}) /\ wake' # "numbered"
      BY <1>5, <2>1 DEF Unnumbered, Beginning
    <2>3. KeptEnd'
      BY <1>5 DEF Orderly, KeptEnd
    <2> QED BY <1>5, <2>1, <2>2, <2>3 DEF Orderly, RecordsForTheHold, SentAsLetGo, Beginnings, HeldHold
  <1>6. CASE PressDown
    <2>1. /\ press.at = "gated" /\ UNCHANGED <<seq, early, running, wake, stage, verdict, byWake>>
          /\ \/ hold.st = "idle" /\ hold'.st = "holding" /\ press'.at = "down"
             \/ hold' = hold /\ press'.at = "none"
      BY <1>6 DEF PressDown, NoPress, OtherType
    <2> QED BY <2>1, <1>5, NothingBegins
  <1>7. CASE StartHold
    <2>1. press.at = "down" /\ press'.at = "none" /\ UNCHANGED <<running, wake, verdict>>
      BY <1>7 DEF StartHold, NoPress
    <2>2. Unnumbered /\ wake \notin {"down", "numbered"} /\ running = 0 /\ ~Unnumbered' /\ ~Beginning'
      BY <2>1 DEF Unnumbered, Orderly, Beginnings, Beginning
    <2>3. CASE hold' = Idle /\ UNCHANGED <<seq, early, stage, byWake>>
      <3>1. hold'.st # "holding"
        BY <2>3 DEF Idle
      <3>2. KeptEnd'
        BY <2>1, <2>2, <2>3 DEF Orderly, KeptEnd
      <3> QED BY <2>1, <2>2, <2>3, <3>1, <3>2 DEF Orderly, RecordsForTheHold, SentAsLetGo, Beginnings, Beginning, HeldHold
    <2>4. CASE seq < MaxHolds /\ Numbered(FALSE) /\ Goes(seq + 1, "opening") /\ UNCHANGED hold
      BY <2>1, <2>2, <2>4, NumberInOrder
    <2> QED BY <1>7, <2>3, <2>4 DEF StartHold
  <1>8. CASE SomeTime \/ TimerEnds \/ PauseOrResume \/ WakeGate \/ WakeEscape \/ WakeLoop \/ SubmitText \/ TextSent
    <2>1. UNCHANGED <<seq, early, running, stage, verdict, byWake, press>> /\ hold'.st = hold.st
      BY <1>8 DEF SomeTime, TimerEnds, PauseOrResume, WakeGate, WakeEscape, WakeLoop, SubmitText, TextSent, HoldType
    <2>2. wake' = wake \/ (wake' \in {"listen", "gated", "follow"} /\ wake \in {"listen", "gated", "woke", "follow"})
      BY <1>8 DEF SomeTime, TimerEnds, PauseOrResume, WakeGate, WakeEscape, WakeLoop, SubmitText, TextSent
    <2> QED BY <2>1, <2>2, NothingBegins
  <1>9. CASE Limit
    <2>1. hold.st = "holding" /\ hold'.st # "holding" /\ ~Beginning
      BY <1>9 DEF Limit, Crosses, HoldType
    <2> QED BY <1>9, <2>1, EndsInOrder DEF Limit
  <1>10. CASE Sync
    <2>1. CASE paused
      <3>1. ~Beginning /\ hold'.st # "holding"
        <4>1. hold' = Idle /\ crossed' = (crossed \/ Asked \/ Beginning)
          BY <1>10, <2>1 DEF Sync, Crosses
        <4> QED BY <4>1 DEF Idle
      <3>2. CASE CancelsHold
        BY <1>10, <2>1, <3>1, <3>2, EndsInOrder DEF Sync, CancelsHold
      <3>3. CASE ~CancelsHold
        BY <1>10, <2>1, <3>1, <3>3, NothingBegins DEF Sync, CancelsHold, NoEndThere
      <3> QED BY <3>2, <3>3
    <2>2. CASE ~paused
      BY <1>10, <2>2, NothingBegins DEF Sync, NoEndThere
    <2> QED BY <2>1, <2>2
  <1>11. CASE OwnerCancels \/ RequestEnds
    <2>1. /\ UNCHANGED <<seq, press, byWake>>
          /\ wake' = wake \/ (wake = "follow" /\ wake' = "listen")
          /\ \E end \in {"send", "drop"} : WakeOver(end)
      BY <1>11 DEF OwnerCancels, RequestEnds
    <2>2. CASE NoEndThere /\ hold' = hold
      BY <2>1, <2>2, NothingBegins DEF NoEndThere
    <2>3. CASE ~(NoEndThere /\ hold' = hold)
      <3>1. PICK end \in {"send", "drop"} : hold.st = "holding" /\ hold' = Idle /\ Ends(end) /\ Crosses(Beginning)
        BY <2>1, <2>3 DEF WakeOver, WakesHold
      <3>2. ~Beginning /\ hold'.st # "holding"
        BY <3>1 DEF Crosses, Idle
      <3> QED BY <2>1, <3>1, <3>2, EndsInOrder
    <2> QED BY <2>2, <2>3
  <1>12. CASE WakeDown
    <2>1. /\ wake = "gated" /\ UNCHANGED <<seq, early, running, press, stage, verdict, byWake>>
          /\ \/ hold.st = "idle" /\ hold'.st = "holding" /\ wake' = "down"
             \/ hold' = hold /\ wake' = "listen"
      BY <1>12 DEF WakeDown
    <2> QED BY <2>1, <1>5, NothingBegins
  <1>13. CASE WakeNumber
    <2>1. Unnumbered /\ press.at # "down" /\ ~Unnumbered' /\ press' = press /\ wake' = "numbered"
      BY <1>13 DEF WakeNumber, Unnumbered, Orderly, Beginnings
    <2> QED BY <1>13, <2>1, NumberInOrder DEF WakeNumber
  <1>14. CASE WakeRuns
    <2>1. /\ UNCHANGED <<hold, seq, early, press, verdict, byWake>> /\ running' = seq /\ wake' = "woke"
          /\ hold.st = "holding" /\ running = 0 /\ press.at # "down" /\ wake = "numbered"
          /\ \A m \in Holds : stage'[m] = IF m = seq THEN "running" ELSE IF m = running THEN "lost" ELSE stage[m]
      BY <1>14 DEF WakeRuns, Orderly, Beginnings, Beginning
    <2>2. ~Unnumbered /\ ~Beginning' /\ ~Unnumbered'
      BY <2>1 DEF Unnumbered, Beginning
    <2>3. seq # 0 /\ seq \in Holds /\ verdict[seq] = "none" /\ early.seq = 0
      BY <2>1, <2>2 DEF Orderly, HeldHold, HoldType, Holds
    <2>4. \A m \in Holds : m # running /\ (stage[m] = "opening" => m = seq)
      BY <2>1 DEF Holds, Orderly, KeptEnd
    <2>5. SentAsLetGo' /\ KeptEnd'
      BY <2>1, <2>4 DEF Orderly, SentAsLetGo, LetGo, KeptEnd
    <2>6. RecordsForTheHold' /\ HeldHold'
      BY <2>1, <2>3 DEF RecordsForTheHold, HeldHold
    <2> QED BY <2>1, <2>2, <2>5, <2>6 DEF Orderly, Beginnings
  <1> QED BY <1>1, <1>2, <1>3, <1>4, <1>6, <1>7, <1>8, <1>9, <1>10, <1>11, <1>12, <1>13, <1>14 DEF TalkNext, WakeStep

\* The microphone of a hold that is held, or that has ended and left its end.
LEMMA OrderMeans ==
    ASSUME Orderly
    PROVE  MicForTheHold /\ SentWasLetGo
  BY DEF Orderly, RecordsForTheHold, KeptEnd, SentAsLetGo, LetGo, MicForTheHold, SentWasLetGo

\* At first nobody holds and nothing is on its way.
LEMMA TalkStarts == TalkInit => TalkInv
  <1> SUFFICES ASSUME TalkInit PROVE TalkInv
    OBVIOUS
  <1> USE DEF TalkInit
  <1>1. HoldType
    <2>1. hold \in [st : {"idle", "holding", "spent"}, kind : Kinds, long : BOOLEAN]
      BY IdleType DEF HoldRecords
    <2>2. 0 \in 0 .. MaxHolds
      BY HoldsAssumption
    <2>3. early \in [seq : 0 .. MaxHolds, end : {"none", "send", "drop"}]
      BY <2>2 DEF NoEnd
    <2>4. stage \in [Holds -> Stages] /\ verdict \in [Holds -> {"none", "send", "drop"}]
      BY DEF Stages
    <2>5. byWake \subseteq Holds /\ crossed \in BOOLEAN
      OBVIOUS
    <2> QED BY <2>1, <2>2, <2>3, <2>4, <2>5 DEF HoldType
  <1>2. OtherType
    <2>1. press \in [at : {"none", "gated", "down"}, kind : Kinds] /\ down \subseteq Kinds
      BY KindsAssumption DEF NoPress
    <2>2. active = 0 /\ 0 \in 0 .. MaxHolds
      BY HoldsAssumption
    <2>3. /\ registered \in BOOLEAN /\ pending \in BOOLEAN /\ paused \in BOOLEAN
          /\ timer \in BOOLEAN /\ escape \in BOOLEAN /\ recognizing \in BOOLEAN /\ sending \in BOOLEAN
      OBVIOUS
    <2>4. wake \in {"listen", "gated", "down", "numbered", "woke", "follow"} /\ text \in {"none", "ready", "sending"}
      OBVIOUS
    <2> QED BY <2>1, <2>2, <2>3, <2>4 DEF OtherType
  <1>3. OneOnItsWay /\ NumberedOne /\ Recording
    BY DEF OneOnItsWay, NumberedOne, Recording, NoEnd
  <1>4. Orderly
    BY DEF Orderly, RecordsForTheHold, SentAsLetGo, LetGo, Beginnings, HeldHold, KeptEnd, Beginning, NoPress, Idle
  <1> QED BY <1>1, <1>2, <1>3, <1>4 DEF TalkInv

\* That something overlapped is remembered.
LEMMA CrossedStays ==
    ASSUME TalkNext, ~crossed'
    PROVE  ~crossed
  <1>1. ASSUME NEW is, Crosses(is) PROVE ~crossed
    BY <1>1 DEF Crosses
  <1>2. CASE UNCHANGED crossed
    BY <1>2
  <1>3. ASSUME NEW k \in Kinds, Press(k) \/ Release(k) PROVE ~crossed
    BY <1>3, <1>1, <1>2 DEF Press, Release
  <1>4. ASSUME NEW n \in Holds, MicStep(n) \/ MessageStep(n) PROVE ~crossed
    BY <1>4, <1>1, <1>2 DEF MicStep, MicOpens, MicFails, MessageStep, Finish, Recognized, Send, SendReturns, msgRest
  <1>5. CASE StartHold \/ WakeNumber
    BY <1>5, <1>1, <1>2 DEF StartHold, WakeNumber, Numbered
  <1>6. CASE Limit \/ Sync \/ OwnerCancels \/ RequestEnds
    BY <1>6, <1>1, <1>2 DEF Limit, Sync, OwnerCancels, RequestEnds, WakeOver
  <1>7. CASE PressDown \/ SomeTime \/ TimerEnds \/ PauseOrResume \/ WakeGate \/ SubmitText \/ TextSent
    BY <1>7, <1>2 DEF PressDown, SomeTime, TimerEnds, PauseOrResume, WakeGate, SubmitText, TextSent, msgRest
  <1>8. CASE WakeDown \/ WakeRuns \/ WakeEscape \/ WakeLoop
    BY <1>8, <1>2 DEF WakeDown, WakeRuns, WakeEscape, WakeLoop
  <1> QED BY <1>3, <1>4, <1>5, <1>6, <1>7, <1>8 DEF TalkNext, WakeStep

\* The invariant of the holds is inductive.
LEMMA TalkSteps ==
    ASSUME TalkInv, TalkNext
    PROVE  TalkInv'
  <1>1. HoldType' /\ OtherType' /\ OneOnItsWay' /\ NumberedOne' /\ Recording'
    BY TalkTypes, TalkSendsOne, NumberedStays, TalkRecords DEF TalkInv
  <1>2. ~crossed' => Orderly'
    BY TalkInOrder, CrossedStays DEF TalkInv
  <1> QED BY <1>1, <1>2 DEF TalkInv

-----------------------------------------------------------------------------
(* The answers.                                                            *)

\* The kinds of events, as numbers.
LEMMA StageValues ==
    /\ DOMAIN Stage = {"accepted", "working", "done", "error"}
    /\ \A k \in DOMAIN Stage : Stage[k] \in Nat
    /\ \A k \in DOMAIN Stage : k \in {"done", "error"} <=> Stage[k] >= 2
  BY DEF Stage

Words == {"none", "decoded", "checked", "begun", "shown", "sounds", "ending", "over"}
MessageType ==
    /\ shown \in [id : 0 .. MaxMessages, stage : DOMAIN Stage]
    /\ sent \in 0 .. MaxMessages /\ inFlight \in {0, sent} /\ answered \subseteq 1 .. sent
    /\ wire \subseteq Messages \X Events /\ told \in [Messages -> SUBSET Events]
    /\ missed \in BOOLEAN
    /\ \A m \in Messages : m \notin answered => told[m] = {}
SpeechType ==
    /\ owner \in {"off", "pressed", "held", "recognizing"}
    /\ speech \in [Messages -> Words]
    /\ playing \in 0 .. MaxMessages /\ stopSent \subseteq Messages /\ speaking \in 0 .. MaxMessages
    /\ late \subseteq Messages /\ mute \subseteq Messages

\* An end of the last message that was handled is shown until the view forgets
\* it; then nothing of it is under way.
Handled(k) == k \in told[sent] /\ k \in {"done", "error"} /\ <<sent, k>> \notin wire
EndStays ==
    sent # 0 /\ (\E k \in Events : Handled(k)) /\ ~missed =>
        \/ shown.id = sent /\ shown.stage \in {"done", "error"}
        \/ shown.id = 0 /\ inFlight = 0

\* An answer that is not late was stopped, or is not the current one.
OverTheOwner ==
    \A m \in Messages : m \notin late =>
        /\ owner \in {"pressed", "held"} =>
             /\ speech[m] \in {"begun", "shown"} => playing # m
             /\ speech[m] = "sounds" => m \in stopSent
        /\ owner = "pressed" => speech[m] \notin {"none", "decoded", "checked"}
        /\ owner = "held" => speech[m] # "checked"

AnswersInv == MessageType /\ SpeechType /\ EndStays /\ OneVoice /\ SpeakingEnds /\ OverTheOwner

\* The steps of the messages and those of the speech leave each other alone.
MessageMoves ==
    \/ \E m \in Messages : SynthTakes(m) \/ MessageReturns(m) \/ \E k \in Events : SynthTells(m, k) \/ OnEvent(m, k)
    \/ SendMessage \/ Forget
SpeechMoves ==
    \/ \E m \in Messages : SynthSpeaks(m) \/ SpeechStep(m)
    \/ Barges \/ HoldBegins \/ HoldEnds \/ NothingToSend \/ ClickStops

\* A step is about the messages or about the speech, never about both.
LEMMA TwoSides ==
    ASSUME AnswersNext
    PROVE  \/ MessageMoves /\ UNCHANGED <<speechVars, late>>
           \/ SpeechMoves /\ UNCHANGED messageVars
  <1> USE DEF messageVars, speechVars, takeRest
  <1>1. CASE \E m \in Messages : SynthTakes(m) \/ MessageReturns(m) \/ \E k \in Events : SynthTells(m, k) \/ OnEvent(m, k)
    BY <1>1 DEF MessageMoves, SynthTakes, MessageReturns, SynthTells, OnEvent
  <1>2. CASE SendMessage \/ Forget
    BY <1>2 DEF MessageMoves, SendMessage, Forget
  <1>3. CASE \E m \in Messages : SynthSpeaks(m) \/ SpeechStep(m)
    BY <1>3 DEF SpeechMoves, SynthSpeaks, SpeechStep, SecondCheck, Begin, ShowSpeaking, Plays, SoundEnds, OnEnd
  <1>4. CASE Barges \/ HoldBegins \/ HoldEnds \/ NothingToSend \/ ClickStops
    BY <1>4 DEF SpeechMoves, Barges, HoldBegins, HoldEnds, NothingToSend, ClickStops
  <1> QED BY <1>1, <1>2, <1>3, <1>4 DEF AnswersNext

\* The messages keep their types.
LEMMA MessageTypes ==
    ASSUME MessageType, MessageMoves
    PROVE  MessageType'
  <1> USE MessagesAssumption, EventsAssumption, StageValues DEF MessageType, Messages
  <1>1. ASSUME NEW m \in Messages, SynthTakes(m) PROVE MessageType'
    <2>1. m = sent /\ UNCHANGED <<shown, sent, inFlight, wire, told, missed>> /\ answered' = answered \cup {m}
      BY <1>1 DEF SynthTakes
    <2>2. answered' \subseteq 1 .. sent'
      BY <2>1
    <2>3. \A n \in Messages : n \notin answered' => told'[n] = {}
      BY <2>1
    <2> QED BY <2>1, <2>2, <2>3
  <1>2. ASSUME NEW m \in Messages, MessageReturns(m) PROVE MessageType'
    <2>1. inFlight' = 0 /\ UNCHANGED <<sent, answered, wire, told, missed>>
      BY <1>2 DEF MessageReturns
    <2>2. shown' \in [id : 0 .. MaxMessages, stage : DOMAIN Stage]
      BY <1>2 DEF MessageReturns
    <2> QED BY <2>1, <2>2
  <1>3. ASSUME NEW m \in Messages, NEW k \in Events, SynthTells(m, k) PROVE MessageType'
    <2>1. /\ m \in answered /\ UNCHANGED <<shown, sent, inFlight, answered, missed>>
          /\ wire' = wire \cup {<<m, k>>} /\ told' = [told EXCEPT ![m] = @ \cup {k}]
      BY <1>3 DEF SynthTells
    <2> QED BY <2>1
  <1>4. ASSUME NEW m \in Messages, NEW k \in Events, OnEvent(m, k) PROVE MessageType'
    <2>1. UNCHANGED <<sent, inFlight, answered, told>> /\ wire' \subseteq wire
      BY <1>4 DEF OnEvent
    <2>2. shown' \in [id : 0 .. MaxMessages, stage : DOMAIN Stage]
      BY <1>4 DEF OnEvent
    <2>3. missed' \in BOOLEAN
      BY <1>4 DEF OnEvent
    <2> QED BY <2>1, <2>2, <2>3
  <1>5. CASE SendMessage
    <2>1. sent' = sent + 1 /\ inFlight' = sent' /\ missed' = FALSE /\ UNCHANGED <<shown, answered, wire, told>>
      BY <1>5 DEF SendMessage
    <2>2. sent' \in 0 .. MaxMessages /\ answered \subseteq 1 .. sent'
      BY <1>5, <2>1 DEF SendMessage
    <2> QED BY <2>1, <2>2
  <1>6. CASE Forget
    BY <1>6 DEF Forget, NoMessage
  <1> QED BY <1>1, <1>2, <1>3, <1>4, <1>5, <1>6 DEF MessageMoves

\* What is shown of the last message is its end once that was handled.
LEMMA EndStaysShown ==
    ASSUME MessageType, EndStays, MessageMoves
    PROVE  EndStays'
  <1> USE MessagesAssumption, EventsAssumption DEF Messages
  <1>1. ASSUME NEW m \in Messages, SynthTakes(m) PROVE EndStays'
    BY <1>1 DEF SynthTakes, EndStays, Handled
  <1>2. ASSUME NEW m \in Messages, MessageReturns(m) PROVE EndStays'
    <2>1. m = sent /\ inFlight # 0 /\ UNCHANGED <<sent, wire, told, missed>>
      BY <1>2 DEF MessageReturns, MessageType
    <2>2. shown' = shown \/ (shown.id # m /\ shown'.id = m)
      BY <1>2 DEF MessageReturns, Known
    <2> QED BY <2>1, <2>2 DEF EndStays, Handled
  <1>3. ASSUME NEW m \in Messages, NEW k \in Events, SynthTells(m, k) PROVE EndStays'
    <2>1. /\ UNCHANGED <<shown, sent, inFlight, missed>>
          /\ wire' = wire \cup {<<m, k>>}
          /\ \A n \in Messages : told'[n] = IF n = m THEN told[n] \cup {k} ELSE told[n]
      BY <1>3 DEF SynthTells, MessageType
    <2>2. ASSUME sent # 0, NEW j \in Events, Handled(j)' PROVE Handled(j)
      <3>1. sent \in Messages /\ j \in told'[sent] /\ <<sent, j>> \notin wire'
        BY <2>1, <2>2 DEF Handled, MessageType
      <3> QED BY <2>1, <2>2, <3>1 DEF Handled
    <2> QED BY <2>1, <2>2 DEF EndStays
  <1>4. ASSUME NEW m \in Messages, NEW k \in Events, OnEvent(m, k) PROVE EndStays'
    <2>1. UNCHANGED <<sent, inFlight, told>> /\ wire' = wire \ {<<m, k>>}
      BY <1>4 DEF OnEvent
    <2>2. SUFFICES ASSUME sent # 0, NEW j \in Events, Handled(j)', ~missed'
                   PROVE  \/ shown'.id = sent /\ shown'.stage \in {"done", "error"}
                          \/ shown'.id = 0 /\ inFlight = 0
      BY <2>1 DEF EndStays
    <2>3. ~missed /\ m \in Nat \ {0}
      <3>1. m \in Nat \ {0}
        OBVIOUS
      <3>2. missed' = missed \/ (missed' <=> (missed \/ (m = sent /\ ~OursIs(m))))
        BY <1>4 DEF OnEvent
      <3>3. ~missed
        BY <2>2, <3>2
      <3> QED BY <3>1, <3>3
    <2>4. CASE m = sent
      <3>1. OursIs(m)
        BY <1>4, <2>2, <2>4 DEF OnEvent
      <3>2. k \in DOMAIN Stage /\ shown.stage \in DOMAIN Stage
        BY DEF MessageType
      <3>3. CASE Backwards(m, k)
        <4>1. shown' = shown /\ shown.id = m /\ Stage[shown.stage] > Stage[k]
          BY <1>4, <3>1, <3>3 DEF OnEvent, Backwards, OursIs
        <4>2. CASE Handled(j)
          BY <2>2, <2>3, <2>4, <4>1, <4>2 DEF EndStays, MessageType
        <4>3. CASE j = k
          <5>1. k \in {"done", "error"}
            BY <2>2, <4>3 DEF Handled
          <5> QED BY <2>4, <3>2, <4>1, <5>1, StageValues
        <4> QED BY <2>1, <2>2, <2>4, <4>2, <4>3 DEF Handled
      <3>4. CASE ~Backwards(m, k)
        <4>1. shown'.id = m /\ shown'.stage = k /\ (shown.id # 0 => Stage[shown.stage] <= Stage[k])
          <5>1. shown' = [id |-> m, stage |-> k]
            BY <1>4, <3>1, <3>4 DEF OnEvent
          <5>2. shown.id # 0 => ~(Stage[shown.stage] > Stage[k])
            BY <3>4 DEF Backwards
          <5> QED BY <5>1, <5>2, <3>2, StageValues
        <4>2. CASE Handled(j)
          <5>1. shown.id = sent /\ shown.stage \in {"done", "error"}
            BY <2>2, <2>3, <2>4, <3>1, <4>2 DEF EndStays, OursIs
          <5> QED BY <2>3, <2>4, <3>2, <4>1, <5>1, StageValues
        <4>3. CASE j = k
          BY <2>2, <2>4, <4>1, <4>3 DEF Handled
        <4> QED BY <2>1, <2>2, <2>4, <4>2, <4>3 DEF Handled
      <3> QED BY <3>3, <3>4
    <2>5. CASE m # sent
      <3>1. Handled(j)
        BY <2>1, <2>2, <2>5 DEF Handled
      <3>2. ~OursIs(m)
        BY <2>2, <2>3, <2>5, <3>1 DEF EndStays, OursIs
      <3>3. shown' = shown
        BY <1>4, <3>2 DEF OnEvent
      <3> QED BY <2>2, <2>3, <3>1, <3>3 DEF EndStays
    <2> QED BY <2>4, <2>5
  <1>5. CASE SendMessage
    <2>1. sent' = sent + 1 /\ told' = told /\ sent < MaxMessages
      BY <1>5 DEF SendMessage
    <2>2. told[sent + 1] = {}
      BY <2>1 DEF MessageType
    <2> QED BY <2>1, <2>2 DEF EndStays, Handled
  <1>6. CASE Forget
    BY <1>6 DEF Forget, NoMessage, EndStays
  <1> QED BY <1>1, <1>2, <1>3, <1>4, <1>5, <1>6 DEF MessageMoves

\* What is shown of a message does not go back.
LEMMA ShownStep ==
    ASSUME MessageType, MessageMoves, shown'.id = shown.id
    PROVE  Stage[shown'.stage] >= Stage[shown.stage]
  <1> USE MessagesAssumption, EventsAssumption DEF Messages
  <1>0. shown.stage \in DOMAIN Stage /\ (shown' = shown => Stage[shown'.stage] >= Stage[shown.stage])
    BY StageValues DEF MessageType
  <1>1. ASSUME NEW m \in Messages, SynthTakes(m) \/ MessageReturns(m) PROVE shown' = shown
    BY <1>1 DEF SynthTakes, MessageReturns, Known
  <1>2. ASSUME NEW m \in Messages, NEW k \in Events, SynthTells(m, k) PROVE shown' = shown
    BY <1>2 DEF SynthTells
  <1>3. ASSUME NEW m \in Messages, NEW k \in Events, OnEvent(m, k) PROVE Stage[shown'.stage] >= Stage[shown.stage]
    <2>1. CASE shown' = shown
      BY <2>1, <1>0
    <2>2. CASE shown' # shown
      <3>1. shown' = [id |-> m, stage |-> k] /\ ~Backwards(m, k)
        BY <1>3, <2>2 DEF OnEvent
      <3>2. shown.id # 0 /\ k \in DOMAIN Stage
        BY <3>1
      <3>3. ~(Stage[shown.stage] > Stage[k])
        BY <3>1, <3>2 DEF Backwards
      <3> QED BY <1>0, <3>1, <3>2, <3>3, StageValues
    <2> QED BY <2>1, <2>2
  <1>4. CASE SendMessage \/ Forget
    BY <1>4, <1>0 DEF SendMessage, Forget, NoMessage
  <1> QED BY <1>0, <1>1, <1>2, <1>3, <1>4 DEF MessageMoves

\* What plays is stopped, or nothing plays.
LEMMA StoppedStep ==
    ASSUME SpeechType, Stopped
    PROVE  /\ playing' = 0 /\ speaking' \in {0, speaking}
           /\ \A m \in Messages : m \in stopSent' <=> m \in stopSent \/ m = playing
           /\ stopSent' \subseteq Messages
  <1>1. CASE playing = 0
    <2>1. UNCHANGED <<playing, stopSent, speaking>>
      BY <1>1 DEF Stopped
    <2>2. \A m \in Messages : m # 0
      BY DEF Messages
    <2> QED BY <1>1, <2>1, <2>2 DEF SpeechType
  <1>2. CASE playing # 0
    <2>1. playing' = 0 /\ stopSent' = stopSent \cup {playing} /\ speaking' = 0
      BY <1>2 DEF Stopped
    <2>2. playing \in Messages
      BY <1>2, MessagesAssumption DEF SpeechType, Messages
    <2> QED BY <2>1, <2>2 DEF SpeechType
  <1> QED BY <1>1, <1>2

\* One voice at a time, over the owner only what was past its second check, and
\* what is shown to speak is an answer that is not over.
LEMMA SpeechKeepsItsWord ==
    ASSUME SpeechType, OneVoice, SpeakingEnds, OverTheOwner, SpeechMoves
    PROVE  SpeechType' /\ OneVoice' /\ SpeakingEnds' /\ OverTheOwner'
  <1> USE MessagesAssumption DEF speechVars, takeRest
  <1>0. \A m \in Messages : m # 0 /\ m \in 0 .. MaxMessages
    BY DEF Messages
  <1>1. ASSUME NEW m \in Messages, NEW to \in Words, Becomes(m, to), SpeechType
        PROVE  speech' \in [Messages -> Words] /\ \A n \in Messages : speech'[n] = IF n = m THEN to ELSE speech[n]
    BY <1>1 DEF Becomes, SpeechType
  <1>2. ASSUME NEW m \in Messages, NEW to \in Words, Becomes(m, to), UNCHANGED <<playing, stopSent, speaking, mute, owner, late>>,
               \/ speech[m] \in {"none", "decoded", "checked"} /\ to = "over"
               \/ speech[m] = "none" /\ to = "decoded" /\ owner # "held"
               \/ speech[m] = "decoded" /\ to = "checked" /\ owner # "held"
               \/ speech[m] = "shown" /\ to = "sounds" /\ playing = m
               \/ speech[m] = "shown" /\ to = "ending"
        PROVE  SpeechType' /\ OneVoice' /\ SpeakingEnds' /\ OverTheOwner'
    <2>1. speech' \in [Messages -> Words] /\ \A n \in Messages : speech'[n] = IF n = m THEN to ELSE speech[n]
      BY <1>1, <1>2
    <2>2. SpeechType'
      BY <1>2, <2>1 DEF SpeechType
    <2>3. OneVoice'
      BY <1>2, <2>1 DEF OneVoice
    <2>4. SpeakingEnds'
      BY <1>2, <2>1 DEF SpeakingEnds
    <2>5. OverTheOwner'
      BY <1>2, <2>1 DEF OverTheOwner
    <2> QED BY <2>2, <2>3, <2>4, <2>5
  <1>3. ASSUME NEW m \in Messages, SynthSpeaks(m) PROVE SpeechType' /\ OneVoice' /\ SpeakingEnds' /\ OverTheOwner'
    <2>1. Becomes(m, "over") \/ (Becomes(m, "decoded") /\ owner # "held")
      BY <1>3 DEF SynthSpeaks, Wanted
    <2> QED BY <1>3, <2>1, <1>2 DEF SynthSpeaks, Words
  <1>4. ASSUME NEW m \in Messages, SecondCheck(m) PROVE SpeechType' /\ OneVoice' /\ SpeakingEnds' /\ OverTheOwner'
    <2>1. Becomes(m, "over") \/ (Becomes(m, "checked") /\ owner # "held")
      BY <1>4 DEF SecondCheck, Wanted
    <2> QED BY <1>4, <2>1, <1>2 DEF SecondCheck, Words
  <1>5. ASSUME NEW m \in Messages, Begin(m) PROVE SpeechType' /\ OneVoice' /\ SpeakingEnds' /\ OverTheOwner'
    <2>1. /\ speech' \in [Messages -> Words] /\ \A n \in Messages : speech'[n] = IF n = m THEN "begun" ELSE speech[n]
          /\ playing' = m /\ speech[m] = "checked" /\ UNCHANGED <<speaking, mute, owner, late>>
      BY <1>1, <1>5 DEF Begin, Words
    <2>2. stopSent' \subseteq Messages /\ \A n \in Messages : n \in stopSent' <=> n \in stopSent \/ n = playing
      BY <1>0, <1>5 DEF Begin, Replaces, SpeechType, Messages
    <2>3. SpeechType'
      BY <1>0, <2>1, <2>2 DEF SpeechType
    <2>4. OneVoice'
      BY <2>1, <2>2 DEF OneVoice
    <2>5. SpeakingEnds'
      BY <2>1, <2>2 DEF SpeakingEnds
    <2>6. OverTheOwner'
      BY <2>1, <2>2 DEF OverTheOwner
    <2> QED BY <2>3, <2>4, <2>5, <2>6
  <1>6. ASSUME NEW m \in Messages, ShowSpeaking(m) PROVE SpeechType' /\ OneVoice' /\ SpeakingEnds' /\ OverTheOwner'
    <2>1. /\ speech' \in [Messages -> Words] /\ \A n \in Messages : speech'[n] = IF n = m THEN "shown" ELSE speech[n]
          /\ speaking' = m /\ speech[m] = "begun" /\ UNCHANGED <<playing, stopSent, mute, owner, late>>
      BY <1>1, <1>6 DEF ShowSpeaking, Words
    <2>2. SpeechType' /\ OneVoice'
      BY <1>0, <2>1 DEF SpeechType, OneVoice
    <2>3. SpeakingEnds' /\ OverTheOwner'
      BY <2>1 DEF SpeakingEnds, OverTheOwner
    <2> QED BY <2>2, <2>3
  <1>7. ASSUME NEW m \in Messages, Plays(m) PROVE SpeechType' /\ OneVoice' /\ SpeakingEnds' /\ OverTheOwner'
    <2>1. CASE Becomes(m, IF Current(m) THEN "sounds" ELSE "ending") /\ UNCHANGED <<playing, mute>>
      BY <1>2, <1>7, <2>1 DEF Plays, Current, Words
    <2>2. CASE Becomes(m, "over") /\ Finished(m) /\ mute' = mute \cup {m}
      <3>1. /\ speech' \in [Messages -> Words] /\ \A n \in Messages : speech'[n] = IF n = m THEN "over" ELSE speech[n]
            /\ playing' = (IF playing = m THEN 0 ELSE playing) /\ UNCHANGED <<stopSent, speaking, owner, late>>
        BY <1>1, <1>7, <2>2 DEF Plays, Finished, Words
      <3>2. SpeechType'
        BY <1>0, <2>2, <3>1 DEF SpeechType
      <3>3. OneVoice' /\ SpeakingEnds'
        BY <1>0, <2>2, <3>1 DEF OneVoice, SpeakingEnds
      <3>4. OverTheOwner'
        BY <1>0, <3>1 DEF OverTheOwner
      <3> QED BY <3>2, <3>3, <3>4
    <2> QED BY <1>7, <2>1, <2>2 DEF Plays
  <1>8. ASSUME NEW m \in Messages, SoundEnds(m) PROVE SpeechType' /\ OneVoice' /\ SpeakingEnds' /\ OverTheOwner'
    <2>1. /\ speech' \in [Messages -> Words] /\ \A n \in Messages : speech'[n] = IF n = m THEN "ending" ELSE speech[n]
          /\ playing' = (IF playing = m THEN 0 ELSE playing) /\ UNCHANGED <<stopSent, speaking, mute, owner, late>>
      BY <1>1, <1>8 DEF SoundEnds, Finished, Words
    <2>2. SpeechType'
      BY <1>0, <2>1 DEF SpeechType
    <2>3. OneVoice' /\ SpeakingEnds'
      BY <1>0, <2>1 DEF OneVoice, SpeakingEnds
    <2>4. OverTheOwner'
      BY <1>0, <2>1 DEF OverTheOwner
    <2> QED BY <2>2, <2>3, <2>4
  <1>9. ASSUME NEW m \in Messages, OnEnd(m) PROVE SpeechType' /\ OneVoice' /\ SpeakingEnds' /\ OverTheOwner'
    <2>1. /\ speech' \in [Messages -> Words] /\ \A n \in Messages : speech'[n] = IF n = m THEN "over" ELSE speech[n]
          /\ speaking' = (IF speaking = m THEN 0 ELSE speaking) /\ stopSent' = stopSent \ {m}
          /\ UNCHANGED <<playing, mute, owner, late>>
      BY <1>1, <1>9 DEF OnEnd, ViewAfter, Words
    <2>2. SpeechType'
      BY <1>0, <2>1 DEF SpeechType
    <2>3. OneVoice' /\ SpeakingEnds'
      BY <1>0, <2>1 DEF OneVoice, SpeakingEnds
    <2>4. OverTheOwner'
      BY <1>0, <2>1 DEF OverTheOwner
    <2> QED BY <2>2, <2>3, <2>4
  <1>10. CASE Barges
    <2>1. /\ speech' = speech /\ mute' = mute /\ owner' = "pressed"
          /\ late' = {m \in Messages : speech[m] \in {"none", "decoded", "checked"}}
          /\ playing' = 0 /\ speaking' \in {0, speaking} /\ stopSent' \subseteq Messages
          /\ \A m \in Messages : m \in stopSent' <=> m \in stopSent \/ m = playing
      BY <1>10, StoppedStep DEF Barges
    <2>2. SpeechType'
      BY <2>1 DEF SpeechType
    <2>3. OneVoice'
      BY <2>1 DEF OneVoice
    <2>5. SpeakingEnds'
      BY <1>0, <2>1 DEF SpeakingEnds
    <2>4. OverTheOwner'
      BY <1>0, <2>1 DEF OverTheOwner, OneVoice
    <2> QED BY <2>2, <2>3, <2>4, <2>5
  <1>11. CASE HoldBegins
    <2>1. /\ UNCHANGED <<speech, playing, stopSent, speaking, mute>> /\ owner = "pressed"
          /\ \/ owner' = "held" /\ late' = {m \in late : BargedIn(m)}
             \/ owner' = "off" /\ late' = {}
      BY <1>11 DEF HoldBegins
    <2>2. SpeechType' /\ OneVoice' /\ SpeakingEnds'
      BY <2>1 DEF SpeechType, OneVoice, SpeakingEnds
    <2>3. OverTheOwner'
      BY <2>1 DEF OverTheOwner, BargedIn
    <2> QED BY <2>2, <2>3
  <1>12. CASE HoldEnds \/ NothingToSend
    BY <1>12 DEF HoldEnds, NothingToSend, SpeechType, OneVoice, SpeakingEnds, OverTheOwner
  <1>13. CASE ClickStops
    <2>1. /\ UNCHANGED <<speech, mute, owner, late>>
          /\ playing' = 0 /\ speaking' \in {0, speaking} /\ stopSent' \subseteq Messages
          /\ \A m \in Messages : m \in stopSent' <=> m \in stopSent \/ m = playing
      BY <1>13, StoppedStep DEF ClickStops
    <2>2. SpeechType'
      BY <2>1 DEF SpeechType
    <2>3. OneVoice' /\ SpeakingEnds'
      BY <1>0, <2>1 DEF OneVoice, SpeakingEnds
    <2>4. OverTheOwner'
      BY <1>0, <2>1 DEF OverTheOwner
    <2> QED BY <2>2, <2>3, <2>4
  <1> QED BY <1>3, <1>4, <1>5, <1>6, <1>7, <1>8, <1>9, <1>10, <1>11, <1>12, <1>13 DEF SpeechMoves, SpeechStep

\* A message is sent: the owner is done, and nothing of the speech changes.
LEMMA MessagesLeaveSpeech ==
    ASSUME SpeechType, OneVoice, SpeakingEnds, OverTheOwner, MessageMoves, UNCHANGED <<speechVars, late>>
    PROVE  SpeechType' /\ OneVoice' /\ SpeakingEnds' /\ OverTheOwner'
  <1>1. owner' = owner \/ owner' = "off"
    BY DEF MessageMoves, SynthTakes, MessageReturns, SynthTells, OnEvent, SendMessage, Forget
  <1> QED BY <1>1 DEF speechVars, SpeechType, OneVoice, SpeakingEnds, OverTheOwner

\* At first nothing was sent and nothing plays.
LEMMA AnswersStart == AnswersInit => AnswersInv
  <1> SUFFICES ASSUME AnswersInit PROVE AnswersInv
    OBVIOUS
  <1> USE MessagesAssumption DEF AnswersInit
  <1>1. MessageType
    <2>1. NoMessage \in [id : 0 .. MaxMessages, stage : DOMAIN Stage]
      BY StageValues DEF NoMessage
    <2>2. told \in [Messages -> SUBSET Events] /\ \A m \in Messages : told[m] = {}
      OBVIOUS
    <2>3. missed \in BOOLEAN /\ wire \subseteq Messages \X Events /\ answered \subseteq 1 .. sent
      OBVIOUS
    <2>4. sent \in 0 .. MaxMessages /\ inFlight \in {0, sent}
      OBVIOUS
    <2> QED BY <2>1, <2>2, <2>3, <2>4 DEF MessageType
  <1>2. SpeechType
    BY DEF SpeechType, Words
  <1>3. EndStays /\ OneVoice /\ SpeakingEnds /\ OverTheOwner
    BY DEF EndStays, OneVoice, SpeakingEnds, OverTheOwner, Messages
  <1> QED BY <1>1, <1>2, <1>3 DEF AnswersInv

\* The invariant of the answers is inductive.
LEMMA AnswersSteps ==
    ASSUME AnswersInv, AnswersNext
    PROVE  AnswersInv'
  <1>1. CASE MessageMoves /\ UNCHANGED <<speechVars, late>>
    BY <1>1, MessageTypes, EndStaysShown, MessagesLeaveSpeech DEF AnswersInv
  <1>2. CASE SpeechMoves /\ UNCHANGED messageVars
    <2>1. MessageType' /\ EndStays'
      BY <1>2 DEF AnswersInv, messageVars, MessageType, EndStays, Handled
    <2> QED BY <1>2, <2>1, SpeechKeepsItsWord DEF AnswersInv
  <1> QED BY <1>1, <1>2, TwoSides

\* What the invariant says of the end of a message and of the owner's voice.
LEMMA AnswersMean ==
    ASSUME AnswersInv
    PROVE  AnswersTypeOK /\ EndIsShown /\ OneVoice /\ TalksOverNobody /\ SpeakingEnds
  <1> USE DEF AnswersInv
  <1>1. AnswersTypeOK
    <2>1. inFlight \in 0 .. sent /\ answered \subseteq Messages
      BY MessagesAssumption DEF MessageType, Messages
    <2> QED BY <2>1 DEF AnswersTypeOK, MessageType, SpeechType, Words
  <1>2. EndIsShown
    <2>1. sent # 0 => sent \in Messages
      BY DEF MessageType, Messages
    <2>2. sent # 0 => told[sent] \subseteq Events
      BY <2>1 DEF MessageType
    <2> QED BY <2>2 DEF EndIsShown, EndStays, Handled
  <1>3. TalksOverNobody
    BY DEF TalksOverNobody, OverTheOwner
  <1> QED BY <1>1, <1>2, <1>3

-----------------------------------------------------------------------------
(* Together.                                                               *)

VoiceInv == TalkInv /\ AnswersInv

\* A step is of one kind and leaves the other's variables alone.
LEMMA VoiceStep ==
    ASSUME VoiceInv, [Next]_vars
    PROVE  VoiceInv'
  <1>1. CASE TalkMoves
    <2>1. TalkInv'
      BY <1>1, TalkSteps DEF TalkMoves, VoiceInv
    <2>2. AnswersInv'
      BY <1>1 DEF TalkMoves, VoiceInv, AnswersInv, answerVars, messageVars, speechVars,
                  MessageType, SpeechType, EndStays, Handled, OneVoice, SpeakingEnds, OverTheOwner
    <2> QED BY <2>1, <2>2 DEF VoiceInv
  <1>2. CASE AnswersMove \/ UNCHANGED vars
    <2>1. UNCHANGED talkVars
      BY <1>2 DEF AnswersMove, vars
    <2>2. TalkInv'
      <3> USE DEF VoiceInv, TalkInv, talkVars, keyVars, wakeVars, sendVars
      <3>1. HoldType' /\ OtherType'
        BY <2>1 DEF HoldType, OtherType
      <3>2. OneOnItsWay' /\ NumberedOne' /\ Recording'
        BY <2>1 DEF OneOnItsWay, NumberedOne, Recording
      <3>3. (~crossed => Orderly)'
        BY <2>1 DEF Orderly, RecordsForTheHold, SentAsLetGo, Beginnings, Beginning, HeldHold, KeptEnd, Unnumbered
      <3> QED BY <3>1, <3>2, <3>3
    <2>3. CASE AnswersMove
      BY <2>2, <2>3, AnswersSteps DEF AnswersMove, VoiceInv
    <2>4. CASE UNCHANGED vars
      BY <2>2, <2>4 DEF vars, VoiceInv, AnswersInv, answerVars, messageVars, speechVars,
                  MessageType, SpeechType, EndStays, Handled, OneVoice, SpeakingEnds, OverTheOwner
    <2> QED BY <1>2, <2>3, <2>4
  <1> QED BY <1>1, <1>2 DEF Next

\* The inductive invariant of the voice.
LEMMA VoiceAlways == Spec => []VoiceInv
  <1>1. Init => VoiceInv
    BY TalkStarts, AnswersStart DEF Init, VoiceInv
  <1> QED BY <1>1, VoiceStep, PTL DEF Spec

\* The microphone is open for the hold that is held, only what was let go is
\* sent, and one message at a time is, for any keys and any number of holds
\* (island/mod.rs, start_hold, act, send_with; island/hold.rs).
THEOREM MicStaysTheOwners == Spec => []MicIsTheOwners
  <1>1. VoiceInv => VoiceTypeOK
    BY AnswersMean DEF VoiceInv, TalkInv, HoldType, OtherType, Stages, VoiceTypeOK, TalkTypeOK
  <1>2. VoiceInv => MicForTheHold /\ SentWasLetGo /\ OneMessage
    <2>1. VoiceInv /\ crossed => MicForTheHold /\ SentWasLetGo
      BY DEF MicForTheHold, SentWasLetGo
    <2> QED BY <2>1, OrderMeans, OneMessageHolds DEF VoiceInv, TalkInv
  <1>3. VoiceInv => MicIsTheOwners
    BY <1>1, <1>2 DEF MicIsTheOwners
  <1> QED BY <1>3, VoiceAlways, PTL

\* The island shows the end of the last message once it was handled, one voice
\* sounds at a time and none over the owner but what was past its second check,
\* and the island speaks for no answer that is over, for any number of messages
\* and any events (island/mod.rs, on_event, take_speech, stop_speech, on_end;
\* island/speak.rs, begin, play, stop).
THEOREM IslandStaysRight == Spec => []IslandIsRight
  <1>1. VoiceInv => IslandIsRight
    BY AnswersMean DEF VoiceInv, IslandIsRight
  <1> QED BY <1>1, VoiceAlways, PTL

\* No late event takes what the island shows of a message back to an earlier
\* stage (island/mod.rs, on_event).
THEOREM StagesGoOn == Spec => StageNeverBack
  <1>1. VoiceInv /\ [Next]_vars => [shown'.id = shown.id => Stage[shown'.stage] >= Stage[shown.stage]]_answerVars
    <2> SUFFICES ASSUME VoiceInv, [Next]_vars, shown'.id = shown.id, answerVars' # answerVars
                 PROVE  Stage[shown'.stage] >= Stage[shown.stage]
      OBVIOUS
    <2>1. AnswersNext
      BY DEF Next, vars, TalkMoves, AnswersMove
    <2>2. CASE MessageMoves
      BY <2>2, ShownStep DEF VoiceInv, AnswersInv
    <2>3. CASE UNCHANGED messageVars
      <3>1. shown' = shown /\ shown.stage \in DOMAIN Stage
        BY <2>3 DEF messageVars, VoiceInv, AnswersInv, MessageType
      <3> QED BY <3>1, StageValues
    <2> QED BY <2>1, <2>2, <2>3, TwoSides
  <1> QED BY <1>1, VoiceAlways, PTL DEF Spec, StageNeverBack
=============================================================================
