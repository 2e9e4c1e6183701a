--------------------------- MODULE ControlProofs ---------------------------
(***************************************************************************)
(* Proofs about what goes over a control stream (MCRequests): the requests *)
(* to the synth for every set of calls, every limit and every number of    *)
(* streams, and that they implement Promise; the announcements for every   *)
(* number of threads and changes; the owner's policy for any number of     *)
(* commands and ends of the app.                                           *)
(***************************************************************************)
EXTENDS MCRequests, FiniteSetTheorems, TLAPS

-----------------------------------------------------------------------------
(* The requests.                                                           *)

IInv ==
    /\ TypeOK
    /\ NoLeakedEntry
    /\ LiveStreamCarries
    /\ DroppedMeansEnded
    /\ GenerationDiscipline

LEMMA InitIInv == Init => IInv
  <1> SUFFICES ASSUME Init PROVE IInv
    OBVIOUS
  <1> USE MaxGenerationAssumption
  <1>1. TypeOK
    <2>1. 0 \in 0 .. MaxGeneration
      OBVIOUS
    <2>2. queued \in [Calls -> 0 .. MaxGeneration]
      BY <2>1 DEF Init
    <2>3. supported \in BOOLEAN /\ pending \in SUBSET Calls /\ seen \in SUBSET Calls
      BY DEF Init
    <2> QED
      BY <2>1, <2>2, <2>3 DEF Init, TypeOK
  <1>2. NoLeakedEntry /\ LiveStreamCarries /\ DroppedMeansEnded
    BY DEF Init, NoLeakedEntry, LiveStreamCarries, DroppedMeansEnded
  <1>3. GenerationDiscipline
    BY DEF Init, GenerationDiscipline
  <1> QED
    BY <1>1, <1>2, <1>3 DEF IInv

\* A stream that attaches: no stream is up, so what was pending went out on
\* one that has ended.
LEMMA AttachIInv == IInv /\ Attach => IInv'
  <1> SUFFICES ASSUME IInv, Attach PROVE IInv'
    OBVIOUS
  <1> USE MaxGenerationAssumption
  <1>1. TypeOK'
    <2>1. oneshot' \in [Calls -> {"none", "answered", "dropped"}] /\ pending' \in SUBSET Calls
      BY DEF IInv, TypeOK, Attach, FailPending
    <2>2. out' \in 0 .. MaxGeneration /\ generation' \in 0 .. MaxGeneration
      BY DEF IInv, TypeOK, Attach
    <2>3. stream' \in [Generations -> {"none", "up", "closing", "gone"}]
      BY DEF IInv, TypeOK, Attach
    <2> QED
      BY <2>1, <2>2, <2>3 DEF IInv, TypeOK, Attach
  <1>2. NoLeakedEntry' /\ LiveStreamCarries'
    BY DEF IInv, TypeOK, Attach, FailPending, Generations, NoLeakedEntry, LiveStreamCarries
  <1>3. GenerationDiscipline'
    BY DEF IInv, TypeOK, Attach, FailPending, Generations, GenerationDiscipline,
           LiveStreamCarries, NoLeakedEntry
  <1>4. DroppedMeansEnded'
    BY DEF IInv, TypeOK, Attach, FailPending, Generations, GenerationDiscipline,
           LiveStreamCarries, DroppedMeansEnded
  <1> QED
    BY <1>1, <1>2, <1>3, <1>4 DEF IInv

\* A stream that ends for good: only the current one takes the calls along.
LEMMA DetachIInv == ASSUME IInv, NEW g \in Generations, Detach(g) PROVE IInv'
  <1> USE MaxGenerationAssumption
  <1>1. TypeOK'
    <2>1. oneshot' \in [Calls -> {"none", "answered", "dropped"}] /\ pending' \in SUBSET Calls
      BY DEF IInv, TypeOK, Detach, FailPending
    <2>2. out' \in 0 .. MaxGeneration /\ generation' \in 0 .. MaxGeneration
      BY DEF IInv, TypeOK, Detach
    <2>3. stream' \in [Generations -> {"none", "up", "closing", "gone"}]
      BY DEF IInv, TypeOK, Detach
    <2> QED
      BY <2>1, <2>2, <2>3 DEF IInv, TypeOK, Detach
  <1>2. NoLeakedEntry' /\ LiveStreamCarries'
    BY DEF IInv, TypeOK, Detach, FailPending, Generations, NoLeakedEntry, LiveStreamCarries,
           GenerationDiscipline
  <1>3. GenerationDiscipline'
    BY DEF IInv, TypeOK, Detach, FailPending, Generations, GenerationDiscipline,
           LiveStreamCarries, NoLeakedEntry
  <1>4. DroppedMeansEnded'
    BY DEF IInv, TypeOK, Detach, FailPending, Generations, GenerationDiscipline,
           LiveStreamCarries, DroppedMeansEnded
  <1> QED
    BY <1>1, <1>2, <1>3, <1>4 DEF IInv

LEMMA CallIInv == ASSUME IInv, NEW c \in Calls, Call(c) PROVE IInv'
  <1> USE MaxGenerationAssumption
  <1>1. ASSUME NEW why \in Outcomes, call[c] = "idle", Refused(c, why)
        PROVE  IInv'
    BY <1>1 DEF IInv, TypeOK, Refused, NoLeakedEntry, LiveStreamCarries, DroppedMeansEnded,
                GenerationDiscipline, Outcomes
  <1>2. ASSUME call[c] = "idle", out # 0, stream[out] = "up", Register(c)
        PROVE  IInv'
    BY <1>2 DEF IInv, TypeOK, Register, NoLeakedEntry, LiveStreamCarries, DroppedMeansEnded,
                GenerationDiscipline
  <1> QED
    BY <1>1, <1>2 DEF Call, Outcomes

LEMMA NextIInv == IInv /\ [Next]_vars => IInv'
  <1> SUFFICES ASSUME IInv, [Next]_vars PROVE IInv'
    OBVIOUS
  <1> USE MaxGenerationAssumption
  <1>1. CASE Attach
    BY <1>1, AttachIInv
  <1>2. ASSUME NEW g \in Generations, NEW feature \in BOOLEAN, HelloAck(g, feature)
        PROVE  IInv'
    BY <1>2 DEF IInv, TypeOK, HelloAck, NoLeakedEntry, LiveStreamCarries, DroppedMeansEnded,
                GenerationDiscipline
  <1>3. ASSUME NEW g \in Generations, StreamEnds(g)
        PROVE  IInv'
    BY <1>3 DEF IInv, TypeOK, StreamEnds, NoLeakedEntry, LiveStreamCarries, DroppedMeansEnded,
                GenerationDiscipline, Generations
  <1>4. ASSUME NEW g \in Generations, Detach(g)
        PROVE  IInv'
    BY <1>4, DetachIInv
  <1>5. ASSUME NEW c \in Calls, WriterSends(c)
        PROVE  IInv'
    BY <1>5 DEF IInv, TypeOK, WriterSends, NoLeakedEntry, LiveStreamCarries, DroppedMeansEnded,
                GenerationDiscipline
  <1>6. ASSUME NEW c \in Calls, Resolve(c)
        PROVE  IInv'
    BY <1>6 DEF IInv, TypeOK, Resolve, NoLeakedEntry, LiveStreamCarries, DroppedMeansEnded,
                GenerationDiscipline
  <1>7. ASSUME NEW c \in Calls, Call(c)
        PROVE  IInv'
    BY <1>7, CallIInv
  <1>8. ASSUME NEW c \in Calls, Return(c)
        PROVE  IInv'
    BY <1>8 DEF IInv, TypeOK, Return, NoLeakedEntry, LiveStreamCarries, DroppedMeansEnded,
                GenerationDiscipline, Outcomes
  <1>9. ASSUME NEW c \in Calls, TimerFires(c)
        PROVE  IInv'
    BY <1>9 DEF IInv, TypeOK, TimerFires, NoLeakedEntry, LiveStreamCarries, DroppedMeansEnded,
                GenerationDiscipline
  <1>10. ASSUME NEW c \in Calls, GiveUp(c)
         PROVE  IInv'
    BY <1>10 DEF IInv, TypeOK, GiveUp, NoLeakedEntry, LiveStreamCarries, DroppedMeansEnded,
                 GenerationDiscipline, Outcomes
  <1>11. CASE UNCHANGED vars
    BY <1>11 DEF IInv, TypeOK, vars, NoLeakedEntry, LiveStreamCarries, DroppedMeansEnded,
                 GenerationDiscipline
  <1> QED
    BY <1>1, <1>2, <1>3, <1>4, <1>5, <1>6, <1>7, <1>8, <1>9, <1>10, <1>11 DEF Next

\* The inductive invariant of requests.rs: every part holds in every
\* reachable state.
THEOREM RequestsInvariant == Spec => []IInv
  <1> QED BY InitIInv, NextIInv, PTL DEF Spec

\* Every reachable state is of the declared type.
THEOREM TypeCorrect == Spec => []TypeOK
  <1>1. IInv => TypeOK
    BY DEF IInv
  <1> QED BY <1>1, RequestsInvariant, PTL

\* `pending` never holds an entry whose caller is gone (requests.rs, call_within).
THEOREM NoLeak == Spec => []NoLeakedEntry
  <1>1. IInv => NoLeakedEntry
    BY DEF IInv
  <1> QED BY <1>1, RequestsInvariant, PTL

\* Requests go to the stream that is up, and a stream that ended late fails none
\* of its successor's calls (requests.rs, attach and detach, the generation of State).
THEOREM LateEndHarmless == Spec => []LateEndSpares
  <1>1. IInv => LateEndSpares
    BY DEF IInv, LateEndSpares
  <1> QED BY <1>1, RequestsInvariant, PTL

\* MAX_PENDING bounds the table (requests.rs, call_within).
THEOREM Bounded == Spec => []PendingBounded
  <1> DEFINE Bnd == IsFiniteSet(pending) /\ Cardinality(pending) <= MaxPending
  <1>1. Init => Bnd
    BY FS_EmptySet, MaxPendingAssumption DEF Init
  <1>2. Bnd /\ [Next]_vars => Bnd'
    <2> SUFFICES ASSUME Bnd, [Next]_vars PROVE Bnd'
      OBVIOUS
    <2>1. CASE pending' = {}
      BY <2>1, FS_EmptySet, MaxPendingAssumption
    <2>2. CASE pending' = pending
      BY <2>2
    <2>3. ASSUME NEW c \in Calls, pending' = pending \ {c}
          PROVE  Bnd'
      <3>1. IsFiniteSet(pending \ {c}) /\ Cardinality(pending) \in Nat
        BY FS_RemoveElement, FS_CardinalityType
      <3>2. Cardinality(pending \ {c}) \in {Cardinality(pending), Cardinality(pending) - 1}
        BY FS_RemoveElement
      <3> QED
        BY <2>3, <3>1, <3>2, MaxPendingAssumption
    <2>4. ASSUME NEW c \in Calls, pending' = pending \cup {c}, Cardinality(pending) < MaxPending
          PROVE  Bnd'
      BY SMTT(30), <2>4, FS_AddElement, FS_CardinalityType, MaxPendingAssumption
    <2> QED
      BY <2>1, <2>2, <2>3, <2>4
         DEF Next, vars, Attach, FailPending, HelloAck, StreamEnds, Detach, WriterSends,
             Resolve, Call, Refused, Register, Return, TimerFires, GiveUp
  <1>3. Bnd => PendingBounded
    BY DEF PendingBounded
  <1> QED BY <1>1, <1>2, <1>3, PTL DEF Spec

\* The table holds calls that wait, and at most MAX_PENDING of them.
THEOREM TableHoldsCallers == Spec => []TableIsRight
  <1>1. NoLeakedEntry /\ PendingBounded => TableIsRight
    BY DEF TableIsRight
  <1> QED BY <1>1, NoLeak, Bounded, PTL

-----------------------------------------------------------------------------
(* The refinement: what the streams and channels do is what Promise allows. *)

\* A request sits in a queue only for a call that got a place.
QueuedHadPlace ==
    \A c \in Calls : queued[c] # 0 => call[c] \notin {"idle", "not_linked", "outdated", "too_many"}

RInv == IInv /\ QueuedHadPlace

LEMMA NextRInv == RInv /\ [Next]_vars => RInv'
  <1> SUFFICES ASSUME RInv, [Next]_vars PROVE RInv'
    OBVIOUS
  <1>1. IInv'
    BY NextIInv DEF RInv
  <1>2. QueuedHadPlace'
    <2> USE DEF RInv, IInv, TypeOK, QueuedHadPlace
    <2>1. ASSUME NEW c \in Calls, Call(c) PROVE QueuedHadPlace'
      BY <2>1 DEF Call, Refused, Register
    <2>2. ASSUME NEW c \in Calls, Return(c) PROVE QueuedHadPlace'
      BY <2>2 DEF Return
    <2>3. ASSUME NEW c \in Calls, TimerFires(c) \/ GiveUp(c) PROVE QueuedHadPlace'
      BY <2>3 DEF TimerFires, GiveUp
    <2>4. CASE UNCHANGED <<queued, call>>
      BY <2>4
    <2> QED
      BY <2>1, <2>2, <2>3, <2>4
         DEF Next, vars, Attach, HelloAck, StreamEnds, Detach, WriterSends, Resolve
  <1> QED
    BY <1>1, <1>2 DEF RInv

\* Whether a link carries requests, as Promise sees it.
Carried == \E g \in Generations : stream[g] = "up"

LEMMA InitPromise == Init => P!PromiseInit
  BY DEF Init, P!PromiseInit, WordOf, PhaseOf

\* The end of everything that is pending is Promise's AllDropped.
LEMMA FailPendingDrops ==
    ASSUME RInv, FailPending, UNCHANGED call
    PROVE  P!AllDropped /\ UNCHANGED PhaseOf
  <1> USE DEF RInv, IInv, TypeOK, NoLeakedEntry, FailPending
  <1>1. UNCHANGED PhaseOf
    BY DEF PhaseOf
  <1>2. ASSUME NEW c \in Calls
        PROVE  WordOf'[c] = IF c \in pending /\ WordOf[c] = "none" THEN "dropped" ELSE WordOf[c]
    BY DEF WordOf
  <1> QED
    BY <1>1, <1>2 DEF P!AllDropped, WordOf

\* A stream that comes, ends or is cleaned up after.
LEMMA StreamsKeepPromise ==
    ASSUME RInv, NEW g \in Generations,
           Attach \/ StreamEnds(g) \/ Detach(g) \/ \E feature \in BOOLEAN : HelloAck(g, feature)
    PROVE  [P!PromiseNext]_P!promiseVars
  <1> USE MaxGenerationAssumption
  <1>1. CASE Attach
    <2>1. generation + 1 \in Generations /\ stream'[generation + 1] = "up"
      BY <1>1 DEF RInv, IInv, TypeOK, Attach, Generations
    <2>2. ~Carried /\ Carried'
      BY <1>1, <2>1 DEF Attach, Carried
    <2>3. P!AllDropped /\ UNCHANGED PhaseOf
      BY <1>1, FailPendingDrops DEF Attach
    <2> QED
      BY <1>1, <2>2, <2>3 DEF Attach, Carried, P!PromiseNext, P!LinkComes
  <1>2. CASE StreamEnds(g)
    <2>1. \A h \in Generations : stream[h] = "up" => h = g
      BY <1>2 DEF RInv, IInv, LiveStreamCarries, StreamEnds
    <2>2. Carried /\ ~Carried'
      BY <1>2, <2>1 DEF RInv, IInv, TypeOK, StreamEnds, Carried
    <2>3. UNCHANGED <<pending, seen, WordOf, PhaseOf>>
      BY <1>2 DEF StreamEnds, WordOf, PhaseOf
    <2> QED
      BY <2>2, <2>3 DEF Carried, P!PromiseNext, P!LinkDies
  <1>3. CASE Detach(g)
    <2>1. Carried' = Carried
      BY <1>3 DEF RInv, IInv, TypeOK, Detach, Carried
    <2>2. CASE generation = g
      <3>1. ~Carried
        BY <1>3, <2>2 DEF RInv, IInv, TypeOK, LiveStreamCarries, GenerationDiscipline, Detach,
                          Carried, Generations
      <3>2. P!AllDropped /\ UNCHANGED PhaseOf
        BY <1>3, <2>2, FailPendingDrops DEF Detach
      <3> QED
        BY <1>3, <2>1, <3>1, <3>2 DEF Detach, Carried, P!PromiseNext, P!LinkLost
    <2>3. CASE generation # g
      BY <1>3, <2>1, <2>3 DEF Detach, Carried, P!promiseVars, WordOf, PhaseOf
    <2> QED
      BY <2>2, <2>3
  <1>4. CASE \E feature \in BOOLEAN : HelloAck(g, feature)
    BY <1>4 DEF HelloAck, P!promiseVars, WordOf, PhaseOf
  <1> QED
    BY <1>1, <1>2, <1>3, <1>4

\* A request that arrives or is answered.
LEMMA SynthStep ==
    ASSUME RInv, NEW c \in Calls, WriterSends(c) \/ Resolve(c)
    PROVE  [P!PromiseNext]_P!promiseVars
  <1> USE DEF RInv, IInv, TypeOK
  <1>1. CASE WriterSends(c)
    <2>1. Carried
      BY <1>1 DEF WriterSends, Carried, Generations
    <2>2. PhaseOf[c] \notin P!TurnedAway \cup {"idle"}
      BY <1>1 DEF WriterSends, QueuedHadPlace, PhaseOf, P!TurnedAway
    <2>3. P!Reaches(c)
      BY <1>1, <2>1, <2>2 DEF WriterSends, Carried, WordOf, PhaseOf, P!Reaches
    <2> QED
      BY <2>3 DEF P!PromiseNext
  <1>2. CASE Resolve(c)
    <2>1. ASSUME NEW d \in Calls
          PROVE  WordOf'[d] = IF d = c /\ WordOf[c] = "none" THEN "answered" ELSE WordOf[d]
      BY <1>2 DEF Resolve, WordOf, NoLeakedEntry
    <2>2. WordOf' = [WordOf EXCEPT ![c] = IF @ = "none" THEN "answered" ELSE @]
      BY <2>1 DEF WordOf
    <2>3. P!IsAnswered(c)
      BY <1>2, <2>2 DEF Resolve, PhaseOf, P!IsAnswered
    <2> QED
      BY <2>3 DEF P!PromiseNext
  <1> QED
    BY <1>1, <1>2

\* A caller that is turned away, gets a place, waits too long or returns.
LEMMA CallerStep ==
    ASSUME RInv, NEW c \in Calls, Call(c) \/ Return(c) \/ TimerFires(c) \/ GiveUp(c)
    PROVE  [P!PromiseNext]_P!promiseVars
  <1> USE DEF RInv, IInv, TypeOK
  <1>1. ASSUME NEW why \in P!TurnedAway, call[c] = "idle", Refused(c, why)
        PROVE  P!IsTurnedAway(c)
    <2>1. WordOf' = WordOf
      BY <1>1 DEF Refused, WordOf, P!TurnedAway
    <2>2. PhaseOf[c] = "idle" /\ PhaseOf' = [PhaseOf EXCEPT ![c] = why]
      BY <1>1 DEF Refused, PhaseOf, P!TurnedAway
    <2> QED
      BY <1>1, <2>1, <2>2 DEF Refused, P!IsTurnedAway
  <1>2. ASSUME call[c] = "idle", out # 0, stream[out] = "up", Cardinality(pending) < MaxPending,
               Register(c)
        PROVE  P!TakesPlace(c)
    <2>1. Carried /\ Carried'
      BY <1>2, MaxGenerationAssumption DEF Register, Carried, Generations
    <2>2. WordOf' = WordOf
      BY <1>2 DEF Register, WordOf
    <2>3. PhaseOf[c] = "idle" /\ PhaseOf' = [PhaseOf EXCEPT ![c] = "in"]
      BY <1>2 DEF Register, PhaseOf
    <2>4. P!Cardinality(pending) = Cardinality(pending)
      BY DEF P!Cardinality, Cardinality
    <2> QED
      BY <1>2, <2>1, <2>2, <2>3, <2>4 DEF Register, Carried, P!TakesPlace
  <1>3. CASE Call(c)
    BY <1>1, <1>2, <1>3 DEF Call, P!PromiseNext, P!TurnedAway
  <1>4. CASE Return(c)
    <2>1. WordOf' = WordOf /\ WordOf[c] = oneshot[c]
      BY <1>4 DEF Return, WordOf
    <2>2. PhaseOf[c] = "in" /\ PhaseOf' = [PhaseOf EXCEPT ![c] = oneshot[c]]
      BY <1>4 DEF Return, PhaseOf
    <2>3. c \notin pending
      BY <1>4 DEF Return, NoLeakedEntry
    <2>4. P!ReturnsWord(c)
      BY <1>4, <2>1, <2>2, <2>3 DEF Return, P!ReturnsWord
    <2> QED
      BY <2>4 DEF P!PromiseNext
  <1>5. CASE TimerFires(c)
    <2>1. WordOf[c] = "none" /\ WordOf' = [WordOf EXCEPT ![c] = "timeout"]
      BY <1>5 DEF TimerFires, WordOf
    <2>2. PhaseOf[c] = "in" /\ PhaseOf' = PhaseOf
      BY <1>5 DEF TimerFires, PhaseOf
    <2>3. P!IsTooLate(c)
      BY <1>5, <2>1, <2>2 DEF TimerFires, P!IsTooLate
    <2> QED
      BY <2>3 DEF P!PromiseNext
  <1>6. CASE GiveUp(c)
    <2>1. WordOf[c] = "timeout" /\ WordOf' = WordOf
      BY <1>6 DEF GiveUp, WordOf
    <2>2. PhaseOf[c] = "in" /\ PhaseOf' = [PhaseOf EXCEPT ![c] = "timeout"]
      BY <1>6 DEF GiveUp, PhaseOf
    <2>3. P!ReturnsWord(c)
      BY <1>6, <2>1, <2>2 DEF GiveUp, P!ReturnsWord
    <2> QED
      BY <2>3 DEF P!PromiseNext
  <1> QED
    BY <1>3, <1>4, <1>5, <1>6

\* Every step of the streams, the synth and the callers is a step of the
\* promise or leaves it as it is.
LEMMA NextPromise == RInv /\ [Next]_vars => [P!PromiseNext]_P!promiseVars
  <1> SUFFICES ASSUME RInv, [Next]_vars PROVE [P!PromiseNext]_P!promiseVars
    OBVIOUS
  <1>1. CASE Attach
    <2>1. 1 \in Generations
      BY <1>1, MaxGenerationAssumption DEF RInv, IInv, TypeOK, Attach, Generations
    <2> QED
      BY <1>1, <2>1, StreamsKeepPromise
  <1>2. CASE UNCHANGED vars
    BY <1>2 DEF vars, P!promiseVars, WordOf, PhaseOf
  <1> QED
    BY <1>1, <1>2, StreamsKeepPromise, SynthStep, CallerStep DEF Next

\* The requests of the app keep what a call is promised, for every number of
\* calls, places and streams (requests.rs, the whole of LinkRequests).
THEOREM RequestsKeepPromise == Spec => KeepsPromise
  <1>1. Init => RInv
    BY InitIInv DEF Init, RInv, QueuedHadPlace
  <1>2. Spec => []RInv
    BY <1>1, NextRInv, PTL DEF Spec
  <1> QED
    BY <1>2, InitPromise, NextPromise, PTL DEF Spec, KeepsPromise, P!PromiseSpec

-----------------------------------------------------------------------------
(* The announcements.  PushNotStale is not inductive: between the read of  *)
(* the channel and the read of the settings the message names a revision   *)
(* whose capabilities are still to come.  What carries it over is that     *)
(* nothing names a revision ahead of the settings (PushData).  The version *)
(* of the channel counts the announcements: what is not announced yet is   *)
(* what it is behind (PushCount).                                          *)

\* Who has saved a change and not announced it.
Unannounced == {c \in Changers : mine[c] # None}

\* Nothing announced, named in a message or received is ahead of the settings.
PushData ==
    /\ rev \in Revs
    /\ mine \in [Changers -> Nat \cup {None}]
    /\ msg \in [rev : Nat, caps : Nat] /\ synth \in [rev : Nat, caps : Nat] \cup {None}
    /\ stage \in {"down", "caps", "rev", "hello", "subscribe", "wait", "status", "write"}
    /\ told \in 0 .. rev
    /\ \A c \in Changers : mine[c] # None => mine[c] <= rev
    /\ msg.rev <= rev /\ msg.caps <= rev
    /\ synth # None => synth.rev <= rev /\ synth.caps <= rev

\* The channel is behind the settings by what is not announced.
PushCount ==
    /\ IsFiniteSet(Unannounced)
    /\ ver \in Nat /\ heard \in 0 .. ver
    /\ ver + Cardinality(Unannounced) = rev

SInv == PushData /\ PushCount /\ PushNotStale

\* The counts bound what is announced and heard.
LEMMA PushTyped == PushData /\ PushCount => PushTypeOK
  <1> SUFFICES ASSUME PushData, PushCount PROVE PushTypeOK
    OBVIOUS
  <1> USE SettingsPushAssumption DEF PushData, Revs
  <1>1. Cardinality(Unannounced) \in Nat
    BY FS_CardinalityType DEF PushCount
  <1>2. ver \in Revs /\ heard \in Revs
    BY <1>1 DEF PushCount
  <1>3. mine \in [Changers -> Revs \cup {None}]
    BY DEF Unannounced
  <1>4. msg \in [rev : Revs, caps : Revs] /\ synth \in [rev : Revs, caps : Revs] \cup {None}
    OBVIOUS
  <1> QED BY <1>2, <1>3, <1>4 DEF PushTypeOK

\* Nothing is announced yet.
LEMMA PushStarts == PushInit => SInv
  <1> SUFFICES ASSUME PushInit PROVE SInv
    OBVIOUS
  <1>1. Unannounced = {}
    BY DEF PushInit, Unannounced
  <1>2. PushCount
    BY <1>1, FS_EmptySet DEF PushCount, PushInit
  <1> QED BY <1>2, SettingsPushAssumption DEF PushInit, SInv, PushData, PushNotStale, Revs

\* Every step keeps it; only the reads of a message and the announcements touch what
\* it relates.
LEMMA PushStep == ASSUME SInv, [PushNext]_pushVars PROVE SInv'
  <1> USE SettingsPushAssumption DEF SInv, PushData, PushNotStale, Revs
  <1>c. Cardinality(Unannounced) \in Nat
    BY FS_CardinalityType DEF PushCount
  <1>1. ASSUME NEW c \in Changers, Change(c) PROVE SInv'
    <2>1. rev' = rev + 1 /\ mine' = [mine EXCEPT ![c] = rev + 1] /\ c \notin Unannounced
      BY <1>1 DEF Change, Unannounced
    <2>2. Unannounced' = Unannounced \cup {c}
      BY <2>1 DEF Unannounced
    <2>3. IsFiniteSet(Unannounced') /\ Cardinality(Unannounced') = Cardinality(Unannounced) + 1
      BY <2>1, <2>2, FS_AddElement DEF PushCount
    <2>a. ver' = ver /\ heard' = heard
      BY <1>1 DEF Change
    <2>b. PushCount'
      BY <1>c, <2>1, <2>3, <2>a DEF PushCount
    <2>4. /\ mine' \in [Changers -> Nat \cup {None}]
          /\ \A d \in Changers : mine'[d] # None => mine'[d] <= rev'
      BY <2>1
    <2> QED BY <1>1, <2>1, <2>b, <2>4 DEF Change
  <1>2. ASSUME NEW c \in Changers, Tell(c) PROVE SInv'
    <2>1. /\ mine' = [mine EXCEPT ![c] = None] /\ c \in Unannounced
          /\ ver' = ver + 1 /\ UNCHANGED <<rev, heard>>
      BY <1>2 DEF Tell, Unannounced
    <2>2. Unannounced' = Unannounced \ {c}
      BY <2>1 DEF Unannounced
    <2>3. IsFiniteSet(Unannounced') /\ Cardinality(Unannounced') = Cardinality(Unannounced) - 1
      BY <2>1, <2>2, FS_RemoveElement DEF PushCount
    <2>a. Cardinality(Unannounced') \in Nat
      BY <2>3, FS_CardinalityType
    <2>b. PushCount'
      BY <1>c, <2>1, <2>3, <2>a DEF PushCount
    <2>4. told' \in 0 .. rev'
      BY <1>2 DEF Tell
    <2>5. /\ mine' \in [Changers -> Nat \cup {None}]
          /\ \A d \in Changers : mine'[d] # None => mine'[d] <= rev'
      BY <2>1
    <2> QED BY <1>2, <2>1, <2>b, <2>4, <2>5 DEF Tell
  <1>3. ASSUME UNCHANGED <<rev, mine, ver>>, heard' \in {heard, ver} PROVE PushCount'
    BY <1>3 DEF PushCount, Unannounced
  <1>4. CASE HelloCaps \/ HelloRev
    BY <1>3, <1>4 DEF HelloCaps, HelloRev
  <1>5. CASE Changed
    BY <1>3, <1>5 DEF Changed
  <1>6. CASE PushCaps
    BY <1>3, <1>6 DEF PushCaps
  <1>7. CASE Connect \/ HelloSent \/ Subscribe \/ PushSent \/ Drop
    BY <1>3, <1>7 DEF Connect, HelloSent, Subscribe, PushSent, Drop
  <1>8. CASE UNCHANGED pushVars
    BY <1>3, <1>8 DEF pushVars
  <1> QED BY <1>1, <1>2, <1>4, <1>5, <1>6, <1>7, <1>8 DEF PushNext, StreamStep

-----------------------------------------------------------------------------
(* The policy.  The records first: SMT takes the fields of a record one by *)
(* one.                                                                    *)

\* Settings with the same fields are the same.
LEMMA SameSettings ==
  ASSUME NEW r \in Settings, NEW s \in Settings, r.on = s.on, r.files = s.files,
         r.shell = s.shell, r.refused = s.refused, r.old = s.old
  PROVE  r = s
  BY DEF Settings

\* A load moves the words of an old file and changes nothing else.
LEMMA LoadedIs ==
  ASSUME NEW f \in Settings
  PROVE  /\ Loaded(f) \in Settings /\ Loaded(f).old = FALSE
         /\ Loaded(f).on = f.on /\ Loaded(f).files = f.files /\ Loaded(f).shell = f.shell
         /\ Loaded(f).refused = (f.refused \/ f.old)
         /\ ~f.old => Loaded(f) = f
  <1>1. /\ Loaded(f) \in Settings /\ Loaded(f).old = FALSE
        /\ Loaded(f).on = f.on /\ Loaded(f).files = f.files /\ Loaded(f).shell = f.shell
        /\ Loaded(f).refused = (f.refused \/ f.old)
    BY DEF Loaded, Settings
  <1>2. ASSUME ~f.old PROVE Loaded(f) = f
    <2>1. f.old = FALSE /\ f.refused = (f.refused \/ f.old)
      BY <1>2 DEF Settings
    <2> QED BY <1>1, <2>1, SameSettings
  <1> QED BY <1>1, <1>2

\* The fields of settings are switches.
LEMMA SettingsParts ==
  ASSUME NEW s \in Settings
  PROVE  s.on \in BOOLEAN /\ s.files \in BOOLEAN /\ s.shell \in BOOLEAN /\ s.refused \in BOOLEAN /\ s.old \in BOOLEAN
  BY DEF Settings

\* Everything off.
LEMMA OffIs == AllOff \in Settings /\ AllOff.on = FALSE /\ AllOff.files = FALSE /\ AllOff.shell = FALSE
    /\ AllOff.refused = FALSE /\ AllOff.old = FALSE
  BY DEF AllOff, Settings

\* A save either puts the settings into the file or is remembered as refused.
LEMMA SavesIs ==
  ASSUME PolicyTypeOK, NEW s \in Settings, NEW c \in BOOLEAN, Saves(s, c)
  PROVE  /\ file' \in Settings /\ slips' \in [crossed : BOOLEAN, cut : BOOLEAN, unsaved : BOOLEAN]
         /\ slips'.cut = slips.cut /\ slips'.crossed = (slips.crossed \/ c)
         /\ ~slips'.unsaved => ~slips.unsaved /\ file' = s
  <1>1. slips \in [crossed : BOOLEAN, cut : BOOLEAN, unsaved : BOOLEAN] /\ file \in Settings
    BY DEF PolicyTypeOK
  <1>2. CASE file' = s /\ slips' = [slips EXCEPT !.crossed = @ \/ c]
    BY <1>1, <1>2
  <1>3. CASE file' = file /\ slips' = [slips EXCEPT !.crossed = @ \/ c, !.unsaved = TRUE]
    BY <1>1, <1>3
  <1> QED BY <1>2, <1>3 DEF Saves

\* What crosses is remembered.
LEMMA CrossesIs ==
  ASSUME PolicyTypeOK, NEW c \in BOOLEAN, Crosses(c)
  PROVE  /\ slips' \in [crossed : BOOLEAN, cut : BOOLEAN, unsaved : BOOLEAN]
         /\ slips'.cut = slips.cut /\ slips'.unsaved = slips.unsaved
         /\ slips'.crossed = (slips.crossed \/ c)
  BY DEF Crosses, PolicyTypeOK

\* A command that begins is remembered as crossing if something else was on its way.
LEMMA BeginsIs ==
  ASSUME PolicyTypeOK, Begins
  PROVE  /\ slips' \in [crossed : BOOLEAN, cut : BOOLEAN, unsaved : BOOLEAN]
         /\ slips'.cut = slips.cut /\ slips'.unsaved = slips.unsaved
         /\ slips'.crossed = (slips.crossed \/ ~Quiet)
  <1>1. Quiet \in BOOLEAN
    BY DEF Quiet
  <1> QED BY <1>1, CrossesIs DEF Begins

\* ... and a link that comes or goes, if the sync decides by links that are others now.
LEMMA LinksCross ==
  ASSUME PolicyTypeOK, NEW t \in Tasks, Pairs(t) \/ Unlinks(t)
  PROVE  /\ slips' \in [crossed : BOOLEAN, cut : BOOLEAN, unsaved : BOOLEAN]
         /\ slips'.cut = slips.cut /\ slips'.unsaved = slips.unsaved
         /\ slips.crossed => slips'.crossed
         /\ ~slips'.crossed => Quiet /\ (Pairs(t) /\ ~paired => First(t)) /\ (Unlinks(t) => Last(t))
  <1>1. (~Quiet \/ (~paired /\ ~First(t))) \in BOOLEAN /\ (~Quiet \/ ~Last(t)) \in BOOLEAN
    OBVIOUS
  <1>2. ASSUME NEW c \in BOOLEAN, Crosses(c)
        PROVE  /\ slips' \in [crossed : BOOLEAN, cut : BOOLEAN, unsaved : BOOLEAN]
               /\ slips'.cut = slips.cut /\ slips'.unsaved = slips.unsaved
               /\ slips.crossed => slips'.crossed
               /\ ~slips'.crossed => ~c
    BY <1>2, CrossesIs
  <1>3. Pairs(t) => Crosses(~Quiet \/ (~paired /\ ~First(t)))
    BY DEF Pairs
  <1>4. Unlinks(t) => Crosses(~Quiet \/ ~Last(t))
    BY DEF Unlinks
  <1> HIDE DEF Crosses, Quiet, First, Last, Pairs, Unlinks
  <1> QED BY <1>1, <1>2, <1>3, <1>4

-----------------------------------------------------------------------------
\* The parts of PolicyTypeOK, by name.
PolicyStages == {"nothing", "off", "ask", "hold", "reset", "release", "forget", "resume",
                 "shell", "unfiles", "save", "saveShell", "look", "lookNone"}
Slips == [crossed : BOOLEAN, cut : BOOLEAN, unsaved : BOOLEAN]
Prefs == [onboarded : BOOLEAN, paused : BOOLEAN, developer : BOOLEAN]
Meant == [refused : BOOLEAN, files : BOOLEAN]

PolicyData ==
    /\ settings \in Settings /\ ~settings.old /\ file \in Settings
    /\ shown \in Settings /\ ~shown.old
    /\ meant \in Meant /\ slips \in Slips
PolicyRest ==
    /\ prefs \in Prefs /\ halt \in BOOLEAN /\ paired \in BOOLEAN /\ served \in BOOLEAN
    /\ steps \in 0 .. MaxSteps
    /\ doing \in [Tasks -> PolicyStages] /\ tray \in {"nothing", "keep", "let", "clear"}

\* PolicyTypeOK is its two halves: what is written, and where the commands stand.
LEMMA PolicyTypes == PolicyTypeOK <=> PolicyData /\ PolicyRest
  BY DEF PolicyTypeOK, PolicyData, PolicyRest, PolicyStages, Slips, Prefs, Meant

\* What is done next stays one of the steps there are.
LEMMA DoingStep == ASSUME PolicyTypeOK, [PolicyNext]_policyVars PROVE doing' \in [Tasks -> PolicyStages]
  <1> USE DEF PolicyRest, PolicyStages, Tasks
  <1>1. PolicyRest
    BY PolicyTypes
  <1>2. ASSUME NEW t \in Tasks, FirstLink(t) PROVE doing' \in [Tasks -> PolicyStages]
    BY <1>1, <1>2 DEF FirstLink, Pairs, BeginOff, BeginAsk, BeginHold, Goes
  <1>3. ASSUME NEW t \in Tasks, LastLink(t) PROVE doing' \in [Tasks -> PolicyStages]
    BY ZenonT(60), <1>1, <1>3 DEF LastLink, Unlinks, AfterReset, AfterRelease, AfterForget, Goes
  <1>4. CASE SyncLooks \/ FinishOnboarding \/ FinishResumes \/ ApplyPreset
    BY <1>1, <1>4 DEF SyncLooks, FinishOnboarding, FinishResumes, ApplyPreset, Goes
  <1>5. CASE UpdateSettings \/ UpdateSaves \/ DeveloperEndsShell \/ AddRoot \/ RootKeepsSwitch
    BY <1>1, <1>5 DEF UpdateSettings, UpdateSaves, DeveloperEndsShell, AddRoot, RootKeepsSwitch,
           Goes
  <1>6. CASE SetDeveloper
    BY <1>1, <1>6 DEF SetDeveloper, DeveloperOff, Goes
  <1>7. CASE TrayStep
    BY <1>1, <1>7 DEF TrayStep, TrayPauses, TrayPaused, TrayKeeps, TrayAsksResume, TrayResume,
           TrayResumes, Goes
  <1>8. CASE Restart
    BY <1>1, <1>8 DEF Restart, StartsPaused, Goes
  <1>9. CASE UNCHANGED policyVars
    BY <1>1, <1>9 DEF policyVars, Goes
  <1> QED BY <1>2, <1>3, <1>4, <1>5, <1>6, <1>7, <1>8, <1>9 DEF PolicyNext, WindowStep

\* ... so does the tray,
LEMMA TrayTypes == ASSUME PolicyTypeOK, [PolicyNext]_policyVars PROVE tray' \in {"nothing", "keep", "let", "clear"}
  <1> USE DEF PolicyRest
  <1>1. PolicyRest
    BY PolicyTypes
  <1>2. ASSUME NEW t \in Tasks, FirstLink(t) PROVE tray' \in {"nothing", "keep", "let", "clear"}
    BY <1>1, <1>2 DEF FirstLink, Pairs, BeginOff, BeginAsk, BeginHold
  <1>3. ASSUME NEW t \in Tasks, LastLink(t) PROVE tray' \in {"nothing", "keep", "let", "clear"}
    BY <1>1, <1>3 DEF LastLink, Unlinks, AfterReset, AfterRelease, AfterForget
  <1>4. CASE SyncLooks \/ FinishOnboarding \/ FinishResumes \/ ApplyPreset
    BY <1>1, <1>4 DEF SyncLooks, FinishOnboarding, FinishResumes, ApplyPreset
  <1>5. CASE UpdateSettings \/ UpdateSaves \/ DeveloperEndsShell \/ AddRoot \/ RootKeepsSwitch
    BY <1>1, <1>5 DEF UpdateSettings, UpdateSaves, DeveloperEndsShell, AddRoot, RootKeepsSwitch
  <1>6. CASE SetDeveloper
    BY <1>1, <1>6 DEF SetDeveloper, DeveloperOff
  <1>7. CASE TrayStep
    BY <1>1, <1>7 DEF TrayStep, TrayPauses, TrayPaused, TrayKeeps, TrayAsksResume, TrayResume,
           TrayResumes
  <1>8. CASE Restart
    BY <1>1, <1>8 DEF Restart, StartsPaused
  <1>9. CASE UNCHANGED policyVars
    BY <1>1, <1>9 DEF policyVars
  <1> QED BY <1>2, <1>3, <1>4, <1>5, <1>6, <1>7, <1>8, <1>9 DEF PolicyNext, WindowStep

\* ... the count of commands,
LEMMA StepsTypes == ASSUME PolicyTypeOK, [PolicyNext]_policyVars PROVE steps' \in 0 .. MaxSteps
  <1>1. PolicyRest
    BY PolicyTypes
  <1>c. Counts => steps' \in 0 .. MaxSteps
    BY <1>1, StepsAssumption DEF PolicyRest, Counts
  <1>s. steps \in 0 .. MaxSteps
    BY <1>1 DEF PolicyRest
  <1>2. ASSUME NEW t \in Tasks, FirstLink(t) PROVE steps' \in 0 .. MaxSteps
    BY <1>c, <1>s, <1>2 DEF FirstLink, Pairs, BeginOff, BeginAsk, BeginHold
  <1>3. ASSUME NEW t \in Tasks, LastLink(t) PROVE steps' \in 0 .. MaxSteps
    BY <1>c, <1>s, <1>3 DEF LastLink, Unlinks, AfterReset, AfterRelease, AfterForget
  <1>4. CASE SyncLooks \/ FinishOnboarding \/ FinishResumes \/ ApplyPreset
    BY <1>c, <1>s, <1>4 DEF SyncLooks, FinishOnboarding, FinishResumes, ApplyPreset
  <1>5. CASE UpdateSettings \/ UpdateSaves \/ DeveloperEndsShell \/ AddRoot \/ RootKeepsSwitch
    BY <1>c, <1>s, <1>5 DEF UpdateSettings, UpdateSaves, DeveloperEndsShell, AddRoot,
           RootKeepsSwitch
  <1>6. CASE SetDeveloper
    BY <1>c, <1>s, <1>6 DEF SetDeveloper, DeveloperOff
  <1>7. CASE TrayStep
    BY <1>c, <1>s, <1>7 DEF TrayStep, TrayPauses, TrayPaused, TrayKeeps, TrayAsksResume,
           TrayResume, TrayResumes
  <1>8. CASE Restart
    BY <1>c, <1>s, <1>8 DEF Restart, StartsPaused
  <1>9. CASE UNCHANGED policyVars
    BY <1>c, <1>s, <1>9 DEF policyVars
  <1> QED BY <1>2, <1>3, <1>4, <1>5, <1>6, <1>7, <1>8, <1>9 DEF PolicyNext, WindowStep

\* ... the preferences,
LEMMA PrefsTypes == ASSUME PolicyTypeOK, [PolicyNext]_policyVars PROVE prefs' \in Prefs
  <1> USE DEF PolicyRest, Prefs
  <1>1. PolicyRest
    BY PolicyTypes
  <1>2. ASSUME NEW t \in Tasks, FirstLink(t) PROVE prefs' \in Prefs
    BY <1>1, <1>2 DEF FirstLink, Pairs, BeginOff, BeginAsk, BeginHold
  <1>3. ASSUME NEW t \in Tasks, LastLink(t) PROVE prefs' \in Prefs
    BY <1>1, <1>3 DEF LastLink, Unlinks, AfterReset, AfterRelease, AfterForget
  <1>4. CASE SyncLooks \/ FinishOnboarding \/ FinishResumes \/ ApplyPreset
    BY <1>1, <1>4 DEF SyncLooks, FinishOnboarding, FinishResumes, ApplyPreset
  <1>5. CASE UpdateSettings \/ UpdateSaves \/ DeveloperEndsShell \/ AddRoot \/ RootKeepsSwitch
    BY <1>1, <1>5 DEF UpdateSettings, UpdateSaves, DeveloperEndsShell, AddRoot, RootKeepsSwitch
  <1>6. CASE SetDeveloper
    BY <1>1, <1>6 DEF SetDeveloper, DeveloperOff
  <1>7. CASE TrayStep
    BY <1>1, <1>7 DEF TrayStep, TrayPauses, TrayPaused, TrayKeeps, TrayAsksResume, TrayResume,
           TrayResumes
  <1>8. CASE Restart
    BY <1>1, <1>8 DEF Restart, StartsPaused
  <1>9. CASE UNCHANGED policyVars
    BY <1>1, <1>9 DEF policyVars
  <1> QED BY <1>2, <1>3, <1>4, <1>5, <1>6, <1>7, <1>8, <1>9 DEF PolicyNext, WindowStep

\* ... the pause and the link.
LEMMA HaltTypes == ASSUME PolicyTypeOK, [PolicyNext]_policyVars PROVE halt' \in BOOLEAN /\ paired' \in BOOLEAN /\ served' \in BOOLEAN
  <1> USE DEF PolicyRest, Prefs
  <1>1. PolicyRest
    BY PolicyTypes
  <1>2. ASSUME NEW t \in Tasks, FirstLink(t) PROVE halt' \in BOOLEAN /\ paired' \in BOOLEAN /\ served' \in BOOLEAN
    BY <1>1, <1>2 DEF FirstLink, Pairs, BeginOff, BeginAsk, BeginHold
  <1>3. ASSUME NEW t \in Tasks, LastLink(t) PROVE halt' \in BOOLEAN /\ paired' \in BOOLEAN /\ served' \in BOOLEAN
    BY <1>1, <1>3 DEF LastLink, Unlinks, AfterReset, AfterRelease, AfterForget
  <1>4. CASE SyncLooks \/ FinishOnboarding \/ FinishResumes \/ ApplyPreset
    BY <1>1, <1>4 DEF SyncLooks, FinishOnboarding, FinishResumes, ApplyPreset
  <1>5. CASE UpdateSettings \/ UpdateSaves \/ DeveloperEndsShell \/ AddRoot \/ RootKeepsSwitch
    BY <1>1, <1>5 DEF UpdateSettings, UpdateSaves, DeveloperEndsShell, AddRoot, RootKeepsSwitch
  <1>6. CASE SetDeveloper
    BY <1>1, <1>6 DEF SetDeveloper, DeveloperOff
  <1>7. CASE TrayStep
    BY <1>1, <1>7 DEF TrayStep, TrayPauses, TrayPaused, TrayKeeps, TrayAsksResume, TrayResume,
           TrayResumes
  <1>8. CASE Restart
    BY <1>1, <1>8 DEF Restart, StartsPaused
  <1>9. CASE UNCHANGED policyVars
    BY <1>1, <1>9 DEF policyVars
  <1> QED BY <1>2, <1>3, <1>4, <1>5, <1>6, <1>7, <1>8, <1>9 DEF PolicyNext, WindowStep

\* The settings, their file, what the window was sent and what the owner meant keep
\* their types.
LEMMA DataStep == ASSUME PolicyTypeOK, [PolicyNext]_policyVars PROVE PolicyData'
  <1>1. PolicyData /\ PolicyRest
    BY PolicyTypes
  <1>2. ASSUME UNCHANGED <<settings, file, shown, meant, slips>> PROVE PolicyData'
    BY <1>1, <1>2 DEF PolicyData
  <1>3. ASSUME UNCHANGED <<settings, file, meant>>, shown' \in Settings, ~shown'.old, Begins PROVE PolicyData'
    BY <1>1, <1>3, BeginsIs DEF PolicyData, Slips
  <1>4. ASSUME NEW s \in Settings, NEW c \in BOOLEAN, ~s.old, Mutates(s, c),
               shown' \in Settings, ~shown'.old, meant' \in Meant
        PROVE  PolicyData'
    BY <1>1, <1>4, SavesIs DEF PolicyData, Mutates, Slips
  <1>5. ASSUME UNCHANGED <<settings, file, meant, slips>>, WindowIsTold PROVE PolicyData'
    BY <1>1, <1>5 DEF PolicyData, WindowIsTold
  <1>6. Quiet \in BOOLEAN
    BY DEF Quiet
  <1>7. UNCHANGED shown => shown' \in Settings /\ ~shown'.old
    BY <1>1 DEF PolicyData
  <1>8. UNCHANGED meant => meant' \in Meant
    BY <1>1 DEF PolicyData
  <1>9. ASSUME NEW t \in Tasks, FirstLink(t) PROVE PolicyData'
    <2>1. ASSUME BeginOff(t) PROVE PolicyData'
      BY <2>1, <1>4, <1>7, OffIs DEF BeginOff, Meant
    <2>2. ASSUME Pairs(t) PROVE PolicyData'
      BY <1>1, <2>2, LinksCross DEF Pairs, PolicyData, Slips
    <2>3. ASSUME BeginAsk(t) PROVE PolicyData'
      BY <2>3, <1>2 DEF BeginAsk
    <2>4. ASSUME BeginHold(t) PROVE PolicyData'
      BY <2>4, <1>5 DEF BeginHold
    <2> QED BY <1>9, <2>1, <2>2, <2>3, <2>4 DEF FirstLink
  <1>10. ASSUME NEW t \in Tasks, LastLink(t) PROVE PolicyData'
    <2>1. ASSUME AfterReset(t) PROVE PolicyData'
      BY <2>1, <1>4, <1>7, OffIs DEF AfterReset, Meant
    <2>2. ASSUME Unlinks(t) PROVE PolicyData'
      BY <1>1, <2>2, LinksCross DEF Unlinks, PolicyData, Slips
    <2>3. ASSUME AfterRelease(t) PROVE PolicyData'
      BY <2>3, <1>2 DEF AfterRelease
    <2>4. ASSUME AfterForget(t) PROVE PolicyData'
      BY <2>4, <1>5 DEF AfterForget
    <2> QED BY <1>10, <2>1, <2>2, <2>3, <2>4 DEF LastLink
  <1>11. CASE SyncLooks
    BY <1>11, <1>2 DEF SyncLooks
  <1>12. CASE FinishOnboarding
    BY <1>12, <1>3, <1>7 DEF FinishOnboarding
  <1>13. CASE FinishResumes
    BY <1>13, <1>1 DEF FinishResumes, PolicyData
  <1>14. CASE ApplyPreset
    <2>1. Preset \in Settings /\ Preset.old = FALSE
      BY <1>1, SettingsParts DEF PolicyData, Preset, FromPreset, AllOff, Settings
    <2>2. meant' \in Meant
      BY <1>1, <1>14 DEF ApplyPreset, PolicyData, Meant
    <2> QED BY <1>4, <1>6, <1>14, <2>1, <2>2 DEF ApplyPreset
  <1>15. CASE UpdateSettings
    <2>1. ASSUME NEW next \in Settings, ~next.old, shown' = ShellWithout(next)
          PROVE  shown' \in Settings /\ ~shown'.old
      <3>1. (next.shell /\ prefs.developer) \in BOOLEAN
        OBVIOUS
      <3> QED BY <2>1, <3>1 DEF ShellWithout, Settings
    <2>2. \A next \in {[shown EXCEPT !.on = ~@], [shown EXCEPT !.files = ~@],
                       [shown EXCEPT !.shell = ~@], [shown EXCEPT !.refused = ~@]} :
             next \in Settings /\ ~next.old
      BY <1>1 DEF PolicyData, Settings
    <2>3. shown' \in Settings /\ ~shown'.old
      BY <1>15, <2>1, <2>2 DEF UpdateSettings
    <2> QED BY <1>15, <1>3, <2>3 DEF UpdateSettings
  <1>16. CASE UpdateSaves
    <2>1. meant' \in Meant
      BY <1>1, <1>16 DEF UpdateSaves, PolicyData, Meant, Settings
    <2> QED BY <1>1, <1>4, <1>7, <1>16, <2>1 DEF UpdateSaves, PolicyData
  <1>17. CASE SetDeveloper
    BY <1>17, <1>3, <1>7 DEF SetDeveloper
  <1>18. ASSUME NEW s \in Settings, s \in {[settings EXCEPT !.shell = FALSE], [settings EXCEPT !.files = TRUE],
                                         [settings EXCEPT !.files = FALSE]},
                NEW c \in BOOLEAN, Mutates(s, c), shown' = settings', UNCHANGED meant
         PROVE  PolicyData'
    <2>1. ~s.old /\ settings' = s
      BY <1>1, <1>18 DEF PolicyData, Mutates, Settings
    <2> QED BY <1>4, <1>8, <1>18, <2>1
  <1>19. /\ [settings EXCEPT !.shell = FALSE] \in Settings /\ [settings EXCEPT !.files = TRUE] \in Settings
         /\ [settings EXCEPT !.files = FALSE] \in Settings
    BY <1>1 DEF PolicyData, Settings
  <1>20. CASE DeveloperEndsShell
    BY <1>18, <1>19, <1>20 DEF DeveloperEndsShell
  <1>21. CASE AddRoot
    BY <1>6, <1>18, <1>19, <1>21 DEF AddRoot
  <1>22. CASE RootKeepsSwitch
    BY <1>18, <1>19, <1>22 DEF RootKeepsSwitch
  <1>23. CASE TrayStep
    <2>1. CASE TrayPauses \/ TrayAsksResume
      BY <2>1, <1>3, <1>7 DEF TrayPauses, TrayAsksResume
    <2>2. CASE TrayPaused \/ TrayResume
      BY <2>2, <1>2 DEF TrayPaused, TrayResume
    <2> QED BY <1>23, <2>1, <2>2 DEF TrayStep
  <1>24. CASE Restart
    <2>1. slips' \in Slips
      BY <1>1, <1>6, <1>24 DEF Restart, PolicyData, Slips
    <2>2. settings' \in Settings /\ ~settings'.old
      BY <1>1, <1>24, LoadedIs DEF Restart, PolicyData
    <2> QED BY <1>1, <1>24, <2>1, <2>2 DEF Restart, PolicyData
  <1>25. CASE UNCHANGED policyVars
    BY <1>2, <1>25 DEF policyVars
  <1> QED BY <1>9, <1>10, <1>11, <1>12, <1>13, <1>14, <1>15, <1>16, <1>17, <1>20, <1>21, <1>22,
             <1>23, <1>24, <1>25 DEF PolicyNext, WindowStep

-----------------------------------------------------------------------------
\* Unless commands crossed, one is under way at a time.
OneAtATime ==
    ~slips.crossed =>
        /\ \A t \in Tasks : Busy(t) => tray = "nothing"
        /\ \A t, u \in Tasks : Busy(t) /\ Busy(u) => t = u

\* The commands that begin.
Starts ==
    \/ \E t \in Tasks : Pairs(t) \/ Unlinks(t)
    \/ FinishOnboarding \/ ApplyPreset \/ UpdateSettings \/ SetDeveloper \/ AddRoot
    \/ TrayPauses \/ TrayAsksResume

\* What happened stays remembered, and a command that begins without crossing finds
\* nothing under way.
LEMMA SlipsStay ==
  ASSUME PolicyTypeOK, [PolicyNext]_policyVars
  PROVE  /\ slips.crossed => slips'.crossed
         /\ slips.unsaved => slips'.unsaved
         /\ slips.cut => slips'.cut
         /\ Starts /\ ~slips'.crossed => Quiet
  <1> DEFINE Later == /\ slips.crossed => slips'.crossed
                      /\ slips.unsaved => slips'.unsaved
                      /\ slips.cut => slips'.cut
             Alone == ~slips'.crossed => Quiet
  <1>1. UNCHANGED slips => Later
    OBVIOUS
  <1>2. Begins => Later /\ Alone
    BY BeginsIs
  <1>3. ASSUME NEW s \in Settings, NEW c \in BOOLEAN, Mutates(s, c) PROVE Later /\ (c = ~Quiet => Alone)
    BY <1>3, SavesIs DEF Mutates
  <1> HIDE DEF Later
  <1>4. Preset \in Settings /\ shown \in Settings /\ [settings EXCEPT !.shell = FALSE] \in Settings
        /\ [settings EXCEPT !.files = TRUE] \in Settings /\ [settings EXCEPT !.files = FALSE] \in Settings
    BY PolicyTypes, SettingsParts DEF PolicyData, Preset, FromPreset, AllOff, Settings
  <1>5. Quiet \in BOOLEAN
    BY DEF Quiet
  <1>6. Starts => Later /\ Alone
    <2>1. ApplyPreset => Later /\ Alone
      BY <1>3, <1>4, <1>5 DEF ApplyPreset
    <2>2. AddRoot => Later /\ Alone
      BY <1>3, <1>4, <1>5 DEF AddRoot
    <2>3. \A t \in Tasks : Pairs(t) \/ Unlinks(t) => Later /\ Alone
      BY LinksCross DEF Later
    <2> QED BY <1>2, <2>1, <2>2, <2>3 DEF Starts, FinishOnboarding, UpdateSettings, SetDeveloper,
                                         TrayPauses, TrayAsksResume
  <1>7. ASSUME NEW t \in Tasks, BeginOff(t) \/ AfterReset(t) PROVE Later
    BY <1>3, <1>7, OffIs DEF BeginOff, AfterReset
  <1>8. ASSUME NEW t \in Tasks, BeginAsk(t) \/ BeginHold(t) \/ AfterRelease(t) \/ AfterForget(t) PROVE Later
    BY <1>1, <1>8 DEF BeginAsk, BeginHold, AfterRelease, AfterForget
  <1>9. ASSUME UpdateSaves \/ DeveloperEndsShell \/ RootKeepsSwitch PROVE Later
    BY <1>3, <1>4, <1>9 DEF UpdateSaves, DeveloperEndsShell, RootKeepsSwitch
  <1>10. ASSUME SyncLooks \/ FinishResumes \/ TrayPaused \/ TrayResume \/ UNCHANGED policyVars PROVE Later
    BY <1>1, <1>10 DEF SyncLooks, FinishResumes, TrayPaused, TrayResume, policyVars
  <1>11. ASSUME Restart PROVE Later
    BY <1>5, <1>11, PolicyTypes DEF Restart, PolicyData, Slips, Later
  <1>12. Later
    BY <1>6, <1>7, <1>8, <1>9, <1>10, <1>11 DEF PolicyNext, FirstLink, LastLink, WindowStep,
           TrayStep, Starts
  <1> QED BY <1>6, <1>12 DEF Later

\* Every step keeps one command at a time.
LEMMA OneAtATimeStep ==
  ASSUME PolicyTypeOK, OneAtATime, [PolicyNext]_policyVars, ~slips'.crossed
  PROVE  OneAtATime'
  <1> USE DEF Tasks, Busy, Goes
  <1>1. doing \in [Tasks -> PolicyStages] /\ tray \in {"nothing", "keep", "let", "clear"}
    BY PolicyTypes DEF PolicyRest
  <1>2. /\ \A t \in Tasks : Busy(t) => tray = "nothing"
        /\ \A t, u \in Tasks : Busy(t) /\ Busy(u) => t = u
        /\ Starts => Quiet
    BY SlipsStay DEF OneAtATime
  <1>3. ASSUME Starts PROVE OneAtATime'
    BY <1>1, <1>2, <1>3 DEF Starts, OneAtATime, Quiet, Pairs, Unlinks, FinishOnboarding,
           ApplyPreset,
       UpdateSettings, SetDeveloper, DeveloperOff, AddRoot, TrayPauses, TrayAsksResume
  <1>4. ASSUME NEW t \in Tasks, FirstLink(t), ~Pairs(t) PROVE OneAtATime'
    BY <1>1, <1>2, <1>4 DEF FirstLink, OneAtATime, BeginOff, BeginAsk, BeginHold
  <1>5. ASSUME NEW t \in Tasks, LastLink(t), ~Unlinks(t) PROVE OneAtATime'
    BY <1>1, <1>2, <1>5 DEF LastLink, OneAtATime, AfterReset, AfterRelease, AfterForget
  <1>6. CASE SyncLooks \/ FinishResumes \/ UpdateSaves \/ DeveloperEndsShell \/ RootKeepsSwitch
    BY <1>1, <1>2, <1>6 DEF OneAtATime, SyncLooks, FinishResumes, UpdateSaves,
           DeveloperEndsShell, RootKeepsSwitch
  <1>7. CASE TrayPaused \/ TrayResume
    BY <1>1, <1>2, <1>7 DEF OneAtATime, TrayPaused, TrayKeeps, TrayResume, TrayResumes
  <1>8. CASE Restart \/ UNCHANGED policyVars
    BY <1>1, <1>2, <1>8 DEF OneAtATime, Restart, policyVars
  <1> QED BY <1>3, <1>4, <1>5, <1>6, <1>7, <1>8 DEF PolicyNext, FirstLink, LastLink, WindowStep,
         TrayStep, Starts

-----------------------------------------------------------------------------
\* Where a command stands fits whether there is a link, a loop for it, and the
\* answer of onboarding.
StagesFit ==
    /\ served => paired
    /\ ~slips.crossed =>
        /\ \A t \in Tasks : doing[t] = "hold" => ~prefs.onboarded
        /\ \A t \in Tasks : doing[t] \in {"reset", "release", "forget"} => ~paired
        /\ doing["window"] \in {"resume", "save", "shell", "unfiles"} => paired
        /\ doing["window"] \in {"off", "ask", "hold"} => ~served
        /\ paired /\ ~served => doing["window"] \in {"off", "ask", "hold"}

\* The two records of a pause are the same, but for what an onboarding or the tray is
\* about to write.
PauseFits ==
    ~slips.crossed =>
        /\ doing["window"] = "resume" => prefs.onboarded /\ ~prefs.paused
        /\ tray = "keep" => halt
        /\ tray \in {"let", "clear"} => prefs.onboarded
        /\ tray = "clear" => ~halt
        /\ paired /\ tray = "nothing" /\ (\A t \in Tasks : doing[t] \notin {"off", "ask", "hold", "resume"})
            => (halt <=> prefs.paused \/ ~prefs.onboarded)

\* A loop that runs before onboarding is finished is paused, or is about to be.
HeldBack ==
    ~slips.crossed /\ served /\ ~prefs.onboarded /\ ~halt =>
        \E t \in Tasks : doing[t] \in {"off", "ask", "hold"}

\* Every step keeps the three.
LEMMA StagesFitStep ==
  ASSUME PolicyTypeOK, OneAtATime, StagesFit, PauseFits, HeldBack, [PolicyNext]_policyVars
  PROVE  StagesFit' /\ PauseFits' /\ HeldBack'
  <1> USE DEF Tasks, Busy, Goes, StagesFit, PauseFits, HeldBack
  <1>1. /\ doing \in [Tasks -> PolicyStages] /\ tray \in {"nothing", "keep", "let", "clear"}
        /\ prefs \in Prefs /\ halt \in BOOLEAN /\ paired \in BOOLEAN /\ served \in BOOLEAN
    BY PolicyTypes DEF PolicyRest
  <1>2. /\ ~slips'.crossed => ~slips.crossed
        /\ ~slips.crossed => \A t \in Tasks : Busy(t) => tray = "nothing"
        /\ ~slips.crossed => \A t, u \in Tasks : Busy(t) /\ Busy(u) => t = u
    BY SlipsStay DEF OneAtATime
  <1> DEFINE Fits == StagesFit' /\ PauseFits' /\ HeldBack'
  <1>3. ASSUME NEW t \in Tasks, Pairs(t) PROVE Fits
    <2>1. ~slips'.crossed => Quiet /\ (~paired => First(t))
      BY <1>3, LinksCross
    <2>2. StagesFit'
      BY <1>1, <1>2, <1>3, <2>1 DEF Pairs, Quiet, First
    <2>3. PauseFits'
      BY <1>1, <1>2, <1>3, <2>1 DEF Pairs, Quiet, First
    <2>4. HeldBack'
      BY <1>1, <1>2, <1>3, <2>1 DEF Pairs, Quiet, First
    <2> QED BY <2>2, <2>3, <2>4
  <1>4. ASSUME NEW t \in Tasks, BeginOff(t) PROVE Fits
    BY <1>1, <1>2, <1>4 DEF BeginOff
  <1>5. ASSUME NEW t \in Tasks, BeginAsk(t) PROVE Fits
    BY <1>1, <1>2, <1>5 DEF BeginAsk, Prefs
  <1>6. ASSUME NEW t \in Tasks, BeginHold(t) PROVE Fits
    BY <1>1, <1>2, <1>6 DEF BeginHold
  <1>7. ASSUME NEW t \in Tasks, Unlinks(t) PROVE Fits
    <2>1. ~slips'.crossed => Quiet
      BY <1>7, SlipsStay DEF Starts
    <2> QED BY <1>1, <1>2, <1>7, <2>1 DEF Unlinks, Quiet
  <1>8. ASSUME NEW t \in Tasks, AfterReset(t) \/ AfterRelease(t) PROVE Fits
    <2>1. ASSUME AfterReset(t) PROVE Fits
      BY <1>1, <1>2, <2>1 DEF AfterReset
    <2>2. ASSUME AfterRelease(t) PROVE Fits
      BY <1>1, <1>2, <2>2 DEF AfterRelease
    <2> QED BY <1>8, <2>1, <2>2
  <1>9. ASSUME NEW t \in Tasks, AfterForget(t) PROVE Fits
    BY <1>1, <1>2, <1>9 DEF AfterForget, Prefs
  <1>10. CASE SyncLooks
    BY <1>1, <1>2, <1>10 DEF SyncLooks
  <1>11. CASE FinishOnboarding
    <2>1. ~slips'.crossed => Quiet
      BY <1>11, SlipsStay DEF Starts
    <2> QED BY <1>1, <1>2, <1>11, <2>1 DEF FinishOnboarding, WindowOpen, Quiet, Prefs
  <1>12. CASE FinishResumes
    BY <1>1, <1>2, <1>12 DEF FinishResumes
  <1>13. CASE ApplyPreset \/ UpdateSettings \/ AddRoot
    <2>1. ~slips'.crossed => Quiet
      BY <1>13, SlipsStay DEF Starts
    <2> QED BY <1>1, <1>2, <1>13, <2>1 DEF ApplyPreset, UpdateSettings, AddRoot, WindowOpen, Quiet
  <1>14. CASE SetDeveloper
    <2>1. ~slips'.crossed => Quiet
      BY <1>14, SlipsStay DEF Starts
    <2> QED BY <1>1, <1>2, <1>14, <2>1 DEF SetDeveloper, DeveloperOff, WindowOpen, Quiet, Prefs
  <1>15. CASE UpdateSaves \/ DeveloperEndsShell \/ RootKeepsSwitch
    <2>1. CASE UpdateSaves
      BY <1>1, <1>2, <2>1 DEF UpdateSaves
    <2>2. CASE DeveloperEndsShell
      BY <1>1, <1>2, <2>2 DEF DeveloperEndsShell
    <2>3. CASE RootKeepsSwitch
      BY <1>1, <1>2, <2>3 DEF RootKeepsSwitch
    <2> QED BY <1>15, <2>1, <2>2, <2>3
  <1>16. CASE TrayPauses \/ TrayAsksResume
    <2>1. ~slips'.crossed => Quiet
      BY <1>16, SlipsStay DEF Starts
    <2> QED BY <1>1, <1>2, <1>16, <2>1 DEF TrayPauses, TrayAsksResume, MayResume, Quiet
  <1>17. CASE TrayPaused \/ TrayResume
    BY <1>1, <1>2, <1>17 DEF TrayPaused, TrayKeeps, TrayResume, TrayResumes, Prefs
  <1>18. CASE Restart
    BY <1>1, <1>2, <1>18 DEF Restart, StartsPaused
  <1>19. CASE UNCHANGED policyVars
    BY <1>1, <1>2, <1>19 DEF policyVars
  <1> QED BY <1>3, <1>4, <1>5, <1>6, <1>7, <1>8, <1>9, <1>10, <1>11, <1>12, <1>13, <1>14, <1>15, <1>16,
             <1>17, <1>18, <1>19 DEF PolicyNext, FirstLink, LastLink, WindowStep, TrayStep

-----------------------------------------------------------------------------
\* The file is what a load makes the settings of.
FileFits == ~slips.unsaved => settings = Loaded(file)

\* What the window saves has the command line in developer mode only.
SentFits == doing["window"] = "save" /\ shown.shell => prefs.developer

\* A switch is its owner's, or about to be put back.
SwitchesFit ==
    ~slips.unsaved /\ ~slips.cut =>
        /\ settings.shell => prefs.developer \/ doing["window"] = "shell"
        /\ settings.files => meant.files \/ doing["window"] = "unfiles"

\* Everything is off from the first write of an onboarding, or of the last link's
\* end, to its last one; before the first one if the sync has the link dialed already,
\* but for a computer whose onboarding began or ended while the sync was away.
OffFits ==
    ~slips.crossed /\ ~slips.unsaved =>
        /\ \A t \in Tasks : doing[t] \in {"ask", "hold", "release", "forget"} => settings = AllOff
        /\ ~slips.cut /\ doing["sync"] = "off" => settings = AllOff \/ prefs.onboarded \/ halt
        /\ ~slips.cut /\ ~paired => settings = AllOff \/ \E t \in Tasks : doing[t] = "reset"

\* The settings, their file and what the owner chose.
SettingsFit == FileFits /\ SentFits /\ SwitchesFit /\ OffFits /\ RefusedStays

\* Every step keeps them, and what the owner refused.
LEMMA SettingsFitStep ==
  ASSUME PolicyTypeOK, OneAtATime, StagesFit, PauseFits, SettingsFit, [PolicyNext]_policyVars
  PROVE  SettingsFit'
  <1> USE DEF Tasks, Busy, Goes, SettingsFit, FileFits, SentFits, SwitchesFit, OffFits, RefusedStays
  <1>1. /\ doing \in [Tasks -> PolicyStages] /\ tray \in {"nothing", "keep", "let", "clear"}
        /\ prefs \in Prefs /\ paired \in BOOLEAN
        /\ settings \in Settings /\ ~settings.old /\ shown \in Settings /\ ~shown.old /\ file \in Settings
        /\ meant \in Meant
    BY PolicyTypes DEF PolicyRest, PolicyData
  <1>2. /\ ~slips'.crossed => ~slips.crossed
        /\ ~slips'.unsaved => ~slips.unsaved
        /\ ~slips'.cut => ~slips.cut
        /\ ~slips.crossed => \A t \in Tasks : Busy(t) => tray = "nothing"
        /\ ~slips.crossed => \A t, u \in Tasks : Busy(t) /\ Busy(u) => t = u
    BY SlipsStay DEF OneAtATime
  \* What a change of the settings leaves: the file is the same, or nothing is said of it.
  <1>3. ASSUME NEW s \in Settings, ~s.old, NEW c \in BOOLEAN, Mutates(s, c)
        PROVE  FileFits' /\ settings' = s /\ (~slips'.unsaved => file' = s /\ Loaded(file') = s)
    <2>1. Loaded(s) = s
      BY <1>3, LoadedIs
    <2>2. settings' = s /\ (~slips'.unsaved => file' = s)
      BY <1>3, SavesIs DEF Mutates
    <2> QED BY <2>1, <2>2 DEF Loaded
  <1> DEFINE Fits == SettingsFit'
  <1>4. ASSUME NEW t \in Tasks, Pairs(t) PROVE Fits
    <2>1. ~slips'.crossed => Quiet /\ (~paired => First(t))
      BY <1>4, LinksCross
    <2>2. slips'.unsaved = slips.unsaved /\ slips'.cut = slips.cut
      BY <1>4, LinksCross
    <2>3. UNCHANGED <<settings, file, prefs, halt, shown, meant>> /\ paired'
      BY <1>4 DEF Pairs
    <2>4. doing' = [doing EXCEPT ![t] = IF First(t) THEN "off" ELSE "nothing"]
      BY <1>4 DEF Pairs
    <2>5. FileFits' /\ RefusedStays'
      BY <1>2, <2>2, <2>3 DEF Loaded
    <2>6. SentFits' /\ SwitchesFit'
      BY <1>1, <1>4, <2>2, <2>3, <2>4 DEF Pairs
    <2>7. OffFits'
      <3> SUFFICES ASSUME ~slips'.crossed, ~slips'.unsaved PROVE OffFits'
        OBVIOUS
      <3>1. Quiet /\ (~paired => First(t)) /\ ~slips.crossed /\ ~slips.unsaved
        BY <1>2, <2>1
      <3>2. \A u \in Tasks : doing[u] \notin {"off", "ask", "hold", "resume", "reset"}
        BY <3>1 DEF Quiet
      <3>3. ~slips.cut => settings = AllOff \/ prefs.onboarded \/ halt
        BY <3>1, <3>2 DEF Quiet, PauseFits
      <3> QED BY <1>1, <2>2, <2>3, <2>4, <3>1, <3>2, <3>3
    <2> QED BY <2>5, <2>6, <2>7
  <1>5. ASSUME NEW t \in Tasks, BeginOff(t) \/ AfterReset(t) PROVE Fits
    <2>1. settings' = AllOff /\ FileFits' /\ (~slips'.unsaved => file' = AllOff /\ Loaded(file') = AllOff)
      BY <1>3, <1>5, OffIs DEF BeginOff, AfterReset
    <2>2. meant' = [refused |-> FALSE, files |-> FALSE]
      BY <1>5 DEF BeginOff, AfterReset
    <2>3. ASSUME BeginOff(t) PROVE Fits
      BY <1>1, <1>2, <2>1, <2>2, <2>3, OffIs DEF BeginOff
    <2>4. ASSUME AfterReset(t) PROVE Fits
      BY <1>1, <1>2, <2>1, <2>2, <2>4, OffIs DEF AfterReset
    <2> QED BY <1>5, <2>3, <2>4
  <1>6. ASSUME NEW t \in Tasks, BeginAsk(t) PROVE Fits
    BY <1>1, <1>2, <1>6 DEF BeginAsk, Prefs
  <1>7. ASSUME NEW t \in Tasks, BeginHold(t) PROVE Fits
    BY <1>1, <1>2, <1>7 DEF BeginHold, WindowIsTold
  <1>8. ASSUME NEW t \in Tasks, Unlinks(t) PROVE Fits
    <2>1. ~slips'.crossed => Quiet /\ Last(t)
      BY <1>8, LinksCross
    <2>2. slips'.unsaved = slips.unsaved /\ slips'.cut = slips.cut
      BY <1>8, LinksCross
    <2>3. UNCHANGED <<settings, file, prefs, halt, shown, meant>>
      BY <1>8 DEF Unlinks
    <2>4. doing' = [doing EXCEPT ![t] = IF Last(t) THEN "reset" ELSE "nothing"]
      BY <1>8 DEF Unlinks
    <2>5. FileFits' /\ RefusedStays'
      BY <1>2, <2>2, <2>3 DEF Loaded
    <2>6. SentFits' /\ SwitchesFit'
      BY <1>1, <1>8, <2>2, <2>3, <2>4 DEF Unlinks
    <2>7. OffFits'
      BY <1>1, <1>2, <2>1, <2>2, <2>3, <2>4 DEF Quiet
    <2> QED BY <2>5, <2>6, <2>7
  <1>9. ASSUME NEW t \in Tasks, AfterRelease(t) PROVE Fits
    BY <1>1, <1>2, <1>9 DEF AfterRelease
  <1>10. ASSUME NEW t \in Tasks, AfterForget(t) PROVE Fits
    BY <1>1, <1>2, <1>10 DEF AfterForget, WindowIsTold, Prefs
  <1>11. CASE SyncLooks \/ FinishResumes
    BY <1>1, <1>2, <1>11 DEF SyncLooks, FinishResumes
  <1>12. CASE FinishOnboarding
    BY <1>1, <1>2, <1>12 DEF FinishOnboarding, WindowOpen, Prefs
  <1>13. CASE ApplyPreset
    <2>1. /\ Preset \in Settings /\ Preset.old = FALSE /\ Preset.shell = FALSE
          /\ Preset.refused = settings.refused
      BY <1>1, SettingsParts DEF Preset, FromPreset, AllOff, Settings
    <2>2. Quiet \in BOOLEAN
      BY DEF Quiet
    <2>3. settings' = Preset /\ FileFits' /\ (~slips'.unsaved => file' = Preset /\ Loaded(file') = Preset)
      BY <1>3, <1>13, <2>1, <2>2 DEF ApplyPreset
    <2>4. meant'.files = TRUE /\ meant'.refused = meant.refused
      BY <1>1, <1>13 DEF ApplyPreset, Meant
    <2>5. ~slips'.crossed => Quiet
      BY <1>13, SlipsStay DEF Starts
    <2> QED BY <1>1, <1>2, <1>13, <2>1, <2>3, <2>4, <2>5 DEF ApplyPreset, WindowOpen, Quiet
  <1>14. CASE UpdateSettings
    <2>1. shown'.shell => prefs.developer
      <3>1. PICK next \in {[shown EXCEPT !.on = ~@], [shown EXCEPT !.files = ~@],
                          [shown EXCEPT !.shell = ~@], [shown EXCEPT !.refused = ~@]} :
                 shown' = ShellWithout(next)
        BY <1>14 DEF UpdateSettings
      <3>2. next \in Settings
        BY <1>1 DEF Settings
      <3> QED BY <3>1, <3>2 DEF ShellWithout, Settings
    <2>2. slips'.unsaved = slips.unsaved /\ slips'.cut = slips.cut
      BY <1>14, BeginsIs DEF UpdateSettings
    <2>3. ~slips'.crossed => Quiet
      BY <1>14, SlipsStay DEF Starts
    <2> QED BY <1>1, <1>2, <1>14, <2>1, <2>2, <2>3 DEF UpdateSettings, WindowOpen, Quiet
  <1>15. CASE UpdateSaves
    <2>1. settings' = shown /\ FileFits' /\ (~slips'.unsaved => file' = shown /\ Loaded(file') = shown)
      BY <1>1, <1>3, <1>15 DEF UpdateSaves
    <2>2. meant'.files = shown.files /\ meant'.refused = shown.refused
      BY <1>15 DEF UpdateSaves
    <2> QED BY <1>1, <1>2, <1>15, <2>1, <2>2 DEF UpdateSaves, StagesFit
  <1>16. CASE SetDeveloper
    <2>1. ~slips'.crossed => Quiet
      BY <1>16, SlipsStay DEF Starts
    <2> QED BY <1>1, <1>2, <1>16, <2>1 DEF SetDeveloper, DeveloperOff, WindowOpen, Quiet, Prefs
  <1>17. CASE DeveloperEndsShell
    <2> DEFINE s == [settings EXCEPT !.shell = FALSE]
    <2>1. s \in Settings /\ ~s.old /\ s.shell = FALSE /\ s.refused = settings.refused /\ s.files = settings.files
      BY <1>1 DEF Settings
    <2> HIDE DEF s
    <2>2. settings' = s /\ FileFits' /\ (~slips'.unsaved => file' = s /\ Loaded(file') = s)
      BY <1>3, <1>17, <2>1 DEF DeveloperEndsShell, s
    <2> QED BY <1>1, <1>2, <1>17, <2>1, <2>2 DEF DeveloperEndsShell, StagesFit
  <1>18. CASE AddRoot
    <2> DEFINE s == [settings EXCEPT !.files = TRUE]
    <2>1. s \in Settings /\ ~s.old /\ s.shell = settings.shell /\ s.refused = settings.refused
      BY <1>1 DEF Settings
    <2> HIDE DEF s
    <2>2. Quiet \in BOOLEAN
      BY DEF Quiet
    <2>3. settings' = s /\ FileFits' /\ (~slips'.unsaved => file' = s /\ Loaded(file') = s)
      BY <1>3, <1>18, <2>1, <2>2 DEF AddRoot, s
    <2>4. ~slips'.crossed => Quiet
      BY <1>18, SlipsStay DEF Starts
    <2> QED BY <1>1, <1>2, <1>18, <2>1, <2>3, <2>4 DEF AddRoot, WindowOpen, Quiet
  <1>19. CASE RootKeepsSwitch
    <2> DEFINE s == [settings EXCEPT !.files = FALSE]
    <2>1. s \in Settings /\ ~s.old /\ s.files = FALSE /\ s.refused = settings.refused /\ s.shell = settings.shell
      BY <1>1 DEF Settings
    <2> HIDE DEF s
    <2>2. settings' = s /\ FileFits' /\ (~slips'.unsaved => file' = s /\ Loaded(file') = s)
      BY <1>3, <1>19, <2>1 DEF RootKeepsSwitch, s
    <2> QED BY <1>1, <1>2, <1>19, <2>1, <2>2 DEF RootKeepsSwitch, StagesFit
  <1>20. CASE TrayPauses \/ TrayAsksResume
    <2>1. slips'.unsaved = slips.unsaved /\ slips'.cut = slips.cut
      BY <1>20, BeginsIs DEF TrayPauses, TrayAsksResume
    <2> QED BY <1>1, <1>2, <1>20, <2>1 DEF TrayPauses, TrayAsksResume
  <1>21. CASE TrayPaused \/ TrayResume
    BY <1>1, <1>2, <1>21 DEF TrayPaused, TrayKeeps, TrayResume, TrayResumes, Prefs
  <1>22. CASE Restart
    <2>1. Loaded(file) \in Settings /\ ~Loaded(file).old
      BY <1>1, LoadedIs
    <2>2. settings' = Loaded(file) /\ FileFits'
      BY <1>22 DEF Restart
    <2>3. ~slips'.cut => ~slips.cut /\ Quiet
      BY <1>22, PolicyTypes DEF Restart, PolicyData, Slips
    <2>4. slips'.unsaved = slips.unsaved /\ slips'.crossed = slips.crossed
      BY <1>22, PolicyTypes DEF Restart, PolicyData, Slips
    <2> QED BY <1>1, <1>2, <1>22, <2>1, <2>2, <2>3, <2>4 DEF Restart, Quiet
  <1>23. CASE UNCHANGED policyVars
    BY <1>1, <1>2, <1>23 DEF policyVars, Loaded
  <1> QED BY <1>4, <1>5, <1>6, <1>7, <1>8, <1>9, <1>10, <1>11, <1>12, <1>13, <1>14, <1>15, <1>16,
             <1>17, <1>18, <1>19, <1>20, <1>21, <1>22, <1>23
          DEF PolicyNext, FirstLink, LastLink, WindowStep, TrayStep

\* A fresh install and a computer in use fit.
LEMMA PolicyStarts == PolicyInit => PolicyTypeOK /\ OneAtATime /\ StagesFit /\ PauseFits /\ HeldBack /\ SettingsFit
  <1> SUFFICES ASSUME PolicyInit
               PROVE  PolicyTypeOK /\ OneAtATime /\ StagesFit /\ PauseFits /\ HeldBack /\ SettingsFit
    OBVIOUS
  <1>1. file \in Settings /\ ~Loaded(file).old /\ Loaded(file) \in Settings /\ Loaded(file).shell = FALSE
    <2>1. AllOff \in Settings /\ UsedBefore \in Settings /\ AllOff.shell = FALSE /\ UsedBefore.shell = FALSE
      BY DEF AllOff, UsedBefore, Settings
    <2>2. file \in Settings /\ file.shell = FALSE
      BY <2>1 DEF PolicyInit
    <2> QED BY <2>2, LoadedIs
  <1>2. PolicyTypeOK
    <2>1. PolicyData
      BY <1>1 DEF PolicyInit, PolicyData, Meant, Slips, Settings
    <2>2. PolicyRest
      <3>1. paired \in BOOLEAN /\ served \in BOOLEAN /\ prefs \in Prefs
        BY DEF PolicyInit, Prefs
      <3>2. doing \in [Tasks -> PolicyStages]
        BY DEF PolicyInit, PolicyStages
      <3>3. halt \in BOOLEAN /\ tray = "nothing"
        BY DEF PolicyInit
      <3>4. steps = 0
        BY DEF PolicyInit
      <3>5. steps \in 0 .. MaxSteps
        BY <3>4, StepsAssumption
      <3> QED BY <3>1, <3>2, <3>3, <3>5 DEF PolicyRest
    <2> QED BY <2>1, <2>2, PolicyTypes
  <1>3. OneAtATime /\ StagesFit /\ PauseFits /\ HeldBack
    BY DEF PolicyInit, OneAtATime, StagesFit, PauseFits, HeldBack, Busy, Tasks
  <1>4. FileFits /\ SentFits /\ OffFits
    <2>1. ~paired => settings = AllOff
      BY OffIs, LoadedIs DEF PolicyInit
    <2> QED BY <2>1 DEF PolicyInit, FileFits, SentFits, OffFits, Tasks
  <1>5. SwitchesFit /\ RefusedStays
    BY <1>1, LoadedIs DEF PolicyInit, SwitchesFit, RefusedStays, AllOff, UsedBefore
  <1> QED BY <1>2, <1>3, <1>4, <1>5 DEF SettingsFit

\* The invariant of the policy.
PInv == PolicyTypeOK /\ OneAtATime /\ StagesFit /\ PauseFits /\ HeldBack /\ SettingsFit

\* Every command, tray press and start keeps the invariant.
LEMMA PolicySteps == ASSUME PInv, [PolicyNext]_policyVars PROVE PInv'
  <1>1. PolicyTypeOK'
    <2>1. PolicyRest'
      BY DoingStep, TrayTypes, StepsTypes, PrefsTypes, HaltTypes DEF PInv, PolicyRest
    <2>2. PolicyData'
      BY DataStep DEF PInv
    <2> QED BY <2>1, <2>2 DEF PolicyTypeOK, PolicyData, PolicyRest, PolicyStages, Slips, Prefs,
           Meant
  <1>2. OneAtATime'
    BY OneAtATimeStep DEF PInv, OneAtATime
  <1>3. StagesFit' /\ PauseFits' /\ HeldBack'
    BY StagesFitStep DEF PInv
  <1>4. SettingsFit'
    BY SettingsFitStep DEF PInv
  <1> QED BY <1>1, <1>2, <1>3, <1>4 DEF PInv

\* What the owner may rely on follows.
LEMMA PolicyHolds == PInv => PolicyIsTheOwners
  <1> SUFFICES ASSUME PInv PROVE PolicyIsTheOwners
    OBVIOUS
  <1> USE DEF PInv, Tasks
  <1>1. NothingBeforeChosen
    <2> SUFFICES ASSUME ~slips.crossed, ~slips.unsaved, slips.cut => doing["sync"] # "off",
                        served, ~prefs.onboarded, ~halt
                 PROVE  settings = AllOff
      BY DEF NothingBeforeChosen
    <2>1. PICK t \in Tasks : doing[t] \in {"off", "ask", "hold"}
      BY DEF HeldBack
    <2>2. t = "sync"
      BY <2>1 DEF StagesFit
    <2> QED BY <2>1, <2>2 DEF SettingsFit, OffFits
  <1>2. PauseSurvives
    BY DEF PauseSurvives, PauseFits, StartsPaused, Quiet, Busy
  <1>3. RefusedStays
    BY DEF SettingsFit
  <1>4. SwitchesAreTheOwners
    BY DEF SwitchesAreTheOwners, SettingsFit, SwitchesFit, Quiet, Busy
  <1> QED BY <1>1, <1>2, <1>3, <1>4 DEF PolicyIsTheOwners

-----------------------------------------------------------------------------
(* The three kinds together.                                               *)

\* All three.
ControlInv == IInv /\ SInv /\ PInv

\* A step of one kind leaves the others alone.
LEMMA ControlStep ==
  ASSUME ControlInv, [RequestsStep \/ SettingsStep \/ PolicyStep]_<<kind, vars, pushVars, policyVars>>
  PROVE  ControlInv'
  <1>1. [Next]_vars /\ [PushNext]_pushVars /\ [PolicyNext]_policyVars
    BY DEF RequestsStep, SettingsStep, PolicyStep
  <1> QED BY <1>1, NextIInv, PushStep, PolicySteps DEF ControlInv

\* The three invariants hold together.
LEMMA ControlInvariant == ControlSpec => []ControlInv
  <1>1. ControlInit => ControlInv
    BY InitIInv, PushStarts, PolicyStarts DEF ControlInit, ControlInv, PInv
  <1> QED BY <1>1, ControlStep, PTL DEF ControlSpec

\* Every reachable state of the three is of the declared type.
THEOREM ControlTypeCorrect == ControlSpec => []ControlTypeOK
  <1>1. ControlInv => ControlTypeOK
    BY PushTyped DEF ControlInv, IInv, SInv, PInv, ControlTypeOK
  <1> QED BY <1>1, ControlInvariant, PTL

\* A pushed message's capabilities are at least as new as its revision
\* (link.rs, control_loop).
THEOREM PushesAreNotStale == ControlSpec => []PushNotStale
  <1>1. ControlInv => PushNotStale
    BY DEF ControlInv, SInv
  <1> QED BY <1>1, ControlInvariant, PTL

\* Nothing of the policy runs before it is chosen, a pause outlasts a relaunch,
\* a refused app stays refused, a switch is its owner's (commands.rs, core.rs,
\* actions.rs).
THEOREM PolicyStaysTheOwners == ControlSpec => []PolicyIsTheOwners
  <1>1. ControlInv => PolicyIsTheOwners
    BY PolicyHolds DEF ControlInv
  <1> QED BY <1>1, ControlInvariant, PTL
=============================================================================
