------------------------------ MODULE Requests ------------------------------
(***************************************************************************)
(* What the app asks a synth over the control stream of one link           *)
(* (requests.rs, `LinkRequests`, and its `RequestsAttached` guard in       *)
(* link.rs).                                                               *)
(*                                                                         *)
(* A call takes a fresh id, registers a one-shot channel under it in       *)
(* `pending`, puts the request on the writer queue of the control stream   *)
(* and waits, bounded by a timeout.  Answers, timeouts, a stream that ends *)
(* and a stream that replaces it race for the entry.  An element of Calls  *)
(* is one call with the id it drew (ids are never reused).                 *)
(*                                                                         *)
(* A control stream is "up" while its task runs, "closing" once the task   *)
(* has returned or was aborted (its receiver is dropped, nothing is read   *)
(* any more) and "gone" when the guard has run `detach`.  The next stream  *)
(* may attach while the one before is still closing.                       *)
(***************************************************************************)
EXTENDS Naturals, FiniteSets

CONSTANTS Calls,          \* the calls made, each with its own id
          MaxPending,     \* MAX_PENDING
          MaxGeneration   \* bound: how many control streams attach

ASSUME MaxPendingAssumption == MaxPending \in Nat
ASSUME MaxGenerationAssumption == MaxGeneration \in Nat

VARIABLES
    out,         \* State.out: the generation whose queue it is, 0 for None
    generation,  \* State.generation
    supported,   \* State.supported
    pending,     \* the keys of State.pending
    stream,      \* where the control stream of each generation stands
    queued,      \* the queue a request sits in, 0 when in none
    seen,        \* requests the synth has received
    oneshot,     \* what the sender half put into the call's channel
    call         \* where the caller stands: its outcome once it returned

vars == <<out, generation, supported, pending, stream, queued, seen, oneshot, call>>

Generations == 1 .. MaxGeneration

\* What `call_within` returns.
Outcomes == {"not_linked", "outdated", "too_many", "answered", "dropped", "timeout"}

TypeOK ==
    /\ out \in 0 .. MaxGeneration
    /\ generation \in 0 .. MaxGeneration
    /\ supported \in BOOLEAN
    /\ pending \in SUBSET Calls
    /\ stream \in [Generations -> {"none", "up", "closing", "gone"}]
    /\ queued \in [Calls -> 0 .. MaxGeneration]
    /\ seen \in SUBSET Calls
    /\ oneshot \in [Calls -> {"none", "answered", "dropped"}]
    /\ call \in [Calls -> {"idle", "waiting", "expired"} \cup Outcomes]

Init ==
    /\ out = 0
    /\ generation = 0
    /\ supported = FALSE
    /\ pending = {}
    /\ stream = [g \in Generations |-> "none"]
    /\ queued = [c \in Calls |-> 0]
    /\ seen = {}
    /\ oneshot = [c \in Calls |-> "none"]
    /\ call = [c \in Calls |-> "idle"]

-----------------------------------------------------------------------------
(* The control stream's side.                                              *)

\* Mutant of FailPending: the waiting calls are forgotten, not told.
ForgetPending ==
    /\ pending' = {}
    /\ UNCHANGED oneshot

\* Every waiting call is told that the link dropped.
FailPending ==
    /\ pending' = {}
    /\ oneshot' = [c \in Calls |-> IF c \in pending THEN "dropped" ELSE oneshot[c]]

\* control_loop starts: `attach`.  run_one has aborted the stream before.
Attach ==
    /\ generation < MaxGeneration
    /\ \A g \in Generations : stream[g] # "up"
    /\ generation' = generation + 1
    /\ out' = generation + 1
    /\ supported' = FALSE
    /\ stream' = [stream EXCEPT ![generation + 1] = "up"]
    /\ FailPending
    /\ UNCHANGED <<queued, seen, call>>

\* hello_ack: `set_supported`.
HelloAck(g, feature) ==
    /\ stream[g] = "up"
    /\ supported' = feature
    /\ UNCHANGED <<out, generation, pending, stream, queued, seen, oneshot, call>>

\* The control task returns or is aborted: its queue's receiver is dropped.
StreamEnds(g) ==
    /\ stream[g] = "up"
    /\ stream' = [stream EXCEPT ![g] = "closing"]
    /\ UNCHANGED <<out, generation, supported, pending, queued, seen, oneshot, call>>

\* Mutant of Detach: the generation is not compared.
DetachAnyGeneration(g) ==
    /\ stream[g] = "closing"
    /\ stream' = [stream EXCEPT ![g] = "gone"]
    /\ out' = 0 /\ supported' = FALSE
    /\ pending' = {}
    /\ oneshot' = [c \in Calls |-> IF c \in pending THEN "dropped" ELSE oneshot[c]]
    /\ UNCHANGED <<generation, queued, seen, call>>

\* RequestsAttached is dropped: `detach`.  A newer stream is left alone.
Detach(g) ==
    /\ stream[g] = "closing"
    /\ stream' = [stream EXCEPT ![g] = "gone"]
    /\ IF generation = g
         THEN out' = 0 /\ supported' = FALSE /\ FailPending
         ELSE UNCHANGED <<out, supported, pending, oneshot>>
    /\ UNCHANGED <<generation, queued, seen, call>>

\* The writer takes a request from its queue and sends it.
WriterSends(c) ==
    /\ queued[c] # 0
    /\ stream[queued[c]] = "up"
    /\ c \notin seen
    /\ seen' = seen \cup {c}
    /\ UNCHANGED <<out, generation, supported, pending, stream, queued, oneshot, call>>

\* A `response` arrives, for any request the synth has seen, any number of
\* times: `resolve`.  One that is not pending any more is ignored.  (The code
\* takes any id; that the synth answers only what it was sent is assumed of
\* it: `id` counts up, so it could but guess one.)
Resolve(c) ==
    /\ \E g \in Generations : stream[g] = "up"
    /\ c \in seen
    /\ c \in pending
    /\ pending' = pending \ {c}
    /\ oneshot' = [oneshot EXCEPT ![c] = "answered"]
    /\ UNCHANGED <<out, generation, supported, stream, queued, seen, call>>

-----------------------------------------------------------------------------
(* The caller's side: `call_within`.                                       *)

Refused(c, why) ==
    /\ call' = [call EXCEPT ![c] = why]
    /\ UNCHANGED <<out, generation, supported, pending, stream, queued, seen, oneshot>>

Register(c) ==
    /\ pending' = pending \cup {c}
    /\ queued' = [queued EXCEPT ![c] = out]
    /\ call' = [call EXCEPT ![c] = "waiting"]
    /\ UNCHANGED <<out, generation, supported, stream, seen, oneshot>>

\* Mutant of Call: the limit is off by one.
CallOverLimit(c) ==
    /\ call[c] = "idle"
    /\ \/ out = 0 /\ Refused(c, "not_linked")
       \/ out # 0 /\ ~supported /\ Refused(c, "outdated")
       \/ /\ out # 0 /\ supported /\ Cardinality(pending) <= MaxPending
          /\ stream[out] = "up"
          /\ Register(c)

\* The part under the lock; a send into a closed queue takes the entry back.
Call(c) ==
    /\ call[c] = "idle"
    /\ \/ out = 0 /\ Refused(c, "not_linked")
       \/ out # 0 /\ ~supported /\ Refused(c, "outdated")
       \/ out # 0 /\ supported /\ Cardinality(pending) >= MaxPending /\ Refused(c, "too_many")
       \/ /\ out # 0 /\ supported /\ Cardinality(pending) < MaxPending
          /\ stream[out] # "up"
          /\ Refused(c, "not_linked")
       \/ /\ out # 0 /\ supported /\ Cardinality(pending) < MaxPending
          /\ stream[out] = "up"
          /\ Register(c)

\* Mutant of Return: the call returns whatever the channel holds, at once.
ReturnEmpty(c) ==
    /\ call[c] = "waiting"
    /\ call' = [call EXCEPT ![c] = oneshot[c]]
    /\ UNCHANGED <<out, generation, supported, pending, stream, queued, seen, oneshot>>

\* The channel has a value: the call returns it.
Return(c) ==
    /\ call[c] = "waiting"
    /\ oneshot[c] # "none"
    /\ call' = [call EXCEPT ![c] = oneshot[c]]
    /\ UNCHANGED <<out, generation, supported, pending, stream, queued, seen, oneshot>>

\* Mutant of TimerFires: the call is not bounded.
NoTimer(c) == FALSE /\ UNCHANGED vars

\* The timer fires while the channel is empty (a value there wins).
TimerFires(c) ==
    /\ call[c] = "waiting"
    /\ oneshot[c] = "none"
    /\ call' = [call EXCEPT ![c] = "expired"]
    /\ UNCHANGED <<out, generation, supported, pending, stream, queued, seen, oneshot>>

\* Mutant of GiveUp: the entry stays in the table.
GiveUpLeavesEntry(c) ==
    /\ call[c] = "expired"
    /\ call' = [call EXCEPT ![c] = "timeout"]
    /\ UNCHANGED <<out, generation, supported, pending, stream, queued, seen, oneshot>>

\* ... and the caller takes its entry out, under the lock.
GiveUp(c) ==
    /\ call[c] = "expired"
    /\ pending' = pending \ {c}
    /\ call' = [call EXCEPT ![c] = "timeout"]
    /\ UNCHANGED <<out, generation, supported, stream, queued, seen, oneshot>>

-----------------------------------------------------------------------------
Next ==
    \/ Attach
    \/ \E g \in Generations :
          \/ \E feature \in BOOLEAN : HelloAck(g, feature)
          \/ StreamEnds(g)
          \/ Detach(g)
    \/ \E c \in Calls :
          WriterSends(c) \/ Resolve(c) \/ Call(c) \/ Return(c) \/ TimerFires(c) \/ GiveUp(c)

Spec == Init /\ [][Next]_vars

\* The runtime polls a task that can go on; the timers, the synth and the
\* network promise nothing.
TaskFairness ==
    /\ \A g \in Generations : WF_vars(Detach(g))
    /\ \A c \in Calls : WF_vars(Return(c)) /\ WF_vars(GiveUp(c))

PromptSpec == Spec /\ TaskFairness

-----------------------------------------------------------------------------
(* Properties.                                                             *)

\* No entry outlives its caller: whatever is in `pending` belongs to a call
\* that still holds the other half of the channel and has been sent nothing,
\* so the table cannot fill up with abandoned entries until MAX_PENDING
\* refuses everything.
NoLeakedEntry ==
    \A c \in pending : call[c] \in {"waiting", "expired"} /\ oneshot[c] = "none"

\* A stream that is up is the one requests go to, and the entries are all
\* requests of that stream: the end of an older stream changes neither.
LiveStreamCarries ==
    /\ \A g \in Generations : stream[g] = "up" => out = g
    /\ \A c \in pending : queued[c] = out

\* A call is told "the link dropped" only when the stream it went out on has
\* ended: an old stream that ends late does not fail the calls of the stream
\* that replaced it.
DroppedMeansEnded ==
    \A c \in Calls : oneshot[c] = "dropped" => stream[queued[c]] \in {"closing", "gone"}

\* The end of an old stream, however late, leaves the newer one its queue and
\* its calls.
LateEndSpares == LiveStreamCarries /\ DroppedMeansEnded

\* What the three invariants above rest on: the generations beyond the last
\* one have no stream, the queue is the last generation's and its stream is
\* not gone, entries exist only with a queue, and a call that has not started
\* has nothing in its channel.
GenerationDiscipline ==
    /\ \A g \in Generations : g > generation => stream[g] = "none"
    /\ out # 0 => out = generation /\ stream[out] \in {"up", "closing"}
    /\ pending # {} => out # 0
    /\ \A c \in Calls : call[c] = "idle" => oneshot[c] = "none"
    /\ \A c \in Calls : oneshot[c] = "dropped" => queued[c] # 0

\* At most MAX_PENDING calls wait for the synth at once.
PendingBounded == Cardinality(pending) <= MaxPending

\* The table holds the calls that wait, no other and never too many: the limit
\* of MAX_PENDING counts nobody who left.
TableIsRight == NoLeakedEntry /\ PendingBounded

\* The word a call was given, and what its caller knows of it.
WordOf == [c \in Calls |-> IF call[c] \in {"expired", "timeout"} THEN "timeout" ELSE oneshot[c]]
PhaseOf == [c \in Calls |-> IF call[c] \in {"waiting", "expired"} THEN "in" ELSE call[c]]

P == INSTANCE Promise
         WITH alive <- \E g \in Generations : stream[g] = "up",
              places <- pending, reached <- seen, word <- WordOf, phase <- PhaseOf

\* The streams, queues and channels keep what a call is promised: one word,
\* an answer only to a request that arrived, "dropped" only while no link is
\* up, never more than MAX_PENDING places, and a place that is free when the
\* call returns (requests.rs, the whole of LinkRequests).
KeepsPromise == P!PromiseSpec

\* A call whose stream has ended returns without waiting for its timer.
EndedStreamReleases ==
    \A c \in Calls :
        (call[c] = "waiting" /\ stream[queued[c]] = "closing") ~> call[c] \in Outcomes

\* As timers fire, every call returns, whatever the synth and the link do.
TimersFire == \A c \in Calls : WF_vars(TimerFires(c))
EveryCallReturns == TimersFire => \A c \in Calls : call[c] = "waiting" ~> call[c] \in Outcomes

\* Every call ends: at once where its stream has ended, and in any case as
\* timers fire.
CallsEnd == EndedStreamReleases /\ EveryCallReturns
=============================================================================
