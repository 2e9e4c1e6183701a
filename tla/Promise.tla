------------------------------- MODULE Promise -------------------------------
(***************************************************************************)
(* What a call to a synth is promised, whatever carries it (the comments   *)
(* at the head of requests.rs).  Requests.tla, with its streams, queues,   *)
(* generations and channels, is shown to implement it.                     *)
(*                                                                         *)
(* A call is turned away or gets one of MaxPending places.  Its word is    *)
(* given once: the synth's answer, which needs a request that reached it;  *)
(* that the link was lost, which needs a link that is not there; or, from  *)
(* the moment the caller stopped waiting, that it is too late.  The place  *)
(* is free when the call returns.                                          *)
(***************************************************************************)
EXTENDS Naturals, FiniteSets

CONSTANTS Calls, MaxPending

VARIABLES
    alive,      \* a link carries requests
    places,     \* the calls that hold a place
    reached,    \* the requests the synth has
    word,       \* what is decided about a call
    phase       \* "idle", "in", or what the call returned

promiseVars == <<alive, places, reached, word, phase>>

TurnedAway == {"not_linked", "outdated", "too_many"}

PromiseInit ==
    /\ alive = FALSE
    /\ places = {} /\ reached = {}
    /\ word = [c \in Calls |-> "none"]
    /\ phase = [c \in Calls |-> "idle"]

\* Everyone who holds a place and has no word yet hears that the link is lost.
AllDropped ==
    /\ places' = {}
    /\ word' = [c \in Calls |-> IF c \in places /\ word[c] = "none" THEN "dropped" ELSE word[c]]

LinkDies ==
    /\ alive /\ alive' = FALSE
    /\ UNCHANGED <<places, reached, word, phase>>

LinkLost ==
    /\ ~alive /\ AllDropped
    /\ UNCHANGED <<alive, reached, phase>>

LinkComes ==
    /\ ~alive /\ alive' = TRUE /\ AllDropped
    /\ UNCHANGED <<reached, phase>>

IsTurnedAway(c) ==
    /\ phase[c] = "idle"
    /\ \E why \in TurnedAway : phase' = [phase EXCEPT ![c] = why]
    /\ UNCHANGED <<alive, places, reached, word>>

TakesPlace(c) ==
    /\ phase[c] = "idle" /\ alive /\ Cardinality(places) < MaxPending
    /\ places' = places \cup {c}
    /\ phase' = [phase EXCEPT ![c] = "in"]
    /\ UNCHANGED <<alive, reached, word>>

Reaches(c) ==
    /\ alive /\ phase[c] \notin TurnedAway \cup {"idle"}
    /\ reached' = reached \cup {c}
    /\ UNCHANGED <<alive, places, word, phase>>

\* An answer frees the place; it counts where the caller still waits.
IsAnswered(c) ==
    /\ alive /\ c \in reached \cap places
    /\ places' = places \ {c}
    /\ word' = [word EXCEPT ![c] = IF @ = "none" THEN "answered" ELSE @]
    /\ UNCHANGED <<alive, reached, phase>>

IsTooLate(c) ==
    /\ phase[c] = "in" /\ word[c] = "none"
    /\ word' = [word EXCEPT ![c] = "timeout"]
    /\ UNCHANGED <<alive, places, reached, phase>>

ReturnsWord(c) ==
    /\ phase[c] = "in" /\ word[c] # "none"
    /\ phase' = [phase EXCEPT ![c] = word[c]]
    /\ places' = places \ {c}
    /\ UNCHANGED <<alive, reached, word>>

PromiseNext ==
    \/ LinkDies \/ LinkLost \/ LinkComes
    \/ \E c \in Calls :
          IsTurnedAway(c) \/ TakesPlace(c) \/ Reaches(c) \/ IsAnswered(c) \/ IsTooLate(c) \/ ReturnsWord(c)

PromiseSpec == PromiseInit /\ [][PromiseNext]_promiseVars
=============================================================================
