------------------------------ MODULE MCObserve ------------------------------
(***************************************************************************)
(* What the synths are told of this computer, for TLC: the way of a report *)
(* from its source to a synth, and what the source `call` takes for a      *)
(* call.  The way does not look into a value, so a behaviour is of one     *)
(* kind and the other's variables rest.                                    *)
(***************************************************************************)
EXTENDS Observe, Calls

VARIABLE kind

vars == <<kind, obsVars, callVars>>

Init == kind \in {"way", "call"} /\ ObserveInit /\ CallsInit /\ (kind = "way" => ~wantsCall)

WayStep == kind = "way" /\ ObserveNext /\ UNCHANGED <<kind, callVars>>
CallStep == kind = "call" /\ CallsNext /\ UNCHANGED <<kind, obsVars>>
Next == WayStep \/ CallStep

\* The thread runs its rounds, a link's task and its writer are tasks of a
\* runtime that is not stopped, and the writer has a 15 s tick for presence.
Spec ==
    /\ Init /\ [][Next]_vars
    /\ WF_obsVars(kind = "way" /\ RoundStep)
    /\ \A s \in Synths :
         /\ WF_obsVars(kind = "way" /\ LinkTask(s))
         /\ WF_obsVars(kind = "way" /\ WritesReport(s))
         /\ WF_obsVars(kind = "way" /\ WritesPresence(s))

\* Every variable of the two modules has its type.
ReportsTypeOK == ObserveTypeOK /\ CallsTypeOK

\* A synth holds values of its own switches alone (observe.rs, Hub::wanted).
ReportsAreItsOwn == ReportsTypeOK /\ OnlyItsOwn

\* A call is a call: not a voice message, and not older than the microphone
\* it was taken for (observe/sources.rs, CallTracker).
CallIsOne == MessageIsNoCall /\ BeganWithTheMic

\* What the synth knows stays true: it catches up with the end of a thing and
\* with its change, and a call in a browser is not over while the browser alone
\* still talks (observe.rs, the plan and the repeats; sources.rs, CallTracker).
ReportsStayTrue == OverIsTold /\ SynthIsCurrent /\ MeetStays
=============================================================================
