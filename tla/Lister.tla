------------------------------- MODULE Lister -------------------------------
(***************************************************************************)
(* How the app asks the driver for its lists (cua_apps.rs: Directory::call,*)
(* desktop_picture, Lister).  A runtime of the driver that only the app    *)
(* talks to answers one question after the other over a pipe.  The stream  *)
(* of a synth, the owner's picker and the island share it under one lock.  *)
(* A stream may end at any point of a question: the lock is free again,    *)
(* and what it had written and was still to be told stays in the pipe.     *)
(***************************************************************************)
EXTENDS Naturals, Sequences

CONSTANTS MaxQuestions,     \* bound: questions asked
          MaxVersion        \* bound: how often the screen changes

ASSUME ListerAssumption == MaxQuestions \in Nat /\ MaxVersion \in Nat

VARIABLES
    version,    \* what is on the screen
    runtime,    \* the runtime: its next id, what it was asked, a torn line
    said,       \* the answer in the pipe
    question,   \* who asks what, for the first or second time
    learned,    \* what the last question ended with
    questions   \* how many there have been

listerVars == <<version, runtime, said, question, learned, questions>>

Askers == {"stream", "picker", "island"}
ListOf(who) == {l \in {"apps", "windows", "picture"} :
                   (who = "picker" => l = "apps") /\ (who = "island") = (l = "picture")}

Down == [up |-> FALSE, id |-> 0, owed |-> <<>>, torn |-> FALSE]
Silence == [id |-> 0, list |-> "none", version |-> 0]
NoQuestion == [who |-> "nobody", list |-> "none", try |-> 0, id |-> 0, since |-> 0]

ListerTypeOK ==
    /\ version \in 0 .. MaxVersion /\ questions \in 0 .. MaxQuestions
    /\ runtime.up \in BOOLEAN /\ runtime.torn \in BOOLEAN
    /\ ~runtime.up => runtime = Down /\ said = Silence
    /\ \A i \in DOMAIN runtime.owed : runtime.owed[i].id \in 1 .. runtime.id
    /\ said.id \in 0 .. runtime.id
    /\ question.who \in Askers \cup {"nobody"} /\ question.try \in 0 .. 2
    /\ question.who # "nobody" => question.list \in ListOf(question.who)

ListerInit ==
    /\ version = 0 /\ runtime = Down /\ said = Silence
    /\ question = NoQuestion /\ learned = NoQuestion /\ questions = 0

-----------------------------------------------------------------------------
ScreenChanges ==
    /\ version < MaxVersion /\ version' = version + 1
    /\ UNCHANGED <<runtime, said, question, learned, questions>>

\* The lock is free: somebody takes it.
TakesLock(who, l) ==
    /\ question.who = "nobody" /\ questions < MaxQuestions
    /\ questions' = questions + 1
    /\ question' = [NoQuestion EXCEPT !.who = who, !.list = l, !.try = 1, !.since = version]
    /\ learned' = NoQuestion
    /\ UNCHANGED <<version, runtime, said>>

\* Lister::start where none runs, then one line with a fresh id.  A line
\* that follows a torn one is not understood.
Writes ==
    /\ question.who # "nobody" /\ question.id = 0
    /\ LET id == runtime.id + 1
       IN  /\ runtime' = [runtime EXCEPT !.up = TRUE, !.id = id, !.torn = FALSE,
                             !.owed = IF runtime.torn THEN @ ELSE Append(@, [id |-> id, list |-> question.list])]
           /\ question' = [question EXCEPT !.id = id]
    /\ UNCHANGED <<version, said, learned, questions>>

\* The driver answers with what there is at that moment.
DriverAnswers ==
    /\ runtime.owed # <<>> /\ said = Silence
    /\ LET q == Head(runtime.owed) IN said' = [id |-> q.id, list |-> q.list, version |-> version]
    /\ runtime' = [runtime EXCEPT !.owed = Tail(@)]
    /\ UNCHANGED <<version, question, learned, questions>>

\* Mutant of IsAnswer: the next line is the answer.
NextLine == question.id # 0

\* Lister::request: the line with the id of the question.
IsAnswer == question.id # 0 /\ said.id = question.id

HearsAnswer ==
    /\ said # Silence /\ IsAnswer
    /\ learned' = [question EXCEPT !.list = said.list, !.since = said.version, !.try = 1]
    /\ question' = NoQuestion /\ said' = Silence
    /\ UNCHANGED <<version, runtime, questions>>

SkipsLine ==
    /\ said # Silence /\ question.id # 0 /\ ~IsAnswer
    /\ said' = Silence
    /\ UNCHANGED <<version, runtime, question, learned, questions>>

\* Mutant of Again: a runtime is started again as often as it fails.
TriesForEver == question' = [question EXCEPT !.id = 0]

\* One more time, with a runtime that was not there before.
Again == question' = IF question.try = 1 THEN [question EXCEPT !.try = 2, !.id = 0] ELSE NoQuestion

\* An error, the end of the pipe, or no answer in time: the runtime is
\* stopped.
Fails ==
    /\ question.who # "nobody" /\ question.id # 0
    /\ runtime' = Down /\ said' = Silence
    /\ Again
    /\ UNCHANGED <<version, learned, questions>>

\* A runtime that does not start is not tried again.
StartFails ==
    /\ question.who # "nobody" /\ ~runtime.up
    /\ question' = NoQuestion
    /\ UNCHANGED <<version, runtime, said, learned, questions>>

\* The stream's task is dropped where it waits: for the line to be written
\* or for the answer.
StreamDropped ==
    /\ question.who = "stream"
    /\ question' = NoQuestion
    /\ runtime' \in {runtime} \cup (IF runtime.up /\ question.id = 0 THEN {[runtime EXCEPT !.torn = TRUE]} ELSE {})
    /\ UNCHANGED <<version, said, learned, questions>>

\* Directory::stop: under the lock.
StopsRuntime ==
    /\ question.who = "nobody" /\ runtime.up
    /\ runtime' = Down /\ said' = Silence
    /\ UNCHANGED <<version, question, learned, questions>>

-----------------------------------------------------------------------------
\* What the asker does: LISTER_TIMEOUT and PICTURE_TIMEOUT let it fail.
QuestionGoes == Writes \/ HearsAnswer \/ SkipsLine \/ Fails \/ StartFails

ListerNext ==
    \/ ScreenChanges \/ DriverAnswers \/ StreamDropped \/ StopsRuntime \/ QuestionGoes
    \/ \E who \in Askers : \E l \in ListOf(who) : TakesLock(who, l)

-----------------------------------------------------------------------------
(* Properties.                                                             *)

\* Whoever is told something is told what was asked for, as it was after the
\* question: nothing an earlier stream left in the pipe is taken for it.
ToldWhatWasAsked ==
    [][learned' # learned /\ learned' # NoQuestion =>
         learned'.list = question.list /\ learned'.since >= question.since]_listerVars

\* Every question ends and frees the lock, also over a torn line and with a
\* driver that says nothing.
QuestionEnds == (question.who # "nobody") ~> (question.who = "nobody")
=============================================================================
