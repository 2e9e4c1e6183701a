------------------------------- MODULE Speech -------------------------------
(***************************************************************************)
(* A hold recognized on this computer (island/stt): the speech thread with *)
(* its one engine (stt/mod.rs), the hold read piece by piece while it is   *)
(* spoken (stt/stream.rs), and what the release sends (stt/release.rs).    *)
(*                                                                         *)
(* A recording is a sequence of half seconds, each speech or quiet.  Of a  *)
(* piece that was decoded is kept from where to where: text is a sequence  *)
(* of pieces.  The recognizer reads every piece with speech, or nothing of *)
(* the whole hold; it may fail, load in vain or panic.  The forced cut of  *)
(* eight seconds without a pause is not reached.  A screenshot goes as its *)
(* hold does and is left out.                                              *)
(***************************************************************************)
EXTENDS Naturals, Sequences, FiniteSets

CONSTANTS Holds, Engines, Nothing,
          MaxAudio,     \* bound: half seconds of a hold that has the thread to itself; of another, a word
          MaxUpsets     \* bound: choices of an engine, downloads, deletions and panics

ASSUME AudioAssumption == MaxAudio \in Nat \ {0}
ASSUME UpsetsAssumption == MaxUpsets \in Nat

VARIABLES
    chosen,     \* Shared::kind
    files,      \* engines whose files are here
    tx,         \* Stt::tx: no channel, one that is read, one whose thread is gone
    queue,      \* the commands in the channel
    at, task,    \* where the thread is, and the command it works on
    engine,     \* the engine it has loaded
    where,       \* Shared::state
    dying,      \* a thread that panicked has not said "gone" yet
    revived,    \* Stt::revived
    hold,       \* where a hold is
    said,       \* its recording
    answer,     \* what the release got
    stream,     \* the Streamer of the task
    upsets

speechVars == <<chosen, files, tx, queue, at, task, engine, where, dying, revived, hold, said,
                answer, stream, upsets>>
threadVars == <<queue, at, task, engine, stream>>
ownerVars == <<chosen, files>>

Positions == 0 .. MaxAudio
Pieces == Positions \X Positions
Answers == {"none", "late", "failed", "Silence", "NotRun", "text"}

Fresh == [len |-> 0, at |-> 0, text |-> <<>>, preview |-> <<0, 0>>, broken |-> FALSE]

SpeechTypeOK ==
    /\ chosen \in Engines /\ files \subseteq Engines
    /\ tx \in {"none", "open", "shut"}
    /\ queue \in Seq(Holds \cup {"warm"}) /\ task \in Holds \cup {"warm", Nothing}
    /\ at \in {"none", "idle", "load", "run", "refuse"}
    /\ engine \in Engines \cup {Nothing}
    /\ where \in {"unloaded", "loading", "ready", "failed", "gone"}
    /\ dying \in BOOLEAN /\ revived \in BOOLEAN
    /\ hold \in [Holds -> {"none", "pressed", "device", "synth", "asked", "answered", "text", "audio",
                           "silent", "dropped"}]
    /\ \A n \in Holds : said[n] \in Seq({"w", "q"}) /\ Len(said[n]) <= MaxAudio
    /\ \A n \in Holds : answer[n].is \in Answers /\ answer[n].text \in Seq(Pieces)
    /\ stream \in [len : Positions, at : Positions, text : Seq(Pieces), preview : Pieces, broken : BOOLEAN]
    /\ upsets \in 0 .. MaxUpsets

NoAnswer == [is |-> "none", text |-> <<>>]

SpeechInit ==
    /\ chosen \in Engines /\ files \in SUBSET Engines
    /\ tx = "none" /\ queue = <<>> /\ at = "none" /\ task = Nothing /\ engine = Nothing
    /\ where = "unloaded" /\ dying = FALSE /\ revived = FALSE
    /\ hold = [n \in Holds |-> "none"] /\ said = [n \in Holds |-> <<>>]
    /\ answer = [n \in Holds |-> NoAnswer]
    /\ stream = Fresh /\ upsets = 0

-----------------------------------------------------------------------------
(* Sending a command.  A thread that is not there yet is started; one that *)
(* is found gone is started and warmed, and the command is lost.           *)

\* spawn says "unloaded" before the thread runs.
Spawned(commands) ==
    /\ tx' = "open" /\ queue' = commands /\ at' = "idle" /\ where' = "unloaded"
    /\ task' = Nothing /\ engine' = Nothing /\ stream' = Fresh

Sends(cmd) ==
    CASE tx = "open" -> queue' = Append(queue, cmd) /\ UNCHANGED <<tx, at, where, task, engine, stream>>
      [] tx = "none" -> Spawned(<<cmd>>)
      [] tx = "shut" -> Spawned(<<"warm">>)

Found == tx = "shut"
Quiet == UNCHANGED <<tx, queue, at, where, task, engine, stream>>

\* The bound on long holds: nothing but the hold happens.
Alone(n) == upsets = 0 /\ \A k \in Holds \ {n} : hold[k] = "none"
Short == \A n \in Holds : Len(said[n]) <= 1
Upsets == Short /\ upsets < MaxUpsets /\ upsets' = upsets + 1

\* The press: the engine begins to load while the microphone opens.
Press(n) ==
    /\ hold[n] = "none" /\ Short /\ \A k \in Holds : hold[k] \notin {"pressed", "device", "synth"}
    /\ IF chosen \in files THEN hold' = [hold EXCEPT ![n] = "pressed"] /\ Sends("warm") /\ revived' = (revived \/ Found)
                           ELSE hold' = [hold EXCEPT ![n] = "synth"] /\ Quiet /\ UNCHANGED revived
    /\ UNCHANGED <<ownerVars, dying, said, answer, upsets>>

\* The microphone is open (Stt::hold): the thread has the hold, or it goes as audio.
MicOpens(n) ==
    /\ hold[n] = "pressed" /\ revived' = (revived /\ chosen \notin files)
    /\ IF chosen \in files /\ ~revived
       THEN hold' = [hold EXCEPT ![n] = IF Found THEN "synth" ELSE "device"] /\ Sends(n)
       ELSE hold' = [hold EXCEPT ![n] = "synth"] /\ Quiet
    /\ UNCHANGED <<ownerVars, dying, said, answer, upsets>>

\* The owner speaks, or not (for the synth the recording is never read here).
Speaks(n) ==
    /\ hold[n] = "device" /\ Len(said[n]) < (IF Alone(n) THEN MaxAudio ELSE 1)
    /\ \E u \in IF Alone(n) THEN {"w", "q"} ELSE {"w"} : said' = [said EXCEPT ![n] = Append(@, u)]
    /\ UNCHANGED <<ownerVars, threadVars, tx, where, dying, revived, hold, answer, upsets>>

-----------------------------------------------------------------------------
(* The release.                                                            *)

\* Session::finish: the whole recording is with the thread, or the thread is gone.
Release(n) ==
    /\ \/ hold[n] = "synth" /\ hold' = [hold EXCEPT ![n] = "audio"]
       \/ hold[n] = "device" /\ hold' = [hold EXCEPT ![n] = "asked"]
    /\ UNCHANGED <<ownerVars, threadVars, tx, where, dying, revived, said, answer, upsets>>

\* The thread does not have the hold any more, and never answers.
Lost(n) == task # n /\ \A i \in 1 .. Len(queue) : queue[i] # n

AnswerLost(n) ==
    /\ hold[n] = "asked" /\ Lost(n)
    /\ answer' = [answer EXCEPT ![n].is = "failed"] /\ hold' = [hold EXCEPT ![n] = "answered"]
    /\ UNCHANGED <<ownerVars, threadVars, tx, where, dying, revived, said, upsets>>

\* RELEASE_WAIT went by.
TimesOut(n) ==
    /\ hold[n] = "asked"
    /\ answer' = [answer EXCEPT ![n].is = "late"] /\ hold' = [hold EXCEPT ![n] = "answered"]
    /\ UNCHANGED <<ownerVars, threadVars, tx, where, dying, revived, said, upsets>>

\* A slip or a cancel.
Drops(n) ==
    /\ hold[n] \in {"pressed", "device", "synth"} /\ hold' = [hold EXCEPT ![n] = "dropped"]
    /\ UNCHANGED <<ownerVars, threadVars, tx, where, dying, revived, said, answer, upsets>>

\* Mutant of MayBeSilent: an answer without text is silence.
NoTextIsSilence(n) == answer[n].is \in {"Silence", "NotRun", "failed"}

\* Only a ready engine's voice detector may call a hold silent.
MayBeSilent(n) == answer[n].is = "Silence" /\ where = "ready"

Decides(n) ==
    /\ hold[n] = "answered"
    /\ hold' = [hold EXCEPT ![n] = IF answer[n].is = "text" THEN "text"
                                   ELSE IF MayBeSilent(n) THEN "silent" ELSE "audio"]
    /\ UNCHANGED <<ownerVars, threadVars, tx, where, dying, revived, said, answer, upsets>>

-----------------------------------------------------------------------------
(* The thread.                                                             *)

\* The next command.  An engine that is not the chosen one, or whose files are
\* gone, goes; `engine` is from here on the one that loads.
Takes ==
    /\ at = "idle" /\ queue # <<>> /\ queue' = Tail(queue) /\ stream' = Fresh
    /\ LET cmd == Head(queue)
           kept == engine = chosen /\ chosen \in files
       IN
       /\ engine' = IF chosen \in files THEN chosen ELSE Nothing
       /\ at' = IF chosen \in files /\ ~kept THEN "load"
                ELSE IF cmd = "warm" THEN "idle" ELSE IF kept THEN "run" ELSE "refuse"
       /\ task' = IF at' = "idle" THEN Nothing ELSE cmd
       /\ where' = IF kept THEN where ELSE IF chosen \in files THEN "loading" ELSE "unloaded"
    /\ UNCHANGED <<ownerVars, tx, dying, revived, hold, said, answer, upsets>>

Loads ==
    /\ at = "load"
    /\ \/ where' = "ready" /\ UNCHANGED engine
       \/ where' = "failed" /\ engine' = Nothing
    /\ at' = IF task = "warm" THEN "idle" ELSE IF engine' = Nothing THEN "refuse" ELSE "run"
    /\ task' = IF task = "warm" THEN Nothing ELSE task
    /\ UNCHANGED <<ownerVars, tx, queue, stream, dying, revived, hold, said, answer, upsets>>

\* Five minutes without a hold.
Unloads ==
    /\ at = "idle" /\ engine # Nothing /\ queue = <<>>
    /\ engine' = Nothing /\ where' = "unloaded"
    /\ UNCHANGED <<ownerVars, tx, queue, at, task, stream, dying, revived, hold, said, answer, upsets>>

Done == at' = "idle" /\ task' = Nothing /\ stream' = Fresh /\ UNCHANGED <<queue, engine>>

\* The end of a hold as the thread hears of it: the channel's end too.
Ended(n) == hold[n] \notin {"pressed", "device"}

\* Without an engine the release is answered at once.
Refuses ==
    /\ at = "refuse" /\ Ended(task) /\ Done
    /\ IF hold[task] = "asked"
       THEN answer' = [answer EXCEPT ![task].is = "failed"] /\ hold' = [hold EXCEPT ![task] = "answered"]
       ELSE UNCHANGED <<answer, hold>>
    /\ UNCHANGED <<ownerVars, tx, where, dying, revived, said, upsets>>

-----------------------------------------------------------------------------
(* One hold, piece by piece.                                               *)

Spoken(n, from, to) == {i \in from + 1 .. to : said[n][i] = "w"}
Last(S) == CHOOSE i \in S : \A j \in S : j <= i

MinChunk == 3           \* 1.5 s
PreviewSpeech == 2      \* 1 s
PreviewEvery == 2       \* 0.7 s

\* vad::cut: the latest pause that leaves enough before it, which a word or the
\* end of the audio follows (the middle of it, to the half second); of silence
\* everything but the last moment.
Cuts(n, from, to) ==
    LET W == Spoken(n, from, to)
        Follows(a) == {b \in W : b > a}
        Between == {a \in W : Follows(a) # {} /\ a + 1 \notin W}
        Trailing == {a + ((to - a) \div 2) : a \in {x \in W : Follows(x) = {} /\ x + 2 <= to}}
    IN IF W = {} THEN {c \in {to - 1} : to - from >= MinChunk}
       ELSE {c \in Between \cup Trailing : c - from >= MinChunk}

\* A pause is cut and the piece before it is text for good.
Committed(n, s) ==
    LET C == Cuts(n, s.at, s.len) IN
    IF C = {} THEN s
    ELSE LET c == Last(C) IN
         [s EXCEPT !.text = IF Spoken(n, s.at, c) = {} THEN @ ELSE Append(@, <<s.at, c>>),
                   !.at = c, !.preview = <<0, 0>>]

\* What is left is decoded too, after enough new speech or when it stops.
Previewed(n, s) ==
    LET W == Spoken(n, s.at, s.len)
        unseen == s.preview = <<0, 0>> \/ Last(W) >= s.preview[2]
        grown == s.len >= s.preview[2] + PreviewEvery
    IN IF Cardinality(W) >= PreviewSpeech /\ unseen /\ (grown \/ Last(W) < s.len)
       THEN [s EXCEPT !.preview = <<s.at, s.len>>] ELSE s

\* Job::abandoned: the release did not wait, or the hold was dropped.
Abandoned(n) == hold[n] = "dropped" \/ answer[n].is = "late"

\* One look: what is new, or an error.
Steps ==
    /\ at = "run" /\ ~Abandoned(task) /\ ~stream.broken /\ Len(said[task]) > stream.len
    /\ LET heard == [stream EXCEPT !.len = Len(said[task])] IN
       \/ stream' = Previewed(task, Committed(task, heard))
       \/ stream' = [heard EXCEPT !.broken = TRUE]
    /\ UNCHANGED <<ownerVars, queue, at, task, engine, tx, where, dying, revived, hold, said, answer, upsets>>

\* Mutant of Covers: the preview is taken for the text whatever was said after it.
AnyPreview(s, W) == s.preview # <<0, 0>>

\* The preview holds all of the speech, and a moment of quiet after it.
Covers(s, W) == s.preview # <<0, 0>> /\ \A i \in W : i < s.preview[2]

\* finish: what is left is decoded, unless the preview is it.
Finished(n, s) ==
    LET end == Len(said[n])
        W == Spoken(n, s.at, end)
    IN IF W = {} THEN s.text ELSE Append(s.text, IF Covers(s, W) THEN s.preview ELSE <<s.at, end>>)

\* What was read, or nothing of it (a known hallucination is taken out: Vad::Speech,
\* which goes as audio as NotRun does).  Without speech, the verdict over the whole
\* recording; the detector may be unable to run.
Heard(n) ==
    LET text == Finished(n, stream) IN
    IF stream.broken THEN {[is |-> "failed", text |-> <<>>]}
    ELSE IF text # <<>> THEN {[is |-> "text", text |-> text], [is |-> "NotRun", text |-> <<>>]}
    ELSE {[is |-> "NotRun", text |-> <<>>]}
         \cup {[is |-> "Silence", text |-> <<>>] : x \in {1 : y \in 1 .. Len(said[n])}}

Finishes ==
    /\ at = "run" /\ Ended(task) /\ Done
    /\ IF hold[task] = "asked"
       THEN /\ \E a \in Heard(task) : answer' = [answer EXCEPT ![task] = a]
            /\ hold' = [hold EXCEPT ![task] = "answered"]
       ELSE UNCHANGED <<answer, hold>>
    /\ UNCHANGED <<ownerVars, tx, where, dying, revived, said, upsets>>

\* A panic ends the thread; that it is gone is said when it has unwound.
Panics ==
    /\ at \in {"load", "run"} /\ Upsets
    /\ at' = "none" /\ tx' = "shut" /\ queue' = <<>> /\ task' = Nothing /\ engine' = Nothing
    /\ stream' = Fresh /\ dying' = TRUE
    /\ UNCHANGED <<ownerVars, where, revived, hold, said, answer>>

SaysGone ==
    /\ dying /\ dying' = FALSE /\ where' = "gone"
    /\ UNCHANGED <<ownerVars, threadVars, tx, revived, hold, said, answer, upsets>>

-----------------------------------------------------------------------------
(* The owner's choice of an engine, and its files (Models).                *)

Chooses(e) ==
    /\ Upsets /\ e # chosen /\ chosen' = e
    /\ IF tx # "none" \/ e \in files THEN Sends("warm") /\ revived' = (revived \/ Found)
                                     ELSE Quiet /\ UNCHANGED revived
    /\ UNCHANGED <<files, dying, hold, said, answer>>

FilesChange(e) ==
    /\ Upsets /\ files' = IF e \in files THEN files \ {e} ELSE files \cup {e}
    /\ UNCHANGED <<chosen, threadVars, tx, where, dying, revived, hold, said, answer>>

ThreadStep == Takes \/ Loads \/ Refuses \/ Steps \/ Finishes
ReleaseStep(n) == AnswerLost(n) \/ TimesOut(n) \/ Decides(n)

SpeechNext ==
    \/ \E n \in Holds : Press(n) \/ MicOpens(n) \/ Speaks(n) \/ Release(n) \/ Drops(n) \/ ReleaseStep(n)
    \/ \E e \in Engines : Chooses(e) \/ FilesChange(e)
    \/ ThreadStep \/ Unloads \/ Panics \/ SaysGone

-----------------------------------------------------------------------------
(* Properties.                                                             *)

\* What is sent as text is what was said: every word in one piece, in order,
\* and no word in two halves, however many looks were taken at the hold, and
\* wherever in a word they fell (stream.rs, step, finish).
TextIsWhole ==
    \A n \in Holds : hold[n] = "text" =>
        LET text == answer[n].text
            In(i) == {k \in 1 .. Len(text) : text[k][1] < i /\ i <= text[k][2]}
            W == Spoken(n, 0, Len(said[n]))
        IN /\ \A i \in W : Cardinality(In(i)) = 1
           /\ \A i \in W : i + 1 \in W => In(i) = In(i + 1)
           /\ \A k \in 1 .. Len(text) - 1 : text[k][2] <= text[k + 1][1]

\* A hold with a word in it is never dropped as silence, whatever became of the
\* engine and its thread (release.rs, decide).
NeverLost == \A n \in Holds : hold[n] = "silent" => Spoken(n, 0, Len(said[n])) = {}

-----------------------------------------------------------------------------
(* Claims of the repository that the code does not keep (README.md, 8).    *)

\* Stt::engine: "Where the engine is now."  A panicked thread says "gone" after
\* its channel is found shut and another thread has loaded.
EngineIsWhereItSays == at = "idle" /\ engine # Nothing => where = "ready"
=============================================================================
