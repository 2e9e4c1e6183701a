------------------------------- MODULE Models -------------------------------
(***************************************************************************)
(* The speech-to-text files (island/stt/model.rs): one download at a time  *)
(* with resume and retries, the check against the pinned hash, removal.    *)
(*                                                                         *)
(* The download runs on a thread of its own, the calls that start, cancel  *)
(* and remove come from others, and the app may end anywhere: a part on    *)
(* disk may then hold anything.                                            *)
(***************************************************************************)
EXTENDS Naturals, FiniteSets

CONSTANTS
    ModelFiles,     \* the files of the set
    Size,           \* pieces of a file
    Tries           \* TRIES

ASSUME SizeAssumption == Size \in Nat \ {0} /\ Tries \in Nat \ {0}

VARIABLES
    part,       \* <name>.part: pieces (0: none), and whether they are the right ones
    file,       \* <name>
    marker,     \* files with an <name>.ok
    status, fetching, cancel,    \* Models
    starter,    \* download(), between its steps
    fetcher,    \* the thread: [at, f, try] (unseen: it writes to a part that was removed)
    words,      \* the last word of a thread that lowered the flag (bound: of one at a time)
    remover,    \* delete(): [at, left, ok] (left: the files not removed yet; ok: none refused to go)
    removed,    \* history: a delete is over, none refused, and nobody started a download since
    raced       \* history: a delete met a last word, or a start that put `cancel` back

diskVars == <<part, file, marker>>
memVars == <<status, fetching, cancel, starter, fetcher, words, remover>>
modelVars == <<diskVars, memVars, removed, raced>>

NoPart == [n |-> 0, ok |-> TRUE]
Resting == [at |-> "none", f |-> {}, try |-> 0]
NoDelete == [at |-> "none", left |-> {}, ok |-> TRUE]

ModelsTypeOK ==
    /\ part \in [ModelFiles -> [n : 0 .. Size, ok : BOOLEAN]]
    /\ file \in [ModelFiles -> {"none", "right", "wrong"}] /\ marker \subseteq ModelFiles
    /\ status \in {"missing", "downloading", "verifying", "ready", "network", "checksum", "io", "no_space"}
    /\ fetching \in BOOLEAN /\ cancel \in BOOLEAN
    /\ starter \in {"none", "asked", "swapped"}
    /\ fetcher.at \in {"none", "next", "open", "read", "unseen", "backoff", "hash", "rename", "mark", "ready",
                       "missing", "network", "checksum", "io"}
    /\ words \subseteq {"ready", "missing", "network", "checksum", "io"}
    /\ fetcher.f \subseteq ModelFiles /\ fetcher.try \in 0 .. Tries
    /\ remover.at \in {"none", "waits", "removes"} /\ remover.left \subseteq ModelFiles /\ remover.ok \in BOOLEAN
    /\ removed \in BOOLEAN /\ raced \in BOOLEAN

\* good: the right size, and marked.
Good(f) == file[f] # "none" /\ f \in marker
AllGood == \A f \in ModelFiles : Good(f)

ModelsInit ==
    /\ part = [f \in ModelFiles |-> NoPart] /\ file = [f \in ModelFiles |-> "none"] /\ marker = {}
    /\ status = "missing" /\ fetching = FALSE /\ cancel = FALSE
    /\ starter = "none" /\ fetcher = Resting /\ words = {} /\ remover = NoDelete
    /\ removed = FALSE /\ raced = FALSE

-----------------------------------------------------------------------------
(* download: nothing when it runs or the files are there.                  *)

AskDownload ==
    /\ starter = "none" /\ status # "ready" /\ starter' = "asked" /\ removed' = FALSE
    /\ UNCHANGED <<diskVars, words, status, fetching, cancel, fetcher, remover, raced>>
Going == fetching
TakeFlag ==
    /\ starter = "asked" /\ starter' = IF Going THEN "none" ELSE "swapped"
    /\ fetching' = TRUE
    /\ UNCHANGED <<diskVars, words, status, cancel, fetcher, remover, removed, raced>>
\* No folder, no space; or the thread starts (the flag of an earlier cancel
\* is put back, whoever set it); or it does not, and the status stays.
StartThread ==
    /\ starter = "swapped" /\ starter' = "none"
    /\ \/ fetching' = FALSE /\ status' \in {"io", "no_space"} /\ UNCHANGED <<cancel, fetcher>>
       \/ /\ cancel' = FALSE /\ status' = "downloading"
          /\ \/ fetcher' = [at |-> "next", f |-> {}, try |-> 0] /\ UNCHANGED fetching
             \/ fetching' = FALSE /\ UNCHANGED fetcher
    /\ raced' = (raced \/ remover.at # "none")
    /\ UNCHANGED <<diskVars, words, remover, removed>>

-----------------------------------------------------------------------------
(* The thread: fetch_all, fetch_one.                                       *)

Of(f) == fetcher.f = {f}
GoesTo(at) == fetcher' = [fetcher EXCEPT !.at = at]
threadRest == <<words, fetching, cancel, starter, remover, removed, raced>>

\* The next file that is not good; its part is there, too long or short.
NextFile ==
    /\ fetcher.at = "next"
    /\ IF AllGood
       THEN GoesTo("ready")
       ELSE \E f \in ModelFiles : ~Good(f) /\ fetcher' = [at |-> "open", f |-> {f}, try |-> fetcher.try]
    /\ UNCHANGED <<diskVars, status, threadRest>>

\* The request: the rest (206), the whole file again (200), a refused
\* range, no network.
OpenPart(f) ==
    /\ fetcher.at = "open" /\ Of(f)
    /\ IF part[f].n = Size
       THEN GoesTo("hash") /\ status' = "verifying" /\ UNCHANGED part
       ELSE /\ UNCHANGED status
            /\ \/ GoesTo("read") /\ UNCHANGED part
               \/ GoesTo("read") /\ part' = [part EXCEPT ![f] = NoPart]
               \/ part[f].n > 0 /\ GoesTo("backoff") /\ part' = [part EXCEPT ![f] = NoPart]
               \/ GoesTo("backoff") /\ UNCHANGED part
    /\ UNCHANGED <<file, marker, threadRest>>

\* A piece, more than there should be, or the end of it: the connection
\* broke (what came stays).
ReadPiece(f) ==
    /\ fetcher.at = "read" /\ Of(f)
    /\ IF cancel
       THEN GoesTo("missing") /\ UNCHANGED <<part, status>>
       ELSE \/ \E ok \in BOOLEAN :
                  /\ part[f].n < Size /\ part' = [part EXCEPT ![f] = [n |-> @.n + 1, ok |-> @.ok /\ ok]]
                  /\ IF part[f].n + 1 = Size
                     THEN GoesTo("hash") /\ status' = "verifying"
                     ELSE UNCHANGED fetcher /\ status' = "downloading"
            \/ GoesTo("checksum") /\ part' = [part EXCEPT ![f] = NoPart] /\ UNCHANGED status
            \/ \E to \in {"backoff", "io"} : GoesTo(to) /\ UNCHANGED <<part, status>>
    /\ UNCHANGED <<file, marker, threadRest>>

WritesUnseen ==
    /\ fetcher.at = "unseen" /\ \E to \in IF cancel THEN {"missing"} ELSE {"hash", "backoff"} : GoesTo(to)
    /\ UNCHANGED <<diskVars, status, threadRest>>

\* A network failure is tried again after a while.
OneMore == fetcher.try > Tries
LastTry == fetcher.try + 1 >= Tries
TryAgainLater ==
    /\ fetcher.at = "backoff"
    /\ fetcher' = [fetcher EXCEPT !.at = IF LastTry THEN "network" ELSE IF cancel THEN "missing" ELSE "open",
                                  !.try = IF LastTry THEN @ ELSE @ + 1]
    /\ UNCHANGED <<diskVars, status, threadRest>>

\* The hash of the part; what does not match is thrown away.
NotCompared(f) == TRUE
Matches(f) == part[f].ok
ThrownAway(f) == part' = [part EXCEPT ![f] = NoPart]
CheckHash(f) ==
    /\ fetcher.at = "hash" /\ Of(f)
    /\ CASE cancel -> GoesTo("missing") /\ UNCHANGED part
         [] ~cancel /\ part[f].n # Size -> GoesTo("io") /\ UNCHANGED part
         [] ~cancel /\ part[f].n = Size /\ Matches(f) -> GoesTo("rename") /\ UNCHANGED part
         [] OTHER -> GoesTo("checksum") /\ ThrownAway(f)
    /\ UNCHANGED <<file, marker, status, threadRest>>
\* The rename and the marker's write may fail.
PutInPlace(f) ==
    /\ fetcher.at = "rename" /\ Of(f)
    /\ \/ /\ part[f].n = Size
          /\ file' = [file EXCEPT ![f] = IF part[f].ok THEN "right" ELSE "wrong"]
          /\ part' = [part EXCEPT ![f] = NoPart] /\ GoesTo("mark")
       \/ GoesTo("io") /\ UNCHANGED <<file, part>>
    /\ UNCHANGED <<marker, status, threadRest>>
Mark(f) ==
    /\ fetcher.at = "mark" /\ Of(f)
    /\ \/ marker' = marker \cup {f} /\ fetcher' = [at |-> "next", f |-> {}, try |-> 0]
       \/ GoesTo("io") /\ UNCHANGED marker
    /\ UNCHANGED <<part, file, status, threadRest>>

\* The flag first, then the word.
StaysUp == UNCHANGED fetching
Lowers == fetching' = FALSE
Words == {"ready", "missing", "network", "checksum", "io"}
ThreadOver ==
    /\ fetcher.at \in Words /\ words = {}
    /\ fetcher' = Resting /\ words' = words \cup {fetcher.at} /\ Lowers
    /\ UNCHANGED <<diskVars, status, cancel, starter, remover, removed, raced>>
LastWord ==
    /\ \E w \in words : status' = w /\ words' = words \ {w}
    /\ UNCHANGED <<diskVars, fetching, cancel, starter, fetcher, remover, removed, raced>>

-----------------------------------------------------------------------------
(* cancel, delete, and the end of the app.                                 *)

Cancel ==
    /\ fetching /\ ~cancel /\ cancel' = TRUE
    /\ UNCHANGED <<diskVars, words, status, fetching, starter, fetcher, remover, removed, raced>>
LeavesItRunning == UNCHANGED cancel
StopsIt == cancel' = TRUE
AskDelete ==
    /\ remover.at = "none" /\ StopsIt /\ remover' = [at |-> "waits", left |-> ModelFiles, ok |-> TRUE]
    /\ UNCHANGED <<diskVars, words, status, fetching, starter, fetcher, removed, raced>>
\* Five seconds at most: only the network, or a hash nobody cancels, keeps
\* the thread longer.
Unwaited == TRUE
WaitIsOver == ~fetching \/ fetcher.at \in {"open", "read", "unseen", "backoff"} \/ (fetcher.at = "hash" /\ ~cancel)
DeleteGoesOn ==
    /\ remover.at = "waits" /\ WaitIsOver
    /\ remover' = [remover EXCEPT !.at = "removes"]
    /\ UNCHANGED <<diskVars, words, status, fetching, cancel, starter, fetcher, removed, raced>>
\* The file, its part and its marker; one that refuses to go stays, and the
\* caller is told.
LosesPart(f) ==
    /\ part' = [part EXCEPT ![f] = NoPart]
    /\ fetcher' = IF fetcher.at = "read" /\ Of(f) THEN [fetcher EXCEPT !.at = "unseen"] ELSE fetcher
RemovesAll(f) == marker' = marker \ {f} /\ file' = [file EXCEPT ![f] = "none"]
RemoveFile(f) ==
    /\ remover.at = "removes" /\ f \in remover.left
    /\ \/ RemovesAll(f) /\ LosesPart(f) /\ remover' = [remover EXCEPT !.left = @ \ {f}]
       \/ /\ marker' \in {marker, marker \ {f}} /\ file' \in {file, [file EXCEPT ![f] = "none"]}
          /\ LosesPart(f) \/ UNCHANGED <<part, fetcher>>
          /\ remover' = [remover EXCEPT !.left = @ \ {f}, !.ok = FALSE]
    /\ UNCHANGED <<words, status, fetching, cancel, starter, removed, raced>>
DeleteOver ==
    /\ remover.at = "removes" /\ remover.left = {}
    /\ status' = "missing" /\ remover' = NoDelete
    /\ removed' = (starter = "none" /\ remover.ok)
    /\ raced' = (raced \/ words # {})
    /\ UNCHANGED <<diskVars, words, fetching, cancel, starter, fetcher>>

\* The app ends; what was not synced to a part may be anything.
AppEndsAndStarts ==
    /\ \E bad \in SUBSET {f \in ModelFiles : part[f].n > 0} :
           part' = [f \in ModelFiles |-> IF f \in bad THEN [part[f] EXCEPT !.ok = FALSE] ELSE part[f]]
    /\ status' = IF AllGood THEN "ready" ELSE "missing"
    /\ fetching' = FALSE /\ cancel' = FALSE
    /\ starter' = "none" /\ fetcher' = Resting /\ words' = {} /\ remover' = NoDelete
    /\ removed' = FALSE /\ raced' = FALSE
    /\ UNCHANGED <<file, marker>>

-----------------------------------------------------------------------------

FetchStep ==
    \/ NextFile \/ TryAgainLater \/ WritesUnseen \/ ThreadOver \/ LastWord
    \/ \E f \in ModelFiles : OpenPart(f) \/ ReadPiece(f) \/ CheckHash(f) \/ PutInPlace(f) \/ Mark(f)
RemoveStep == DeleteGoesOn \/ DeleteOver \/ \E f \in ModelFiles : RemoveFile(f)
ModelsNext ==
    \/ AskDownload \/ TakeFlag \/ StartThread \/ FetchStep
    \/ Cancel \/ AskDelete \/ RemoveStep \/ AppEndsAndStarts

-----------------------------------------------------------------------------
(* Properties.                                                             *)

\* What counts as there is what was pinned: whatever the network sent, and
\* wherever the app ended.
GoodIsRight == \A f \in ModelFiles : Good(f) => file[f] = "right"

\* "Ready" is said of files that are there, but for a delete that ran into
\* the thread's last words or a download's start (README.md, 8).
ReadyIsThere == status = "ready" /\ ~raced /\ remover.at = "none" => AllGood

\* What was deleted stays away, also when the thread took longer than the
\* delete waits; a delete that failed said so.
DeletedStaysGone == removed /\ ~raced => \A f \in ModelFiles : file[f] = "none" /\ part[f].n = 0

\* A download comes to its end, also when it is cancelled or removed.
DownloadEnds == fetching ~> ~fetching

-----------------------------------------------------------------------------
(* Claims of the repository that the code does not keep (README.md, 8).    *)

\* Status::Ready: the files are in place.
ReadyMeansThere == status = "ready" /\ remover.at = "none" => AllGood

\* "Stop a running download."
CancelStops == [][cancel /\ fetching => cancel' \/ ~fetching']_modelVars
=============================================================================
