----------------------------- MODULE MCInstalls -----------------------------
(***************************************************************************)
(* What the app puts in place, for TLC: the recognizer's files, the driver *)
(* for computer control, the app itself, and the speech thread that uses   *)
(* the recognizer.  They share no state (of its files the thread sees only *)
(* that they are there): a behaviour is of a single kind and the states    *)
(* add up.                                                                 *)
(***************************************************************************)
EXTENDS Models, Driver, Updates, Speech

VARIABLE kind

vars == <<kind, modelVars, driverVars, updateVars, speechVars>>

Init ==
    /\ kind \in {"models", "driver", "updates", "speech"}
    /\ ModelsInit /\ DriverInit /\ UpdatesInit /\ SpeechInit
    /\ kind # "driver" => pinned = "none" /\ ~old
    \* the engines are alike
    /\ chosen = "whisper" /\ (kind # "speech" => files = {})

ModelsMove == kind = "models" /\ ModelsNext /\ UNCHANGED <<kind, driverVars, updateVars, speechVars>>
DriverMoves == kind = "driver" /\ DriverNext /\ UNCHANGED <<kind, modelVars, updateVars, speechVars>>
UpdatesMove == kind = "updates" /\ UpdatesNext /\ UNCHANGED <<kind, modelVars, driverVars, speechVars>>
SpeechMoves == kind = "speech" /\ SpeechNext /\ UNCHANGED <<kind, modelVars, driverVars, updateVars>>
Next == ModelsMove \/ DriverMoves \/ UpdatesMove \/ SpeechMoves

\* The download's thread and the start that follows its flag go on; a run of
\* ensure goes on, and its time limit comes.
Spec ==
    /\ Init /\ [][Next]_vars
    /\ WF_modelVars(kind = "models" /\ FetchStep) /\ WF_modelVars(kind = "models" /\ StartThread)
    /\ \A r \in Runs : WF_driverVars(kind = "driver" /\ RunStep(r)) /\ WF_driverVars(kind = "driver" /\ TimeLimit(r))

\* Every variable of the four modules has its type.
InstallsTypeOK == ModelsTypeOK /\ DriverTypeOK /\ UpdatesTypeOK /\ SpeechTypeOK

\* What counts as there is the pinned thing, whole: files of the recognizer,
\* the driver's copy, the app's bundle; and what is sent as text is the whole
\* of what was said (model.rs, cua_install.rs, updates.rs, stream.rs).
WholeOrAbsent ==
    /\ InstallsTypeOK
    /\ GoodIsRight /\ ReadyIsThere
    /\ OnlyThePinned /\ ReadyIsInPlace
    /\ BundleWhole
    /\ TextIsWhole

\* What the owner said stands: a removal, a quit, a pause, a hold, and what the
\* update window tells (model.rs, delete; cua_install.rs, shutdown; release.rs,
\* decide; updates.rs).
OwnerIsHeard == NeverLost /\ DeletedStaysGone /\ QuitIsHeard /\ PauseStays /\ PhaseIsTrue /\ OfferedOnly

\* What was there stays until the new one is, and a download and a run of the
\* installer end.
InstallsEnd == OldUntilNew /\ DownloadEnds /\ EnsureEnds
=============================================================================
