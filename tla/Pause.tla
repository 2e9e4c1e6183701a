------------------------------- MODULE Pause -------------------------------
(***************************************************************************)
(* The owner's pause as the streams of a link meet it: `Core::pause` sets  *)
(* the flag, stops what runs (commands, the driver's daemon) and nudges    *)
(* `control_tx`; the loop of the link (link.rs, `run_one`) sees the nudge  *)
(* and aborts every stream if the app is paused by then.  The stream       *)
(* modules extend this one.                                                *)
(***************************************************************************)
VARIABLES
    paused,     \* Shared::paused
    pausing,    \* where Core::pause stands
    nudged      \* control_rx has a change the link has not looked at

pauseVars == <<paused, pausing, nudged>>

PauseTypeOK == paused \in BOOLEAN /\ nudged \in BOOLEAN /\ pausing \in {"no", "stop", "nudge"}

PauseInit == paused = FALSE /\ pausing = "no" /\ nudged = FALSE

\* Core::pause: the flag first.
PauseFlag ==
    /\ pausing = "no" /\ ~paused
    /\ paused' = TRUE /\ pausing' = "stop"
    /\ UNCHANGED nudged

\* Core::pause: shell.stop_all and stop_cua.
PauseStops ==
    /\ pausing = "stop"
    /\ pausing' = "nudge"
    /\ UNCHANGED <<paused, nudged>>

\* Core::pause: bump_control.
PauseNudges ==
    /\ pausing = "nudge"
    /\ pausing' = "no" /\ nudged' = TRUE
    /\ UNCHANGED paused

\* Core::resume, also while a pause still waits for the daemon to stop.
Resume ==
    /\ paused
    /\ paused' = FALSE /\ nudged' = TRUE
    /\ UNCHANGED pausing

\* run_one: `control_rx.changed()`.
LinkSees ==
    /\ nudged
    /\ nudged' = FALSE
    /\ UNCHANGED <<paused, pausing>>
=============================================================================
