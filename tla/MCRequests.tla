----------------------------- MODULE MCRequests -----------------------------
(***************************************************************************)
(* What goes over the control stream of a link, for TLC: the requests to   *)
(* the synth (Requests) and the announcements of settings (SettingsPush);  *)
(* and how the owner's settings come about (Policy).  None reads what      *)
(* another keeps, so a behaviour is of one kind.                           *)
(*                                                                         *)
(* Two calls for one place in the table and three control streams, so that *)
(* a call is refused for want of a place and an old stream can end after   *)
(* two newer ones attached.  Two threads that change settings, so that     *)
(* announcements can cross, and three changes, so that one can come inside *)
(* the message of another.  Five commands of the owner: one more than it   *)
(* takes to finish onboarding, change a switch, pause and start again.     *)
(***************************************************************************)
EXTENDS Requests, SettingsPush, Policy

CONSTANTS c1, c2, window, island

VARIABLE kind

ControlInit == Init /\ PushInit /\ PolicyInit /\ kind \in {"requests", "settings", "policy"}

RequestsStep == kind = "requests" /\ Next /\ UNCHANGED <<kind, pushVars, policyVars>>
SettingsStep == kind = "settings" /\ PushNext /\ UNCHANGED <<kind, vars, policyVars>>
PolicyStep == kind = "policy" /\ PolicyNext /\ UNCHANGED <<kind, vars, pushVars>>

ControlSpec ==
    /\ ControlInit
    /\ [][RequestsStep \/ SettingsStep \/ PolicyStep]_<<kind, vars, pushVars, policyVars>>
    /\ TaskFairness /\ PushFairness

\* The fields of State, the watch channel, the messages and the settings have
\* their types.
ControlTypeOK == TypeOK /\ PushTypeOK /\ PolicyTypeOK

\* The owner's policy is in force and only theirs: nothing before onboarding is
\* done, a pause through a relaunch, a refused app refused, a switch by its
\* owner (commands.rs, pair_confirm, update_settings, set_developer).
PolicyIsTheOwners == NothingBeforeChosen /\ PauseSurvives /\ RefusedStays /\ SwitchesAreTheOwners

\* Nothing waits for ever: a call has its answer, a stream that serves learns
\* of the last change (requests.rs, call_within; link.rs, control_loop).
NothingWaitsForEver == CallsEnd /\ ServedCatchesUp
=============================================================================
